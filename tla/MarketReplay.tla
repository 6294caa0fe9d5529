---------------------------- MODULE MarketReplay ----------------------------
(***************************************************************************)
(* abt::MarketReplay: a day of recorded ITCH messages is published loop    *)
(* after loop, at the recorded pace from skipTo on and as fast as a rate   *)
(* limit allows before it.  Also what the exchange session does with each  *)
(* message: it packs it for the market-data feed and hands it to the venue *)
(* of its stock locate.                                                    *)
(*                                                                         *)
(* A message is [kind, sym, ts, short]: kind "R" is a stock directory,     *)
(* "M" any other; short is under 11 bytes.  What a venue does with it, and *)
(* the fills it may cause, are the subject of module Venue.                *)
(***************************************************************************)
EXTENDS Integers, Sequences, SequencesExt

CONSTANTS
  Symbols,       \* the symbols of the tape
  Venues,        \* those the venue lists
  InitialLocate, \* the locates of SessionConfig, or their defaults
  TapeLocate,    \* the locates in the tape's directory
  Configs,       \* the ReplayConfigs, with the tape for the file
  Second,        \* nanoseconds in a second, the unit of the rate limit
  PacketCap,     \* messages that fit in a packet
  Slack          \* bound: how far the clock runs between two readings

NoVenue == "none"

\* No two symbols share a locate, neither in the tape nor in the configuration.
ASSUME LocatesAssumption ==
  /\ Venues \subseteq Symbols /\ NoVenue \notin Symbols
  /\ InitialLocate \in [Venues -> Nat] /\ TapeLocate \in [Symbols -> Nat]
  /\ \A s, t \in Venues : InitialLocate[s] = InitialLocate[t] => s = t
  /\ \A s, t \in Symbols : TapeLocate[s] = TapeLocate[t] => s = t

Messages == [kind : {"R", "M"}, sym : Symbols, ts : Nat, short : BOOLEAN]

ASSUME ConfigsAssumption ==
  Configs \subseteq [tape : Seq(Messages), loops : Nat, skipTo : Nat, stopAt : Nat, nsPerNs : Nat,
                    rate : Nat, maxBatch : Nat, waitForDut : BOOLEAN]

ASSUME BoundsAssumption == PacketCap \in Nat \ {0} /\ Second \in Nat \ {0} /\ Slack \in Nat \ {0}

VARIABLES
  cfg,      \* m_cfg
  cursor,   \* messages fetched in this loop
  have,     \* m_have
  anchor,   \* m_anchored, m_anchorMono, m_anchorTs
  afap,     \* m_afapStart, m_afapSent
  loop,     \* m_progress.loop, counted as far as cfg.loops
  finished, \* m_progress.finished
  batch,    \* pump's batch
  now,      \* pump's nowMono
  clock,    \* monotonicNs
  md,       \* ExchangeSession: the open packet, and history: what left in this loop
  routes,   \* m_venueOfLocate
  locateOf, \* Venue::m_stockLocate
  resting,  \* client orders resting at the venue
  day,      \* history: the messages published in this loop
  prev,     \* history: what left in the loop before
  named     \* history: the symbols whose directory message was published

replayVars == <<cfg, cursor, have, anchor, afap, loop, finished, batch, now, clock,
                md, routes, locateOf, resting, day, prev, named>>

NoAnchor == [set |-> FALSE, mono |-> 0, ts |-> 0]
NoAfap == [start |-> 0, sent |-> 0]
Tape == cfg.tape
Cur == Tape[cursor]

-----------------------------------------------------------------------------
(***************************************************************************)
(* ExchangeSession.                                                        *)
(***************************************************************************)
FlushMarketData(m) == [packet |-> <<>>, wire |-> m.wire \o m.packet]

\* Mutant of AppendMarketData: a message that does not fit is not tried again.
AppendDropsOverflow(m, msg) ==
  IF Len(m.packet) < PacketCap
  THEN [m EXCEPT !.packet = Append(@, msg)]
  ELSE FlushMarketData(m)

AppendMarketData(m, msg) ==
  IF Len(m.packet) < PacketCap
  THEN [m EXCEPT !.packet = Append(@, msg)]
  ELSE [FlushMarketData(m) EXCEPT !.packet = <<msg>>]

\* A message about a client's order.
OrderMessage(kind, order) == [kind |-> kind, order |-> order]

\* withMarketData around messages that a venue emits.
WithMarketData(m, msgs) ==
  LET packed[n \in 0 .. Len(msgs)] ==
        IF n = 0 THEN m ELSE AppendMarketData(packed[n - 1], msgs[n])
  IN FlushMarketData(packed[Len(msgs)])

\* resetDay: the client orders are canceled, with their deletions published.
ResetDay(m) ==
  WithMarketData(m, [i \in 1 .. Len(resting) |-> OrderMessage("D", resting[i])])

\* bindDirectory.
BindDirectory(msg) ==
  LET s == msg.sym
      new == TapeLocate[s]
      old == locateOf[s]
      freed == IF routes[old] = s THEN [routes EXCEPT ![old] = NoVenue] ELSE routes
  IN IF s \in Venues /\ old # new
     THEN /\ routes' = [freed EXCEPT ![new] = s]
          /\ locateOf' = [locateOf EXCEPT ![s] = new]
     ELSE UNCHANGED <<routes, locateOf>>

\* replayMessage at time t, but for the packing, which pump may follow with a
\* flush.
ReplayMessage(msg, t) ==
  /\ day' = Append(day, [msg |-> msg, at |-> t, known |-> Venues \subseteq named,
                         venue |-> IF msg.kind = "R" THEN NoVenue
                                   ELSE routes[TapeLocate[msg.sym]]])
  /\ IF msg.kind = "R"
     THEN BindDirectory(msg) /\ named' = named \cup {msg.sym}
     ELSE UNCHANGED <<routes, locateOf, named>>

-----------------------------------------------------------------------------
(***************************************************************************)
(* MarketReplay.                                                           *)
(***************************************************************************)

\* Mutant of Restart: the next loop keeps the anchor of this one.
RestartKeepsAnchor ==
  /\ cursor' = 0
  /\ afap' = NoAfap
  /\ now' = 1 /\ clock' = 1 + clock - now
  /\ day' = <<>>
  /\ UNCHANGED anchor

\* restart.  Readings of the clock are only compared within a loop, so the
\* model's clock starts again with it.
Restart ==
  /\ cursor' = 0
  /\ anchor' = NoAnchor
  /\ afap' = NoAfap
  /\ now' = 1 /\ clock' = 1 + clock - now
  /\ day' = <<>>

\* endOfLoop; the counter of an endless replay does not matter.
EndOfLoop ==
  LET last == cfg.loops # 0 /\ loop + 1 >= cfg.loops
  IN /\ prev' = ResetDay(md).wire
     /\ md' = [packet |-> <<>>, wire |-> <<>>]
     /\ resting' = <<>>
     /\ loop' = IF cfg.loops = 0 THEN loop ELSE loop + 1
     /\ finished' = last
     /\ have' = FALSE
     /\ IF last THEN UNCHANGED <<cursor, anchor, afap, now, clock, day>> ELSE Restart
     /\ UNCHANGED <<cfg, batch, routes, locateOf, named>>

\* fetch, until the tape ends.
PumpFetches ==
  /\ ~have /\ cursor < Len(Tape)
  /\ cursor' = cursor + 1
  /\ have' = TRUE
  /\ UNCHANGED <<cfg, anchor, afap, loop, finished, batch, now, clock, md, routes, locateOf,
                 resting, day, prev, named>>

PastStop(msg) == cfg.stopAt # 0 /\ msg.ts > cfg.stopAt

PumpEnds ==
  /\ \/ ~have /\ cursor = Len(Tape)
     \/ have /\ ~Cur.short /\ PastStop(Cur)
  /\ EndOfLoop

PumpSkips ==
  /\ have /\ Cur.short
  /\ have' = FALSE
  /\ UNCHANGED <<cfg, cursor, anchor, afap, loop, finished, batch, now, clock, md, routes,
                 locateOf, resting, day, prev, named>>

\* The recorded pace starts with the first message from skipTo on.
Paced(msg) == cfg.nsPerNs > 0 /\ (cfg.skipTo = 0 \/ msg.ts >= cfg.skipTo)
Anchored ==
  IF ~anchor.set /\ Paced(Cur) THEN [set |-> TRUE, mono |-> now, ts |-> Cur.ts] ELSE anchor
RateLimited == ~Anchored.set /\ cfg.rate > 0
AfapStarted == IF RateLimited /\ afap.start = 0 THEN [start |-> now, sent |-> 0] ELSE afap

\* The time the message at hand is due.
Due ==
  IF Anchored.set
  THEN Anchored.mono + (IF Cur.ts > Anchored.ts THEN (Cur.ts - Anchored.ts) * cfg.nsPerNs ELSE 0)
  ELSE IF RateLimited /\ batch = 0 THEN AfapStarted.start + (AfapStarted.sent * Second) \div cfg.rate
  ELSE 0

Publishable == have /\ ~Cur.short /\ ~PastStop(Cur)

\* pump returns to wait for the time, which it has read once more.
PumpWaits ==
  /\ Publishable
  /\ Due > now /\ Due > clock
  /\ md' = FlushMarketData(md)
  /\ UNCHANGED <<cfg, cursor, have, anchor, afap, loop, finished, batch, now, clock, routes,
                 locateOf, resting, day, prev, named>>

\* A message is published; the last one of a batch leaves at once.
PumpPublishes(last) ==
  LET t == IF Due > now THEN clock ELSE now
      packed == AppendMarketData(md, Cur)
  IN /\ Publishable
     /\ Due <= t
     /\ last = (batch + 1 >= cfg.maxBatch)
     /\ now' = t
     /\ anchor' = Anchored
     /\ afap' = IF RateLimited THEN [AfapStarted EXCEPT !.sent = @ + 1] ELSE afap
     /\ ReplayMessage(Cur, t)
     /\ md' = IF last THEN FlushMarketData(packed) ELSE packed
     /\ have' = FALSE
     /\ batch' = batch + 1
     /\ UNCHANGED <<cfg, cursor, loop, finished, clock, resting, prev>>

ReplayInit ==
  /\ cfg \in Configs
  /\ cursor = 0 /\ have = FALSE /\ anchor = NoAnchor /\ afap = NoAfap
  /\ loop = 0 /\ finished = FALSE /\ batch = 0 /\ now = 1 /\ clock = 1
  /\ md = [packet |-> <<>>, wire |-> <<>>]
  /\ routes = [l \in Range(TapeLocate) \cup Range(InitialLocate) |->
                 IF \E s \in Venues : InitialLocate[s] = l
                 THEN CHOOSE s \in Venues : InitialLocate[s] = l ELSE NoVenue]
  /\ locateOf = InitialLocate
  /\ resting = <<>> /\ day = <<>> /\ prev = <<>> /\ named = {}
=============================================================================
