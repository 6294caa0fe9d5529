----------------------------- MODULE ReplayRun -----------------------------
(***************************************************************************)
(* The simulator's main loop (runReplay) around MarketReplay, and the      *)
(* device's side of the start (runDut with a NIC backend): the simulator   *)
(* may wait for a login before it starts, the device repeats its login     *)
(* until it is accepted, and frames get lost on the way.                   *)
(***************************************************************************)
EXTENDS MarketReplay

CONSTANTS
  OrderEntryCap, \* frames the order-entry path holds
  MaxLost,       \* bound: lost frames
  MaxOrders      \* bound: orders of the device

VARIABLES
  phase,        \* where runReplay is
  clientSeen,   \* stats.logins > 0
  toVenue,      \* frames on their way to the venue
  accepted,     \* a LoginAccepted is on its way to the device
  established,  \* the device's loggedIn
  orders,       \* orders the device sent
  losses,       \* frames lost
  stop          \* the stop signal

linkVars == <<toVenue, accepted, established, orders, losses>>
vars == <<replayVars, phase, clientSeen, linkVars, stop>>

Login == 0      \* a login request; an order is its number

-----------------------------------------------------------------------------
(***************************************************************************)
(* The simulator.                                                          *)
(***************************************************************************)

\* open, and the test of waitForDut.
SimOpens ==
  /\ phase = "Opening"
  /\ phase' = IF Tape = <<>> THEN "Ended" ELSE IF cfg.waitForDut THEN "Waiting" ELSE "Polling"
  /\ UNCHANGED <<replayVars, clientSeen, linkVars, stop>>

\* handleSoup: a login is answered; the order of an unsequenced packet enters
\* its venue's book, which publishes it.
HandleSoup(v, frame) ==
  IF frame = Login
  THEN [v EXCEPT !.logins = TRUE, !.accepted = TRUE]
  ELSE [v EXCEPT !.resting = Append(@, frame),
                 !.md = WithMarketData(@, <<OrderMessage("A", frame)>>)]

\* All that arrived, in its order.
Polled(v) ==
  LET after[n \in 0 .. Len(toVenue)] == IF n = 0 THEN v ELSE HandleSoup(after[n - 1], toVenue[n])
  IN after[Len(toVenue)]

\* pollOrderEntry, then a reading of the clock.
SimPolls ==
  LET v == Polled([logins |-> clientSeen, accepted |-> accepted, resting |-> resting, md |-> md])
  IN /\ phase \in {"Waiting", "Polling"} /\ ~stop
     /\ phase = "Waiting" => toVenue # <<>>
     /\ clientSeen' = v.logins /\ accepted' = v.accepted
     /\ resting' = v.resting /\ md' = v.md
     /\ toVenue' = <<>>
     /\ IF phase = "Waiting"
        THEN phase' = (IF v.logins THEN "Polling" ELSE "Waiting") /\ UNCHANGED <<now, batch>>
        ELSE phase' = "Pumping" /\ now' = clock /\ batch' = 0
     /\ UNCHANGED <<cfg, cursor, have, anchor, afap, loop, finished, clock, routes, locateOf,
                    day, prev, named>>
     /\ UNCHANGED <<established, orders, losses, stop>>

\* pump, one turn of its loop.
SimPumps ==
  /\ phase = "Pumping" /\ ~finished
  /\ \/ (PumpFetches \/ PumpSkips \/ PumpEnds \/ PumpPublishes(FALSE)) /\ UNCHANGED phase
     \/ (PumpWaits \/ PumpPublishes(TRUE)) /\ phase' = "Polling"
  /\ UNCHANGED <<clientSeen, linkVars, stop>>

\* The loop is left: the replay is over or the signal came.
SimEnds ==
  /\ \/ phase = "Pumping" /\ finished
     \/ phase \in {"Waiting", "Polling"} /\ stop
  /\ phase' = "Ended"
  /\ md' = FlushMarketData(md)
  /\ UNCHANGED <<cfg, cursor, have, anchor, afap, loop, finished, batch, now, clock, routes,
                 locateOf, resting, day, prev, named>>
  /\ UNCHANGED <<clientSeen, linkVars, stop>>

\* On a socket, the client closed the connection.
SimLosesClient ==
  /\ phase \in {"Waiting", "Polling"} /\ ~stop
  /\ phase' = "Ended"
  /\ md' = FlushMarketData(md)
  /\ UNCHANGED <<cfg, cursor, have, anchor, afap, loop, finished, batch, now, clock, routes,
                 locateOf, resting, day, prev, named>>
  /\ UNCHANGED <<clientSeen, linkVars, stop>>

SimThread == SimOpens \/ SimPolls \/ SimPumps \/ SimEnds

-----------------------------------------------------------------------------
(***************************************************************************)
(* The device, the wire and the clock, for as long as the simulator runs.  *)
(***************************************************************************)

\* Mutant of DutLogsIn: the login is sent once.
DutLogsInOnce ==
  /\ phase # "Ended"
  /\ ~established
  /\ orders = 0 /\ losses = 0 /\ toVenue = <<>> /\ ~clientSeen
  /\ toVenue' = Append(toVenue, Login)
  /\ UNCHANGED <<replayVars, phase, clientSeen, accepted, established, orders, losses, stop>>

\* sendLogin, at the start and after every period without an answer; a ring
\* that is full takes nothing.
DutLogsIn ==
  /\ phase # "Ended"
  /\ ~established
  /\ Len(toVenue) < OrderEntryCap
  /\ toVenue' = Append(toVenue, Login)
  /\ UNCHANGED <<replayVars, phase, clientSeen, accepted, established, orders, losses, stop>>

\* poll sees the LoginAccepted.
DutIsAccepted ==
  /\ phase # "Ended"
  /\ accepted
  /\ accepted' = FALSE
  /\ established' = TRUE
  /\ UNCHANGED <<replayVars, phase, clientSeen, toVenue, orders, losses, stop>>

\* An order; quoting does not wait for the login.
DutOrders ==
  /\ phase # "Ended"
  /\ orders < MaxOrders
  /\ Len(toVenue) < OrderEntryCap
  /\ orders' = orders + 1
  /\ toVenue' = Append(toVenue, orders + 1)
  /\ UNCHANGED <<replayVars, phase, clientSeen, accepted, established, losses, stop>>

FrameLost ==
  /\ phase # "Ended"
  /\ losses < MaxLost
  /\ losses' = losses + 1
  /\ \/ toVenue # <<>> /\ toVenue' = Tail(toVenue) /\ UNCHANGED accepted
     \/ accepted /\ accepted' = FALSE /\ UNCHANGED toVenue
  /\ UNCHANGED <<replayVars, phase, clientSeen, established, orders, stop>>

Tick ==
  /\ clock < now + Slack
  /\ phase \in {"Polling", "Pumping"}
  /\ clock' = clock + 1
  /\ UNCHANGED <<cfg, cursor, have, anchor, afap, loop, finished, batch, now, md, routes,
                 locateOf, resting, day, prev, named>>
  /\ UNCHANGED <<phase, clientSeen, linkVars, stop>>

StopSignal ==
  /\ phase # "Ended"
  /\ ~stop
  /\ stop' = TRUE
  /\ UNCHANGED <<replayVars, phase, clientSeen, linkVars>>

Init ==
  /\ ReplayInit
  /\ phase = "Opening" /\ clientSeen = FALSE
  /\ toVenue = <<>> /\ accepted = FALSE /\ established = FALSE
  /\ orders = 0 /\ losses = 0 /\ stop = FALSE

Next ==
  \/ SimOpens \/ SimPolls \/ SimPumps \/ SimEnds \/ SimLosesClient
  \/ DutLogsIn \/ DutIsAccepted \/ DutOrders
  \/ FrameLost \/ Tick \/ StopSignal

\* Both programs spin and time passes; of losses, orders and the signal nothing
\* is assumed.
Spec ==
  /\ Init /\ [][Next]_vars
  /\ WF_vars(SimThread) /\ WF_vars(DutLogsIn) /\ WF_vars(DutIsAccepted) /\ WF_vars(Tick)

-----------------------------------------------------------------------------
(***************************************************************************)
(* Properties.                                                             *)
(***************************************************************************)

\* What is left of the first n members of a sequence when only those at the
\* indices in "keep" are taken.
Kept(s, keep) ==
  LET kept[n \in 0 .. Len(s)] ==
        IF n = 0 THEN << >> ELSE IF n \in keep THEN Append(kept[n - 1], s[n]) ELSE kept[n - 1]
  IN kept

\* What a loop has to publish: all messages of full length before the first one
\* past stopAt.
Stops(i) == ~Tape[i].short /\ PastStop(Tape[i])
Wanted == {i \in DOMAIN Tape : ~Tape[i].short /\ ~\E j \in 1 .. i : Stops(j)}
TapeDay == Kept(Tape, Wanted)[Len(Tape)]

OfKind(s, kinds) == Kept(s, {i \in DOMAIN s : s[i].kind \in kinds})[Len(s)]
OfTape(s) == OfKind(s, {"R", "M"})
OfOrder(s, kind) == OfKind(s, {kind})

\* A loop publishes its part of the tape, whole, once and in order, however the
\* pump's batches, waits and packets fall and whatever the orders of the device
\* add in between; nothing lies in an open packet while the simulator does
\* something else than pump; at the end of a loop every order published is
\* deleted again; and once the directory names the listed symbols, each message
\* reaches the venue of its own symbol and no other.
StreamIsTape ==
  LET out == md.wire \o md.packet
  IN /\ OfTape(out) = [i \in DOMAIN day |-> day[i].msg] \/ (finished /\ out = <<>>)
     /\ IsPrefix([i \in DOMAIN day |-> day[i].msg], TapeDay)
     /\ phase # "Pumping" => md.packet = <<>>
     /\ prev # <<>> =>
          /\ OfTape(prev) = TapeDay
          /\ Len(OfOrder(prev, "A")) = Len(OfOrder(prev, "D"))
     /\ \A i \in DOMAIN day :
          (day[i].known /\ day[i].msg.kind = "M") =>
            day[i].venue = IF day[i].msg.sym \in Venues THEN day[i].msg.sym ELSE NoVenue

\* A loop keeps the tape's pace: no message comes earlier, relative to the first
\* one from skipTo on, than it was recorded, and those before it never get more
\* than one batch ahead of the rate limit.
Fast(i) == ~\E j \in 1 .. i : Paced(day[j].msg)
BatchSize == IF cfg.maxBatch = 0 THEN 1 ELSE cfg.maxBatch
ReplayPaced ==
  \A i \in DOMAIN day :
    IF Fast(i)
    THEN cfg.rate > 0 => (i - BatchSize) * Second < (day[i].at - day[1].at + 1) * cfg.rate
    ELSE LET first == CHOOSE j \in 1 .. i : Paced(day[j].msg) /\ ~\E k \in 1 .. j - 1 : Paced(day[k].msg)
         IN day[i].at - day[first].at >= (day[i].msg.ts - day[first].msg.ts) * cfg.nsPerNs

\* A replay of some loops ends, a signal ends any replay, and the device is
\* logged in unless the simulator has ended first: lost logins and lost answers
\* are made up for.  The exception is an endless replay with nothing to publish,
\* whose pump never returns.
Barren == cfg.loops = 0 /\ TapeDay = <<>> /\ phase = "Pumping"
SessionRuns ==
  /\ (cfg.loops # 0 \/ stop) ~> (phase = "Ended" \/ Barren)
  /\ <>(established \/ phase = "Ended" \/ Barren)
=============================================================================
