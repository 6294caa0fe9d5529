----------------------------- MODULE DutQuoting -----------------------------
(***************************************************************************)
(* DutSession's quoting loop: what market data makes the hot thread of the *)
(* device under test ask of its OrderManager, and what the answers make it *)
(* forget.  It replaces the arbitrary targets of OrderEntry by the ones    *)
(* that applyPacket, applyAck and QuoterStrategy compute.                  *)
(*                                                                         *)
(* A hot book is reduced to the micro-price the strategy reads from its    *)
(* top: fair = f stands for a fair value strictly between the ticks f and  *)
(* f + 1, and NoFair for a book without two sides.  The open interval      *)
(* (m_fairLo, m_fairHi) that the strategy remembers is then one such f; a  *)
(* fair value exactly on a tick, for which that interval is empty, is not  *)
(* represented.  The skew is a whole number of ticks.  m_topSeen is kept   *)
(* as the one thing the loop asks of it between packets, whether it is     *)
(* kDirtyTop.  Fills come from the tape, independently of the fair value.  *)
(***************************************************************************)
EXTENDS OrderEntry

CONSTANTS
  Fairs,      \* the fair values that occur
  HalfSpread, \* QuoterConfig::halfSpreadTicks
  SkewTicks,  \* QuoterConfig::skewTicksPerUnit
  BandLow,    \* BookBuilder::bandLow of a hot book
  BandHigh,   \* BookBuilder::bandHigh of a hot book
  HoursOnly,  \* DutConfig::marketHoursOnly
  MaxPackets  \* bound: market-data packets

ASSUME HoursOnlyAssumption == HoursOnly \in BOOLEAN

VARIABLES
  fair,       \* the fair value of each hot book
  trading,    \* HotSymbol::trading
  feedValid,  \* m_feedValid
  marketOpen, \* m_marketOpen
  mem,        \* QuoterStrategy::m_fairLo and m_fairHi, by symbol
  dirty,      \* m_topSeen[sym] = kDirtyTop
  reconcileAll, \* m_reconcileAll, between packets
  todo,       \* the symbols the loop over m_reconcileAll still has to quote
  packets     \* packets handled

dutVars == <<fair, trading, feedValid, marketOpen, mem, dirty, reconcileAll, todo, packets>>
allVars == <<vars, dutVars>>

NoFair == 0
NoMem == [fair |-> NoFair, pos |-> 0, target |-> [Buy |-> NoQuote, Sell |-> NoQuote]]
NoTarget == [Buy |-> NoQuote, Sell |-> NoQuote]

-----------------------------------------------------------------------------
(***************************************************************************)
(* QuoterStrategy::onBook.                                                 *)
(***************************************************************************)
Max2(a, b) == IF a > b THEN a ELSE b
Clamp(p) == IF p < BandLow THEN BandLow ELSE IF p > BandHigh THEN BandHigh ELSE p

\* Mutant of RawTarget: the ask is rounded down, like the bid.
RawTargetAskDown(f, pos) ==
  LET skew == -(pos * SkewTicks)
  IN [Buy |-> Max2(BandLow, f - HalfSpread + skew),
      Sell |-> Max2(BandLow, f + HalfSpread + skew)]

\* The two prices before they are clamped; rounding never goes below the band.
RawTarget(f, pos) ==
  LET skew == -(pos * SkewTicks)
  IN [Buy |-> Max2(BandLow, f - HalfSpread + skew),
      Sell |-> Max2(BandLow, f + 1 + HalfSpread + skew)]

\* The interval is kept only for a quote that touches no edge of the band.
Plain(raw) ==
  /\ raw["Buy"] > BandLow
  /\ raw["Buy"] < raw["Sell"]
  /\ raw["Sell"] <= BandHigh

Target(f, pos) ==
  LET raw == RawTarget(f, pos)
      bid == IF raw["Buy"] >= raw["Sell"] THEN raw["Sell"] - 1 ELSE raw["Buy"]
  IN [Buy |-> Clamp(bid), Sell |-> Clamp(raw["Sell"])]

\* What m_fairLo and m_fairHi stand for once the target is computed: the fair
\* values for which it is the target, and the position whose skew it has.
Remembered(f, pos) ==
  IF Plain(RawTarget(f, pos)) THEN [fair |-> f, pos |-> pos, target |-> Target(f, pos)]
  ELSE NoMem

-----------------------------------------------------------------------------
(***************************************************************************)
(* DutSession.                                                             *)
(***************************************************************************)

\* Mutant of TradingAllowed: market hours are not looked at.
TradingAllowedAllDay(valid, open, tradable) == valid /\ (~HoursOnly \/ tradable)

TradingAllowed(valid, open, tradable) == valid /\ (~HoursOnly \/ (open /\ tradable))

\* No request is made; the order-entry session stays as it is.
NoRequest == UNCHANGED vars

(***************************************************************************)
(* The quote lambda of applyPacket for a book at f whose strategy          *)
(* remembers m: no request when the fair value is inside the remembered    *)
(* interval, otherwise reconcile and send.                                 *)
(***************************************************************************)
QuoteHot(sym, f, m, allowed) ==
  /\ dirty' = [dirty EXCEPT ![sym] = FALSE]
  /\ \/ /\ allowed /\ f # NoFair /\ m.fair = f
        /\ mem' = [mem EXCEPT ![sym] = m]
        /\ NoRequest
     \/ /\ allowed /\ f # NoFair /\ m.fair # f
        /\ mem' = [mem EXCEPT ![sym] = Remembered(f, position[sym])]
        /\ Quote(sym, Target(f, position[sym]))
     \/ /\ ~allowed \/ f = NoFair
        /\ mem' = [mem EXCEPT ![sym] = NoMem]
        /\ Quote(sym, NoTarget)

Between == todo = {} /\ packets < MaxPackets

\* The packet is counted, and the loop over all symbols at its end runs when
\* m_reconcileAll is set, by one of its messages ("all") or before it.
NextPacket(all) ==
  /\ packets' = packets + 1
  /\ todo' = IF all \/ reconcileAll THEN Syms ELSE {}
  /\ reconcileAll' = FALSE

(***************************************************************************)
(* applyPacket with a message for the book of sym, after which the fair    *)
(* value is f.  topMoved says whether m_topVersion changed: it must when   *)
(* the fair value did.  The strategy is asked when the top is not the one  *)
(* seen, and forgets its interval first when the top was marked dirty.     *)
(***************************************************************************)
BookPacket(sym, f, topMoved) ==
  /\ Between /\ NextPacket(FALSE)
  /\ feedValid
  /\ f # fair[sym] => topMoved
  /\ topMoved \/ dirty[sym]
  /\ fair' = [fair EXCEPT ![sym] = f]
  /\ QuoteHot(sym, f, IF dirty[sym] THEN NoMem ELSE mem[sym],
              TradingAllowed(feedValid, marketOpen, trading[sym]))
  /\ UNCHANGED <<trading, feedValid, marketOpen>>

\* applyPacket with a StockTradingAction: BookTable::apply records the state
\* and the top of the book stays the same.
TradingActionPacket(sym, state) ==
  /\ Between /\ NextPacket(FALSE)
  /\ feedValid
  /\ trading' = [trading EXCEPT ![sym] = state]
  /\ IF dirty[sym]
     THEN QuoteHot(sym, fair[sym], NoMem, TradingAllowed(feedValid, marketOpen, state))
     ELSE NoRequest /\ UNCHANGED <<mem, dirty>>
  /\ UNCHANGED <<fair, feedValid, marketOpen>>

\* applyPacket with no message that concerns a hot book.
OtherPacket ==
  /\ Between /\ NextPacket(FALSE)
  /\ reconcileAll
  /\ NoRequest
  /\ UNCHANGED <<fair, trading, feedValid, marketOpen, mem, dirty>>

\* BookTable::clearAll.
ClearAll ==
  /\ fair' = [s \in Syms |-> NoFair]
  /\ trading' = [s \in Syms |-> TRUE]

\* The messages make no request; the quotes follow in the loop over all symbols.
QuotesFollow == NoRequest /\ UNCHANGED <<mem, dirty>>

\* applyPacket with a packet behind a gap: invalidateFeed, and its messages
\* are not applied.
GapPacket ==
  /\ Between /\ NextPacket(TRUE)
  /\ feedValid' = FALSE
  /\ ClearAll
  /\ QuotesFollow
  /\ UNCHANGED marketOpen

\* onSystemEvent.
StartOfMessages ==
  /\ Between /\ NextPacket(TRUE)
  /\ feedValid' = TRUE
  /\ marketOpen' = FALSE
  /\ ClearAll
  /\ QuotesFollow

\* A day has one StartOfMarketHours after its StartOfMessages; the device may
\* have missed the latter only behind a gap.
StartOfMarketHours ==
  /\ Between /\ NextPacket(TRUE)
  /\ ~marketOpen \/ ~feedValid
  /\ marketOpen' = TRUE
  /\ QuotesFollow
  /\ UNCHANGED <<fair, trading, feedValid>>

EndOfMarketHours ==
  /\ Between /\ NextPacket(TRUE)
  /\ marketOpen' = FALSE
  /\ QuotesFollow
  /\ UNCHANGED <<fair, trading, feedValid>>

\* One turn of the loop over m_reconcileAll at the end of applyPacket.
QuoteNext(sym) ==
  /\ sym \in todo
  /\ todo' = todo \ {sym}
  /\ QuoteHot(sym, fair[sym], mem[sym], TradingAllowed(feedValid, marketOpen, trading[sym]))
  /\ UNCHANGED <<fair, trading, feedValid, marketOpen, reconcileAll, packets>>

\* warmQuotePath, which runDut's loop calls while the market is closed: the
\* strategies forget, and the next packet quotes every symbol.
WarmQuotePath ==
  /\ todo = {}
  /\ ~marketOpen
  /\ mem' = [s \in Syms |-> NoMem]
  /\ reconcileAll' = TRUE
  /\ NoRequest
  /\ UNCHANGED <<fair, trading, feedValid, marketOpen, dirty, todo, packets>>

\* Mutant of Marked: a fill does not mark the top.
MarkedNotByFills(a) == IF a.type = "Executed" THEN {} ELSE AckSym(a)

\* The symbols whose top applyAck marks dirty.
Marked(a) == AckSym(a)

\* applyAck, between two packets.
HandleAck ==
  /\ todo = {}
  /\ ApplyAck
  /\ dirty' = [s \in Syms |-> dirty[s] \/ s \in Marked(Head(acks))]
  /\ UNCHANGED <<fair, trading, feedValid, marketOpen, mem, reconcileAll, todo, packets>>

VenueStep == (PollOrderEntry \/ Mirror) /\ UNCHANGED dutVars

DutInit ==
  /\ Init
  /\ fair = [s \in Syms |-> NoFair]
  /\ trading = [s \in Syms |-> TRUE]
  /\ feedValid = TRUE
  /\ marketOpen = FALSE
  /\ mem = [s \in Syms |-> NoMem]
  /\ dirty = [s \in Syms |-> FALSE]
  /\ reconcileAll = FALSE
  /\ todo = {}
  /\ packets = 0

DutNext ==
  \/ \E sym \in Syms, f \in Fairs \cup {NoFair}, moved \in BOOLEAN : BookPacket(sym, f, moved)
  \/ \E sym \in Syms, state \in BOOLEAN : TradingActionPacket(sym, state)
  \/ GapPacket
  \/ StartOfMessages
  \/ StartOfMarketHours
  \/ EndOfMarketHours
  \/ OtherPacket
  \/ \E sym \in Syms : QuoteNext(sym)
  \/ WarmQuotePath
  \/ HandleAck
  \/ VenueStep

DutSpec == DutInit /\ [][DutNext]_allVars

-----------------------------------------------------------------------------
(***************************************************************************)
(* Properties.                                                             *)
(***************************************************************************)
Quiet == oe = << >> /\ acks = << >> /\ todo = {}
Allowed(sym) == TradingAllowed(feedValid, marketOpen, trading[sym])

\* The quoting loop implements the order-entry session: every request it makes
\* is one the session was checked with, so what holds there holds here.
ImplementsOrderEntry == Spec

\* A strategy that still trusts its interval computed it with the position it
\* has now: a fill always marks the top, so that the next packet quotes with
\* the new skew.  Quoting at all hours breaks this: a market-hours event then
\* runs the loop over all symbols while trading is allowed, and that loop takes
\* the mark away without making the strategy forget.
MemoryTracksPosition ==
  HoursOnly => \A s \in Syms : mem[s] # NoMem /\ ~dirty[s] => mem[s].pos = position[s]

\* From a gap to the next StartOfMessages, and outside market hours, the only
\* requests sent are cancels.
OnlyCancelsWhenStopped ==
  [][\A i \in (Len(oe) + 1) .. Len(oe') :
       oe'[i].type = "CancelOrder" \/ (feedValid' /\ (HoursOnly => marketOpen'))]_allVars

\* "m_fairLo and m_fairHi bound the fair values that round to the quote already
\* resting": with nothing under way and no marked top, the quotes that rest
\* are the ones the strategy remembers.
RememberedIsResting ==
  Quiet => \A s \in Syms :
    mem[s] # NoMem /\ ~dirty[s] =>
      \A d \in Sides : slots[<<s, d>>].state = "Live" /\ slots[<<s, d>>].price = mem[s].target[d]

\* A StockTradingAction that halts a symbol cancels its quotes: with nothing
\* under way and no marked top, a halted symbol has no live quote.
HaltedHasNoQuote ==
  Quiet => \A s \in Syms, d \in Sides :
    ~trading[s] /\ ~dirty[s] => slots[<<s, d>>].state # "Live"

\* "book invalidated and quoting stopped until the next StartOfMessages": with
\* nothing under way, no quote is live while the feed is invalid.
NoQuoteOnInvalidFeed ==
  Quiet /\ ~feedValid => \A k \in Key : slots[k].state # "Live"
=============================================================================
