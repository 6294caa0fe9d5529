----------------------------- MODULE OrderEntry -----------------------------
(***************************************************************************)
(* The order-entry session: the OrderManager of the device under test and  *)
(* the venues of the exchange simulator, joined by the two directions of   *)
(* the OUCH session.  Both directions keep the order of messages (a TCP    *)
(* stream, or the frames of a point-to-point UDP link).  A message may be  *)
(* lost: a request when sendOrder finds no transmit buffer or the socket   *)
(* queue is full, an answer when ExchangeSession::sendFrame cannot send,   *)
(* either one on the UDP link.                                             *)
(*                                                                         *)
(* The strategy is any source of targets: a quote on both sides that does  *)
(* not cross itself, or none.                                              *)
(***************************************************************************)
EXTENDS OrderManager, Venue

CONSTANTS
  Prices,     \* the prices the strategy and the tape use
  TapeQtys,   \* the quantities of tape messages
  MaxTape,    \* bound: tape messages
  MaxTests,   \* bound: test orders
  MaxLost,    \* bound: messages lost
  MaxResets,  \* bound: ends of day
  MaxEvents   \* bound: the four together

ASSUME PricesAssumption == Prices \subseteq Nat \ {0}
ASSUME TapeQtysAssumption == TapeQtys \subseteq Nat \ {0}

VARIABLES
  oe,         \* the OUCH requests under way to the venue
  tape,       \* tape messages so far, also the last tape reference given
  resets,     \* ends of day so far
  lost,       \* messages lost so far
  outOfStep   \* history: a side was sent a request while the other one waited,
              \* or the venue refused one

entryVars == <<oe, tape, resets, lost, outOfStep>>
vars == <<omsVars, venueVars, entryVars>>

\* What QuoterStrategy::onBook asks for.
Targets == {[Buy |-> NoQuote, Sell |-> NoQuote]} \cup
           {t \in [Sides -> Prices] : t["Buy"] < t["Sell"]}

\* The bounded events so far.
TestsSent == Cardinality({r \in DOMAIN owner : owner[r] = TestKey})
Events == tape + TestsSent + lost + resets

Pending(s) == s.state \notin {"Idle", "Live"}

\* Some of msgs, at most two, are sent in their order; the others are lost.
Sent(msgs) ==
  \E kept \in SUBSET DOMAIN msgs :
    LET part(i) == IF i \in kept THEN <<msgs[i]>> ELSE << >>
    IN /\ lost' = lost + Len(msgs) - Cardinality(kept)
       /\ lost' <= MaxLost /\ Events + lost' - lost <= MaxEvents
       /\ oe' = oe \o part(1) \o part(2)

\* The quote step of DutSession::applyPacket: reconcile and send.
Quote(sym, t) ==
  /\ Reconcile(sym, t)
  /\ Sent(Requests(sym, t))
  /\ outOfStep' = \/ outOfStep
                   \/ /\ Requests(sym, t) # << >>
                      /\ \E d \in Sides : Pending(slots[<<sym, d>>])
  /\ UNCHANGED <<venueVars, tape, resets>>

\* DutSession::sendTestOrder.
SendTestOrder ==
  /\ TestsSent < MaxTests /\ Events < MaxEvents
  /\ EncodeTestOrder
  /\ Sent(<<EnterOrder(nextRef, TestKey, 1, 1)>>)
  /\ UNCHANGED <<venueVars, tape, resets, outOfStep>>

Refused(a) == a.type = "Rejected" /\ owner[a.ref] # TestKey

\* ExchangeSession::pollOrderEntry takes the next request.
PollOrderEntry ==
  /\ oe # << >>
  /\ DispatchOuch(Head(oe))
  /\ oe' = Tail(oe)
  /\ outOfStep' = (outOfStep \/ \E i \in DOMAIN acks' : Refused(acks'[i]))
  /\ UNCHANGED <<omsVars, tape, resets, lost>>

\* DutSession::applyAck of the next answer.
ApplyAck ==
  /\ acks # << >>
  /\ OnAck(Head(acks))
  /\ acks' = Tail(acks)
  /\ UNCHANGED <<book, routes, selfTrades, traded, entryVars>>

LoseAck ==
  /\ acks # << >>
  /\ lost < MaxLost /\ Events < MaxEvents
  /\ lost' = lost + 1
  /\ acks' = Tail(acks)
  /\ UNCHANGED <<book, routes, selfTrades, traded, omsVars, oe, tape, resets, outOfStep>>

\* ExchangeSession::mirror of the next tape message.
Mirror ==
  /\ tape < MaxTape /\ Events < MaxEvents
  /\ tape' = tape + 1
  /\ \E sym \in Syms, side \in Sides :
       \/ \E p \in Prices, q \in TapeQtys :
            MirrorAdd(sym, side, Order(tape', FALSE, p, q))
       \/ \E i \in DOMAIN book[sym][side] :
            \/ \E q \in TapeQtys : MirrorExecute(sym, side, i, q)
            \/ \E q \in TapeQtys : MirrorCancel(sym, side, i, q)
            \/ MirrorDelete(sym, side, i)
            \/ \E p \in Prices, q \in TapeQtys :
                 MirrorReplace(sym, side, i, Order(tape', FALSE, p, q))
  /\ UNCHANGED <<omsVars, oe, resets, lost, outOfStep>>

\* MarketReplay::endOfLoop: the venues' day ends.
EndOfLoop ==
  /\ resets < MaxResets /\ Events < MaxEvents
  /\ resets' = resets + 1
  /\ ResetDay
  /\ UNCHANGED <<omsVars, oe, tape, lost, outOfStep>>

Init ==
  /\ OmsInit
  /\ VenueInit
  /\ oe = << >>
  /\ tape = 0
  /\ resets = 0
  /\ lost = 0
  /\ outOfStep = FALSE

Next ==
  \/ \E sym \in Syms, t \in Targets : Quote(sym, t)
  \/ SendTestOrder
  \/ PollOrderEntry
  \/ ApplyAck
  \/ LoseAck
  \/ Mirror
  \/ EndOfLoop

Spec == Init /\ [][Next]_vars

(***************************************************************************)
(* Both ends poll for ever: the simulator's run loop calls pollOrderEntry  *)
(* and the device's hot loop reads every answer that has arrived.          *)
(***************************************************************************)
FairSpec == Spec /\ WF_vars(PollOrderEntry) /\ WF_vars(ApplyAck)

-----------------------------------------------------------------------------
(***************************************************************************)
(* Properties.                                                             *)
(***************************************************************************)

\* The client orders of a key that the venues hold.
Held(k) == {o \in ClientOrders : o.id \in DOMAIN owner /\ owner[o.id] = k}

\* The device never loses sight of an order it has at the venue: the reference
\* of every client order is the userRef or the pendingRef of the slot that
\* sent it, whatever is lost, filled, rejected or cancelled at the end of the
\* day.  An order no slot knows could never be cancelled.
NoOrphans ==
  \A o \in ClientOrders :
    \E k \in Key : o.id \in {slots[k].userRef, slots[k].pendingRef} /\ owner[o.id] = k

\* The venues never hold two orders of one symbol and side, although a
\* replacement and the order it replaces are two references of one slot.
OneOrderPerSide ==
  \A s \in Syms, d \in Sides : Cardinality(Clients(book[s][d])) <= 1

\* As long as no message is lost the position account is exact: it is the net
\* quantity the client traded at the venues, less the fills whose Executed is
\* still on its way.
PositionExact ==
  lost = 0 => \A s \in Syms :
    position[s] = traded[s] -
      SumOf([i \in DOMAIN acks |->
               IF acks[i].type = "Executed" /\ owner[acks[i].ref][1] = s
               THEN Signed(owner[acks[i].ref][2], acks[i].qty) ELSE 0])

\* The device never has two requests of one quote under way, and a slot is
\* pending exactly while its request or the answer to it is, as long as nothing
\* is lost and the venue cancels nothing unasked at the end of a day.
OneRequestOutstanding ==
  lost = 0 /\ resets = 0 => \A k \in Key :
    LET asked == {i \in DOMAIN oe : owner[oe[i].ref] = k}
        answered == {i \in DOMAIN acks : acks[i].type # "Executed" /\ owner[acks[i].ref] = k}
    IN Cardinality(asked) + Cardinality(answered) = IF Pending(slots[k]) THEN 1 ELSE 0

\* With nothing under way and nothing lost, the slots say exactly what rests at
\* the venues: no slot waits for an answer, a live slot has its order, at its
\* price and with its leaves, and an idle slot has none.
QuietAgreement ==
  lost = 0 /\ oe = << >> /\ acks = << >> =>
    \A k \in Key :
      \/ slots[k] = Settled /\ Held(k) = {}
      \/ /\ slots[k].state = "Live"
         /\ {[ref |-> o.id, price |-> o.price, leaves |-> o.qty] : o \in Held(k)} =
            {[ref |-> slots[k].userRef, price |-> slots[k].price, leaves |-> slots[k].leaves]}

\* The manager recognises every answer, unless an answer was lost or a day
\* ended: then a request that crossed the venue's Canceled on the way is
\* answered for a slot that has already settled.  (A test order is recognised by
\* its ring entry, which a ring as long as the code's still has.)
UnknownNeedsDisruption == unknown > 0 => resets > 0 \/ lost > 0

\* A cancel or replace of an order that rests is dispatched to the venue where
\* it rests, however many other references have passed through the same entry
\* of m_refVenue since.
RoutesFindOrders ==
  \A s \in Syms, d \in Sides : \A i \in Clients(book[s][d]) :
    VenueForUserRef(book[s][d][i].id) = s

\* The device trades with itself only when one side is not where reconcile
\* believes it: it was waiting for an answer when the other side was sent a
\* request, a request was refused, or one was lost.  Otherwise reconcile's choice
\* of which side goes first keeps two quotes from meeting.
SelfTradeNeedsDisorder == selfTrades > 0 => outOfStep \/ lost > 0

\* Every request is answered and every answer is handled, so a slot does not
\* stay pending for ever.
PendingResolves ==
  \A k \in Key : Pending(slots[k]) ~> ~Pending(slots[k])
=============================================================================
