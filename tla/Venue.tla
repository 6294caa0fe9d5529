------------------------------- MODULE Venue -------------------------------
(***************************************************************************)
(* The exchange simulator's matching side: one Venue per symbol around a   *)
(* price-time OrderBook, and ExchangeSession, which routes each OUCH       *)
(* request to a venue.  Client orders come from the device under test;     *)
(* tape orders mirror the recorded market data being replayed.             *)
(*                                                                         *)
(* One side of a book is the sequence of its resting orders, best price    *)
(* first and oldest first within a price: the order in which OrderBook's   *)
(* price levels and their FIFO lists are walked.  A client order is known  *)
(* by its user reference and a tape order by its tape reference, so that   *)
(* m_live, m_byUserRef and m_clientRefs are all read off the book.  Client *)
(* fills that the code pays in the order of m_clientRefs are paid in book  *)
(* order here; the two agree because a side never holds two client orders  *)
(* (OneOrderPerSide in OrderEntry).  What the venue publishes about all     *)
(* this is in VenueFeed.                                                   *)
(***************************************************************************)
EXTENDS Ouch, SequencesExt, FiniteSets

CONSTANTS
  Band,       \* the valid prices of validPrice
  VenueRing   \* ExchangeSession::kRefRing, the size of m_refVenue

ASSUME SymsFinite == IsFiniteSet(Syms)
ASSUME BandAssumption == Band \subseteq Nat \ {0}
ASSUME VenueRingAssumption == VenueRing \in Nat \ {0}

VARIABLES
  book,       \* m_engine, m_live, m_byUserRef and m_clientRefs, by symbol and side
  routes,     \* m_refVenue: a ring of hints from a user reference to its venue
  acks,       \* the OUCH answers under way to the client
  selfTrades, \* MirrorStats::selfTrades
  traded      \* history: shares the client bought less shares it sold, by symbol

venueVars == <<book, routes, acks, selfTrades, traded>>

\* The sums of the first numbers of a sequence, and of all of them.
Sums(f) == LET sum[n \in 0 .. Len(f)] == IF n = 0 THEN 0 ELSE sum[n - 1] + f[n] IN sum
SumOf(f) == Sums(f)[Len(f)]

\* The orders of a side whose index is in "keep", in their order.
Chosen(rest, keep) ==
  FlattenSeq([i \in DOMAIN rest |-> IF i \in keep THEN <<rest[i]>> ELSE << >>])

Order(id, client, price, qty) == [id |-> id, client |-> client, price |-> price, qty |-> qty]

-----------------------------------------------------------------------------
(***************************************************************************)
(* The order book.                                                         *)
(***************************************************************************)

\* An order on this side at price p is reached no later than one at price q.
NoWorse(side, p, q) == IF side = "Buy" THEN p >= q ELSE p <= q

\* OrderBook::rest: behind every order of its price or a better one.
Rest(side, rest, o) ==
  InsertAt(rest, 1 + Cardinality({i \in DOMAIN rest : NoWorse(side, rest[i].price, o.price)}), o)

(***************************************************************************)
(* How qty shares are dealt out, in book order, to the orders of rest      *)
(* whose index is eligible: OrderBook::match over matchLevel with the      *)
(* crossing orders, crossClients and shadowFill with the client orders     *)
(* they pick.                                                              *)
(***************************************************************************)
Fills(rest, eligible, qty) ==
  LET open == [i \in DOMAIN rest |-> IF i \in eligible THEN rest[i].qty ELSE 0]
      before(i) == Sums(open)[i - 1]
  IN [i \in DOMAIN rest |->
        IF before(i) >= qty THEN 0
        ELSE IF qty - before(i) < open[i] THEN qty - before(i) ELSE open[i]]

\* The resting orders that remain once each has given up its share of fills.
Reduced(rest, fills) ==
  Chosen([i \in DOMAIN rest |-> [rest[i] EXCEPT !.qty = @ - fills[i]]],
         {i \in DOMAIN rest : fills[i] < rest[i].qty})

\* The resting orders of a side that an order of the other side at price meets.
Crossing(side, price, rest) == {i \in DOMAIN rest : NoWorse(side, rest[i].price, price)}
Clients(rest) == {i \in DOMAIN rest : rest[i].client}
ClientFills(rest, fills) == SumOf([i \in DOMAIN rest |-> IF rest[i].client THEN fills[i] ELSE 0])

\* The Executed answers for the fills of resting client orders, each preceded
\* by that of the aggressor when it is a client order too (handleTrade).
Executions(rest, fills, aggressor) ==
  FlattenSeq([i \in DOMAIN rest |->
    IF fills[i] = 0 THEN << >>
    ELSE [j \in DOMAIN aggressor |-> Ack("Executed", aggressor[j], fills[i], 0)]
         \o (IF rest[i].client THEN <<Ack("Executed", rest[i].id, fills[i], 0)>> ELSE << >>)])

-----------------------------------------------------------------------------
(***************************************************************************)
(* Requests of the client.                                                 *)
(***************************************************************************)

\* What an order of "side" takes from the book "here": OrderBook::match.
MatchFills(here, side, o) ==
  Fills(here[Other(side)], Crossing(Other(side), o.price, here[Other(side)]), o.qty)

Reply(a) ==
  /\ acks' = Append(acks, a)
  /\ UNCHANGED <<book, selfTrades, traded>>

(***************************************************************************)
(* What a matched order "o" tells: "first", an Executed for either end of  *)
(* every trade that is the client's (handleTrade), and "last".             *)
(***************************************************************************)
Answer(sym, side, o, rest, fills, first, last) ==
  LET mine == IF o.client THEN SumOf(fills) ELSE 0
  IN /\ acks' = acks \o first \o Executions(rest, fills, IF o.client THEN <<o.id>> ELSE << >>) \o last
     /\ selfTrades' = IF o.client THEN selfTrades + Cardinality({i \in Clients(rest) : fills[i] > 0})
                      ELSE selfTrades
     /\ traded' = [traded EXCEPT ![sym] = @ + Signed(side, mine - ClientFills(rest, fills))]

(***************************************************************************)
(* processOrder, once "first" has answered the request: the order is       *)
(* matched and what is left of it rests.  "here" is the book of the symbol *)
(* without the order being replaced.  isMarketable only chooses which      *)
(* market data describes the same result.                                  *)
(***************************************************************************)
ProcessOrder(sym, side, o, here, first) ==
  LET rest == here[Other(side)]
      fills == MatchFills(here, side, o)
      left == o.qty - SumOf(fills)
  IN /\ book' = [book EXCEPT ![sym] =
                   [here EXCEPT ![Other(side)] = Reduced(rest, fills),
                                ![side] = IF left = 0 THEN @
                                          ELSE Rest(side, @, [o EXCEPT !.qty = left])]]
     /\ Answer(sym, side, o, rest, fills, first, << >>)

(***************************************************************************)
(* onEnterOrder.  Only the test order names an unlisted symbol; it reaches *)
(* the first venue, whose symbol check rejects it.                         *)
(***************************************************************************)
OnEnterOrder(m) ==
  LET sym == m.key[1]
      side == m.key[2]
  IN IF sym \in Syms /\ m.price \in Band
     THEN ProcessOrder(sym, side, Order(m.ref, TRUE, m.price, m.qty), book[sym],
                       <<Ack("Accepted", m.ref, m.qty, m.price)>>)
     ELSE Reply(Ack("Rejected", m.ref, 0, 0))

\* processImmediate: what an IOC order cannot trade at once is cancelled.
ProcessImmediate(sym, side, o) ==
  LET rest == book[sym][Other(side)]
      fills == MatchFills(book[sym], side, o)
      left == o.qty - SumOf(fills)
  IN /\ book' = [book EXCEPT ![sym][Other(side)] = Reduced(rest, fills)]
     /\ Answer(sym, side, o, rest, fills,
               <<[Ack("Accepted", o.id, o.qty, o.price) EXCEPT !.dead = TRUE]>>,
               IF left = 0 THEN << >> ELSE <<Ack("Canceled", o.id, left, 0)>>)

\* The side of a symbol's book that holds this client order, if one does.
SideOf(sym, ref) ==
  {side \in Sides : \E i \in Clients(book[sym][side]) : book[sym][side][i].id = ref}

Places(rest, client, id) == {i \in DOMAIN rest : rest[i].client = client /\ rest[i].id = id}
Without(rest, client, id) == Chosen(rest, DOMAIN rest \ Places(rest, client, id))
Find(rest, client, id) == rest[CHOOSE i \in Places(rest, client, id) : TRUE]

\* onCancelOrder: the manager always asks for quantity 0, the whole order.
OnCancelOrder(m, sym) ==
  IF SideOf(sym, m.ref) = {} THEN Reply(Ack("CancelReject", m.ref, 0, 0))
  ELSE \E side \in SideOf(sym, m.ref) :
         /\ book' = [book EXCEPT ![sym][side] = Without(@, TRUE, m.ref)]
         /\ acks' = Append(acks, Ack("Canceled", m.ref, Find(book[sym][side], TRUE, m.ref).qty, 0))
         /\ UNCHANGED <<selfTrades, traded>>

\* onCancelOrder of a client that asks for "keep" shares to stay: fewer than are
\* open, and more than none.
OnCancelDownTo(ref, keep, sym) ==
  IF \A side \in SideOf(sym, ref) : keep >= Find(book[sym][side], TRUE, ref).qty
  THEN Reply(Ack("CancelReject", ref, 0, 0))
  ELSE \E side \in SideOf(sym, ref) :
         /\ book' = [book EXCEPT ![sym][side] =
                       [i \in DOMAIN @ |-> IF @[i].client /\ @[i].id = ref
                                          THEN [@[i] EXCEPT !.qty = keep] ELSE @[i]]]
         /\ acks' = Append(acks, Ack("Canceled", ref, Find(book[sym][side], TRUE, ref).qty - keep, 0))
         /\ UNCHANGED <<selfTrades, traded>>

\* onReplaceOrder: a new order with a new reference and a new place in the queue.
OnReplaceOrder(m, sym) ==
  IF SideOf(sym, m.orig) = {} \/ m.price \notin Band
  THEN Reply(Ack("Rejected", m.ref, 0, 0))
  ELSE \E side \in SideOf(sym, m.orig) :
         ProcessOrder(sym, side, Order(m.ref, TRUE, m.price, m.qty),
                      [book[sym] EXCEPT ![side] = Without(@, TRUE, m.orig)],
                      <<Ack("Replaced", m.ref, m.qty, m.price)>>)

(***************************************************************************)
(* ExchangeSession::dispatchOuch and the routing it uses.                  *)
(***************************************************************************)

\* Mutant of VenueForUserRef: a stale hint is taken for a fresh one.
VenueForUserRefTrustsRing(ref) == routes[ref % VenueRing].sym

\* venueForUserRef: the ring's hint, or a scan of the venues, or the first.
VenueForUserRef(ref) ==
  LET hint == routes[ref % VenueRing]
      holds == {s \in Syms : SideOf(s, ref) # {}}
  IN IF hint.ref = ref THEN hint.sym
     ELSE IF holds # {} THEN CHOOSE s \in holds : TRUE
     ELSE FirstSym

\* venueForSymbol: an unlisted symbol goes to the first venue.
VenueForSymbol(sym) == IF sym \in Syms THEN sym ELSE FirstSym

RememberUserRef(ref, sym) ==
  routes' = [routes EXCEPT ![ref % VenueRing] = [ref |-> ref, sym |-> sym]]

DispatchOuch(m) ==
  \/ /\ m.type = "EnterOrder"
     /\ RememberUserRef(m.ref, VenueForSymbol(m.key[1]))
     /\ OnEnterOrder(m)
  \/ /\ m.type = "CancelOrder"
     /\ OnCancelOrder(m, VenueForUserRef(m.ref))
     /\ UNCHANGED routes
  \/ /\ m.type = "ReplaceOrder"
     /\ LET sym == VenueForUserRef(m.orig)
        IN RememberUserRef(m.ref, sym) /\ OnReplaceOrder(m, sym)

-----------------------------------------------------------------------------
(***************************************************************************)
(* The tape.  Messages about orders the venue does not hold, or at prices  *)
(* outside the band, change nothing but counters.                          *)
(***************************************************************************)

\* fillClient for every client order of a side that has a fill.
FillClients(sym, side, fills) ==
  /\ acks' = acks \o Executions(book[sym][side], fills, << >>)
  /\ traded' = [traded EXCEPT ![sym] = @ + Signed(side, SumOf(fills))]
  /\ UNCHANGED <<routes, selfTrades>>

(***************************************************************************)
(* mirrorAdd to a book "here": crossClients first fills the client orders  *)
(* of the other side that the tape order meets, and the rest of it is      *)
(* placed without matching.                                                *)
(***************************************************************************)
CrossFills(here, side, o) ==
  LET rest == here[Other(side)]
  IN Fills(rest, Crossing(Other(side), o.price, rest) \cap Clients(rest), o.qty)

MirrorAddTo(sym, side, o, here) ==
  LET rest == here[Other(side)]
      fills == CrossFills(here, side, o)
      left == o.qty - SumOf(fills)
  IN /\ book' = [book EXCEPT ![sym] =
                   [here EXCEPT ![Other(side)] = Reduced(rest, fills),
                                ![side] = IF left = 0 THEN @
                                          ELSE Rest(side, @, [o EXCEPT !.qty = left])]]
     /\ FillClients(sym, Other(side), fills)

MirrorAdd(sym, side, o) == o.price \in Band /\ MirrorAddTo(sym, side, o, book[sym])

\* The tape orders on one side, by index.
Tape(sym, side) == DOMAIN book[sym][side] \ Clients(book[sym][side])

\* shadowFill: the client orders ahead of the i-th order in price and time.
ShadowFills(rest, i, shares) == Fills(rest, {j \in Clients(rest) : j < i}, shares)

\* mirrorExecute of the i-th order of a side, a tape order.
MirrorExecute(sym, side, i, shares) ==
  LET rest == book[sym][side]
      fills == ShadowFills(rest, i, shares)
      own == IF shares < rest[i].qty THEN shares ELSE rest[i].qty
  IN /\ i \in Tape(sym, side)
     /\ book' = [book EXCEPT ![sym][side] = Reduced(@, [fills EXCEPT ![i] = own])]
     /\ FillClients(sym, side, fills)

\* mirrorCancel, and mirrorDelete when shares is the whole order.
MirrorCancel(sym, side, i, shares) ==
  LET rest == book[sym][side]
      own == IF shares < rest[i].qty THEN shares ELSE rest[i].qty
  IN /\ i \in Tape(sym, side)
     /\ book' = [book EXCEPT ![sym][side] = Reduced(@, [j \in DOMAIN @ |-> IF j = i THEN own ELSE 0])]
     /\ UNCHANGED <<routes, acks, selfTrades, traded>>

MirrorDelete(sym, side, i) == MirrorCancel(sym, side, i, book[sym][side][i].qty)

\* mirrorReplace: the order is removed and its replacement added, if valid.
MirrorReplace(sym, side, i, o) ==
  LET here == [book[sym] EXCEPT ![side] = Chosen(@, DOMAIN @ \ {i})]
  IN /\ i \in Tape(sym, side)
     /\ IF o.price \in Band THEN MirrorAddTo(sym, side, o, here)
        ELSE /\ book' = [book EXCEPT ![sym] = here]
             /\ UNCHANGED <<routes, acks, selfTrades, traded>>

(***************************************************************************)
(* resetDay, at the end of a loop of the tape: every client order is       *)
(* cancelled, in an order that depends on how m_clientRefs was compacted,  *)
(* and the books are emptied.                                              *)
(***************************************************************************)
ClientOrders == UNION {{book[s][d][i] : i \in Clients(book[s][d])} : s \in Syms, d \in Sides}

ResetDay ==
  /\ \E orders \in SetToSeqs(ClientOrders) :
       acks' = acks \o [j \in DOMAIN orders |-> Ack("Canceled", orders[j].id, orders[j].qty, 0)]
  /\ book' = [s \in Syms |-> [d \in Sides |-> << >>]]
  /\ UNCHANGED <<routes, selfTrades, traded>>

VenueInit ==
  /\ book = [s \in Syms |-> [d \in Sides |-> << >>]]
  /\ routes = [h \in 0 .. (VenueRing - 1) |-> [ref |-> 0, sym |-> FirstSym]]
  /\ acks = << >>
  /\ selfTrades = 0
  /\ traded = [s \in Syms |-> 0]
=============================================================================
