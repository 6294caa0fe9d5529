----------------------------- MODULE VenueFeed -----------------------------
(***************************************************************************)
(* What a venue says about itself.  Every event at the venue is told       *)
(* twice: on the ITCH feed, which the books of the device are built from,  *)
(* and in the OUCH answers to the client.  ExchangeSession::replayMessage  *)
(* forwards a message of the tape before the venue mirrors it, so that the *)
(* feed promises shares that crossClients is about to spend, and goes on   *)
(* about orders the venue no longer has or never took.                     *)
(*                                                                         *)
(* The client may do all that OUCH allows, with at most one order on a     *)
(* side.  The tape may name any order it has added.  The answers are read  *)
(* before the next event: nothing at the venue depends on them.            *)
(***************************************************************************)
EXTENDS Venue

CONSTANTS
  Prices,     \* the prices of requests and of the tape
  Qtys,       \* their quantities
  MaxRefs,    \* bound: references the client uses
  MaxAdds,    \* bound: tape and synthetic orders
  MaxDays     \* bound: ends of day

VARIABLES
  told,       \* the orders resting according to the feed, by order
  mine,       \* the open shares of the client's orders according to its answers
  replacing,  \* the order that the client's last request replaces, or 0
  cut,        \* history: shares of a tape order the feed shows and the venue lacks
  nextRef,    \* the client's next reference
  nextId,     \* the next tape or synthetic order
  days        \* ends of day so far

feedVars == <<told, mine, replacing, cut, nextRef, nextId, days>>
vars == <<venueVars, feedVars>>

Here == book[FirstSym]
Id(o) == <<o.client, o.id>>

-----------------------------------------------------------------------------
(***************************************************************************)
(* The ITCH messages.                                                      *)
(***************************************************************************)
ItchAdd(side, o) ==
  [type |-> "A", id |-> Id(o), side |-> side, price |-> o.price, qty |-> o.qty]
ItchExecuted(id, shares) == [type |-> "E", id |-> id, qty |-> shares]
ItchCancel(id, shares) == [type |-> "X", id |-> id, qty |-> shares]
ItchDelete(id) == [type |-> "D", id |-> id]
ItchReplace(id, o) ==
  [type |-> "U", id |-> id, new |-> Id(o), price |-> o.price, qty |-> o.qty]

\* How a book that follows the feed takes a message.
Applied(t, m) ==
  LET others == [i \in DOMAIN t \ {m.id} |-> t[i]]
      rec(side) == [side |-> side, price |-> m.price, qty |-> m.qty]
  IN CASE m.type = "A" -> (m.id :> rec(m.side)) @@ t
       [] m.type # "A" /\ m.id \notin DOMAIN t -> t
       [] m.type \in {"E", "X"} /\ m.id \in DOMAIN t ->
            IF m.qty < t[m.id].qty THEN [t EXCEPT ![m.id].qty = @ - m.qty] ELSE others
       [] m.type = "D" /\ m.id \in DOMAIN t -> others
       [] m.type = "U" /\ m.id \in DOMAIN t -> (m.new :> rec(t[m.id].side)) @@ others

Publish(msgs) == told' = FoldLeft(Applied, told, msgs)

\* handleTrade and fillClient: an Executed for every fill of a resting order.
ItchFills(rest, fills) ==
  FlattenSeq([i \in DOMAIN rest |->
    IF fills[i] = 0 THEN << >> ELSE <<ItchExecuted(Id(rest[i]), fills[i])>>])

\* Mutant of ItchProcess: the order is published with all its shares.
ItchProcessWhole(here, side, o) ==
  LET fills == MatchFills(here, side, o)
  IN ItchFills(here[Other(side)], fills)
     \o (IF o.qty = SumOf(fills) THEN << >> ELSE <<ItchAdd(side, o)>>)

\* processOrder: the trades, then the order with what is left of it.
ItchProcess(here, side, o) ==
  LET fills == MatchFills(here, side, o)
      left == o.qty - SumOf(fills)
  IN ItchFills(here[Other(side)], fills)
     \o (IF left = 0 THEN << >> ELSE <<ItchAdd(side, [o EXCEPT !.qty = left])>>)

-----------------------------------------------------------------------------
(***************************************************************************)
(* The client.                                                             *)
(***************************************************************************)
ClientSends ==
  /\ acks = << >>
  /\ UNCHANGED <<mine, cut, nextId, days>>

ClientUsesRef ==
  /\ nextRef <= MaxRefs
  /\ nextRef' = nextRef + 1

Free(side) == Clients(Here[side]) = {}

\* onEnterOrder of a Day order.
ClientEnters(side, o) ==
  /\ ClientSends /\ ClientUsesRef /\ Free(side)
  /\ DispatchOuch(EnterOrder(nextRef, <<FirstSym, side>>, o.qty, o.price))
  /\ Publish(IF o.price \in Band THEN ItchProcess(Here, side, o) ELSE << >>)
  /\ replacing' = 0

\* onEnterOrder of an IOC order, which is never on the feed.
ClientEntersImmediate(side, o) ==
  /\ ClientSends /\ ClientUsesRef
  /\ RememberUserRef(nextRef, FirstSym)
  /\ IF o.price \in Band
     THEN /\ ProcessImmediate(FirstSym, side, o)
          /\ Publish(ItchFills(Here[Other(side)], MatchFills(Here, side, o)))
     ELSE /\ Reply(Ack("Rejected", nextRef, 0, 0))
          /\ UNCHANGED told
  /\ replacing' = 0

\* onCancelOrder of the whole order.
ClientCancels(ref) ==
  /\ ClientSends
  /\ DispatchOuch(CancelOrder(ref))
  /\ Publish(IF SideOf(FirstSym, ref) = {} THEN << >> ELSE <<ItchDelete(<<TRUE, ref>>)>>)
  /\ replacing' = 0
  /\ UNCHANGED nextRef

\* The open shares of a client order at the venue.
Open(ref) ==
  IF SideOf(FirstSym, ref) = {} THEN 0
  ELSE Find(Here[CHOOSE side \in SideOf(FirstSym, ref) : TRUE], TRUE, ref).qty

\* onCancelOrder of a part of the order.
ClientReduces(ref, keep) ==
  /\ ClientSends
  /\ OnCancelDownTo(ref, keep, FirstSym)
  /\ Publish(IF keep < Open(ref) THEN <<ItchCancel(<<TRUE, ref>>, Open(ref) - keep)>> ELSE << >>)
  /\ replacing' = 0
  /\ UNCHANGED <<routes, nextRef>>

\* isMarketable, once the order being replaced has left the book.
IsMarketable(here, side, o) == Crossing(Other(side), o.price, here[Other(side)]) # {}

\* Mutant of ItchReplaced: a replacement that trades leaves the original on the
\* feed.
ItchReplacedKeeps(here, side, orig, o) ==
  IF IsMarketable(here, side, o) THEN ItchProcess(here, side, o) ELSE <<ItchReplace(orig, o)>>

\* onReplaceOrder: one Replace, or a Delete and whatever the new order does.
ItchReplaced(here, side, orig, o) ==
  IF IsMarketable(here, side, o) THEN <<ItchDelete(orig)>> \o ItchProcess(here, side, o)
  ELSE <<ItchReplace(orig, o)>>

ClientReplaces(orig, o) ==
  /\ ClientSends /\ ClientUsesRef
  /\ DispatchOuch(ReplaceOrder(orig, nextRef, o.qty, o.price))
  /\ IF SideOf(FirstSym, orig) = {} \/ o.price \notin Band THEN UNCHANGED told
     ELSE \E side \in SideOf(FirstSym, orig) :
            Publish(ItchReplaced([Here EXCEPT ![side] = Without(@, TRUE, orig)], side,
                                 <<TRUE, orig>>, o))
  /\ replacing' = orig

\* The client's own account of its open shares.
Counted(m, a) ==
  CASE a.type = "Accepted" -> [m EXCEPT ![a.ref] = a.qty]
    [] a.type = "Replaced" -> [m EXCEPT ![replacing] = 0, ![a.ref] = a.qty]
    [] a.type \in {"Executed", "Canceled"} -> [m EXCEPT ![a.ref] = @ - a.qty]
    [] a.type \in {"Rejected", "CancelReject"} -> m

ClientReads ==
  /\ acks # << >>
  /\ mine' = FoldLeft(Counted, mine, acks)
  /\ acks' = << >>
  /\ UNCHANGED <<book, routes, selfTrades, traded, told, replacing, cut, nextRef, nextId, days>>

-----------------------------------------------------------------------------
(***************************************************************************)
(* Synthetic orders, which the simulator injects into its first venue: the *)
(* venue matches them like the client's and tracks them like the tape's.   *)
(***************************************************************************)
OtherEvent == acks = << >> /\ UNCHANGED <<mine, replacing, nextRef>>

NewId == nextId <= MaxAdds /\ nextId' = nextId + 1

InjectSynthetic(side, o) ==
  /\ OtherEvent /\ NewId
  /\ o.price \in Band
  /\ ProcessOrder(FirstSym, side, o, Here, << >>)
  /\ Publish(ItchProcess(Here, side, o))
  /\ UNCHANGED <<routes, cut, days>>

\* The order of this number that is not the client's, where the venue holds it.
At(id) == {<<side, i>> \in Sides \X (1 .. nextId) : i \in Tape(FirstSym, side) /\ Here[side][i].id = id}

CancelSynthetic(id) ==
  /\ OtherEvent
  /\ <<FALSE, id>> \notin DOMAIN cut
  /\ \E <<side, i>> \in At(id) : MirrorDelete(FirstSym, side, i)
  /\ Publish(<<ItchDelete(<<FALSE, id>>)>>)
  /\ UNCHANGED <<cut, nextId, days>>

-----------------------------------------------------------------------------
(***************************************************************************)
(* The tape.  Every message is published as it stands, then mirrored, and  *)
(* the fills of client orders that this causes are published behind it.    *)
(***************************************************************************)
TapeEvent == OtherEvent /\ UNCHANGED days

\* A tape order o that reaches the feed while the venue's book is "here": how
\* much of it the venue will not show.
Kept(here, side, o) ==
  IF o.price \in Band THEN SumOf(CrossFills(here, side, o)) ELSE o.qty
CutAlso(o, shares) == cut' = (Id(o) :> shares) @@ cut

TapeAdds(side, o) ==
  /\ TapeEvent /\ NewId
  /\ IF o.price \in Band
     THEN /\ MirrorAdd(FirstSym, side, o)
          /\ Publish(<<ItchAdd(side, o)>> \o ItchFills(Here[Other(side)], CrossFills(Here, side, o)))
     ELSE Publish(<<ItchAdd(side, o)>>) /\ UNCHANGED venueVars
  /\ CutAlso(o, Kept(Here, side, o))

TapeExecutes(id, shares) ==
  /\ TapeEvent
  /\ \/ /\ At(id) = {}
        /\ Publish(<<ItchExecuted(<<FALSE, id>>, shares)>>)
        /\ UNCHANGED venueVars
     \/ \E <<side, i>> \in At(id) :
          /\ MirrorExecute(FirstSym, side, i, shares)
          /\ Publish(<<ItchExecuted(<<FALSE, id>>, shares)>>
                     \o ItchFills(Here[side], ShadowFills(Here[side], i, shares)))
  /\ UNCHANGED <<cut, nextId>>

TapeCancels(id, shares) ==
  /\ TapeEvent
  /\ \/ At(id) = {} /\ UNCHANGED venueVars
     \/ \E <<side, i>> \in At(id) : MirrorCancel(FirstSym, side, i, shares)
  /\ Publish(<<ItchCancel(<<FALSE, id>>, shares)>>)
  /\ UNCHANGED <<cut, nextId>>

TapeDeletes(id) ==
  /\ TapeEvent
  /\ \/ At(id) = {} /\ UNCHANGED venueVars
     \/ \E <<side, i>> \in At(id) : MirrorDelete(FirstSym, side, i)
  /\ Publish(<<ItchDelete(<<FALSE, id>>)>>)
  /\ UNCHANGED <<cut, nextId>>

TapeReplaces(id, o) ==
  /\ TapeEvent /\ NewId
  /\ \/ /\ At(id) = {}
        /\ Publish(<<ItchReplace(<<FALSE, id>>, o)>>)
        /\ CutAlso(o, o.qty)
        /\ UNCHANGED venueVars
     \/ \E <<side, i>> \in At(id) :
          /\ MirrorReplace(FirstSym, side, i, o)
          /\ Publish(<<ItchReplace(<<FALSE, id>>, o)>>
                     \o (IF o.price \in Band
                         THEN ItchFills(Here[Other(side)], CrossFills(Here, side, o)) ELSE << >>))
          /\ CutAlso(o, Kept(Here, side, o))

\* endOfLoop and the first message of the next loop, StartOfMessages, which one
\* call of MarketReplay::pump publishes: every book of the device is emptied.
NextDay ==
  /\ OtherEvent
  /\ days < MaxDays
  /\ days' = days + 1
  /\ ResetDay
  /\ told' = << >> /\ cut' = << >>
  /\ UNCHANGED nextId

-----------------------------------------------------------------------------
Init ==
  /\ VenueInit
  /\ told = << >> /\ cut = << >>
  /\ mine = [r \in 1 .. MaxRefs |-> 0]
  /\ replacing = 0
  /\ nextRef = 1 /\ nextId = 1 /\ days = 0

TapeIds == {id[2] : id \in DOMAIN cut}

Next ==
  \/ ClientReads
  \/ NextDay
  \/ \E ref \in 1 .. nextRef - 1 :
       ClientCancels(ref) \/ \E keep \in Qtys : ClientReduces(ref, keep)
  \/ \E p \in Prices, q \in Qtys :
       LET o == Order(nextRef, TRUE, p, q)
           t == Order(nextId, FALSE, p, q)
       IN \/ \E side \in Sides :
               \/ ClientEnters(side, o) \/ ClientEntersImmediate(side, o)
               \/ InjectSynthetic(side, t) \/ TapeAdds(side, t)
          \/ \E ref \in 1 .. nextRef - 1 : ClientReplaces(ref, o)
          \/ \E id \in TapeIds : TapeReplaces(id, t)
  \/ \E id \in TapeIds :
       TapeDeletes(id) \/ \E q \in Qtys : TapeExecutes(id, q) \/ TapeCancels(id, q)
  \/ \E id \in 1 .. nextId - 1 : CancelSynthetic(id)

Spec == Init /\ [][Next]_vars

-----------------------------------------------------------------------------
(***************************************************************************)
(* Properties.                                                             *)
(***************************************************************************)
Cut(id) == IF id \in DOMAIN cut THEN cut[id] ELSE 0

\* A book that follows the feed has every order of the venue, on its side and at
\* its price.  It has the orders of the client and the synthetic ones exactly,
\* and of a tape order it shows too much by just the shares that met the client's
\* orders on arrival, whoever has traded with it, cut it or replaced it since; an
\* order it shows and the venue lacks was never more than that excess.
PublishedBookExact ==
  LET held == UNION {{<<side, Here[side][i]>> : i \in DOMAIN Here[side]} : side \in Sides}
  IN /\ \A <<side, o>> \in held :
          /\ Id(o) \in DOMAIN told
          /\ told[Id(o)] = [side |-> side, price |-> o.price, qty |-> o.qty + Cut(Id(o))]
     /\ \A id \in DOMAIN told :
          told[id].qty > Cut(id) => \E <<side, o>> \in held : Id(o) = id

\* The two accounts of the client's orders agree: once it has read its answers,
\* the shares it believes open are those the feed shows for the order, through
\* fills from both sides, partial cancels, replacements that trade at once, IOC
\* orders and the end of the day.
AnswersMatchFeed ==
  acks = << >> =>
    \A r \in 1 .. MaxRefs :
      mine[r] = IF <<TRUE, r>> \in DOMAIN told THEN told[<<TRUE, r>>].qty ELSE 0
=============================================================================
