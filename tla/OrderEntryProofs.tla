--------------------------- MODULE OrderEntryProofs ---------------------------
(***************************************************************************)
(* Proofs about the order entry session (OrderEntry.tla): the inductive    *)
(* invariant IInv, one lemma for each action, and the theorems that follow *)
(* from it, for any number of symbols, any prices and sizes, any number of *)
(* requests and answers under way, and any loss. The last part adds what   *)
(* keeps the two sides of a symbol from meeting (InStep), for the theorem  *)
(* on self-trades.                                                         *)
(***************************************************************************)
EXTENDS OrderEntryLemmas

\* A test order is sent, or lost.
LEMMA TestAsked ==
  ASSUME NEW v, NEW s, NEW ak, NEW q, NEW own, Safe(v, s, ak, q, own), NEW own2, Grows(own, own2),
         NEW x, OneAsk(x, TestKey, own, own2), NEW p, Picks(p, x, << >>), NEW q2, Joined(q2, q, p, Asks)
  PROVE  /\ Safe(v, s, ak, q2, own2)
         /\ Exact(v, s, ak, q, own) => Exact(v, s, ak, q2, own2)
         /\ Orderly(s, ak, q, own) => Orderly(s, ak, q2, own2)
<1>1. PICK k2 : k2 # TestKey /\ k2 \in Key
  BY KeyParts, SymsAssumption DEF Sides
<1> DEFINE y == << >>
           k1 == TestKey
<1>2. OneAsk(x, k1, own, own2) /\ OneAsk(y, k2, own, own2) /\ Picks(p, x, y) /\ k1 # k2
  <2>1. OneAsk(x, k1, own, own2) /\ Picks(p, x, y)
    OBVIOUS
  <2>2. OneAsk(y, k2, own, own2)
    BY DEF OneAsk
  <2>3. k1 # k2
    BY <1>1
  <2> HIDE DEF y, k1
  <2> QED
    BY <2>1, <2>2, <2>3
<1>0. \A m : y # <<m>>
  <2>1. Len(y) = 0 /\ \A m : Len(<<m>>) = 1
    OBVIOUS
  <2> HIDE DEF y
  <2> QED
    BY <2>1
<1> HIDE DEF y, k1
<1>3. /\ NewAsks(p, own, own2)
      /\ \A k : \A m \in AsksOf(p, own2, k) : (k = k1 /\ x = <<m>>) \/ (k = k2 /\ y = <<m>>)
  BY ONLY <1>2, PicksNew
<1>4. \A k \in Key : AsksOf(p, own2, k) = {}
  <2>1. k1 \notin Key
    BY KeyParts DEF k1
  <2> QED
    BY <2>1, <1>0, <1>3
<1>5. \A k : AsksOf(q2, own2, k) = AsksOf(q, own2, k) \cup AsksOf(p, own2, k)
  BY AsksAppended
<1>6. ASSUME NEW k \in Key
      PROVE  /\ KeyAt(v, s, ak, q2, own2, k)
             /\ ExactAt(v, s, ak, q, own, k) => ExactAt(v, s, ak, q2, own2, k)
             /\ KeyOrderly(s[k], AcksOf(ak, own, k), AsksOf(q, own, k)) =>
                KeyOrderly(s[k], AcksOf(ak, own2, k), AsksOf(q2, own2, k))
  <2>1. /\ AcksOf(ak, own2, k) = AcksOf(ak, own, k) /\ AsksOf(q, own2, k) = AsksOf(q, own, k)
        /\ KeyAt(v, s, ak, q, own2, k)
        /\ ExactAt(v, s, ak, q, own, k) => ExactAt(v, s, ak, q, own2, k)
    BY GrownKey
  <2>2. AsksOf(q2, own2, k) = AsksOf(q, own2, k)
    BY <1>4, <1>5
  <2> QED
    BY <2>1, <2>2 DEF KeyAt, ExactAt
<1>7. /\ Safe(v, s, ak, q2, own2)
      /\ /\ Orderly(s, ak, q, own)
         /\ \A k \in Key : /\ KeyOrderly(s[k], AcksOf(ak, own2, k), AsksOf(q2, own2, k))
                           /\ AsksOf(p, own2, k) # {} => AsksOf(q, own, k) = {}
         => Orderly(s, ak, q2, own2)
  BY <1>3, <1>6, Asked
<1>8. ASSUME Exact(v, s, ak, q, own) PROVE Exact(v, s, ak, q2, own2)
  BY <1>6, <1>8 DEF Exact
<1>9. ASSUME Orderly(s, ak, q, own) PROVE Orderly(s, ak, q2, own2)
  <2>1. \A k \in Key : KeyOrderly(s[k], AcksOf(ak, own, k), AsksOf(q, own, k))
    BY <1>9 DEF Orderly, OrderlyAt
  <2> QED
    BY <2>1, <1>4, <1>6, <1>7, <1>9
<1> QED
  BY <1>7, <1>8, <1>9

-----------------------------------------------------------------------------
\* What the venues show of the quotes.
View == [k \in Key |-> ClientAt(book[k[1]][k[2]])]

Counts == lost \in Nat /\ resets \in Nat /\ tape \in Nat /\ unknown \in Nat

\* The session, and what holds as long as nothing is lost and no day ends.
SessionOK ==
  /\ Safe(View, slots, acks, oe, owner)
  /\ lost = 0 => Exact(View, slots, acks, oe, owner)
  /\ lost = 0 /\ resets = 0 => Orderly(slots, acks, oe, owner)

SlotsTyped == slots \in [Key -> Slot]

\* What is sent of at most two requests.
LEMMA SentParts ==
  ASSUME NEW x, NEW y, AtMostOne(x), AtMostOne(y), Sent(x \o y), lost \in Nat, oe \in Seq(Asks)
  PROVE  \E p : /\ Picks(p, x, y) /\ Joined(oe', oe, p, Asks)
                /\ lost' \in Nat /\ lost' >= lost /\ (lost' = 0 => lost = 0 /\ p = x \o y)
<1> DEFINE msgs == x \o y
<1>1. PICK kept \in SUBSET DOMAIN msgs :
        /\ lost' = lost + Len(msgs) - Cardinality(kept)
        /\ oe' = oe \o Part(msgs, kept, 1) \o Part(msgs, kept, 2)
  BY DEF Sent, Part
<1> DEFINE a == Part(msgs, kept, 1)
           b == Part(msgs, kept, 2)
           p == a \o b
<1>2. /\ Picks(p, x, y)
      /\ Cardinality(kept) \in Nat /\ Cardinality(kept) <= Len(msgs) /\ Len(msgs) \in Nat
      /\ Cardinality(kept) = Len(msgs) => p = msgs
  <2>1. kept \subseteq DOMAIN (x \o y) /\ p = Part(x \o y, kept, 1) \o Part(x \o y, kept, 2)
    BY <1>1
  <2> HIDE DEF p
  <2>2. /\ Picks(p, x, y)
        /\ Cardinality(kept) \in Nat /\ Cardinality(kept) <= Len(x \o y) /\ Len(x \o y) \in Nat
        /\ Cardinality(kept) = Len(x \o y) => p = x \o y
    BY <2>1, PartsSent
  <2> QED
    BY <2>2
<1>3. a \in Seq(Asks) /\ b \in Seq(Asks)
  <2>1. \A i \in DOMAIN msgs : msgs[i] \in Asks
    <3>1. x \in Seq(Asks) /\ y \in Seq(Asks)
      <4>1. \A m \in Asks : <<m>> \in Seq(Asks)
        OBVIOUS
      <4>2. << >> \in Seq(Asks)
        OBVIOUS
      <4> QED
        BY ONLY <4>1, <4>2, AtMostOne(x), AtMostOne(y) DEF AtMostOne
    <3>2. msgs \in Seq(Asks)
      BY <3>1
    <3> QED
      BY <3>2
  <2>2. \A i : i \in kept => <<msgs[i]>> \in Seq(Asks)
    BY <2>1, <1>1
  <2>3. << >> \in Seq(Asks)
    OBVIOUS
  <2> HIDE DEF msgs
  <2> QED
    BY <2>2, <2>3 DEF Part
<1>4. oe' = oe \o p
  <2>1. oe' = oe \o a \o b
    BY <1>1
  <2> HIDE DEF a, b, msgs
  <2>2. (oe \o a) \o b = oe \o (a \o b)
    BY <1>3, ConcatAssociative
  <2> QED
    BY <2>1, <2>2
<1>5. p \in Seq(Asks)
  <2> HIDE DEF a, b, msgs
  <2> QED
    BY <1>3
<1>6. Joined(oe', oe, p, Asks)
  <2> HIDE DEF p
  <2> QED
    BY <1>4, <1>5 DEF Joined
<1>7. lost' \in Nat /\ lost' >= lost /\ (lost' = 0 => lost = 0 /\ p = msgs)
  <2> HIDE DEF p, msgs
  <2> QED
    BY <1>1, <1>2
<1> HIDE DEF p
<1> QED
  BY <1>2, <1>6, <1>7

\* The books hold orders, and at most one client order on each side.
BooksOK ==
  /\ book \in [Syms -> [Sides -> Seq(Orders)]]
  /\ \A k \in Key : Shows(book[k[1]][k[2]], View[k])

\* The sides of a book, one by one.
LEMMA BookParts ==
  ASSUME BooksOK, NEW s \in Syms, NEW d \in Sides
  PROVE  /\ book[s] \in [Sides -> Seq(Orders)]
         /\ book[s][d] \in Seq(Orders) /\ <<s, d>> \in Key
         /\ Shows(book[s][d], View[<<s, d>>])
<1>1. <<s, d>> \in Key /\ <<s, d>>[1] = s /\ <<s, d>>[2] = d
  BY KeyParts
<1>2. Shows(book[<<s, d>>[1]][<<s, d>>[2]], View[<<s, d>>])
  BY <1>1 DEF BooksOK
<1> QED
  BY <1>1, <1>2 DEF BooksOK

\* Books that show v2 are sound, and v2 is the view of them.
LEMMA BooksShow ==
  ASSUME book' \in [Syms -> [Sides -> Seq(Orders)]], NEW v2,
         \A s \in Syms, d \in Sides : Shows(book'[s][d], v2[<<s, d>>])
  PROVE  BooksOK' /\ \A k \in Key : View'[k] = v2[k]
<1>1. ASSUME NEW k \in Key
      PROVE  View'[k] = v2[k] /\ Shows(book'[k[1]][k[2]], View'[k])
  <2>1. k[1] \in Syms /\ k[2] \in Sides /\ k = <<k[1], k[2]>>
    BY KeyParts
  <2>2. book'[k[1]][k[2]] \in Seq(Orders) /\ Shows(book'[k[1]][k[2]], v2[k])
    BY <2>1
  <2>3. v2[k] = ClientAt(book'[k[1]][k[2]])
    BY <2>2, ShowsView
  <2>4. View'[k] = ClientAt(book'[k[1]][k[2]])
    BY DEF View
  <2> QED
    BY <2>2, <2>3, <2>4
<1> QED
  BY <1>1 DEF BooksOK

\* Where an order of the client is, by the view.
LEMMA SideShows ==
  ASSUME BooksOK, NEW s \in Syms, NEW r
  PROVE  SideOf(s, r) = {d \in Sides : Holds(View[<<s, d>>], r)}
<1>1. ASSUME NEW d \in Sides
      PROVE  (\E i \in Clients(book[s][d]) : book[s][d][i].id = r) <=> Holds(View[<<s, d>>], r)
  <2> DEFINE rest == book[s][d]
             c == View[<<s, d>>]
  <2>1. rest \in Seq(Orders) /\ Shows(rest, c)
    BY BookParts
  <2> HIDE DEF rest, c
  <2>2. /\ c.qty = 0 => Clients(rest) = {}
        /\ c.qty # 0 => \E i \in DOMAIN rest : Clients(rest) = {i} /\ c.id = rest[i].id
        /\ c.qty \in Nat
    BY <2>1, ShowsClient
  <2>3. (\E i \in Clients(rest) : rest[i].id = r) <=> Holds(c, r)
    BY <2>2 DEF Holds
  <2> QED
    BY <2>3 DEF rest, c
<1> QED
  BY <1>1 DEF SideOf

\* What the session says of an order that is held.
LEMMA HeldFacts ==
  ASSUME NEW v, NEW s, NEW ak, NEW q, NEW own, Safe(v, s, ak, q, own), NEW k \in Key
  PROVE  /\ v[k] \in Views /\ v[k].qty \in Nat /\ v[k].id \in Nat
         /\ s[k] \in Slot
         /\ v[k].qty = 0 => v[k] = NoOrder
         /\ \A r : Holds(v[k], r) =>
              r \in DOMAIN own /\ own[r] = k /\ r \in Nat \ {0} /\ (r = s[k].userRef \/ r = s[k].pendingRef)
<1>1. KeyInv(v[k], s[k], AcksOf(ak, own, k), AsksOf(q, own, k), RefsOf(own, k), Due(ak, RefsOf(own, k)))
  BY SafeParts DEF KeyAt
<1>2. KeyTyped(v[k], s[k], AcksOf(ak, own, k), AsksOf(q, own, k), RefsOf(own, k), Due(ak, RefsOf(own, k)))
      /\ ViewOK(v[k], s[k], RefsOf(own, k))
  BY <1>1 DEF KeyInv
<1>3. v[k] \in Views /\ s[k] \in Slot /\ RefsOf(own, k) \subseteq Nat \ {0}
  BY <1>2 DEF KeyTyped, Good
<1>4. \A r : Holds(v[k], r) => r \in RefsOf(own, k) /\ (r = s[k].userRef \/ r = s[k].pendingRef)
  BY <1>2 DEF ViewOK, Holds
<1>5. \A r \in RefsOf(own, k) : r \in DOMAIN own /\ own[r] = k
  BY DEF RefsOf
<1>6. v[k].qty \in Nat /\ v[k].id \in Nat
  BY <1>3 DEF Views
<1>7. v[k].qty = 0 => v[k] = NoOrder
  BY <1>2 DEF ViewOK
<1> QED
  BY <1>3, <1>4, <1>5, <1>6, <1>7

-----------------------------------------------------------------------------
\* An order of a side.
LEMMA OrderParts ==
  ASSUME NEW rest \in Seq(Orders), NEW i \in DOMAIN rest
  PROVE  /\ rest[i] \in Orders /\ rest[i].qty \in Nat /\ rest[i].qty > 0
         /\ rest[i].id \in Nat /\ rest[i].price \in Nat /\ rest[i].client \in BOOLEAN
<1>1. rest[i] \in Orders
  OBVIOUS
<1> QED
  BY <1>1 DEF Orders

\* An order of one side meets those of the other: the book b, and what it shows, of
\* the book "here" that shows c.
Processed(b, c2, here, c, side, o, eligible, fills) ==
  /\ here \in [Sides -> Seq(Orders)] /\ \A d \in Sides : Shows(here[d], c[d])
  /\ side \in Sides /\ o \in Orders /\ (o.client => c[side] = NoOrder)
  /\ fills = Fills(here[Other(side)], eligible, o.qty)
  /\ LET left == o.qty - SumOf(fills)
     IN b = [here EXCEPT ![Other(side)] = Reduced(here[Other(side)], fills),
                         ![side] = IF left = 0 THEN @ ELSE Rest(side, @, [o EXCEPT !.qty = left])]
  /\ c2 = [d \in Sides |->
             IF d = side THEN IF o.client THEN Take(Shown(o), SumOf(fills)) ELSE c[side]
             ELSE Take(c[d], ClientPart(here[d], fills))]

\* What is left of either is sound.
LEMMA OrderProcessed ==
  ASSUME NEW here, NEW c, NEW side, NEW o, NEW eligible, NEW fills, NEW b, NEW c2,
         Processed(b, c2, here, c, side, o, eligible, fills)
  PROVE  b \in [Sides -> Seq(Orders)] /\ \A d \in Sides : Shows(b[d], c2[d])
<1> USE DEF Processed
<1> DEFINE left == o.qty - SumOf(fills)
<1> DEFINE far == Other(side)
           rest == here[far]
           near == here[side]
           o2 == [o EXCEPT !.qty = left]
           near2 == IF left = 0 THEN near ELSE Rest(side, near, o2)
           e2 == IF o.client THEN Take(Shown(o), SumOf(fills)) ELSE c[side]
<1>1. far \in Sides /\ far # side /\ \A d \in Sides : d = side \/ d = far
  BY DEF Other, Sides
<1>2. rest \in Seq(Orders) /\ near \in Seq(Orders) /\ Shows(rest, c[far]) /\ Shows(near, c[side])
  BY <1>1
<1>3. o.qty \in Nat /\ o.qty > 0
  BY DEF Orders
<1>4. FillsFit(rest, fills) /\ SumOf(fills) \in Nat /\ SumOf(fills) <= o.qty
  <2> HIDE DEF rest
  <2>1. fills = Fills(rest, eligible, o.qty)
    BY DEF rest
  <2> QED
    BY <2>1, <1>2, <1>3, FillsFacts
<1>5. Reduced(rest, fills) \in Seq(Orders) /\ Shows(Reduced(rest, fills), Take(c[far], ClientPart(rest, fills)))
  <2> HIDE DEF rest, far
  <2> QED
    BY <1>2, <1>4, ReducedShows
<1>6. near2 \in Seq(Orders) /\ Shows(near2, e2)
  <2> HIDE DEF near, far
  <2>1. CASE left = 0
    <3>1. SumOf(fills) = o.qty
      BY <2>1, <1>3, <1>4
    <3>2. o.client => e2 = NoOrder
      BY <3>1 DEF Take, Shown
    <3>3. e2 = c[side]
      BY <3>2
    <3> QED
      BY <2>1, <3>3, <1>2
  <2>2. CASE left # 0
    <3>1. SumOf(fills) # o.qty /\ left \in Nat \ {0} /\ left = o.qty - SumOf(fills)
      BY <2>2, <1>3, <1>4
    <3>2. o2 \in Orders /\ o2.client = o.client
      BY <3>1 DEF Orders
    <3>3. o.client => e2 = Shown(o2)
      BY <3>1 DEF Take, Shown, Orders
    <3> HIDE DEF o2, e2
    <3>4. /\ Rest(side, near, o2) \in Seq(Orders)
          /\ Shows(Rest(side, near, o2), IF o2.client THEN Shown(o2) ELSE c[side])
      BY <1>2, <3>2, RestShows
    <3>5. (IF o2.client THEN Shown(o2) ELSE c[side]) = e2
      BY <3>2, <3>3 DEF e2
    <3> QED
      BY <2>2, <3>4, <3>5
  <2> QED
    BY <2>1, <2>2
<1>7. /\ b \in [Sides -> Seq(Orders)]
      /\ b[side] = near2 /\ b[far] = Reduced(rest, fills)
  <2> HIDE DEF far
  <2>1. b = [here EXCEPT ![far] = Reduced(rest, fills), ![side] = near2]
    BY <1>1 DEF far
  <2> HIDE DEF near2, rest
  <2> QED
    BY <2>1, <1>1, <1>5, <1>6
<1>8. c2[side] = e2 /\ c2[far] = Take(c[far], ClientPart(rest, fills))
  <2> HIDE DEF far
  <2> QED
    BY <1>1
<1> HIDE DEF far, rest, near2, e2
<1> QED
  BY <1>1, <1>5, <1>6, <1>7, <1>8

\* The hints of m_refVenue about orders that rest are right.
RoutesOK ==
  /\ routes \in [0 .. (VenueRing - 1) -> [ref : Nat, sym : Syms]]
  /\ \A k \in Key, r \in Nat :
       Holds(View[k], r) /\ routes[r % VenueRing].ref = r => routes[r % VenueRing].sym = k[1]

\* The shares of the Executed answers for one quote.
ToldOf(own, k) == {a \in Answers : a.type = "Executed" /\ own[a.ref] = k}
Told(ak, own, k) == Shares(ak, ToldOf(own, k))

\* The position account, when nothing is lost.
Balance ==
  \A s \in Syms :
    position[s] = traded[s] - Told(acks, owner, <<s, "Buy">>) + Told(acks, owner, <<s, "Sell">>)

AccountsTyped == position \in [Syms -> Int] /\ traded \in [Syms -> Int]

\* The inductive invariant.
IInv ==
  /\ RefsOK /\ HintsTrue
  /\ Counts /\ AccountsTyped /\ SlotsTyped
  /\ BooksOK /\ RoutesOK
  /\ SessionOK
  /\ lost = 0 => Balance

\* Routing entries that do not change stay right while no order rests that did not rest before.
LEMMA RoutesKept ==
  ASSUME RoutesOK, routes' = routes, \A k \in Key, r \in Nat : Holds(View'[k], r) => Holds(View[k], r)
  PROVE  RoutesOK'
BY DEF RoutesOK

\* rememberUserRef keeps the routing entries right for a new order of that symbol.
LEMMA RouteAdded ==
  ASSUME RoutesOK, NEW ref \in Nat, NEW sym \in Syms, RememberUserRef(ref, sym),
         \A k \in Key, r \in Nat : Holds(View'[k], r) => IF r = ref THEN sym = k[1] ELSE Holds(View[k], r)
  PROVE  RoutesOK'
<1>1. \A r \in Nat : r % VenueRing \in 0 .. (VenueRing - 1)
  BY VenueRingAssumption
<1>2. routes' = [routes EXCEPT ![ref % VenueRing] = [ref |-> ref, sym |-> sym]]
  BY DEF RememberUserRef
<1>3. routes' \in [0 .. (VenueRing - 1) -> [ref : Nat, sym : Syms]]
  BY <1>1, <1>2 DEF RoutesOK
<1>4. ASSUME NEW k \in Key, NEW r \in Nat, Holds(View'[k], r), routes'[r % VenueRing].ref = r
      PROVE  routes'[r % VenueRing].sym = k[1]
  <2>1. CASE r % VenueRing = ref % VenueRing
    <3>1. routes'[r % VenueRing] = [ref |-> ref, sym |-> sym]
      BY <2>1, <1>1, <1>2 DEF RoutesOK
    <3> QED
      BY <3>1, <1>4
  <2>2. CASE r % VenueRing # ref % VenueRing
    <3>1. routes'[r % VenueRing] = routes[r % VenueRing]
      BY <2>2, <1>1, <1>2 DEF RoutesOK
    <3>2. r # ref
      BY <2>2
    <3> QED
      BY <3>1, <3>2, <1>4 DEF RoutesOK
  <2> QED
    BY <2>1, <2>2
<1> QED
  BY <1>3, <1>4 DEF RoutesOK

\* Shares of the same answers.
LEMMA SharesSame ==
  ASSUME NEW ak \in Seq(Answers), NEW S, NEW S2, \A i \in 1 .. Len(ak) : ak[i] \in S <=> ak[i] \in S2
  PROVE  Shares(ak, S) = Shares(ak, S2)
<1>1. DOMAIN ak = 1 .. Len(ak)
  OBVIOUS
<1>2. [i \in DOMAIN ak |-> IF ak[i] \in S THEN ak[i].qty ELSE 0] =
      [i \in DOMAIN ak |-> IF ak[i] \in S2 THEN ak[i].qty ELSE 0]
  BY <1>1
<1> QED
  BY <1>2 DEF Shares

\* Drawing more order ids does not change what a quote is told.
LEMMA ToldGrows ==
  ASSUME NEW v, NEW s, NEW ak, NEW q, NEW own, Safe(v, s, ak, q, own), NEW own2, Grows(own, own2), NEW k
  PROVE  Told(ak, own2, k) = Told(ak, own, k)
<1>1. ak \in Seq(Answers) /\ \A i \in 1 .. Len(ak) : ak[i].ref \in DOMAIN own
  BY SafeParts
<1>2. \A i \in 1 .. Len(ak) : ak[i] \in ToldOf(own2, k) <=> ak[i] \in ToldOf(own, k)
  BY <1>1 DEF ToldOf, Grows
<1> QED
  BY <1>1, <1>2, SharesSame DEF Told

\* What a quote is told by answers queued behind others adds up.
LEMMA ToldAppended ==
  ASSUME NEW ak, NEW E, NEW u, Joined(u, ak, E, Answers), NEW own, NEW k
  PROVE  /\ Told(u, own, k) = Told(ak, own, k) + Told(E, own, k)
         /\ Told(u, own, k) \in Nat /\ Told(ak, own, k) \in Nat /\ Told(E, own, k) \in Nat
<1>1. ak \in Seq(Answers) /\ E \in Seq(Answers) /\ u = ak \o E
  BY DEF Joined
<1>2. u \in Seq(Answers)
  BY <1>1
<1> QED
  BY <1>1, <1>2, SharesConcat, SharesNat DEF Told

\* Answers that are no fill of a quote tell it of no shares.
LEMMA ToldNone ==
  ASSUME NEW E \in Seq(Answers), NEW own, NEW k,
         \A i \in 1 .. Len(E) : E[i].type = "Executed" => own[E[i].ref] # k
  PROVE  Told(E, own, k) = 0
<1>1. \A i \in 1 .. Len(E) : E[i] \notin ToldOf(own, k)
  BY DEF ToldOf
<1> QED
  BY <1>1, SharesNone DEF Told

\* What a quote is still told once the oldest answer is taken.
LEMMA ToldTail ==
  ASSUME NEW ak \in Seq(Answers), ak # << >>, NEW own, NEW k
  PROVE  /\ Told(Tail(ak), own, k) =
              Told(ak, own, k) - (IF Head(ak).type = "Executed" /\ own[Head(ak).ref] = k THEN Head(ak).qty ELSE 0)
         /\ Told(ak, own, k) \in Nat
<1>1. Head(ak) \in Answers
  BY HeadTailProperties
<1>2. Head(ak) \in ToldOf(own, k) <=> Head(ak).type = "Executed" /\ own[Head(ak).ref] = k
  BY <1>1 DEF ToldOf
<1> QED
  BY <1>2, SharesTail, SharesNat DEF Told

-----------------------------------------------------------------------------
\* owner grows.
LEMMA OwnerGrows ==
  ASSUME RefsOK', DOMAIN owner \subseteq DOMAIN owner', \A r \in DOMAIN owner : owner'[r] = owner[r]
  PROVE  Grows(owner, owner')
<1>1. DOMAIN owner' \subseteq Nat \ {0} /\ \A r \in DOMAIN owner' : owner'[r] \in Key \cup {TestKey}
  BY RefModAssumption DEF RefsOK, RefTypes
<1> QED
  BY <1>1 DEF Grows

\* Drawing order ids leaves the account of each symbol balanced.
LEMMA BalanceGrows ==
  ASSUME SessionOK, Balance, Grows(owner, owner'), acks' = acks, position' = position, traded' = traded
  PROVE  Balance'
<1>1. \A k : Told(acks, owner', k) = Told(acks, owner, k)
  BY ToldGrows DEF SessionOK
<1> QED
  BY <1>1 DEF Balance

\* A target price is a natural, the mark of no quote included.
LEMMA TargetPrices ==
  ASSUME NEW t \in Targets, NEW d \in Sides PROVE t[d] \in Nat
<1>1. CASE t = [Buy |-> NoQuote, Sell |-> NoQuote]
  BY <1>1 DEF NoQuote, Sides
<1>2. CASE t \in [Sides -> Prices]
  BY <1>2, PricesAssumption
<1> QED
  BY <1>1, <1>2 DEF Targets

\* What the quote step sends: x for the side d1, then y for the side d2; p is
\* what is not lost of it.
QuoteSends(sym, t, rf, d1, d2, x, y, p) ==
  /\ Reconciles(sym, t, rf, d1, d2, x, y, slots, slots', owner, owner')
  /\ SideOrder(sym, t) = <<d1, d2>> /\ Requests(sym, t) = x \o y
  /\ AtMostOne(x) /\ AtMostOne(y) /\ Picks(p, x, y) /\ Joined(oe', oe, p, Asks)
  /\ lost' \in Nat /\ lost' >= lost /\ (lost' = 0 => lost = 0 /\ p = x \o y)
  /\ Grows(owner, owner')

\* Two requests at most, one of each side, for order ids that are new.
LEMMA QuoteParts ==
  ASSUME IInv, NEW sym \in Syms, NEW t \in Targets, Quote(sym, t)
  PROVE  /\ \E rf, d1, d2, x, y, p : QuoteSends(sym, t, rf, d1, d2, x, y, p)
         /\ RefsOK' /\ HintsTrue'
<1>1. /\ AllocRefs(Taken(sym, t)) /\ Sent(Requests(sym, t))
      /\ slots' = [k \in Key |-> IF k[1] = sym THEN SlotAfter(slots[k], t[k[2]], RefTaken(sym, t, k[2]))
                                 ELSE slots[k]]
      /\ UNCHANGED <<position, unknown, tests, book, routes, acks, selfTrades, traded, tape, resets>>
  BY DEF Quote, Reconcile, venueVars
<1>2. /\ RefsOK' /\ HintsTrue'
      /\ DOMAIN owner \subseteq DOMAIN owner'
      /\ \A r \in DOMAIN owner : owner'[r] = owner[r]
      /\ \A d \in Sides :
           /\ RefTaken(sym, t, d) \in Nat
           /\ Allocates(slots[<<sym, d>>], t[d]) =>
                /\ RefTaken(sym, t, d) \notin DOMAIN owner
                /\ RefTaken(sym, t, d) \in DOMAIN owner'
                /\ owner'[RefTaken(sym, t, d)] = <<sym, d>>
  BY <1>1, ReconcileRefs DEF IInv
<1>3. Grows(owner, owner')
  BY <1>2, OwnerGrows
<1>4. \E d1, d2 \in Sides : d1 # d2 /\ SideOrder(sym, t) = <<d1, d2>> /\ Sides = {d1, d2}
  BY DEF SideOrder, Sides
<1>5. PICK d1 \in Sides, d2 \in Sides : d1 # d2 /\ SideOrder(sym, t) = <<d1, d2>> /\ Sides = {d1, d2}
  BY <1>4
<1> DEFINE rf == [d \in Sides |-> RefTaken(sym, t, d)]
           x == RequestOf(<<sym, d1>>, slots[<<sym, d1>>], t[d1], rf[d1])
           y == RequestOf(<<sym, d2>>, slots[<<sym, d2>>], t[d2], rf[d2])
<1>6. Requests(sym, t) = x \o y
  BY <1>5 DEF Requests
<1>7. \A d \in Sides : t[d] \in Nat
  BY TargetPrices
<1>8. Reconciles(sym, t, rf, d1, d2, x, y, slots, slots', owner, owner')
  <2>1. \A k \in Key : k[2] \in Sides
    BY KeyParts
  <2>2. \A k \in Key : slots'[k] = IF k[1] = sym THEN SlotAfter(slots[k], t[k[2]], rf[k[2]]) ELSE slots[k]
    BY <1>1, <2>1
  <2>3. \A d \in Sides : rf[d] = RefTaken(sym, t, d)
    OBVIOUS
  <2> HIDE DEF rf
  <2> QED
    BY <2>2, <2>3, <1>2, <1>5, <1>7 DEF Reconciles
<1>9. Safe(View, slots, acks, oe, owner) /\ oe \in Seq(Asks) /\ lost \in Nat
  BY SafeParts DEF IInv, SessionOK, Counts
<1>10. AtMostOne(x) /\ AtMostOne(y)
  <2>1. \A d \in Sides : /\ <<sym, d>> \in Key /\ t[d] \in Nat /\ rf[d] = RefTaken(sym, t, d)
                         /\ Allocates(slots[<<sym, d>>], t[d]) =>
                              rf[d] \notin DOMAIN owner /\ rf[d] \in DOMAIN owner' /\ owner'[rf[d]] = <<sym, d>>
    BY <1>2, <1>7, KeyParts
  <2> HIDE DEF rf
  <2>3. ASSUME NEW d \in Sides, NEW z, z = RequestOf(<<sym, d>>, slots[<<sym, d>>], t[d], rf[d])
        PROVE  OneAsk(z, <<sym, d>>, owner, owner')
    <3> DEFINE k == <<sym, d>>
               ref == rf[d]
               price == t[d]
    <3>1. /\ k \in Key /\ price \in Nat /\ z = RequestOf(k, slots[k], price, ref)
          /\ Allocates(slots[k], price) => ref \notin DOMAIN owner /\ ref \in DOMAIN owner' /\ owner'[ref] = k
      BY <2>1, <2>3
    <3> HIDE DEF k, ref, price
    <3>2. OneAsk(z, k, owner, owner')
      BY <3>1, <1>3, <1>9, RequestIsOneAsk
    <3> QED
      BY <3>2 DEF k
  <2>2. OneAsk(x, <<sym, d1>>, owner, owner') /\ OneAsk(y, <<sym, d2>>, owner, owner')
    BY <2>3
  <2> HIDE DEF x, y
  <2> QED
    BY <2>2 DEF OneAsk, AtMostOne
<1> HIDE DEF rf, x, y
<1>11. PICK p : /\ Picks(p, x, y) /\ Joined(oe', oe, p, Asks)
                /\ lost' \in Nat /\ lost' >= lost /\ (lost' = 0 => lost = 0 /\ p = x \o y)
  BY <1>1, <1>6, <1>9, <1>10, SentParts
<1>12. QuoteSends(sym, t, rf, d1, d2, x, y, p)
  BY <1>3, <1>5, <1>6, <1>8, <1>10, <1>11 DEF QuoteSends
<1> QED
  BY <1>2, <1>12

\* Quote preserves the inductive invariant.
LEMMA QuoteKeeps ==
  ASSUME IInv, NEW sym \in Syms, NEW t \in Targets, Quote(sym, t)
  PROVE  IInv'
<1>1. /\ UNCHANGED <<position, unknown, tests, book, routes, acks, selfTrades, traded, tape, resets>>
      /\ slots' = [k \in Key |-> slots'[k]]
  BY DEF Quote, Reconcile, venueVars
<1>2. RefsOK' /\ HintsTrue'
  BY QuoteParts
<1>3. PICK rf, d1, d2, x, y, p : QuoteSends(sym, t, rf, d1, d2, x, y, p)
  BY QuoteParts
<1>4. Safe(View, slots, acks, oe, owner)
  BY DEF IInv, SessionOK
<1>5. Grows(owner, owner')
  BY <1>3 DEF QuoteSends
<1>6. /\ Reconciles(sym, t, rf, d1, d2, x, y, slots, slots', owner, owner')
      /\ Picks(p, x, y) /\ Joined(oe', oe, p, Asks)
      /\ lost' \in Nat /\ lost' >= lost /\ (lost' = 0 => lost = 0 /\ p = x \o y)
  BY <1>3 DEF QuoteSends
<1>7. /\ Safe(View, slots', acks, oe', owner')
      /\ Exact(View, slots, acks, oe, owner) /\ p = x \o y => Exact(View, slots', acks, oe', owner')
      /\ Orderly(slots, acks, oe, owner) => Orderly(slots', acks, oe', owner')
  BY <1>4, <1>5, <1>6, Reconciled
<1>8. View' = View
  BY <1>1 DEF View
<1>9. SessionOK'
  BY <1>1, <1>6, <1>7, <1>8 DEF SessionOK, IInv
<1>10. SlotsTyped'
  BY <1>1, <1>7, HeldFacts DEF SlotsTyped
<1>11. Counts' /\ AccountsTyped'
  BY <1>1, <1>6 DEF Counts, AccountsTyped, IInv
<1>12. BooksOK' /\ RoutesOK'
  BY <1>1, <1>8 DEF BooksOK, RoutesOK, IInv
<1>13. lost' = 0 => Balance'
  BY <1>1, <1>5, <1>6, BalanceGrows DEF IInv
<1> QED
  BY <1>2, <1>9, <1>10, <1>11, <1>12, <1>13 DEF IInv

\* So does sendTestOrder.
LEMMA TestOrderKeeps ==
  ASSUME IInv, SendTestOrder
  PROVE  IInv'
<1> DEFINE m == EnterOrder(nextRef, TestKey, 1, 1)
           x == <<m>>
           y == << >>
<1>1. /\ AllocRefs(<<TestKey>>) /\ Sent(x)
      /\ UNCHANGED <<slots, position, unknown, tests, book, routes, acks, selfTrades, traded, tape, resets>>
  BY DEF SendTestOrder, EncodeTestOrder, venueVars
<1>2. /\ RefsOK' /\ HintsTrue'
      /\ DOMAIN owner' = DOMAIN owner \cup {nextRef}
      /\ \A r \in DOMAIN owner : owner'[r] = owner[r]
      /\ nextRef \in Nat \ {0} /\ nextRef \notin DOMAIN owner /\ owner'[nextRef] = TestKey
  BY <1>1, TestOrderRefs DEF IInv
<1>3. Grows(owner, owner')
  BY <1>2, OwnerGrows
<1>4. m \in Asks /\ m.ref = nextRef /\ m.type = "EnterOrder" /\ m.key = TestKey
  BY <1>2 DEF EnterOrder, Asks
<1>5. Sent(x \o y) /\ AtMostOne(x) /\ AtMostOne(y)
  <2> HIDE DEF m
  <2>1. x \o y = x
    OBVIOUS
  <2>2. Sent(x \o y)
    BY <1>1, <2>1
  <2> QED
    BY <2>2, <1>4 DEF AtMostOne
<1>6. OneAsk(x, TestKey, owner, owner')
  <2> HIDE DEF m
  <2> QED
    BY <1>2, <1>4 DEF OneAsk
<1>9. Safe(View, slots, acks, oe, owner) /\ oe \in Seq(Asks) /\ lost \in Nat
  BY SafeParts DEF IInv, SessionOK, Counts
<1> HIDE DEF m, x
<1>11. PICK p : /\ Picks(p, x, << >>) /\ Joined(oe', oe, p, Asks)
                /\ lost' \in Nat /\ lost' >= lost /\ (lost' = 0 => lost = 0)
  <2> HIDE DEF y
  <2>1. \E p : /\ Picks(p, x, y) /\ Joined(oe', oe, p, Asks)
               /\ lost' \in Nat /\ lost' >= lost /\ (lost' = 0 => lost = 0)
    BY <1>5, <1>9, SentParts
  <2> QED
    BY <2>1 DEF y
<1>12. /\ Safe(View, slots, acks, oe', owner')
       /\ Exact(View, slots, acks, oe, owner) => Exact(View, slots, acks, oe', owner')
       /\ Orderly(slots, acks, oe, owner) => Orderly(slots, acks, oe', owner')
  BY <1>3, <1>6, <1>9, <1>11, TestAsked
<1>13. View' = View
  BY <1>1 DEF View
<1>14. SessionOK'
  BY <1>1, <1>11, <1>12, <1>13 DEF SessionOK, IInv
<1>15. SlotsTyped'
  BY <1>1 DEF SlotsTyped, IInv
<1>16. Counts' /\ AccountsTyped'
  BY <1>1, <1>11 DEF Counts, AccountsTyped, IInv
<1>17. BooksOK' /\ RoutesOK'
  BY <1>1, <1>13 DEF BooksOK, RoutesOK, IInv
<1>18. lost' = 0 => Balance'
  BY <1>1, <1>3, <1>11, BalanceGrows DEF IInv
<1> QED
  BY <1>2, <1>14, <1>15, <1>16, <1>17, <1>18 DEF IInv

\* So does the loss of an answer.
LEMMA LoseAckKeeps ==
  ASSUME IInv, LoseAck
  PROVE  IInv'
<1>1. /\ acks # << >> /\ lost' = lost + 1 /\ acks' = Tail(acks)
      /\ UNCHANGED <<slots, position, nextRef, refs, unknown, tests, allocs, owner,
                     book, routes, selfTrades, traded, oe, tape, resets, outOfStep>>
  BY DEF LoseAck, omsVars
<1>2. Leaves(Head(acks), acks, acks')
  BY <1>1 DEF Leaves
<1>3. Safe(View, slots, acks', oe, owner)
  BY <1>2, AnswerLost DEF IInv, SessionOK
<1>4. View' = View
  BY <1>1 DEF View
<1>5. lost' \in Nat /\ lost' # 0
  BY <1>1 DEF IInv, Counts
<1>6. SessionOK'
  BY <1>1, <1>3, <1>4, <1>5 DEF SessionOK
<1>7. RefsOK' /\ HintsTrue'
  BY <1>1 DEF IInv, RefsOK, RefTypes, RefsFresh, HintsTrue
<1>8. Counts' /\ AccountsTyped' /\ SlotsTyped'
  BY <1>1, <1>5 DEF Counts, AccountsTyped, SlotsTyped, IInv
<1>9. BooksOK' /\ RoutesOK'
  BY <1>1, <1>4 DEF BooksOK, RoutesOK, IInv
<1> QED
  BY <1>5, <1>6, <1>7, <1>8, <1>9 DEF IInv

\* The slot that onAck leaves behind, when the answer is for it.
SlotHeard(s, a) ==
  IF ~Matched(s, a) THEN s
  ELSE IF a.type = "Accepted" THEN [s EXCEPT !.state = "Live", !.leaves = a.qty]
  ELSE IF a.type = "Replaced"
    THEN [state |-> "Live", userRef |-> a.ref, pendingRef |-> 0, price |-> a.price, leaves |-> a.qty]
  ELSE IF a.type = "Executed"
    THEN IF Lessened(s, a.qty).leaves = 0 /\ Lessened(s, a.qty).state = "Live" THEN Settled
         ELSE Lessened(s, a.qty)
  ELSE IF a.type = "Canceled"
    THEN IF Lessened(s, a.qty).leaves = 0 \/ Lessened(s, a.qty).state = "PendingCancel" THEN Settled
         ELSE IF Lessened(s, a.qty).state = "PendingNew" THEN [Lessened(s, a.qty) EXCEPT !.state = "Live"]
         ELSE Lessened(s, a.qty)
  ELSE IF a.type = "Rejected" /\ ~Awaits(s, a.ref) THEN Settled
  ELSE Resume(s)

\* Whatever the answer, its quote is as it should be afterwards.
LEMMA SlotHears ==
  ASSUME NEW c, NEW s, NEW A, NEW Q, NEW R, NEW T, KeyInv(c, s, A, Q, R, T),
         NEW a, NEW A2, NEW T2, Heard(a, A, A2, R, T, T2), NEW s2, s2 = SlotHeard(s, a)
  PROVE  /\ KeyInv(c, s2, A2, Q, R, T2)
         /\ KeyExact(c, s, A, Q, T) => KeyExact(c, s2, A2, Q, T2)
         /\ KeyOrderly(s, A, Q) /\ (a.type # "Executed" => \A b \in A2 : b.type = "Executed") =>
              KeyOrderly(s2, A2, Q)
         /\ KeyExact(c, s, A, Q, T) /\ ~Matched(s, a) => a.type # "Executed" /\ ~KeyOrderly(s, A, Q)
<1>1. a.type \in AckTypes
  BY KeyInvParts DEF Heard
<1>2. CASE ~Matched(s, a)
  <2>1. s2 = s
    BY <1>2 DEF SlotHeard
  <2> QED
    BY <1>2, <2>1, UnknownHeard
<1>3. CASE Matched(s, a) /\ a.type = "Accepted"
  <2>1. s2 = [s EXCEPT !.state = "Live", !.leaves = a.qty]
    BY <1>3 DEF SlotHeard
  <2> QED
    BY <1>3, <2>1, AcceptedHeard
<1>4. CASE Matched(s, a) /\ a.type = "Replaced"
  <2>1. s2 = [state |-> "Live", userRef |-> a.ref, pendingRef |-> 0, price |-> a.price, leaves |-> a.qty]
    BY <1>4 DEF SlotHeard
  <2> QED
    BY <1>4, <2>1, ReplacedHeard
<1>5. CASE Matched(s, a) /\ a.type = "Executed"
  <2> DEFINE sx == Lessened(s, a.qty)
  <2>1. s.state # "Idle" /\ s.userRef = a.ref
    BY <1>5 DEF Matched, Works
  <2>2. sx.state = s.state
    <3> HIDE DEF sx
    <3>1. sx = Lessened(s, a.qty)
      BY DEF sx
    <3> QED
      BY <1>5, <2>1, <3>1, SharesTaken
  <2>3. CASE sx.leaves = 0 /\ s.state = "Live"
    <3>1. s2 = Settled
      BY <1>5, <2>2, <2>3 DEF SlotHeard
    <3> QED
      BY <1>5, <2>1, <2>3, <3>1, LastShares
  <2>4. CASE ~(sx.leaves = 0 /\ s.state = "Live")
    <3>1. s2 = sx
      BY <1>5, <2>2, <2>4 DEF SlotHeard
    <3> HIDE DEF sx
    <3>2. sx = Lessened(s, a.qty)
      BY DEF sx
    <3> QED
      BY <1>5, <2>1, <2>4, <3>1, <3>2, SharesHeard
  <2> QED
    BY <2>3, <2>4
<1>6. CASE Matched(s, a) /\ a.type = "Canceled"
  <2> DEFINE sx == Lessened(s, a.qty)
  <2>1. s.state # "Idle" /\ s.userRef = a.ref
    BY <1>6 DEF Matched, Works
  <2>2. s2 = IF sx.leaves = 0 \/ sx.state = "PendingCancel" THEN Settled
             ELSE IF sx.state = "PendingNew" THEN [sx EXCEPT !.state = "Live"] ELSE sx
    BY <1>6 DEF SlotHeard
  <2> HIDE DEF sx
  <2>3. sx = Lessened(s, a.qty)
    BY DEF sx
  <2> QED
    BY <1>6, <2>1, <2>2, <2>3, CanceledHeard
<1>7. CASE Matched(s, a) /\ a.type = "Rejected" /\ ~Awaits(s, a.ref)
  <2>1. s2 = Settled /\ Works(s, a.ref)
    BY <1>7 DEF SlotHeard, Matched
  <2> QED
    BY <1>7, <2>1, RejectedHeard
<1>8. CASE Matched(s, a) /\ ((a.type = "Rejected" /\ Awaits(s, a.ref)) \/ a.type = "CancelReject")
  <2>1. s2 = Resume(s)
    BY <1>8 DEF SlotHeard
  <2>2. \/ a.type = "Rejected" /\ Awaits(s, a.ref)
        \/ a.type = "CancelReject" /\ s.state = "PendingCancel" /\ Works(s, a.ref)
    BY <1>8 DEF Matched
  <2> QED
    BY <1>8, <2>1, <2>2, ResumeHeard
<1> QED
  BY <1>1, <1>2, <1>3, <1>4, <1>5, <1>6, <1>7, <1>8 DEF AckTypes

-----------------------------------------------------------------------------
\* The slot that is found by a reference is the one of the quote it belongs to.
LEMMA SlotFound ==
  ASSUME Safe(View, slots, acks, oe, owner), NEW r
  PROVE  /\ SlotByRef(r) = {j \in Key : j = owner[r] /\ Works(slots[j], r)}
         /\ SlotByPending(r) = {j \in Key : j = owner[r] /\ Awaits(slots[j], r)}
<1>1. ASSUME NEW j \in Key, Works(slots[j], r) \/ Awaits(slots[j], r)
      PROVE  owner[r] = j
  <2>1. KeyTyped(View[j], slots[j], AcksOf(acks, owner, j), AsksOf(oe, owner, j), RefsOf(owner, j),
                 Due(acks, RefsOf(owner, j)))
    BY SafeParts DEF KeyAt, KeyInv
  <2>2. Good(slots[j], RefsOf(owner, j))
    BY <2>1 DEF KeyTyped
  <2>3. r \in RefsOf(owner, j)
    BY <1>1, <2>2 DEF Good, Works, Awaits
  <2> QED
    BY <2>3 DEF RefsOf
<1> DEFINE works == {k \in Key : slots[k].state # "Idle" /\ slots[k].userRef = r}
           waits == {k \in Key : slots[k].state = "PendingReplace" /\ slots[k].pendingRef = r}
<1>2. works = {j \in Key : j = owner[r] /\ Works(slots[j], r)}
  BY <1>1 DEF Works
<1>3. waits = {j \in Key : j = owner[r] /\ Awaits(slots[j], r)}
  BY <1>1 DEF Awaits
<1>4. SlotByRef(r) = works
  <2>1. works = {} \/ works = {owner[r]}
    BY <1>2
  <2>2. SlotByRef(r) = IF works = {} THEN {}
                       ELSE IF refs[r % RefRing].ref = r /\ refs[r % RefRing].key \in works
                       THEN {refs[r % RefRing].key}
                       ELSE {CHOOSE k \in works : TRUE}
    BY DEF SlotByRef
  <2> HIDE DEF works
  <2> QED
    BY <2>1, <2>2
<1>5. SlotByPending(r) = waits
  <2>1. waits = {} \/ waits = {owner[r]}
    BY <1>3
  <2>2. SlotByPending(r) = IF waits = {} THEN {} ELSE {CHOOSE k \in waits : TRUE}
    BY DEF SlotByPending
  <2> HIDE DEF waits
  <2> QED
    BY <2>1, <2>2
<1> QED
  BY <1>2, <1>3, <1>4, <1>5

\* A reference that the ring knows as a test order's is one.
LEMMA TestRefOwner ==
  ASSUME RefsOK, HintsTrue, NEW r \in Nat \ {0}, IsTestRef(r)
  PROVE  owner[r] = TestKey
<1>1. r % RefRing \in 0 .. (RefRing - 1)
  BY RefRingAssumption
<1> QED
  BY <1>1 DEF IsTestRef, HintsTrue

\* What onAck of a does to the slot of k, and to the counters.
AckDone(a, k) ==
  /\ k \in Key => slots' = [slots EXCEPT ![k] = SlotHeard(slots[k], a)]
  /\ k \notin Key => slots' = slots
  /\ position' = IF k \in Key /\ Matched(slots[k], a) /\ a.type = "Executed"
                 THEN [position EXCEPT ![k[1]] = @ + Signed(k[2], a.qty)] ELSE position
  /\ k \in Key /\ Matched(slots[k], a) => unknown' = unknown
  /\ unknown' \in {unknown, unknown + 1}

\* The slots found by the reference of an answer.
Found(a, k) ==
  /\ \A j : j \in SlotByRef(a.ref) <=> j = k /\ k \in Key /\ Works(slots[k], a.ref)
  /\ \A j : j \in SlotByPending(a.ref) <=> j = k /\ k \in Key /\ Awaits(slots[k], a.ref)
  /\ k \in Key => ~IsTestRef(a.ref)
  /\ a.dead = FALSE

\* An answer that changes no slot but may count as unknown is handled as the model of a slot
\* says.
LEMMA NothingFound ==
  ASSUME NEW a, NEW k, Found(a, k), slots \in [Key -> Slot],
         slots' = slots, position' = position, unknown' \in {unknown, unknown + 1},
         k \in Key => ~Matched(slots[k], a)
  PROVE  AckDone(a, k)
<1>1. k \in Key => slots' = [slots EXCEPT ![k] = SlotHeard(slots[k], a)]
  BY DEF SlotHeard
<1> QED
  BY <1>1 DEF AckDone

\* What onAccepted does to the slots is SlotHeard on the quote that asked.
LEMMA AcceptedEffect ==
  ASSUME NEW a, NEW k, Found(a, k), slots \in [Key -> Slot], a.type = "Accepted", OnAccepted(a)
  PROVE  AckDone(a, k)
<1>1. CASE IsTestRef(a.ref) /\ TestAck
  BY <1>1, NothingFound DEF TestAck, Found
<1>2. CASE \E j \in SlotByRef(a.ref) :
             /\ slots[j].state = "PendingNew"
             /\ SetSlot(j, IF a.dead THEN Settled ELSE [slots[j] EXCEPT !.state = "Live", !.leaves = a.qty])
  <2>1. k \in Key /\ Works(slots[k], a.ref) /\ slots[k].state = "PendingNew"
        /\ SetSlot(k, [slots[k] EXCEPT !.state = "Live", !.leaves = a.qty])
    BY <1>2 DEF Found
  <2>2. Matched(slots[k], a) /\ SlotHeard(slots[k], a) = [slots[k] EXCEPT !.state = "Live", !.leaves = a.qty]
    BY <2>1 DEF Matched, SlotHeard
  <2> QED
    BY <2>1, <2>2 DEF SetSlot, AckDone
<1>3. CASE (\A j \in SlotByRef(a.ref) : slots[j].state # "PendingNew") /\ UnknownAck
  <2>1. k \in Key => ~Matched(slots[k], a)
    BY <1>3 DEF Found, Matched
  <2> QED
    BY <1>3, <2>1, NothingFound DEF UnknownAck
<1> QED
  BY <1>1, <1>2, <1>3 DEF OnAccepted

\* The same of onReplaced.
LEMMA ReplacedEffect ==
  ASSUME NEW a, NEW k, Found(a, k), slots \in [Key -> Slot], a.type = "Replaced", OnReplaced(a)
  PROVE  AckDone(a, k)
<1> DEFINE live == [state |-> "Live", userRef |-> a.ref, pendingRef |-> 0, price |-> a.price, leaves |-> a.qty]
<1>1. CASE \E j \in SlotByPending(a.ref) : SetSlot(j, IF a.dead THEN Settled ELSE live)
  <2>1. k \in Key /\ Awaits(slots[k], a.ref) /\ SetSlot(k, live)
    BY <1>1 DEF Found
  <2>2. Matched(slots[k], a) /\ SlotHeard(slots[k], a) = live
    BY <2>1 DEF Matched, SlotHeard
  <2> QED
    BY <2>1, <2>2 DEF SetSlot, AckDone
<1>2. CASE SlotByPending(a.ref) = {} /\ UnknownAck
  <2>1. k \in Key => ~Matched(slots[k], a)
    BY <1>2 DEF Found, Matched
  <2> QED
    BY <1>2, <2>1, NothingFound DEF UnknownAck
<1> QED
  BY <1>1, <1>2 DEF OnReplaced

\* The same of onExecuted, which also moves the position.
LEMMA ExecutedEffect ==
  ASSUME NEW a, NEW k, Found(a, k), slots \in [Key -> Slot], a.type = "Executed", OnExecuted(a)
  PROVE  AckDone(a, k)
<1>1. CASE SlotByRef(a.ref) # {}
  <2>1. SlotByRef(a.ref) = {k} /\ k \in Key /\ Works(slots[k], a.ref)
    BY <1>1 DEF Found
  <2> DEFINE s == Lessened(slots[k], a.qty)
  <2>2. /\ slots' = [slots EXCEPT ![k] = IF s.leaves = 0 /\ s.state = "Live" THEN Settled ELSE s]
        /\ position' = [position EXCEPT ![k[1]] = @ + Signed(k[2], a.qty)]
        /\ unknown' = unknown
    BY <2>1 DEF OnExecuted, Lessened
  <2>3. Matched(slots[k], a)
    BY <2>1 DEF Matched
  <2>4. SlotHeard(slots[k], a) = IF s.leaves = 0 /\ s.state = "Live" THEN Settled ELSE s
    BY <2>3 DEF SlotHeard
  <2> QED
    BY <2>1, <2>2, <2>3, <2>4 DEF AckDone
<1>2. CASE SlotByRef(a.ref) = {}
  <2>1. k \in Key => ~Matched(slots[k], a)
    BY <1>2 DEF Found, Matched
  <2>2. UnknownAck
    BY <1>2 DEF OnExecuted
  <2> QED
    BY <2>1, <2>2, NothingFound DEF UnknownAck
<1> QED
  BY <1>1, <1>2

\* The same of onCanceled.
LEMMA CanceledEffect ==
  ASSUME NEW a, NEW k, Found(a, k), slots \in [Key -> Slot], a.type = "Canceled", OnCanceled(a)
  PROVE  AckDone(a, k)
<1>1. CASE SlotByRef(a.ref) # {}
  <2>1. SlotByRef(a.ref) = {k} /\ k \in Key /\ Works(slots[k], a.ref)
    BY <1>1 DEF Found
  <2> DEFINE s == Lessened(slots[k], a.qty)
             s2 == IF s.leaves = 0 \/ s.state = "PendingCancel" THEN Settled
                   ELSE IF s.state = "PendingNew" THEN [s EXCEPT !.state = "Live"] ELSE s
  <2>2. SetSlot(k, s2)
    BY <2>1 DEF OnCanceled, Lessened
  <2>3. Matched(slots[k], a)
    BY <2>1 DEF Matched
  <2>4. SlotHeard(slots[k], a) = s2
    BY <2>3 DEF SlotHeard
  <2> QED
    BY <2>1, <2>2, <2>3, <2>4 DEF AckDone, SetSlot
<1>2. CASE SlotByRef(a.ref) = {}
  <2>1. k \in Key => ~Matched(slots[k], a)
    BY <1>2 DEF Found, Matched
  <2>2. UnknownAck
    BY <1>2 DEF OnCanceled
  <2> QED
    BY <2>1, <2>2, NothingFound DEF UnknownAck
<1> QED
  BY <1>1, <1>2

\* The same of onRejected.
LEMMA RejectedEffect ==
  ASSUME NEW a, NEW k, Found(a, k), slots \in [Key -> Slot], a.type = "Rejected", OnRejected(a)
  PROVE  AckDone(a, k)
<1>1. CASE IsTestRef(a.ref) /\ TestAck
  BY <1>1, NothingFound DEF TestAck, Found
<1>2. CASE \E j \in SlotByPending(a.ref) : SetSlot(j, Resume(slots[j]))
  <2>1. k \in Key /\ Awaits(slots[k], a.ref) /\ SetSlot(k, Resume(slots[k]))
    BY <1>2 DEF Found
  <2>2. Matched(slots[k], a) /\ SlotHeard(slots[k], a) = Resume(slots[k])
    BY <2>1 DEF Matched, SlotHeard
  <2> QED
    BY <2>1, <2>2 DEF SetSlot, AckDone
<1>3. CASE SlotByPending(a.ref) = {} /\ \E j \in SlotByRef(a.ref) : SetSlot(j, Settled)
  <2>1. k \in Key /\ Works(slots[k], a.ref) /\ ~Awaits(slots[k], a.ref) /\ SetSlot(k, Settled)
    BY <1>3 DEF Found
  <2>2. Matched(slots[k], a) /\ SlotHeard(slots[k], a) = Settled
    BY <2>1 DEF Matched, SlotHeard
  <2> QED
    BY <2>1, <2>2 DEF SetSlot, AckDone
<1>4. CASE SlotByPending(a.ref) = {} /\ SlotByRef(a.ref) = {} /\ UnknownAck
  <2>1. k \in Key => ~Matched(slots[k], a)
    BY <1>4 DEF Found, Matched
  <2> QED
    BY <1>4, <2>1, NothingFound DEF UnknownAck
<1> QED
  BY <1>1, <1>2, <1>3, <1>4 DEF OnRejected

\* The same of onCancelReject.
LEMMA CancelRejectEffect ==
  ASSUME NEW a, NEW k, Found(a, k), slots \in [Key -> Slot], a.type = "CancelReject", OnCancelReject(a)
  PROVE  AckDone(a, k)
<1>1. CASE \E j \in SlotByRef(a.ref) : slots[j].state = "PendingCancel" /\ SetSlot(j, Resume(slots[j]))
  <2>1. k \in Key /\ Works(slots[k], a.ref) /\ slots[k].state = "PendingCancel" /\ SetSlot(k, Resume(slots[k]))
    BY <1>1 DEF Found
  <2>2. Matched(slots[k], a) /\ SlotHeard(slots[k], a) = Resume(slots[k])
    BY <2>1 DEF Matched, SlotHeard
  <2> QED
    BY <2>1, <2>2 DEF SetSlot, AckDone
<1>2. CASE (\A j \in SlotByRef(a.ref) : slots[j].state # "PendingCancel") /\ UnknownAck
  <2>1. k \in Key => ~Matched(slots[k], a)
    BY <1>2 DEF Found, Matched
  <2> QED
    BY <1>2, <2>1, NothingFound DEF UnknownAck
<1> QED
  BY <1>1, <1>2 DEF OnCancelReject

\* onAck, as a whole.
LEMMA AckEffect ==
  ASSUME IInv, NEW a \in Answers, a.ref \in Nat \ {0}, OnAck(a)
  PROVE  AckDone(a, owner[a.ref])
<1> DEFINE k == owner[a.ref]
<1>1. Found(a, k)
  <2>1. Safe(View, slots, acks, oe, owner) /\ RefsOK /\ HintsTrue
    BY DEF IInv, SessionOK
  <2>2. k \in Key => ~IsTestRef(a.ref)
    BY <2>1, TestRefOwner, KeyParts
  <2>3. /\ SlotByRef(a.ref) = {j \in Key : j = owner[a.ref] /\ Works(slots[j], a.ref)}
        /\ SlotByPending(a.ref) = {j \in Key : j = owner[a.ref] /\ Awaits(slots[j], a.ref)}
    BY <2>1, SlotFound
  <2>4. a.dead = FALSE
    BY DEF Answers
  <2> QED
    BY <2>2, <2>3, <2>4 DEF Found
<1>2. slots \in [Key -> Slot]
  BY DEF IInv, SlotsTyped
<1> HIDE DEF k
<1>3. AckDone(a, k)
  BY <1>1, <1>2, AcceptedEffect, ReplacedEffect, ExecutedEffect, CanceledEffect, RejectedEffect,
     CancelRejectEffect DEF OnAck
<1> QED
  BY <1>3 DEF k

\* An answer is handled: what the session is afterwards.
LEMMA SessionHears ==
  ASSUME IInv, NEW a, NEW k, Leaves(a, acks, acks'), k = owner[a.ref], AckDone(a, k)
  PROVE  /\ Safe(View, slots', acks', oe, owner)
         /\ Exact(View, slots, acks, oe, owner) => Exact(View, slots', acks', oe, owner)
         /\ Orderly(slots, acks, oe, owner) => Orderly(slots', acks', oe, owner)
         /\ Exact(View, slots, acks, oe, owner) /\ k \in Key /\ ~Matched(slots[k], a) =>
              a.type # "Executed" /\ ~Orderly(slots, acks, oe, owner)
<1>1. Safe(View, slots, acks, oe, owner) /\ slots \in [Key -> Slot]
  BY DEF IInv, SessionOK, SlotsTyped
<1> DEFINE A == AcksOf(acks, owner, k)
           A2 == AcksOf(acks', owner, k)
           Q == AsksOf(oe, owner, k)
           R == RefsOf(owner, k)
           T == Due(acks, R)
           T2 == Due(acks', R)
           c == View[k]
           s == slots[k]
           s2 == slots'[k]
<1>2. \A j \in Key : j # k => slots'[j] = slots[j]
  BY <1>1 DEF AckDone
<1>3. ASSUME k \in Key
      PROVE  /\ KeyAt(View, slots', acks', oe, owner, k)
             /\ ExactAt(View, slots, acks, oe, owner, k) => ExactAt(View, slots', acks', oe, owner, k)
             /\ KeyOrderly(s, A, Q) /\ (a.type # "Executed" => \A b \in A2 : b.type = "Executed") =>
                  KeyOrderly(s2, A2, Q)
             /\ ExactAt(View, slots, acks, oe, owner, k) /\ ~Matched(s, a) =>
                  a.type # "Executed" /\ ~KeyOrderly(s, A, Q)
  <2>1. s2 = SlotHeard(s, a)
    BY <1>1, <1>3 DEF AckDone
  <2>2. KeyInv(c, s, A, Q, R, T)
    BY <1>1, <1>3, SafeParts DEF KeyAt
  <2>3. Heard(a, A, A2, R, T, T2)
    BY <1>1, <1>3, LeavesParts
  <2>4. /\ KeyInv(c, s2, A2, Q, R, T2)
        /\ KeyExact(c, s, A, Q, T) => KeyExact(c, s2, A2, Q, T2)
        /\ KeyOrderly(s, A, Q) /\ (a.type # "Executed" => \A b \in A2 : b.type = "Executed") =>
             KeyOrderly(s2, A2, Q)
        /\ KeyExact(c, s, A, Q, T) /\ ~Matched(s, a) => a.type # "Executed" /\ ~KeyOrderly(s, A, Q)
    <3> HIDE DEF c, s, s2, A, A2, Q, R, T, T2
    <3> QED
      BY <2>1, <2>2, <2>3, SlotHears
  <2> QED
    BY <2>4 DEF KeyAt, ExactAt
<1>4. /\ Safe(View, slots', acks', oe, owner)
      /\ Exact(View, slots, acks, oe, owner) /\ (k \in Key => ExactAt(View, slots', acks', oe, owner, k)) =>
           Exact(View, slots', acks', oe, owner)
      /\ Orderly(slots, acks, oe, owner) /\ k \in Key /\ a.type # "Executed" => \A b \in A2 : b.type = "Executed"
      /\ /\ Orderly(slots, acks, oe, owner)
         /\ k \in Key => KeyOrderly(s2, A2, Q)
         => Orderly(slots', acks', oe, owner)
  <2>1. k \in Key => KeyAt(View, slots', acks', oe, owner, k)
    BY <1>3
  <2> QED
    BY <1>1, <1>2, <2>1, HeardBy
<1>5. Orderly(slots, acks, oe, owner) /\ k \in Key => KeyOrderly(s, A, Q)
  BY DEF Orderly, OrderlyAt
<1>6. Exact(View, slots, acks, oe, owner) /\ k \in Key => ExactAt(View, slots, acks, oe, owner, k)
  BY DEF Exact
<1> HIDE DEF s, s2, A, A2, Q
<1>7. Exact(View, slots, acks, oe, owner) => Exact(View, slots', acks', oe, owner)
  BY <1>3, <1>4, <1>6
<1>8. Orderly(slots, acks, oe, owner) => Orderly(slots', acks', oe, owner)
  BY <1>3, <1>4, <1>5
<1>9. Exact(View, slots, acks, oe, owner) /\ k \in Key /\ ~Matched(slots[k], a) =>
              a.type # "Executed" /\ ~Orderly(slots, acks, oe, owner)
  BY <1>3, <1>5, <1>6 DEF s
<1> QED
  BY <1>4, <1>7, <1>8, <1>9

\* The account follows the answers that are handled.
LEMMA BalanceHeard ==
  ASSUME IInv, Balance, NEW a, NEW k, Leaves(a, acks, acks'), k = owner[a.ref], AckDone(a, k),
         a.type = "Executed" /\ k \in Key => Matched(slots[k], a),
         owner' = owner, traded' = traded
  PROVE  Balance'
<1>1. acks \in Seq(Answers) /\ acks # << >> /\ a = Head(acks) /\ acks' = Tail(acks)
  BY SafeParts DEF IInv, SessionOK, Leaves
<1>2. \A j : /\ Told(acks', owner, j) =
                 Told(acks, owner, j) - (IF a.type = "Executed" /\ k = j THEN a.qty ELSE 0)
             /\ Told(acks, owner, j) \in Nat
  BY <1>1, ToldTail
<1>3. a \in Answers
  BY <1>1, HeadTailProperties
<1>4. a.qty \in Nat
  BY <1>3 DEF Answers
<1>5. position \in [Syms -> Int] /\ traded \in [Syms -> Int]
  BY DEF IInv, AccountsTyped
<1>6. ASSUME NEW s \in Syms
      PROVE  position'[s] = traded[s] - Told(acks', owner, <<s, "Buy">>) + Told(acks', owner, <<s, "Sell">>)
  <2> DEFINE kb == <<s, "Buy">>
             ks == <<s, "Sell">>
  <2>1. kb \in Key /\ ks \in Key /\ kb # ks /\ kb[1] = s /\ ks[1] = s /\ kb[2] = "Buy" /\ ks[2] = "Sell"
    BY KeyParts DEF Sides
  <2>2. position[s] = traded[s] - Told(acks, owner, kb) + Told(acks, owner, ks)
    BY DEF Balance
  <2>3. position[s] \in Int /\ traded[s] \in Int
    BY <1>5
  <2>4. k \in Key /\ k[1] = s => k = kb \/ k = ks
    BY KeyParts DEF Sides
  <2> HIDE DEF kb, ks
  <2>5. CASE a.type = "Executed" /\ k = kb
    <3>1. position'[s] = position[s] + a.qty
      BY <1>5, <2>1, <2>5 DEF AckDone, Signed
    <3>2. Told(acks', owner, kb) = Told(acks, owner, kb) - a.qty /\ Told(acks', owner, ks) = Told(acks, owner, ks)
      BY <1>2, <1>4, <2>1, <2>5
    <3>3. Told(acks, owner, kb) \in Nat /\ Told(acks, owner, ks) \in Nat
      BY <1>2
    <3>4. position'[s] = traded[s] - Told(acks', owner, kb) + Told(acks', owner, ks)
      BY ONLY <3>1, <3>2, <3>3, <2>2, <2>3, <1>4
    <3> QED
      BY <3>4 DEF kb, ks
  <2>6. CASE a.type = "Executed" /\ k = ks
    <3>1. position'[s] = position[s] - a.qty
      BY <1>5, <1>4, <2>1, <2>6 DEF AckDone, Signed
    <3>2. Told(acks', owner, kb) = Told(acks, owner, kb) /\ Told(acks', owner, ks) = Told(acks, owner, ks) - a.qty
      BY <1>2, <1>4, <2>1, <2>6
    <3>3. Told(acks, owner, kb) \in Nat /\ Told(acks, owner, ks) \in Nat
      BY <1>2
    <3>4. position'[s] = traded[s] - Told(acks', owner, kb) + Told(acks', owner, ks)
      BY ONLY <3>1, <3>2, <3>3, <2>2, <2>3, <1>4
    <3> QED
      BY <3>4 DEF kb, ks
  <2>7. CASE ~(a.type = "Executed" /\ (k = kb \/ k = ks))
    <3>1. position'[s] = position[s]
      <4>1. ~(a.type = "Executed" /\ k \in Key /\ k[1] = s)
        BY <2>4, <2>7
      <4>2. CASE k \in Key /\ Matched(slots[k], a) /\ a.type = "Executed"
        <5>1. k[1] # s
          BY <4>1, <4>2
        <5> QED
          BY <1>5, <4>2, <5>1 DEF AckDone
      <4>3. CASE ~(k \in Key /\ Matched(slots[k], a) /\ a.type = "Executed")
        BY <4>3 DEF AckDone
      <4> QED
        BY <4>2, <4>3
    <3>2. Told(acks', owner, kb) = Told(acks, owner, kb) /\ Told(acks', owner, ks) = Told(acks, owner, ks)
      BY <1>2, <1>4, <2>7
    <3> QED
      BY <3>1, <3>2, <2>2 DEF kb, ks
  <2> QED
    BY <2>5, <2>6, <2>7
<1> QED
  BY <1>6 DEF Balance

\* ApplyAck preserves the inductive invariant.
LEMMA ApplyAckKeeps ==
  ASSUME IInv, ApplyAck
  PROVE  /\ IInv'
         /\ lost = 0 /\ resets = 0 /\ owner[Head(acks).ref] \in Key => unknown' = unknown
<1> DEFINE a == Head(acks)
           k == owner[a.ref]
<1>1. /\ acks # << >> /\ OnAck(a) /\ acks' = Tail(acks)
      /\ UNCHANGED <<book, routes, selfTrades, traded, oe, tape, resets, lost, outOfStep,
                     nextRef, refs, allocs, owner>>
  BY DEF ApplyAck, entryVars, OnAck
<1>2. Leaves(a, acks, acks')
  BY <1>1 DEF Leaves
<1>3. Safe(View, slots, acks, oe, owner)
  BY DEF IInv, SessionOK
<1> HIDE DEF a
<1>4. a \in Answers /\ a.ref \in Nat \ {0}
  <2>1. a \in Answers /\ a.ref \in DOMAIN owner
    BY <1>2, <1>3, LeavesParts
  <2> QED
    BY <2>1, <1>3, SafeParts
<1>5. AckDone(a, k)
  BY <1>1, <1>4, AckEffect
<1>6. k = owner[a.ref]
  OBVIOUS
<1>7. View' = View
  BY <1>1 DEF View
<1> HIDE DEF k
<1>8. /\ Safe(View, slots', acks', oe, owner)
      /\ Exact(View, slots, acks, oe, owner) => Exact(View, slots', acks', oe, owner)
      /\ Orderly(slots, acks, oe, owner) => Orderly(slots', acks', oe, owner)
      /\ Exact(View, slots, acks, oe, owner) /\ k \in Key /\ ~Matched(slots[k], a) =>
           a.type # "Executed" /\ ~Orderly(slots, acks, oe, owner)
  BY <1>2, <1>5, <1>6, SessionHears
<1>9. SessionOK'
  BY <1>1, <1>7, <1>8 DEF SessionOK, IInv
<1>10. SlotsTyped'
  <2>1. \A j \in Key : slots'[j] \in Slot
    BY <1>8, HeldFacts
  <2>2. slots' = [j \in Key |-> slots'[j]]
    BY <1>5 DEF AckDone, IInv, SlotsTyped
  <2> QED
    BY <2>1, <2>2 DEF SlotsTyped
<1>11. Counts'
  BY <1>1, <1>5 DEF Counts, AckDone, IInv
<1>12. AccountsTyped'
  <2>1. a.qty \in Nat
    BY <1>4 DEF Answers
  <2>2. \A d : Signed(d, a.qty) \in Int
    BY <2>1 DEF Signed
  <2>3. position \in [Syms -> Int] /\ traded \in [Syms -> Int]
    BY DEF IInv, AccountsTyped
  <2>4. position' \in [Syms -> Int]
    <3>1. CASE k \in Key /\ Matched(slots[k], a) /\ a.type = "Executed"
      <4>1. position' = [position EXCEPT ![k[1]] = @ + Signed(k[2], a.qty)]
        BY <3>1, <1>5 DEF AckDone
      <4>2. Signed(k[2], a.qty) \in Int
        BY <2>2
      <4>3. k[1] \in Syms
        BY <3>1, KeyParts
      <4>4. position[k[1]] + Signed(k[2], a.qty) \in Int
        BY <4>2, <4>3, <2>3
      <4> QED
        BY <4>1, <4>4, <2>3
    <3>2. CASE ~(k \in Key /\ Matched(slots[k], a) /\ a.type = "Executed")
      BY <3>2, <2>3, <1>5 DEF AckDone
    <3> QED
      BY <3>1, <3>2
  <2> QED
    BY <2>3, <2>4, <1>1 DEF AccountsTyped
<1>13. BooksOK' /\ RoutesOK'
  BY <1>1, <1>7 DEF BooksOK, RoutesOK, IInv
<1>14. RefsOK' /\ HintsTrue'
  BY <1>1 DEF IInv, RefsOK, RefTypes, RefsFresh, HintsTrue
<1>15. lost' = 0 => Balance'
  <2>1. SUFFICES ASSUME lost = 0 PROVE Balance'
    BY <1>1
  <2>2. Exact(View, slots, acks, oe, owner) /\ Balance
    BY <2>1 DEF IInv, SessionOK
  <2> QED
    BY <1>1, <1>2, <1>5, <1>6, <1>8, <2>2, BalanceHeard
<1>16. lost = 0 /\ resets = 0 /\ k \in Key => unknown' = unknown
  <2>1. SUFFICES ASSUME lost = 0, resets = 0, k \in Key PROVE unknown' = unknown
    OBVIOUS
  <2>2. Exact(View, slots, acks, oe, owner) /\ Orderly(slots, acks, oe, owner)
    BY <2>1 DEF IInv, SessionOK
  <2>3. Matched(slots[k], a)
    BY <2>1, <2>2, <1>8
  <2> QED
    BY <2>1, <2>3, <1>5 DEF AckDone
<1> QED
  BY <1>9, <1>10, <1>11, <1>12, <1>13, <1>14, <1>15, <1>16 DEF IInv, k, a

\* What is left of an order that a side shows.
LEMMA TakeFacts ==
  ASSUME NEW c \in Views, c.qty = 0 => c = NoOrder
  PROVE  /\ Take(c, 0) = c
         /\ \A f \in Nat : f <= c.qty => \A r : Holds(Take(c, f), r) => Holds(c, r)
<1>1. c.qty \in Nat /\ c.id \in Nat /\ c.price \in Nat
  BY DEF Views
<1>2. Take(c, 0) = c
  <2>1. CASE c.qty = 0
    BY <2>1 DEF Take
  <2>2. CASE c.qty # 0
    <3>1. [c EXCEPT !.qty = @ - 0] = c
      BY <1>1 DEF Views
    <3> QED
      BY <2>2, <3>1 DEF Take
  <2> QED
    BY <2>1, <2>2
<1>3. ASSUME NEW f \in Nat, f <= c.qty, NEW r, Holds(Take(c, f), r) PROVE Holds(c, r)
  <2>1. CASE f = c.qty
    BY <1>3, <2>1 DEF Take, NoOrder, Holds
  <2>2. CASE f # c.qty
    <3>1. Take(c, f).id = c.id /\ c.qty > 0
      BY <1>1, <1>3, <2>2 DEF Take, Views
    <3> QED
      BY <1>3, <3>1 DEF Holds
  <2> QED
    BY <2>1, <2>2
<1> QED
  BY <1>2, <1>3

\* A trade on a symbol: the order that the side "far" shows gives up its part of
\* the fills, and that of "near", if it is the aggressor "ag", all of them.
TradedBy(far, near, ag, rest, fills, k) ==
  IF k = far THEN ClientPart(rest, fills) ELSE IF k = near /\ ag # << >> THEN SumOf(fills) ELSE 0

\* The aggressor: none, or the order that v shows of "near".
Aggressor(v, near, ag, fills) ==
  \/ ag = << >>
  \/ \E r \in Nat : ag = <<r>> /\ Holds(v[near], r) /\ SumOf(fills) <= v[near].qty

\* The answers E tell of the trade, and v2 is what is left of the quotes of v.
Trades(v, v2, ak, u, far, near, rest, fills, ag, E) ==
  /\ far \in Key /\ near \in Key /\ far # near
  /\ rest \in Seq(Orders) /\ Shows(rest, v[far])
  /\ fills \in Seq(Int) /\ FillsFit(rest, fills) /\ SumOf(fills) \in Nat
  /\ Aggressor(v, near, ag, fills)
  /\ E = Executions(rest, fills, ag) /\ u = ak \o E
  /\ \A k \in Key : v2[k] = Take(v[k], TradedBy(far, near, ag, rest, fills, k))

\* A match on one symbol keeps the session's invariants and tells each quote of the shares it
\* traded there.
LEMMA SessionTrades ==
  ASSUME NEW v, NEW s, NEW ak, NEW q, NEW own, Safe(v, s, ak, q, own),
         NEW far, NEW near, NEW rest, NEW fills, NEW ag, NEW E, NEW v2, NEW u,
         Trades(v, v2, ak, u, far, near, rest, fills, ag, E)
  PROVE  /\ Safe(v2, s, u, q, own)
         /\ Exact(v, s, ak, q, own) => Exact(v2, s, u, q, own)
         /\ Orderly(s, ak, q, own) => Orderly(s, u, q, own)
         /\ \A k \in Key : Told(E, own, k) = TradedBy(far, near, ag, rest, fills, k)
         /\ \A k \in Key : TradedBy(far, near, ag, rest, fills, k) \in Nat
                           /\ TradedBy(far, near, ag, rest, fills, k) <= v[k].qty
         /\ Joined(u, ak, E, Answers)
<1> USE DEF Trades
<1> DEFINE c == v[far]
           f == [k \in Key |-> TradedBy(far, near, ag, rest, fills, k)]
<1>0. \A k \in Key : /\ v[k] \in Views /\ v[k].qty \in Nat /\ v[k].id \in Nat
                     /\ \A r : Holds(v[k], r) => r \in DOMAIN own /\ own[r] = k
  BY HeldFacts
<1>1. ClientPart(rest, fills) \in Nat /\ ClientPart(rest, fills) <= c.qty
  BY ReducedShows
<1>2. \A k \in Key : f[k] \in Nat /\ f[k] <= v[k].qty
  BY <1>0, <1>1 DEF TradedBy, Aggressor
<1>3. ag = << >> \/ \E r \in Nat : ag = <<r>>
  BY DEF Aggressor
<1>4. /\ E \in Seq(Answers)
      /\ \A j \in 1 .. Len(E) : Fill(E[j], ag, c)
      /\ \A S, R : (\A a \in Answers : a.type = "Executed" => (a \in S <=> a.ref \in R)) =>
           Shares(E, S) = (IF ag # << >> /\ ag[1] \in R THEN SumOf(fills) ELSE 0)
                          + (IF c.qty > 0 /\ c.id \in R THEN ClientPart(rest, fills) ELSE 0)
  <2> HIDE DEF c
  <2>1. Shows(rest, c)
    BY DEF c
  <2>2. rest \in Seq(Orders) /\ fills \in Seq(Int) /\ FillsFit(rest, fills) /\ E = Executions(rest, fills, ag)
    OBVIOUS
  <2> QED
    <3>1. Trade(E, rest, c, fills, ag)
      BY <1>3, <2>1, <2>2 DEF Trade
    <3>2. /\ E \in Seq(Answers)
          /\ \A j \in 1 .. Len(E) : Fill(E[j], ag, c)
          /\ TradeShares(E, rest, c, fills, ag)
      BY <3>1, ExecutionsFacts
    <3> QED
      BY <3>2 DEF TradeShares
<1>5. ag # << >> => Holds(v[near], ag[1]) /\ v[near].id = ag[1] /\ v[near].qty > 0 /\ own[ag[1]] = near
                    /\ ag[1] \in DOMAIN own
  BY <1>0 DEF Aggressor, Holds
<1>6. c.qty > 0 => Holds(c, c.id) /\ own[c.id] = far /\ c.id \in DOMAIN own
  BY <1>0 DEF Holds
<1>7. ASSUME NEW i \in 1 .. Len(E)
      PROVE  /\ E[i].type = "Executed" /\ E[i].qty > 0
             /\ E[i].ref \in DOMAIN own
             /\ \A k \in Key : own[E[i].ref] = k => Holds(v[k], E[i].ref)
  BY <1>4, <1>5, <1>6 DEF Fill
<1>8. ASSUME NEW k \in Key, NEW r \in RefsOf(own, k)
      PROVE  Shares(E, Leaving(r)) = IF Holds(v[k], r) THEN f[k] ELSE 0
  <2>1. \A a \in Answers : a.type = "Executed" => (a \in Leaving(r) <=> a.ref \in {r})
    BY DEF Leaving
  <2>2. Shares(E, Leaving(r)) = (IF ag # << >> /\ ag[1] \in {r} THEN SumOf(fills) ELSE 0)
                                + (IF c.qty > 0 /\ c.id \in {r} THEN ClientPart(rest, fills) ELSE 0)
    BY <1>4, <2>1
  <2>3. own[r] = k
    BY DEF RefsOf
  <2>4. (ag # << >> /\ ag[1] = r) <=> (k = near /\ ag # << >> /\ Holds(v[k], r))
    BY <2>3, <1>5 DEF Holds
  <2>5. (c.qty > 0 /\ c.id = r) <=> (k = far /\ Holds(v[k], r))
    BY <2>3, <1>6 DEF Holds
  <2>6. CASE k = far
    BY <2>2, <2>4, <2>5, <2>6, <1>1 DEF TradedBy
  <2>7. CASE k # far
    BY <2>2, <2>4, <2>5, <2>7 DEF TradedBy
  <2> QED
    BY <2>6, <2>7
<1>9. ASSUME NEW k \in Key
      PROVE  Told(E, own, k) = f[k]
  <2> DEFINE R == {r \in Nat : own[r] = k}
  <2>1. \A a \in Answers : a.type = "Executed" => (a \in ToldOf(own, k) <=> a.ref \in R)
    BY DEF ToldOf, Answers
  <2>2. Told(E, own, k) = (IF ag # << >> /\ ag[1] \in R THEN SumOf(fills) ELSE 0)
                          + (IF c.qty > 0 /\ c.id \in R THEN ClientPart(rest, fills) ELSE 0)
    <3> HIDE DEF R
    <3> QED
      BY <1>4, <2>1 DEF Told
  <2>3. (ag # << >> /\ ag[1] \in R) <=> (ag # << >> /\ k = near)
    BY <1>3, <1>5
  <2>4. (c.qty > 0 /\ c.id \in R) <=> (c.qty > 0 /\ k = far)
    BY <1>6, <1>0
  <2>5. c.qty = 0 => ClientPart(rest, fills) = 0
    BY <1>1, <1>0
  <2> HIDE DEF R
  <2>6. CASE k = far
    BY <2>2, <2>3, <2>4, <2>5, <2>6, <1>0, <1>1 DEF TradedBy
  <2>7. CASE k # far
    BY <2>2, <2>3, <2>4, <2>7 DEF TradedBy
  <2> QED
    BY <2>6, <2>7
<1>10. Joined(u, ak, E, Answers)
  BY <1>4, SafeParts DEF Joined
<1>11. f \in [Key -> Nat] /\ \A k \in Key : v2[k] = Take(v[k], f[k])
  BY <1>2
<1>12. \A k \in Key : f[k] = TradedBy(far, near, ag, rest, fills, k)
  OBVIOUS
<1> HIDE DEF f, c
<1>13. /\ Safe(v2, s, u, q, own)
       /\ Exact(v, s, ak, q, own) => Exact(v2, s, u, q, own)
       /\ Orderly(s, ak, q, own) => Orderly(s, u, q, own)
  <2>1. AllFilled(v, v2, f, E, own)
    BY <1>2, <1>4, <1>7, <1>8, <1>11 DEF AllFilled
  <2> QED
    BY <1>10, <2>1, SessionFilled
<1> QED
  BY <1>2, <1>9, <1>10, <1>12, <1>13

\* The account follows the shares the client trades, those of a quote k adding
\* f[k] to what the answers tell.
TradeTold(E, sym, side, g, h) ==
  /\ sym \in Syms /\ side \in Sides /\ g \in Nat /\ h \in Nat
  /\ \A k \in Key : Told(E, owner, k) = IF k = <<sym, side>> THEN g ELSE IF k = <<sym, Other(side)>> THEN h ELSE 0
  /\ traded' = [traded EXCEPT ![sym] = @ + Signed(side, g - h)]

\* A match moves the executed shares and what the quotes are told by the same number, so the
\* accounts stay balanced.
LEMMA BalanceTraded ==
  ASSUME AccountsTyped, NEW E, Joined(acks', acks, E, Answers), owner' = owner, position' = position,
         NEW sym, NEW side, NEW g, NEW h, TradeTold(E, sym, side, g, h)
  PROVE  AccountsTyped' /\ (Balance => Balance')
<1> USE DEF TradeTold
<1> DEFINE near == <<sym, side>>
           far == <<sym, Other(side)>>
<1>1. position \in [Syms -> Int] /\ traded \in [Syms -> Int]
  BY DEF AccountsTyped
<1>2. \A k : /\ Told(acks', owner, k) = Told(acks, owner, k) + Told(E, owner, k)
             /\ Told(acks, owner, k) \in Nat /\ Told(E, owner, k) \in Nat
  BY ToldAppended
<1>3. Signed(side, g - h) \in Int
  BY DEF Signed
<1>4. traded' \in [Syms -> Int] /\ \A s \in Syms : traded'[s] = IF s = sym THEN traded[s] + Signed(side, g - h) ELSE traded[s]
  <2>1. traded[sym] + Signed(side, g - h) \in Int
    BY <1>1, <1>3
  <2> QED
    BY <2>1, <1>1
<1>5. ASSUME Balance, NEW s \in Syms
      PROVE  position[s] = traded'[s] - Told(acks', owner, <<s, "Buy">>) + Told(acks', owner, <<s, "Sell">>)
  <2> DEFINE kb == <<s, "Buy">>
             ks == <<s, "Sell">>
             b == Told(acks, owner, kb)
             l == Told(acks, owner, ks)
  <2>1. kb \in Key /\ ks \in Key
    BY KeyParts DEF Sides
  <2>2. position[s] = traded[s] - b + l /\ b \in Nat /\ l \in Nat /\ traded[s] \in Int
    BY <1>1, <1>2, <1>5 DEF Balance
  <2>3. CASE s # sym
    <3>1. kb # near /\ kb # far /\ ks # near /\ ks # far
      BY <2>3
    <3>2. Told(E, owner, kb) = 0 /\ Told(E, owner, ks) = 0
      BY <2>1, <3>1
    <3>3. Told(acks', owner, kb) = b /\ Told(acks', owner, ks) = l /\ traded'[s] = traded[s]
      BY <1>2, <1>4, <2>2, <2>3, <3>2
    <3> QED
      BY <2>2, <3>3
  <2>4. CASE s = sym /\ side = "Buy"
    <3>1. kb = near /\ ks = far /\ kb # ks
      BY <2>4 DEF Other
    <3>2. Told(E, owner, kb) = g /\ Told(E, owner, ks) = h
      BY <2>1, <3>1
    <3>3. traded'[s] = traded[s] + (g - h)
      BY <1>4, <2>4 DEF Signed
    <3>4. Told(acks', owner, kb) = b + g /\ Told(acks', owner, ks) = l + h
      BY <1>2, <3>2
    <3> HIDE DEF b, l
    <3>5. position[s] = traded'[s] - (b + g) + (l + h)
      BY ONLY <2>2, <3>3, g \in Nat, h \in Nat
    <3> QED
      BY <3>4, <3>5
  <2>5. CASE s = sym /\ side = "Sell"
    <3>1. ks = near /\ kb = far /\ kb # ks
      BY <2>5 DEF Other
    <3>2. Told(E, owner, ks) = g /\ Told(E, owner, kb) = h
      BY <2>1, <3>1
    <3>3. traded'[s] = traded[s] - (g - h)
      BY <1>4, <2>5, <2>2 DEF Signed
    <3>4. Told(acks', owner, kb) = b + h /\ Told(acks', owner, ks) = l + g
      BY <1>2, <3>2
    <3> HIDE DEF b, l
    <3>5. position[s] = traded'[s] - (b + h) + (l + g)
      BY ONLY <2>2, <3>3, g \in Nat, h \in Nat
    <3> QED
      BY <3>4, <3>5
  <2> QED
    BY <2>3, <2>4, <2>5 DEF Sides
<1> QED
  BY <1>1, <1>4, <1>5 DEF Balance, AccountsTyped

\* What a tape message leaves alone.
TapeStep ==
  /\ tape' \in Nat
  /\ UNCHANGED <<omsVars, oe, resets, lost, outOfStep>>

\* A step of the tape leaves the client's half and the queue of requests alone.
LEMMA TapeStepKeeps ==
  ASSUME IInv, TapeStep
  PROVE  /\ RefsOK' /\ HintsTrue' /\ SlotsTyped' /\ Counts'
         /\ UNCHANGED <<slots, position, unknown, owner, oe, resets, lost>>
<1>1. UNCHANGED <<slots, position, nextRef, refs, unknown, tests, allocs, owner, oe, resets, lost>> /\ tape' \in Nat
  BY DEF TapeStep, omsVars
<1> QED
  BY <1>1 DEF IInv, RefsOK, RefTypes, RefsFresh, HintsTrue, SlotsTyped, Counts

\* A tape message that touches no client order.
LEMMA QuietTape ==
  ASSUME IInv, TapeStep, UNCHANGED <<routes, acks, traded>>,
         book' \in [Syms -> [Sides -> Seq(Orders)]],
         \A s \in Syms, d \in Sides : Shows(book'[s][d], View[<<s, d>>])
  PROVE  IInv'
<1>1. /\ RefsOK' /\ HintsTrue' /\ SlotsTyped' /\ Counts'
      /\ UNCHANGED <<slots, position, unknown, owner, oe, resets, lost>>
  BY TapeStepKeeps
<1>2. BooksOK' /\ \A k \in Key : View'[k] = View[k]
  BY BooksShow
<1>3. View' = View
  BY <1>2 DEF View
<1>4. RoutesOK'
  BY <1>3 DEF RoutesOK, IInv
<1>5. SessionOK'
  BY <1>1, <1>3 DEF SessionOK, IInv
<1>6. AccountsTyped' /\ (lost' = 0 => Balance')
  BY <1>1 DEF AccountsTyped, Balance, IInv
<1> QED
  BY <1>1, <1>2, <1>4, <1>5, <1>6 DEF IInv

\* A tape message that fills the client order of a side.
LEMMA TapeFills ==
  ASSUME IInv, TapeStep, NEW sym \in Syms, NEW fs \in Sides, NEW fills \in Seq(Int),
         FillsFit(book[sym][fs], fills), Len(fills) = Len(book[sym][fs]),
         \A i \in DOMAIN book[sym][fs] : fills[i] # 0 => book[sym][fs][i].client,
         FillClients(sym, fs, fills),
         book' \in [Syms -> [Sides -> Seq(Orders)]],
         \A s \in Syms, d \in Sides :
           Shows(book'[s][d], IF s = sym /\ d = fs
                              THEN Take(View[<<s, d>>], ClientPart(book[sym][fs], fills)) ELSE View[<<s, d>>])
  PROVE  IInv'
<1> DEFINE rest == book[sym][fs]
           far == <<sym, fs>>
           near == <<sym, Other(fs)>>
           E == Executions(rest, fills, << >>)
           part == ClientPart(rest, fills)
           v2 == [k \in Key |-> Take(View[k], TradedBy(far, near, << >>, rest, fills, k))]
<1>1. /\ RefsOK' /\ HintsTrue' /\ SlotsTyped' /\ Counts'
      /\ UNCHANGED <<slots, position, unknown, owner, oe, resets, lost>>
  BY TapeStepKeeps
<1>2. /\ acks' = acks \o E /\ UNCHANGED routes
      /\ traded' = [traded EXCEPT ![sym] = @ + Signed(fs, SumOf(fills))]
  BY DEF FillClients
<1>3. far \in Key /\ near \in Key /\ far # near /\ Other(fs) \in Sides /\ Other(Other(fs)) = fs
  BY KeyParts DEF Other, Sides
<1>4. rest \in Seq(Orders) /\ Shows(rest, View[far])
  BY BookParts DEF IInv
<1>5. SumOf(fills) = part
  <2> HIDE DEF rest
  <2>1. Len(fills) = Len(rest) /\ \A i \in DOMAIN rest : fills[i] # 0 => rest[i].client
    BY DEF rest
  <2> QED
    BY <2>1, <1>4, ClientSum
<1>6. part \in Nat
  <2>1. FillsFit(rest, fills)
    OBVIOUS
  <2> HIDE DEF rest
  <2> QED
    BY <2>1, <1>4, ReducedShows
<1>7. Safe(View, slots, acks, oe, owner)
  BY DEF IInv, SessionOK
<1>8. \A k \in Key : View[k] \in Views /\ (View[k].qty = 0 => View[k] = NoOrder)
  BY <1>7, HeldFacts
<1>9. \A k \in Key : v2[k] = IF k = far THEN Take(View[k], part) ELSE View[k]
  BY <1>8, TakeFacts DEF TradedBy
<1>10. BooksOK' /\ \A k \in Key : View'[k] = v2[k]
  <2>1. ASSUME NEW s \in Syms, NEW d \in Sides PROVE Shows(book'[s][d], v2[<<s, d>>])
    <3>1. <<s, d>> \in Key /\ (<<s, d>> = far <=> s = sym /\ d = fs)
      BY KeyParts
    <3> HIDE DEF v2
    <3> QED
      BY <3>1, <1>9
  <2> HIDE DEF v2
  <2> QED
    BY <2>1, BooksShow
<1>11. /\ Safe(View', slots, acks', oe, owner)
       /\ Exact(View, slots, acks, oe, owner) => Exact(View', slots, acks', oe, owner)
       /\ Orderly(slots, acks, oe, owner) => Orderly(slots, acks', oe, owner)
       /\ \A k \in Key : Told(E, owner, k) = TradedBy(far, near, << >>, rest, fills, k)
       /\ Joined(acks', acks, E, Answers)
  <2>1. Aggressor(View, near, << >>, fills)
    BY DEF Aggressor
  <2>2. \A k \in Key : View'[k] = Take(View[k], TradedBy(far, near, << >>, rest, fills, k))
    BY <1>10
  <2>3. FillsFit(rest, fills) /\ SumOf(fills) \in Nat
    BY <1>5, <1>6
  <2>4. E = Executions(rest, fills, << >>)
    OBVIOUS
  <2> HIDE DEF E, rest, far, near
  <2>5. Trades(View, View', acks, acks', far, near, rest, fills, << >>, E)
    BY <1>2, <1>3, <1>4, <2>1, <2>2, <2>3, <2>4 DEF Trades
  <2> QED
    BY <1>7, <2>5, SessionTrades
<1>12. SessionOK'
  BY <1>1, <1>11 DEF SessionOK, IInv
<1>13. AccountsTyped' /\ (lost' = 0 => Balance')
  <2>1. TradeTold(E, sym, fs, part, 0)
    <3>1. \A k \in Key : Told(E, owner, k) = IF k = far THEN part ELSE IF k = near THEN 0 ELSE 0
      BY <1>11 DEF TradedBy
    <3>2. part - 0 = part
      BY <1>6
    <3> QED
      BY <1>2, <1>5, <1>6, <3>1, <3>2 DEF TradeTold
  <2> HIDE DEF E, part
  <2>2. AccountsTyped' /\ (Balance => Balance')
    BY <1>1, <1>11, <2>1, BalanceTraded DEF IInv
  <2> QED
    BY <1>1, <2>2 DEF IInv
<1>14. RoutesOK'
  <2>1. ASSUME NEW k \in Key, NEW r \in Nat, Holds(View'[k], r) PROVE Holds(View[k], r)
    <3>1. k = far => part <= View[k].qty
      <4>1. FillsFit(rest, fills)
        OBVIOUS
      <4> HIDE DEF rest
      <4> QED
        BY <4>1, <1>4, ReducedShows
    <3>2. View'[k] = v2[k]
      BY <1>10
    <3> HIDE DEF v2, part, far
    <3>3. CASE k = far
      <4> DEFINE c == View[k]
      <4>1. c \in Views /\ (c.qty = 0 => c = NoOrder) /\ part <= c.qty /\ Holds(Take(c, part), r)
        BY <1>8, <1>9, <2>1, <3>1, <3>2, <3>3
      <4> HIDE DEF c
      <4>2. Holds(c, r)
        BY <4>1, <1>6, TakeFacts
      <4> QED
        BY <4>2 DEF c
    <3>4. CASE k # far
      BY <1>9, <2>1, <3>2, <3>4
    <3> QED
      BY <3>3, <3>4
  <2> QED
    BY <2>1, <1>2, RoutesKept DEF IInv
<1> QED
  BY <1>1, <1>10, <1>12, <1>13, <1>14 DEF IInv

\* The book of one symbol becomes b.
LEMMA OneBook ==
  ASSUME BooksOK, NEW sym \in Syms, NEW b \in [Sides -> Seq(Orders)], book' = [book EXCEPT ![sym] = b]
  PROVE  /\ book' \in [Syms -> [Sides -> Seq(Orders)]]
         /\ book'[sym] = b
         /\ \A s \in Syms : s # sym => book'[s] = book[s]
         /\ \A s \in Syms, d \in Sides : s # sym => Shows(book'[s][d], View[<<s, d>>])
<1>1. book \in [Syms -> [Sides -> Seq(Orders)]]
  BY DEF BooksOK
<1>2. /\ book' \in [Syms -> [Sides -> Seq(Orders)]]
      /\ book'[sym] = b
      /\ \A s \in Syms : s # sym => book'[s] = book[s]
  BY <1>1
<1>3. ASSUME NEW s \in Syms, NEW d \in Sides, s # sym PROVE Shows(book'[s][d], View[<<s, d>>])
  <2>1. Shows(book[s][d], View[<<s, d>>])
    BY BookParts
  <2> QED
    BY <1>2, <1>3, <2>1
<1> QED
  BY <1>2, <1>3

\* One side of it becomes r.
PutSide(b, sym, side, r) ==
  sym \in Syms /\ side \in Sides /\ r \in Seq(Orders) /\ b = [book[sym] EXCEPT ![side] = r]

\* A book with one side put in place shows what it did on the other.
LEMMA OneSide ==
  ASSUME BooksOK, NEW sym, NEW side, NEW r, NEW b, PutSide(b, sym, side, r)
  PROVE  /\ b \in [Sides -> Seq(Orders)] /\ b[side] = r
         /\ \A d \in Sides : d # side => b[d] = book[sym][d] /\ Shows(b[d], View[<<sym, d>>])
<1> USE DEF PutSide
<1>1. book[sym] \in [Sides -> Seq(Orders)]
  BY DEF BooksOK
<1>2. \A d \in Sides : Shows(book[sym][d], View[<<sym, d>>])
  BY BookParts
<1> QED
  BY <1>1, <1>2

\* An order of the tape, matched and added, preserves the inductive invariant.
LEMMA MirrorAddKeeps ==
  ASSUME IInv, TapeStep, NEW sym \in Syms, NEW side \in Sides, NEW o \in Orders, ~o.client,
         NEW here \in [Sides -> Seq(Orders)], \A d \in Sides : Shows(here[d], View[<<sym, d>>]),
         here[Other(side)] = book[sym][Other(side)], MirrorAddTo(sym, side, o, here)
  PROVE  IInv'
<1> DEFINE fs == Other(side)
           rest == here[fs]
           eligible == Crossing(fs, o.price, rest) \cap Clients(rest)
           fills == Fills(rest, eligible, o.qty)
           left == o.qty - SumOf(fills)
           b == [here EXCEPT ![Other(side)] = Reduced(here[Other(side)], fills),
                             ![side] = IF left = 0 THEN @ ELSE Rest(side, @, [o EXCEPT !.qty = left])]
           c == [d \in Sides |-> View[<<sym, d>>]]
           c2 == [d \in Sides |->
                    IF d = side THEN IF o.client THEN Take(Shown(o), SumOf(fills)) ELSE c[side]
                    ELSE Take(c[d], ClientPart(here[d], fills))]
<1>1. book' = [book EXCEPT ![sym] = b] /\ FillClients(sym, fs, fills)
  BY DEF MirrorAddTo, CrossFills
<1>2. fs \in Sides /\ fs # side /\ \A d \in Sides : d = side \/ d = fs
  BY DEF Other, Sides
<1>3. rest \in Seq(Orders) /\ rest = book[sym][fs] /\ o.qty \in Nat
  BY <1>2 DEF Orders
<1>4. /\ FillsFit(rest, fills) /\ fills \in Seq(Int) /\ Len(fills) = Len(rest)
      /\ \A i \in DOMAIN rest : fills[i] # 0 => i \in eligible
  <2>1. fills = Fills(rest, eligible, o.qty)
    OBVIOUS
  <2> HIDE DEF fills, rest, eligible
  <2> QED
    BY <1>3, <2>1, FillsFacts
<1>5. \A i \in DOMAIN rest : fills[i] # 0 => rest[i].client
  BY <1>4 DEF Clients
<1>6. b \in [Sides -> Seq(Orders)] /\ \A d \in Sides : Shows(b[d], c2[d])
  <2>1. \A d \in Sides : Shows(here[d], c[d])
    OBVIOUS
  <2>2. fills = Fills(here[Other(side)], eligible, o.qty)
    OBVIOUS
  <2>3. Processed(b, c2, here, c, side, o, eligible, fills)
    <3> HIDE DEF c, eligible
    <3> QED
      BY <2>1, <2>2 DEF Processed
  <2> HIDE DEF c, c2, b, left, fills, eligible
  <2> QED
    BY <2>3, OrderProcessed
<1>7. c2[side] = View[<<sym, side>>] /\ c2[fs] = Take(View[<<sym, fs>>], ClientPart(rest, fills))
  <2> HIDE DEF fills, rest, fs
  <2> QED
    BY <1>2 DEF rest
<1>8. BooksOK
  BY DEF IInv
<1> HIDE DEF b, c2, c, fills
<1>9. /\ book' \in [Syms -> [Sides -> Seq(Orders)]] /\ book'[sym] = b
      /\ \A s \in Syms, d \in Sides : s # sym => Shows(book'[s][d], View[<<s, d>>])
  BY <1>1, <1>6, <1>8, OneBook
<1>10. ASSUME NEW s \in Syms, NEW d \in Sides
       PROVE  Shows(book'[s][d], IF s = sym /\ d = fs
                                 THEN Take(View[<<s, d>>], ClientPart(book[sym][fs], fills)) ELSE View[<<s, d>>])
  <2>1. CASE s # sym
    BY <1>9, <2>1
  <2>2. CASE s = sym
    BY <1>2, <1>3, <1>6, <1>7, <1>9, <2>2
  <2> QED
    BY <2>1, <2>2
<1> HIDE DEF fs, rest
<1>11. /\ FillsFit(book[sym][fs], fills) /\ Len(fills) = Len(book[sym][fs])
       /\ \A i \in DOMAIN book[sym][fs] : fills[i] # 0 => book[sym][fs][i].client
  BY <1>3, <1>4, <1>5
<1> QED
  BY <1>1, <1>2, <1>4, <1>9, <1>10, <1>11, TapeFills

\* An execution of the tape, with the sweep before it, preserves the inductive invariant.
LEMMA MirrorExecuteKeeps ==
  ASSUME IInv, TapeStep, NEW sym \in Syms, NEW side \in Sides, NEW i, NEW shares \in Nat,
         MirrorExecute(sym, side, i, shares)
  PROVE  IInv'
<1> DEFINE rest == book[sym][side]
           eligible == {j \in Clients(rest) : j < i}
           fills == Fills(rest, eligible, shares)
           own == IF shares < rest[i].qty THEN shares ELSE rest[i].qty
           g == [fills EXCEPT ![i] = own]
           r == Reduced(rest, g)
           b == [book[sym] EXCEPT ![side] = r]
<1>1. /\ i \in DOMAIN rest /\ ~rest[i].client /\ FillClients(sym, side, fills)
      /\ book' = [book EXCEPT ![sym][side] = r]
  BY DEF MirrorExecute, ShadowFills, Tape, Clients
<1>2. rest \in Seq(Orders) /\ Shows(rest, View[<<sym, side>>]) /\ BooksOK
  BY BookParts DEF IInv
<1>3. /\ FillsFit(rest, fills) /\ fills \in Seq(Int) /\ Len(fills) = Len(rest)
      /\ \A j \in DOMAIN rest : fills[j] # 0 => j \in eligible
  <2>1. fills = Fills(rest, eligible, shares)
    OBVIOUS
  <2> HIDE DEF fills, rest, eligible
  <2> QED
    BY <1>2, <2>1, FillsFacts
<1>4. \A j \in DOMAIN rest : fills[j] # 0 => rest[j].client
  BY <1>3 DEF Clients
<1> HIDE DEF fills
<1>5. FillsFit(rest, g) /\ ClientPart(rest, g) = ClientPart(rest, fills)
  <2>1. rest[i].qty \in Nat
    BY <1>1, <1>2, OrderParts
  <2>2. own \in Nat /\ own <= rest[i].qty
    BY <2>1
  <2> HIDE DEF own, rest
  <2>3. FillsFit(rest, g)
    BY <1>1, <1>3, <2>2 DEF FillsFit
  <2>4. CASE Clients(rest) = {}
    BY <2>3, <2>4 DEF ClientPart
  <2>5. CASE Clients(rest) # {}
    <3> DEFINE j == CHOOSE j \in Clients(rest) : TRUE
    <3>1. j \in Clients(rest)
      BY <2>5
    <3>2. j \in DOMAIN rest /\ j # i
      BY <3>1, <1>1 DEF Clients
    <3> HIDE DEF j
    <3>3. g[j] = fills[j]
      BY <3>2, <1>3 DEF FillsFit
    <3> QED
      BY <2>3, <2>5, <3>3 DEF ClientPart, j
  <2> QED
    BY <2>4, <2>5
<1> HIDE DEF g
<1>6. r \in Seq(Orders) /\ Shows(r, Take(View[<<sym, side>>], ClientPart(rest, fills)))
  <2> HIDE DEF rest
  <2> QED
    BY <1>2, <1>5, ReducedShows
<1> HIDE DEF r
<1>7. /\ b \in [Sides -> Seq(Orders)] /\ b[side] = r
      /\ \A d \in Sides : d # side => Shows(b[d], View[<<sym, d>>])
  <2>1. PutSide(b, sym, side, r)
    BY <1>6 DEF PutSide
  <2> HIDE DEF b
  <2> QED
    BY <1>2, <1>6, <2>1, OneSide
<1>8. book' = [book EXCEPT ![sym] = b]
  BY <1>1
<1> HIDE DEF b
<1>9. /\ book' \in [Syms -> [Sides -> Seq(Orders)]] /\ book'[sym] = b
      /\ \A s \in Syms, d \in Sides : s # sym => Shows(book'[s][d], View[<<s, d>>])
  BY <1>2, <1>7, <1>8, OneBook
<1>10. ASSUME NEW s \in Syms, NEW d \in Sides
       PROVE  Shows(book'[s][d], IF s = sym /\ d = side
                                 THEN Take(View[<<s, d>>], ClientPart(book[sym][side], fills)) ELSE View[<<s, d>>])
  <2>1. CASE s # sym
    BY <1>9, <2>1
  <2>2. CASE s = sym /\ d # side
    BY <1>7, <1>9, <2>2
  <2>3. CASE s = sym /\ d = side
    BY <1>6, <1>7, <1>9, <2>3
  <2> QED
    BY <2>1, <2>2, <2>3
<1>11. /\ FillsFit(book[sym][side], fills) /\ Len(fills) = Len(book[sym][side])
       /\ \A j \in DOMAIN book[sym][side] : fills[j] # 0 => book[sym][side][j].client
  BY <1>3, <1>4
<1> QED
  BY <1>1, <1>3, <1>9, <1>10, <1>11, TapeFills

\* A cancel of the tape preserves the inductive invariant.
LEMMA MirrorCancelKeeps ==
  ASSUME IInv, TapeStep, NEW sym \in Syms, NEW side \in Sides, NEW i, NEW shares \in Nat,
         MirrorCancel(sym, side, i, shares)
  PROVE  IInv'
<1> DEFINE rest == book[sym][side]
           own == IF shares < rest[i].qty THEN shares ELSE rest[i].qty
           g == [j \in DOMAIN rest |-> IF j = i THEN own ELSE 0]
           r == Reduced(rest, g)
           b == [book[sym] EXCEPT ![side] = r]
<1>1. /\ i \in DOMAIN rest /\ ~rest[i].client /\ UNCHANGED <<routes, acks, traded>>
      /\ book' = [book EXCEPT ![sym][side] = r]
  BY DEF MirrorCancel, Tape, Clients
<1>2. rest \in Seq(Orders) /\ Shows(rest, View[<<sym, side>>]) /\ BooksOK
  BY BookParts DEF IInv
<1>3. FillsFit(rest, g) /\ ClientPart(rest, g) = 0
  <2>1. rest[i].qty \in Nat
    BY <1>1, <1>2, OrderParts
  <2>2. own \in Nat /\ own <= rest[i].qty
    BY <2>1
  <2>3. \A j \in DOMAIN rest : rest[j].qty \in Nat
    BY <1>2, OrderParts
  <2> HIDE DEF own, rest
  <2>4. FillsFit(rest, g)
    BY <1>1, <2>2, <2>3 DEF FillsFit
  <2>5. CASE Clients(rest) = {}
    BY <2>4, <2>5 DEF ClientPart
  <2>6. CASE Clients(rest) # {}
    <3> DEFINE j == CHOOSE j \in Clients(rest) : TRUE
    <3>1. j \in Clients(rest)
      BY <2>6
    <3>2. j \in DOMAIN rest /\ j # i
      BY <3>1, <1>1 DEF Clients
    <3> HIDE DEF j
    <3>3. g[j] = 0
      BY <3>2
    <3> QED
      BY <2>4, <2>6, <3>3 DEF ClientPart, j
  <2> QED
    BY <2>5, <2>6
<1> HIDE DEF g
<1>4. Take(View[<<sym, side>>], 0) = View[<<sym, side>>]
  <2> DEFINE k == <<sym, side>>
  <2>1. k \in Key
    BY KeyParts
  <2> HIDE DEF k
  <2>2. View[k] \in Views /\ (View[k].qty = 0 => View[k] = NoOrder)
    BY <2>1, HeldFacts DEF IInv, SessionOK
  <2>3. Take(View[k], 0) = View[k]
    BY <2>2, TakeFacts
  <2> QED
    BY <2>3 DEF k
<1>6. r \in Seq(Orders) /\ Shows(r, View[<<sym, side>>])
  <2> HIDE DEF rest
  <2>1. r \in Seq(Orders) /\ Shows(r, Take(View[<<sym, side>>], ClientPart(rest, g)))
    BY <1>2, <1>3, ReducedShows
  <2> QED
    BY <2>1, <1>3, <1>4
<1> HIDE DEF r
<1>7. /\ b \in [Sides -> Seq(Orders)] /\ b[side] = r
      /\ \A d \in Sides : d # side => Shows(b[d], View[<<sym, d>>])
  <2>1. PutSide(b, sym, side, r)
    BY <1>6 DEF PutSide
  <2> HIDE DEF b
  <2> QED
    BY <1>2, <1>6, <2>1, OneSide
<1>8. book' = [book EXCEPT ![sym] = b]
  BY <1>1
<1> HIDE DEF b
<1>9. /\ book' \in [Syms -> [Sides -> Seq(Orders)]] /\ book'[sym] = b
      /\ \A s \in Syms, d \in Sides : s # sym => Shows(book'[s][d], View[<<s, d>>])
  BY <1>2, <1>7, <1>8, OneBook
<1>10. \A s \in Syms, d \in Sides : Shows(book'[s][d], View[<<s, d>>])
  BY <1>6, <1>7, <1>9
<1> QED
  BY <1>1, <1>9, <1>10, QuietTape

\* A replacement of the tape preserves the inductive invariant.
LEMMA MirrorReplaceKeeps ==
  ASSUME IInv, TapeStep, NEW sym \in Syms, NEW side \in Sides, NEW i, NEW o \in Orders, ~o.client,
         MirrorReplace(sym, side, i, o)
  PROVE  IInv'
<1> DEFINE rest == book[sym][side]
           r == Chosen(rest, DOMAIN rest \ {i})
           here == [book[sym] EXCEPT ![side] = r]
<1>1. /\ i \in DOMAIN rest /\ ~rest[i].client
      /\ IF o.price \in Band THEN MirrorAddTo(sym, side, o, here)
         ELSE book' = [book EXCEPT ![sym] = here] /\ UNCHANGED <<routes, acks, selfTrades, traded>>
  BY DEF MirrorReplace, Tape, Clients
<1>2. rest \in Seq(Orders) /\ Shows(rest, View[<<sym, side>>]) /\ BooksOK
  BY BookParts DEF IInv
<1>3. r \in Seq(Orders) /\ Shows(r, View[<<sym, side>>])
  <2> HIDE DEF rest
  <2> QED
    BY <1>1, <1>2, RemovedShows
<1> HIDE DEF r
<1>4. /\ here \in [Sides -> Seq(Orders)] /\ here[side] = r
      /\ \A d \in Sides : d # side => here[d] = book[sym][d] /\ Shows(here[d], View[<<sym, d>>])
  <2>1. PutSide(here, sym, side, r)
    BY <1>3 DEF PutSide
  <2> HIDE DEF here
  <2> QED
    BY <1>2, <1>3, <2>1, OneSide
<1>5. Other(side) \in Sides /\ Other(side) # side
  BY DEF Other, Sides
<1> HIDE DEF here
<1>6. /\ \A d \in Sides : Shows(here[d], View[<<sym, d>>])
      /\ here[Other(side)] = book[sym][Other(side)]
  BY <1>3, <1>4, <1>5
<1>7. CASE o.price \in Band
  BY <1>1, <1>4, <1>6, <1>7, MirrorAddKeeps
<1>8. CASE o.price \notin Band
  <2>1. book' = [book EXCEPT ![sym] = here] /\ UNCHANGED <<routes, acks, traded>>
    BY <1>1, <1>8
  <2>2. /\ book' \in [Syms -> [Sides -> Seq(Orders)]] /\ book'[sym] = here
        /\ \A s \in Syms, d \in Sides : s # sym => Shows(book'[s][d], View[<<s, d>>])
    BY <1>2, <1>4, <2>1, OneBook
  <2>3. \A s \in Syms, d \in Sides : Shows(book'[s][d], View[<<s, d>>])
    BY <1>6, <2>2
  <2> QED
    BY <2>1, <2>2, <2>3, QuietTape
<1> QED
  BY <1>7, <1>8

\* Every tape message preserves the inductive invariant.
LEMMA MirrorKeeps ==
  ASSUME IInv, Mirror
  PROVE  IInv'
<1>1. TapeStep
  BY DEF Mirror, TapeStep, IInv, Counts
<1>2. PICK sym \in Syms, side \in Sides :
       \/ \E p \in Prices, q \in TapeQtys : MirrorAdd(sym, side, Order(tape', FALSE, p, q))
       \/ \E i \in DOMAIN book[sym][side] :
            \/ \E q \in TapeQtys : MirrorExecute(sym, side, i, q)
            \/ \E q \in TapeQtys : MirrorCancel(sym, side, i, q)
            \/ MirrorDelete(sym, side, i)
            \/ \E p \in Prices, q \in TapeQtys : MirrorReplace(sym, side, i, Order(tape', FALSE, p, q))
  BY DEF Mirror
<1>3. \A p \in Prices, q \in TapeQtys : Order(tape', FALSE, p, q) \in Orders /\ ~Order(tape', FALSE, p, q).client
  BY <1>1, PricesAssumption, TapeQtysAssumption DEF TapeStep, Order, Orders
<1>4. \A q \in TapeQtys : q \in Nat
  BY TapeQtysAssumption
<1>5. ASSUME NEW p \in Prices, NEW q \in TapeQtys, MirrorAdd(sym, side, Order(tape', FALSE, p, q)) PROVE IInv'
  <2> DEFINE o == Order(tape', FALSE, p, q)
             here == book[sym]
  <2>1. /\ here \in [Sides -> Seq(Orders)] /\ \A d \in Sides : Shows(here[d], View[<<sym, d>>])
        /\ here[Other(side)] = book[sym][Other(side)]
    BY BookParts DEF IInv
  <2>2. o \in Orders /\ ~o.client
    BY <1>3
  <2>3. MirrorAddTo(sym, side, o, here)
    BY <1>5 DEF MirrorAdd
  <2> HIDE DEF o, here
  <2> QED
    BY <1>1, <2>1, <2>2, <2>3, MirrorAddKeeps
<1>6. ASSUME NEW i \in DOMAIN book[sym][side], NEW q \in TapeQtys, MirrorExecute(sym, side, i, q) PROVE IInv'
  BY <1>1, <1>4, <1>6, MirrorExecuteKeeps
<1>7. ASSUME NEW i \in DOMAIN book[sym][side], NEW q \in TapeQtys, MirrorCancel(sym, side, i, q) PROVE IInv'
  BY <1>1, <1>4, <1>7, MirrorCancelKeeps
<1>8. ASSUME NEW i \in DOMAIN book[sym][side], MirrorDelete(sym, side, i) PROVE IInv'
  <2> DEFINE q == book[sym][side][i].qty
  <2>1. q \in Nat
    <3> DEFINE rest == book[sym][side]
    <3>1. rest \in Seq(Orders) /\ i \in DOMAIN rest
      BY BookParts DEF IInv
    <3> HIDE DEF rest
    <3>2. rest[i].qty \in Nat
      BY <3>1, OrderParts
    <3> QED
      BY <3>2 DEF rest
  <2>2. MirrorCancel(sym, side, i, q)
    BY <1>8 DEF MirrorDelete
  <2> HIDE DEF q
  <2> QED
    BY <1>1, <2>1, <2>2, MirrorCancelKeeps
<1>9. ASSUME NEW i \in DOMAIN book[sym][side], NEW p \in Prices, NEW q \in TapeQtys,
             MirrorReplace(sym, side, i, Order(tape', FALSE, p, q)) PROVE IInv'
  <2> DEFINE o == Order(tape', FALSE, p, q)
  <2>1. o \in Orders /\ ~o.client /\ MirrorReplace(sym, side, i, o)
    BY <1>3, <1>9
  <2> HIDE DEF o
  <2> QED
    BY <1>1, <2>1, MirrorReplaceKeeps
<1> QED
  BY <1>2, <1>5, <1>6, <1>7, <1>8, <1>9

\* A session after another one: the invariants carry over.
Carries(v, s, ak, q, own, v2, s2, u, q2) ==
  /\ Safe(v2, s2, u, q2, own)
  /\ Exact(v, s, ak, q, own) => Exact(v2, s2, u, q2, own)
  /\ Orderly(s, ak, q, own) => Orderly(s2, u, q2, own)

\* One quote after another one.
KeyCarries(c, s, A, Q, R, T, e, c2, A2, Q2, T2) ==
  /\ KeyInv(c2, s, A2, Q2, R, T2)
  /\ \A a \in A : MayFollow(a, e)
  /\ KeyExact(c, s, A, Q, T) => KeyExact(c2, s, A2, Q2, T2)
  /\ KeyOrderly(s, A, Q) /\ Q2 = {} => KeyOrderly(s, A2, Q2)

\* A request is answered; it is enough to look at the quote that asked.
LEMMA ReplyCarries ==
  ASSUME NEW v, NEW s, NEW ak, NEW q, NEW own, Safe(v, s, ak, q, own),
         NEW e, NEW m, NEW q2, NEW u, Replies(e, m, q, q2, ak, u), e.type # "Executed",
         NEW k, k = own[m.ref], NEW v2, \A j \in Key : j # k => v2[j] = v[j],
         k \in Key => KeyCarries(v[k], s[k], AcksOf(ak, own, k), AsksOf(q, own, k), RefsOf(own, k),
                                 Due(ak, RefsOf(own, k)), e,
                                 v2[k], AcksOf(u, own, k), AsksOf(q2, own, k), Due(u, RefsOf(own, k)))
  PROVE  Carries(v, s, ak, q, own, v2, s, u, q2)
<1>1. k \in Key => /\ KeyAt(v2, s, u, q2, own, k)
                   /\ \A a \in AcksOf(ak, own, k) : MayFollow(a, e)
  BY DEF KeyCarries, KeyAt
<1>2. /\ Safe(v2, s, u, q2, own)
      /\ Exact(v, s, ak, q, own) /\ (k \in Key => ExactAt(v2, s, u, q2, own, k)) =>
           Exact(v2, s, u, q2, own)
      /\ Orderly(s, ak, q, own) /\ k \in Key => AsksOf(q2, own, k) = {}
      /\ /\ Orderly(s, ak, q, own)
         /\ k \in Key => KeyOrderly(s[k], AcksOf(u, own, k), AsksOf(q2, own, k))
         => Orderly(s, u, q2, own)
  BY <1>1, Replied
<1>3. ASSUME Exact(v, s, ak, q, own) PROVE Exact(v2, s, u, q2, own)
  <2>1. k \in Key => ExactAt(v, s, ak, q, own, k)
    BY <1>3 DEF Exact
  <2>2. k \in Key => ExactAt(v2, s, u, q2, own, k)
    BY <2>1 DEF ExactAt, KeyCarries
  <2> QED
    BY <1>2, <1>3, <2>2
<1>4. ASSUME Orderly(s, ak, q, own) PROVE Orderly(s, u, q2, own)
  <2>1. k \in Key => KeyOrderly(s[k], AcksOf(ak, own, k), AsksOf(q, own, k))
    BY <1>4 DEF Orderly, OrderlyAt
  <2>2. k \in Key => KeyOrderly(s[k], AcksOf(u, own, k), AsksOf(q2, own, k))
    BY <2>1, <1>2, <1>4 DEF KeyCarries
  <2> QED
    BY <1>2, <1>4, <2>2
<1> QED
  BY <1>2, <1>3, <1>4 DEF Carries

\* What a reply changes for the quote that asked.
LEMMA ReplyHere ==
  ASSUME NEW v, NEW s, NEW ak, NEW q, NEW own, Safe(v, s, ak, q, own),
         NEW e, NEW m, NEW q2, NEW u, Replies(e, m, q, q2, ak, u), NEW k, k = own[m.ref]
  PROVE  /\ m \in Asks /\ m.ref \in DOMAIN own
         /\ AcksOf(u, own, k) = AcksOf(ak, own, k) \cup {e}
         /\ Popped(AsksOf(q, own, k), AsksOf(q2, own, k), m)
<1>1. /\ m \in Asks /\ m.ref \in DOMAIN own
      /\ \A j : own[m.ref] = j =>
           /\ AcksOf(u, own, j) = AcksOf(ak, own, j) \cup {e}
           /\ Popped(AsksOf(q, own, j), AsksOf(q2, own, j), m)
  BY ReplyParts
<1> QED
  BY ONLY <1>1, k = own[m.ref]

\* What a reply adds to the shares due.
LEMMA ReplyDue ==
  ASSUME NEW v, NEW s, NEW ak, NEW q, NEW own, Safe(v, s, ak, q, own),
         NEW e, NEW m, NEW q2, NEW u, Replies(e, m, q, q2, ak, u), NEW R
  PROVE  /\ Due(u, R) \in [R -> Nat]
         /\ \A r \in R : Due(u, R)[r] =
              Due(ak, R)[r] + (IF e.ref = r /\ e.type \in {"Executed", "Canceled"} THEN e.qty ELSE 0)
<1>1. Joined(u, ak, <<e>>, Answers) /\ u \in Seq(Answers) /\ e \in Answers
  BY ReplyParts, SafeParts DEF Replies, Joined
<1>2. \A r \in R : Due(u, R)[r] = Due(ak, R)[r] + Shares(<<e>>, Leaving(r))
  BY <1>1, DueAppended
<1>3. \A r : Shares(<<e>>, Leaving(r)) = IF e \in Leaving(r) THEN e.qty ELSE 0
  BY <1>1, SharesOne
<1>4. \A r : e \in Leaving(r) <=> e.ref = r /\ e.type \in {"Executed", "Canceled"}
  BY <1>1 DEF Leaving
<1>5. Due(u, R) \in [R -> Nat]
  BY <1>1, DueFacts
<1> QED
  BY <1>2, <1>3, <1>4, <1>5

\* The quote that asked, before it is answered.
LEMMA AskerFacts ==
  ASSUME NEW v, NEW s, NEW ak, NEW q, NEW own, Safe(v, s, ak, q, own),
         NEW e, NEW m, NEW q2, NEW u, Replies(e, m, q, q2, ak, u),
         NEW k \in Key, k = own[m.ref]
  PROVE  /\ KeyInv(v[k], s[k], AcksOf(ak, own, k), AsksOf(q, own, k), RefsOf(own, k), Due(ak, RefsOf(own, k)))
         /\ Answered(m, e, e.type, AcksOf(ak, own, k), AcksOf(u, own, k), AsksOf(q, own, k), AsksOf(q2, own, k))
         /\ New(m) => Due(ak, RefsOf(own, k))[m.ref] = 0
         /\ AskOK(v[k], s[k], m, RefsOf(own, k))
         /\ m.ref \in RefsOf(own, k)
         /\ e.type \notin {"Executed", "Canceled"} => Due(u, RefsOf(own, k)) = Due(ak, RefsOf(own, k))
<1> DEFINE A == AcksOf(ak, own, k)
           Q == AsksOf(q, own, k)
           R == RefsOf(own, k)
           T == Due(ak, R)
           T2 == Due(u, R)
<1>1. KeyInv(v[k], s[k], A, Q, R, T)
  BY SafeParts DEF KeyAt
<1>2. /\ m \in Asks /\ m.ref \in DOMAIN own
      /\ AcksOf(u, own, k) = A \cup {e} /\ Popped(Q, AsksOf(q2, own, k), m)
  BY ReplyHere
<1>3. e \in Answers /\ e.ref = m.ref
  BY DEF Replies
<1>4. Answered(m, e, e.type, A, AcksOf(u, own, k), Q, AsksOf(q2, own, k))
  BY <1>2, <1>3 DEF Answered
<1>5. m \in Q /\ m.ref \in R
  BY <1>2 DEF Popped, RefsOf
<1>6. ak \in Seq(Answers) /\ \A i \in 1 .. Len(ak) : ak[i] \in Answers
  BY SafeParts
<1>7. ASSUME New(m) PROVE T[m.ref] = 0
  <2>1. \A a \in A : a.ref # m.ref
    BY <1>1, <1>5, <1>7 DEF KeyInv, Apart
  <2>2. \A i \in 1 .. Len(ak) : ak[i].ref # m.ref
    <3>1. SUFFICES ASSUME NEW i \in 1 .. Len(ak), ak[i].ref = m.ref PROVE FALSE
      OBVIOUS
    <3>2. ak[i] \in A
      BY <3>1, <1>6 DEF AcksOf
    <3> QED
      BY <3>1, <3>2, <2>1
  <2> HIDE DEF R
  <2> QED
    BY <2>2, <1>5, <1>6, DueFacts
<1>8. AskOK(v[k], s[k], m, R)
  BY <1>1, <1>5 DEF KeyInv
<1>9. ASSUME e.type \notin {"Executed", "Canceled"} PROVE T2 = T
  <2> HIDE DEF R
  <2>0. T2 \in [R -> Nat] /\ \A r \in R : T2[r] =
           T[r] + (IF e.ref = r /\ e.type \in {"Executed", "Canceled"} THEN e.qty ELSE 0)
    BY ReplyDue
  <2>1. T2 \in [R -> Nat] /\ T \in [R -> Nat]
    BY <2>0, <1>6, DueFacts
  <2> HIDE DEF T, T2
  <2>2. \A r \in R : T2[r] = T[r]
    BY <1>9, <2>0, <2>1
  <2> QED
    BY <2>1, <2>2
<1> QED
  BY <1>1, <1>4, <1>5, <1>7, <1>8, <1>9

\* The venue refuses a request.
LEMMA SessionRefuses ==
  ASSUME NEW v, NEW s, NEW ak, NEW q, NEW own, Safe(v, s, ak, q, own),
         NEW e, NEW m, NEW q2, NEW u, Replies(e, m, q, q2, ak, u),
         (e.type = "Rejected" /\ New(m)) \/ (e.type = "CancelReject" /\ m.type = "CancelOrder")
  PROVE  Carries(v, s, ak, q, own, v, s, u, q2)
<1> DEFINE k == own[m.ref]
<1>1. ASSUME k \in Key
      PROVE  KeyCarries(v[k], s[k], AcksOf(ak, own, k), AsksOf(q, own, k), RefsOf(own, k),
                        Due(ak, RefsOf(own, k)), e,
                        v[k], AcksOf(u, own, k), AsksOf(q2, own, k), Due(u, RefsOf(own, k)))
  <2> DEFINE A == AcksOf(ak, own, k)
             Q == AsksOf(q, own, k)
             R == RefsOf(own, k)
             T == Due(ak, R)
             A2 == AcksOf(u, own, k)
             Q2 == AsksOf(q2, own, k)
             T2 == Due(u, R)
             c == v[k]
             sk == s[k]
  <2>0. k = own[m.ref]
    OBVIOUS
  <2>1. KeyInv(c, sk, A, Q, R, T) /\ Answered(m, e, e.type, A, A2, Q, Q2) /\ T2 = T
    <3> HIDE DEF k
    <3> QED
      BY <1>1, <2>0, AskerFacts
  <2> HIDE DEF A, Q, R, T, A2, Q2, T2, c, sk
  <2>2. CASE e.type = "Rejected" /\ New(m)
    <3>1. Answered(m, e, "Rejected", A, A2, Q, Q2)
      BY <2>1, <2>2
    <3>2. /\ KeyInv(c, sk, A2, Q2, R, T)
          /\ \A a \in A : MayFollow(a, e)
          /\ KeyExact(c, sk, A, Q, T) => KeyExact(c, sk, A2, Q2, T)
          /\ KeyOrderly(sk, A, Q) /\ Q2 = {} => KeyOrderly(sk, A2, Q2)
      BY <2>1, <2>2, <3>1, NewRefused
    <3>3. KeyCarries(c, sk, A, Q, R, T, e, c, A2, Q2, T2)
      BY <2>1, <3>2 DEF KeyCarries
    <3> QED
      BY <3>3 DEF A, Q, R, T, A2, Q2, T2, c, sk
  <2>3. CASE e.type = "CancelReject" /\ m.type = "CancelOrder"
    <3>1. Answered(m, e, "CancelReject", A, A2, Q, Q2)
      BY <2>1, <2>3
    <3>2. /\ KeyInv(c, sk, A2, Q2, R, T)
          /\ \A a \in A : MayFollow(a, e)
          /\ KeyExact(c, sk, A, Q, T) => KeyExact(c, sk, A2, Q2, T)
          /\ KeyOrderly(sk, A, Q) /\ Q2 = {} => KeyOrderly(sk, A2, Q2)
      BY <2>1, <2>3, <3>1, CancelRefused
    <3>3. KeyCarries(c, sk, A, Q, R, T, e, c, A2, Q2, T2)
      BY <2>1, <3>2 DEF KeyCarries
    <3> QED
      BY <3>3 DEF A, Q, R, T, A2, Q2, T2, c, sk
  <2> QED
    BY <2>2, <2>3
<1>2. e.type # "Executed" /\ k = own[m.ref] /\ \A j \in Key : j # k => v[j] = v[j]
  OBVIOUS
<1> HIDE DEF k
<1> QED
  BY <1>1, <1>2, ReplyCarries

\* The view v2 shows the order of m where v shows something else.
NewView(v, v2, k, m) ==
  /\ \A j \in Key : j # k => v2[j] = v[j]
  /\ v2[k] = [id |-> m.ref, price |-> m.price, qty |-> m.qty]

\* The venue accepts an order or a replacement.
LEMMA SessionAccepts ==
  ASSUME NEW v, NEW s, NEW ak, NEW q, NEW own, Safe(v, s, ak, q, own),
         NEW e, NEW m, NEW q2, NEW u, Replies(e, m, q, q2, ak, u),
         \/ e.type = "Accepted" /\ m.type = "EnterOrder"
         \/ e.type = "Replaced" /\ m.type = "ReplaceOrder" /\ Holds(v[own[m.ref]], m.orig),
         e.qty = m.qty, e.price = m.price,
         NEW k \in Key, k = own[m.ref], NEW v2, NewView(v, v2, k, m)
  PROVE  /\ Carries(v, s, ak, q, own, v2, s, u, q2)
         /\ m.type = "EnterOrder" => v[k] = NoOrder
<1> DEFINE A == AcksOf(ak, own, k)
           Q == AsksOf(q, own, k)
           R == RefsOf(own, k)
           T == Due(ak, R)
           A2 == AcksOf(u, own, k)
           Q2 == AsksOf(q2, own, k)
           T2 == Due(u, R)
           c == v[k]
           c2 == v2[k]
           sk == s[k]
<1>1. /\ KeyInv(c, sk, A, Q, R, T) /\ Answered(m, e, e.type, A, A2, Q, Q2)
      /\ T2 = T /\ (New(m) => T[m.ref] = 0)
  BY AskerFacts
<1>2. c2 = [id |-> m.ref, price |-> m.price, qty |-> m.qty]
  BY DEF NewView
<1>3. KeyCarries(c, sk, A, Q, R, T, e, c2, A2, Q2, T2) /\ (m.type = "EnterOrder" => c = NoOrder)
  <2>0. e.type = "Replaced" /\ m.type = "ReplaceOrder" => Holds(c, m.orig)
    OBVIOUS
  <2> HIDE DEF A, Q, R, T, A2, Q2, T2, c, c2, sk
  <2>1. CASE e.type = "Accepted" /\ m.type = "EnterOrder"
    <3>1. Answered(m, e, "Accepted", A, A2, Q, Q2) /\ T[m.ref] = 0
      BY <1>1, <2>1 DEF New
    <3>2. /\ KeyInv(c2, sk, A2, Q2, R, T) /\ c = NoOrder
          /\ \A a \in A : MayFollow(a, e)
          /\ KeyExact(c, sk, A, Q, T) => KeyExact(c2, sk, A2, Q2, T)
          /\ KeyOrderly(sk, A, Q) /\ Q2 = {} => KeyOrderly(sk, A2, Q2)
      BY <1>1, <1>2, <2>1, <3>1, OrderAccepted
    <3> QED
      BY <1>1, <3>2 DEF KeyCarries
  <2>2. CASE e.type = "Replaced" /\ m.type = "ReplaceOrder"
    <3>1. Answered(m, e, "Replaced", A, A2, Q, Q2) /\ T[m.ref] = 0
      BY <1>1, <2>2 DEF New
    <3>2. /\ KeyInv(c2, sk, A2, Q2, R, T)
          /\ \A a \in A : MayFollow(a, e)
          /\ KeyExact(c, sk, A, Q, T) => KeyExact(c2, sk, A2, Q2, T)
          /\ KeyOrderly(sk, A, Q) /\ Q2 = {} => KeyOrderly(sk, A2, Q2)
      BY <1>1, <1>2, <2>0, <2>2, <3>1, OrderReplaced
    <3> QED
      BY <1>1, <2>2, <3>2 DEF KeyCarries
  <2> QED
    BY <2>1, <2>2
<1>4. e.type # "Executed" /\ \A j \in Key : j # k => v2[j] = v[j]
  BY DEF NewView
<1>5. k \in Key => KeyCarries(v[k], s[k], AcksOf(ak, own, k), AsksOf(q, own, k), RefsOf(own, k),
                              Due(ak, RefsOf(own, k)), e,
                              v2[k], AcksOf(u, own, k), AsksOf(q2, own, k), Due(u, RefsOf(own, k)))
  BY <1>3
<1>6. m.type = "EnterOrder" => v[k] = NoOrder
  BY <1>3
<1> HIDE DEF A, Q, R, T, A2, Q2, T2, c, c2, sk
<1>7. Carries(v, s, ak, q, own, v2, s, u, q2)
  BY <1>4, <1>5, ReplyCarries
<1> QED
  BY <1>6, <1>7

\* The venue cancels an order as asked.
LEMMA SessionCancels ==
  ASSUME NEW v, NEW s, NEW ak, NEW q, NEW own, Safe(v, s, ak, q, own),
         NEW e, NEW m, NEW q2, NEW u, Replies(e, m, q, q2, ak, u),
         NEW k \in Key, k = own[m.ref],
         e.type = "Canceled", m.type = "CancelOrder", Holds(v[k], m.ref), e.qty = v[k].qty,
         NEW v2, \A j \in Key : j # k => v2[j] = v[j], v2[k] = NoOrder
  PROVE  Carries(v, s, ak, q, own, v2, s, u, q2)
<1> DEFINE A == AcksOf(ak, own, k)
           Q == AsksOf(q, own, k)
           R == RefsOf(own, k)
           T == Due(ak, R)
           A2 == AcksOf(u, own, k)
           Q2 == AsksOf(q2, own, k)
           T2 == Due(u, R)
           c == v[k]
           c2 == v2[k]
           sk == s[k]
<1>1. /\ KeyInv(c, sk, A, Q, R, T) /\ Answered(m, e, e.type, A, A2, Q, Q2)
  BY AskerFacts
<1>2. T2 \in [R -> Nat] /\ \A r \in R : T2[r] = T[r] + Kept(c, r)
  <2>2. e.ref = m.ref
    BY DEF Replies
  <2>3. \A r : Kept(c, r) = IF e.ref = r THEN e.qty ELSE 0
    BY <2>2 DEF Kept, Holds
  <2>4. \A r \in R : T2[r] = T[r] + (IF e.ref = r /\ e.type \in {"Executed", "Canceled"} THEN e.qty ELSE 0)
    BY ReplyDue
  <2>5. T2 \in [R -> Nat]
    BY ReplyDue
  <2> HIDE DEF T2, T, R, c
  <2> QED
    BY <2>3, <2>4, <2>5
<1>3. CanceledBy(m, e, c, A, A2, Q, Q2, R, T, T2) /\ m \in Q
  <2>1. c.qty > 0 /\ m.ref = c.id /\ e.ref = c.id /\ e.qty = c.qty
    BY DEF Holds, Replies
  <2>2. /\ m \in Q /\ Q2 \subseteq Q /\ Q \subseteq Q2 \cup {m}
        /\ e \in Answers /\ A2 = A \cup {e}
    BY <1>1 DEF Answered, Popped
  <2> HIDE DEF A, Q, R, T, A2, Q2, T2, c
  <2> QED
    BY <1>2, <2>1, <2>2 DEF CanceledBy
<1>4. KeyCarries(c, sk, A, Q, R, T, e, c2, A2, Q2, T2)
  <2>1. c2 = NoOrder
    OBVIOUS
  <2> HIDE DEF A, Q, R, T, A2, Q2, T2, c, c2, sk
  <2>2. /\ KeyInv(NoOrder, sk, A2, Q2, R, T2)
        /\ \A a \in A : MayFollow(a, e)
        /\ KeyExact(c, sk, A, Q, T) => KeyExact(NoOrder, sk, A2, Q2, T2)
        /\ KeyOrderly(sk, A, Q) /\ m \in Q /\ Q2 = {} => KeyOrderly(sk, A2, Q2)
    BY <1>1, <1>3, OrderCanceled
  <2> QED
    BY <1>3, <2>1, <2>2 DEF KeyCarries
<1>5. k \in Key => KeyCarries(v[k], s[k], AcksOf(ak, own, k), AsksOf(q, own, k), RefsOf(own, k),
                              Due(ak, RefsOf(own, k)), e,
                              v2[k], AcksOf(u, own, k), AsksOf(q2, own, k), Due(u, RefsOf(own, k)))
  BY <1>4
<1>6. e.type # "Executed" /\ \A j \in Key : j # k => v2[j] = v[j]
  OBVIOUS
<1> HIDE DEF A, Q, R, T, A2, Q2, T2, c, c2, sk
<1> QED
  BY <1>5, <1>6, ReplyCarries

\* What the handling of a request leaves alone.
PollStep ==
  /\ oe # << >> /\ oe' = Tail(oe)
  /\ UNCHANGED <<omsVars, tape, resets, lost>>

\* Taking a request leaves the client's half and the tape alone.
LEMMA PollStepKeeps ==
  ASSUME IInv, PollStep
  PROVE  /\ RefsOK' /\ HintsTrue' /\ SlotsTyped' /\ Counts'
         /\ UNCHANGED <<slots, position, unknown, owner, tape, resets, lost>>
<1>1. UNCHANGED <<slots, position, nextRef, refs, unknown, tests, allocs, owner, tape, resets, lost>>
  BY DEF PollStep, omsVars
<1> QED
  BY <1>1 DEF IInv, RefsOK, RefTypes, RefsFresh, HintsTrue, SlotsTyped, Counts

\* The parts of the invariant that it disturbs are enough.
LEMMA PollDone ==
  ASSUME IInv, PollStep, BooksOK', RoutesOK', AccountsTyped', Balance => Balance',
         Carries(View, slots, acks, oe, owner, View', slots, acks', oe')
  PROVE  IInv'
<1>1. /\ RefsOK' /\ HintsTrue' /\ SlotsTyped' /\ Counts'
      /\ UNCHANGED <<slots, position, unknown, owner, tape, resets, lost>>
  BY PollStepKeeps
<1>2. SessionOK'
  BY <1>1 DEF Carries, SessionOK, IInv
<1> QED
  BY <1>1, <1>2 DEF IInv

\* The request at hand.
LEMMA RequestFacts ==
  ASSUME IInv, oe # << >>, NEW m, m = Head(oe)
  PROVE  /\ m \in Asks /\ m.ref \in DOMAIN owner /\ m.ref \in Nat
         /\ owner[m.ref] \in Key \cup {TestKey}
         /\ m.type = "EnterOrder" => m.key = owner[m.ref]
         /\ owner[m.ref] = TestKey => m.type = "EnterOrder"
         /\ owner[m.ref] \in Key => AskOK(View[owner[m.ref]], slots[owner[m.ref]], m, RefsOf(owner, owner[m.ref]))
<1>1. Safe(View, slots, acks, oe, owner)
  BY DEF IInv, SessionOK
<1>2. SessionTyped(acks, oe, owner) /\ oe \in Seq(Asks) /\ DOMAIN owner \subseteq Nat \ {0}
  BY <1>1, SafeParts
<1>3. m \in Asks /\ m = oe[1] /\ 1 \in 1 .. Len(oe)
  BY <1>2, TailParts
<1>4. /\ m.ref \in DOMAIN owner /\ owner[m.ref] \in Key \cup {TestKey}
      /\ m.type = "EnterOrder" => m.key = owner[m.ref]
      /\ owner[m.ref] = TestKey => m.type = "EnterOrder"
  BY <1>2, <1>3 DEF SessionTyped
<1>5. ASSUME NEW k \in Key, k = owner[m.ref] PROVE AskOK(View[k], slots[k], m, RefsOf(owner, k))
  <2>1. KeyInv(View[k], slots[k], AcksOf(acks, owner, k), AsksOf(oe, owner, k), RefsOf(owner, k),
               Due(acks, RefsOf(owner, k)))
    BY <1>1, SafeParts DEF KeyAt
  <2>2. m \in AsksOf(oe, owner, k)
    BY <1>3, <1>5 DEF AsksOf
  <2> QED
    BY <2>1, <2>2 DEF KeyInv
<1> QED
  BY <1>2, <1>3, <1>4, <1>5

\* The account when the answers tell of no trade.
LEMMA BalanceQuiet ==
  ASSUME AccountsTyped, NEW e, Joined(acks', acks, <<e>>, Answers), e.type # "Executed",
         UNCHANGED <<owner, position, traded>>
  PROVE  AccountsTyped' /\ (Balance => Balance')
<1>1. <<e>> \in Seq(Answers) /\ \A i \in 1 .. Len(<<e>>) : <<e>>[i].type # "Executed"
  BY DEF Joined
<1>2. \A k : Told(<<e>>, owner, k) = 0
  BY <1>1, ToldNone
<1>3. \A k : Told(acks', owner, k) = Told(acks, owner, k)
  <2>1. \A k : /\ Told(acks', owner, k) = Told(acks, owner, k) + Told(<<e>>, owner, k)
               /\ Told(acks, owner, k) \in Nat
    BY ToldAppended
  <2> QED
    BY <2>1, <1>2
<1> QED
  BY <1>3 DEF Balance, AccountsTyped

\* A request is refused: the hint of a new reference is the only other trace.
LEMMA PollRefuses ==
  ASSUME IInv, PollStep, NEW m, m = Head(oe), NEW e \in Answers, e.ref = m.ref, acks' = Append(acks, e),
         UNCHANGED <<book, traded>>,
         \/ e.type = "Rejected" /\ New(m) /\ \E sym \in Syms : RememberUserRef(m.ref, sym)
         \/ e.type = "CancelReject" /\ m.type = "CancelOrder" /\ UNCHANGED routes
  PROVE  IInv'
<1>1. Safe(View, slots, acks, oe, owner) /\ View' = View
  BY DEF IInv, SessionOK, View
<1>2. acks \in Seq(Answers)
  BY <1>1, SafeParts
<1>3. acks' = acks \o <<e>> /\ Joined(acks', acks, <<e>>, Answers)
  <2>1. acks' = acks \o <<e>>
    BY <1>2
  <2> QED
    BY <1>2, <2>1 DEF Joined
<1>4. Replies(e, m, oe, oe', acks, acks')
  BY <1>3 DEF Replies, PollStep
<1>5. Carries(View, slots, acks, oe, owner, View', slots, acks', oe')
  <2>1. (e.type = "Rejected" /\ New(m)) \/ (e.type = "CancelReject" /\ m.type = "CancelOrder")
    OBVIOUS
  <2>2. Carries(View, slots, acks, oe, owner, View, slots, acks', oe')
    BY <1>1, <1>4, <2>1, SessionRefuses
  <2> QED
    BY <2>2, <1>1
<1>6. AccountsTyped' /\ (Balance => Balance')
  <2>1. UNCHANGED <<owner, position>>
    BY PollStepKeeps
  <2> QED
    BY <1>3, <2>1, BalanceQuiet DEF IInv
<1>7. BooksOK'
  BY <1>1 DEF BooksOK, IInv
<1>8. RoutesOK'
  <2>1. CASE UNCHANGED routes
    BY <2>1, <1>1 DEF RoutesOK, IInv
  <2>2. CASE New(m) /\ \E sym \in Syms : RememberUserRef(m.ref, sym)
    <3>1. PICK sym \in Syms : RememberUserRef(m.ref, sym)
      BY <2>2
    <3>2. /\ m.ref \in Nat
          /\ owner[m.ref] \in Key => AskOK(View[owner[m.ref]], slots[owner[m.ref]], m, RefsOf(owner, owner[m.ref]))
      BY RequestFacts DEF PollStep
    <3>3. \A k \in Key : ~Holds(View[k], m.ref)
      <4>1. ASSUME NEW k \in Key, Holds(View[k], m.ref) PROVE FALSE
        <5>1. owner[m.ref] = k
          BY <4>1, <1>1, HeldFacts
        <5>2. ~Holds(View[k], m.ref)
          BY <5>1, <3>2, <2>2 DEF AskOK
        <5> QED
          BY <5>2, <4>1
      <4> QED
        BY <4>1
    <3>4. \A k \in Key, r \in Nat : Holds(View'[k], r) => IF r = m.ref THEN sym = k[1] ELSE Holds(View[k], r)
      BY <3>3, <1>1
    <3> QED
      BY <3>1, <3>2, <3>4, RouteAdded DEF IInv
  <2> QED
    BY <2>1, <2>2
<1> QED
  BY <1>5, <1>6, <1>7, <1>8, PollDone

\* A new order meets the book "here" of its symbol, which shows no order of the
\* client on its side; e is the answer that comes first.
Matches(m, e, sym, side, here) ==
  /\ m = Head(oe) /\ sym \in Syms /\ side \in Sides /\ owner[m.ref] = <<sym, side>>
  /\ here \in [Sides -> Seq(Orders)] /\ Shows(here[side], NoOrder)
  /\ here[Other(side)] = book[sym][Other(side)]
  /\ e \in Answers /\ e.ref = m.ref /\ e.qty = m.qty /\ e.price = m.price
  /\ \/ e.type = "Accepted" /\ m.type = "EnterOrder"
     \/ e.type = "Replaced" /\ m.type = "ReplaceOrder" /\ Holds(View[owner[m.ref]], m.orig)
  /\ ProcessOrder(sym, side, Order(m.ref, TRUE, m.price, m.qty), here, <<e>>)
  /\ RememberUserRef(m.ref, sym)

\* The order of an accepted request.
LEMMA NewOrder ==
  ASSUME IInv, PollStep, NEW m, NEW e, NEW sym, NEW side, NEW here, Matches(m, e, sym, side, here)
  PROVE  LET o == Order(m.ref, TRUE, m.price, m.qty)
         IN /\ o \in Orders /\ o.client /\ o.qty = m.qty /\ o.price = m.price /\ o.qty \in Nat \ {0}
            /\ Shown(o) = [id |-> m.ref, price |-> m.price, qty |-> m.qty]
            /\ Shown(o) \in Views /\ Shown(o).qty # 0 /\ Holds(Shown(o), m.ref)
            /\ m.ref \in Nat
<1> USE DEF Matches
<1>1. m \in Asks /\ m.ref \in Nat /\ owner[m.ref] \in Key
      /\ AskOK(View[owner[m.ref]], slots[owner[m.ref]], m, RefsOf(owner, owner[m.ref]))
  <2>1. owner[m.ref] \in Key /\ oe # << >>
    BY KeyParts DEF PollStep
  <2> QED
    BY <2>1, RequestFacts
<1>2. m.qty = QuoteQty /\ QuoteQty \in Nat \ {0}
  BY <1>1, QuoteQtyAssumption DEF AskOK
<1>3. m.price \in Nat
  BY <1>1 DEF Asks
<1> QED
  BY <1>1, <1>2, <1>3 DEF Order, Orders, Shown, Views, Holds

\* The books show it and its trades.
MatchShown(sym, side, o, rest, fills) ==
  \A s \in Syms, d \in Sides :
    Shows(book'[s][d], IF s # sym THEN View[<<s, d>>]
                       ELSE IF d = side THEN Take(Shown(o), SumOf(fills))
                       ELSE Take(View[<<s, d>>], ClientPart(rest, fills)))

\* The book after it.
LEMMA MatchedBook ==
  ASSUME IInv, PollStep, NEW m, NEW e, NEW sym, NEW side, NEW here, Matches(m, e, sym, side, here),
         NEW o, o = Order(m.ref, TRUE, m.price, m.qty), NEW rest, rest = here[Other(side)],
         NEW fills, fills = MatchFills(here, side, o)
  PROVE  /\ rest \in Seq(Orders) /\ Shows(rest, View[<<sym, Other(side)>>])
         /\ FillsFit(rest, fills) /\ fills \in Seq(Int)
         /\ SumOf(fills) \in Nat /\ SumOf(fills) <= o.qty
         /\ book' \in [Syms -> [Sides -> Seq(Orders)]]
         /\ MatchShown(sym, side, o, rest, fills)
<1> USE DEF Matches
<1>1. o \in Orders /\ o.client /\ o.qty \in Nat
  BY NewOrder
<1> DEFINE fs == Other(side)
           eligible == Crossing(fs, o.price, rest)
           left == o.qty - SumOf(fills)
           b == [here EXCEPT ![Other(side)] = Reduced(here[Other(side)], fills),
                             ![side] = IF left = 0 THEN @ ELSE Rest(side, @, [o EXCEPT !.qty = left])]
           c == [d \in Sides |-> IF d = side THEN NoOrder ELSE View[<<sym, d>>]]
           c2 == [d \in Sides |->
                    IF d = side THEN IF o.client THEN Take(Shown(o), SumOf(fills)) ELSE c[side]
                    ELSE Take(c[d], ClientPart(here[d], fills))]
<1>2. fs \in Sides /\ fs # side /\ \A d \in Sides : d = side \/ d = fs
  BY DEF Other, Sides
<1>3. BooksOK /\ rest = book[sym][fs]
  BY DEF IInv
<1>4. rest \in Seq(Orders) /\ Shows(rest, View[<<sym, fs>>])
  BY <1>2, <1>3, BookParts
<1>5. fills = Fills(rest, eligible, o.qty)
  BY DEF MatchFills
<1>6. book' = [book EXCEPT ![sym] = b]
  BY DEF ProcessOrder
<1>7. /\ FillsFit(rest, fills) /\ fills \in Seq(Int) /\ Len(fills) = Len(rest)
      /\ SumOf(fills) \in Nat /\ SumOf(fills) <= o.qty
  <2> HIDE DEF eligible
  <2> QED
    BY ONLY <1>1, <1>4, <1>5, FillsFacts
<1>8. b \in [Sides -> Seq(Orders)] /\ \A d \in Sides : Shows(b[d], c2[d])
  <2>1. \A d \in Sides : Shows(here[d], c[d])
    <3>1. Shows(here[side], c[side])
      OBVIOUS
    <3>2. Shows(here[fs], c[fs])
      BY <1>2, <1>4
    <3> QED
      BY <3>1, <3>2, <1>2
  <2>2. c[side] = NoOrder
    OBVIOUS
  <2>3. fills = Fills(here[Other(side)], eligible, o.qty)
    BY <1>5
  <2>4. here \in [Sides -> Seq(Orders)] /\ side \in Sides
    OBVIOUS
  <2>5. Processed(b, c2, here, c, side, o, eligible, fills)
    <3> HIDE DEF c, eligible
    <3> QED
      BY ONLY <1>1, <2>1, <2>2, <2>3, <2>4 DEF Processed
  <2> HIDE DEF c, c2, b, left, eligible
  <2> QED
    BY ONLY <2>5, OrderProcessed
<1>9. c2[side] = Take(Shown(o), SumOf(fills)) /\ c2[fs] = Take(View[<<sym, fs>>], ClientPart(rest, fills))
  <2>1. c2[fs] = Take(c[fs], ClientPart(here[fs], fills)) /\ c[fs] = View[<<sym, fs>>] /\ here[fs] = rest
    <3> HIDE DEF fs
    <3>1. c2[fs] = Take(c[fs], ClientPart(here[fs], fills)) /\ c[fs] = View[<<sym, fs>>]
      BY <1>2
    <3> QED
      BY <3>1 DEF fs
  <2>2. c2[side] = Take(Shown(o), SumOf(fills))
    BY <1>1
  <2> QED
    BY <2>1, <2>2
<1> HIDE DEF b, c2, c
<1>10. /\ book' \in [Syms -> [Sides -> Seq(Orders)]] /\ book'[sym] = b
       /\ \A s \in Syms, d \in Sides : s # sym => Shows(book'[s][d], View[<<s, d>>])
  BY <1>3, <1>6, <1>8, OneBook
<1>11. ASSUME NEW s \in Syms, NEW d \in Sides
       PROVE  Shows(book'[s][d], IF s # sym THEN View[<<s, d>>]
                                 ELSE IF d = side THEN Take(Shown(o), SumOf(fills))
                                 ELSE Take(View[<<s, d>>], ClientPart(rest, fills)))
  <2>1. CASE s # sym
    BY <1>10, <2>1
  <2>2. CASE s = sym /\ d = side
    BY <1>8, <1>9, <1>10, <2>2
  <2>3. CASE s = sym /\ d # side
    <3>1. d = fs
      BY <1>2, <2>3
    <3>2. Shows(b[fs], Take(View[<<sym, fs>>], ClientPart(rest, fills)))
      BY <1>2, <1>8, <1>9
    <3> HIDE DEF fs
    <3> QED
      BY <1>10, <2>3, <3>1, <3>2
  <2> QED
    BY <2>1, <2>2, <2>3
<1> QED
  BY <1>4, <1>7, <1>10, <1>11 DEF MatchShown

\* Two batches of answers after those under way.
LEMMA TwoBatches ==
  ASSUME NEW ak \in Seq(Answers), NEW e \in Answers, NEW E \in Seq(Answers), NEW w,
         w = ak \o <<e>> \o E \o << >>
  PROVE  /\ w = (ak \o <<e>>) \o E
         /\ Joined(w, ak, <<e>> \o E, Answers)
         /\ Joined(<<e>> \o E, <<e>>, E, Answers)
<1>1. <<e>> \in Seq(Answers)
  OBVIOUS
<1> DEFINE f == <<e>>
<1> HIDE DEF f
<1>2. f \in Seq(Answers)
  BY <1>1 DEF f
<1>3. (ak \o f) \o E \in Seq(Answers) /\ f \o E \in Seq(Answers)
  BY <1>2
<1>4. ((ak \o f) \o E) \o << >> = (ak \o f) \o E
  BY <1>3, ConcatEmptySeq
<1>5. (ak \o f) \o E = ak \o (f \o E)
  BY <1>2, ConcatAssociative
<1>6. w = ((ak \o f) \o E) \o << >>
  BY DEF f
<1>7. w = (ak \o f) \o E /\ w = ak \o (f \o E)
  BY <1>4, <1>5, <1>6
<1>8. Joined(w, ak, f \o E, Answers) /\ Joined(f \o E, f, E, Answers)
  BY <1>2, <1>3, <1>7 DEF Joined
<1> QED
  BY <1>7, <1>8 DEF f

\* An accepted order and its trades preserve the inductive invariant.
LEMMA MatchKeeps ==
  ASSUME IInv, PollStep, NEW m, NEW e, NEW sym, NEW side, NEW here, Matches(m, e, sym, side, here)
  PROVE  IInv'
<1> DEFINE o == Order(m.ref, TRUE, m.price, m.qty)
           rest == here[Other(side)]
           fills == MatchFills(here, side, o)
           k == <<sym, side>>
           fk == <<sym, Other(side)>>
           ag == <<m.ref>>
           E == Executions(rest, fills, ag)
           u1 == acks \o <<e>>
           v1 == [j \in Key |-> IF j = k THEN Shown(o) ELSE View[j]]
           v2 == [j \in Key |-> Take(v1[j], TradedBy(fk, k, ag, rest, fills, j))]
           part == ClientPart(rest, fills)
<1>1. /\ m = Head(oe) /\ sym \in Syms /\ side \in Sides /\ owner[m.ref] = k
      /\ e \in Answers /\ e.ref = m.ref /\ e.qty = m.qty /\ e.price = m.price
      /\ \/ e.type = "Accepted" /\ m.type = "EnterOrder"
         \/ e.type = "Replaced" /\ m.type = "ReplaceOrder" /\ Holds(View[owner[m.ref]], m.orig)
      /\ RememberUserRef(m.ref, sym)
  BY DEF Matches
<1>2. /\ o \in Orders /\ o.client /\ o.qty = m.qty /\ o.qty \in Nat
      /\ Shown(o) = [id |-> m.ref, price |-> m.price, qty |-> m.qty]
      /\ Shown(o) \in Views /\ Shown(o).qty # 0 /\ Holds(Shown(o), m.ref) /\ m.ref \in Nat
      /\ o.id = m.ref
  BY NewOrder DEF Order
<1>3. /\ rest \in Seq(Orders) /\ Shows(rest, View[fk])
      /\ FillsFit(rest, fills) /\ fills \in Seq(Int)
      /\ SumOf(fills) \in Nat /\ SumOf(fills) <= o.qty
      /\ book' \in [Syms -> [Sides -> Seq(Orders)]]
      /\ MatchShown(sym, side, o, rest, fills)
  <2>1. o = Order(m.ref, TRUE, m.price, m.qty) /\ rest = here[Other(side)] /\ fills = MatchFills(here, side, o)
    OBVIOUS
  <2> HIDE DEF o, rest, fills
  <2> QED
    BY <2>1, MatchedBook
<1>4. /\ acks' = acks \o <<e>> \o E \o << >>
      /\ traded' = [traded EXCEPT ![sym] = @ + Signed(side, SumOf(fills) - ClientFills(rest, fills))]
  BY <1>2 DEF Matches, ProcessOrder, Answer
<1>5. k \in Key /\ fk \in Key /\ fk # k /\ Other(side) \in Sides /\ Other(side) # side
      /\ \A d \in Sides : d = side \/ d = Other(side)
  BY <1>1, KeyParts DEF Other, Sides
<1>6. Safe(View, slots, acks, oe, owner) /\ acks \in Seq(Answers)
  BY SafeParts DEF IInv, SessionOK
<1>7. \A j \in Key : View[j] \in Views /\ (View[j].qty = 0 => View[j] = NoOrder) /\ View[j].qty \in Nat
  BY <1>6, HeldFacts
<1>8. ClientFills(rest, fills) = part /\ part \in Nat
  <2> HIDE DEF rest, fills
  <2> QED
    BY <1>3, ClientFillsIs, ReducedShows
<1>9. E \in Seq(Answers)
  <2>1. Trade(E, rest, View[fk], fills, ag)
    <3> HIDE DEF rest, fills
    <3> QED
      BY <1>2, <1>3 DEF Trade
  <2> HIDE DEF E, rest, fills, ag
  <2> QED
    BY <2>1, ExecutionsFacts
<1>10. E = Executions(rest, fills, ag)
  OBVIOUS
<1> HIDE DEF E, fills, rest, o
<1>11. /\ acks' = u1 \o E
       /\ Joined(acks', acks, <<e>> \o E, Answers) /\ Joined(<<e>> \o E, <<e>>, E, Answers)
  BY <1>1, <1>4, <1>6, <1>9, TwoBatches
<1>12. Carries(View, slots, acks, oe, owner, v1, slots, u1, oe')
  <2>1. Replies(e, m, oe, oe', acks, u1)
    BY <1>1 DEF Replies, PollStep
  <2>2. NewView(View, v1, k, m)
    BY <1>2, <1>5 DEF NewView
  <2> HIDE DEF u1, v1, k
  <2> QED
    BY <1>1, <1>5, <1>6, <2>1, <2>2, SessionAccepts
<1>13. /\ \A j \in Key : v1[j] = IF j = k THEN Shown(o) ELSE View[j]
       /\ \A j \in Key : v2[j] = Take(v1[j], TradedBy(fk, k, ag, rest, fills, j))
  <2>1. \A j \in Key : v1[j] = IF j = k THEN Shown(o) ELSE View[j]
    OBVIOUS
  <2> HIDE DEF v1
  <2> QED
    BY <2>1
<1>14. ag # << >> /\ ag[1] = m.ref
  OBVIOUS
<1>15. /\ TradedBy(fk, k, ag, rest, fills, k) = SumOf(fills)
       /\ TradedBy(fk, k, ag, rest, fills, fk) = part
       /\ \A j \in Key : j # k /\ j # fk => TradedBy(fk, k, ag, rest, fills, j) = 0
  <2> HIDE DEF k, fk, ag
  <2> QED
    BY <1>5, <1>14 DEF TradedBy
<1>16. /\ Safe(v2, slots, acks', oe', owner)
       /\ Exact(v1, slots, u1, oe', owner) => Exact(v2, slots, acks', oe', owner)
       /\ Orderly(slots, u1, oe', owner) => Orderly(slots, acks', oe', owner)
       /\ \A j \in Key : Told(E, owner, j) = TradedBy(fk, k, ag, rest, fills, j)
       /\ \A j \in Key : TradedBy(fk, k, ag, rest, fills, j) \in Nat
                         /\ TradedBy(fk, k, ag, rest, fills, j) <= v1[j].qty
  <2>1. v1[k] = Shown(o) /\ v1[fk] = View[fk]
    BY <1>5, <1>13
  <2>2. Shown(o).qty = o.qty
    BY <1>2
  <2>3. Aggressor(v1, k, ag, fills)
    <3>1. m.ref \in Nat /\ ag = <<m.ref>> /\ Holds(v1[k], m.ref) /\ SumOf(fills) <= v1[k].qty
      BY <1>2, <1>3, <2>1, <2>2
    <3> HIDE DEF v1, ag, k
    <3> QED
      BY <3>1 DEF Aggressor
  <2>4. Safe(v1, slots, u1, oe', owner)
    BY <1>12 DEF Carries
  <2> HIDE DEF v1, v2, u1, k, fk, ag
  <2>5. Trades(v1, v2, u1, acks', fk, k, rest, fills, ag, E)
    BY <1>3, <1>5, <1>10, <1>11, <1>13, <2>1, <2>3 DEF Trades
  <2> QED
    BY <2>4, <2>5, SessionTrades
<1> HIDE DEF v1, v2, u1, ag
<1>17. BooksOK' /\ \A j \in Key : View'[j] = v2[j]
  <2>1. ASSUME NEW s \in Syms, NEW d \in Sides PROVE Shows(book'[s][d], v2[<<s, d>>])
    <3> DEFINE j == <<s, d>>
    <3>1. j \in Key /\ (j = k <=> s = sym /\ d = side) /\ (j = fk <=> s = sym /\ d = Other(side))
      BY KeyParts
    <3>2. CASE s # sym
      <4>1. j # k /\ j # fk
        BY <3>1, <3>2
      <4> HIDE DEF j, k, fk
      <4>2. v2[j] = Take(View[j], 0)
        BY <3>1, <4>1, <1>13, <1>15
      <4>3. View[j] \in Views /\ (View[j].qty = 0 => View[j] = NoOrder)
        BY <3>1, <1>7
      <4>4. Take(View[j], 0) = View[j]
        BY <4>3, TakeFacts
      <4>5. Shows(book'[s][d], View[<<s, d>>])
        BY <3>2, <1>3 DEF MatchShown
      <4> QED
        BY <4>2, <4>4, <4>5 DEF j
    <3>3. CASE s = sym /\ d = side
      <4>1. j = k
        BY <3>1, <3>3
      <4>2. Shows(book'[s][d], Take(Shown(o), SumOf(fills)))
        BY <3>3, <1>3 DEF MatchShown
      <4> HIDE DEF j, k, fk
      <4>3. v2[j] = Take(Shown(o), SumOf(fills))
        BY <4>1, <1>5, <1>13, <1>15
      <4> QED
        BY <4>2, <4>3 DEF j
    <3>4. CASE s = sym /\ d # side
      <4>1. j = fk
        BY <3>1, <3>4, <1>5
      <4>2. Shows(book'[s][d], Take(View[<<s, d>>], part))
        BY <3>4, <1>3 DEF MatchShown
      <4> HIDE DEF k, fk, part
      <4>3. v2[j] = Take(View[j], part)
        BY <4>1, <1>5, <1>13, <1>15
      <4> QED
        BY <4>2, <4>3
    <3> QED
      BY <3>2, <3>3, <3>4
  <2> QED
    BY <2>1, <1>3, BooksShow
<1>18. Carries(View, slots, acks, oe, owner, View', slots, acks', oe')
  <2>1. Carries(View, slots, acks, oe, owner, v2, slots, acks', oe')
    BY <1>12, <1>16 DEF Carries
  <2>2. View' = v2
    BY <1>17 DEF View, v2
  <2> QED
    BY <2>1, <2>2
<1>19. AccountsTyped' /\ (Balance => Balance')
  <2>1. \A j : Told(<<e>>, owner, j) = 0
    <3>1. e.type # "Executed" /\ <<e>> \in Seq(Answers) /\ \A i \in 1 .. Len(<<e>>) : <<e>>[i] = e
      BY <1>1
    <3> QED
      BY <3>1, ToldNone
  <2>2. \A j : Told(<<e>> \o E, owner, j) = Told(E, owner, j)
    <3>1. \A j : /\ Told(<<e>> \o E, owner, j) = Told(<<e>>, owner, j) + Told(E, owner, j)
                 /\ Told(E, owner, j) \in Nat
      BY <1>11, ToldAppended
    <3> QED
      BY <3>1, <2>1
  <2>3. \A j \in Key : Told(<<e>> \o E, owner, j) = IF j = k THEN SumOf(fills) ELSE IF j = fk THEN part ELSE 0
    <3> HIDE DEF k, fk, part
    <3> QED
      BY <2>2, <1>15, <1>16
  <2>4. TradeTold(<<e>> \o E, sym, side, SumOf(fills), part)
    <3> HIDE DEF part
    <3> QED
      BY <1>1, <1>3, <1>4, <1>8, <2>3 DEF TradeTold
  <2>5. owner' = owner /\ position' = position /\ AccountsTyped
    BY PollStepKeeps DEF IInv
  <2> HIDE DEF part
  <2> QED
    BY <1>11, <2>4, <2>5, BalanceTraded
<1>20. RoutesOK'
  <2>1. ASSUME NEW j \in Key, NEW r \in Nat, Holds(View'[j], r)
        PROVE  IF r = m.ref THEN sym = j[1] ELSE Holds(View[j], r)
    <3>1. Holds(v2[j], r)
      BY <1>17, <2>1
    <3>2. CASE r = m.ref
      <4>1. owner[r] = j
        BY <3>1, <1>16, HeldFacts
      <4> QED
        BY <3>2, <4>1, <1>1
    <3>3. CASE r # m.ref
      <4> DEFINE c == v1[j]
                 f == TradedBy(fk, k, ag, rest, fills, j)
      <4> HIDE DEF k, fk
      <4>1. c \in Views /\ (c.qty = 0 => c = NoOrder)
        BY <1>2, <1>7, <1>13
      <4>2. f \in Nat /\ f <= c.qty /\ Holds(Take(c, f), r)
        BY <3>1, <1>13, <1>16
      <4>3. c = IF j = k THEN Shown(o) ELSE View[j]
        BY <1>13
      <4> HIDE DEF c, f
      <4>4. Holds(c, r)
        BY <4>1, <4>2, TakeFacts
      <4>5. j # k
        BY <4>3, <4>4, <3>3, <1>2 DEF Holds
      <4> QED
        BY <4>3, <4>4, <4>5, <3>3
    <3> QED
      BY <3>2, <3>3
  <2> QED
    BY <2>1, <1>1, <1>2, RouteAdded DEF IInv
<1> QED
  BY <1>17, <1>18, <1>19, <1>20, PollDone

\* The numbers of a request.
LEMMA AskNumbers ==
  ASSUME NEW m \in Asks
  PROVE  /\ m.ref \in Nat /\ m.type \in {"EnterOrder", "CancelOrder", "ReplaceOrder"}
         /\ New(m) => m.qty \in Nat /\ m.price \in Nat
         /\ m.type = "ReplaceOrder" => m.orig \in Nat
BY DEF Asks, New

\* A new order for a listed symbol at a valid price is matched.
LEMMA EnterMatches ==
  ASSUME IInv, PollStep, NEW m, m = Head(oe), m.type = "EnterOrder",
         RememberUserRef(m.ref, VenueForSymbol(m.key[1])), OnEnterOrder(m),
         m.key[1] \in Syms, m.price \in Band
  PROVE  \E e, sym, side, here : Matches(m, e, sym, side, here)
<1> DEFINE sym == m.key[1]
           side == m.key[2]
           k == m.key
<1>1. /\ m \in Asks /\ m.ref \in Nat /\ k = owner[m.ref] /\ k \in Key \cup {TestKey} /\ New(m)
  BY RequestFacts DEF PollStep, New
<1>2. m.qty \in Nat /\ m.price \in Nat
  BY <1>1, AskNumbers
<1> DEFINE e == Ack("Accepted", m.ref, m.qty, m.price)
           here == book[sym]
<1>3. e \in Answers /\ e.type = "Accepted" /\ e.ref = m.ref /\ e.qty = m.qty /\ e.price = m.price
  BY <1>1, <1>2 DEF Ack, Answers, AckTypes
<1>4. ProcessOrder(sym, side, Order(m.ref, TRUE, m.price, m.qty), here, <<e>>)
  BY DEF OnEnterOrder
<1>5. RememberUserRef(m.ref, sym)
  BY DEF VenueForSymbol
<1>6. k \in Key /\ k = <<sym, side>> /\ side \in Sides
  <2>1. k # TestKey
    BY SymsAssumption
  <2> QED
    BY <1>1, <2>1, KeyParts
<1> HIDE DEF e
<1>7. View[k] = NoOrder
  <2> DEFINE v2 == [View EXCEPT ![k] = [id |-> m.ref, price |-> m.price, qty |-> m.qty]]
             u == acks \o <<e>>
  <2>1. NewView(View, v2, k, m)
    BY <1>6 DEF NewView, View
  <2>2. Replies(e, m, oe, oe', acks, u)
    BY <1>3 DEF Replies, PollStep
  <2>3. Safe(View, slots, acks, oe, owner)
    BY DEF IInv, SessionOK
  <2> HIDE DEF v2, u, k
  <2>4. Carries(View, slots, acks, oe, owner, v2, slots, u, oe') /\ (m.type = "EnterOrder" => View[k] = NoOrder)
    <3>1. /\ \/ e.type = "Accepted" /\ m.type = "EnterOrder"
             \/ e.type = "Replaced" /\ m.type = "ReplaceOrder" /\ Holds(View[owner[m.ref]], m.orig)
          /\ e.qty = m.qty /\ e.price = m.price /\ k = owner[m.ref] /\ k \in Key
      BY <1>1, <1>3, <1>6
    <3> QED
      BY ONLY <3>1, <2>1, <2>2, <2>3, SessionAccepts
  <2> QED
    BY <2>4
<1>8. here \in [Sides -> Seq(Orders)] /\ Shows(here[side], NoOrder)
  <2>1. here \in [Sides -> Seq(Orders)] /\ Shows(here[side], View[<<sym, side>>])
    BY <1>6, BookParts DEF IInv
  <2>2. View[<<sym, side>>] = NoOrder
    BY <1>6, <1>7
  <2> QED
    BY <2>1, <2>2
<1>9. owner[m.ref] = <<sym, side>>
  BY <1>1, <1>6
<1>10. here[Other(side)] = book[sym][Other(side)] /\ sym \in Syms
  OBVIOUS
<1> HIDE DEF sym, side, here
<1>11. Matches(m, e, sym, side, here)
  BY <1>3, <1>4, <1>5, <1>6, <1>8, <1>9, <1>10 DEF Matches
<1> QED
  BY <1>11

\* A new order preserves the inductive invariant.
LEMMA EnterKeeps ==
  ASSUME IInv, PollStep, NEW m, m = Head(oe), m.type = "EnterOrder",
         RememberUserRef(m.ref, VenueForSymbol(m.key[1])), OnEnterOrder(m)
  PROVE  IInv'
<1> DEFINE sym == m.key[1]
<1>1. m \in Asks /\ m.ref \in Nat /\ New(m)
  BY RequestFacts DEF PollStep, New
<1>2. CASE sym \in Syms /\ m.price \in Band
  BY <1>2, EnterMatches, MatchKeeps
<1>3. CASE ~(sym \in Syms /\ m.price \in Band)
  <2> DEFINE e == Ack("Rejected", m.ref, 0, 0)
  <2>1. e \in Answers /\ e.type = "Rejected" /\ e.ref = m.ref
    BY <1>1 DEF Ack, Answers, AckTypes
  <2>2. acks' = Append(acks, e) /\ UNCHANGED <<book, traded>>
    BY <1>3 DEF OnEnterOrder, Reply
  <2>3. VenueForSymbol(sym) \in Syms
    BY SymsAssumption DEF VenueForSymbol, FirstSym
  <2> HIDE DEF e
  <2> QED
    BY <1>1, <2>1, <2>2, <2>3, PollRefuses
<1> QED
  BY <1>2, <1>3

\* A venue is found for every reference.
LEMMA VenueFound ==
  ASSUME IInv, NEW ref \in Nat
  PROVE  VenueForUserRef(ref) \in Syms
<1>1. ref % VenueRing \in 0 .. (VenueRing - 1)
  BY VenueRingAssumption
<1>2. routes[ref % VenueRing].sym \in Syms
  BY <1>1 DEF IInv, RoutesOK
<1>3. FirstSym \in Syms
  BY SymsAssumption DEF FirstSym
<1> QED
  BY <1>2, <1>3 DEF VenueForUserRef

\* The order r of the quote k rests on this side of a book.
RestsAt(k, r, sym, side) ==
  /\ side \in Sides /\ k = <<sym, side>> /\ Holds(View[k], r)
  /\ Without(book[sym][side], TRUE, r) \in Seq(Orders)
  /\ Shows(Without(book[sym][side], TRUE, r), NoOrder)
  /\ Find(book[sym][side], TRUE, r).qty = View[k].qty

\* The order of a quote that a request names, where the venue finds it.
LEMMA OrderFound ==
  ASSUME IInv, NEW k \in Key, NEW r \in RefsOf(owner, k), NEW sym \in Syms, NEW side \in SideOf(sym, r)
  PROVE  RestsAt(k, r, sym, side)
<1>1. SideOf(sym, r) = {d \in Sides : Holds(View[<<sym, d>>], r)}
  BY SideShows DEF IInv
<1>2. side \in Sides /\ Holds(View[<<sym, side>>], r) /\ <<sym, side>> \in Key
  BY <1>1, KeyParts
<1>3. owner[r] = <<sym, side>>
  BY <1>2, HeldFacts DEF IInv, SessionOK
<1>4. k = <<sym, side>>
  BY <1>3 DEF RefsOf
<1>5. book[sym][side] \in Seq(Orders) /\ Shows(book[sym][side], View[k])
  BY <1>2, <1>4, BookParts DEF IInv
<1> DEFINE rest == book[sym][side]
           c == View[k]
<1>6. c.qty # 0 /\ c.id = r
  BY <1>2, <1>4 DEF Holds
<1> HIDE DEF rest, c
<1>7. rest \in Seq(Orders) /\ Shows(rest, c)
  BY <1>5 DEF rest, c
<1>8. Without(rest, TRUE, r) \in Seq(Orders) /\ Shows(Without(rest, TRUE, r), NoOrder)
  BY <1>6, <1>7, WithoutShows
<1>9. Find(rest, TRUE, r).qty = c.qty
  <2>1. PICK i \in DOMAIN rest : rest[i].client /\ Clients(rest) = {i} /\ c.id = rest[i].id /\ c.qty = rest[i].qty
    BY <1>6, <1>7, ShowsClient
  <2>2. \A j \in DOMAIN rest : rest[j].client \in BOOLEAN
    BY <1>7, OrderParts
  <2>3. Places(rest, TRUE, r) = {i}
    <3>1. \A j \in Places(rest, TRUE, r) : j \in Clients(rest)
      BY DEF Places, Clients
    <3>2. rest[i].client = TRUE
      BY <2>1, <2>2
    <3>3. i \in Places(rest, TRUE, r)
      BY <2>1, <3>2, <1>6 DEF Places
    <3> QED
      BY <2>1, <3>1, <3>3
  <2>4. (CHOOSE j \in Places(rest, TRUE, r) : TRUE) = i
    BY <2>3
  <2> QED
    BY <2>1, <2>4 DEF Find
<1> QED
  BY <1>2, <1>4, <1>8, <1>9 DEF rest, c, RestsAt

\* A replacement of an order that the venue holds, at a valid price, is matched.
LEMMA ReplaceMatches ==
  ASSUME IInv, PollStep, NEW m, m = Head(oe), m.type = "ReplaceOrder", NEW sym,
         sym = VenueForUserRef(m.orig), RememberUserRef(m.ref, sym), OnReplaceOrder(m, sym),
         SideOf(sym, m.orig) # {}, m.price \in Band
  PROVE  \E e, side, here : Matches(m, e, sym, side, here)
<1> DEFINE k == owner[m.ref]
           e == Ack("Replaced", m.ref, m.qty, m.price)
<1>1. /\ m \in Asks /\ m.ref \in Nat /\ k \in Key /\ New(m)
      /\ AskOK(View[k], slots[k], m, RefsOf(owner, k))
  BY RequestFacts DEF PollStep, New
<1>2. m.qty \in Nat /\ m.price \in Nat /\ m.orig \in Nat
  BY <1>1, AskNumbers
<1>3. sym \in Syms
  BY <1>2, VenueFound
<1>4. m.orig \in RefsOf(owner, k)
  BY <1>1 DEF AskOK
<1>5. PICK side \in SideOf(sym, m.orig) :
        ProcessOrder(sym, side, Order(m.ref, TRUE, m.price, m.qty),
                     [book[sym] EXCEPT ![side] = Without(@, TRUE, m.orig)], <<e>>)
  BY DEF OnReplaceOrder
<1>6. e \in Answers /\ e.type = "Replaced" /\ e.ref = m.ref /\ e.qty = m.qty /\ e.price = m.price
  BY <1>1, <1>2 DEF Ack, Answers, AckTypes
<1> DEFINE r == Without(book[sym][side], TRUE, m.orig)
           here == [book[sym] EXCEPT ![side] = r]
<1>7. ProcessOrder(sym, side, Order(m.ref, TRUE, m.price, m.qty), here, <<e>>)
  BY <1>5
<1>8. /\ side \in Sides /\ k = <<sym, side>> /\ Holds(View[k], m.orig)
      /\ r \in Seq(Orders) /\ Shows(r, NoOrder)
  <2>1. RestsAt(k, m.orig, sym, side)
    <3> HIDE DEF k
    <3> QED
      BY <1>1, <1>3, <1>4, OrderFound
  <2> QED
    BY <2>1 DEF RestsAt
<1> HIDE DEF e, r
<1>9. /\ here \in [Sides -> Seq(Orders)] /\ here[side] = r
      /\ \A d \in Sides : d # side => here[d] = book[sym][d] /\ Shows(here[d], View[<<sym, d>>])
  <2>1. PutSide(here, sym, side, r) /\ BooksOK
    BY <1>3, <1>8 DEF PutSide, IInv
  <2> HIDE DEF here
  <2> QED
    BY <2>1, OneSide
<1>10. Other(side) \in Sides /\ Other(side) # side
  BY DEF Other, Sides
<1> HIDE DEF here
<1>11. Matches(m, e, sym, side, here)
  BY <1>3, <1>6, <1>7, <1>8, <1>9, <1>10 DEF Matches
<1> QED
  BY <1>11

\* So does a replacement.
LEMMA ReplaceKeeps ==
  ASSUME IInv, PollStep, NEW m, m = Head(oe), m.type = "ReplaceOrder", NEW sym,
         sym = VenueForUserRef(m.orig), RememberUserRef(m.ref, sym), OnReplaceOrder(m, sym)
  PROVE  IInv'
<1>1. m \in Asks /\ m.ref \in Nat /\ New(m) /\ sym \in Syms
  <2>1. m \in Asks /\ m.ref \in Nat /\ New(m)
    BY RequestFacts DEF PollStep, New
  <2> QED
    BY <2>1, AskNumbers, VenueFound
<1>2. CASE SideOf(sym, m.orig) = {} \/ m.price \notin Band
  <2> DEFINE e == Ack("Rejected", m.ref, 0, 0)
  <2>1. e \in Answers /\ e.type = "Rejected" /\ e.ref = m.ref
    BY <1>1 DEF Ack, Answers, AckTypes
  <2>2. acks' = Append(acks, e) /\ UNCHANGED <<book, traded>>
    BY <1>2 DEF OnReplaceOrder, Reply
  <2> HIDE DEF e
  <2> QED
    BY <1>1, <2>1, <2>2, PollRefuses
<1>3. CASE ~(SideOf(sym, m.orig) = {} \/ m.price \notin Band)
  BY <1>3, ReplaceMatches, MatchKeeps
<1> QED
  BY <1>2, <1>3

\* So does a cancel.
LEMMA CancelKeeps ==
  ASSUME IInv, PollStep, NEW m, m = Head(oe), m.type = "CancelOrder", NEW sym,
         sym = VenueForUserRef(m.ref), OnCancelOrder(m, sym), UNCHANGED routes
  PROVE  IInv'
<1> DEFINE k == owner[m.ref]
<1>1. /\ m \in Asks /\ m.ref \in Nat /\ k \in Key /\ m.ref \in RefsOf(owner, k)
  BY RequestFacts DEF PollStep, RefsOf
<1>2. sym \in Syms
  BY <1>1, VenueFound
<1>3. CASE SideOf(sym, m.ref) = {}
  <2> DEFINE e == Ack("CancelReject", m.ref, 0, 0)
  <2>1. e \in Answers /\ e.type = "CancelReject" /\ e.ref = m.ref
    BY <1>1 DEF Ack, Answers, AckTypes
  <2>2. acks' = Append(acks, e) /\ UNCHANGED <<book, traded>>
    BY <1>3 DEF OnCancelOrder, Reply
  <2> HIDE DEF e
  <2> QED
    BY <1>1, <2>1, <2>2, PollRefuses
<1>4. CASE SideOf(sym, m.ref) # {}
  <2>1. PICK side \in SideOf(sym, m.ref) :
          /\ book' = [book EXCEPT ![sym][side] = Without(@, TRUE, m.ref)]
          /\ acks' = Append(acks, Ack("Canceled", m.ref, Find(book[sym][side], TRUE, m.ref).qty, 0))
          /\ UNCHANGED traded
    BY <1>4 DEF OnCancelOrder
  <2> DEFINE r == Without(book[sym][side], TRUE, m.ref)
             b == [book[sym] EXCEPT ![side] = r]
             e == Ack("Canceled", m.ref, View[k].qty, 0)
             v2 == [j \in Key |-> IF j = k THEN NoOrder ELSE View[j]]
  <2>2. /\ side \in Sides /\ k = <<sym, side>> /\ Holds(View[k], m.ref)
        /\ r \in Seq(Orders) /\ Shows(r, NoOrder)
        /\ Find(book[sym][side], TRUE, m.ref).qty = View[k].qty
    <3>1. RestsAt(k, m.ref, sym, side)
      <4> HIDE DEF k
      <4> QED
        BY <1>1, <1>2, OrderFound
    <3> QED
      BY <3>1 DEF RestsAt
  <2>3. Safe(View, slots, acks, oe, owner) /\ acks \in Seq(Answers)
    BY SafeParts DEF IInv, SessionOK
  <2>4. e \in Answers /\ e.type = "Canceled" /\ e.ref = m.ref /\ e.qty = View[k].qty
    <3>1. View[k].qty \in Nat
      BY <1>1, <2>3, HeldFacts
    <3> HIDE DEF k
    <3> QED
      BY <1>1, <3>1 DEF Ack, Answers, AckTypes
  <2>5. acks' = Append(acks, e)
    BY <2>1, <2>2
  <2> HIDE DEF e
  <2>6. acks' = acks \o <<e>> /\ Joined(acks', acks, <<e>>, Answers)
    <3>1. acks' = acks \o <<e>>
      BY <2>3, <2>5
    <3> QED
      BY <2>3, <2>4, <3>1 DEF Joined
  <2>7. Replies(e, m, oe, oe', acks, acks')
    BY <2>4, <2>6 DEF Replies, PollStep
  <2>8. v2[k] = NoOrder /\ \A j \in Key : j # k => v2[j] = View[j]
    BY <1>1
  <2>9. Carries(View, slots, acks, oe, owner, v2, slots, acks', oe')
    <3>1. k = owner[m.ref]
      OBVIOUS
    <3> HIDE DEF k, v2
    <3> QED
      BY <1>1, <2>2, <2>3, <2>4, <2>7, <2>8, <3>1, SessionCancels
  <2>10. book' = [book EXCEPT ![sym] = b]
    BY <2>1
  <2> HIDE DEF r
  <2>11. /\ b \in [Sides -> Seq(Orders)] /\ b[side] = r
         /\ \A d \in Sides : d # side => Shows(b[d], View[<<sym, d>>])
    <3>1. PutSide(b, sym, side, r) /\ BooksOK
      BY <1>2, <2>2 DEF PutSide, IInv
    <3> HIDE DEF b
    <3> QED
      BY <3>1, OneSide
  <2> HIDE DEF b
  <2>12. /\ book' \in [Syms -> [Sides -> Seq(Orders)]] /\ book'[sym] = b
         /\ \A s \in Syms, d \in Sides : s # sym => Shows(book'[s][d], View[<<s, d>>])
    BY <1>2, <2>10, <2>11, OneBook DEF IInv
  <2>13. BooksOK' /\ \A j \in Key : View'[j] = v2[j]
    <3>1. ASSUME NEW s \in Syms, NEW d \in Sides PROVE Shows(book'[s][d], v2[<<s, d>>])
      <4>1. <<s, d>> \in Key /\ (<<s, d>> = k <=> s = sym /\ d = side)
        BY <2>2, KeyParts
      <4>2. CASE s = sym /\ d = side
        BY <4>1, <4>2, <2>2, <2>8, <2>11, <2>12
      <4>3. CASE ~(s = sym /\ d = side)
        <5>1. v2[<<s, d>>] = View[<<s, d>>]
          BY <4>1, <4>3, <2>8
        <5> HIDE DEF v2
        <5> QED
          BY <5>1, <4>3, <2>11, <2>12
      <4> QED
        BY <4>2, <4>3
    <3> HIDE DEF v2
    <3> QED
      BY <3>1, <2>12, BooksShow
  <2>14. View' = v2
    BY <2>13 DEF View
  <2>15. Carries(View, slots, acks, oe, owner, View', slots, acks', oe')
    BY <2>9, <2>14
  <2>16. RoutesOK'
    <3>1. \A j \in Key, n \in Nat : Holds(View'[j], n) => Holds(View[j], n)
      <4> HIDE DEF v2, k
      <4> QED
        BY <2>8, <2>14 DEF Holds, NoOrder
    <3> QED
      BY <3>1, RoutesKept DEF IInv
  <2>17. AccountsTyped' /\ (Balance => Balance')
    <3>1. UNCHANGED <<owner, position, traded>> /\ AccountsTyped /\ e.type # "Executed"
      BY <2>1, <2>4, PollStepKeeps DEF IInv
    <3> QED
      BY <3>1, <2>6, BalanceQuiet
  <2> QED
    BY <2>13, <2>15, <2>16, <2>17, PollDone
<1> QED
  BY <1>3, <1>4

\* Every request preserves the inductive invariant.
LEMMA PollOrderEntryKeeps ==
  ASSUME IInv, PollOrderEntry
  PROVE  IInv'
<1> DEFINE m == Head(oe)
<1>1. PollStep /\ DispatchOuch(m) /\ m = Head(oe)
  BY DEF PollOrderEntry, PollStep
<1> HIDE DEF m
<1>2. CASE m.type = "EnterOrder" /\ RememberUserRef(m.ref, VenueForSymbol(m.key[1])) /\ OnEnterOrder(m)
  BY <1>1, <1>2, EnterKeeps
<1>3. CASE m.type = "CancelOrder" /\ OnCancelOrder(m, VenueForUserRef(m.ref)) /\ UNCHANGED routes
  <2> DEFINE sym == VenueForUserRef(m.ref)
  <2>1. sym = VenueForUserRef(m.ref) /\ OnCancelOrder(m, sym)
    BY <1>3
  <2> HIDE DEF sym
  <2> QED
    BY <1>1, <1>3, <2>1, CancelKeeps
<1>4. CASE m.type = "ReplaceOrder" /\ RememberUserRef(m.ref, VenueForUserRef(m.orig))
           /\ OnReplaceOrder(m, VenueForUserRef(m.orig))
  <2> DEFINE sym == VenueForUserRef(m.orig)
  <2>1. sym = VenueForUserRef(m.orig) /\ RememberUserRef(m.ref, sym) /\ OnReplaceOrder(m, sym)
    BY <1>4
  <2> HIDE DEF sym
  <2> QED
    BY <1>1, <1>4, <2>1, ReplaceKeeps
<1> QED
  BY <1>1, <1>2, <1>3, <1>4 DEF DispatchOuch

\* The answers E cancel every order that v shows, each once.
CancelsAll(E, v, own) ==
  /\ E \in Seq(Answers)
  /\ \A i \in 1 .. Len(E) :
       /\ E[i].type = "Canceled" /\ E[i].ref \in DOMAIN own
       /\ \E k \in Key : Holds(v[k], E[i].ref) /\ E[i].qty = v[k].qty
  /\ \A i, j \in 1 .. Len(E) : E[i].ref = E[j].ref => i = j
  /\ \A k \in Key : v[k].qty > 0 => \E i \in 1 .. Len(E) : E[i].ref = v[k].id

\* The shares of the one answer about a reference.
LEMMA SharesOnce ==
  ASSUME NEW E \in Seq(Answers), NEW S, NEW i \in 1 .. Len(E), E[i] \in S,
         \A j \in 1 .. Len(E) : j # i => E[j] \notin S
  PROVE  Shares(E, S) = E[i].qty
<1> DEFINE f == [j \in DOMAIN E |-> IF E[j] \in S THEN E[j].qty ELSE 0]
<1>1. DOMAIN E = 1 .. Len(E) /\ Len(E) \in Nat /\ \A j \in 1 .. Len(E) : E[j].qty \in Nat
  <2>1. DOMAIN E = 1 .. Len(E) /\ Len(E) \in Nat /\ \A j \in 1 .. Len(E) : E[j] \in Answers
    OBVIOUS
  <2> QED
    BY <2>1 DEF Answers
<1>2. f = [j \in 1 .. Len(E) |-> IF E[j] \in S THEN E[j].qty ELSE 0]
  BY <1>1
<1>3. f \in [1 .. Len(E) -> Int]
  BY <1>1, <1>2
<1>4. f[i] = E[i].qty /\ \A j \in 1 .. Len(E) : j # i => f[j] = 0
  BY <1>2
<1>5. Shares(E, S) = SumOf(f)
  BY DEF Shares
<1> HIDE DEF f
<1>6. f \in Seq(Int) /\ Len(f) = Len(E)
  BY <1>1, <1>3
<1>7. SumOf(f) = f[i]
  BY <1>4, <1>6, SumOfOne
<1> QED
  BY <1>4, <1>5, <1>7

\* What the batch holds of one quote.
LEMMA BatchOfKey ==
  ASSUME NEW v, NEW s, NEW ak, NEW q, NEW own, Safe(v, s, ak, q, own), NEW E, CancelsAll(E, v, own),
         NEW k \in Key
  PROVE  /\ v[k].qty = 0 => AcksOf(E, own, k) = {}
         /\ v[k].qty > 0 => \E e \in Answers :
              e.type = "Canceled" /\ e.ref = v[k].id /\ e.qty = v[k].qty /\ AcksOf(E, own, k) = {e}
         /\ \A r \in RefsOf(own, k) : Shares(E, Leaving(r)) = Kept(v[k], r)
         /\ \A i, j \in 1 .. Len(E) : own[E[i].ref] = k /\ own[E[j].ref] = k => i = j
<1>0. /\ E \in Seq(Answers) /\ \A i \in 1 .. Len(E) : E[i] \in Answers
      /\ \A i \in 1 .. Len(E) :
           /\ E[i].type = "Canceled" /\ E[i].ref \in DOMAIN own
           /\ \E j \in Key : Holds(v[j], E[i].ref) /\ E[i].qty = v[j].qty
      /\ \A i, j \in 1 .. Len(E) : E[i].ref = E[j].ref => i = j
      /\ v[k].qty > 0 => \E i \in 1 .. Len(E) : E[i].ref = v[k].id
  BY DEF CancelsAll
<1>1. \A j \in Key : v[j].qty \in Nat /\ \A r : Holds(v[j], r) => own[r] = j
  BY HeldFacts
<1>2. ASSUME NEW i \in 1 .. Len(E), own[E[i].ref] = k
      PROVE  Holds(v[k], E[i].ref) /\ E[i].qty = v[k].qty
  <2>1. PICK j \in Key : Holds(v[j], E[i].ref) /\ E[i].qty = v[j].qty
    BY <1>0
  <2>2. j = k
    BY <2>1, <1>1, <1>2
  <2> QED
    BY <2>1, <2>2
<1>3. ASSUME NEW i \in 1 .. Len(E), NEW j \in 1 .. Len(E), own[E[i].ref] = k, own[E[j].ref] = k
      PROVE  i = j
  <2>1. E[i].ref = v[k].id /\ E[j].ref = v[k].id
    BY <1>2, <1>3 DEF Holds
  <2> QED
    BY <2>1, <1>0
<1>4. CASE v[k].qty = 0
  <2>1. \A i \in 1 .. Len(E) : own[E[i].ref] # k
    BY <1>2, <1>4 DEF Holds
  <2>2. AcksOf(E, own, k) = {}
    BY <2>1 DEF AcksOf
  <2>3. \A r \in RefsOf(own, k) : Shares(E, Leaving(r)) = 0
    <3>1. \A r \in RefsOf(own, k) : \A i \in 1 .. Len(E) : E[i] \notin Leaving(r)
      BY <2>1 DEF Leaving, RefsOf
    <3> QED
      BY <3>1, <1>0, SharesNone
  <2> QED
    BY <2>2, <2>3, <1>3, <1>4 DEF Kept, Holds
<1>5. CASE v[k].qty > 0
  <2>1. PICK i \in 1 .. Len(E) : E[i].ref = v[k].id
    BY <1>0, <1>5
  <2>2. own[E[i].ref] = k
    BY <2>1, <1>1, <1>5 DEF Holds
  <2>3. E[i].type = "Canceled" /\ E[i].qty = v[k].qty /\ E[i] \in Answers
    BY <1>0, <1>2, <2>2
  <2>4. AcksOf(E, own, k) = {E[i]}
    BY <2>2, <2>3, <1>3 DEF AcksOf
  <2>5. ASSUME NEW r \in RefsOf(own, k) PROVE Shares(E, Leaving(r)) = Kept(v[k], r)
    <3>0. own[r] = k
      BY DEF RefsOf
    <3>1. CASE r = v[k].id
      <4>1. E[i] \in Leaving(r)
        BY <2>1, <2>3, <3>1 DEF Leaving
      <4>2. \A j \in 1 .. Len(E) : j # i => E[j] \notin Leaving(r)
        BY <2>2, <1>3, <3>0 DEF Leaving
      <4>3. Shares(E, Leaving(r)) = E[i].qty
        BY <4>1, <4>2, <1>0, SharesOnce
      <4> QED
        BY <4>3, <2>3, <3>1, <1>5 DEF Kept, Holds
    <3>2. CASE r # v[k].id
      <4>1. \A j \in 1 .. Len(E) : E[j] \notin Leaving(r)
        BY <2>1, <2>2, <1>3, <3>0, <3>2 DEF Leaving
      <4> QED
        BY <4>1, <3>2, <1>0, SharesNone DEF Kept, Holds
    <3> QED
      BY <3>1, <3>2
  <2> QED
    BY <2>3, <2>4, <2>5, <2>1, <1>3, <1>5
<1> QED
  BY <1>1, <1>4, <1>5

\* The session after the end of a day.
LEMMA SessionReset ==
  ASSUME NEW v, NEW s, NEW ak, NEW q, NEW own, Safe(v, s, ak, q, own), NEW E, CancelsAll(E, v, own),
         NEW u, Joined(u, ak, E, Answers), NEW v2, \A k \in Key : v2[k] = NoOrder
  PROVE  /\ Safe(v2, s, u, q, own)
         /\ Exact(v, s, ak, q, own) => Exact(v2, s, u, q, own)
<1>1. /\ SessionTyped(ak, q, own) /\ Ordered(ak, own) /\ \A k \in Key : KeyAt(v, s, ak, q, own, k)
      /\ ak \in Seq(Answers)
  BY SafeParts
<1>2. E \in Seq(Answers) /\ \A i \in 1 .. Len(E) : E[i].ref \in DOMAIN own /\ E[i] \in Answers
  BY DEF CancelsAll
<1>3. SessionTyped(u, q, own) /\ u \in Seq(Answers)
  <2>1. SessionTyped(u, q, own)
    <3>1. \A i \in 1 .. Len(E) : E[i].ref \in DOMAIN own
      BY <1>2
    <3> QED
      BY <1>1, <3>1, TypedAppended
  <2> QED
    BY <2>1 DEF SessionTyped
<1>4. ASSUME NEW k \in Key
      PROVE  /\ KeyAt(v2, s, u, q, own, k)
             /\ \A a \in AcksOf(ak, own, k), e \in AcksOf(E, own, k) : MayFollow(a, e)
             /\ ExactAt(v, s, ak, q, own, k) => ExactAt(v2, s, u, q, own, k)
             /\ \A i, j \in 1 .. Len(E) : own[E[i].ref] = k /\ own[E[j].ref] = k => i = j
  <2> DEFINE A == AcksOf(ak, own, k)
             B == AcksOf(E, own, k)
             A2 == AcksOf(u, own, k)
             Q == AsksOf(q, own, k)
             R == RefsOf(own, k)
             T == Due(ak, R)
             T2 == Due(u, R)
             c == v[k]
             sk == s[k]
  <2>1. KeyInv(c, sk, A, Q, R, T)
    BY <1>1 DEF KeyAt
  <2>2. A2 = A \cup B
    BY AcksAppended
  <2>3. /\ c.qty = 0 => B = {}
        /\ c.qty > 0 => \E e \in Answers :
             e.type = "Canceled" /\ e.ref = c.id /\ e.qty = c.qty /\ B = {e}
        /\ \A r \in R : Shares(E, Leaving(r)) = Kept(c, r)
        /\ \A i, j \in 1 .. Len(E) : own[E[i].ref] = k /\ own[E[j].ref] = k => i = j
    BY BatchOfKey
  <2>4. T2 \in [R -> Nat] /\ T \in [R -> Nat] /\ \A r \in R : T2[r] = T[r] + Kept(c, r)
    <3>1. T2 \in [R -> Nat] /\ T \in [R -> Nat]
      <4> HIDE DEF R
      <4> QED
        BY <1>1, <1>3, DueFacts
    <3>2. \A r \in R : T2[r] = T[r] + Shares(E, Leaving(r))
      <4> HIDE DEF R
      <4> QED
        BY DueAppended
    <3> HIDE DEF T2, T, R
    <3> QED
      BY <3>1, <3>2, <2>3
  <2>5. c.qty \in Nat /\ (c.qty = 0 => c = NoOrder)
    BY HeldFacts
  <2>6. v2[k] = NoOrder
    OBVIOUS
  <2> HIDE DEF A, B, A2, Q, R, T, T2, c, sk
  <2>7. /\ KeyInv(NoOrder, sk, A2, Q, R, T2)
        /\ \A a \in A, e \in B : MayFollow(a, e)
        /\ KeyExact(c, sk, A, Q, T) => KeyExact(NoOrder, sk, A2, Q, T2)
    <3>1. CASE c.qty = 0
      <4>1. A2 = A /\ c = NoOrder /\ B = {}
        BY <3>1, <2>2, <2>3, <2>5
      <4>2. T2 = T
        <5>1. \A r \in R : T2[r] = T[r]
          BY <2>4, <3>1 DEF Kept, Holds
        <5> QED
          BY <5>1, <2>4
      <4> QED
        BY <4>1, <4>2, <2>1
    <3>2. CASE c.qty > 0
      <4>1. PICK e \in Answers : e.type = "Canceled" /\ e.ref = c.id /\ e.qty = c.qty /\ B = {e}
        BY <3>2, <2>3
      <4> DEFINE m == CancelOrder(c.id)
      <4>2. m.type = "CancelOrder" /\ m.ref = c.id
        BY DEF CancelOrder
      <4> HIDE DEF m
      <4>3. CanceledBy(m, e, c, A, A2, Q, Q, R, T, T2)
        BY <3>2, <4>1, <4>2, <2>2, <2>4 DEF CanceledBy
      <4>4. /\ KeyInv(NoOrder, sk, A2, Q, R, T2)
            /\ \A a \in A : MayFollow(a, e)
            /\ KeyExact(c, sk, A, Q, T) => KeyExact(NoOrder, sk, A2, Q, T2)
        BY <2>1, <4>3, OrderCanceled
      <4> QED
        BY <4>1, <4>4
    <3> QED
      BY <3>1, <3>2, <2>5
  <2> QED
    BY <2>3, <2>6, <2>7 DEF A, B, A2, Q, R, T, T2, c, sk, KeyAt, ExactAt
<1>5. Ordered(E, own)
  <2>1. ASSUME NEW i \in 1 .. Len(E), NEW j \in 1 .. Len(E), i < j, own[E[i].ref] \in Key,
               own[E[i].ref] = own[E[j].ref]
        PROVE  MayFollow(E[i], E[j])
    <3>1. i = j
      BY <2>1, <1>4
    <3> QED
      BY <3>1, <2>1
  <2> QED
    BY <2>1 DEF Ordered
<1>6. Ordered(u, own)
  BY <1>1, <1>4, <1>5, OrderedAppended
<1>7. Safe(v2, s, u, q, own)
  BY <1>3, <1>4, <1>6 DEF Safe
<1> QED
  BY <1>4, <1>7 DEF Exact

\* The client orders are those of the quotes.
LEMMA ClientOrdersAre ==
  ASSUME IInv
  PROVE  /\ \A o \in ClientOrders : \E k \in Key :
              /\ owner[o.id] = k /\ o.id \in DOMAIN owner /\ o.id \in Nat /\ o.qty \in Nat
              /\ Holds(View[k], o.id) /\ o.qty = View[k].qty
              /\ \E i \in DOMAIN book[k[1]][k[2]] : Clients(book[k[1]][k[2]]) = {i} /\ o = book[k[1]][k[2]][i]
         /\ \A k \in Key : View[k].qty > 0 => \E o \in ClientOrders : o.id = View[k].id
         /\ \A o, p \in ClientOrders : owner[o.id] = owner[p.id] => o = p
<1>0. Safe(View, slots, acks, oe, owner) /\ BooksOK
  BY DEF IInv, SessionOK
<1>1. ASSUME NEW o \in ClientOrders
      PROVE  \E k \in Key :
               /\ owner[o.id] = k /\ o.id \in DOMAIN owner /\ o.id \in Nat /\ o.qty \in Nat
               /\ Holds(View[k], o.id) /\ o.qty = View[k].qty
               /\ \E i \in DOMAIN book[k[1]][k[2]] : Clients(book[k[1]][k[2]]) = {i} /\ o = book[k[1]][k[2]][i]
  <2>1. PICK s \in Syms, d \in Sides : \E i \in Clients(book[s][d]) : o = book[s][d][i]
    BY DEF ClientOrders
  <2> DEFINE rest == book[s][d]
             k == <<s, d>>
             c == View[k]
  <2>2. rest \in Seq(Orders) /\ Shows(rest, c) /\ k \in Key /\ k[1] = s /\ k[2] = d
    BY <1>0, BookParts
  <2>3. PICK i \in Clients(rest) : o = rest[i]
    BY <2>1
  <2>4. c.qty # 0 /\ c.qty \in Nat /\ Clients(rest) = {i} /\ c.id = rest[i].id /\ c.qty = rest[i].qty /\ i \in DOMAIN rest
    <3> HIDE DEF rest, c
    <3>1. /\ c.qty = 0 => Clients(rest) = {}
          /\ c.qty # 0 => \E j \in DOMAIN rest : Clients(rest) = {j} /\ c.id = rest[j].id /\ c.qty = rest[j].qty
          /\ c.qty \in Nat
      BY <2>2, ShowsClient
    <3> QED
      BY <3>1
  <2>5. Holds(c, o.id) /\ o.qty = c.qty
    BY <2>3, <2>4 DEF Holds
  <2>6. owner[o.id] = k /\ o.id \in DOMAIN owner /\ o.id \in Nat
    <3> HIDE DEF k
    <3> QED
      BY <1>0, <2>2, <2>5, HeldFacts
  <2>7. o.qty \in Nat
    BY <2>4, <2>5
  <2>8. \E j \in DOMAIN book[k[1]][k[2]] : Clients(book[k[1]][k[2]]) = {j} /\ o = book[k[1]][k[2]][j]
    BY <2>2, <2>3, <2>4
  <2> HIDE DEF k
  <2> QED
    BY <2>2, <2>5, <2>6, <2>7, <2>8
<1>2. ASSUME NEW k \in Key, View[k].qty > 0 PROVE \E o \in ClientOrders : o.id = View[k].id
  <2> DEFINE rest == book[k[1]][k[2]]
             c == View[k]
  <2>1. k[1] \in Syms /\ k[2] \in Sides /\ k = <<k[1], k[2]>>
    BY KeyParts
  <2>2. rest \in Seq(Orders) /\ Shows(rest, View[<<k[1], k[2]>>])
    BY <1>0, <2>1, BookParts
  <2>3. Shows(rest, c)
    BY <2>1, <2>2
  <2>4. PICK i \in DOMAIN rest : Clients(rest) = {i} /\ c.id = rest[i].id
    <3>1. c.qty # 0
      BY <1>2
    <3> HIDE DEF rest, c
    <3> QED
      BY <2>2, <2>3, <3>1, ShowsClient
  <2>5. rest[i] \in ClientOrders
    <3> DEFINE s == k[1]
               d == k[2]
    <3>1. i \in Clients(book[s][d])
      BY <2>4
    <3>2. rest[i] \in {book[s][d][j] : j \in Clients(book[s][d])}
      BY <3>1
    <3>3. s \in Syms /\ d \in Sides
      BY <2>1
    <3> DEFINE of(y, z) == {book[y][z][j] : j \in Clients(book[y][z])}
    <3>4. of(s, d) \in {of(y, z) : y \in Syms, z \in Sides}
      <4> HIDE DEF s, d, of
      <4> QED
        BY <3>3
    <3>5. rest[i] \in UNION {of(y, z) : y \in Syms, z \in Sides}
      <4>1. rest[i] \in of(s, d)
        BY <3>2
      <4> HIDE DEF of
      <4> QED
        BY <4>1, <3>4
    <3> QED
      BY <3>5 DEF ClientOrders
  <2> QED
    BY <2>4, <2>5
<1>3. ASSUME NEW o \in ClientOrders, NEW p \in ClientOrders, owner[o.id] = owner[p.id] PROVE o = p
  <2>1. PICK k \in Key : /\ owner[o.id] = k
                         /\ \E i \in DOMAIN book[k[1]][k[2]] : Clients(book[k[1]][k[2]]) = {i} /\ o = book[k[1]][k[2]][i]
    BY <1>1
  <2>2. PICK j \in Key : /\ owner[p.id] = j
                         /\ \E i \in DOMAIN book[j[1]][j[2]] : Clients(book[j[1]][j[2]]) = {i} /\ p = book[j[1]][j[2]][i]
    BY <1>1
  <2>3. k = j
    BY <1>3, <2>1, <2>2
  <2>4. PICK i1 \in DOMAIN book[k[1]][k[2]] : Clients(book[k[1]][k[2]]) = {i1} /\ o = book[k[1]][k[2]][i1]
    BY <2>1
  <2>5. PICK i2 \in DOMAIN book[k[1]][k[2]] : Clients(book[k[1]][k[2]]) = {i2} /\ p = book[k[1]][k[2]][i2]
    BY <2>2, <2>3
  <2>6. i1 = i2
    BY <2>4, <2>5
  <2> QED
    BY <2>4, <2>5, <2>6
<1> QED
  BY <1>1, <1>2, <1>3

\* There are finitely many, and a sequence of all of them has each.
LEMMA EveryOrderOnce ==
  ASSUME IInv, NEW orders \in SetToSeqs(ClientOrders)
  PROVE  /\ orders \in Seq(ClientOrders) /\ DOMAIN orders = 1 .. Len(orders)
         /\ \A i, j \in 1 .. Len(orders) : orders[i] = orders[j] => i = j
         /\ \A o \in ClientOrders : \E i \in 1 .. Len(orders) : orders[i] = o
<1> DEFINE S == ClientOrders
           n == Cardinality(S)
           f == [o \in S |-> owner[o.id]]
<1>1. IsFiniteSet(Key)
  <2>1. IsFiniteSet(Sides)
    <3>1. IsFiniteSet({"Buy"}) /\ {"Buy"} \cup {"Sell"} = Sides
      BY FS_Singleton DEF Sides
    <3>2. IsFiniteSet({"Buy"} \cup {"Sell"})
      BY <3>1, FS_AddElement
    <3> QED
      BY <3>1, <3>2
  <2> QED
    BY <2>1, SymsFinite, FS_Product DEF Key
<1>2. f \in Injection(S, Key)
  <2>1. \A o \in S : owner[o.id] \in Key
    BY ClientOrdersAre
  <2>2. \A o, p \in S : owner[o.id] = owner[p.id] => o = p
    BY ClientOrdersAre
  <2> HIDE DEF S
  <2>3. f \in [S -> Key] /\ DOMAIN f = S
    BY <2>1
  <2>4. \A o, p \in DOMAIN f : f[o] = f[p] => o = p
    BY <2>2, <2>3
  <2> HIDE DEF f
  <2> QED
    BY <2>3, <2>4 DEF Injection, IsInjective
<1>3. IsFiniteSet(S)
  <2> HIDE DEF S, f
  <2> QED
    BY <1>1, <1>2, FS_Injection
<1>4. n \in Nat
  BY <1>3, FS_CardinalityType
<1>5. orders \in [1 .. n -> S] /\ \A i, j \in 1 .. n : i # j => orders[i] # orders[j]
  BY DEF SetToSeqs
<1> HIDE DEF S
<1>6. orders \in Injection(1 .. n, S)
  BY <1>5 DEF Injection, IsInjective
<1>7. IsFiniteSet(1 .. n) /\ Cardinality(1 .. n) = n
  BY <1>4, FS_Interval
<1>8. orders \in Surjection(1 .. n, S)
  <2>1. Cardinality(1 .. n) = Cardinality(S)
    BY <1>7
  <2> HIDE DEF n
  <2> QED
    BY <1>3, <1>6, <2>1, FS_Injection
<1>9. \A o \in S : \E i \in 1 .. n : orders[i] = o
  BY <1>8 DEF Surjection
<1> HIDE DEF n
<1>10. orders \in Seq(S) /\ Len(orders) = n /\ DOMAIN orders = 1 .. n
  BY <1>4, <1>5
<1> QED
  BY <1>5, <1>9, <1>10 DEF S

\* The end of a day preserves the inductive invariant.
LEMMA EndOfLoopKeeps ==
  ASSUME IInv, EndOfLoop
  PROVE  IInv'
<1>1. PICK orders \in SetToSeqs(ClientOrders) :
        acks' = acks \o [j \in DOMAIN orders |-> Ack("Canceled", orders[j].id, orders[j].qty, 0)]
  BY DEF EndOfLoop, ResetDay
<1>2. /\ book' = [s \in Syms |-> [d \in Sides |-> << >>]] /\ resets' = resets + 1
      /\ UNCHANGED <<slots, position, nextRef, refs, unknown, tests, allocs, owner,
                     routes, traded, oe, tape, lost>>
  BY DEF EndOfLoop, ResetDay, omsVars
<1> DEFINE E == [j \in DOMAIN orders |-> Ack("Canceled", orders[j].id, orders[j].qty, 0)]
           n == Len(orders)
<1>3. Safe(View, slots, acks, oe, owner) /\ acks \in Seq(Answers)
  BY SafeParts DEF IInv, SessionOK
<1>4. /\ orders \in Seq(ClientOrders) /\ DOMAIN orders = 1 .. n /\ n \in Nat
      /\ \A i, j \in 1 .. n : orders[i] = orders[j] => i = j
      /\ \A o \in ClientOrders : \E i \in 1 .. n : orders[i] = o
      /\ \A i \in 1 .. n : orders[i] \in ClientOrders
  <2>1. /\ orders \in Seq(ClientOrders) /\ DOMAIN orders = 1 .. n
        /\ \A i, j \in 1 .. n : orders[i] = orders[j] => i = j
        /\ \A o \in ClientOrders : \E i \in 1 .. n : orders[i] = o
    BY EveryOrderOnce
  <2> QED
    BY <2>1
<1>5. \A o \in ClientOrders : \E k \in Key :
         /\ owner[o.id] = k /\ o.id \in DOMAIN owner /\ o.id \in Nat /\ o.qty \in Nat
         /\ Holds(View[k], o.id) /\ o.qty = View[k].qty
  BY ClientOrdersAre
<1>6. /\ \A k \in Key : View[k].qty > 0 => \E o \in ClientOrders : o.id = View[k].id
      /\ \A o, p \in ClientOrders : owner[o.id] = owner[p.id] => o = p
  BY ClientOrdersAre
<1> HIDE DEF n
<1>7. \A i \in 1 .. n : /\ E[i] \in Answers /\ E[i].type = "Canceled"
                        /\ E[i].ref = orders[i].id /\ E[i].qty = orders[i].qty
  <2>1. ASSUME NEW i \in 1 .. n
        PROVE  E[i] \in Answers /\ E[i].type = "Canceled" /\ E[i].ref = orders[i].id /\ E[i].qty = orders[i].qty
    <3>1. orders[i].id \in Nat /\ orders[i].qty \in Nat
      BY <1>4, <1>5
    <3>2. E[i] = Ack("Canceled", orders[i].id, orders[i].qty, 0)
      BY <1>4
    <3> HIDE DEF E
    <3> QED
      BY <3>1, <3>2 DEF Ack, Answers, AckTypes
  <2> QED
    BY <2>1
<1>8. E = [i \in 1 .. n |-> E[i]]
  BY <1>4
<1>9. acks' = acks \o E
  BY <1>1
<1> HIDE DEF E
<1>10. E \in Seq(Answers) /\ Len(E) = n
  <2>1. E \in [1 .. n -> Answers]
    BY <1>7, <1>8
  <2>2. n \in Nat
    BY <1>4
  <2> QED
    BY ONLY <2>1, <2>2
<1>11. Joined(acks', acks, E, Answers)
  BY <1>3, <1>9, <1>10 DEF Joined
<1>12. CancelsAll(E, View, owner)
  <2>1. ASSUME NEW i \in 1 .. n
        PROVE  /\ E[i].type = "Canceled" /\ E[i].ref \in DOMAIN owner
               /\ \E k \in Key : Holds(View[k], E[i].ref) /\ E[i].qty = View[k].qty
    BY <1>4, <1>5, <1>7
  <2>2. ASSUME NEW i \in 1 .. n, NEW j \in 1 .. n, E[i].ref = E[j].ref PROVE i = j
    <3>1. orders[i].id = orders[j].id
      BY <1>7, <2>2
    <3>2. orders[i] = orders[j]
      BY <3>1, <1>4, <1>6
    <3> QED
      BY <3>2, <1>4
  <2>3. ASSUME NEW k \in Key, View[k].qty > 0 PROVE \E i \in 1 .. n : E[i].ref = View[k].id
    <3>1. PICK o \in ClientOrders : o.id = View[k].id
      BY <1>6, <2>3
    <3>2. PICK i \in 1 .. n : orders[i] = o
      BY <1>4
    <3> QED
      BY <3>1, <3>2, <1>7
  <2> QED
    BY <2>1, <2>2, <2>3, <1>10 DEF CancelsAll
<1>13. BooksOK' /\ \A k \in Key : View'[k] = NoOrder
  <2> DEFINE v2 == [k \in Key |-> NoOrder]
  <2>1. book' \in [Syms -> [Sides -> Seq(Orders)]]
    <3>1. << >> \in Seq(Orders)
      OBVIOUS
    <3> QED
      BY <1>2, <3>1
  <2>2. ASSUME NEW s \in Syms, NEW d \in Sides PROVE Shows(book'[s][d], v2[<<s, d>>])
    <3>1. book'[s][d] = << >> /\ v2[<<s, d>>] = NoOrder
      BY <1>2, KeyParts
    <3> QED
      BY <3>1, ShowsEmpty
  <2>3. \A k \in Key : v2[k] = NoOrder
    OBVIOUS
  <2> HIDE DEF v2
  <2> QED
    BY <2>1, <2>2, <2>3, BooksShow
<1>14. /\ Safe(View', slots, acks', oe, owner)
       /\ Exact(View, slots, acks, oe, owner) => Exact(View', slots, acks', oe, owner)
  BY <1>3, <1>11, <1>12, <1>13, SessionReset
<1>15. Counts' /\ resets' # 0
  BY <1>2 DEF IInv, Counts
<1>16. SessionOK'
  BY <1>2, <1>14, <1>15 DEF SessionOK, IInv
<1>17. RefsOK' /\ HintsTrue' /\ SlotsTyped'
  BY <1>2 DEF IInv, RefsOK, RefTypes, RefsFresh, HintsTrue, SlotsTyped
<1>18. RoutesOK'
  <2>1. \A k \in Key, r \in Nat : ~Holds(View'[k], r)
    BY <1>13 DEF Holds, NoOrder
  <2> QED
    BY <2>1, <1>2, RoutesKept DEF IInv
<1>19. AccountsTyped' /\ (Balance => Balance')
  <2>1. \A k : Told(E, owner, k) = 0
    <3>1. \A i \in 1 .. Len(E) : E[i].type # "Executed"
      BY <1>7, <1>10
    <3> QED
      BY <3>1, <1>10, ToldNone
  <2>2. \A k : Told(acks', owner, k) = Told(acks, owner, k)
    <3>1. \A k : /\ Told(acks', owner, k) = Told(acks, owner, k) + Told(E, owner, k)
                 /\ Told(acks, owner, k) \in Nat
      BY <1>11, ToldAppended
    <3> QED
      BY <3>1, <2>1
  <2> QED
    BY <1>2, <2>2 DEF Balance, AccountsTyped, IInv
<1> QED
  BY <1>2, <1>13, <1>15, <1>16, <1>17, <1>18, <1>19 DEF IInv

\* Nothing is under way before the first quote.
LEMMA NothingYet ==
  ASSUME NEW own, DOMAIN own = {}, NEW k
  PROVE  /\ AcksOf(<< >>, own, k) = {} /\ AsksOf(<< >>, own, k) = {} /\ RefsOf(own, k) = {}
         /\ Due(<< >>, RefsOf(own, k)) \in [{} -> Nat]
<1>1. RefsOf(own, k) = {}
  BY DEF RefsOf
<1>2. << >> \in Seq(Answers)
  OBVIOUS
<1>3. Due(<< >>, RefsOf(own, k)) \in [RefsOf(own, k) -> Nat]
  BY <1>2, DueFacts
<1>4. AcksOf(<< >>, own, k) = {} /\ AsksOf(<< >>, own, k) = {}
  BY DEF AcksOf, AsksOf
<1> QED
  BY <1>1, <1>3, <1>4

\* A quote that nothing has been done about.
LEMMA KeyAtRest ==
  ASSUME NEW T \in [{} -> Nat]
  PROVE  /\ KeyInv(NoOrder, Settled, {}, {}, {}, T)
         /\ KeyExact(NoOrder, Settled, {}, {}, T)
         /\ KeyOrderly(Settled, {}, {})
<1>1. /\ Settled \in Slot /\ Settled.state = "Idle" /\ Settled.pendingRef = 0 /\ Settled.userRef = 0
      /\ NoOrder \in Views /\ NoOrder.qty = 0
  BY DEF Settled, Slot, States, NoOrder, Views
<1>2. KeyTyped(NoOrder, Settled, {}, {}, {}, T)
  BY <1>1 DEF KeyTyped, Good
<1>3. ViewOK(NoOrder, Settled, {}) /\ Covered(NoOrder, Settled, {}, T) /\ Apart({}, {})
  BY <1>1 DEF ViewOK, Covered, Apart
<1>4. KeyInv(NoOrder, Settled, {}, {}, {}, T)
  BY <1>2, <1>3 DEF KeyInv
<1>5. KeyExact(NoOrder, Settled, {}, {}, T)
  BY <1>1 DEF KeyExact, Holds
<1> QED
  BY <1>4, <1>5 DEF KeyOrderly

\* The initial state.
LEMMA InitIInv == ASSUME Init PROVE IInv
<1>0. /\ slots = [k \in Key |-> Settled] /\ position = [s \in Syms |-> 0]
      /\ nextRef = FirstRef
      /\ refs = [h \in 0 .. (RefRing - 1) |-> [ref |-> 0, key |-> <<FirstSym, "Buy">>]]
      /\ unknown = 0 /\ allocs = 0 /\ owner = [r \in {} |-> TestKey]
      /\ book = [s \in Syms |-> [d \in Sides |-> << >>]]
      /\ routes = [h \in 0 .. (VenueRing - 1) |-> [ref |-> 0, sym |-> FirstSym]]
      /\ acks = << >> /\ traded = [s \in Syms |-> 0]
      /\ oe = << >> /\ tape = 0 /\ resets = 0 /\ lost = 0
  BY DEF Init, OmsInit, VenueInit
<1>1. FirstSym \in Syms /\ <<FirstSym, "Buy">> \in Key /\ Settled \in Slot
  <2>1. FirstSym \in Syms
    BY SymsAssumption DEF FirstSym
  <2> QED
    BY <2>1, KeyParts DEF Settled, Slot, States, Sides
<1>2. DOMAIN owner = {}
  BY <1>0
<1>3. RefsOK
  <2>1. refs \in [0 .. (RefRing - 1) -> [ref : 0 .. (RefMod - 1), key : Key \cup {TestKey}]]
    BY <1>0, <1>1, RefModAssumption
  <2>2. nextRef \in 1 .. (RefMod - 1) /\ allocs \in 0 .. MaxAllocs
    BY <1>0, FirstRefAssumption, MaxAllocsAssumption, RefModAssumption
  <2>3. owner \in [DOMAIN owner -> Key \cup {TestKey}]
    BY <1>0
  <2>4. RefsFresh
    BY <1>0, <1>2, FirstRefAssumption, RefModAssumption DEF RefsFresh
  <2> QED
    BY <2>1, <2>2, <2>3, <2>4, <1>2 DEF RefsOK, RefTypes
<1>4. HintsTrue
  BY <1>0 DEF HintsTrue
<1>5. Counts /\ AccountsTyped /\ SlotsTyped
  BY <1>0, <1>1 DEF Counts, AccountsTyped, SlotsTyped
<1>6. /\ book \in [Syms -> [Sides -> Seq(Orders)]]
      /\ \A s \in Syms, d \in Sides : book[s][d] = << >>
  <2>1. << >> \in Seq(Orders)
    OBVIOUS
  <2> QED
    BY <2>1, <1>0
<1>7. \A k \in Key : View[k] = NoOrder /\ Shows(book[k[1]][k[2]], NoOrder)
  <2>1. ASSUME NEW k \in Key PROVE View[k] = NoOrder /\ Shows(book[k[1]][k[2]], NoOrder)
    <3>1. book[k[1]][k[2]] = << >>
      BY <1>6, KeyParts
    <3>2. << >> \in Seq(Orders)
      OBVIOUS
    <3>3. NoOrder = ClientAt(<< >>)
      BY <3>2, ShowsEmpty, ShowsView
    <3> QED
      BY <3>1, <3>3, ShowsEmpty DEF View
  <2> QED
    BY <2>1
<1>8. BooksOK
  BY <1>6, <1>7 DEF BooksOK
<1>9. RoutesOK
  <2>1. routes \in [0 .. (VenueRing - 1) -> [ref : Nat, sym : Syms]]
    BY <1>0, <1>1
  <2>2. \A k \in Key, r \in Nat : ~Holds(View[k], r)
    BY <1>7 DEF Holds, NoOrder
  <2> QED
    BY <2>1, <2>2 DEF RoutesOK
<1>10. ASSUME NEW k \in Key
       PROVE  /\ KeyAt(View, slots, acks, oe, owner, k) /\ ExactAt(View, slots, acks, oe, owner, k)
              /\ KeyOrderly(slots[k], AcksOf(acks, owner, k), AsksOf(oe, owner, k))
  <2> DEFINE T == Due(acks, RefsOf(owner, k))
  <2>1. /\ AcksOf(acks, owner, k) = {} /\ AsksOf(oe, owner, k) = {} /\ RefsOf(owner, k) = {}
        /\ T \in [{} -> Nat]
    BY <1>0, <1>2, NothingYet
  <2>2. View[k] = NoOrder /\ slots[k] = Settled
    BY <1>0, <1>7
  <2> HIDE DEF T
  <2>3. /\ KeyInv(NoOrder, Settled, {}, {}, {}, T) /\ KeyExact(NoOrder, Settled, {}, {}, T)
        /\ KeyOrderly(Settled, {}, {})
    BY <2>1, KeyAtRest
  <2> QED
    BY <2>1, <2>2, <2>3 DEF KeyAt, ExactAt, T
<1>11. SessionTyped(acks, oe, owner) /\ Ordered(acks, owner)
  <2>1. acks \in Seq(Answers) /\ oe \in Seq(Asks) /\ Len(acks) = 0 /\ Len(oe) = 0
    BY <1>0
  <2> QED
    BY <2>1, <1>2 DEF SessionTyped, Ordered
<1>12. Safe(View, slots, acks, oe, owner) /\ Exact(View, slots, acks, oe, owner)
  BY <1>10, <1>11 DEF Safe, Exact
<1>13. Orderly(slots, acks, oe, owner)
  <2>1. Len(acks) = 0 /\ Len(oe) = 0
    BY <1>0
  <2> QED
    BY <2>1, <1>10 DEF Orderly, OrderlyAt
<1>14. Balance
  <2>1. acks \in Seq(Answers) /\ Len(acks) = 0
    BY <1>0
  <2>2. ASSUME NEW k PROVE Told(acks, owner, k) = 0
    <3>1. \A i \in 1 .. Len(acks) : acks[i].type = "Executed" => owner[acks[i].ref] # k
      BY <2>1
    <3> QED
      BY <2>1, <3>1, ToldNone
  <2>3. \A s \in Syms : position[s] = 0 /\ traded[s] = 0
    BY <1>0
  <2>4. ASSUME NEW s \in Syms
        PROVE  position[s] = traded[s] - Told(acks, owner, <<s, "Buy">>) + Told(acks, owner, <<s, "Sell">>)
    <3> DEFINE b == Told(acks, owner, <<s, "Buy">>)
               a == Told(acks, owner, <<s, "Sell">>)
    <3>1. a = 0 /\ b = 0
      BY <2>2
    <3> HIDE DEF a, b
    <3>2. position[s] = traded[s] - b + a
      BY <3>1, <2>3
    <3> QED
      BY <3>2 DEF a, b
  <2> QED
    BY <2>4 DEF Balance
<1> QED
  BY <1>3, <1>4, <1>5, <1>8, <1>9, <1>12, <1>13, <1>14 DEF IInv, SessionOK

\* A step that changes nothing.
LEMMA StutterKeeps == ASSUME IInv, UNCHANGED vars PROVE IInv'
<1>1. /\ UNCHANGED <<slots, position, nextRef, refs, unknown, allocs, owner>>
      /\ UNCHANGED <<book, routes, acks, traded, oe, tape, resets, lost>>
  BY DEF vars, omsVars, venueVars, entryVars
<1>2. View' = View
  BY <1>1 DEF View
<1>3. RefsOK' /\ HintsTrue' /\ Counts' /\ AccountsTyped' /\ SlotsTyped'
  BY <1>1 DEF IInv, RefsOK, RefTypes, RefsFresh, HintsTrue, Counts, AccountsTyped, SlotsTyped
<1>4. BooksOK' /\ RoutesOK'
  BY <1>1, <1>2 DEF IInv, BooksOK, RoutesOK
<1>5. SessionOK' /\ (lost' = 0 => Balance')
  BY <1>1, <1>2 DEF IInv, SessionOK, Balance
<1> QED
  BY <1>3, <1>4, <1>5 DEF IInv

\* Every step preserves the inductive invariant.
LEMMA NextIInv == ASSUME IInv, [Next]_vars PROVE IInv'
<1>1. CASE Next
  BY <1>1, QuoteKeeps, TestOrderKeeps, PollOrderEntryKeeps, ApplyAckKeeps, LoseAckKeeps, MirrorKeeps,
     EndOfLoopKeeps DEF Next
<1>2. CASE UNCHANGED vars
  BY <1>2, StutterKeeps
<1> QED
  BY <1>1, <1>2

\* The inductive invariant of the order-entry session.
THEOREM OrderEntryInvariant == Spec => []IInv
<1>1. Init => IInv
  BY InitIInv
<1>2. IInv /\ [Next]_vars => IInv'
  BY NextIInv
<1> QED
  BY <1>1, <1>2, PTL DEF Spec

\* The slot that sent an order knows its reference.
LEMMA IInvNoOrphans == ASSUME IInv PROVE NoOrphans
<1>0. Safe(View, slots, acks, oe, owner)
  BY DEF IInv, SessionOK
<1>1. ASSUME NEW o \in ClientOrders
      PROVE  \E k \in Key : o.id \in {slots[k].userRef, slots[k].pendingRef} /\ owner[o.id] = k
  <2>1. PICK k \in Key : owner[o.id] = k /\ Holds(View[k], o.id)
    BY ClientOrdersAre
  <2>2. o.id = slots[k].userRef \/ o.id = slots[k].pendingRef
    BY <1>0, <2>1, HeldFacts
  <2> QED
    BY <2>1, <2>2
<1> QED
  BY <1>1 DEF NoOrphans

\* A side shows at most one order.
LEMMA IInvOneOrder == ASSUME IInv PROVE OneOrderPerSide
<1>1. ASSUME NEW s \in Syms, NEW d \in Sides PROVE Cardinality(Clients(book[s][d])) <= 1
  <2> DEFINE rest == book[s][d]
             c == View[<<s, d>>]
  <2>1. rest \in Seq(Orders) /\ Shows(rest, c)
    BY BookParts DEF IInv
  <2> HIDE DEF rest, c
  <2>2. Clients(rest) = {} \/ \E i \in DOMAIN rest : Clients(rest) = {i}
    BY <2>1, ShowsClient
  <2>3. Cardinality({}) = 0 /\ \A x : Cardinality({x}) = 1
    BY FS_EmptySet, FS_Singleton
  <2>4. Cardinality(Clients(rest)) = 0 \/ Cardinality(Clients(rest)) = 1
    BY <2>2, <2>3
  <2>5. Cardinality(Clients(rest)) <= 1
    BY <2>4
  <2> QED
    BY <2>5 DEF rest
<1> QED
  BY <1>1 DEF OneOrderPerSide

\* The ring's hint is right, or the scan finds the one venue that holds the order.
LEMMA IInvRoutes == ASSUME IInv PROVE RoutesFindOrders
<1>0. Safe(View, slots, acks, oe, owner) /\ BooksOK /\ RoutesOK
  BY DEF IInv, SessionOK
<1>1. ASSUME NEW s \in Syms, NEW d \in Sides, NEW i \in Clients(book[s][d])
      PROVE  VenueForUserRef(book[s][d][i].id) = s
  <2> DEFINE rest == book[s][d]
             k == <<s, d>>
             c == View[k]
             ref == rest[i].id
  <2>1. rest \in Seq(Orders) /\ Shows(rest, c) /\ k \in Key /\ k[1] = s /\ k[2] = d
    BY <1>0, BookParts
  <2>2. Holds(c, ref)
    <3>1. i \in Clients(rest)
      BY <1>1
    <3> HIDE DEF rest, c
    <3>2. /\ c.qty = 0 => Clients(rest) = {}
          /\ c.qty # 0 => \E j \in DOMAIN rest : Clients(rest) = {j} /\ c.id = rest[j].id
          /\ c.qty \in Nat
      BY <2>1, ShowsClient
    <3> QED
      BY <3>1, <3>2 DEF Holds
  <2> HIDE DEF rest, k, ref
  <2>3. owner[ref] = k /\ ref \in Nat
    BY <1>0, <2>1, <2>2, HeldFacts
  <2> DEFINE hint == routes[ref % VenueRing]
             holds == {y \in Syms : SideOf(y, ref) # {}}
  <2>4. CASE hint.ref = ref
    <3>1. hint.sym = s
      BY <2>1, <2>2, <2>3, <2>4, <1>0 DEF RoutesOK
    <3> QED
      BY <2>4, <3>1 DEF VenueForUserRef, ref, rest
  <2>5. CASE hint.ref # ref
    <3>1. d \in SideOf(s, ref)
      BY <1>0, <2>2, SideShows DEF k
    <3>2. ASSUME NEW y \in Syms, SideOf(y, ref) # {} PROVE y = s
      <4>1. PICK e \in Sides : Holds(View[<<y, e>>], ref)
        BY <1>0, <3>2, SideShows
      <4> DEFINE k2 == <<y, e>>
      <4>2. k2 \in Key /\ k2[1] = y
        BY KeyParts
      <4>3. Holds(View[k2], ref)
        BY <4>1
      <4> HIDE DEF k2
      <4>4. owner[ref] = k2
        BY <1>0, <4>2, <4>3, HeldFacts
      <4> QED
        BY <4>2, <4>4, <2>1, <2>3
    <3>3. holds = {s}
      BY <3>1, <3>2
    <3>4. (CHOOSE y \in holds : TRUE) = s
      <4> HIDE DEF holds
      <4> QED
        BY <3>3
    <3>5. VenueForUserRef(ref) = IF holds # {} THEN CHOOSE y \in holds : TRUE ELSE FirstSym
      BY <2>5 DEF VenueForUserRef
    <3> HIDE DEF holds
    <3>6. VenueForUserRef(ref) = s
      BY <3>3, <3>4, <3>5
    <3> QED
      BY <3>6 DEF ref, rest
  <2> QED
    BY <2>4, <2>5
<1> QED
  BY <1>1 DEF RoutesFindOrders

\* The fills on their way, bought less sold, are those of the two sides.
LEMMA ToldIsNet ==
  ASSUME NEW ak \in Seq(Answers), NEW own, NEW s \in Syms,
         \A i \in 1 .. Len(ak) : own[ak[i].ref] \in Key \cup {TestKey}
  PROVE  SumOf([i \in DOMAIN ak |->
                  IF ak[i].type = "Executed" /\ own[ak[i].ref][1] = s
                  THEN Signed(own[ak[i].ref][2], ak[i].qty) ELSE 0]) =
         Told(ak, own, <<s, "Buy">>) - Told(ak, own, <<s, "Sell">>)
<1> DEFINE h == [i \in DOMAIN ak |->
                   IF ak[i].type = "Executed" /\ own[ak[i].ref][1] = s
                   THEN Signed(own[ak[i].ref][2], ak[i].qty) ELSE 0]
           B == ToldOf(own, <<s, "Buy">>)
           S == ToldOf(own, <<s, "Sell">>)
           f == Terms(ak, B)
           g == Terms(ak, S)
<1>1. DOMAIN ak = 1 .. Len(ak) /\ Len(ak) \in Nat
  OBVIOUS
<1>2. /\ Shares(ak, B) = SumOf(f) /\ f \in Seq(Int) /\ Len(f) = Len(ak)
      /\ \A i \in 1 .. Len(ak) : ak[i] \in Answers /\ ak[i].qty \in Nat /\ f[i] = (IF ak[i] \in B THEN ak[i].qty ELSE 0)
  BY TermsFacts
<1>3. /\ Shares(ak, S) = SumOf(g) /\ g \in Seq(Int) /\ Len(g) = Len(ak)
      /\ \A i \in 1 .. Len(ak) : g[i] = (IF ak[i] \in S THEN ak[i].qty ELSE 0)
  BY TermsFacts
<1>4. \A i \in 1 .. Len(ak) : /\ ak[i] \in B <=> ak[i].type = "Executed" /\ own[ak[i].ref] = <<s, "Buy">>
                              /\ ak[i] \in S <=> ak[i].type = "Executed" /\ own[ak[i].ref] = <<s, "Sell">>
  BY <1>2 DEF ToldOf
<1> HIDE DEF B, S, f, g
<1>5. ASSUME NEW i \in 1 .. Len(ak)
      PROVE  h[i] \in Int /\ h[i] + g[i] = f[i]
  <2> DEFINE k == own[ak[i].ref]
             q == ak[i].qty
  <2>1. h[i] = IF ak[i].type = "Executed" /\ k[1] = s THEN Signed(k[2], q) ELSE 0
    BY <1>1
  <2>2. q \in Nat /\ k \in Key \cup {TestKey}
    BY <1>2
  <2>3. /\ f[i] = IF ak[i].type = "Executed" /\ k = <<s, "Buy">> THEN q ELSE 0
        /\ g[i] = IF ak[i].type = "Executed" /\ k = <<s, "Sell">> THEN q ELSE 0
    BY <1>2, <1>3, <1>4
  <2> HIDE DEF h, k, q
  <2>4. k[1] = s => k = <<s, "Buy">> \/ k = <<s, "Sell">>
    BY <2>2, KeyParts, SymsAssumption DEF Sides
  <2>5. CASE ak[i].type = "Executed" /\ k = <<s, "Buy">>
    <3>1. k[1] = s /\ k[2] = "Buy" /\ k # <<s, "Sell">>
      BY <2>5
    <3> QED
      BY <3>1, <2>1, <2>2, <2>3, <2>5 DEF Signed
  <2>6. CASE ak[i].type = "Executed" /\ k = <<s, "Sell">>
    <3>1. k[1] = s /\ k[2] = "Sell" /\ k # <<s, "Buy">>
      BY <2>6
    <3> QED
      BY <3>1, <2>1, <2>2, <2>3, <2>6 DEF Signed
  <2>7. CASE ~(ak[i].type = "Executed" /\ k = <<s, "Buy">>) /\ ~(ak[i].type = "Executed" /\ k = <<s, "Sell">>)
    <3>1. h[i] = 0 /\ f[i] = 0 /\ g[i] = 0
      BY <2>1, <2>3, <2>4, <2>7
    <3> QED
      BY <3>1
  <2> QED
    BY <2>5, <2>6, <2>7
<1>6. h \in Seq(Int) /\ Len(h) = Len(ak)
  <2>1. DOMAIN h = 1 .. Len(ak)
    BY <1>1
  <2>2. h = [i \in 1 .. Len(ak) |-> h[i]]
    BY <1>1
  <2> HIDE DEF h
  <2>3. h \in [1 .. Len(ak) -> Int]
    BY <1>5, <2>2
  <2> QED
    BY <2>1, <2>3, <1>1
<1> HIDE DEF h
<1>7. SumOf(f) = SumOf(h) + SumOf(g)
  <2>1. \A i \in 1 .. Len(f) : f[i] = h[i] + g[i]
    BY <1>2, <1>5
  <2> QED
    BY <2>1, <1>2, <1>3, <1>6, SumOfPlus
<1>8. SumOf(h) \in Int /\ SumOf(g) \in Int
  BY <1>3, <1>6, SumsFacts
<1>9. SumOf(h) = SumOf(f) - SumOf(g)
  BY <1>7, <1>8
<1>10. SumOf(h) = Told(ak, own, <<s, "Buy">>) - Told(ak, own, <<s, "Sell">>)
  BY <1>2, <1>3, <1>9 DEF Told, B, S
<1> QED
  BY <1>10 DEF h

\* The account agrees with the venues but for the fills on their way.
LEMMA IInvPosition == ASSUME IInv PROVE PositionExact
<1>1. ASSUME lost = 0, NEW s \in Syms
      PROVE  position[s] = traded[s] -
               SumOf([i \in DOMAIN acks |->
                        IF acks[i].type = "Executed" /\ owner[acks[i].ref][1] = s
                        THEN Signed(owner[acks[i].ref][2], acks[i].qty) ELSE 0])
  <2> DEFINE b == Told(acks, owner, <<s, "Buy">>)
             a == Told(acks, owner, <<s, "Sell">>)
             h == SumOf([i \in DOMAIN acks |->
                           IF acks[i].type = "Executed" /\ owner[acks[i].ref][1] = s
                           THEN Signed(owner[acks[i].ref][2], acks[i].qty) ELSE 0])
  <2>1. acks \in Seq(Answers) /\ \A i \in 1 .. Len(acks) : owner[acks[i].ref] \in Key \cup {TestKey}
    BY SafeParts DEF IInv, SessionOK, SessionTyped
  <2>2. h = b - a
    BY <2>1, ToldIsNet
  <2>3. position[s] = traded[s] - b + a /\ traded[s] \in Int
    BY <1>1 DEF IInv, Balance, AccountsTyped
  <2>4. a \in Nat /\ b \in Nat
    BY <2>1, SharesNat DEF Told
  <2> HIDE DEF a, b, h
  <2>5. position[s] = traded[s] - h
    BY <2>2, <2>3, <2>4
  <2> QED
    BY <2>5 DEF h
<1> QED
  BY <1>1 DEF PositionExact

\* A quote that is exact when nothing is under way.
LEMMA QuietKey ==
  ASSUME NEW c, NEW s, NEW R, NEW T, KeyInv(c, s, {}, {}, R, T), KeyExact(c, s, {}, {}, T),
         \A r \in R : T[r] = 0
  PROVE  \/ s = Settled /\ c = NoOrder
         \/ s.state = "Live" /\ c.qty > 0 /\ c.id = s.userRef /\ c.price = s.price /\ c.qty = s.leaves
<1>1. /\ c \in Views /\ Good(s, R) /\ R \subseteq Nat \ {0} /\ s \in Slot
      /\ ViewOK(c, s, R)
  BY DEF KeyInv, KeyTyped, Good
<1>2. c.qty \in Nat /\ s.leaves \in Nat /\ s.state \in States
  BY <1>1 DEF Views, Slot
<1>3. CASE s.state = "Idle"
  <2>1. s = Settled /\ s.userRef = 0 /\ s.pendingRef = 0
    BY <1>1, <1>3 DEF Good, Settled
  <2>2. ~(c.qty > 0)
    BY <2>1, <1>1 DEF ViewOK
  <2> QED
    BY <2>1, <2>2, <1>1, <1>2 DEF ViewOK
<1>4. CASE s.state # "Idle"
  <2>1. s.state = "Live"
    BY <1>2, <1>4 DEF KeyExact, HasAsk, HasAck, States
  <2>2. s.userRef \in R /\ s.leaves > 0
    BY <2>1, <1>1 DEF Good
  <2>3. s.leaves = T[s.userRef] + Kept(c, s.userRef)
    BY <1>4 DEF KeyExact, HasAsk, HasAck
  <2>4. Holds(c, s.userRef) /\ c.qty = s.leaves
    BY <2>2, <2>3, <1>2 DEF Kept
  <2> QED
    BY <2>1, <2>4, <1>1 DEF Holds, ViewOK
<1> QED
  BY <1>3, <1>4

\* What the venues hold of a quote.
LEMMA HeldIs ==
  ASSUME IInv, NEW k \in Key
  PROVE  /\ View[k].qty = 0 => Held(k) = {}
         /\ View[k].qty # 0 => \E o \in ClientOrders :
              Held(k) = {o} /\ o.id = View[k].id /\ o.price = View[k].price /\ o.qty = View[k].qty
<1>0. Safe(View, slots, acks, oe, owner) /\ BooksOK
  BY DEF IInv, SessionOK
<1> DEFINE rest == book[k[1]][k[2]]
           c == View[k]
<1>1. k[1] \in Syms /\ k[2] \in Sides /\ rest \in Seq(Orders) /\ Shows(rest, c)
  BY <1>0, KeyParts, BookParts DEF BooksOK
<1>2. ASSUME NEW o \in Held(k)
      PROVE  /\ o \in ClientOrders /\ c.qty # 0
             /\ \E i \in DOMAIN rest : Clients(rest) = {i} /\ o = rest[i]
  <2>1. o \in ClientOrders /\ owner[o.id] = k
    BY DEF Held
  <2>2. PICK j \in Key :
          /\ owner[o.id] = j /\ Holds(View[j], o.id)
          /\ \E i \in DOMAIN book[j[1]][j[2]] : Clients(book[j[1]][j[2]]) = {i} /\ o = book[j[1]][j[2]][i]
    BY <2>1, ClientOrdersAre
  <2>3. j = k
    BY <2>1, <2>2
  <2> QED
    BY <2>1, <2>2, <2>3 DEF Holds
<1>3. CASE c.qty = 0
  BY <1>2, <1>3
<1>4. CASE c.qty # 0
  <2>1. PICK i \in DOMAIN rest :
          Clients(rest) = {i} /\ c.id = rest[i].id /\ c.qty = rest[i].qty /\ c.price = rest[i].price
    <3> HIDE DEF rest, c
    <3> QED
      BY <1>1, <1>4, ShowsClient
  <2>2. c.qty > 0
    BY <1>0, <1>4, HeldFacts
  <2>3. PICK o \in ClientOrders : o.id = c.id
    BY <2>2, ClientOrdersAre
  <2>4. Holds(c, o.id)
    BY <2>2, <2>3 DEF Holds
  <2>5. owner[o.id] = k /\ o.id \in DOMAIN owner
    BY <1>0, <2>4, HeldFacts
  <2>6. o \in Held(k)
    BY <2>5 DEF Held
  <2>7. o = rest[i] /\ \A p \in Held(k) : p = rest[i]
    BY <2>1, <2>6, <1>2
  <2>8. Held(k) = {o}
    BY <2>6, <2>7
  <2>9. o.id = c.id /\ o.price = c.price /\ o.qty = c.qty
    BY <2>1, <2>7
  <2> QED
    BY <1>4, <2>8, <2>9
<1> QED
  BY <1>3, <1>4

\* With nothing under way and nothing lost the slots and the venues agree.
LEMMA IInvQuiet == ASSUME IInv PROVE QuietAgreement
<1>1. ASSUME lost = 0, oe = << >>, acks = << >>, NEW k \in Key
      PROVE  \/ slots[k] = Settled /\ Held(k) = {}
             \/ /\ slots[k].state = "Live"
                /\ {[ref |-> o.id, price |-> o.price, leaves |-> o.qty] : o \in Held(k)} =
                   {[ref |-> slots[k].userRef, price |-> slots[k].price, leaves |-> slots[k].leaves]}
  <2> DEFINE c == View[k]
             s == slots[k]
             R == RefsOf(owner, k)
             T == Due(acks, R)
  <2>1. Safe(View, slots, acks, oe, owner) /\ Exact(View, slots, acks, oe, owner)
    BY <1>1 DEF IInv, SessionOK
  <2>2. AcksOf(acks, owner, k) = {} /\ AsksOf(oe, owner, k) = {}
    BY <1>1 DEF AcksOf, AsksOf
  <2>3. KeyInv(c, s, {}, {}, R, T) /\ KeyExact(c, s, {}, {}, T)
    BY <2>1, <2>2 DEF Safe, Exact, KeyAt, ExactAt
  <2>4. \A r \in R : T[r] = 0
    <3>1. acks \in Seq(Answers) /\ Len(acks) = 0
      BY <1>1
    <3>2. \A r \in R : \A i \in 1 .. Len(acks) : acks[i].ref # r
      BY <3>1
    <3> HIDE DEF R
    <3> QED
      BY <3>1, <3>2, DueFacts
  <2> HIDE DEF c, s, R, T
  <2>5. \/ s = Settled /\ c = NoOrder
        \/ s.state = "Live" /\ c.qty > 0 /\ c.id = s.userRef /\ c.price = s.price /\ c.qty = s.leaves
    BY <2>3, <2>4, QuietKey
  <2>6. CASE s = Settled /\ c = NoOrder
    <3>1. c.qty = 0
      BY <2>6 DEF NoOrder
    <3> QED
      BY <3>1, <2>6, HeldIs DEF c, s
  <2>7. CASE s.state = "Live" /\ c.qty > 0 /\ c.id = s.userRef /\ c.price = s.price /\ c.qty = s.leaves
    <3>1. c.qty # 0
      BY <2>7
    <3>2. PICK o \in ClientOrders : Held(k) = {o} /\ o.id = c.id /\ o.price = c.price /\ o.qty = c.qty
      BY <3>1, HeldIs DEF c
    <3>3. {[ref |-> p.id, price |-> p.price, leaves |-> p.qty] : p \in Held(k)} =
          {[ref |-> o.id, price |-> o.price, leaves |-> o.qty]}
      BY <3>2
    <3>4. [ref |-> o.id, price |-> o.price, leaves |-> o.qty] =
          [ref |-> s.userRef, price |-> s.price, leaves |-> s.leaves]
      BY <3>2, <2>7
    <3> QED
      BY <3>3, <3>4, <2>7 DEF s
  <2> QED
    BY <2>5, <2>6, <2>7
<1> QED
  BY <1>1 DEF QuietAgreement

-----------------------------------------------------------------------------
\* A quote is pending exactly while its request or the answer is under way.
LEMMA PendingKey ==
  ASSUME NEW c, NEW s, NEW A, NEW Q, NEW R, NEW T, KeyInv(c, s, A, Q, R, T), KeyExact(c, s, A, Q, T),
         KeyOrderly(s, A, Q)
  PROVE  /\ Pending(s) <=> Q # {} \/ \E a \in A : a.type # "Executed"
         /\ Q = {} \/ \A a \in A : a.type = "Executed"
<1>1. s \in Slot /\ A \subseteq Answers /\ Q \subseteq Asks /\ Good(s, R)
  BY DEF KeyInv, KeyTyped, Good
<1>2. s.state \in States
  BY <1>1 DEF Slot
<1>3. ASSUME Pending(s) PROVE Q # {} \/ \E a \in A : a.type # "Executed"
  <2>1. s.state \in {"PendingNew", "PendingReplace", "PendingCancel"}
    BY <1>2, <1>3 DEF Pending, States
  <2> QED
    BY <2>1 DEF KeyExact, HasAsk, HasAck
<1>4. ASSUME NEW m \in Q PROVE Pending(s)
  <2>1. m.type \in {"EnterOrder", "CancelOrder", "ReplaceOrder"}
    BY <1>1 DEF Asks
  <2>2. m.type = "EnterOrder" => s.state = "PendingNew"
    BY DEF KeyInv, AskOK
  <2> QED
    BY <2>1, <2>2 DEF KeyOrderly, Pending
<1>5. ASSUME NEW a \in A, a.type # "Executed" PROVE Pending(s)
  <2>1. a.type \in AckTypes
    BY <1>1 DEF Answers
  <2>2. /\ a.type = "Accepted" => s.state = "PendingNew"
        /\ a.type = "Replaced" => s.state = "PendingReplace"
    BY DEF KeyInv, AckOK
  <2>3. a.type \in {"Accepted", "Replaced", "Rejected", "Canceled", "CancelReject"}
    BY <2>1, <1>5 DEF AckTypes
  <2> QED
    BY <2>2, <2>3 DEF KeyOrderly, Pending
<1> QED
  BY <1>3, <1>4, <1>5 DEF KeyOrderly

\* A set of which any two members are equal.
LEMMA AtMostOneMember ==
  ASSUME NEW S, \A x, y \in S : x = y
  PROVE  Cardinality(S) = IF S = {} THEN 0 ELSE 1
<1>1. CASE S = {}
  BY <1>1, FS_EmptySet
<1>2. CASE S # {}
  <2>1. PICK x : x \in S
    BY <1>2
  <2>2. S = {x}
    BY <2>1
  <2> QED
    BY <2>2, <1>2, FS_Singleton
<1> QED
  BY <1>1, <1>2

\* Without a loss or an end of day a quote has at most one request outstanding.
LEMMA IInvOneRequest == ASSUME IInv PROVE OneRequestOutstanding
<1> DEFINE asked(k) == {i \in DOMAIN oe : owner[oe[i].ref] = k}
           answered(k) == {i \in DOMAIN acks : acks[i].type # "Executed" /\ owner[acks[i].ref] = k}
<1>1. ASSUME lost = 0, resets = 0, NEW k \in Key
      PROVE  Cardinality(asked(k)) + Cardinality(answered(k)) = IF Pending(slots[k]) THEN 1 ELSE 0
  <2> DEFINE A == AcksOf(acks, owner, k)
             Q == AsksOf(oe, owner, k)
  <2>1. /\ Safe(View, slots, acks, oe, owner) /\ Exact(View, slots, acks, oe, owner)
        /\ Orderly(slots, acks, oe, owner)
    BY <1>1 DEF IInv, SessionOK
  <2>2. /\ DOMAIN acks = 1 .. Len(acks) /\ \A i \in 1 .. Len(acks) : acks[i] \in Answers
        /\ DOMAIN oe = 1 .. Len(oe) /\ \A i \in 1 .. Len(oe) : oe[i] \in Asks
    BY <2>1, SafeParts
  <2>3. /\ Pending(slots[k]) <=> Q # {} \/ \E a \in A : a.type # "Executed"
        /\ Q = {} \/ \A a \in A : a.type = "Executed"
    <3> DEFINE R == RefsOf(owner, k)
               T == Due(acks, R)
               c == View[k]
               s == slots[k]
    <3>1. KeyInv(c, s, A, Q, R, T) /\ KeyExact(c, s, A, Q, T) /\ KeyOrderly(s, A, Q)
      BY <2>1 DEF Safe, Exact, Orderly, KeyAt, ExactAt, OrderlyAt
    <3> HIDE DEF R, T, c, s, A, Q
    <3>2. /\ Pending(s) <=> Q # {} \/ \E a \in A : a.type # "Executed"
          /\ Q = {} \/ \A a \in A : a.type = "Executed"
      BY <3>1, PendingKey
    <3> QED
      BY <3>2 DEF s
  <2>4. (\A i, j \in asked(k) : i = j) /\ (\A i, j \in answered(k) : i = j)
    BY <2>1, <2>2 DEF Orderly, OrderlyAt
  <2>5. asked(k) # {} <=> Q # {}
    BY <2>2 DEF AsksOf
  <2>6. answered(k) # {} <=> \E a \in A : a.type # "Executed"
    BY <2>2 DEF AcksOf
  <2> DEFINE X == asked(k)
             Y == answered(k)
  <2> HIDE DEF asked, answered, A, Q
  <2>7. Cardinality(X) = (IF X = {} THEN 0 ELSE 1) /\ Cardinality(Y) = (IF Y = {} THEN 0 ELSE 1)
    <3>1. (\A i, j \in X : i = j) /\ (\A i, j \in Y : i = j)
      BY <2>4
    <3> HIDE DEF X, Y
    <3> QED
      BY <3>1, AtMostOneMember
  <2>8. (X # {} <=> Q # {}) /\ (Y # {} <=> \E a \in A : a.type # "Executed")
    BY <2>5, <2>6
  <2> HIDE DEF X, Y
  <2>9. Cardinality(X) + Cardinality(Y) = IF Pending(slots[k]) THEN 1 ELSE 0
    <3>1. CASE X = {} /\ Y = {}
      BY <3>1, <2>3, <2>7, <2>8
    <3>2. CASE X # {}
      BY <3>2, <2>3, <2>7, <2>8
    <3>3. CASE X = {} /\ Y # {}
      BY <3>3, <2>3, <2>7, <2>8
    <3> QED
      BY <3>1, <3>2, <3>3
  <2> QED
    BY <2>9 DEF X, Y
<1> QED
  BY <1>1 DEF OneRequestOutstanding

\* Sending loses no message that was not there.
LEMMA SentLoses ==
  ASSUME NEW n \in Nat, NEW msgs, DOMAIN msgs = 1 .. n, Len(msgs) = n, Sent(msgs), lost \in Nat
  PROVE  lost' \in Nat /\ lost' >= lost
<1>1. PICK kept \in SUBSET DOMAIN msgs : lost' = lost + Len(msgs) - Cardinality(kept)
  BY DEF Sent
<1>2. IsFiniteSet(1 .. n) /\ Cardinality(1 .. n) = n
  <2>1. 1 \in Int /\ n \in Int
    OBVIOUS
  <2>2. Cardinality(1 .. n) = IF 1 > n THEN 0 ELSE n - 1 + 1
    BY <2>1, FS_Interval
  <2> QED
    BY <2>1, <2>2, FS_Interval
<1>3. Cardinality(kept) \in Nat /\ Cardinality(kept) <= n
  <2>1. kept \subseteq 1 .. n
    BY <1>1
  <2>2. IsFiniteSet(kept) /\ Cardinality(kept) <= Cardinality(1 .. n)
    BY <2>1, <1>2, FS_Subset
  <2>3. Cardinality(kept) \in Nat
    BY <2>2, FS_CardinalityType
  <2> QED
    BY <2>2, <2>3, <1>2
<1> QED
  BY <1>1, <1>3

\* reconcile asks for at most two things.
LEMMA RequestsAre ==
  ASSUME NEW sym, NEW t
  PROVE  \E n \in Nat : DOMAIN Requests(sym, t) = 1 .. n /\ Len(Requests(sym, t)) = n
<1> DEFINE d == SideOrder(sym, t)
           x == RequestOf(<<sym, d[1]>>, slots[<<sym, d[1]>>], t[d[1]], RefTaken(sym, t, d[1]))
           y == RequestOf(<<sym, d[2]>>, slots[<<sym, d[2]>>], t[d[2]], RefTaken(sym, t, d[2]))
<1>1. (x = << >> \/ \E m : x = <<m>>) /\ (y = << >> \/ \E m : y = <<m>>)
  BY DEF RequestOf
<1>2. Requests(sym, t) = x \o y
  BY DEF Requests
<1> HIDE DEF x, y
<1>3. PICK S : x \in Seq(S) /\ y \in Seq(S)
  <2>1. CASE x = << >> /\ y = << >>
    BY <2>1
  <2>2. CASE x = << >> /\ \E m : y = <<m>>
    <3>1. PICK m : y = <<m>>
      BY <2>2
    <3>2. x \in Seq({m}) /\ y \in Seq({m})
      BY <3>1, <2>2
    <3> QED
      BY <3>2
  <2>3. CASE y = << >> /\ \E m : x = <<m>>
    <3>1. PICK m : x = <<m>>
      BY <2>3
    <3>2. x \in Seq({m}) /\ y \in Seq({m})
      BY <3>1, <2>3
    <3> QED
      BY <3>2
  <2>4. CASE (\E m : x = <<m>>) /\ (\E m : y = <<m>>)
    <3>1. PICK m, m2 : x = <<m>> /\ y = <<m2>>
      BY <2>4
    <3>2. x \in Seq({m, m2}) /\ y \in Seq({m, m2})
      BY <3>1
    <3> QED
      BY <3>2
  <2> QED
    BY <1>1, <2>1, <2>2, <2>3, <2>4
<1>4. x \o y \in Seq(S)
  BY <1>3
<1>5. DOMAIN (x \o y) = 1 .. Len(x \o y) /\ Len(x \o y) \in Nat
  BY <1>4
<1> QED
  BY <1>2, <1>5

-----------------------------------------------------------------------------
\* No test order has been sent.
NoTests == \A r \in DOMAIN owner : owner[r] # TestKey

\* reconcile takes references for quotes only.
LEMMA TakenAreKeys ==
  ASSUME NEW sym \in Syms, NEW t
  PROVE  \A i \in 1 .. Len(Taken(sym, t)) : Taken(sym, t)[i] \in Key
<1> DEFINE d == SideOrder(sym, t)
<1>1. d[1] \in Sides /\ d[2] \in Sides
  BY DEF SideOrder, Sides
<1>2. <<sym, d[1]>> \in Key /\ <<sym, d[2]>> \in Key
  BY <1>1, KeyParts
<1> DEFINE k1 == <<sym, d[1]>>
           k2 == <<sym, d[2]>>
<1>3. Taken(sym, t) = <<k1, k2>> \/ Taken(sym, t) = <<k1>> \/ Taken(sym, t) = <<k2>> \/ Taken(sym, t) = << >>
  BY DEF Taken
<1>4. k1 \in Key /\ k2 \in Key
  BY <1>2
<1> HIDE DEF k1, k2
<1> QED
  BY <1>3, <1>4

\* What a step does to the history of references, the losses and the days.
LEMMA HistoryStep ==
  ASSUME IInv, [Next]_vars
  PROVE  /\ lost' \in Nat /\ lost' >= lost /\ resets' \in Nat /\ resets' >= resets
         /\ DOMAIN owner \subseteq DOMAIN owner' /\ \A r \in DOMAIN owner : owner'[r] = owner[r]
         /\ ~SendTestOrder => \A r \in DOMAIN owner' : r \in DOMAIN owner \/ owner'[r] \in Key
         /\ ~ApplyAck => unknown' = unknown
<1>0. lost \in Nat /\ resets \in Nat /\ RefsOK
  BY DEF IInv, Counts
<1>1. ASSUME NEW sym \in Syms, NEW t \in Targets, Quote(sym, t)
      PROVE  /\ lost' \in Nat /\ lost' >= lost /\ resets' = resets /\ unknown' = unknown
             /\ DOMAIN owner \subseteq DOMAIN owner' /\ \A r \in DOMAIN owner : owner'[r] = owner[r]
             /\ \A r \in DOMAIN owner' : r \in DOMAIN owner \/ owner'[r] \in Key
  <2>1. AllocRefs(Taken(sym, t)) /\ Sent(Requests(sym, t)) /\ resets' = resets /\ unknown' = unknown
    BY <1>1 DEF Quote, Reconcile
  <2>2. lost' \in Nat /\ lost' >= lost
    BY <2>1, <1>0, RequestsAre, SentLoses
  <2>3. PICK n \in 0 .. 2 : Taken(sym, t) \in [1 .. n -> Key \cup {TestKey}] /\ Len(Taken(sym, t)) = n
    BY TakenKeys
  <2>4. \A i \in 1 .. n : Taken(sym, t)[i] \in Key
    BY <2>3, TakenAreKeys
  <2> DEFINE taken == Taken(sym, t)
  <2> HIDE DEF taken
  <2>5. /\ taken \in [1 .. n -> Key \cup {TestKey}] /\ Len(taken) = n /\ AllocRefs(taken)
        /\ \A i \in 1 .. n : taken[i] \in Key
    BY <2>1, <2>3, <2>4 DEF taken
  <2>6. /\ DOMAIN owner' = DOMAIN owner \cup {RefAt(i) : i \in 1 .. n}
        /\ \A r \in DOMAIN owner : owner'[r] = owner[r]
        /\ \A i \in 1 .. n : owner'[RefAt(i)] = taken[i]
    BY <2>5, <1>0, AllocRefsEffect
  <2> QED
    BY <2>1, <2>2, <2>5, <2>6
<1>2. ASSUME SendTestOrder
      PROVE  /\ lost' \in Nat /\ lost' >= lost /\ resets' = resets /\ unknown' = unknown
             /\ DOMAIN owner \subseteq DOMAIN owner' /\ \A r \in DOMAIN owner : owner'[r] = owner[r]
  <2> DEFINE msgs == <<EnterOrder(nextRef, TestKey, 1, 1)>>
  <2>1. AllocRefs(<<TestKey>>) /\ Sent(msgs) /\ resets' = resets /\ unknown' = unknown
    BY <1>2 DEF SendTestOrder, EncodeTestOrder
  <2>2. DOMAIN msgs = 1 .. 1 /\ Len(msgs) = 1
    OBVIOUS
  <2> HIDE DEF msgs
  <2>3. lost' \in Nat /\ lost' >= lost
    BY <2>1, <2>2, <1>0, SentLoses
  <2> QED
    BY <2>1, <2>3, <1>0, TestOrderRefs
<1>3. ASSUME PollOrderEntry \/ LoseAck \/ Mirror \/ EndOfLoop \/ UNCHANGED vars
      PROVE  owner' = owner /\ unknown' = unknown /\ (lost' = lost \/ lost' = lost + 1)
             /\ (resets' = resets \/ resets' = resets + 1)
  BY <1>3 DEF PollOrderEntry, LoseAck, Mirror, EndOfLoop, omsVars, entryVars, vars
<1>4. ASSUME ApplyAck PROVE owner' = owner /\ lost' = lost /\ resets' = resets
  BY <1>4 DEF ApplyAck, OnAck, entryVars
<1>5. CASE \E sym \in Syms, t \in Targets : Quote(sym, t)
  BY <1>5, <1>1, <1>0
<1>6. CASE SendTestOrder
  BY <1>6, <1>2, <1>0
<1>7. CASE PollOrderEntry \/ LoseAck \/ Mirror \/ EndOfLoop \/ UNCHANGED vars
  BY <1>7, <1>3, <1>0
<1>8. CASE ApplyAck
  BY <1>8, <1>4, <1>0
<1> QED
  BY <1>5, <1>6, <1>7, <1>8 DEF Next

\* The manager recognises every answer, as long as nothing is lost, no day ends
\* and no test order is sent.
NothingUnknown == lost = 0 /\ resets = 0 /\ NoTests => unknown = 0

\* Every step keeps that no answer is unknown.
LEMMA NothingUnknownStep ==
  ASSUME IInv, NothingUnknown, [Next]_vars
  PROVE  NothingUnknown'
<1>1. /\ lost' \in Nat /\ lost' >= lost /\ resets' \in Nat /\ resets' >= resets
      /\ DOMAIN owner \subseteq DOMAIN owner' /\ \A r \in DOMAIN owner : owner'[r] = owner[r]
      /\ ~ApplyAck => unknown' = unknown
  BY HistoryStep
<1>2. lost \in Nat /\ resets \in Nat /\ Safe(View, slots, acks, oe, owner)
  BY DEF IInv, Counts, SessionOK
<1>3. ASSUME lost' = 0, resets' = 0, NoTests' PROVE unknown' = 0
  <2>1. lost = 0 /\ resets = 0
    BY <1>1, <1>2, <1>3
  <2>2. NoTests
    BY <1>1, <1>3 DEF NoTests
  <2>3. unknown = 0
    BY <2>1, <2>2 DEF NothingUnknown
  <2>4. CASE ApplyAck
    <3>1. acks # << >> /\ acks \in Seq(Answers) /\ SessionTyped(acks, oe, owner)
      BY <2>4, <1>2, SafeParts DEF ApplyAck
    <3>2. Head(acks) = acks[1] /\ 1 \in 1 .. Len(acks)
      BY <3>1
    <3>3. owner[Head(acks).ref] \in Key
      BY <3>1, <3>2, <2>2 DEF SessionTyped, NoTests
    <3> QED
      BY <3>3, <2>1, <2>3, <2>4, ApplyAckKeeps
  <2> QED
    BY <2>3, <2>4, <1>1
<1> QED
  BY <1>3 DEF NothingUnknown

\* A session that may send no test order sends none.
LEMMA NoTestsStep ==
  ASSUME MaxTests = 0, IInv, NoTests, [Next]_vars
  PROVE  NoTests'
<1>1. ~SendTestOrder
  <2> DEFINE S == {r \in DOMAIN owner : owner[r] = TestKey}
  <2>1. S = {}
    BY DEF NoTests
  <2>2. TestsSent = 0
    BY <2>1, FS_EmptySet DEF TestsSent
  <2> QED
    BY <2>2 DEF SendTestOrder
<1>2. /\ \A r \in DOMAIN owner : owner'[r] = owner[r]
      /\ \A r \in DOMAIN owner' : r \in DOMAIN owner \/ owner'[r] \in Key
  BY <1>1, HistoryStep
<1> QED
  BY <1>2, KeyParts DEF NoTests

\* The device never loses sight of an order it has at the venue, whatever is
\* lost, filled, refused or cancelled at the end of a day: the slot that sent the
\* order works it under its userRef or awaits it under its pendingRef.
THEOREM OrdersHaveSlots == Spec => []NoOrphans
<1>1. IInv => NoOrphans
  BY IInvNoOrphans
<1> QED
  BY <1>1, OrderEntryInvariant, PTL

\* The venues hold at most one client order of a symbol and side, so that the
\* order in which m_clientRefs pays fills cannot matter.
THEOREM OneClientOrderPerSide == Spec => []OneOrderPerSide
<1>1. IInv => OneOrderPerSide
  BY IInvOneOrder
<1> QED
  BY <1>1, OrderEntryInvariant, PTL

\* venueForUserRef finds the venue of every order that rests, from the ring or
\* by the scan, for any size of the ring.
THEOREM OrdersAreRouted == Spec => []RoutesFindOrders
<1>1. IInv => RoutesFindOrders
  BY IInvRoutes
<1> QED
  BY <1>1, OrderEntryInvariant, PTL

\* As long as nothing is lost the position account is what the client traded,
\* but for the fills whose Executed is on its way.
THEOREM PositionIsExact == Spec => []PositionExact
<1>1. IInv => PositionExact
  BY IInvPosition
<1> QED
  BY <1>1, OrderEntryInvariant, PTL

\* With nothing lost and nothing under way the slots and the venues agree.
THEOREM SessionAgreesWhenQuiet == Spec => []QuietAgreement
<1>1. IInv => QuietAgreement
  BY IInvQuiet
<1> QED
  BY <1>1, OrderEntryInvariant, PTL

\* With nothing lost and no end of day, a slot is pending exactly while one
\* request of it, or the answer to it, is under way, and never two.
THEOREM OneRequestAtATime == Spec => []OneRequestOutstanding
<1>1. IInv => OneRequestOutstanding
  BY IInvOneRequest
<1> QED
  BY <1>1, OrderEntryInvariant, PTL

\* The manager counts no answer as unknown while nothing is lost, no day ends
\* and no test order is sent.
THEOREM AnswersAreKnown == Spec => []NothingUnknown
<1>1. Init => NothingUnknown
  BY DEF Init, OmsInit, NothingUnknown
<1>2. IInv /\ NothingUnknown /\ [Next]_vars => NothingUnknown'
  BY NothingUnknownStep
<1> QED
  BY <1>1, <1>2, OrderEntryInvariant, PTL DEF Spec

\* Without test orders an unknown answer means that a message was lost or that a
\* day ended.  (A test order's hint may leave the ring before its answer comes.)
THEOREM UnknownMeansDisruption == ASSUME MaxTests = 0 PROVE Spec => []UnknownNeedsDisruption
<1>1. Init => NoTests
  BY DEF Init, OmsInit, NoTests
<1>2. IInv /\ NoTests /\ [Next]_vars => NoTests'
  BY NoTestsStep
<1>3. IInv /\ NothingUnknown /\ NoTests => UnknownNeedsDisruption
  BY DEF IInv, Counts, NothingUnknown, UnknownNeedsDisruption
<1> QED
  BY <1>1, <1>2, <1>3, OrderEntryInvariant, AnswersAreKnown, PTL DEF Spec

-----------------------------------------------------------------------------
(***************************************************************************)
(* Why the two quotes of a symbol do not meet.  A quote heads for the      *)
(* price that it has, or will have once its replacement is answered.  As   *)
(* long as reconcile sends requests only when neither side waits, the bid  *)
(* heads for a lower price than the ask; and of two requests under way,    *)
(* the first one clears the order that the second one replaces.            *)
(***************************************************************************)
HeadsTo(x, ak, q, p) ==
  \/ x.state \notin {"Idle", "PendingReplace"} /\ p = x.price
  \/ /\ x.state = "PendingReplace"
     /\ \E i \in 1 .. Len(q) : q[i].type = "ReplaceOrder" /\ q[i].ref = x.pendingRef /\ q[i].price = p
  \/ /\ x.state = "PendingReplace"
     /\ \E i \in 1 .. Len(ak) : ak[i].type = "Replaced" /\ ak[i].ref = x.pendingRef /\ ak[i].price = p

\* The slot waits for this replacement.
InForce(x, m) == m.type = "ReplaceOrder" => x.state = "PendingReplace" /\ x.pendingRef = m.ref

\* An order of this side at price p does not meet one of the other side at q.
Clear(d, p, q) == IF d = "Buy" THEN p < q ELSE q < p

\* No request of a quote has been refused.
NoneRefused(ak, own) == \A i \in 1 .. Len(ak) : ak[i].type = "Rejected" => own[ak[i].ref] = TestKey

PricesApart(s, ak, q) ==
  \A y \in Syms : \A b, a \in Nat :
    HeadsTo(s[<<y, "Buy">>], ak, q, b) /\ HeadsTo(s[<<y, "Sell">>], ak, q, a) => b < a

\* m is a request for a new order of the side d of y, n a later one to replace
\* the order of the other side.
InTurn(s, own, y, d, m, n) ==
  /\ New(m) /\ own[m.ref] = <<y, d>> /\ InForce(s[<<y, d>>], m)
  /\ n.type = "ReplaceOrder" /\ own[n.ref] = <<y, Other(d)>> /\ InForce(s[<<y, Other(d)>>], n)

TurnsApart(s, q, own) ==
  \A y \in Syms, d \in Sides : \A i, j \in 1 .. Len(q) :
    i < j /\ InTurn(s, own, y, d, q[i], q[j]) => Clear(d, q[i].price, s[<<y, Other(d)>>].price)

\* The inductive invariant, beside IInv.
Aside(s, ak, q, own) == NoneRefused(ak, own) /\ PricesApart(s, ak, q) /\ TurnsApart(s, q, own)
InStep == lost = 0 /\ ~outOfStep => Aside(slots, acks, oe, owner) /\ selfTrades = 0

-----------------------------------------------------------------------------
\* The answers that are new are no refusal and no replacement.
NoNews(ak2, ak) ==
  \A i \in 1 .. Len(ak2) :
    ak2[i].type \in {"Replaced", "Rejected"} => \E j \in 1 .. Len(ak) : ak[j] = ak2[i]

\* Prices stay apart while no quote heads for a price that it did not head for.
LEMMA PricesKept ==
  ASSUME NEW s, NEW ak, NEW q, NEW s2, NEW ak2, NEW q2, PricesApart(s, ak, q),
         \A k \in Key, p \in Nat : HeadsTo(s2[k], ak2, q2, p) => HeadsTo(s[k], ak, q, p)
  PROVE  PricesApart(s2, ak2, q2)
<1>1. \A y \in Syms : <<y, "Buy">> \in Key /\ <<y, "Sell">> \in Key
  BY KeyParts DEF Sides
<1> QED
  BY <1>1 DEF PricesApart

\* Answers without news leave the quotes where they are heading.
LEMMA QuietKeeps ==
  ASSUME NEW s, NEW ak, NEW q, NEW own, NEW ak2, Aside(s, ak, q, own), NoNews(ak2, ak)
  PROVE  Aside(s, ak2, q, own)
<1>1. NoneRefused(ak2, own)
  BY DEF Aside, NoneRefused, NoNews
<1>2. ASSUME NEW x, NEW p, HeadsTo(x, ak2, q, p) PROVE HeadsTo(x, ak, q, p)
  BY <1>2 DEF HeadsTo, NoNews
<1>3. PricesApart(s, ak2, q)
  BY <1>2, PricesKept DEF Aside
<1> QED
  BY <1>1, <1>3 DEF Aside

\* A slot that hears an answer heads for no other price, unless its replacement
\* was refused.
LEMMA HeardHeads ==
  ASSUME NEW x \in Slot, NEW a \in Answers, NEW ak \in Seq(Answers), ak # << >>, a = Head(ak), NEW q, NEW p,
         a.type # "Rejected", NEW x2, x2 = SlotHeard(x, a),
         HeadsTo(x2, Tail(ak), q, p)
  PROVE  HeadsTo(x, ak, q, p)
<1>1. /\ \A i \in 1 .. Len(Tail(ak)) : \E j \in 1 .. Len(ak) : Tail(ak)[i] = ak[j]
      /\ 1 \in 1 .. Len(ak) /\ ak[1] = a
  BY TailParts
<1>2. a.type \in AckTypes
  BY DEF Answers
<1>3. CASE ~Matched(x, a)
  <2>1. x2 = x
    BY <1>3 DEF SlotHeard
  <2> QED
    BY <2>1, <1>1 DEF HeadsTo
<1>4. CASE Matched(x, a) /\ a.type = "Replaced"
  <2>1. /\ x2 = [state |-> "Live", userRef |-> a.ref, pendingRef |-> 0, price |-> a.price, leaves |-> a.qty]
        /\ x.state = "PendingReplace" /\ x.pendingRef = a.ref
    BY <1>4 DEF SlotHeard, Matched, Awaits
  <2>2. p = a.price
    BY <2>1 DEF HeadsTo
  <2> QED
    BY <2>1, <2>2, <1>1, <1>4 DEF HeadsTo
<1>5. CASE Matched(x, a) /\ a.type # "Replaced"
  <2>1. x2.state # "Idle"
    BY DEF HeadsTo
  <2>2. x2 # Settled
    BY <2>1 DEF Settled
  <2>3. /\ x2.price = x.price /\ x.state # "Idle"
        /\ x2.state = "PendingReplace" => x.state = "PendingReplace" /\ x2.pendingRef = x.pendingRef
        /\ x.state = "PendingReplace" => x2.state = "PendingReplace"
    <3>1. CASE a.type = "Accepted"
      BY <3>1, <1>5 DEF SlotHeard, Matched, Slot, Works
    <3>2. CASE a.type = "Executed"
      BY <3>2, <1>5, <2>2 DEF SlotHeard, Matched, Slot, Works, Lessened
    <3>3. CASE a.type = "Canceled"
      BY <3>3, <1>5, <2>2 DEF SlotHeard, Matched, Slot, Works, Lessened
    <3>4. CASE a.type = "CancelReject"
      BY <3>4, <1>5, <2>2 DEF SlotHeard, Matched, Slot, Works, Resume
    <3> QED
      BY <3>1, <3>2, <3>3, <3>4, <1>2, <1>5 DEF AckTypes
  <2> QED
    BY <2>1, <2>3, <1>1 DEF HeadsTo
<1> QED
  BY <1>3, <1>4, <1>5

\* A slot that waits for a replacement after it heard an answer waited for the
\* same one before, with the same order at the venue.
LEMMA HeardForce ==
  ASSUME NEW x \in Slot, NEW a \in Answers, a.type # "Rejected", NEW x2, x2 = SlotHeard(x, a),
         x2.state = "PendingReplace"
  PROVE  x.state = "PendingReplace" /\ x2.pendingRef = x.pendingRef /\ x2.price = x.price
<1>1. x2 # Settled /\ a.type \in AckTypes
  BY DEF Settled, Answers
<1>2. CASE ~Matched(x, a)
  BY <1>2 DEF SlotHeard
<1>3. CASE Matched(x, a) /\ a.type = "Accepted"
  BY <1>3 DEF SlotHeard, Slot
<1>4. CASE Matched(x, a) /\ a.type = "Replaced"
  BY <1>4 DEF SlotHeard
<1>5. CASE Matched(x, a) /\ a.type = "Executed"
  BY <1>5, <1>1 DEF SlotHeard, Slot, Lessened
<1>6. CASE Matched(x, a) /\ a.type = "Canceled"
  BY <1>6, <1>1 DEF SlotHeard, Slot, Lessened
<1>7. CASE Matched(x, a) /\ a.type = "CancelReject"
  BY <1>7, <1>1 DEF SlotHeard, Slot, Resume
<1> QED
  BY <1>1, <1>2, <1>3, <1>4, <1>5, <1>6, <1>7 DEF AckTypes

\* Turns stay apart while no slot waits for a replacement that it did not wait
\* for, and the requests are some of those before, in their order.
LEMMA TurnsKept ==
  ASSUME NEW s, NEW q, NEW own, NEW s2, NEW q2, NEW n \in Nat, TurnsApart(s, q, own),
         \A i \in 1 .. Len(q2) : i + n \in 1 .. Len(q) /\ q2[i] = q[i + n],
         \A k \in Key : s2[k].state = "PendingReplace" =>
           s[k].state = "PendingReplace" /\ s2[k].pendingRef = s[k].pendingRef /\ s2[k].price = s[k].price
  PROVE  TurnsApart(s2, q2, own)
<1>1. ASSUME NEW y \in Syms, NEW d \in Sides, NEW i \in 1 .. Len(q2), NEW j \in 1 .. Len(q2), i < j,
             InTurn(s2, own, y, d, q2[i], q2[j])
      PROVE  Clear(d, q2[i].price, s2[<<y, Other(d)>>].price)
  <2> DEFINE k == <<y, d>>
             f == <<y, Other(d)>>
  <2>1. k \in Key /\ f \in Key
    BY KeyParts DEF Other, Sides
  <2>2. InTurn(s, own, y, d, q2[i], q2[j]) /\ s2[f].price = s[f].price
    <3>1. New(q2[i]) /\ own[q2[i].ref] = k /\ InForce(s2[k], q2[i])
          /\ q2[j].type = "ReplaceOrder" /\ own[q2[j].ref] = f /\ InForce(s2[f], q2[j])
      BY <1>1 DEF InTurn
    <3>2. InForce(s[k], q2[i])
      <4> HIDE DEF k, f
      <4> QED
        BY <3>1, <2>1 DEF InForce
    <3>3. InForce(s[f], q2[j]) /\ s2[f].price = s[f].price
      <4> HIDE DEF k, f
      <4> QED
        BY <3>1, <2>1 DEF InForce
    <3> QED
      BY <3>1, <3>2, <3>3 DEF InTurn
  <2>3. i + n \in 1 .. Len(q) /\ j + n \in 1 .. Len(q) /\ q2[i] = q[i + n] /\ q2[j] = q[j + n] /\ i + n < j + n
    BY <1>1
  <2>4. Clear(d, q[i + n].price, s[f].price)
    BY <2>2, <2>3 DEF TurnsApart
  <2> QED
    BY <2>2, <2>3, <2>4
<1> QED
  BY <1>1 DEF TurnsApart

\* Handling an answer keeps the quotes in step.
LEMMA ApplyAckInStep ==
  ASSUME IInv, ApplyAck, Aside(slots, acks, oe, owner)
  PROVE  Aside(slots', acks', oe', owner') /\ UNCHANGED <<lost, outOfStep, selfTrades>>
<1> DEFINE a == Head(acks)
           k == owner[a.ref]
<1>1. /\ acks # << >> /\ OnAck(a) /\ acks' = Tail(acks)
      /\ UNCHANGED <<selfTrades, oe, lost, outOfStep, owner>>
  BY DEF ApplyAck, entryVars, OnAck
<1>2. acks \in Seq(Answers) /\ \A i \in 1 .. Len(acks) : acks[i].ref \in DOMAIN owner
  BY SafeParts DEF IInv, SessionOK
<1>3. /\ a \in Answers /\ a = acks[1] /\ 1 \in 1 .. Len(acks)
      /\ \A i \in 1 .. Len(acks') : acks'[i] = acks[i + 1] /\ i + 1 \in 1 .. Len(acks)
  BY <1>1, <1>2, TailParts
<1>4. a.ref \in Nat \ {0}
  <2>1. a.ref \in DOMAIN owner
    BY <1>2, <1>3
  <2> QED
    BY <2>1, SafeParts DEF IInv, SessionOK
<1>5. NoneRefused(acks, owner) /\ PricesApart(slots, acks, oe) /\ TurnsApart(slots, oe, owner)
  BY DEF Aside
<1>6. NoneRefused(acks', owner)
  BY <1>3, <1>5 DEF NoneRefused
<1>7. /\ k \in Key => slots' = [slots EXCEPT ![k] = SlotHeard(slots[k], a)] /\ a.type # "Rejected"
      /\ k \notin Key => slots' = slots
  <2>1. AckDone(a, k)
    <3> HIDE DEF a
    <3> QED
      BY <1>1, <1>3, <1>4, AckEffect
  <2>2. k \in Key => a.type # "Rejected"
    BY <1>3, <1>5, KeyParts DEF NoneRefused
  <2> QED
    BY <2>1, <2>2 DEF AckDone
<1> HIDE DEF a, k
<1>8. slots \in [Key -> Slot]
  BY DEF IInv, SlotsTyped
<1>9. ASSUME NEW j \in Key
      PROVE  slots'[j] = slots[j] \/ (slots'[j] = SlotHeard(slots[j], a) /\ a.type # "Rejected")
  BY <1>7, <1>8
<1>10. ASSUME NEW j \in Key, NEW p \in Nat, HeadsTo(slots'[j], acks', oe, p) PROVE HeadsTo(slots[j], acks, oe, p)
  <2>1. CASE slots'[j] = slots[j]
    BY <2>1, <1>3, <1>10 DEF HeadsTo
  <2>2. CASE slots'[j] = SlotHeard(slots[j], a) /\ a.type # "Rejected"
    <3>1. slots[j] \in Slot /\ a = Head(acks) /\ HeadsTo(slots'[j], Tail(acks), oe, p)
      BY <1>1, <1>8, <1>10 DEF a
    <3> QED
      BY <2>2, <3>1, <1>1, <1>2, <1>3, HeardHeads
  <2> QED
    BY <1>9, <2>1, <2>2
<1>11. ASSUME NEW j \in Key, slots'[j].state = "PendingReplace"
       PROVE  /\ slots[j].state = "PendingReplace" /\ slots'[j].pendingRef = slots[j].pendingRef
              /\ slots'[j].price = slots[j].price
  BY <1>3, <1>8, <1>9, <1>11, HeardForce
<1>12. PricesApart(slots', acks', oe)
  BY <1>5, <1>10, PricesKept
<1>13. TurnsApart(slots', oe, owner)
  <2>1. \A i \in 1 .. Len(oe) : i + 0 \in 1 .. Len(oe) /\ oe[i] = oe[i + 0]
    OBVIOUS
  <2>2. 0 \in Nat
    OBVIOUS
  <2> QED
    BY <1>5, <1>11, <2>1, <2>2, TurnsKept
<1> QED
  BY <1>1, <1>6, <1>12, <1>13 DEF Aside

\* The answers of a match are fills, whoever they are for.
LEMMA FillsOnly ==
  ASSUME NEW rest, NEW c, NEW fills, NEW ag, NEW E, Trade(E, rest, c, fills, ag),
         NEW ak, NEW u, Joined(u, ak, E, Answers)
  PROVE  NoNews(u, ak)
<1>1. \A j \in 1 .. Len(E) : E[j].type = "Executed"
  BY ExecutionsFacts DEF Fill
<1>2. \A i \in 1 .. Len(u) : (i \in 1 .. Len(ak) /\ u[i] = ak[i]) \/ \E j \in 1 .. Len(E) : u[i] = E[j]
  BY ConcatParts
<1> QED
  BY <1>1, <1>2 DEF NoNews

\* Fills by the tape tell the client of nothing but fills.
LEMMA TapeNews ==
  ASSUME IInv, NEW sym \in Syms, NEW fs \in Sides, NEW eligible, NEW q \in Nat, NEW fills,
         fills = Fills(book[sym][fs], eligible, q), FillClients(sym, fs, fills)
  PROVE  NoNews(acks', acks) /\ selfTrades' = selfTrades
<1> DEFINE rest == book[sym][fs]
           E == Executions(rest, fills, << >>)
           c == View[<<sym, fs>>]
<1>1. acks' = acks \o E /\ selfTrades' = selfTrades
  BY DEF FillClients
<1>2. rest \in Seq(Orders) /\ Shows(rest, c)
  BY BookParts DEF IInv
<1>3. FillsFit(rest, fills) /\ fills \in Seq(Int)
  <2> HIDE DEF rest
  <2>1. fills = Fills(rest, eligible, q)
    BY DEF rest
  <2> QED
    BY <2>1, <1>2, FillsFacts
<1>4. Trade(E, rest, c, fills, << >>)
  BY <1>2, <1>3 DEF Trade
<1>5. acks \in Seq(Answers)
  BY SafeParts DEF IInv, SessionOK
<1> HIDE DEF E, rest, c
<1>6. E \in Seq(Answers)
  BY <1>4, ExecutionsFacts
<1>7. Joined(acks', acks, E, Answers)
  BY <1>1, <1>5, <1>6 DEF Joined
<1>8. NoNews(acks', acks)
  BY <1>4, <1>7, FillsOnly
<1> QED
  BY <1>1, <1>8

\* The answers that were there are no news.
LEMMA SameNews == ASSUME NEW ak PROVE NoNews(ak, ak)
BY DEF NoNews

\* An order of the tape that crosses a client order tells of fills only.
LEMMA MirrorAddNews ==
  ASSUME IInv, NEW sym \in Syms, NEW side \in Sides, NEW o, o.qty \in Nat,
         NEW here, here[Other(side)] = book[sym][Other(side)], MirrorAddTo(sym, side, o, here)
  PROVE  NoNews(acks', acks) /\ selfTrades' = selfTrades
<1> DEFINE fs == Other(side)
           fills == CrossFills(here, side, o)
           eligible == Crossing(fs, o.price, here[fs]) \cap Clients(here[fs])
<1>1. fs \in Sides
  BY DEF Other, Sides
<1>2. FillClients(sym, fs, fills)
  BY DEF MirrorAddTo
<1>3. fills = Fills(book[sym][fs], eligible, o.qty)
  BY DEF CrossFills
<1> HIDE DEF fs, fills, eligible
<1> QED
  BY <1>1, <1>2, <1>3, TapeNews

\* The tape keeps the quotes in step.
LEMMA MirrorInStep ==
  ASSUME IInv, Mirror, Aside(slots, acks, oe, owner)
  PROVE  Aside(slots', acks', oe', owner') /\ UNCHANGED <<lost, outOfStep, selfTrades>>
<1>1. UNCHANGED <<slots, oe, owner, lost, outOfStep>>
  BY DEF Mirror, omsVars
<1>2. PICK sym \in Syms, side \in Sides :
       \/ \E p \in Prices, q \in TapeQtys : MirrorAdd(sym, side, Order(tape', FALSE, p, q))
       \/ \E i \in DOMAIN book[sym][side] :
            \/ \E q \in TapeQtys : MirrorExecute(sym, side, i, q)
            \/ \E q \in TapeQtys : MirrorCancel(sym, side, i, q)
            \/ MirrorDelete(sym, side, i)
            \/ \E p \in Prices, q \in TapeQtys : MirrorReplace(sym, side, i, Order(tape', FALSE, p, q))
  BY DEF Mirror
<1>3. \A q \in TapeQtys : q \in Nat
  BY TapeQtysAssumption
<1>4. \A p : \A q \in TapeQtys : Order(tape', FALSE, p, q).qty \in Nat
  BY <1>3 DEF Order
<1>5. Other(side) \in Sides /\ Other(side) # side
  BY DEF Other, Sides
<1>6. NoNews(acks', acks) /\ selfTrades' = selfTrades
  <2>1. CASE \E p \in Prices, q \in TapeQtys : MirrorAdd(sym, side, Order(tape', FALSE, p, q))
    <3>1. PICK p \in Prices, q \in TapeQtys : MirrorAddTo(sym, side, Order(tape', FALSE, p, q), book[sym])
      BY <2>1 DEF MirrorAdd
    <3> DEFINE o == Order(tape', FALSE, p, q)
    <3>2. o.qty \in Nat /\ MirrorAddTo(sym, side, o, book[sym])
      BY <1>4, <3>1
    <3> HIDE DEF o
    <3> QED
      BY <3>2, MirrorAddNews
  <2>2. ASSUME NEW i \in DOMAIN book[sym][side], NEW q \in TapeQtys, MirrorExecute(sym, side, i, q)
        PROVE  NoNews(acks', acks) /\ selfTrades' = selfTrades
    <3> DEFINE rest == book[sym][side]
               fills == ShadowFills(rest, i, q)
               eligible == {j \in Clients(rest) : j < i}
    <3>1. FillClients(sym, side, fills) /\ fills = Fills(book[sym][side], eligible, q)
      BY <2>2 DEF MirrorExecute, ShadowFills
    <3> HIDE DEF rest, fills, eligible
    <3> QED
      BY <3>1, <1>3, TapeNews
  <2>3. ASSUME NEW i \in DOMAIN book[sym][side],
               (\E q \in TapeQtys : MirrorCancel(sym, side, i, q)) \/ MirrorDelete(sym, side, i)
        PROVE  NoNews(acks', acks) /\ selfTrades' = selfTrades
    BY <2>3, SameNews DEF MirrorCancel, MirrorDelete
  <2>4. ASSUME NEW i \in DOMAIN book[sym][side], NEW p \in Prices, NEW q \in TapeQtys,
               MirrorReplace(sym, side, i, Order(tape', FALSE, p, q))
        PROVE  NoNews(acks', acks) /\ selfTrades' = selfTrades
    <3> DEFINE o == Order(tape', FALSE, p, q)
               r == Chosen(book[sym][side], DOMAIN book[sym][side] \ {i})
               here == [book[sym] EXCEPT ![side] = r]
    <3>1. o.qty \in Nat /\ (MirrorAddTo(sym, side, o, here) \/ UNCHANGED <<acks, selfTrades>>)
      BY <1>4, <2>4 DEF MirrorReplace
    <3>2. here[Other(side)] = book[sym][Other(side)]
      BY <1>5, BookParts DEF IInv
    <3> HIDE DEF o, here
    <3> QED
      BY <3>1, <3>2, SameNews, MirrorAddNews
  <2> QED
    BY <1>2, <2>1, <2>2, <2>3, <2>4
<1> QED
  BY <1>1, <1>6, QuietKeeps

\* So does the end of a day.
LEMMA EndOfLoopInStep ==
  ASSUME IInv, EndOfLoop, Aside(slots, acks, oe, owner)
  PROVE  Aside(slots', acks', oe', owner') /\ UNCHANGED <<lost, outOfStep, selfTrades>>
<1>1. PICK orders \in SetToSeqs(ClientOrders) :
        acks' = acks \o [j \in DOMAIN orders |-> Ack("Canceled", orders[j].id, orders[j].qty, 0)]
  BY DEF EndOfLoop, ResetDay
<1>2. UNCHANGED <<slots, oe, owner, lost, outOfStep, selfTrades>>
  BY DEF EndOfLoop, ResetDay, omsVars
<1>3. orders \in Seq(ClientOrders) /\ DOMAIN orders = 1 .. Len(orders)
  BY EveryOrderOnce
<1> DEFINE cancel(o) == Ack("Canceled", o.id, o.qty, 0)
           S == Answers \cup {cancel(o) : o \in ClientOrders}
           E == [j \in DOMAIN orders |-> cancel(orders[j])]
<1>4. E \in Seq(S) /\ \A j \in 1 .. Len(E) : E[j].type = "Canceled"
  <2>1. Len(orders) \in Nat /\ \A j \in 1 .. Len(orders) : orders[j] \in ClientOrders
    BY <1>3
  <2>2. \A j \in 1 .. Len(orders) : cancel(orders[j]) \in S
    BY <2>1
  <2>3. \A j \in 1 .. Len(orders) : cancel(orders[j]).type = "Canceled"
    BY DEF Ack
  <2> HIDE DEF cancel, S
  <2>4. E \in [1 .. Len(orders) -> S]
    BY <1>3, <2>2
  <2>5. E \in Seq(S) /\ Len(E) = Len(orders)
    BY <2>1, <2>4
  <2> QED
    BY <1>3, <2>3, <2>5
<1>5. acks \in Seq(S)
  <2>1. acks \in Seq(Answers)
    BY SafeParts DEF IInv, SessionOK
  <2> HIDE DEF cancel
  <2> QED
    BY <2>1
<1>6. acks' = acks \o E
  BY <1>1
<1> HIDE DEF E, S
<1>7. Joined(acks', acks, E, S)
  BY <1>4, <1>5, <1>6 DEF Joined
<1>8. \A i \in 1 .. Len(acks') : (i \in 1 .. Len(acks) /\ acks'[i] = acks[i]) \/ \E j \in 1 .. Len(E) : acks'[i] = E[j]
  BY <1>7, ConcatParts
<1>9. NoNews(acks', acks)
  BY <1>4, <1>8 DEF NoNews
<1> QED
  BY <1>2, <1>9, QuietKeeps

\* The order that a quote has at the venue is at the price that it heads for,
\* unless the request to replace it is still under way.
LEMMA RestingPrice ==
  ASSUME IInv, lost = 0, NoneRefused(acks, owner), NEW f \in Key, View[f].qty > 0
  PROVE  \/ HeadsTo(slots[f], acks, oe, View[f].price)
         \/ /\ slots[f].state = "PendingReplace" /\ View[f].price = slots[f].price
            /\ \E j \in 1 .. Len(oe) : /\ oe[j].type = "ReplaceOrder" /\ oe[j].ref = slots[f].pendingRef
                                       /\ owner[oe[j].ref] = f
<1> DEFINE c == View[f]
           x == slots[f]
           A == AcksOf(acks, owner, f)
           Q == AsksOf(oe, owner, f)
           R == RefsOf(owner, f)
           T == Due(acks, R)
<1>1. KeyInv(c, x, A, Q, R, T) /\ KeyExact(c, x, A, Q, T)
  BY SafeParts DEF IInv, SessionOK, KeyAt, Exact, ExactAt
<1>2. \A a \in A : owner[a.ref] = f /\ \E i \in 1 .. Len(acks) : acks[i] = a
  BY DEF AcksOf
<1>3. \A m \in Q : owner[m.ref] = f /\ \E i \in 1 .. Len(oe) : oe[i] = m
  BY DEF AsksOf
<1>4. \A a \in A : a.type # "Rejected"
  BY <1>2, KeyParts DEF NoneRefused
<1>5. c.qty > 0
  OBVIOUS
<1> HIDE DEF c, x, A, Q, R, T
<1>6. /\ KeyTyped(c, x, A, Q, R, T) /\ ViewOK(c, x, R)
      /\ \A a \in A : AckOK(c, x, a, A)
  BY <1>1, KeyInvParts
<1>7. c.id \in R /\ c.id # 0 /\ (c.id = x.userRef \/ c.id = x.pendingRef) /\ (c.id = x.userRef => c.price = x.price)
  BY <1>5, <1>6 DEF ViewOK, KeyTyped
<1>8. x.state # "Idle" /\ (x.state = "PendingReplace" <=> x.pendingRef # 0)
  BY <1>6, <1>7 DEF KeyTyped, Good, Settled
<1>9. CASE c.id = x.userRef /\ x.state # "PendingReplace"
  BY <1>7, <1>8, <1>9 DEF HeadsTo, c, x
<1>10. CASE c.id = x.userRef /\ x.state = "PendingReplace"
  <2>1. Holds(c, x.userRef)
    BY <1>5, <1>10 DEF Holds
  <2>2. HasAsk(Q, "ReplaceOrder", x.pendingRef)
    BY <2>1, <1>1, <1>4, <1>6, <1>10 DEF KeyExact, HasAck, AckOK
  <2> QED
    BY <2>2, <1>3, <1>7, <1>10 DEF HasAsk, c, x
<1>11. CASE c.id = x.pendingRef
  <2>1. Holds(c, x.pendingRef) /\ x.state = "PendingReplace"
    BY <1>5, <1>7, <1>8, <1>11 DEF Holds
  <2>2. PICK a \in A : a.type = "Replaced" /\ a.ref = x.pendingRef
    BY <2>1, <1>1 DEF KeyExact, HasAck
  <2>3. c.price = a.price
    BY <2>1, <2>2, <1>6 DEF AckOK
  <2>4. HeadsTo(x, acks, oe, c.price)
    BY <2>1, <2>2, <2>3, <1>2 DEF HeadsTo
  <2> QED
    BY <2>4 DEF c, x
<1> QED
  BY <1>7, <1>9, <1>10, <1>11

\* A request that the venue will match is for the price its quote heads for.
LEMMA AskedPrice ==
  ASSUME IInv, oe # << >>, NEW m, m = Head(oe), NEW k \in Key, owner[m.ref] = k, New(m),
         m.type = "ReplaceOrder" => Holds(View[k], m.orig)
  PROVE  HeadsTo(slots[k], acks, oe, m.price) /\ InForce(slots[k], m) /\ m.price \in Nat
<1>1. m \in Asks /\ AskOK(View[k], slots[k], m, RefsOf(owner, k))
  BY RequestFacts
<1>2. m = oe[1] /\ 1 \in 1 .. Len(oe)
  <2>1. oe \in Seq(Asks)
    BY SafeParts DEF IInv, SessionOK
  <2> QED
    BY <2>1, TailParts
<1>3. m.price \in Nat
  BY <1>1, AskNumbers
<1>4. CASE m.type = "EnterOrder"
  BY <1>1, <1>3, <1>4 DEF AskOK, HeadsTo, InForce
<1>5. CASE m.type = "ReplaceOrder"
  <2>1. slots[k].state = "PendingReplace" /\ slots[k].pendingRef = m.ref
    BY <1>1, <1>5 DEF AskOK
  <2> QED
    BY <2>1, <1>2, <1>3, <1>5 DEF HeadsTo, InForce
<1> QED
  BY <1>4, <1>5 DEF New

\* Such a request does not meet the order of the other quote.
LEMMA NoMeeting ==
  ASSUME IInv, lost = 0, Aside(slots, acks, oe, owner), oe # << >>, NEW m, m = Head(oe),
         NEW y \in Syms, NEW d \in Sides, owner[m.ref] = <<y, d>>, New(m),
         m.type = "ReplaceOrder" => Holds(View[<<y, d>>], m.orig),
         View[<<y, Other(d)>>].qty > 0
  PROVE  Clear(d, m.price, View[<<y, Other(d)>>].price)
<1> DEFINE k == <<y, d>>
           f == <<y, Other(d)>>
<1>1. k \in Key /\ f \in Key /\ k # f /\ Other(d) \in Sides
  BY KeyParts DEF Other, Sides
<1>2. HeadsTo(slots[k], acks, oe, m.price) /\ InForce(slots[k], m) /\ m.price \in Nat
  <2> HIDE DEF k
  <2> QED
    BY <1>1, AskedPrice DEF k
<1>3. \/ HeadsTo(slots[f], acks, oe, View[f].price)
      \/ /\ slots[f].state = "PendingReplace" /\ View[f].price = slots[f].price
         /\ \E j \in 1 .. Len(oe) : /\ oe[j].type = "ReplaceOrder" /\ oe[j].ref = slots[f].pendingRef
                                    /\ owner[oe[j].ref] = f
  <2>1. View[f].qty > 0 /\ NoneRefused(acks, owner)
    BY DEF Aside
  <2> HIDE DEF f
  <2> QED
    BY <1>1, <2>1, RestingPrice
<1>4. View[f].price \in Nat
  <2>1. View[f] \in Views
    <3> HIDE DEF f
    <3> QED
      BY <1>1, HeldFacts DEF IInv, SessionOK
  <2> QED
    BY <2>1 DEF Views
<1>5. CASE HeadsTo(slots[f], acks, oe, View[f].price)
  <2>1. \A b, a \in Nat : HeadsTo(slots[<<y, "Buy">>], acks, oe, b) /\ HeadsTo(slots[<<y, "Sell">>], acks, oe, a) => b < a
    BY DEF Aside, PricesApart
  <2>2. CASE d = "Buy"
    <3>1. k = <<y, "Buy">> /\ f = <<y, "Sell">>
      BY <2>2 DEF Other
    <3>2. m.price < View[f].price
      <4> HIDE DEF k, f
      <4> QED
        BY <1>2, <1>4, <1>5, <2>1, <3>1
    <3> QED
      BY <2>2, <3>2 DEF Clear
  <2>3. CASE d = "Sell"
    <3>1. k = <<y, "Sell">> /\ f = <<y, "Buy">>
      BY <2>3 DEF Other
    <3>2. View[f].price < m.price
      <4> HIDE DEF k, f
      <4> QED
        BY <1>2, <1>4, <1>5, <2>1, <3>1
    <3> QED
      BY <2>3, <3>2 DEF Clear
  <2> QED
    BY <2>2, <2>3 DEF Sides
<1>6. CASE /\ slots[f].state = "PendingReplace" /\ View[f].price = slots[f].price
           /\ \E j \in 1 .. Len(oe) : /\ oe[j].type = "ReplaceOrder" /\ oe[j].ref = slots[f].pendingRef
                                      /\ owner[oe[j].ref] = f
  <2>1. PICK j \in 1 .. Len(oe) : /\ oe[j].type = "ReplaceOrder" /\ oe[j].ref = slots[f].pendingRef
                                  /\ owner[oe[j].ref] = f
    BY <1>6
  <2>2. oe[1] = m /\ 1 \in 1 .. Len(oe)
    <3>1. oe \in Seq(Asks)
      BY SafeParts DEF IInv, SessionOK
    <3> QED
      BY <3>1, TailParts
  <2>3. 1 < j
    BY <1>1, <2>1, <2>2
  <2>4. InTurn(slots, owner, y, d, oe[1], oe[j])
    BY <1>2, <1>6, <2>1, <2>2 DEF InTurn, InForce
  <2>5. Clear(d, oe[1].price, slots[f].price)
    BY <2>2, <2>3, <2>4 DEF Aside, TurnsApart
  <2> QED
    BY <1>6, <2>2, <2>5
<1> QED
  BY <1>3, <1>5, <1>6

\* An order that clears the client order of the other side takes nothing of it.
LEMMA NothingMet ==
  ASSUME NEW rest \in Seq(Orders), NEW c, Shows(rest, c), NEW side \in Sides, NEW price \in Nat, NEW qty \in Nat,
         NEW fills, fills = Fills(rest, Crossing(Other(side), price, rest), qty),
         c.qty > 0 => Clear(side, price, c.price)
  PROVE  Cardinality({i \in Clients(rest) : fills[i] > 0}) = 0
<1> DEFINE eligible == Crossing(Other(side), price, rest)
<1>1. FillsFit(rest, fills) /\ \A i \in DOMAIN rest : fills[i] # 0 => i \in eligible
  <2> HIDE DEF eligible
  <2>1. fills = Fills(rest, eligible, qty)
    BY DEF eligible
  <2> QED
    BY <2>1, FillsFacts
<1>2. ASSUME NEW i \in Clients(rest), fills[i] > 0 PROVE FALSE
  <2>1. i \in DOMAIN rest /\ rest[i].client
    BY DEF Clients
  <2>2. c.qty # 0 /\ c.qty \in Nat /\ c.price \in Nat /\ c.price = rest[i].price
    <3>1. /\ c.qty = 0 => \A j \in DOMAIN rest : ~rest[j].client
          /\ c.qty # 0 => \E j \in DOMAIN rest : Clients(rest) = {j} /\ c.price = rest[j].price
          /\ c.qty \in Nat /\ c.price \in Nat
      BY ShowsClient
    <3> QED
      BY <3>1, <2>1
  <2>3. fills[i] # 0
    BY <1>1, <1>2, <2>1 DEF FillsFit
  <2>4. NoWorse(Other(side), rest[i].price, price)
    BY <1>1, <2>1, <2>3 DEF Crossing
  <2>5. Clear(side, price, c.price)
    BY <2>2
  <2> QED
    BY <2>2, <2>4, <2>5 DEF NoWorse, Clear, Other, Sides
<1>3. {i \in Clients(rest) : fills[i] > 0} = {}
  BY <1>2
<1> QED
  BY <1>3, FS_EmptySet

\* The only replacement that is news is the one of m.
NewsOf(m, ak2, ak) ==
  \A i \in 1 .. Len(ak2) : ak2[i].type = "Replaced" =>
    \/ \E j \in 1 .. Len(ak) : ak[j] = ak2[i]
    \/ m.type = "ReplaceOrder" /\ ak2[i].ref = m.ref /\ ak2[i].price = m.price

\* A request that the venue takes leaves the quotes where they are heading.
LEMMA PollAside ==
  ASSUME IInv, PollStep, Aside(slots, acks, oe, owner), NoneRefused(acks', owner),
         NEW m, m = Head(oe), NewsOf(m, acks', acks)
  PROVE  Aside(slots', acks', oe', owner')
<1>1. oe # << >> /\ oe' = Tail(oe) /\ UNCHANGED <<slots, owner>>
  BY DEF PollStep, omsVars
<1>2. oe \in Seq(Asks)
  BY SafeParts DEF IInv, SessionOK
<1>3. /\ m = oe[1] /\ 1 \in 1 .. Len(oe)
      /\ \A i \in 1 .. Len(oe') : oe'[i] = oe[i + 1] /\ i + 1 \in 1 .. Len(oe)
  BY <1>1, <1>2, TailParts
<1>4. ASSUME NEW k \in Key, NEW p \in Nat, HeadsTo(slots[k], acks', oe', p) PROVE HeadsTo(slots[k], acks, oe, p)
  <2>1. CASE slots[k].state \notin {"Idle", "PendingReplace"} /\ p = slots[k].price
    BY <2>1 DEF HeadsTo
  <2>2. CASE /\ slots[k].state = "PendingReplace"
             /\ \E i \in 1 .. Len(oe') : oe'[i].type = "ReplaceOrder" /\ oe'[i].ref = slots[k].pendingRef /\ oe'[i].price = p
    BY <2>2, <1>3 DEF HeadsTo
  <2>3. CASE /\ slots[k].state = "PendingReplace"
             /\ \E i \in 1 .. Len(acks') : acks'[i].type = "Replaced" /\ acks'[i].ref = slots[k].pendingRef /\ acks'[i].price = p
    <3>1. PICK i \in 1 .. Len(acks') : acks'[i].type = "Replaced" /\ acks'[i].ref = slots[k].pendingRef /\ acks'[i].price = p
      BY <2>3
    <3>2. CASE \E j \in 1 .. Len(acks) : acks[j] = acks'[i]
      BY <2>3, <3>1, <3>2 DEF HeadsTo
    <3>3. CASE m.type = "ReplaceOrder" /\ acks'[i].ref = m.ref /\ acks'[i].price = m.price
      BY <2>3, <3>1, <3>3, <1>3 DEF HeadsTo
    <3> QED
      BY <3>1, <3>2, <3>3 DEF NewsOf
  <2> QED
    BY <1>4, <2>1, <2>2, <2>3 DEF HeadsTo
<1>5. PricesApart(slots, acks', oe')
  BY <1>4, PricesKept DEF Aside
<1>6. TurnsApart(slots, oe', owner)
  <2>1. 1 \in Nat /\ \A i \in 1 .. Len(oe') : i + 1 \in 1 .. Len(oe) /\ oe'[i] = oe[i + 1]
    BY <1>3
  <2>2. TurnsApart(slots, oe, owner)
    BY DEF Aside
  <2> QED
    BY <2>1, <2>2, TurnsKept
<1> QED
  BY <1>1, <1>5, <1>6 DEF Aside

\* One answer that is no replacement.
LEMMA ReplyTells ==
  ASSUME IInv, NEW m, NEW a, a.type # "Replaced", acks' = Append(acks, a)
  PROVE  NewsOf(m, acks', acks)
<1>1. acks \in Seq(Answers)
  BY SafeParts DEF IInv, SessionOK
<1>2. acks \in Seq(Answers \cup {a})
  BY <1>1
<1>3. \A i \in 1 .. Len(acks') : acks'[i] = a \/ (i \in 1 .. Len(acks) /\ acks'[i] = acks[i])
  BY <1>2
<1> QED
  BY <1>3 DEF NewsOf

\* A request that is matched tells of its replacement and of fills, and meets
\* no order of the other quote.
LEMMA MatchTells ==
  ASSUME IInv, PollStep, lost = 0, Aside(slots, acks, oe, owner), selfTrades \in Nat,
         NEW m, NEW e, NEW sym, NEW side, NEW here, Matches(m, e, sym, side, here)
  PROVE  NewsOf(m, acks', acks) /\ selfTrades' = selfTrades
<1> DEFINE o == Order(m.ref, TRUE, m.price, m.qty)
           rest == here[Other(side)]
           fills == MatchFills(here, side, o)
           c == View[<<sym, Other(side)>>]
           E == Executions(rest, fills, <<m.ref>>)
           n == Cardinality({i \in Clients(rest) : fills[i] > 0})
<1>1. /\ m = Head(oe) /\ sym \in Syms /\ side \in Sides /\ owner[m.ref] = <<sym, side>>
      /\ e \in Answers /\ e.ref = m.ref /\ e.price = m.price
      /\ \/ e.type = "Accepted" /\ m.type = "EnterOrder"
         \/ e.type = "Replaced" /\ m.type = "ReplaceOrder" /\ Holds(View[owner[m.ref]], m.orig)
  BY DEF Matches
<1>2. o \in Orders /\ o.client /\ o.qty \in Nat /\ o.price = m.price /\ o.price \in Nat /\ o.id = m.ref /\ m.ref \in Nat
  <2>1. o \in Orders /\ o.client /\ o.qty \in Nat /\ o.price = m.price /\ m.ref \in Nat
    BY NewOrder
  <2> QED
    BY <2>1 DEF Order, Orders
<1>3. rest \in Seq(Orders) /\ Shows(rest, c) /\ FillsFit(rest, fills) /\ fills \in Seq(Int)
  <2>1. o = Order(m.ref, TRUE, m.price, m.qty) /\ rest = here[Other(side)] /\ fills = MatchFills(here, side, o)
    OBVIOUS
  <2> HIDE DEF o, rest, fills
  <2> QED
    BY <2>1, MatchedBook
<1>4. acks' = acks \o <<e>> \o E \o << >> /\ selfTrades' = selfTrades + n
  BY <1>2 DEF Matches, ProcessOrder, Answer
<1>5. fills = Fills(rest, Crossing(Other(side), o.price, rest), o.qty)
  BY DEF MatchFills
<1>6. Trade(E, rest, c, fills, <<m.ref>>)
  <2> HIDE DEF rest, fills, c
  <2> QED
    BY <1>2, <1>3 DEF Trade
<1> HIDE DEF o, rest, fills, c, E
<1>7. n = 0
  <2>1. c.qty > 0 => Clear(side, o.price, c.price)
    <3>1. oe # << >> /\ New(m) /\ (m.type = "ReplaceOrder" => Holds(View[<<sym, side>>], m.orig))
      BY <1>1 DEF PollStep, New
    <3> SUFFICES ASSUME View[<<sym, Other(side)>>].qty > 0 PROVE Clear(side, m.price, View[<<sym, Other(side)>>].price)
      BY <1>2 DEF c
    <3> QED
      BY <1>1, <3>1, NoMeeting
  <2> QED
    BY <1>1, <1>2, <1>3, <1>5, <2>1, NothingMet
<1> HIDE DEF n
<1>8. selfTrades' = selfTrades
  BY <1>4, <1>7
<1>9. E \in Seq(Answers) /\ \A j \in 1 .. Len(E) : E[j].type = "Executed"
  BY <1>6, ExecutionsFacts DEF Fill
<1>10. acks \in Seq(Answers)
  BY SafeParts DEF IInv, SessionOK
<1> DEFINE f == <<e>>
<1>11. Joined(acks', acks, f \o E, Answers) /\ Joined(f \o E, f, E, Answers)
  BY <1>1, <1>4, <1>9, <1>10, TwoBatches
<1>12. \A i \in 1 .. Len(f) : f[i] = e
  OBVIOUS
<1> HIDE DEF f
<1> DEFINE w == f \o E
<1>13. Joined(acks', acks, w, Answers) /\ Joined(w, f, E, Answers)
  BY <1>11
<1> HIDE DEF w
<1>14. \A i \in 1 .. Len(acks') : (i \in 1 .. Len(acks) /\ acks'[i] = acks[i]) \/ \E j \in 1 .. Len(w) : acks'[i] = w[j]
  BY <1>13, ConcatParts
<1>15. \A i \in 1 .. Len(w) : (i \in 1 .. Len(f) /\ w[i] = f[i]) \/ \E j \in 1 .. Len(E) : w[i] = E[j]
  BY <1>13, ConcatParts
<1>16. NewsOf(m, acks', acks)
  BY <1>1, <1>9, <1>12, <1>14, <1>15 DEF NewsOf
<1> QED
  BY <1>8, <1>16

\* Taking a request keeps the quotes in step, unless it is refused.
LEMMA PollInStep ==
  ASSUME IInv, PollOrderEntry, lost = 0, Aside(slots, acks, oe, owner), selfTrades \in Nat, ~outOfStep'
  PROVE  Aside(slots', acks', oe', owner') /\ selfTrades' = selfTrades
<1> DEFINE m == Head(oe)
<1>1. PollStep /\ DispatchOuch(m) /\ m = Head(oe) /\ owner' = owner
  BY DEF PollOrderEntry, PollStep, omsVars
<1>2. NoneRefused(acks', owner)
  <2>1. acks' \in Seq(Answers)
    <3>1. IInv'
      BY PollOrderEntryKeeps
    <3>2. Safe(View', slots', acks', oe', owner')
      BY <3>1 DEF IInv, SessionOK
    <3> QED
      BY <3>2, SafeParts
  <2>2. \A i \in DOMAIN acks' : acks'[i].type = "Rejected" => owner[acks'[i].ref] = TestKey
    BY <1>1 DEF PollOrderEntry, Refused
  <2> QED
    BY <2>1, <2>2 DEF NoneRefused
<1> HIDE DEF m
<1>3. NewsOf(m, acks', acks) /\ selfTrades' = selfTrades
  <2>1. ASSUME NEW a, Reply(a), a.type # "Replaced" PROVE NewsOf(m, acks', acks) /\ selfTrades' = selfTrades
    BY <2>1, ReplyTells DEF Reply
  <2>2. CASE m.type = "EnterOrder" /\ RememberUserRef(m.ref, VenueForSymbol(m.key[1])) /\ OnEnterOrder(m)
    <3>1. CASE m.key[1] \in Syms /\ m.price \in Band
      BY <1>1, <2>2, <3>1, EnterMatches, MatchTells
    <3>2. CASE ~(m.key[1] \in Syms /\ m.price \in Band)
      BY <2>1, <2>2, <3>2 DEF OnEnterOrder, Ack
    <3> QED
      BY <3>1, <3>2
  <2>3. CASE m.type = "CancelOrder" /\ OnCancelOrder(m, VenueForUserRef(m.ref))
    <3> DEFINE sym == VenueForUserRef(m.ref)
    <3>1. OnCancelOrder(m, sym)
      BY <2>3
    <3> HIDE DEF sym
    <3>2. CASE SideOf(sym, m.ref) = {}
      BY <2>1, <3>1, <3>2 DEF OnCancelOrder, Ack
    <3>3. CASE SideOf(sym, m.ref) # {}
      <4>1. PICK q : acks' = Append(acks, Ack("Canceled", m.ref, q, 0)) /\ selfTrades' = selfTrades
        BY <3>1, <3>3 DEF OnCancelOrder
      <4>2. Ack("Canceled", m.ref, q, 0).type # "Replaced"
        BY DEF Ack
      <4> QED
        BY <4>1, <4>2, ReplyTells
    <3> QED
      BY <3>2, <3>3
  <2>4. CASE m.type = "ReplaceOrder" /\ RememberUserRef(m.ref, VenueForUserRef(m.orig))
             /\ OnReplaceOrder(m, VenueForUserRef(m.orig))
    <3> DEFINE sym == VenueForUserRef(m.orig)
    <3>1. sym = VenueForUserRef(m.orig) /\ RememberUserRef(m.ref, sym) /\ OnReplaceOrder(m, sym)
      BY <2>4
    <3> HIDE DEF sym
    <3>2. CASE SideOf(sym, m.orig) = {} \/ m.price \notin Band
      BY <2>1, <3>1, <3>2 DEF OnReplaceOrder, Ack
    <3>3. CASE ~(SideOf(sym, m.orig) = {} \/ m.price \notin Band)
      BY <1>1, <2>4, <3>1, <3>3, ReplaceMatches, MatchTells
    <3> QED
      BY <3>2, <3>3
  <2> QED
    BY <1>1, <2>2, <2>3, <2>4 DEF DispatchOuch
<1> QED
  BY <1>1, <1>2, <1>3, PollAside

\* What reconcile asks of a slot s, and what it makes of it.
AsksIs(z, s, price, ref, s2) ==
  \/ /\ z = << >> /\ s2 = s
     /\ s.state = "Idle" => price = NoQuote
     /\ s.state = "Live" => price # NoQuote /\ s.price = price
  \/ \E m : /\ z = <<m>> /\ m.ref = ref /\ m.price = price /\ price # NoQuote /\ Allocates(s, price)
            /\ \/ m.type = "EnterOrder" /\ s.state = "Idle" /\ s2.state = "PendingNew" /\ s2.price = price
               \/ /\ m.type = "ReplaceOrder" /\ s.state = "Live"
                  /\ s2.state = "PendingReplace" /\ s2.pendingRef = ref /\ s2.price = s.price
  \/ \E m : /\ z = <<m>> /\ m.type = "CancelOrder" /\ price = NoQuote /\ s.state = "Live"
            /\ s2.state = "PendingCancel" /\ s2.price = s.price

\* reconcileSlot, decision by decision.
LEMMA RequestIs ==
  ASSUME NEW k, NEW s \in Slot, NEW price, NEW ref, NEW z, z = RequestOf(k, s, price, ref),
         NEW s2, s2 = SlotAfter(s, price, ref)
  PROVE  AsksIs(z, s, price, ref, s2)
<1>1. CASE Decision(s, price) = "Enter"
  <2>1. /\ z = <<EnterOrder(ref, k, QuoteQty, price)>>
        /\ s2 = [state |-> "PendingNew", userRef |-> ref, pendingRef |-> 0, price |-> price, leaves |-> QuoteQty]
    BY <1>1 DEF RequestOf, SlotAfter
  <2>2. s.state = "Idle" /\ price # NoQuote /\ Allocates(s, price)
    BY <1>1 DEF Decision, Allocates
  <2>3. PICK m : m = EnterOrder(ref, k, QuoteQty, price)
    OBVIOUS
  <2>4. m.ref = ref /\ m.price = price /\ m.type = "EnterOrder"
    BY <2>3 DEF EnterOrder
  <2> QED
    BY <2>1, <2>2, <2>3, <2>4 DEF AsksIs
<1>2. CASE Decision(s, price) = "Replace"
  <2>1. /\ z = <<ReplaceOrder(s.userRef, ref, QuoteQty, price)>>
        /\ s2 = [s EXCEPT !.state = "PendingReplace", !.pendingRef = ref]
    BY <1>2 DEF RequestOf, SlotAfter
  <2>2. s.state = "Live" /\ price # NoQuote /\ Allocates(s, price)
    BY <1>2 DEF Decision, Allocates
  <2>3. PICK m : m = ReplaceOrder(s.userRef, ref, QuoteQty, price)
    OBVIOUS
  <2>4. m.ref = ref /\ m.price = price /\ m.type = "ReplaceOrder"
    BY <2>3 DEF ReplaceOrder
  <2>5. s2.state = "PendingReplace" /\ s2.pendingRef = ref /\ s2.price = s.price
    BY <2>1 DEF Slot
  <2> QED
    BY <2>1, <2>2, <2>3, <2>4, <2>5 DEF AsksIs
<1>3. CASE Decision(s, price) = "Cancel"
  <2>1. z = <<CancelOrder(s.userRef)>> /\ s2 = [s EXCEPT !.state = "PendingCancel"]
    BY <1>3 DEF RequestOf, SlotAfter
  <2>2. s.state = "Live" /\ price = NoQuote
    BY <1>3 DEF Decision
  <2>3. PICK m : m = CancelOrder(s.userRef)
    OBVIOUS
  <2>4. m.type = "CancelOrder"
    BY <2>3 DEF CancelOrder
  <2>5. s2.state = "PendingCancel" /\ s2.price = s.price
    BY <2>1 DEF Slot
  <2> QED
    BY <2>1, <2>2, <2>3, <2>4, <2>5 DEF AsksIs
<1>4. CASE Decision(s, price) = "None"
  <2>1. z = << >> /\ s2 = s
    BY <1>4 DEF RequestOf, SlotAfter
  <2>2. (s.state = "Idle" => price = NoQuote) /\ (s.state = "Live" => price # NoQuote /\ s.price = price)
    BY <1>4 DEF Decision
  <2> QED
    BY <2>1, <2>2 DEF AsksIs
<1> QED
  BY <1>1, <1>2, <1>3, <1>4 DEF Decision

\* A side of the quote step: its request z, and the order id that is new.
Turned(z, k, price, ref) ==
  /\ k \in Key /\ AsksIs(z, slots[k], price, ref, slots'[k])
  /\ Allocates(slots[k], price) => ref \notin DOMAIN owner /\ owner'[ref] = k

\* The queue after the requests x and y.
Queued(x, y) ==
  /\ \A i \in 1 .. Len(oe') : \/ i \in 1 .. Len(oe) /\ oe'[i] = oe[i]
                              \/ i > Len(oe) /\ (x = <<oe'[i]>> \/ y = <<oe'[i]>>)
  /\ \A i, j \in 1 .. Len(oe') : i < j /\ i > Len(oe) => x = <<oe'[i]>> /\ y = <<oe'[j]>>

\* The quote step, side by side.
LEMMA QuoteTurns ==
  ASSUME IInv, NEW sym, NEW t, NEW rf, NEW d1, NEW d2, NEW x, NEW y, NEW p,
         QuoteSends(sym, t, rf, d1, d2, x, y, p)
  PROVE  /\ Turned(x, <<sym, d1>>, t[d1], rf[d1]) /\ Turned(y, <<sym, d2>>, t[d2], rf[d2])
         /\ sym \in Syms /\ d1 \in Sides /\ d2 \in Sides /\ d2 = Other(d1) /\ d1 # d2
         /\ \A k \in Key : k[1] # sym => slots'[k] = slots[k]
<1>1. Reconciles(sym, t, rf, d1, d2, x, y, slots, slots', owner, owner')
  BY DEF QuoteSends
<1>2. /\ sym \in Syms /\ d1 \in Sides /\ d2 \in Sides /\ d1 # d2
      /\ \A d \in Sides :
           Allocates(slots[<<sym, d>>], t[d]) => rf[d] \notin DOMAIN owner /\ owner'[rf[d]] = <<sym, d>>
      /\ x = RequestOf(<<sym, d1>>, slots[<<sym, d1>>], t[d1], rf[d1])
      /\ y = RequestOf(<<sym, d2>>, slots[<<sym, d2>>], t[d2], rf[d2])
      /\ \A k \in Key : slots'[k] = IF k[1] = sym THEN SlotAfter(slots[k], t[k[2]], rf[k[2]]) ELSE slots[k]
  BY <1>1 DEF Reconciles
<1>3. ASSUME NEW d \in Sides, NEW z, z = RequestOf(<<sym, d>>, slots[<<sym, d>>], t[d], rf[d])
      PROVE  Turned(z, <<sym, d>>, t[d], rf[d])
  <2>1. <<sym, d>> \in Key /\ <<sym, d>>[1] = sym /\ <<sym, d>>[2] = d
    BY <1>2, KeyParts
  <2>2. slots[<<sym, d>>] \in Slot
    BY <2>1 DEF IInv, SlotsTyped
  <2>3. slots'[<<sym, d>>] = SlotAfter(slots[<<sym, d>>], t[d], rf[d])
    BY <1>2, <2>1
  <2>4. AsksIs(z, slots[<<sym, d>>], t[d], rf[d], slots'[<<sym, d>>])
    BY <1>3, <2>2, <2>3, RequestIs
  <2> QED
    BY <1>2, <2>1, <2>4 DEF Turned
<1>4. d2 = Other(d1)
  BY <1>2 DEF Other, Sides
<1> QED
  BY <1>2, <1>3, <1>4

\* The requests of the quote step follow those under way.
LEMMA QuoteQueued ==
  ASSUME IInv, NEW x, NEW y, NEW p, Picks(p, x, y), Joined(oe', oe, p, Asks)
  PROVE  Queued(x, y)
<1>1. /\ Len(oe) \in Nat /\ Len(p) \in Nat /\ Len(oe') = Len(oe) + Len(p)
      /\ \A i \in 1 .. Len(oe) : oe'[i] = oe[i]
      /\ \A i \in 1 .. Len(oe') :
           (i \in 1 .. Len(oe)) \/ (i - Len(oe) \in 1 .. Len(p) /\ oe'[i] = p[i - Len(oe)] /\ i > Len(oe))
  BY ConcatParts
<1>2. CASE p = << >>
  <2>1. Len(p) = 0
    BY <1>2
  <2> QED
    BY <1>1, <2>1 DEF Queued
<1>3. ASSUME NEW m \in Asks, p = <<m>>, x = <<m>> \/ y = <<m>> PROVE Queued(x, y)
  <2>1. Len(p) = 1 /\ p[1] = m
    BY <1>3
  <2>2. \A i \in 1 .. Len(oe') : i \notin 1 .. Len(oe) => i = Len(oe) + 1 /\ oe'[i] = m
    BY <1>1, <2>1
  <2>3. \A i \in 1 .. Len(oe') :
           (i \in 1 .. Len(oe) /\ oe'[i] = oe[i]) \/ (i > Len(oe) /\ (x = <<oe'[i]>> \/ y = <<oe'[i]>>))
    BY <1>1, <1>3, <2>2
  <2>4. \A i, j \in 1 .. Len(oe') : ~(i < j /\ i > Len(oe))
    BY <1>1, <2>1
  <2> QED
    BY <2>3, <2>4 DEF Queued
<1>4. ASSUME NEW m \in Asks, NEW n \in Asks, p = <<m, n>>, x = <<m>>, y = <<n>> PROVE Queued(x, y)
  <2>1. Len(p) = 2 /\ p[1] = m /\ p[2] = n
    BY <1>4
  <2>2. \A i \in 1 .. Len(oe') : i \notin 1 .. Len(oe) =>
           \/ i = Len(oe) + 1 /\ oe'[i] = m
           \/ i = Len(oe) + 2 /\ oe'[i] = n
    <3>1. ASSUME NEW i \in 1 .. Len(oe'), i \notin 1 .. Len(oe)
          PROVE  (i = Len(oe) + 1 /\ oe'[i] = m) \/ (i = Len(oe) + 2 /\ oe'[i] = n)
      <4>1. i - Len(oe) \in 1 .. 2 /\ oe'[i] = p[i - Len(oe)] /\ i \in Nat
        BY <1>1, <2>1, <3>1
      <4>2. i - Len(oe) = 1 \/ i - Len(oe) = 2
        BY <4>1
      <4>3. CASE i - Len(oe) = 1
        BY <1>1, <2>1, <4>1, <4>3
      <4>4. CASE i - Len(oe) = 2
        BY <1>1, <2>1, <4>1, <4>4
      <4> QED
        BY <4>2, <4>3, <4>4
    <3> QED
      BY <3>1
  <2>3. ASSUME NEW i \in 1 .. Len(oe')
        PROVE  (i \in 1 .. Len(oe) /\ oe'[i] = oe[i]) \/ (i > Len(oe) /\ (x = <<oe'[i]>> \/ y = <<oe'[i]>>))
    BY <1>1, <1>4, <2>2
  <2>4. ASSUME NEW i \in 1 .. Len(oe'), NEW j \in 1 .. Len(oe'), i < j, i > Len(oe)
        PROVE  x = <<oe'[i]>> /\ y = <<oe'[j]>>
    <3>1. i = Len(oe) + 1 /\ j = Len(oe) + 2
      BY <1>1, <2>1, <2>4
    <3>2. oe'[i] = m /\ oe'[j] = n
      BY <1>1, <2>2, <3>1
    <3> QED
      BY <1>4, <3>2
  <2> QED
    BY <2>3, <2>4 DEF Queued
<1> QED
  BY <1>2, <1>3, <1>4 DEF Picks

\* The two sides of a quote step for the quotes k1 and k2.
Turn(x, k1, p1, r1, y, k2, p2, r2) ==
  Turned(x, k1, p1, r1) /\ Turned(y, k2, p2, r2) /\ k1 # k2 /\ Queued(x, y)

\* A request of a quote that is new is for the order id that its side drew, and
\* a replacement is for the price that the side is to have.
LEMMA NewRequest ==
  ASSUME NEW x, NEW k1, NEW p1, NEW r1, NEW y, NEW k2, NEW p2, NEW r2, Turn(x, k1, p1, r1, y, k2, p2, r2),
         NEW i \in 1 .. Len(oe'), i > Len(oe), oe \in Seq(Asks), New(oe'[i])
  PROVE  /\ oe'[i].ref \notin DOMAIN owner
         /\ \/ oe'[i].ref = r1 /\ oe'[i].price = p1 /\ Allocates(slots[k1], p1) /\ x = <<oe'[i]>>
            \/ oe'[i].ref = r2 /\ oe'[i].price = p2 /\ Allocates(slots[k2], p2) /\ y = <<oe'[i]>>
<1> DEFINE n == oe'[i]
<1>1. x = <<n>> \/ y = <<n>>
  BY DEF Turn, Queued
<1>2. New(n)
  OBVIOUS
<1> HIDE DEF n
<1>3. ASSUME NEW z, NEW k, NEW price, NEW ref, Turned(z, k, price, ref), z = <<n>>
      PROVE  n.ref = ref /\ n.price = price /\ Allocates(slots[k], price) /\ ref \notin DOMAIN owner
  <2>1. \A m : z = <<m>> => m = n
    BY <1>3
  <2>2. z # << >>
    BY <1>3
  <2>3. n.ref = ref /\ n.price = price /\ Allocates(slots[k], price)
    BY <1>2, <1>3, <2>1, <2>2 DEF Turned, AsksIs, New
  <2> QED
    BY <1>3, <2>3 DEF Turned
<1>4. CASE x = <<n>>
  BY <1>3, <1>4 DEF n, Turn
<1>5. CASE y = <<n>>
  BY <1>3, <1>5 DEF n, Turn
<1> QED
  BY <1>1, <1>4, <1>5

\* The order ids of a quote were given out before.
LEMMA SlotRefs ==
  ASSUME IInv, NEW k \in Key
  PROVE  slots[k].state = "PendingReplace" => slots[k].pendingRef \in DOMAIN owner
<1>1. KeyAt(View, slots, acks, oe, owner, k)
  BY SafeParts DEF IInv, SessionOK
<1>2. Good(slots[k], RefsOf(owner, k))
  BY <1>1 DEF KeyAt, KeyInv, KeyTyped
<1> QED
  BY <1>2 DEF Good, RefsOf

\* A quote that the step leaves alone heads where it headed.
LEMMA HeadsKept ==
  ASSUME IInv, NEW x, NEW k1, NEW p1, NEW r1, NEW y, NEW k2, NEW p2, NEW r2, Turn(x, k1, p1, r1, y, k2, p2, r2),
         NEW k \in Key, slots'[k] = slots[k], NEW p, HeadsTo(slots'[k], acks, oe', p)
  PROVE  HeadsTo(slots[k], acks, oe, p)
<1>1. oe \in Seq(Asks)
  BY SafeParts DEF IInv, SessionOK
<1>2. ASSUME slots[k].state = "PendingReplace",
             NEW i \in 1 .. Len(oe'), oe'[i].type = "ReplaceOrder", oe'[i].ref = slots[k].pendingRef
      PROVE  i \in 1 .. Len(oe) /\ oe[i] = oe'[i]
  <2>1. CASE i > Len(oe)
    <3>1. oe'[i].ref \notin DOMAIN owner
      BY <1>1, <1>2, <2>1, NewRequest DEF New
    <3> QED
      BY <1>2, <3>1, SlotRefs
  <2>2. CASE ~(i > Len(oe))
    BY <2>2 DEF Turn, Queued
  <2> QED
    BY <2>1, <2>2
<1> QED
  BY <1>2 DEF HeadsTo

\* A quote that the step may ask for heads for its new price, or is withdrawn.
LEMMA HeadsNew ==
  ASSUME IInv, NEW x, NEW k1, NEW p1, NEW r1, NEW y, NEW k2, NEW p2, NEW r2, Turn(x, k1, p1, r1, y, k2, p2, r2),
         NEW z, NEW k, NEW price, NEW ref, Turned(z, k, price, ref),
         (k = k1 /\ price = p1 /\ ref = r1) \/ (k = k2 /\ price = p2 /\ ref = r2),
         ~Pending(slots[k]), NEW p, HeadsTo(slots'[k], acks, oe', p)
  PROVE  /\ price # NoQuote => p = price
         /\ price = NoQuote => HeadsTo(slots[k], acks, oe, p)
<1>1. oe \in Seq(Asks) /\ \A i \in 1 .. Len(acks) : acks[i].ref \in DOMAIN owner
  BY SafeParts DEF IInv, SessionOK
<1>2. k \in Key /\ AsksIs(z, slots[k], price, ref, slots'[k])
      /\ (Allocates(slots[k], price) => ref \notin DOMAIN owner /\ owner'[ref] = k)
  BY DEF Turned
<1>3. slots[k].state \in {"Idle", "Live"}
  BY DEF Pending
<1>4. CASE slots'[k] = slots[k] /\ (slots[k].state = "Idle" => price = NoQuote)
           /\ (slots[k].state = "Live" => price # NoQuote /\ slots[k].price = price)
  BY <1>3, <1>4 DEF HeadsTo
<1>5. CASE slots[k].state = "Idle" /\ slots'[k].state = "PendingNew" /\ slots'[k].price = price /\ price # NoQuote
  BY <1>5 DEF HeadsTo
<1>6. CASE /\ slots[k].state = "Live" /\ slots'[k].state = "PendingReplace" /\ slots'[k].pendingRef = ref
           /\ price # NoQuote /\ Allocates(slots[k], price)
  <2>1. PICK i \in 1 .. Len(oe') : oe'[i].type = "ReplaceOrder" /\ oe'[i].ref = ref /\ oe'[i].price = p
    <3>1. ~\E i \in 1 .. Len(acks) : acks[i].type = "Replaced" /\ acks[i].ref = slots'[k].pendingRef /\ acks[i].price = p
      BY <1>1, <1>2, <1>6
    <3> QED
      BY <1>6, <3>1 DEF HeadsTo
  <2>2. i > Len(oe)
    <3>1. CASE i \in 1 .. Len(oe) /\ oe'[i] = oe[i]
      <4>1. oe[i].ref \in DOMAIN owner
        BY <3>1, SafeParts DEF IInv, SessionOK
      <4> QED
        BY <1>2, <1>6, <2>1, <3>1, <4>1
    <3> QED
      BY <3>1 DEF Turn, Queued
  <2>3. \/ oe'[i].ref = r1 /\ oe'[i].price = p1 /\ Allocates(slots[k1], p1)
        \/ oe'[i].ref = r2 /\ oe'[i].price = p2 /\ Allocates(slots[k2], p2)
    BY <1>1, <2>1, <2>2, NewRequest DEF New
  <2>4. /\ Allocates(slots[k1], p1) => owner'[r1] = k1
        /\ Allocates(slots[k2], p2) => owner'[r2] = k2
        /\ k1 # k2
    BY DEF Turn, Turned
  <2> QED
    BY <1>2, <1>6, <2>1, <2>3, <2>4
<1>7. CASE slots[k].state = "Live" /\ slots'[k].state = "PendingCancel" /\ slots'[k].price = slots[k].price
           /\ price = NoQuote
  BY <1>7 DEF HeadsTo
<1> QED
  BY <1>2, <1>4, <1>5, <1>6, <1>7 DEF AsksIs

\* The quote step for the symbol sym: the side d1 first, then d2; the other
\* quotes are left alone.
QuoteTurn(sym, t, d1, d2, x, r1, y, r2) ==
  /\ sym \in Syms /\ d1 \in Sides /\ d2 \in Sides /\ d2 = Other(d1) /\ d1 # d2
  /\ Turn(x, <<sym, d1>>, t[d1], r1, y, <<sym, d2>>, t[d2], r2)
  /\ \A k \in Key : k[1] # sym => slots'[k] = slots[k]

\* Reconcile sends something only when neither side waits.
Unhurried(sym, x, y) == (x = << >> /\ y = << >>) \/ \A d \in Sides : ~Pending(slots[<<sym, d>>])

\* A side that asks for nothing is left as it was.
LEMMA NothingAsked ==
  ASSUME NEW k, NEW price, NEW ref, Turned(<< >>, k, price, ref)
  PROVE  slots'[k] = slots[k]
<1>1. \A m : <<m>> # << >>
  OBVIOUS
<1> QED
  BY <1>1 DEF Turned, AsksIs

\* The quote step keeps the two quotes of a symbol apart.
LEMMA QuotePrices ==
  ASSUME IInv, NEW sym, NEW t \in Targets, NEW d1, NEW d2, NEW x, NEW r1, NEW y, NEW r2,
         QuoteTurn(sym, t, d1, d2, x, r1, y, r2), Unhurried(sym, x, y), PricesApart(slots, acks, oe)
  PROVE  PricesApart(slots', acks, oe')
<1> DEFINE k1 == <<sym, d1>>
           k2 == <<sym, d2>>
<1>1. /\ sym \in Syms /\ d1 \in Sides /\ d2 \in Sides /\ d1 # d2
      /\ Turn(x, k1, t[d1], r1, y, k2, t[d2], r2)
      /\ \A k \in Key : k[1] # sym => slots'[k] = slots[k]
  BY DEF QuoteTurn
<1>2. ASSUME NEW k \in Key, NEW p \in Nat, slots'[k] = slots[k], HeadsTo(slots'[k], acks, oe', p)
      PROVE  HeadsTo(slots[k], acks, oe, p)
  <2> HIDE DEF k1, k2
  <2> QED
    BY <1>1, <1>2, HeadsKept
<1>3. CASE x = << >> /\ y = << >>
  <2>1. slots'[k1] = slots[k1] /\ slots'[k2] = slots[k2]
    <3> HIDE DEF k1, k2
    <3> QED
      BY <1>1, <1>3, NothingAsked DEF Turn
  <2>2. ASSUME NEW k \in Key PROVE slots'[k] = slots[k]
    <3>1. k = <<k[1], k[2]>> /\ k[2] \in Sides
      BY KeyParts
    <3>2. k[2] = d1 \/ k[2] = d2
      BY <1>1, <3>1 DEF Sides
    <3> QED
      BY <1>1, <2>1, <3>1, <3>2
  <2> QED
    BY <1>2, <2>2, PricesKept
<1>4. CASE \A d \in Sides : ~Pending(slots[<<sym, d>>])
  <2>1. ASSUME NEW d \in Sides, NEW p \in Nat, HeadsTo(slots'[<<sym, d>>], acks, oe', p)
        PROVE  /\ t[d] # NoQuote => p = t[d]
               /\ t[d] = NoQuote => HeadsTo(slots[<<sym, d>>], acks, oe, p)
    <3> DEFINE k == <<sym, d>>
               price == t[d]
               q1 == t[d1]
               q2 == t[d2]
    <3>1. PICK z, ref : Turned(z, k, price, ref) /\ ((k = k1 /\ price = q1 /\ ref = r1) \/ (k = k2 /\ price = q2 /\ ref = r2))
      <4>1. d = d1 \/ d = d2
        BY <1>1 DEF Sides
      <4> QED
        BY <1>1, <4>1 DEF Turn
    <3>2. ~Pending(slots[k]) /\ HeadsTo(slots'[k], acks, oe', p) /\ Turn(x, k1, q1, r1, y, k2, q2, r2)
      BY <1>1, <1>4, <2>1
    <3>3. (price # NoQuote => p = price) /\ (price = NoQuote => HeadsTo(slots[k], acks, oe, p))
      <4> HIDE DEF k, price, k1, k2, q1, q2
      <4> QED
        BY <3>1, <3>2, HeadsNew
    <3> QED
      BY <3>3
  <2>2. \/ t["Buy"] = NoQuote /\ t["Sell"] = NoQuote
        \/ t["Buy"] # NoQuote /\ t["Sell"] # NoQuote /\ t["Buy"] < t["Sell"]
    BY PricesAssumption DEF Targets, NoQuote, Sides
  <2>3. ASSUME NEW s \in Syms, NEW b \in Nat, NEW a \in Nat,
               HeadsTo(slots'[<<s, "Buy">>], acks, oe', b), HeadsTo(slots'[<<s, "Sell">>], acks, oe', a)
        PROVE  b < a
    <3> DEFINE bid == <<s, "Buy">>
               ask == <<s, "Sell">>
    <3>1. bid \in Key /\ ask \in Key /\ bid[1] = s /\ ask[1] = s
      BY KeyParts DEF Sides
    <3>2. HeadsTo(slots[bid], acks, oe, b) /\ HeadsTo(slots[ask], acks, oe, a) => b < a
      BY DEF PricesApart
    <3>3. CASE s # sym
      <4>1. slots'[bid] = slots[bid] /\ slots'[ask] = slots[ask]
        <5> HIDE DEF bid, ask
        <5> QED
          BY <1>1, <3>1, <3>3
      <4>2. HeadsTo(slots'[bid], acks, oe', b) /\ HeadsTo(slots'[ask], acks, oe', a)
        BY <2>3
      <4> HIDE DEF bid, ask
      <4> QED
        BY <1>2, <3>1, <3>2, <4>1, <4>2
    <3>4. CASE s = sym
      <4>1. /\ t["Buy"] # NoQuote => b = t["Buy"]
            /\ t["Buy"] = NoQuote => HeadsTo(slots[bid], acks, oe, b)
        BY <2>1, <2>3, <3>4 DEF Sides
      <4>2. /\ t["Sell"] # NoQuote => a = t["Sell"]
            /\ t["Sell"] = NoQuote => HeadsTo(slots[ask], acks, oe, a)
        BY <2>1, <2>3, <3>4 DEF Sides
      <4> HIDE DEF bid, ask
      <4> QED
        BY <2>2, <3>2, <4>1, <4>2
    <3> QED
      BY <3>3, <3>4
  <2> QED
    BY <2>3 DEF PricesApart
<1> QED
  BY <1>3, <1>4 DEF Unhurried

\* A slot that waits for a replacement asked for earlier is left as it was.
LEMMA ForceOld ==
  ASSUME IInv, NEW sym, NEW t, NEW d1, NEW d2, NEW x, NEW r1, NEW y, NEW r2,
         QuoteTurn(sym, t, d1, d2, x, r1, y, r2),
         NEW k \in Key, slots'[k].state = "PendingReplace", slots'[k].pendingRef \in DOMAIN owner
  PROVE  slots'[k] = slots[k]
<1>1. ASSUME NEW z, NEW price, NEW ref, Turned(z, k, price, ref)
      PROVE  slots'[k] = slots[k]
  BY <1>1 DEF Turned, AsksIs
<1>2. k = <<k[1], k[2]>> /\ k[2] \in Sides
  BY KeyParts
<1>3. d1 \in Sides /\ d2 \in Sides /\ d1 # d2 /\ (k[1] # sym => slots'[k] = slots[k])
      /\ Turned(x, <<sym, d1>>, t[d1], r1) /\ Turned(y, <<sym, d2>>, t[d2], r2)
  BY DEF QuoteTurn, Turn
<1>4. k[1] # sym \/ k = <<sym, d1>> \/ k = <<sym, d2>>
  BY <1>2, <1>3 DEF Sides
<1> QED
  BY <1>1, <1>3, <1>4

\* The side that reconcile asks for first clears the order of the other side,
\* which its own replacement is still to replace.
LEMMA FirstClears ==
  ASSUME IInv, NEW sym \in Syms, NEW t \in Targets, NEW d1 \in Sides, NEW d2 \in Sides, d1 # d2,
         SideOrder(sym, t) = <<d1, d2>>, t[d1] # NoQuote, PricesApart(slots, acks, oe),
         \A d \in Sides : ~Pending(slots[<<sym, d>>]), slots[<<sym, d2>>].state = "Live"
  PROVE  Clear(d1, t[d1], slots[<<sym, d2>>].price)
<1> DEFINE bid == slots[<<sym, "Buy">>]
           ask == slots[<<sym, "Sell">>]
<1>1. bid \in Slot /\ ask \in Slot /\ ~Pending(bid) /\ ~Pending(ask)
  BY KeyParts DEF IInv, SlotsTyped, Sides
<1>2. \A b, a \in Nat : HeadsTo(bid, acks, oe, b) /\ HeadsTo(ask, acks, oe, a) => b < a
  BY DEF PricesApart
<1>3. /\ t["Buy"] \in Nat /\ t["Sell"] \in Nat
      /\ t["Buy"] # NoQuote \/ t["Sell"] # NoQuote => t["Buy"] < t["Sell"] /\ t["Buy"] # NoQuote
  <2>1. \A d \in Sides : t[d] \in Nat
    BY TargetPrices
  <2>2. \/ t["Buy"] = NoQuote /\ t["Sell"] = NoQuote
        \/ t["Buy"] # NoQuote /\ t["Buy"] < t["Sell"]
    BY PricesAssumption DEF Targets, NoQuote, Sides
  <2> QED
    BY <2>1, <2>2 DEF Sides
<1>4. CASE FirstSide(sym, t) = "Sell"
  <2>1. d1 = "Sell" /\ d2 = "Buy"
    BY <1>4 DEF SideOrder
  <2>2. ask.state # "Idle" /\ t["Buy"] >= ask.price
    BY <1>4 DEF FirstSide
  <2>3. ask.state = "Live" /\ bid.state = "Live"
    BY <1>1, <2>1, <2>2 DEF Pending
  <2>4. bid.price \in Nat /\ ask.price \in Nat /\ bid.price < ask.price
    <3>1. bid.price \in Nat /\ ask.price \in Nat
      BY <1>1 DEF Slot
    <3> HIDE DEF bid, ask
    <3> QED
      BY <1>2, <2>3, <3>1 DEF HeadsTo
  <2>5. bid.price < t["Sell"]
    <3>1. t["Buy"] < t["Sell"]
      BY <1>3, <2>1
    <3> HIDE DEF bid, ask
    <3> QED
      BY <1>3, <2>2, <2>4, <3>1
  <2> QED
    BY <2>1, <2>5 DEF Clear
<1>5. CASE FirstSide(sym, t) # "Sell"
  <2>1. d1 = "Buy" /\ d2 = "Sell"
    BY <1>5 DEF SideOrder
  <2>2. ~(t["Buy"] # NoQuote /\ ask.state # "Idle" /\ t["Buy"] >= ask.price)
    BY <1>5 DEF FirstSide
  <2>3. ask.state = "Live" /\ ask.price \in Nat
    BY <1>1, <2>1 DEF Slot
  <2>4. t["Buy"] < ask.price
    <3>1. t["Buy"] # NoQuote
      BY <2>1
    <3> HIDE DEF ask
    <3> QED
      BY <1>3, <2>2, <2>3, <3>1
  <2> QED
    BY <2>1, <2>4 DEF Clear
<1> QED
  BY <1>4, <1>5

\* m is all that is asked for one side, and n for the other.
TwoAsked(x, y, m, n) == x = <<m>> /\ y = <<n>>

\* A new order of a side with a replacement of the other side behind it, both
\* sent by this step: the first one clears the order that is replaced.
LEMMA TwoSent ==
  ASSUME IInv, NEW sym, NEW t \in Targets, NEW d1, NEW d2, NEW x, NEW r1, NEW y, NEW r2,
         QuoteTurn(sym, t, d1, d2, x, r1, y, r2), SideOrder(sym, t) = <<d1, d2>>,
         Unhurried(sym, x, y), PricesApart(slots, acks, oe),
         NEW m, NEW n, TwoAsked(x, y, m, n), New(m), n.type = "ReplaceOrder"
  PROVE  /\ owner'[m.ref] = <<sym, d1>> /\ owner'[n.ref] = <<sym, d2>>
         /\ Clear(d1, m.price, slots'[<<sym, d2>>].price)
<1> DEFINE k1 == <<sym, d1>>
           k2 == <<sym, d2>>
           p1 == t[d1]
           p2 == t[d2]
<1>1. /\ sym \in Syms /\ d1 \in Sides /\ d2 \in Sides /\ d1 # d2
      /\ Turned(x, k1, p1, r1) /\ Turned(y, k2, p2, r2)
  BY DEF QuoteTurn, Turn
<1>2. /\ \A j : x = <<j>> => j = m
      /\ \A j : y = <<j>> => j = n
      /\ x # << >> /\ y # << >>
  BY DEF TwoAsked
<1>3. m.ref = r1 /\ m.price = p1 /\ p1 # NoQuote /\ owner'[r1] = k1
  <2> HIDE DEF k1, k2, p1, p2
  <2>1. m.ref = r1 /\ m.price = p1 /\ p1 # NoQuote /\ Allocates(slots[k1], p1)
    BY <1>1, <1>2 DEF Turned, AsksIs, New
  <2> QED
    BY <1>1, <2>1 DEF Turned
<1>4. n.ref = r2 /\ owner'[r2] = k2 /\ slots[k2].state = "Live" /\ slots'[k2].price = slots[k2].price
  <2> HIDE DEF k1, k2, p1, p2
  <2>1. n.ref = r2 /\ slots[k2].state = "Live" /\ slots'[k2].price = slots[k2].price /\ Allocates(slots[k2], p2)
    BY <1>1, <1>2 DEF Turned, AsksIs
  <2> QED
    BY <1>1, <2>1 DEF Turned
<1>5. \A d \in Sides : ~Pending(slots[<<sym, d>>])
  BY <1>2 DEF Unhurried
<1>6. Clear(d1, t[d1], slots[<<sym, d2>>].price)
  BY <1>1, <1>3, <1>4, <1>5, FirstClears
<1> QED
  BY <1>3, <1>4, <1>6

\* The quote step keeps the requests apart that wait in the queue.
LEMMA QuoteQueue ==
  ASSUME IInv, NEW sym, NEW t \in Targets, NEW d1, NEW d2, NEW x, NEW r1, NEW y, NEW r2,
         QuoteTurn(sym, t, d1, d2, x, r1, y, r2), SideOrder(sym, t) = <<d1, d2>>,
         Unhurried(sym, x, y), Aside(slots, acks, oe, owner), Grows(owner, owner')
  PROVE  TurnsApart(slots', oe', owner')
<1>1. /\ oe \in Seq(Asks) /\ Queued(x, y) /\ PricesApart(slots, acks, oe) /\ TurnsApart(slots, oe, owner)
      /\ \A i \in 1 .. Len(oe) : oe[i] \in Asks /\ oe[i].ref \in DOMAIN owner
  BY SafeParts DEF QuoteTurn, Turn, Aside, IInv, SessionOK
<1>2. \A r \in DOMAIN owner : owner'[r] = owner[r]
  BY DEF Grows
<1>3. sym \in Syms /\ d1 \in Sides /\ d2 \in Sides /\ d1 # d2 /\ d2 = Other(d1)
      /\ Turn(x, <<sym, d1>>, t[d1], r1, y, <<sym, d2>>, t[d2], r2)
  BY DEF QuoteTurn
<1>4. ASSUME NEW s \in Syms, NEW d \in Sides, NEW i \in 1 .. Len(oe'), NEW j \in 1 .. Len(oe'), i < j,
             InTurn(slots', owner', s, d, oe'[i], oe'[j])
      PROVE  Clear(d, oe'[i].price, slots'[<<s, Other(d)>>].price)
  <2> DEFINE k == <<s, d>>
             f == <<s, Other(d)>>
             m == oe'[i]
             n == oe'[j]
  <2>1. /\ New(m) /\ owner'[m.ref] = k /\ InForce(slots'[k], m)
        /\ n.type = "ReplaceOrder" /\ owner'[n.ref] = f /\ InForce(slots'[f], n)
    BY <1>4 DEF InTurn
  <2>2. k \in Key /\ f \in Key /\ k # f
    BY KeyParts DEF Other, Sides
  <2>3. ASSUME NEW q \in Key, NEW a, a.type = "ReplaceOrder", InForce(slots'[q], a), a.ref \in DOMAIN owner
        PROVE  slots'[q] = slots[q]
    <3>1. slots'[q].state = "PendingReplace" /\ slots'[q].pendingRef \in DOMAIN owner
      BY <2>3 DEF InForce
    <3> QED
      BY <3>1, ForceOld
  <2>4. CASE ~(j > Len(oe))
    <3>1. j \in 1 .. Len(oe) /\ i \in 1 .. Len(oe) /\ m = oe[i] /\ n = oe[j]
      BY <1>1, <1>4, <2>4 DEF Queued
    <3>2. m.ref \in DOMAIN owner /\ n.ref \in DOMAIN owner /\ owner[m.ref] = k /\ owner[n.ref] = f
      BY <1>1, <1>2, <2>1, <3>1
    <3>3. InForce(slots[k], m)
      <4> HIDE DEF k, f, m, n
      <4> QED
        BY <2>1, <2>2, <2>3, <3>2 DEF InForce
    <3>4. slots'[f] = slots[f] /\ InForce(slots[f], n)
      <4> HIDE DEF k, f, m, n
      <4> QED
        BY <2>1, <2>2, <2>3, <3>2 DEF InForce
    <3>5. InTurn(slots, owner, s, d, oe[i], oe[j])
      BY <2>1, <3>1, <3>2, <3>3, <3>4 DEF InTurn
    <3>6. Clear(d, oe[i].price, slots[f].price)
      BY <1>1, <1>4, <3>1, <3>5 DEF TurnsApart
    <3> QED
      BY <3>1, <3>4, <3>6
  <2>5. CASE j > Len(oe) /\ ~(i > Len(oe))
    <3>1. i \in 1 .. Len(oe) /\ m = oe[i]
      BY <1>1, <2>5 DEF Queued
    <3>2. m.ref \in DOMAIN owner /\ owner[m.ref] = k /\ m \in Asks
      BY <1>1, <1>2, <2>1, <3>1
    <3>3. x # << >> \/ y # << >>
      <4>1. x = <<n>> \/ y = <<n>>
        BY <1>1, <2>5 DEF Queued
      <4> QED
        BY <4>1
    <3>4. s = sym
      <4>1. \/ n.ref = r1 /\ Allocates(slots[<<sym, d1>>], t[d1])
            \/ n.ref = r2 /\ Allocates(slots[<<sym, d2>>], t[d2])
        <5> HIDE DEF n
        <5>1. n = oe'[j]
          BY DEF n
        <5>2. New(oe'[j])
          BY <2>1, <5>1 DEF New
        <5> DEFINE k1 == <<sym, d1>>
                   k2 == <<sym, d2>>
                   p1 == t[d1]
                   p2 == t[d2]
        <5>3. Turn(x, k1, p1, r1, y, k2, p2, r2)
          BY <1>3
        <5> HIDE DEF k1, k2, p1, p2
        <5>4. (oe'[j].ref = r1 /\ Allocates(slots[k1], p1)) \/ (oe'[j].ref = r2 /\ Allocates(slots[k2], p2))
          BY <1>1, <2>5, <5>2, <5>3, NewRequest
        <5> QED
          BY <5>1, <5>4 DEF k1, k2, p1, p2
      <4>2. owner'[n.ref] = <<sym, d1>> \/ owner'[n.ref] = <<sym, d2>>
        BY <1>3, <4>1 DEF Turn, Turned
      <4> QED
        BY <2>1, <4>2
    <3>5. ~Pending(slots[k])
      BY <3>3, <3>4 DEF Unhurried
    <3>6. CASE m.type = "EnterOrder"
      <4>1. slots[k].state = "PendingNew"
        <5>1. KeyAt(View, slots, acks, oe, owner, k)
          BY <2>2, SafeParts DEF IInv, SessionOK
        <5>2. m \in AsksOf(oe, owner, k)
          BY <3>1, <3>2 DEF AsksOf
        <5> HIDE DEF k, m
        <5>3. AskOK(View[k], slots[k], m, RefsOf(owner, k))
          BY <5>1, <5>2 DEF KeyAt, KeyInv
        <5> QED
          BY <3>6, <5>3 DEF AskOK
      <4> QED
        BY <3>5, <4>1 DEF Pending
    <3>7. CASE m.type = "ReplaceOrder"
      <4>1. slots'[k] = slots[k] /\ slots'[k].state = "PendingReplace"
        <5> HIDE DEF k, m
        <5> QED
          BY <2>1, <2>2, <2>3, <3>2, <3>7 DEF InForce
      <4> QED
        BY <3>5, <4>1 DEF Pending
    <3> QED
      BY <2>1, <3>6, <3>7 DEF New
  <2>6. CASE i > Len(oe)
    <3>1. TwoAsked(x, y, m, n)
      BY <1>1, <1>4, <2>6 DEF Queued, TwoAsked
    <3>2. /\ owner'[m.ref] = <<sym, d1>> /\ owner'[n.ref] = <<sym, d2>>
          /\ Clear(d1, m.price, slots'[<<sym, d2>>].price)
      <4> HIDE DEF m, n
      <4> QED
        BY <1>1, <2>1, <3>1, TwoSent
    <3>3. s = sym /\ d = d1
      BY <2>1, <3>2
    <3> QED
      BY <1>3, <3>2, <3>3
  <2> QED
    BY <2>4, <2>5, <2>6
<1> QED
  BY <1>4 DEF TurnsApart

\* The quote step keeps the quotes in step when it finds neither side waiting.
LEMMA QuoteInStep ==
  ASSUME IInv, NEW sym \in Syms, NEW t \in Targets, Quote(sym, t), Aside(slots, acks, oe, owner), ~outOfStep'
  PROVE  Aside(slots', acks', oe', owner') /\ selfTrades' = selfTrades
<1>1. /\ acks' = acks /\ selfTrades' = selfTrades
      /\ Requests(sym, t) # << >> => \A d \in Sides : ~Pending(slots[<<sym, d>>])
  BY DEF Quote, Reconcile, venueVars
<1>2. PICK rf, d1, d2, x, y, p : QuoteSends(sym, t, rf, d1, d2, x, y, p)
  BY QuoteParts
<1>3. /\ SideOrder(sym, t) = <<d1, d2>> /\ Requests(sym, t) = x \o y /\ AtMostOne(x) /\ AtMostOne(y)
      /\ Picks(p, x, y) /\ Joined(oe', oe, p, Asks) /\ Grows(owner, owner')
  BY <1>2 DEF QuoteSends
<1> DEFINE r1 == rf[d1]
           r2 == rf[d2]
<1>4. QuoteTurn(sym, t, d1, d2, x, r1, y, r2)
  <2>1. /\ Turned(x, <<sym, d1>>, t[d1], rf[d1]) /\ Turned(y, <<sym, d2>>, t[d2], rf[d2])
        /\ d1 \in Sides /\ d2 \in Sides /\ d2 = Other(d1) /\ d1 # d2
        /\ \A k \in Key : k[1] # sym => slots'[k] = slots[k]
    BY <1>2, QuoteTurns
  <2>2. Queued(x, y)
    BY <1>3, QuoteQueued
  <2>3. <<sym, d1>> # <<sym, d2>>
    BY <2>1
  <2> QED
    BY <2>1, <2>2, <2>3 DEF QuoteTurn, Turn
<1> HIDE DEF r1, r2
<1>5. Unhurried(sym, x, y)
  <2>1. CASE x = << >> /\ y = << >>
    BY <2>1 DEF Unhurried
  <2>2. CASE ~(x = << >> /\ y = << >>)
    <3>1. x \in Seq(Asks) /\ y \in Seq(Asks)
      <4>1. \A m \in Asks : <<m>> \in Seq(Asks)
        OBVIOUS
      <4>2. << >> \in Seq(Asks)
        OBVIOUS
      <4> QED
        BY ONLY <1>3, <4>1, <4>2 DEF AtMostOne
    <3>2. x \o y # << >>
      BY <2>2, <3>1
    <3> QED
      BY <1>1, <1>3, <3>2 DEF Unhurried
  <2> QED
    BY <2>1, <2>2
<1>6. PricesApart(slots', acks, oe')
  BY <1>4, <1>5, QuotePrices DEF Aside
<1>7. TurnsApart(slots', oe', owner')
  BY <1>3, <1>4, <1>5, QuoteQueue
<1>8. NoneRefused(acks, owner')
  <2>1. \A i \in 1 .. Len(acks) : acks[i].ref \in DOMAIN owner
    BY SafeParts DEF IInv, SessionOK
  <2> QED
    BY <1>3, <2>1 DEF Aside, NoneRefused, Grows
<1> QED
  BY <1>1, <1>6, <1>7, <1>8 DEF Aside

\* A test order makes good no earlier loss.
LEMMA TestSent ==
  ASSUME IInv, SendTestOrder
  PROVE  lost' = 0 => lost = 0
<1> DEFINE m == EnterOrder(nextRef, TestKey, 1, 1)
           x == <<m>>
           y == << >>
<1>1. AllocRefs(<<TestKey>>) /\ Sent(x)
  BY DEF SendTestOrder, EncodeTestOrder
<1>2. nextRef \in Nat \ {0}
  BY <1>1, TestOrderRefs DEF IInv
<1>3. m \in Asks
  BY <1>2 DEF EnterOrder, Asks
<1> HIDE DEF m
<1>4. Sent(x \o y) /\ AtMostOne(x) /\ AtMostOne(y)
  <2>1. x \o y = x
    OBVIOUS
  <2>2. Sent(x \o y)
    BY <1>1, <2>1
  <2> QED
    BY <2>2, <1>3 DEF AtMostOne
<1>5. oe \in Seq(Asks) /\ lost \in Nat
  BY SafeParts DEF IInv, SessionOK, Counts
<1> HIDE DEF x, y
<1> QED
  BY <1>4, <1>5, SentParts

\* A test order is of no quote.
LEMMA TestInStep ==
  ASSUME IInv, SendTestOrder, Aside(slots, acks, oe, owner)
  PROVE  Aside(slots', acks', oe', owner') /\ selfTrades' = selfTrades
<1> DEFINE m == EnterOrder(nextRef, TestKey, 1, 1)
           x == <<m>>
           y == << >>
<1>1. AllocRefs(<<TestKey>>) /\ Sent(x) /\ UNCHANGED <<slots, acks, selfTrades>>
  BY DEF SendTestOrder, EncodeTestOrder, venueVars
<1>2. /\ RefsOK' /\ DOMAIN owner' = DOMAIN owner \cup {nextRef}
      /\ \A r \in DOMAIN owner : owner'[r] = owner[r]
      /\ nextRef \in Nat \ {0} /\ owner'[nextRef] = TestKey
  BY <1>1, TestOrderRefs DEF IInv
<1>3. Grows(owner, owner')
  BY <1>2, OwnerGrows
<1>4. m \in Asks /\ m.ref = nextRef /\ m.type = "EnterOrder"
  BY <1>2 DEF EnterOrder, Asks
<1>5. Sent(x \o y) /\ AtMostOne(x) /\ AtMostOne(y)
  <2> HIDE DEF m
  <2>1. x \o y = x
    OBVIOUS
  <2>2. Sent(x \o y)
    BY <1>1, <2>1
  <2> QED
    BY <2>2, <1>4 DEF AtMostOne
<1>6. Safe(View, slots, acks, oe, owner) /\ oe \in Seq(Asks) /\ lost \in Nat
  BY SafeParts DEF IInv, SessionOK, Counts
<1>7. /\ \A j : x = <<j>> => j = m
      /\ \A j : y # <<j>>
  <2> HIDE DEF m
  <2>1. Len(y) = 0 /\ \A j : Len(<<j>>) = 1
    OBVIOUS
  <2>2. \A j : x = <<j>> => j = m
    OBVIOUS
  <2> HIDE DEF x, y
  <2> QED
    BY <2>1, <2>2
<1> HIDE DEF m, x, y
<1>8. PICK p : Picks(p, x, y) /\ Joined(oe', oe, p, Asks)
  BY <1>5, <1>6, SentParts
<1>9. Queued(x, y)
  BY <1>8, QuoteQueued
<1>10. ASSUME NEW i \in 1 .. Len(oe')
       PROVE  (i \in 1 .. Len(oe) /\ oe'[i] = oe[i]) \/ oe'[i] = m
  BY <1>7, <1>9 DEF Queued
<1>11. \A k \in Key, p2 \in Nat : HeadsTo(slots[k], acks, oe', p2) => HeadsTo(slots[k], acks, oe, p2)
  BY <1>4, <1>10 DEF HeadsTo
<1>12. PricesApart(slots, acks, oe')
  BY <1>11, PricesKept DEF Aside
<1>13. TurnsApart(slots, oe', owner')
  <2>1. ASSUME NEW s \in Syms, NEW d \in Sides, NEW i \in 1 .. Len(oe'), NEW j \in 1 .. Len(oe'), i < j,
               InTurn(slots, owner', s, d, oe'[i], oe'[j])
        PROVE  Clear(d, oe'[i].price, slots[<<s, Other(d)>>].price)
    <3> DEFINE k == <<s, d>>
               f == <<s, Other(d)>>
    <3>1. k \in Key /\ f \in Key /\ TestKey \notin Key
      BY KeyParts DEF Other, Sides
    <3>2. owner'[oe'[i].ref] = k /\ owner'[oe'[j].ref] = f
      BY <2>1 DEF InTurn
    <3>3. oe'[i] # m /\ oe'[j] # m
      <4> HIDE DEF k, f
      <4> QED
        BY <1>2, <1>4, <3>1, <3>2
    <3>4. /\ i \in 1 .. Len(oe) /\ oe'[i] = oe[i] /\ j \in 1 .. Len(oe) /\ oe'[j] = oe[j]
      BY <1>10, <3>3
    <3>5. oe[i].ref \in DOMAIN owner /\ oe[j].ref \in DOMAIN owner
      BY <1>6, <3>4, SafeParts
    <3>6. InTurn(slots, owner, s, d, oe[i], oe[j])
      BY <1>2, <2>1, <3>4, <3>5 DEF InTurn
    <3>7. TurnsApart(slots, oe, owner)
      BY DEF Aside
    <3>8. Clear(d, oe[i].price, slots[<<s, Other(d)>>].price)
      BY <2>1, <3>4, <3>6, <3>7 DEF TurnsApart
    <3> QED
      BY <3>4, <3>8
  <2> QED
    BY <2>1 DEF TurnsApart
<1>14. NoneRefused(acks, owner')
  <2>1. \A i \in 1 .. Len(acks) : acks[i].ref \in DOMAIN owner
    BY <1>6, SafeParts
  <2> QED
    BY <1>2, <2>1 DEF Aside, NoneRefused
<1> QED
  BY <1>1, <1>12, <1>13, <1>14 DEF Aside

\* At the start no quote heads anywhere.
LEMMA StartInStep == Init => InStep
<1> SUFFICES ASSUME Init PROVE InStep
  OBVIOUS
<1>1. acks = << >> /\ oe = << >> /\ selfTrades = 0 /\ \A k \in Key : slots[k].state = "Idle"
  BY DEF Init, OmsInit, VenueInit, Settled
<1>2. Len(acks) = 0 /\ Len(oe) = 0
  BY <1>1
<1>3. NoneRefused(acks, owner) /\ TurnsApart(slots, oe, owner)
  BY <1>2 DEF NoneRefused, TurnsApart
<1>4. PricesApart(slots, acks, oe)
  <2>1. \A s \in Syms : slots[<<s, "Buy">>].state = "Idle"
    BY <1>1, KeyParts DEF Sides
  <2> QED
    BY <2>1 DEF PricesApart, HeadsTo
<1> QED
  BY <1>1, <1>3, <1>4 DEF InStep, Aside

\* No step takes the quotes out of step without saying so.
LEMMA StaysInStep ==
  ASSUME IInv, InStep, [Next]_vars
  PROVE  InStep'
<1>1. CASE UNCHANGED vars
  BY <1>1 DEF InStep, vars, omsVars, venueVars, entryVars
<1>2. CASE Next
  <2> SUFFICES ASSUME lost' = 0, ~outOfStep' PROVE Aside(slots', acks', oe', owner') /\ selfTrades' = 0
    BY DEF InStep
  <2>1. lost \in Nat /\ (lost = 0 /\ ~outOfStep => Aside(slots, acks, oe, owner) /\ selfTrades = 0)
    BY DEF IInv, Counts, InStep
  <2>2. ASSUME NEW sym \in Syms, NEW t \in Targets, Quote(sym, t)
        PROVE  Aside(slots', acks', oe', owner') /\ selfTrades' = 0
    <3>1. lost = 0
      <4>1. PICK rf, d1, d2, x, y, p : QuoteSends(sym, t, rf, d1, d2, x, y, p)
        BY <2>2, QuoteParts
      <4> QED
        BY <4>1 DEF QuoteSends
    <3>2. ~outOfStep
      BY <2>2 DEF Quote
    <3> QED
      BY <2>1, <2>2, <3>1, <3>2, QuoteInStep
  <2>3. CASE SendTestOrder
    <3>1. lost = 0
      BY <2>3, TestSent
    <3>2. ~outOfStep
      BY <2>3 DEF SendTestOrder
    <3> QED
      BY <2>1, <2>3, <3>1, <3>2, TestInStep
  <2>4. CASE PollOrderEntry
    <3>1. lost = 0 /\ ~outOfStep
      BY <2>4 DEF PollOrderEntry
    <3>2. selfTrades \in Nat
      BY <2>1, <3>1
    <3> QED
      BY <2>1, <2>4, <3>1, <3>2, PollInStep
  <2>5. CASE ApplyAck
    <3>1. lost = 0 /\ ~outOfStep
      BY <2>5 DEF ApplyAck, entryVars
    <3> QED
      BY <2>1, <2>5, <3>1, ApplyAckInStep
  <2>6. CASE LoseAck
    BY <2>1, <2>6 DEF LoseAck
  <2>7. CASE Mirror
    <3>1. lost = 0 /\ ~outOfStep
      BY <2>7 DEF Mirror
    <3> QED
      BY <2>1, <2>7, <3>1, MirrorInStep
  <2>8. CASE EndOfLoop
    <3>1. lost = 0 /\ ~outOfStep
      BY <2>8 DEF EndOfLoop
    <3> QED
      BY <2>1, <2>8, <3>1, EndOfLoopInStep
  <2> QED
    BY <1>2, <2>2, <2>3, <2>4, <2>5, <2>6, <2>7, <2>8 DEF Next
<1> QED
  BY <1>1, <1>2

\* The device trades with itself only out of step: after a side was sent a
\* request while the other one waited for an answer (reconcile), a request was
\* refused, or one was lost.
THEOREM SelfTradesMeanDisorder == Spec => []SelfTradeNeedsDisorder
<1>1. Init => InStep
  BY StartInStep
<1>2. IInv /\ InStep /\ [Next]_vars => InStep'
  BY StaysInStep
<1>3. IInv /\ InStep => SelfTradeNeedsDisorder
  BY DEF IInv, Counts, InStep, SelfTradeNeedsDisorder
<1> QED
  BY <1>1, <1>2, <1>3, OrderEntryInvariant, PTL DEF Spec
===============================================================================
