--------------------------- MODULE ColdFeedProofs ---------------------------
(***************************************************************************)
(* The device of ColdFeed.  Every behaviour of it is one of the link       *)
(* (MoldFeed) and one of the cold shard (ColdShard), so what is proved of  *)
(* each part alone holds of the hot and the cold thread together; and the  *)
(* tables of both threads hold what the feed says they should.             *)
(*                                                                         *)
(* The argument about the tables goes up from a message (below)            *)
(* to the loop over the messages of a packet, and from there to what each  *)
(* action does to the accounts of the queue between the threads.           *)
(***************************************************************************)
EXTENDS ColdFeed, SequenceTheorems, FiniteSetTheorems, WellFoundedInduction, TLAPS

-----------------------------------------------------------------------------
(***************************************************************************)
(* The market-data link, for every number of messages, every packet size   *)
(* and everything UDP may lose, repeat or reorder.                         *)
(*                                                                         *)
(* The argument: the packets ever sent partition the sequence numbers      *)
(* below the open packet (PacketsPartition), so m_expected, which is       *)
(* always the end of some packet, is never inside one (AtBoundary).  A     *)
(* packet that is not stale therefore lies wholly at or beyond m_expected, *)
(* while everything booked lies below it.                                  *)
(***************************************************************************)
\* The first sequence number that no packet in "sent" reaches.
Frontier == IF mdOpen THEN packer.seq ELSE nextSeq

PacketsPartition ==
  /\ mdOpen => packer.count > 0 /\ packer.seq > 0 /\ packer.seq + packer.count = nextSeq
  /\ \A p \in sent : p.count > 0 /\ p.seq > 0 /\ p.seq + p.count <= Frontier
  /\ \A p, q \in sent : p = q \/ p.seq + p.count <= q.seq \/ q.seq + q.count <= p.seq

AtBoundary ==
  /\ started => expected <= Frontier /\ joined <= expected
  /\ started => \A p \in sent : p.seq + p.count <= expected \/ expected <= p.seq
  /\ ~started => feedValid /\ book = {} /\ seen = {} /\ missed = 0 /\ gaps = 0

SeenBelowExpected ==
  /\ IsFiniteSet(seen)
  /\ started => seen \subseteq joined .. (expected - 1)

StartsPublished == starts \subseteq 1 .. (nextSeq - 1)

\* The inductive invariant of the link.
IInv ==
  /\ TypeOK
  /\ PacketsPartition
  /\ AtBoundary
  /\ SeenBelowExpected
  /\ StartsPublished
  /\ NothingAppliedTwice
  /\ ValidBooksAreComplete
  /\ MissedIsExact

\* A packet that onPacket does not call stale starts at or beyond m_expected,
\* so the overlap branch of onPacket is dead on this link.
LEMMA NotStaleIsAhead ==
  ASSUME IInv, NEW p \in sent, Result(p) # "Stale"
  PROVE  /\ p \in Packet /\ p.count > 0 /\ p.seq > 0
         /\ started => expected <= p.seq
         /\ Result(p) = "Gap" <=> (started /\ expected < p.seq)
BY DEF IInv, TypeOK, PacketsPartition, AtBoundary, Result, Packet

\* The hot books hold nothing at or beyond m_expected.
LEMMA BookBelowExpected ==
  ASSUME IInv PROVE  \A s \in book : started /\ s < expected /\ s \in Nat
BY DEF IInv, TypeOK, AtBoundary, ValidBooksAreComplete

\* The initial state of both ends.
LEMMA InitIInv == Init => IInv
<1> SUFFICES ASSUME Init PROVE IInv
  OBVIOUS
<1>1. TypeOK
  <2>1. mdOpen \in BOOLEAN /\ started \in BOOLEAN /\ feedValid \in BOOLEAN
    BY Zenon DEF Init
  <2>2. packer \in Packet
    BY DEF Init, Packet
  <2> QED
    BY <2>1, <2>2 DEF Init, TypeOK
<1>2. IsFiniteSet(seen)
  BY FS_EmptySet DEF Init
<1> QED
  BY <1>1, <1>2 DEF Init, IInv, PacketsPartition, AtBoundary, SeenBelowExpected,
     StartsPublished, NothingAppliedTwice, ValidBooksAreComplete, MissedIsExact

\* appendMarketData and Packer::append keep the partition and touch nothing the
\* device under test has read.
LEMMA AppendKeepsIInv ==
  ASSUME IInv, NEW isStart \in BOOLEAN, AppendMarketData(isStart)
  PROVE  IInv'
<1> USE DEF IInv
<1>0. Current \in Packet /\ Current.seq = Frontier /\ Current.seq + Current.count = nextSeq
      /\ Reset \in Packet /\ Reset.seq = nextSeq /\ Reset.count = 0
  BY DEF Current, Reset, Frontier, Packet, TypeOK, PacketsPartition
<1>1. TypeOK'
  BY <1>0 DEF TypeOK, AppendMarketData, Packet, dutVars
<1>2. Frontier' >= Frontier /\ Frontier' \in Nat /\ Frontier \in Nat
  BY <1>0, <1>1 DEF Frontier, AppendMarketData, Packet, TypeOK, PacketsPartition
<1>3. PacketsPartition'
  <2>1. CASE packer' = [Current EXCEPT !.count = @ + 1] /\ sent' = sent
    <3>1. packer'.seq = Current.seq /\ packer'.count = Current.count + 1 /\ mdOpen'
      BY <2>1, <1>0 DEF Packet, AppendMarketData
    <3>2. packer'.count > 0 /\ packer'.seq > 0 /\ packer'.seq + packer'.count = nextSeq'
      BY <3>1, <1>0 DEF Packet, AppendMarketData, TypeOK, Frontier, PacketsPartition
    <3>3. Frontier' = Frontier
      BY <3>1, <1>0 DEF Frontier
    <3> QED
      BY <2>1, <3>1, <3>2, <3>3 DEF PacketsPartition
  <2>2. CASE /\ Current.count > 0
             /\ sent' = sent \cup {Current}
             /\ packer' = [Reset EXCEPT !.count = @ + 1]
    <3>1. packer'.seq = nextSeq /\ packer'.count = 1 /\ mdOpen' /\ nextSeq' = nextSeq + 1
      BY <2>2, <1>0 DEF Packet, AppendMarketData
    <3>2. Frontier' = nextSeq /\ Frontier <= nextSeq /\ Frontier > 0
      BY <3>1, <1>0 DEF Frontier, TypeOK, PacketsPartition, Packet
    <3>3. \A p \in sent' : p.count > 0 /\ p.seq > 0 /\ p.seq + p.count <= Frontier'
      BY <3>2, <2>2, <1>0 DEF PacketsPartition, TypeOK, Packet
    <3>4. \A p, q \in sent' : p = q \/ p.seq + p.count <= q.seq \/ q.seq + q.count <= p.seq
      BY <2>2, <1>0 DEF PacketsPartition, TypeOK, Packet
    <3> QED
      BY <3>1, <3>2, <3>3, <3>4 DEF PacketsPartition, TypeOK
  <2> QED
    BY <2>1, <2>2 DEF AppendMarketData
<1>4. AtBoundary'
  BY <1>0, <1>2 DEF AtBoundary, AppendMarketData, dutVars, TypeOK, Packet, PacketsPartition
<1>5. SeenBelowExpected' /\ NothingAppliedTwice' /\ MissedIsExact'
  BY DEF SeenBelowExpected, NothingAppliedTwice, MissedIsExact, AppendMarketData, dutVars
<1>6. StartsPublished'
  BY DEF StartsPublished, AppendMarketData, TypeOK
<1>7. ValidBooksAreComplete'
  <2>1. started => expected <= nextSeq
    BY <1>0 DEF AtBoundary, TypeOK, Packet
  <2> QED
    BY <2>1 DEF ValidBooksAreComplete, AppendMarketData, dutVars, TypeOK
<1> QED
  BY <1>1, <1>3, <1>4, <1>5, <1>6, <1>7

\* flushMarketData hands the open packet over and moves the frontier behind it.
LEMMA FlushKeepsIInv ==
  ASSUME IInv, FlushMarketData
  PROVE  IInv'
<1> USE DEF IInv
<1>1. TypeOK'
  BY DEF TypeOK, FlushMarketData, dutVars
<1>2. Frontier' = nextSeq /\ Frontier = packer.seq /\ packer \in Packet
  BY DEF Frontier, FlushMarketData, TypeOK
<1>3. PacketsPartition'
  BY <1>2 DEF PacketsPartition, FlushMarketData, TypeOK, Packet
<1>4. AtBoundary'
  BY <1>2 DEF AtBoundary, PacketsPartition, FlushMarketData, dutVars, TypeOK, Packet
<1>5. SeenBelowExpected' /\ NothingAppliedTwice' /\ MissedIsExact' /\ ValidBooksAreComplete'
      /\ StartsPublished'
  BY DEF SeenBelowExpected, NothingAppliedTwice, MissedIsExact, ValidBooksAreComplete,
         StartsPublished, FlushMarketData, dutVars
<1> QED
  BY <1>1, <1>3, <1>4, <1>5

\* applyPacket: a used packet continues where the tracker stands, or opens a gap
\* that empties the books; in both cases the books stay complete.
LEMMA ApplyKeepsIInv ==
  ASSUME IInv, NEW p \in sent, ApplyPacket(p)
  PROVE  IInv'
<1> DEFINE end == p.seq + p.count
<1>1. /\ p \in Packet /\ p.count > 0 /\ p.seq > 0
      /\ started => expected <= p.seq
      /\ Result(p) = "Gap" <=> (started /\ expected < p.seq)
  BY NotStaleIsAhead DEF ApplyPacket
<1>2. p.seq \in Nat /\ p.count \in Nat /\ end \in Nat /\ p.seq < end
  BY <1>1 DEF Packet
<1>3. started' /\ expected' = end /\ (started => expected < end)
      /\ joined' = (IF started THEN joined ELSE p.seq)
  BY <1>1, <1>2 DEF ApplyPacket, Track, IInv, TypeOK
<1>4. UNCHANGED venueVars
  BY DEF ApplyPacket
<1>5. Messages(p) = p.seq .. (end - 1) /\ Messages(p) \subseteq Nat
  BY <1>2 DEF Messages
<1>6. TypeOK'
  <2>1. expected' \in Nat /\ joined' \in Nat
    BY <1>2, <1>3 DEF IInv, TypeOK
  <2>2. gaps' \in Nat /\ missed' \in Nat
    BY <1>1, <1>2 DEF ApplyPacket, Track, IInv, TypeOK
  <2>3. started' \in BOOLEAN /\ feedValid' \in BOOLEAN
    BY Zenon DEF ApplyPacket, Track, ApplyMessages
  <2>4. book' \subseteq Nat /\ seen' \subseteq Nat /\ again' \subseteq Nat
    BY <1>5 DEF ApplyPacket, ApplyMessages, IInv, TypeOK
  <2> QED
    BY <1>4, <2>1, <2>2, <2>3, <2>4 DEF venueVars, IInv, TypeOK
<1>7. PacketsPartition' /\ StartsPublished' /\ Frontier' = Frontier
  BY <1>4 DEF PacketsPartition, StartsPublished, Frontier, venueVars, IInv
<1>8. AtBoundary'
  BY <1>1, <1>2, <1>3, <1>4, <1>7
     DEF AtBoundary, PacketsPartition, IInv, TypeOK, venueVars, Packet
<1>9. NothingAppliedTwice'
  <2>1. book \cap Messages(p) = {}
    BY <1>1, <1>2, <1>5, BookBelowExpected DEF IInv, TypeOK
  <2> QED
    BY <2>1 DEF NothingAppliedTwice, IInv, ApplyPacket, ApplyMessages
<1>10. IsFiniteSet(seen') /\ seen' \subseteq joined' .. (expected' - 1)
       /\ Cardinality(seen') = Cardinality(seen) + p.count
  <2>1. seen' = seen \cup (p.seq .. (end - 1))
    BY <1>5 DEF ApplyPacket
  <2>2. IsFiniteSet(seen) /\ IsFiniteSet(p.seq .. (end - 1))
        /\ Cardinality(p.seq .. (end - 1)) = p.count
    <3>1. p.seq \in Int /\ end - 1 \in Int /\ ~(p.seq > end - 1) /\ (end - 1) - p.seq + 1 = p.count
      BY <1>2
    <3>2. IsFiniteSet(p.seq .. (end - 1))
          /\ Cardinality(p.seq .. (end - 1)) = (IF p.seq > end - 1 THEN 0 ELSE (end - 1) - p.seq + 1)
      BY <3>1, FS_Interval
    <3> QED
      BY <3>1, <3>2 DEF IInv, SeenBelowExpected
  <2>3. seen \cap (p.seq .. (end - 1)) = {}
    <3>1. CASE started
      <4>1. seen \subseteq joined .. (expected - 1) /\ joined \in Nat /\ expected \in Nat
        BY <3>1 DEF IInv, SeenBelowExpected, TypeOK
      <4> QED
        BY <3>1, <4>1, <1>1, <1>2
    <3>2. CASE ~started
      BY <3>2 DEF IInv, AtBoundary
    <3> QED
      BY <3>1, <3>2
  <2>4. Cardinality(seen') = Cardinality(seen) + p.count /\ IsFiniteSet(seen')
    <3>1. Cardinality(seen \cap (p.seq .. (end - 1))) = 0
      BY <2>3, FS_EmptySet
    <3>2. Cardinality(seen) \in Nat
      BY <2>2, FS_CardinalityType
    <3> QED
      <4>1. Cardinality(seen') = Cardinality(seen) + Cardinality(p.seq .. (end - 1))
                                 - Cardinality(seen \cap (p.seq .. (end - 1)))
        BY <2>1, <2>2, FS_Union
      <4>2. IsFiniteSet(seen')
        BY <2>1, <2>2, FS_Union
      <4> QED
        BY <2>2, <3>1, <3>2, <1>2, <4>1, <4>2
  <2>5. seen' \subseteq joined' .. (expected' - 1)
    <3>1. CASE started
      <4>1. joined' = joined /\ joined <= expected /\ expected <= p.seq
            /\ joined \in Nat /\ expected \in Nat
        BY <3>1, <1>1, <1>3 DEF IInv, AtBoundary, TypeOK
      <4>2. seen \subseteq joined .. (expected - 1)
        BY <3>1 DEF IInv, SeenBelowExpected
      <4>3. ASSUME NEW s \in seen' PROVE s \in joined' .. (expected' - 1)
        <5>1. CASE s \in seen
          BY <5>1, <4>1, <4>2, <1>2, <1>3
        <5>2. CASE s \in p.seq .. (end - 1)
          BY <5>2, <4>1, <1>2, <1>3
        <5> QED
          BY <5>1, <5>2, <2>1
      <4> QED
        BY <4>3
    <3>2. CASE ~started
      <4>1. joined' = p.seq /\ seen = {}
        BY <3>2, <1>3 DEF IInv, AtBoundary
      <4> QED
        BY <4>1, <2>1, <1>2, <1>3
    <3> QED
      BY <3>1, <3>2
  <2> QED
    BY <2>4, <2>5
<1>11. MissedIsExact'
  <2>1. Cardinality(seen) \in Nat
    BY FS_CardinalityType DEF IInv, SeenBelowExpected
  <2>2. CASE ~started
    <3>1. missed' = 0 /\ gaps' = 0 /\ Cardinality(seen) = 0
      BY <2>2, <1>1, FS_EmptySet DEF ApplyPacket, Track, IInv, AtBoundary
    <3> QED
      BY <2>2, <3>1, <1>2, <1>3, <1>10 DEF MissedIsExact
  <2>3. CASE started
    BY <2>1, <2>3, <1>1, <1>2, <1>3, <1>10
       DEF MissedIsExact, ApplyPacket, Track, IInv, TypeOK, AtBoundary
  <2> QED
    BY <2>2, <2>3
<1>12. ValidBooksAreComplete'
  <2> DEFINE resets == Messages(p) \cap starts
  <2>1. starts' = starts /\ starts \subseteq Nat
    BY <1>4 DEF venueVars, IInv, TypeOK
  <2>2. CASE resets # {}
    <3>1. feedValid' /\ book' = {s \in Messages(p) : \A k \in resets : k < s}
      BY <2>2 DEF ApplyPacket, ApplyMessages
    <3>2. joined' \in Nat /\ joined' <= p.seq
      BY <1>1, <1>2, <1>3 DEF IInv, TypeOK, AtBoundary
    <3>3. ASSUME NEW s \in joined' .. (end - 1),
                 \A k \in starts : k < s \/ k >= end
          PROVE  s \in Messages(p) /\ \A k \in resets : k < s
      <4>1. PICK r \in resets : TRUE
        BY <2>2
      <4>2. r < s /\ r >= p.seq /\ s \in Int
        BY <4>1, <3>3, <1>5, <1>2, <2>1
      <4>3. s \in Messages(p)
        BY <4>2, <1>5, <1>2, <2>1
      <4>4. \A k \in resets : k < s
        BY <3>3, <1>5, <1>2, <2>1
      <4> QED
        BY <4>3, <4>4
    <3>4. ASSUME NEW s \in Messages(p), \A k \in resets : k < s
          PROVE  s \in joined' .. (end - 1) /\ \A k \in starts : k < s \/ k >= end
      BY <3>2, <3>4, <1>5, <1>2, <2>1
    <3> QED
      BY <3>1, <3>3, <3>4, <1>3, <2>1 DEF ValidBooksAreComplete
  <2>3. CASE resets = {} /\ Result(p) = "Gap"
    <3>1. ~feedValid' /\ book' = {}
      BY <2>3 DEF ApplyPacket, ApplyMessages
    <3> QED
      BY <3>1 DEF ValidBooksAreComplete
  <2>4. CASE resets = {} /\ Result(p) # "Gap" /\ ~feedValid
    <3>1. ~feedValid' /\ book' = book
      BY <2>4 DEF ApplyPacket, ApplyMessages, IInv, TypeOK
    <3> QED
      BY <3>1, <2>4 DEF ValidBooksAreComplete, IInv, AtBoundary
  <2>5. CASE resets = {} /\ Result(p) # "Gap" /\ feedValid
    <3>1. feedValid' /\ book' = book \cup Messages(p)
      BY <2>5 DEF ApplyPacket, ApplyMessages
    <3>2. CASE started
      <4>1. expected = p.seq /\ joined' = joined /\ joined <= expected
        BY <3>2, <2>5, <1>1, <1>2, <1>3 DEF IInv, TypeOK, AtBoundary
      <4>2. book = {s \in joined .. (expected - 1) : \A k \in starts : k < s \/ k >= expected}
        BY <3>2, <2>5 DEF IInv, ValidBooksAreComplete
      <4>3. \A k \in starts : k < expected \/ k >= end
        BY <4>1, <2>5, <1>5, <1>2, <2>1
      <4>4. ASSUME NEW s
            PROVE  s \in book' <=> s \in joined .. (end - 1) /\ \A k \in starts : k < s \/ k >= end
        <5>1. CASE s \in Messages(p)
          BY <5>1, <3>1, <4>1, <4>3, <1>5, <1>2, <2>1 DEF IInv, TypeOK
        <5>2. CASE s \notin Messages(p)
          BY <5>2, <3>1, <4>1, <4>2, <4>3, <1>5, <1>2, <2>1 DEF IInv, TypeOK
        <5> QED
          BY <5>1, <5>2
      <4> QED
        BY <4>1, <4>4, <3>1, <1>3, <2>1 DEF ValidBooksAreComplete
    <3>3. CASE ~started
      <4>1. book' = p.seq .. (end - 1) /\ joined' = p.seq
        BY <3>1, <3>3, <1>3, <1>5 DEF IInv, AtBoundary
      <4>2. \A k \in starts : k < p.seq \/ k >= end
        BY <2>5, <1>5, <1>2, <2>1
      <4> QED
        BY <4>1, <4>2, <3>1, <1>2, <1>3, <2>1 DEF ValidBooksAreComplete
    <3> QED
      BY <3>2, <3>3
  <2> QED
    BY <2>2, <2>3, <2>4, <2>5
<1> QED
  BY <1>3, <1>6, <1>7, <1>8, <1>9, <1>10, <1>11, <1>12 DEF IInv, SeenBelowExpected

\* IInv is inductive.
LEMMA NextKeepsIInv == IInv /\ [Next]_vars => IInv'
<1> SUFFICES ASSUME IInv, [Next]_vars PROVE IInv'
  OBVIOUS
<1>1. CASE Next
  BY <1>1, AppendKeepsIInv, FlushKeepsIInv, ApplyKeepsIInv DEF Next
<1>2. CASE UNCHANGED vars
  BY <1>2 DEF vars, IInv, TypeOK, PacketsPartition, AtBoundary, SeenBelowExpected,
     StartsPublished, NothingAppliedTwice, ValidBooksAreComplete, MissedIsExact, Frontier
<1> QED
  BY <1>1, <1>2

LEMMA SpecIInv == Spec => []IInv
BY InitIInv, NextKeepsIInv, PTL DEF Spec

\* Types: every field keeps its type (TypeOK) in every behaviour of the link.
THEOREM FeedTypes == Spec => []TypeOK
<1>1. IInv => TypeOK
  BY DEF IInv
<1> QED
  BY <1>1, SpecIInv, PTL

\* No message reaches the same hot books twice (SequenceTracker::onPacket over
\* the packets of mold::Packer), under any loss, repetition and reordering.
THEOREM FeedNothingAppliedTwice == Spec => []NothingAppliedTwice
<1>1. IInv => NothingAppliedTwice
  BY DEF IInv
<1> QED
  BY <1>1, SpecIInv, PTL

\* Books that DutSession calls valid miss no message since the last
\* StartOfMessages or since the tracker's first packet.
THEOREM FeedValidBooksAreComplete == Spec => []ValidBooksAreComplete
<1>1. IInv => ValidBooksAreComplete
  BY DEF IInv
<1> QED
  BY <1>1, SpecIInv, PTL

\* The missed counter of SequenceTracker is exact, and a loss after the first
\* packet never goes unreported.
THEOREM FeedMissedIsExact == Spec => []MissedIsExact
<1>1. IInv => MissedIsExact
  BY DEF IInv
<1> QED
  BY <1>1, SpecIInv, PTL

-----------------------------------------------------------------------------
(***************************************************************************)
(* What the methods of dut::BookTable do to the books and to m_live, for   *)
(* every set of stocks: a table that is in order (TableOK) stays in order, *)
(* and each method changes the book of the stock it names and no other.    *)
(***************************************************************************)

-----------------------------------------------------------------------------
(***************************************************************************)
(* Tables of books.                                                        *)
(***************************************************************************)
Tables ==
  [scope : {"HotOnly", "ColdOnly"}, book : [Locates -> BookIds \cup {NoBook}],
   resolved : SUBSET HotStocks, hotBook : [HotStocks -> BookIds \cup {NoBook}],
   books : [BookIds -> [orders : SUBSET Nat, epoch : Nat]], epoch : Nat, live : Int]

\* A book belongs to one stock, a stock without a book has no orders, no book
\* is ahead of the table's epoch, and m_live is exact.
TableOK(t) ==
  /\ t \in Tables
  /\ \A l \in Locates : t.book[l] # NoBook => t.book[l][1] = l
  /\ \A l \in Locates : t.book[l] = NoBook =>
       \A i \in BookIds : i[1] = l => t.books[i].orders = {}
  /\ \A i \in BookIds : IsFiniteSet(t.books[i].orders) /\ t.books[i].epoch <= t.epoch
  /\ IsFiniteSet(LiveOrders(t)) /\ LiveIsExact(t)

\* The books of a stock.
LEMMA BooksOf ==
  /\ NoBook \notin BookIds
  /\ \A l \in Locates : OwnBook(l) \in BookIds /\ OwnBook(l)[1] = l
  /\ \A l \in Profiled : l \in Locates /\ ProfileBook(l) \in BookIds /\ ProfileBook(l)[1] = l
BY StocksAssumption DEF BookIds, OwnBook, ProfileBook, NoBook

\* What the fields of a table are.
LEMMA TableFields ==
  ASSUME NEW t \in Tables
  PROVE  /\ t.scope \in {"HotOnly", "ColdOnly"}
         /\ t.book \in [Locates -> BookIds \cup {NoBook}]
         /\ t.resolved \in SUBSET HotStocks
         /\ t.hotBook \in [HotStocks -> BookIds \cup {NoBook}]
         /\ t.books \in [BookIds -> [orders : SUBSET Nat, epoch : Nat]]
         /\ t.epoch \in Nat /\ t.live \in Int
         /\ \A i \in BookIds : /\ t.books[i] \in [orders : SUBSET Nat, epoch : Nat]
                               /\ t.books[i].orders \subseteq Nat /\ t.books[i].epoch \in Nat
         /\ t = [scope |-> t.scope, book |-> t.book, resolved |-> t.resolved,
                 hotBook |-> t.hotBook, books |-> t.books, epoch |-> t.epoch, live |-> t.live]
<1>1. t.books \in [BookIds -> [orders : SUBSET Nat, epoch : Nat]]
  BY DEF Tables
<1>2. \A i \in BookIds : t.books[i] \in [orders : SUBSET Nat, epoch : Nat]
  BY <1>1
<1>3. QED
  BY <1>1, <1>2 DEF Tables

\* Two tables with the same books, epoch and count are exact together.
LEMMA SameBooksSameLive ==
  ASSUME NEW t, NEW u, u.books = t.books, u.epoch = t.epoch, u.live = t.live
  PROVE  LiveOrders(u) = LiveOrders(t) /\ LiveIsExact(u) = LiveIsExact(t)
BY DEF LiveIsExact, LiveOrders

(***************************************************************************)
(* What a directory message may do: the stock is given a book if it has    *)
(* none, and a hot stock is resolved.                                      *)
(***************************************************************************)
Rebound(t, u, l) ==
  /\ u \in Tables
  /\ u.scope = t.scope /\ u.books = t.books /\ u.epoch = t.epoch /\ u.live = t.live
  /\ \A k \in Locates : k # l \/ t.book[k] # NoBook => u.book[k] = t.book[k]
  /\ u.book[l] # NoBook => u.book[l][1] = l

\* Rebinding keeps the table in order.
LEMMA ReboundIsOK ==
  ASSUME NEW t, NEW u, NEW l \in Locates, TableOK(t), Rebound(t, u, l)
  PROVE  TableOK(u)
<1>1. IsFiniteSet(LiveOrders(u)) /\ LiveIsExact(u)
  BY SameBooksSameLive DEF TableOK, Rebound
<1>2. \A k \in Locates : u.book[k] # NoBook => u.book[k][1] = k
  BY DEF TableOK, Rebound
<1>3. \A k \in Locates : u.book[k] = NoBook => t.book[k] = NoBook
  BY DEF Rebound
<1>4. QED
  BY <1>1, <1>2, <1>3 DEF TableOK, Rebound

\* create.
LEMMA CreateRebinds ==
  ASSUME NEW t, NEW l \in Locates, TableOK(t), t.book[l] = NoBook
  PROVE  /\ Rebound(t, Create(t, l), l) /\ Create(t, l).book[l] = OwnBook(l)
         /\ Create(t, l).hotBook = t.hotBook /\ Create(t, l).resolved = t.resolved
<1>1. t \in Tables
  BY DEF TableOK
<1> DEFINE u == [t EXCEPT !.book[l] = OwnBook(l)]
<1>2. /\ u.book = [t.book EXCEPT ![l] = OwnBook(l)]
      /\ u.scope = t.scope /\ u.books = t.books /\ u.epoch = t.epoch /\ u.live = t.live
      /\ u.hotBook = t.hotBook /\ u.resolved = t.resolved
  BY <1>1 DEF Tables
<1>3. u.book \in [Locates -> BookIds \cup {NoBook}]
  BY <1>1, <1>2, TableFields, BooksOf
<1>4. u \in Tables
  BY <1>1, <1>3 DEF Tables
<1>5. u.book[l] = OwnBook(l) /\ \A k \in Locates : k # l => u.book[k] = t.book[k]
  BY <1>1, <1>2, TableFields
<1> HIDE DEF u
<1>6. Rebound(t, u, l)
  BY <1>2, <1>4, <1>5, BooksOf DEF Rebound
<1>7. QED
  BY <1>2, <1>5, <1>6 DEF Create, u

\* Rebinding twice is rebinding.
LEMMA ReboundTwice ==
  ASSUME NEW t, NEW u, NEW v, NEW l \in Locates, Rebound(t, u, l), Rebound(u, v, l)
  PROVE  Rebound(t, v, l)
BY DEF Rebound

\* Resolving a stock, with or without showing its book, binds nothing.
LEMMA ResolveRebinds ==
  ASSUME NEW t, NEW l \in HotStocks, NEW r \in SUBSET HotStocks, TableOK(t)
  PROVE  /\ Rebound(t, [t EXCEPT !.resolved = r], l)
         /\ Rebound(t, [t EXCEPT !.resolved = r, !.hotBook[l] = t.book[l]], l)
<1> DEFINE u == [t EXCEPT !.resolved = r]
           v == [t EXCEPT !.resolved = r, !.hotBook[l] = t.book[l]]
<1>1. t \in Tables /\ l \in Locates /\ t.book[l] \in BookIds \cup {NoBook}
  BY StocksAssumption, TableFields DEF TableOK
<1>2. [t.hotBook EXCEPT ![l] = t.book[l]] \in [HotStocks -> BookIds \cup {NoBook}]
  BY <1>1, TableFields
<1>3. u \in Tables /\ v \in Tables
  BY <1>1, <1>2 DEF Tables
<1>4. /\ u.scope = t.scope /\ u.books = t.books /\ u.epoch = t.epoch /\ u.live = t.live
      /\ u.book = t.book
      /\ v.scope = t.scope /\ v.books = t.books /\ v.epoch = t.epoch /\ v.live = t.live
      /\ v.book = t.book
  BY <1>1 DEF Tables
<1>5. t.book[l] # NoBook => t.book[l][1] = l
  BY <1>1 DEF TableOK
<1> HIDE DEF u, v
<1>6. Rebound(t, u, l) /\ Rebound(t, v, l)
  BY <1>3, <1>4, <1>5 DEF Rebound
<1>7. QED
  BY <1>6 DEF u, v

(***************************************************************************)
(* onDirectory: only the stock that is named changes, and a hot table      *)
(* shows the book that it binds to a hot stock.                            *)
(***************************************************************************)
LEMMA DirectoryEffect ==
  ASSUME NEW t, NEW l \in Locates, TableOK(t)
  PROVE  /\ Rebound(t, OnDirectory(t, l), l)
         /\ OnDirectory(t, l).resolved \subseteq t.resolved \cup {l}
         /\ t.resolved \subseteq OnDirectory(t, l).resolved
         /\ \A k \in HotStocks : k # l => OnDirectory(t, l).hotBook[k] = t.hotBook[k]
         /\ t.scope = "HotOnly" /\ l \in HotStocks \ t.resolved =>
              /\ l \in OnDirectory(t, l).resolved
              /\ OnDirectory(t, l).book[l] # NoBook
              /\ OnDirectory(t, l).hotBook[l] = OnDirectory(t, l).book[l]
         /\ t.scope = "HotOnly" /\ l \notin HotStocks \ t.resolved
            /\ (l \in t.resolved => t.book[l] # NoBook) => OnDirectory(t, l) = t
<1> DEFINE bound == IF t.book[l] = NoBook /\ HasProfile(t, l)
                    THEN [t EXCEPT !.book[l] = ProfileBook(l)] ELSE t
           filled == IF bound.book[l] = NoBook THEN Create(bound, l) ELSE bound
           u == OnDirectory(t, l)
<1>0. t \in Tables
  BY DEF TableOK
<1>1. /\ Rebound(t, bound, l) /\ TableOK(bound)
      /\ bound.hotBook = t.hotBook /\ bound.resolved = t.resolved
  <2>1. CASE ~ (t.book[l] = NoBook /\ HasProfile(t, l))
    <3>1. bound = t
      BY <2>1
    <3>2. Rebound(t, t, l)
      BY <1>0 DEF Rebound, TableOK
    <3>3. QED
      BY <3>1, <3>2
  <2>2. CASE t.book[l] = NoBook /\ HasProfile(t, l)
    <3>1. l \in Profiled /\ ProfileBook(l) \in BookIds /\ ProfileBook(l)[1] = l
      BY <2>2, BooksOf DEF HasProfile
    <3> DEFINE v == [t EXCEPT !.book[l] = ProfileBook(l)]
    <3>2. /\ v.book = [t.book EXCEPT ![l] = ProfileBook(l)]
          /\ v.scope = t.scope /\ v.books = t.books /\ v.epoch = t.epoch /\ v.live = t.live
          /\ v.hotBook = t.hotBook /\ v.resolved = t.resolved
      BY <1>0 DEF Tables
    <3>3. v.book \in [Locates -> BookIds \cup {NoBook}]
      BY <1>0, <3>1, <3>2, TableFields
    <3>4. v \in Tables
      BY <1>0, <3>3 DEF Tables
    <3>5. v.book[l] = ProfileBook(l) /\ \A k \in Locates : k # l => v.book[k] = t.book[k]
      BY <1>0, <3>2, TableFields
    <3>6. bound = v
      BY <2>2
    <3> HIDE DEF v, bound
    <3>7. Rebound(t, v, l)
      BY <2>2, <3>1, <3>2, <3>4, <3>5 DEF Rebound
    <3>8. QED
      BY <3>2, <3>6, <3>7, ReboundIsOK
  <2>3. QED
    BY <2>1, <2>2
<1> HIDE DEF bound
<1>2. /\ Rebound(t, filled, l) /\ TableOK(filled)
      /\ filled.hotBook = t.hotBook /\ filled.resolved = t.resolved /\ filled.book[l] # NoBook
  <2>1. CASE bound.book[l] = NoBook
    <3>1. filled = Create(bound, l)
      BY <2>1
    <3>2. Rebound(bound, filled, l) /\ filled.book[l] = OwnBook(l)
          /\ filled.hotBook = bound.hotBook /\ filled.resolved = bound.resolved
      BY <1>1, <2>1, <3>1, CreateRebinds
    <3>3. OwnBook(l) # NoBook
      BY BooksOf
    <3> HIDE DEF filled
    <3>4. QED
      BY <1>1, <3>2, <3>3, ReboundTwice, ReboundIsOK
  <2>2. CASE bound.book[l] # NoBook
    BY <1>1, <2>2
  <2>3. QED
    BY <2>1, <2>2
<1> HIDE DEF filled
<1>3. u = IF l \in HotStocks \ t.resolved
          THEN IF t.scope = "ColdOnly" THEN [bound EXCEPT !.resolved = @ \cup {l}]
               ELSE [filled EXCEPT !.resolved = @ \cup {l}, !.hotBook[l] = filled.book[l]]
          ELSE IF t.scope = "HotOnly" THEN bound ELSE filled
  BY DEF OnDirectory, bound, filled
<1> HIDE DEF u
<1>4. t.resolved \subseteq HotStocks /\ t.scope \in {"HotOnly", "ColdOnly"}
      /\ DOMAIN t.hotBook = HotStocks
  BY <1>0, TableFields
<1>5. CASE l \in HotStocks \ t.resolved /\ t.scope = "ColdOnly"
  <2>1. u = [bound EXCEPT !.resolved = t.resolved \cup {l}]
    BY <1>1, <1>3, <1>5
  <2>2. Rebound(bound, u, l)
    BY <1>1, <1>4, <1>5, <2>1, ResolveRebinds
  <2>3. u.resolved = t.resolved \cup {l} /\ u.hotBook = t.hotBook
    BY <1>1, <2>1 DEF TableOK, Tables
  <2>4. QED
    BY <1>1, <1>5, <2>2, <2>3, ReboundTwice DEF u
<1>6. CASE l \in HotStocks \ t.resolved /\ t.scope = "HotOnly"
  <2>1. u = [filled EXCEPT !.resolved = t.resolved \cup {l}, !.hotBook[l] = filled.book[l]]
    BY <1>2, <1>3, <1>6
  <2>2. Rebound(filled, u, l)
    BY <1>2, <1>4, <1>6, <2>1, ResolveRebinds
  <2>3. u.resolved = t.resolved \cup {l} /\ u.book = filled.book
        /\ u.hotBook = [filled.hotBook EXCEPT ![l] = filled.book[l]]
    BY <1>2, <2>1 DEF TableOK, Tables
  <2>4. u.hotBook[l] = u.book[l] /\ \A k \in HotStocks : k # l => u.hotBook[k] = t.hotBook[k]
    BY <1>2, <1>4, <1>6, <2>3
  <2>5. QED
    BY <1>2, <1>6, <2>2, <2>3, <2>4, ReboundTwice DEF u
<1>7. CASE l \notin HotStocks \ t.resolved
  <2>1. CASE t.scope = "HotOnly"
    <3>1. u = bound
      BY <1>3, <1>7, <2>1
    <3>2. (l \in t.resolved => t.book[l] # NoBook) => bound = t
      BY <1>7, <2>1 DEF bound, HasProfile
    <3>3. QED
      BY <1>1, <1>7, <3>1, <3>2 DEF u
  <2>2. CASE t.scope # "HotOnly"
    BY <1>2, <1>3, <1>7, <2>2 DEF u
  <2>3. QED
    BY <2>1, <2>2
<1>8. QED
  BY <1>4, <1>5, <1>6, <1>7

\* What book i holds as of the table's epoch.
HeldIn(t, i) == IF t.books[i].epoch = t.epoch THEN t.books[i].orders ELSE {}

\* What message s of stock l does to a table that takes it.
Booked(t, u, l, s) ==
  /\ u \in Tables
  /\ u.scope = t.scope /\ u.resolved = t.resolved /\ u.hotBook = t.hotBook
  /\ u.epoch = t.epoch
  /\ u.book[l] \in BookIds /\ u.book[l][1] = l
  /\ \A k \in Locates : k # l \/ t.book[k] # NoBook => u.book[k] = t.book[k]
  /\ u.books[u.book[l]] = [orders |-> HeldIn(t, u.book[l]) \cup {s}, epoch |-> t.epoch]
  /\ \A i \in BookIds : i # u.book[l] => u.books[i] = t.books[i]
  /\ u.live = t.live + Cardinality(HeldIn(t, u.book[l]) \cup {s})
                     - Cardinality(HeldIn(t, u.book[l]))

\* A pair of a book and an order is counted if the book is of this epoch.
LEMMA LiveOrdersAre ==
  ASSUME NEW t
  PROVE  \A x : x \in LiveOrders(t) <=>
           \E i \in BookIds : t.books[i].epoch = t.epoch
                              /\ \E o \in t.books[i].orders : x = <<i, o>>
<1> TAKE x
<1> DEFINE Now == {b \in BookIds : t.books[b].epoch = t.epoch}
<1>1. x \in LiveOrders(t) <=> \E i \in Now : x \in {i} \X t.books[i].orders
  BY DEF LiveOrders
<1>2. \A i : x \in {i} \X t.books[i].orders <=> \E o \in t.books[i].orders : x = <<i, o>>
  OBVIOUS
<1>3. QED
  BY <1>1, <1>2

\* m_live stays exact when a message is booked.
LEMMA BookedIsOK ==
  ASSUME NEW t, NEW u, NEW l \in Locates, NEW s \in Nat, TableOK(t), Booked(t, u, l, s)
  PROVE  TableOK(u)
<1> DEFINE i == u.book[l]
           old == HeldIn(t, i)
<1>1. i \in BookIds /\ i[1] = l /\ u.books[i] = [orders |-> old \cup {s}, epoch |-> t.epoch]
      /\ \A b \in BookIds : b # i => u.books[b] = t.books[b]
  BY DEF Booked
<1>2. IsFiniteSet(old) /\ t.live = Cardinality(LiveOrders(t)) /\ t \in Tables
  BY <1>1, FS_EmptySet DEF TableOK, HeldIn, LiveIsExact
<1>3. u.epoch = t.epoch
  BY DEF Booked
<1>4. u.live = t.live + Cardinality(old \cup {s}) - Cardinality(old)
  BY DEF Booked
<1> HIDE DEF i, old
<1>5. LiveOrders(u) = LiveOrders(t) \cup {<<i, s>>}
  <2>1. ASSUME NEW x, x \in LiveOrders(u) PROVE x \in LiveOrders(t) \cup {<<i, s>>}
    <3>1. PICK b \in BookIds : u.books[b].epoch = u.epoch
                               /\ \E o \in u.books[b].orders : x = <<b, o>>
      BY <2>1, LiveOrdersAre
    <3>2. PICK o \in u.books[b].orders : x = <<b, o>>
      BY <3>1
    <3>3. CASE b # i
      BY <1>1, <1>3, <3>1, <3>2, <3>3, LiveOrdersAre
    <3>4. CASE b = i
      <4>1. o = s \/ (o \in old)
        BY <1>1, <3>2, <3>4
      <4>2. o \in old => t.books[i].epoch = t.epoch /\ o \in t.books[i].orders
        BY DEF old, HeldIn
      <4>3. QED
        BY <1>1, <3>2, <3>4, <4>1, <4>2, LiveOrdersAre
    <3>5. QED
      BY <3>3, <3>4
  <2>2. ASSUME NEW x, x \in LiveOrders(t) PROVE x \in LiveOrders(u)
    <3>1. PICK b \in BookIds : t.books[b].epoch = t.epoch
                               /\ \E o \in t.books[b].orders : x = <<b, o>>
      BY <2>2, LiveOrdersAre
    <3>2. PICK o \in t.books[b].orders : x = <<b, o>>
      BY <3>1
    <3>3. u.books[b].epoch = u.epoch /\ o \in u.books[b].orders
      BY <1>1, <1>3, <3>1, <3>2 DEF old, HeldIn
    <3>4. QED
      BY <3>2, <3>3, LiveOrdersAre
  <2>3. <<i, s>> \in LiveOrders(u)
    BY <1>1, <1>3, LiveOrdersAre
  <2>4. QED
    BY <2>1, <2>2, <2>3
<1>6. <<i, s>> \in LiveOrders(t) <=> s \in old
  <2>1. ASSUME <<i, s>> \in LiveOrders(t) PROVE s \in old
    <3>1. PICK b \in BookIds : t.books[b].epoch = t.epoch
                               /\ \E o \in t.books[b].orders : <<i, s>> = <<b, o>>
      BY <2>1, LiveOrdersAre
    <3>2. QED
      BY <3>1 DEF old, HeldIn
  <2>2. ASSUME s \in old PROVE <<i, s>> \in LiveOrders(t)
    <3>1. t.books[i].epoch = t.epoch /\ s \in t.books[i].orders
      BY <2>2 DEF old, HeldIn
    <3>2. QED
      BY <1>1, <3>1, LiveOrdersAre
  <2>3. QED
    BY <2>1, <2>2
<1>7. IsFiniteSet(LiveOrders(t))
  BY DEF TableOK
<1>8. IsFiniteSet(LiveOrders(u)) /\ LiveIsExact(u)
  <2>1. CASE s \in old
    <3>1. LiveOrders(u) = LiveOrders(t) /\ old \cup {s} = old
      BY <1>5, <1>6, <2>1
    <3>2. Cardinality(old) \in Nat /\ Cardinality(LiveOrders(t)) \in Nat
      BY <1>2, <1>7, FS_CardinalityType
    <3>0. Cardinality(old \cup {s}) = Cardinality(old)
      BY <3>1, Zenon
    <3>3. u.live = Cardinality(LiveOrders(t))
      BY ONLY <1>2, <1>4, <3>0, <3>2
    <3>4. QED
      BY <1>7, <3>1, <3>3 DEF LiveIsExact
  <2>2. CASE s \notin old
    <3>1. Cardinality(old \cup {s}) = Cardinality(old) + 1
      BY <1>2, <2>2, FS_AddElement
    <3>2. IsFiniteSet(LiveOrders(u))
          /\ Cardinality(LiveOrders(u)) = Cardinality(LiveOrders(t)) + 1
      BY <1>5, <1>6, <1>7, <2>2, FS_AddElement
    <3>3. Cardinality(old) \in Nat /\ Cardinality(LiveOrders(t)) \in Nat
      BY <1>2, <1>7, FS_CardinalityType
    <3>4. u.live = Cardinality(LiveOrders(u))
      BY ONLY <1>2, <1>4, <3>1, <3>2, <3>3
    <3>5. QED
      BY <3>2, <3>4 DEF LiveIsExact
  <2>3. QED
    BY <2>1, <2>2
<1>9. \A b \in BookIds : IsFiniteSet(u.books[b].orders) /\ u.books[b].epoch <= u.epoch
  <2>1. IsFiniteSet(old \cup {s})
    BY <1>2, FS_AddElement
  <2>2. u.books[i].orders = old \cup {s} /\ u.books[i].epoch <= u.epoch
    BY <1>1, <1>2, <1>3, TableFields
  <2>3. \A b \in BookIds : b # i =>
          IsFiniteSet(u.books[b].orders) /\ u.books[b].epoch <= u.epoch
    BY <1>1, <1>3 DEF TableOK
  <2>4. QED
    BY <2>1, <2>2, <2>3
<1>10. \A k \in Locates : u.book[k] # NoBook => u.book[k][1] = k
  BY <1>1 DEF TableOK, Booked, i
<1>11. ASSUME NEW k \in Locates, u.book[k] = NoBook, NEW b \in BookIds, b[1] = k
       PROVE  u.books[b].orders = {}
  <2>1. k # l /\ t.book[k] = NoBook
    BY <1>1, <1>11, BooksOf DEF Booked, i
  <2>2. b # i
    BY <1>1, <1>11, <2>1
  <2>3. QED
    BY <1>1, <1>11, <2>1, <2>2 DEF TableOK
<1>12. QED
  BY <1>8, <1>9, <1>10, <1>11 DEF TableOK, Booked

\* apply, for a message that the table takes.
LEMMA TakenIsBooked ==
  ASSUME NEW t, NEW l \in Locates, NEW s \in Nat, TableOK(t),
         \/ t.book[l] # NoBook
         \/ /\ t.scope = "HotOnly" => IsHot(t, l)
            /\ t.scope = "ColdOnly" => ~IsHot(t, l)
  PROVE  Booked(t, TableApply(t, "A", l, s), l, s)
<1> DEFINE u == IF t.book[l] = NoBook THEN Create(t, l) ELSE t
           i == u.book[l]
           c == Refreshed(u, i)
           v == [c EXCEPT !.books[i].orders = @ \cup {s},
                          !.live = @ + Cardinality(c.books[i].orders \cup {s})
                                     - Cardinality(c.books[i].orders)]
<1>1. TableApply(t, "A", l, s) = v
  BY DEF TableApply
<1>2. /\ Rebound(t, u, l) /\ TableOK(u) /\ u.resolved = t.resolved /\ u.hotBook = t.hotBook
      /\ i \in BookIds /\ i[1] = l
  <2>1. CASE t.book[l] = NoBook
    <3>1. u = Create(t, l)
      BY <2>1
    <3>2. /\ Rebound(t, u, l) /\ i = OwnBook(l)
          /\ u.resolved = t.resolved /\ u.hotBook = t.hotBook
      BY <2>1, <3>1, CreateRebinds
    <3> HIDE DEF u, i
    <3>3. QED
      BY <3>2, ReboundIsOK, BooksOf
  <2>2. CASE t.book[l] # NoBook
    <3>1. u = t
      BY <2>2
    <3>2. Rebound(t, t, l)
      BY DEF Rebound, TableOK
    <3>3. t.book[l] \in BookIds /\ t.book[l][1] = l
      BY <2>2, TableFields DEF TableOK
    <3>4. QED
      BY <3>1, <3>2, <3>3
  <2>3. QED
    BY <2>1, <2>2
<1> HIDE DEF u, i
<1>3. u \in Tables /\ u.books[i] \in [orders : SUBSET Nat, epoch : Nat] /\ u.epoch \in Nat
  BY <1>2, TableFields DEF TableOK
<1>4. /\ c \in Tables /\ c.books = [u.books EXCEPT ![i] = [orders |-> HeldIn(u, i), epoch |-> u.epoch]]
      /\ c.scope = u.scope /\ c.book = u.book /\ c.resolved = u.resolved
      /\ c.hotBook = u.hotBook /\ c.epoch = u.epoch /\ c.live = u.live
  <2>1. CASE u.books[i].epoch = u.epoch
    <3>1. c = u
      BY <2>1 DEF Refreshed
    <3>2. u.books[i] = [orders |-> HeldIn(u, i), epoch |-> u.epoch]
      BY <1>3, <2>1 DEF HeldIn
    <3>3. u.books = [u.books EXCEPT ![i] = [orders |-> HeldIn(u, i), epoch |-> u.epoch]]
      BY <1>2, <1>3, <3>2, TableFields
    <3>4. QED
      BY <1>3, <3>1, <3>3
  <2>2. CASE u.books[i].epoch # u.epoch
    <3>1. c = [u EXCEPT !.books[i] = [orders |-> {}, epoch |-> u.epoch]]
      BY <2>2 DEF Refreshed
    <3>2. HeldIn(u, i) = {}
      BY <2>2 DEF HeldIn
    <3>3. [u.books EXCEPT ![i] = [orders |-> {}, epoch |-> u.epoch]]
            \in [BookIds -> [orders : SUBSET Nat, epoch : Nat]]
      BY <1>2, <1>3, TableFields
    <3>4. QED
      BY <1>3, <3>1, <3>2, <3>3 DEF Tables
  <2>3. QED
    BY <2>1, <2>2
<1> HIDE DEF c
<1>5. HeldIn(u, i) = HeldIn(t, i)
  BY <1>2 DEF HeldIn, Rebound
<1> DEFINE old == HeldIn(t, i)
<1>6. old \subseteq Nat /\ c.books[i] = [orders |-> old, epoch |-> u.epoch]
      /\ \A b \in BookIds : b # i => c.books[b] = u.books[b]
  <2>1. HeldIn(u, i) \subseteq Nat
    BY <1>3 DEF HeldIn
  <2>2. QED
    BY <1>2, <1>3, <1>4, <1>5, <2>1, TableFields
<1> HIDE DEF old
<1>7. c.books[i].orders = old
  BY <1>6
<1>8. Cardinality(old \cup {s}) \in Nat /\ Cardinality(old) \in Nat
  <2>1. IsFiniteSet(old)
    BY <1>2, <1>5, FS_EmptySet DEF TableOK, HeldIn, old
  <2>2. IsFiniteSet(old \cup {s})
    BY <2>1, FS_AddElement
  <2>3. QED
    BY <2>1, <2>2, FS_CardinalityType
<1>9. v = [c EXCEPT !.books[i].orders = old \cup {s},
                    !.live = u.live + Cardinality(old \cup {s}) - Cardinality(old)]
  BY <1>4, <1>7
<1>10. /\ v.books = [c.books EXCEPT ![i] = [c.books[i] EXCEPT !.orders = old \cup {s}]]
       /\ v.live = u.live + Cardinality(old \cup {s}) - Cardinality(old)
       /\ v.scope = c.scope /\ v.book = c.book /\ v.resolved = c.resolved
       /\ v.hotBook = c.hotBook /\ v.epoch = c.epoch
  BY <1>4, <1>9 DEF Tables
<1>b. c.books \in [BookIds -> [orders : SUBSET Nat, epoch : Nat]]
  BY <1>4, TableFields
<1>r. [c.books[i] EXCEPT !.orders = old \cup {s}] = [orders |-> old \cup {s}, epoch |-> u.epoch]
  BY <1>6
<1>12. v \in Tables
  <2>1. [c.books EXCEPT ![i] = [orders |-> old \cup {s}, epoch |-> u.epoch]]
          \in [BookIds -> [orders : SUBSET Nat, epoch : Nat]]
    BY <1>b, <1>2, <1>3, <1>6
  <2>2. u.live + Cardinality(old \cup {s}) - Cardinality(old) \in Int
    BY <1>3, <1>8, TableFields
  <2>3. v = [c EXCEPT !.books = [c.books EXCEPT ![i] = [orders |-> old \cup {s}, epoch |-> u.epoch]],
                      !.live = u.live + Cardinality(old \cup {s}) - Cardinality(old)]
    BY <1>4, <1>9, <1>r
  <2>4. QED
    BY <1>4, <2>1, <2>2, <2>3 DEF Tables
<1> HIDE DEF v
<1>11. /\ v.books[i] = [orders |-> old \cup {s}, epoch |-> u.epoch]
       /\ \A b \in BookIds : b # i => v.books[b] = u.books[b]
  BY <1>b, <1>2, <1>6, <1>10, <1>r
<1>13. v.book[l] = i
  BY <1>4, <1>10 DEF i
<1>14. Booked(t, v, l, s)
  <2>1. v.books[v.book[l]] = [orders |-> HeldIn(t, v.book[l]) \cup {s}, epoch |-> t.epoch]
    BY <1>2, <1>11, <1>13 DEF old, Rebound
  <2>2. v.live = t.live + Cardinality(HeldIn(t, v.book[l]) \cup {s})
                       - Cardinality(HeldIn(t, v.book[l]))
    BY <1>2, <1>10, <1>13 DEF old, Rebound
  <2>3. \A b \in BookIds : b # v.book[l] => v.books[b] = t.books[b]
    BY <1>2, <1>11, <1>13 DEF Rebound
  <2>4. QED
    BY <1>2, <1>4, <1>10, <1>12, <1>13, <2>1, <2>2, <2>3 DEF Booked, Rebound
<1>15. QED
  BY <1>1, <1>14

\* apply, for a message that is not an order: at most a book is made.
LEMMA HaltRebinds ==
  ASSUME NEW t, NEW l \in Locates, NEW s, TableOK(t)
  PROVE  /\ Rebound(t, TableApply(t, "H", l, s), l)
         /\ TableApply(t, "H", l, s).resolved = t.resolved
         /\ TableApply(t, "H", l, s).hotBook = t.hotBook
         /\ t.book[l] # NoBook => TableApply(t, "H", l, s) = t
<1>1. Rebound(t, t, l)
  BY DEF Rebound, TableOK
<1>2. \/ TableApply(t, "H", l, s) = t
      \/ t.book[l] = NoBook /\ TableApply(t, "H", l, s) = Create(t, l)
  BY DEF TableApply
<1>3. QED
  BY <1>1, <1>2, CreateRebinds

\* clearAll: every book is empty as of the new epoch, and so is every book
\* that the strategy reads.
LEMMA ClearedIsOK ==
  ASSUME NEW t, TableOK(t)
  PROVE  /\ TableOK(ClearAll(t))
         /\ \A l \in Locates : Held(ClearAll(t), l) = {}
         /\ \A l \in HotStocks : HotBook(ClearAll(t), l) = {}
         /\ ClearAll(t).scope = t.scope /\ ClearAll(t).book = t.book
         /\ ClearAll(t).resolved = t.resolved /\ ClearAll(t).hotBook = t.hotBook
         /\ \A i \in BookIds : ClearAll(t).books[i].orders \subseteq t.books[i].orders
<1> DEFINE shown == {t.hotBook[l] : l \in HotStocks} \ {NoBook}
           u == ClearAll(t)
           empty == [orders |-> {}, epoch |-> t.epoch + 1]
<1>1. t \in Tables
  BY DEF TableOK
<1>2. u = [t EXCEPT !.epoch = t.epoch + 1, !.live = 0,
                    !.books = [i \in BookIds |-> IF i \in shown THEN empty ELSE t.books[i]]]
  BY <1>1 DEF ClearAll, Tables
<1>3. [i \in BookIds |-> IF i \in shown THEN empty ELSE t.books[i]]
        \in [BookIds -> [orders : SUBSET Nat, epoch : Nat]]
  BY <1>1, TableFields
<1> HIDE DEF shown, empty
<1>4. /\ u \in Tables
      /\ u.scope = t.scope /\ u.book = t.book /\ u.resolved = t.resolved
      /\ u.hotBook = t.hotBook /\ u.epoch = t.epoch + 1 /\ u.live = 0
      /\ u.books = [i \in BookIds |-> IF i \in shown THEN empty ELSE t.books[i]]
  <2> DEFINE bs == [i \in BookIds |-> IF i \in shown THEN empty ELSE t.books[i]]
  <2> HIDE DEF bs
  <2>1. u = [t EXCEPT !.epoch = t.epoch + 1, !.live = 0, !.books = bs]
    BY <1>2 DEF bs
  <2>2. bs \in [BookIds -> [orders : SUBSET Nat, epoch : Nat]] /\ t.epoch + 1 \in Nat
    BY <1>1, <1>3, TableFields DEF bs
  <2> HIDE DEF u
  <2>3. u = [scope |-> t.scope, book |-> t.book, resolved |-> t.resolved,
             hotBook |-> t.hotBook, books |-> bs, epoch |-> t.epoch + 1, live |-> 0]
    BY <1>1, <2>1 DEF Tables
  <2>4. u \in Tables
    BY <1>1, <2>2, <2>3, TableFields DEF Tables
  <2>5. QED
    BY <2>3, <2>4 DEF bs
<1> HIDE DEF u
<1>5. \A i \in BookIds : u.books[i] = empty \/ (i \notin shown /\ u.books[i] = t.books[i])
  BY <1>4
<1>6. empty.orders = {} /\ empty.epoch = t.epoch + 1 /\ IsFiniteSet({})
  BY FS_EmptySet DEF empty
<1>7. \A i \in BookIds : t.books[i].epoch <= t.epoch /\ IsFiniteSet(t.books[i].orders)
                         /\ t.books[i].epoch \in Nat /\ t.epoch \in Nat
  BY <1>1, TableFields DEF TableOK
<1>8. \A i \in BookIds : /\ u.books[i].epoch = u.epoch => u.books[i].orders = {}
                         /\ i \in shown => u.books[i].orders = {}
                         /\ IsFiniteSet(u.books[i].orders) /\ u.books[i].epoch <= u.epoch
                         /\ u.books[i].orders \subseteq t.books[i].orders
  <2> SUFFICES ASSUME NEW i \in BookIds
               PROVE  /\ u.books[i].epoch = u.epoch => u.books[i].orders = {}
                      /\ i \in shown => u.books[i].orders = {}
                      /\ IsFiniteSet(u.books[i].orders) /\ u.books[i].epoch <= u.epoch
                      /\ u.books[i].orders \subseteq t.books[i].orders
    OBVIOUS
  <2>1. CASE u.books[i] = empty
    <3>1. u.books[i].orders = {} /\ u.books[i].epoch = t.epoch + 1
      BY <1>6, <2>1
    <3>2. IsFiniteSet(u.books[i].orders)
      BY <1>6, <3>1, Zenon
    <3>3. QED
      BY <1>4, <1>7, <3>1, <3>2
  <2>2. CASE i \notin shown /\ u.books[i] = t.books[i]
    BY <1>4, <1>7, <2>2
  <2>3. QED
    BY <1>5, <2>1, <2>2
<1>9. LiveOrders(u) = {}
  BY <1>8, LiveOrdersAre
<1>10. IsFiniteSet(LiveOrders(u)) /\ LiveIsExact(u)
  BY <1>4, <1>9, FS_EmptySet DEF LiveIsExact
<1>11. TableOK(u)
  <2>1. \A l \in Locates : u.book[l] # NoBook => u.book[l][1] = l
    BY <1>4 DEF TableOK
  <2>2. \A l \in Locates : u.book[l] = NoBook =>
          \A i \in BookIds : i[1] = l => u.books[i].orders = {}
    BY <1>4, <1>8 DEF TableOK
  <2>3. QED
    BY <1>4, <1>8, <1>10, <2>1, <2>2 DEF TableOK
<1>12. \A l \in Locates : Held(u, l) = {}
  <2> SUFFICES ASSUME NEW l \in Locates PROVE Held(u, l) = {}
    OBVIOUS
  <2>1. u.book[l] = NoBook \/ u.book[l] \in BookIds
    BY <1>4, TableFields
  <2>2. QED
    BY <1>8, <2>1 DEF Held
<1>13. \A l \in HotStocks : HotBook(u, l) = {}
  <2> SUFFICES ASSUME NEW l \in HotStocks, u.hotBook[l] # NoBook PROVE HotBook(u, l) = {}
    BY DEF HotBook
  <2>1. u.hotBook[l] \in BookIds /\ u.hotBook[l] \in shown
    BY <1>1, <1>4, TableFields DEF shown
  <2>2. QED
    BY <1>8, <2>1 DEF HotBook
<1>14. QED
  BY <1>4, <1>8, <1>11, <1>12, <1>13 DEF u

\* Rebinding changes what no stock holds.
LEMMA ReboundHolds ==
  ASSUME NEW t, NEW u, NEW k \in Locates, TableOK(t), Rebound(t, u, k), NEW l \in Locates
  PROVE  Held(u, l) = Held(t, l)
<1>1. CASE l # k \/ t.book[l] # NoBook
  BY <1>1 DEF Rebound, Held
<1>2. CASE l = k /\ t.book[l] = NoBook
  <2>1. Held(t, l) = {}
    BY <1>2 DEF Held
  <2>2. u.book[l] = NoBook \/ (u.book[l] \in BookIds /\ u.book[l][1] = l)
    BY <1>2, TableFields DEF Rebound
  <2>3. u.book[l] # NoBook => t.books[u.book[l]].orders = {}
    BY <1>2, <2>2 DEF TableOK
  <2>4. QED
    BY <2>1, <2>3 DEF Rebound, Held
<1>3. QED
  BY <1>1, <1>2

\* A booked message is held by its stock and changes no other.
LEMMA BookedHolds ==
  ASSUME NEW t, NEW u, NEW k \in Locates, NEW s \in Nat, TableOK(t), Booked(t, u, k, s),
         NEW l \in Locates
  PROVE  Held(u, l) = IF l = k THEN Held(t, l) \cup {s} ELSE Held(t, l)
<1> DEFINE i == u.book[k]
<1>1. i \in BookIds /\ i[1] = k /\ i # NoBook
      /\ u.books[i] = [orders |-> HeldIn(t, i) \cup {s}, epoch |-> t.epoch]
      /\ u.epoch = t.epoch
  BY BooksOf DEF Booked
<1>2. CASE l = k
  <2>1. Held(u, l) = HeldIn(t, i) \cup {s}
    BY <1>1, <1>2 DEF Held
  <2>2. HeldIn(t, i) = Held(t, l)
    <3>1. CASE t.book[l] = NoBook
      BY <1>1, <1>2, <3>1 DEF Held, HeldIn, TableOK
    <3>2. CASE t.book[l] # NoBook
      <4>1. i = t.book[l]
        BY <1>2, <3>2 DEF Booked
      <4>2. QED
        BY <3>2, <4>1 DEF Held, HeldIn
    <3>3. QED
      BY <3>1, <3>2
  <2>3. QED
    BY <1>2, <2>1, <2>2
<1>3. CASE l # k
  <2>1. u.book[l] = t.book[l]
    BY <1>3 DEF Booked
  <2>2. t.book[l] # NoBook => t.book[l] \in BookIds /\ t.book[l] # i
    BY <1>1, <1>3, TableFields DEF TableOK
  <2>3. t.book[l] # NoBook => u.books[t.book[l]] = t.books[t.book[l]]
    BY <2>2 DEF Booked
  <2>4. QED
    BY <1>1, <1>3, <2>1, <2>3 DEF Held
<1>4. QED
  BY <1>2, <1>3

(***************************************************************************)
(* The hot table: a resolved stock shows the book its messages go to, and  *)
(* that book is empty unless it is of this epoch; any other hot stock has  *)
(* no book and shows at most its profiled one.                             *)
(***************************************************************************)
HotOK(t) ==
  /\ t.scope = "HotOnly"
  /\ \A l \in t.resolved :
       /\ t.book[l] # NoBook /\ t.hotBook[l] = t.book[l]
       /\ t.books[t.book[l]].epoch = t.epoch \/ t.books[t.book[l]].orders = {}
  /\ \A l \in HotStocks \ t.resolved :
       t.book[l] = NoBook /\ (t.hotBook[l] # NoBook => t.hotBook[l][1] = l)

\* A stock that is not resolved shows nothing.
LEMMA UnresolvedShowsNothing ==
  ASSUME NEW t, TableOK(t), HotOK(t), NEW l \in HotStocks \ t.resolved
  PROVE  HotBook(t, l) = {}
<1>1. l \in Locates /\ t.book[l] = NoBook
  BY StocksAssumption DEF HotOK
<1>2. t.hotBook[l] # NoBook => t.hotBook[l] \in BookIds /\ t.hotBook[l][1] = l
  BY TableFields DEF HotOK, TableOK
<1>3. QED
  BY <1>1, <1>2 DEF TableOK, HotBook

\* clearAll keeps the hot table in order.
LEMMA HotCleared ==
  ASSUME NEW t, TableOK(t), HotOK(t)
  PROVE  HotOK(ClearAll(t))
<1> DEFINE u == ClearAll(t)
<1>1. /\ u.scope = t.scope /\ u.book = t.book /\ u.resolved = t.resolved
      /\ u.hotBook = t.hotBook /\ \A l \in HotStocks : HotBook(u, l) = {}
  BY ClearedIsOK
<1> HIDE DEF u
<1>2. \A l \in t.resolved : u.books[u.book[l]].orders = {}
  <2> SUFFICES ASSUME NEW l \in t.resolved PROVE u.books[u.book[l]].orders = {}
    OBVIOUS
  <2>1. l \in HotStocks /\ t.hotBook[l] = t.book[l] /\ t.book[l] # NoBook
    BY TableFields DEF TableOK, HotOK
  <2>2. QED
    BY <1>1, <2>1 DEF HotBook
<1>3. HotOK(u)
  BY <1>1, <1>2 DEF HotOK
<1>4. QED
  BY <1>3 DEF u

\* A directory message resolves its stock and shows no order.
LEMMA HotDirectory ==
  ASSUME NEW t, TableOK(t), HotOK(t), NEW k \in Locates
  PROVE  /\ TableOK(OnDirectory(t, k)) /\ HotOK(OnDirectory(t, k))
         /\ OnDirectory(t, k).resolved = t.resolved \cup ({k} \cap HotStocks)
         /\ \A l \in HotStocks : HotBook(OnDirectory(t, k), l) = HotBook(t, l)
<1> DEFINE u == OnDirectory(t, k)
<1>1. t.resolved \subseteq HotStocks /\ t.scope = "HotOnly"
  BY TableFields DEF TableOK, HotOK
<1>2. CASE k \notin HotStocks \ t.resolved
  <2>1. k \in t.resolved => t.book[k] # NoBook
    BY DEF HotOK
  <2>2. u = t
    BY <1>1, <1>2, <2>1, DirectoryEffect
  <2>3. t.resolved = t.resolved \cup ({k} \cap HotStocks)
    BY <1>1, <1>2
  <2>4. QED
    BY <2>2, <2>3
<1>3. CASE k \in HotStocks \ t.resolved
  <2>1. /\ Rebound(t, u, k)
        /\ u.resolved \subseteq t.resolved \cup {k} /\ t.resolved \subseteq u.resolved
        /\ \A l \in HotStocks : l # k => u.hotBook[l] = t.hotBook[l]
        /\ k \in u.resolved /\ u.book[k] # NoBook /\ u.hotBook[k] = u.book[k]
    BY <1>1, <1>3, DirectoryEffect
  <2> HIDE DEF u
  <2>2. TableOK(u)
    BY <2>1, ReboundIsOK
  <2>3. u.resolved = t.resolved \cup {k}
    BY <2>1
  <2>4. u.book[k] \in BookIds /\ u.book[k][1] = k
    BY <2>1, <2>2, TableFields DEF TableOK
  <2>5. u.books[u.book[k]].orders = {}
    <3>1. t.book[k] = NoBook
      BY <1>3 DEF HotOK
    <3>2. t.books[u.book[k]].orders = {}
      BY <2>4, <3>1 DEF TableOK
    <3>3. QED
      BY <2>1, <3>2 DEF Rebound
  <2>6. \A l \in HotStocks : l # k => l \in Locates /\ u.book[l] = t.book[l]
    BY <2>1, StocksAssumption DEF Rebound
  <2>7. HotOK(u)
    <3>1. u.scope = "HotOnly" /\ u.books = t.books /\ u.epoch = t.epoch
      BY <1>1, <2>1 DEF Rebound
    <3>2. ASSUME NEW l \in u.resolved
          PROVE  /\ u.book[l] # NoBook /\ u.hotBook[l] = u.book[l]
                 /\ u.books[u.book[l]].epoch = u.epoch \/ u.books[u.book[l]].orders = {}
      <4>1. CASE l = k
        BY <2>1, <2>5, <4>1
      <4>2. CASE l # k
        <5>1. l \in t.resolved /\ l \in HotStocks
          BY <1>1, <2>3, <4>2
        <5>2. QED
          BY <2>1, <2>6, <3>1, <4>2, <5>1 DEF HotOK
      <4>3. QED
        BY <4>1, <4>2
    <3>3. ASSUME NEW l \in HotStocks \ u.resolved
          PROVE  u.book[l] = NoBook /\ (u.hotBook[l] # NoBook => u.hotBook[l][1] = l)
      BY <2>1, <2>3, <2>6 DEF HotOK
    <3>4. QED
      BY <3>1, <3>2, <3>3 DEF HotOK
  <2>8. ASSUME NEW l \in HotStocks PROVE HotBook(u, l) = HotBook(t, l)
    <3>1. CASE l = k
      <4>1. HotBook(t, k) = {}
        BY <1>3, UnresolvedShowsNothing
      <4>2. HotBook(u, k) = {}
        BY <2>1, <2>5 DEF HotBook
      <4>3. QED
        BY <3>1, <4>1, <4>2
    <3>2. CASE l # k
      BY <2>1, <3>2 DEF HotBook, Rebound
    <3>3. QED
      BY <3>1, <3>2
  <2>9. {k} \cap HotStocks = {k}
    BY <1>3
  <2>10. QED
    BY <2>2, <2>3, <2>7, <2>8, <2>9 DEF u
<1>4. QED
  BY <1>2, <1>3

\* A booked message of a resolved stock is shown.
LEMMA HotBooked ==
  ASSUME NEW t, NEW u, TableOK(t), HotOK(t), NEW k \in t.resolved, NEW s \in Nat,
         Booked(t, u, k, s)
  PROVE  /\ TableOK(u) /\ HotOK(u)
         /\ \A l \in HotStocks :
              HotBook(u, l) = IF l = k THEN HotBook(t, l) \cup {s} ELSE HotBook(t, l)
<1> DEFINE i == u.book[k]
<1>1. t.resolved \subseteq HotStocks /\ HotStocks \subseteq Locates /\ k \in Locates
  BY TableFields, StocksAssumption DEF TableOK
<1>2. TableOK(u)
  BY <1>1, BookedIsOK
<1>3. /\ t.book[k] # NoBook /\ i = t.book[k] /\ i \in BookIds /\ i[1] = k
      /\ u.books[i] = [orders |-> HeldIn(t, i) \cup {s}, epoch |-> t.epoch]
      /\ u.epoch = t.epoch /\ u.resolved = t.resolved /\ u.hotBook = t.hotBook
      /\ u.scope = t.scope
  BY <1>1 DEF HotOK, Booked
<1>4. u.books[i].orders = t.books[i].orders \cup {s} /\ u.books[i].epoch = u.epoch
  <2>1. HeldIn(t, i) = t.books[i].orders
    BY <1>3 DEF HotOK, HeldIn
  <2>2. QED
    BY <1>3, <2>1
<1>5. ASSUME NEW l \in HotStocks, l # k
      PROVE  /\ u.book[l] = t.book[l]
             /\ t.book[l] # NoBook => u.books[t.book[l]] = t.books[t.book[l]]
             /\ t.hotBook[l] # NoBook => u.books[t.hotBook[l]] = t.books[t.hotBook[l]]
  <2>1. u.book[l] = t.book[l]
    BY <1>1, <1>5 DEF Booked
  <2>2. t.book[l] # NoBook => t.book[l] \in BookIds /\ t.book[l][1] = l
    BY <1>1, TableFields DEF TableOK
  <2>3. t.hotBook[l] # NoBook => t.hotBook[l] \in BookIds /\ t.hotBook[l][1] = l
    BY <2>2, TableFields DEF TableOK, HotOK
  <2>4. \A b \in BookIds : b[1] = l => u.books[b] = t.books[b]
    BY <1>3, <1>5 DEF Booked
  <2>5. QED
    BY <2>1, <2>2, <2>3, <2>4
<1>6. HotOK(u)
  <2>1. ASSUME NEW l \in u.resolved
        PROVE  /\ u.book[l] # NoBook /\ u.hotBook[l] = u.book[l]
               /\ u.books[u.book[l]].epoch = u.epoch \/ u.books[u.book[l]].orders = {}
    <3>1. CASE l = k
      BY <1>3, <1>4, <3>1 DEF HotOK
    <3>2. CASE l # k
      <4>1. l \in t.resolved /\ l \in HotStocks
        BY <1>1, <1>3
      <4>2. QED
        BY <1>3, <1>5, <3>2, <4>1 DEF HotOK
    <3>3. QED
      BY <3>1, <3>2
  <2>2. \A l \in HotStocks \ u.resolved : l # k
    BY <1>3
  <2>3. \A l \in HotStocks \ u.resolved :
          u.book[l] = NoBook /\ (u.hotBook[l] # NoBook => u.hotBook[l][1] = l)
    BY <1>3, <1>5, <2>2 DEF HotOK
  <2>4. QED
    BY <1>3, <2>1, <2>3 DEF HotOK
<1>7. ASSUME NEW l \in HotStocks
      PROVE  HotBook(u, l) = IF l = k THEN HotBook(t, l) \cup {s} ELSE HotBook(t, l)
  <2>1. CASE l = k
    <3>1. t.hotBook[l] = i /\ i # NoBook
      BY <1>3, <2>1 DEF HotOK
    <3>2. QED
      BY <1>3, <1>4, <2>1, <3>1 DEF HotBook
  <2>2. CASE l # k
    BY <1>3, <1>5, <2>2 DEF HotBook
  <2>3. QED
    BY <2>1, <2>2
<1>8. QED
  BY <1>2, <1>6, <1>7

\* Whatever the message, the table stays in order and keeps its scope.
LEMMA ApplyKeepsTable ==
  ASSUME NEW t, NEW type \in {"R", "A", "H"}, NEW l \in Locates, NEW s \in Nat, TableOK(t)
  PROVE  TableOK(TableApply(t, type, l, s)) /\ TableApply(t, type, l, s).scope = t.scope
<1>1. CASE type = "R"
  <2>1. TableApply(t, "R", l, s) = OnDirectory(t, l)
    BY DEF TableApply
  <2>2. Rebound(t, OnDirectory(t, l), l)
    BY DirectoryEffect
  <2>3. QED
    BY <1>1, <2>1, <2>2, ReboundIsOK DEF Rebound
<1>2. CASE type = "H"
  <2>1. Rebound(t, TableApply(t, "H", l, s), l)
    BY HaltRebinds
  <2>2. QED
    BY <1>2, <2>1, ReboundIsOK DEF Rebound
<1>3. CASE type = "A"
  <2>1. TableApply(t, "A", l, s) = t \/ Booked(t, TableApply(t, "A", l, s), l, s)
    <3>1. CASE \/ t.book[l] # NoBook
               \/ /\ t.scope = "HotOnly" => IsHot(t, l)
                  /\ t.scope = "ColdOnly" => ~IsHot(t, l)
      BY <3>1, TakenIsBooked
    <3>2. CASE ~ (\/ t.book[l] # NoBook
                  \/ /\ t.scope = "HotOnly" => IsHot(t, l)
                     /\ t.scope = "ColdOnly" => ~IsHot(t, l))
      BY <3>2 DEF TableApply
    <3>3. QED
      BY <3>1, <3>2
  <2>2. QED
    BY <1>3, <2>1, BookedIsOK DEF Booked
<1>4. QED
  BY <1>1, <1>2, <1>3

\* The constructor makes a table in order, which shows nothing and holds nothing.
LEMMA NewTableIsOK ==
  ASSUME NEW scope \in {"HotOnly", "ColdOnly"}, NEW preset \in SUBSET HotStocks
  PROVE  LET t == NewTable(scope, preset)
         IN /\ TableOK(t) /\ t.scope = scope /\ t.resolved = preset
            /\ scope = "HotOnly" => HotOK(t)
            /\ \A l \in HotStocks : HotBook(t, l) = {}
            /\ \A l \in Locates : Held(t, l) = {}
<1> DEFINE t == NewTable(scope, preset)
           hb == [l \in HotStocks |->
                    IF l \in preset THEN OwnBook(l)
                    ELSE IF /\ l \in Profiled
                            /\ scope = "HotOnly" => l \in HotStocks
                            /\ scope = "ColdOnly" => l \notin HotStocks
                         THEN ProfileBook(l) ELSE NoBook]
           bk == [l \in Locates |-> IF l \in preset THEN OwnBook(l) ELSE NoBook]
           bs == [i \in BookIds |-> [orders |-> {}, epoch |-> 0]]
<1>1. t = [scope |-> scope, book |-> bk, resolved |-> preset, hotBook |-> hb,
           books |-> bs, epoch |-> 0, live |-> 0]
  <2> DEFINE none == [l \in HotStocks |-> NoBook]
             r == [scope |-> scope, book |-> bk, resolved |-> preset, hotBook |-> none,
                   books |-> bs, epoch |-> 0, live |-> 0]
             h == [l \in HotStocks |-> IF l \in preset THEN OwnBook(l)
                                       ELSE IF HasProfile(r, l) THEN ProfileBook(l) ELSE NoBook]
  <2>1. t = [r EXCEPT !.hotBook = h]
    BY DEF NewTable
  <2>2. r.scope = scope
    OBVIOUS
  <2> HIDE DEF none, bk, bs
  <2>3. [r EXCEPT !.hotBook = h] =
          [scope |-> scope, book |-> bk, resolved |-> preset, hotBook |-> h,
           books |-> bs, epoch |-> 0, live |-> 0]
    <3> HIDE DEF h
    <3>1. QED
      OBVIOUS
  <2> HIDE DEF r
  <2>4. h = hb
    BY <2>2 DEF HasProfile
  <2>5. QED
    BY <2>1, <2>3, <2>4
<1>2. bk \in [Locates -> BookIds \cup {NoBook}] /\ hb \in [HotStocks -> BookIds \cup {NoBook}]
  BY BooksOf, StocksAssumption
<1>3. bs \in [BookIds -> [orders : SUBSET Nat, epoch : Nat]]
  OBVIOUS
<1>4. \A l \in Locates : bk[l] # NoBook => bk[l][1] = l
  BY BooksOf
<1>5. \A l \in HotStocks : hb[l] # NoBook => hb[l][1] = l /\ hb[l] \in BookIds
  BY BooksOf, StocksAssumption
<1>6. \A i \in BookIds : bs[i] = [orders |-> {}, epoch |-> 0]
  OBVIOUS
<1>7. \A l \in preset : bk[l] = OwnBook(l) /\ hb[l] = OwnBook(l) /\ bk[l] # NoBook /\ bk[l] \in BookIds
  BY BooksOf, StocksAssumption
<1>8. \A l \in HotStocks \ preset : bk[l] = NoBook
  BY StocksAssumption
<1> HIDE DEF bk, hb, bs, t
<1>9. t \in Tables
  BY <1>1, <1>2, <1>3 DEF Tables
<1>10. LiveOrders(t) = {}
  BY <1>1, <1>6, LiveOrdersAre
<1>11. IsFiniteSet(LiveOrders(t)) /\ LiveIsExact(t)
  <2>1. Cardinality(LiveOrders(t)) = 0 /\ IsFiniteSet(LiveOrders(t))
    <3> HIDE DEF t
    <3>1. QED
      BY <1>10, FS_EmptySet, Zenon
  <2>2. QED
    BY <1>1, <2>1 DEF LiveIsExact
<1>12. \A i \in BookIds : IsFiniteSet(t.books[i].orders) /\ t.books[i].epoch <= t.epoch
  BY <1>1, <1>6, FS_EmptySet
<1>13. TableOK(t)
  BY <1>1, <1>4, <1>6, <1>9, <1>11, <1>12 DEF TableOK
<1>14. scope = "HotOnly" => HotOK(t)
  BY <1>1, <1>5, <1>6, <1>7, <1>8 DEF HotOK
<1>15. \A l \in HotStocks : HotBook(t, l) = {}
  BY <1>1, <1>5, <1>6 DEF HotBook
<1>16. \A l \in Locates : Held(t, l) = {}
  <2>1. \A l \in Locates : bk[l] = NoBook \/ bk[l] \in BookIds
    BY <1>2
  <2>2. QED
    BY <1>1, <1>6, <2>1 DEF Held
<1>17. QED
  BY <1>1, <1>13, <1>14, <1>15, <1>16 DEF t

-----------------------------------------------------------------------------
(***************************************************************************)
(* When a receive buffer can be overwritten under the cold thread, for     *)
(* every ring, queue, margin and batch size.  The queue orders references, *)
(* and the distance in arrivals between an entry and the hot thread is at  *)
(* most its distance to the queue's end plus the frames that went by       *)
(* without an entry.  The check of the depth bounds the first term, and    *)
(* nothing bounds the second.                                              *)
(***************************************************************************)

Reference == [frame : Nat, skips : Nat]

\* The types the argument needs.
ColdTypes ==
  /\ arrived \in Nat /\ handled \in Nat /\ skipped \in Nat
  /\ coldQ \in Seq(Reference)
  /\ reading \in [on : BOOLEAN, handled : Nat, skipped : Nat]

\* What the place of a reference in the queue says about its frame's age.
Backlog ==
  \A i \in 1 .. Len(coldQ) :
    coldQ[i].frame # NoFrame =>
      handled - coldQ[i].frame <= (Len(coldQ) - i) + (skipped - coldQ[i].skips)

\* What the check of the depth established for the frame being read.
CheckedDepth ==
  reading.on =>
    /\ coldQ # <<>>
    /\ reading.handled - Head(coldQ).frame
         <= (SafeDepth - 1) + (reading.skipped - Head(coldQ).skips)

ColdInv == ColdTypes /\ Backlog /\ CheckedDepth

\* m_safeDepth is a number, whatever the margin.
LEMMA SafeDepthNat == SafeDepth \in Nat
BY ColdAssumption DEF SafeDepth

\* The arithmetic of one more entry behind, and of a bound on the depth.
LEMMA OneMoreBehind ==
  ASSUME NEW h \in Nat, NEW f \in Nat, NEW n \in Nat, NEW i \in Nat, NEW s \in Nat,
         NEW k \in Nat, NEW d \in 0 .. 1, h - f <= (n - i) + (s - k)
  PROVE  (h + d) - f <= ((n + 1) - i) + (s - k)
OBVIOUS

\* A longer queue bound bounds the age as well.
LEMMA DepthBounds ==
  ASSUME NEW h \in Nat, NEW f \in Nat, NEW n \in Nat, NEW m \in Nat, NEW s \in Nat,
         NEW k \in Nat, n <= m, h - f <= (n - 1) + (s - k)
  PROVE  h - f <= (m - 1) + (s - k)
OBVIOUS

\* Popping the front moves every other entry one place up.
LEMMA PopShifts ==
  ASSUME ColdTypes, coldQ # <<>>, coldQ' = Tail(coldQ)
  PROVE  /\ coldQ' \in Seq(Reference)
         /\ Len(coldQ') = Len(coldQ) - 1
         /\ \A i \in 1 .. Len(coldQ') : i + 1 \in 1 .. Len(coldQ) /\ coldQ'[i] = coldQ[i + 1]
<1>1. coldQ \in Seq(Reference)
  BY DEF ColdTypes
<1>2. Tail(coldQ) \in Seq(Reference) /\ Len(Tail(coldQ)) = Len(coldQ) - 1
  BY <1>1, HeadTailProperties
<1>3. \A i \in 1 .. Len(Tail(coldQ)) : Tail(coldQ)[i] = coldQ[i + 1]
  BY <1>1, <1>2, HeadTailProperties
<1>. QED
  BY <1>1, <1>2, <1>3, LenProperties

\* A new reference goes to the end and leaves the others where they are.
LEMMA AppendKeeps ==
  ASSUME ColdTypes, NEW r \in Reference, coldQ' = Append(coldQ, r)
  PROVE  /\ coldQ' \in Seq(Reference)
         /\ Len(coldQ') = Len(coldQ) + 1
         /\ \A i \in 1 .. Len(coldQ) : coldQ'[i] = coldQ[i]
         /\ coldQ'[Len(coldQ) + 1] = r
         /\ coldQ # <<>> => Head(coldQ') = Head(coldQ)
<1>1. coldQ \in Seq(Reference)
  BY DEF ColdTypes
<1>2. QED
  BY <1>1, AppendProperties, LenProperties, EmptySeq

\* Every popping step keeps the age bound of the entries behind the front.
LEMMA PopKeepsBacklog ==
  ASSUME ColdInv, coldQ # <<>>, coldQ' = Tail(coldQ), UNCHANGED <<handled, skipped>>
  PROVE  Backlog'
<1>1. /\ Len(coldQ') = Len(coldQ) - 1
      /\ \A i \in 1 .. Len(coldQ') : i + 1 \in 1 .. Len(coldQ) /\ coldQ'[i] = coldQ[i + 1]
  BY PopShifts DEF ColdInv
<1>2. coldQ \in Seq(Reference) /\ Len(coldQ) \in Nat
  BY DEF ColdInv, ColdTypes
<1>3. \A i \in 1 .. Len(coldQ) : coldQ[i] \in Reference
  BY <1>2
<1>. QED
  <2>. SUFFICES ASSUME NEW i \in 1 .. Len(coldQ'), coldQ'[i].frame # NoFrame
                PROVE  handled' - coldQ'[i].frame
                         <= (Len(coldQ') - i) + (skipped' - coldQ'[i].skips)
    BY DEF Backlog
  <2>1. i + 1 \in 1 .. Len(coldQ) /\ coldQ'[i] = coldQ[i + 1]
    BY <1>1
  <2>2. handled - coldQ[i + 1].frame
          <= (Len(coldQ) - (i + 1)) + (skipped - coldQ[i + 1].skips)
    BY <2>1 DEF ColdInv, Backlog
  <2>3. coldQ[i + 1].frame \in Nat /\ coldQ[i + 1].skips \in Nat
    BY <2>1, <1>3 DEF Reference
  <2>. QED
    BY <2>1, <2>2, <2>3, <1>1, <1>2 DEF ColdInv, ColdTypes

\* Steps that leave the queue alone keep the bound while "handled" moves on only
\* together with "skipped".
LEMMA StillKeepsBacklog ==
  ASSUME ColdInv, coldQ' = coldQ, NEW d \in Nat,
         handled' = handled + d, skipped' = skipped + d
  PROVE  Backlog'
<1>1. /\ coldQ \in Seq(Reference) /\ Len(coldQ) \in Nat
      /\ handled \in Nat /\ skipped \in Nat
  BY DEF ColdInv, ColdTypes
<1>. SUFFICES ASSUME NEW i \in 1 .. Len(coldQ'), coldQ'[i].frame # NoFrame
              PROVE  handled' - coldQ'[i].frame
                       <= (Len(coldQ') - i) + (skipped' - coldQ'[i].skips)
  BY DEF Backlog
<1>2. i \in 1 .. Len(coldQ) /\ coldQ'[i] = coldQ[i] /\ coldQ[i] \in Reference
  BY <1>1
<1>3. coldQ[i].frame \in Nat /\ coldQ[i].skips \in Nat
  BY <1>2 DEF Reference
<1>4. handled - coldQ[i].frame <= (Len(coldQ) - i) + (skipped - coldQ[i].skips)
  BY <1>2 DEF ColdInv, Backlog
<1>. QED
  BY <1>1, <1>2, <1>3, <1>4

\* A queued reference keeps the bound, whether it is the frame just handled or
\* the reset marker.
LEMMA QueuedKeepsBacklog ==
  ASSUME ColdInv, NEW r \in Reference, coldQ' = Append(coldQ, r), r.skips = skipped,
         skipped' = skipped, NEW d \in 0 .. 1, handled' = handled + d,
         r.frame = NoFrame \/ r.frame = handled'
  PROVE  Backlog'
<1>1. /\ Len(coldQ') = Len(coldQ) + 1
      /\ \A i \in 1 .. Len(coldQ) : coldQ'[i] = coldQ[i]
      /\ coldQ'[Len(coldQ) + 1] = r
  BY AppendKeeps DEF ColdInv
<1>2. coldQ \in Seq(Reference) /\ Len(coldQ) \in Nat /\ handled \in Nat /\ skipped \in Nat
  BY DEF ColdInv, ColdTypes
<1>. SUFFICES ASSUME NEW i \in 1 .. Len(coldQ'), coldQ'[i].frame # NoFrame
              PROVE  handled' - coldQ'[i].frame
                       <= (Len(coldQ') - i) + (skipped' - coldQ'[i].skips)
  BY DEF Backlog
<1>3. CASE i = Len(coldQ) + 1
  <2>1. coldQ'[i] = r /\ r.frame = handled' /\ r.frame \in Nat
    BY <1>1, <1>3 DEF Reference
  <2>2. handled' - r.frame = 0 /\ skipped' - r.skips = 0 /\ Len(coldQ') - i = 0
    BY <2>1, <1>1, <1>2, <1>3
  <2>. QED
    BY <2>1, <2>2
<1>4. CASE i \in 1 .. Len(coldQ)
  <2>0. coldQ'[i] = coldQ[i] /\ coldQ[i] \in Reference
    BY <1>1, <1>2, <1>4
  <2>1. coldQ[i].frame \in Nat /\ coldQ[i].skips \in Nat
    BY <2>0 DEF Reference
  <2>2. handled - coldQ[i].frame <= (Len(coldQ) - i) + (skipped - coldQ[i].skips)
    BY <1>4, <2>0 DEF ColdInv, Backlog
  <2>. QED
    <3>1. (handled + d) - coldQ[i].frame
            <= ((Len(coldQ) + 1) - i) + (skipped - coldQ[i].skips)
      BY ONLY <1>2, <2>1, <2>2, i \in Nat, d \in 0 .. 1, OneMoreBehind
    <3>. QED
      BY <3>1, <1>1, <2>0
<1>. QED
  BY <1>1, <1>2, <1>3, <1>4

\* One step of any thread.
LEMMA ColdStep ==
  ASSUME ColdInv, [ColdNext]_coldVars
  PROVE  ColdInv'
<1>. USE SafeDepthNat
<1>t. /\ arrived \in Nat /\ handled \in Nat /\ skipped \in Nat
      /\ coldQ \in Seq(Reference) /\ Len(coldQ) \in Nat
      /\ reading \in [on : BOOLEAN, handled : Nat, skipped : Nat]
  BY DEF ColdInv, ColdTypes
<1>1. CASE Receive
  <2>1. ColdTypes' /\ CheckedDepth'
    BY <1>1, <1>t DEF ColdInv, ColdTypes, CheckedDepth, Receive
  <2>2. Backlog'
    BY <1>1, <1>t, StillKeepsBacklog, 0 \in Nat, handled' = handled + 0, skipped' = skipped + 0
       DEF Receive
  <2>. QED
    BY <2>1, <2>2 DEF ColdInv
<1>2. CASE PassOver
  <2>1. ColdTypes' /\ CheckedDepth'
    BY <1>2, <1>t DEF ColdInv, ColdTypes, CheckedDepth, PassOver
  <2>2. Backlog'
    BY <1>2, StillKeepsBacklog, 1 \in Nat DEF PassOver
  <2>. QED
    BY <2>1, <2>2 DEF ColdInv
<1>3. CASE Push
  <2>1. CASE Len(coldQ) < QueueCap
    <3>. DEFINE r == [frame |-> handled + 1, skips |-> skipped]
    <3>1. /\ r \in Reference /\ coldQ' = Append(coldQ, r) /\ r.skips = skipped
          /\ skipped' = skipped /\ handled' = handled + 1 /\ r.frame = handled'
      BY <1>3, <2>1, <1>t DEF Push, Reference
    <3>. HIDE DEF r
    <3>2. Backlog'
      BY <3>1, QueuedKeepsBacklog
    <3>3. coldQ' \in Seq(Reference) /\ (coldQ # <<>> => Head(coldQ') = Head(coldQ))
      BY <3>1, AppendKeeps DEF ColdInv
    <3>4. Len(coldQ') = Len(coldQ) + 1
      BY <3>1, AppendKeeps DEF ColdInv
    <3>5. coldQ' # <<>>
      BY <3>4, <1>t
    <3>6. ColdTypes' /\ CheckedDepth'
      BY <1>3, <3>1, <3>3, <3>5, <1>t DEF Push, ColdInv, ColdTypes, CheckedDepth
    <3>. QED
      BY <3>2, <3>6 DEF ColdInv
  <2>2. CASE ~(Len(coldQ) < QueueCap)
    <3>1. coldQ' = coldQ /\ handled' = handled + 1 /\ skipped' = skipped + 1
      BY <1>3, <2>2 DEF Push
    <3>2. Backlog'
      BY <3>1, StillKeepsBacklog, 1 \in Nat
    <3>3. ColdTypes' /\ CheckedDepth'
      BY <1>3, <3>1, <1>t DEF Push, ColdInv, ColdTypes, CheckedDepth
    <3>. QED
      BY <3>2, <3>3 DEF ColdInv
  <2>. QED
    BY <2>1, <2>2
<1>4. CASE ResetCold
  <2>. DEFINE r == [frame |-> NoFrame, skips |-> skipped]
  <2>1. /\ r \in Reference /\ coldQ' = Append(coldQ, r) /\ r.skips = skipped
        /\ skipped' = skipped /\ handled' = handled + 0 /\ r.frame = NoFrame
    BY <1>4, <1>t DEF ResetCold, Reference, NoFrame
  <2>. HIDE DEF r
  <2>2. Backlog'
    BY <2>1, QueuedKeepsBacklog
  <2>3. /\ coldQ' \in Seq(Reference) /\ (coldQ # <<>> => Head(coldQ') = Head(coldQ))
        /\ Len(coldQ') = Len(coldQ) + 1
    BY <2>1, AppendKeeps DEF ColdInv
  <2>4. coldQ' # <<>>
    BY <2>3, <1>t
  <2>5. ColdTypes' /\ CheckedDepth'
    BY <1>4, <2>1, <2>3, <2>4, <1>t DEF ResetCold, ColdInv, ColdTypes, CheckedDepth
  <2>. QED
    BY <2>2, <2>5 DEF ColdInv
<1>5. CASE StopCold \/ ColdEnds \/ UNCHANGED coldVars
  BY <1>5, <1>t DEF StopCold, ColdEnds, coldVars, ColdInv, ColdTypes, Backlog, CheckedDepth
<1>6. CASE ConsumeReset \/ ConsumeStale
  <2>1. /\ coldQ # <<>> /\ ~reading.on /\ coldQ' = Tail(coldQ)
        /\ UNCHANGED <<arrived, handled, skipped, reading>>
    BY <1>6 DEF ConsumeReset, ConsumeStale, AtFront, Pop
  <2>2. Backlog'
    BY <2>1, PopKeepsBacklog
  <2>3. coldQ' \in Seq(Reference)
    BY <2>1, PopShifts DEF ColdInv
  <2>4. ColdTypes' /\ CheckedDepth'
    BY <2>1, <2>3, <1>t DEF ColdTypes, CheckedDepth
  <2>. QED
    BY <2>2, <2>4 DEF ColdInv
<1>7. CASE BeginFrame
  <2>1. /\ coldQ # <<>> /\ Head(coldQ).frame # NoFrame /\ Len(coldQ) <= SafeDepth
        /\ reading' = [on |-> TRUE, handled |-> handled, skipped |-> skipped]
        /\ UNCHANGED <<arrived, handled, skipped, coldQ>>
    BY <1>7, <1>t DEF BeginFrame, AtFront, TooDeep
  <2>2. Head(coldQ) = coldQ[1] /\ 1 \in 1 .. Len(coldQ) /\ coldQ[1] \in Reference
    BY <2>1, <1>t, HeadTailProperties, EmptySeq
  <2>3. handled - coldQ[1].frame <= (Len(coldQ) - 1) + (skipped - coldQ[1].skips)
    BY <2>1, <2>2 DEF ColdInv, Backlog
  <2>4. coldQ[1].frame \in Nat /\ coldQ[1].skips \in Nat
    BY <2>2 DEF Reference
  <2>5. handled - coldQ[1].frame <= (SafeDepth - 1) + (skipped - coldQ[1].skips)
    BY ONLY <2>1, <2>3, <2>4, <1>t, SafeDepthNat, DepthBounds
  <2>6. CheckedDepth'
    BY <2>1, <2>2, <2>5 DEF CheckedDepth
  <2>7. ColdTypes' /\ Backlog'
    BY <2>1, <1>t DEF ColdInv, ColdTypes, Backlog
  <2>. QED
    BY <2>6, <2>7 DEF ColdInv
<1>8. CASE EndFrame
  <2>1. /\ coldQ # <<>> /\ coldQ' = Tail(coldQ) /\ reading' = NotReading
        /\ UNCHANGED <<arrived, handled, skipped>>
    BY <1>8 DEF EndFrame, Pop, ColdInv, CheckedDepth
  <2>2. Backlog'
    BY <2>1, PopKeepsBacklog
  <2>3. coldQ' \in Seq(Reference)
    BY <2>1, PopShifts DEF ColdInv
  <2>4. ColdTypes' /\ CheckedDepth'
    BY <2>1, <2>3, <1>t DEF ColdTypes, CheckedDepth, NotReading
  <2>. QED
    BY <2>2, <2>4 DEF ColdInv
<1>. QED
  BY <1>1, <1>2, <1>3, <1>4, <1>5, <1>6, <1>7, <1>8 DEF ColdNext, ColdThread

(***************************************************************************)
(* A buffer is overwritten under the cold thread only if more frames went  *)
(* by unqueued, or arrived after the check, than the ring is deeper than   *)
(* the safe depth.                                                         *)
(***************************************************************************)
THEOREM RecyclingNeedsSlack == ColdSpec => []RecycledNeedsSlack
<1>1. ColdInit => ColdInv
  BY SafeDepthNat DEF ColdInit, ColdInv, ColdTypes, Backlog, CheckedDepth, NotReading
<1>2. ColdInv /\ [ColdNext]_coldVars => ColdInv'
  BY ColdStep
<1>3. ColdInv => RecycledNeedsSlack
  <2>. SUFFICES ASSUME ColdInv, reading.on, Recycled(Head(coldQ).frame)
                PROVE  (reading.skipped - Head(coldQ).skips) + (arrived - reading.handled)
                         > RingDepth - SafeDepth
    BY DEF RecycledNeedsSlack
  <2>1. /\ coldQ # <<>>
        /\ reading.handled - Head(coldQ).frame
             <= (SafeDepth - 1) + (reading.skipped - Head(coldQ).skips)
    BY DEF ColdInv, CheckedDepth
  <2>2. Head(coldQ) \in Reference
    BY <2>1, HeadTailProperties DEF ColdInv, ColdTypes
  <2>3. /\ Head(coldQ).frame \in Nat /\ Head(coldQ).skips \in Nat /\ arrived \in Nat
        /\ reading.handled \in Nat /\ reading.skipped \in Nat
    BY <2>2 DEF ColdInv, ColdTypes, Reference
  <2>4. arrived >= Head(coldQ).frame + RingDepth
    BY DEF Recycled
  <2>. QED
    BY <2>1, <2>3, <2>4, SafeDepthNat, ColdAssumption
<1>. QED
  BY <1>1, <1>2, <1>3, PTL DEF ColdSpec

-----------------------------------------------------------------------------
(***************************************************************************)
(* The hot and the cold thread together.                                   *)
(***************************************************************************)

\* What a step of the device does to the link and to the shard.
LEMMA DeviceSteps ==
  ASSUME [RunNext]_runVars
  PROVE  [Next]_vars /\ [ColdNext]_coldVars
<1> DEFINE Link == [Next]_vars
           Shard == [ColdNext]_coldVars
<1>1. Publish => Link /\ Shard
  <2>1. (nextSeq <= MaxSeq /\ content[nextSeq].type = "S") \in BOOLEAN
    BY Zenon
  <2>2. QED
    BY <2>1 DEF Publish, Next
<1>2. Flush => Link /\ Shard
  BY DEF Flush, Next
<1>3. \A p \in sent : Arrive(p) => Link /\ Shard
  BY DEF Arrive, ColdNext
<1>4. HandleStale => Link /\ Shard
  BY DEF HandleStale, ColdNext
<1>5. HandleGap => Link /\ Shard
  BY DEF HandleGap, ColdNext
<1>6. HandlePacket => Link /\ Shard
  <2> SUFFICES ASSUME HandlePacket PROVE Link /\ Shard
    OBVIOUS
  <2>1. ApplyPacket(Here) /\ Push
    BY DEF HandlePacket
  <2>2. Here \in sent
    BY <2>1 DEF ApplyPacket
  <2>3. QED
    BY <2>1, <2>2 DEF Next, ColdNext
<1>7. Stop => Link /\ Shard
  BY DEF Stop, ColdNext
<1>8. ColdReset => Link /\ Shard
  BY DEF ColdReset, ColdNext, ColdThread
<1>9. ColdStale => Link /\ Shard
  BY DEF ColdStale, ColdNext, ColdThread
<1>10. ColdBegin => Link /\ Shard
  BY DEF ColdBegin, ColdNext, ColdThread
<1>11. ColdJoined => Link /\ Shard
  BY DEF ColdJoined, ColdNext, ColdThread
<1>12. \A cut \in 0 .. PacketCap : ColdEnd(cut) => Link /\ Shard
  BY DEF ColdEnd, ColdNext, ColdThread
<1>13. UNCHANGED runVars => Link /\ Shard
  BY DEF runVars
<1> HIDE DEF Link, Shard
<1>14. Link /\ Shard
  BY <1>1, <1>2, <1>3, <1>4, <1>5, <1>6, <1>7, <1>8, <1>9, <1>10, <1>11, <1>12, <1>13
     DEF RunNext
<1>15. QED
  BY <1>14 DEF Link, Shard

\* The device with its two threads and two tables implements the market-data
\* link: cold shard, ring and books leave applyPacket and SequenceTracker alone.
THEOREM DeviceImplementsLink == RunSpec => Spec
<1>1. RunInit => Init
  BY DEF RunInit
<1>2. [RunNext]_runVars => [Next]_vars
  BY DeviceSteps
<1>3. QED
  BY <1>1, <1>2, PTL DEF RunSpec, Spec

\* The device implements the cold shard: applyPacket's early returns, its reset
\* and its push are steps the shard allows.
THEOREM DeviceImplementsShard == RunSpec => ColdSpec
<1>1. RunInit => ColdInit
  BY DEF RunInit
<1>2. [RunNext]_runVars => [ColdNext]_coldVars
  BY DeviceSteps
<1>3. QED
  BY <1>1, <1>2, PTL DEF RunSpec, ColdSpec

(***************************************************************************)
(* What applyPacket, SequenceTracker::onPacket and ColdShard::consume      *)
(* promise on their own holds with both threads running: no message is     *)
(* applied twice, trusted books are complete, the missed counter is exact, *)
(* and a buffer is overwritten under the cold thread only if the frames    *)
(* the depth does not count outnumber the margin.                          *)
(***************************************************************************)
THEOREM DeviceIsSafe ==
  RunSpec => [](/\ TypeOK /\ NothingAppliedTwice /\ ValidBooksAreComplete
                /\ MissedIsExact /\ RecycledNeedsSlack)
BY DeviceImplementsLink, DeviceImplementsShard, FeedTypes, FeedNothingAppliedTwice,
   FeedValidBooksAreComplete, FeedMissedIsExact, RecyclingNeedsSlack, PTL

-----------------------------------------------------------------------------
-----------------------------------------------------------------------------
(***************************************************************************)
(* Loops.  Induction over an interval, stated about a set, and the states  *)
(* of a loop that applies one step after the other.                        *)
(***************************************************************************)

\* What holds at 0 and is kept by every turn holds of every turn.
LEMMA EveryTurn ==
  ASSUME NEW n \in Nat, NEW T, 0 \in T, \A i \in 0 .. (n - 1) : i \in T => i + 1 \in T
  PROVE  \A i \in 0 .. n : i \in T
<1> DEFINE Bad == {i \in 0 .. n : i \notin T}
<1>1. SUFFICES Bad # {} => FALSE
  OBVIOUS
<1>2. SUFFICES ASSUME Bad # {} PROVE FALSE
  OBVIOUS
<1>3. Bad \in SUBSET Nat
  OBVIOUS
<1>4. PICK x \in Bad : \A y \in Bad : ~ (<<y, x>> \in OpToRel(<, Nat))
  <2> HIDE DEF Bad
  <2>1. QED
    BY <1>2, <1>3, NatLessThanWellFounded, WFMin
<1>5. \A y \in Bad : ~ (y < x)
  BY <1>3, <1>4 DEF OpToRel
<1>6. x \in 0 .. n /\ x \notin T /\ x # 0
  BY <1>4
<1>7. x - 1 \in 0 .. (n - 1) /\ x - 1 \notin Bad
  BY <1>5, <1>6
<1>8. QED
  BY <1>6, <1>7

\* The n steps F of a loop on states S, which starts in state a, and its states f.
IsLoop(S, a, n, F) == n \in Nat /\ a \in S /\ F \in [1 .. n -> [S -> S]]
IsRun(f, S, a, n, F) ==
  f \in [0 .. n -> S] /\ f[0] = a /\ \A i \in 1 .. n : f[i] = F[i][f[i - 1]]

\* Every loop has a run.
LEMMA LoopStates ==
  ASSUME NEW S, NEW a, NEW n, NEW F, IsLoop(S, a, n, F)
  PROVE  \E f : IsRun(f, S, a, n, F)
<1>0. n \in Nat /\ a \in S /\ F \in [1 .. n -> [S -> S]]
  BY DEF IsLoop
<1> DEFINE Run(f, m) == f[0] = a /\ \A i \in 1 .. m : f[i] = F[i][f[i - 1]]
           T == {m \in 0 .. n : \E f \in [0 .. m -> S] : Run(f, m)}
<1>1. 0 \in T
  <2> DEFINE g == [i \in 0 .. 0 |-> a]
  <2>1. g \in [0 .. 0 -> S] /\ Run(g, 0)
    BY <1>0
  <2>2. \E f \in [0 .. 0 -> S] : Run(f, 0)
    <3> HIDE DEF g, Run
    <3>1. QED
      BY <2>1
  <2>3. QED
    BY <1>0, <2>2
<1>2. ASSUME NEW m \in 0 .. (n - 1), m \in T PROVE m + 1 \in T
  <2>1. PICK f \in [0 .. m -> S] : Run(f, m)
    BY <1>2
  <2> DEFINE g == [i \in 0 .. (m + 1) |-> IF i <= m THEN f[i] ELSE F[m + 1][f[m]]]
  <2>2. F[m + 1] \in [S -> S] /\ f[m] \in S
    BY <1>0
  <2>3. g \in [0 .. (m + 1) -> S]
    BY <1>0, <2>2
  <2>4. \A i \in 1 .. (m + 1) : g[i] = F[i][g[i - 1]]
    BY <1>0, <2>1
  <2>5. g[0] = a
    BY <1>0, <2>1
  <2>6. Run(g, m + 1)
    BY <2>4, <2>5
  <2>7. \E h \in [0 .. (m + 1) -> S] : Run(h, m + 1)
    <3> HIDE DEF g, Run
    <3>1. QED
      BY <2>3, <2>6
  <2>8. QED
    BY <1>0, <2>7
<1>3. n \in T
  <2> HIDE DEF T
  <2>1. \A i \in 0 .. n : i \in T
    BY <1>0, <1>1, <1>2, EveryTurn
  <2>2. QED
    BY <1>0, <2>1
<1>4. QED
  BY <1>3 DEF IsRun

\* g takes the loop's steps as long as it is in S.
Follows(g, S, a, n, F) ==
  g[0] = a /\ \A i \in 1 .. n : g[i - 1] \in S => g[i] = F[i][g[i - 1]]

\* A loop has one result.
LEMMA OneResult ==
  ASSUME NEW S, NEW a, NEW n, NEW F, NEW f, NEW g, IsLoop(S, a, n, F), IsRun(f, S, a, n, F),
         Follows(g, S, a, n, F)
  PROVE  g[n] = f[n]
<1> DEFINE T == {i \in 0 .. n : g[i] = f[i]}
<1>0. n \in Nat
  BY DEF IsLoop
<1>1. 0 \in T
  BY <1>0 DEF IsRun, Follows
<1>2. \A i \in 0 .. (n - 1) : i \in T => i + 1 \in T
  <2> SUFFICES ASSUME NEW i \in 0 .. (n - 1), g[i] = f[i] PROVE g[i + 1] = f[i + 1]
    BY <1>0
  <2>1. i + 1 \in 1 .. n /\ (i + 1) - 1 = i /\ i \in 0 .. n
    BY <1>0
  <2>2. g[i] \in S
    BY <2>1 DEF IsRun
  <2>3. g[i + 1] = F[i + 1][g[i]] /\ f[i + 1] = F[i + 1][f[i]]
    BY <2>1, <2>2 DEF IsRun, Follows
  <2>4. QED
    BY <2>3
<1>3. \A i \in 0 .. n : i \in T
  <2> HIDE DEF T
  <2>1. QED
    BY <1>0, <1>1, <1>2, EveryTurn
<1>4. QED
  BY <1>0, <1>3

-----------------------------------------------------------------------------
(***************************************************************************)
(* The hot thread's message loop.                                          *)
(***************************************************************************)

\* Message s of the tape is one that the device knows.
Known(s) ==
  /\ s \in Nat
  /\ content[s].type = "S" \/ content[s] \in [type : {"R", "A", "H"}, locate : Locates]

HotStates == {x \in [table : Tables, valid : BOOLEAN, dirAt : [HotStocks -> Nat]] : TableOK(x.table)}

(***************************************************************************)
(* Before message n, the hot books show the orders among the messages of b *)
(* that came after the directory message of their stock.                   *)
(***************************************************************************)
Shows(x, b, n) ==
  /\ x \in HotStates /\ HotOK(x.table)
  /\ b \subseteq 1 .. (n - 1)
  /\ \A l \in HotStocks : IF l \in x.table.resolved THEN x.dirAt[l] < n
                                                     ELSE x.dirAt[l] = Unresolved
  /\ \A l \in HotStocks :
       HotBook(x.table, l) =
         {s \in b : content[s] = [type |-> "A", locate |-> l] /\ x.dirAt[l] < s}

\* What the loop knows of the books after message n.
After(b, valid, n) ==
  IF content[n].type = "S" THEN {} ELSE IF valid THEN b \cup {n} ELSE b

\* applyMessage keeps the hot table in order, and only StartOfMessages makes the
\* feed valid.
LEMMA ApplyMessageStays ==
  ASSUME NEW x \in HotStates, NEW n, Known(n)
  PROVE  /\ ApplyMessage(x, n) \in HotStates
         /\ ApplyMessage(x, n).valid = (x.valid \/ content[n].type = "S")
<1> DEFINE c == content[n]
           t == TableApply(x.table, c.type, c.locate, n)
<1>1. /\ x.table \in Tables /\ TableOK(x.table) /\ x.valid \in BOOLEAN
      /\ x.dirAt \in [HotStocks -> Nat]
      /\ x = [table |-> x.table, valid |-> x.valid, dirAt |-> x.dirAt]
  BY DEF HotStates
<1>2. n \in Nat
  BY DEF Known
<1>3. CASE c.type = "S"
  <2>1. ApplyMessage(x, n) = [table |-> ClearAll(x.table), valid |-> TRUE, dirAt |-> x.dirAt]
    BY <1>1, <1>3 DEF ApplyMessage
  <2>2. TableOK(ClearAll(x.table)) /\ ClearAll(x.table) \in Tables
    BY <1>1, ClearedIsOK DEF TableOK
  <2>3. ApplyMessage(x, n) \in HotStates /\ ApplyMessage(x, n).valid = TRUE
    BY <1>1, <2>1, <2>2 DEF HotStates
  <2>4. QED
    BY <1>3, <2>3
<1>4. CASE c.type # "S" /\ (~x.valid \/ (c.type # "R" /\ ~IsHot(x.table, c.locate)))
  <2>1. ApplyMessage(x, n) = x
    BY <1>4 DEF ApplyMessage
  <2>2. QED
    BY <1>1, <1>4, <2>1
<1>5. CASE c.type # "S" /\ ~ (~x.valid \/ (c.type # "R" /\ ~IsHot(x.table, c.locate)))
  <2> DEFINE d == [l \in HotStocks |-> IF l \in t.resolved \ x.table.resolved THEN n ELSE x.dirAt[l]]
  <2>1. ApplyMessage(x, n) = [table |-> t, valid |-> x.valid, dirAt |-> d]
    BY <1>1, <1>5 DEF ApplyMessage
  <2>2. c.type \in {"R", "A", "H"} /\ c.locate \in Locates
    BY <1>5 DEF Known
  <2>3. TableOK(t) /\ t \in Tables
    <3> HIDE DEF c
    <3>1. TableOK(t)
      BY <1>1, <1>2, <2>2, ApplyKeepsTable
    <3>2. QED
      BY <3>1 DEF TableOK
  <2>4. d \in [HotStocks -> Nat]
    BY <1>1, <1>2
  <2> HIDE DEF t, d, c
  <2>5. QED
    BY <1>1, <1>5, <2>1, <2>3, <2>4 DEF HotStates, c
<1>6. QED
  BY <1>3, <1>4, <1>5

\* applyMessage and onSystemEvent keep what the hot books show.
LEMMA MessageShown ==
  ASSUME NEW x, NEW b, NEW n \in 1 .. MaxSeq, Known(n), Shows(x, b, n)
  PROVE  Shows(ApplyMessage(x, n), After(b, x.valid, n), n + 1)
<1> DEFINE k == content[n].locate
           type == content[n].type
           t == TableApply(x.table, type, k, n)
           y == ApplyMessage(x, n)
           a == After(b, x.valid, n)
           Order(l) == [type |-> "A", locate |-> l]
<1>1. /\ x \in HotStates /\ TableOK(x.table) /\ HotOK(x.table)
      /\ x.valid \in BOOLEAN /\ x.dirAt \in [HotStocks -> Nat]
      /\ x = [table |-> x.table, valid |-> x.valid, dirAt |-> x.dirAt]
      /\ x.table.resolved \subseteq HotStocks
  <2>1. x \in HotStates /\ TableOK(x.table) /\ HotOK(x.table)
    BY DEF Shows, HotStates
  <2>2. x.table.resolved \subseteq HotStocks
    BY <2>1, TableFields DEF TableOK
  <2>3. QED
    BY <2>1, <2>2 DEF HotStates
<1>2. /\ b \subseteq 1 .. (n - 1) /\ n \in Nat /\ n <= MaxSeq /\ MaxSeq \in Nat
      /\ \A l \in HotStocks : IF l \in x.table.resolved THEN x.dirAt[l] < n
                                                         ELSE x.dirAt[l] = MaxSeq + 1
      /\ \A l \in HotStocks :
           HotBook(x.table, l) = {s \in b : content[s] = Order(l) /\ x.dirAt[l] < s}
  BY MaxSeqAssumption DEF Shows, Unresolved
<1>3. y \in HotStates
  BY <1>1, ApplyMessageStays
<1>b. \A s \in b : s \in Int /\ 1 <= s /\ s < n
  BY <1>2
<1>4. a \subseteq 1 .. (n + 1 - 1)
  <2>1. \A s \in a : s \in b \/ s = n
    BY DEF After
  <2> HIDE DEF a
  <2>2. \A s \in a : s \in 1 .. (n + 1 - 1)
    <3>1. n \in Int /\ 1 <= n /\ n + 1 - 1 = n
      OBVIOUS
    <3>2. \A s \in a : s \in 1 .. n
      BY ONLY <1>b, <2>1, <3>1
    <3>3. QED
      BY <3>1, <3>2
  <2>3. QED
    BY <2>2
\* What is left to show, once the table and the resolved stocks are known.
<1>5. ASSUME HotOK(y.table),
             \A l \in HotStocks : IF l \in y.table.resolved THEN y.dirAt[l] < n + 1
                                                            ELSE y.dirAt[l] = MaxSeq + 1,
             \A l \in HotStocks :
               HotBook(y.table, l) = {s \in a : content[s] = Order(l) /\ y.dirAt[l] < s}
      PROVE  Shows(y, a, n + 1)
  BY <1>3, <1>4, <1>5 DEF Shows, Unresolved
<1>6. CASE type = "S"
  <2>1. y = [table |-> ClearAll(x.table), valid |-> TRUE, dirAt |-> x.dirAt] /\ a = {}
    BY <1>1, <1>6 DEF ApplyMessage, After
  <2>2. /\ HotOK(ClearAll(x.table)) /\ ClearAll(x.table).resolved = x.table.resolved
        /\ \A l \in HotStocks : HotBook(ClearAll(x.table), l) = {}
    BY <1>1, HotCleared, ClearedIsOK
  <2> HIDE DEF y, a, Order
  <2>3. \A l \in HotStocks : IF l \in y.table.resolved THEN y.dirAt[l] < n + 1
                                                       ELSE y.dirAt[l] = MaxSeq + 1
    BY <1>1, <1>2, <2>1, <2>2
  <2>4. QED
    BY <1>5, <2>1, <2>2, <2>3 DEF y, a
<1>7. ASSUME type # "S", ~x.valid PROVE Shows(y, a, n + 1)
  <2>1. y = x /\ a = b
    BY <1>7 DEF ApplyMessage, After
  <2> HIDE DEF y, a, Order
  <2>2. \A l \in HotStocks : IF l \in y.table.resolved THEN y.dirAt[l] < n + 1
                                                       ELSE y.dirAt[l] = MaxSeq + 1
    BY <1>1, <1>2, <2>1
  <2>3. QED
    BY <1>1, <1>2, <1>5, <2>1, <2>2
<1>8. ASSUME type # "S", x.valid, type # "R", k \notin x.table.resolved PROVE Shows(y, a, n + 1)
  <2>1. y = x /\ a = b \cup {n}
    BY <1>8 DEF ApplyMessage, After, IsHot
  <2>2. \A l \in HotStocks : ~ (content[n] = Order(l) /\ x.dirAt[l] < n)
    BY <1>1, <1>2, <1>8
  <2> HIDE DEF y, a, Order
  <2>3. \A l \in HotStocks : IF l \in y.table.resolved THEN y.dirAt[l] < n + 1
                                                       ELSE y.dirAt[l] = MaxSeq + 1
    BY <1>1, <1>2, <2>1
  <2>4. \A l \in HotStocks :
          HotBook(y.table, l) = {s \in a : content[s] = Order(l) /\ y.dirAt[l] < s}
    BY <1>2, <2>1, <2>2
  <2>5. QED
    BY <1>1, <1>5, <2>1, <2>3, <2>4
<1>9. ASSUME type # "S", x.valid, type = "R" \/ k \in x.table.resolved
      PROVE  Shows(y, a, n + 1)
  <2> DEFINE d == [l \in HotStocks |-> IF l \in t.resolved \ x.table.resolved THEN n ELSE x.dirAt[l]]
  <2>1. y = [table |-> t, valid |-> x.valid, dirAt |-> d] /\ a = b \cup {n}
    BY <1>1, <1>9 DEF ApplyMessage, After, IsHot
  <2>2. type \in {"R", "A", "H"} /\ k \in Locates
    BY <1>9 DEF Known
  <2>3. y.table = t /\ \A l \in HotStocks :
          y.dirAt[l] = IF l \in t.resolved \ x.table.resolved THEN n ELSE x.dirAt[l]
    BY <2>1
  <2>4. CASE type = "R"
    <3>1. t = OnDirectory(x.table, k)
      BY <2>4 DEF TableApply
    <3>2. /\ HotOK(t) /\ t.resolved = x.table.resolved \cup ({k} \cap HotStocks)
          /\ \A l \in HotStocks : HotBook(t, l) = HotBook(x.table, l)
      BY <1>1, <2>2, <3>1, HotDirectory
    <3>3. \A l : content[n] # Order(l)
      BY <2>4
    <3>4. \A l \in HotStocks \ x.table.resolved : HotBook(x.table, l) = {}
      BY <1>1, UnresolvedShowsNothing
    <3> HIDE DEF y, a, Order, t
    <3>5. \A l \in HotStocks : IF l \in y.table.resolved THEN y.dirAt[l] < n + 1
                                                         ELSE y.dirAt[l] = MaxSeq + 1
      BY <1>1, <1>2, <2>3, <3>2
    <3>6. ASSUME NEW l \in HotStocks
          PROVE  HotBook(y.table, l) = {s \in a : content[s] = Order(l) /\ y.dirAt[l] < s}
      <4>1. CASE l \in t.resolved \ x.table.resolved
        <5>1. y.dirAt[l] = n /\ HotBook(y.table, l) = {}
          BY <2>3, <3>2, <3>4, <4>1
        <5>2. \A s \in a : ~ (n < s)
          <6>1. a = b \cup {n} /\ n \in Int
            BY <1>2, <2>1
          <6>2. \A s \in b : s \in Int /\ s < n
            BY <1>b
          <6>3. QED
            BY ONLY <6>1, <6>2
        <5>3. QED
          BY <5>1, <5>2
      <4>2. CASE l \notin t.resolved \ x.table.resolved
        <5>1. y.dirAt[l] = x.dirAt[l] /\ HotBook(y.table, l) = HotBook(x.table, l)
          BY <2>3, <3>2, <4>2
        <5>2. QED
          BY <1>2, <2>1, <3>3, <5>1
      <4>3. QED
        BY <4>1, <4>2
    <3>7. QED
      BY <1>5, <2>3, <3>2, <3>5, <3>6
  <2>5. CASE type = "H"
    <3>1. k \in x.table.resolved /\ x.table.book[k] # NoBook
      BY <1>1, <1>9, <2>5 DEF HotOK
    <3>2. t = x.table
      BY <1>1, <2>2, <2>5, <3>1, HaltRebinds
    <3>3. \A l : content[n] # Order(l)
      BY <2>5
    <3> HIDE DEF y, a, Order, t
    <3>4. \A l \in HotStocks : y.dirAt[l] = x.dirAt[l]
      BY <2>3, <3>2
    <3>5. \A l \in HotStocks : IF l \in y.table.resolved THEN y.dirAt[l] < n + 1
                                                         ELSE y.dirAt[l] = MaxSeq + 1
      BY <1>1, <1>2, <2>3, <3>2, <3>4
    <3>6. \A l \in HotStocks :
            HotBook(y.table, l) = {s \in a : content[s] = Order(l) /\ y.dirAt[l] < s}
      BY <1>2, <2>1, <2>3, <3>2, <3>3, <3>4
    <3>7. QED
      BY <1>1, <1>5, <2>3, <3>2, <3>5, <3>6
  <2>6. CASE type = "A"
    <3>1. k \in x.table.resolved /\ IsHot(x.table, k) /\ x.table.book[k] # NoBook
      BY <1>1, <1>9, <2>6 DEF HotOK, IsHot
    <3>2. Booked(x.table, t, k, n)
      BY <1>1, <1>2, <2>2, <2>6, <3>1, TakenIsBooked
    <3>3. /\ HotOK(t) /\ t.resolved = x.table.resolved
          /\ \A l \in HotStocks :
               HotBook(t, l) = IF l = k THEN HotBook(x.table, l) \cup {n} ELSE HotBook(x.table, l)
      <4> HIDE DEF t, k
      <4>1. QED
        BY <1>1, <1>2, <3>1, <3>2, HotBooked DEF Booked
    <3>4. content[n] = Order(k) /\ \A l : l # k => content[n] # Order(l)
      BY <2>6, <1>9 DEF Known
    <3>5. x.dirAt[k] < n /\ k \in HotStocks
      BY <1>1, <1>2, <3>1
    <3> HIDE DEF y, a, Order, t, k
    <3>6. \A l \in HotStocks : y.dirAt[l] = x.dirAt[l]
      BY <2>3, <3>3
    <3>7. \A l \in HotStocks : IF l \in y.table.resolved THEN y.dirAt[l] < n + 1
                                                         ELSE y.dirAt[l] = MaxSeq + 1
      BY <1>1, <1>2, <2>3, <3>3, <3>6
    <3>8. ASSUME NEW l \in HotStocks
          PROVE  HotBook(y.table, l) = {s \in a : content[s] = Order(l) /\ y.dirAt[l] < s}
      <4>1. CASE l = k
        BY <1>2, <2>1, <2>3, <3>3, <3>4, <3>5, <3>6, <4>1
      <4>2. CASE l # k
        BY <1>2, <2>1, <2>3, <3>3, <3>4, <3>6, <4>2
      <4>3. QED
        BY <4>1, <4>2
    <3>9. QED
      BY <1>5, <2>3, <3>3, <3>7, <3>8
  <2>7. QED
    BY <2>2, <2>4, <2>5, <2>6
<1>10. QED
  BY <1>1, <1>6, <1>7, <1>8, <1>9

\* The loop of applyPacket goes through one state per message.
LEMMA ApplyAllSteps ==
  ASSUME NEW x \in HotStates, NEW msgs, Len(msgs) \in Nat, \A i \in 1 .. Len(msgs) : Known(msgs[i])
  PROVE  \E f \in [0 .. Len(msgs) -> HotStates] :
           /\ f[0] = x /\ \A i \in 1 .. Len(msgs) : f[i] = ApplyMessage(f[i - 1], msgs[i])
           /\ ApplyAll(x, msgs) = f[Len(msgs)]
<1> DEFINE n == Len(msgs)
           F == [i \in 1 .. n |-> [y \in HotStates |-> ApplyMessage(y, msgs[i])]]
           Turn(f) == [i \in 0 .. n |-> IF i = 0 THEN x ELSE ApplyMessage(f[i - 1], msgs[i])]
           g == CHOOSE f : f = Turn(f)
<1>1. IsLoop(HotStates, x, n, F)
  BY ApplyMessageStays DEF IsLoop
<1>2. PICK f : IsRun(f, HotStates, x, n, F)
  <2> HIDE DEF F, n
  <2>1. QED
    BY <1>1, LoopStates
<1>3. \A i \in 1 .. n : f[i] = ApplyMessage(f[i - 1], msgs[i])
  <2> SUFFICES ASSUME NEW i \in 1 .. n PROVE f[i] = ApplyMessage(f[i - 1], msgs[i])
    OBVIOUS
  <2>1. f[i - 1] \in HotStates
    BY <1>2 DEF IsRun
  <2>2. QED
    BY <1>2, <2>1 DEF IsRun
<1>4. f = Turn(f)
  <2>1. \A i \in 0 .. n : f[i] = IF i = 0 THEN x ELSE ApplyMessage(f[i - 1], msgs[i])
    BY <1>2, <1>3 DEF IsRun
  <2>2. f = [i \in 0 .. n |-> f[i]]
    BY <1>2 DEF IsRun
  <2>3. QED
    BY <2>1, <2>2
<1>5. g = Turn(g)
  <2> HIDE DEF Turn
  <2>1. QED
    BY <1>4
<1> HIDE DEF g
<1>6. g[0] = x /\ \A i \in 1 .. n : g[i] = ApplyMessage(g[i - 1], msgs[i])
  <2>1. \A i \in 0 .. n : g[i] = IF i = 0 THEN x ELSE ApplyMessage(g[i - 1], msgs[i])
    BY <1>5
  <2>2. QED
    BY <2>1
<1>7. Follows(g, HotStates, x, n, F)
  BY <1>6 DEF Follows
<1>8. g[n] = f[n]
  <2> HIDE DEF F, n
  <2>1. QED
    BY <1>1, <1>2, <1>7, OneResult
<1>9. ApplyAll(x, msgs) = g[n]
  BY DEF ApplyAll, g
<1>10. QED
  BY <1>2, <1>3, <1>8, <1>9 DEF IsRun

-----------------------------------------------------------------------------
(***************************************************************************)
(* The cold thread's message loop.                                         *)
(***************************************************************************)
ColdStates == {t \in Tables : TableOK(t)}

\* applyOne keeps the table in order.
LEMMA ApplyOneStays ==
  ASSUME NEW t \in ColdStates, NEW s, Known(s)
  PROVE  ApplyOne(t, s) \in ColdStates /\ ApplyOne(t, s).scope = t.scope
<1>1. TableOK(t) /\ s \in Nat
  BY DEF ColdStates, Known
<1>2. CASE content[s].type = "S"
  <2>1. ApplyOne(t, s) = ClearAll(t)
    BY <1>2 DEF ApplyOne
  <2>2. QED
    BY <1>1, <2>1, ClearedIsOK DEF ColdStates, TableOK
<1>3. CASE content[s].type # "S"
  <2>1. content[s].type \in {"R", "A", "H"} /\ content[s].locate \in Locates
    BY <1>3 DEF Known
  <2>2. ApplyOne(t, s) = TableApply(t, content[s].type, content[s].locate, s)
    BY <1>3 DEF ApplyOne
  <2>3. TableOK(ApplyOne(t, s)) /\ ApplyOne(t, s).scope = t.scope
    BY <1>1, <2>1, <2>2, ApplyKeepsTable
  <2>4. QED
    BY <2>3 DEF ColdStates, TableOK
<1>4. QED
  BY <1>2, <1>3

\* The loop of applyFrame goes through one table per message.
LEMMA ApplyFrameSteps ==
  ASSUME NEW x \in ColdStates, NEW msgs, Len(msgs) \in Nat, \A i \in 1 .. Len(msgs) : Known(msgs[i])
  PROVE  \E f \in [0 .. Len(msgs) -> ColdStates] :
           /\ f[0] = x /\ \A i \in 1 .. Len(msgs) : f[i] = ApplyOne(f[i - 1], msgs[i])
           /\ ApplyFrame(x, msgs) = f[Len(msgs)]
<1> DEFINE n == Len(msgs)
           F == [i \in 1 .. n |-> [y \in ColdStates |-> ApplyOne(y, msgs[i])]]
           Turn(f) == [i \in 0 .. n |-> IF i = 0 THEN x ELSE ApplyOne(f[i - 1], msgs[i])]
           g == CHOOSE f : f = Turn(f)
<1>1. IsLoop(ColdStates, x, n, F)
  BY ApplyOneStays DEF IsLoop
<1>2. PICK f : IsRun(f, ColdStates, x, n, F)
  <2> HIDE DEF F, n
  <2>1. QED
    BY <1>1, LoopStates
<1>3. \A i \in 1 .. n : f[i] = ApplyOne(f[i - 1], msgs[i])
  <2> SUFFICES ASSUME NEW i \in 1 .. n PROVE f[i] = ApplyOne(f[i - 1], msgs[i])
    OBVIOUS
  <2>1. f[i - 1] \in ColdStates
    BY <1>2 DEF IsRun
  <2>2. QED
    BY <1>2, <2>1 DEF IsRun
<1>4. f = Turn(f)
  <2>1. \A i \in 0 .. n : f[i] = IF i = 0 THEN x ELSE ApplyOne(f[i - 1], msgs[i])
    BY <1>2, <1>3 DEF IsRun
  <2>2. f = [i \in 0 .. n |-> f[i]]
    BY <1>2 DEF IsRun
  <2>3. QED
    BY <2>1, <2>2
<1>5. g = Turn(g)
  <2> HIDE DEF Turn
  <2>1. QED
    BY <1>4
<1> HIDE DEF g
<1>6. g[0] = x /\ \A i \in 1 .. n : g[i] = ApplyOne(g[i - 1], msgs[i])
  <2>1. \A i \in 0 .. n : g[i] = IF i = 0 THEN x ELSE ApplyOne(g[i - 1], msgs[i])
    BY <1>5
  <2>2. QED
    BY <2>1
<1>7. Follows(g, ColdStates, x, n, F)
  BY <1>6 DEF Follows
<1>8. g[n] = f[n]
  <2> HIDE DEF F, n
  <2>1. QED
    BY <1>1, <1>2, <1>7, OneResult
<1>9. ApplyFrame(x, msgs) = g[n]
  BY DEF ApplyFrame, g
<1>10. QED
  BY <1>2, <1>3, <1>8, <1>9 DEF IsRun

\* A later message meets the same books.
LEMMA ShowsLater ==
  ASSUME NEW x, NEW b, NEW n \in Nat, NEW m \in Nat, n <= m, Shows(x, b, n)
  PROVE  Shows(x, b, m)
<1>1. x.dirAt \in [HotStocks -> Nat]
  BY DEF Shows, HotStates
<1>2. b \subseteq 1 .. (m - 1)
  BY DEF Shows
<1>3. \A l \in HotStocks : x.dirAt[l] < n => x.dirAt[l] < m
  BY <1>1
<1>4. QED
  BY <1>2, <1>3 DEF Shows

\* The messages of a packet before its (i + 1)-th.
Upto(p, i) == p.seq .. (p.seq + i - 1)

\* The messages the books vouch for once those of m have been handled.
Net(m, valid, held) ==
  IF m \cap starts # {} THEN {s \in m : \A k \in m \cap starts : k < s}
  ELSE IF valid THEN held \cup m ELSE held

\* One more message.
LEMMA NetStep ==
  ASSUME NEW p, p.seq \in Nat, NEW i \in Nat, NEW valid \in BOOLEAN, NEW held,
         p.seq + i \in starts <=> content[p.seq + i].type = "S"
  PROVE  LET n == p.seq + i
             m == Upto(p, i)
             now == valid \/ m \cap starts # {}
         IN /\ Net(Upto(p, i + 1), valid, held) = After(Net(m, valid, held), now, n)
            /\ (Upto(p, i + 1) \cap starts # {}) <=> (m \cap starts # {} \/ content[n].type = "S")
<1> DEFINE n == p.seq + i
           m == Upto(p, i)
           q == Upto(p, i + 1)
           now == valid \/ m \cap starts # {}
<1>1. q = m \cup {n} /\ \A s \in m : s \in Int /\ s < n
  BY DEF Upto
<1>2. n \in starts <=> content[n].type = "S"
  OBVIOUS
<1>n. n \in Nat
  OBVIOUS
<1> HIDE DEF n, m, q
<1>3. q \cap starts # {} <=> (m \cap starts # {} \/ n \in starts)
  BY <1>1
<1>4. CASE n \in starts
  <2>1. {s \in q : \A k \in q \cap starts : k < s} = {}
    <3> SUFFICES ASSUME NEW s \in q, \A k \in q \cap starts : k < s PROVE FALSE
      OBVIOUS
    <3>1. n < s /\ (s \in m \/ s = n)
      BY <1>1, <1>4
    <3>2. QED
      BY <1>1, <1>n, <3>1
  <2>2. QED
    BY <1>2, <1>3, <1>4, <2>1 DEF Net, After, n, m, q
<1>5. CASE n \notin starts /\ m \cap starts # {}
  <2>1. q \cap starts = m \cap starts
    BY <1>1, <1>5
  <2>2. {s \in q : \A k \in q \cap starts : k < s} =
        {s \in m : \A k \in m \cap starts : k < s} \cup {n}
    <3>1. \A k \in m \cap starts : k < n
      BY <1>1
    <3>2. QED
      BY <1>1, <2>1, <3>1
  <2>3. QED
    BY <1>2, <1>3, <1>5, <2>2 DEF Net, After, n, m, q
<1>6. CASE n \notin starts /\ m \cap starts = {}
  BY <1>1, <1>2, <1>3, <1>6 DEF Net, After, n, m, q
<1>7. QED
  BY <1>4, <1>5, <1>6

\* The packet as the tape has it.
Readable(p) ==
  /\ p.seq \in Nat \ {0} /\ p.count \in Nat /\ p.seq + p.count - 1 <= MaxSeq
  /\ \A s \in Messages(p) : Known(s) /\ (s \in starts <=> content[s].type = "S")

\* applyPacket's loop, all of it.
LEMMA PacketShown ==
  ASSUME NEW p, Readable(p), NEW x, NEW held, Shows(x, held, p.seq)
  PROVE  /\ Shows(ApplyAll(x, InOrder(p)), Net(Messages(p), x.valid, held), p.seq + p.count)
         /\ ApplyAll(x, InOrder(p)).valid = (x.valid \/ Messages(p) \cap starts # {})
<1> DEFINE msgs == InOrder(p)
           n == p.count
<1>1. /\ p.seq \in Nat \ {0} /\ n \in Nat /\ p.seq + n - 1 <= MaxSeq /\ MaxSeq \in Nat
      /\ x \in HotStates /\ x.valid \in BOOLEAN
  BY MaxSeqAssumption DEF Readable, Shows, HotStates
<1>2. Len(msgs) = n /\ \A i \in 1 .. n : msgs[i] = p.seq + i - 1
  BY <1>1 DEF InOrder
<1>3. \A i \in 1 .. n : p.seq + i - 1 \in Messages(p)
  BY <1>1 DEF Messages
<1>4. \A i \in 1 .. Len(msgs) : Known(msgs[i])
  BY <1>2, <1>3 DEF Readable
<1>5. PICK f \in [0 .. n -> HotStates] :
         /\ f[0] = x /\ \A i \in 1 .. n : f[i] = ApplyMessage(f[i - 1], msgs[i])
         /\ ApplyAll(x, msgs) = f[n]
  <2>1. Len(msgs) \in Nat
    BY <1>1, <1>2
  <2>2. \E f \in [0 .. Len(msgs) -> HotStates] :
         /\ f[0] = x /\ \A i \in 1 .. Len(msgs) : f[i] = ApplyMessage(f[i - 1], msgs[i])
         /\ ApplyAll(x, msgs) = f[Len(msgs)]
    <3> HIDE DEF msgs, n
    <3>1. x \in HotStates
      BY <1>1
    <3>2. QED
      BY <1>4, <2>1, <3>1, ApplyAllSteps
  <2> HIDE DEF msgs
  <2>3. QED
    BY <1>2, <2>2
<1> HIDE DEF msgs
<1> DEFINE Good(i) == /\ Shows(f[i], Net(Upto(p, i), x.valid, held), p.seq + i)
                      /\ f[i].valid = (x.valid \/ Upto(p, i) \cap starts # {})
           T == {i \in 0 .. n : Good(i)}
<1>6. 0 \in T
  <2>1. Upto(p, 0) = {}
    BY <1>1 DEF Upto
  <2>2. Net(Upto(p, 0), x.valid, held) = held
    BY <2>1 DEF Net
  <2>3. p.seq + 0 = p.seq
    BY <1>1
  <2>4. Good(0)
    BY <1>1, <1>5, <2>1, <2>2, <2>3
  <2>5. QED
    BY <1>1, <2>4
<1>7. ASSUME NEW i \in 0 .. (n - 1), i \in T PROVE i + 1 \in T
  <2> DEFINE k == p.seq + i
  <2>1. Good(i) /\ i + 1 \in 0 .. n /\ i \in 0 .. n /\ i \in Nat
    BY <1>1, <1>7
  <2>2. i + 1 \in 1 .. n /\ (i + 1) - 1 = i /\ p.seq + (i + 1) - 1 = k /\ p.seq + (i + 1) = k + 1
        /\ k \in 1 .. MaxSeq
    BY <1>1
  <2>3. f[i + 1] = ApplyMessage(f[i], k)
    BY <1>2, <1>5, <2>2
  <2>4. Known(k) /\ (k \in starts <=> content[k].type = "S")
    BY <1>3, <2>2 DEF Readable
  <2>5. f[i] \in HotStates
    BY <1>5, <2>1
  <2> DEFINE b == Net(Upto(p, i), x.valid, held)
             c == Net(Upto(p, i + 1), x.valid, held)
  <2>6. /\ c = After(b, f[i].valid, k)
        /\ (Upto(p, i + 1) \cap starts # {}) <=> (Upto(p, i) \cap starts # {} \/ content[k].type = "S")
    <3>1. f[i].valid = (x.valid \/ Upto(p, i) \cap starts # {})
      BY <2>1
    <3>2. c = After(b, x.valid \/ Upto(p, i) \cap starts # {}, k)
          /\ (Upto(p, i + 1) \cap starts # {}
                <=> (Upto(p, i) \cap starts # {} \/ content[k].type = "S"))
      BY <1>1, <2>1, <2>4, NetStep
    <3>3. QED
      BY <3>1, <3>2
  <2> HIDE DEF k, b, c
  <2>7. Shows(f[i + 1], c, k + 1)
    <3>1. Shows(f[i], b, k)
      BY <2>1 DEF b, k
    <3>2. QED
      BY <2>2, <2>3, <2>4, <2>6, <3>1, MessageShown
  <2>8. f[i + 1].valid = (f[i].valid \/ content[k].type = "S")
    BY <2>3, <2>4, <2>5, ApplyMessageStays
  <2>9. f[i + 1].valid = (x.valid \/ Upto(p, i + 1) \cap starts # {})
    BY <2>1, <2>6, <2>8
  <2>10. Good(i + 1)
    BY <2>2, <2>7, <2>9 DEF c
  <2>11. QED
    BY <2>1, <2>10
<1>8. Good(n)
  <2>1. \A i \in 0 .. n : i \in T
    <3> HIDE DEF T
    <3>1. QED
      BY <1>1, <1>6, <1>7, EveryTurn
  <2>2. QED
    BY <1>1, <2>1
<1>9. Upto(p, n) = Messages(p)
  BY DEF Upto, Messages
<1>10. QED
  BY <1>5, <1>8, <1>9 DEF msgs

\* applyOne on the book of a cold stock.
LEMMA ColdMessage ==
  ASSUME NEW t \in ColdStates, t.scope = "ColdOnly", NEW s, Known(s),
         NEW l \in Locates \ HotStocks
  PROVE  Held(ApplyOne(t, s), l) =
           IF content[s].type = "S" THEN {}
           ELSE IF content[s] = [type |-> "A", locate |-> l] THEN Held(t, l) \cup {s}
           ELSE Held(t, l)
<1>1. TableOK(t) /\ s \in Nat /\ l \in Locates
  BY DEF ColdStates, Known
<1>2. CASE content[s].type = "S"
  <2>1. ApplyOne(t, s) = ClearAll(t)
    BY <1>2 DEF ApplyOne
  <2>2. QED
    BY <1>1, <1>2, <2>1, ClearedIsOK
<1>3. CASE content[s].type # "S"
  <2> DEFINE k == content[s].locate
             u == TableApply(t, content[s].type, k, s)
  <2>1. /\ content[s].type \in {"R", "A", "H"} /\ k \in Locates
        /\ content[s] = [type |-> content[s].type, locate |-> k]
    BY <1>3 DEF Known
  <2>2. ApplyOne(t, s) = u
    BY <1>3 DEF ApplyOne
  <2> HIDE DEF k
  <2>3. CASE content[s].type = "R"
    <3>1. Rebound(t, u, k)
      BY <1>1, <2>1, <2>3, DirectoryEffect DEF TableApply
    <3> HIDE DEF u
    <3>2. Held(u, l) = Held(t, l)
      BY <1>1, <2>1, <3>1, ReboundHolds
    <3>3. QED
      BY <1>3, <2>2, <2>3, <3>2
  <2>4. CASE content[s].type = "H"
    <3>1. Rebound(t, u, k)
      BY <1>1, <2>1, <2>4, HaltRebinds
    <3> HIDE DEF u
    <3>2. Held(u, l) = Held(t, l)
      BY <1>1, <2>1, <3>1, ReboundHolds
    <3>3. QED
      BY <1>3, <2>2, <2>4, <3>2
  <2>5. CASE content[s].type = "A"
    <3>1. CASE t.book[k] # NoBook \/ ~IsHot(t, k)
      <4>1. Booked(t, u, k, s)
        BY <1>1, <2>1, <2>5, <3>1, TakenIsBooked
      <4> HIDE DEF u
      <4>2. Held(u, l) = IF l = k THEN Held(t, l) \cup {s} ELSE Held(t, l)
        BY <1>1, <2>1, <4>1, BookedHolds
      <4>3. content[s] = [type |-> "A", locate |-> l] <=> l = k
        BY <2>1, <2>5
      <4>4. QED
        BY <1>3, <2>2, <4>2, <4>3
    <3>2. CASE t.book[k] = NoBook /\ IsHot(t, k)
      <4>1. u = t
        BY <2>5, <3>2 DEF TableApply
      <4>2. k \in HotStocks
        BY <1>1, <3>2, TableFields DEF IsHot, TableOK
      <4>3. content[s] # [type |-> "A", locate |-> l]
        BY <2>1, <4>2
      <4>4. QED
        BY <1>3, <2>2, <4>1, <4>3
    <3>3. QED
      BY <3>1, <3>2
  <2>6. QED
    BY <2>1, <2>3, <2>4, <2>5
<1>4. QED
  BY <1>2, <1>3

\* Of the messages in d, the orders of stock l since the gap at g and the last
\* StartOfMessages among them.
Kept(d, l, g) ==
  {s \in d : /\ content[s] = [type |-> "A", locate |-> l] /\ s >= g
             /\ \A k \in starts \cap d : k < s}

\* One more message.
LEMMA KeptStep ==
  ASSUME NEW d \in SUBSET Nat, NEW n \in Nat, NEW g \in Nat, NEW l,
         \A s \in d : s < n, g <= n, n \in starts <=> content[n].type = "S"
  PROVE  Kept(d \cup {n}, l, g) =
           IF content[n].type = "S" THEN {}
           ELSE IF content[n] = [type |-> "A", locate |-> l] THEN Kept(d, l, g) \cup {n}
           ELSE Kept(d, l, g)
<1>1. CASE n \in starts
  <2>1. \A s \in d \cup {n} : s = n \/ s < n
    OBVIOUS
  <2>2. Kept(d \cup {n}, l, g) = {}
    <3> SUFFICES ASSUME NEW s \in Kept(d \cup {n}, l, g) PROVE FALSE
      OBVIOUS
    <3>1. n < s /\ s \in d \cup {n} /\ s \in Nat
      BY <1>1 DEF Kept
    <3>2. QED
      BY <2>1, <3>1
  <2>3. QED
    BY <1>1, <2>2
<1>2. CASE n \notin starts
  <2>1. starts \cap (d \cup {n}) = starts \cap d /\ content[n].type # "S"
    BY <1>2
  <2>2. \A k \in starts \cap d : k < n
    OBVIOUS
  <2>3. QED
    BY <2>1, <2>2 DEF Kept
<1>3. QED
  BY <1>1, <1>2

\* The next message of a packet.
LEMMA UptoNext ==
  ASSUME NEW p, p.seq \in Nat, NEW i \in Nat
  PROVE  Upto(p, i + 1) = Upto(p, i) \cup {p.seq + i}
BY DEF Upto

\* A cold table that holds just those, of every cold stock.
Keeps(t, d, g) ==
  t.scope = "ColdOnly" /\ \A l \in Locates \ HotStocks : Held(t, l) = Kept(d, l, g)

\* applyFrame's loop, all of it, when no buffer is overwritten.
LEMMA FrameKept ==
  ASSUME NEW p, Readable(p), NEW t \in ColdStates, NEW d \in SUBSET Nat,
         \A s \in d : s < p.seq, NEW g \in Nat, g <= p.seq, Keeps(t, d, g)
  PROVE  Keeps(ApplyFrame(t, InOrder(p)), d \cup Messages(p), g)
<1> DEFINE msgs == InOrder(p)
           n == p.count
<1>1. p.seq \in Nat \ {0} /\ n \in Nat
  BY DEF Readable
<1>2. Len(msgs) = n /\ \A i \in 1 .. n : msgs[i] = p.seq + i - 1
  BY <1>1 DEF InOrder
<1>3. \A i \in 1 .. n : p.seq + i - 1 \in Messages(p)
  BY <1>1 DEF Messages
<1>4. \A i \in 1 .. Len(msgs) : Known(msgs[i])
  BY <1>2, <1>3 DEF Readable
<1>5. PICK f \in [0 .. n -> ColdStates] :
         /\ f[0] = t /\ \A i \in 1 .. n : f[i] = ApplyOne(f[i - 1], msgs[i])
         /\ ApplyFrame(t, msgs) = f[n]
  <2>1. Len(msgs) \in Nat
    BY <1>1, <1>2
  <2>2. \E f \in [0 .. Len(msgs) -> ColdStates] :
         /\ f[0] = t /\ \A i \in 1 .. Len(msgs) : f[i] = ApplyOne(f[i - 1], msgs[i])
         /\ ApplyFrame(t, msgs) = f[Len(msgs)]
    <3> HIDE DEF msgs
    <3>1. QED
      BY <1>4, <2>1, ApplyFrameSteps
  <2> HIDE DEF msgs
  <2>3. QED
    BY <1>2, <2>2
<1> HIDE DEF msgs
<1> DEFINE Good(i) == Keeps(f[i], d \cup Upto(p, i), g)
           T == {i \in 0 .. n : Good(i)}
<1>6. 0 \in T
  <2>1. d \cup Upto(p, 0) = d
    BY <1>1 DEF Upto
  <2>2. Good(0)
    BY <1>5, <2>1
  <2>3. QED
    BY <1>1, <2>2
<1>7. ASSUME NEW i \in 0 .. (n - 1), i \in T PROVE i + 1 \in T
  <2> DEFINE k == p.seq + i
             e == d \cup Upto(p, i)
  <2>1. Good(i) /\ i + 1 \in 0 .. n /\ i \in 0 .. n /\ i \in Nat
    BY <1>1, <1>7
  <2>2. i + 1 \in 1 .. n /\ (i + 1) - 1 = i /\ p.seq + (i + 1) - 1 = k /\ k \in Nat /\ g <= k
    BY <1>1
  <2>3. f[i + 1] = ApplyOne(f[i], k)
    BY <1>2, <1>5, <2>2
  <2>4. Known(k) /\ (k \in starts <=> content[k].type = "S")
    BY <1>3, <2>2 DEF Readable
  <2>5. f[i] \in ColdStates
    BY <1>5, <2>1
  <2>6. d \cup Upto(p, i + 1) = e \cup {k}
    <3>1. Upto(p, i + 1) = Upto(p, i) \cup {k}
      BY <1>1, <2>1, UptoNext
    <3> HIDE DEF k
    <3>2. QED
      BY <3>1
  <2>7. e \in SUBSET Nat /\ \A s \in e : s < k
    <3>1. \A s \in Upto(p, i) : s \in Nat /\ s < k
      BY <1>1, <2>1 DEF Upto
    <3>2. \A s \in d : s \in Nat /\ s < k
      BY <1>1, <2>1
    <3> HIDE DEF k
    <3>3. QED
      BY <3>1, <3>2
  <2>8. \A l \in Locates \ HotStocks : Held(f[i], l) = Kept(e, l, g)
    BY <2>1 DEF Keeps
  <2>9. f[i].scope = "ColdOnly"
    BY <2>1 DEF Keeps
  <2> HIDE DEF k, e, Good
  <2>10. \A l \in Locates \ HotStocks : Held(f[i + 1], l) = Kept(e \cup {k}, l, g)
    <3> SUFFICES ASSUME NEW l \in Locates \ HotStocks
                 PROVE  Held(f[i + 1], l) = Kept(e \cup {k}, l, g)
      OBVIOUS
    <3>1. Held(f[i + 1], l) =
            IF content[k].type = "S" THEN {}
            ELSE IF content[k] = [type |-> "A", locate |-> l] THEN Held(f[i], l) \cup {k}
            ELSE Held(f[i], l)
      <4>1. Held(ApplyOne(f[i], k), l) =
              IF content[k].type = "S" THEN {}
              ELSE IF content[k] = [type |-> "A", locate |-> l] THEN Held(f[i], l) \cup {k}
              ELSE Held(f[i], l)
        BY ONLY <2>4, <2>5, <2>9, ColdMessage, l \in Locates \ HotStocks
      <4>2. QED
        BY <2>3, <4>1
    <3>2. Kept(e \cup {k}, l, g) =
            IF content[k].type = "S" THEN {}
            ELSE IF content[k] = [type |-> "A", locate |-> l] THEN Kept(e, l, g) \cup {k}
            ELSE Kept(e, l, g)
      BY <2>2, <2>4, <2>7, KeptStep
    <3>3. QED
      BY <2>8, <3>1, <3>2
  <2>11. f[i + 1].scope = "ColdOnly"
    BY <2>3, <2>4, <2>5, <2>9, ApplyOneStays
  <2>12. Good(i + 1)
    BY <2>6, <2>10, <2>11 DEF Good, Keeps
  <2>13. QED
    BY <2>1, <2>12
<1>8. Good(n)
  <2>1. \A i \in 0 .. n : i \in T
    <3> HIDE DEF T
    <3>1. QED
      BY <1>1, <1>6, <1>7, EveryTurn
  <2>2. n \in 0 .. n
    BY <1>1
  <2>3. n \in T
    <3> HIDE DEF T
    <3>1. QED
      BY <2>1, <2>2
  <2>4. QED
    BY <2>3
<1>9. Upto(p, n) = Messages(p)
  BY DEF Upto, Messages
<1>10. QED
  BY <1>5, <1>8, <1>9 DEF msgs

-----------------------------------------------------------------------------

(***************************************************************************)
(* What both threads stand on: the tape is what was published, and the     *)
(* ring holds packets that were sent.                                      *)
(***************************************************************************)
Published ==
  /\ content \in Tapes /\ nextSeq <= MaxSeq + 1
  /\ \A s \in 1 .. (nextSeq - 1) : s \in starts <=> content[s].type = "S"

Received ==
  /\ frames \in Seq(Packet) /\ Len(frames) = arrived /\ handled <= arrived
  /\ \A i \in 1 .. Len(frames) : frames[i] \in sent

Ground == IInv /\ ColdInv /\ Published /\ Received

\* A packet that was sent is readable.
LEMMA SentIsReadable ==
  ASSUME Ground, NEW p \in sent
  PROVE  p \in Packet /\ p.count > 0 /\ Readable(p) /\ Messages(p) \subseteq 1 .. (nextSeq - 1)
<1>1. p \in Packet /\ p.seq \in Nat /\ p.count \in Nat /\ p.seq > 0 /\ p.count > 0
      /\ p.seq + p.count <= Frontier
  BY DEF Ground, IInv, TypeOK, PacketsPartition, Packet
<1>2. Frontier <= nextSeq /\ nextSeq \in Nat /\ Frontier \in Nat
  BY DEF Ground, IInv, TypeOK, PacketsPartition, Packet, Frontier
<1>3. nextSeq <= MaxSeq + 1 /\ MaxSeq \in Nat
  BY MaxSeqAssumption DEF Ground, Published
<1>4. p.seq + p.count - 1 <= MaxSeq /\ \A s \in Messages(p) : s \in 1 .. (nextSeq - 1) /\ s \in 1 .. MaxSeq
  BY <1>1, <1>2, <1>3 DEF Messages
<1>5. \A s \in 1 .. MaxSeq : Known(s)
  BY TapesAssumption DEF Ground, Published, Known
<1>6. \A s \in Messages(p) : s \in starts <=> content[s].type = "S"
  BY <1>4 DEF Ground, Published
<1>7. QED
  BY <1>1, <1>4, <1>5, <1>6 DEF Readable

\* A packet that is not stale lies beyond everything seen.
LEMMA SeenIsBehind ==
  ASSUME Ground, NEW p \in sent, Result(p) # "Stale"
  PROVE  \A s \in seen : s \in Nat /\ s < p.seq
<1>1. p \in Packet /\ (started => expected <= p.seq)
  BY NotStaleIsAhead DEF Ground
<1>2. seen \subseteq Nat /\ expected \in Nat /\ p.seq \in Nat
  BY <1>1 DEF Ground, IInv, TypeOK, Packet
<1>3. CASE started
  <2>1. \A s \in seen : s <= expected - 1
    BY <1>2, <1>3 DEF Ground, IInv, SeenBelowExpected
  <2>2. QED
    BY <1>1, <1>2, <1>3, <2>1
<1>4. CASE ~started
  BY <1>4 DEF Ground, IInv, AtBoundary
<1>5. QED
  BY <1>3, <1>4

\* The device starts with nothing published, received or handled.
LEMMA InitGround == RunInit => Ground
<1> SUFFICES ASSUME RunInit PROVE Ground
  OBVIOUS
<1>1. IInv /\ ColdInv
  <2>1. Init /\ ColdInit
    BY DEF RunInit
  <2>2. ColdInv
    BY <2>1, SafeDepthNat DEF ColdInit, ColdInv, ColdTypes, Backlog, CheckedDepth, NotReading
  <2>3. QED
    BY <2>1, <2>2, InitIInv
<1>2. Published
  BY MaxSeqAssumption DEF RunInit, Init, Published
<1>3. Received
  BY DEF RunInit, ColdInit, Received
<1>4. QED
  BY <1>1, <1>2, <1>3 DEF Ground

\* No step of either thread shakes that ground.
LEMMA NextGround ==
  ASSUME Ground, [RunNext]_runVars
  PROVE  Ground'
<1>1. [Next]_vars /\ [ColdNext]_coldVars
  BY DeviceSteps
<1>2. IInv' /\ ColdInv'
  BY <1>1, NextKeepsIInv, ColdStep DEF Ground
<1> DEFINE Rest == Published' /\ Received'
<1>3. arrived \in Nat /\ handled \in Nat /\ nextSeq \in Nat /\ nextSeq > 0
  BY DEF Ground, ColdInv, ColdTypes, IInv, TypeOK
<1>4. Publish => Rest
  <2> SUFFICES ASSUME Publish PROVE Rest
    OBVIOUS
  <2>1. /\ nextSeq <= MaxSeq /\ nextSeq' = nextSeq + 1 /\ sent \subseteq sent' /\ content' = content
        /\ starts' = IF content[nextSeq].type = "S" THEN starts \cup {nextSeq} ELSE starts
        /\ frames' = frames /\ arrived' = arrived /\ handled' = handled
    BY DEF Publish, AppendMarketData, coldVars
  <2>2. starts \subseteq 1 .. (nextSeq - 1)
    BY DEF Ground, IInv, StartsPublished
  <2>3. \A s \in 1 .. (nextSeq' - 1) : s \in starts' <=> content[s].type = "S"
    <3> SUFFICES ASSUME NEW s \in 1 .. (nextSeq' - 1)
                 PROVE  s \in starts' <=> content[s].type = "S"
      OBVIOUS
    <3>1. CASE s = nextSeq
      BY <1>3, <2>1, <2>2, <3>1
    <3>2. CASE s # nextSeq
      <4>1. s \in 1 .. (nextSeq - 1)
        BY <1>3, <2>1, <3>2
      <4>2. QED
        BY <2>1, <3>2, <4>1 DEF Ground, Published
    <3>3. QED
      BY <3>1, <3>2
  <2>4. Published'
    BY <1>3, <2>1, <2>3, MaxSeqAssumption DEF Ground, Published
  <2>5. Received'
    BY <2>1 DEF Ground, Received
  <2>6. QED
    BY <2>4, <2>5
<1>5. Flush => Rest
  <2> SUFFICES ASSUME Flush PROVE Rest
    OBVIOUS
  <2>1. /\ nextSeq' = nextSeq /\ starts' = starts /\ sent \subseteq sent' /\ content' = content
        /\ frames' = frames /\ arrived' = arrived /\ handled' = handled
    BY DEF Flush, FlushMarketData, coldVars
  <2>2. QED
    BY <2>1 DEF Ground, Published, Received
<1>6. ASSUME UNCHANGED <<nextSeq, starts, sent, content, frames, arrived>>, handled' <= arrived PROVE Rest
  BY <1>6 DEF Ground, Published, Received
<1>7. \A p \in sent : Arrive(p) => Rest
  <2> SUFFICES ASSUME NEW p \in sent, Arrive(p) PROVE Rest
    OBVIOUS
  <2>1. /\ nextSeq' = nextSeq /\ starts' = starts /\ sent' = sent /\ content' = content
        /\ frames' = Append(frames, p) /\ arrived' = arrived + 1 /\ handled' = handled
    BY DEF Arrive, Receive, vars
  <2>2. p \in Packet /\ frames \in Seq(Packet) /\ Len(frames) = arrived /\ handled <= arrived
    BY SentIsReadable DEF Ground, Received
  <2>3. frames' \in Seq(Packet) /\ Len(frames') = arrived'
        /\ \A i \in 1 .. Len(frames') : frames'[i] = IF i <= Len(frames) THEN frames[i] ELSE p
    BY <2>1, <2>2, AppendProperties
  <2>4. \A i \in 1 .. Len(frames') : frames'[i] \in sent'
    BY <1>3, <2>1, <2>2, <2>3 DEF Ground, Received
  <2>5. Received'
    BY <1>3, <2>1, <2>2, <2>3, <2>4 DEF Received
  <2>6. QED
    BY <2>1, <2>5 DEF Ground, Published
<1>8. HandleStale => Rest
  BY <1>3, <1>6 DEF HandleStale, PassOver, vars
<1>9. HandleGap => Rest
  BY <1>3, <1>6 DEF HandleGap, ResetCold, vars
<1>10. HandlePacket => Rest
  BY <1>3, <1>6 DEF HandlePacket, ApplyPacket, Push, venueVars
<1>11. Stop \/ ColdReset \/ ColdStale \/ ColdBegin \/ ColdJoined => Rest
  BY <1>3, <1>6 DEF Ground, Received, Stop, StopCold, ColdReset, ConsumeReset, ColdStale, ConsumeStale,
     ColdBegin, BeginFrame, ColdJoined, ColdEnds, vars
<1>12. \A cut \in 0 .. PacketCap : ColdEnd(cut) => Rest
  BY <1>6 DEF Ground, Received, ColdEnd, EndFrame, vars
<1>13. UNCHANGED runVars => Rest
  BY <1>6 DEF Ground, Received, runVars, vars, coldVars
<1> HIDE DEF Rest
<1>14. Rest
  BY <1>4, <1>5, <1>7, <1>8, <1>9, <1>10, <1>11, <1>12, <1>13 DEF RunNext
<1>15. QED
  BY <1>2, <1>14 DEF Rest, Ground

\* The hot thread's side: what the loop over messages meets, before the next one.
HotState == [table |-> hotT, valid |-> feedValid, dirAt |-> dirAt]
HotInv == Shows(HotState, book, IF started THEN expected ELSE 1)

\* The constructor's hot table shows nothing, as nothing was handled.
LEMMA InitHot == RunInit => HotInv
<1> SUFFICES ASSUME RunInit PROVE HotInv
  OBVIOUS
<1>1. PICK preset \in SUBSET HotStocks :
        /\ hotT = NewTable("HotOnly", preset)
        /\ dirAt = [l \in HotStocks |-> IF l \in preset THEN 0 ELSE Unresolved]
  BY DEF RunInit
<1>2. ~started /\ feedValid = TRUE /\ book = {}
  BY DEF RunInit, Init
<1>3. TableOK(hotT) /\ HotOK(hotT) /\ hotT.resolved = preset /\ \A l \in HotStocks : HotBook(hotT, l) = {}
  BY <1>1, NewTableIsOK
<1>4. Unresolved \in Nat
  BY MaxSeqAssumption DEF Unresolved
<1>5. dirAt \in [HotStocks -> Nat] /\ \A l \in HotStocks : dirAt[l] = IF l \in preset THEN 0 ELSE Unresolved
  BY <1>1, <1>4
<1>6. hotT \in Tables
  BY <1>3 DEF TableOK
<1>7. HotState \in HotStates
  BY <1>2, <1>3, <1>5, <1>6 DEF HotState, HotStates
<1>8. Shows(HotState, {}, 1)
  BY <1>3, <1>5, <1>7 DEF Shows, HotState
<1>9. QED
  BY <1>2, <1>8 DEF HotInv

\* A gap empties the hot books and leaves them ready for the packet behind it.
LEMMA GapShown ==
  ASSUME NEW b, NEW n \in Nat, Shows(HotState, b, n),
         NEW r, r = [table |-> ClearAll(hotT), valid |-> FALSE, dirAt |-> dirAt]
  PROVE  Shows(r, {}, n)
<1> DEFINE u == ClearAll(hotT)
<1>1. /\ HotState.table = hotT /\ HotState.dirAt = dirAt /\ TableOK(hotT) /\ HotOK(hotT)
      /\ dirAt \in [HotStocks -> Nat]
  BY DEF Shows, HotStates, HotState
<1>2. TableOK(u) /\ HotOK(u) /\ u.resolved = hotT.resolved /\ \A l \in HotStocks : HotBook(u, l) = {}
  BY <1>1, ClearedIsOK, HotCleared
<1>3. u \in Tables
  BY <1>2 DEF TableOK
<1>4. r.table = u /\ r.dirAt = dirAt
  OBVIOUS
<1> HIDE DEF u
<1>5. r \in HotStates
  <2>1. r \in [table : Tables, valid : BOOLEAN, dirAt : [HotStocks -> Nat]]
    BY <1>1, <1>3 DEF u
  <2>2. QED
    BY <1>2, <1>4, <2>1 DEF HotStates
<1>6. \A l \in HotStocks : IF l \in u.resolved THEN dirAt[l] < n ELSE dirAt[l] = Unresolved
  BY <1>1, <1>2 DEF Shows
<1>7. QED
  BY <1>2, <1>4, <1>5, <1>6 DEF Shows

\* applyPacket keeps the hot books in step with the messages the feed vouches for.
LEMMA PacketKeepsHot ==
  ASSUME Ground, HotInv, HandlePacket
  PROVE  HotInv'
<1> DEFINE p == Here
           gap == Result(p) = "Gap"
           x == AfterGap(gap)
           held == IF gap THEN {} ELSE book
           after == ApplyAll(x, InOrder(p))
<1>1. /\ ApplyPacket(p) /\ hotT' = after.table /\ dirAt' = after.dirAt /\ content' = content
      /\ p \in sent /\ Result(p) # "Stale"
  BY DEF HandlePacket, ApplyPacket
<1> HIDE DEF p
<1>2. Readable(p) /\ p.seq \in Nat \ {0} /\ p.count \in Nat
  BY <1>1, SentIsReadable DEF Readable
<1>3. started => expected <= p.seq
  BY <1>1, NotStaleIsAhead DEF Ground
<1>4. expected \in Nat /\ feedValid \in BOOLEAN /\ started \in BOOLEAN
  BY DEF Ground, IInv, TypeOK
<1>5. Shows(HotState, book, p.seq)
  BY <1>2, <1>3, <1>4, ShowsLater DEF HotInv
<1>6. Shows(x, held, p.seq)
  <2>1. CASE gap
    <3>1. x = [table |-> ClearAll(hotT), valid |-> FALSE, dirAt |-> dirAt]
      BY <2>1 DEF AfterGap
    <3>2. Shows(x, {}, p.seq)
      <4> HIDE DEF x
      <4>1. QED
        BY <1>2, <1>5, <3>1, GapShown
    <3>3. QED
      BY <2>1, <3>2
  <2>2. CASE ~gap
    <3>1. x = HotState
      BY <2>2, <1>4 DEF AfterGap, HotState
    <3>2. QED
      BY <1>5, <2>2, <3>1
  <2>3. QED
    BY <2>1, <2>2
<1>7. x.valid = (~gap /\ feedValid)
  BY DEF AfterGap
<1>8. /\ Shows(after, Net(Messages(p), x.valid, held), p.seq + p.count)
      /\ after.valid = (x.valid \/ Messages(p) \cap starts # {})
  <2> HIDE DEF x, held
  <2>1. QED
    BY <1>2, <1>6, PacketShown
<1>9. /\ started' = TRUE /\ expected' = p.seq + p.count
      /\ feedValid' = (x.valid \/ Messages(p) \cap starts # {})
      /\ book' = Net(Messages(p), x.valid, held)
  <2>1. started' = TRUE /\ expected' = p.seq + p.count
    BY <1>1 DEF ApplyPacket, Track
  <2>2. CASE gap
    <3>1. ApplyMessages(p, FALSE, {})
      BY <1>1, <2>2 DEF ApplyPacket
    <3>2. x.valid = FALSE /\ held = {}
      BY <1>7, <2>2
    <3> HIDE DEF x, held
    <3>3. QED
      BY <2>1, <3>1, <3>2 DEF ApplyMessages, Net
  <2>3. CASE ~gap
    <3>1. ApplyMessages(p, feedValid, book)
      BY <1>1, <2>3 DEF ApplyPacket
    <3>2. x.valid = feedValid /\ held = book
      BY <1>4, <1>7, <2>3
    <3> HIDE DEF x, held
    <3>3. QED
      BY <2>1, <3>1, <3>2 DEF ApplyMessages, Net
  <2>4. QED
    BY <2>2, <2>3
<1>10. after = HotState'
  <2>1. after \in HotStates
    BY <1>8 DEF Shows
  <2> HIDE DEF after
  <2>2. after = [table |-> after.table, valid |-> after.valid, dirAt |-> after.dirAt]
    BY <2>1 DEF HotStates
  <2>3. QED
    BY <1>1, <1>8, <1>9, <2>2 DEF HotState
<1> HIDE DEF after
<1>11. Shows(HotState', book', expected')
  BY <1>8, <1>9, <1>10
<1>12. QED
  BY <1>1, <1>9, <1>11 DEF HotInv, Shows

\* No other step touches what the hot books show.
LEMMA StillKeepsHot ==
  ASSUME HotInv, UNCHANGED <<hotT, feedValid, dirAt, book, started, expected, content>>
  PROVE  HotInv'
BY DEF HotInv, HotState, Shows

\* applyPacket is the only step that matters to the hot books.
LEMMA NextHot ==
  ASSUME Ground, HotInv, [RunNext]_runVars
  PROVE  HotInv'
<1>1. Publish => HotInv'
  BY StillKeepsHot DEF Publish, AppendMarketData, tableVars, dutVars
<1>2. Flush => HotInv'
  BY StillKeepsHot DEF Flush, FlushMarketData, tableVars, dutVars
<1>3. \A q \in sent : Arrive(q) => HotInv'
  BY StillKeepsHot DEF Arrive, tableVars, vars
<1>4. HandleStale \/ HandleGap \/ Stop \/ ColdBegin \/ ColdJoined => HotInv'
  BY StillKeepsHot DEF HandleStale, HandleGap, Stop, ColdBegin, ColdJoined, tableVars, vars
<1>5. ColdReset \/ ColdStale => HotInv'
  BY StillKeepsHot DEF ColdReset, ColdStale, vars
<1>6. \A cut \in 0 .. PacketCap : ColdEnd(cut) => HotInv'
  BY StillKeepsHot DEF ColdEnd, vars
<1>7. UNCHANGED runVars => HotInv'
  BY StillKeepsHot DEF runVars, tableVars, vars
<1>8. QED
  BY <1>1, <1>2, <1>3, <1>4, <1>5, <1>6, <1>7, PacketKeepsHot DEF RunNext

\* The newest frame in a buffer is a frame that arrived, and the one asked for
\* unless that was overwritten.
LEMMA BufferIsFilled ==
  ASSUME NEW a \in Nat, NEW k \in Nat, k <= a, NEW d \in Nat \ {0}
  PROVE  /\ (a - k) \div d \in Nat
         /\ k + d * ((a - k) \div d) \in k .. a
         /\ a < k + d => k + d * ((a - k) \div d) = k
<1> DEFINE n == a - k
           q == n \div d
<1>1. n \in Nat
  OBVIOUS
<1> HIDE DEF n
<1>2. q \in Int /\ d * q <= n /\ n < d * q + d
  BY <1>1
<1>3. q >= 0
  BY <1>1
<1>4. n < d => q = 0
  BY <1>1
<1> HIDE DEF q
<1>5. d * q \in Nat
  BY <1>2, <1>3
<1>6. n < d => d * q = 0
  BY <1>4
<1>7. QED
  BY <1>2, <1>3, <1>5, <1>6 DEF n, q

(***************************************************************************)
(* The cold thread's side.  The queue holds entries for frames and markers *)
(* for gaps; what the tracker let through is done, queued or lost.         *)
(***************************************************************************)
Entries == {i \in 1 .. Len(coldQ) : coldQ[i].frame # NoFrame}
Markers == {i \in 1 .. Len(coldQ) : coldQ[i].frame = NoFrame}
Ref(i) == frames[coldQ[i].frame]
Done == {s \in seen \ lost : \A i \in Entries : s \notin Messages(Ref(i))}

\* Entries come in the order of the feed, behind what is done.
QueueOK ==
  /\ lost \subseteq seen
  /\ \A i \in Entries : coldQ[i].frame \in 1 .. handled /\ Messages(Ref(i)) \subseteq seen \ lost
  /\ \A i, j \in Entries : i < j => Ref(i).seq + Ref(i).count <= Ref(j).seq
  /\ \A i \in Entries : \A s \in Done : s < Ref(i).seq
  /\ reading.on => coldQ # <<>> /\ Head(coldQ).frame # NoFrame

\* Between the marker of a gap and the packet behind the gap.
GapMarked ==
  resetDone => /\ handled < arrived /\ Result(Here) = "Gap"
               /\ coldQ = <<>> => \A l \in Locates \ HotStocks : Held(coldT, l) = {}
               /\ coldQ # <<>> => coldQ[Len(coldQ)].frame = NoFrame

\* The last marker parts what came before the last gap from what came after it.
GapSplit ==
  /\ gapAt \in Nat /\ IF started THEN gapAt <= expected ELSE gapAt = 0
  /\ ~resetDone =>
       /\ \A i \in Entries : (\E m \in Markers : m > i) => Ref(i).seq + Ref(i).count <= gapAt
       /\ \A i \in Entries : ~(\E m \in Markers : m > i) => gapAt <= Ref(i).seq
       /\ Markers # {} => \A s \in Done : s < gapAt

\* Once the last marker is consumed the books hold what is done since the gap.
ColdGood == ~torn /\ ~resetDone /\ Markers = {} => Keeps(coldT, Done, gapAt)

ColdTable == coldT \in ColdStates /\ coldT.scope = "ColdOnly"

ColdSide == ColdTable /\ QueueOK /\ GapMarked /\ GapSplit /\ ColdGood

\* What an entry refers to.
LEMMA EntryRefs ==
  ASSUME Ground, QueueOK, NEW i \in Entries
  PROVE  /\ i \in Nat /\ i > 0 /\ coldQ[i].frame \in 1 .. handled
         /\ Ref(i) \in sent /\ Ref(i) \in Packet /\ Ref(i).seq \in Nat /\ Ref(i).count \in Nat
         /\ Ref(i).count > 0 /\ Readable(Ref(i))
<1>1. coldQ[i].frame \in 1 .. handled /\ i \in 1 .. Len(coldQ) /\ Len(coldQ) \in Nat
  BY DEF QueueOK, Entries, Ground, ColdInv, ColdTypes
<1>2. handled \in Nat /\ Len(frames) = arrived /\ handled <= arrived /\ arrived \in Nat
      /\ \A j \in 1 .. Len(frames) : frames[j] \in sent
  BY DEF Ground, ColdInv, ColdTypes, Received
<1>3. Ref(i) \in sent
  BY <1>1, <1>2 DEF Ref
<1>4. QED
  BY <1>1, <1>3, SentIsReadable DEF Readable, Packet

\* Everything done or seen is a number, and published.
LEMMA SeenPublished ==
  ASSUME Ground
  PROVE  seen \subseteq Nat /\ Done \in SUBSET Nat /\ \A s \in seen : s < nextSeq
<1>1. seen \subseteq Nat /\ expected \in Nat /\ nextSeq \in Nat /\ packer \in Packet
  BY DEF Ground, IInv, TypeOK
<1>2. started => expected <= nextSeq
  BY <1>1 DEF Ground, IInv, AtBoundary, PacketsPartition, Frontier, Packet
<1>3. \A s \in seen : started /\ s <= expected - 1
  BY <1>1 DEF Ground, IInv, AtBoundary, SeenBelowExpected
<1>4. Done \in SUBSET Nat
  BY <1>1 DEF Done
<1>5. QED
  BY <1>1, <1>2, <1>3, <1>4

\* The queue and the cold table start empty.
LEMMA InitColdSide == RunInit => ColdSide
<1> SUFFICES ASSUME RunInit PROVE ColdSide
  OBVIOUS
<1>1. /\ coldQ = <<>> /\ seen = {} /\ lost = {} /\ gapAt = 0 /\ ~torn /\ ~resetDone
      /\ ~started /\ reading = NotReading
  BY DEF RunInit, Init, ColdInit
<1>2. PICK preset \in SUBSET HotStocks : coldT = NewTable("ColdOnly", preset)
  BY DEF RunInit
<1>3. TableOK(coldT) /\ coldT.scope = "ColdOnly" /\ \A l \in Locates : Held(coldT, l) = {}
  BY <1>2, NewTableIsOK
<1>4. ColdTable
  BY <1>3 DEF ColdTable, ColdStates, TableOK
<1>5. Len(coldQ) = 0 /\ Entries = {} /\ Markers = {} /\ Done = {}
  BY <1>1 DEF Entries, Markers, Done
<1>6. QueueOK
  BY <1>1, <1>5 DEF QueueOK, NotReading
<1>7. GapMarked /\ GapSplit
  BY <1>1, <1>5 DEF GapMarked, GapSplit
<1>8. ColdGood
  BY <1>3, <1>5 DEF ColdGood, Keeps, Kept
<1>9. QED
  BY <1>4, <1>6, <1>7, <1>8 DEF ColdSide

\* Steps that leave the queue, the accounts and the cold books alone.
LEMMA QuietKeepsColdSide ==
  ASSUME Ground, ColdSide,
         UNCHANGED <<coldQ, seen, lost, coldT, gapAt, torn, content, expected, started, resetDone>>,
         handled' \in Nat, handled <= handled', starts' \cap seen = starts \cap seen,
         \A i \in 1 .. handled : frames'[i] = frames[i],
         resetDone => /\ handled' = handled /\ arrived' >= arrived /\ arrived' \in Nat
                      /\ frames'[handled + 1] = frames[handled + 1],
         reading' = reading \/ (coldQ # <<>> /\ Head(coldQ).frame # NoFrame)
  PROVE  ColdSide'
<1>0. handled \in Nat /\ arrived \in Nat
  BY DEF Ground, ColdInv, ColdTypes
<1>1. Entries' = Entries /\ Markers' = Markers /\ \A i \in Entries : Ref(i)' = Ref(i)
  BY DEF ColdSide, QueueOK, Entries, Markers, Ref
<1>2. Done' = Done
  <2>1. \A s : (\A i \in Entries' : s \notin Messages(Ref(i))') <=> (\A i \in Entries : s \notin Messages(Ref(i)))
    BY <1>1 DEF Messages
  <2>2. QED
    BY <2>1 DEF Done
<1>3. ColdTable'
  BY DEF ColdSide, ColdTable
<1>4. QueueOK'
  <2>1. /\ lost' \subseteq seen'
        /\ \A i \in Entries' : coldQ'[i].frame \in 1 .. handled'
    BY <1>0, <1>1 DEF ColdSide, QueueOK
  <2>2. \A i \in Entries' : Messages(Ref(i))' \subseteq seen' \ lost'
    BY <1>1 DEF ColdSide, QueueOK, Messages
  <2>3. \A i, j \in Entries' : i < j => Ref(i)'.seq + Ref(i)'.count <= Ref(j)'.seq
    BY <1>1 DEF ColdSide, QueueOK
  <2>4. \A i \in Entries' : \A s \in Done' : s < Ref(i)'.seq
    BY <1>1, <1>2 DEF ColdSide, QueueOK
  <2>5. reading'.on => coldQ' # <<>> /\ Head(coldQ').frame # NoFrame
    BY DEF ColdSide, QueueOK
  <2>6. QED
    BY <2>1, <2>2, <2>3, <2>4, <2>5 DEF QueueOK
<1>5. GapMarked'
  BY <1>0 DEF ColdSide, GapMarked, Here, Result
<1>6. GapSplit'
  BY <1>1, <1>2 DEF ColdSide, GapSplit
<1>7. ColdGood'
  <2> SUFFICES ASSUME ~torn, ~resetDone, Markers = {}
               PROVE  Keeps(coldT, Done, gapAt)'
    BY <1>1 DEF ColdGood
  <2>1. Keeps(coldT, Done, gapAt)
    BY DEF ColdSide, ColdGood
  <2>2. Done \subseteq seen
    BY DEF Done
  <2>3. starts' \cap Done = starts \cap Done
    BY <2>2
  <2>4. QED
    BY <1>2, <2>1, <2>3 DEF Keeps, Kept
<1>8. QED
  BY <1>3, <1>4, <1>5, <1>6, <1>7 DEF ColdSide

\* Popping the front moves every other entry and marker up.
LEMMA PopMoves ==
  ASSUME Ground, coldQ # <<>>, coldQ' = Tail(coldQ), frames' = frames
  PROVE  /\ Head(coldQ) = coldQ[1] /\ 1 \in 1 .. Len(coldQ) /\ Len(coldQ) \in Nat
         /\ Len(coldQ') = Len(coldQ) - 1 /\ (coldQ' # <<>> <=> Len(coldQ') > 0)
         /\ coldQ' # <<>> => coldQ'[Len(coldQ')] = coldQ[Len(coldQ)]
         /\ \A i \in Entries' : /\ i \in Nat /\ i + 1 \in Entries /\ i + 1 # 1
                                /\ coldQ'[i] = coldQ[i + 1] /\ Ref(i)' = Ref(i + 1)
         /\ \A i \in Markers' : i \in Nat /\ i + 1 \in Markers
         /\ \A j \in Entries : j \in Nat /\ (j # 1 => j - 1 \in Entries' /\ Ref(j - 1)' = Ref(j))
         /\ \A j \in Markers : j \in Nat /\ (j # 1 => j - 1 \in Markers')
<1>1. ColdTypes /\ coldQ \in Seq(Reference) /\ Len(coldQ) \in Nat
  BY DEF Ground, ColdInv, ColdTypes
<1>2. /\ coldQ' \in Seq(Reference) /\ Len(coldQ') = Len(coldQ) - 1
      /\ \A i \in 1 .. Len(coldQ') : i + 1 \in 1 .. Len(coldQ) /\ coldQ'[i] = coldQ[i + 1]
  BY <1>1, PopShifts
<1>3. Len(coldQ) > 0 /\ Head(coldQ) = coldQ[1]
  BY <1>1, EmptySeq, LenProperties
<1>4. coldQ' # <<>> <=> Len(coldQ') > 0
  <2>1. \A q \in Seq(Reference) : Len(q) \in Nat /\ (q = <<>> <=> Len(q) = 0)
    BY EmptySeq
  <2>2. QED
    BY <1>2, <2>1
<1>5. \A i \in 1 .. Len(coldQ') : i + 1 # 1 /\ i \in Nat
  BY <1>1, <1>2
<1>6. \A j \in 1 .. Len(coldQ) : j # 1 => /\ j - 1 \in 1 .. Len(coldQ') /\ (j - 1) + 1 = j
  BY <1>1, <1>2
<1>7. \A j \in 1 .. Len(coldQ) : j # 1 => j - 1 \in 1 .. Len(coldQ') /\ coldQ'[j - 1] = coldQ[j]
  BY <1>2, <1>6
<1>8. coldQ' # <<>> => coldQ'[Len(coldQ')] = coldQ[Len(coldQ)]
  <2> SUFFICES ASSUME coldQ' # <<>> PROVE coldQ'[Len(coldQ')] = coldQ[Len(coldQ)]
    OBVIOUS
  <2>1. Len(coldQ') \in 1 .. Len(coldQ') /\ Len(coldQ') + 1 = Len(coldQ)
    BY <1>1, <1>2, <1>4
  <2>2. QED
    BY <1>2, <2>1
<1>9. \A i \in Entries' : /\ i \in Nat /\ i + 1 \in Entries /\ i + 1 # 1
                          /\ coldQ'[i] = coldQ[i + 1] /\ Ref(i)' = Ref(i + 1)
  BY <1>2, <1>5 DEF Entries, Ref
<1>10. \A i \in Markers' : i \in Nat /\ i + 1 \in Markers
  BY <1>2, <1>5 DEF Markers
<1>11. \A j \in Entries : j \in Nat /\ (j # 1 => j - 1 \in Entries' /\ Ref(j - 1)' = Ref(j))
  BY <1>1, <1>7 DEF Entries, Ref
<1>12. \A j \in Markers : j \in Nat /\ (j # 1 => j - 1 \in Markers')
  BY <1>1, <1>7 DEF Markers
<1>13. QED
  <2>1. 1 \in 1 .. Len(coldQ)
    BY <1>1, <1>3
  <2>2. QED
    BY <1>1, <1>2, <1>3, <1>4, <1>8, <1>9, <1>10, <1>11, <1>12, <2>1, Zenon

(***************************************************************************)
(* What popping the front does to the accounts.  gone are the messages     *)
(* that are done from now on.                                              *)
(***************************************************************************)
Popped(gone) ==
  /\ coldQ # <<>> /\ coldQ' = Tail(coldQ)
  /\ UNCHANGED <<frames, seen, starts, handled, arrived, gapAt, content, expected, started, resetDone>>
  /\ reading'.on = FALSE
  /\ \/ Head(coldQ).frame = NoFrame /\ gone = {} /\ lost' = lost
     \/ Head(coldQ).frame # NoFrame /\ gone = {} /\ lost' = lost \cup Messages(Ref(1))
     \/ Head(coldQ).frame # NoFrame /\ gone = Messages(Ref(1)) /\ lost' = lost

\* A pop moves the front's messages to what is done, or to what is lost.
LEMMA PoppedDone ==
  ASSUME Ground, ColdSide, NEW gone, Popped(gone)
  PROVE  Done' = Done \cup gone /\ gone \subseteq seen \ lost
<1>0. QueueOK
  BY DEF ColdSide
<1>1. /\ Head(coldQ) = coldQ[1] /\ 1 \in 1 .. Len(coldQ)
      /\ \A i \in Entries' : i + 1 \in Entries /\ i + 1 # 1 /\ Ref(i)' = Ref(i + 1)
      /\ \A j \in Entries : j # 1 => j - 1 \in Entries' /\ Ref(j - 1)' = Ref(j)
  BY PopMoves DEF Popped
<1>2. \A i \in Entries : Messages(Ref(i)) \subseteq seen \ lost
  BY <1>0 DEF QueueOK
<1>3. \A s : (\A i \in Entries' : s \notin Messages(Ref(i))')
               <=> (\A j \in Entries : j # 1 => s \notin Messages(Ref(j)))
  BY <1>1 DEF Messages
<1>4. Done' = {s \in seen \ lost' : \A j \in Entries : j # 1 => s \notin Messages(Ref(j))}
  BY <1>3 DEF Done, Popped
<1>5. CASE Head(coldQ).frame = NoFrame
  <2>1. 1 \notin Entries /\ gone = {} /\ lost' = lost
    BY <1>1, <1>5 DEF Entries, Popped
  <2>2. QED
    BY <1>4, <2>1 DEF Done
<1>6. CASE Head(coldQ).frame # NoFrame
  <2>1. 1 \in Entries
    BY <1>1, <1>6 DEF Entries
  <2>2. Messages(Ref(1)) \subseteq seen \ lost
    BY <1>2, <2>1
  <2>3. \A j \in Entries : j # 1 => \A s \in Messages(Ref(1)) : s \notin Messages(Ref(j))
    <3> SUFFICES ASSUME NEW j \in Entries, j # 1, NEW s \in Messages(Ref(1)), s \in Messages(Ref(j))
                 PROVE  FALSE
      OBVIOUS
    <3>1. Ref(1).seq + Ref(1).count <= Ref(j).seq
      <4>1. 1 < j
        BY <1>0, EntryRefs
      <4>2. QED
        BY <1>0, <2>1, <4>1 DEF QueueOK
    <3>2. Ref(1).seq \in Nat /\ Ref(1).count \in Nat /\ Ref(j).seq \in Nat /\ Ref(j).count \in Nat
      BY <1>0, <2>1, EntryRefs
    <3>3. QED
      BY <3>1, <3>2 DEF Messages
  <2>4. CASE gone = {} /\ lost' = lost \cup Messages(Ref(1))
    BY <1>4, <2>1, <2>4 DEF Done
  <2>5. CASE gone = Messages(Ref(1)) /\ lost' = lost
    BY <1>4, <2>1, <2>2, <2>3, <2>5 DEF Done
  <2>6. QED
    BY <1>6, <2>4, <2>5 DEF Popped
<1>7. QED
  BY <1>5, <1>6

\* The queue is in order behind the front.
LEMMA PoppedQueue ==
  ASSUME Ground, ColdSide, NEW gone, Popped(gone)
  PROVE  QueueOK'
<1>0. QueueOK
  BY DEF ColdSide
<1>1. /\ Head(coldQ) = coldQ[1] /\ 1 \in 1 .. Len(coldQ)
      /\ \A i \in Entries' : /\ i \in Nat /\ i + 1 \in Entries /\ i + 1 # 1 /\ Ref(i)' = Ref(i + 1)
                             /\ coldQ'[i] = coldQ[i + 1]
  BY PopMoves DEF Popped
<1>2. Done' = Done \cup gone /\ gone \subseteq seen \ lost
  BY PoppedDone
<1>3. \A j \in Entries : j # 1 /\ 1 \in Entries => Ref(1).seq + Ref(1).count <= Ref(j).seq
  <2> SUFFICES ASSUME NEW j \in Entries, j # 1, 1 \in Entries
               PROVE  Ref(1).seq + Ref(1).count <= Ref(j).seq
    OBVIOUS
  <2>1. 1 < j
    BY <1>0, EntryRefs
  <2>2. QED
    BY <1>0, <2>1 DEF QueueOK
<1>4. 1 \in Entries <=> Head(coldQ).frame # NoFrame
  BY <1>1 DEF Entries
<1>5. \A j \in Entries : j # 1 /\ 1 \in Entries => \A s \in Messages(Ref(1)) : s < Ref(j).seq /\ s \notin Messages(Ref(j))
  <2> SUFFICES ASSUME NEW j \in Entries, j # 1, 1 \in Entries, NEW s \in Messages(Ref(1))
               PROVE  s < Ref(j).seq /\ s \notin Messages(Ref(j))
    OBVIOUS
  <2>1. Ref(1).seq \in Nat /\ Ref(1).count \in Nat /\ Ref(j).seq \in Nat /\ Ref(j).count \in Nat
    BY <1>0, EntryRefs
  <2>2. QED
    BY <1>3, <2>1 DEF Messages
<1>6. lost' \subseteq seen'
  BY <1>0, <1>4 DEF QueueOK, Popped
<1>7. \A i \in Entries' : coldQ'[i].frame \in 1 .. handled'
  BY <1>0, <1>1 DEF QueueOK, Popped
<1>8. \A i \in Entries' : Messages(Ref(i))' \subseteq seen' \ lost'
  <2> SUFFICES ASSUME NEW i \in Entries' PROVE Messages(Ref(i + 1)) \subseteq seen' \ lost'
    BY <1>1 DEF Messages
  <2>1. i + 1 \in Entries /\ i + 1 # 1
    BY <1>1
  <2>2. Messages(Ref(i + 1)) \subseteq seen \ lost
    BY <1>0, <2>1 DEF QueueOK
  <2>3. 1 \in Entries => \A s \in Messages(Ref(1)) : s \notin Messages(Ref(i + 1))
    BY <1>5, <2>1
  <2>4. QED
    BY <1>4, <2>2, <2>3 DEF Popped
<1>9. \A i, j \in Entries' : i < j => Ref(i)'.seq + Ref(i)'.count <= Ref(j)'.seq
  <2> SUFFICES ASSUME NEW i \in Entries', NEW j \in Entries', i < j
               PROVE  Ref(i + 1).seq + Ref(i + 1).count <= Ref(j + 1).seq
    BY <1>1
  <2>1. i + 1 \in Entries /\ j + 1 \in Entries /\ i + 1 < j + 1
    BY <1>1
  <2>2. QED
    BY <1>0, <2>1 DEF QueueOK
<1>10. \A i \in Entries' : \A s \in Done' : s < Ref(i)'.seq
  <2> SUFFICES ASSUME NEW i \in Entries', NEW s \in Done' PROVE s < Ref(i + 1).seq
    BY <1>1
  <2>1. i + 1 \in Entries /\ i + 1 # 1
    BY <1>1
  <2>2. s \in Done \/ (1 \in Entries /\ s \in Messages(Ref(1)))
    BY <1>2, <1>4 DEF Popped
  <2>3. QED
    BY <1>0, <1>5, <2>1, <2>2 DEF QueueOK
<1>11. ~ reading'.on
  BY DEF Popped
<1>12. QED
  BY <1>6, <1>7, <1>8, <1>9, <1>10, <1>11 DEF QueueOK

\* The last marker still parts the queue, and none is gained.
LEMMA PoppedSplit ==
  ASSUME Ground, ColdSide, NEW gone, Popped(gone)
  PROVE  /\ GapSplit' /\ (Markers' # {} => Markers # {})
         /\ Head(coldQ).frame # NoFrame /\ Markers' = {} => Markers = {}
<1>0. QueueOK /\ GapSplit
  BY DEF ColdSide
<1>1. /\ Head(coldQ) = coldQ[1] /\ 1 \in 1 .. Len(coldQ)
      /\ \A i \in Entries' : i \in Nat /\ i + 1 \in Entries /\ i + 1 # 1 /\ Ref(i)' = Ref(i + 1)
      /\ \A i \in Markers' : i \in Nat /\ i + 1 \in Markers
      /\ \A j \in Markers : j \in Nat /\ (j # 1 => j - 1 \in Markers')
  BY PopMoves DEF Popped
<1>2. Done' = Done \cup gone
  BY PoppedDone
<1>3. /\ gapAt' = gapAt /\ started' = started /\ expected' = expected /\ resetDone' = resetDone
  BY DEF Popped
<1>4. Markers' # {} => Markers # {}
  BY <1>1
<1>5. Head(coldQ).frame # NoFrame => 1 \in Entries /\ 1 \notin Markers
  BY <1>1 DEF Entries, Markers
<1>6. Head(coldQ).frame # NoFrame /\ Markers' = {} => Markers = {}
  BY <1>1, <1>5
<1>7. ASSUME ~resetDone, NEW i \in Entries', \E m \in Markers' : m > i
      PROVE  Ref(i)'.seq + Ref(i)'.count <= gapAt
  <2>1. PICK m \in Markers' : m > i
    BY <1>7
  <2>2. i + 1 \in Entries /\ m + 1 \in Markers /\ m + 1 > i + 1
    BY <1>1, <2>1
  <2>3. Ref(i + 1).seq + Ref(i + 1).count <= gapAt
    BY <1>0, <1>7, <2>2 DEF GapSplit
  <2>4. QED
    BY <1>1, <2>3
<1>8. ASSUME ~resetDone, NEW i \in Entries', ~ (\E m \in Markers' : m > i)
      PROVE  gapAt <= Ref(i)'.seq
  <2>1. i \in Nat /\ i + 1 \in Entries /\ Ref(i)' = Ref(i + 1)
    BY <1>1
  <2>2. ~ (\E m \in Markers : m > i + 1)
    <3> SUFFICES ASSUME NEW m \in Markers, m > i + 1 PROVE FALSE
      OBVIOUS
    <3>1. m \in Nat /\ m # 1
      BY <1>1, <2>1
    <3>2. m - 1 \in Markers' /\ m - 1 > i
      BY <1>1, <2>1, <3>1
    <3>3. QED
      BY <1>8, <3>2
  <2>3. gapAt <= Ref(i + 1).seq
    BY <1>0, <1>8, <2>1, <2>2 DEF GapSplit
  <2>4. QED
    BY <2>1, <2>3
<1>9. ASSUME ~resetDone, Markers' # {}, NEW s \in Done' PROVE s < gapAt
  <2>1. CASE s \in Done
    BY <1>0, <1>4, <1>9, <2>1 DEF GapSplit
  <2>2. CASE s \in gone
    <3>1. 1 \in Entries /\ 1 \notin Markers /\ s \in Messages(Ref(1))
      BY <1>5, <2>2 DEF Popped
    <3>2. PICK m \in Markers : TRUE
      BY <1>4, <1>9
    <3>3. m > 1
      <4>1. m \in 1 .. Len(coldQ) /\ m # 1
        BY <3>1 DEF Markers
      <4>2. QED
        BY <4>1
    <3>4. Ref(1).seq + Ref(1).count <= gapAt
      BY <1>0, <1>9, <3>1, <3>3 DEF GapSplit
    <3>5. Ref(1).seq \in Nat /\ Ref(1).count \in Nat /\ gapAt \in Nat
      BY <1>0, <3>1, EntryRefs DEF GapSplit
    <3>6. QED
      BY <3>1, <3>4, <3>5 DEF Messages
  <2>3. QED
    BY <1>2, <1>9, <2>1, <2>2
<1>10. GapSplit'
  <2>1. gapAt' \in Nat /\ IF started' THEN gapAt' <= expected' ELSE gapAt' = 0
    BY <1>0, <1>3 DEF GapSplit
  <2>2. ~resetDone' =>
          /\ \A i \in Entries' : (\E m \in Markers' : m > i) => Ref(i)'.seq + Ref(i)'.count <= gapAt'
          /\ \A i \in Entries' : ~(\E m \in Markers' : m > i) => gapAt' <= Ref(i)'.seq
          /\ Markers' # {} => \A s \in Done' : s < gapAt'
    BY <1>3, <1>7, <1>8, <1>9
  <2>3. QED
    BY <2>1, <2>2 DEF GapSplit
<1>11. QED
  BY <1>4, <1>6, <1>10

\* The marker of the gap being handled stays last, or has emptied the books.
LEMMA PoppedMarked ==
  ASSUME Ground, ColdSide, NEW gone, Popped(gone),
         Head(coldQ).frame = NoFrame => \A l \in Locates \ HotStocks : Held(coldT', l) = {}
  PROVE  GapMarked'
<1> SUFFICES ASSUME resetDone'
             PROVE  /\ handled' < arrived' /\ Result(Here)' = "Gap"
                    /\ coldQ' = <<>> => \A l \in Locates \ HotStocks : Held(coldT', l) = {}
                    /\ coldQ' # <<>> => coldQ'[Len(coldQ')].frame = NoFrame
  BY DEF GapMarked
<1>1. resetDone /\ coldQ # <<>>
  BY DEF Popped
<1>2. handled < arrived /\ Result(Here) = "Gap" /\ coldQ[Len(coldQ)].frame = NoFrame
  BY <1>1 DEF ColdSide, GapMarked
<1>3. handled' < arrived' /\ Result(Here)' = "Gap"
  BY <1>2 DEF Popped, Result, Here
<1>4. /\ Head(coldQ) = coldQ[1] /\ Len(coldQ) \in Nat /\ Len(coldQ') = Len(coldQ) - 1
      /\ coldQ' # <<>> <=> Len(coldQ') > 0
      /\ coldQ' # <<>> => coldQ'[Len(coldQ')] = coldQ[Len(coldQ)] /\ 1 \in 1 .. Len(coldQ)
      /\ 1 \in 1 .. Len(coldQ)
  BY PopMoves DEF Popped
<1>5. coldQ' = <<>> => Head(coldQ).frame = NoFrame
  <2> SUFFICES ASSUME coldQ' = <<>> PROVE Head(coldQ).frame = NoFrame
    OBVIOUS
  <2>1. Len(coldQ) = 1
    BY <1>4
  <2>2. QED
    BY <1>2, <1>4, <2>1
<1>6. QED
  BY <1>2, <1>3, <1>4, <1>5

\* consume on a marker.
LEMMA ColdResetKeeps ==
  ASSUME Ground, ColdSide, ColdReset
  PROVE  ColdSide'
<1>1. /\ coldQ # <<>> /\ Head(coldQ).frame = NoFrame /\ coldT' = ClearAll(coldT) /\ ~reading.on
  BY DEF ColdReset, ConsumeReset, AtFront
<1>2. Popped({})
  BY <1>1 DEF Popped, ColdReset, ConsumeReset, Pop, vars
<1>3. ColdTable
  BY DEF ColdSide
<1>4. TableOK(coldT') /\ coldT'.scope = "ColdOnly" /\ \A l \in Locates : Held(coldT', l) = {}
  BY <1>1, <1>3, ClearedIsOK DEF ColdTable, ColdStates
<1>5. ColdTable'
  BY <1>4 DEF ColdTable, ColdStates, TableOK
<1>6. QueueOK' /\ GapSplit' /\ Done' = Done
  BY <1>2, PoppedQueue, PoppedSplit, PoppedDone
<1>7. GapMarked'
  BY <1>2, <1>4, PoppedMarked
<1>8. ColdGood'
  <2> SUFFICES ASSUME ~resetDone'
               PROVE  Keeps(coldT, Done, gapAt)'
    BY DEF ColdGood
  <2>1. ~resetDone /\ gapAt' = gapAt
    BY <1>2 DEF Popped
  <2>2. Markers # {}
    <3>1. Head(coldQ) = coldQ[1] /\ 1 \in 1 .. Len(coldQ)
      BY <1>2, PopMoves DEF Popped
    <3>2. QED
      BY <1>1, <3>1 DEF Markers
  <2>3. \A s \in Done : s < gapAt /\ s \in Nat
    BY <2>1, <2>2, SeenPublished DEF ColdSide, GapSplit
  <2>4. gapAt \in Nat
    BY DEF ColdSide, GapSplit
  <2>5. \A l : Kept(Done, l, gapAt)' = {}
    BY <1>6, <2>1, <2>3, <2>4 DEF Kept
  <2>6. QED
    BY <1>4, <2>5 DEF Keeps
<1>9. QED
  BY <1>5, <1>6, <1>7, <1>8 DEF ColdSide

\* consume on a frame it finds too deep in the queue.
LEMMA ColdStaleKeeps ==
  ASSUME Ground, ColdSide, ColdStale
  PROVE  ColdSide'
<1>1. coldQ # <<>> /\ Head(coldQ).frame # NoFrame /\ ~reading.on
  BY DEF ColdStale, ConsumeStale, AtFront
<1>2. Head(coldQ) = coldQ[1]
  BY <1>1 DEF Ground, ColdInv, ColdTypes
<1>3. Popped({})
  BY <1>1, <1>2 DEF Popped, ColdStale, ConsumeStale, Pop, vars, Ref
<1>4. coldT' = coldT /\ torn' = torn /\ starts' = starts /\ content' = content /\ gapAt' = gapAt
      /\ resetDone' = resetDone
  BY DEF ColdStale, ConsumeStale, vars
<1>5. ColdTable'
  BY <1>4 DEF ColdSide, ColdTable
<1>6. QueueOK' /\ GapSplit' /\ Done' = Done /\ GapMarked' /\ (Markers' = {} => Markers = {})
  <2>1. QueueOK' /\ GapMarked'
    BY <1>1, <1>3, PoppedQueue, PoppedMarked
  <2>2. GapSplit' /\ (Markers' = {} => Markers = {})
    BY <1>1, <1>3, PoppedSplit
  <2>3. Done' = Done
    BY <1>3, PoppedDone
  <2>4. QED
    BY <2>1, <2>2, <2>3
<1>7. ColdGood'
  BY <1>4, <1>6 DEF ColdSide, ColdGood, Keeps, Kept
<1>8. QED
  BY <1>5, <1>6, <1>7 DEF ColdSide

\* The messages of a packet, as a sequence.
LEMMA InOrderIs ==
  ASSUME NEW p, Readable(p)
  PROVE  /\ InOrder(p) \in Seq(Nat) /\ Len(InOrder(p)) = p.count
         /\ \A i \in 1 .. Len(InOrder(p)) : Known(InOrder(p)[i])
<1>1. p.seq \in Nat \ {0} /\ p.count \in Nat
  BY DEF Readable
<1>2. InOrder(p) \in [1 .. p.count -> Nat] /\ \A i \in 1 .. p.count : InOrder(p)[i] = p.seq + i - 1
  BY <1>1 DEF InOrder
<1>3. InOrder(p) \in Seq(Nat) /\ Len(InOrder(p)) = p.count
  BY <1>1, <1>2
<1>4. \A i \in 1 .. p.count : p.seq + i - 1 \in Messages(p)
  BY <1>1 DEF Messages
<1>5. QED
  BY <1>2, <1>3, <1>4 DEF Readable

\* applyFrame keeps the table in order, whatever it read.
LEMMA FrameKeepsTable ==
  ASSUME NEW t \in ColdStates, NEW msgs, Len(msgs) \in Nat, \A i \in 1 .. Len(msgs) : Known(msgs[i])
  PROVE  ApplyFrame(t, msgs) \in ColdStates /\ ApplyFrame(t, msgs).scope = t.scope
<1> DEFINE n == Len(msgs)
<1>1. PICK f \in [0 .. n -> ColdStates] :
         /\ f[0] = t /\ \A i \in 1 .. n : f[i] = ApplyOne(f[i - 1], msgs[i])
         /\ ApplyFrame(t, msgs) = f[n]
  BY ApplyFrameSteps
<1>0. n \in Nat
  OBVIOUS
<1> DEFINE T == {i \in 0 .. n : f[i].scope = t.scope}
<1>2. 0 \in T
  BY <1>1
<1>3. ASSUME NEW i \in 0 .. (n - 1), i \in T PROVE i + 1 \in T
  <2>1. i \in 0 .. n /\ i + 1 \in 1 .. n /\ (i + 1) - 1 = i /\ i + 1 \in 0 .. n
    BY <1>0
  <2>2. f[i] \in ColdStates /\ f[i + 1] = ApplyOne(f[i], msgs[i + 1]) /\ Known(msgs[i + 1])
    BY <1>1, <2>1
  <2>3. f[i + 1].scope = f[i].scope
    BY <2>2, ApplyOneStays
  <2>4. QED
    BY <1>3, <2>1, <2>3
<1>4. \A i \in 0 .. n : i \in T
  <2> HIDE DEF T, n
  <2>1. QED
    BY <1>0, <1>2, <1>3, EveryTurn
<1>5. n \in 0 .. n
  BY <1>0
<1>6. QED
  BY <1>1, <1>4, <1>5

\* What the cold thread read of two frames, known whatever it read.
LEMMA TornIsKnown ==
  ASSUME NEW a \in Seq(Nat), NEW b \in Seq(Nat), NEW cut \in Nat, cut <= Len(a),
         \A i \in 1 .. Len(a) : Known(a[i]), \A i \in 1 .. Len(b) : Known(b[i])
  PROVE  LET m == SubSeq(a, 1, cut) \o SubSeq(b, cut + 1, Len(b))
         IN /\ Len(m) \in Nat /\ \A i \in 1 .. Len(m) : Known(m[i])
            /\ cut = 0 => m = b
<1> DEFINE c == SubSeq(a, 1, cut)
           d == SubSeq(b, cut + 1, Len(b))
           m == c \o d
<1>1. Len(a) \in Nat /\ Len(b) \in Nat
  OBVIOUS
<1>2. c \in Seq(Nat) /\ Len(c) = cut /\ \A i \in 1 .. cut : c[i] = a[i]
  BY <1>1
<1>3. d \in Seq(Nat) /\ Len(d) = (IF cut + 1 <= Len(b) THEN Len(b) - cut ELSE 0)
      /\ \A i \in 1 .. Len(d) : d[i] = b[cut + i]
  BY <1>1
<1>4. cut = 0 => c = <<>> /\ d = b
  BY <1>1, <1>2, <1>3
<1>5. \A i \in 1 .. Len(c) : Known(c[i])
  BY <1>1, <1>2
<1>6. \A i \in 1 .. Len(d) : cut + i \in 1 .. Len(b)
  BY <1>1, <1>3
<1>7. \A i \in 1 .. Len(d) : Known(d[i])
  BY <1>3, <1>6
<1> HIDE DEF c, d
<1>8. m \in Seq(Nat) /\ Len(m) = Len(c) + Len(d) /\ Len(c) \in Nat /\ Len(d) \in Nat
      /\ \A i \in 1 .. Len(m) : m[i] = IF i <= Len(c) THEN c[i] ELSE d[i - Len(c)]
  <2>1. Len(c) \in Nat /\ Len(d) \in Nat
    BY <1>1, <1>2, <1>3
  <2>2. /\ m \in Seq(Nat) /\ Len(m) = Len(c) + Len(d)
        /\ \A i \in 1 .. Len(c) + Len(d) : m[i] = IF i <= Len(c) THEN c[i] ELSE d[i - Len(c)]
    BY <1>2, <1>3, ConcatProperties
  <2>3. QED
    BY <2>1, <2>2
<1>9. \A i \in 1 .. Len(m) : IF i <= Len(c) THEN i \in 1 .. Len(c) ELSE i - Len(c) \in 1 .. Len(d)
  BY <1>8
<1>10. \A i \in 1 .. Len(m) : Known(m[i])
  BY <1>5, <1>7, <1>8, <1>9
<1>11. cut = 0 => m = b
  BY <1>4, ConcatEmptySeq
<1>12. QED
  <2>1. Len(m) \in Nat
    BY <1>8
  <2>2. QED
    BY <1>10, <1>11, <2>1, Zenon DEF c, d

\* applyFrame, and the pop behind it.
LEMMA ColdEndKeeps ==
  ASSUME Ground, ColdSide, NEW cut \in 0 .. PacketCap, ColdEnd(cut)
  PROVE  ColdSide'
<1> DEFINE k == Head(coldQ).frame
           p == frames[k]
           q == InBuffer(k)
           m == SubSeq(InOrder(p), 1, cut) \o SubSeq(InOrder(q), cut + 1, Len(InOrder(q)))
<1>0. QueueOK /\ ColdTable
  BY DEF ColdSide
<1>1. /\ reading.on /\ cut <= Len(InOrder(p)) /\ (Recycled(k) \/ cut = 0)
      /\ coldT' = ApplyFrame(coldT, m) /\ torn' = (torn \/ Recycled(k))
  BY DEF ColdEnd, EndFrame
<1>2. coldQ # <<>> /\ k # NoFrame
  BY <1>0, <1>1 DEF QueueOK
<1>3. k = coldQ[1].frame /\ 1 \in Entries /\ p = Ref(1)
  <2>1. coldQ \in Seq(Reference)
    BY DEF Ground, ColdInv, ColdTypes
  <2>2. Head(coldQ) = coldQ[1] /\ 1 \in 1 .. Len(coldQ)
    BY <1>2, <2>1
  <2>3. QED
    BY <1>2, <2>2 DEF Entries, Ref
<1>4. k \in Nat /\ 1 <= k /\ k <= arrived /\ arrived \in Nat /\ p \in sent /\ Readable(p)
  <2>1. coldQ[1].frame \in 1 .. handled /\ Ref(1) \in sent /\ Readable(Ref(1))
    BY <1>0, <1>3, EntryRefs
  <2>2. handled \in Nat /\ arrived \in Nat /\ handled <= arrived
    BY DEF Ground, ColdInv, ColdTypes, Received
  <2>3. QED
    BY <1>3, <2>1, <2>2
<1> DEFINE j == k + RingDepth * ((arrived - k) \div RingDepth)
<1> HIDE DEF k
<1>5. j \in k .. arrived /\ (~Recycled(k) => j = k)
  <2>1. RingDepth \in Nat \ {0}
    BY ColdAssumption
  <2>2. QED
    BY <1>4, <2>1, BufferIsFilled DEF Recycled
<1>6. q = frames[j]
  BY DEF InBuffer
<1> HIDE DEF j, q
<1>7. q \in sent /\ (~Recycled(k) => q = p)
  <2>1. j \in 1 .. Len(frames) \/ j = k
    BY <1>4, <1>5 DEF Ground, Received
  <2>2. \A i \in 1 .. Len(frames) : frames[i] \in sent
    BY DEF Ground, Received
  <2>3. QED
    BY <1>4, <1>5, <1>6, <2>1, <2>2
<1>8. Readable(q)
  BY <1>7, SentIsReadable
<1> HIDE DEF p
<1>9. /\ Len(m) \in Nat /\ \A i \in 1 .. Len(m) : Known(m[i])
      /\ cut = 0 => m = InOrder(q)
  <2>1. /\ InOrder(p) \in Seq(Nat) /\ \A i \in 1 .. Len(InOrder(p)) : Known(InOrder(p)[i])
        /\ InOrder(q) \in Seq(Nat) /\ \A i \in 1 .. Len(InOrder(q)) : Known(InOrder(q)[i])
    BY <1>4, <1>8, InOrderIs
  <2>2. cut \in Nat
    BY PacketCapAssumption
  <2>3. QED
    BY <1>1, <2>1, <2>2, TornIsKnown
<1> HIDE DEF m
<1>10. coldT' \in ColdStates /\ coldT'.scope = "ColdOnly"
  BY <1>0, <1>1, <1>9, FrameKeepsTable DEF ColdTable
<1>11. Popped(Messages(Ref(1)))
  <2>1. reading'.on = FALSE
    BY DEF ColdEnd, EndFrame, NotReading
  <2>2. Head(coldQ).frame # NoFrame
    BY <1>2 DEF k
  <2>3. QED
    BY <1>2, <2>1, <2>2 DEF Popped, ColdEnd, EndFrame, Pop, vars
<1>12. QueueOK' /\ GapMarked'
  <2>1. Head(coldQ).frame # NoFrame
    BY <1>2 DEF k
  <2>2. QED
    BY <1>11, <2>1, PoppedQueue, PoppedMarked
<1>13. GapSplit' /\ (Markers' = {} => Markers = {})
  <2>1. Head(coldQ).frame # NoFrame
    BY <1>2 DEF k
  <2>2. QED
    BY <1>11, <2>1, PoppedSplit
<1>14. Done' = Done \cup Messages(Ref(1))
  BY <1>11, PoppedDone
<1>15. ColdGood'
  <2> SUFFICES ASSUME ~torn', ~resetDone', Markers' = {}
               PROVE  Keeps(coldT, Done, gapAt)'
    BY DEF ColdGood
  <2>1. ~torn /\ ~Recycled(k) /\ cut = 0 /\ ~resetDone /\ Markers = {}
    BY <1>1, <1>11, <1>13 DEF Popped
  <2>2. m = InOrder(p)
    BY <1>7, <1>9, <2>1
  <2>3. Keeps(coldT, Done, gapAt)
    BY <2>1 DEF ColdSide, ColdGood
  <2>4. gapAt \in Nat /\ gapAt <= p.seq
    BY <1>3, <2>1 DEF ColdSide, GapSplit
  <2>5. Done \in SUBSET Nat /\ \A s \in Done : s < p.seq
    BY <1>0, <1>3, SeenPublished DEF QueueOK
  <2>6. Keeps(coldT', Done \cup Messages(p), gapAt)
    BY <1>0, <1>1, <1>4, <2>2, <2>3, <2>4, <2>5, FrameKept DEF ColdTable
  <2>7. starts' = starts /\ content' = content /\ gapAt' = gapAt
    BY <1>11 DEF Popped
  <2>8. Done' = Done \cup Messages(p)
    BY <1>3, <1>14
  <2>9. QED
    BY <2>6, <2>7, <2>8 DEF Keeps, Kept
<1>16. QED
  BY <1>10, <1>12, <1>13, <1>15 DEF ColdSide, ColdTable

\* A new reference goes behind the others.
LEMMA PushMoves ==
  ASSUME Ground, ColdSide, NEW r \in Reference, coldQ' = Append(coldQ, r), frames' = frames
  PROVE  /\ Len(coldQ) \in Nat /\ coldQ' # <<>> /\ coldQ'[Len(coldQ')] = r
         /\ \A i \in 1 .. Len(coldQ) : coldQ'[i] = coldQ[i]
         /\ coldQ'[Len(coldQ) + 1] = r
         /\ coldQ # <<>> => Head(coldQ') = Head(coldQ)
         /\ Entries' = Entries \cup (IF r.frame = NoFrame THEN {} ELSE {Len(coldQ) + 1})
         /\ Markers' = Markers \cup (IF r.frame = NoFrame THEN {Len(coldQ) + 1} ELSE {})
         /\ \A i \in Entries : Ref(i)' = Ref(i) /\ i < Len(coldQ) + 1 /\ i \in Nat
         /\ \A i \in Markers : i < Len(coldQ) + 1 /\ i \in Nat
<1>1. ColdTypes /\ coldQ \in Seq(Reference) /\ Len(coldQ) \in Nat
  BY DEF Ground, ColdInv, ColdTypes
<1>2. /\ coldQ' \in Seq(Reference) /\ Len(coldQ') = Len(coldQ) + 1
      /\ \A i \in 1 .. Len(coldQ) : coldQ'[i] = coldQ[i]
      /\ coldQ'[Len(coldQ) + 1] = r
      /\ coldQ # <<>> => Head(coldQ') = Head(coldQ)
  BY <1>1, AppendKeeps
<1>3. \A i : i \in 1 .. Len(coldQ') <=> i \in 1 .. Len(coldQ) \/ i = Len(coldQ) + 1
  BY <1>1, <1>2
<1>4. \A i \in 1 .. Len(coldQ) : i < Len(coldQ) + 1 /\ i \in Nat
  BY <1>1
<1>5. coldQ' # <<>>
  <2>1. Len(coldQ') # 0
    BY <1>1, <1>2
  <2>2. QED
    BY <2>1
<1>6. \A i : i \in Entries' <=> i \in Entries \/ (r.frame # NoFrame /\ i = Len(coldQ) + 1)
  BY <1>2, <1>3, <1>4 DEF Entries
<1>7. \A i : i \in Markers' <=> i \in Markers \/ (r.frame = NoFrame /\ i = Len(coldQ) + 1)
  BY <1>2, <1>3, <1>4 DEF Markers
<1>8. \A i \in Entries : Ref(i)' = Ref(i) /\ i < Len(coldQ) + 1 /\ i \in Nat
  BY <1>2, <1>4 DEF Entries, Ref
<1>9. \A i \in Markers : i < Len(coldQ) + 1 /\ i \in Nat
  BY <1>4 DEF Markers
<1>10. Entries' = Entries \cup (IF r.frame = NoFrame THEN {} ELSE {Len(coldQ) + 1})
  BY <1>6
<1>11. Markers' = Markers \cup (IF r.frame = NoFrame THEN {Len(coldQ) + 1} ELSE {})
  BY <1>7
<1>12. coldQ'[Len(coldQ')] = r
  BY <1>2
<1>13. QED
  BY <1>1, <1>2, <1>5, <1>8, <1>9, <1>10, <1>11, <1>12

\* invalidateFeed, as far as the cold shard goes: the marker.
LEMMA HandleGapKeeps ==
  ASSUME Ground, ColdSide, HandleGap
  PROVE  ColdSide'
<1> DEFINE r == [frame |-> NoFrame, skips |-> skipped]
<1>1. /\ handled < arrived /\ Result(Here) = "Gap" /\ coldQ' = Append(coldQ, r) /\ resetDone'
      /\ UNCHANGED <<arrived, handled, reading, frames, content, coldT, torn, lost, gapAt, seen,
                     started, expected, starts>>
  BY DEF HandleGap, ResetCold, tableVars, vars
<1>2. r \in Reference /\ r.frame = NoFrame
  BY DEF Reference, NoFrame, Ground, ColdInv, ColdTypes
<1> HIDE DEF r
<1>3. /\ Entries' = Entries /\ coldQ' # <<>> /\ coldQ'[Len(coldQ')] = r
      /\ coldQ # <<>> => Head(coldQ') = Head(coldQ)
      /\ \A i \in Entries : Ref(i)' = Ref(i) /\ coldQ'[i] = coldQ[i]
  <2>1. \A i \in Entries : i \in 1 .. Len(coldQ)
    BY DEF Entries
  <2>2. frames' = frames /\ coldQ' = Append(coldQ, r)
    BY <1>1
  <2>3. Entries' = Entries \cup {} /\ coldQ' # <<>> /\ coldQ'[Len(coldQ')] = r
    BY <1>2, <2>2, PushMoves
  <2>4. coldQ # <<>> => Head(coldQ') = Head(coldQ)
    BY <1>2, <2>2, PushMoves
  <2>5. \A i \in Entries : Ref(i)' = Ref(i) /\ coldQ'[i] = coldQ[i]
    BY <1>2, <2>1, <2>2, PushMoves
  <2>6. QED
    BY <2>3, <2>4, <2>5
<1>4. Done' = Done
  <2>1. \A s : (\A i \in Entries' : s \notin Messages(Ref(i))') <=> (\A i \in Entries : s \notin Messages(Ref(i)))
    BY <1>3 DEF Messages
  <2>2. QED
    BY <1>1, <2>1 DEF Done
<1>5. QueueOK'
  <2>0. QueueOK
    BY DEF ColdSide
  <2>1. /\ lost' \subseteq seen'
        /\ \A i \in Entries' : coldQ'[i].frame \in 1 .. handled'
    BY <1>1, <1>3, <2>0 DEF QueueOK
  <2>2. \A i \in Entries' : Messages(Ref(i))' \subseteq seen' \ lost'
    BY <1>1, <1>3, <2>0 DEF QueueOK, Messages
  <2>3. \A i, n \in Entries' : i < n => Ref(i)'.seq + Ref(i)'.count <= Ref(n)'.seq
    BY <1>3, <2>0 DEF QueueOK
  <2>4. \A i \in Entries' : \A s \in Done' : s < Ref(i)'.seq
    BY <1>3, <1>4, <2>0 DEF QueueOK
  <2>5. reading'.on => coldQ' # <<>> /\ Head(coldQ').frame # NoFrame
    BY <1>1, <1>3, <2>0 DEF QueueOK
  <2>6. QED
    BY <2>1, <2>2, <2>3, <2>4, <2>5 DEF QueueOK
<1>6. GapMarked'
  BY <1>1, <1>2, <1>3 DEF GapMarked, Here, Result
<1>7. GapSplit'
  BY <1>1 DEF ColdSide, GapSplit
<1>8. ColdGood'
  BY <1>1 DEF ColdGood
<1>9. ColdTable'
  BY <1>1 DEF ColdSide, ColdTable
<1>10. QED
  BY <1>5, <1>6, <1>7, <1>8, <1>9 DEF ColdSide

\* What the push at the end of applyPacket does to the queue: one more entry,
\* or the messages are lost.
Offered(p) ==
  LET n == Len(coldQ) + 1
  IN /\ Markers' = Markers
     /\ \A i \in Entries : i \in Entries' /\ Ref(i)' = Ref(i) /\ coldQ'[i] = coldQ[i] /\ i < n /\ i \in Nat
     /\ \A i \in Markers : i < n /\ i \in Nat
     /\ \A i \in Entries' : i \in Entries \/ (i = n /\ Ref(i)' = p /\ coldQ'[i].frame = handled + 1)
     /\ IF n \in Entries' THEN lost' = lost ELSE lost' = lost \cup Messages(p)
     /\ coldQ # <<>> => coldQ' # <<>> /\ Head(coldQ') = Head(coldQ)
     /\ n \in Nat

\* push, whether or not the queue has room.
LEMMA PushOffers ==
  ASSUME Ground, ColdSide, HandlePacket
  PROVE  Offered(Here)
<1> DEFINE n == Len(coldQ) + 1
           r == [frame |-> handled + 1, skips |-> skipped]
<1>1. /\ Push /\ frames' = frames
      /\ lost' = IF skipped' = skipped THEN lost ELSE lost \cup Messages(Here)
  BY DEF HandlePacket
<1>2. /\ skipped \in Nat /\ handled \in Nat /\ ColdTypes /\ coldQ \in Seq(Reference)
      /\ Len(coldQ) \in Nat /\ n \in Nat
  BY DEF Ground, ColdInv, ColdTypes
<1>3. CASE Len(coldQ) < QueueCap
  <2>1. coldQ' = Append(coldQ, r) /\ lost' = lost
    BY <1>1, <1>3 DEF Push
  <2>2. r \in Reference /\ r.frame = handled + 1 /\ r.frame # NoFrame
    BY <1>2 DEF Reference, NoFrame
  <2> HIDE DEF r
  <2>3. /\ \A i \in 1 .. Len(coldQ) : coldQ'[i] = coldQ[i]
        /\ coldQ'[n] = r /\ coldQ' # <<>>
    BY <1>1, <2>1, <2>2, PushMoves
  <2>4. coldQ # <<>> => Head(coldQ') = Head(coldQ)
    BY <1>1, <2>1, <2>2, PushMoves
  <2>5. Entries' = Entries \cup {n} /\ Markers' = Markers \cup {}
    BY <1>1, <2>1, <2>2, PushMoves
  <2>6. /\ \A i \in Entries : Ref(i)' = Ref(i) /\ i < n /\ i \in Nat
        /\ \A i \in Markers : i < n /\ i \in Nat
    BY <1>1, <2>1, <2>2, PushMoves
  <2>7. \A i : i = n => Ref(i)' = Here
    BY <1>1, <2>2, <2>3 DEF Ref, Here
  <2>8. \A i \in Entries : i \in 1 .. Len(coldQ)
    BY DEF Entries
  <2> HIDE DEF n
  <2>9. QED
    BY <1>2, <2>1, <2>2, <2>3, <2>4, <2>5, <2>6, <2>7, <2>8 DEF Offered, n
<1>4. CASE ~ (Len(coldQ) < QueueCap)
  <2>1. coldQ' = coldQ /\ lost' = lost \cup Messages(Here)
    BY <1>1, <1>2, <1>4 DEF Push
  <2>2. Entries' = Entries /\ Markers' = Markers /\ \A i \in Entries : Ref(i)' = Ref(i)
    BY <1>1, <2>1 DEF Entries, Markers, Ref
  <2>3. /\ \A i \in Entries : i < n /\ i \in Nat
        /\ \A i \in Markers : i < n /\ i \in Nat
    BY <1>2 DEF Entries, Markers
  <2>4. n \notin Entries
    BY <1>2, <2>3
  <2> HIDE DEF n
  <2>5. QED
    BY <1>2, <2>1, <2>2, <2>3, <2>4 DEF Offered, n
<1>5. QED
  BY <1>3, <1>4

\* applyPacket, as far as the cold shard goes.
LEMMA HandlePacketKeeps ==
  ASSUME Ground, ColdSide, HandlePacket
  PROVE  ColdSide'
<1> DEFINE p == Here
           gap == Result(p) = "Gap"
           n == Len(coldQ) + 1
<1>0. ColdTable /\ QueueOK /\ GapMarked /\ GapSplit /\ ColdGood
  BY DEF ColdSide
<1>1. /\ ApplyPacket(p) /\ Push /\ p \in sent /\ Result(p) # "Stale" /\ (gap => resetDone)
      /\ gapAt' = (IF gap THEN p.seq ELSE gapAt)
      /\ UNCHANGED <<content, frames, coldT, torn>>
  BY DEF HandlePacket, ApplyPacket
<1>2. /\ seen' = seen \cup Messages(p) /\ started' = TRUE /\ expected' = p.seq + p.count
      /\ starts' = starts /\ handled' = handled + 1 /\ resetDone' = FALSE /\ reading' = reading
  BY <1>1 DEF ApplyPacket, Track, Push, venueVars
<1>3. gap <=> resetDone
  BY <1>0, <1>1 DEF GapMarked
<1>4. Offered(p)
  BY PushOffers
<1> HIDE DEF p
<1>5. p.seq \in Nat /\ p.count \in Nat /\ p.count > 0 /\ handled \in Nat
  BY <1>1, SentIsReadable DEF Packet, Ground, ColdInv, ColdTypes
<1>6. /\ \A s \in seen : s \in Nat /\ s < p.seq /\ s \notin Messages(p)
      /\ \A s \in Messages(p) : s >= p.seq
  <2>1. \A s \in seen : s \in Nat /\ s < p.seq
    BY <1>1, SeenIsBehind
  <2>2. \A s \in Messages(p) : s >= p.seq /\ s \in Nat
    BY <1>5 DEF Messages
  <2>3. QED
    BY <1>5, <2>1, <2>2
<1>7. lost \subseteq seen /\ \A i \in Entries : Messages(Ref(i)) \subseteq seen \ lost
  BY <1>0 DEF QueueOK
<1>8. \A i \in Entries : Ref(i).seq + Ref(i).count <= p.seq
  <2> SUFFICES ASSUME NEW i \in Entries PROVE Ref(i).seq + Ref(i).count <= p.seq
    OBVIOUS
  <2>1. Ref(i).seq \in Nat /\ Ref(i).count \in Nat /\ Ref(i).count > 0
    BY <1>0, EntryRefs
  <2>2. Ref(i).seq + Ref(i).count - 1 \in Messages(Ref(i))
    BY <2>1 DEF Messages
  <2>3. Ref(i).seq + Ref(i).count - 1 < p.seq
    BY <1>6, <1>7, <2>2
  <2>4. QED
    BY <1>5, <2>1, <2>3
<1>9. /\ Markers' = Markers
      /\ \A i \in Entries : i \in Entries' /\ Ref(i)' = Ref(i) /\ coldQ'[i] = coldQ[i] /\ i < n /\ i \in Nat
      /\ \A i \in Markers : i < n /\ i \in Nat
      /\ \A i \in Entries' : i \in Entries \/ (i = n /\ Ref(i)' = p /\ coldQ'[i].frame = handled + 1)
      /\ IF n \in Entries' THEN lost' = lost ELSE lost' = lost \cup Messages(p)
      /\ coldQ # <<>> => coldQ' # <<>> /\ Head(coldQ') = Head(coldQ)
      /\ n \in Nat
  BY <1>4 DEF Offered
<1> HIDE DEF n
<1>10. n \notin Entries /\ n \notin Markers
  BY <1>9
<1>11. \A i \in Entries' : i = n => Messages(Ref(i))' = Messages(p)
  BY <1>9, <1>10 DEF Messages
<1>12. \A i \in Entries : Messages(Ref(i))' = Messages(Ref(i))
  BY <1>9 DEF Messages
<1>13. Done' = Done
  <2>1. ASSUME NEW s \in Done' PROVE s \in Done
    <3>1. s \in seen' /\ s \notin lost' /\ \A i \in Entries' : s \notin Messages(Ref(i))'
      BY <2>1 DEF Done
    <3>2. s \notin Messages(p)
      BY <1>9, <1>11, <3>1
    <3>3. s \in seen /\ s \notin lost
      BY <1>2, <1>9, <3>1, <3>2
    <3>4. \A i \in Entries : s \notin Messages(Ref(i))
      BY <1>9, <1>12, <3>1
    <3>5. QED
      BY <3>3, <3>4 DEF Done
  <2>2. ASSUME NEW s \in Done PROVE s \in Done'
    <3>1. s \in seen /\ s \notin lost /\ s \notin Messages(p) /\ \A i \in Entries : s \notin Messages(Ref(i))
      BY <1>6, <2>2 DEF Done
    <3>2. \A i \in Entries' : s \notin Messages(Ref(i))'
      BY <1>9, <1>11, <1>12, <3>1
    <3>3. s \in seen' /\ s \notin lost'
      BY <1>2, <1>9, <3>1
    <3>4. QED
      BY <3>2, <3>3 DEF Done
  <2>3. QED
    BY <2>1, <2>2
<1>14. \A s \in Done : s < p.seq
  BY <1>6 DEF Done
<1>15. QueueOK'
  <2>1. lost' \subseteq seen'
    BY <1>2, <1>7, <1>9
  <2>2. \A i \in Entries' : coldQ'[i].frame \in 1 .. handled'
    <3> SUFFICES ASSUME NEW i \in Entries' PROVE coldQ'[i].frame \in 1 .. handled'
      OBVIOUS
    <3>1. CASE i \in Entries
      <4>1. coldQ'[i].frame \in 1 .. handled
        BY <1>0, <1>9, <3>1 DEF QueueOK
      <4>2. QED
        BY <1>2, <1>5, <4>1
    <3>2. CASE coldQ'[i].frame = handled + 1
      BY <1>2, <1>5, <3>2
    <3>3. QED
      BY <1>9, <3>1, <3>2
  <2>3. \A i \in Entries' : Messages(Ref(i))' \subseteq seen' \ lost'
    <3> SUFFICES ASSUME NEW i \in Entries' PROVE Messages(Ref(i))' \subseteq seen' \ lost'
      OBVIOUS
    <3>1. CASE i \in Entries
      BY <1>2, <1>6, <1>7, <1>9, <1>12, <3>1
    <3>2. CASE i = n
      BY <1>2, <1>6, <1>7, <1>9, <1>11, <3>2
    <3>3. QED
      BY <1>9, <3>1, <3>2
  <2>4. \A i, j \in Entries' : i < j => Ref(i)'.seq + Ref(i)'.count <= Ref(j)'.seq
    <3> SUFFICES ASSUME NEW i \in Entries', NEW j \in Entries', i < j
                 PROVE  Ref(i)'.seq + Ref(i)'.count <= Ref(j)'.seq
      OBVIOUS
    <3>1. CASE i \in Entries /\ j \in Entries
      BY <1>0, <1>9, <3>1 DEF QueueOK
    <3>2. CASE i \in Entries /\ j = n
      BY <1>8, <1>9, <1>10, <3>2
    <3>3. i # n
      BY <1>9
    <3>4. QED
      BY <1>9, <3>1, <3>2, <3>3
  <2>5. \A i \in Entries' : \A s \in Done' : s < Ref(i)'.seq
    <3> SUFFICES ASSUME NEW i \in Entries', NEW s \in Done PROVE s < Ref(i)'.seq
      BY <1>13
    <3>1. CASE i \in Entries
      BY <1>0, <1>9, <3>1 DEF QueueOK
    <3>2. CASE i \notin Entries
      BY <1>9, <1>14, <3>2
    <3>3. QED
      BY <3>1, <3>2
  <2>6. reading'.on => coldQ' # <<>> /\ Head(coldQ').frame # NoFrame
    BY <1>0, <1>2, <1>9 DEF QueueOK
  <2>7. QED
    BY <2>1, <2>2, <2>3, <2>4, <2>5, <2>6 DEF QueueOK
<1>16. GapMarked'
  BY <1>2 DEF GapMarked
<1>17. gapAt \in Nat /\ gapAt <= p.seq
  <2>1. started => expected <= p.seq
    BY <1>1, NotStaleIsAhead DEF Ground
  <2>2. expected \in Nat
    BY DEF Ground, IInv, TypeOK
  <2>3. QED
    BY <1>0, <1>5, <2>1, <2>2 DEF GapSplit
<1>18. gap /\ coldQ # <<>> => Len(coldQ) \in Markers /\ \A i \in Entries : Len(coldQ) > i
  <2> SUFFICES ASSUME gap, coldQ # <<>>
               PROVE  Len(coldQ) \in Markers /\ \A i \in Entries : Len(coldQ) > i
    OBVIOUS
  <2>1. coldQ \in Seq(Reference) /\ Len(coldQ) \in Nat
    BY DEF Ground, ColdInv, ColdTypes
  <2>2. Len(coldQ) \in 1 .. Len(coldQ) /\ coldQ[Len(coldQ)].frame = NoFrame
    BY <1>0, <1>3, <2>1 DEF GapMarked
  <2>3. \A i \in Entries : i \in 1 .. Len(coldQ) /\ i # Len(coldQ)
    BY <2>2 DEF Entries
  <2>4. QED
    BY <2>1, <2>2, <2>3 DEF Markers
<1>19. coldQ = <<>> => Entries = {} /\ Markers = {}
  BY DEF Entries, Markers
<1>20. GapSplit'
  <2>1. gapAt' \in Nat /\ IF started' THEN gapAt' <= expected' ELSE gapAt' = 0
    BY <1>1, <1>2, <1>5, <1>17
  <2>2. ASSUME NEW i \in Entries', \E m \in Markers' : m > i
        PROVE  Ref(i)'.seq + Ref(i)'.count <= gapAt'
    <3>1. i \in Entries
      BY <1>9, <2>2
    <3>2. CASE gap
      BY <1>1, <1>8, <1>9, <3>1, <3>2
    <3>3. CASE ~gap
      BY <1>0, <1>1, <1>3, <1>9, <2>2, <3>1, <3>3 DEF GapSplit
    <3>4. QED
      BY <3>2, <3>3
  <2>3. ASSUME NEW i \in Entries', ~ (\E m \in Markers' : m > i)
        PROVE  gapAt' <= Ref(i)'.seq
    <3>1. CASE i \notin Entries
      BY <1>1, <1>5, <1>9, <1>17, <3>1
    <3>2. CASE i \in Entries /\ gap
      BY <1>9, <1>18, <1>19, <2>3, <3>2
    <3>3. CASE i \in Entries /\ ~gap
      BY <1>0, <1>1, <1>3, <1>9, <2>3, <3>3 DEF GapSplit
    <3>4. QED
      BY <3>1, <3>2, <3>3
  <2>4. ASSUME Markers' # {}, NEW s \in Done' PROVE s < gapAt'
    <3>1. CASE gap
      BY <1>1, <1>13, <1>14, <2>4, <3>1
    <3>2. CASE ~gap
      BY <1>0, <1>1, <1>3, <1>9, <1>13, <2>4, <3>2 DEF GapSplit
    <3>3. QED
      BY <3>1, <3>2
  <2>5. QED
    BY <2>1, <2>2, <2>3, <2>4 DEF GapSplit
<1>21. ColdGood'
  <2> SUFFICES ASSUME ~torn, Markers = {}
               PROVE  Keeps(coldT, Done, gapAt)'
    BY <1>1, <1>9 DEF ColdGood
  <2>1. CASE gap
    <3>1. \A l \in Locates \ HotStocks : Held(coldT, l) = {}
      BY <1>0, <1>3, <1>18, <2>1 DEF GapMarked
    <3>2. \A l : Kept(Done, l, gapAt)' = {}
      <4>1. \A s \in Done' : s \in Nat /\ ~ (s >= gapAt')
        <5>1. \A s \in Done : s \in Nat /\ s < p.seq
          BY <1>14, SeenPublished
        <5>2. gapAt' = p.seq
          BY <1>1, <2>1
        <5>3. QED
          BY <1>5, <1>13, <5>1, <5>2
      <4>2. QED
        BY <4>1 DEF Kept
    <3>3. QED
      BY <1>0, <1>1, <3>1, <3>2 DEF Keeps, ColdTable
  <2>2. CASE ~gap
    <3>1. Keeps(coldT, Done, gapAt) /\ gapAt' = gapAt
      BY <1>0, <1>1, <1>3, <2>2 DEF ColdGood
    <3>2. QED
      BY <1>1, <1>2, <1>13, <3>1 DEF Keeps, Kept
  <2>3. QED
    BY <2>1, <2>2
<1>22. ColdTable'
  BY <1>0, <1>1 DEF ColdTable
<1>23. QED
  BY <1>15, <1>16, <1>20, <1>21, <1>22 DEF ColdSide

\* Every step of either thread keeps the cold side's accounts.
LEMMA NextColdSide ==
  ASSUME Ground, ColdSide, [RunNext]_runVars
  PROVE  ColdSide'
<1>0. handled \in Nat /\ arrived \in Nat /\ Len(frames) = arrived /\ handled <= arrived
      /\ frames \in Seq(Packet)
  BY DEF Ground, ColdInv, ColdTypes, Received
<1>1. Publish => ColdSide'
  <2> SUFFICES ASSUME Publish PROVE ColdSide'
    OBVIOUS
  <2>1. /\ UNCHANGED <<coldQ, seen, lost, coldT, gapAt, torn, content, expected, started, resetDone,
                       handled, arrived, frames, reading>>
        /\ starts' = starts \/ starts' = starts \cup {nextSeq}
    BY DEF Publish, AppendMarketData, coldVars, dutVars, tableVars
  <2>2. nextSeq \notin seen
    <3>1. \A s \in seen : s < nextSeq /\ s \in Nat
      BY SeenPublished
    <3>2. QED
      BY <3>1
  <2>3. starts' \cap seen = starts \cap seen
    BY <2>1, <2>2
  <2>4. QED
    BY <1>0, <2>1, <2>3, QuietKeepsColdSide
<1>2. Flush => ColdSide'
  BY <1>0, QuietKeepsColdSide DEF Flush, FlushMarketData, coldVars, dutVars, tableVars
<1>3. \A p \in sent : Arrive(p) => ColdSide'
  <2> SUFFICES ASSUME NEW p \in sent, Arrive(p) PROVE ColdSide'
    OBVIOUS
  <2>1. /\ UNCHANGED <<coldQ, seen, lost, coldT, gapAt, torn, content, expected, started, resetDone,
                       handled, starts, reading>>
        /\ arrived' = arrived + 1 /\ frames' = Append(frames, p)
    BY DEF Arrive, Receive, vars, tableVars
  <2>2. p \in Packet
    BY SentIsReadable
  <2>3. \A i \in 1 .. arrived : frames'[i] = frames[i]
    BY <1>0, <2>1, <2>2, AppendProperties
  <2>4. resetDone => handled < arrived
    BY DEF ColdSide, GapMarked
  <2>5. /\ \A i \in 1 .. handled : frames'[i] = frames[i]
        /\ resetDone => frames'[handled + 1] = frames[handled + 1]
    BY <1>0, <2>3, <2>4
  <2>6. QED
    BY <1>0, <2>1, <2>5, QuietKeepsColdSide
<1>4. HandleStale => ColdSide'
  <2> SUFFICES ASSUME HandleStale PROVE ColdSide'
    OBVIOUS
  <2>1. /\ UNCHANGED <<coldQ, seen, lost, coldT, gapAt, torn, content, expected, started, resetDone,
                       starts, reading, frames>>
        /\ handled' = handled + 1
    BY DEF HandleStale, PassOver, vars, tableVars
  <2>2. ~resetDone
    BY DEF HandleStale, ColdSide, GapMarked
  <2>3. QED
    BY <1>0, <2>1, <2>2, QuietKeepsColdSide
<1>5. ColdBegin => ColdSide'
  <2> SUFFICES ASSUME ColdBegin PROVE ColdSide'
    OBVIOUS
  <2>1. /\ UNCHANGED <<coldQ, seen, lost, coldT, gapAt, torn, content, expected, started, resetDone,
                       starts, handled, arrived, frames>>
        /\ coldQ # <<>> /\ Head(coldQ).frame # NoFrame
    BY DEF ColdBegin, BeginFrame, AtFront, vars, tableVars
  <2>2. QED
    BY <1>0, <2>1, QuietKeepsColdSide
<1>6. Stop \/ ColdJoined \/ UNCHANGED runVars => ColdSide'
  <2> SUFFICES ASSUME Stop \/ ColdJoined \/ UNCHANGED runVars PROVE ColdSide'
    OBVIOUS
  <2>1. UNCHANGED <<coldQ, seen, lost, coldT, gapAt, torn, content, expected, started, resetDone,
                    starts, handled, arrived, frames, reading>>
    BY DEF Stop, StopCold, ColdJoined, ColdEnds, runVars, coldVars, vars, tableVars
  <2>2. QED
    BY <1>0, <2>1, QuietKeepsColdSide
<1>7. QED
  BY <1>1, <1>2, <1>3, <1>4, <1>5, <1>6, HandleGapKeeps, HandlePacketKeeps, ColdResetKeeps,
     ColdStaleKeeps, ColdEndKeeps DEF RunNext

\* The inductive invariant of the device.
DeviceInv == Ground /\ HotInv /\ ColdSide

\* It holds in every behaviour of the device.
LEMMA SpecDeviceInv == RunSpec => []DeviceInv
<1>1. RunInit => DeviceInv
  BY InitGround, InitHot, InitColdSide DEF DeviceInv
<1>2. DeviceInv /\ [RunNext]_runVars => DeviceInv'
  BY NextGround, NextHot, NextColdSide DEF DeviceInv
<1>3. QED
  BY <1>1, <1>2, PTL DEF RunSpec

\* What the strategy reads of a hot stock (BookTable::hotBook) is what the feed
\* vouches for (DutSession::applyPacket), whatever UDP does to the packets.
THEOREM HotBooksAreFaithful == RunSpec => []HotBookFaithful
<1>1. DeviceInv => HotBookFaithful
  <2>1. HotState.table = hotT /\ HotState.dirAt = dirAt
    BY DEF HotState
  <2>2. QED
    BY <2>1 DEF DeviceInv, HotInv, Shows, HotBookFaithful
<1>2. QED
  BY <1>1, SpecDeviceInv, PTL

\* m_live of both tables counts the orders of the current epoch, through the
\* lazy clearAll, frames read while they were overwritten included.
THEOREM LiveCountsAreExact == RunSpec => []LiveExact
<1>1. DeviceInv => LiveExact
  <2> SUFFICES ASSUME DeviceInv PROVE LiveExact
    OBVIOUS
  <2>1. HotState.table = hotT /\ TableOK(HotState.table)
    BY DEF DeviceInv, HotInv, Shows, HotStates, HotState
  <2>2. TableOK(coldT)
    BY DEF DeviceInv, ColdSide, ColdTable, ColdStates
  <2>3. QED
    BY <2>1, <2>2 DEF TableOK, LiveExact
<1>2. QED
  BY <1>1, SpecDeviceInv, PTL

\* A cold thread that has caught up holds what the tracker let through since
\* the last gap and the last StartOfMessages, but for what push dropped or
\* consume found stale.
THEOREM ColdBooksAreAccounted == RunSpec => []ColdBooksAccounted
<1>1. DeviceInv => ColdBooksAccounted
  <2> SUFFICES ASSUME DeviceInv, coldQ = <<>>, ~torn, ~resetDone, NEW l \in Locates \ HotStocks
               PROVE  Held(coldT, l) =
                        {s \in seen \ lost :
                           /\ content[s] = [type |-> "A", locate |-> l]
                           /\ s >= gapAt
                           /\ \A k \in starts \cap (seen \ lost) : k < s \/ k >= expected}
    BY DEF ColdBooksAccounted
  <2>1. Entries = {} /\ Markers = {}
    BY DEF Entries, Markers
  <2>2. Done = seen \ lost
    BY <2>1 DEF Done
  <2>3. Held(coldT, l) = Kept(seen \ lost, l, gapAt)
    BY <2>1, <2>2 DEF DeviceInv, ColdSide, ColdGood, Keeps
  <2>4. \A k \in seen : k \in Nat /\ expected \in Nat /\ ~ (k >= expected)
    <3>1. seen \subseteq Nat /\ expected \in Nat
      BY DEF DeviceInv, Ground, IInv, TypeOK
    <3>2. \A k \in seen : k <= expected - 1
      BY <3>1 DEF DeviceInv, Ground, IInv, AtBoundary, SeenBelowExpected
    <3>3. QED
      BY <3>1, <3>2
  <2>5. QED
    BY <2>3, <2>4 DEF Kept
<1>2. QED
  BY <1>1, SpecDeviceInv, PTL
=============================================================================
