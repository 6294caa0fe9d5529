------------------------- MODULE OrderThreadProofs -------------------------
(***************************************************************************)
(* The transmit stamps are paired with the right requests, and no sample   *)
(* is lost on its way to the log, for every number of slots and every size *)
(* of the queues, of the ring of references and of the in-flight table.    *)
(*                                                                         *)
(* Requests travel sendQ, toNic, stream, pushing, ackQ in the order they   *)
(* were made, each at most once: an answer finds its slot waiting for it,  *)
(* so an order's reference is used once more at most, by its cancel, after *)
(* it.  A request that is timed and not lost is the only one of its        *)
(* packet.  The ring of references holds keys in order, above every key    *)
(* paired already, and an in-flight entry of a reference in the ring       *)
(* belongs to that request or to a later one with the same reference.      *)
(***************************************************************************)
EXTENDS OrderThread, FiniteSetTheorems, SequenceTheorems, WellFoundedInduction, TLAPS

-----------------------------------------------------------------------------
(***************************************************************************)
(* Worst::offer keeps the largest samples, whatever the samples are and    *)
(* however many are kept: for every threshold, the kept items at or above  *)
(* it are as many as the samples at or above it, up to the capacity.       *)
(***************************************************************************)

Smaller(m, n) == IF m < n THEN m ELSE n

\* IsWorst for every threshold, not only for the samples themselves.
KeepsLargest(items, all) ==
  /\ Len(items) = Smaller(Len(all), WorstCap)
  /\ \A v \in Nat : AtLeast(items, v) = Smaller(AtLeast(all, v), WorstCap)

\* The invariant is enough for what the run checks.
LEMMA LargestAreWorst ==
  ASSUME NEW items, NEW all \in Seq(Nat), KeepsLargest(items, all)
  PROVE  IsWorst(items, all)
<1>1. \A i \in DOMAIN all : all[i] \in Nat
  OBVIOUS
<1>2. QED
  BY <1>1 DEF KeepsLargest, IsWorst, Smaller

\* A non-empty set of numbers has a least one.
LEMMA LeastNat ==
  ASSUME NEW T \in SUBSET Nat, T # {}
  PROVE  \E x \in T : \A y \in T : x <= y
<1>1. PICK x \in T : \A y \in T : ~ (<<y, x>> \in OpToRel(<, Nat))
  BY NatLessThanWellFounded, WFMin
<1>2. \A y \in T : ~ (y < x)
  BY <1>1 DEF OpToRel
<1>3. QED
  BY <1>2

\* std::min_element has a result: Lowest is the index of a least item.
LEMMA LowestIsLeast ==
  ASSUME NEW items \in Seq(Nat), items # <<>>
  PROVE  /\ Lowest(items) \in DOMAIN items
         /\ \A j \in DOMAIN items : items[Lowest(items)] <= items[j]
<1> DEFINE T == {items[i] : i \in DOMAIN items}
<1>1. T \in SUBSET Nat /\ T # {}
  <2>1. 1 \in DOMAIN items
    OBVIOUS
  <2>2. QED
    BY <2>1
<1>2. PICK m \in T : \A y \in T : m <= y
  BY <1>1, LeastNat
<1> DEFINE I == {i \in DOMAIN items : items[i] = m}
<1>3. I \in SUBSET Nat /\ I # {}
  BY <1>2
<1>4. PICK k \in I : \A j \in I : k <= j
  BY <1>3, LeastNat
<1>5. k \in DOMAIN items /\ items[k] = m
  OBVIOUS
<1>6. \A j \in DOMAIN items : items[k] <= items[j]
  BY <1>2, <1>5
<1>7. \A j \in 1 .. k - 1 : items[k] < items[j]
  <2> SUFFICES ASSUME NEW j \in 1 .. k - 1 PROVE items[k] < items[j]
    OBVIOUS
  <2>1. j \in DOMAIN items /\ j < k
    BY <1>5
  <2>2. j \notin I
    BY <1>4, <2>1
  <2>3. items[j] # m
    BY <2>1, <2>2
  <2>4. items[k] \in Nat /\ items[j] \in Nat
    BY <2>1, <1>5
  <2>5. QED
    BY <1>5, <1>6, <2>1, <2>3, <2>4
<1>8. QED
  BY <1>5, <1>6, <1>7 DEF Lowest

\* The indices at or above a threshold are finitely many.
LEMMA AtLeastType ==
  ASSUME NEW s \in Seq(Nat), NEW v \in Nat
  PROVE  /\ IsFiniteSet({i \in DOMAIN s : s[i] >= v})
         /\ AtLeast(s, v) \in Nat /\ AtLeast(s, v) <= Len(s)
<1> DEFINE D == {i \in DOMAIN s : s[i] >= v}
<1>1. IsFiniteSet(1 .. Len(s)) /\ Cardinality(1 .. Len(s)) = Len(s)
  <2>1. Len(s) \in Int /\ 1 \in Int /\ Len(s) \in Nat
    OBVIOUS
  <2>2. /\ IsFiniteSet(1 .. Len(s))
        /\ Cardinality(1 .. Len(s)) = IF 1 > Len(s) THEN 0 ELSE Len(s) - 1 + 1
    BY <2>1, FS_Interval
  <2>3. QED
    BY <2>1, <2>2
<1>2. D \subseteq 1 .. Len(s)
  OBVIOUS
<1>3. IsFiniteSet(D) /\ Cardinality(D) <= Len(s) /\ Cardinality(D) \in Nat
  BY <1>1, <1>2, FS_Subset, FS_CardinalityType
<1>4. QED
  BY <1>3 DEF AtLeast

\* One more value counts if it reaches the threshold.
LEMMA AtLeastAppend ==
  ASSUME NEW s \in Seq(Nat), NEW v \in Nat, NEW ns \in Nat
  PROVE  AtLeast(Append(s, ns), v) = AtLeast(s, v) + (IF ns >= v THEN 1 ELSE 0)
<1> DEFINE D == {i \in DOMAIN s : s[i] >= v}
           E == {i \in DOMAIN Append(s, ns) : Append(s, ns)[i] >= v}
           n == Len(s) + 1
<1>1. IsFiniteSet(D) /\ Cardinality(D) \in Nat
  BY AtLeastType DEF AtLeast
<1>2. DOMAIN Append(s, ns) = 1 .. n /\ DOMAIN s = 1 .. Len(s) /\ Append(s, ns)[n] = ns
  OBVIOUS
<1>3. \A i \in 1 .. Len(s) : Append(s, ns)[i] = s[i]
  OBVIOUS
<1>4. n \notin D
  OBVIOUS
<1>5. CASE ns >= v
  <2>1. E = D \cup {n}
    BY <1>2, <1>3, <1>5
  <2>2. Cardinality(E) = Cardinality(D) + 1
    BY <1>1, <1>4, <2>1, FS_AddElement
  <2>3. QED
    BY <1>5, <2>2 DEF AtLeast
<1>6. CASE ~ (ns >= v)
  <2>1. E = D
    BY <1>2, <1>3, <1>6
  <2>2. Cardinality(E) = Cardinality(D)
    BY <2>1
  <2>3. AtLeast(s, v) \in Nat /\ AtLeast(Append(s, ns), v) = AtLeast(s, v)
    BY <1>1, <2>2 DEF AtLeast
  <2>4. QED
    BY <1>6, <2>3
<1>7. QED
  BY <1>5, <1>6

\* A value put in the place of a lower one counts if it reaches the threshold
\* and the lower one did not.
LEMMA AtLeastReplace ==
  ASSUME NEW s \in Seq(Nat), NEW v \in Nat, NEW ns \in Nat, NEW k \in DOMAIN s,
         ns > s[k]
  PROVE  AtLeast([s EXCEPT ![k] = ns], v)
           = AtLeast(s, v) + (IF ns >= v /\ v > s[k] THEN 1 ELSE 0)
<1> DEFINE r == [s EXCEPT ![k] = ns]
           D == {i \in DOMAIN s : s[i] >= v}
           E == {i \in DOMAIN r : r[i] >= v}
<1>1. IsFiniteSet(D) /\ Cardinality(D) \in Nat
  BY AtLeastType DEF AtLeast
<1>2. DOMAIN r = DOMAIN s /\ r[k] = ns /\ (\A i \in DOMAIN s : i # k => r[i] = s[i])
  OBVIOUS
<1>3. s[k] \in Nat
  OBVIOUS
<1>4. CASE ns >= v /\ v > s[k]
  <2>1. E = D \cup {k}
    BY <1>2, <1>4
  <2>2. k \notin D
    BY <1>3, <1>4
  <2>3. Cardinality(E) = Cardinality(D) + 1
    BY <1>1, <2>1, <2>2, FS_AddElement
  <2>4. Cardinality(E) = Cardinality(D) + (IF ns >= v /\ v > s[k] THEN 1 ELSE 0)
    BY <1>1, <1>4, <2>3
  <2>5. QED
    BY <2>4 DEF AtLeast
<1>5. CASE ~ (ns >= v /\ v > s[k])
  <2>1. (r[k] >= v) <=> (s[k] >= v)
    BY <1>2, <1>3, <1>5
  <2>2. E = D
    BY <1>2, <2>1
  <2>3. Cardinality(E) = Cardinality(D)
    BY <2>2
  <2>4. Cardinality(E) = Cardinality(D) + (IF ns >= v /\ v > s[k] THEN 1 ELSE 0)
    BY <1>1, <1>5, <2>3
  <2>5. QED
    BY <2>4 DEF AtLeast
<1>6. QED
  BY <1>4, <1>5

\* All items reach a threshold that the lowest reaches, and not all of them one
\* that some item does not.
LEMMA AtLeastAll ==
  ASSUME NEW s \in Seq(Nat), NEW v \in Nat
  PROVE  /\ (\A i \in DOMAIN s : s[i] >= v) => AtLeast(s, v) = Len(s)
         /\ \A k \in DOMAIN s : s[k] < v => AtLeast(s, v) < Len(s)
<1> DEFINE D == {i \in DOMAIN s : s[i] >= v}
<1>1. Len(s) \in Nat /\ DOMAIN s = 1 .. Len(s)
  OBVIOUS
<1>2. /\ IsFiniteSet(1 .. Len(s))
      /\ Cardinality(1 .. Len(s)) = Len(s)
  <2>1. Len(s) \in Int /\ 1 \in Int
    OBVIOUS
  <2>2. /\ IsFiniteSet(1 .. Len(s))
        /\ Cardinality(1 .. Len(s)) = IF 1 > Len(s) THEN 0 ELSE Len(s) - 1 + 1
    BY <2>1, FS_Interval
  <2>3. QED
    BY <1>1, <2>2
<1>3. ASSUME \A i \in DOMAIN s : s[i] >= v
      PROVE  AtLeast(s, v) = Len(s)
  <2>1. D = 1 .. Len(s)
    BY <1>1, <1>3
  <2>2. Cardinality(D) = Len(s)
    BY <1>2, <2>1
  <2>3. QED
    BY <2>2 DEF AtLeast
<1>4. ASSUME NEW k \in DOMAIN s, s[k] < v
      PROVE  AtLeast(s, v) < Len(s)
  <2>1. s[k] \in Nat
    OBVIOUS
  <2>2. D \subseteq 1 .. Len(s) /\ D # 1 .. Len(s)
    BY <1>1, <1>4, <2>1
  <2>3. Cardinality(D) < Cardinality(1 .. Len(s))
    <3>1. /\ Cardinality(D) <= Cardinality(1 .. Len(s))
          /\ Cardinality(1 .. Len(s)) = Cardinality(D) => 1 .. Len(s) = D
      BY <1>2, <2>2, FS_Subset
    <3>2. Cardinality(D) \in Nat
      BY AtLeastType DEF AtLeast
    <3>3. QED
      BY <1>1, <1>2, <2>2, <3>1, <3>2
  <2>4. Cardinality(D) < Len(s)
    BY <1>2, <2>3
  <2>5. QED
    BY <2>4 DEF AtLeast
<1>5. QED
  BY <1>3, <1>4

\* Worst::offer keeps the largest samples of those seen and the new one.
THEOREM OfferKeepsLargest ==
  ASSUME NEW items \in Seq(Nat), NEW all \in Seq(Nat), NEW ns \in Nat,
         KeepsLargest(items, all)
  PROVE  /\ Offer(items, ns) \in Seq(Nat)
         /\ KeepsLargest(Offer(items, ns), Append(all, ns))
<1> DEFINE offered == Offer(items, ns)
           seen == Append(all, ns)
<1>1. WorstCap \in Nat /\ WorstCap > 0
  BY RecorderAssumption
<1>2. Len(items) \in Nat /\ Len(all) \in Nat /\ Len(seen) = Len(all) + 1
  OBVIOUS
<1>3. Len(items) = Smaller(Len(all), WorstCap)
  BY DEF KeepsLargest
<1>4. ASSUME NEW v \in Nat
      PROVE  /\ AtLeast(items, v) \in Nat /\ AtLeast(items, v) <= Len(items)
             /\ AtLeast(all, v) \in Nat /\ AtLeast(all, v) <= Len(all)
             /\ AtLeast(items, v) = Smaller(AtLeast(all, v), WorstCap)
             /\ AtLeast(seen, v) = AtLeast(all, v) + (IF ns >= v THEN 1 ELSE 0)
  BY AtLeastType, AtLeastAppend DEF KeepsLargest
<1>5. CASE Len(items) < WorstCap
  <2>1. offered = Append(items, ns) /\ offered \in Seq(Nat) /\ Len(offered) = Len(items) + 1
    BY <1>5 DEF Offer
  <2>2. Len(items) = Len(all)
    BY <1>1, <1>2, <1>3, <1>5 DEF Smaller
  <2>3. Len(offered) = Smaller(Len(seen), WorstCap)
    BY <1>1, <1>2, <1>5, <2>1, <2>2 DEF Smaller
  <2>4. ASSUME NEW v \in Nat PROVE AtLeast(offered, v) = Smaller(AtLeast(seen, v), WorstCap)
    <3>1. AtLeast(offered, v) = AtLeast(items, v) + (IF ns >= v THEN 1 ELSE 0)
      BY <2>1, AtLeastAppend
    <3> DEFINE a == AtLeast(items, v)
               b == AtLeast(all, v)
    <3>2. /\ a \in Nat /\ b \in Nat /\ b <= Len(all) /\ a = Smaller(b, WorstCap)
          /\ AtLeast(seen, v) = b + (IF ns >= v THEN 1 ELSE 0)
          /\ AtLeast(offered, v) = a + (IF ns >= v THEN 1 ELSE 0)
      BY <1>4, <3>1
    <3> HIDE DEF a, b, seen, offered
    <3>3. a = b /\ b < WorstCap
      BY <1>1, <1>2, <1>5, <2>2, <3>2 DEF Smaller
    <3>4. QED
      BY <1>1, <3>2, <3>3 DEF Smaller
  <2>5. QED
    BY <2>1, <2>3, <2>4 DEF KeepsLargest
<1>6. CASE ~ (Len(items) < WorstCap)
  <2> DEFINE k == Lowest(items)
  <2>1. Len(items) = WorstCap /\ Len(all) >= WorstCap
    BY <1>1, <1>2, <1>3, <1>6 DEF Smaller
  <2>2. items # <<>>
    BY <1>1, <2>1
  <2>3. /\ k \in DOMAIN items
        /\ \A j \in DOMAIN items : items[k] <= items[j]
    BY <2>2, LowestIsLeast
  <2>4. items[k] \in Nat /\ \A j \in DOMAIN items : items[j] \in Nat
    BY <2>3
  <2>5. ASSUME NEW v \in Nat
        PROVE  /\ ns > items[k] => AtLeast(items, v) + (IF ns >= v /\ v > items[k] THEN 1 ELSE 0)
                                     = Smaller(AtLeast(all, v) + (IF ns >= v THEN 1 ELSE 0), WorstCap)
               /\ ~ (ns > items[k]) => AtLeast(items, v)
                                         = Smaller(AtLeast(all, v) + (IF ns >= v THEN 1 ELSE 0), WorstCap)
    <3>1. v <= items[k] => \A j \in DOMAIN items : items[j] >= v
      BY <2>3, <2>4
    <3>2. /\ v <= items[k] => AtLeast(items, v) = WorstCap
          /\ v > items[k] => AtLeast(items, v) < WorstCap
      BY <2>1, <2>3, <2>4, <3>1, AtLeastAll
    <3>3. /\ AtLeast(items, v) \in Nat /\ AtLeast(all, v) \in Nat
          /\ AtLeast(items, v) = Smaller(AtLeast(all, v), WorstCap)
      BY <1>4
    <3> DEFINE a == AtLeast(items, v)
               b == AtLeast(all, v)
               low == items[k]
    <3>4. /\ a \in Nat /\ b \in Nat /\ low \in Nat
          /\ a = Smaller(b, WorstCap) /\ (v <= low => a = WorstCap) /\ (v > low => a < WorstCap)
      BY <2>4, <3>2, <3>3
    <3> HIDE DEF a, b, low
    <3>5. /\ ns > low => a + (IF ns >= v /\ v > low THEN 1 ELSE 0)
                           = Smaller(b + (IF ns >= v THEN 1 ELSE 0), WorstCap)
          /\ ~ (ns > low) => a = Smaller(b + (IF ns >= v THEN 1 ELSE 0), WorstCap)
      BY <1>1, <3>4 DEF Smaller
    <3>6. QED
      BY <3>5 DEF a, b, low
  <2> HIDE DEF k, offered, seen
  <2>6. CASE ns > items[k]
    <3>1. offered = [items EXCEPT ![k] = ns]
      BY <1>6, <2>6 DEF Offer, k, offered
    <3>2. offered \in Seq(Nat) /\ Len(offered) = Len(items)
      BY <2>3, <3>1
    <3>3. Len(offered) = Smaller(Len(seen), WorstCap)
      BY <1>1, <1>2, <2>1, <3>2 DEF Smaller
    <3>4. ASSUME NEW v \in Nat
          PROVE  AtLeast(offered, v) = Smaller(AtLeast(seen, v), WorstCap)
      <4>1. AtLeast([items EXCEPT ![k] = ns], v)
              = AtLeast(items, v) + (IF ns >= v /\ v > items[k] THEN 1 ELSE 0)
        BY <2>3, <2>6, AtLeastReplace
      <4>2. AtLeast(items, v) + (IF ns >= v /\ v > items[k] THEN 1 ELSE 0)
              = Smaller(AtLeast(all, v) + (IF ns >= v THEN 1 ELSE 0), WorstCap)
        BY <2>5, <2>6
      <4>3. QED
        BY <1>4, <3>1, <4>1, <4>2
    <3>5. QED
      BY <3>2, <3>3, <3>4 DEF KeepsLargest, offered, seen
  <2>7. CASE ~ (ns > items[k])
    <3>1. offered = items
      BY <1>6, <2>7 DEF Offer, k, offered
    <3>2. Len(offered) = Smaller(Len(seen), WorstCap)
      BY <1>1, <1>2, <2>1, <3>1 DEF Smaller
    <3>3. ASSUME NEW v \in Nat
          PROVE  AtLeast(offered, v) = Smaller(AtLeast(seen, v), WorstCap)
      <4>1. AtLeast(items, v)
              = Smaller(AtLeast(all, v) + (IF ns >= v THEN 1 ELSE 0), WorstCap)
        BY <2>5, <2>7
      <4>2. QED
        BY <1>4, <3>1, <4>1
    <3>4. QED
      BY <3>1, <3>2, <3>3 DEF KeepsLargest, offered, seen
  <2>8. QED
    BY <2>6, <2>7
<1>7. QED
  BY <1>5, <1>6

-----------------------------------------------------------------------------
(***************************************************************************)
(* Requests, their answers and their time stamps.                          *)
(***************************************************************************)

Request == [kind : {"Enter", "Cancel"}, slot : Slots, ref : Nat \ {0}, timed : BOOLEAN, rx : Nat]
TxRef == [key : Nat, ref : Nat]
SlotState == {"Idle", "PendingNew", "Live", "PendingCancel"}

\* The types the argument needs.
ThreadTypes ==
  /\ made \in Seq(Request)
  /\ slots \in [Slots -> [state : SlotState, ref : Nat, request : Nat]]
  /\ mdQ \in Seq(Nat) /\ cur \in [rx : Nat, sent : BOOLEAN] /\ clock \in Nat
  /\ sendQ \in Seq(Nat) /\ ackQ \in Seq(Nat) /\ pushing \in Seq(Nat)
  /\ toNic \in Seq(Nat) /\ stream \in Seq(Nat)
  /\ errQ \in Seq([key : Nat, tx : Nat])
  /\ txRefs \in Seq(TxRef)
  /\ inflight \in [0 .. InFlightSize - 1 -> [ref : Nat, rx : Nat, request : Nat]]
  /\ lost \in SUBSET Nat
  /\ paired \in SUBSET [sent : Nat, from : Nat, tx : Nat]

Increasing(q) == \A i, j \in DOMAIN q : i < j => q[i] < q[j]
Before(q, r) == \A i \in DOMAIN q, j \in DOMAIN r : q[i] < r[j]

\* The requests on their way are in the order they were made.
InOrder ==
  /\ Increasing(ackQ) /\ Increasing(pushing) /\ Increasing(stream)
  /\ Increasing(toNic) /\ Increasing(sendQ)
  /\ Before(ackQ, pushing) /\ Before(ackQ, stream) /\ Before(ackQ, toNic) /\ Before(ackQ, sendQ)
  /\ Before(pushing, stream) /\ Before(pushing, toNic) /\ Before(pushing, sendQ)
  /\ Before(stream, toNic) /\ Before(stream, sendQ) /\ Before(toNic, sendQ)

\* A slot waits for the request n.
Awaited(n) ==
  LET r == made[n]
  IN /\ n \in DOMAIN made
     /\ slots[r.slot].request = n
     /\ slots[r.slot].state = IF r.kind = "Enter" THEN "PendingNew" ELSE "PendingCancel"
AllAwaited(q) == \A i \in DOMAIN q : q[i] # Login => Awaited(q[i])

\* Every request on its way is waited for; the login goes no further than the
\* order thread, and nothing moves before it.
OnTheWay ==
  /\ AllAwaited(ackQ) /\ AllAwaited(pushing) /\ AllAwaited(stream)
  /\ AllAwaited(toNic) /\ AllAwaited(sendQ)
  /\ \A i \in DOMAIN ackQ : ackQ[i] # Login
  /\ \A i \in DOMAIN sendQ : sendQ[i] # Login
  /\ order = "Pushing" => pushing # <<>>
  /\ order \in {"Connecting", "WaitGo"} =>
       ackQ = <<>> /\ pushing = <<>> /\ stream = <<>> /\ toNic = <<>> /\ txRefs = <<>>

\* An order's reference is new; only its cancel uses it again.
Refs ==
  /\ \A i \in DOMAIN made : made[i].ref < NextRef
  /\ \A i, j \in DOMAIN made : i < j /\ made[i].ref = made[j].ref =>
       made[i].kind = "Enter" /\ made[j].kind = "Cancel"
  /\ \A s \in Slots : slots[s].state # "Idle" => slots[s].ref \in 1 .. NextRef - 1
  /\ \A s, t \in Slots : s # t /\ slots[s].state # "Idle" /\ slots[t].state # "Idle" =>
       slots[s].ref # slots[t].ref
  /\ \A s \in Slots : slots[s].state \in {"PendingNew", "Live"} =>
       \A i \in DOMAIN made : made[i].ref = slots[s].ref => made[i].kind = "Enter"

\* Packets are applied in the order of their stamps, and a packet times at most
\* one request that is not lost.
Stamps ==
  /\ Increasing(mdQ)
  /\ clock > 0
  /\ \A j \in DOMAIN mdQ : cur.rx < mdQ[j] /\ mdQ[j] < clock
  /\ cur.rx < clock
  /\ \A i \in DOMAIN made : made[i].rx < clock
  /\ \A i \in DOMAIN made, j \in DOMAIN mdQ : made[i].rx < mdQ[j]
  /\ cur # NoPacket => \A i \in DOMAIN made : made[i].timed /\ i \notin lost =>
       made[i].rx <= cur.rx /\ (~cur.sent => made[i].rx < cur.rx)
  /\ \A i, j \in DOMAIN made :
       i < j /\ made[i].timed /\ made[j].timed /\ i \notin lost => made[i].rx < made[j].rx

\* Request n was timed and has left.
TimedSent(n) == n \in DOMAIN made /\ made[n].timed /\ n \notin lost

\* A request that was lost was made, and was not queued.
Losses ==
  /\ \A n \in lost : n <= Len(made)
  /\ \A j \in DOMAIN sendQ : sendQ[j] \notin lost

\* What holds of the ring t of references: keys in the order they were sent, of
\* requests that were timed, and the in-flight entry is no older.
RingOf(t) ==
  /\ \A i, j \in DOMAIN t : i < j => t[i].key < t[j].key
  /\ \A i \in DOMAIN t : \A j \in DOMAIN sendQ : t[i].key < sendQ[j]
  /\ \A i \in DOMAIN t : t[i].key <= Len(made)
  /\ \A i \in DOMAIN t : t[i].ref # NoRef =>
       /\ TimedSent(t[i].key) /\ made[t[i].key].ref = t[i].ref
       /\ inflight[t[i].ref % InFlightSize].ref = t[i].ref =>
            inflight[t[i].ref % InFlightSize].request >= t[i].key

\* An in-flight entry is that of a timed request.
Entries ==
  \A k \in DOMAIN inflight : inflight[k].ref # NoRef =>
    /\ inflight[k].request \in DOMAIN made
    /\ made[inflight[k].request].ref = inflight[k].ref
    /\ made[inflight[k].request].timed
    /\ made[inflight[k].request].rx = inflight[k].rx

Ring == Losses /\ RingOf(txRefs) /\ Entries

\* A sample of the stamp of one request with the packet of another.
Mispaired(p) ==
  /\ made[p.sent].ref = made[p.from].ref
  /\ made[p.from].kind = "Cancel" /\ made[p.sent].kind = "Enter"
  /\ made[p.sent].rx < made[p.from].rx /\ made[p.from].rx < p.tx

\* The samples: of requests that left before those in the ring, one each.
Samples ==
  /\ \A p \in paired :
       /\ TimedSent(p.sent) /\ p.from \in DOMAIN made
       /\ p.sent = p.from \/ Mispaired(p)
       /\ \A i \in DOMAIN txRefs : p.sent < txRefs[i].key
       /\ \A i \in DOMAIN sendQ : p.sent < sendQ[i]
  /\ \A p, q \in paired : p.sent = q.sent => p = q
  /\ order \in {"Connecting", "WaitGo"} => paired = {}

PairInv == ThreadTypes /\ InOrder /\ OnTheWay /\ Refs /\ Stamps /\ Ring /\ Samples

\* Every sample is queued, in the histogram, or counted as dropped, and none is
\* made once the recorder was asked to stop.
Accounts ==
  /\ samples \in Seq(Nat) /\ hist \in Seq(Nat) /\ interval \in Seq(Nat) /\ flushed \in Seq(Nat)
  /\ worstRun \in Seq(Nat) /\ worstInterval \in Seq(Nat) /\ sampleDrops \in Nat
  /\ flushed \o interval = hist
  /\ KeepsLargest(worstRun, hist) /\ KeepsLargest(worstInterval, interval)
  /\ IsFiniteSet(paired)
  /\ Cardinality(paired) = Len(samples) + Len(hist) + sampleDrops
  /\ recorder # "Running" => order = "Exited"
  /\ recorder = "Ended" => samples = <<>> /\ interval = <<>>

-----------------------------------------------------------------------------
(***************************************************************************)
(* Facts about queues.                                                     *)
(***************************************************************************)

\* What is left behind the head of a queue.
LEMMA TailFacts ==
  ASSUME NEW S, NEW q \in Seq(S), q # <<>>
  PROVE  /\ Tail(q) \in Seq(S) /\ Head(q) \in S
         /\ 1 \in DOMAIN q /\ Head(q) = q[1]
         /\ Len(Tail(q)) = Len(q) - 1
         /\ \A i \in DOMAIN Tail(q) : i \in Nat /\ i + 1 \in DOMAIN q /\ Tail(q)[i] = q[i + 1]
<1>1. Len(q) \in Nat /\ Len(q) > 0 /\ DOMAIN q = 1 .. Len(q)
  OBVIOUS
<1>2. Tail(q) \in Seq(S) /\ Len(Tail(q)) = Len(q) - 1 /\ Head(q) = q[1]
  BY HeadTailProperties
<1>3. \A i \in 1 .. Len(q) - 1 : Tail(q)[i] = q[i + 1]
  BY HeadTailProperties
<1>4. DOMAIN Tail(q) = 1 .. Len(q) - 1
  BY <1>2
<1>5. \A i \in DOMAIN Tail(q) : i \in Nat /\ i + 1 \in DOMAIN q /\ Tail(q)[i] = q[i + 1]
  BY <1>1, <1>3, <1>4
<1>6. QED
  BY <1>1, <1>2, <1>5

\* A queue with one more element.
LEMMA AppendFacts ==
  ASSUME NEW S, NEW q \in Seq(S), NEW e \in S
  PROVE  /\ Append(q, e) \in Seq(S) /\ Len(Append(q, e)) = Len(q) + 1
         /\ DOMAIN Append(q, e) = 1 .. Len(q) + 1 /\ DOMAIN q = 1 .. Len(q) /\ Len(q) \in Nat
         /\ Append(q, e)[Len(q) + 1] = e
         /\ \A i \in DOMAIN q : i \in DOMAIN Append(q, e) /\ Append(q, e)[i] = q[i]
         /\ \A i \in DOMAIN Append(q, e) : i \in DOMAIN q \/ i = Len(q) + 1
<1>1. DOMAIN q = 1 .. Len(q) /\ Len(q) \in Nat
  OBVIOUS
<1>2. /\ Append(q, e) \in Seq(S) /\ Len(Append(q, e)) = Len(q) + 1
      /\ Append(q, e)[Len(q) + 1] = e
      /\ \A i \in 1 .. Len(q) : Append(q, e)[i] = q[i]
  BY AppendProperties
<1>3. DOMAIN Append(q, e) = 1 .. Len(q) + 1
  BY <1>2
<1>4. QED
  BY <1>1, <1>2, <1>3

\* Taking the head keeps a queue in order.
LEMMA TailIncreasing ==
  ASSUME NEW q \in Seq(Nat), q # <<>>, Increasing(q)
  PROVE  Increasing(Tail(q)) /\ \A i \in DOMAIN Tail(q) : Head(q) < Tail(q)[i]
<1>1. /\ 1 \in DOMAIN q /\ Head(q) = q[1]
      /\ \A i \in DOMAIN Tail(q) : i \in Nat /\ i + 1 \in DOMAIN q /\ Tail(q)[i] = q[i + 1]
  BY TailFacts
<1>2. \A i \in DOMAIN Tail(q) : 1 < i + 1
  OBVIOUS
<1>3. QED
  BY <1>1, <1>2 DEF Increasing

\* Taking the head keeps a queue behind or before another.
LEMMA TailBefore ==
  ASSUME NEW q \in Seq(Nat), q # <<>>, NEW r
  PROVE  /\ Before(q, r) => Before(Tail(q), r) /\ \A j \in DOMAIN r : Head(q) < r[j]
         /\ Before(r, q) => Before(r, Tail(q)) /\ \A j \in DOMAIN r : r[j] < Head(q)
<1>1. /\ 1 \in DOMAIN q /\ Head(q) = q[1]
      /\ \A i \in DOMAIN Tail(q) : i + 1 \in DOMAIN q /\ Tail(q)[i] = q[i + 1]
  BY TailFacts
<1>2. QED
  BY <1>1 DEF Before

\* A later element at the end keeps a queue in order.
LEMMA AppendIncreasing ==
  ASSUME NEW q \in Seq(Nat), NEW e \in Nat, Increasing(q), \A i \in DOMAIN q : q[i] < e
  PROVE  Increasing(Append(q, e))
<1>1. /\ DOMAIN q = 1 .. Len(q) /\ Len(q) \in Nat
      /\ Append(q, e)[Len(q) + 1] = e
      /\ \A i \in DOMAIN q : Append(q, e)[i] = q[i]
      /\ \A i \in DOMAIN Append(q, e) : i \in DOMAIN q \/ i = Len(q) + 1
  BY AppendFacts
<1>2. SUFFICES ASSUME NEW i \in DOMAIN Append(q, e), NEW j \in DOMAIN Append(q, e), i < j
               PROVE  Append(q, e)[i] < Append(q, e)[j]
  BY DEF Increasing
<1>3. i \in DOMAIN q
  BY <1>1, <1>2
<1>4. QED
  BY <1>1, <1>2, <1>3 DEF Increasing

\* An element in between keeps two queues in order.
LEMMA AppendBefore ==
  ASSUME NEW q \in Seq(Nat), NEW e \in Nat, NEW r
  PROVE  /\ Before(q, r) /\ (\A j \in DOMAIN r : e < r[j]) => Before(Append(q, e), r)
         /\ Before(r, q) /\ (\A j \in DOMAIN r : r[j] < e) => Before(r, Append(q, e))
<1>1. /\ Append(q, e)[Len(q) + 1] = e
      /\ \A i \in DOMAIN q : Append(q, e)[i] = q[i]
      /\ \A i \in DOMAIN Append(q, e) : i \in DOMAIN q \/ i = Len(q) + 1
  BY AppendFacts
<1>2. QED
  BY <1>1 DEF Before

\* The head of r moves to the end of q: the two stay in order, and in order with
\* the queues t before and behind them.
LEMMA Moved ==
  ASSUME NEW q \in Seq(Nat), NEW r \in Seq(Nat), r # <<>>,
         Increasing(q), Increasing(r), Before(q, r)
  PROVE  /\ Increasing(Append(q, Head(r))) /\ Increasing(Tail(r))
         /\ Before(Append(q, Head(r)), Tail(r))
         /\ \A t : Before(t, q) /\ Before(t, r) =>
               Before(t, Append(q, Head(r))) /\ Before(t, Tail(r))
         /\ \A t : Before(q, t) /\ Before(r, t) =>
               Before(Append(q, Head(r)), t) /\ Before(Tail(r), t)
<1>1. Tail(r) \in Seq(Nat) /\ Head(r) \in Nat
  BY TailFacts
<1>2. Increasing(Tail(r)) /\ \A i \in DOMAIN Tail(r) : Head(r) < Tail(r)[i]
  BY TailIncreasing
<1>3. Before(q, Tail(r)) /\ \A j \in DOMAIN q : q[j] < Head(r)
  BY TailBefore
<1>4. Increasing(Append(q, Head(r)))
  BY <1>1, <1>3, AppendIncreasing
<1>5. Before(Append(q, Head(r)), Tail(r))
  BY <1>1, <1>2, <1>3, AppendBefore
<1>6. ASSUME NEW t, Before(t, q), Before(t, r)
      PROVE  Before(t, Append(q, Head(r))) /\ Before(t, Tail(r))
  BY <1>1, <1>6, TailBefore, AppendBefore
<1>7. ASSUME NEW t, Before(q, t), Before(r, t)
      PROVE  Before(Append(q, Head(r)), t) /\ Before(Tail(r), t)
  BY <1>1, <1>7, TailBefore, AppendBefore
<1>8. QED
  BY <1>2, <1>4, <1>5, <1>6, <1>7

-----------------------------------------------------------------------------
(***************************************************************************)
(* The steps that move requests, packets and stamps, and the others.       *)
(***************************************************************************)
Quiet ==
  /\ UNCHANGED <<mdQ, cur, slots, made, sendQ, ackQ, pushing, toNic, stream, clock, errQ,
                 txRefs, inflight, lost, paired>>
  /\ \/ order' = order \/ order' = "Exited"
     \/ order = "Connecting" /\ order' = "WaitGo"

\* Steps of the threads that only start, stop or record leave the rest alone.
LEMMA Frames ==
  ASSUME [Next]_vars
  PROVE  \/ \E s \in Slots : Quote(s)
         \/ MainPacket \/ MainAck \/ OrderLogsIn \/ OrderSends \/ OrderDrains \/ OrderReads
         \/ PushAck \/ PacketArrives
         \/ \E stamped \in BOOLEAN : NicTransmits(stamped)
         \/ Quiet
<1> USE DEF mainVars, linkVars, stampVars, Quiet
<1>1. MainGo => Quiet BY DEF MainGo
<1>2. MainFails => Quiet BY DEF MainFails
<1>3. MainStops => Quiet BY DEF MainStops
<1>4. MainJoins => Quiet BY DEF MainJoins
<1>5. OrderConnects => Quiet BY DEF OrderConnects
<1>6. OrderGivesUp => Quiet BY DEF OrderGivesUp
<1>7. OrderStops => Quiet BY DEF OrderStops
<1>8. OrderSeesClose => Quiet BY DEF OrderSeesClose
<1>9. VenueCloses => Quiet BY DEF VenueCloses
<1>10. Recording => Quiet BY DEF Recording
<1>11. UNCHANGED vars => Quiet BY DEF vars
<1>12. QED
  BY <1>1, <1>2, <1>3, <1>4, <1>5, <1>6, <1>7, <1>8, <1>9, <1>10, <1>11 DEF Next

-----------------------------------------------------------------------------
(***************************************************************************)
(* The references.                                                         *)
(***************************************************************************)

Enters(q) == {i \in DOMAIN q : q[i].kind = "Enter"}

\* NextRef counts the orders.
LEMMA EntersGrow ==
  ASSUME NEW seq \in Seq(Request), NEW r \in Request
  PROVE  /\ Cardinality(Enters(seq)) \in Nat
         /\ Cardinality(Enters(Append(seq, r)))
              = Cardinality(Enters(seq)) + (IF r.kind = "Enter" THEN 1 ELSE 0)
<1> USE DEF Enters
<1> DEFINE n == Len(seq) + 1
           A == Enters(seq)
           B == Enters(Append(seq, r))
<1>1. /\ DOMAIN seq = 1 .. Len(seq) /\ Len(seq) \in Nat
      /\ DOMAIN Append(seq, r) = 1 .. n
      /\ Append(seq, r)[n] = r
      /\ \A i \in DOMAIN seq : i \in DOMAIN Append(seq, r) /\ Append(seq, r)[i] = seq[i]
      /\ \A i \in DOMAIN Append(seq, r) : i \in DOMAIN seq \/ i = n
  BY AppendFacts
<1>2. IsFiniteSet(A) /\ Cardinality(A) \in Nat
  <2>1. IsFiniteSet(1 .. Len(seq))
    BY <1>1, FS_Interval
  <2>2. QED
    BY <1>1, <2>1, FS_Subset, FS_CardinalityType
<1>3. CASE r.kind = "Enter"
  <2>1. B = A \cup {n}
    BY <1>1, <1>3
  <2>2. n \notin A
    BY <1>1
  <2>3. Cardinality(B) = Cardinality(A) + 1
    BY <1>2, <2>1, <2>2, FS_AddElement
  <2>4. QED
    BY <1>2, <1>3, <2>3
<1>4. CASE r.kind # "Enter"
  <2>1. B = A
    BY <1>1, <1>4
  <2> HIDE DEF A, B
  <2>2. Cardinality(B) = Cardinality(A) + (IF r.kind = "Enter" THEN 1 ELSE 0)
    BY <1>2, <1>4, <2>1
  <2>3. QED
    BY <1>2, <2>2 DEF A, B
<1>5. QED
  BY <1>3, <1>4

\* The history of requests has grown by r.
Grown(r) ==
  /\ Len(made) \in Nat /\ Len(made') = Len(made) + 1
  /\ \A i \in DOMAIN made : i \in Nat /\ i < Len(made) + 1 /\ i \in DOMAIN made' /\ made'[i] = made[i]
  /\ Len(made) + 1 \in DOMAIN made' /\ made'[Len(made) + 1] = r
  /\ \A i \in DOMAIN made' : i \in DOMAIN made \/ i = Len(made) + 1

\* What quote appends, and where.
LEMMA QuoteEffect ==
  ASSUME ThreadTypes, Refs, NEW s \in Slots, Quote(s)
  PROVE  \E r \in Request :
           /\ made' = Append(made, r) /\ made' \in Seq(Request) /\ Grown(r)
           /\ r.slot = s /\ r.rx = cur.rx /\ r.timed = ~cur.sent
           /\ \/ slots[s].state = "Idle" /\ r.kind = "Enter" /\ r.ref = NextRef
              \/ slots[s].state = "Live" /\ r.kind = "Cancel" /\ r.ref = slots[s].ref
           /\ slots' = [slots EXCEPT ![s] =
                [state |-> IF r.kind = "Enter" THEN "PendingNew" ELSE "PendingCancel",
                 ref |-> r.ref, request |-> Len(made) + 1]]
           /\ \/ sendQ' = Append(sendQ, Len(made) + 1) /\ cur' = [cur EXCEPT !.sent = TRUE] /\ lost' = lost
              \/ sendQ' = sendQ /\ cur' = cur /\ lost' = lost \cup {Len(made) + 1}
<1> DEFINE enter == slots[s].state = "Idle"
           ref == IF enter THEN NextRef ELSE slots[s].ref
           r == [kind |-> IF enter THEN "Enter" ELSE "Cancel", slot |-> s,
                 ref |-> ref, timed |-> ~cur.sent, rx |-> cur.rx]
<1>1. NextRef \in Nat /\ NextRef > 0
  <2>1. made \in Seq(Request)
    BY DEF ThreadTypes
  <2>2. IsFiniteSet(1 .. Len(made))
    BY <2>1, FS_Interval
  <2>3. {i \in DOMAIN made : made[i].kind = "Enter"} \subseteq 1 .. Len(made)
    BY <2>1
  <2>4. Cardinality({i \in DOMAIN made : made[i].kind = "Enter"}) \in Nat
    BY <2>2, <2>3, FS_Subset, FS_CardinalityType
  <2>5. QED
    BY <2>4 DEF NextRef
<1>2. slots[s].state \in {"Idle", "Live"}
  BY DEF Quote
<1>3. ~enter => ref \in 1 .. NextRef - 1
  BY <1>2 DEF Refs
<1>4. cur \in [rx : Nat, sent : BOOLEAN]
  BY DEF ThreadTypes
<1>5. r \in Request
  BY <1>1, <1>3, <1>4 DEF Request
<1>6. made' = Append(made, r)
  BY DEF Quote
<1>7. made' \in Seq(Request)
  BY <1>5, <1>6 DEF ThreadTypes
<1>8. slots' = [slots EXCEPT ![s] =
                [state |-> IF r.kind = "Enter" THEN "PendingNew" ELSE "PendingCancel",
                 ref |-> r.ref, request |-> Len(made) + 1]]
  BY DEF Quote
<1>9. \/ sendQ' = Append(sendQ, Len(made) + 1) /\ cur' = [cur EXCEPT !.sent = TRUE] /\ lost' = lost
      \/ sendQ' = sendQ /\ cur' = cur /\ lost' = lost \cup {Len(made) + 1}
  <2>1. CASE Len(sendQ) < SendCap
    BY <2>1 DEF Quote
  <2>2. CASE ~ (Len(sendQ) < SendCap)
    <3>1. cur' = [cur EXCEPT !.sent = @ \/ FALSE]
      BY <2>2 DEF Quote
    <3>2. QED
      BY <1>4, <2>2, <3>1 DEF Quote
  <2>3. QED
    BY <2>1, <2>2
<1>10. Grown(r)
  <2>1. made \in Seq(Request)
    BY DEF ThreadTypes
  <2> HIDE DEF r
  <2>2. QED
    BY <1>5, <1>6, <2>1, AppendFacts DEF Grown
<1>11. QED
  BY <1>2, <1>5, <1>6, <1>7, <1>8, <1>9, <1>10

\* quote keeps the references apart.
LEMMA QuoteRefs ==
  ASSUME ThreadTypes, Refs, NEW s \in Slots, Quote(s)
  PROVE  Refs'
<1> DEFINE n == Len(made) + 1
<1>1. PICK r \in Request :
        /\ made' = Append(made, r) /\ Grown(r)
        /\ \/ slots[s].state = "Idle" /\ r.kind = "Enter" /\ r.ref = NextRef
           \/ slots[s].state = "Live" /\ r.kind = "Cancel" /\ r.ref = slots[s].ref
        /\ slots' = [slots EXCEPT ![s] =
             [state |-> IF r.kind = "Enter" THEN "PendingNew" ELSE "PendingCancel",
              ref |-> r.ref, request |-> Len(made) + 1]]
  BY QuoteEffect
<1>2. NextRef \in Nat /\ NextRef' = NextRef + (IF r.kind = "Enter" THEN 1 ELSE 0)
  <2>1. made \in Seq(Request)
    BY DEF ThreadTypes
  <2>2. NextRef = 1 + Cardinality(Enters(made))
    BY DEF NextRef, Enters
  <2>3. NextRef' = 1 + Cardinality(Enters(Append(made, r)))
    BY <1>1 DEF NextRef, Enters
  <2>4. QED
    BY <2>1, <2>2, <2>3, EntersGrow
<1>3. /\ \A i \in DOMAIN made : i < n /\ i \in DOMAIN made' /\ made'[i] = made[i]
      /\ made'[n] = r
      /\ \A i \in DOMAIN made' : i \in DOMAIN made \/ i = n
  BY <1>1 DEF Grown
<1>4. /\ \A t \in Slots : t # s => slots'[t] = slots[t]
      /\ slots'[s].ref = r.ref
      /\ slots'[s].state = IF r.kind = "Enter" THEN "PendingNew" ELSE "PendingCancel"
  BY <1>1 DEF ThreadTypes
<1>5. r.ref \in 1 .. NextRef' - 1
  BY <1>1, <1>2 DEF Refs, Request
<1>6. \A i \in DOMAIN made : made[i] \in Request /\ i \in Nat
  BY DEF ThreadTypes
<1>7. \A t \in Slots : slots[t].ref \in Nat
  BY DEF ThreadTypes
<1>8. (\A i \in DOMAIN made : made[i].ref < NextRef)'
  BY <1>1, <1>2, <1>3, <1>5, <1>6 DEF Refs, Request
<1>9. (\A i, j \in DOMAIN made : i < j /\ made[i].ref = made[j].ref =>
         made[i].kind = "Enter" /\ made[j].kind = "Cancel")'
  <2> SUFFICES ASSUME NEW i \in DOMAIN made', NEW j \in DOMAIN made', i < j,
                      made'[i].ref = made'[j].ref
               PROVE  made'[i].kind = "Enter" /\ made'[j].kind = "Cancel"
    OBVIOUS
  <2>0. Len(made) \in Nat
    BY <1>1 DEF Grown
  <2>1. i \in DOMAIN made
    BY <1>3, <1>6, <2>0
  <2>2. CASE j \in DOMAIN made
    BY <1>3, <2>1, <2>2 DEF Refs
  <2>3. CASE j = n
    <3>1. made[i].ref = r.ref
      BY <1>3, <2>1, <2>3
    <3>2. r.kind = "Cancel" /\ slots[s].state = "Live" /\ r.ref = slots[s].ref
      BY <1>1, <1>2, <1>6, <2>1, <3>1 DEF Refs, Request
    <3>3. QED
      BY <1>3, <2>1, <2>3, <3>1, <3>2 DEF Refs
  <2>4. QED
    BY <1>3, <2>2, <2>3
<1>10. (\A t \in Slots : slots[t].state # "Idle" => slots[t].ref \in 1 .. NextRef - 1)'
  BY <1>2, <1>4, <1>5 DEF Refs
<1>11. (\A t, u \in Slots : t # u /\ slots[t].state # "Idle" /\ slots[u].state # "Idle" =>
          slots[t].ref # slots[u].ref)'
  <2>1. ASSUME NEW t \in Slots, t # s, slots[t].state # "Idle" PROVE slots[t].ref # r.ref
    BY <1>1, <1>2, <1>7, <2>1 DEF Refs
  <2>2. QED
    BY <1>4, <2>1 DEF Refs
<1>12. (\A t \in Slots : slots[t].state \in {"PendingNew", "Live"} =>
          \A i \in DOMAIN made : made[i].ref = slots[t].ref => made[i].kind = "Enter")'
  <2> SUFFICES ASSUME NEW t \in Slots, slots'[t].state \in {"PendingNew", "Live"},
                      NEW i \in DOMAIN made', made'[i].ref = slots'[t].ref
               PROVE  made'[i].kind = "Enter"
    OBVIOUS
  <2>1. CASE t = s
    <3>1. r.kind = "Enter" /\ r.ref = NextRef
      BY <1>1, <1>4, <2>1
    <3>2. CASE i = n
      BY <1>3, <3>1, <3>2
    <3>3. CASE i \in DOMAIN made
      BY <1>2, <1>3, <1>4, <1>6, <2>1, <3>1, <3>3 DEF Refs, Request
    <3>4. QED
      BY <1>3, <3>2, <3>3
  <2>2. CASE t # s
    <3>1. slots[t].state \in {"PendingNew", "Live"} /\ made'[i].ref = slots[t].ref
      BY <1>4, <2>2
    <3>2. CASE i \in DOMAIN made
      BY <1>3, <3>1, <3>2 DEF Refs
    <3>3. CASE i = n
      BY <1>1, <1>3, <2>2, <3>1, <3>3 DEF Refs
    <3>4. QED
      BY <1>3, <3>2, <3>3
  <2>3. QED
    BY <2>1, <2>2
<1>13. QED
  BY <1>8, <1>9, <1>10, <1>11, <1>12 DEF Refs

\* An answer keeps the references apart: an order that is accepted was waited for.
LEMMA AckRefs ==
  ASSUME ThreadTypes, OnTheWay, Refs, MainAck
  PROVE  Refs'
<1> DEFINE n == Head(ackQ)
           s == made[n].slot
<1>1. ackQ \in Seq(Nat) /\ ackQ # <<>>
  BY DEF ThreadTypes, MainAck
<1>2. 1 \in DOMAIN ackQ /\ n = ackQ[1]
  BY <1>1, TailFacts
<1>3. Awaited(n)
  BY <1>2 DEF OnTheWay, AllAwaited
<1>4. n \in DOMAIN made /\ made[n] \in Request /\ s \in Slots
  <2>1. n \in DOMAIN made
    BY <1>3 DEF Awaited
  <2>2. made \in Seq(Request)
    BY DEF ThreadTypes
  <2>3. made[n] \in Request
    BY <2>1, <2>2
  <2>4. QED
    BY <2>1, <2>3 DEF Request
<1>5. made' = made /\ NextRef' = NextRef
  BY DEF MainAck, NextRef
<1>6. \A t \in Slots : t # s => slots'[t] = slots[t]
  BY <1>4 DEF MainAck, ThreadTypes
<1>7. CASE made[n].kind = "Enter"
  <2>1. slots[s].state = "PendingNew"
    BY <1>3, <1>7 DEF Awaited
  <2>2. slots'[s] = [slots[s] EXCEPT !.state = "Live"]
    BY <1>4, <1>7 DEF MainAck, ThreadTypes
  <2>3. slots'[s].state = "Live" /\ slots'[s].ref = slots[s].ref
    BY <1>4, <2>2 DEF ThreadTypes
  <2>4. QED
    BY <1>4, <1>5, <1>6, <2>1, <2>3 DEF Refs
<1>8. CASE made[n].kind # "Enter"
  <2>1. slots'[s].state = "Idle"
    BY <1>4, <1>8 DEF MainAck, ThreadTypes, NoOrder
  <2>2. QED
    BY <1>4, <1>5, <1>6, <2>1 DEF Refs
<1>9. QED
  BY <1>7, <1>8

-----------------------------------------------------------------------------
(***************************************************************************)
(* The order of the requests on their way.                                 *)
(***************************************************************************)

\* What orderSend does for request n, which fails once the venue has closed.
LEMMA SendEffect ==
  ASSUME NEW n, NEW ref, NEW rx, OrderSend(n, ref, rx)
  PROVE  \/ lost' = lost \cup {n} /\ toNic' = toNic /\ txRefs' = txRefs /\ inflight' = inflight
         \/ /\ lost' = lost /\ toNic' = Append(toNic, n)
            /\ \/ txRefs' = Append(txRefs, [key |-> n, ref |-> ref])
               \/ /\ Len(txRefs) = TxRefs
                  /\ txRefs' = Append(Tail(txRefs), [key |-> n, ref |-> ref])
            /\ inflight' = IF ref = NoRef THEN inflight
                           ELSE [inflight EXCEPT ![ref % InFlightSize] =
                                   [ref |-> ref, rx |-> rx, request |-> n]]
<1>1. CASE closed
  BY <1>1 DEF OrderSend
<1>2. CASE ~closed
  <2>1. CASE Len(txRefs) = TxRefs
    BY <1>2, <2>1 DEF OrderSend
  <2>2. CASE Len(txRefs) # TxRefs
    BY <1>2, <2>2 DEF OrderSend
  <2>3. QED
    BY <2>1, <2>2
<1>3. QED
  BY <1>1, <1>2

\* A new request is later than all on their way.
LEMMA AwaitedIsMade ==
  ASSUME ThreadTypes, NEW q, AllAwaited(q)
  PROVE  \A i \in DOMAIN q : q[i] \in 0 .. Len(made)
<1>1. made \in Seq(Request) /\ DOMAIN made = 1 .. Len(made) /\ Len(made) \in Nat
  BY DEF ThreadTypes
<1>2. QED
  BY <1>1 DEF AllAwaited, Awaited, Login

LEMMA OrderKept ==
  ASSUME ThreadTypes, InOrder, OnTheWay, Refs, [Next]_vars
  PROVE  InOrder'
<1>0. /\ sendQ \in Seq(Nat) /\ ackQ \in Seq(Nat) /\ pushing \in Seq(Nat)
      /\ toNic \in Seq(Nat) /\ stream \in Seq(Nat)
  BY DEF ThreadTypes
<1>1. ASSUME NEW s \in Slots, Quote(s) PROVE InOrder'
  <2>1. Len(made) \in Nat
    BY DEF ThreadTypes
  <2>2. UNCHANGED <<ackQ, pushing, toNic, stream>>
    BY <1>1 DEF Quote, linkVars
  <2>3. sendQ' = Append(sendQ, Len(made) + 1) \/ sendQ' = sendQ
    BY <1>1 DEF Quote
  <2>4. ASSUME NEW q \in {ackQ, pushing, toNic, stream, sendQ}
        PROVE  \A i \in DOMAIN q : q[i] < Len(made) + 1
    <3>1. \A i \in DOMAIN q : q[i] \in 0 .. Len(made)
      BY AwaitedIsMade DEF OnTheWay
    <3>2. QED
      BY <2>1, <3>1
  <2>5. CASE sendQ' = Append(sendQ, Len(made) + 1)
    <3>1. Len(made) + 1 \in Nat
      BY <2>1
    <3>2. Increasing(sendQ')
      BY <1>0, <2>4, <2>5, <3>1, AppendIncreasing DEF InOrder
    <3>3. \A q \in {ackQ, pushing, toNic, stream} : Before(q, sendQ) => Before(q, sendQ')
      BY <1>0, <2>4, <2>5, <3>1, AppendBefore
    <3>4. QED
      BY <2>2, <3>2, <3>3 DEF InOrder
  <2>6. CASE sendQ' = sendQ
    BY <2>2, <2>6 DEF InOrder
  <2>7. QED
    BY <2>3, <2>5, <2>6
<1>2. ASSUME MainAck PROVE InOrder'
  <2>1. ackQ # <<>> /\ ackQ' = Tail(ackQ) /\ UNCHANGED <<sendQ, pushing, toNic, stream>>
    BY <1>2 DEF MainAck, linkVars
  <2>2. QED
    BY <1>0, <2>1, TailIncreasing, TailBefore DEF InOrder
<1>3. ASSUME OrderLogsIn PROVE InOrder'
  <2>1. ackQ = <<>> /\ pushing = <<>> /\ stream = <<>> /\ toNic = <<>>
    BY <1>3 DEF OrderLogsIn, OnTheWay
  <2>2. UNCHANGED <<sendQ, ackQ, pushing, stream>>
    BY <1>3 DEF OrderLogsIn
  <2>3. toNic' = toNic \/ toNic' = Append(toNic, Login)
    BY <1>3, SendEffect DEF OrderLogsIn
  <2>4. \A i \in DOMAIN sendQ : Login < sendQ[i]
    BY <1>0 DEF OnTheWay, Login
  <2>5. CASE toNic' = Append(toNic, Login)
    <3>1. Login \in Nat /\ Before(toNic, sendQ) /\ Increasing(toNic)
      BY DEF Login, InOrder
    <3>2. \A i \in DOMAIN toNic : toNic[i] < Login
      BY <2>1
    <3>3. Increasing(toNic') /\ Before(toNic', sendQ)
      BY <1>0, <2>4, <2>5, <3>1, <3>2, AppendIncreasing, AppendBefore
    <3>4. QED
      BY <2>1, <2>2, <3>3 DEF InOrder, Before
  <2>6. CASE toNic' = toNic
    BY <2>2, <2>6 DEF InOrder
  <2>7. QED
    BY <2>3, <2>5, <2>6
<1>4. ASSUME OrderSends PROVE InOrder'
  <2>1. sendQ # <<>> /\ sendQ' = Tail(sendQ) /\ UNCHANGED <<ackQ, pushing, stream>>
    BY <1>4 DEF OrderSends
  <2>2. toNic' = toNic \/ toNic' = Append(toNic, Head(sendQ))
    BY <1>4, SendEffect DEF OrderSends
  <2>3. CASE toNic' = Append(toNic, Head(sendQ))
    BY <1>0, <2>1, <2>3, Moved DEF InOrder
  <2>4. CASE toNic' = toNic
    BY <1>0, <2>1, <2>4, TailIncreasing, TailBefore DEF InOrder
  <2>5. QED
    BY <2>2, <2>3, <2>4
<1>5. ASSUME OrderReads PROVE InOrder'
  <2>1. stream' = <<>> /\ pushing' = stream /\ UNCHANGED <<sendQ, ackQ, toNic>>
    BY <1>5 DEF OrderReads
  <2>2. \A q : Before(q, <<>>) /\ Before(<<>>, q)
    BY DEF Before
  <2>3. Increasing(<<>>)
    BY DEF Increasing
  <2>4. QED
    BY <2>1, <2>2, <2>3 DEF InOrder
<1>6. ASSUME PushAck PROVE InOrder'
  <2>1. pushing # <<>> /\ pushing' = Tail(pushing) /\ UNCHANGED <<sendQ, stream, toNic>>
    BY <1>6 DEF PushAck, linkVars, OnTheWay
  <2>2. ackQ' = ackQ \/ ackQ' = Append(ackQ, Head(pushing))
    BY <1>6 DEF PushAck
  <2>3. CASE ackQ' = Append(ackQ, Head(pushing))
    BY <1>0, <2>1, <2>3, Moved DEF InOrder
  <2>4. CASE ackQ' = ackQ
    BY <1>0, <2>1, <2>4, TailIncreasing, TailBefore DEF InOrder
  <2>5. QED
    BY <2>2, <2>3, <2>4
<1>7. ASSUME NEW stamped \in BOOLEAN, NicTransmits(stamped) PROVE InOrder'
  <2>1. toNic # <<>> /\ toNic' = Tail(toNic) /\ UNCHANGED <<sendQ, ackQ, pushing>>
    BY <1>7 DEF NicTransmits
  <2>2. stream' = stream \/ stream' = Append(stream, Head(toNic))
    BY <1>7 DEF NicTransmits
  <2>3. CASE stream' = Append(stream, Head(toNic))
    BY <1>0, <2>1, <2>3, Moved DEF InOrder
  <2>4. CASE stream' = stream
    BY <1>0, <2>1, <2>4, TailIncreasing, TailBefore DEF InOrder
  <2>5. QED
    BY <2>2, <2>3, <2>4
<1>8. ASSUME UNCHANGED <<sendQ, ackQ, pushing, toNic, stream>> PROVE InOrder'
  BY <1>8 DEF InOrder
<1>9. MainPacket \/ OrderDrains \/ PacketArrives \/ Quiet
        => UNCHANGED <<sendQ, ackQ, pushing, toNic, stream>>
  BY DEF MainPacket, OrderDrains, PacketArrives, Quiet, linkVars
<1>10. QED
  BY <1>1, <1>2, <1>3, <1>4, <1>5, <1>6, <1>7, <1>8, <1>9, Frames

-----------------------------------------------------------------------------
(***************************************************************************)
(* Every request on its way is waited for.                                 *)
(***************************************************************************)

\* Every element of q is the login or satisfies the predicate; a tail has no
\* other elements, and one more element adds only itself.
LEMMA AwaitedTail ==
  ASSUME NEW q \in Seq(Nat), q # <<>>, AllAwaited(q)
  PROVE  AllAwaited(Tail(q)) /\ (Head(q) # Login => Awaited(Head(q)))
<1>1. /\ 1 \in DOMAIN q /\ Head(q) = q[1]
      /\ \A i \in DOMAIN Tail(q) : i + 1 \in DOMAIN q /\ Tail(q)[i] = q[i + 1]
  BY TailFacts
<1>2. QED
  BY <1>1 DEF AllAwaited

LEMMA AwaitedAppend ==
  ASSUME NEW q \in Seq(Nat), NEW n \in Nat, AllAwaited(q), n # Login => Awaited(n)
  PROVE  AllAwaited(Append(q, n))
<1>1. /\ Append(q, n)[Len(q) + 1] = n
      /\ \A i \in DOMAIN q : Append(q, n)[i] = q[i]
      /\ \A i \in DOMAIN Append(q, n) : i \in DOMAIN q \/ i = Len(q) + 1
  BY AppendFacts
<1>2. QED
  BY <1>1 DEF AllAwaited

\* quote makes a slot wait for the new request, and none stop waiting.
LEMMA QuoteAwaits ==
  ASSUME ThreadTypes, Refs, NEW s \in Slots, Quote(s), NEW m
  PROVE  Awaited(m) \/ m = Len(made) + 1 => Awaited(m)'
<1> DEFINE n == Len(made) + 1
<1>1. PICK r \in Request :
        /\ Grown(r) /\ r.slot = s
        /\ slots[s].state \in {"Idle", "Live"}
        /\ slots' = [slots EXCEPT ![s] =
             [state |-> IF r.kind = "Enter" THEN "PendingNew" ELSE "PendingCancel",
              ref |-> r.ref, request |-> Len(made) + 1]]
  BY QuoteEffect
<1>2. slots'[s] = [state |-> IF r.kind = "Enter" THEN "PendingNew" ELSE "PendingCancel",
                   ref |-> r.ref, request |-> n]
  BY <1>1 DEF ThreadTypes
<1>3. \A t \in Slots : t # s => slots'[t] = slots[t]
  BY <1>1 DEF ThreadTypes
<1>4. n \in DOMAIN made' /\ made'[n] = r
  BY <1>1 DEF Grown
<1>5. CASE m = n
  BY <1>1, <1>2, <1>4, <1>5 DEF Awaited
<1>6. CASE Awaited(m)
  <2>1. m \in DOMAIN made /\ m \in DOMAIN made' /\ made'[m] = made[m]
    BY <1>1, <1>6 DEF Awaited, Grown
  <2>2. made[m].slot \in Slots
    <3>1. made \in Seq(Request)
      BY DEF ThreadTypes
    <3>2. made[m] \in Request
      BY <2>1, <3>1
    <3>3. QED
      BY <3>2 DEF Request
  <2>3. made[m].slot # s
    BY <1>1, <1>6 DEF Awaited
  <2>4. QED
    BY <1>3, <1>6, <2>1, <2>2, <2>3 DEF Awaited
<1>7. QED
  BY <1>5, <1>6

\* An answer frees only the slot that waits for it.
LEMMA AckAwaits ==
  ASSUME ThreadTypes, OnTheWay, MainAck, NEW m, m # Head(ackQ), Awaited(m)
  PROVE  Awaited(m)'
<1> DEFINE n == Head(ackQ)
<1>1. Awaited(n)
  <2>1. ackQ \in Seq(Nat) /\ ackQ # <<>>
    BY DEF ThreadTypes, MainAck
  <2>2. 1 \in DOMAIN ackQ /\ n = ackQ[1]
    BY <2>1, TailFacts
  <2>3. QED
    BY <2>2 DEF OnTheWay, AllAwaited
<1>2. made[m].slot # made[n].slot
  BY <1>1 DEF Awaited
<1>3. made' = made
  BY DEF MainAck
<1>4. made[m].slot \in Slots
  <2>1. made \in Seq(Request) /\ m \in DOMAIN made
    BY DEF ThreadTypes, Awaited
  <2>2. made[m] \in Request
    BY <2>1
  <2>3. QED
    BY <2>2 DEF Request
<1>5. slots'[made[m].slot] = slots[made[m].slot]
  BY <1>2, <1>4 DEF MainAck, ThreadTypes
<1>6. QED
  BY <1>3, <1>5 DEF Awaited

\* The parts of OnTheWay about queues, in a step that changes no slot.
LEMMA AwaitedKept ==
  ASSUME UNCHANGED <<made, slots>>,
         AllAwaited(ackQ'), AllAwaited(pushing'), AllAwaited(stream'),
         AllAwaited(toNic'), AllAwaited(sendQ')
  PROVE  (/\ AllAwaited(ackQ) /\ AllAwaited(pushing) /\ AllAwaited(stream)
          /\ AllAwaited(toNic) /\ AllAwaited(sendQ))'
BY DEF AllAwaited, Awaited

\* A step leaves every request on its way waited for.
LEMMA WayKept ==
  ASSUME ThreadTypes, InOrder, OnTheWay, Refs, [Next]_vars
  PROVE  OnTheWay'
<1>0. /\ sendQ \in Seq(Nat) /\ ackQ \in Seq(Nat) /\ pushing \in Seq(Nat)
      /\ toNic \in Seq(Nat) /\ stream \in Seq(Nat)
      /\ Login \in Nat /\ Len(made) \in Nat
  BY DEF ThreadTypes, Login
<1>1. ASSUME NEW s \in Slots, Quote(s) PROVE OnTheWay'
  <2>1. UNCHANGED <<order, ackQ, pushing, toNic, stream, txRefs>>
    BY <1>1 DEF Quote, linkVars, stampVars
  <2>2. sendQ' = Append(sendQ, Len(made) + 1) \/ sendQ' = sendQ
    BY <1>1 DEF Quote
  <2>3. \A m : Awaited(m) \/ m = Len(made) + 1 => Awaited(m)'
    BY <1>1, QuoteAwaits
  <2>4. \A i \in DOMAIN sendQ' : sendQ'[i] = Len(made) + 1 \/ (i \in DOMAIN sendQ /\ sendQ'[i] = sendQ[i])
    <3>1. CASE sendQ' = Append(sendQ, Len(made) + 1)
      <4>1. Len(made) + 1 \in Nat
        BY <1>0
      <4>2. QED
        BY <1>0, <3>1, <4>1, AppendFacts
    <3>2. QED
      BY <2>2, <3>1
  <2>5. Len(made) + 1 # Login
    BY <1>0 DEF Login
  <2>6. (/\ AllAwaited(ackQ) /\ AllAwaited(pushing) /\ AllAwaited(stream) /\ AllAwaited(toNic))'
    BY <2>1, <2>3 DEF OnTheWay, AllAwaited, Awaited
  <2>7. AllAwaited(sendQ)'
    BY <2>3, <2>4 DEF OnTheWay, AllAwaited, Awaited
  <2>8. \A i \in DOMAIN sendQ' : sendQ'[i] # Login
    BY <2>4, <2>5 DEF OnTheWay
  <2>9. QED
    BY <2>1, <2>6, <2>7, <2>8 DEF OnTheWay
<1>2. ASSUME MainAck PROVE OnTheWay'
  <2>1. ackQ # <<>> /\ ackQ' = Tail(ackQ) /\ UNCHANGED <<order, sendQ, pushing, toNic, stream>>
    BY <1>2 DEF MainAck, linkVars
  <2>2. \A i \in DOMAIN ackQ' : \E j \in DOMAIN ackQ : ackQ'[i] = ackQ[j]
    BY <1>0, <2>1, TailFacts
  <2>3. \A i \in DOMAIN ackQ' : Head(ackQ) < ackQ'[i]
    BY <1>0, <2>1, TailIncreasing DEF InOrder
  <2>4. ASSUME NEW q \in {pushing, stream, toNic, sendQ}
        PROVE  \A i \in DOMAIN q : Head(ackQ) < q[i]
    BY <1>0, <2>1, TailBefore DEF InOrder
  <2>5. Head(ackQ) \in Nat
    BY <1>0, <2>1, TailFacts
  <2>6. \A m : m # Head(ackQ) /\ Awaited(m) => Awaited(m)'
    BY <1>2, AckAwaits
  <2>7. AllAwaited(ackQ)'
    <3>1. \A i \in DOMAIN ackQ' : ackQ'[i] # Head(ackQ)
      BY <2>3, <2>5
    <3>2. QED
      BY <2>2, <2>6, <3>1 DEF OnTheWay, AllAwaited, Awaited
  <2>8. \A q \in {pushing, stream, toNic, sendQ} : \A i \in DOMAIN q : q[i] # Head(ackQ)
    BY <2>4, <2>5
  <2>9. (AllAwaited(pushing) /\ AllAwaited(stream) /\ AllAwaited(toNic) /\ AllAwaited(sendQ))'
    BY <2>1, <2>6, <2>8 DEF OnTheWay, AllAwaited, Awaited
  <2>10. \A i \in DOMAIN ackQ' : ackQ'[i] # Login
    BY <2>2 DEF OnTheWay
  <2>11. order' \notin {"Connecting", "WaitGo"}
    BY <2>1 DEF OnTheWay
  <2>12. QED
    BY <2>1, <2>7, <2>9, <2>10, <2>11 DEF OnTheWay
<1>3. ASSUME OrderLogsIn PROVE OnTheWay'
  <2>1. UNCHANGED <<sendQ, ackQ, pushing, stream, made, slots>> /\ order' = "Loop"
    BY <1>3 DEF OrderLogsIn, mainVars
  <2>2. toNic' = toNic \/ toNic' = Append(toNic, Login)
    BY <1>3, SendEffect DEF OrderLogsIn
  <2>3. AllAwaited(toNic')
    BY <1>0, <2>2, AwaitedAppend DEF OnTheWay
  <2>4. QED
    BY <2>1, <2>3, AwaitedKept DEF OnTheWay
<1>4. ASSUME OrderSends PROVE OnTheWay'
  <2>1. /\ sendQ # <<>> /\ sendQ' = Tail(sendQ) /\ order' = "Loop"
        /\ UNCHANGED <<ackQ, pushing, stream, made, slots>>
    BY <1>4 DEF OrderSends, mainVars
  <2>2. toNic' = toNic \/ toNic' = Append(toNic, Head(sendQ))
    BY <1>4, SendEffect DEF OrderSends
  <2>3. AllAwaited(sendQ') /\ (Head(sendQ) # Login => Awaited(Head(sendQ))) /\ Head(sendQ) \in Nat
    BY <1>0, <2>1, AwaitedTail, TailFacts DEF OnTheWay
  <2>4. AllAwaited(toNic')
    BY <1>0, <2>2, <2>3, AwaitedAppend DEF OnTheWay
  <2>5. \A i \in DOMAIN sendQ' : sendQ'[i] # Login
    BY <1>0, <2>1, TailFacts DEF OnTheWay
  <2>6. QED
    BY <2>1, <2>3, <2>4, <2>5, AwaitedKept DEF OnTheWay
<1>5. ASSUME OrderReads PROVE OnTheWay'
  <2>1. /\ stream # <<>> /\ stream' = <<>> /\ pushing' = stream /\ order' = "Pushing"
        /\ UNCHANGED <<sendQ, ackQ, toNic, made, slots>>
    BY <1>5 DEF OrderReads, mainVars
  <2>2. AllAwaited(<<>>)
    BY DEF AllAwaited
  <2>3. QED
    BY <2>1, <2>2, AwaitedKept DEF OnTheWay
<1>6. ASSUME PushAck PROVE OnTheWay'
  <2>1. /\ pushing # <<>> /\ pushing' = Tail(pushing)
        /\ order' = IF Len(pushing) = 1 THEN "Loop" ELSE "Pushing"
        /\ UNCHANGED <<sendQ, stream, toNic, made, slots>>
    BY <1>6 DEF PushAck, linkVars, mainVars, OnTheWay
  <2>2. \/ ackQ' = ackQ
        \/ ackQ' = Append(ackQ, Head(pushing)) /\ Head(pushing) # Login
    BY <1>6 DEF PushAck
  <2>3. AllAwaited(pushing') /\ (Head(pushing) # Login => Awaited(Head(pushing)))
    BY <1>0, <2>1, AwaitedTail DEF OnTheWay
  <2>4. Head(pushing) \in Nat /\ Len(pushing') = Len(pushing) - 1 /\ Len(pushing) \in Nat
    BY <1>0, <2>1, TailFacts
  <2>5. AllAwaited(ackQ')
    BY <1>0, <2>2, <2>3, <2>4, AwaitedAppend DEF OnTheWay
  <2>6. \A i \in DOMAIN ackQ' : ackQ'[i] # Login
    <3>1. \A i \in DOMAIN ackQ : ackQ[i] # Login
      BY DEF OnTheWay
    <3>2. CASE ackQ' = Append(ackQ, Head(pushing)) /\ Head(pushing) # Login
      BY <1>0, <2>4, <3>1, <3>2, AppendFacts
    <3>3. QED
      BY <2>2, <3>1, <3>2
  <2>7. order' = "Pushing" => pushing' # <<>>
    <3>1. pushing' = <<>> => Len(pushing') = 0
      OBVIOUS
    <3>2. QED
      BY <2>1, <2>4, <3>1
  <2>8. QED
    BY <2>1, <2>3, <2>5, <2>6, <2>7, AwaitedKept DEF OnTheWay
<1>7. ASSUME NEW stamped \in BOOLEAN, NicTransmits(stamped) PROVE OnTheWay'
  <2>1. /\ toNic # <<>> /\ toNic' = Tail(toNic)
        /\ UNCHANGED <<order, sendQ, ackQ, pushing, made, slots>>
    BY <1>7 DEF NicTransmits, mainVars
  <2>2. stream' = stream \/ stream' = Append(stream, Head(toNic))
    BY <1>7 DEF NicTransmits
  <2>3. AllAwaited(toNic') /\ (Head(toNic) # Login => Awaited(Head(toNic))) /\ Head(toNic) \in Nat
    BY <1>0, <2>1, AwaitedTail, TailFacts DEF OnTheWay
  <2>4. AllAwaited(stream')
    BY <1>0, <2>2, <2>3, AwaitedAppend DEF OnTheWay
  <2>5. order' \notin {"Connecting", "WaitGo"}
    BY <2>1 DEF OnTheWay
  <2>6. QED
    BY <2>1, <2>3, <2>4, <2>5, AwaitedKept DEF OnTheWay
<1>8. ASSUME OrderDrains PROVE OnTheWay'
  <2>1. order' = "Loop" /\ UNCHANGED <<sendQ, ackQ, pushing, toNic, stream, made, slots>>
    BY <1>8 DEF OrderDrains, Idle, mainVars
  <2>2. QED
    BY <2>1, AwaitedKept DEF OnTheWay
<1>9. ASSUME MainPacket \/ PacketArrives PROVE OnTheWay'
  <2>1. UNCHANGED <<order, sendQ, ackQ, pushing, toNic, stream, made, slots, txRefs>>
    BY <1>9 DEF MainPacket, PacketArrives, linkVars, stampVars
  <2>2. QED
    BY <2>1, AwaitedKept DEF OnTheWay
<1>10. ASSUME Quiet PROVE OnTheWay'
  <2>1. UNCHANGED <<sendQ, ackQ, pushing, toNic, stream, made, slots, txRefs>>
    BY <1>10 DEF Quiet
  <2>2. order' = order \/ order' = "Exited" \/ (order = "Connecting" /\ order' = "WaitGo")
    BY <1>10 DEF Quiet
  <2>3. QED
    BY <2>1, <2>2, AwaitedKept DEF OnTheWay
<1>11. QED
  BY <1>1, <1>2, <1>3, <1>4, <1>5, <1>6, <1>7, <1>8, <1>9, <1>10, Frames

\* The fields of the requests made.
LEMMA MadeTypes ==
  ASSUME ThreadTypes
  PROVE  /\ Len(made) \in Nat /\ DOMAIN made = 1 .. Len(made)
         /\ \A i \in DOMAIN made :
              /\ i \in Nat /\ made[i] \in Request
              /\ made[i].slot \in Slots /\ made[i].ref \in Nat /\ made[i].ref # NoRef
              /\ made[i].timed \in BOOLEAN /\ made[i].rx \in Nat
<1>1. made \in Seq(Request)
  BY DEF ThreadTypes
<1>2. Len(made) \in Nat /\ DOMAIN made = 1 .. Len(made)
  BY <1>1
<1>3. \A i \in DOMAIN made : made[i] \in Request
  BY <1>1
<1>4. QED
  BY <1>2, <1>3 DEF Request, NoRef

-----------------------------------------------------------------------------
(***************************************************************************)
(* The receive stamps.                                                     *)
(***************************************************************************)

\* quote stamps the request with the packet's stamp, and times the first that
\* is queued only.
LEMMA QuoteStamps ==
  ASSUME ThreadTypes, Refs, Stamps, NEW s \in Slots, Quote(s)
  PROVE  Stamps'
<1> DEFINE n == Len(made) + 1
<1>1. PICK r \in Request :
        /\ Grown(r) /\ r.rx = cur.rx /\ r.timed = ~cur.sent
        /\ \/ cur' = [cur EXCEPT !.sent = TRUE] /\ lost' = lost
           \/ cur' = cur /\ lost' = lost \cup {n}
  <2>1. PICK r \in Request :
          /\ Grown(r) /\ r.rx = cur.rx /\ r.timed = ~cur.sent
          /\ \/ sendQ' = Append(sendQ, n) /\ cur' = [cur EXCEPT !.sent = TRUE] /\ lost' = lost
             \/ sendQ' = sendQ /\ cur' = cur /\ lost' = lost \cup {n}
    BY QuoteEffect
  <2>2. QED
    BY <2>1
<1>2. cur # NoPacket /\ mdQ' = mdQ /\ clock' = clock
  BY DEF Quote, linkVars
<1>3. cur \in [rx : Nat, sent : BOOLEAN] /\ clock \in Nat /\ mdQ \in Seq(Nat)
  BY DEF ThreadTypes
<1>4. \A i \in DOMAIN made : made[i] \in Request /\ made[i].rx \in Nat
  BY MadeTypes
<1>5. /\ n \in Nat /\ n \notin DOMAIN made /\ n \in DOMAIN made' /\ made'[n] = r
      /\ \A i \in DOMAIN made : i \in Nat /\ i < n /\ i \in DOMAIN made' /\ made'[i] = made[i]
      /\ \A i \in DOMAIN made' : i \in DOMAIN made \/ i = n
  BY <1>1 DEF Grown
<1>6. cur'.rx = cur.rx
  BY <1>1, <1>3
<1>7. \A i \in DOMAIN made : i \notin lost' => i \notin lost
  BY <1>1
<1>8. (cur'.sent /\ ~cur.sent) \/ n \in lost' \/ cur.sent
  BY <1>1, <1>3
<1>9. ~cur'.sent => ~cur.sent
  BY <1>1, <1>3
<1>10. \A i \in DOMAIN made : made[i].timed /\ i \notin lost =>
         made[i].rx <= cur.rx /\ (~cur.sent => made[i].rx < cur.rx)
  BY <1>2 DEF Stamps
<1>11. (/\ Increasing(mdQ) /\ clock > 0
        /\ \A j \in DOMAIN mdQ : cur.rx < mdQ[j] /\ mdQ[j] < clock
        /\ cur.rx < clock)'
  BY <1>2, <1>6 DEF Stamps, Increasing
<1>12. (/\ \A i \in DOMAIN made : made[i].rx < clock
        /\ \A i \in DOMAIN made, j \in DOMAIN mdQ : made[i].rx < mdQ[j])'
  BY <1>1, <1>2, <1>5 DEF Stamps
<1>13. \A i \in DOMAIN made' : made'[i].timed /\ i \notin lost' =>
         made'[i].rx <= cur'.rx /\ (~cur'.sent => made'[i].rx < cur'.rx)
  <2> SUFFICES ASSUME NEW i \in DOMAIN made', made'[i].timed, i \notin lost'
               PROVE  made'[i].rx <= cur'.rx /\ (~cur'.sent => made'[i].rx < cur'.rx)
    OBVIOUS
  <2>1. CASE i \in DOMAIN made
    BY <1>5, <1>6, <1>7, <1>9, <1>10, <2>1
  <2>2. CASE i = n
    BY <1>1, <1>3, <1>5, <1>6, <1>8, <2>2
  <2>3. QED
    BY <1>5, <2>1, <2>2
<1>14. \A i, j \in DOMAIN made' :
         i < j /\ made'[i].timed /\ made'[j].timed /\ i \notin lost' => made'[i].rx < made'[j].rx
  <2> SUFFICES ASSUME NEW i \in DOMAIN made', NEW j \in DOMAIN made',
                      i < j, made'[i].timed, made'[j].timed, i \notin lost'
               PROVE  made'[i].rx < made'[j].rx
    OBVIOUS
  <2>1. i \in DOMAIN made
    BY <1>5
  <2>2. CASE j \in DOMAIN made
    BY <1>5, <1>7, <2>1, <2>2 DEF Stamps
  <2>3. CASE j = n
    BY <1>1, <1>5, <1>7, <1>10, <2>1, <2>3
  <2>4. QED
    BY <1>5, <2>2, <2>3
<1>15. QED
  BY <1>11, <1>12, <1>13, <1>14 DEF Stamps

\* A step keeps the stamps in order.
LEMMA StampsKept ==
  ASSUME ThreadTypes, Refs, Stamps, [Next]_vars
  PROVE  Stamps'
<1>0. /\ cur \in [rx : Nat, sent : BOOLEAN] /\ clock \in Nat /\ mdQ \in Seq(Nat)
      /\ \A i \in DOMAIN made : made[i] \in Request /\ made[i].rx \in Nat
      /\ \A j \in DOMAIN mdQ : mdQ[j] \in Nat
  <2>1. cur \in [rx : Nat, sent : BOOLEAN] /\ clock \in Nat /\ mdQ \in Seq(Nat)
    BY DEF ThreadTypes
  <2>2. QED
    BY <2>1, MadeTypes
<1>1. ASSUME NEW s \in Slots, Quote(s) PROVE Stamps'
  BY <1>1, QuoteStamps
<1>2. ASSUME MainPacket PROVE Stamps'
  <2>1. /\ mdQ # <<>> /\ mdQ' = Tail(mdQ) /\ UNCHANGED <<made, clock, lost>>
        /\ cur' = [rx |-> Head(mdQ), sent |-> FALSE]
    BY <1>2 DEF MainPacket, linkVars
  <2>2. /\ 1 \in DOMAIN mdQ /\ Head(mdQ) = mdQ[1] /\ Head(mdQ) \in Nat
        /\ \A j \in DOMAIN mdQ' : j + 1 \in DOMAIN mdQ /\ mdQ'[j] = mdQ[j + 1]
    BY <1>0, <2>1, TailFacts
  <2>3. Increasing(mdQ') /\ \A j \in DOMAIN mdQ' : Head(mdQ) < mdQ'[j]
    BY <1>0, <2>1, TailIncreasing DEF Stamps
  <2>4. cur'.rx = Head(mdQ)
    BY <2>1
  <2>5. \A i \in DOMAIN made : made[i].rx < cur'.rx
    BY <2>2, <2>4 DEF Stamps
  <2>6. \A i \in DOMAIN made : made[i].timed /\ i \notin lost =>
          made[i].rx <= cur'.rx /\ (~cur'.sent => made[i].rx < cur'.rx)
    BY <1>0, <2>2, <2>4, <2>5
  <2>7. QED
    BY <2>1, <2>2, <2>3, <2>4, <2>6 DEF Stamps
<1>3. ASSUME MainAck PROVE Stamps'
  <2>1. UNCHANGED <<made, clock, lost, mdQ>> /\ cur' = NoPacket
    BY <1>3 DEF MainAck, linkVars
  <2>2. cur'.rx = 0
    BY <2>1 DEF NoPacket
  <2>3. \A j \in DOMAIN mdQ : 0 < mdQ[j]
    BY <1>0 DEF Stamps
  <2>4. QED
    BY <1>0, <2>1, <2>2, <2>3 DEF Stamps
<1>4. ASSUME PacketArrives PROVE Stamps'
  <2>1. mdQ' = Append(mdQ, clock) /\ clock' = clock + 1 /\ UNCHANGED <<made, cur, lost>>
    BY <1>4 DEF PacketArrives
  <2>2. \A j \in DOMAIN mdQ : mdQ[j] < clock
    BY DEF Stamps
  <2>3. Increasing(mdQ')
    BY <1>0, <2>1, <2>2, AppendIncreasing DEF Stamps
  <2>4. \A j \in DOMAIN mdQ' : mdQ'[j] = clock \/ (j \in DOMAIN mdQ /\ mdQ'[j] = mdQ[j])
    BY <1>0, <2>1, AppendFacts
  <2>5. \A j \in DOMAIN mdQ' : cur.rx < mdQ'[j] /\ mdQ'[j] < clock + 1
    BY <1>0, <2>4 DEF Stamps
  <2>6. \A i \in DOMAIN made : made[i].rx < clock + 1
    BY <1>0 DEF Stamps
  <2>7. \A i \in DOMAIN made, j \in DOMAIN mdQ' : made[i].rx < mdQ'[j]
    BY <2>4 DEF Stamps
  <2>8. clock + 1 > 0 /\ cur.rx < clock + 1
    BY <1>0 DEF Stamps
  <2>9. QED
    BY <2>1, <2>3, <2>5, <2>6, <2>7, <2>8 DEF Stamps
<1>5. ASSUME NEW stamped \in BOOLEAN, NicTransmits(stamped) PROVE Stamps'
  <2>1. clock' = clock + 1 /\ UNCHANGED <<made, cur, lost, mdQ>>
    BY <1>5 DEF NicTransmits, mainVars
  <2>2. /\ \A j \in DOMAIN mdQ : mdQ[j] < clock + 1
        /\ \A i \in DOMAIN made : made[i].rx < clock + 1
        /\ clock + 1 > 0 /\ cur.rx < clock + 1
    BY <1>0 DEF Stamps
  <2>3. QED
    BY <2>1, <2>2 DEF Stamps
<1>6. ASSUME lost \subseteq lost', UNCHANGED <<made, cur, clock, mdQ>> PROVE Stamps'
  BY <1>6 DEF Stamps
<1>7. OrderLogsIn \/ OrderSends => lost \subseteq lost' /\ UNCHANGED <<made, cur, clock, mdQ>>
  BY SendEffect DEF OrderLogsIn, OrderSends, mainVars
<1>8. OrderDrains \/ OrderReads \/ PushAck \/ Quiet
        => lost \subseteq lost' /\ UNCHANGED <<made, cur, clock, mdQ>>
  BY DEF OrderDrains, OrderReads, PushAck, Quiet, mainVars, linkVars
<1>9. QED
  BY <1>1, <1>2, <1>3, <1>4, <1>5, <1>6, <1>7, <1>8, Frames

-----------------------------------------------------------------------------
(***************************************************************************)
(* The ring of references, the in-flight table and the samples.            *)
(***************************************************************************)

\* q is the rest of r from some place on.
Suffix(q, r) ==
  /\ q \in Seq(TxRef)
  /\ \E d \in Nat : \A i \in DOMAIN q : i \in Nat /\ i + d \in DOMAIN r /\ q[i] = r[i + d]

\* The fields of the references.
LEMMA RefTypes ==
  ASSUME NEW t \in Seq(TxRef)
  PROVE  \A i \in DOMAIN t : t[i].key \in Nat /\ t[i].ref \in Nat
<1>1. \A i \in DOMAIN t : t[i] \in TxRef
  OBVIOUS
<1>2. QED
  BY <1>1 DEF TxRef

\* Dropping references from the front keeps the ring.
LEMMA SuffixKeepsRing ==
  ASSUME NEW q, NEW r \in Seq(TxRef), Suffix(q, r)
  PROVE  /\ RingOf(r) => RingOf(q)
         /\ \A n : (\A i \in DOMAIN r : n < r[i].key) => \A i \in DOMAIN q : n < q[i].key
<1>1. PICK d \in Nat : \A i \in DOMAIN q : i \in Nat /\ i + d \in DOMAIN r /\ q[i] = r[i + d]
  BY DEF Suffix
<1>2. \A i, j \in DOMAIN q : i < j => i + d < j + d
  BY <1>1
<1>3. QED
  BY <1>1, <1>2 DEF RingOf

\* A ring loses its oldest reference, or none.
LEMMA TailIsSuffix ==
  ASSUME NEW r \in Seq(TxRef)
  PROVE  Suffix(r, r) /\ (r # <<>> => Suffix(Tail(r), r))
<1>1. \A i \in DOMAIN r : i \in Nat /\ i + 0 = i
  OBVIOUS
<1>2. Suffix(r, r)
  BY <1>1 DEF Suffix
<1>3. ASSUME r # <<>> PROVE Suffix(Tail(r), r)
  BY <1>3, TailFacts DEF Suffix
<1>4. QED
  BY <1>2, <1>3

\* orderCompleteTx leaves a rest of the ring.
LEMMA UnreadIsSuffix ==
  ASSUME ThreadTypes, NEW key \in Nat
  PROVE  Suffix(Unread(key), txRefs)
<1> DEFINE c == Cardinality(Skipped(key))
<1>1. txRefs \in Seq(TxRef) /\ Len(txRefs) \in Nat
  BY DEF ThreadTypes
<1>2. c \in Nat /\ c <= Len(txRefs)
  <2>1. IsFiniteSet(1 .. Len(txRefs)) /\ Cardinality(1 .. Len(txRefs)) = IF 1 > Len(txRefs) THEN 0 ELSE Len(txRefs) - 1 + 1
    BY <1>1, FS_Interval
  <2>2. Skipped(key) \subseteq 1 .. Len(txRefs)
    BY <1>1 DEF Skipped
  <2>3. c \in Nat /\ c <= Cardinality(1 .. Len(txRefs))
    BY <2>1, <2>2, FS_Subset, FS_CardinalityType
  <2>4. QED
    BY <1>1, <2>1, <2>3
<1> HIDE DEF c
<1>3. Unread(key) = SubSeq(txRefs, c + 1, Len(txRefs))
  BY DEF Unread, c
<1>4. /\ Unread(key) \in Seq(TxRef)
      /\ Len(Unread(key)) = Len(txRefs) - c
      /\ \A i \in 1 .. Len(txRefs) - c : Unread(key)[i] = txRefs[c + i]
  <2>1. c + 1 \in 1 .. Len(txRefs) + 1 /\ Len(txRefs) \in c .. Len(txRefs)
    BY <1>1, <1>2
  <2>2. QED
    BY <1>1, <1>2, <1>3, <2>1, SubSeqProperties
<1>5. \A i \in DOMAIN Unread(key) : i \in Nat /\ i + c \in DOMAIN txRefs /\ Unread(key)[i] = txRefs[i + c]
  BY <1>1, <1>2, <1>4
<1>6. QED
  BY <1>2, <1>4, <1>5 DEF Suffix

\* quote adds a request that the ring does not know yet.
LEMMA QuoteRing ==
  ASSUME ThreadTypes, OnTheWay, Refs, Ring, NEW s \in Slots, Quote(s)
  PROVE  Ring'
<1> DEFINE n == Len(made) + 1
<1>1. PICK r \in Request :
        /\ Grown(r)
        /\ \/ sendQ' = Append(sendQ, n) /\ lost' = lost
           \/ sendQ' = sendQ /\ lost' = lost \cup {n}
  <2>1. PICK r \in Request :
          /\ Grown(r)
          /\ \/ sendQ' = Append(sendQ, n) /\ cur' = [cur EXCEPT !.sent = TRUE] /\ lost' = lost
             \/ sendQ' = sendQ /\ cur' = cur /\ lost' = lost \cup {n}
    BY QuoteEffect
  <2>2. QED
    BY <2>1
<1>2. UNCHANGED <<txRefs, inflight>>
  BY DEF Quote, stampVars
<1>3. /\ Len(made) \in Nat /\ Len(made') = n /\ n \in Nat
      /\ \A i \in DOMAIN made : i \in Nat /\ i < n /\ i \in DOMAIN made' /\ made'[i] = made[i]
  BY <1>1 DEF Grown
<1>4. /\ sendQ \in Seq(Nat) /\ lost \in SUBSET Nat
      /\ txRefs \in Seq(TxRef)
  BY DEF ThreadTypes
<1>5. \A i \in DOMAIN txRefs : txRefs[i].key \in Nat /\ txRefs[i].key < n
  <2>1. \A i \in DOMAIN txRefs : txRefs[i].key \in Nat
    BY <1>4, RefTypes
  <2>2. QED
    BY <1>3, <2>1 DEF Ring, RingOf
<1>6. \A m \in lost : m < n
  BY <1>3, <1>4 DEF Ring, Losses
<1>7. \A j \in DOMAIN sendQ : sendQ[j] \in 0 .. Len(made)
  BY AwaitedIsMade DEF OnTheWay
<1>8. \A j \in DOMAIN sendQ' : sendQ'[j] = n \/ (j \in DOMAIN sendQ /\ sendQ'[j] = sendQ[j])
  BY <1>1, <1>3, <1>4, AppendFacts
<1>9. \A m \in DOMAIN made : m \notin lost => m \notin lost'
  BY <1>1, <1>3
<1>10. Losses'
  <2>1. \A m \in lost' : m <= n
    <3>1. \A m \in lost' : m \in lost \/ m = n
      BY <1>1
    <3>2. \A m \in lost : m \in Nat /\ m < n
      BY <1>4, <1>6
    <3> HIDE DEF n
    <3>3. QED
      BY <1>3, <3>1, <3>2
  <2>2. CASE sendQ' = Append(sendQ, n) /\ lost' = lost
    <3>1. n \notin lost
      BY <1>3, <1>4, <1>6
    <3>2. QED
      BY <1>3, <1>8, <2>1, <2>2, <3>1 DEF Losses, Ring
  <2>3. CASE sendQ' = sendQ /\ lost' = lost \cup {n}
    BY <1>3, <1>7, <2>1, <2>3 DEF Losses, Ring
  <2>4. QED
    BY <1>1, <2>2, <2>3
<1>11. RingOf(txRefs)'
  <2>1. \A i \in DOMAIN txRefs : \A j \in DOMAIN sendQ' : txRefs[i].key < sendQ'[j]
    BY <1>5, <1>8 DEF Ring, RingOf
  <2>2. \A i \in DOMAIN txRefs : txRefs[i].key <= n
    BY <1>3, <1>5
  <2>3. \A i \in DOMAIN txRefs : txRefs[i].ref # NoRef =>
          /\ txRefs[i].key \in DOMAIN made' /\ txRefs[i].key \notin lost'
          /\ made'[txRefs[i].key].timed /\ made'[txRefs[i].key].ref = txRefs[i].ref
    BY <1>3, <1>9 DEF Ring, RingOf, TimedSent
  <2>4. QED
    BY <1>2, <1>3, <2>1, <2>2, <2>3 DEF Ring, RingOf, TimedSent
<1>12. Entries'
  BY <1>2, <1>3 DEF Ring, Entries
<1>13. QED
  BY <1>10, <1>11, <1>12 DEF Ring

\* The in-flight entry of a reference exists.
LEMMA InFlightSlot ==
  ASSUME NEW ref \in Nat
  PROVE  ref % InFlightSize \in 0 .. InFlightSize - 1
BY ThreadAssumption

\* orderSend adds the reference of request n, the next in sendQ, to a ring that
\* may have lost its oldest.
LEMMA SendRing ==
  ASSUME ThreadTypes, OnTheWay, InOrder, Losses, Entries, NEW t \in Seq(TxRef), RingOf(t),
         sendQ # <<>>, sendQ' = Tail(sendQ), UNCHANGED <<made, lost>>,
         NEW ref, ref = IF made[Head(sendQ)].timed THEN made[Head(sendQ)].ref ELSE NoRef,
         txRefs' = Append(t, [key |-> Head(sendQ), ref |-> ref]),
         inflight' = IF ref = NoRef THEN inflight
                     ELSE [inflight EXCEPT ![ref % InFlightSize] =
                             [ref |-> ref, rx |-> made[Head(sendQ)].rx, request |-> Head(sendQ)]]
  PROVE  Ring'
<1> DEFINE n == Head(sendQ)
           e == [key |-> n, ref |-> ref]
<1>1. sendQ \in Seq(Nat)
  BY DEF ThreadTypes
<1>2. /\ 1 \in DOMAIN sendQ /\ n = sendQ[1] /\ n \in Nat
      /\ \A j \in DOMAIN sendQ' : j + 1 \in DOMAIN sendQ /\ sendQ'[j] = sendQ[j + 1]
  BY <1>1, TailFacts
<1>3. n \in DOMAIN made /\ n \notin lost
  BY <1>2 DEF OnTheWay, AllAwaited, Awaited, Losses
<1>4. /\ made[n].ref \in Nat /\ made[n].ref # NoRef /\ made[n].timed \in BOOLEAN
      /\ n <= Len(made)
  BY <1>3, MadeTypes
<1>5. ref \in Nat /\ (ref # NoRef => made[n].timed /\ made[n].ref = ref)
  BY <1>4 DEF NoRef
<1>6. \A j \in DOMAIN sendQ' : n < sendQ'[j]
  BY <1>1, TailIncreasing DEF InOrder
<1>7. e \in TxRef
  BY <1>2, <1>5 DEF TxRef
<1>8. /\ DOMAIN t = 1 .. Len(t) /\ Len(t) \in Nat
      /\ txRefs'[Len(t) + 1] = e
      /\ \A i \in DOMAIN t : txRefs'[i] = t[i]
      /\ \A i \in DOMAIN txRefs' : i \in DOMAIN t \/ i = Len(t) + 1
  <2> HIDE DEF e
  <2>1. txRefs' = Append(t, e)
    BY DEF e
  <2>2. QED
    BY <1>7, <2>1, AppendFacts
<1>9. \A i \in DOMAIN t : t[i].key \in Nat /\ t[i].ref \in Nat /\ t[i].key < n
  <2>1. \A i \in DOMAIN t : t[i].key < n
    BY <1>2 DEF RingOf
  <2>2. QED
    BY <2>1, RefTypes
<1>10. inflight \in [0 .. InFlightSize - 1 -> [ref : Nat, rx : Nat, request : Nat]]
  BY DEF ThreadTypes
<1>11. /\ \A k \in DOMAIN inflight : inflight'[k] = inflight[k] \/ (ref # NoRef /\ inflight'[k] = [ref |-> ref, rx |-> made[n].rx, request |-> n])
       /\ ref # NoRef => inflight'[ref % InFlightSize] = [ref |-> ref, rx |-> made[n].rx, request |-> n]
       /\ DOMAIN inflight' = DOMAIN inflight
  BY <1>5, <1>10, InFlightSlot
<1>12. Losses'
  BY <1>2 DEF Losses
<1>13. Entries'
  BY <1>3, <1>5, <1>11 DEF Entries
<1>14. RingOf(txRefs)'
  <2>1. \A i, j \in DOMAIN txRefs' : i < j => txRefs'[i].key < txRefs'[j].key
    <3> SUFFICES ASSUME NEW i \in DOMAIN txRefs', NEW j \in DOMAIN txRefs', i < j
                 PROVE  txRefs'[i].key < txRefs'[j].key
      OBVIOUS
    <3>1. i \in DOMAIN t
      BY <1>8
    <3>2. CASE j \in DOMAIN t
      BY <1>8, <3>1, <3>2 DEF RingOf
    <3>3. CASE j = Len(t) + 1
      BY <1>8, <1>9, <3>1, <3>3
    <3>4. QED
      BY <1>8, <3>2, <3>3
  <2>2. \A i \in DOMAIN txRefs' : \A j \in DOMAIN sendQ' : txRefs'[i].key < sendQ'[j]
    BY <1>2, <1>6, <1>8 DEF RingOf
  <2>3. \A i \in DOMAIN txRefs' : txRefs'[i].key <= Len(made')
    BY <1>4, <1>8 DEF RingOf
  <2>4. ASSUME NEW i \in DOMAIN txRefs', txRefs'[i].ref # NoRef
        PROVE  /\ txRefs'[i].key \in DOMAIN made' /\ txRefs'[i].key \notin lost'
               /\ made'[txRefs'[i].key].timed /\ made'[txRefs'[i].key].ref = txRefs'[i].ref
               /\ inflight'[txRefs'[i].ref % InFlightSize].ref = txRefs'[i].ref =>
                    inflight'[txRefs'[i].ref % InFlightSize].request >= txRefs'[i].key
    <3>1. CASE i = Len(t) + 1
      BY <1>2, <1>3, <1>5, <1>8, <1>11, <2>4, <3>1 DEF TimedSent
    <3>2. CASE i \in DOMAIN t
      <4>1. t[i].ref % InFlightSize \in DOMAIN inflight
        BY <1>9, <1>10, <3>2, InFlightSlot
      <4>2. txRefs'[i] = t[i]
        BY <1>8, <3>2
      <4>3. /\ TimedSent(t[i].key) /\ made[t[i].key].ref = t[i].ref
            /\ inflight[t[i].ref % InFlightSize].ref = t[i].ref =>
                 inflight[t[i].ref % InFlightSize].request >= t[i].key
        BY <2>4, <3>2, <4>2 DEF RingOf
      <4>4. inflight'[t[i].ref % InFlightSize] = inflight[t[i].ref % InFlightSize]
              \/ inflight'[t[i].ref % InFlightSize].request = n
        BY <1>11, <4>1
      <4>5. QED
        BY <1>2, <1>9, <3>2, <4>2, <4>3, <4>4 DEF TimedSent
    <3>3. QED
      BY <1>8, <3>1, <3>2
  <2>5. \A i \in DOMAIN txRefs' : txRefs'[i].ref # NoRef =>
          /\ TimedSent(txRefs[i].key)' /\ made'[txRefs'[i].key].ref = txRefs'[i].ref
          /\ inflight'[txRefs'[i].ref % InFlightSize].ref = txRefs'[i].ref =>
               inflight'[txRefs'[i].ref % InFlightSize].request >= txRefs'[i].key
    <3> SUFFICES ASSUME NEW i \in DOMAIN txRefs', txRefs'[i].ref # NoRef
                 PROVE  /\ TimedSent(txRefs[i].key)' /\ made'[txRefs'[i].key].ref = txRefs'[i].ref
                        /\ inflight'[txRefs'[i].ref % InFlightSize].ref = txRefs'[i].ref =>
                             inflight'[txRefs'[i].ref % InFlightSize].request >= txRefs'[i].key
      OBVIOUS
    <3>1. TimedSent(txRefs[i].key)' /\ made'[txRefs'[i].key].ref = txRefs'[i].ref
      BY <2>4 DEF TimedSent
    <3>2. inflight'[txRefs'[i].ref % InFlightSize].ref = txRefs'[i].ref =>
             inflight'[txRefs'[i].ref % InFlightSize].request >= txRefs'[i].key
      BY <2>4
    <3>3. QED
      BY <3>1, <3>2
  <2>6. QED
    BY <2>1, <2>2, <2>3, <2>5 DEF RingOf
<1>15. QED
  BY <1>12, <1>13, <1>14 DEF Ring

\* A failed send keeps the ring: the request is later than all in it.
LEMMA FailedSendRing ==
  ASSUME ThreadTypes, InOrder, OnTheWay, Ring, sendQ # <<>>, sendQ' = Tail(sendQ),
         lost' = lost \cup {Head(sendQ)}, UNCHANGED <<made, txRefs, inflight>>
  PROVE  Ring'
<1> DEFINE n == Head(sendQ)
<1>1. sendQ \in Seq(Nat) /\ txRefs \in Seq(TxRef) /\ lost \in SUBSET Nat
  BY DEF ThreadTypes
<1>2. /\ 1 \in DOMAIN sendQ /\ n = sendQ[1] /\ n \in Nat
      /\ \A j \in DOMAIN sendQ' : j + 1 \in DOMAIN sendQ /\ sendQ'[j] = sendQ[j + 1]
  BY <1>1, TailFacts
<1>3. \A j \in DOMAIN sendQ' : n < sendQ'[j]
  BY <1>1, TailIncreasing DEF InOrder
<1>4. n \in 0 .. Len(made)
  BY <1>2, AwaitedIsMade DEF OnTheWay
<1>5. \A i \in DOMAIN txRefs : txRefs[i].key \in Nat /\ txRefs[i].key < n
  <2>1. \A i \in DOMAIN txRefs : txRefs[i].key < n
    BY <1>2 DEF Ring, RingOf
  <2>2. QED
    BY <1>1, <2>1, RefTypes
<1>6. Losses'
  <2>1. \A m \in lost' : m \in lost \/ m = n
    OBVIOUS
  <2>2. \A m \in lost' : m <= Len(made')
    BY <1>4, <2>1 DEF Ring, Losses
  <2>3. \A j \in DOMAIN sendQ' : sendQ'[j] \notin lost'
    BY <1>2, <1>3, <2>1 DEF Ring, Losses
  <2>4. QED
    BY <2>2, <2>3 DEF Losses
<1>7. RingOf(txRefs)'
  <2>1. \A i \in DOMAIN txRefs : \A j \in DOMAIN sendQ' : txRefs[i].key < sendQ'[j]
    BY <1>2 DEF Ring, RingOf
  <2>2. \A i \in DOMAIN txRefs : TimedSent(txRefs[i].key) => txRefs[i].key \notin lost'
    BY <1>2, <1>5 DEF TimedSent
  <2>3. QED
    BY <2>1, <2>2 DEF Ring, RingOf, TimedSent
<1>8. QED
  BY <1>6, <1>7 DEF Ring, Entries

\* The login's reference starts the ring.
LEMMA LoginRing ==
  ASSUME ThreadTypes, OnTheWay, Ring, OrderLogsIn
  PROVE  Ring'
<1>1. txRefs = <<>> /\ UNCHANGED <<made, sendQ>>
  BY DEF OnTheWay, OrderLogsIn, mainVars
<1>2. \/ lost' = lost \cup {Login} /\ txRefs' = txRefs /\ inflight' = inflight
      \/ /\ lost' = lost /\ inflight' = inflight
         /\ txRefs' = Append(txRefs, [key |-> Login, ref |-> NoRef])
  <2>1. Len(txRefs) # TxRefs
    BY <1>1, ThreadAssumption
  <2>2. OrderSend(Login, NoRef, 0)
    BY DEF OrderLogsIn
  <2>3. QED
    BY <2>1, <2>2 DEF OrderSend
<1>3. sendQ \in Seq(Nat) /\ Len(made) \in Nat /\ \A i \in DOMAIN made : i # Login
  <2>1. sendQ \in Seq(Nat)
    BY DEF ThreadTypes
  <2>2. QED
    BY <2>1, MadeTypes DEF Login
<1>4. \A j \in DOMAIN sendQ : Login < sendQ[j] /\ sendQ[j] # Login
  BY <1>3 DEF OnTheWay, Login
<1>5. Login <= Len(made)
  BY <1>3 DEF Login
<1>6. Losses'
  <2>1. \A m \in lost' : m \in lost \/ m = Login
    BY <1>2
  <2>2. QED
    BY <1>1, <1>4, <1>5, <2>1 DEF Ring, Losses
<1>7. Entries'
  BY <1>1, <1>2 DEF Ring, Entries
<1>8. RingOf(txRefs)'
  <2>1. CASE txRefs' = txRefs
    <3>1. DOMAIN txRefs' = {}
      BY <1>1, <2>1
    <3>2. QED
      BY <3>1 DEF RingOf
  <2>2. CASE txRefs' = Append(txRefs, [key |-> Login, ref |-> NoRef])
    <3>1. txRefs' = <<[key |-> Login, ref |-> NoRef]>>
      BY <1>1, <2>2
    <3>2. \A i \in DOMAIN txRefs' : i = 1 /\ txRefs'[i].key = Login /\ txRefs'[i].ref = NoRef
      BY <3>1
    <3>3. QED
      BY <1>1, <1>4, <1>5, <3>2 DEF RingOf
  <2>3. QED
    BY <1>2, <2>1, <2>2
<1>9. QED
  BY <1>6, <1>7, <1>8 DEF Ring

\* What a stamp leaves of the ring.
LEMMA DrainSuffix ==
  ASSUME ThreadTypes, OrderDrains
  PROVE  /\ Suffix(txRefs', txRefs) /\ UNCHANGED <<made, lost, sendQ, inflight>>
         /\ UNCHANGED paired \/ \E d \in DOMAIN txRefs :
              LET ref == txRefs[d].ref
                  slot == inflight[ref % InFlightSize]
              IN /\ ref # NoRef /\ slot.ref = ref /\ Head(errQ).tx > slot.rx
                 /\ paired' = paired \cup {[sent |-> txRefs[d].key, from |-> slot.request,
                                            tx |-> Head(errQ).tx]}
                 /\ \A i \in DOMAIN txRefs' : \E j \in DOMAIN txRefs : d < j /\ txRefs'[i] = txRefs[j]
<1> DEFINE key == Head(errQ).key
           rest == Unread(key)
           ref == Head(rest).ref
           slot == inflight[ref % InFlightSize]
<1>1. txRefs \in Seq(TxRef) /\ errQ \in Seq([key : Nat, tx : Nat]) /\ errQ # <<>>
  BY DEF ThreadTypes, OrderDrains
<1>2. key \in Nat /\ Head(errQ).tx \in Nat
  <2>1. Head(errQ) \in [key : Nat, tx : Nat]
    BY <1>1, TailFacts
  <2>2. QED
    BY <2>1
<1>3. Suffix(rest, txRefs)
  BY <1>2, UnreadIsSuffix
<1> HIDE DEF rest, key
<1>4. PICK d \in Nat : \A i \in DOMAIN rest : i \in Nat /\ i + d \in DOMAIN txRefs /\ rest[i] = txRefs[i + d]
  BY <1>3 DEF Suffix
<1>5. rest \in Seq(TxRef)
  BY <1>3 DEF Suffix
<1>6. UNCHANGED <<made, lost, sendQ, inflight>>
  BY DEF OrderDrains, mainVars
<1>7. txRefs' = IF Matches(rest, key) THEN Tail(rest) ELSE rest
  BY DEF OrderDrains, key, rest
<1>8. CASE ~Matches(rest, key)
  <2>1. paired' = paired
    BY <1>8 DEF OrderDrains, key, rest
  <2>2. QED
    BY <1>3, <1>6, <1>7, <1>8, <2>1
<1>9. CASE Matches(rest, key)
  <2>1. rest # <<>> /\ Head(rest).key = key
    BY <1>9 DEF Matches
  <2>2. /\ 1 \in DOMAIN rest /\ Head(rest) = rest[1]
        /\ txRefs' = Tail(rest) /\ txRefs' \in Seq(TxRef)
        /\ \A i \in DOMAIN txRefs' : i \in Nat /\ i + 1 \in DOMAIN rest /\ txRefs'[i] = rest[i + 1]
    BY <1>5, <1>7, <1>9, <2>1, TailFacts
  <2>3. \A i \in DOMAIN txRefs' : i + (1 + d) \in DOMAIN txRefs /\ txRefs'[i] = txRefs[i + (1 + d)]
    <3> SUFFICES ASSUME NEW i \in DOMAIN txRefs'
                 PROVE  i + (1 + d) \in DOMAIN txRefs /\ txRefs'[i] = txRefs[i + (1 + d)]
      OBVIOUS
    <3>1. i \in Nat /\ (i + 1) + d = i + (1 + d)
      BY <2>2
    <3>2. (i + 1) + d \in DOMAIN txRefs /\ txRefs'[i] = txRefs[(i + 1) + d]
      BY <1>4, <2>2
    <3>3. QED
      BY <3>1, <3>2
  <2>4. Suffix(txRefs', txRefs)
    BY <2>2, <2>3 DEF Suffix
  <2>5. 1 + d \in DOMAIN txRefs /\ Head(rest) = txRefs[1 + d]
    BY <1>4, <2>2
  <2>6. \A i \in DOMAIN txRefs' : 1 + d < i + (1 + d)
    <3>1. \A i \in DOMAIN txRefs' : i \in Nat /\ i >= 1
      BY <2>2
    <3>2. QED
      BY <3>1
  <2>7. CASE ref # NoRef /\ slot.ref = ref /\ Head(errQ).tx > slot.rx
    <3>1. paired' = paired \cup {[sent |-> key, from |-> slot.request, tx |-> Head(errQ).tx]}
      BY <1>9, <2>7 DEF OrderDrains, key, rest
    <3>2. QED
      BY <1>6, <2>1, <2>3, <2>4, <2>5, <2>6, <2>7, <3>1
  <2>8. CASE ~ (ref # NoRef /\ slot.ref = ref /\ Head(errQ).tx > slot.rx)
    <3>1. paired' = paired
      BY <1>9, <2>8 DEF OrderDrains, key, rest
    <3>2. QED
      BY <1>6, <2>4, <3>1
  <2>9. QED
    BY <2>7, <2>8
<1>10. QED
  BY <1>8, <1>9

\* A step keeps the ring.
LEMMA RingKept ==
  ASSUME ThreadTypes, InOrder, OnTheWay, Refs, Ring, [Next]_vars
  PROVE  Ring'
<1>1. ASSUME NEW s \in Slots, Quote(s) PROVE Ring'
  BY <1>1, QuoteRing
<1>2. ASSUME OrderLogsIn PROVE Ring'
  BY <1>2, LoginRing
<1>3. ASSUME OrderSends PROVE Ring'
  <2> DEFINE n == Head(sendQ)
             ref == IF made[n].timed THEN made[n].ref ELSE NoRef
             e == [key |-> n, ref |-> ref]
  <2>1. sendQ # <<>> /\ sendQ' = Tail(sendQ) /\ made' = made /\ OrderSend(n, ref, made[n].rx)
    BY <1>3 DEF OrderSends, mainVars
  <2>2. txRefs \in Seq(TxRef)
    BY DEF ThreadTypes
  <2>3. CASE closed
    <3>1. lost' = lost \cup {n} /\ txRefs' = txRefs /\ inflight' = inflight
      BY <2>1, <2>3 DEF OrderSend
    <3>2. QED
      BY <2>1, <3>1, FailedSendRing
  <2>4. CASE ~closed
    <3>1. PICK t \in Seq(TxRef) : Suffix(t, txRefs) /\ txRefs' = Append(t, e)
      <4>1. CASE Len(txRefs) = TxRefs
        <5>1. txRefs # <<>>
          BY <4>1, ThreadAssumption
        <5>2. txRefs' = Append(Tail(txRefs), e)
          BY <2>1, <2>4, <4>1 DEF OrderSend
        <5>3. Tail(txRefs) \in Seq(TxRef) /\ Suffix(Tail(txRefs), txRefs)
          BY <2>2, <5>1, TailIsSuffix, TailFacts
        <5>4. QED
          BY <5>2, <5>3
      <4>2. CASE Len(txRefs) # TxRefs
        <5>1. txRefs' = Append(txRefs, e)
          BY <2>1, <2>4, <4>2 DEF OrderSend
        <5>2. QED
          BY <2>2, <5>1, TailIsSuffix
      <4>3. QED
        BY <4>1, <4>2
    <3>2. RingOf(t)
      BY <2>2, <3>1, SuffixKeepsRing DEF Ring
    <3>3. lost' = lost /\ inflight' = IF ref = NoRef THEN inflight
                     ELSE [inflight EXCEPT ![ref % InFlightSize] =
                             [ref |-> ref, rx |-> made[n].rx, request |-> n]]
      BY <2>1, <2>4 DEF OrderSend
    <3>4. QED
      BY <2>1, <3>1, <3>2, <3>3, SendRing DEF Ring
  <2>5. QED
    BY <2>3, <2>4
<1>4. ASSUME OrderDrains PROVE Ring'
  <2>1. Suffix(txRefs', txRefs) /\ UNCHANGED <<made, lost, sendQ, inflight>>
    BY <1>4, DrainSuffix
  <2>2. txRefs \in Seq(TxRef)
    BY DEF ThreadTypes
  <2>3. RingOf(txRefs')
    BY <2>1, <2>2, SuffixKeepsRing DEF Ring
  <2>4. QED
    BY <2>1, <2>3 DEF Ring, RingOf, Losses, Entries, TimedSent
<1>5. ASSUME UNCHANGED <<made, lost, sendQ, inflight, txRefs>> PROVE Ring'
  BY <1>5 DEF Ring, RingOf, Losses, Entries, TimedSent
<1>6. MainPacket \/ MainAck \/ OrderReads \/ PushAck \/ PacketArrives \/ Quiet
        => UNCHANGED <<made, lost, sendQ, inflight, txRefs>>
  BY DEF MainPacket, MainAck, OrderReads, PushAck, PacketArrives, Quiet, mainVars, stampVars
<1>7. \A stamped \in BOOLEAN : NicTransmits(stamped) => UNCHANGED <<made, lost, sendQ, inflight, txRefs>>
  BY DEF NicTransmits, mainVars, stampVars
<1>8. QED
  BY <1>1, <1>2, <1>3, <1>4, <1>5, <1>6, <1>7, Frames

\* The samples stay what they are while requests, losses and references are added
\* that are later than theirs.
LEMMA SamplesStay ==
  ASSUME Samples, paired' = paired,
         \A n \in DOMAIN made : n \in DOMAIN made' /\ made'[n] = made[n],
         \A p \in paired : /\ p.sent \notin lost'
                           /\ \A i \in DOMAIN txRefs' : p.sent < txRefs'[i].key
                           /\ \A i \in DOMAIN sendQ' : p.sent < sendQ'[i],
         order' \in {"Connecting", "WaitGo"} => order \in {"Connecting", "WaitGo"}
  PROVE  Samples'
<1>1. ASSUME NEW p \in paired
      PROVE  /\ p.sent \in DOMAIN made' /\ made'[p.sent].timed /\ p.sent \notin lost'
             /\ p.from \in DOMAIN made'
             /\ p.sent = p.from \/ Mispaired(p)'
  <2>1. /\ p.sent \in DOMAIN made /\ made[p.sent].timed /\ p.from \in DOMAIN made
        /\ p.sent = p.from \/ Mispaired(p)
    BY DEF Samples, TimedSent
  <2>2. made'[p.sent] = made[p.sent] /\ made'[p.from] = made[p.from]
    BY <2>1
  <2>3. QED
    BY <2>1, <2>2 DEF Mispaired
<1>2. QED
  BY <1>1 DEF Samples, TimedSent, Mispaired

\* A new sample is of a request later than those sampled, and mispaired at most
\* with the cancel of the same order.
LEMMA DrainSamples ==
  ASSUME ThreadTypes, Refs, Stamps, Ring, Samples, OrderDrains
  PROVE  Samples'
<1>1. Suffix(txRefs', txRefs) /\ UNCHANGED <<made, lost, sendQ, inflight>>
  BY DrainSuffix
<1>2. txRefs \in Seq(TxRef) /\ paired \in SUBSET [sent : Nat, from : Nat, tx : Nat]
  BY DEF ThreadTypes
<1>3. \A p \in paired : /\ p.sent \notin lost'
                        /\ \A i \in DOMAIN txRefs' : p.sent < txRefs'[i].key
                        /\ \A i \in DOMAIN sendQ' : p.sent < sendQ'[i]
  BY <1>1, <1>2, SuffixKeepsRing DEF Samples, TimedSent
<1>4. order' = "Loop"
  BY DEF OrderDrains, Idle
<1>5. CASE UNCHANGED paired
  BY <1>1, <1>3, <1>4, <1>5, SamplesStay
<1>6. ASSUME NEW d \in DOMAIN txRefs,
             txRefs[d].ref # NoRef,
             inflight[txRefs[d].ref % InFlightSize].ref = txRefs[d].ref,
             Head(errQ).tx > inflight[txRefs[d].ref % InFlightSize].rx,
             paired' = paired \cup {[sent |-> txRefs[d].key,
                                     from |-> inflight[txRefs[d].ref % InFlightSize].request,
                                     tx |-> Head(errQ).tx]},
             \A i \in DOMAIN txRefs' : \E j \in DOMAIN txRefs : d < j /\ txRefs'[i] = txRefs[j]
      PROVE  Samples'
  <2> DEFINE k == txRefs[d].key
             e == inflight[txRefs[d].ref % InFlightSize]
             f == e.request
             tx == Head(errQ).tx
             new == [sent |-> k, from |-> f, tx |-> tx]
  <2>1. TimedSent(k) /\ made[k].ref = txRefs[d].ref /\ f >= k
    BY <1>6 DEF Ring, RingOf
  <2>2. f \in DOMAIN made /\ made[f].ref = txRefs[d].ref /\ made[f].timed /\ made[f].rx = e.rx
    <3>1. txRefs[d].ref \in Nat
      BY <1>2, RefTypes
    <3>2. txRefs[d].ref % InFlightSize \in DOMAIN inflight
      BY <3>1, InFlightSlot DEF ThreadTypes
    <3>3. QED
      BY <1>6, <3>2 DEF Ring, Entries
  <2>3. k \in DOMAIN made /\ made[k].timed /\ k \notin lost
    BY <2>1 DEF TimedSent
  <2>4. k \in Nat /\ f \in Nat
    BY <2>2, <2>3, MadeTypes
  <2> HIDE DEF k, f, e, tx
  <2>5. k = f \/ Mispaired(new)
    <3> SUFFICES ASSUME k # f PROVE Mispaired(new)
      OBVIOUS
    <3>1. k < f
      BY <2>1, <2>4
    <3>2. made[k].kind = "Enter" /\ made[f].kind = "Cancel"
      BY <2>1, <2>2, <2>3, <3>1 DEF Refs
    <3>3. made[k].rx < made[f].rx
      BY <2>2, <2>3, <3>1 DEF Stamps
    <3>4. made[f].rx < tx
      <4>1. made[f].rx \in Nat
        BY <2>2, MadeTypes
      <4>2. tx \in Nat
        <5>1. errQ \in Seq([key : Nat, tx : Nat]) /\ errQ # <<>>
          BY DEF ThreadTypes, OrderDrains
        <5>2. Head(errQ) \in [key : Nat, tx : Nat]
          BY <5>1, TailFacts
        <5>3. QED
          BY <5>2 DEF tx
      <4>3. tx > e.rx
        BY <1>6 DEF tx, e
      <4>4. QED
        BY <2>2, <4>1, <4>2, <4>3
    <3>5. QED
      BY <2>1, <2>2, <3>2, <3>3, <3>4 DEF Mispaired
  <2>6. \A i \in DOMAIN txRefs' : k < txRefs'[i].key
    BY <1>6 DEF Ring, RingOf, k
  <2>7. \A i \in DOMAIN sendQ' : k < sendQ'[i]
    BY <1>1, <1>6 DEF Ring, RingOf, k
  <2>8. \A p \in paired : p.sent \in Nat /\ p.sent < k
    BY <1>2, <1>6 DEF Samples, k
  <2>9. paired' = paired \cup {new}
    BY <1>6 DEF k, e, f, tx
  <2>10. new.sent = k /\ new.from = f
    OBVIOUS
  <2> HIDE DEF new
  <2>11. \A p \in paired : /\ TimedSent(p.sent) /\ p.from \in DOMAIN made
                           /\ p.sent = p.from \/ Mispaired(p)
    BY DEF Samples
  <2>12. \A p \in paired' : /\ TimedSent(p.sent) /\ p.from \in DOMAIN made
                            /\ p.sent = p.from \/ Mispaired(p)
    BY <2>1, <2>2, <2>5, <2>9, <2>10, <2>11
  <2>13. \A p \in paired' : /\ \A i \in DOMAIN txRefs' : p.sent < txRefs'[i].key
                            /\ \A i \in DOMAIN sendQ' : p.sent < sendQ'[i]
    BY <1>3, <2>6, <2>7, <2>9, <2>10
  <2>14. \A p, q \in paired' : p.sent = q.sent => p = q
    BY <2>4, <2>8, <2>9, <2>10 DEF Samples
  <2>15. ASSUME NEW p \in paired'
         PROVE  (/\ TimedSent(p.sent) /\ p.from \in DOMAIN made
                 /\ p.sent = p.from \/ Mispaired(p))'
    <3>1. /\ TimedSent(p.sent) /\ p.from \in DOMAIN made
          /\ p.sent = p.from \/ Mispaired(p)
      BY <2>12
    <3>2. TimedSent(p.sent)' /\ p.from \in DOMAIN made'
      BY <1>1, <3>1 DEF TimedSent
    <3>3. Mispaired(p) => Mispaired(p)'
      BY <1>1 DEF Mispaired
    <3>4. QED
      BY <3>1, <3>2, <3>3
  <2>16. ~ (order' \in {"Connecting", "WaitGo"})
    BY <1>4
  <2>17. (\A p \in paired :
            /\ TimedSent(p.sent) /\ p.from \in DOMAIN made
            /\ p.sent = p.from \/ Mispaired(p)
            /\ \A i \in DOMAIN txRefs : p.sent < txRefs[i].key
            /\ \A i \in DOMAIN sendQ : p.sent < sendQ[i])'
    BY <2>13, <2>15
  <2>18. QED
    BY <2>14, <2>16, <2>17 DEF Samples
<1>7. QED
  BY <1>5, <1>6, DrainSuffix

\* A step keeps the samples right.
LEMMA SamplesKept ==
  ASSUME ThreadTypes, InOrder, OnTheWay, Refs, Stamps, Ring, Samples, [Next]_vars
  PROVE  Samples'
<1>0. /\ sendQ \in Seq(Nat) /\ txRefs \in Seq(TxRef)
      /\ \A p \in paired : p.sent \in Nat
  BY DEF ThreadTypes
<1>1. \A p \in paired : /\ p.sent \in DOMAIN made /\ p.sent \notin lost
                        /\ \A i \in DOMAIN txRefs : p.sent < txRefs[i].key
                        /\ \A i \in DOMAIN sendQ : p.sent < sendQ[i]
  BY DEF Samples, TimedSent
<1>2. ASSUME NEW s \in Slots, Quote(s) PROVE Samples'
  <2> DEFINE n == Len(made) + 1
  <2>1. PICK r \in Request :
          /\ Grown(r)
          /\ \/ sendQ' = Append(sendQ, n) /\ cur' = [cur EXCEPT !.sent = TRUE] /\ lost' = lost
             \/ sendQ' = sendQ /\ cur' = cur /\ lost' = lost \cup {n}
    BY <1>2, QuoteEffect
  <2>2. UNCHANGED <<txRefs, paired, order>>
    BY <1>2 DEF Quote, stampVars
  <2>3. n \in Nat /\ \A i \in DOMAIN made : i < n /\ i \in DOMAIN made' /\ made'[i] = made[i]
    BY <2>1 DEF Grown
  <2>4. \A i \in DOMAIN sendQ' : sendQ'[i] = n \/ (i \in DOMAIN sendQ /\ sendQ'[i] = sendQ[i])
    BY <1>0, <2>1, <2>3, AppendFacts
  <2>5. \A p \in paired : p.sent < n /\ p.sent # n
    BY <1>0, <1>1, <2>3
  <2>6. \A p \in paired : /\ p.sent \notin lost'
                          /\ \A i \in DOMAIN sendQ' : p.sent < sendQ'[i]
    BY <1>1, <2>1, <2>4, <2>5
  <2>7. QED
    BY <1>1, <2>2, <2>3, <2>6, SamplesStay
<1>3. ASSUME OrderLogsIn PROVE Samples'
  <2>1. paired = {} /\ paired' = {} /\ made' = made /\ order' = "Loop"
    BY <1>3 DEF OrderLogsIn, Samples, mainVars
  <2>2. QED
    BY <2>1 DEF Samples
<1>4. ASSUME OrderSends PROVE Samples'
  <2> DEFINE n == Head(sendQ)
             ref == IF made[n].timed THEN made[n].ref ELSE NoRef
             e == [key |-> n, ref |-> ref]
  <2>1. /\ sendQ # <<>> /\ sendQ' = Tail(sendQ) /\ UNCHANGED <<made, paired, order>>
        /\ OrderSend(n, ref, made[n].rx)
    BY <1>4 DEF OrderSends, mainVars
  <2>2. /\ 1 \in DOMAIN sendQ /\ n = sendQ[1]
        /\ \A j \in DOMAIN sendQ' : j + 1 \in DOMAIN sendQ /\ sendQ'[j] = sendQ[j + 1]
    BY <1>0, <2>1, TailFacts
  <2>3. n \in Nat /\ \A p \in paired : p.sent < n /\ p.sent # n
    BY <1>0, <1>1, <2>2
  <2>4. n \in DOMAIN made
    BY <2>2 DEF OnTheWay, AllAwaited, Awaited
  <2>5. e \in TxRef /\ e.key = n
    <3>1. made[n].ref \in Nat
      BY <2>4, MadeTypes
    <3>2. QED
      BY <2>3, <3>1 DEF TxRef, NoRef
  <2> HIDE DEF e, ref
  <2>6. \A i \in DOMAIN txRefs' : txRefs'[i].key = n \/ \E j \in DOMAIN txRefs : txRefs'[i] = txRefs[j]
    <3>1. CASE txRefs' = txRefs
      BY <3>1
    <3>2. CASE txRefs' = Append(txRefs, e)
      BY <1>0, <2>5, <3>2, AppendFacts
    <3>3. CASE Len(txRefs) = TxRefs /\ txRefs' = Append(Tail(txRefs), e)
      <4>1. txRefs # <<>>
        BY <3>3, ThreadAssumption
      <4>2. /\ Tail(txRefs) \in Seq(TxRef)
            /\ \A i \in DOMAIN Tail(txRefs) : i + 1 \in DOMAIN txRefs /\ Tail(txRefs)[i] = txRefs[i + 1]
        BY <1>0, <4>1, TailFacts
      <4>3. /\ \A i \in DOMAIN Tail(txRefs) : txRefs'[i] = Tail(txRefs)[i]
            /\ \A i \in DOMAIN txRefs' : i \in DOMAIN Tail(txRefs) \/ txRefs'[i] = e
        BY <2>5, <3>3, <4>2, AppendFacts
      <4>4. QED
        BY <2>5, <4>2, <4>3
    <3>4. QED
      BY <2>1, <3>1, <3>2, <3>3, SendEffect DEF e
  <2>7. lost' = lost \/ lost' = lost \cup {n}
    BY <2>1, SendEffect
  <2>8. \A p \in paired : /\ p.sent \notin lost'
                          /\ \A i \in DOMAIN txRefs' : p.sent < txRefs'[i].key
                          /\ \A i \in DOMAIN sendQ' : p.sent < sendQ'[i]
    BY <1>1, <2>2, <2>3, <2>6, <2>7
  <2>9. QED
    BY <2>1, <2>8, SamplesStay
<1>5. ASSUME OrderDrains PROVE Samples'
  BY <1>5, DrainSamples
<1>6. ASSUME UNCHANGED <<made, lost, sendQ, txRefs, paired>>,
             order' = order \/ order' \in {"Loop", "Pushing", "Exited"} \/ order = "Connecting"
      PROVE  Samples'
  <2>1. order' \in {"Connecting", "WaitGo"} => order \in {"Connecting", "WaitGo"}
    BY <1>6
  <2>2. \A n \in DOMAIN made : n \in DOMAIN made' /\ made'[n] = made[n]
    BY <1>6
  <2>3. \A p \in paired : /\ p.sent \notin lost'
                          /\ \A i \in DOMAIN txRefs' : p.sent < txRefs'[i].key
                          /\ \A i \in DOMAIN sendQ' : p.sent < sendQ'[i]
    BY <1>1, <1>6
  <2>4. QED
    BY <1>6, <2>1, <2>2, <2>3, SamplesStay
<1>7. MainPacket \/ MainAck \/ OrderReads \/ PushAck \/ PacketArrives \/ Quiet
        => /\ UNCHANGED <<made, lost, sendQ, txRefs, paired>>
           /\ order' = order \/ order' \in {"Loop", "Pushing", "Exited"} \/ order = "Connecting"
  BY DEF MainPacket, MainAck, OrderReads, PushAck, PacketArrives, Quiet, mainVars, stampVars
<1>8. \A stamped \in BOOLEAN : NicTransmits(stamped)
        => UNCHANGED <<made, lost, sendQ, txRefs, paired>> /\ order' = order
  BY DEF NicTransmits, mainVars, stampVars
<1>9. QED
  BY <1>2, <1>3, <1>4, <1>5, <1>6, <1>7, <1>8, Frames

-----------------------------------------------------------------------------
(***************************************************************************)
(* The pairing theorem.                                                    *)
(***************************************************************************)

\* A step keeps the types.
LEMMA TypesKept ==
  ASSUME ThreadTypes, OnTheWay, Refs, Ring, [Next]_vars
  PROVE  ThreadTypes'
<1>0. /\ made \in Seq(Request) /\ mdQ \in Seq(Nat) /\ cur \in [rx : Nat, sent : BOOLEAN]
      /\ slots \in [Slots -> [state : SlotState, ref : Nat, request : Nat]]
      /\ clock \in Nat /\ sendQ \in Seq(Nat) /\ ackQ \in Seq(Nat) /\ pushing \in Seq(Nat)
      /\ toNic \in Seq(Nat) /\ stream \in Seq(Nat) /\ errQ \in Seq([key : Nat, tx : Nat])
      /\ txRefs \in Seq(TxRef) /\ lost \in SUBSET Nat
      /\ inflight \in [0 .. InFlightSize - 1 -> [ref : Nat, rx : Nat, request : Nat]]
      /\ paired \in SUBSET [sent : Nat, from : Nat, tx : Nat]
      /\ Len(made) \in Nat /\ Login \in Nat /\ NoRef \in Nat
  BY DEF ThreadTypes, Login, NoRef
<1>1. ASSUME NEW s \in Slots, Quote(s) PROVE ThreadTypes'
  <2> DEFINE n == Len(made) + 1
  <2>1. PICK r \in Request :
          /\ made' \in Seq(Request)
          /\ slots' = [slots EXCEPT ![s] =
               [state |-> IF r.kind = "Enter" THEN "PendingNew" ELSE "PendingCancel",
                ref |-> r.ref, request |-> n]]
          /\ \/ sendQ' = Append(sendQ, n) /\ cur' = [cur EXCEPT !.sent = TRUE] /\ lost' = lost
             \/ sendQ' = sendQ /\ cur' = cur /\ lost' = lost \cup {n}
    BY <1>1, QuoteEffect
  <2>2. n \in Nat
    BY <1>0
  <2>3. [state |-> IF r.kind = "Enter" THEN "PendingNew" ELSE "PendingCancel", ref |-> r.ref, request |-> n]
          \in [state : SlotState, ref : Nat, request : Nat]
    BY <2>2 DEF SlotState, Request
  <2>4. slots' \in [Slots -> [state : SlotState, ref : Nat, request : Nat]]
    BY <1>0, <2>1, <2>3
  <2>5. sendQ' \in Seq(Nat) /\ lost' \in SUBSET Nat /\ cur' \in [rx : Nat, sent : BOOLEAN]
    <3>1. Append(sendQ, n) \in Seq(Nat)
      BY <1>0, <2>2, AppendFacts
    <3>0. lost \cup {n} \in SUBSET Nat
      BY <1>0, <2>2
    <3>2. [cur EXCEPT !.sent = TRUE] \in [rx : Nat, sent : BOOLEAN]
      BY <1>0
    <3>3. QED
      BY <1>0, <2>1, <3>0, <3>1, <3>2
  <2>6. UNCHANGED <<mdQ, ackQ, pushing, toNic, stream, clock, errQ, txRefs, inflight, paired>>
    BY <1>1 DEF Quote, linkVars, stampVars
  <2>7. QED
    BY <1>0, <2>1, <2>4, <2>5, <2>6 DEF ThreadTypes
<1>2. ASSUME MainPacket PROVE ThreadTypes'
  <2>1. mdQ' \in Seq(Nat) /\ cur' \in [rx : Nat, sent : BOOLEAN]
    BY <1>0, <1>2, TailFacts DEF MainPacket
  <2>2. QED
    BY <1>0, <1>2, <2>1 DEF ThreadTypes, MainPacket, linkVars, stampVars
<1>3. ASSUME MainAck PROVE ThreadTypes'
  <2>1. ackQ' \in Seq(Nat) /\ cur' \in [rx : Nat, sent : BOOLEAN]
    BY <1>0, <1>3, TailFacts DEF MainAck, NoPacket
  <2>2. NoOrder \in [state : SlotState, ref : Nat, request : Nat]
    BY <1>0 DEF NoOrder, SlotState
  <2>3. \A r \in [state : SlotState, ref : Nat, request : Nat] :
          [r EXCEPT !.state = "Live"] \in [state : SlotState, ref : Nat, request : Nat]
    BY DEF SlotState
  <2>4. slots' \in [Slots -> [state : SlotState, ref : Nat, request : Nat]]
    BY <1>0, <1>3, <2>2, <2>3 DEF MainAck
  <2>5. QED
    BY <1>0, <1>3, <2>1, <2>4 DEF ThreadTypes, MainAck, linkVars, stampVars
<1>4. ASSUME NEW n \in Nat, NEW ref \in Nat, NEW rx \in Nat, OrderSend(n, ref, rx)
      PROVE  /\ toNic' \in Seq(Nat) /\ txRefs' \in Seq(TxRef) /\ lost' \in SUBSET Nat
             /\ inflight' \in [0 .. InFlightSize - 1 -> [ref : Nat, rx : Nat, request : Nat]]
  <2>1. [key |-> n, ref |-> ref] \in TxRef
    BY DEF TxRef
  <2>2. CASE lost' = lost \cup {n} /\ toNic' = toNic /\ txRefs' = txRefs /\ inflight' = inflight
    BY <1>0, <2>2
  <2>3. CASE /\ lost' = lost /\ toNic' = Append(toNic, n)
             /\ \/ txRefs' = Append(txRefs, [key |-> n, ref |-> ref])
                \/ /\ Len(txRefs) = TxRefs
                   /\ txRefs' = Append(Tail(txRefs), [key |-> n, ref |-> ref])
             /\ inflight' = IF ref = NoRef THEN inflight
                            ELSE [inflight EXCEPT ![ref % InFlightSize] =
                                    [ref |-> ref, rx |-> rx, request |-> n]]
    <3>1. lost' \in SUBSET Nat /\ toNic' \in Seq(Nat)
      BY <1>0, <2>3
    <3>2. inflight' \in [0 .. InFlightSize - 1 -> [ref : Nat, rx : Nat, request : Nat]]
      BY <1>0, <2>3
    <3>3. Len(txRefs) = TxRefs => Tail(txRefs) \in Seq(TxRef)
      <4>1. Len(txRefs) = TxRefs => txRefs # <<>>
        BY ThreadAssumption
      <4>2. QED
        BY <1>0, <4>1, TailFacts
    <3>4. txRefs' \in Seq(TxRef)
      <4>1. \A q \in Seq(TxRef) : Append(q, [key |-> n, ref |-> ref]) \in Seq(TxRef)
        BY <2>1, AppendFacts
      <4>2. QED
        BY <1>0, <2>3, <3>3, <4>1
    <3>5. QED
      BY <3>1, <3>2, <3>4
  <2>4. QED
    BY <1>4, <2>2, <2>3, SendEffect
<1>5. ASSUME OrderLogsIn PROVE ThreadTypes'
  <2>1. OrderSend(Login, NoRef, 0)
    BY <1>5 DEF OrderLogsIn
  <2>2. QED
    BY <1>0, <1>4, <1>5, <2>1 DEF ThreadTypes, OrderLogsIn, mainVars
<1>6. ASSUME OrderSends PROVE ThreadTypes'
  <2> DEFINE n == Head(sendQ)
             ref == IF made[n].timed THEN made[n].ref ELSE NoRef
  <2>1. sendQ # <<>> /\ OrderSend(n, ref, made[n].rx)
    BY <1>6 DEF OrderSends
  <2>2. n \in Nat /\ Tail(sendQ) \in Seq(Nat) /\ n \in DOMAIN made
    <3>1. n \in Nat /\ Tail(sendQ) \in Seq(Nat) /\ 1 \in DOMAIN sendQ /\ n = sendQ[1]
      BY <1>0, <2>1, TailFacts
    <3>2. QED
      BY <3>1 DEF OnTheWay, AllAwaited, Awaited
  <2>3. ref \in Nat /\ made[n].rx \in Nat
    BY <1>0, <2>2, MadeTypes
  <2> HIDE DEF n, ref
  <2>4. /\ toNic' \in Seq(Nat) /\ txRefs' \in Seq(TxRef) /\ lost' \in SUBSET Nat
        /\ inflight' \in [0 .. InFlightSize - 1 -> [ref : Nat, rx : Nat, request : Nat]]
    BY <1>4, <2>1, <2>2, <2>3
  <2>5. sendQ' \in Seq(Nat)
    BY <1>6, <2>2 DEF OrderSends
  <2>6. UNCHANGED <<mdQ, cur, slots, made, ackQ, pushing, stream, clock, errQ, paired>>
    BY <1>6 DEF OrderSends, mainVars
  <2>7. QED
    BY <1>0, <2>4, <2>5, <2>6 DEF ThreadTypes
<1>7. ASSUME OrderDrains PROVE ThreadTypes'
  <2>1. Suffix(txRefs', txRefs) /\ inflight' = inflight
    BY <1>7, DrainSuffix
  <2>2. errQ # <<>> /\ errQ' = Tail(errQ)
    BY <1>7 DEF OrderDrains
  <2>3. errQ' \in Seq([key : Nat, tx : Nat]) /\ Head(errQ) \in [key : Nat, tx : Nat]
    BY <1>0, <2>2, TailFacts
  <2>4. paired' \in SUBSET [sent : Nat, from : Nat, tx : Nat]
    <3>1. CASE UNCHANGED paired
      BY <1>0, <3>1
    <3>2. ASSUME NEW d \in DOMAIN txRefs,
                 paired' = paired \cup {[sent |-> txRefs[d].key,
                                         from |-> inflight[txRefs[d].ref % InFlightSize].request,
                                         tx |-> Head(errQ).tx]}
          PROVE  paired' \in SUBSET [sent : Nat, from : Nat, tx : Nat]
      <4>1. txRefs[d].key \in Nat /\ txRefs[d].ref \in Nat
        BY <1>0, RefTypes
      <4>2. inflight[txRefs[d].ref % InFlightSize].request \in Nat
        BY <1>0, <4>1, InFlightSlot
      <4>3. Head(errQ).tx \in Nat
        BY <2>3
      <4>4. [sent |-> txRefs[d].key, from |-> inflight[txRefs[d].ref % InFlightSize].request,
             tx |-> Head(errQ).tx] \in [sent : Nat, from : Nat, tx : Nat]
        BY <4>1, <4>2, <4>3
      <4>5. QED
        BY <1>0, <3>2, <4>4
    <3>3. QED
      BY <1>7, <3>1, <3>2, DrainSuffix
  <2>5. UNCHANGED <<mdQ, cur, slots, made, sendQ, ackQ, pushing, toNic, stream, clock, lost>>
    BY <1>7 DEF OrderDrains, mainVars
  <2>6. txRefs' \in Seq(TxRef)
    BY <2>1 DEF Suffix
  <2>7. QED
    BY <1>0, <2>1, <2>3, <2>4, <2>5, <2>6 DEF ThreadTypes
<1>8. ASSUME OrderReads PROVE ThreadTypes'
  <2>1. stream' = <<>> /\ pushing' = stream
    BY <1>8 DEF OrderReads
  <2>2. stream' \in Seq(Nat) /\ pushing' \in Seq(Nat)
    BY <1>0, <2>1
  <2>3. QED
    BY <1>0, <1>8, <2>2 DEF ThreadTypes, OrderReads, mainVars, stampVars
<1>9. ASSUME PushAck PROVE ThreadTypes'
  <2>1. pushing # <<>>
    BY <1>9 DEF PushAck, OnTheWay
  <2>2. Head(pushing) \in Nat /\ Tail(pushing) \in Seq(Nat)
    BY <1>0, <2>1, TailFacts
  <2>3. pushing' \in Seq(Nat) /\ ackQ' \in Seq(Nat)
    <3>1. Append(ackQ, Head(pushing)) \in Seq(Nat)
      BY <1>0, <2>2, AppendFacts
    <3>2. QED
      BY <1>0, <1>9, <2>2, <3>1 DEF PushAck
  <2>4. QED
    BY <1>0, <1>9, <2>3 DEF ThreadTypes, PushAck, mainVars, linkVars, stampVars
<1>10. ASSUME PacketArrives PROVE ThreadTypes'
  <2>1. mdQ' \in Seq(Nat) /\ clock' \in Nat
    BY <1>0, <1>10 DEF PacketArrives
  <2>2. QED
    BY <1>0, <1>10, <2>1 DEF ThreadTypes, PacketArrives, stampVars
<1>11. ASSUME NEW stamped \in BOOLEAN, NicTransmits(stamped) PROVE ThreadTypes'
  <2>1. Head(toNic) \in Nat /\ Tail(toNic) \in Seq(Nat)
    BY <1>0, <1>11, TailFacts DEF NicTransmits
  <2>2. toNic' \in Seq(Nat) /\ stream' \in Seq(Nat) /\ clock' \in Nat
    BY <1>0, <1>11, <2>1 DEF NicTransmits
  <2>3. [key |-> Head(toNic), tx |-> clock] \in [key : Nat, tx : Nat]
    BY <1>0, <2>1
  <2>4. errQ' \in Seq([key : Nat, tx : Nat])
    <3>1. Append(errQ, [key |-> Head(toNic), tx |-> clock]) \in Seq([key : Nat, tx : Nat])
      BY <1>0, <2>3, AppendFacts
    <3>2. QED
      BY <1>0, <1>11, <3>1 DEF NicTransmits
  <2>5. UNCHANGED <<mdQ, cur, slots, made, sendQ, ackQ, pushing, txRefs, inflight, lost, paired>>
    BY <1>11 DEF NicTransmits, mainVars, stampVars
  <2>6. QED
    BY <1>0, <2>2, <2>4, <2>5 DEF ThreadTypes
<1>12. ASSUME Quiet PROVE ThreadTypes'
  BY <1>0, <1>12 DEF ThreadTypes, Quiet
<1>13. QED
  BY <1>1, <1>2, <1>3, <1>5, <1>6, <1>7, <1>8, <1>9, <1>10, <1>11, <1>12, Frames

\* The program starts with nothing made, sent or paired.
LEMMA InitPairInv == Init => PairInv
<1> SUFFICES ASSUME Init PROVE PairInv
  OBVIOUS
<1>1. /\ made = <<>> /\ mdQ = <<>> /\ cur = NoPacket /\ clock = 1
      /\ sendQ = <<>> /\ ackQ = <<>> /\ pushing = <<>> /\ toNic = <<>> /\ stream = <<>>
      /\ errQ = <<>> /\ txRefs = <<>> /\ lost = {} /\ paired = {} /\ order = "Connecting"
      /\ slots = [s \in Slots |-> NoOrder]
      /\ inflight = [i \in 0 .. InFlightSize - 1 |-> Vacant]
  BY DEF Init
<1>2. NoOrder \in [state : SlotState, ref : Nat, request : Nat] /\ NoOrder.state = "Idle"
  BY DEF NoOrder, SlotState, NoRef, Login
<1>3. Vacant \in [ref : Nat, rx : Nat, request : Nat] /\ Vacant.ref = NoRef
  BY DEF Vacant, NoRef, Login
<1>4. NoPacket \in [rx : Nat, sent : BOOLEAN] /\ NoPacket.rx = 0
  BY DEF NoPacket
<1>5. ThreadTypes
  BY <1>1, <1>2, <1>3, <1>4 DEF ThreadTypes
<1>6. DOMAIN <<>> = {}
  OBVIOUS
<1>7. InOrder
  BY <1>1, <1>6 DEF InOrder, Increasing, Before
<1>8. OnTheWay
  BY <1>1, <1>6 DEF OnTheWay, AllAwaited
<1>9. Refs
  BY <1>1, <1>2, <1>6 DEF Refs
<1>10. Stamps
  BY <1>1, <1>4, <1>6 DEF Stamps, Increasing
<1>11. Ring
  BY <1>1, <1>3, <1>6 DEF Ring, Losses, RingOf, Entries
<1>12. Samples
  BY <1>1 DEF Samples
<1>13. QED
  BY <1>5, <1>7, <1>8, <1>9, <1>10, <1>11, <1>12 DEF PairInv

\* The references stay apart in every step.
LEMMA RefsKept ==
  ASSUME ThreadTypes, OnTheWay, Refs, [Next]_vars
  PROVE  Refs'
<1>1. ASSUME NEW s \in Slots, Quote(s) PROVE Refs'
  BY <1>1, QuoteRefs
<1>2. ASSUME MainAck PROVE Refs'
  BY <1>2, AckRefs
<1>3. ASSUME UNCHANGED <<made, slots>> PROVE Refs'
  BY <1>3 DEF Refs, NextRef
<1>4. MainPacket \/ OrderLogsIn \/ OrderSends \/ OrderDrains \/ OrderReads \/ PushAck
        \/ PacketArrives \/ Quiet => UNCHANGED <<made, slots>>
  BY DEF MainPacket, OrderLogsIn, OrderSends, OrderDrains, OrderReads, PushAck, PacketArrives,
         Quiet, mainVars
<1>5. \A stamped \in BOOLEAN : NicTransmits(stamped) => UNCHANGED <<made, slots>>
  BY DEF NicTransmits, mainVars
<1>6. QED
  BY <1>1, <1>2, <1>3, <1>4, <1>5, Frames

\* PairInv is inductive.
LEMMA NextPairInv == PairInv /\ [Next]_vars => PairInv'
BY TypesKept, OrderKept, WayKept, RefsKept, StampsKept, RingKept, SamplesKept DEF PairInv

LEMMA SpecPairInv == Spec => []PairInv
BY InitPairInv, NextPairInv, PTL DEF Spec

\* orderCompleteTx pairs a transmit stamp with the packet of the request that it
\* is the stamp of, once per packet, or with the packet of that order's cancel.
THEOREM StampsPairRight == Spec => []MispairNeedsReuse
<1>1. PairInv => MispairNeedsReuse
  <2> SUFFICES ASSUME PairInv PROVE MispairNeedsReuse
    OBVIOUS
  <2>1. ThreadTypes /\ Stamps /\ Samples
    BY DEF PairInv
  <2>2. ASSUME NEW p \in paired
        PROVE  \/ p.sent = p.from
               \/ /\ p.sent # Login /\ made[p.sent].ref = made[p.from].ref
                  /\ made[p.from].kind = "Cancel" /\ made[p.sent].kind = "Enter"
                  /\ made[p.sent].rx < made[p.from].rx /\ made[p.from].rx < p.tx
    <3>1. p.sent \in DOMAIN made /\ (p.sent = p.from \/ Mispaired(p))
      BY <2>1 DEF Samples, TimedSent
    <3>2. p.sent # Login
      BY <2>1, <3>1, MadeTypes DEF Login
    <3>3. QED
      BY <3>1, <3>2 DEF Mispaired
  <2>3. ASSUME NEW p \in paired, NEW q \in paired, p.sent = p.from, q.sent = q.from,
               made[p.from].rx = made[q.from].rx
        PROVE  p = q
    <3>1. /\ p.sent \in DOMAIN made /\ made[p.sent].timed /\ p.sent \notin lost
          /\ q.sent \in DOMAIN made /\ made[q.sent].timed /\ q.sent \notin lost
      BY <2>1 DEF Samples, TimedSent
    <3>2. p.sent \in Nat /\ q.sent \in Nat /\ made[p.sent].rx \in Nat
      BY <2>1, <3>1, MadeTypes
    <3>3. ~ (p.sent < q.sent)
      BY <2>1, <2>3, <3>1, <3>2 DEF Stamps
    <3>4. ~ (q.sent < p.sent)
      BY <2>1, <2>3, <3>1, <3>2 DEF Stamps
    <3>5. p.sent = q.sent
      BY <3>2, <3>3, <3>4
    <3>6. QED
      BY <2>1, <3>5 DEF Samples
  <2>4. QED
    BY <2>2, <2>3 DEF MispairNeedsReuse
<1>2. QED
  BY <1>1, SpecPairInv, PTL

-----------------------------------------------------------------------------
(***************************************************************************)
(* The accounting theorem.                                                 *)
(***************************************************************************)

\* The steps that touch the recorder, and those that make samples.
LEMMA RecorderFrames ==
  ASSUME [Next]_vars
  PROVE  \/ Recording \/ MainJoins \/ OrderDrains
         \/ /\ UNCHANGED <<recorderVars, paired>>
            /\ order = "Exited" => order' = "Exited"
<1> DEFINE Apart == /\ UNCHANGED <<recorderVars, paired>>
                    /\ order = "Exited" => order' = "Exited"
<1> USE DEF mainVars, linkVars, stampVars
<1>1. MainGo => Apart BY DEF MainGo
<1>2. MainFails => Apart BY DEF MainFails
<1>3. MainStops => Apart BY DEF MainStops
<1>4. MainPacket => Apart BY DEF MainPacket
<1>5. MainAck => Apart BY DEF MainAck
<1>6. \A s \in Slots : Quote(s) => Apart BY DEF Quote
<1>7. OrderConnects => Apart BY DEF OrderConnects
<1>8. OrderGivesUp => Apart BY DEF OrderGivesUp
<1>9. OrderLogsIn => Apart BY DEF OrderLogsIn
<1>10. OrderStops => Apart BY DEF OrderStops
<1>11. OrderSends => Apart BY DEF OrderSends
<1>12. OrderReads => Apart BY DEF OrderReads, Idle
<1>13. OrderSeesClose => Apart BY DEF OrderSeesClose
<1>14. PushAck => Apart BY DEF PushAck
<1>15. PacketArrives => Apart BY DEF PacketArrives
<1>16. VenueCloses => Apart BY DEF VenueCloses
<1>17. \A stamped \in BOOLEAN : NicTransmits(stamped) => Apart BY DEF NicTransmits
<1>18. UNCHANGED vars => Apart BY DEF vars
<1> HIDE DEF Apart
<1>19. Recording \/ MainJoins \/ OrderDrains \/ Apart
  BY <1>1, <1>2, <1>3, <1>4, <1>5, <1>6, <1>7, <1>8, <1>9, <1>10, <1>11, <1>12, <1>13, <1>14,
     <1>15, <1>16, <1>17, <1>18 DEF Next
<1>20. QED
  BY <1>19 DEF Apart

\* A stamp that is drained gives one new sample and one new pair, or neither.
LEMMA DrainRecords ==
  ASSUME ThreadTypes, Samples, OrderDrains
  PROVE  \/ UNCHANGED <<paired, recorderVars>>
         \/ \E ns \in Nat : \E new : new \notin paired /\ paired' = paired \cup {new} /\ Record(ns)
<1> DEFINE stamp == Head(errQ)
           rest == Unread(stamp.key)
           ref == Head(rest).ref
           slot == inflight[ref % InFlightSize]
           new == [sent |-> stamp.key, from |-> slot.request, tx |-> stamp.tx]
           good == Matches(rest, stamp.key) /\ ref # NoRef /\ slot.ref = ref /\ stamp.tx > slot.rx
<1>1. txRefs \in Seq(TxRef) /\ errQ \in Seq([key : Nat, tx : Nat]) /\ errQ # <<>>
  BY DEF ThreadTypes, OrderDrains
<1>2. stamp \in [key : Nat, tx : Nat]
  BY <1>1, TailFacts
<1>3. CASE ~good
  BY <1>3 DEF OrderDrains
<1>4. CASE good
  <2>1. Record(stamp.tx - slot.rx) /\ paired' = paired \cup {new}
    BY <1>4 DEF OrderDrains
  <2>2. Suffix(rest, txRefs)
    BY <1>1, <1>2, UnreadIsSuffix
  <2> HIDE DEF rest
  <2>3. rest \in Seq(TxRef) /\ rest # <<>> /\ Head(rest).key = stamp.key
    BY <1>4, <2>2 DEF Suffix, Matches
  <2>4. 1 \in DOMAIN rest /\ Head(rest) = rest[1] /\ Head(rest) \in TxRef
    BY <2>3, TailFacts
  <2>5. PICK j \in DOMAIN txRefs : Head(rest) = txRefs[j]
    BY <2>2, <2>4 DEF Suffix
  <2>6. \A p \in paired : p.sent < stamp.key
    BY <2>3, <2>5 DEF Samples
  <2>7. new \notin paired
    <3>1. stamp.key \in Nat
      BY <1>2
    <3>2. new.sent = stamp.key
      OBVIOUS
    <3> HIDE DEF new
    <3>3. QED
      BY <2>6, <3>1, <3>2
  <2>8. slot.rx \in Nat
    <3>1. ref \in Nat
      BY <2>4 DEF TxRef
    <3>2. QED
      BY <3>1, InFlightSlot DEF ThreadTypes
  <2>9. stamp.tx - slot.rx \in Nat
    BY <1>2, <1>4, <2>8
  <2> HIDE DEF new, stamp, slot
  <2>10. QED
    BY <2>1, <2>7, <2>9
<1>5. QED
  BY <1>3, <1>4

\* One more value behind the last of two histograms.
LEMMA ConcatFacts ==
  ASSUME NEW q \in Seq(Nat), NEW r \in Seq(Nat), NEW ns \in Nat
  PROVE  /\ q \o Append(r, ns) = Append(q \o r, ns)
         /\ q \o <<>> = q
         /\ q \o r \in Seq(Nat) /\ Len(q \o r) = Len(q) + Len(r)
<1>1. q \o r \in Seq(Nat) /\ Len(q \o r) = Len(q) + Len(r)
  BY ConcatProperties
<1>2. q \o <<>> = q
  BY ConcatEmptySeq
<1>3. Append(r, ns) = r \o <<ns>> /\ Append(q \o r, ns) = (q \o r) \o <<ns>>
  BY <1>1, AppendIsConcat
<1>4. (q \o r) \o <<ns>> = q \o (r \o <<ns>>)
  BY ConcatAssociative
<1>5. QED
  BY <1>1, <1>2, <1>3, <1>4

\* Nothing seen, nothing kept.
LEMMA NothingKept == KeepsLargest(<<>>, <<>>)
<1>1. WorstCap \in Nat /\ WorstCap > 0
  BY RecorderAssumption
<1>2. \A v \in Nat : AtLeast(<<>>, v) = 0
  <2> SUFFICES ASSUME NEW v \in Nat PROVE AtLeast(<<>>, v) = 0
    OBVIOUS
  <2>1. <<>> \in Seq(Nat) /\ Len(<<>>) = 0
    OBVIOUS
  <2>2. AtLeast(<<>>, v) \in Nat /\ AtLeast(<<>>, v) <= Len(<<>>)
    BY <2>1, AtLeastType
  <2>3. QED
    BY <2>1, <2>2
<1>3. QED
  BY <1>1, <1>2 DEF KeepsLargest, Smaller

\* A sample drained from the queue moves to the histograms.
LEMMA DrainOneAccounts ==
  ASSUME Accounts, DrainOne, UNCHANGED <<paired, order>>
  PROVE  Accounts'
<1> DEFINE ns == Head(samples)
<1>1. /\ samples \in Seq(Nat) /\ hist \in Seq(Nat) /\ interval \in Seq(Nat) /\ flushed \in Seq(Nat)
      /\ worstRun \in Seq(Nat) /\ worstInterval \in Seq(Nat) /\ sampleDrops \in Nat
      /\ flushed \o interval = hist
      /\ KeepsLargest(worstRun, hist) /\ KeepsLargest(worstInterval, interval)
      /\ IsFiniteSet(paired)
      /\ Cardinality(paired) = Len(samples) + Len(hist) + sampleDrops
  BY DEF Accounts
<1>2. /\ recorder # "Ended" /\ samples # <<>> /\ samples' = Tail(samples)
      /\ hist' = Append(hist, ns) /\ interval' = Append(interval, ns)
      /\ worstRun' = Offer(worstRun, ns) /\ worstInterval' = Offer(worstInterval, ns)
      /\ UNCHANGED <<sampleDrops, flushed, recorder>>
  BY DEF DrainOne
<1>3. /\ ns \in Nat /\ samples' \in Seq(Nat) /\ Len(samples') = Len(samples) - 1
  BY <1>1, <1>2, TailFacts
<1>4. hist' \in Seq(Nat) /\ interval' \in Seq(Nat) /\ Len(hist') = Len(hist) + 1
  BY <1>1, <1>2, <1>3, AppendFacts
<1>5. worstRun' \in Seq(Nat) /\ KeepsLargest(Offer(worstRun, ns), Append(hist, ns))
  BY <1>1, <1>2, <1>3, OfferKeepsLargest
<1>6. worstInterval' \in Seq(Nat) /\ KeepsLargest(Offer(worstInterval, ns), Append(interval, ns))
  BY <1>1, <1>2, <1>3, OfferKeepsLargest
<1> HIDE DEF ns
<1>7. KeepsLargest(worstRun, hist)' /\ KeepsLargest(worstInterval, interval)'
  BY <1>2, <1>5, <1>6 DEF KeepsLargest, AtLeast
<1>8. flushed' \o interval' = hist'
  <2>1. flushed \in Seq(Nat) /\ interval \in Seq(Nat) /\ ns \in Nat
    BY <1>1, <1>3
  <2>2. flushed \o Append(interval, ns) = Append(flushed \o interval, ns)
    BY <2>1, ConcatFacts, Zenon
  <2>3. QED
    BY <1>1, <1>2, <2>2
<1>9. Cardinality(paired)' = Len(samples') + Len(hist') + sampleDrops' /\ IsFiniteSet(paired)'
  <2>1. Len(samples) \in Nat /\ Len(hist) \in Nat
    BY <1>1
  <2>2. Cardinality(paired') = Cardinality(paired) /\ IsFiniteSet(paired')
    BY <1>1
  <2>3. QED
    BY <1>1, <1>2, <1>3, <1>4, <2>1, <2>2
<1>10. (recorder # "Running" => order = "Exited")'
  BY <1>2 DEF Accounts
<1>11. recorder' # "Ended"
  BY <1>2
<1>12. QED
  BY <1>1, <1>2, <1>3, <1>4, <1>5, <1>6, <1>7, <1>8, <1>9, <1>10, <1>11 DEF Accounts

\* A flush moves the interval to the log.
LEMMA FlushAccounts ==
  ASSUME Accounts, FlushInterval, UNCHANGED <<paired, order, samples, sampleDrops, hist, worstRun>>,
         recorder' = recorder \/ (recorder = "Stopping" /\ samples = <<>>)
  PROVE  Accounts'
<1>1. /\ samples \in Seq(Nat) /\ hist \in Seq(Nat) /\ interval \in Seq(Nat) /\ flushed \in Seq(Nat)
      /\ worstRun \in Seq(Nat) /\ worstInterval \in Seq(Nat) /\ sampleDrops \in Nat
      /\ flushed \o interval = hist
      /\ KeepsLargest(worstRun, hist)
      /\ IsFiniteSet(paired)
      /\ Cardinality(paired) = Len(samples) + Len(hist) + sampleDrops
      /\ recorder # "Running" => order = "Exited"
      /\ recorder = "Ended" => samples = <<>> /\ interval = <<>>
  BY DEF Accounts
<1>2. flushed' = flushed \o interval /\ interval' = <<>> /\ worstInterval' = <<>>
  BY DEF FlushInterval
<1>3. flushed' \in Seq(Nat) /\ interval' \in Seq(Nat) /\ worstInterval' \in Seq(Nat)
  BY <1>1, <1>2, ConcatFacts
<1>4. flushed' \o interval' = hist'
  <2>1. flushed' \o <<>> = flushed'
    BY <1>3, ConcatEmptySeq
  <2>2. QED
    BY <1>1, <1>2, <2>1
<1>5. KeepsLargest(worstRun, hist)' /\ KeepsLargest(worstInterval, interval)'
  BY <1>1, <1>2, NothingKept DEF KeepsLargest, AtLeast
<1>6. (recorder # "Running" => order = "Exited")'
  BY <1>1
<1>7. (recorder = "Ended" => samples = <<>> /\ interval = <<>>)'
  BY <1>1, <1>2
<1>8. QED
  BY <1>1, <1>2, <1>3, <1>4, <1>5, <1>6, <1>7 DEF Accounts

\* A new sample is queued or counted as dropped; none comes after the stop.
LEMMA RecordAccounts ==
  ASSUME Accounts, NEW ns \in Nat, NEW new, new \notin paired, paired' = paired \cup {new},
         Record(ns), order # "Exited", order' = order
  PROVE  Accounts'
<1>1. /\ samples \in Seq(Nat) /\ hist \in Seq(Nat) /\ interval \in Seq(Nat) /\ flushed \in Seq(Nat)
      /\ worstRun \in Seq(Nat) /\ worstInterval \in Seq(Nat) /\ sampleDrops \in Nat
      /\ flushed \o interval = hist
      /\ KeepsLargest(worstRun, hist) /\ KeepsLargest(worstInterval, interval)
      /\ IsFiniteSet(paired)
      /\ Cardinality(paired) = Len(samples) + Len(hist) + sampleDrops
      /\ recorder # "Running" => order = "Exited"
  BY DEF Accounts
<1>2. UNCHANGED <<hist, interval, worstRun, worstInterval, flushed, recorder>>
  BY DEF Record
<1>3. \/ samples' = Append(samples, ns) /\ sampleDrops' = sampleDrops
      \/ sampleDrops' = sampleDrops + 1 /\ samples' = samples
  BY DEF Record
<1>4. IsFiniteSet(paired') /\ Cardinality(paired') = Cardinality(paired) + 1
  BY <1>1, FS_AddElement
<1>5. Append(samples, ns) \in Seq(Nat) /\ Len(Append(samples, ns)) = Len(samples) + 1
  BY <1>1, AppendFacts
<1>6. sampleDrops + 1 \in Nat
  BY <1>1
<1>7. /\ samples' \in Seq(Nat) /\ sampleDrops' \in Nat
      /\ Cardinality(paired') = Len(samples') + Len(hist') + sampleDrops'
  <2>1. Len(samples) \in Nat /\ Len(hist) \in Nat /\ hist' = hist
    BY <1>1, <1>2
  <2>2. CASE samples' = Append(samples, ns) /\ sampleDrops' = sampleDrops
    BY <1>1, <1>4, <1>5, <2>1, <2>2
  <2>3. CASE sampleDrops' = sampleDrops + 1 /\ samples' = samples
    BY <1>1, <1>4, <1>6, <2>1, <2>3
  <2>4. QED
    BY <1>3, <2>2, <2>3
<1>8. KeepsLargest(worstRun, hist)' /\ KeepsLargest(worstInterval, interval)'
  BY <1>1, <1>2 DEF KeepsLargest, AtLeast
<1>9. recorder = "Running"
  BY <1>1
<1>10. QED
  BY <1>1, <1>2, <1>4, <1>7, <1>8, <1>9 DEF Accounts

\* Every step keeps the accounts.
LEMMA AccountsKept ==
  ASSUME ThreadTypes, Samples, Accounts, [Next]_vars
  PROVE  Accounts'
<1>1. CASE Recording
  <2>1. UNCHANGED <<paired, order>>
    BY <1>1 DEF Recording, stampVars
  <2>2. CASE DrainOne
    BY <2>1, <2>2, DrainOneAccounts
  <2>3. CASE FlushPeriod
    BY <2>1, <2>3, FlushAccounts DEF FlushPeriod
  <2>4. CASE RecorderEnds
    BY <2>1, <2>4, FlushAccounts DEF RecorderEnds
  <2>5. QED
    BY <1>1, <2>2, <2>3, <2>4 DEF Recording
<1>2. CASE MainJoins
  <2>1. /\ order = "Exited" /\ order' = order /\ recorder' = "Stopping" /\ paired' = paired
        /\ UNCHANGED <<samples, sampleDrops, hist, interval, worstRun, worstInterval, flushed>>
    BY <1>2 DEF MainJoins, stampVars
  <2>2. KeepsLargest(worstRun, hist)' /\ KeepsLargest(worstInterval, interval)'
    BY <2>1 DEF Accounts, KeepsLargest, AtLeast
  <2>3. QED
    BY <2>1, <2>2 DEF Accounts
<1>3. ASSUME UNCHANGED <<recorderVars, paired>>, order = "Exited" => order' = "Exited"
      PROVE  Accounts'
  <2>0. UNCHANGED <<worstRun, hist, worstInterval, interval>>
    BY <1>3 DEF recorderVars
  <2>1. KeepsLargest(worstRun, hist)' /\ KeepsLargest(worstInterval, interval)'
    BY <2>0 DEF Accounts, KeepsLargest, AtLeast
  <2>2. QED
    BY <1>3, <2>1 DEF Accounts, recorderVars
<1>4. CASE OrderDrains
  <2>1. order # "Exited" /\ order' = order
    BY <1>4 DEF OrderDrains, Idle
  <2>2. CASE UNCHANGED <<paired, recorderVars>>
    BY <1>3, <2>1, <2>2
  <2>3. CASE \E ns \in Nat : \E new : new \notin paired /\ paired' = paired \cup {new} /\ Record(ns)
    BY <2>1, <2>3, RecordAccounts
  <2>4. QED
    BY <1>4, <2>2, <2>3, DrainRecords
<1>5. QED
  BY <1>1, <1>2, <1>3, <1>4, RecorderFrames

\* The recorder starts with nothing.
LEMMA InitAccounts == Init => Accounts
<1> SUFFICES ASSUME Init PROVE Accounts
  OBVIOUS
<1>1. /\ samples = <<>> /\ sampleDrops = 0 /\ hist = <<>> /\ interval = <<>> /\ worstRun = <<>>
      /\ worstInterval = <<>> /\ flushed = <<>> /\ recorder = "Running" /\ paired = {}
  BY DEF Init, RecorderInit
<1>2. <<>> \in Seq(Nat) /\ <<>> \o <<>> = <<>> /\ Len(<<>>) = 0
  OBVIOUS
<1>3. IsFiniteSet({}) /\ Cardinality({}) = 0
  BY FS_EmptySet
<1>4. QED
  BY <1>1, <1>2, <1>3, NothingKept DEF Accounts

\* Every latency sample ends in the log, among the worst if it is one of the
\* largest, or is counted as dropped: LatencyRecorder and the order of runDut's
\* stops lose none.
THEOREM NoSampleForgotten == Spec => []SamplesAccounted
<1>1. Init => Accounts
  BY InitAccounts
<1>2. PairInv /\ Accounts /\ [Next]_vars => Accounts'
  BY AccountsKept DEF PairInv
<1>3. Accounts => SamplesAccounted
  <2> SUFFICES ASSUME Accounts PROVE SamplesAccounted
    OBVIOUS
  <2>1. IsWorst(worstRun, hist) /\ IsWorst(worstInterval, interval)
    BY LargestAreWorst DEF Accounts
  <2>2. ASSUME recorder = "Ended" PROVE Len(flushed) + sampleDrops = Cardinality(paired)
    <3>1. samples = <<>> /\ interval = <<>> /\ flushed \in Seq(Nat) /\ sampleDrops \in Nat
      BY <2>2 DEF Accounts
    <3>2. flushed \o <<>> = flushed
      BY <3>1, ConcatEmptySeq
    <3>3. hist = flushed
      BY <3>1, <3>2 DEF Accounts
    <3>4. Cardinality(paired) = Len(<<>>) + Len(flushed) + sampleDrops
      BY <3>1, <3>3 DEF Accounts
    <3>5. Len(<<>>) = 0 /\ Len(flushed) \in Nat
      BY <3>1
    <3>6. QED
      BY <3>1, <3>4, <3>5
  <2>3. QED
    BY <2>1, <2>2 DEF SamplesAccounted, Accounts
<1>4. QED
  BY <1>1, <1>2, <1>3, SpecPairInv, PTL DEF Spec
=============================================================================
