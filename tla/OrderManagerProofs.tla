------------------------- MODULE OrderManagerProofs -------------------------
(***************************************************************************)
(* Facts about the user references of the OrderManager that every module   *)
(* which drives it can use: which have been given out, that the next ones  *)
(* are new, and who owns the ones that reconcile takes.                    *)
(***************************************************************************)
EXTENDS OrderManager, TLAPS

\* The types of the counter, the ring and the history of references.
RefTypes ==
  /\ nextRef \in 1 .. (RefMod - 1)
  /\ refs \in [0 .. (RefRing - 1) -> [ref : 0 .. (RefMod - 1), key : Key \cup {TestKey}]]
  /\ allocs \in 0 .. MaxAllocs
  /\ DOMAIN owner \subseteq 1 .. (RefMod - 1)
  /\ owner \in [DOMAIN owner -> Key \cup {TestKey}]

\* The references given out so far: those from FirstRef to nextRef, around the
\* end of the counter if it has wrapped.
RefsFresh ==
  \/ /\ nextRef = FirstRef + allocs
     /\ DOMAIN owner = FirstRef .. (nextRef - 1)
  \/ /\ nextRef = FirstRef + allocs - (RefMod - 1)
     /\ nextRef <= FirstRef
     /\ DOMAIN owner = (FirstRef .. (RefMod - 1)) \cup (1 .. (nextRef - 1))

RefsOK == RefTypes /\ RefsFresh

\* A hint of the ring names the owner of its reference.
HintsTrue ==
  \A h \in 0 .. (RefRing - 1) : refs[h].ref # 0 =>
    refs[h].ref \in DOMAIN owner /\ owner[refs[h].ref] = refs[h].key

\* A key is a symbol and a side, and no key is the test order's.
LEMMA KeyParts ==
  /\ \A k \in Key : k[1] \in Syms /\ k[2] \in Sides /\ k = <<k[1], k[2]>>
  /\ \A s \in Syms, d \in Sides : <<s, d>> \in Key
  /\ TestKey \notin Key
BY SymsAssumption DEF Key, TestKey

-----------------------------------------------------------------------------
(***************************************************************************)
(* allocRef.                                                               *)
(***************************************************************************)

\* The next references, one or two of them, have never been given out: with at
\* most RefMod - 1 allocations the counter does not come round.
LEMMA NextRefsAreFresh ==
  ASSUME RefsOK, NEW n \in 1 .. 2, allocs + n <= MaxAllocs
  PROVE  /\ \A i \in 1 .. n : RefAt(i) \in (1 .. (RefMod - 1)) \ DOMAIN owner
         /\ n = 2 => RefAt(1) # RefAt(2)
<1>1. /\ RefMod \in Nat /\ MaxAllocs \in Nat /\ MaxAllocs <= RefMod - 1
      /\ FirstRef \in Nat /\ FirstRef >= 1 /\ FirstRef <= RefMod - 1
      /\ allocs \in Nat /\ nextRef \in Nat /\ nextRef >= 1 /\ nextRef <= RefMod - 1
  BY RefModAssumption, MaxAllocsAssumption, FirstRefAssumption DEF RefsOK, RefTypes
<1>2. nextRef \notin DOMAIN owner
  BY <1>1 DEF RefsOK, RefsFresh
<1>3. n = 2 => SuccRef(nextRef) \in 1 .. (RefMod - 1) /\ SuccRef(nextRef) # nextRef
  BY <1>1 DEF SuccRef
<1>4. n = 2 => SuccRef(nextRef) \notin DOMAIN owner
  BY <1>1 DEF RefsOK, RefsFresh, SuccRef
<1> QED
  BY <1>1, <1>2, <1>3, <1>4 DEF RefAt

\* What allocRef leaves behind for the keys it serves.
LEMMA AllocRefsEffect ==
  ASSUME RefsOK, NEW n \in 0 .. 2, NEW taken \in [1 .. n -> Key \cup {TestKey}],
         Len(taken) = n, AllocRefs(taken)
  PROVE  /\ RefsOK'
         /\ DOMAIN owner' = DOMAIN owner \cup {RefAt(i) : i \in 1 .. n}
         /\ \A r \in DOMAIN owner : owner'[r] = owner[r]
         /\ \A i \in 1 .. n : RefAt(i) \in (1 .. (RefMod - 1)) \ DOMAIN owner
         /\ \A i \in 1 .. n : owner'[RefAt(i)] = taken[i]
         /\ HintsTrue => HintsTrue'
<1>1. /\ RefMod \in Nat /\ MaxAllocs \in Nat /\ MaxAllocs <= RefMod - 1
      /\ FirstRef \in Nat /\ FirstRef >= 1 /\ FirstRef <= RefMod - 1
      /\ allocs \in Nat /\ nextRef \in Nat /\ nextRef >= 1 /\ nextRef <= RefMod - 1
  BY RefModAssumption, MaxAllocsAssumption, FirstRefAssumption DEF RefsOK, RefTypes
<1>2. allocs + n <= MaxAllocs /\ allocs' = allocs + n
  BY DEF AllocRefs
<1>3. nextRef' = IF n = 0 THEN nextRef ELSE SuccRef(RefAt(n))
  BY DEF AllocRefs
<1>4. /\ \A i \in 1 .. n : RefAt(i) \in (1 .. (RefMod - 1)) \ DOMAIN owner
      /\ n = 2 => RefAt(1) # RefAt(2)
  BY <1>2, NextRefsAreFresh
<1>5. nextRef' \in 1 .. (RefMod - 1)
  BY <1>1, <1>3, <1>4 DEF SuccRef
<1>6. refs' \in [0 .. (RefRing - 1) -> [ref : 0 .. (RefMod - 1), key : Key \cup {TestKey}]]
  <2>1. refs \in [0 .. (RefRing - 1) -> [ref : 0 .. (RefMod - 1), key : Key \cup {TestKey}]]
    BY DEF RefsOK, RefTypes
  <2> DEFINE hits(h) == {i \in 1 .. n : RefAt(i) % RefRing = h}
             hint(h) == IF 2 \in hits(h) THEN 2 ELSE 1
  <2>2. refs' = [h \in 0 .. (RefRing - 1) |->
                   IF hits(h) = {} THEN refs[h]
                   ELSE [ref |-> RefAt(hint(h)), key |-> taken[hint(h)]]]
    BY DEF AllocRefs
  <2>3. ASSUME NEW h \in 0 .. (RefRing - 1), hits(h) # {}
        PROVE  hint(h) \in 1 .. n
    BY <2>3
  <2>4. ASSUME NEW h \in 0 .. (RefRing - 1), hits(h) # {}
        PROVE  [ref |-> RefAt(hint(h)), key |-> taken[hint(h)]]
                 \in [ref : 0 .. (RefMod - 1), key : Key \cup {TestKey}]
    BY <2>3, <2>4, <1>4, <1>1
  <2> HIDE DEF hits, hint
  <2> QED
    BY <2>1, <2>2, <2>4
<1>7. /\ DOMAIN owner' = DOMAIN owner \cup {RefAt(i) : i \in 1 .. n}
      /\ \A r \in DOMAIN owner : owner'[r] = owner[r]
      /\ \A i \in 1 .. n : owner'[RefAt(i)] = taken[i]
      /\ owner' \in [DOMAIN owner' -> Key \cup {TestKey}]
  <2> DEFINE at(r) == {i \in 1 .. n : RefAt(i) = r}
             D == DOMAIN owner \cup {RefAt(i) : i \in 1 .. n}
  <2>1. owner' = [r \in D |-> IF at(r) = {} THEN owner[r] ELSE taken[CHOOSE i \in at(r) : TRUE]]
    BY DEF AllocRefs
  <2>2. \A r \in DOMAIN owner : at(r) = {}
    BY <1>4
  <2>3. ASSUME NEW i \in 1 .. n PROVE at(RefAt(i)) = {i}
    BY <1>4 DEF RefAt
  <2>4. \A r \in D : at(r) = {} => r \in DOMAIN owner
    OBVIOUS
  <2>5. \A r \in D : at(r) # {} => (CHOOSE i \in at(r) : TRUE) \in 1 .. n
    OBVIOUS
  <2>6. owner \in [DOMAIN owner -> Key \cup {TestKey}]
    BY DEF RefsOK, RefTypes
  <2>7. \A i \in 1 .. n : RefAt(i) \in D /\ at(RefAt(i)) # {}
                          /\ (CHOOSE j \in at(RefAt(i)) : TRUE) = i
    BY <2>3
  <2> HIDE DEF at, D
  <2>8. DOMAIN owner' = D /\ \A r \in DOMAIN owner : r \in D
    BY <2>1 DEF D
  <2>9. \A r \in D : owner'[r] \in Key \cup {TestKey}
    BY <2>1, <2>4, <2>5, <2>6
  <2>10. owner' \in [D -> Key \cup {TestKey}]
    BY <2>1, <2>9
  <2> QED
    BY <2>1, <2>2, <2>7, <2>8, <2>10 DEF D
<1>8. DOMAIN owner' \subseteq 1 .. (RefMod - 1)
  BY <1>4, <1>7 DEF RefsOK, RefTypes
<1>9. RefsFresh'
  <2>0. n = 0 \/ n = 1 \/ n = 2
    OBVIOUS
  <2>1. CASE n = 0
    <3>1. DOMAIN owner' = DOMAIN owner
      <4>1. 1 .. n = {}
        BY <2>1
      <4>2. {RefAt(i) : i \in 1 .. n} = {}
        BY <4>1
      <4> QED
        BY <4>2, <1>7
    <3> QED
      BY <3>1, <2>1, <1>1, <1>2, <1>3 DEF RefsOK, RefsFresh
  <2>2. CASE n = 1
    <3>1. DOMAIN owner' = DOMAIN owner \cup {nextRef}
      BY <2>2, <1>7 DEF RefAt
    <3>2. nextRef' = SuccRef(nextRef)
      BY <2>2, <1>3 DEF RefAt
    <3> QED
      BY <3>1, <3>2, <2>2, <1>1, <1>2 DEF RefsOK, RefsFresh, SuccRef
  <2>3. CASE n = 2
    <3>1. DOMAIN owner' = DOMAIN owner \cup {nextRef, SuccRef(nextRef)}
      BY <2>3, <1>7 DEF RefAt
    <3>2. nextRef' = SuccRef(SuccRef(nextRef))
      BY <2>3, <1>3 DEF RefAt
    <3> QED
      BY <3>1, <3>2, <2>3, <1>1, <1>2 DEF RefsOK, RefsFresh, SuccRef
  <2> QED
    BY <2>0, <2>1, <2>2, <2>3
<1>10. ASSUME HintsTrue PROVE HintsTrue'
  <2> DEFINE hits(h) == {i \in 1 .. n : RefAt(i) % RefRing = h}
             hint(h) == IF 2 \in hits(h) THEN 2 ELSE 1
  <2>1. refs' = [h \in 0 .. (RefRing - 1) |->
                   IF hits(h) = {} THEN refs[h]
                   ELSE [ref |-> RefAt(hint(h)), key |-> taken[hint(h)]]]
    BY DEF AllocRefs
  <2>2. ASSUME NEW h \in 0 .. (RefRing - 1), hits(h) # {} PROVE hint(h) \in 1 .. n
    BY <2>2
  <2> HIDE DEF hits, hint
  <2>3. ASSUME NEW h \in 0 .. (RefRing - 1), refs'[h].ref # 0
        PROVE  refs'[h].ref \in DOMAIN owner' /\ owner'[refs'[h].ref] = refs'[h].key
    <3>1. CASE hits(h) = {}
      BY <3>1, <2>1, <2>3, <1>7, <1>10 DEF HintsTrue
    <3>2. CASE hits(h) # {}
      <4>1. refs'[h] = [ref |-> RefAt(hint(h)), key |-> taken[hint(h)]]
        BY <3>2, <2>1
      <4>2. hint(h) \in 1 .. n
        BY <3>2, <2>2
      <4> QED
        BY <4>1, <4>2, <1>7
    <3> QED
      BY <3>1, <3>2
  <2> QED
    BY <2>3 DEF HintsTrue
<1> QED
  BY <1>1, <1>2, <1>4, <1>5, <1>6, <1>7, <1>8, <1>9, <1>10 DEF RefsOK, RefTypes

-----------------------------------------------------------------------------
(***************************************************************************)
(* reconcile.                                                              *)
(***************************************************************************)

\* The keys that reconcile serves: at most two, and a side that allocates is
\* one of them, at the place that gives it its reference.
LEMMA TakenKeys ==
  ASSUME NEW sym \in Syms, NEW t
  PROVE  \E n \in 0 .. 2 :
           /\ Taken(sym, t) \in [1 .. n -> Key \cup {TestKey}]
           /\ Len(Taken(sym, t)) = n
           /\ \A d \in Sides : Allocates(slots[<<sym, d>>], t[d]) =>
                \E i \in 1 .. n : Taken(sym, t)[i] = <<sym, d>> /\ RefOf(sym, t, d) = RefAt(i)
<1>1. \E d1, d2 \in Sides : d1 # d2 /\ SideOrder(sym, t) = <<d1, d2>> /\ Sides = {d1, d2}
  BY DEF SideOrder, Sides
<1>2. PICK d1 \in Sides, d2 \in Sides : d1 # d2 /\ SideOrder(sym, t) = <<d1, d2>> /\ Sides = {d1, d2}
  BY <1>1
<1> DEFINE a1 == Allocates(slots[<<sym, d1>>], t[d1])
           a2 == Allocates(slots[<<sym, d2>>], t[d2])
           k1 == <<sym, d1>>
           k2 == <<sym, d2>>
<1>3. Taken(sym, t) = IF a1 /\ a2 THEN <<k1, k2>> ELSE IF a1 THEN <<k1>>
                      ELSE IF a2 THEN <<k2>> ELSE << >>
  BY <1>2 DEF Taken
<1>4. k1 \in Key /\ k2 \in Key /\ k1 # k2
  BY <1>2, KeyParts
<1>5. \A d \in Sides : d = d1 \/ d = d2
  BY <1>2
<1> HIDE DEF a1, a2, k1, k2
<1>6. CASE a1 /\ a2
  <2>1. Taken(sym, t) = <<k1, k2>>
    BY <1>3, <1>6
  <2>2. RefOf(sym, t, d1) = RefAt(1) /\ RefOf(sym, t, d2) = RefAt(2)
    BY <2>1, <1>4 DEF RefOf, k1, k2
  <2>3. Taken(sym, t) \in [1 .. 2 -> Key \cup {TestKey}] /\ Len(Taken(sym, t)) = 2
    BY <2>1, <1>4
  <2> QED
    BY <2>1, <2>2, <2>3, <1>5 DEF k1, k2
<1>7. CASE a1 /\ ~a2
  <2>1. Taken(sym, t) = <<k1>>
    BY <1>3, <1>7
  <2>2. RefOf(sym, t, d1) = RefAt(1)
    BY <2>1 DEF RefOf, k1
  <2>3. Taken(sym, t) \in [1 .. 1 -> Key \cup {TestKey}] /\ Len(Taken(sym, t)) = 1
    BY <2>1, <1>4
  <2> QED
    BY <2>1, <2>2, <2>3, <1>5, <1>7 DEF k1, k2, a2
<1>8. CASE ~a1 /\ a2
  <2>1. Taken(sym, t) = <<k2>>
    BY <1>3, <1>8
  <2>2. RefOf(sym, t, d2) = RefAt(1)
    BY <2>1 DEF RefOf, k2
  <2>3. Taken(sym, t) \in [1 .. 1 -> Key \cup {TestKey}] /\ Len(Taken(sym, t)) = 1
    BY <2>1, <1>4
  <2> QED
    BY <2>1, <2>2, <2>3, <1>5, <1>8 DEF k1, k2, a1
<1>9. CASE ~a1 /\ ~a2
  <2>1. Taken(sym, t) = << >>
    BY <1>3, <1>9
  <2>2. Taken(sym, t) \in [1 .. 0 -> Key \cup {TestKey}] /\ Len(Taken(sym, t)) = 0
    BY <2>1
  <2> QED
    BY <2>2, <1>5, <1>9 DEF a1, a2
<1> QED
  BY <1>6, <1>7, <1>8, <1>9

\* The references that reconcile takes for the sides of a symbol are new, and
\* each belongs to its side from then on.
LEMMA ReconcileRefs ==
  ASSUME RefsOK, NEW sym \in Syms, NEW t, AllocRefs(Taken(sym, t))
  PROVE  /\ RefsOK'
         /\ HintsTrue => HintsTrue'
         /\ DOMAIN owner \subseteq DOMAIN owner'
         /\ \A r \in DOMAIN owner : owner'[r] = owner[r]
         /\ \A d \in Sides :
              /\ RefTaken(sym, t, d) \in Nat
              /\ Allocates(slots[<<sym, d>>], t[d]) =>
                   /\ RefTaken(sym, t, d) # 0
                   /\ RefTaken(sym, t, d) \notin DOMAIN owner
                   /\ RefTaken(sym, t, d) \in DOMAIN owner'
                   /\ owner'[RefTaken(sym, t, d)] = <<sym, d>>
<1>1. PICK n \in 0 .. 2 :
        /\ Taken(sym, t) \in [1 .. n -> Key \cup {TestKey}]
        /\ Len(Taken(sym, t)) = n
        /\ \A d \in Sides : Allocates(slots[<<sym, d>>], t[d]) =>
             \E i \in 1 .. n : Taken(sym, t)[i] = <<sym, d>> /\ RefOf(sym, t, d) = RefAt(i)
  BY TakenKeys
<1>3. /\ RefsOK'
      /\ DOMAIN owner' = DOMAIN owner \cup {RefAt(i) : i \in 1 .. n}
      /\ \A r \in DOMAIN owner : owner'[r] = owner[r]
      /\ \A i \in 1 .. n : RefAt(i) \in (1 .. (RefMod - 1)) \ DOMAIN owner
      /\ \A i \in 1 .. n : owner'[RefAt(i)] = Taken(sym, t)[i]
      /\ HintsTrue => HintsTrue'
  BY <1>1, AllocRefsEffect
<1>5. ASSUME NEW d \in Sides
      PROVE  /\ RefTaken(sym, t, d) \in Nat
             /\ Allocates(slots[<<sym, d>>], t[d]) =>
                  /\ RefTaken(sym, t, d) # 0
                  /\ RefTaken(sym, t, d) \notin DOMAIN owner
                  /\ RefTaken(sym, t, d) \in DOMAIN owner'
                  /\ owner'[RefTaken(sym, t, d)] = <<sym, d>>
  <2>1. CASE Allocates(slots[<<sym, d>>], t[d])
    <3>1. PICK i \in 1 .. n : Taken(sym, t)[i] = <<sym, d>> /\ RefOf(sym, t, d) = RefAt(i)
      BY <1>1, <2>1
    <3>2. RefTaken(sym, t, d) = RefAt(i)
      BY <2>1, <3>1 DEF RefTaken
    <3>3. RefAt(i) \in 1 .. (RefMod - 1) /\ RefAt(i) \notin DOMAIN owner
      BY <1>3
    <3>4. RefAt(i) \in Nat /\ RefAt(i) # 0
      BY <3>3, RefModAssumption
    <3>5. RefAt(i) \in DOMAIN owner' /\ owner'[RefAt(i)] = <<sym, d>>
      BY <1>3, <3>1
    <3> QED
      BY <3>2, <3>3, <3>4, <3>5
  <2>2. CASE ~Allocates(slots[<<sym, d>>], t[d])
    BY <2>2 DEF RefTaken
  <2> QED
    BY <2>1, <2>2
<1> QED
  BY <1>3, <1>5

\* The reference of a test order is new, and no slot's.
LEMMA TestOrderRefs ==
  ASSUME RefsOK, AllocRefs(<<TestKey>>)
  PROVE  /\ RefsOK'
         /\ HintsTrue => HintsTrue'
         /\ DOMAIN owner' = DOMAIN owner \cup {nextRef}
         /\ \A r \in DOMAIN owner : owner'[r] = owner[r]
         /\ nextRef \in Nat \ {0} /\ nextRef \notin DOMAIN owner /\ owner'[nextRef] = TestKey
<1> DEFINE taken == <<TestKey>>
           n == 1
<1>1. n \in 0 .. 2 /\ taken \in [1 .. n -> Key \cup {TestKey}] /\ Len(taken) = n /\ taken[1] = TestKey
      /\ 1 .. n = {1}
  OBVIOUS
<1>2. AllocRefs(taken)
  OBVIOUS
<1> HIDE DEF taken, n
<1>3. /\ RefsOK'
      /\ DOMAIN owner' = DOMAIN owner \cup {RefAt(i) : i \in 1 .. n}
      /\ \A r \in DOMAIN owner : owner'[r] = owner[r]
      /\ \A i \in 1 .. n : RefAt(i) \in (1 .. (RefMod - 1)) \ DOMAIN owner
      /\ \A i \in 1 .. n : owner'[RefAt(i)] = taken[i]
      /\ HintsTrue => HintsTrue'
  BY <1>1, <1>2, AllocRefsEffect
<1>4. RefAt(1) = nextRef
  BY DEF RefAt
<1>5. nextRef \in Nat \ {0}
  BY RefModAssumption DEF RefsOK, RefTypes
<1>6. DOMAIN owner' = DOMAIN owner \cup {nextRef}
  BY <1>1, <1>3, <1>4
<1>7. owner'[nextRef] = TestKey /\ nextRef \notin DOMAIN owner
  BY <1>1, <1>3, <1>4
<1> QED
  BY <1>3, <1>5, <1>6, <1>7
=============================================================================
