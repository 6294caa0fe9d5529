------------------------------ MODULE OmsProofs ------------------------------
(***************************************************************************)
(* Proofs about the OrderManager against any venue (OmsAnswers).  The      *)
(* inductive invariant adds to the properties which references have been   *)
(* given out: an interval, before or after the counter has wrapped.        *)
(***************************************************************************)
EXTENDS OmsAnswers, OrderManagerProofs

\* What SlotsWellFormed and RefsBelong say of one slot.
GoodSlot(k, s) ==
  /\ s \in Slot
  /\ (s.state = "Idle") => s = Settled
  /\ (s.state = "PendingReplace") <=> (s.pendingRef # 0)
  /\ (s.state = "Live") => s.leaves > 0
  /\ s.state # "Idle" =>
       /\ s.userRef \in DOMAIN owner /\ owner[s.userRef] = k
       /\ s.pendingRef # 0 =>
            /\ s.pendingRef \in DOMAIN owner /\ owner[s.pendingRef] = k
            /\ s.pendingRef # s.userRef

\* The inductive invariant of the order manager.
IInv == TypeOK /\ SlotsWellFormed /\ RefsBelong /\ RefsFresh

\* The invariant says what the facts about references need.
LEMMA RefsAreOK == ASSUME IInv PROVE RefsOK
BY DEF IInv, TypeOK, RefsOK, RefTypes

\* The invariant, slot by slot.
LEMMA SlotsAreGood == ASSUME IInv PROVE \A k \in Key : GoodSlot(k, slots[k])
BY DEF IInv, TypeOK, SlotsWellFormed, RefsBelong, GoodSlot

\* A freed slot is good for every key.
LEMMA SettledIsGood == ASSUME NEW k \in Key PROVE GoodSlot(k, Settled)
BY DEF GoodSlot, Settled, Slot, States

-----------------------------------------------------------------------------
(***************************************************************************)
(* reconcile.                                                              *)
(***************************************************************************)

\* reconcileSlot turns a good slot into a good one, when the reference it is
\* given is new and its own.
LEMMA SlotAfterIsGood ==
  ASSUME NEW k \in Key, NEW s, GoodSlot(k, s), NEW price \in Nat, NEW ref \in Nat,
         DOMAIN owner \subseteq DOMAIN owner', \A r \in DOMAIN owner : owner'[r] = owner[r],
         Allocates(s, price) => /\ ref # 0 /\ ref \notin DOMAIN owner
                                /\ ref \in DOMAIN owner' /\ owner'[ref] = k
  PROVE  GoodSlot(k, SlotAfter(s, price, ref))'
<1> DEFINE z == SlotAfter(s, price, ref)
<1>0. SlotAfter(s, price, ref)' = SlotAfter(s, price, ref)
  OBVIOUS
<1>1. CASE Decision(s, price) = "Enter"
  <2>1. z = [state |-> "PendingNew", userRef |-> ref, pendingRef |-> 0,
             price |-> price, leaves |-> QuoteQty]
    BY <1>1 DEF SlotAfter
  <2>2. Allocates(s, price)
    BY <1>1 DEF Allocates
  <2> QED
    BY <1>0, <2>1, <2>2, QuoteQtyAssumption DEF GoodSlot, Slot, States
<1>2. CASE Decision(s, price) = "Replace"
  <2>1. z = [s EXCEPT !.state = "PendingReplace", !.pendingRef = ref]
    BY <1>2 DEF SlotAfter
  <2>2. Allocates(s, price) /\ s.state = "Live"
    BY <1>2 DEF Allocates, Decision
  <2>3. s \in Slot /\ s.userRef \in DOMAIN owner /\ owner[s.userRef] = k
    BY <2>2 DEF GoodSlot
  <2>4. z \in Slot /\ z.state = "PendingReplace" /\ z.pendingRef = ref /\ z.userRef = s.userRef
    BY <2>1, <2>3 DEF Slot, States
  <2>5. /\ z.userRef \in DOMAIN owner' /\ owner'[z.userRef] = k
        /\ z.pendingRef \in DOMAIN owner' /\ owner'[z.pendingRef] = k
        /\ z.pendingRef # z.userRef /\ z.pendingRef # 0
    BY <2>2, <2>3, <2>4
  <2> HIDE DEF z
  <2>6. z' = z
    BY DEF z
  <2> QED
    BY <2>4, <2>5, <2>6 DEF GoodSlot, z
<1>3. CASE Decision(s, price) = "Cancel"
  <2>1. z = [s EXCEPT !.state = "PendingCancel"]
    BY <1>3 DEF SlotAfter
  <2>2. s.state = "Live"
    BY <1>3 DEF Decision
  <2> QED
    BY <1>0, <2>1, <2>2 DEF GoodSlot, Slot, States
<1>4. CASE Decision(s, price) \notin {"Enter", "Replace", "Cancel"}
  <2>1. z = s
    BY <1>4 DEF SlotAfter
  <2> QED
    BY <1>0, <2>1 DEF GoodSlot
<1> QED
  BY <1>1, <1>2, <1>3, <1>4

\* When every slot is good, and references and types are, the invariant holds.
LEMMA IInvFromSlots ==
  ASSUME slots' \in [Key -> Slot], \A k \in Key : GoodSlot(k, slots[k])', RefsFresh',
         position' \in [Syms -> Int], nextRef' \in 1 .. (RefMod - 1),
         refs' \in [0 .. (RefRing - 1) -> [ref : 0 .. (RefMod - 1), key : Key \cup {TestKey}]],
         unknown' \in Nat, tests' \in Nat, allocs' \in 0 .. MaxAllocs,
         DOMAIN owner' \subseteq 1 .. (RefMod - 1),
         owner' \in [DOMAIN owner' -> Key \cup {TestKey}], answers' \in Nat
  PROVE  IInv'
<1>1. TypeOK'
  BY DEF TypeOK
<1>2. SlotsWellFormed' /\ RefsBelong'
  BY DEF SlotsWellFormed, RefsBelong, GoodSlot
<1> QED
  BY <1>1, <1>2 DEF IInv

\* reconcile keeps the invariant.
LEMMA QuoteKeepsIInv ==
  ASSUME IInv, NEW sym \in Syms, NEW t \in Targets, Quote(sym, t)
  PROVE  IInv'
<1>1. AllocRefs(Taken(sym, t))
  BY DEF Quote, Reconcile
<1>2. /\ RefsOK'
      /\ DOMAIN owner \subseteq DOMAIN owner'
      /\ \A r \in DOMAIN owner : owner'[r] = owner[r]
      /\ \A d \in Sides :
           /\ RefTaken(sym, t, d) \in Nat
           /\ Allocates(slots[<<sym, d>>], t[d]) =>
                /\ RefTaken(sym, t, d) # 0
                /\ RefTaken(sym, t, d) \notin DOMAIN owner
                /\ RefTaken(sym, t, d) \in DOMAIN owner'
                /\ owner'[RefTaken(sym, t, d)] = <<sym, d>>
  BY <1>1, RefsAreOK, ReconcileRefs
<1>3. /\ allocs' \in 0 .. MaxAllocs
      /\ nextRef' \in 1 .. (RefMod - 1)
      /\ refs' \in [0 .. (RefRing - 1) -> [ref : 0 .. (RefMod - 1), key : Key \cup {TestKey}]]
      /\ DOMAIN owner \subseteq DOMAIN owner'
      /\ owner' \in [DOMAIN owner' -> Key \cup {TestKey}]
      /\ DOMAIN owner' \subseteq 1 .. (RefMod - 1)
      /\ \A r \in DOMAIN owner : owner'[r] = owner[r]
      /\ RefsFresh'
  BY <1>2 DEF RefsOK, RefTypes
<1>6. slots' = [k \in Key |->
                  IF k[1] = sym THEN SlotAfter(slots[k], t[k[2]], RefTaken(sym, t, k[2]))
                  ELSE slots[k]]
  BY DEF Quote, Reconcile
<1>7. ASSUME NEW k \in Key PROVE GoodSlot(k, slots[k])'
  <2>1. GoodSlot(k, slots[k])
    BY SlotsAreGood
  <2>2. CASE k[1] = sym
    <3>1. slots'[k] = SlotAfter(slots[k], t[k[2]], RefTaken(sym, t, k[2]))
      BY <1>6, <2>2
    <3>2. k = <<sym, k[2]>> /\ k[2] \in Sides /\ t[k[2]] \in Nat
      BY <2>2, KeyParts, PricesAssumption DEF Targets, NoQuote
    <3> DEFINE ref == RefTaken(sym, t, k[2])
               s == slots[k]
               price == t[k[2]]
    <3>3. ref \in Nat /\ (Allocates(s, price) => /\ ref # 0 /\ ref \notin DOMAIN owner
                                                 /\ ref \in DOMAIN owner' /\ owner'[ref] = k)
      BY <1>2, <3>2
    <3>4. DOMAIN owner \subseteq DOMAIN owner'
      BY <1>3
    <3>5. GoodSlot(k, s) /\ price \in Nat /\ \A r \in DOMAIN owner : owner'[r] = owner[r]
      BY <2>1, <3>2, <1>3
    <3> HIDE DEF ref, s, price
    <3> QED
      BY <3>1, <3>3, <3>4, <3>5, SlotAfterIsGood DEF ref, s, price
  <2>3. CASE k[1] # sym
    <3>1. slots'[k] = slots[k]
      BY <1>6, <2>3
    <3> QED
      BY <3>1, <2>1, <1>3 DEF GoodSlot
  <2> QED
    BY <2>2, <2>3
<1>8. slots' \in [Key -> Slot]
  BY <1>6, <1>7 DEF GoodSlot
<1>9. position' \in [Syms -> Int] /\ unknown' \in Nat /\ tests' \in Nat /\ answers' \in Nat
  BY DEF Quote, Reconcile, IInv, TypeOK
<1> QED
  BY <1>3, <1>7, <1>8, <1>9, IInvFromSlots

\* A test order takes a reference that no slot will use.
LEMMA TestOrderKeepsIInv == ASSUME IInv, TestOrder PROVE IInv'
<1>1. AllocRefs(<<TestKey>>)
  BY DEF TestOrder, EncodeTestOrder
<1>2. RefsOK' /\ DOMAIN owner' = DOMAIN owner \cup {nextRef} /\ \A r \in DOMAIN owner : owner'[r] = owner[r]
  BY <1>1, RefsAreOK, TestOrderRefs
<1>3. /\ allocs' \in 0 .. MaxAllocs
      /\ nextRef' \in 1 .. (RefMod - 1)
      /\ refs' \in [0 .. (RefRing - 1) -> [ref : 0 .. (RefMod - 1), key : Key \cup {TestKey}]]
      /\ DOMAIN owner \subseteq DOMAIN owner'
      /\ owner' \in [DOMAIN owner' -> Key \cup {TestKey}]
      /\ DOMAIN owner' \subseteq 1 .. (RefMod - 1)
      /\ \A r \in DOMAIN owner : owner'[r] = owner[r]
      /\ RefsFresh'
  BY <1>2 DEF RefsOK, RefTypes
<1>4. slots' = slots /\ slots \in [Key -> Slot]
  BY DEF TestOrder, EncodeTestOrder, IInv, TypeOK
<1>5. ASSUME NEW k \in Key PROVE GoodSlot(k, slots[k])'
  BY <1>3, <1>4, SlotsAreGood DEF GoodSlot
<1>6. position' \in [Syms -> Int] /\ unknown' \in Nat /\ tests' \in Nat /\ answers' \in Nat
  BY DEF TestOrder, EncodeTestOrder, IInv, TypeOK
<1> QED
  BY <1>3, <1>4, <1>5, <1>6, IInvFromSlots

-----------------------------------------------------------------------------
(***************************************************************************)
(* onAck.                                                                  *)
(***************************************************************************)

\* slotByRef and slotByPending find the slot the reference was given out for.
LEMMA FoundSlots ==
  ASSUME IInv, NEW ref
  PROVE  /\ \A k \in SlotByRef(ref) :
              /\ k \in Key /\ slots[k].state # "Idle" /\ slots[k].userRef = ref
              /\ ref \in DOMAIN owner /\ owner[ref] = k
         /\ \A k \in SlotByPending(ref) :
              /\ k \in Key /\ slots[k].state = "PendingReplace" /\ slots[k].pendingRef = ref
              /\ ref \in DOMAIN owner /\ owner[ref] = k
<1>1. ASSUME NEW k \in SlotByRef(ref)
      PROVE  k \in Key /\ slots[k].state # "Idle" /\ slots[k].userRef = ref
  BY <1>1 DEF SlotByRef
<1>2. ASSUME NEW k \in SlotByPending(ref)
      PROVE  k \in Key /\ slots[k].state = "PendingReplace" /\ slots[k].pendingRef = ref
  BY <1>2 DEF SlotByPending
<1>3. ASSUME NEW k \in SlotByRef(ref) PROVE ref \in DOMAIN owner /\ owner[ref] = k
  BY <1>1, SlotsAreGood DEF GoodSlot
<1>4. ASSUME NEW k \in SlotByPending(ref) PROVE ref \in DOMAIN owner /\ owner[ref] = k
  BY <1>2, SlotsAreGood DEF GoodSlot
<1> QED
  BY <1>1, <1>2, <1>3, <1>4

\* What every answer does: it changes at most the slot its reference was given
\* out for, into a good one, and the position only by a fill of that slot.
Effect(a) ==
  /\ \/ slots' = slots /\ position' = position
     \/ \E k \in Key, s \in Slot :
          /\ a.ref \in DOMAIN owner /\ owner[a.ref] = k
          /\ GoodSlot(k, s)
          /\ slots' = [slots EXCEPT ![k] = s]
          /\ \/ position' = position
             \/ /\ a.type = "Executed"
                /\ position' = [position EXCEPT ![k[1]] = @ + Signed(k[2], a.qty)]
  /\ unknown' \in Nat
  /\ tests' \in Nat

\* Answers that only count.
LEMMA CountingAnswers ==
  ASSUME IInv, NEW a, UnknownAck \/ TestAck PROVE Effect(a)
BY DEF IInv, TypeOK, UnknownAck, TestAck, Effect

\* Answers that set one slot.
LEMMA SettingAnswers ==
  ASSUME IInv, NEW a, NEW k \in SlotByRef(a.ref) \cup SlotByPending(a.ref), NEW s,
         GoodSlot(k, s), SetSlot(k, s)
  PROVE  Effect(a)
<1>1. k \in Key /\ a.ref \in DOMAIN owner /\ owner[a.ref] = k /\ s \in Slot
  BY FoundSlots DEF GoodSlot
<1>2. position' = position /\ unknown' \in Nat /\ tests' \in Nat
  BY DEF SetSlot, IInv, TypeOK
<1>3. slots' = [slots EXCEPT ![k] = s]
  BY DEF SetSlot
<1> QED
  BY <1>1, <1>2, <1>3 DEF Effect

\* A slot whose order is still there, or gone, after a refused request.
LEMMA ResumeIsGood ==
  ASSUME NEW k \in Key, NEW s, GoodSlot(k, s), s.state # "Idle" PROVE GoodSlot(k, Resume(s))
<1>1. CASE s.leaves > 0
  <2> DEFINE z == [s EXCEPT !.state = "Live", !.pendingRef = 0]
  <2>1. Resume(s) = z
    BY <1>1 DEF Resume
  <2>2. s \in Slot /\ s.userRef \in DOMAIN owner /\ owner[s.userRef] = k
    BY DEF GoodSlot
  <2>3. z \in Slot /\ z.state = "Live" /\ z.pendingRef = 0 /\ z.userRef = s.userRef
        /\ z.leaves = s.leaves
    BY <2>2 DEF Slot, States
  <2> HIDE DEF z
  <2> QED
    BY <1>1, <2>1, <2>2, <2>3 DEF GoodSlot
<1>2. CASE ~(s.leaves > 0)
  BY <1>2, SettledIsGood DEF Resume
<1> QED
  BY <1>1, <1>2

\* A slot that loses shares keeps its state, and stays good unless it is live
\* and empty.
LEMMA LosingSharesIsGood ==
  ASSUME NEW k \in Key, NEW s, GoodSlot(k, s), s.state # "Idle", NEW q \in Nat \ {0},
         NEW z, z = [s EXCEPT !.leaves = Less(@, q)]
  PROVE  /\ z.state = s.state /\ z.leaves \in Nat
         /\ ~(z.leaves = 0 /\ z.state = "Live") => GoodSlot(k, z)
         /\ z.leaves # 0 /\ z.state = "PendingNew" => GoodSlot(k, [z EXCEPT !.state = "Live"])
<1>1. /\ s \in Slot /\ s.userRef \in DOMAIN owner /\ owner[s.userRef] = k
      /\ (s.state = "PendingReplace") <=> (s.pendingRef # 0)
      /\ s.pendingRef # 0 => /\ s.pendingRef \in DOMAIN owner /\ owner[s.pendingRef] = k
                             /\ s.pendingRef # s.userRef
  BY DEF GoodSlot
<1>2. s.leaves \in Nat /\ Less(s.leaves, q) \in Nat
  BY <1>1 DEF Slot, Less
<1>3. /\ z \in Slot /\ z.state = s.state /\ z.userRef = s.userRef
      /\ z.pendingRef = s.pendingRef /\ z.leaves \in Nat
  BY <1>1, <1>2 DEF Slot
<1>4. ~(z.leaves = 0 /\ z.state = "Live") => GoodSlot(k, z)
  BY <1>1, <1>3 DEF GoodSlot
<1>5. ASSUME z.leaves # 0, z.state = "PendingNew"
      PROVE  GoodSlot(k, [z EXCEPT !.state = "Live"])
  <2> DEFINE l == [z EXCEPT !.state = "Live"]
  <2>1. /\ l \in Slot /\ l.state = "Live" /\ l.userRef = z.userRef
        /\ l.pendingRef = z.pendingRef /\ l.leaves = z.leaves
    BY <1>3 DEF Slot, States
  <2>2. z.pendingRef = 0
    BY <1>1, <1>3, <1>5
  <2> HIDE DEF l
  <2>3. GoodSlot(k, l)
    BY <1>1, <1>3, <1>5, <2>1, <2>2 DEF GoodSlot
  <2> QED
    BY <2>3 DEF l
<1> QED
  BY <1>3, <1>4, <1>5

\* The numbers of an answer.
LEMMA AnswerParts ==
  \A a \in Answers : /\ a.qty \in Nat \ {0} /\ a.qty > 0
                     /\ a.price \in Nat /\ a.ref \in Nat
<1>1. ASSUME NEW a \in Answers PROVE a.qty \in AckQtys /\ a.price \in Prices /\ a.ref \in 0 .. (RefMod - 1)
  BY DEF Answers
<1>2. ASSUME NEW q \in AckQtys PROVE q \in Nat \ {0} /\ q > 0
  BY AckQtysAssumption
<1>3. ASSUME NEW p \in Prices PROVE p \in Nat
  BY PricesAssumption
<1>4. ASSUME NEW r \in 0 .. (RefMod - 1) PROVE r \in Nat
  BY RefModAssumption
<1> QED
  BY <1>1, <1>2, <1>3, <1>4

\* Accepted: the slot is live with the venue's quantity, or freed.
LEMMA AcceptedEffect ==
  ASSUME IInv, NEW a \in Answers, OnAccepted(a) PROVE Effect(a)
<1>1. CASE UnknownAck \/ TestAck
  BY <1>1, CountingAnswers
<1>2. ASSUME NEW k \in SlotByRef(a.ref), slots[k].state = "PendingNew",
             SetSlot(k, IF a.dead THEN Settled
                        ELSE [slots[k] EXCEPT !.state = "Live", !.leaves = a.qty])
      PROVE  Effect(a)
  <2>1. k \in Key /\ GoodSlot(k, slots[k])
    BY FoundSlots, SlotsAreGood
  <2>2. CASE a.dead
    BY <1>2, <2>1, <2>2, SettledIsGood, SettingAnswers
  <2>3. CASE ~a.dead
    <3> DEFINE z == [slots[k] EXCEPT !.state = "Live", !.leaves = a.qty]
    <3>1. a.qty \in Nat /\ a.qty > 0
      BY AnswerParts
    <3>2. slots[k] \in Slot /\ slots[k].userRef \in DOMAIN owner /\ owner[slots[k].userRef] = k
          /\ slots[k].pendingRef = 0
      BY <1>2, <2>1 DEF GoodSlot
    <3>3. /\ z \in Slot /\ z.state = "Live" /\ z.userRef = slots[k].userRef
          /\ z.pendingRef = 0 /\ z.leaves = a.qty
      BY <3>1, <3>2 DEF Slot, States
    <3>4. SetSlot(k, z)
      BY <1>2, <2>3
    <3> HIDE DEF z
    <3>5. GoodSlot(k, z)
      BY <3>1, <3>2, <3>3 DEF GoodSlot
    <3> QED
      BY <3>4, <3>5, SettingAnswers
  <2> QED
    BY <2>2, <2>3
<1> QED
  BY <1>1, <1>2 DEF OnAccepted

\* Replaced: the slot works the reference it was waiting for, or is freed.
LEMMA ReplacedEffect ==
  ASSUME IInv, NEW a \in Answers, OnReplaced(a) PROVE Effect(a)
<1>1. CASE UnknownAck
  BY <1>1, CountingAnswers
<1>2. ASSUME NEW k \in SlotByPending(a.ref),
             SetSlot(k, IF a.dead THEN Settled
                        ELSE [state |-> "Live", userRef |-> a.ref, pendingRef |-> 0,
                              price |-> a.price, leaves |-> a.qty])
      PROVE  Effect(a)
  <2>1. k \in Key /\ a.ref \in DOMAIN owner /\ owner[a.ref] = k
    BY FoundSlots
  <2>2. CASE a.dead
    BY <1>2, <2>1, <2>2, SettledIsGood, SettingAnswers
  <2>3. CASE ~a.dead
    <3> DEFINE z == [state |-> "Live", userRef |-> a.ref, pendingRef |-> 0,
                     price |-> a.price, leaves |-> a.qty]
    <3>1. a.qty \in Nat /\ a.qty > 0 /\ a.price \in Nat /\ a.ref \in Nat
      BY AnswerParts
    <3>2. GoodSlot(k, z)
      BY <2>1, <3>1 DEF GoodSlot, Slot, States
    <3>3. SetSlot(k, z)
      BY <1>2, <2>3
    <3> HIDE DEF z
    <3> QED
      BY <3>2, <3>3, SettingAnswers
  <2> QED
    BY <2>2, <2>3
<1> QED
  BY <1>1, <1>2 DEF OnReplaced

\* Executed: the slot loses shares, and is freed when it is live and empty.
LEMMA ExecutedEffect ==
  ASSUME IInv, NEW a \in Answers, a.type = "Executed", OnExecuted(a) PROVE Effect(a)
<1>1. CASE UnknownAck
  BY <1>1, CountingAnswers
<1>2. ASSUME NEW k \in SlotByRef(a.ref), NEW s, s = [slots[k] EXCEPT !.leaves = Less(@, a.qty)],
             slots' = [slots EXCEPT ![k] = IF s.leaves = 0 /\ s.state = "Live"
                                           THEN Settled ELSE s],
             position' = [position EXCEPT ![k[1]] = @ + Signed(k[2], a.qty)],
             unknown' = unknown, tests' = tests
      PROVE  Effect(a)
  <2>1. /\ k \in Key /\ GoodSlot(k, slots[k]) /\ slots[k].state # "Idle"
        /\ a.ref \in DOMAIN owner /\ owner[a.ref] = k
    BY FoundSlots, SlotsAreGood
  <2>2. a.qty \in Nat \ {0}
    BY AnswerParts
  <2>3. ~(s.leaves = 0 /\ s.state = "Live") => GoodSlot(k, s)
    <3> DEFINE o == slots[k]
    <3>1. k \in Key /\ GoodSlot(k, o) /\ o.state # "Idle"
      BY <2>1
    <3>2. s = [o EXCEPT !.leaves = Less(@, a.qty)]
      BY <1>2
    <3> HIDE DEF o
    <3> QED
      BY ONLY <3>1, <3>2, <2>2, LosingSharesIsGood
  <2> DEFINE z == IF s.leaves = 0 /\ s.state = "Live" THEN Settled ELSE s
  <2>4. GoodSlot(k, z)
    BY <2>1, <2>3, SettledIsGood
  <2>5. slots' = [slots EXCEPT ![k] = z]
    BY <1>2
  <2>6. unknown' \in Nat /\ tests' \in Nat
    BY <1>2 DEF IInv, TypeOK
  <2> HIDE DEF z
  <2>7. z \in Slot
    BY <2>4 DEF GoodSlot
  <2> QED
    BY <1>2, <2>1, <2>4, <2>5, <2>6, <2>7 DEF Effect
<1> QED
  BY <1>1, <1>2 DEF OnExecuted

\* Canceled: the slot loses shares, and is freed when nothing is left of it or
\* its cancel was asked for.
LEMMA CanceledEffect ==
  ASSUME IInv, NEW a \in Answers, OnCanceled(a) PROVE Effect(a)
<1>1. CASE UnknownAck
  BY <1>1, CountingAnswers
<1>2. ASSUME NEW k \in SlotByRef(a.ref), NEW s, s = [slots[k] EXCEPT !.leaves = Less(@, a.qty)],
             SetSlot(k, IF s.leaves = 0 \/ s.state = "PendingCancel" THEN Settled
                        ELSE IF s.state = "PendingNew" THEN [s EXCEPT !.state = "Live"]
                        ELSE s)
      PROVE  Effect(a)
  <2>1. k \in Key /\ GoodSlot(k, slots[k]) /\ slots[k].state # "Idle"
    BY FoundSlots, SlotsAreGood
  <2>2. a.qty \in Nat \ {0}
    BY AnswerParts
  <2>3. /\ ~(s.leaves = 0 /\ s.state = "Live") => GoodSlot(k, s)
        /\ s.leaves # 0 /\ s.state = "PendingNew" => GoodSlot(k, [s EXCEPT !.state = "Live"])
    BY <1>2, <2>1, <2>2, LosingSharesIsGood
  <2> DEFINE z == IF s.leaves = 0 \/ s.state = "PendingCancel" THEN Settled
                  ELSE IF s.state = "PendingNew" THEN [s EXCEPT !.state = "Live"]
                  ELSE s
  <2>4. GoodSlot(k, z)
    BY <2>1, <2>3, SettledIsGood
  <2>5. SetSlot(k, z)
    BY <1>2
  <2> HIDE DEF z
  <2> QED
    BY <2>4, <2>5, SettingAnswers
<1> QED
  BY <1>1, <1>2 DEF OnCanceled

\* Rejected: a refused replacement resumes the order, a refused order is gone.
LEMMA RejectedEffect ==
  ASSUME IInv, NEW a \in Answers, OnRejected(a) PROVE Effect(a)
<1>1. CASE UnknownAck \/ TestAck
  BY <1>1, CountingAnswers
<1>2. ASSUME NEW k \in SlotByPending(a.ref), SetSlot(k, Resume(slots[k])) PROVE Effect(a)
  <2>1. k \in Key /\ GoodSlot(k, slots[k]) /\ slots[k].state # "Idle"
    BY FoundSlots, SlotsAreGood
  <2>2. GoodSlot(k, Resume(slots[k]))
    BY <2>1, ResumeIsGood
  <2> QED
    BY <1>2, <2>2, SettingAnswers
<1>3. ASSUME NEW k \in SlotByRef(a.ref), SetSlot(k, Settled) PROVE Effect(a)
  BY <1>3, FoundSlots, SettledIsGood, SettingAnswers
<1> QED
  BY <1>1, <1>2, <1>3 DEF OnRejected

\* CancelReject: the order resumes, if it had shares left.
LEMMA CancelRejectEffect ==
  ASSUME IInv, NEW a \in Answers, OnCancelReject(a) PROVE Effect(a)
<1>1. CASE UnknownAck
  BY <1>1, CountingAnswers
<1>2. ASSUME NEW k \in SlotByRef(a.ref), SetSlot(k, Resume(slots[k])) PROVE Effect(a)
  <2>1. k \in Key /\ GoodSlot(k, slots[k]) /\ slots[k].state # "Idle"
    BY FoundSlots, SlotsAreGood
  <2>2. GoodSlot(k, Resume(slots[k]))
    BY <2>1, ResumeIsGood
  <2> QED
    BY <1>2, <2>2, SettingAnswers
<1> QED
  BY <1>1, <1>2 DEF OnCancelReject

\* Every handler of onAck.
LEMMA AnswerEffect ==
  ASSUME IInv, NEW a \in Answers, Answer(a)
  PROVE  Effect(a) /\ answers' = answers + 1 /\ UNCHANGED <<nextRef, refs, allocs, owner>>
<1>1. OnAck(a) /\ answers' = answers + 1
  BY DEF Answer
<1>2. Effect(a)
  BY <1>1, AcceptedEffect, ReplacedEffect, ExecutedEffect, CanceledEffect, RejectedEffect,
     CancelRejectEffect DEF OnAck
<1> QED
  BY <1>1, <1>2 DEF OnAck

\* An answer keeps the invariant.
LEMMA AnswerKeepsIInv ==
  ASSUME IInv, NEW a \in Answers, Answer(a) PROVE IInv'
<1>1. /\ Effect(a) /\ answers' = answers + 1 /\ nextRef' = nextRef /\ refs' = refs
      /\ allocs' = allocs /\ owner' = owner
  BY AnswerEffect
<1>2. /\ slots \in [Key -> Slot] /\ position \in [Syms -> Int] /\ answers \in Nat
      /\ nextRef \in 1 .. (RefMod - 1) /\ allocs \in 0 .. MaxAllocs
      /\ refs \in [0 .. (RefRing - 1) -> [ref : 0 .. (RefMod - 1), key : Key \cup {TestKey}]]
      /\ DOMAIN owner \subseteq 1 .. (RefMod - 1)
      /\ owner \in [DOMAIN owner -> Key \cup {TestKey}]
  BY DEF IInv, TypeOK
<1>3. unknown' \in Nat /\ tests' \in Nat /\ answers' \in Nat
  BY <1>1, <1>2 DEF Effect
<1>4. ASSUME NEW k \in Key, NEW s, GoodSlot(k, s), owner' = owner PROVE GoodSlot(k, s)'
  BY <1>4 DEF GoodSlot
<1>5. RefsFresh'
  BY <1>1 DEF IInv, RefsFresh
<1>6. \A k \in Key : GoodSlot(k, slots[k])
  BY SlotsAreGood
<1>7. CASE slots' = slots /\ position' = position
  <2>1. \A k \in Key : GoodSlot(k, slots[k])'
    BY <1>1, <1>6, <1>7 DEF GoodSlot
  <2> QED
    BY <1>1, <1>2, <1>3, <1>5, <1>7, <2>1, IInvFromSlots
<1>8. ASSUME NEW k \in Key, NEW s \in Slot, GoodSlot(k, s), slots' = [slots EXCEPT ![k] = s],
             \/ position' = position
             \/ position' = [position EXCEPT ![k[1]] = @ + Signed(k[2], a.qty)]
      PROVE  IInv'
  <2>1. slots' \in [Key -> Slot]
    BY <1>2, <1>8
  <2>2. ASSUME NEW j \in Key PROVE GoodSlot(j, slots[j])'
    <3>1. CASE j = k
      BY <1>1, <1>2, <1>8, <3>1 DEF GoodSlot
    <3>2. CASE j # k
      BY <1>1, <1>2, <1>6, <1>8, <3>2 DEF GoodSlot
    <3> QED
      BY <3>1, <3>2
  <2>3. k[1] \in Syms /\ Signed(k[2], a.qty) \in Int
    <3>1. a.qty \in Nat
      BY AnswerParts
    <3> QED
      BY <3>1, KeyParts DEF Signed
  <2>4. position' \in [Syms -> Int]
    BY <1>2, <1>8, <2>3
  <2> QED
    BY <1>1, <1>2, <1>3, <1>5, <2>1, <2>2, <2>4, IInvFromSlots
<1> QED
  BY <1>1, <1>7, <1>8 DEF Effect

-----------------------------------------------------------------------------
(***************************************************************************)
(* The theorems.                                                           *)
(***************************************************************************)

LEMMA InitIInv == ASSUME Init PROVE IInv
<1>1. /\ Settled \in Slot /\ <<FirstSym, "Buy">> \in Key
  <2>1. FirstSym \in Syms
    BY SymsAssumption DEF FirstSym
  <2> QED
    BY <2>1, KeyParts DEF Settled, Slot, States, Sides
<1>2. TypeOK
  <2>1. slots \in [Key -> Slot] /\ position \in [Syms -> Int]
    BY <1>1 DEF Init, OmsInit
  <2>2. refs \in [0 .. (RefRing - 1) -> [ref : 0 .. (RefMod - 1), key : Key \cup {TestKey}]]
    BY <1>1, RefModAssumption DEF Init, OmsInit
  <2>3. nextRef \in 1 .. (RefMod - 1) /\ allocs \in 0 .. MaxAllocs
    BY FirstRefAssumption, MaxAllocsAssumption, RefModAssumption DEF Init, OmsInit
  <2>4. DOMAIN owner = {} /\ owner \in [DOMAIN owner -> Key \cup {TestKey}]
    BY DEF Init, OmsInit
  <2>5. unknown \in Nat /\ tests \in Nat /\ answers \in Nat
    BY DEF Init, OmsInit
  <2> QED
    BY <2>1, <2>2, <2>3, <2>4, <2>5 DEF TypeOK
<1>3. \A k \in Key : slots[k] = Settled
  BY DEF Init, OmsInit
<1>4. SlotsWellFormed /\ RefsBelong
  BY <1>3 DEF SlotsWellFormed, RefsBelong, Settled
<1>5. RefsFresh
  BY FirstRefAssumption, RefModAssumption DEF Init, OmsInit, RefsFresh
<1> QED
  BY <1>2, <1>4, <1>5 DEF IInv

LEMMA StutterIInv == ASSUME IInv, UNCHANGED vars PROVE IInv'
BY DEF IInv, TypeOK, SlotsWellFormed, RefsBelong, RefsFresh, vars, omsVars

LEMMA NextIInv == ASSUME IInv, [Next]_vars PROVE IInv'
BY QuoteKeepsIInv, TestOrderKeepsIInv, AnswerKeepsIInv, StutterIInv DEF Next

\* The inductive invariant holds in every reachable state.
THEOREM OmsInvariant == Spec => []IInv
<1>1. Init => IInv
  BY InitIInv
<1>2. IInv /\ [Next]_vars => IInv'
  BY NextIInv
<1> QED
  BY <1>1, <1>2, PTL DEF Spec

\* The fields of the order manager keep their types, the counter of user
\* references never being zero.
THEOREM OmsTypes == Spec => []TypeOK
<1>1. IInv => TypeOK
  BY DEF IInv
<1> QED
  BY <1>1, OmsInvariant, PTL

\* Whatever a venue answers to whatever is quoted, no slot is left in a mixed
\* state: an idle one is blank, a pending reference is there exactly while a
\* replacement is awaited, a live one has shares left.
THEOREM OmsSlotsWellFormed == Spec => []SlotsWellFormed
<1>1. IInv => SlotsWellFormed
  BY DEF IInv
<1> QED
  BY <1>1, OmsInvariant, PTL

\* A slot works, or waits for, only references that allocRef gave out for it,
\* also after the counter has wrapped, for up to RefMod - 1 allocations.
THEOREM OmsRefsBelong == Spec => []RefsBelong
<1>1. IInv => RefsBelong
  BY DEF IInv
<1> QED
  BY <1>1, OmsInvariant, PTL

\* An answer changes at most the slot its reference was given out for, and the
\* position only by a fill of that slot, whatever the ring holds.
THEOREM OmsAnswersStayHome == Spec => AnswersStayHome
<1> DEFINE Home(a) ==
      /\ \A k \in Key : slots'[k] # slots[k] => a.ref \in DOMAIN owner /\ owner[a.ref] = k
      /\ \A s \in Syms : position'[s] # position[s] =>
           /\ a.type = "Executed"
           /\ a.ref \in DOMAIN owner /\ owner[a.ref][1] = s
           /\ position'[s] = position[s] + Signed(owner[a.ref][2], a.qty)
<1>1. ASSUME IInv, NEW a \in Answers, Answer(a) PROVE Home(a)
  <2>1. Effect(a)
    BY <1>1, AnswerEffect
  <2>2. slots \in [Key -> Slot] /\ position \in [Syms -> Int]
    BY <1>1 DEF IInv, TypeOK
  <2>3. CASE slots' = slots /\ position' = position
    BY <2>3
  <2>4. ASSUME NEW k \in Key, NEW s \in Slot, a.ref \in DOMAIN owner, owner[a.ref] = k,
               slots' = [slots EXCEPT ![k] = s],
               \/ position' = position
               \/ /\ a.type = "Executed"
                  /\ position' = [position EXCEPT ![k[1]] = @ + Signed(k[2], a.qty)]
        PROVE  Home(a)
    <3>1. \A j \in Key : slots'[j] # slots[j] => j = k
      BY <2>2, <2>4
    <3>2. \A y \in Syms : position'[y] # position[y] =>
            a.type = "Executed" /\ y = k[1] /\ position'[y] = position[y] + Signed(k[2], a.qty)
      BY <2>2, <2>4
    <3> QED
      BY <2>4, <3>1, <3>2
  <2> QED
    BY <2>1, <2>3, <2>4 DEF Effect
<1> HIDE DEF Home
<1>2. IInv => \A a \in Answers : Answer(a) => Home(a)
  BY <1>1
<1>3. IInv /\ [Next]_vars => [\A a \in Answers : Answer(a) => Home(a)]_vars
  BY <1>2
<1> QED
  BY <1>3, OmsInvariant, PTL DEF Spec, AnswersStayHome, Home
=============================================================================
