----------------------------- MODULE OmsAnswers -----------------------------
(***************************************************************************)
(* The OrderManager against any venue: targets of any strategy, and any    *)
(* sequence of OUCH answers with any reference, sent or not.  A venue that *)
(* answers late, twice, for the wrong order or for an order of an earlier  *)
(* session is one of them.                                                 *)
(***************************************************************************)
EXTENDS OrderManager

CONSTANTS
  Prices,     \* the prices of targets and answers
  AckQtys,    \* the quantities of answers
  MaxAnswers  \* bound: answers handled

ASSUME PricesAssumption == Prices \subseteq Nat \ {0}
ASSUME AckQtysAssumption == AckQtys \subseteq Nat \ {0}

VARIABLE answers    \* answers handled

vars == <<omsVars, answers>>

Targets == [Sides -> Prices \cup {NoQuote}]
Answers == [type : AckTypes, ref : 0 .. (RefMod - 1), qty : AckQtys, price : Prices,
            dead : BOOLEAN]

Quote(sym, t) == Reconcile(sym, t) /\ UNCHANGED answers

TestOrder == EncodeTestOrder /\ UNCHANGED answers

Answer(a) ==
  /\ answers < MaxAnswers
  /\ answers' = answers + 1
  /\ OnAck(a)

Init == OmsInit /\ answers = 0

Next ==
  \/ \E sym \in Syms, t \in Targets : Quote(sym, t)
  \/ TestOrder
  \/ \E a \in Answers : Answer(a)

Spec == Init /\ [][Next]_vars

-----------------------------------------------------------------------------
(***************************************************************************)
(* Properties.                                                             *)
(***************************************************************************)

\* Every variable has the type of the field it stands for.
TypeOK ==
  /\ slots \in [Key -> Slot]
  /\ position \in [Syms -> Int]
  /\ nextRef \in 1 .. (RefMod - 1)
  /\ refs \in [0 .. (RefRing - 1) -> [ref : 0 .. (RefMod - 1), key : Key \cup {TestKey}]]
  /\ unknown \in Nat
  /\ tests \in Nat
  /\ allocs \in 0 .. MaxAllocs
  /\ DOMAIN owner \subseteq 1 .. (RefMod - 1)
  /\ owner \in [DOMAIN owner -> Key \cup {TestKey}]
  /\ answers \in Nat

\* No sequence of answers leaves a slot in a mixed state: an idle slot is
\* blank, a pending reference is there exactly while a replacement is awaited,
\* and a live slot has shares left, so that the next reconcile can act on it.
SlotsWellFormed ==
  \A k \in Key :
    /\ (slots[k].state = "Idle") => slots[k] = Settled
    /\ (slots[k].state = "PendingReplace") <=> (slots[k].pendingRef # 0)
    /\ (slots[k].state = "Live") => slots[k].leaves > 0

\* A slot only ever works, or waits for, a reference that allocRef gave out for
\* that slot: two slots never share one, also after the counter has wrapped,
\* and a slot never waits for the reference it is working.
RefsBelong ==
  \A k \in Key :
    slots[k].state # "Idle" =>
      /\ slots[k].userRef \in DOMAIN owner /\ owner[slots[k].userRef] = k
      /\ slots[k].pendingRef # 0 =>
           /\ slots[k].pendingRef \in DOMAIN owner /\ owner[slots[k].pendingRef] = k
           /\ slots[k].pendingRef # slots[k].userRef

\* An answer only changes the slot its reference was allocated for, and the
\* position only of that slot's symbol, by the quantity of an Executed and in
\* the direction of that slot's side, although slotByRef starts from a ring
\* entry that may belong to another order.
AnswersStayHome ==
  [][\A a \in Answers : Answer(a) =>
       /\ \A k \in Key : slots'[k] # slots[k] =>
            a.ref \in DOMAIN owner /\ owner[a.ref] = k
       /\ \A s \in Syms : position'[s] # position[s] =>
            /\ a.type = "Executed"
            /\ a.ref \in DOMAIN owner /\ owner[a.ref][1] = s
            /\ position'[s] = position[s] + Signed(owner[a.ref][2], a.qty)]_vars
=============================================================================
