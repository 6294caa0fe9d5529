---------------------------- MODULE OrderManager ----------------------------
(***************************************************************************)
(* OrderManager (OMS): the quoting side of the device under test.  It keeps *)
(* one quote slot per symbol and side, turns the quotes the strategy wants *)
(* into OUCH requests (reconcile), and follows the venue's answers (onAck).*)
(*                                                                         *)
(* reconcile receives a target [Buy |-> p, Sell |-> q] of prices; NoQuote  *)
(* stands for "pull that side", which is also what a zero quantity means,  *)
(* and every other price asks for QuoteQty shares, the strategy's size.    *)
(* QuoteSlot::qty is written and never read, so only leaves is kept.  Of   *)
(* the statistics, "unknown" and "tests" are kept: they say which answers  *)
(* had an effect.                                                          *)
(***************************************************************************)
EXTENDS Ouch, FiniteSets

CONSTANTS
  QuoteQty,   \* the quoted size
  RefMod,     \* user reference numbers are 32 bits wide: RefMod stands for 2^32
  RefRing,    \* kRefRing, the size of m_refs
  FirstRef,   \* OmsConfig::firstUserRef
  MaxAllocs   \* bound: user reference numbers allocated

ASSUME QuoteQtyAssumption == QuoteQty \in Nat \ {0}
ASSUME RefModAssumption == RefMod \in Nat /\ RefMod >= 2
ASSUME RefRingAssumption == RefRing \in Nat \ {0}
ASSUME FirstRefAssumption == FirstRef \in 1 .. (RefMod - 1)
ASSUME MaxAllocsAssumption == MaxAllocs \in 0 .. (RefMod - 1)

VARIABLES
  slots,      \* m_slots, by symbol and side
  position,   \* m_acct[sym].position
  nextRef,    \* m_nextUserRef
  refs,       \* m_refs: a ring of hints from a user reference to its slot
  unknown,    \* OmsStats::unknown
  tests,      \* OmsStats::tests
  allocs,     \* history: references allocated
  owner       \* history: which slot, or TestKey, each reference was allocated for

omsVars == <<slots, position, nextRef, refs, unknown, tests, allocs, owner>>

NoQuote == 0

States == {"Idle", "PendingNew", "Live", "PendingReplace", "PendingCancel"}
Slot == [state : States, userRef : Nat, pendingRef : Nat, price : Nat, leaves : Nat]

-----------------------------------------------------------------------------
(***************************************************************************)
(* User references.                                                        *)
(***************************************************************************)

\* Mutant of SuccRef: the 32-bit counter wraps to zero.
SuccRefWrapsToZero(r) == (r + 1) % RefMod

\* The increment of m_nextUserRef in allocRef; zero is skipped.
SuccRef(r) == IF r + 1 = RefMod THEN 1 ELSE r + 1

\* Mutant of RefAt: both sides of a symbol are given the same reference.
RefAtSame(i) == nextRef

(***************************************************************************)
(* allocRef for the keys of "taken", a sequence of one or two: each takes  *)
(* the next reference and leaves a hint in the ring.                       *)
(***************************************************************************)
RefAt(i) == IF i = 1 THEN nextRef ELSE SuccRef(nextRef)

AllocRefs(taken) ==
  LET n == Len(taken)
      at(r) == {i \in 1 .. n : RefAt(i) = r}
      hits(h) == {i \in 1 .. n : RefAt(i) % RefRing = h}
      hint(h) == IF 2 \in hits(h) THEN 2 ELSE 1
  IN /\ allocs + n <= MaxAllocs
     /\ allocs' = allocs + n
     /\ nextRef' = IF n = 0 THEN nextRef ELSE SuccRef(RefAt(n))
     /\ refs' = [h \in 0 .. (RefRing - 1) |->
                   IF hits(h) = {} THEN refs[h]
                   ELSE [ref |-> RefAt(hint(h)), key |-> taken[hint(h)]]]
     /\ owner' = [r \in DOMAIN owner \cup {RefAt(i) : i \in 1 .. n} |->
                    IF at(r) = {} THEN owner[r] ELSE taken[CHOOSE i \in at(r) : TRUE]]

\* Mutant of IsTestRef: test orders are not recognised.
IsTestRefNever(ref) == FALSE

\* isTestRef: only the ring knows a test order.
IsTestRef(ref) ==
  LET hint == refs[ref % RefRing] IN hint.ref = ref /\ hint.key = TestKey

\* Mutant of SlotByRef: it believes the hint without comparing references.
SlotByRefTrustsRing(ref) ==
  LET hint == refs[ref % RefRing].key
  IN {k \in {hint} \cap Key : slots[k].state # "Idle"}

(***************************************************************************)
(* slotByRef: the ring's hint when it names a slot that works this         *)
(* reference, otherwise a scan of all slots.  The result is a set of at    *)
(* most one key; empty stands for nullptr.                                 *)
(***************************************************************************)
SlotByRef(ref) ==
  LET hint == refs[ref % RefRing]
      works == {k \in Key : slots[k].state # "Idle" /\ slots[k].userRef = ref}
  IN IF works = {} THEN {}
     ELSE IF hint.ref = ref /\ hint.key \in works THEN {hint.key}
     ELSE {CHOOSE k \in works : TRUE}

\* slotByPending: the slot that waits for its replacement to get this reference.
SlotByPending(ref) ==
  LET waits == {k \in Key : slots[k].state = "PendingReplace" /\ slots[k].pendingRef = ref}
  IN IF waits = {} THEN {} ELSE {CHOOSE k \in waits : TRUE}

-----------------------------------------------------------------------------
(***************************************************************************)
(* reconcile: bring the two quotes of a symbol to their target.            *)
(***************************************************************************)

\* Mutant of Decision: a slot whose replacement is outstanding may be replaced.
DecisionIgnoresPending(s, price) ==
  IF s.state = "Idle" THEN IF price = NoQuote THEN "None" ELSE "Enter"
  ELSE IF s.state \in {"Live", "PendingReplace"}
       THEN IF price = NoQuote THEN "Cancel"
            ELSE IF s.price = price /\ s.leaves = QuoteQty THEN "None" ELSE "Replace"
       ELSE "None"

\* What reconcileSlot does to a slot; a slot with a request outstanding is
\* skipped.
Decision(s, price) ==
  IF s.state = "Idle" THEN IF price = NoQuote THEN "None" ELSE "Enter"
  ELSE IF s.state = "Live"
       THEN IF price = NoQuote THEN "Cancel"
            ELSE IF s.price = price /\ s.leaves = QuoteQty THEN "None" ELSE "Replace"
       ELSE "None"

Allocates(s, price) == Decision(s, price) \in {"Enter", "Replace"}

\* The slot reconcileSlot leaves behind; ref is the reference it allocated.
SlotAfter(s, price, ref) ==
  IF Decision(s, price) = "Enter"
    THEN [state |-> "PendingNew", userRef |-> ref, pendingRef |-> 0,
          price |-> price, leaves |-> QuoteQty]
  ELSE IF Decision(s, price) = "Replace"
    THEN [s EXCEPT !.state = "PendingReplace", !.pendingRef = ref]
  ELSE IF Decision(s, price) = "Cancel"
    THEN [s EXCEPT !.state = "PendingCancel"]
  ELSE s

\* The request reconcileSlot encodes, if any.
RequestOf(key, s, price, ref) ==
  IF Decision(s, price) = "Enter" THEN <<EnterOrder(ref, key, QuoteQty, price)>>
  ELSE IF Decision(s, price) = "Replace" THEN <<ReplaceOrder(s.userRef, ref, QuoteQty, price)>>
  ELSE IF Decision(s, price) = "Cancel" THEN <<CancelOrder(s.userRef)>>
  ELSE << >>

\* Mutant of FirstSide: the bid always goes first.
FirstSideBuy(sym, t) == "Buy"

\* The side reconcile handles first: the ask when the new bid would reach the
\* ask that is on the book now.
FirstSide(sym, t) ==
  LET ask == slots[<<sym, "Sell">>]
  IN IF t["Buy"] # NoQuote /\ ask.state # "Idle" /\ t["Buy"] >= ask.price
     THEN "Sell" ELSE "Buy"

SideOrder(sym, t) ==
  IF FirstSide(sym, t) = "Sell" THEN <<"Sell", "Buy">> ELSE <<"Buy", "Sell">>

\* The keys that need a new reference, in the order they take it.
Taken(sym, t) ==
  LET d == SideOrder(sym, t)
      needs(i) == Allocates(slots[<<sym, d[i]>>], t[d[i]])
  IN IF needs(1) /\ needs(2) THEN <<<<sym, d[1]>>, <<sym, d[2]>>>>
     ELSE IF needs(1) THEN <<<<sym, d[1]>>>>
     ELSE IF needs(2) THEN <<<<sym, d[2]>>>>
     ELSE << >>

\* The reference a side takes.
RefOf(sym, t, side) == RefAt(IF Taken(sym, t)[1] = <<sym, side>> THEN 1 ELSE 2)
RefTaken(sym, t, side) ==
  IF Allocates(slots[<<sym, side>>], t[side]) THEN RefOf(sym, t, side) ELSE 0

\* The requests reconcile hands to DutSession, in sending order.
Requests(sym, t) ==
  LET d == SideOrder(sym, t)
      request(side) == RequestOf(<<sym, side>>, slots[<<sym, side>>], t[side],
                                 RefTaken(sym, t, side))
  IN request(d[1]) \o request(d[2])

Reconcile(sym, t) ==
  /\ AllocRefs(Taken(sym, t))
  /\ slots' = [k \in Key |->
                 IF k[1] = sym THEN SlotAfter(slots[k], t[k[2]], RefTaken(sym, t, k[2]))
                 ELSE slots[k]]
  /\ UNCHANGED <<position, unknown, tests>>

\* encodeTestOrder: a reference without a slot, sent for an unlisted symbol.
EncodeTestOrder ==
  /\ AllocRefs(<<TestKey>>)
  /\ UNCHANGED <<slots, position, unknown, tests>>

-----------------------------------------------------------------------------
(***************************************************************************)
(* onAck, one handler per answer.                                          *)
(***************************************************************************)

\* settle: the slot is free again.
Settled == [state |-> "Idle", userRef |-> 0, pendingRef |-> 0, price |-> 0, leaves |-> 0]

\* Quantities are unsigned: leaves stops at zero.
Less(leaves, qty) == IF qty >= leaves THEN 0 ELSE leaves - qty

SetSlot(k, s) ==
  /\ slots' = [slots EXCEPT ![k] = s]
  /\ UNCHANGED <<position, unknown, tests>>

UnknownAck ==
  /\ unknown' = unknown + 1
  /\ UNCHANGED <<slots, position, tests>>

TestAck ==
  /\ tests' = tests + 1
  /\ UNCHANGED <<slots, position, unknown>>

OnAccepted(a) ==
  \/ IsTestRef(a.ref) /\ TestAck
  \/ /\ ~IsTestRef(a.ref)
     /\ \E k \in SlotByRef(a.ref) :
          /\ slots[k].state = "PendingNew"
          /\ SetSlot(k, IF a.dead THEN Settled
                        ELSE [slots[k] EXCEPT !.state = "Live", !.leaves = a.qty])
  \/ /\ ~IsTestRef(a.ref)
     /\ \A k \in SlotByRef(a.ref) : slots[k].state # "PendingNew"
     /\ UnknownAck

\* Mutant of OnReplaced: the slot keeps working the old reference.
OnReplacedKeepsRef(a) ==
  \/ \E k \in SlotByPending(a.ref) :
       SetSlot(k, IF a.dead THEN Settled
                  ELSE [slots[k] EXCEPT !.state = "Live", !.pendingRef = 0,
                                        !.price = a.price, !.leaves = a.qty])
  \/ SlotByPending(a.ref) = {} /\ UnknownAck

OnReplaced(a) ==
  \/ \E k \in SlotByPending(a.ref) :
       SetSlot(k, IF a.dead THEN Settled
                  ELSE [state |-> "Live", userRef |-> a.ref, pendingRef |-> 0,
                        price |-> a.price, leaves |-> a.qty])
  \/ SlotByPending(a.ref) = {} /\ UnknownAck

\* Mutant of OnExecuted: a fill is taken for the end of the order.
OnExecutedSettlesPartial(a) ==
  \/ \E k \in SlotByRef(a.ref) :
       /\ slots' = [slots EXCEPT ![k] = Settled]
       /\ position' = [position EXCEPT ![k[1]] = @ + Signed(k[2], a.qty)]
       /\ UNCHANGED <<unknown, tests>>
  \/ SlotByRef(a.ref) = {} /\ UnknownAck

\* A fill of an order with a request outstanding leaves the slot waiting for
\* the answer to that request.
OnExecuted(a) ==
  \/ \E k \in SlotByRef(a.ref) :
       LET s == [slots[k] EXCEPT !.leaves = Less(@, a.qty)]
       IN /\ slots' = [slots EXCEPT ![k] = IF s.leaves = 0 /\ s.state = "Live"
                                           THEN Settled ELSE s]
          /\ position' = [position EXCEPT ![k[1]] = @ + Signed(k[2], a.qty)]
          /\ UNCHANGED <<unknown, tests>>
  \/ SlotByRef(a.ref) = {} /\ UnknownAck

\* onCanceled: of a part or all of the order, asked for or not.
OnCanceled(a) ==
  \/ \E k \in SlotByRef(a.ref) :
       LET s == [slots[k] EXCEPT !.leaves = Less(@, a.qty)]
       IN SetSlot(k, IF s.leaves = 0 \/ s.state = "PendingCancel" THEN Settled
                     ELSE IF s.state = "PendingNew" THEN [s EXCEPT !.state = "Live"]
                     ELSE s)
  \/ SlotByRef(a.ref) = {} /\ UnknownAck

\* Mutant of Resume: the reference of the refused replacement is kept.
ResumeKeepsPending(s) ==
  IF s.leaves > 0 THEN [s EXCEPT !.state = "Live"] ELSE Settled

\* The order is still there, if it had shares left.
Resume(s) ==
  IF s.leaves > 0 THEN [s EXCEPT !.state = "Live", !.pendingRef = 0] ELSE Settled

\* Mutants of OnRejected: a rejected replacement takes the order with it, and
\* one whose order was filled meanwhile is taken as live.
OnRejectedSettles(a) ==
  \/ IsTestRef(a.ref) /\ TestAck
  \/ ~IsTestRef(a.ref) /\ \E k \in SlotByPending(a.ref) \cup SlotByRef(a.ref) : SetSlot(k, Settled)
  \/ /\ ~IsTestRef(a.ref)
     /\ SlotByPending(a.ref) \cup SlotByRef(a.ref) = {}
     /\ UnknownAck

OnRejectedAlwaysLive(a) ==
  \/ IsTestRef(a.ref) /\ TestAck
  \/ /\ ~IsTestRef(a.ref)
     /\ \E k \in SlotByPending(a.ref) :
          SetSlot(k, [slots[k] EXCEPT !.state = "Live", !.pendingRef = 0])
  \/ /\ ~IsTestRef(a.ref)
     /\ SlotByPending(a.ref) = {}
     /\ \/ \E k \in SlotByRef(a.ref) : SetSlot(k, Settled)
        \/ SlotByRef(a.ref) = {} /\ UnknownAck

OnRejected(a) ==
  \/ IsTestRef(a.ref) /\ TestAck
  \/ /\ ~IsTestRef(a.ref)
     /\ \E k \in SlotByPending(a.ref) : SetSlot(k, Resume(slots[k]))
  \/ /\ ~IsTestRef(a.ref)
     /\ SlotByPending(a.ref) = {}
     /\ \/ \E k \in SlotByRef(a.ref) : SetSlot(k, Settled)
        \/ SlotByRef(a.ref) = {} /\ UnknownAck

\* Mutant of OnCancelReject: a slot that was filled meanwhile keeps waiting.
OnCancelRejectKeepsFilled(a) ==
  \/ \E k \in SlotByRef(a.ref) :
       /\ slots[k].state = "PendingCancel"
       /\ SetSlot(k, IF slots[k].leaves > 0 THEN [slots[k] EXCEPT !.state = "Live"] ELSE slots[k])
  \/ /\ \A k \in SlotByRef(a.ref) : slots[k].state # "PendingCancel"
     /\ UnknownAck

OnCancelReject(a) ==
  \/ \E k \in SlotByRef(a.ref) :
       slots[k].state = "PendingCancel" /\ SetSlot(k, Resume(slots[k]))
  \/ /\ \A k \in SlotByRef(a.ref) : slots[k].state # "PendingCancel"
     /\ UnknownAck

OnAck(a) ==
  /\ \/ a.type = "Accepted" /\ OnAccepted(a)
     \/ a.type = "Replaced" /\ OnReplaced(a)
     \/ a.type = "Executed" /\ OnExecuted(a)
     \/ a.type = "Canceled" /\ OnCanceled(a)
     \/ a.type = "Rejected" /\ OnRejected(a)
     \/ a.type = "CancelReject" /\ OnCancelReject(a)
  /\ UNCHANGED <<nextRef, refs, allocs, owner>>

\* onAck's result m_ackSym: the symbol of the slot that slotByRef found.  An
\* answer that is matched by slotByPending alone names no symbol.
AckSym(a) ==
  IF \/ a.type = "Replaced"
     \/ a.type \in {"Accepted", "Rejected"} /\ IsTestRef(a.ref)
     \/ a.type = "Rejected" /\ SlotByPending(a.ref) # {}
  THEN {} ELSE {k[1] : k \in SlotByRef(a.ref)}

OmsInit ==
  /\ slots = [k \in Key |-> Settled]
  /\ position = [s \in Syms |-> 0]
  /\ nextRef = FirstRef
  /\ refs = [h \in 0 .. (RefRing - 1) |-> [ref |-> 0, key |-> <<FirstSym, "Buy">>]]
  /\ unknown = 0
  /\ tests = 0
  /\ allocs = 0
  /\ owner = [r \in {} |-> TestKey]
=============================================================================
