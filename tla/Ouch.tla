-------------------------------- MODULE Ouch --------------------------------
(***************************************************************************)
(* The OUCH 5.0 messages that the device under test and the exchange       *)
(* simulator exchange, as records of the fields the receiver reads.        *)
(* Prices are ticks: the wire price is the tick times a constant at both   *)
(* ends, and 0 is never a price.                                           *)
(***************************************************************************)
EXTENDS Integers, Sequences

CONSTANT Syms   \* the quoted symbols; the simulator runs a venue for each

Sides == {"Buy", "Sell"}
Other(side) == IF side = "Buy" THEN "Sell" ELSE "Buy"

\* What a fill on this side adds to the position.
Signed(side, qty) == IF side = "Buy" THEN qty ELSE -qty

\* An order belongs to a symbol and a side.
Key == Syms \X Sides

\* Symbol number 0: what a zeroed table entry and an unlisted symbol fall to.
FirstSym == CHOOSE s \in Syms : TRUE

\* The test order's key: kTestSymbol, which no venue lists.
TestKey == <<"ZVZZT", "Buy">>

ASSUME SymsAssumption == Syms # {} /\ \A s \in Syms : s # TestKey[1]

\* Requests.  The manager sends Day orders only, and cancels with quantity 0.
EnterOrder(ref, key, qty, price) ==
  [type |-> "EnterOrder", ref |-> ref, key |-> key, qty |-> qty, price |-> price]
CancelOrder(ref) == [type |-> "CancelOrder", ref |-> ref]
ReplaceOrder(orig, ref, qty, price) ==
  [type |-> "ReplaceOrder", orig |-> orig, ref |-> ref, qty |-> qty, price |-> price]

\* Answers.  "dead" is the OrderState of Accepted and Replaced.
AckTypes == {"Accepted", "Replaced", "Executed", "Canceled", "Rejected", "CancelReject"}
Ack(type, ref, qty, price) ==
  [type |-> type, ref |-> ref, qty |-> qty, price |-> price, dead |-> FALSE]
=============================================================================
