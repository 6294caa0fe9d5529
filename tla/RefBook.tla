------------------------------ MODULE RefBook ------------------------------
(***************************************************************************)
(* What a feed-driven order book promises to the quoting loop that reads   *)
(* it: the resting orders follow the ITCH messages exactly; the visible    *)
(* levels hold, for every price of the band, the shares of the orders      *)
(* resting there that are not the device's own; the best prices are the    *)
(* extremes of the visible levels; the band moves only with a trade or     *)
(* with the first order; and whoever compares topVersion learns of every   *)
(* change of a best price or of the size at it.                            *)
(***************************************************************************)
EXTENDS Integers, FiniteSets, FiniteSetsExt

CONSTANTS
  Refs,       \* order references
  OwnRefs,    \* those of them at or above ownRefMin: the device's own orders
  Prices,     \* prices that orders and trades have
  MaxShares,  \* bound: shares of one order
  None        \* kNoPrice, no best price

Sides == {"Buy", "Sell"}
Shares == 1 .. MaxShares
Order == [side : Sides, price : Prices, shares : Shares, own : BOOLEAN]

NoOrders == [r \in {} |-> None]

VARIABLES
  orders,  \* the resting orders: a function from live references
  band,    \* the prices the level arrays cover
  level,   \* level[side][price]: the shares shown at a price of the band
  best,    \* best[side]: the best price of a side, or None
  moved    \* whether the last message changed topVersion

vars == <<orders, band, level, best, moved>>

-----------------------------------------------------------------------------
\* The shares that resting orders "o" show at a price of a side, counted one by
\* one.
SharesAt(o, s, p) ==
  LET there == {r \in DOMAIN o : o[r].price = p /\ o[r].side = s /\ ~o[r].own}
  IN Cardinality(UNION {{r} \X (1 .. o[r].shares) : r \in there})

LevelsOf(o, ps) == [s \in Sides |-> [p \in ps |-> SharesAt(o, s, p)]]

BestOf(l, s) ==
  LET shown == {p \in DOMAIN l[s] : l[s][p] > 0}
  IN IF shown = {} THEN None ELSE IF s = "Buy" THEN Max(shown) ELSE Min(shown)

\* What a quote is computed from: best price and size of both sides.
TopOf(l, b) == [s \in Sides |-> <<b[s], IF b[s] = None THEN 0 ELSE l[s][b[s]]>>]

-----------------------------------------------------------------------------
(***************************************************************************)
(* What the messages do to the resting orders.                             *)
(***************************************************************************)
Unchanged(rs) == \A r \in rs : orders'[r] = orders[r]

Add(r) ==
  /\ r \notin DOMAIN orders
  /\ DOMAIN orders' = DOMAIN orders \cup {r}
  /\ Unchanged(DOMAIN orders)
  /\ orders'[r] \in Order /\ orders'[r].own = (r \in OwnRefs)

\* Some shares of an order are executed or cancelled.
Reduce(r) ==
  /\ r \in DOMAIN orders /\ DOMAIN orders' = DOMAIN orders
  /\ Unchanged(DOMAIN orders \ {r})
  /\ orders'[r].shares \in 1 .. orders[r].shares
  /\ orders'[r] = [orders[r] EXCEPT !.shares = orders'[r].shares]

\* An order is deleted, or executed or cancelled as a whole.
Remove(r) ==
  /\ r \in DOMAIN orders /\ DOMAIN orders' = DOMAIN orders \ {r}
  /\ Unchanged(DOMAIN orders')

\* A replacement keeps the side, and the device's own stay its own.
Replace(r, q) ==
  /\ r \in DOMAIN orders /\ q \notin DOMAIN orders
  /\ DOMAIN orders' = (DOMAIN orders \ {r}) \cup {q}
  /\ Unchanged(DOMAIN orders \ {r})
  /\ orders'[q] \in Order
  /\ orders'[q].side = orders[r].side /\ orders'[q].own = orders[r].own

\* Only a trade and the first order move the band.
Steady == band' = band

Messages ==
  \/ \E r \in Refs : Add(r) /\ (band = {} \/ Steady)
  \/ \E r \in Refs : Reduce(r) \/ Remove(r)
  \/ \E r, q \in Refs : Replace(r, q) /\ Steady
  \/ orders' = orders
  \/ orders' = NoOrders /\ Steady

-----------------------------------------------------------------------------
(***************************************************************************)
(* Everything shown follows the orders.                                    *)
(***************************************************************************)
Shown ==
  LET l == LevelsOf(orders', band')
  IN /\ level' = l
     /\ best' = [s \in Sides |-> BestOf(l, s)]
     /\ moved' \in BOOLEAN
     /\ TopOf(l, best') # TopOf(level, best) => moved'

Init ==
  /\ orders = NoOrders
  /\ band \in SUBSET Prices
  /\ level = LevelsOf(orders, band)
  /\ best = [s \in Sides |-> None]
  /\ moved \in BOOLEAN

Next == Messages /\ band' \in SUBSET Prices /\ Shown

Spec == Init /\ [][Next]_vars
=============================================================================
