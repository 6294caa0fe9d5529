---------------------------- MODULE BookBuilder ----------------------------
(***************************************************************************)
(* dut::BookBuilder, the order book the device builds from the feed, with  *)
(* the structures it is made of: the order map (FlatHashMap), one array of *)
(* level sizes per side over a band of prices, and a two-level bitmap per  *)
(* side (LevelBits) that finds the next best price.  The book re-anchors   *)
(* its band when the market trades outside it, by shifting the arrays or   *)
(* by rebuilding them from the orders; shares of orders outside the band   *)
(* are parked.                                                             *)
(*                                                                         *)
(* One action per ITCH message type handled by BookBuilder::apply.  The    *)
(* object is the record "b" and its private methods are operators on it.   *)
(* m_topVersion is only ever compared with an earlier value, so the model  *)
(* keeps whether the last message changed it ("moved"); the counter itself *)
(* would have to wrap around 2^32 between two readings to matter.          *)
(*                                                                         *)
(* Not modelled: message length checks, counters that are only reported,   *)
(* and level sums beyond 2^32 shares.                                      *)
(***************************************************************************)
EXTENDS FlatHashMap, FiniteSetsExt

CONSTANTS
  Refs, OwnRefs, Prices, MaxShares, None,   \* as in RefBook
  BaseTick,      \* m_baseTick
  SubDollarTick, \* m_subDollarTick, 0 when prices have one tick
  Dollar,        \* 10000: prices below it use the sub-dollar tick
  BandTicks,     \* m_bandTicks
  MaxBandTicks,  \* m_maxBandTicks, 0 for no limit
  FracNum, FracDen, \* m_bandFraction
  AnchorPrices,  \* cfg.anchorPrice: a profile's reference price, or None
  TapeTerms, OwnTerms, \* prices and shares of the tape's and the device's orders
  ZeroTerms,     \* replacements by no shares
  WordBits       \* bits of a LevelBits word (64)

ASSUME TickAssumption ==
  /\ BaseTick \in Nat \ {0} /\ SubDollarTick \in 0 .. BaseTick
  /\ BandTicks \in Nat \ {0} /\ WordBits \in Nat \ {0} /\ FracDen \in Nat \ {0}
ASSUME RefsAssumption == Refs \subseteq Nat \ {EmptyKey} /\ OwnRefs \subseteq Refs
ASSUME HashAssumption == \A r \in Refs : Hash[r] \in Nat
ASSUME PriceAssumption ==
  /\ Prices \subseteq Nat /\ AnchorPrices \subseteq Nat \cup {None} /\ None \notin Int
  /\ Dollar \in Nat /\ FracNum \in Nat /\ MaxBandTicks \in Nat /\ MaxShares \in Nat
ASSUME TermsAssumption ==
  /\ TapeTerms \cup OwnTerms \subseteq Prices \X (1 .. MaxShares)
  /\ ZeroTerms \subseteq Prices \X {0}

VARIABLES
  b,       \* the book
  resting  \* history: the orders the messages describe, by reference

vars == <<b, resting>>

Sides == {"Buy", "Sell"}
Shares == 1 .. MaxShares

-----------------------------------------------------------------------------
(***************************************************************************)
(* LevelBits: "l0" holds the indexes of the levels whose bit is set and    *)
(* "l1" the words of l0 that have a bit set.                               *)
(***************************************************************************)
NoBits == [l0 |-> {}, l1 |-> {}]
WordOf(i) == i \div WordBits

SetBit(x, i) == [l0 |-> x.l0 \cup {i}, l1 |-> x.l1 \cup {WordOf(i)}]

\* Mutant of ClearBit: the summary bit is cleared with the first bit.
ClearBitAndWord(x, i) == [l0 |-> x.l0 \ {i}, l1 |-> x.l1 \ {WordOf(i)}]

ClearBit(x, i) ==
  LET rest == x.l0 \ {i}
  IN [l0 |-> rest,
      l1 |-> IF \E j \in rest : WordOf(j) = WordOf(i) THEN x.l1 ELSE x.l1 \ {WordOf(i)}]

InWord(x, w) == {j \in x.l0 : WordOf(j) = w}

\* prev: the highest set index at or below i, looked for in its word and then
\* in the highest summarised word before it.
PrevBit(x, i) ==
  LET here == {j \in InWord(x, WordOf(i)) : j <= i}
      words == {w \in x.l1 : w < WordOf(i)}
  IN IF here # {} THEN Max(here)
     ELSE IF words = {} THEN None ELSE Max(InWord(x, Max(words)))

NextBit(x, i) ==
  LET here == {j \in InWord(x, WordOf(i)) : j >= i}
      words == {w \in x.l1 : w > WordOf(i)}
  IN IF here # {} THEN Min(here)
     ELSE IF words = {} THEN None ELSE Min(InWord(x, Min(words)))

-----------------------------------------------------------------------------
(***************************************************************************)
(* Prices and the band.                                                    *)
(***************************************************************************)
TickFor(p) == IF SubDollarTick > 0 /\ p < Dollar THEN SubDollarTick ELSE BaseTick
InRange(x, p) == p >= x.minPrice /\ p <= x.maxPrice
InBand(x, p) == InRange(x, p) /\ (p - x.minPrice) % x.tick = 0
NeedsAnchor(x, p) == ~InRange(x, p) \/ TickFor(p) < x.tick
Index(x, p) == (p - x.minPrice) \div x.tick
PriceAt(x, i) == IF i = None THEN None ELSE x.minPrice + i * x.tick

\* rescanBestBid and rescanBestAsk, from the level of price p.
Rescan(x, s, p) ==
  PriceAt(x, IF s = "Buy" THEN PrevBit(x.bits[s], Index(x, p))
                          ELSE NextBit(x.bits[s], Index(x, p)))

Park(x, p, n) ==
  [x EXCEPT !.parked = @ + n,
            !.parkedLo = IF @ = None \/ p < @ THEN p ELSE @,
            !.parkedHi = IF @ = None \/ p > @ THEN p ELSE @]

Unpark(x, n) ==
  LET left == x.parked - Min({n, x.parked})
  IN [x EXCEPT !.parked = left,
               !.parkedLo = IF left = 0 THEN None ELSE @,
               !.parkedHi = IF left = 0 THEN None ELSE @]

-----------------------------------------------------------------------------
(***************************************************************************)
(* Levels.                                                                 *)
(***************************************************************************)
Better(s, p, q) == q = None \/ IF s = "Buy" THEN p >= q ELSE p <= q

AddLevel(x, s, p, n) ==
  LET i == Index(x, p)
      top == Better(s, p, x.best[s])
  IN [x EXCEPT !.bits[s] = IF x.size[s][i] = 0 THEN SetBit(@, i) ELSE @,
               !.size[s][i] = @ + n,
               !.moved = @ \/ top,
               !.best[s] = IF top THEN p ELSE @]

AddShares(x, s, p, n) == IF InBand(x, p) THEN AddLevel(x, s, p, n) ELSE Park(x, p, n)

\* Mutant of RemoveShares: topVersion only moves when the best level empties.
RemoveSharesQuietly(x, s, p, n) ==
  IF ~InBand(x, p) THEN Unpark(x, n)
  ELSE LET i == Index(x, p)
           left == x.size[s][i] - Min({n, x.size[s][i]})
           y == [x EXCEPT !.size[s][i] = left,
                          !.bits[s] = IF left = 0 THEN ClearBit(@, i) ELSE @,
                          !.moved = @ \/ (left = 0 /\ p = x.best[s])]
       IN IF left = 0 /\ p = x.best[s] THEN [y EXCEPT !.best[s] = Rescan(y, s, p)] ELSE y

RemoveShares(x, s, p, n) ==
  IF ~InBand(x, p) THEN Unpark(x, n)
  ELSE LET i == Index(x, p)
           left == x.size[s][i] - Min({n, x.size[s][i]})
           y == [x EXCEPT !.size[s][i] = left,
                          !.bits[s] = IF left = 0 THEN ClearBit(@, i) ELSE @,
                          !.moved = @ \/ p = x.best[s]]
       IN IF left = 0 /\ p = x.best[s] THEN [y EXCEPT !.best[s] = Rescan(y, s, p)] ELSE y

-----------------------------------------------------------------------------
(***************************************************************************)
(* Re-anchoring.                                                           *)
(***************************************************************************)
NoLevels(n) == [s \in Sides |-> [i \in 0 .. n - 1 |-> 0]]
NoBest == [s \in Sides |-> None]

\* The ticks on each side of the anchor: m_bandTicks, widened by the fraction
\* of a price that came from a trade or a profile, and capped.
BandFor(p, tick, trusted) ==
  LET byPrice == (p * FracNum) \div (FracDen * tick)
      wide == IF trusted THEN Max({BandTicks, byPrice}) ELSE BandTicks
  IN IF MaxBandTicks # 0 THEN Min({wide, MaxBandTicks}) ELSE wide

\* shiftLevels for one side: the levels of the old band that are not in the
\* new one are parked, those of both bands keep their sizes.
ShiftLevels(x, s, newMin, newMax) ==
  LET kept(p) == newMin <= p /\ p <= newMax
      PriceOf(i) == x.minPrice + i * x.tick
      park[i \in 0 .. Cardinality(DOMAIN x.size[s])] ==
        IF i = 0 THEN x
        ELSE IF x.size[s][i - 1] # 0 /\ ~kept(PriceOf(i - 1))
             THEN Park(park[i - 1], PriceOf(i - 1), x.size[s][i - 1])
             ELSE park[i - 1]
      old(j) == newMin + j * x.tick
  IN [park[Cardinality(DOMAIN x.size[s])] EXCEPT
        !.size[s] = [j \in 0 .. (newMax - newMin) \div x.tick |->
                       IF InRange(x, old(j)) THEN x.size[s][Index(x, old(j))] ELSE 0]]

\* rebuildBits.
BitsOf(levels) ==
  LET l0 == {i \in DOMAIN levels : levels[i] # 0}
  IN [l0 |-> l0, l1 |-> {WordOf(i) : i \in l0}]

\* recomputeBest: a best price that is still shown stays.
RecomputeBest(x) ==
  [x EXCEPT !.best = [s \in Sides |->
     IF /\ x.best[s] # None
        /\ InBand(x, x.best[s])
        /\ x.size[s][Index(x, x.best[s])] # 0
     THEN x.best[s]
     ELSE PriceAt(x, IF s = "Buy"
                     THEN PrevBit(x.bits[s], Cardinality(DOMAIN x.size[s]) - 1)
                     ELSE NextBit(x.bits[s], 0))]]

\* rebuildLevels: every order that is not the device's own is booked or parked
\* anew, in the order of the map's slots.
RebuildLevels(x) ==
  LET fresh == [x EXCEPT !.parked = 0, !.parkedLo = None, !.parkedHi = None]
      built[i \in 0 .. Capacity(x.orders)] ==
        IF i = 0 THEN fresh
        ELSE LET e == x.orders.slots[i - 1]
                 y == built[i - 1]
             IN IF e.key = EmptyKey \/ e.value.own THEN y
                ELSE IF InBand(y, e.value.price)
                     THEN AddLevel(y, e.value.side, e.value.price, e.value.shares)
                     ELSE Park(y, e.value.price, e.value.shares)
  IN built[Capacity(x.orders)]

\* Mutant of Shiftable: the parked orders are not looked at.
ShiftableAlways(x, tick, newMin, newMax) == x.anchored /\ tick = x.tick

\* The arrays may be shifted when no parked order enters the new band.
Shiftable(x, tick, newMin, newMax) ==
  /\ x.anchored
  /\ tick = x.tick
  /\ x.parked = 0 \/ newMax < x.parkedLo \/ newMin > x.parkedHi

Anchor(x, p, trusted) ==
  LET tick == IF x.anchored THEN Min({TickFor(p), x.tick}) ELSE TickFor(p)
      ticks == BandFor(p, tick, trusted)
      span == ticks * tick
      newMin == Max({p - (p % tick) - span, 0})
      newMax == newMin + 2 * span
      y == [x EXCEPT !.moved = TRUE]
  IN IF Shiftable(x, tick, newMin, newMax)
     THEN LET z == ShiftLevels(ShiftLevels(y, "Buy", newMin, newMax), "Sell", newMin, newMax)
          IN RecomputeBest([z EXCEPT !.minPrice = newMin, !.maxPrice = newMax,
                                     !.bits = [s \in Sides |-> BitsOf(z.size[s])]])
     ELSE RebuildLevels([y EXCEPT !.tick = tick, !.minPrice = newMin, !.maxPrice = newMax,
                                  !.size = NoLevels(2 * ticks + 1),
                                  !.bits = [s \in Sides |-> NoBits],
                                  !.best = NoBest, !.anchored = TRUE])

-----------------------------------------------------------------------------
(***************************************************************************)
(* The messages.  "Calm" is the book before a message, nothing moved yet.  *)
(***************************************************************************)
Calm == [b EXCEPT !.moved = FALSE]

Resting(s, p, n, own) == [side |-> s, price |-> p, shares |-> n, own |-> own]

NoOrders == [r \in {} |-> None]
Put(o, r, v) == [q \in DOMAIN o \cup {r} |-> IF q = r THEN v ELSE o[q]]
Without(r) == [q \in DOMAIN resting \ {r} |-> resting[q]]
ReplacedBy(r, q, p, n) ==
  IF r \notin DOMAIN resting THEN resting
  ELSE IF n = 0 THEN Without(r)
  ELSE Put(Without(r), q, [resting[r] EXCEPT !.price = p, !.shares = n])

\* onAddOrder (A, F).  The feed never reuses a reference that still rests; an
\* order of no shares is ignored and left out.
OnAddOrder(r, s, p, n) ==
  /\ r \notin DOMAIN resting
  /\ resting' = Put(resting, r, Resting(s, p, n, r \in OwnRefs))
  /\ LET own == r \in OwnRefs
         x == IF b.anchored THEN Calm ELSE Anchor(Calm, p, FALSE)
         y == [x EXCEPT !.orders = InsertOrAssign(@, r, Resting(s, p, n, own))]
     IN b' = IF own THEN [y EXCEPT !.own = @ + 1] ELSE AddShares(y, s, p, n)

\* reduceOrder (E, C with trade; X without).
ReduceOrder(r, by, trade) ==
  /\ resting' = IF r \notin DOMAIN resting THEN resting
                ELSE IF by >= resting[r].shares THEN Without(r)
                ELSE [resting EXCEPT ![r].shares = @ - by]
  /\ b' = IF ~Holds(b.orders, r) THEN Calm
          ELSE LET o == Find(b.orders, r)
                   x == IF trade /\ NeedsAnchor(b, o.price) THEN Anchor(Calm, o.price, TRUE)
                        ELSE Calm
                   gone == Min({by, o.shares})
                   y == IF o.own THEN x ELSE RemoveShares(x, o.side, o.price, gone)
               IN IF gone < o.shares
                  THEN [y EXCEPT !.orders = SetValue(@, r, [o EXCEPT !.shares = @ - gone])]
                  ELSE [y EXCEPT !.orders = Erase(@, r),
                                 !.own = IF o.own THEN @ - 1 ELSE @]

\* The first half of onOrderReplace, and the whole of removeOrder.
Removed(x, r) ==
  LET o == Find(x.orders, r)
      y == [x EXCEPT !.orders = Erase(@, r)]
  IN IF o.own THEN [y EXCEPT !.own = @ - 1] ELSE RemoveShares(y, o.side, o.price, o.shares)

\* removeOrder (D).
RemoveOrder(r) ==
  /\ b' = IF Holds(b.orders, r) THEN Removed(Calm, r) ELSE Calm
  /\ resting' = Without(r)

\* onOrderReplace (U), also by no shares.  Like that of an added order, the
\* new reference is not one that rests.
OnOrderReplace(r, q, p, n) ==
  /\ q \notin DOMAIN resting
  /\ resting' = ReplacedBy(r, q, p, n)
  /\ b' = IF ~Holds(b.orders, r) THEN Calm
          ELSE LET o == Find(b.orders, r)
                   x == Removed(Calm, r)
                   y == [x EXCEPT !.orders = InsertOrAssign(@, q, Resting(o.side, p, n, o.own))]
               IN IF n = 0 THEN x
                  ELSE IF o.own THEN [y EXCEPT !.own = @ + 1] ELSE AddShares(y, o.side, p, n)

\* onTradePrice (P, and Q with shares and a price).
OnTradePrice(p) ==
  /\ b' = IF NeedsAnchor(b, p) THEN Anchor(Calm, p, TRUE) ELSE Calm
  /\ UNCHANGED resting

\* clear, also called by BookTable.  A book without orders keeps its arrays.
Clear ==
  /\ b' = IF b.orders.size = 0 /\ b.own = 0 /\ b.parked = 0
          THEN [b EXCEPT !.moved = TRUE, !.best = NoBest]
          ELSE [b EXCEPT !.moved = TRUE, !.best = NoBest, !.own = 0,
                         !.size = [s \in Sides |-> [i \in DOMAIN b.size[s] |-> 0]],
                         !.bits = [s \in Sides |-> NoBits],
                         !.orders = ClearMap(@),
                         !.parked = 0, !.parkedLo = None, !.parkedHi = None]
  /\ resting' = NoOrders

-----------------------------------------------------------------------------
\* The constructor, before it anchors.
NewBook ==
  [orders |-> NewMap, anchored |-> FALSE, tick |-> BaseTick,
   minPrice |-> 0, maxPrice |-> -1, size |-> NoLevels(0),
   bits |-> [s \in Sides |-> NoBits], best |-> NoBest,
   parked |-> 0, parkedLo |-> None, parkedHi |-> None, own |-> 0, moved |-> FALSE]

\* A book with a profile is anchored from the start.
Init ==
  /\ \E p \in AnchorPrices : b = IF p = None THEN NewBook ELSE Anchor(NewBook, p, TRUE)
  /\ resting = NoOrders

\* The prices and shares of the tape's orders and of the device's.
Terms(r) == IF r \in OwnRefs THEN OwnTerms ELSE TapeTerms

Next ==
  \/ \E r \in Refs, s \in Sides : \E t \in Terms(r) : OnAddOrder(r, s, t[1], t[2])
  \/ \E r \in Refs, n \in Shares, trade \in BOOLEAN : ReduceOrder(r, n, trade)
  \/ \E r \in Refs : RemoveOrder(r)
  \/ \E r, q \in Refs : \E t \in Terms(r) \cup ZeroTerms :
       /\ r \in OwnRefs <=> q \in OwnRefs
       /\ OnOrderReplace(r, q, t[1], t[2])
  \/ \E p \in Prices : OnTradePrice(p)
  \/ Clear

Spec == Init /\ [][Next]_vars

-----------------------------------------------------------------------------
(***************************************************************************)
(* Properties.                                                             *)
(***************************************************************************)

Covered == {p \in Prices : InBand(b, p)}

Ref == INSTANCE RefBook WITH
  orders <- resting,
  band <- Covered,
  level <- [s \in Sides |-> [p \in Covered |-> b.size[s][Index(b, p)]]],
  best <- b.best,
  moved <- b.moved

\* The level arrays, the bitmaps, the parked shares and the incremental best
\* prices together behave as the reference book: no sequence of messages and
\* re-anchorings loses or doubles shares or misses the best price, and every
\* change of the top of the book moves topVersion, which is all the quoting
\* loop looks at.
ImplementsRefBook == Ref!Spec

\* The map holds exactly the resting orders: after any sequence of inserts,
\* growths and backward-shift erases a probe finds every order, with its
\* shares, finds no other, and no key is stored twice.
MapExact ==
  /\ \A r \in Refs : Holds(b.orders, r) = (r \in DOMAIN resting)
  /\ \A r \in DOMAIN resting : Find(b.orders, r) = resting[r]
  /\ b.orders.size = Cardinality(DOMAIN resting)
  /\ b.orders.size = Cardinality({i \in DOMAIN b.orders.slots : b.orders.slots[i].key # EmptyKey})

\* m_parkedShares is exactly what rests outside the band, and all of it lies
\* between m_parkedLo and m_parkedHi: otherwise anchor would shift the arrays
\* past an order that the new band covers, and that order would never be seen.
ParkedExact ==
  LET out == {r \in DOMAIN resting : ~resting[r].own /\ ~InBand(b, resting[r].price)}
  IN /\ b.parked = Cardinality(UNION {{r} \X (1 .. resting[r].shares) : r \in out})
     /\ \A r \in out : b.parkedLo <= resting[r].price /\ resting[r].price <= b.parkedHi

\* The redundant indexes agree with what they index after any sequence of
\* messages: m_own with the device's orders, both levels of the bitmaps with
\* the level sizes; the arrays cover exactly a band that lies on the grid and
\* within its limit, and the map keeps an empty slot for probes to end at.
IndexesExact ==
  /\ b.own = Cardinality({r \in DOMAIN resting : resting[r].own})
  /\ \A s \in Sides : b.bits[s] = BitsOf(b.size[s])
  /\ b.orders.size < Capacity(b.orders)
  /\ b.anchored => /\ b.minPrice >= 0 /\ b.minPrice % b.tick = 0
                   /\ MaxBandTicks # 0 =>
                        b.maxPrice - b.minPrice <= 2 * MaxBandTicks * b.tick
                   /\ \A s \in Sides : DOMAIN b.size[s] = 0 .. Index(b, b.maxPrice)
=============================================================================
