---------------------------- MODULE FlatHashMap ----------------------------
(***************************************************************************)
(* util::FlatHashMap, the open-addressing map from order references to     *)
(* resting orders: linear probing, growth by doubling and backward-shift   *)
(* deletion.  A map is a record: "slots" is m_slots (m_mask + 1 of them)   *)
(* and "size" is m_size.  Key 0 marks an empty slot, as the Empty template *)
(* parameter does.  The mixing function is a parameter, so that a small    *)
(* table can be given every kind of collision.                             *)
(***************************************************************************)
EXTENDS Integers, FiniteSets

CONSTANTS
  Hash,        \* mix: the hash of every key
  MinCapacity  \* the smallest capacity (16 in the constructor), a power of 2

ASSUME MinCapacityAssumption == MinCapacity \in Nat \ {0}

EmptyKey == 0
NoValue == "none"
EmptySlot == [key |-> EmptyKey, value |-> NoValue]

EmptySlots(capacity) == [i \in 0 .. capacity - 1 |-> EmptySlot]

\* The constructor.
NewMap == [slots |-> EmptySlots(MinCapacity), size |-> 0]

Capacity(m) == Cardinality(DOMAIN m.slots)

\* slotFor: the ideal slot of a key.
SlotFor(m, k) == Hash[k] % Capacity(m)

\* The number of slots from i to the first one, cyclically, whose key is in
\* "stop"; every loop of the map ends there, and the load factor leaves an
\* empty slot for it to end at.
Distance(m, i, stop) ==
  CHOOSE d \in 0 .. Capacity(m) - 1 :
    /\ m.slots[(i + d) % Capacity(m)].key \in stop
    /\ \A e \in 0 .. d - 1 : m.slots[(i + e) % Capacity(m)].key \notin stop

\* Where the probe sequence of a key ends: at the key or at an empty slot.
Probe(m, k) ==
  (SlotFor(m, k) + Distance(m, SlotFor(m, k), {k, EmptyKey})) % Capacity(m)

\* find and locate.
Holds(m, k) == m.slots[Probe(m, k)].key = k
Find(m, k) == m.slots[Probe(m, k)].value

\* The probing loop of insertOrAssign.
Place(m, k, v) ==
  [slots |-> [m.slots EXCEPT ![Probe(m, k)] = [key |-> k, value |-> v]],
   size |-> IF Holds(m, k) THEN m.size ELSE m.size + 1]

\* grow: the entries move, in slot order, to a table of twice the capacity.
Grow(m) ==
  LET moved[i \in 0 .. Capacity(m)] ==
        IF i = 0 THEN [slots |-> EmptySlots(2 * Capacity(m)), size |-> 0]
        ELSE LET s == m.slots[i - 1]
             IN IF s.key = EmptyKey THEN moved[i - 1]
                ELSE Place(moved[i - 1], s.key, s.value)
  IN moved[Capacity(m)]

InsertOrAssign(m, k, v) ==
  Place(IF (m.size + 1) * 10 >= Capacity(m) * 7 THEN Grow(m) ELSE m, k, v)

\* Mutant of Blocked: the test for a scan that has wrapped is forgotten.
BlockedWithoutWrap(hole, scan, ideal) == hole < ideal /\ ideal <= scan

\* An entry at "scan" may not fill "hole" when its ideal slot lies cyclically
\* in (hole, scan].
Blocked(hole, scan, ideal) ==
  IF hole <= scan THEN hole < ideal /\ ideal <= scan
                  ELSE hole < ideal \/ ideal <= scan

\* eraseAtHole: the entries behind the hole, up to the first empty slot, are
\* pulled forward where they may be, and the last hole becomes empty.
EraseAtHole(m, first) ==
  LET cap == Capacity(m)
      run == Distance(m, (first + 1) % cap, {EmptyKey})
      shifted[d \in 0 .. run] ==
        IF d = 0 THEN [slots |-> m.slots, hole |-> first]
        ELSE LET scan == (first + d) % cap
                 p == shifted[d - 1]
             IN IF Blocked(p.hole, scan, SlotFor(m, m.slots[scan].key)) THEN p
                ELSE [slots |-> [p.slots EXCEPT ![p.hole] = m.slots[scan]],
                      hole |-> scan]
  IN [slots |-> [shifted[run].slots EXCEPT ![shifted[run].hole] = EmptySlot],
      size |-> m.size - 1]

\* erase of a key that is present; the callers test that it is.
Erase(m, k) == EraseAtHole(m, Probe(m, k))

\* clear: the capacity stays.
ClearMap(m) == [slots |-> EmptySlots(Capacity(m)), size |-> 0]

\* forEach visits these entries; setShares writes through the pointer that
\* find returned.
Entries(m) == {m.slots[i] : i \in {j \in DOMAIN m.slots : m.slots[j].key # EmptyKey}}
SetValue(m, k, v) == [m EXCEPT !.slots[Probe(m, k)].value = v]
=============================================================================
