--------------------------- MODULE OrderEntryLemmas ---------------------------
(***************************************************************************)
(* The lemmas that the proofs about the order entry session rest on, in    *)
(* four groups:                                                            *)
(*   - sequences: sums over them (the shares of a list of fills or of      *)
(*     answers) and FlattenSeq;                                            *)
(*   - books: what a side of the venue's book shows of the client's        *)
(*     orders, and how a match, a cancel and the mirror of the tape change *)
(*     that (Venue.tla);                                                   *)
(*   - one quote: its resting order, its slot, the answers and the         *)
(*     requests under way for it, and what each event does to them         *)
(*     (KeyInv, KeyExact, KeyOrderly);                                     *)
(*   - the session: the same for all quotes at once (Safe, Exact,          *)
(*     Orderly), for the events as they happen in the queues.              *)
(* Nothing here is about a step of the specification: OrderEntryProofs     *)
(* applies these lemmas to the actions.                                    *)
(***************************************************************************)
EXTENDS OrderEntry, OrderManagerProofs, SequenceTheorems, WellFoundedInduction,
        FiniteSetTheorems, TLAPS

\* What a side of a book shows of its client order.
NoOrder == [id |-> 0, price |-> 0, qty |-> 0]
Shown(o) == [id |-> o.id, price |-> o.price, qty |-> o.qty]
ClientAt(rest) ==
  IF Clients(rest) = {} THEN NoOrder ELSE Shown(rest[CHOOSE i \in Clients(rest) : TRUE])
Single(rest) == \A i, j \in Clients(rest) : i = j

\* The answers of the session, and how many shares those in S are about.
Answers == [type : AckTypes, ref : Nat, qty : Nat, price : Nat, dead : {FALSE}]
Shares(ak, S) == SumOf([i \in DOMAIN ak |-> IF ak[i] \in S THEN ak[i].qty ELSE 0])

\* What holds at 0 and passes from each turn to the next holds at every turn up to n.
LEMMA EveryTurn ==
  ASSUME NEW n \in Nat, NEW T, 0 \in T, \A i \in 0 .. (n - 1) : i \in T => i + 1 \in T
  PROVE  \A i \in 0 .. n : i \in T
<1> DEFINE Bad == {i \in 0 .. n : i \notin T}
<1>1. SUFFICES ASSUME Bad # {} PROVE FALSE
  OBVIOUS
<1>3. Bad \in SUBSET Nat
  OBVIOUS
<1>4. PICK x \in Bad : \A y \in Bad : ~ (<<y, x>> \in OpToRel(<, Nat))
  <2> HIDE DEF Bad
  <2>1. QED
    BY <1>1, <1>3, NatLessThanWellFounded, WFMin
<1>5. \A y \in Bad : ~ (y < x)
  BY <1>3, <1>4 DEF OpToRel
<1>6. x \in 0 .. n /\ x \notin T /\ x # 0
  BY <1>4
<1>7. x - 1 \in 0 .. (n - 1) /\ x - 1 \notin Bad
  BY <1>5, <1>6
<1>8. QED
  BY <1>6, <1>7

\* A function g with the prefix sums of f exists.
Adds(g, f, n) == g \in [0 .. n -> Int] /\ g[0] = 0 /\ \A i \in 1 .. n : g[i] = g[i - 1] + f[i]

\* Every sequence of integers has its partial sums.
LEMMA AddsExists ==
  ASSUME NEW n \in Nat, NEW f, \A i \in 1 .. n : f[i] \in Int
  PROVE  \E g : Adds(g, f, n)
<1> DEFINE T == {m \in 0 .. n : \E g : Adds(g, f, m)}
<1>1. 0 \in T
  <2> DEFINE g == [i \in 0 .. 0 |-> 0]
  <2>1. Adds(g, f, 0)
    BY DEF Adds
  <2> HIDE DEF g
  <2> QED
    BY <2>1
<1>2. ASSUME NEW m \in 0 .. (n - 1), m \in T PROVE m + 1 \in T
  <2>1. PICK g : Adds(g, f, m)
    BY <1>2
  <2> DEFINE h == [i \in 0 .. (m + 1) |-> IF i <= m THEN g[i] ELSE g[m] + f[m + 1]]
  <2>2. h \in [0 .. (m + 1) -> Int] /\ h[0] = 0
    BY <2>1 DEF Adds
  <2>3. \A i \in 1 .. (m + 1) : h[i] = h[i - 1] + f[i]
    BY <2>1 DEF Adds
  <2>4. Adds(h, f, m + 1)
    <3> HIDE DEF h
    <3> QED
      BY <2>2, <2>3 DEF Adds
  <2> HIDE DEF h
  <2> QED
    BY <2>4
<1>3. n \in T
  <2> HIDE DEF T
  <2>1. \A i \in 0 .. n : i \in T
    BY <1>1, <1>2, EveryTurn
  <2> QED
    BY <2>1
<1> QED
  BY <1>3

\* Sums, the recursive function the venue counts executed shares with, is those partial sums.
LEMMA SumsAdds ==
  ASSUME NEW f, Len(f) \in Nat, \A i \in 1 .. Len(f) : f[i] \in Int
  PROVE  Adds(Sums(f), f, Len(f))
<1> DEFINE n == Len(f)
           Is(g) == g = [i \in 0 .. Len(f) |-> IF i = 0 THEN 0 ELSE g[i - 1] + f[i]]
<1>1. PICK g : Adds(g, f, n)
  BY AddsExists
<1>2. Is(g)
  BY <1>1 DEF Adds
<1>3. Sums(f) = CHOOSE h : Is(h)
  BY DEF Sums
<1>4. Is(Sums(f))
  <2> HIDE DEF Is
  <2> QED
    BY <1>2, <1>3
<1> DEFINE s == Sums(f)
<1>5. s[0] = 0 /\ DOMAIN s = 0 .. n /\ \A i \in 1 .. n : s[i] = s[i - 1] + f[i]
  <2>1. s = [i \in 0 .. n |-> IF i = 0 THEN 0 ELSE s[i - 1] + f[i]]
    BY <1>4
  <2> HIDE DEF s
  <2> QED
    BY <2>1
<1> DEFINE T == {i \in 0 .. n : s[i] \in Int}
<1>6. 0 \in T /\ \A i \in 0 .. (n - 1) : i \in T => i + 1 \in T
  <2> HIDE DEF s
  <2>1. ASSUME NEW i \in 0 .. (n - 1), i \in T PROVE s[i + 1] \in Int
    <3>1. i + 1 \in 1 .. n /\ s[i + 1] = s[i] + f[i + 1] /\ f[i + 1] \in Int
      BY <1>5
    <3> QED
      BY <3>1, <2>1
  <2> QED
    BY <1>5, <2>1
<1>7. \A i \in 0 .. n : i \in T
  <2> HIDE DEF T
  <2> QED
    BY <1>6, EveryTurn
<1>8. s = [i \in 0 .. n |-> s[i]]
  <2>1. s = [i \in 0 .. n |-> IF i = 0 THEN 0 ELSE s[i - 1] + f[i]]
    BY <1>4
  <2> HIDE DEF s
  <2> QED
    BY <2>1
<1> HIDE DEF s
<1>9. s \in [0 .. n -> Int]
  BY <1>7, <1>8
<1>10. Adds(s, f, n)
  BY <1>5, <1>9 DEF Adds
<1> QED
  BY <1>10 DEF s

\* What Sums computes, for a sequence of numbers.
LEMMA SumsFacts ==
  ASSUME NEW f \in Seq(Int)
  PROVE  /\ Len(f) \in Nat
         /\ Sums(f)[0] = 0 /\ SumOf(f) = Sums(f)[Len(f)]
         /\ \A i \in 0 .. Len(f) : Sums(f)[i] \in Int
         /\ \A i \in 1 .. Len(f) : Sums(f)[i] = Sums(f)[i - 1] + f[i]
         /\ SumOf(f) \in Int
<1>1. Len(f) \in Nat /\ \A i \in 1 .. Len(f) : f[i] \in Int
  OBVIOUS
<1>2. Adds(Sums(f), f, Len(f))
  BY <1>1, SumsAdds
<1>3. Sums(f)[Len(f)] \in Int
  BY <1>1, <1>2 DEF Adds
<1> QED
  BY <1>1, <1>2, <1>3 DEF Adds, SumOf

\* Sums of terms that are not negative grow.
LEMMA SumsGrow ==
  ASSUME NEW f \in Seq(Int), \A i \in 1 .. Len(f) : f[i] >= 0
  PROVE  /\ \A i \in 0 .. Len(f) : 0 <= Sums(f)[i] /\ Sums(f)[i] <= SumOf(f)
         /\ \A i \in 1 .. Len(f) : f[i] <= SumOf(f)
         /\ SumOf(f) >= 0
<1> DEFINE n == Len(f)
           s == Sums(f)
<1>0. /\ n \in Nat /\ s[0] = 0 /\ SumOf(f) = s[n] /\ \A i \in 0 .. n : s[i] \in Int
      /\ \A i \in 1 .. n : s[i] = s[i - 1] + f[i]
  BY SumsFacts
<1> HIDE DEF s
<1>1. \A i \in 1 .. n : f[i] \in Int /\ f[i] >= 0
  OBVIOUS
<1> HIDE DEF n
<1> DEFINE T == {i \in 0 .. n : 0 <= s[i]}
<1>2. \A i \in 0 .. n : i \in T
  <2>1. 0 \in T
    BY <1>0
  <2>2. ASSUME NEW i \in 0 .. (n - 1), i \in T PROVE i + 1 \in T
    <3>1. i + 1 \in 1 .. n /\ s[i + 1] = s[i] + f[i + 1] /\ s[i] \in Int /\ f[i + 1] \in Int /\ f[i + 1] >= 0
      BY <1>0, <1>1
    <3> QED
      BY <2>2, <3>1
  <2> HIDE DEF T
  <2> QED
    BY <2>1, <2>2, <1>0, EveryTurn
<1> DEFINE U == {i \in 0 .. n : s[n - i] <= s[n]}
<1>3. \A i \in 0 .. n : i \in U
  <2>1. 0 \in U
    BY <1>0
  <2>2. ASSUME NEW i \in 0 .. (n - 1), i \in U PROVE i + 1 \in U
    <3>1. n - i \in 1 .. n /\ s[n - i] = s[n - i - 1] + f[n - i] /\ s[n - i] \in Int
          /\ s[n - i - 1] \in Int /\ f[n - i] \in Int /\ f[n - i] >= 0 /\ s[n] \in Int
      BY <1>0, <1>1
    <3>2. n - (i + 1) = n - i - 1 /\ i + 1 \in 0 .. n
      BY <1>0
    <3> QED
      BY <2>2, <3>1, <3>2
  <2> HIDE DEF U
  <2> QED
    BY <2>1, <2>2, <1>0, EveryTurn
<1>4. ASSUME NEW i \in 0 .. n PROVE s[i] <= s[n]
  <2>1. n - i \in 0 .. n /\ n - (n - i) = i
    BY <1>0
  <2> QED
    BY <2>1, <1>3
<1>5. ASSUME NEW i \in 1 .. n PROVE f[i] <= s[n]
  <2>1. i \in 0 .. n /\ i - 1 \in 0 .. n
    BY <1>0
  <2>2. s[i] <= s[n] /\ 0 <= s[i - 1] /\ s[i] = s[i - 1] + f[i] /\ s[i] \in Int /\ s[i - 1] \in Int
        /\ s[n] \in Int /\ f[i] \in Int
    BY <2>1, <1>0, <1>1, <1>2, <1>4
  <2> QED
    BY <2>2
<1>6. s[n] >= 0
  BY <1>0, <1>2
<1> QED
  BY <1>0, <1>2, <1>4, <1>5, <1>6 DEF n, s

\* A sum whose terms but one are zero, and a sum of zeros.
LEMMA SumOfOne ==
  ASSUME NEW f \in Seq(Int), NEW i \in 1 .. Len(f), \A j \in 1 .. Len(f) : j # i => f[j] = 0
  PROVE  SumOf(f) = f[i]
<1> DEFINE n == Len(f)
           s == Sums(f)
           T == {j \in 0 .. n : s[j] = IF j < i THEN 0 ELSE f[i]}
<1>0. /\ n \in Nat /\ s[0] = 0 /\ SumOf(f) = s[n] /\ \A j \in 0 .. n : s[j] \in Int
      /\ \A j \in 1 .. n : s[j] = s[j - 1] + f[j]
  BY SumsFacts
<1>1. \A j \in 1 .. n : f[j] \in Int /\ (j # i => f[j] = 0)
  OBVIOUS
<1>2. i \in 1 .. n
  OBVIOUS
<1> HIDE DEF s, n
<1>3. 0 \in T
  BY <1>0, <1>2
<1>4. ASSUME NEW j \in 0 .. (n - 1), j \in T PROVE j + 1 \in T
  <2>1. j + 1 \in 1 .. n /\ s[j + 1] = s[j] + f[j + 1] /\ f[j + 1] \in Int
    BY <1>0, <1>1
  <2>2. f[i] \in Int /\ s[j] = IF j < i THEN 0 ELSE f[i]
    BY <1>1, <1>2, <1>4
  <2>3. CASE j + 1 = i
    BY <2>1, <2>2, <2>3
  <2>4. CASE j + 1 # i
    <3>1. f[j + 1] = 0
      BY <1>1, <2>1, <2>4
    <3>2. j < i <=> j + 1 < i
      BY <1>2, <2>4
    <3> QED
      BY <2>1, <2>2, <3>1, <3>2
  <2> QED
    BY <2>3, <2>4
<1>5. n \in T
  <2>1. \A j \in 0 .. n : j \in T
    <3> HIDE DEF T
    <3> QED
      BY <1>0, <1>3, <1>4, EveryTurn
  <2> QED
    BY <2>1, <1>0
<1> QED
  BY <1>0, <1>2, <1>5

\* A sum of zeros is zero.
LEMMA SumOfZeros ==
  ASSUME NEW f \in Seq(Int), \A j \in 1 .. Len(f) : f[j] = 0
  PROVE  SumOf(f) = 0
<1>1. CASE Len(f) = 0
  BY <1>1, SumsFacts
<1>2. CASE Len(f) # 0
  <2>1. 1 \in 1 .. Len(f)
    BY <1>2
  <2> QED
    BY <2>1, SumOfOne
<1> QED
  BY <1>1, <1>2

-----------------------------------------------------------------------------
\* The shares of the answers of a sequence that are in S.
Terms(ak, S) == [i \in DOMAIN ak |-> IF ak[i] \in S THEN ak[i].qty ELSE 0]

\* The shares of the answers in S are a sum of naturals, one term for each answer.
LEMMA TermsFacts ==
  ASSUME NEW ak \in Seq(Answers), NEW S
  PROVE  /\ Shares(ak, S) = SumOf(Terms(ak, S))
         /\ Terms(ak, S) \in Seq(Int) /\ Len(Terms(ak, S)) = Len(ak)
         /\ \A i \in 1 .. Len(ak) :
              /\ ak[i] \in Answers /\ ak[i].qty \in Nat
              /\ Terms(ak, S)[i] = (IF ak[i] \in S THEN ak[i].qty ELSE 0)
              /\ Terms(ak, S)[i] \in Nat
<1>1. DOMAIN ak = 1 .. Len(ak) /\ Len(ak) \in Nat
  OBVIOUS
<1>2. \A i \in 1 .. Len(ak) : ak[i] \in Answers
  OBVIOUS
<1>3. \A a \in Answers : a.qty \in Nat
  BY DEF Answers
<1>4. \A i \in 1 .. Len(ak) : (IF ak[i] \in S THEN ak[i].qty ELSE 0) \in Nat
  BY <1>2, <1>3
<1>5. Terms(ak, S) = [i \in 1 .. Len(ak) |-> IF ak[i] \in S THEN ak[i].qty ELSE 0]
  BY <1>1 DEF Terms
<1>6. Terms(ak, S) \in [1 .. Len(ak) -> Int]
  BY <1>4, <1>5
<1>7. Terms(ak, S) \in Seq(Int) /\ Len(Terms(ak, S)) = Len(ak)
  BY <1>1, <1>6
<1> QED
  BY <1>2, <1>3, <1>4, <1>5, <1>7 DEF Shares, Terms

\* That sum is a natural, and no answer in S is about more shares than all of them.
LEMMA SharesNat ==
  ASSUME NEW ak \in Seq(Answers), NEW S
  PROVE  /\ Shares(ak, S) \in Nat
         /\ \A i \in 1 .. Len(ak) : ak[i] \in S => ak[i].qty <= Shares(ak, S)
<1> DEFINE f == Terms(ak, S)
<1>1. /\ Shares(ak, S) = SumOf(f) /\ f \in Seq(Int) /\ Len(f) = Len(ak)
      /\ \A i \in 1 .. Len(ak) : f[i] \in Nat /\ f[i] = (IF ak[i] \in S THEN ak[i].qty ELSE 0)
  BY TermsFacts
<1> HIDE DEF f
<1>2. \A i \in 1 .. Len(f) : f[i] >= 0
  BY <1>1
<1>3. SumOf(f) \in Int /\ SumOf(f) >= 0 /\ \A i \in 1 .. Len(f) : f[i] <= SumOf(f)
  BY <1>1, <1>2, SumsGrow, SumsFacts
<1> QED
  BY <1>1, <1>3

\* Where no answer is in S, there are no shares of them.
LEMMA SharesNone ==
  ASSUME NEW ak \in Seq(Answers), NEW S, \A i \in 1 .. Len(ak) : ak[i] \notin S
  PROVE  Shares(ak, S) = 0
<1>1. \A i \in 1 .. Len(Terms(ak, S)) : Terms(ak, S)[i] = 0
  BY TermsFacts
<1> QED
  BY <1>1, TermsFacts, SumOfZeros

\* The shares of answers queued behind others add up.
LEMMA SharesConcat ==
  ASSUME NEW s \in Seq(Answers), NEW t \in Seq(Answers), NEW S
  PROVE  Shares(s \o t, S) = Shares(s, S) + Shares(t, S)
<1> DEFINE u == s \o t
           f == Terms(s, S)
           g == Terms(t, S)
           h == Terms(u, S)
           m == Len(s)
           n == Len(t)
<1>1. /\ u \in Seq(Answers) /\ Len(u) = m + n /\ m \in Nat /\ n \in Nat
      /\ \A i \in 1 .. m : u[i] = s[i]
      /\ \A i \in 1 .. n : u[m + i] = t[i]
  OBVIOUS
<1> HIDE DEF u, m, n
<1>2. /\ Shares(s, S) = SumOf(f) /\ f \in Seq(Int) /\ Len(f) = m
      /\ \A i \in 1 .. m : f[i] \in Nat /\ f[i] = (IF s[i] \in S THEN s[i].qty ELSE 0)
  BY TermsFacts DEF m
<1>3. /\ Shares(t, S) = SumOf(g) /\ g \in Seq(Int) /\ Len(g) = n
      /\ \A i \in 1 .. n : g[i] \in Nat /\ g[i] = (IF t[i] \in S THEN t[i].qty ELSE 0)
  BY TermsFacts DEF n
<1>4. /\ Shares(u, S) = SumOf(h) /\ h \in Seq(Int) /\ Len(h) = m + n
      /\ \A i \in 1 .. (m + n) : h[i] \in Nat /\ h[i] = (IF u[i] \in S THEN u[i].qty ELSE 0)
  BY TermsFacts, <1>1
<1> HIDE DEF f, g, h
<1>5. ASSUME NEW i \in 1 .. m PROVE h[i] = f[i]
  <2>1. i \in 1 .. (m + n) /\ u[i] = s[i]
    BY <1>1
  <2> QED
    BY <2>1, <1>2, <1>4
<1>6. ASSUME NEW i \in 1 .. n PROVE h[m + i] = g[i]
  <2>1. m + i \in 1 .. (m + n) /\ u[m + i] = t[i]
    BY <1>1
  <2> QED
    BY <2>1, <1>3, <1>4
<1>7. /\ Sums(f)[0] = 0 /\ SumOf(f) = Sums(f)[m] /\ \A i \in 0 .. m : Sums(f)[i] \in Int
      /\ \A i \in 1 .. m : Sums(f)[i] = Sums(f)[i - 1] + f[i]
  BY <1>2, SumsFacts
<1>8. /\ Sums(g)[0] = 0 /\ SumOf(g) = Sums(g)[n] /\ \A i \in 0 .. n : Sums(g)[i] \in Int
      /\ \A i \in 1 .. n : Sums(g)[i] = Sums(g)[i - 1] + g[i]
  BY <1>3, SumsFacts
<1>9. /\ Sums(h)[0] = 0 /\ SumOf(h) = Sums(h)[m + n] /\ \A i \in 0 .. (m + n) : Sums(h)[i] \in Int
      /\ \A i \in 1 .. (m + n) : Sums(h)[i] = Sums(h)[i - 1] + h[i]
  BY <1>4, SumsFacts
<1> DEFINE T == {i \in 0 .. m : Sums(h)[i] = Sums(f)[i]}
           U == {i \in 0 .. n : Sums(h)[m + i] = Sums(f)[m] + Sums(g)[i]}
<1>10. Sums(h)[m] = Sums(f)[m]
  <2>1. 0 \in T
    BY <1>1, <1>7, <1>9
  <2>2. ASSUME NEW i \in 0 .. (m - 1), i \in T PROVE i + 1 \in T
    <3>1. i + 1 \in 1 .. m /\ i + 1 \in 1 .. (m + n) /\ (i + 1) - 1 = i /\ i + 1 \in 0 .. m
      BY <1>1
    <3> QED
      BY <2>2, <3>1, <1>5, <1>7, <1>9
  <2>3. \A i \in 0 .. m : i \in T
    <3> HIDE DEF T
    <3> QED
      BY <2>1, <2>2, <1>1, EveryTurn
  <2> QED
    BY <2>3, <1>1
<1>11. Sums(h)[m + n] = Sums(f)[m] + Sums(g)[n]
  <2>1. 0 \in U
    BY <1>1, <1>7, <1>8, <1>10
  <2>2. ASSUME NEW i \in 0 .. (n - 1), i \in U PROVE i + 1 \in U
    <3>1. /\ i + 1 \in 1 .. n /\ m + i + 1 \in 1 .. (m + n) /\ (i + 1) - 1 = i /\ i + 1 \in 0 .. n
          /\ (m + i + 1) - 1 = m + i /\ m + (i + 1) = m + i + 1 /\ m \in 0 .. m /\ i \in 0 .. n
      BY <1>1
    <3>2. Sums(h)[m + i + 1] = Sums(h)[m + i] + h[m + i + 1]
      BY <3>1, <1>9
    <3>3. h[m + (i + 1)] = g[i + 1] /\ g[i + 1] \in Int
      <4> DEFINE j == i + 1
      <4>1. j \in 1 .. n
        BY <3>1
      <4> HIDE DEF j
      <4>2. h[m + j] = g[j] /\ g[j] \in Int
        BY <4>1, <1>6, <1>3
      <4> QED
        BY <4>2 DEF j
    <3>4. Sums(g)[i + 1] = Sums(g)[i] + g[i + 1] /\ Sums(g)[i] \in Int /\ Sums(f)[m] \in Int
      BY <3>1, <1>7, <1>8
    <3>5. Sums(h)[m + (i + 1)] = Sums(f)[m] + Sums(g)[i + 1]
      BY <2>2, <3>1, <3>2, <3>3, <3>4
    <3> QED
      BY <3>1, <3>5
  <2>3. \A i \in 0 .. n : i \in U
    <3> HIDE DEF U
    <3> QED
      BY <2>1, <2>2, <1>1, EveryTurn
  <2> QED
    BY <2>3, <1>1
<1> QED
  BY <1>2, <1>3, <1>4, <1>7, <1>8, <1>9, <1>11 DEF u

\* The shares of a single answer.
LEMMA SharesOne ==
  ASSUME NEW a \in Answers, NEW S
  PROVE  Shares(<<a>>, S) = IF a \in S THEN a.qty ELSE 0
<1> DEFINE s == <<a>>
<1>1. s \in Seq(Answers) /\ Len(s) = 1 /\ s[1] = a /\ 1 \in 1 .. Len(s)
  OBVIOUS
<1> HIDE DEF s
<1>2. /\ Shares(s, S) = SumOf(Terms(s, S)) /\ Terms(s, S) \in Seq(Int)
      /\ Len(Terms(s, S)) = 1 /\ Terms(s, S)[1] = (IF a \in S THEN a.qty ELSE 0)
  BY <1>1, TermsFacts
<1>3. SumOf(Terms(s, S)) = Terms(s, S)[1]
  <2> DEFINE f == Terms(s, S)
  <2>1. f \in Seq(Int) /\ 1 \in 1 .. Len(f) /\ \A j \in 1 .. Len(f) : j # 1 => f[j] = 0
    BY <1>2
  <2> HIDE DEF f
  <2>2. SumOf(f) = f[1]
    BY <2>1, SumOfOne
  <2> QED
    BY <2>2 DEF f
<1>4. Shares(s, S) = IF a \in S THEN a.qty ELSE 0
  BY <1>2, <1>3
<1> QED
  BY <1>4 DEF s

\* The shares of no answers.
LEMMA SharesEmpty ==
  ASSUME NEW S PROVE Shares(<< >>, S) = 0
<1> DEFINE s == << >>
<1>1. s \in Seq(Answers) /\ \A i \in 1 .. Len(s) : s[i] \notin S
  OBVIOUS
<1> HIDE DEF s
<1>2. Shares(s, S) = 0
  BY <1>1, SharesNone
<1> QED
  BY <1>2 DEF s

\* The shares once the oldest answer is taken.
LEMMA SharesTail ==
  ASSUME NEW s \in Seq(Answers), s # << >>, NEW S
  PROVE  Shares(Tail(s), S) = Shares(s, S) - (IF Head(s) \in S THEN Head(s).qty ELSE 0)
<1> DEFINE a == Head(s)
           h == <<a>>
           t == Tail(s)
<1>1. a \in Answers /\ t \in Seq(Answers) /\ s = h \o t /\ h \in Seq(Answers)
  OBVIOUS
<1>2. Shares(h, S) = (IF a \in S THEN a.qty ELSE 0) /\ a.qty \in Nat
  <2>1. a \in Answers
    BY <1>1
  <2> HIDE DEF a
  <2> QED
    BY <2>1, SharesOne DEF Answers
<1> HIDE DEF a, h, t
<1>3. Shares(h \o t, S) = Shares(h, S) + Shares(t, S)
  BY <1>1, SharesConcat
<1>4. Shares(t, S) \in Nat /\ Shares(h, S) \in Nat
  BY <1>1, SharesNat
<1>5. Shares(t, S) = Shares(s, S) - (IF a \in S THEN a.qty ELSE 0)
  BY <1>1, <1>2, <1>3, <1>4
<1> QED
  BY <1>5 DEF a, t

\* The pieces of seqs, one after the other.
Glues(g, seqs, n, S) ==
  g \in [0 .. n -> Seq(S)] /\ g[0] = << >> /\ \A i \in 1 .. n : g[i] = g[i - 1] \o seqs[i]

\* Any n sequences can be glued, each behind the ones before it.
LEMMA GluesExists ==
  ASSUME NEW n \in Nat, NEW S, NEW seqs, \A i \in 1 .. n : seqs[i] \in Seq(S)
  PROVE  \E g : Glues(g, seqs, n, S)
<1> DEFINE T == {m \in 0 .. n : \E g : Glues(g, seqs, m, S)}
<1>1. 0 \in T
  <2> DEFINE g == [i \in 0 .. 0 |-> << >>]
  <2>1. Glues(g, seqs, 0, S)
    BY DEF Glues
  <2> HIDE DEF g
  <2> QED
    BY <2>1
<1>2. ASSUME NEW m \in 0 .. (n - 1), m \in T PROVE m + 1 \in T
  <2>1. PICK g : Glues(g, seqs, m, S)
    BY <1>2
  <2> DEFINE h == [i \in 0 .. (m + 1) |-> IF i <= m THEN g[i] ELSE g[m] \o seqs[m + 1]]
  <2>2. g[m] \in Seq(S) /\ seqs[m + 1] \in Seq(S)
    BY <2>1 DEF Glues
  <2>3. g[m] \o seqs[m + 1] \in Seq(S)
    BY <2>2
  <2>4. h \in [0 .. (m + 1) -> Seq(S)] /\ h[0] = << >>
    BY <2>1, <2>3 DEF Glues
  <2>5. ASSUME NEW i \in 1 .. (m + 1) PROVE h[i] = h[i - 1] \o seqs[i]
    <3>1. CASE i <= m
      <4>1. i \in 1 .. m /\ i \in 0 .. (m + 1) /\ i - 1 \in 0 .. (m + 1) /\ i - 1 <= m
        BY <3>1
      <4>2. h[i] = g[i] /\ h[i - 1] = g[i - 1]
        BY <3>1, <4>1
      <4> QED
        BY <2>1, <4>1, <4>2 DEF Glues
    <3>2. CASE ~(i <= m)
      <4>1. i = m + 1 /\ i \in 0 .. (m + 1) /\ i - 1 = m /\ m \in 0 .. (m + 1) /\ m <= m
        BY <3>2
      <4>2. h[i] = g[m] \o seqs[m + 1]
        BY <3>2, <4>1
      <4>3. h[m] = g[m]
        BY <4>1
      <4> HIDE DEF h
      <4> QED
        BY <4>1, <4>2, <4>3
    <3> QED
      BY <3>1, <3>2
  <2>6. Glues(h, seqs, m + 1, S)
    <3> HIDE DEF h
    <3> QED
      BY <2>4, <2>5 DEF Glues
  <2> HIDE DEF h
  <2> QED
    BY <2>6
<1>3. n \in T
  <2> HIDE DEF T
  <2>1. \A i \in 0 .. n : i \in T
    BY <1>1, <1>2, EveryTurn
  <2> QED
    BY <2>1
<1> QED
  BY <1>3

\* FlattenSeq, which collects the answers of the fills, glues the sequences it is given.
LEMMA FlattenGlues ==
  ASSUME NEW S, NEW seqs \in Seq(Seq(S))
  PROVE  \E g : Glues(g, seqs, Len(seqs), S) /\ FlattenSeq(seqs) = g[Len(seqs)]
<1> DEFINE n == Len(seqs)
           Is(h) == h = [i \in 1 .. Len(seqs) |-> IF i = 1 THEN seqs[i] ELSE h[i - 1] \o seqs[i]]
<1>0. n \in Nat /\ \A i \in 1 .. n : seqs[i] \in Seq(S)
  OBVIOUS
<1>1. PICK g : Glues(g, seqs, n, S)
  BY <1>0, GluesExists
<1>2. CASE n = 0
  <2>1. FlattenSeq(seqs) = seqs /\ seqs = << >>
    BY <1>2 DEF FlattenSeq
  <2> QED
    BY <1>1, <1>2, <2>1 DEF Glues
<1>3. CASE n # 0
  <2> DEFINE r == [i \in 1 .. n |-> g[i]]
  <2>1. \A i \in 1 .. n : g[i] = IF i = 1 THEN seqs[i] ELSE g[i - 1] \o seqs[i]
    <3>1. ASSUME NEW i \in 1 .. n, i = 1 PROVE g[i] = seqs[i]
      <4>0. i - 1 = 0
        BY <3>1
      <4>1. g[i] = g[i - 1] \o seqs[i] /\ g[0] = << >> /\ seqs[i] \in Seq(S)
        BY <1>0, <1>1, <3>1 DEF Glues
      <4>2. << >> \o seqs[i] = seqs[i]
        BY <4>1, ConcatEmptySeq
      <4> QED
        BY <4>0, <4>1, <4>2
    <3> QED
      BY <1>1, <3>1 DEF Glues
  <2>2. Is(r)
    BY <2>1
  <2>3. FlattenSeq(seqs) = (CHOOSE h : Is(h))[n]
    BY <1>3 DEF FlattenSeq
  <2>4. Is(CHOOSE h : Is(h))
    <3> HIDE DEF Is, r
    <3> QED
      BY <2>2
  <2> DEFINE f == CHOOSE h : Is(h)
  <2>5. \A i \in 1 .. n : f[i] = IF i = 1 THEN seqs[i] ELSE f[i - 1] \o seqs[i]
    <3>1. f = [i \in 1 .. n |-> IF i = 1 THEN seqs[i] ELSE f[i - 1] \o seqs[i]]
      BY <2>4
    <3> HIDE DEF f
    <3> QED
      BY <3>1
  <2> HIDE DEF f
  <2> DEFINE T == {i \in 0 .. n : i = 0 \/ f[i] = g[i]}
  <2>6. ASSUME NEW i \in 0 .. (n - 1), i \in T PROVE i + 1 \in T
    <3>1. i + 1 \in 1 .. n /\ (i + 1) - 1 = i
      BY <1>0
    <3> DEFINE j == i + 1
    <3>2. j \in 1 .. n /\ j - 1 = i
      BY <3>1
    <3> HIDE DEF j
    <3>3. f[j] = (IF j = 1 THEN seqs[j] ELSE f[i] \o seqs[j]) /\ g[j] = (IF j = 1 THEN seqs[j] ELSE g[i] \o seqs[j])
      BY <2>1, <2>5, <3>2
    <3>4. f[j] = g[j]
      BY <2>6, <3>2, <3>3
    <3> QED
      BY <3>2, <3>4 DEF j
  <2>7. n \in T
    <3>1. 0 \in T
      BY <1>0
    <3>2. \A i \in 0 .. n : i \in T
      <4> HIDE DEF T
      <4> QED
        BY <1>0, <2>6, <3>1, EveryTurn
    <3> QED
      BY <1>0, <3>2
  <2>8. FlattenSeq(seqs) = g[n]
    BY <1>3, <2>3, <2>7 DEF f
  <2> QED
    BY <1>1, <2>8
<1> QED
  BY <1>2, <1>3

-----------------------------------------------------------------------------
Orders == [id : Nat, client : BOOLEAN, price : Nat, qty : Nat \ {0}]

\* c is the client order of a side that has at most one, or NoOrder.
Shows(rest, c) ==
  /\ \A i, j \in DOMAIN rest : rest[i].client /\ rest[j].client => i = j
  /\ \A i \in DOMAIN rest : rest[i].client => c = Shown(rest[i])
  /\ (\A i \in DOMAIN rest : ~rest[i].client) => c = NoOrder

\* An order that rests shows shares, so it is told from a side without a client order.
LEMMA ShownIsOrder == \A o \in Orders : Shown(o).qty > 0 /\ Shown(o) # NoOrder
<1>1. ASSUME NEW o \in Orders PROVE Shown(o).qty > 0 /\ Shown(o) # NoOrder
  <2>1. o.qty \in Nat /\ o.qty # 0
    BY DEF Orders
  <2>2. Shown(o).qty = o.qty /\ NoOrder.qty = 0
    BY DEF Shown, NoOrder
  <2> QED
    BY <2>1, <2>2
<1> QED
  BY <1>1

\* An empty side shows no client order.
LEMMA ShowsEmpty == Shows(<< >>, NoOrder)
BY DEF Shows

\* A side with one order shows it if it is the client's.
LEMMA ShowsOne ==
  ASSUME NEW o \in Orders
  PROVE  Shows(<<o>>, IF o.client THEN Shown(o) ELSE NoOrder)
BY DEF Shows

\* A side has at most one client order exactly if it shows what ClientAt says, and that is all
\* it shows.
LEMMA ShowsView ==
  ASSUME NEW rest \in Seq(Orders)
  PROVE  /\ Single(rest) <=> Shows(rest, ClientAt(rest))
         /\ \A c : Shows(rest, c) => Single(rest) /\ c = ClientAt(rest)
<1>1. \A i \in Clients(rest) : i \in DOMAIN rest /\ rest[i].client
  BY DEF Clients
<1>2. \A i \in DOMAIN rest : rest[i].client => i \in Clients(rest)
  BY DEF Clients
<1>3. ASSUME NEW c, Shows(rest, c) PROVE Single(rest) /\ c = ClientAt(rest)
  <2>1. Single(rest)
    BY <1>1, <1>3 DEF Single, Shows
  <2>2. CASE Clients(rest) = {}
    <3>1. \A i \in DOMAIN rest : ~rest[i].client
      BY <1>2, <2>2
    <3>2. c = NoOrder
      BY <1>3, <3>1 DEF Shows
    <3> QED
      BY <2>1, <2>2, <3>2 DEF ClientAt
  <2>3. CASE Clients(rest) # {}
    <3>1. PICK i \in Clients(rest) : i = CHOOSE j \in Clients(rest) : TRUE
      BY <2>3
    <3>2. ClientAt(rest) = Shown(rest[i])
      BY <2>3, <3>1 DEF ClientAt
    <3>3. i \in DOMAIN rest /\ rest[i].client
      BY <1>1
    <3>4. c = Shown(rest[i])
      BY <1>3, <3>3 DEF Shows
    <3> QED
      BY <2>1, <3>2, <3>4
  <2> QED
    BY <2>1, <2>2, <2>3
<1>4. ASSUME Single(rest) PROVE Shows(rest, ClientAt(rest))
  <2>1. \A i, j \in DOMAIN rest : rest[i].client /\ rest[j].client => i = j
    BY <1>2, <1>4 DEF Single
  <2>2. CASE Clients(rest) = {}
    BY <1>2, <2>1, <2>2 DEF Shows, ClientAt
  <2>3. CASE Clients(rest) # {}
    <3>1. PICK i \in Clients(rest) : i = CHOOSE j \in Clients(rest) : TRUE
      BY <2>3
    <3>2. ClientAt(rest) = Shown(rest[i])
      BY <2>3, <3>1 DEF ClientAt
    <3> QED
      BY <1>1, <2>1, <3>1, <3>2 DEF Shows
  <2> QED
    BY <2>2, <2>3
<1> QED
  BY <1>3, <1>4

\* Two stretches of orders of which one holds no client order show what the other one shows.
LEMMA ShowsConcat ==
  ASSUME NEW s \in Seq(Orders), NEW t \in Seq(Orders), NEW c, NEW d, Shows(s, c), Shows(t, d),
         c = NoOrder \/ d = NoOrder
  PROVE  Shows(s \o t, IF c = NoOrder THEN d ELSE c)
<1> DEFINE u == s \o t
           m == Len(s)
           n == Len(t)
<1>1. /\ DOMAIN u = 1 .. (m + n) /\ m \in Nat /\ n \in Nat /\ DOMAIN s = 1 .. m /\ DOMAIN t = 1 .. n
      /\ \A i \in 1 .. m : u[i] = s[i] /\ s[i] \in Orders
      /\ \A i \in (m + 1) .. (m + n) : u[i] = t[i - m] /\ i - m \in 1 .. n
      /\ \A i \in 1 .. n : t[i] \in Orders /\ u[m + i] = t[i] /\ m + i \in 1 .. (m + n)
  OBVIOUS
<1> HIDE DEF u, m, n
<1>2. \A i \in 1 .. m : s[i].client => c # NoOrder
  BY <1>1, ShownIsOrder DEF Shows
<1>3. \A i \in 1 .. n : t[i].client => d # NoOrder
  BY <1>1, ShownIsOrder DEF Shows
<1>4. \A i \in 1 .. (m + n) : i \in 1 .. m \/ i \in (m + 1) .. (m + n)
  BY <1>1
<1>5. ASSUME NEW i \in DOMAIN u, u[i].client
      PROVE  \/ i \in 1 .. m /\ c # NoOrder /\ c = Shown(u[i])
             \/ i \in (m + 1) .. (m + n) /\ d # NoOrder /\ d = Shown(u[i])
  <2>1. CASE i \in 1 .. m
    BY <1>1, <1>2, <1>5, <2>1 DEF Shows
  <2>2. CASE i \in (m + 1) .. (m + n)
    BY <1>1, <1>3, <1>5, <2>2 DEF Shows
  <2> QED
    BY <1>1, <1>4, <2>1, <2>2
<1>6. ASSUME NEW i \in DOMAIN u, NEW j \in DOMAIN u, u[i].client, u[j].client PROVE i = j
  <2>1. CASE c # NoOrder
    <3>1. i \in 1 .. m /\ j \in 1 .. m
      BY <1>5, <1>6, <2>1
    <3> QED
      BY <1>1, <1>6, <3>1 DEF Shows
  <2>2. CASE c = NoOrder
    <3>1. i \in (m + 1) .. (m + n) /\ j \in (m + 1) .. (m + n)
      BY <1>5, <1>6, <2>2
    <3>2. i - m = j - m
      BY <1>1, <1>6, <3>1 DEF Shows
    <3> QED
      BY <1>1, <3>1, <3>2
  <2> QED
    BY <2>1, <2>2
<1>7. ASSUME \A i \in DOMAIN u : ~u[i].client PROVE c = NoOrder /\ d = NoOrder
  <2>1. \A i \in 1 .. m : ~s[i].client
    <3>1. \A i \in 1 .. m : i \in DOMAIN u
      BY <1>1
    <3> QED
      BY <1>1, <1>7, <3>1
  <2>2. \A i \in 1 .. n : ~t[i].client
    BY <1>1, <1>7
  <2> QED
    BY <1>1, <2>1, <2>2 DEF Shows
<1>8. Shows(u, IF c = NoOrder THEN d ELSE c)
  BY <1>5, <1>6, <1>7 DEF Shows
<1> QED
  BY <1>8 DEF u

\* An order that gave up some of its shares.
LEMMA CutOrder ==
  ASSUME NEW o \in Orders, NEW f \in Nat, f <= o.qty, NEW z, z = [o EXCEPT !.qty = @ - f]
  PROVE  /\ z.client = o.client /\ z.id = o.id /\ z.price = o.price /\ z.qty = o.qty - f
         /\ f < o.qty => z \in Orders
         /\ Shown(z) = [Shown(o) EXCEPT !.qty = @ - f]
<1>1. /\ o.qty \in Nat /\ o.id \in Nat /\ o.price \in Nat /\ o.client \in BOOLEAN
      /\ o = [id |-> o.id, client |-> o.client, price |-> o.price, qty |-> o.qty]
  BY DEF Orders
<1>2. z = [id |-> o.id, client |-> o.client, price |-> o.price, qty |-> o.qty - f]
  BY <1>1
<1>3. f < o.qty => o.qty - f \in Nat \ {0}
  BY <1>1
<1>4. f < o.qty => z \in Orders
  BY <1>1, <1>2, <1>3 DEF Orders
<1>5. z.client = o.client /\ z.id = o.id /\ z.price = o.price /\ z.qty = o.qty - f
  BY <1>2
<1> QED
  BY <1>4, <1>5 DEF Shown

\* The orders that Chosen keeps of a side show the client order among those kept.
LEMMA ChosenShows ==
  ASSUME NEW n \in Nat, NEW rest, DOMAIN rest = 1 .. n, NEW keep, NEW c,
         \A i \in 1 .. n : i \in keep => rest[i] \in Orders,
         \A i, j \in 1 .. n :
           i \in keep /\ j \in keep /\ rest[i].client /\ rest[j].client => i = j,
         \A i \in 1 .. n : i \in keep /\ rest[i].client => c = Shown(rest[i]),
         (\A i \in 1 .. n : i \in keep => ~rest[i].client) => c = NoOrder
  PROVE  Chosen(rest, keep) \in Seq(Orders) /\ Shows(Chosen(rest, keep), c)
<1> DEFINE seqs == [i \in DOMAIN rest |-> IF i \in keep THEN <<rest[i]>> ELSE << >>]
           has(m) == \E j \in 1 .. m : j \in keep /\ rest[j].client
           d(m) == IF has(m) THEN c ELSE NoOrder
<1>1. \A i \in 1 .. n : (IF i \in keep THEN <<rest[i]>> ELSE << >>) \in Seq(Orders)
  OBVIOUS
<1>2. seqs \in [1 .. n -> Seq(Orders)]
  BY <1>1
<1>3. seqs \in Seq(Seq(Orders)) /\ Len(seqs) = n
  BY <1>2
<1>4. Chosen(rest, keep) = FlattenSeq(seqs)
  BY DEF Chosen
<1>5. \A i \in 1 .. n : seqs[i] = IF i \in keep THEN <<rest[i]>> ELSE << >>
  OBVIOUS
<1> HIDE DEF seqs
<1>6. PICK g : Glues(g, seqs, n, Orders) /\ FlattenSeq(seqs) = g[n]
  BY <1>3, FlattenGlues
<1>7. g \in [0 .. n -> Seq(Orders)] /\ g[0] = << >> /\ \A i \in 1 .. n : g[i] = g[i - 1] \o seqs[i]
  BY <1>6 DEF Glues
<1> DEFINE T == {i \in 0 .. n : Shows(g[i], d(i))}
<1>8. 0 \in T
  <2>1. d(0) = NoOrder
    OBVIOUS
  <2> QED
    BY <1>7, <2>1, ShowsEmpty
<1>9. ASSUME NEW m \in 0 .. (n - 1), m \in T PROVE m + 1 \in T
  <2> DEFINE k == m + 1
  <2>1. k \in 1 .. n /\ k - 1 = m /\ m \in 0 .. n /\ k \in 0 .. n /\ k \in Nat
    OBVIOUS
  <2>2. \A j \in 1 .. k : j = k \/ j \in 1 .. m
    OBVIOUS
  <2>3. \A j \in 1 .. m : j \in 1 .. k /\ j # k /\ j \in 1 .. n
    OBVIOUS
  <2>4. Shows(g[m], d(m)) /\ g[m] \in Seq(Orders)
    BY <1>7, <1>9
  <2> HIDE DEF k
  <2>5. g[k] = g[m] \o seqs[k]
    BY <1>7, <2>1
  <2>6. CASE k \notin keep
    <3>1. has(k) <=> has(m)
      BY <2>2, <2>3, <2>6
    <3>2. g[k] = g[m]
      <4>1. seqs[k] = << >>
        BY <1>5, <2>1, <2>6
      <4> QED
        BY <2>4, <2>5, <4>1, ConcatEmptySeq
    <3>3. d(k) = d(m)
      BY <3>1
    <3> QED
      BY <2>1, <2>4, <3>2, <3>3 DEF k
  <2>7. CASE k \in keep
    <3>0. rest[k] \in Orders /\ seqs[k] = <<rest[k]>>
      BY <1>5, <2>1, <2>7
    <3>1. seqs[k] = <<rest[k]>> /\ rest[k] \in Orders /\ <<rest[k]>> \in Seq(Orders)
      BY <3>0
    <3> DEFINE e == IF rest[k].client THEN Shown(rest[k]) ELSE NoOrder
    <3>2. Shows(seqs[k], e)
      BY <3>1, ShowsOne
    <3>3. CASE rest[k].client
      <4>1. ~has(m)
        BY <2>1, <2>3, <2>7, <3>3
      <4>2. has(k)
        BY <2>1, <2>7, <3>3
      <4>3. e = c
        BY <2>1, <2>7, <3>3
      <4> HIDE DEF has, e
      <4>4. d(m) = NoOrder /\ d(k) = c
        BY <4>1, <4>2
      <4>5. Shows(g[m] \o seqs[k], IF d(m) = NoOrder THEN e ELSE d(m))
        BY <2>4, <3>1, <3>2, <4>4, ShowsConcat
      <4>6. Shows(g[k], d(k))
        BY <2>5, <4>3, <4>4, <4>5
      <4> QED
        BY <2>1, <4>6 DEF k
    <3>4. CASE ~rest[k].client
      <4>1. has(k) <=> has(m)
        BY <2>2, <2>3, <3>4
      <4>2. e = NoOrder
        BY <3>4
      <4> HIDE DEF has, e
      <4>3. d(k) = d(m)
        BY <4>1
      <4>4. Shows(g[m] \o seqs[k], IF d(m) = NoOrder THEN e ELSE d(m))
        BY <2>4, <3>1, <3>2, <4>2, ShowsConcat
      <4>5. Shows(g[k], d(k))
        BY <2>5, <4>2, <4>3, <4>4
      <4> QED
        BY <2>1, <4>5 DEF k
    <3> QED
      BY <3>3, <3>4
  <2> QED
    BY <2>6, <2>7
<1>10. n \in T
  <2>1. \A i \in 0 .. n : i \in T
    <3> HIDE DEF T
    <3> QED
      BY <1>8, <1>9, EveryTurn
  <2> QED
    BY <2>1
<1>11. d(n) = c
  <2>1. CASE has(n)
    BY <2>1
  <2>2. CASE ~has(n)
    <3>1. \A i \in 1 .. n : i \in keep => ~rest[i].client
      BY <2>2
    <3>2. c = NoOrder
      BY <3>1
    <3> QED
      BY <2>2, <3>2
  <2> QED
    BY <2>1, <2>2
<1>12. Shows(g[n], c) /\ g[n] \in Seq(Orders)
  BY <1>7, <1>10, <1>11
<1> QED
  BY <1>4, <1>6, <1>12

\* What is left of a client order that gave up f of its shares.
Take(c, f) == IF f = c.qty THEN NoOrder ELSE [c EXCEPT !.qty = @ - f]

\* fills does not take more from an order than there is.
FillsFit(rest, fills) ==
  /\ DOMAIN fills = DOMAIN rest
  /\ \A i \in DOMAIN rest : fills[i] \in Nat /\ fills[i] <= rest[i].qty

\* The shares of the client order of a side.
ClientPart(rest, fills) ==
  IF Clients(rest) = {} THEN 0 ELSE fills[CHOOSE i \in Clients(rest) : TRUE]

\* What a side shows is its client order, found at the one place Clients names.
LEMMA ShowsClient ==
  ASSUME NEW rest \in Seq(Orders), NEW c, Shows(rest, c)
  PROVE  /\ c.qty = 0 => c = NoOrder /\ Clients(rest) = {} /\ \A i \in DOMAIN rest : ~rest[i].client
         /\ c.qty # 0 => \E i \in DOMAIN rest :
              /\ rest[i].client /\ Clients(rest) = {i} /\ c = Shown(rest[i])
              /\ c.id = rest[i].id /\ c.qty = rest[i].qty /\ c.price = rest[i].price
              /\ (CHOOSE j \in Clients(rest) : TRUE) = i
         /\ c.qty \in Nat /\ c.id \in Nat /\ c.price \in Nat
<1>1. CASE \A i \in DOMAIN rest : ~rest[i].client
  <2>1. c = NoOrder
    BY <1>1 DEF Shows
  <2>2. Clients(rest) = {}
    BY <1>1 DEF Clients
  <2> QED
    BY <1>1, <2>1, <2>2 DEF NoOrder
<1>2. CASE \E i \in DOMAIN rest : rest[i].client
  <2>1. PICK i \in DOMAIN rest : rest[i].client
    BY <1>2
  <2>2. c = Shown(rest[i])
    BY <2>1 DEF Shows
  <2>3. Clients(rest) = {i}
    BY <2>1 DEF Shows, Clients
  <2>4. rest[i] \in Orders
    BY <2>1
  <2>5. rest[i].qty \in Nat \ {0} /\ rest[i].id \in Nat /\ rest[i].price \in Nat
    BY <2>4 DEF Orders
  <2>6. c.id = rest[i].id /\ c.qty = rest[i].qty /\ c.price = rest[i].price
    BY <2>2 DEF Shown
  <2>7. (CHOOSE j \in Clients(rest) : TRUE) = i
    BY <2>3
  <2> QED
    BY <2>1, <2>2, <2>3, <2>5, <2>6, <2>7
<1> QED
  BY <1>1, <1>2

\* Reduced takes the fills from the orders of a side.
LEMMA ReducedShows ==
  ASSUME NEW rest \in Seq(Orders), NEW c, Shows(rest, c), NEW fills, FillsFit(rest, fills)
  PROVE  /\ Reduced(rest, fills) \in Seq(Orders)
         /\ ClientPart(rest, fills) \in Nat /\ ClientPart(rest, fills) <= c.qty
         /\ Shows(Reduced(rest, fills), Take(c, ClientPart(rest, fills)))
<1> DEFINE n == Len(rest)
           cut == [i \in DOMAIN rest |-> [rest[i] EXCEPT !.qty = @ - fills[i]]]
           keep == {i \in DOMAIN rest : fills[i] < rest[i].qty}
           f == ClientPart(rest, fills)
           d == Take(c, f)
<1>1. n \in Nat /\ DOMAIN rest = 1 .. n
  OBVIOUS
<1>2. \A i \in 1 .. n : rest[i] \in Orders /\ fills[i] \in Nat /\ fills[i] <= rest[i].qty
  BY <1>1 DEF FillsFit
<1>3. ASSUME NEW i \in 1 .. n
      PROVE  /\ cut[i] = [rest[i] EXCEPT !.qty = @ - fills[i]]
             /\ cut[i].client = rest[i].client
             /\ i \in keep => cut[i] \in Orders
             /\ i \in keep => fills[i] # rest[i].qty
             /\ i \notin keep => fills[i] = rest[i].qty
             /\ Shown(cut[i]) = [Shown(rest[i]) EXCEPT !.qty = @ - fills[i]]
  <2>1. cut[i] = [rest[i] EXCEPT !.qty = @ - fills[i]]
    BY <1>1
  <2>2. rest[i] \in Orders /\ fills[i] \in Nat /\ fills[i] <= rest[i].qty
    BY <1>2
  <2>3. rest[i].qty \in Nat /\ rest[i].id \in Nat /\ rest[i].price \in Nat
    BY <2>2 DEF Orders
  <2> DEFINE z == [rest[i] EXCEPT !.qty = @ - fills[i]]
  <2>4. /\ z.client = rest[i].client /\ (fills[i] < rest[i].qty => z \in Orders)
        /\ Shown(z) = [Shown(rest[i]) EXCEPT !.qty = @ - fills[i]]
    <3> DEFINE o == rest[i]
               q == fills[i]
    <3>1. o \in Orders /\ q \in Nat /\ q <= o.qty /\ z = [o EXCEPT !.qty = @ - q]
      BY <2>2
    <3> HIDE DEF o, q, z
    <3>2. /\ z.client = o.client /\ (q < o.qty => z \in Orders)
          /\ Shown(z) = [Shown(o) EXCEPT !.qty = @ - q]
      BY <3>1, CutOrder
    <3> QED
      BY <3>2 DEF o, q
  <2>5. i \in keep <=> fills[i] < rest[i].qty
    BY <1>1
  <2> QED
    BY <2>1, <2>2, <2>3, <2>4, <2>5
<1>4. f \in Nat /\ f <= c.qty
  <2>1. CASE c.qty = 0
    <3>1. Clients(rest) = {}
      BY <2>1, ShowsClient
    <3> QED
      BY <2>1, <3>1 DEF ClientPart
  <2>2. CASE c.qty # 0
    <3>1. PICK i \in DOMAIN rest : Clients(rest) = {i} /\ (CHOOSE j \in Clients(rest) : TRUE) = i /\ c.qty = rest[i].qty
      BY <2>2, ShowsClient
    <3>2. f = fills[i]
      BY <3>1 DEF ClientPart
    <3> QED
      BY <1>1, <1>2, <3>1, <3>2
  <2> QED
    BY <2>1, <2>2
<1>5. ASSUME NEW i \in 1 .. n, rest[i].client
      PROVE  c = Shown(rest[i]) /\ f = fills[i] /\ c.qty = rest[i].qty
  <2>1. c = Shown(rest[i])
    BY <1>1, <1>5 DEF Shows
  <2>2. Clients(rest) = {i}
    BY <1>1, <1>5 DEF Shows, Clients
  <2> QED
    BY <2>1, <2>2 DEF Shown, ClientPart
<1>6. DOMAIN cut = 1 .. n
  BY <1>1
<1> HIDE DEF cut, keep, f
<1>7. ASSUME NEW i \in 1 .. n, i \in keep, cut[i].client PROVE d = Shown(cut[i])
  <2>1. c = Shown(rest[i]) /\ f = fills[i] /\ c.qty = rest[i].qty /\ fills[i] # rest[i].qty
    BY <1>3, <1>5, <1>7
  <2> QED
    BY <2>1, <1>3 DEF Take
<1>8. ASSUME \A i \in 1 .. n : i \in keep => ~cut[i].client PROVE d = NoOrder
  <2>1. CASE c.qty = 0
    BY <2>1, <1>4, ShowsClient DEF Take
  <2>2. CASE c.qty # 0
    <3>1. PICK i \in DOMAIN rest : rest[i].client
      BY <2>2, ShowsClient
    <3>2. i \in 1 .. n /\ i \notin keep
      BY <1>1, <1>3, <1>8, <3>1
    <3>3. f = c.qty
      BY <1>3, <1>5, <3>1, <3>2
    <3> QED
      BY <3>3 DEF Take
  <2> QED
    BY <2>1, <2>2
<1>9. \A i, j \in 1 .. n : i \in keep /\ j \in keep /\ cut[i].client /\ cut[j].client => i = j
  BY <1>1, <1>3 DEF Shows
<1>10. Chosen(cut, keep) \in Seq(Orders) /\ Shows(Chosen(cut, keep), d)
  <2>1. \A i \in 1 .. n : i \in keep => cut[i] \in Orders
    BY <1>3
  <2> HIDE DEF n, d
  <2> QED
    BY <1>1, <1>6, <1>7, <1>8, <1>9, <2>1, ChosenShows
<1>11. Reduced(rest, fills) = Chosen(cut, keep)
  BY DEF Reduced, cut, keep
<1> QED
  BY <1>4, <1>10, <1>11 DEF f

\* A side without the client order it shows.
LEMMA WithoutShows ==
  ASSUME NEW rest \in Seq(Orders), NEW c, Shows(rest, c), c.qty # 0
  PROVE  Without(rest, TRUE, c.id) \in Seq(Orders) /\ Shows(Without(rest, TRUE, c.id), NoOrder)
<1> DEFINE n == Len(rest)
           keep == DOMAIN rest \ Places(rest, TRUE, c.id)
<1>1. n \in Nat /\ DOMAIN rest = 1 .. n /\ \A i \in 1 .. n : rest[i] \in Orders
  OBVIOUS
<1>2. PICK k \in DOMAIN rest : rest[k].client /\ Clients(rest) = {k} /\ c.id = rest[k].id
  BY ShowsClient
<1>3. \A i \in 1 .. n : rest[i].client \in BOOLEAN
  BY <1>1 DEF Orders
<1>4. ASSUME NEW i \in 1 .. n, i \in keep PROVE ~rest[i].client
  <2>1. SUFFICES ASSUME rest[i].client PROVE FALSE
    OBVIOUS
  <2>2. i = k
    BY <1>1, <1>2, <2>1 DEF Clients
  <2>3. rest[i].client = TRUE
    BY <1>3, <2>1
  <2>4. i \in Places(rest, TRUE, c.id)
    BY <1>1, <1>2, <2>2, <2>3 DEF Places
  <2> QED
    BY <1>4, <2>4
<1> HIDE DEF n, keep
<1>5. Chosen(rest, keep) \in Seq(Orders) /\ Shows(Chosen(rest, keep), NoOrder)
  BY <1>1, <1>4, ChosenShows
<1> QED
  BY <1>5 DEF Without, keep

\* A side without one of its tape orders.
LEMMA RemovedShows ==
  ASSUME NEW rest \in Seq(Orders), NEW c, Shows(rest, c), NEW k \in DOMAIN rest, ~rest[k].client
  PROVE  Chosen(rest, DOMAIN rest \ {k}) \in Seq(Orders) /\ Shows(Chosen(rest, DOMAIN rest \ {k}), c)
<1> DEFINE n == Len(rest)
           keep == DOMAIN rest \ {k}
<1>1. n \in Nat /\ DOMAIN rest = 1 .. n /\ \A i \in 1 .. n : rest[i] \in Orders
  OBVIOUS
<1>2. \A i \in 1 .. n : i \in keep \/ i = k
  BY <1>1
<1>3. (\A i \in 1 .. n : i \in keep => ~rest[i].client) => c = NoOrder
  BY <1>1, <1>2 DEF Shows
<1>4. \A i \in 1 .. n : rest[i].client => c = Shown(rest[i])
  BY <1>1 DEF Shows
<1>5. \A i, j \in 1 .. n : rest[i].client /\ rest[j].client => i = j
  BY <1>1 DEF Shows
<1> HIDE DEF n, keep
<1>6. Chosen(rest, keep) \in Seq(Orders) /\ Shows(Chosen(rest, keep), c)
  BY <1>1, <1>3, <1>4, <1>5, ChosenShows
<1> QED
  BY <1>6 DEF keep

\* The two parts of a side.
LEMMA ShowsSplit ==
  ASSUME NEW rest \in Seq(Orders), NEW c, Shows(rest, c), NEW p \in 0 .. Len(rest)
  PROVE  LET s == SubSeq(rest, 1, p)
             t == SubSeq(rest, p + 1, Len(rest))
         IN /\ s \in Seq(Orders) /\ t \in Seq(Orders)
            /\ \E d, e : /\ Shows(s, d) /\ Shows(t, e) /\ (d = NoOrder \/ e = NoOrder)
                         /\ c = IF d = NoOrder THEN e ELSE d
<1> DEFINE s == SubSeq(rest, 1, p)
           t == SubSeq(rest, p + 1, Len(rest))
           n == Len(rest)
<1>1. /\ s \in Seq(Orders) /\ DOMAIN s = 1 .. p
      /\ \A i \in 1 .. p : s[i] = rest[i]
  OBVIOUS
<1>2. /\ t \in Seq(Orders) /\ DOMAIN t = 1 .. (n - p)
      /\ \A i \in 1 .. (n - p) : t[i] = rest[p + i]
  <2>1. p + 1 \in 1 .. (n + 1) /\ n \in Nat
    OBVIOUS
  <2>2. /\ t \in Seq(Orders)
        /\ Len(t) = n - p
        /\ \A i \in 1 .. (n - p) : t[i] = rest[p + i]
    <3> DEFINE a == p + 1
    <3>1. a \in 1 .. (n + 1) /\ n - a + 1 = n - p /\ \A i \in 1 .. (n - p) : a + i - 1 = p + i
      BY <2>1
    <3>2. t = SubSeq(rest, a, n)
      OBVIOUS
    <3> HIDE DEF a, t
    <3> QED
      BY <2>1, <3>1, <3>2, SubSeqProperties
  <2> QED
    BY <2>2
<1>3. n \in Nat /\ DOMAIN rest = 1 .. n /\ \A i \in 1 .. n : rest[i] \in Orders
  OBVIOUS
<1>4. p \in Nat /\ p <= n
  BY <1>3
<1> HIDE DEF s, t, n
<1>5. /\ \A i \in 1 .. p : i \in DOMAIN rest
      /\ \A i \in 1 .. (n - p) : p + i \in DOMAIN rest /\ p + i \notin 1 .. p
      /\ \A i, j \in 1 .. (n - p) : p + i = p + j => i = j
      /\ \A i \in 1 .. n : i \in 1 .. p \/ (i - p \in 1 .. (n - p) /\ p + (i - p) = i)
  BY <1>3, <1>4
<1>6. Shows(s, ClientAt(s)) /\ Shows(t, ClientAt(t))
  <2>1. \A i, j \in DOMAIN s : s[i].client /\ s[j].client => i = j
    BY <1>1, <1>5 DEF Shows
  <2>2. \A i, j \in DOMAIN t : t[i].client /\ t[j].client => i = j
    <3> SUFFICES ASSUME NEW i \in DOMAIN t, NEW j \in DOMAIN t, t[i].client, t[j].client PROVE i = j
      OBVIOUS
    <3>1. p + i = p + j
      BY <1>2, <1>5 DEF Shows
    <3> QED
      BY <1>2, <1>5, <3>1
  <2>3. Single(s) /\ Single(t)
    BY <2>1, <2>2 DEF Single, Clients
  <2> QED
    BY <1>1, <1>2, <2>3, ShowsView
<1> DEFINE d == ClientAt(s)
           e == ClientAt(t)
<1> HIDE DEF d, e
<1>7. Shows(s, d) /\ Shows(t, e)
  BY <1>6 DEF d, e
<1>8. \A i \in 1 .. p : s[i].client => d = Shown(rest[i]) /\ d = c
  BY <1>1, <1>5, <1>7 DEF Shows
<1>9. \A i \in 1 .. (n - p) : t[i].client => e = Shown(rest[p + i]) /\ e = c
  BY <1>2, <1>5, <1>7 DEF Shows
<1>10. CASE \E i \in 1 .. p : s[i].client
  <2>1. PICK i \in 1 .. p : s[i].client
    BY <1>10
  <2>2. d = c /\ c # NoOrder
    BY <1>1, <1>3, <1>5, <1>8, <2>1, ShownIsOrder
  <2>3. \A j \in DOMAIN t : ~t[j].client
    BY <1>1, <1>2, <1>5, <2>1 DEF Shows
  <2>4. e = NoOrder
    BY <1>7, <2>3 DEF Shows
  <2> QED
    BY <1>1, <1>2, <1>7, <2>2, <2>4 DEF s, t, n
<1>11. CASE \A i \in 1 .. p : ~s[i].client
  <2>1. d = NoOrder
    BY <1>1, <1>7, <1>11 DEF Shows
  <2>2. CASE \E i \in 1 .. (n - p) : t[i].client
    <3>1. e = c
      BY <1>9, <2>2
    <3> QED
      BY <1>1, <1>2, <1>7, <2>1, <3>1 DEF s, t, n
  <2>3. CASE \A i \in 1 .. (n - p) : ~t[i].client
    <3>1. e = NoOrder
      BY <1>2, <1>7, <2>3 DEF Shows
    <3>2. ASSUME NEW i \in DOMAIN rest PROVE ~rest[i].client
      <4>1. CASE i \in 1 .. p
        BY <1>1, <1>11, <4>1
      <4>2. CASE i - p \in 1 .. (n - p) /\ p + (i - p) = i
        <5>1. t[i - p] = rest[i]
          BY <1>2, <4>2
        <5> QED
          BY <2>3, <4>2, <5>1
      <4> QED
        BY <1>3, <1>5, <4>1, <4>2
    <3>3. c = NoOrder
      BY <3>2 DEF Shows
    <3> QED
      BY <1>1, <1>2, <1>7, <2>1, <3>1, <3>3 DEF s, t, n
  <2> QED
    BY <2>2, <2>3
<1> QED
  BY <1>10, <1>11

\* OrderBook::rest.
LEMMA RestShows ==
  ASSUME NEW rest \in Seq(Orders), NEW c, Shows(rest, c), NEW o \in Orders, NEW side,
         o.client => c = NoOrder
  PROVE  /\ Rest(side, rest, o) \in Seq(Orders)
         /\ Shows(Rest(side, rest, o), IF o.client THEN Shown(o) ELSE c)
<1> DEFINE before == {i \in DOMAIN rest : NoWorse(side, rest[i].price, o.price)}
           p == Cardinality(before)
           s == SubSeq(rest, 1, p)
           t == SubSeq(rest, p + 1, Len(rest))
           l == <<o>>
<1>1. p \in 0 .. Len(rest)
  <2>1. IsFiniteSet(1 .. Len(rest)) /\ Cardinality(1 .. Len(rest)) = Len(rest)
    <3>1. 1 \in Int /\ Len(rest) \in Int /\ Len(rest) >= 0
      OBVIOUS
    <3>2. Cardinality(1 .. Len(rest)) = IF 1 > Len(rest) THEN 0 ELSE Len(rest) - 1 + 1
      BY <3>1, FS_Interval
    <3> QED
      BY <3>1, <3>2, FS_Interval
  <2>2. before \subseteq 1 .. Len(rest)
    OBVIOUS
  <2> HIDE DEF before
  <2>3. IsFiniteSet(before) /\ Cardinality(before) <= Len(rest)
    BY <2>1, <2>2, FS_Subset
  <2>4. Cardinality(before) \in Nat
    BY <2>3, FS_CardinalityType
  <2> QED
    BY <2>3, <2>4
<1>2. Rest(side, rest, o) = s \o l \o t
  <2> DEFINE q == 1 + p
  <2>1. q - 1 = p /\ q = p + 1
    BY <1>1
  <2>2. Rest(side, rest, o) = InsertAt(rest, q, o)
    BY DEF Rest
  <2> HIDE DEF q, p
  <2>3. InsertAt(rest, q, o) = SubSeq(rest, 1, q - 1) \o <<o>> \o SubSeq(rest, q, Len(rest))
    BY DEF InsertAt
  <2> QED
    BY <2>1, <2>2, <2>3
<1> HIDE DEF before, p
<1>3. s \in Seq(Orders) /\ t \in Seq(Orders)
  BY <1>1, ShowsSplit
<1>4. PICK d, e : /\ Shows(s, d) /\ Shows(t, e) /\ (d = NoOrder \/ e = NoOrder)
                  /\ c = IF d = NoOrder THEN e ELSE d
  BY <1>1, ShowsSplit
<1>5. l \in Seq(Orders)
  OBVIOUS
<1> DEFINE x == IF o.client THEN Shown(o) ELSE NoOrder
<1>6. Shows(l, x)
  BY ShowsOne
<1> HIDE DEF s, t, l
<1>7. s \o l \in Seq(Orders) /\ (s \o l) \o t \in Seq(Orders)
  BY <1>3, <1>5
<1>8. CASE o.client
  <2>1. d = NoOrder /\ e = NoOrder /\ x = Shown(o) /\ x # NoOrder
    BY <1>4, <1>8, ShownIsOrder
  <2> HIDE DEF x
  <2>2. Shows(s \o l, x)
    BY <1>3, <1>4, <1>5, <1>6, <2>1, ShowsConcat
  <2>3. Shows((s \o l) \o t, x)
    BY <1>3, <1>4, <1>7, <2>1, <2>2, ShowsConcat
  <2> QED
    BY <1>2, <1>7, <1>8, <2>1, <2>3
<1>9. CASE ~o.client
  <2>1. x = NoOrder
    BY <1>9
  <2> HIDE DEF x
  <2>2. Shows(s \o l, IF d = NoOrder THEN x ELSE d)
    BY <1>3, <1>4, <1>5, <1>6, <2>1, ShowsConcat
  <2>3. Shows(s \o l, d)
    BY <2>1, <2>2
  <2>4. Shows((s \o l) \o t, IF d = NoOrder THEN e ELSE d)
    BY <1>3, <1>4, <1>7, <2>3, ShowsConcat
  <2> QED
    BY <1>2, <1>4, <1>7, <1>9, <2>4
<1> QED
  BY <1>8, <1>9

\* A sum of sums, term by term, is the sum of the two.
LEMMA SumOfPlus ==
  ASSUME NEW f \in Seq(Int), NEW g \in Seq(Int), NEW h \in Seq(Int), Len(f) = Len(h), Len(g) = Len(h),
         \A i \in 1 .. Len(h) : h[i] = f[i] + g[i]
  PROVE  SumOf(h) = SumOf(f) + SumOf(g)
<1> DEFINE n == Len(h)
           T == {i \in 0 .. n : Sums(h)[i] = Sums(f)[i] + Sums(g)[i]}
<1>1. /\ Sums(f)[0] = 0 /\ SumOf(f) = Sums(f)[n] /\ \A i \in 0 .. n : Sums(f)[i] \in Int
      /\ \A i \in 1 .. n : Sums(f)[i] = Sums(f)[i - 1] + f[i]
  BY SumsFacts
<1>2. /\ Sums(g)[0] = 0 /\ SumOf(g) = Sums(g)[n] /\ \A i \in 0 .. n : Sums(g)[i] \in Int
      /\ \A i \in 1 .. n : Sums(g)[i] = Sums(g)[i - 1] + g[i]
  BY SumsFacts
<1>3. /\ Sums(h)[0] = 0 /\ SumOf(h) = Sums(h)[n] /\ \A i \in 0 .. n : Sums(h)[i] \in Int
      /\ \A i \in 1 .. n : Sums(h)[i] = Sums(h)[i - 1] + h[i]
  BY SumsFacts
<1>4. n \in Nat /\ \A i \in 1 .. n : f[i] \in Int /\ g[i] \in Int /\ h[i] = f[i] + g[i]
  OBVIOUS
<1> HIDE DEF n
<1>5. 0 \in T
  BY <1>1, <1>2, <1>3, <1>4
<1>6. ASSUME NEW i \in 0 .. (n - 1), i \in T PROVE i + 1 \in T
  <2> DEFINE j == i + 1
  <2>1. j \in 1 .. n /\ j - 1 = i /\ i \in 0 .. n /\ j \in 0 .. n
    BY <1>4
  <2> HIDE DEF j
  <2>2. Sums(h)[j] = Sums(h)[i] + h[j] /\ Sums(f)[j] = Sums(f)[i] + f[j] /\ Sums(g)[j] = Sums(g)[i] + g[j]
    BY <2>1, <1>1, <1>2, <1>3
  <2>3. Sums(h)[i] = Sums(f)[i] + Sums(g)[i] /\ Sums(f)[i] \in Int /\ Sums(g)[i] \in Int
        /\ f[j] \in Int /\ g[j] \in Int /\ h[j] = f[j] + g[j]
    BY <2>1, <1>1, <1>2, <1>4, <1>6
  <2>4. Sums(h)[j] = Sums(f)[j] + Sums(g)[j]
    BY <2>2, <2>3
  <2> QED
    BY <2>1, <2>4 DEF j
<1>7. n \in T
  <2>1. \A i \in 0 .. n : i \in T
    <3> HIDE DEF T
    <3> QED
      BY <1>4, <1>5, <1>6, EveryTurn
  <2> QED
    BY <1>4, <2>1
<1> QED
  BY <1>1, <1>2, <1>3, <1>7

\* The shares of all pieces are those of each, added up.
LEMMA SharesFlatten ==
  ASSUME NEW seqs \in Seq(Seq(Answers)), NEW S, NEW v \in Seq(Int), Len(v) = Len(seqs),
         \A i \in 1 .. Len(seqs) : v[i] = Shares(seqs[i], S)
  PROVE  Shares(FlattenSeq(seqs), S) = SumOf(v)
<1> DEFINE n == Len(seqs)
<1>1. PICK g : Glues(g, seqs, n, Answers) /\ FlattenSeq(seqs) = g[n]
  BY FlattenGlues
<1>2. g \in [0 .. n -> Seq(Answers)] /\ g[0] = << >> /\ \A i \in 1 .. n : g[i] = g[i - 1] \o seqs[i]
  BY <1>1 DEF Glues
<1>3. /\ Sums(v)[0] = 0 /\ SumOf(v) = Sums(v)[n] /\ \A i \in 0 .. n : Sums(v)[i] \in Int
      /\ \A i \in 1 .. n : Sums(v)[i] = Sums(v)[i - 1] + v[i]
  BY SumsFacts
<1>4. n \in Nat /\ \A i \in 1 .. n : seqs[i] \in Seq(Answers) /\ v[i] = Shares(seqs[i], S)
  OBVIOUS
<1> HIDE DEF n
<1> DEFINE T == {i \in 0 .. n : Shares(g[i], S) = Sums(v)[i]}
<1>5. 0 \in T
  BY <1>2, <1>3, <1>4, SharesEmpty
<1>6. ASSUME NEW i \in 0 .. (n - 1), i \in T PROVE i + 1 \in T
  <2> DEFINE j == i + 1
  <2>1. j \in 1 .. n /\ j - 1 = i /\ i \in 0 .. n /\ j \in 0 .. n
    BY <1>4
  <2> HIDE DEF j
  <2>2. g[j] = g[i] \o seqs[j] /\ g[i] \in Seq(Answers) /\ seqs[j] \in Seq(Answers)
    BY <1>2, <1>4, <2>1
  <2>3. Shares(g[j], S) = Shares(g[i], S) + Shares(seqs[j], S)
    BY <2>2, SharesConcat
  <2>4. Sums(v)[j] = Sums(v)[i] + v[j] /\ v[j] = Shares(seqs[j], S) /\ Shares(g[i], S) = Sums(v)[i]
    BY <1>3, <1>4, <1>6, <2>1
  <2>5. Shares(g[j], S) = Sums(v)[j]
    BY <2>3, <2>4
  <2> QED
    BY <2>1, <2>5 DEF j
<1>7. n \in T
  <2>1. \A i \in 0 .. n : i \in T
    <3> HIDE DEF T
    <3> QED
      BY <1>4, <1>5, <1>6, EveryTurn
  <2> QED
    BY <1>4, <2>1
<1> QED
  BY <1>1, <1>3, <1>7

\* FlattenSeq of sequences of elements of S is a sequence of elements of S.
LEMMA FlattenIn ==
  ASSUME NEW S, NEW seqs \in Seq(Seq(S)) PROVE FlattenSeq(seqs) \in Seq(S)
<1>1. PICK g : Glues(g, seqs, Len(seqs), S) /\ FlattenSeq(seqs) = g[Len(seqs)]
  BY FlattenGlues
<1>2. Len(seqs) \in 0 .. Len(seqs)
  OBVIOUS
<1> QED
  BY <1>1, <1>2 DEF Glues

-----------------------------------------------------------------------------
\* Fills deals out no more than qty, and to no order more than it has.
LEMMA FillsFacts ==
  ASSUME NEW rest \in Seq(Orders), NEW eligible, NEW qty \in Nat, NEW fills,
         fills = Fills(rest, eligible, qty)
  PROVE  /\ FillsFit(rest, fills)
         /\ fills \in Seq(Int) /\ Len(fills) = Len(rest)
         /\ SumOf(fills) \in Nat /\ SumOf(fills) <= qty
         /\ \A i \in DOMAIN rest : fills[i] # 0 => i \in eligible
<1> DEFINE n == Len(rest)
           open == [i \in DOMAIN rest |-> IF i \in eligible THEN rest[i].qty ELSE 0]
           b == Sums(open)
<1>1. n \in Nat /\ DOMAIN rest = 1 .. n
  OBVIOUS
<1>2. \A i \in 1 .. n : rest[i].qty \in Nat /\ rest[i].qty > 0
  <2>1. \A i \in 1 .. n : rest[i] \in Orders
    OBVIOUS
  <2> QED
    BY <2>1 DEF Orders
<1>3. \A i \in 1 .. n : open[i] = IF i \in eligible THEN rest[i].qty ELSE 0
  BY <1>1
<1>4. \A i \in 1 .. n : open[i] \in Nat /\ open[i] <= rest[i].qty
  BY <1>2, <1>3
<1>5. open \in Seq(Int) /\ Len(open) = n
  <2>1. open = [i \in 1 .. n |-> open[i]]
    BY <1>1
  <2> HIDE DEF open
  <2>2. open \in [1 .. n -> Int]
    BY <1>4, <2>1
  <2> QED
    BY <1>1, <2>2
<1>6. fills = [i \in DOMAIN rest |->
                 IF b[i - 1] >= qty THEN 0
                 ELSE IF qty - b[i - 1] < open[i] THEN qty - b[i - 1] ELSE open[i]]
  BY DEF Fills
<1> HIDE DEF n, open
<1>7. /\ b[0] = 0 /\ \A i \in 0 .. n : b[i] \in Int
      /\ \A i \in 1 .. n : b[i] = b[i - 1] + open[i]
  BY <1>5, SumsFacts
<1>8. \A i \in 0 .. n : 0 <= b[i]
  <2>1. \A i \in 1 .. Len(open) : open[i] >= 0
    BY <1>4, <1>5
  <2> QED
    BY <1>5, <2>1, SumsGrow
<1> HIDE DEF b
<1>9. ASSUME NEW i \in 1 .. n
      PROVE  /\ i - 1 \in 0 .. n /\ b[i - 1] \in Int /\ b[i] = b[i - 1] + open[i]
             /\ fills[i] = IF b[i - 1] >= qty THEN 0
                           ELSE IF qty - b[i - 1] < open[i] THEN qty - b[i - 1] ELSE open[i]
             /\ fills[i] \in Nat /\ fills[i] <= open[i] /\ open[i] \in Nat
  <2>1. i - 1 \in 0 .. n /\ b[i - 1] \in Int /\ b[i] = b[i - 1] + open[i]
    BY <1>1, <1>7
  <2>2. fills[i] = IF b[i - 1] >= qty THEN 0
                   ELSE IF qty - b[i - 1] < open[i] THEN qty - b[i - 1] ELSE open[i]
    BY <1>1, <1>6
  <2>3. open[i] \in Nat
    BY <1>4
  <2> QED
    BY <2>1, <2>2, <2>3
<1>10. fills \in Seq(Int) /\ Len(fills) = n /\ DOMAIN fills = 1 .. n
  <2>1. DOMAIN fills = 1 .. n /\ fills = [i \in 1 .. n |-> fills[i]]
    BY <1>1, <1>6
  <2>2. fills \in [1 .. n -> Int]
    BY <1>9, <2>1
  <2> QED
    BY <1>1, <2>1, <2>2
<1>11. FillsFit(rest, fills)
  <2>1. ASSUME NEW i \in 1 .. n PROVE fills[i] \in Nat /\ fills[i] <= rest[i].qty
    <3>1. fills[i] \in Nat /\ fills[i] <= open[i] /\ open[i] \in Nat
      BY <1>9
    <3>2. open[i] <= rest[i].qty /\ rest[i].qty \in Nat
      BY <1>2, <1>4
    <3> QED
      BY <3>1, <3>2
  <2> QED
    BY <1>1, <1>10, <2>1 DEF FillsFit
<1>12. \A i \in DOMAIN rest : fills[i] # 0 => i \in eligible
  BY <1>1, <1>3, <1>9
<1> DEFINE f == Sums(fills)
<1>13. /\ f[0] = 0 /\ SumOf(fills) = f[n] /\ \A i \in 0 .. n : f[i] \in Int
       /\ \A i \in 1 .. n : f[i] = f[i - 1] + fills[i]
  BY <1>10, SumsFacts
<1> HIDE DEF f
<1> DEFINE T == {i \in 0 .. n : f[i] = IF b[i] >= qty THEN qty ELSE b[i]}
<1>14. n \in T
  <2>1. 0 \in T
    BY <1>1, <1>7, <1>13
  <2>2. ASSUME NEW i \in 0 .. (n - 1), i \in T PROVE i + 1 \in T
    <3> DEFINE j == i + 1
    <3>1. j \in 1 .. n /\ j - 1 = i /\ i \in 0 .. n /\ j \in 0 .. n
      BY <1>1
    <3> HIDE DEF j
    <3>2. /\ b[i] \in Int /\ b[j] = b[i] + open[j] /\ open[j] \in Nat
          /\ fills[j] = IF b[i] >= qty THEN 0
                        ELSE IF qty - b[i] < open[j] THEN qty - b[i] ELSE open[j]
      BY <1>9, <3>1
    <3>3. f[j] = f[i] + fills[j]
      BY <1>13, <3>1
    <3>4. f[i] = IF b[i] >= qty THEN qty ELSE b[i]
      BY <2>2
    <3>5. f[j] = IF b[j] >= qty THEN qty ELSE b[j]
      BY <3>2, <3>3, <3>4
    <3> QED
      BY <3>1, <3>5 DEF j
  <2>3. \A i \in 0 .. n : i \in T
    <3> HIDE DEF T
    <3> QED
      BY <1>1, <2>1, <2>2, EveryTurn
  <2> QED
    BY <1>1, <2>3
<1>15. f[n] \in Nat /\ f[n] <= qty
  <2>1. n \in 0 .. n
    BY <1>1
  <2>2. b[n] \in Int /\ 0 <= b[n] /\ f[n] = IF b[n] >= qty THEN qty ELSE b[n]
    BY <2>1, <1>7, <1>8, <1>14
  <2> QED
    BY <2>2
<1> QED
  BY <1>10, <1>11, <1>12, <1>13, <1>15 DEF n

\* Fills of client orders only are all for the order the side shows.
LEMMA ClientSum ==
  ASSUME NEW rest \in Seq(Orders), NEW c, Shows(rest, c), NEW fills \in Seq(Int), Len(fills) = Len(rest),
         \A i \in DOMAIN rest : fills[i] # 0 => rest[i].client
  PROVE  SumOf(fills) = ClientPart(rest, fills)
<1>1. CASE c.qty = 0
  <2>1. Clients(rest) = {} /\ \A i \in DOMAIN rest : ~rest[i].client
    BY <1>1, ShowsClient
  <2>2. \A i \in 1 .. Len(fills) : fills[i] = 0
    BY <2>1
  <2> QED
    BY <2>1, <2>2, SumOfZeros DEF ClientPart
<1>2. CASE c.qty # 0
  <2>1. PICK i \in DOMAIN rest : /\ rest[i].client /\ Clients(rest) = {i}
                                 /\ (CHOOSE j \in Clients(rest) : TRUE) = i
    BY <1>2, ShowsClient
  <2>2. \A j \in 1 .. Len(fills) : j # i => fills[j] = 0
    BY <2>1 DEF Clients
  <2>3. i \in 1 .. Len(fills)
    BY <2>1
  <2>4. SumOf(fills) = fills[i]
    BY <2>2, <2>3, SumOfOne
  <2> QED
    BY <2>1, <2>4 DEF ClientPart
<1> QED
  BY <1>1, <1>2

\* The client's shares among the fills of an aggressor are those of the one client order.
LEMMA ClientFillsIs ==
  ASSUME NEW rest \in Seq(Orders), NEW c, Shows(rest, c), NEW fills, FillsFit(rest, fills)
  PROVE  ClientFills(rest, fills) = ClientPart(rest, fills)
<1> DEFINE n == Len(rest)
           m == [i \in DOMAIN rest |-> IF rest[i].client THEN fills[i] ELSE 0]
<1>1. n \in Nat /\ DOMAIN rest = 1 .. n /\ \A i \in 1 .. n : fills[i] \in Nat
  BY DEF FillsFit
<1>2. \A i \in 1 .. n : m[i] = (IF rest[i].client THEN fills[i] ELSE 0) /\ m[i] \in Int
  BY <1>1
<1>3. DOMAIN m = 1 .. n /\ m = [i \in 1 .. n |-> m[i]]
  BY <1>1
<1>4. ClientFills(rest, fills) = SumOf(m)
  BY DEF ClientFills
<1> HIDE DEF m
<1>5. m \in [1 .. n -> Int]
  BY <1>2, <1>3
<1>6. m \in Seq(Int) /\ Len(m) = n
  BY <1>1, <1>5
<1>7. \A i \in DOMAIN rest : m[i] # 0 => rest[i].client
  BY <1>1, <1>2
<1>8. SumOf(m) = ClientPart(rest, m)
  BY <1>6, <1>7, ClientSum
<1>9. ClientPart(rest, m) = ClientPart(rest, fills)
  <2>1. CASE Clients(rest) = {}
    BY <2>1 DEF ClientPart
  <2>2. CASE Clients(rest) # {}
    <3>1. PICK i \in Clients(rest) : i = CHOOSE j \in Clients(rest) : TRUE
      BY <2>2
    <3>2. i \in 1 .. n /\ rest[i].client
      BY <1>1 DEF Clients
    <3>3. m[i] = fills[i]
      BY <1>2, <3>2
    <3> QED
      BY <2>2, <3>1, <3>3 DEF ClientPart
  <2> QED
    BY <2>1, <2>2
<1> QED
  BY <1>4, <1>8, <1>9

\* The Executed answers of a trade: for the aggressor "ag", if it is the client's,
\* and for the resting order c that the side shows.
Fill(a, ag, c) ==
  /\ a.type = "Executed" /\ a.qty > 0
  /\ (ag # << >> /\ a.ref = ag[1]) \/ (c.qty > 0 /\ a.ref = c.id)

Trade(E, rest, c, fills, ag) ==
  /\ rest \in Seq(Orders) /\ Shows(rest, c)
  /\ fills \in Seq(Int) /\ FillsFit(rest, fills)
  /\ ag = << >> \/ \E r \in Nat : ag = <<r>>
  /\ E = Executions(rest, fills, ag)

\* How many shares they tell of, for the references of R.
TradeShares(E, rest, c, fills, ag) ==
  \A S, R : (\A a \in Answers : a.type = "Executed" => (a \in S <=> a.ref \in R)) =>
    Shares(E, S) = (IF ag # << >> /\ ag[1] \in R THEN SumOf(fills) ELSE 0)
                   + (IF c.qty > 0 /\ c.id \in R THEN ClientPart(rest, fills) ELSE 0)

\* The answers of a match: each is a fill of the aggressor or of the resting client order, and
\* each of the two is told of exactly the shares that it traded.
LEMMA ExecutionsFacts ==
  ASSUME NEW rest, NEW c, NEW fills, NEW ag, NEW E, Trade(E, rest, c, fills, ag)
  PROVE  /\ E \in Seq(Answers)
         /\ \A j \in 1 .. Len(E) : Fill(E[j], ag, c)
         /\ TradeShares(E, rest, c, fills, ag)
<1> USE DEF Trade
<1> DEFINE n == Len(rest)
           P == {a \in Answers : Fill(a, ag, c)}
           one(i) == [j \in DOMAIN ag |-> Ack("Executed", ag[j], fills[i], 0)]
           two(i) == IF rest[i].client THEN <<Ack("Executed", rest[i].id, fills[i], 0)>> ELSE << >>
           piece(i) == IF fills[i] = 0 THEN << >> ELSE one(i) \o two(i)
           seqs == [i \in DOMAIN rest |-> piece(i)]
<1>1. /\ n \in Nat /\ DOMAIN rest = 1 .. n /\ DOMAIN fills = 1 .. n
      /\ \A i \in 1 .. n : rest[i] \in Orders /\ fills[i] \in Nat
  BY DEF FillsFit
<1>2. \A i \in 1 .. n : rest[i].client \in BOOLEAN /\ rest[i].id \in Nat
  BY <1>1 DEF Orders
<1>3. ASSUME NEW i \in 1 .. n, rest[i].client
      PROVE  c.qty > 0 /\ c.id = rest[i].id /\ Clients(rest) = {i} /\ ClientPart(rest, fills) = fills[i]
  <2>1. c = Shown(rest[i])
    BY <1>1, <1>3 DEF Shows
  <2>2. Clients(rest) = {i}
    BY <1>1, <1>3 DEF Shows, Clients
  <2>3. c.id = rest[i].id /\ c.qty > 0
    BY <1>1, <2>1, ShownIsOrder DEF Shown
  <2> QED
    BY <2>2, <2>3 DEF ClientPart
<1>4. "Executed" \in AckTypes
  BY DEF AckTypes
<1>5. ASSUME NEW i \in 1 .. n, fills[i] # 0
      PROVE  /\ ag = << >> => one(i) = << >>
             /\ ag # << >> => \E a \in P : one(i) = <<a>> /\ a.ref = ag[1] /\ a.qty = fills[i] /\ a.type = "Executed"
  <2>1. CASE ag = << >>
    <3>1. one(i) = [j \in DOMAIN << >> |-> Ack("Executed", ag[j], fills[i], 0)]
      BY <2>1
    <3>2. DOMAIN << >> = {}
      OBVIOUS
    <3>3. DOMAIN one(i) = {} /\ one(i) = << >>
      BY <3>1, <3>2
    <3> QED
      BY <2>1, <3>3
  <2>2. CASE ag # << >>
    <3>1. PICK r \in Nat : ag = <<r>>
      BY <2>2
    <3> DEFINE a == Ack("Executed", r, fills[i], 0)
    <3>2. a \in Answers /\ a.type = "Executed" /\ a.ref = r /\ a.qty = fills[i]
      <4> DEFINE q == fills[i]
      <4>1. q \in Nat
        BY <1>1
      <4> HIDE DEF q
      <4>2. LET b == Ack("Executed", r, q, 0)
            IN b \in Answers /\ b.type = "Executed" /\ b.ref = r /\ b.qty = q
        BY <4>1 DEF Ack, Answers, AckTypes
      <4> QED
        BY <4>2 DEF q
    <3>3. one(i) = [j \in 1 .. 1 |-> Ack("Executed", ag[j], fills[i], 0)]
      BY <3>1
    <3>4. \A j \in 1 .. 1 : Ack("Executed", ag[j], fills[i], 0) = a
      BY <3>1
    <3> HIDE DEF a
    <3>5. one(i) = <<a>>
      BY <3>3, <3>4
    <3>6. a.qty > 0 /\ ag[1] = r
      BY <1>1, <1>5, <3>1, <3>2
    <3>7. a \in P
      BY <2>2, <3>2, <3>6 DEF Fill
    <3> QED
      BY <2>2, <3>2, <3>5, <3>6, <3>7
  <2> QED
    BY <2>1, <2>2
<1>6. ASSUME NEW i \in 1 .. n, fills[i] # 0
      PROVE  /\ ~rest[i].client => two(i) = << >>
             /\ rest[i].client => \E a \in P : two(i) = <<a>> /\ a.ref = c.id /\ a.qty = fills[i] /\ a.type = "Executed"
  <2>1. CASE rest[i].client
    <3> DEFINE a == Ack("Executed", rest[i].id, fills[i], 0)
    <3>1. a \in Answers /\ a.type = "Executed" /\ a.ref = rest[i].id /\ a.qty = fills[i]
      <4> DEFINE q == fills[i]
                 r == rest[i].id
      <4>1. q \in Nat /\ r \in Nat
        BY <1>1, <1>2
      <4> HIDE DEF q, r
      <4>2. LET b == Ack("Executed", r, q, 0)
            IN b \in Answers /\ b.type = "Executed" /\ b.ref = r /\ b.qty = q
        BY <4>1 DEF Ack, Answers, AckTypes
      <4> QED
        BY <4>2 DEF q, r
    <3>2. two(i) = <<a>>
      BY <2>1
    <3> HIDE DEF a
    <3>3. a.qty > 0 /\ a.ref = c.id /\ c.qty > 0
      BY <1>1, <1>3, <1>6, <2>1, <3>1
    <3>4. a \in P
      BY <3>1, <3>3 DEF Fill
    <3> HIDE DEF two
    <3> QED
      BY <2>1, <3>1, <3>2, <3>3, <3>4
  <2>2. CASE ~rest[i].client
    BY <2>2
  <2> QED
    BY <2>1, <2>2
<1> HIDE DEF one, two, P
<1>7. ASSUME NEW i \in 1 .. n PROVE piece(i) \in Seq(P)
  <2>1. CASE fills[i] = 0
    BY <2>1
  <2>2. CASE fills[i] # 0
    <3>0. << >> \in Seq(P) /\ \A a \in P : <<a>> \in Seq(P)
      OBVIOUS
    <3>1. one(i) \in Seq(P)
      <4>1. one(i) = << >> \/ \E a \in P : one(i) = <<a>>
        BY <1>5, <2>2
      <4> QED
        BY <3>0, <4>1
    <3>2. two(i) \in Seq(P)
      <4>1. two(i) = << >> \/ \E a \in P : two(i) = <<a>>
        BY <1>6, <2>2
      <4> QED
        BY <3>0, <4>1
    <3>3. one(i) \o two(i) \in Seq(P)
      BY <3>1, <3>2
    <3> QED
      BY <2>2, <3>3
  <2> QED
    BY <2>1, <2>2
<1>8. E = FlattenSeq(seqs)
  BY DEF Executions, one, two
<1> HIDE DEF piece
<1>9. seqs = [i \in 1 .. n |-> piece(i)] /\ \A i \in 1 .. n : seqs[i] = piece(i)
  BY <1>1
<1> HIDE DEF seqs, n
<1>10. seqs \in [1 .. n -> Seq(P)]
  BY <1>7, <1>9
<1>11. seqs \in Seq(Seq(P)) /\ Len(seqs) = n
  BY <1>1, <1>10
<1>12. E \in Seq(P)
  BY <1>8, <1>11, FlattenIn
<1>13. P \subseteq Answers /\ \A a \in P : Fill(a, ag, c)
  BY DEF P
<1>14. E \in Seq(Answers) /\ seqs \in Seq(Seq(Answers))
  <2>1. E \in Seq(Answers)
    BY <1>12, <1>13, SeqMonotonic
  <2>2. Seq(P) \subseteq Seq(Answers)
    BY <1>13, SeqMonotonic
  <2> QED
    BY <1>11, <2>1, <2>2, SeqMonotonic
<1>15. \A j \in 1 .. Len(E) : E[j] \in P
  BY <1>12
<1>16. ASSUME NEW S, NEW R, \A a \in Answers : a.type = "Executed" => (a \in S <=> a.ref \in R)
       PROVE  Shares(E, S) = (IF ag # << >> /\ ag[1] \in R THEN SumOf(fills) ELSE 0)
                             + (IF c.qty > 0 /\ c.id \in R THEN ClientPart(rest, fills) ELSE 0)
  <2> DEFINE x == [i \in 1 .. n |-> IF ag # << >> /\ ag[1] \in R THEN fills[i] ELSE 0]
             y == [i \in 1 .. n |-> IF rest[i].client /\ c.id \in R THEN fills[i] ELSE 0]
             v == [i \in 1 .. n |-> x[i] + y[i]]
  <2>1. \A i \in 1 .. n : x[i] \in Int /\ y[i] \in Int
    BY <1>1
  <2>2. x \in [1 .. n -> Int] /\ y \in [1 .. n -> Int] /\ v \in [1 .. n -> Int]
    BY <1>1, <2>1
  <2>3. x \in Seq(Int) /\ y \in Seq(Int) /\ v \in Seq(Int) /\ Len(x) = n /\ Len(y) = n /\ Len(v) = n
    BY <1>1, <2>2
  <2>4. \A i \in 1 .. n : /\ x[i] = IF ag # << >> /\ ag[1] \in R THEN fills[i] ELSE 0
                          /\ y[i] = IF rest[i].client /\ c.id \in R THEN fills[i] ELSE 0
                          /\ v[i] = x[i] + y[i]
    OBVIOUS
  <2> HIDE DEF x, y, v
  <2>5. SumOf(v) = SumOf(x) + SumOf(y)
    <3>1. Len(x) = Len(v) /\ Len(y) = Len(v) /\ \A i \in 1 .. Len(v) : v[i] = x[i] + y[i]
      BY <2>3, <2>4
    <3> QED
      BY <2>3, <3>1, SumOfPlus
  <2>6. ASSUME NEW i \in 1 .. n PROVE v[i] = Shares(seqs[i], S)
    <3>1. CASE fills[i] = 0
      <4>1. seqs[i] = << >>
        BY <1>9, <3>1 DEF piece
      <4> QED
        BY <2>4, <3>1, <4>1, SharesEmpty
    <3>2. CASE fills[i] # 0
      <4>1. seqs[i] = one(i) \o two(i)
        BY <1>9, <3>2 DEF piece
      <4>2. one(i) \in Seq(Answers) /\ Shares(one(i), S) = x[i]
        <5>1. CASE ag = << >>
          <6>1. one(i) = << >> /\ x[i] = 0
            BY <1>5, <2>4, <3>2, <5>1
          <6> QED
            BY <6>1, SharesEmpty
        <5>2. CASE ag # << >>
          <6>1. PICK a \in P : one(i) = <<a>> /\ a.ref = ag[1] /\ a.qty = fills[i] /\ a.type = "Executed"
            BY <1>5, <3>2, <5>2
          <6>2. a \in Answers /\ (a \in S <=> ag[1] \in R)
            BY <1>13, <1>16, <6>1
          <6>3. Shares(<<a>>, S) = IF a \in S THEN a.qty ELSE 0
            BY <6>2, SharesOne
          <6> QED
            BY <2>4, <5>2, <6>1, <6>2, <6>3
        <5> QED
          BY <5>1, <5>2
      <4>3. two(i) \in Seq(Answers) /\ Shares(two(i), S) = y[i]
        <5>1. CASE ~rest[i].client
          <6>1. two(i) = << >> /\ y[i] = 0
            BY <1>6, <2>4, <3>2, <5>1
          <6> QED
            BY <6>1, SharesEmpty
        <5>2. CASE rest[i].client
          <6>1. PICK a \in P : two(i) = <<a>> /\ a.ref = c.id /\ a.qty = fills[i] /\ a.type = "Executed"
            BY <1>6, <3>2, <5>2
          <6>2. a \in Answers /\ (a \in S <=> c.id \in R)
            BY <1>13, <1>16, <6>1
          <6>3. Shares(<<a>>, S) = IF a \in S THEN a.qty ELSE 0
            BY <6>2, SharesOne
          <6> QED
            BY <2>4, <5>2, <6>1, <6>2, <6>3
        <5> QED
          BY <5>1, <5>2
      <4>4. Shares(one(i) \o two(i), S) = Shares(one(i), S) + Shares(two(i), S)
        BY <4>2, <4>3, SharesConcat
      <4> QED
        BY <2>4, <4>1, <4>2, <4>3, <4>4
    <3> QED
      BY <3>1, <3>2
  <2>7. Shares(E, S) = SumOf(v)
    <3>1. Len(v) = Len(seqs) /\ \A i \in 1 .. Len(seqs) : v[i] = Shares(seqs[i], S)
      BY <1>11, <2>3, <2>6
    <3>2. Shares(FlattenSeq(seqs), S) = SumOf(v)
      BY <1>14, <2>3, <3>1, SharesFlatten
    <3> QED
      BY <1>8, <3>2
  <2>8. SumOf(x) = IF ag # << >> /\ ag[1] \in R THEN SumOf(fills) ELSE 0
    <3>1. CASE ag # << >> /\ ag[1] \in R
      <4>1. x = fills
        <5>1. \A i \in 1 .. n : x[i] = fills[i]
          BY <2>4, <3>1
        <5>2. Len(fills) = n
          BY <1>1
        <5> QED
          BY <2>3, <5>1, <5>2, SeqEqual
      <4> QED
        BY <3>1, <4>1
    <3>2. CASE ~(ag # << >> /\ ag[1] \in R)
      <4>1. \A i \in 1 .. Len(x) : x[i] = 0
        BY <2>3, <2>4, <3>2
      <4>2. SumOf(x) = 0
        BY <2>3, <4>1, SumOfZeros
      <4> QED
        BY <3>2, <4>2
    <3> QED
      BY <3>1, <3>2
  <2>9. SumOf(y) = IF c.qty > 0 /\ c.id \in R THEN ClientPart(rest, fills) ELSE 0
    <3>1. CASE c.id \in R /\ \E i \in 1 .. n : rest[i].client
      <4>1. PICK i \in 1 .. n : rest[i].client
        BY <3>1
      <4>2. c.qty > 0 /\ Clients(rest) = {i} /\ ClientPart(rest, fills) = fills[i]
        BY <1>3, <4>1
      <4>3. \A j \in 1 .. n : j # i => ~rest[j].client
        BY <1>1, <4>2 DEF Clients
      <4>4. y[i] = fills[i] /\ \A j \in 1 .. n : j # i => y[j] = 0
        BY <2>4, <3>1, <4>1, <4>3
      <4>5. SumOf(y) = y[i]
        BY <2>3, <4>4, SumOfOne
      <4> QED
        BY <3>1, <4>2, <4>4, <4>5
    <3>2. CASE c.id \notin R \/ \A i \in 1 .. n : ~rest[i].client
      <4>1. \A i \in 1 .. Len(y) : y[i] = 0
        BY <2>3, <2>4, <3>2
      <4>2. SumOf(y) = 0
        BY <2>3, <4>1, SumOfZeros
      <4>3. ~(c.qty > 0 /\ c.id \in R)
        <5>1. ASSUME \A i \in 1 .. n : ~rest[i].client PROVE ~(c.qty > 0)
          <6>1. c = NoOrder
            BY <1>1, <5>1 DEF Shows
          <6> QED
            BY <6>1 DEF NoOrder
        <5> QED
          BY <3>2, <5>1
      <4> QED
        BY <4>2, <4>3
    <3> QED
      BY <3>1, <3>2
  <2> QED
    BY <2>5, <2>7, <2>8, <2>9
<1> QED
  BY <1>13, <1>14, <1>15, <1>16 DEF TradeShares

\* What a side may show.
Views == [id : Nat, price : Nat, qty : Nat]

\* The messages of the session.
Asks ==
  [type : {"EnterOrder"}, ref : Nat, key : Key \cup {TestKey}, qty : Nat, price : Nat]
  \cup [type : {"CancelOrder"}, ref : Nat]
  \cup [type : {"ReplaceOrder"}, orig : Nat, ref : Nat, qty : Nat, price : Nat]

New(m) == m.type \in {"EnterOrder", "ReplaceOrder"}
Holds(c, r) == c.qty > 0 /\ c.id = r
Kept(c, r) == IF Holds(c, r) THEN c.qty ELSE 0

\* In which order two answers for one quote may travel.
MayFollow(a, b) ==
  /\ a.ref = b.ref => /\ b.type \notin {"Accepted", "Replaced", "Rejected"}
                      /\ a.type = "Canceled" => b.type = "CancelReject"
                      /\ a.type # "Rejected"
  /\ a.type = "Replaced" /\ b.type = "Executed" => a.ref = b.ref

\* A slot that works and awaits references of R only.
Good(s, R) ==
  /\ s \in Slot
  /\ (s.state = "Idle") => s = Settled
  /\ (s.state = "PendingReplace") <=> (s.pendingRef # 0)
  /\ (s.state = "Live") => s.leaves > 0
  /\ s.state # "Idle" =>
       /\ s.userRef \in R
       /\ s.pendingRef # 0 => s.pendingRef \in R /\ s.pendingRef # s.userRef

KeyTyped(c, s, A, Q, R, T) ==
  /\ c \in Views
  /\ Good(s, R)
  /\ A \subseteq Answers /\ \A a \in A : a.ref \in R
  /\ Q \subseteq Asks /\ \A m \in Q : m.ref \in R
  /\ R \subseteq Nat \ {0}
  /\ T \in [R -> Nat]

ViewOK(c, s, R) ==
  /\ c.qty = 0 => c = NoOrder
  /\ c.qty > 0 => /\ c.id \in R
                  /\ c.id = s.userRef \/ c.id = s.pendingRef
                  /\ c.id = s.userRef => c.price = s.price

AskOK(c, s, m, R) ==
  /\ m.type = "EnterOrder" =>
       /\ m.qty = QuoteQty
       /\ s.state = "PendingNew" /\ s.userRef = m.ref /\ s.leaves = QuoteQty /\ s.price = m.price
  /\ m.type = "ReplaceOrder" =>
       /\ m.orig \in R /\ m.qty = QuoteQty /\ m.ref # s.userRef
       /\ Holds(c, m.orig) =>
            s.state = "PendingReplace" /\ s.userRef = m.orig /\ s.pendingRef = m.ref
  /\ New(m) => ~Holds(c, m.ref)

AckOK(c, s, a, A) ==
  /\ a.type \in {"Executed", "Canceled"} => a.qty > 0
  /\ a.type = "Accepted" =>
       a.qty = QuoteQty /\ s.state = "PendingNew" /\ s.userRef = a.ref
  /\ a.type = "Replaced" =>
       /\ a.qty = QuoteQty /\ s.state = "PendingReplace" /\ s.pendingRef = a.ref
       /\ ~Holds(c, s.userRef)
       /\ Holds(c, a.ref) => c.price = a.price
  /\ a.type = "Canceled" =>
       /\ ~Holds(c, a.ref)
       /\ a.ref = s.userRef /\ s.state = "PendingReplace" =>
            /\ ~Holds(c, s.pendingRef)
            /\ \A b \in A : b.type = "Replaced" => b.ref # s.pendingRef
  /\ a.type = "Rejected" => ~Holds(c, a.ref) /\ (a.ref = s.userRef => s.state = "PendingNew")

Apart(A, Q) ==
  /\ \A m \in Q, a \in A : New(m) => a.ref # m.ref
  /\ \A m \in Q, n \in Q : New(n) =>
       /\ m.type = "CancelOrder" => n.ref # m.ref
       /\ m.type = "ReplaceOrder" => n.ref # m.orig
  /\ \A m \in Q, a \in A : m.type = "CancelOrder" /\ a.type = "Rejected" => a.ref # m.ref

Covered(c, s, R, T) ==
  /\ \A r \in R : T[r] + Kept(c, r) <= QuoteQty
  /\ s.state # "Idle" => T[s.userRef] + Kept(c, s.userRef) <= s.leaves

\* Safety of one quote.
KeyInv(c, s, A, Q, R, T) ==
  /\ KeyTyped(c, s, A, Q, R, T)
  /\ ViewOK(c, s, R)
  /\ \A m \in Q : AskOK(c, s, m, R)
  /\ \A a \in A : AckOK(c, s, a, A)
  /\ Apart(A, Q)
  /\ Covered(c, s, R, T)

HasAsk(Q, type, r) == \E m \in Q : m.type = type /\ m.ref = r
HasAck(A, type, r) == \E a \in A : a.type = type /\ a.ref = r

\* What nothing being lost adds.
KeyExact(c, s, A, Q, T) ==
  /\ \/ s.state = "Idle"
     \/ s.leaves = T[s.userRef] + Kept(c, s.userRef)
     \/ HasAsk(Q, "EnterOrder", s.userRef)
     \/ HasAck(A, "Rejected", s.userRef)
     \/ HasAck(A, "Replaced", s.pendingRef)
  /\ \A a \in A : a.type \in {"Accepted", "Replaced"} => T[a.ref] + Kept(c, a.ref) = QuoteQty
  /\ \A a \in A : a.type = "Executed" => a.ref = s.userRef \/ HasAck(A, "Replaced", a.ref)
  /\ s.state = "PendingNew" =>
       \/ HasAsk(Q, "EnterOrder", s.userRef)
       \/ HasAck(A, "Accepted", s.userRef) \/ HasAck(A, "Rejected", s.userRef)
  /\ s.state = "PendingReplace" =>
       \/ HasAsk(Q, "ReplaceOrder", s.pendingRef)
       \/ HasAck(A, "Replaced", s.pendingRef) \/ HasAck(A, "Rejected", s.pendingRef)
  /\ s.state = "PendingCancel" =>
       \/ HasAsk(Q, "CancelOrder", s.userRef)
       \/ HasAck(A, "Canceled", s.userRef) \/ HasAck(A, "CancelReject", s.userRef)
  /\ Holds(c, s.pendingRef) => HasAck(A, "Replaced", s.pendingRef)

\* What nothing being lost and no day ending adds.
KeyOrderly(s, A, Q) ==
  /\ \A m \in Q :
       /\ m.type = "ReplaceOrder" => s.state = "PendingReplace" /\ s.pendingRef = m.ref
       /\ m.type = "CancelOrder" => s.state = "PendingCancel" /\ s.userRef = m.ref
  /\ \A a \in A :
       /\ a.type = "Rejected" =>
            \/ s.state = "PendingNew" /\ s.userRef = a.ref
            \/ s.state = "PendingReplace" /\ s.pendingRef = a.ref
       /\ a.type \in {"Canceled", "CancelReject"} => s.state = "PendingCancel" /\ s.userRef = a.ref
  /\ \A m \in Q, a \in A : a.type = "Executed"

\* r is new to the quote.
LEMMA GrowKey ==
  ASSUME NEW c, NEW s, NEW A, NEW Q, NEW R, NEW T, KeyInv(c, s, A, Q, R, T),
         NEW R2 \in SUBSET (Nat \ {0}), R \subseteq R2, NEW T2 \in [R2 -> Nat],
         \A r \in R : T2[r] = T[r], \A r \in R2 : r \notin R => T2[r] = 0
  PROVE  /\ KeyInv(c, s, A, Q, R2, T2)
         /\ KeyExact(c, s, A, Q, T) => KeyExact(c, s, A, Q, T2)
<1>1. KeyTyped(c, s, A, Q, R, T) /\ ViewOK(c, s, R) /\ Covered(c, s, R, T)
      /\ (\A m \in Q : AskOK(c, s, m, R)) /\ (\A a \in A : AckOK(c, s, a, A)) /\ Apart(A, Q)
  BY DEF KeyInv
<1>2. KeyTyped(c, s, A, Q, R2, T2)
  BY <1>1 DEF KeyTyped, Good
<1>3. ViewOK(c, s, R2) /\ \A m \in Q : AskOK(c, s, m, R2)
  BY <1>1 DEF ViewOK, AskOK
<1>4. Covered(c, s, R2, T2)
  <2>1. ASSUME NEW r \in R2 PROVE T2[r] + Kept(c, r) <= QuoteQty
    <3>1. CASE r \in R
      BY <3>1, <1>1 DEF Covered
    <3>2. CASE r \notin R
      <4>1. Kept(c, r) = 0
        BY <3>2, <1>1 DEF ViewOK, Kept, Holds, KeyTyped, Views
      <4> QED
        BY <4>1, <3>2, QuoteQtyAssumption
    <3> QED
      BY <3>1, <3>2
  <2>2. s.state # "Idle" => s.userRef \in R
    BY <1>1 DEF KeyTyped, Good
  <2> QED
    BY <2>1, <2>2, <1>1 DEF Covered
<1>5. ASSUME KeyExact(c, s, A, Q, T) PROVE KeyExact(c, s, A, Q, T2)
  <2>1. \A a \in A : a.ref \in R
    BY <1>1 DEF KeyTyped
  <2>2. s.state # "Idle" => s.userRef \in R
    BY <1>1 DEF KeyTyped, Good
  <2> QED
    BY <2>1, <2>2, <1>5 DEF KeyExact
<1> QED
  BY <1>1, <1>2, <1>3, <1>4, <1>5 DEF KeyInv

\* The reference is new to the quote.
Fresh(c, s, A, Q, ref, T) ==
  /\ T[ref] = 0 /\ s.userRef # ref /\ ~Holds(c, ref)
  /\ \A a \in A : a.ref # ref
  /\ \A m \in Q : m.ref # ref /\ (m.type = "ReplaceOrder" => m.orig # ref)

\* The parts of KeyInv, for the leaves that need them all.
LEMMA KeyInvParts ==
  ASSUME NEW c, NEW s, NEW A, NEW Q, NEW R, NEW T, KeyInv(c, s, A, Q, R, T)
  PROVE  /\ KeyTyped(c, s, A, Q, R, T) /\ ViewOK(c, s, R) /\ Covered(c, s, R, T) /\ Apart(A, Q)
         /\ \A m \in Q : AskOK(c, s, m, R)
         /\ \A a \in A : AckOK(c, s, a, A)
         /\ c.qty \in Nat /\ c.id \in Nat /\ c.price \in Nat
         /\ s \in Slot /\ s.userRef \in Nat /\ s.pendingRef \in Nat /\ s.leaves \in Nat /\ s.state \in States
         /\ R \subseteq Nat \ {0} /\ \A r \in R : T[r] \in Nat
         /\ \A a \in A : a.ref \in R /\ a.qty \in Nat /\ a.type \in AckTypes
         /\ \A m \in Q : m.ref \in R /\ m.type \in {"EnterOrder", "CancelOrder", "ReplaceOrder"}
BY DEF KeyInv, KeyTyped, Good, Slot, Views, Answers, Asks

\* reconcileSlot enters an order.
EnterAsk(m, ref, price, s, s2, c, A, Q, Q2, R, T) ==
  /\ ref \in R /\ Fresh(c, s, A, Q, ref, T) /\ price \in Nat /\ s.state = "Idle"
  /\ s2 = [state |-> "PendingNew", userRef |-> ref, pendingRef |-> 0,
           price |-> price, leaves |-> QuoteQty]
  /\ m \in Asks /\ m.type = "EnterOrder" /\ m.ref = ref /\ m.qty = QuoteQty /\ m.price = price
  /\ Q \subseteq Q2 /\ Q2 \subseteq Q \cup {m}

\* A quote that asks for a new order keeps its invariant; where the request is in the queue,
\* the exact one too.
LEMMA EnterAsked ==
  ASSUME NEW c, NEW s, NEW A, NEW Q, NEW R, NEW T, KeyInv(c, s, A, Q, R, T),
         NEW m, NEW ref, NEW price, NEW s2, NEW Q2, EnterAsk(m, ref, price, s, s2, c, A, Q, Q2, R, T)
  PROVE  /\ KeyInv(c, s2, A, Q2, R, T)
         /\ KeyExact(c, s, A, Q, T) /\ m \in Q2 => KeyExact(c, s2, A, Q2, T)
         /\ KeyOrderly(s, A, Q) => KeyOrderly(s2, A, Q2)
<1>0. /\ ref \in R /\ Fresh(c, s, A, Q, ref, T) /\ price \in Nat /\ s.state = "Idle"
      /\ s2 = [state |-> "PendingNew", userRef |-> ref, pendingRef |-> 0,
               price |-> price, leaves |-> QuoteQty]
      /\ m \in Asks /\ m.type = "EnterOrder" /\ m.ref = ref /\ m.qty = QuoteQty /\ m.price = price
      /\ Q \subseteq Q2 /\ Q2 \subseteq Q \cup {m}
  BY DEF EnterAsk
<1> USE <1>0
<1>1. /\ KeyTyped(c, s, A, Q, R, T) /\ ViewOK(c, s, R) /\ Covered(c, s, R, T) /\ Apart(A, Q)
      /\ \A n \in Q : AskOK(c, s, n, R)
      /\ \A a \in A : AckOK(c, s, a, A)
      /\ R \subseteq Nat \ {0}
  BY KeyInvParts
<1>2. s = Settled
  BY <1>1 DEF KeyTyped, Good
<1>3. c = NoOrder /\ c.qty = 0
  BY <1>1, <1>2 DEF ViewOK, KeyTyped, Views, Settled
<1>4. /\ s2.state = "PendingNew" /\ s2.userRef = ref /\ s2.pendingRef = 0 /\ s2.price = price
      /\ s2.leaves = QuoteQty
  OBVIOUS
<1>5. \A n \in Q : n.type # "EnterOrder"
  BY <1>1 DEF AskOK
<1>6. \A a \in A : a.type \notin {"Accepted", "Replaced"}
  BY <1>1 DEF AckOK
<1>7. \A r : ~Holds(c, r) /\ Kept(c, r) = 0
  BY <1>3 DEF Holds, Kept
<1>8. Good(s2, R)
  BY <1>1, <1>4, QuoteQtyAssumption DEF Good, Slot, States
<1>9. KeyTyped(c, s2, A, Q2, R, T)
  BY <1>1, <1>8 DEF KeyTyped
<1>10. ViewOK(c, s2, R)
  BY <1>3 DEF ViewOK
<1>11. \A n \in Q2 : AskOK(c, s2, n, R)
  BY <1>1, <1>4, <1>5, <1>7 DEF AskOK, Fresh
<1>12. \A a \in A : AckOK(c, s2, a, A)
  BY <1>1, <1>4, <1>6, <1>7 DEF AckOK, Fresh
<1>13. Apart(A, Q2)
  BY <1>1 DEF Apart, Fresh, New
<1>14. Covered(c, s2, R, T)
  BY <1>1, <1>4, <1>7, QuoteQtyAssumption DEF Covered, Fresh
<1>15. KeyInv(c, s2, A, Q2, R, T)
  BY <1>9, <1>10, <1>11, <1>12, <1>13, <1>14 DEF KeyInv
<1>16. ASSUME KeyExact(c, s, A, Q, T), m \in Q2 PROVE KeyExact(c, s2, A, Q2, T)
  <2>1. HasAsk(Q2, "EnterOrder", s2.userRef)
    BY <1>16, <1>4 DEF HasAsk
  <2>2. \A a \in A : a.type # "Executed"
    BY <1>16, <1>1, <1>2, <1>6 DEF KeyExact, HasAck, Settled, KeyTyped
  <2> QED
    BY <2>1, <2>2, <1>4, <1>6, <1>7 DEF KeyExact
<1>17. ASSUME KeyOrderly(s, A, Q) PROVE KeyOrderly(s2, A, Q2)
  <2>1. \A n \in Q : n.type = "CancelOrder" /\ FALSE
    BY <1>17, <1>1, <1>5 DEF KeyOrderly, KeyTyped, Asks
  <2>2. \A a \in A : a.type = "Executed"
    BY <1>17, <1>1, <1>6 DEF KeyOrderly, KeyTyped, Answers, AckTypes
  <2> QED
    BY <2>1, <2>2 DEF KeyOrderly
<1> QED
  BY <1>15, <1>16, <1>17

\* reconcileSlot replaces an order.
ReplaceAsk(m, ref, s, s2, c, A, Q, Q2, R, T) ==
  /\ ref \in R /\ Fresh(c, s, A, Q, ref, T) /\ s.state = "Live"
  /\ s2 = [s EXCEPT !.state = "PendingReplace", !.pendingRef = ref]
  /\ m \in Asks /\ m.type = "ReplaceOrder" /\ m.ref = ref /\ m.orig = s.userRef /\ m.qty = QuoteQty
  /\ Q \subseteq Q2 /\ Q2 \subseteq Q \cup {m}

\* A quote that asks to replace its order keeps its invariant, in the same way.
LEMMA ReplaceAsked ==
  ASSUME NEW c, NEW s, NEW A, NEW Q, NEW R, NEW T, KeyInv(c, s, A, Q, R, T),
         NEW m, NEW ref, NEW s2, NEW Q2, ReplaceAsk(m, ref, s, s2, c, A, Q, Q2, R, T)
  PROVE  /\ KeyInv(c, s2, A, Q2, R, T)
         /\ KeyExact(c, s, A, Q, T) /\ m \in Q2 => KeyExact(c, s2, A, Q2, T)
         /\ KeyOrderly(s, A, Q) => KeyOrderly(s2, A, Q2)
<1>0. /\ ref \in R /\ Fresh(c, s, A, Q, ref, T) /\ s.state = "Live"
      /\ s2 = [s EXCEPT !.state = "PendingReplace", !.pendingRef = ref]
      /\ m \in Asks /\ m.type = "ReplaceOrder" /\ m.ref = ref /\ m.orig = s.userRef /\ m.qty = QuoteQty
      /\ Q \subseteq Q2 /\ Q2 \subseteq Q \cup {m}
  BY DEF ReplaceAsk
<1> USE <1>0
<1>1. /\ KeyTyped(c, s, A, Q, R, T) /\ ViewOK(c, s, R) /\ Covered(c, s, R, T) /\ Apart(A, Q)
      /\ \A n \in Q : AskOK(c, s, n, R)
      /\ \A a \in A : AckOK(c, s, a, A)
      /\ R \subseteq Nat \ {0} /\ s \in Slot
  BY KeyInvParts
<1>2. /\ s2.state = "PendingReplace" /\ s2.userRef = s.userRef /\ s2.pendingRef = ref
      /\ s2.price = s.price /\ s2.leaves = s.leaves /\ s2 \in Slot /\ s.userRef # ref
  BY <1>1 DEF Slot, Fresh, States
<1>3. s.pendingRef = 0 /\ s.userRef \in R /\ ref # 0
  BY <1>1 DEF KeyTyped, Good
<1>4. /\ \A n \in Q : n.type # "EnterOrder"
      /\ \A n \in Q : n.type = "ReplaceOrder" => ~Holds(c, n.orig) /\ n.ref # s.userRef
  BY <1>1 DEF AskOK
<1>5. \A a \in A : a.type \notin {"Accepted", "Replaced"} /\ (a.type = "Rejected" => a.ref # s.userRef)
  BY <1>1 DEF AckOK
<1>6. KeyTyped(c, s2, A, Q2, R, T)
  BY <1>1, <1>2, <1>3 DEF KeyTyped, Good
<1>7. ViewOK(c, s2, R)
  BY <1>1, <1>2, <1>3 DEF ViewOK, KeyTyped, Views
<1>8. \A n \in Q2 : AskOK(c, s2, n, R)
  BY <1>1, <1>2, <1>3, <1>4 DEF AskOK, Fresh
<1>9. \A a \in A : AckOK(c, s2, a, A)
  BY <1>1, <1>2, <1>3, <1>5 DEF AckOK, Fresh
<1>10. Apart(A, Q2)
  BY <1>1, <1>4, <1>5, <1>2 DEF Apart, Fresh, New
<1>11. Covered(c, s2, R, T)
  BY <1>1, <1>2 DEF Covered
<1>12. KeyInv(c, s2, A, Q2, R, T)
  BY <1>6, <1>7, <1>8, <1>9, <1>10, <1>11 DEF KeyInv
<1>13. ASSUME KeyExact(c, s, A, Q, T), m \in Q2 PROVE KeyExact(c, s2, A, Q2, T)
  <2>1. HasAsk(Q2, "ReplaceOrder", s2.pendingRef)
    BY <1>13, <1>2 DEF HasAsk
  <2>2. s.leaves = T[s.userRef] + Kept(c, s.userRef)
    BY <1>13, <1>4, <1>5 DEF KeyExact, HasAsk, HasAck
  <2>3. ~Holds(c, ref)
    BY DEF Fresh
  <2> QED
    BY <2>1, <2>2, <2>3, <1>2, <1>5, <1>13 DEF KeyExact
<1>14. ASSUME KeyOrderly(s, A, Q) PROVE KeyOrderly(s2, A, Q2)
  <2>1. \A n \in Q : n.type = "CancelOrder" /\ FALSE
    BY <1>14, <1>1, <1>4 DEF KeyOrderly, KeyTyped, Asks
  <2>2. \A a \in A : a.type = "Executed"
    BY <1>14, <1>1, <1>5 DEF KeyOrderly, KeyTyped, Answers, AckTypes
  <2> QED
    BY <2>1, <2>2, <1>2 DEF KeyOrderly
<1> QED
  BY <1>12, <1>13, <1>14

\* reconcileSlot cancels an order.
CancelAsk(m, s, s2, Q, Q2) ==
  /\ s.state = "Live" /\ s2 = [s EXCEPT !.state = "PendingCancel"]
  /\ m \in Asks /\ m.type = "CancelOrder" /\ m.ref = s.userRef
  /\ Q \subseteq Q2 /\ Q2 \subseteq Q \cup {m}

\* A quote that asks to cancel its order keeps its invariant, in the same way.
LEMMA CancelAsked ==
  ASSUME NEW c, NEW s, NEW A, NEW Q, NEW R, NEW T, KeyInv(c, s, A, Q, R, T),
         NEW m, NEW s2, NEW Q2, CancelAsk(m, s, s2, Q, Q2)
  PROVE  /\ KeyInv(c, s2, A, Q2, R, T)
         /\ KeyExact(c, s, A, Q, T) /\ m \in Q2 => KeyExact(c, s2, A, Q2, T)
         /\ KeyOrderly(s, A, Q) => KeyOrderly(s2, A, Q2)
<1>0. /\ s.state = "Live" /\ s2 = [s EXCEPT !.state = "PendingCancel"]
      /\ m \in Asks /\ m.type = "CancelOrder" /\ m.ref = s.userRef
      /\ Q \subseteq Q2 /\ Q2 \subseteq Q \cup {m}
  BY DEF CancelAsk
<1> USE <1>0
<1>1. /\ KeyTyped(c, s, A, Q, R, T) /\ ViewOK(c, s, R) /\ Covered(c, s, R, T) /\ Apart(A, Q)
      /\ \A n \in Q : AskOK(c, s, n, R)
      /\ \A a \in A : AckOK(c, s, a, A)
      /\ R \subseteq Nat \ {0} /\ s \in Slot
  BY KeyInvParts
<1>2. /\ s2.state = "PendingCancel" /\ s2.userRef = s.userRef /\ s2.pendingRef = s.pendingRef
      /\ s2.price = s.price /\ s2.leaves = s.leaves /\ s2 \in Slot
  BY <1>1 DEF Slot, States
<1>3. s.pendingRef = 0 /\ s.userRef \in R
  BY <1>1 DEF KeyTyped, Good
<1>4. /\ \A n \in Q : n.type # "EnterOrder"
      /\ \A n \in Q : n.type = "ReplaceOrder" => ~Holds(c, n.orig) /\ n.ref # s.userRef
  BY <1>1 DEF AskOK
<1>5. \A a \in A : a.type \notin {"Accepted", "Replaced"} /\ (a.type = "Rejected" => a.ref # s.userRef)
  BY <1>1 DEF AckOK
<1>6. KeyTyped(c, s2, A, Q2, R, T)
  BY <1>1, <1>2, <1>3 DEF KeyTyped, Good
<1>7. ViewOK(c, s2, R)
  BY <1>1, <1>2, <1>3 DEF ViewOK, KeyTyped, Views
<1>8. \A n \in Q2 : AskOK(c, s2, n, R)
  BY <1>1, <1>2, <1>3, <1>4 DEF AskOK, New
<1>9. \A a \in A : AckOK(c, s2, a, A)
  BY <1>1, <1>2, <1>3, <1>5 DEF AckOK
<1>10. Apart(A, Q2)
  BY <1>1, <1>4, <1>5, <1>2 DEF Apart, New
<1>11. Covered(c, s2, R, T)
  BY <1>1, <1>2 DEF Covered
<1>12. KeyInv(c, s2, A, Q2, R, T)
  BY <1>6, <1>7, <1>8, <1>9, <1>10, <1>11 DEF KeyInv
<1>13. ASSUME KeyExact(c, s, A, Q, T), m \in Q2 PROVE KeyExact(c, s2, A, Q2, T)
  <2>1. HasAsk(Q2, "CancelOrder", s2.userRef)
    BY <1>13, <1>2 DEF HasAsk
  <2>2. s.leaves = T[s.userRef] + Kept(c, s.userRef)
    BY <1>13, <1>4, <1>5 DEF KeyExact, HasAsk, HasAck
  <2>3. ~Holds(c, s2.pendingRef)
    BY <1>1, <1>2, <1>3 DEF ViewOK, Holds
  <2> QED
    BY <2>1, <2>2, <2>3, <1>2, <1>5, <1>13 DEF KeyExact
<1>14. ASSUME KeyOrderly(s, A, Q) PROVE KeyOrderly(s2, A, Q2)
  <2>1. \A n \in Q : n.type = "CancelOrder" /\ FALSE
    BY <1>14, <1>1, <1>4 DEF KeyOrderly, KeyTyped, Asks
  <2>2. \A a \in A : a.type = "Executed"
    BY <1>14, <1>1, <1>5 DEF KeyOrderly, KeyTyped, Answers, AckTypes
  <2> QED
    BY <2>1, <2>2, <1>2 DEF KeyOrderly
<1> QED
  BY <1>12, <1>13, <1>14

\* A request m has left the queue.
Popped(Q, Q2, m) ==
  /\ m \in Q /\ Q2 \subseteq Q /\ Q \subseteq Q2 \cup {m}
  /\ New(m) => \A n \in Q2 : New(n) => n.ref # m.ref

\* The venue answers the request m, of the given type, with e.
Answered(m, e, type, A, A2, Q, Q2) ==
  /\ Popped(Q, Q2, m)
  /\ e \in Answers /\ e.type = type /\ e.ref = m.ref /\ A2 = A \cup {e}

\* The venue refuses an order or a replacement.
LEMMA NewRefused ==
  ASSUME NEW c, NEW s, NEW A, NEW Q, NEW R, NEW T, KeyInv(c, s, A, Q, R, T),
         NEW m, New(m), NEW e, NEW A2, NEW Q2, Answered(m, e, "Rejected", A, A2, Q, Q2)
  PROVE  /\ KeyInv(c, s, A2, Q2, R, T)
         /\ \A a \in A : MayFollow(a, e)
         /\ KeyExact(c, s, A, Q, T) => KeyExact(c, s, A2, Q2, T)
         /\ KeyOrderly(s, A, Q) /\ Q2 = {} => KeyOrderly(s, A2, Q2)
<1>0. /\ Popped(Q, Q2, m)
      /\ e \in Answers /\ e.type = "Rejected" /\ e.ref = m.ref /\ A2 = A \cup {e}
  BY DEF Answered
<1> USE <1>0
<1>1. /\ KeyTyped(c, s, A, Q, R, T) /\ ViewOK(c, s, R) /\ Covered(c, s, R, T) /\ Apart(A, Q)
      /\ \A n \in Q : AskOK(c, s, n, R)
      /\ \A a \in A : AckOK(c, s, a, A)
      /\ m \in Q /\ Q2 \subseteq Q /\ Q \subseteq Q2 \cup {m}
  BY KeyInvParts DEF Popped
<1>2. KeyTyped(c, s, A2, Q2, R, T)
  BY <1>1 DEF KeyTyped
<1>3. \A n \in Q2 : AskOK(c, s, n, R)
  BY <1>1
<1>4. \A a \in A2 : AckOK(c, s, a, A2)
  <2>1. \A a \in A : AckOK(c, s, a, A2)
    BY <1>1 DEF AckOK
  <2>2. AckOK(c, s, e, A2)
    BY <1>1 DEF AckOK, AskOK, New
  <2> QED
    BY <2>1, <2>2
<1>5. Apart(A2, Q2)
  BY <1>1 DEF Apart, Popped, New
<1>6. KeyInv(c, s, A2, Q2, R, T)
  BY <1>1, <1>2, <1>3, <1>4, <1>5 DEF KeyInv
<1>7. \A a \in A : MayFollow(a, e)
  BY <1>1 DEF Apart, MayFollow
<1>8. ASSUME KeyExact(c, s, A, Q, T) PROVE KeyExact(c, s, A2, Q2, T)
  <2>1. /\ \A y, r : HasAck(A, y, r) => HasAck(A2, y, r)
        /\ HasAck(A2, "Rejected", m.ref)
        /\ \A y, r : HasAsk(Q, y, r) => HasAsk(Q2, y, r) \/ (y = m.type /\ r = m.ref)
    BY <1>1 DEF HasAck, HasAsk
  <2>2. /\ \A a \in A2 : a.type \in {"Accepted", "Replaced"} => T[a.ref] + Kept(c, a.ref) = QuoteQty
        /\ \A a \in A2 : a.type = "Executed" => a.ref = s.userRef \/ HasAck(A2, "Replaced", a.ref)
    BY <1>8, <2>1 DEF KeyExact
  <2>3. m.type = "EnterOrder" \/ m.type = "ReplaceOrder"
    BY DEF New
  <2> QED
    BY <1>8, <2>1, <2>2, <2>3 DEF KeyExact
<1>9. ASSUME KeyOrderly(s, A, Q), Q2 = {} PROVE KeyOrderly(s, A2, Q2)
  BY <1>9, <1>1 DEF KeyOrderly, AskOK, New
<1> QED
  BY <1>6, <1>7, <1>8, <1>9

\* The venue refuses a cancel.
LEMMA CancelRefused ==
  ASSUME NEW c, NEW s, NEW A, NEW Q, NEW R, NEW T, KeyInv(c, s, A, Q, R, T),
         NEW m, m.type = "CancelOrder", NEW e, NEW A2, NEW Q2,
         Answered(m, e, "CancelReject", A, A2, Q, Q2)
  PROVE  /\ KeyInv(c, s, A2, Q2, R, T)
         /\ \A a \in A : MayFollow(a, e)
         /\ KeyExact(c, s, A, Q, T) => KeyExact(c, s, A2, Q2, T)
         /\ KeyOrderly(s, A, Q) /\ Q2 = {} => KeyOrderly(s, A2, Q2)
<1>0. /\ Popped(Q, Q2, m)
      /\ e \in Answers /\ e.type = "CancelReject" /\ e.ref = m.ref /\ A2 = A \cup {e}
  BY DEF Answered
<1> USE <1>0
<1>1. /\ KeyTyped(c, s, A, Q, R, T) /\ ViewOK(c, s, R) /\ Covered(c, s, R, T) /\ Apart(A, Q)
      /\ \A n \in Q : AskOK(c, s, n, R)
      /\ \A a \in A : AckOK(c, s, a, A)
      /\ m \in Q /\ Q2 \subseteq Q /\ Q \subseteq Q2 \cup {m}
  BY KeyInvParts DEF Popped
<1>2. KeyTyped(c, s, A2, Q2, R, T)
  BY <1>1 DEF KeyTyped
<1>3. \A n \in Q2 : AskOK(c, s, n, R)
  BY <1>1
<1>4. \A a \in A2 : AckOK(c, s, a, A2)
  BY <1>1 DEF AckOK
<1>5. Apart(A2, Q2)
  BY <1>1 DEF Apart, New
<1>6. KeyInv(c, s, A2, Q2, R, T)
  BY <1>1, <1>2, <1>3, <1>4, <1>5 DEF KeyInv
<1>7. \A a \in A : MayFollow(a, e)
  BY <1>1 DEF Apart, MayFollow
<1>8. ASSUME KeyExact(c, s, A, Q, T) PROVE KeyExact(c, s, A2, Q2, T)
  <2>1. /\ \A y, r : HasAck(A, y, r) => HasAck(A2, y, r)
        /\ HasAck(A2, "CancelReject", m.ref)
        /\ \A y, r : HasAsk(Q, y, r) => HasAsk(Q2, y, r) \/ (y = m.type /\ r = m.ref)
    BY <1>1 DEF HasAck, HasAsk
  <2>2. /\ \A a \in A2 : a.type \in {"Accepted", "Replaced"} => T[a.ref] + Kept(c, a.ref) = QuoteQty
        /\ \A a \in A2 : a.type = "Executed" => a.ref = s.userRef \/ HasAck(A2, "Replaced", a.ref)
    BY <1>8, <2>1 DEF KeyExact
  <2> QED
    BY <1>8, <2>1, <2>2 DEF KeyExact
<1>9. ASSUME KeyOrderly(s, A, Q), Q2 = {} PROVE KeyOrderly(s, A2, Q2)
  BY <1>9, <1>1 DEF KeyOrderly
<1> QED
  BY <1>6, <1>7, <1>8, <1>9

\* The venue accepts an order.
LEMMA OrderAccepted ==
  ASSUME NEW c, NEW s, NEW A, NEW Q, NEW R, NEW T, KeyInv(c, s, A, Q, R, T),
         NEW m, m.type = "EnterOrder", NEW e, NEW A2, NEW Q2, Answered(m, e, "Accepted", A, A2, Q, Q2),
         T[m.ref] = 0, e.qty = m.qty,
         NEW c2, c2 = [id |-> m.ref, price |-> m.price, qty |-> m.qty]
  PROVE  /\ KeyInv(c2, s, A2, Q2, R, T) /\ c = NoOrder
         /\ \A a \in A : MayFollow(a, e)
         /\ KeyExact(c, s, A, Q, T) => KeyExact(c2, s, A2, Q2, T)
         /\ KeyOrderly(s, A, Q) /\ Q2 = {} => KeyOrderly(s, A2, Q2)
<1>0. /\ Popped(Q, Q2, m)
      /\ e \in Answers /\ e.type = "Accepted" /\ e.ref = m.ref /\ A2 = A \cup {e}
  BY DEF Answered
<1> USE <1>0
<1>1. /\ KeyTyped(c, s, A, Q, R, T) /\ ViewOK(c, s, R) /\ Covered(c, s, R, T) /\ Apart(A, Q)
      /\ \A n \in Q : AskOK(c, s, n, R)
      /\ \A a \in A : AckOK(c, s, a, A)
      /\ m \in Q /\ Q2 \subseteq Q /\ Q \subseteq Q2 \cup {m}
      /\ R \subseteq Nat \ {0} /\ \A r \in R : T[r] \in Nat
      /\ c.qty \in Nat
  BY KeyInvParts DEF Popped
<1>2. /\ s.state = "PendingNew" /\ s.userRef = m.ref /\ s.leaves = QuoteQty /\ s.price = m.price
      /\ m.qty = QuoteQty /\ m.ref \in R /\ ~Holds(c, m.ref) /\ m.price \in Nat
  BY <1>1 DEF AskOK, New, KeyTyped, Asks
<1>3. s.pendingRef = 0 /\ QuoteQty \in Nat \ {0}
  BY <1>1, <1>2, QuoteQtyAssumption DEF KeyTyped, Good
<1>4. c = NoOrder
  BY <1>1, <1>2, <1>3 DEF ViewOK, Holds
<1>5. c2.id = m.ref /\ c2.price = m.price /\ c2.qty = QuoteQty /\ c2 \in Views
  BY <1>1, <1>2, <1>3 DEF Views
<1>6. \A r : (Holds(c2, r) <=> r = m.ref) /\ Kept(c2, r) = (IF r = m.ref THEN QuoteQty ELSE 0)
             /\ Kept(c, r) = 0
  BY <1>3, <1>4, <1>5 DEF Holds, Kept, NoOrder
<1>7. KeyTyped(c2, s, A2, Q2, R, T)
  BY <1>1, <1>2, <1>5 DEF KeyTyped
<1>8. ViewOK(c2, s, R)
  BY <1>2, <1>3, <1>5 DEF ViewOK
<1>9. \A n \in Q2 : AskOK(c2, s, n, R)
  <2>1. \A n \in Q2 : n.type # "EnterOrder"
    BY <1>1, <1>2 DEF AskOK, Popped, New
  <2>2. \A n \in Q2 : n.type = "ReplaceOrder" => n.orig # m.ref /\ n.ref # m.ref
    BY <1>1 DEF Apart, Popped, New
  <2> QED
    BY <1>1, <1>6, <2>1, <2>2 DEF AskOK, New
<1>10. \A a \in A : a.ref # m.ref
  BY <1>1 DEF Apart, New
<1>11. \A a \in A : a.type \notin {"Accepted", "Replaced"}
  BY <1>1, <1>2, <1>10 DEF AckOK
<1>12. \A a \in A2 : AckOK(c2, s, a, A2)
  BY <1>1, <1>2, <1>6, <1>10, <1>11 DEF AckOK
<1>13. Apart(A2, Q2)
  BY <1>1 DEF Apart, New, Popped
<1>14. Covered(c2, s, R, T)
  BY <1>1, <1>2, <1>3, <1>6 DEF Covered
<1>15. KeyInv(c2, s, A2, Q2, R, T)
  BY <1>7, <1>8, <1>9, <1>12, <1>13, <1>14 DEF KeyInv
<1>16. \A a \in A : MayFollow(a, e)
  BY <1>10, <1>11 DEF MayFollow
<1>17. ASSUME KeyExact(c, s, A, Q, T) PROVE KeyExact(c2, s, A2, Q2, T)
  <2>1. HasAck(A2, "Accepted", m.ref)
    BY DEF HasAck
  <2>2. s.leaves = T[s.userRef] + Kept(c2, s.userRef)
    BY <1>2, <1>3, <1>6
  <2>3. \A a \in A2 : a.type \in {"Accepted", "Replaced"} => T[a.ref] + Kept(c2, a.ref) = QuoteQty
    BY <1>3, <1>6, <1>11
  <2>4. \A a \in A2 : a.type = "Executed" => a.ref = s.userRef \/ HasAck(A2, "Replaced", a.ref)
    BY <1>17 DEF KeyExact, HasAck
  <2>5. ~Holds(c2, s.pendingRef)
    BY <1>1, <1>2, <1>3, <1>6
  <2> QED
    BY <1>2, <2>1, <2>2, <2>3, <2>4, <2>5 DEF KeyExact
<1>18. ASSUME KeyOrderly(s, A, Q), Q2 = {} PROVE KeyOrderly(s, A2, Q2)
  BY <1>18, <1>1 DEF KeyOrderly
<1> QED
  BY <1>4, <1>15, <1>16, <1>17, <1>18

\* The venue accepts a replacement.
LEMMA OrderReplaced ==
  ASSUME NEW c, NEW s, NEW A, NEW Q, NEW R, NEW T, KeyInv(c, s, A, Q, R, T),
         NEW m, m.type = "ReplaceOrder", NEW e, NEW A2, NEW Q2, Answered(m, e, "Replaced", A, A2, Q, Q2),
         T[m.ref] = 0, Holds(c, m.orig), e.qty = m.qty, e.price = m.price,
         NEW c2, c2 = [id |-> m.ref, price |-> m.price, qty |-> m.qty]
  PROVE  /\ KeyInv(c2, s, A2, Q2, R, T)
         /\ \A a \in A : MayFollow(a, e)
         /\ KeyExact(c, s, A, Q, T) => KeyExact(c2, s, A2, Q2, T)
         /\ KeyOrderly(s, A, Q) /\ Q2 = {} => KeyOrderly(s, A2, Q2)
<1>0. /\ Popped(Q, Q2, m)
      /\ e \in Answers /\ e.type = "Replaced" /\ e.ref = m.ref /\ A2 = A \cup {e}
  BY DEF Answered
<1> USE <1>0
<1>1. /\ KeyTyped(c, s, A, Q, R, T) /\ ViewOK(c, s, R) /\ Covered(c, s, R, T) /\ Apart(A, Q)
      /\ \A n \in Q : AskOK(c, s, n, R)
      /\ \A a \in A : AckOK(c, s, a, A)
      /\ m \in Q /\ Q2 \subseteq Q /\ Q \subseteq Q2 \cup {m}
      /\ R \subseteq Nat \ {0} /\ \A r \in R : T[r] \in Nat
      /\ c.qty \in Nat
  BY KeyInvParts DEF Popped
<1>2. /\ s.state = "PendingReplace" /\ s.userRef = m.orig /\ s.pendingRef = m.ref
      /\ m.qty = QuoteQty /\ m.ref \in R /\ m.price \in Nat /\ m.ref # s.userRef
  BY <1>1 DEF AskOK, New, KeyTyped, Asks
<1>3. s.userRef \in R /\ QuoteQty \in Nat \ {0}
  BY <1>1, <1>2, QuoteQtyAssumption DEF KeyTyped, Good
<1>5. c2.id = m.ref /\ c2.price = m.price /\ c2.qty = QuoteQty /\ c2 \in Views
  BY <1>1, <1>2, <1>3 DEF Views
<1>6. \A r : (Holds(c2, r) <=> r = m.ref) /\ Kept(c2, r) = (IF r = m.ref THEN QuoteQty ELSE 0)
             /\ Kept(c, r) \in Nat
  BY <1>1, <1>3, <1>5 DEF Holds, Kept
<1>7. KeyTyped(c2, s, A2, Q2, R, T)
  BY <1>1, <1>2, <1>5 DEF KeyTyped
<1>8. ViewOK(c2, s, R)
  BY <1>2, <1>3, <1>5 DEF ViewOK
<1>9. \A n \in Q2 : AskOK(c2, s, n, R)
  <2>1. \A n \in Q2 : n.type # "EnterOrder"
    BY <1>1, <1>2 DEF AskOK, Popped, New
  <2>2. \A n \in Q2 : n.type = "ReplaceOrder" => n.orig # m.ref /\ n.ref # m.ref
    BY <1>1 DEF Apart, Popped, New
  <2> QED
    BY <1>1, <1>6, <2>1, <2>2 DEF AskOK, New
<1>10. \A a \in A : a.ref # m.ref
  BY <1>1 DEF Apart, New
<1>11. \A a \in A : a.type \notin {"Accepted", "Replaced"} /\ (a.type = "Canceled" => a.ref # s.userRef)
  BY <1>1, <1>2, <1>10 DEF AckOK
<1>12. \A a \in A2 : AckOK(c2, s, a, A2)
  BY <1>1, <1>2, <1>5, <1>6, <1>10, <1>11 DEF AckOK
<1>13. Apart(A2, Q2)
  BY <1>1 DEF Apart, New, Popped
<1>14. Covered(c2, s, R, T)
  <2>1. s.leaves \in Nat
    BY <1>1 DEF KeyTyped, Good, Slot
  <2>2. ASSUME NEW r \in R PROVE T[r] + Kept(c2, r) <= QuoteQty
    <3>1. T[r] \in Nat /\ Kept(c, r) \in Nat /\ T[r] + Kept(c, r) <= QuoteQty
      BY <1>1, <1>6 DEF Covered
    <3>2. Kept(c2, r) = IF r = m.ref THEN QuoteQty ELSE 0
      BY <1>6
    <3> QED
      BY <3>1, <3>2, <1>3
  <2>3. T[s.userRef] + Kept(c2, s.userRef) <= s.leaves
    <3>1. /\ T[s.userRef] \in Nat /\ Kept(c, s.userRef) \in Nat
          /\ T[s.userRef] + Kept(c, s.userRef) <= s.leaves
      BY <1>1, <1>2, <1>3, <1>6 DEF Covered
    <3>2. Kept(c2, s.userRef) = 0
      BY <1>2, <1>6
    <3> QED
      BY <3>1, <3>2, <2>1
  <2> QED
    BY <2>2, <2>3 DEF Covered
<1>15. KeyInv(c2, s, A2, Q2, R, T)
  BY <1>7, <1>8, <1>9, <1>12, <1>13, <1>14 DEF KeyInv
<1>16. \A a \in A : MayFollow(a, e)
  BY <1>10, <1>11 DEF MayFollow
<1>17. ASSUME KeyExact(c, s, A, Q, T) PROVE KeyExact(c2, s, A2, Q2, T)
  <2>1. HasAck(A2, "Replaced", s.pendingRef)
    BY <1>2 DEF HasAck
  <2>3. \A a \in A2 : a.type \in {"Accepted", "Replaced"} => T[a.ref] + Kept(c2, a.ref) = QuoteQty
    BY <1>3, <1>6, <1>11
  <2>4. \A a \in A2 : a.type = "Executed" => a.ref = s.userRef \/ HasAck(A2, "Replaced", a.ref)
    BY <1>17 DEF KeyExact, HasAck
  <2> QED
    BY <1>2, <2>1, <2>3, <2>4 DEF KeyExact
<1>18. ASSUME KeyOrderly(s, A, Q), Q2 = {} PROVE KeyOrderly(s, A2, Q2)
  BY <1>18, <1>1 DEF KeyOrderly
<1> QED
  BY <1>15, <1>16, <1>17, <1>18

\* The order of a quote is filled: f shares, told by the answers E.
FilledBy(f, E, c, c2, A, A2, R, T, T2) ==
  /\ f \in Nat /\ f <= c.qty /\ c2 = Take(c, f)
  /\ E \in SUBSET Answers /\ \A e \in E : e.type = "Executed" /\ e.qty > 0 /\ Holds(c, e.ref)
  /\ A2 = A \cup E
  /\ T2 \in [R -> Nat] /\ \A r \in R : T2[r] = T[r] + (IF Holds(c, r) THEN f ELSE 0)

\* A fill of the resting order, with its Executed answer queued last, keeps the invariant of
\* the quote.
LEMMA OrderFilled ==
  ASSUME NEW c, NEW s, NEW A, NEW Q, NEW R, NEW T, KeyInv(c, s, A, Q, R, T),
         NEW f, NEW E, NEW c2, NEW A2, NEW T2, FilledBy(f, E, c, c2, A, A2, R, T, T2)
  PROVE  /\ KeyInv(c2, s, A2, Q, R, T2)
         /\ \A a \in A, e \in E : MayFollow(a, e)
         /\ \A d \in E, e \in E : MayFollow(d, e)
         /\ KeyExact(c, s, A, Q, T) => KeyExact(c2, s, A2, Q, T2)
         /\ KeyOrderly(s, A, Q) => KeyOrderly(s, A2, Q)
<1>0. /\ f \in Nat /\ f <= c.qty /\ c2 = Take(c, f)
      /\ E \in SUBSET Answers /\ (\A e \in E : e.type = "Executed" /\ e.qty > 0 /\ Holds(c, e.ref))
      /\ A2 = A \cup E
      /\ T2 \in [R -> Nat] /\ \A r \in R : T2[r] = T[r] + (IF Holds(c, r) THEN f ELSE 0)
  BY DEF FilledBy
<1> USE <1>0
<1>1. /\ KeyTyped(c, s, A, Q, R, T) /\ ViewOK(c, s, R) /\ Covered(c, s, R, T) /\ Apart(A, Q)
      /\ \A n \in Q : AskOK(c, s, n, R)
      /\ \A a \in A : AckOK(c, s, a, A)
      /\ R \subseteq Nat \ {0} /\ \A r \in R : T[r] \in Nat
      /\ c.qty \in Nat /\ c.id \in Nat /\ c.price \in Nat /\ c \in Views
  BY KeyInvParts DEF KeyTyped
<1>2. /\ c2 \in Views /\ c2.qty = c.qty - f /\ c2.qty \in Nat
      /\ c2.qty > 0 => c.qty > 0 /\ c2.id = c.id /\ c2.price = c.price
      /\ c2.qty = 0 => c2 = NoOrder
  <2>1. CASE f = c.qty
    BY <2>1, <1>1 DEF Take, NoOrder, Views
  <2>2. CASE f # c.qty
    BY <2>2, <1>1 DEF Take, NoOrder, Views
  <2> QED
    BY <2>1, <2>2
<1>3. \A r : Holds(c2, r) => Holds(c, r)
  BY <1>2 DEF Holds
<1>4. ASSUME NEW r \in R PROVE T2[r] + Kept(c2, r) = T[r] + Kept(c, r)
  <2>1. CASE Holds(c, r)
    <3>1. Kept(c, r) = c.qty /\ Kept(c2, r) = c.qty - f
      BY <2>1, <1>1, <1>2 DEF Kept, Holds
    <3>2. T2[r] = T[r] + f /\ T[r] \in Nat
      BY <2>1, <1>1
    <3> QED
      BY <3>1, <3>2, <1>1
  <2>2. CASE ~Holds(c, r)
    BY <2>2, <1>1, <1>3 DEF Kept
  <2> QED
    BY <2>1, <2>2
<1>5. \A e \in E : e.ref = c.id /\ c.qty > 0 /\ e.ref \in R
  BY <1>1 DEF Holds, ViewOK
<1>6. KeyTyped(c2, s, A2, Q, R, T2)
  BY <1>1, <1>2, <1>5 DEF KeyTyped
<1>7. ViewOK(c2, s, R)
  BY <1>1, <1>2 DEF ViewOK
<1>8. \A n \in Q : AskOK(c2, s, n, R)
  BY <1>1, <1>3 DEF AskOK
<1>9. \A a \in A2 : AckOK(c2, s, a, A2)
  <2>1. ASSUME NEW a \in A PROVE AckOK(c2, s, a, A2)
    <3>1. AckOK(c, s, a, A)
      BY <1>1
    <3>2. Holds(c2, a.ref) => c2.price = c.price
      BY <1>2 DEF Holds
    <3> QED
      BY <3>1, <3>2, <1>3 DEF AckOK
  <2>2. \A a \in E : AckOK(c2, s, a, A2)
    BY DEF AckOK
  <2> QED
    BY <2>1, <2>2
<1>10. Apart(A2, Q)
  BY <1>1 DEF Apart, AskOK
<1>11. Covered(c2, s, R, T2)
  <2>1. s.state # "Idle" => s.userRef \in R
    BY <1>1 DEF KeyTyped, Good
  <2> QED
    BY <1>1, <1>4, <2>1 DEF Covered
<1>12. KeyInv(c2, s, A2, Q, R, T2)
  BY <1>6, <1>7, <1>8, <1>9, <1>10, <1>11 DEF KeyInv
<1>13. \A a \in A, e \in E : MayFollow(a, e)
  <2>1. SUFFICES ASSUME NEW a \in A, NEW e \in E PROVE MayFollow(a, e)
    OBVIOUS
  <2>2. AckOK(c, s, a, A) /\ Holds(c, e.ref) /\ e.ref = c.id /\ e.type = "Executed"
    BY <1>1, <1>5
  <2>3. c.id = s.userRef \/ c.id = s.pendingRef
    BY <1>1, <1>5 DEF ViewOK
  <2> QED
    BY <2>2, <2>3 DEF MayFollow, AckOK
<1>14. \A d \in E, e \in E : MayFollow(d, e)
  BY DEF MayFollow
<1>15. ASSUME KeyExact(c, s, A, Q, T) PROVE KeyExact(c2, s, A2, Q, T2)
  <2>1. \A y, r : HasAck(A, y, r) => HasAck(A2, y, r)
    BY DEF HasAck
  <2>2. s.state # "Idle" => s.userRef \in R /\ T2[s.userRef] + Kept(c2, s.userRef) = T[s.userRef] + Kept(c, s.userRef)
    BY <1>1, <1>4 DEF KeyTyped, Good
  <2>3. \A a \in A2 : a.type \in {"Accepted", "Replaced"} => T2[a.ref] + Kept(c2, a.ref) = QuoteQty
    BY <1>15, <1>4, <1>1 DEF KeyExact, KeyTyped
  <2>4. \A a \in A2 : a.type = "Executed" => a.ref = s.userRef \/ HasAck(A2, "Replaced", a.ref)
    <3>1. \A a \in E : Holds(c, s.pendingRef) \/ a.ref = s.userRef
      BY <1>1, <1>5 DEF ViewOK, Holds
    <3>2. Holds(c, s.pendingRef) => HasAck(A2, "Replaced", s.pendingRef)
      BY <1>15, <2>1 DEF KeyExact
    <3>3. \A a \in E : a.ref = s.userRef \/ HasAck(A2, "Replaced", a.ref)
      BY <3>1, <3>2, <1>5 DEF Holds
    <3> QED
      BY <3>3, <1>15, <2>1 DEF KeyExact
  <2>5. Holds(c2, s.pendingRef) => HasAck(A2, "Replaced", s.pendingRef)
    BY <1>15, <2>1, <1>3 DEF KeyExact
  <2> QED
    BY <1>15, <2>1, <2>2, <2>3, <2>4, <2>5 DEF KeyExact
<1>16. ASSUME KeyOrderly(s, A, Q) PROVE KeyOrderly(s, A2, Q)
  BY <1>16 DEF KeyOrderly
<1> QED
  BY <1>12, <1>13, <1>14, <1>15, <1>16

\* The order of a quote is cancelled, by the request m or at the end of the day,
\* which e tells.
CanceledBy(m, e, c, A, A2, Q, Q2, R, T, T2) ==
  /\ c.qty > 0 /\ Q2 \subseteq Q /\ Q \subseteq Q2 \cup {m}
  /\ m.type = "CancelOrder" /\ m.ref = c.id
  /\ e \in Answers /\ e.type = "Canceled" /\ e.ref = c.id /\ e.qty = c.qty
  /\ A2 = A \cup {e}
  /\ T2 \in [R -> Nat] /\ \A r \in R : T2[r] = T[r] + Kept(c, r)

\* A cancel that finds the order, with its Canceled answer queued last, keeps the invariant of
\* the quote.
LEMMA OrderCanceled ==
  ASSUME NEW c, NEW s, NEW A, NEW Q, NEW R, NEW T, KeyInv(c, s, A, Q, R, T),
         NEW m, NEW e, NEW A2, NEW Q2, NEW T2, CanceledBy(m, e, c, A, A2, Q, Q2, R, T, T2)
  PROVE  /\ KeyInv(NoOrder, s, A2, Q2, R, T2)
         /\ \A a \in A : MayFollow(a, e)
         /\ KeyExact(c, s, A, Q, T) => KeyExact(NoOrder, s, A2, Q2, T2)
         /\ KeyOrderly(s, A, Q) /\ m \in Q /\ Q2 = {} => KeyOrderly(s, A2, Q2)
<1>0. /\ c.qty > 0 /\ Q2 \subseteq Q /\ Q \subseteq Q2 \cup {m}
      /\ m.type = "CancelOrder" /\ m.ref = c.id
      /\ e \in Answers /\ e.type = "Canceled" /\ e.ref = c.id /\ e.qty = c.qty
      /\ A2 = A \cup {e}
      /\ T2 \in [R -> Nat] /\ \A r \in R : T2[r] = T[r] + Kept(c, r)
  BY DEF CanceledBy
<1> USE <1>0
<1>1. /\ KeyTyped(c, s, A, Q, R, T) /\ ViewOK(c, s, R) /\ Covered(c, s, R, T) /\ Apart(A, Q)
      /\ \A n \in Q : AskOK(c, s, n, R)
      /\ \A a \in A : AckOK(c, s, a, A)
      /\ R \subseteq Nat \ {0} /\ \A r \in R : T[r] \in Nat
      /\ c.qty \in Nat /\ c.id \in R
  BY KeyInvParts DEF KeyTyped, ViewOK
<1>2. Holds(c, c.id)
  BY DEF Holds
<1>3. \A r : ~Holds(NoOrder, r) /\ Kept(NoOrder, r) = 0
  BY DEF Holds, NoOrder, Kept
<1>4. ASSUME NEW r \in R PROVE T2[r] + Kept(NoOrder, r) = T[r] + Kept(c, r)
  BY <1>1, <1>3
<1>6. KeyTyped(NoOrder, s, A2, Q2, R, T2)
  BY <1>1 DEF KeyTyped, NoOrder, Views
<1>7. ViewOK(NoOrder, s, R)
  BY DEF ViewOK, NoOrder
<1>8. \A n \in Q2 : AskOK(NoOrder, s, n, R)
  BY <1>1, <1>3 DEF AskOK
<1>9. \A a \in A2 : AckOK(NoOrder, s, a, A2)
  <2>1. ASSUME NEW a \in A PROVE AckOK(NoOrder, s, a, A2)
    <3>1. AckOK(c, s, a, A)
      BY <1>1
    <3> QED
      BY <3>1, <1>3 DEF AckOK
  <2>2. AckOK(NoOrder, s, e, A2)
    <3>1. e.ref = s.userRef => \A b \in A2 : b.type # "Replaced"
      BY <1>1, <1>2 DEF AckOK
    <3> QED
      BY <3>1, <1>3 DEF AckOK
  <2> QED
    BY <2>1, <2>2
<1>10. Apart(A2, Q2)
  BY <1>1, <1>2 DEF Apart, AskOK
<1>11. Covered(NoOrder, s, R, T2)
  <2>1. s.state # "Idle" => s.userRef \in R
    BY <1>1 DEF KeyTyped, Good
  <2> QED
    BY <1>1, <1>4, <2>1 DEF Covered
<1>12. KeyInv(NoOrder, s, A2, Q2, R, T2)
  BY <1>6, <1>7, <1>8, <1>9, <1>10, <1>11 DEF KeyInv
<1>13. \A a \in A : MayFollow(a, e)
  BY <1>1, <1>2 DEF MayFollow, AckOK
<1>15. ASSUME KeyExact(c, s, A, Q, T) PROVE KeyExact(NoOrder, s, A2, Q2, T2)
  <2>1. /\ \A y, r : HasAck(A, y, r) => HasAck(A2, y, r)
        /\ \A y, r : HasAsk(Q, y, r) => HasAsk(Q2, y, r) \/ (y = "CancelOrder" /\ r = c.id)
        /\ HasAck(A2, "Canceled", c.id)
    BY DEF HasAck, HasAsk
  <2>2. s.state # "Idle" => s.userRef \in R /\ T2[s.userRef] + Kept(NoOrder, s.userRef) = T[s.userRef] + Kept(c, s.userRef)
    BY <1>1, <1>4 DEF KeyTyped, Good
  <2>3. \A a \in A2 : a.type \in {"Accepted", "Replaced"} => T2[a.ref] + Kept(NoOrder, a.ref) = QuoteQty
    BY <1>15, <1>4, <1>1 DEF KeyExact, KeyTyped
  <2>4. \A a \in A2 : a.type = "Executed" => a.ref = s.userRef \/ HasAck(A2, "Replaced", a.ref)
    BY <1>15, <2>1 DEF KeyExact
  <2>5. ~Holds(NoOrder, s.pendingRef)
    BY <1>3
  <2> QED
    BY <1>15, <2>1, <2>2, <2>3, <2>4, <2>5 DEF KeyExact
<1>16. ASSUME KeyOrderly(s, A, Q), m \in Q, Q2 = {} PROVE KeyOrderly(s, A2, Q2)
  BY <1>16 DEF KeyOrderly
<1> QED
  BY <1>12, <1>13, <1>15, <1>16

\* Answers lost or not recognised.
LEMMA AnswersGone ==
  ASSUME NEW c, NEW s, NEW A, NEW Q, NEW R, NEW T, KeyInv(c, s, A, Q, R, T),
         NEW A2, A2 \subseteq A, NEW T2 \in [R -> Nat], \A r \in R : T2[r] <= T[r]
  PROVE  KeyInv(c, s, A2, Q, R, T2)
<1>1. /\ KeyTyped(c, s, A, Q, R, T) /\ ViewOK(c, s, R) /\ Covered(c, s, R, T) /\ Apart(A, Q)
      /\ \A n \in Q : AskOK(c, s, n, R)
      /\ \A a \in A : AckOK(c, s, a, A)
      /\ R \subseteq Nat \ {0} /\ \A r \in R : T[r] \in Nat
      /\ c.qty \in Nat
  BY KeyInvParts DEF KeyTyped
<1>2. KeyTyped(c, s, A2, Q, R, T2) /\ Apart(A2, Q)
  BY <1>1 DEF KeyTyped, Apart
<1>3. \A a \in A2 : AckOK(c, s, a, A2)
  BY <1>1 DEF AckOK
<1>4. Covered(c, s, R, T2)
  <2>1. s.leaves \in Nat /\ (s.state # "Idle" => s.userRef \in R)
    BY <1>1 DEF KeyTyped, Good, Slot
  <2>2. \A r : Kept(c, r) \in Nat
    BY <1>1 DEF Kept
  <2>3. ASSUME NEW r \in R, NEW n \in Nat, T[r] + Kept(c, r) <= n PROVE T2[r] + Kept(c, r) <= n
    <3>1. T[r] \in Nat /\ T2[r] \in Nat /\ T2[r] <= T[r] /\ Kept(c, r) \in Nat
      BY <1>1, <2>2
    <3> QED
      BY <3>1, <2>3
  <2> QED
    BY <1>1, <2>1, <2>3, QuoteQtyAssumption DEF Covered
<1> QED
  BY <1>1, <1>2, <1>3, <1>4 DEF KeyInv

\* The answer a has left the front of the answers.
Heard(a, A, A2, R, T, T2) ==
  /\ a \in A /\ A2 \subseteq A /\ A \subseteq A2 \cup {a}
  /\ \A b \in A2 : MayFollow(a, b)
  /\ T2 \in [R -> Nat]
  /\ \A r \in R : T2[r] = T[r] - (IF a.ref = r /\ a.type \in {"Executed", "Canceled"} THEN a.qty ELSE 0)
  /\ \A b \in A2 : b.type \in {"Executed", "Canceled"} => b.qty <= T2[b.ref]

\* A slot that is freed, nothing of it being left at the venue.
LEMMA SlotSettled ==
  ASSUME NEW c, NEW s, NEW A, NEW Q, NEW R, NEW T, KeyInv(c, s, A, Q, R, T), c.qty = 0,
         \A m \in Q : m.type # "EnterOrder",
         NEW A2, A2 \subseteq A, \A b \in A2 : b.type \notin {"Accepted", "Replaced"},
         NEW T2 \in [R -> Nat], \A r \in R : T2[r] <= T[r]
  PROVE  /\ KeyInv(c, Settled, A2, Q, R, T2)
         /\ (\A b \in A2 : b.type # "Executed") => KeyExact(c, Settled, A2, Q, T2)
<1> DEFINE z == Settled
<1>1. /\ KeyTyped(c, s, A, Q, R, T) /\ ViewOK(c, s, R) /\ Covered(c, s, R, T) /\ Apart(A, Q)
      /\ \A n \in Q : AskOK(c, s, n, R)
      /\ \A a \in A : AckOK(c, s, a, A)
      /\ R \subseteq Nat \ {0} /\ \A r \in R : T[r] \in Nat
      /\ c.qty \in Nat
  BY KeyInvParts DEF KeyTyped
<1>2. z = Settled /\ z.state = "Idle" /\ z.userRef = 0 /\ z.pendingRef = 0 /\ z \in Slot
  BY DEF Settled, Slot, States
<1> HIDE DEF z
<1>3. \A r : ~Holds(c, r) /\ Kept(c, r) = 0
  BY DEF Holds, Kept
<1>4. Good(z, R)
  BY <1>2 DEF Good
<1>5. KeyTyped(c, z, A2, Q, R, T2) /\ Apart(A2, Q)
  BY <1>1, <1>4 DEF KeyTyped, Apart
<1>6. ViewOK(c, z, R)
  BY <1>1, <1>2 DEF ViewOK
<1>7. \A n \in Q : AskOK(c, z, n, R)
  BY <1>1, <1>2, <1>3 DEF AskOK, KeyTyped
<1>8. \A a \in A2 : AckOK(c, z, a, A2)
  <2>1. \A a \in A2 : a.ref # 0
    BY <1>1 DEF KeyTyped
  <2> QED
    BY <1>1, <1>2, <1>3, <2>1 DEF AckOK
<1>9. Covered(c, z, R, T2)
  <2>1. ASSUME NEW r \in R PROVE T2[r] + Kept(c, r) <= QuoteQty
    <3>1. T[r] + Kept(c, r) <= QuoteQty /\ T[r] \in Nat /\ T2[r] \in Nat /\ T2[r] <= T[r] /\ Kept(c, r) = 0
      BY <1>1, <1>3 DEF Covered
    <3> QED
      BY <3>1, QuoteQtyAssumption
  <2> QED
    BY <2>1, <1>2 DEF Covered
<1>10. KeyInv(c, z, A2, Q, R, T2)
  BY <1>5, <1>6, <1>7, <1>8, <1>9 DEF KeyInv
<1>11. ASSUME \A b \in A2 : b.type # "Executed" PROVE KeyExact(c, z, A2, Q, T2)
  BY <1>2, <1>3, <1>11 DEF KeyExact
<1> QED
  BY <1>10, <1>11, <1>2

\* Accepted, for a slot that waits for it.
LEMMA AcceptedHeard ==
  ASSUME NEW c, NEW s, NEW A, NEW Q, NEW R, NEW T, KeyInv(c, s, A, Q, R, T),
         NEW a, a.type = "Accepted", NEW A2, NEW T2, Heard(a, A, A2, R, T, T2),
         NEW s2, s2 = [s EXCEPT !.state = "Live", !.leaves = a.qty]
  PROVE  /\ KeyInv(c, s2, A2, Q, R, T2)
         /\ KeyExact(c, s, A, Q, T) => KeyExact(c, s2, A2, Q, T2)
         /\ KeyOrderly(s, A, Q) => KeyOrderly(s2, A2, Q)
<1>1. /\ KeyTyped(c, s, A, Q, R, T) /\ ViewOK(c, s, R) /\ Covered(c, s, R, T) /\ Apart(A, Q)
      /\ \A n \in Q : AskOK(c, s, n, R)
      /\ \A b \in A : AckOK(c, s, b, A)
      /\ R \subseteq Nat \ {0} /\ \A r \in R : T[r] \in Nat
      /\ c.qty \in Nat /\ s \in Slot
      /\ a \in A /\ A2 \subseteq A /\ A \subseteq A2 \cup {a}
  BY KeyInvParts DEF KeyTyped, Heard
<1>2. s.state = "PendingNew" /\ s.userRef = a.ref /\ a.qty = QuoteQty /\ QuoteQty \in Nat \ {0}
  BY <1>1, QuoteQtyAssumption DEF AckOK
<1>3. /\ s2.state = "Live" /\ s2.userRef = s.userRef /\ s2.pendingRef = s.pendingRef
      /\ s2.price = s.price /\ s2.leaves = QuoteQty /\ s2 \in Slot
  BY <1>1, <1>2 DEF Slot, States
<1>4. s.pendingRef = 0 /\ s.userRef \in R
  BY <1>1, <1>2 DEF KeyTyped, Good
<1>5. T2 = T
  <2>1. T2 \in [R -> Nat] /\ T \in [R -> Nat] /\ \A r \in R : T2[r] = T[r]
    BY <1>1 DEF Heard, KeyTyped
  <2> QED
    BY <2>1
<1>6. \A n \in Q : n.type # "EnterOrder"
  BY <1>1, <1>2 DEF AskOK, Apart, New
<1>7. \A b \in A2 : b.type \notin {"Accepted", "Replaced"} /\ (b.type = "Rejected" => b.ref # s.userRef)
  BY <1>1, <1>2 DEF AckOK, Heard, MayFollow
<1>8. KeyTyped(c, s2, A2, Q, R, T) /\ Apart(A2, Q)
  BY <1>1, <1>2, <1>3, <1>4 DEF KeyTyped, Good, Apart
<1>9. ViewOK(c, s2, R)
  BY <1>1, <1>3 DEF ViewOK
<1>10. \A n \in Q : AskOK(c, s2, n, R)
  BY <1>1, <1>2, <1>3, <1>6 DEF AskOK
<1>11. \A b \in A2 : AckOK(c, s2, b, A2)
  BY <1>1, <1>3, <1>7 DEF AckOK
<1>12. Covered(c, s2, R, T)
  BY <1>1, <1>3, <1>4 DEF Covered
<1>13. KeyInv(c, s2, A2, Q, R, T2)
  BY <1>5, <1>8, <1>9, <1>10, <1>11, <1>12 DEF KeyInv
<1>14. ASSUME KeyExact(c, s, A, Q, T) PROVE KeyExact(c, s2, A2, Q, T)
  <2>1. T[s.userRef] + Kept(c, s.userRef) = QuoteQty
    BY <1>1, <1>2, <1>14 DEF KeyExact
  <2>2. \A b \in A : b.type # "Replaced"
    BY <1>1, <1>2 DEF AckOK
  <2>3. \A b \in A2 : b.type = "Executed" => b.ref = s2.userRef
    BY <1>14, <2>2, <1>1, <1>3 DEF KeyExact, HasAck
  <2>4. ~Holds(c, s2.pendingRef)
    BY <1>1, <1>3, <1>4 DEF ViewOK, Holds
  <2> QED
    BY <1>3, <1>7, <2>1, <2>3, <2>4 DEF KeyExact
<1>15. ASSUME KeyOrderly(s, A, Q) PROVE KeyOrderly(s2, A2, Q)
  <2>1. Q = {}
    BY <1>15, <1>1 DEF KeyOrderly
  <2>2. \A b \in A2 : b.type \notin {"Rejected", "Canceled", "CancelReject"}
    BY <1>15, <1>1, <1>2, <1>7 DEF KeyOrderly
  <2> QED
    BY <2>1, <2>2 DEF KeyOrderly
<1> QED
  BY <1>5, <1>13, <1>14, <1>15

\* Replaced, for the slot that waits for it.
LEMMA ReplacedHeard ==
  ASSUME NEW c, NEW s, NEW A, NEW Q, NEW R, NEW T, KeyInv(c, s, A, Q, R, T),
         NEW a, a.type = "Replaced", NEW A2, NEW T2, Heard(a, A, A2, R, T, T2),
         NEW s2, s2 = [state |-> "Live", userRef |-> a.ref, pendingRef |-> 0,
                       price |-> a.price, leaves |-> a.qty]
  PROVE  /\ KeyInv(c, s2, A2, Q, R, T2)
         /\ KeyExact(c, s, A, Q, T) => KeyExact(c, s2, A2, Q, T2)
         /\ KeyOrderly(s, A, Q) => KeyOrderly(s2, A2, Q)
<1>1. /\ KeyTyped(c, s, A, Q, R, T) /\ ViewOK(c, s, R) /\ Covered(c, s, R, T) /\ Apart(A, Q)
      /\ \A n \in Q : AskOK(c, s, n, R)
      /\ \A b \in A : AckOK(c, s, b, A)
      /\ R \subseteq Nat \ {0} /\ \A r \in R : T[r] \in Nat
      /\ c.qty \in Nat /\ s \in Slot
      /\ a \in A /\ A2 \subseteq A /\ A \subseteq A2 \cup {a}
  BY KeyInvParts DEF KeyTyped, Heard
<1>2. /\ s.state = "PendingReplace" /\ s.pendingRef = a.ref /\ a.qty = QuoteQty /\ QuoteQty \in Nat \ {0}
      /\ ~Holds(c, s.userRef) /\ (Holds(c, a.ref) => c.price = a.price)
      /\ a.ref \in R /\ a.ref \in Nat \ {0} /\ a.price \in Nat
  BY <1>1, QuoteQtyAssumption DEF AckOK, KeyTyped, Answers
<1>3. /\ s2.state = "Live" /\ s2.userRef = a.ref /\ s2.pendingRef = 0
      /\ s2.price = a.price /\ s2.leaves = QuoteQty /\ s2 \in Slot
  BY <1>1, <1>2 DEF Slot, States
<1>5. T2 = T
  <2>1. T2 \in [R -> Nat] /\ T \in [R -> Nat] /\ \A r \in R : T2[r] = T[r]
    BY <1>1 DEF Heard, KeyTyped
  <2> QED
    BY <2>1
<1>6. \A n \in Q : n.type # "EnterOrder" /\ (n.type = "ReplaceOrder" => n.ref # a.ref /\ ~Holds(c, n.orig))
  BY <1>1, <1>2 DEF AskOK, Apart, New
<1>7. \A b \in A2 : b.type \notin {"Accepted", "Replaced"} /\ (b.type = "Rejected" => b.ref # a.ref)
                    /\ (b.type = "Executed" => b.ref = a.ref)
  BY <1>1, <1>2 DEF AckOK, Heard, MayFollow
<1>8. KeyTyped(c, s2, A2, Q, R, T) /\ Apart(A2, Q)
  BY <1>1, <1>2, <1>3 DEF KeyTyped, Good, Apart
<1>9. ViewOK(c, s2, R)
  BY <1>1, <1>2, <1>3 DEF ViewOK, Holds
<1>10. \A n \in Q : AskOK(c, s2, n, R)
  BY <1>1, <1>2, <1>3, <1>6 DEF AskOK
<1>11. \A b \in A2 : AckOK(c, s2, b, A2)
  BY <1>1, <1>3, <1>7 DEF AckOK
<1>12. Covered(c, s2, R, T)
  BY <1>1, <1>2, <1>3 DEF Covered
<1>13. KeyInv(c, s2, A2, Q, R, T2)
  BY <1>5, <1>8, <1>9, <1>10, <1>11, <1>12 DEF KeyInv
<1>14. ASSUME KeyExact(c, s, A, Q, T) PROVE KeyExact(c, s2, A2, Q, T)
  <2>1. T[a.ref] + Kept(c, a.ref) = QuoteQty
    BY <1>1, <1>2, <1>14 DEF KeyExact
  <2>4. ~Holds(c, s2.pendingRef)
    BY <1>1, <1>3 DEF ViewOK, Holds
  <2> QED
    BY <1>3, <1>7, <2>1, <2>4 DEF KeyExact
<1>15. ASSUME KeyOrderly(s, A, Q) PROVE KeyOrderly(s2, A2, Q)
  <2>1. Q = {}
    BY <1>15, <1>1 DEF KeyOrderly
  <2>2. \A b \in A2 : b.type \notin {"Rejected", "Canceled", "CancelReject"}
    BY <1>15, <1>1, <1>2, <1>7 DEF KeyOrderly
  <2> QED
    BY <2>1, <2>2 DEF KeyOrderly
<1> QED
  BY <1>5, <1>13, <1>14, <1>15

\* The slot less the shares of an answer.
Lessened(s, qty) == [s EXCEPT !.leaves = Less(@, qty)]

\* What an Executed or a Canceled takes from the slot that works its order is
\* there to be taken.
LEMMA SharesTaken ==
  ASSUME NEW c, NEW s, NEW A, NEW Q, NEW R, NEW T, KeyInv(c, s, A, Q, R, T),
         NEW a, a.type \in {"Executed", "Canceled"}, NEW A2, NEW T2, Heard(a, A, A2, R, T, T2),
         s.state # "Idle", s.userRef = a.ref,
         NEW sx, sx = Lessened(s, a.qty)
  PROVE  /\ sx \in Slot /\ sx.state = s.state /\ sx.userRef = s.userRef
         /\ sx.pendingRef = s.pendingRef /\ sx.price = s.price
         /\ sx.leaves = s.leaves - a.qty /\ sx.leaves \in Nat
         /\ T2[a.ref] = T[a.ref] - a.qty
         /\ T2[a.ref] + Kept(c, a.ref) <= sx.leaves
         /\ \A r \in R : T2[r] <= T[r]
         /\ \A r \in R : r # a.ref => T2[r] = T[r]
         /\ a.qty \in Nat /\ a.qty > 0 /\ a.ref \in R /\ Kept(c, a.ref) \in Nat
         /\ \A n \in Q : n.type # "EnterOrder"
         /\ \A b \in A2 : b.type \in {"Accepted", "Replaced", "Rejected"} => b.ref # a.ref
         /\ \A b \in A : b.type \in {"Accepted", "Replaced", "Rejected"} => b \in A2
<1>1. /\ KeyTyped(c, s, A, Q, R, T) /\ Covered(c, s, R, T) /\ Apart(A, Q)
      /\ \A n \in Q : AskOK(c, s, n, R)
      /\ \A b \in A : AckOK(c, s, b, A)
      /\ R \subseteq Nat \ {0} /\ \A r \in R : T[r] \in Nat
      /\ c.qty \in Nat /\ s \in Slot /\ s.leaves \in Nat
      /\ a \in A /\ A2 \subseteq A /\ A \subseteq A2 \cup {a}
      /\ \A r \in R : T2[r] \in Nat
      /\ a.ref \in R /\ a.qty \in Nat
  BY KeyInvParts DEF KeyTyped, Heard
<1>2. a.qty > 0 /\ Kept(c, a.ref) \in Nat
  BY <1>1 DEF AckOK, Kept
<1>3. T2[a.ref] = T[a.ref] - a.qty /\ T2[a.ref] \in Nat /\ T[a.ref] \in Nat
  BY <1>1 DEF Heard
<1>4. T[a.ref] + Kept(c, a.ref) <= s.leaves
  BY <1>1 DEF Covered
<1>5. a.qty <= s.leaves
  BY <1>1, <1>2, <1>3, <1>4
<1>6. Less(s.leaves, a.qty) = s.leaves - a.qty
  BY <1>1, <1>5 DEF Less
<1>7. /\ sx.state = s.state /\ sx.userRef = s.userRef
      /\ sx.pendingRef = s.pendingRef /\ sx.price = s.price /\ sx.leaves = Less(s.leaves, a.qty)
  BY <1>1 DEF Slot, Lessened
<1>8. sx.leaves = s.leaves - a.qty /\ sx.leaves \in Nat
  BY <1>1, <1>5, <1>6, <1>7
<1>9. sx \in Slot
  BY <1>1, <1>7, <1>8 DEF Slot, Lessened
<1>10. \A r \in R : T2[r] <= T[r]
  BY <1>1, <1>3 DEF Heard
<1>11. \A r \in R : r # a.ref => T2[r] = T[r]
  BY <1>1 DEF Heard
<1>12. \A n \in Q : n.type # "EnterOrder"
  BY <1>1 DEF AskOK, Apart, New
<1>13. \A b \in A2 : b.type \in {"Accepted", "Replaced", "Rejected"} => b.ref # a.ref
  BY DEF Heard, MayFollow
<1>14. \A b \in A : b.type \in {"Accepted", "Replaced", "Rejected"} => b \in A2
  BY <1>1
<1>15. T2[a.ref] + Kept(c, a.ref) <= sx.leaves
  BY <1>1, <1>2, <1>3, <1>4, <1>8
<1> QED
  BY <1>1, <1>2, <1>3, <1>7, <1>8, <1>9, <1>10, <1>11, <1>12, <1>13, <1>14, <1>15

\* Executed or Canceled, when the slot keeps its state.
LEMMA SharesHeard ==
  ASSUME NEW c, NEW s, NEW A, NEW Q, NEW R, NEW T, KeyInv(c, s, A, Q, R, T),
         NEW a, a.type \in {"Executed", "Canceled"}, NEW A2, NEW T2, Heard(a, A, A2, R, T, T2),
         s.state # "Idle", s.userRef = a.ref,
         NEW sx, sx = Lessened(s, a.qty), sx.leaves = 0 => s.state # "Live",
         a.type = "Canceled" => s.state # "PendingCancel"
  PROVE  /\ KeyInv(c, sx, A2, Q, R, T2)
         /\ KeyExact(c, s, A, Q, T) => KeyExact(c, sx, A2, Q, T2)
         /\ KeyOrderly(s, A, Q) => KeyOrderly(sx, A2, Q)
<1>1. /\ KeyTyped(c, s, A, Q, R, T) /\ ViewOK(c, s, R) /\ Covered(c, s, R, T) /\ Apart(A, Q)
      /\ \A n \in Q : AskOK(c, s, n, R)
      /\ \A b \in A : AckOK(c, s, b, A)
      /\ a \in A /\ A2 \subseteq A /\ A \subseteq A2 \cup {a}
      /\ R \subseteq Nat \ {0} /\ \A r \in R : T[r] \in Nat /\ T2[r] \in Nat
      /\ c.qty \in Nat /\ T2 \in [R -> Nat] /\ s.leaves \in Nat
  BY KeyInvParts DEF KeyTyped, Heard
<1>2. /\ sx \in Slot /\ sx.state = s.state /\ sx.userRef = s.userRef
      /\ sx.pendingRef = s.pendingRef /\ sx.price = s.price
      /\ sx.leaves = s.leaves - a.qty /\ sx.leaves \in Nat
      /\ T2[a.ref] = T[a.ref] - a.qty
      /\ T2[a.ref] + Kept(c, a.ref) <= sx.leaves
      /\ \A r \in R : T2[r] <= T[r]
      /\ \A r \in R : r # a.ref => T2[r] = T[r]
      /\ a.qty \in Nat /\ a.qty > 0 /\ a.ref \in R /\ Kept(c, a.ref) \in Nat
      /\ \A n \in Q : n.type # "EnterOrder"
      /\ \A b \in A2 : b.type \in {"Accepted", "Replaced", "Rejected"} => b.ref # a.ref
      /\ \A b \in A : b.type \in {"Accepted", "Replaced", "Rejected"} => b \in A2
  BY SharesTaken
<1>3. KeyTyped(c, sx, A2, Q, R, T2) /\ Apart(A2, Q)
  BY <1>1, <1>2 DEF KeyTyped, Good, Apart
<1>4. ViewOK(c, sx, R)
  BY <1>1, <1>2 DEF ViewOK
<1>5. \A n \in Q : AskOK(c, sx, n, R)
  BY <1>1, <1>2 DEF AskOK
<1>6. \A b \in A2 : AckOK(c, sx, b, A2)
  BY <1>1, <1>2 DEF AckOK
<1>7. Covered(c, sx, R, T2)
  <2>1. ASSUME NEW r \in R PROVE T2[r] + Kept(c, r) <= QuoteQty
    <3>1. T[r] + Kept(c, r) <= QuoteQty /\ T[r] \in Nat /\ T2[r] \in Nat /\ T2[r] <= T[r] /\ Kept(c, r) \in Nat
      BY <1>1, <1>2 DEF Covered, Kept
    <3> QED
      BY <3>1, QuoteQtyAssumption
  <2> QED
    BY <2>1, <1>2 DEF Covered
<1>8. KeyInv(c, sx, A2, Q, R, T2)
  BY <1>3, <1>4, <1>5, <1>6, <1>7 DEF KeyInv
<1>9. ASSUME KeyExact(c, s, A, Q, T) PROVE KeyExact(c, sx, A2, Q, T2)
  <2>1. /\ ~HasAsk(Q, "EnterOrder", s.userRef)
        /\ ~HasAck(A, "Rejected", s.userRef)
        /\ \A y, r : y \in {"Accepted", "Replaced", "Rejected"} /\ HasAck(A, y, r) => HasAck(A2, y, r)
        /\ \A r : HasAck(A, "CancelReject", r) => HasAck(A2, "CancelReject", r)
        /\ \A r : a.type = "Executed" /\ HasAck(A, "Canceled", r) => HasAck(A2, "Canceled", r)
    BY <1>1, <1>2 DEF HasAsk, HasAck
  <2>2. s.leaves = T[s.userRef] + Kept(c, s.userRef) => sx.leaves = T2[sx.userRef] + Kept(c, sx.userRef)
    <3>1. sx.userRef = a.ref /\ T[a.ref] \in Nat
      BY <1>1, <1>2
    <3>2. s.leaves = T[a.ref] + Kept(c, a.ref) => sx.leaves = T2[a.ref] + Kept(c, a.ref)
      BY <3>1, <1>1, <1>2
    <3> QED
      BY <3>1, <3>2
  <2>3. \A b \in A2 : b.type \in {"Accepted", "Replaced"} => T2[b.ref] + Kept(c, b.ref) = QuoteQty
    <3>1. SUFFICES ASSUME NEW b \in A2, b.type \in {"Accepted", "Replaced"}
                   PROVE  T2[b.ref] + Kept(c, b.ref) = QuoteQty
      OBVIOUS
    <3>2. b.ref # a.ref /\ b.ref \in R /\ b \in A
      BY <3>1, <1>1, <1>2 DEF KeyTyped
    <3>3. T2[b.ref] = T[b.ref]
      BY <3>2, <1>2
    <3>4. T[b.ref] + Kept(c, b.ref) = QuoteQty
      BY <3>1, <3>2, <1>9 DEF KeyExact
    <3> QED
      BY <3>3, <3>4
  <2>4. \A b \in A2 : b.type = "Executed" => b.ref = sx.userRef \/ HasAck(A2, "Replaced", b.ref)
    BY <1>9, <1>1, <1>2, <2>1 DEF KeyExact
  <2> QED
    BY <1>9, <1>2, <2>1, <2>2, <2>3, <2>4 DEF KeyExact
<1>10. ASSUME KeyOrderly(s, A, Q) PROVE KeyOrderly(sx, A2, Q)
  BY <1>10, <1>1, <1>2 DEF KeyOrderly
<1> QED
  BY <1>8, <1>9, <1>10

\* Executed: the last shares of a live order.
LEMMA LastShares ==
  ASSUME NEW c, NEW s, NEW A, NEW Q, NEW R, NEW T, KeyInv(c, s, A, Q, R, T),
         NEW a, a.type = "Executed", NEW A2, NEW T2, Heard(a, A, A2, R, T, T2),
         s.state = "Live", s.userRef = a.ref,
         NEW sx, sx = Lessened(s, a.qty), sx.leaves = 0
  PROVE  /\ KeyInv(c, Settled, A2, Q, R, T2)
         /\ KeyExact(c, s, A, Q, T) => KeyExact(c, Settled, A2, Q, T2)
         /\ KeyOrderly(s, A, Q) => KeyOrderly(Settled, A2, Q)
<1>0. a.type \in {"Executed", "Canceled"} /\ s.state # "Idle"
  OBVIOUS
<1>1. /\ KeyTyped(c, s, A, Q, R, T) /\ ViewOK(c, s, R) /\ Covered(c, s, R, T) /\ Apart(A, Q)
      /\ \A n \in Q : AskOK(c, s, n, R)
      /\ \A b \in A : AckOK(c, s, b, A)
      /\ a \in A /\ A2 \subseteq A /\ A \subseteq A2 \cup {a}
      /\ R \subseteq Nat \ {0} /\ \A r \in R : T[r] \in Nat /\ T2[r] \in Nat
      /\ c.qty \in Nat /\ T2 \in [R -> Nat] /\ s.leaves \in Nat
      /\ \A b \in A : b.ref \in R /\ b.qty \in Nat
  BY KeyInvParts DEF KeyTyped, Heard
<1>2. /\ T2[a.ref] + Kept(c, a.ref) <= sx.leaves
      /\ \A r \in R : T2[r] <= T[r]
      /\ a.ref \in R /\ Kept(c, a.ref) \in Nat
      /\ \A n \in Q : n.type # "EnterOrder"
  BY <1>0, SharesTaken
<1>3. T2[a.ref] = 0 /\ Kept(c, a.ref) = 0
  <2>1. T2[a.ref] \in Nat /\ Kept(c, a.ref) \in Nat /\ T2[a.ref] + Kept(c, a.ref) <= 0
    BY <1>1, <1>2
  <2> QED
    BY <2>1
<1>4. s.pendingRef = 0
  BY <1>1 DEF KeyTyped, Good
<1>5. c.qty = 0
  BY <1>1, <1>3, <1>4 DEF ViewOK, Kept, Holds
<1>6. \A b \in A2 : b.type \notin {"Accepted", "Replaced"}
  BY <1>1 DEF AckOK
<1>7. /\ KeyInv(c, Settled, A2, Q, R, T2)
      /\ (\A b \in A2 : b.type # "Executed") => KeyExact(c, Settled, A2, Q, T2)
  BY <1>1, <1>2, <1>5, <1>6, SlotSettled
<1>8. ASSUME KeyExact(c, s, A, Q, T) PROVE \A b \in A2 : b.type # "Executed"
  <2>1. SUFFICES ASSUME NEW b \in A2, b.type = "Executed" PROVE FALSE
    OBVIOUS
  <2>2. b.ref = a.ref
    BY <2>1, <1>8, <1>1 DEF KeyExact, HasAck, AckOK
  <2>3. b.qty > 0 /\ b.qty <= T2[b.ref] /\ b.qty \in Nat
    BY <2>1, <1>1 DEF AckOK, Heard
  <2> QED
    BY <2>2, <2>3, <1>3
<1>9. ASSUME KeyOrderly(s, A, Q) PROVE KeyOrderly(Settled, A2, Q)
  <2>1. Q = {} /\ \A b \in A2 : b.type = "Executed"
    <3>1. \A m \in Q : m.type \in {"CancelOrder", "ReplaceOrder"}
      BY <1>1, <1>2 DEF KeyTyped, Asks
    <3>2. \A b \in A2 : b.type \in AckTypes
      BY <1>1 DEF KeyTyped, Answers
    <3> QED
      BY <3>1, <3>2, <1>1, <1>6, <1>9 DEF KeyOrderly, AckTypes
  <2> QED
    BY <2>1 DEF KeyOrderly
<1> QED
  BY <1>7, <1>8, <1>9

\* Canceled: the slot is freed, or an order whose Accepted was lost is live.
LEMMA CanceledHeard ==
  ASSUME NEW c, NEW s, NEW A, NEW Q, NEW R, NEW T, KeyInv(c, s, A, Q, R, T),
         NEW a, a.type = "Canceled", NEW A2, NEW T2, Heard(a, A, A2, R, T, T2),
         s.state # "Idle", s.userRef = a.ref,
         NEW sx, sx = Lessened(s, a.qty),
         NEW s2, s2 = IF sx.leaves = 0 \/ sx.state = "PendingCancel" THEN Settled
                      ELSE IF sx.state = "PendingNew" THEN [sx EXCEPT !.state = "Live"] ELSE sx
  PROVE  /\ KeyInv(c, s2, A2, Q, R, T2)
         /\ KeyExact(c, s, A, Q, T) => KeyExact(c, s2, A2, Q, T2)
         /\ KeyOrderly(s, A, Q) /\ (\A b \in A2 : b.type = "Executed") => KeyOrderly(s2, A2, Q)
<1>1. /\ KeyTyped(c, s, A, Q, R, T) /\ ViewOK(c, s, R) /\ Covered(c, s, R, T) /\ Apart(A, Q)
      /\ \A n \in Q : AskOK(c, s, n, R)
      /\ \A b \in A : AckOK(c, s, b, A)
      /\ a \in A /\ A2 \subseteq A /\ A \subseteq A2 \cup {a}
      /\ R \subseteq Nat \ {0} /\ \A r \in R : T[r] \in Nat /\ T2[r] \in Nat
      /\ c.qty \in Nat /\ T2 \in [R -> Nat] /\ s.leaves \in Nat
      /\ \A b \in A : b.ref \in R /\ b.qty \in Nat
  BY KeyInvParts DEF KeyTyped, Heard
<1>2. /\ sx \in Slot /\ sx.state = s.state /\ sx.userRef = s.userRef
      /\ sx.pendingRef = s.pendingRef /\ sx.price = s.price
      /\ sx.leaves = s.leaves - a.qty /\ sx.leaves \in Nat
      /\ T2[a.ref] + Kept(c, a.ref) <= sx.leaves
      /\ \A r \in R : T2[r] <= T[r]
      /\ a.ref \in R /\ Kept(c, a.ref) \in Nat
      /\ \A n \in Q : n.type # "EnterOrder"
      /\ \A b \in A2 : b.type \in {"Accepted", "Replaced", "Rejected"} => b.ref # a.ref
      /\ \A b \in A : b.type \in {"Accepted", "Replaced", "Rejected"} => b \in A2
  BY SharesTaken
<1>3. c.qty = 0
  <2>1. ~Holds(c, s.userRef) /\ (s.state = "PendingReplace" => ~Holds(c, s.pendingRef))
    BY <1>1 DEF AckOK
  <2>2. s.state # "PendingReplace" => s.pendingRef = 0
    BY <1>1 DEF KeyTyped, Good
  <2> QED
    BY <2>1, <2>2, <1>1 DEF ViewOK, Holds
<1>4. \A b \in A2 : b.type \notin {"Accepted", "Replaced"}
  BY <1>1, <1>2 DEF AckOK
<1>5. \A b \in A2 : b.type = "Executed" => b.ref # a.ref
  BY DEF Heard, MayFollow
<1>6. /\ KeyInv(c, Settled, A2, Q, R, T2)
      /\ (\A b \in A2 : b.type # "Executed") => KeyExact(c, Settled, A2, Q, T2)
  BY <1>1, <1>2, <1>3, <1>4, SlotSettled
<1>7. ASSUME KeyExact(c, s, A, Q, T) PROVE \A b \in A2 : b.type # "Executed"
  BY <1>1, <1>4, <1>5, <1>7 DEF KeyExact, HasAck
<1>8. ASSUME KeyOrderly(s, A, Q) PROVE Q = {} /\ s.state = "PendingCancel"
  BY <1>1, <1>8 DEF KeyOrderly
<1>9. CASE sx.leaves = 0 \/ sx.state = "PendingCancel"
  <2>1. s2 = Settled
    BY <1>9
  <2>2. ASSUME KeyOrderly(s, A, Q), \A b \in A2 : b.type = "Executed" PROVE KeyOrderly(s2, A2, Q)
    BY <2>2, <1>8 DEF KeyOrderly
  <2> QED
    BY <2>1, <2>2, <1>6, <1>7
<1>10. CASE ~(sx.leaves = 0 \/ sx.state = "PendingCancel") /\ sx.state = "PendingNew"
  <2>1. s2 = [sx EXCEPT !.state = "Live"]
    BY <1>10
  <2>2. /\ s2.state = "Live" /\ s2.userRef = s.userRef /\ s2.pendingRef = s.pendingRef
        /\ s2.price = s.price /\ s2.leaves = sx.leaves /\ s2 \in Slot
    BY <2>1, <1>2 DEF Slot, States
  <2>3. KeyTyped(c, s2, A2, Q, R, T2) /\ Apart(A2, Q)
    BY <1>1, <1>2, <1>10, <2>2 DEF KeyTyped, Good, Apart
  <2>4. ViewOK(c, s2, R)
    BY <1>1, <1>3 DEF ViewOK
  <2>5. \A r : ~Holds(c, r) /\ Kept(c, r) = 0
    BY <1>3 DEF Holds, Kept
  <2>6. \A n \in Q : AskOK(c, s2, n, R)
    BY <1>1, <1>2, <2>2, <2>5 DEF AskOK
  <2>7. \A b \in A2 : AckOK(c, s2, b, A2)
    BY <1>1, <1>2, <1>4, <2>2, <2>5 DEF AckOK
  <2>8. Covered(c, s2, R, T2)
    <3>1. ASSUME NEW r \in R PROVE T2[r] + Kept(c, r) <= QuoteQty
      <4>1. T[r] + Kept(c, r) <= QuoteQty /\ T[r] \in Nat /\ T2[r] \in Nat /\ T2[r] <= T[r] /\ Kept(c, r) = 0
        BY <1>1, <1>2, <2>5 DEF Covered
      <4> QED
        BY <4>1, QuoteQtyAssumption
    <3> QED
      BY <3>1, <1>2, <2>2 DEF Covered
  <2>9. ASSUME KeyExact(c, s, A, Q, T) PROVE FALSE
    <3>1. HasAsk(Q, "EnterOrder", s.userRef) \/ HasAck(A, "Accepted", s.userRef) \/ HasAck(A, "Rejected", s.userRef)
      BY <2>9, <1>2, <1>10 DEF KeyExact
    <3> QED
      BY <3>1, <1>2 DEF HasAsk, HasAck
  <2>10. ASSUME KeyOrderly(s, A, Q) PROVE FALSE
    BY <2>10, <1>8, <1>2, <1>10
  <2> QED
    BY <2>3, <2>4, <2>6, <2>7, <2>8, <2>9, <2>10 DEF KeyInv
<1>11. CASE ~(sx.leaves = 0 \/ sx.state = "PendingCancel") /\ sx.state # "PendingNew"
  <2>1. s2 = sx
    BY <1>11
  <2>2. /\ KeyInv(c, sx, A2, Q, R, T2)
        /\ KeyExact(c, s, A, Q, T) => KeyExact(c, sx, A2, Q, T2)
        /\ KeyOrderly(s, A, Q) => KeyOrderly(sx, A2, Q)
    BY <1>2, <1>11, SharesHeard
  <2> QED
    BY <2>1, <2>2
<1> QED
  BY <1>9, <1>10, <1>11

\* The slot an answer is for, by its reference or by the one it waits for.
Works(s, r) == s.state # "Idle" /\ s.userRef = r
Awaits(s, r) == s.state = "PendingReplace" /\ s.pendingRef = r

\* A slot resumes when its replacement or its cancel is refused.
LEMMA ResumeHeard ==
  ASSUME NEW c, NEW s, NEW A, NEW Q, NEW R, NEW T, KeyInv(c, s, A, Q, R, T),
         NEW a, NEW A2, NEW T2, Heard(a, A, A2, R, T, T2),
         \/ a.type = "Rejected" /\ Awaits(s, a.ref)
         \/ a.type = "CancelReject" /\ s.state = "PendingCancel" /\ Works(s, a.ref),
         NEW s2, s2 = Resume(s)
  PROVE  /\ KeyInv(c, s2, A2, Q, R, T2)
         /\ KeyExact(c, s, A, Q, T) => KeyExact(c, s2, A2, Q, T2)
         /\ KeyOrderly(s, A, Q) /\ (\A b \in A2 : b.type = "Executed") => KeyOrderly(s2, A2, Q)
<1>1. /\ KeyTyped(c, s, A, Q, R, T) /\ ViewOK(c, s, R) /\ Covered(c, s, R, T) /\ Apart(A, Q)
      /\ \A n \in Q : AskOK(c, s, n, R)
      /\ \A b \in A : AckOK(c, s, b, A)
      /\ a \in A /\ A2 \subseteq A /\ A \subseteq A2 \cup {a}
      /\ R \subseteq Nat \ {0} /\ \A r \in R : T[r] \in Nat
      /\ c.qty \in Nat /\ T2 \in [R -> Nat] /\ s.leaves \in Nat /\ s \in Slot
      /\ \A b \in A : b.ref \in R /\ b.qty \in Nat
  BY KeyInvParts DEF KeyTyped, Heard
<1>2. s.state \in {"PendingReplace", "PendingCancel"} /\ s.userRef \in R
  BY <1>1 DEF Awaits, KeyTyped, Good
<1>3. T2 = T
  <2>1. T2 \in [R -> Nat] /\ T \in [R -> Nat] /\ \A r \in R : T2[r] = T[r]
    BY <1>1 DEF Heard, KeyTyped
  <2> QED
    BY <2>1
<1>4. ~Holds(c, s.pendingRef) /\ (c.qty > 0 => c.id = s.userRef)
  <2>1. CASE s.state = "PendingReplace"
    BY <2>1, <1>1 DEF AckOK, Awaits, ViewOK, Holds
  <2>2. CASE s.state = "PendingCancel"
    <3>1. s.pendingRef = 0
      BY <2>2, <1>1 DEF KeyTyped, Good
    <3> QED
      BY <3>1, <1>1 DEF ViewOK, Holds
  <2> QED
    BY <2>1, <2>2, <1>2
<1>5. \A n \in Q : n.type # "EnterOrder" /\ (n.type = "ReplaceOrder" => n.ref # s.userRef /\ ~Holds(c, n.orig))
  BY <1>1, <1>2 DEF AskOK, Apart, New, Awaits
<1>6. /\ \A b \in A : b.type \notin {"Accepted", "Replaced"} /\ (b.type = "Rejected" => b.ref # s.userRef)
  <2>1. \A b \in A : b.type = "Replaced" => b \in A2
    BY <1>1
  <2> QED
    BY <2>1, <1>1, <1>2 DEF AckOK, Heard, MayFollow, Awaits
<1>7. \A b \in A2 : b.type = "Executed" => b.qty > 0 /\ b.qty <= T[b.ref] /\ b.qty \in Nat
  BY <1>1, <1>3 DEF Heard, AckOK
<1>8. ASSUME KeyExact(c, s, A, Q, T)
      PROVE  /\ s.leaves = T[s.userRef] + Kept(c, s.userRef)
             /\ \A b \in A2 : b.type = "Executed" => b.ref = s.userRef
  BY <1>8, <1>1, <1>2, <1>5, <1>6 DEF KeyExact, HasAsk, HasAck
<1>9. ASSUME KeyOrderly(s, A, Q) PROVE Q = {}
  BY <1>1, <1>9 DEF KeyOrderly
<1>10. CASE s.leaves > 0
  <2>1. s2 = [s EXCEPT !.state = "Live", !.pendingRef = 0]
    BY <1>10 DEF Resume
  <2>2. /\ s2.state = "Live" /\ s2.userRef = s.userRef /\ s2.pendingRef = 0
        /\ s2.price = s.price /\ s2.leaves = s.leaves /\ s2 \in Slot
    <3>1. s \in Slot
      BY <1>1
    <3> QED
      BY ONLY <3>1, <2>1 DEF Slot, States
  <2>3. KeyTyped(c, s2, A2, Q, R, T) /\ Apart(A2, Q)
    BY <1>1, <1>2, <1>10, <2>2 DEF KeyTyped, Good, Apart
  <2>4. ViewOK(c, s2, R)
    BY <1>1, <1>4, <2>2 DEF ViewOK
  <2>5. \A n \in Q : AskOK(c, s2, n, R)
    BY <1>1, <1>5, <2>2 DEF AskOK
  <2>6. \A b \in A2 : AckOK(c, s2, b, A2)
    BY <1>1, <1>6, <2>2 DEF AckOK
  <2>7. Covered(c, s2, R, T)
    BY <1>1, <1>2, <2>2 DEF Covered
  <2>8. ASSUME KeyExact(c, s, A, Q, T) PROVE KeyExact(c, s2, A2, Q, T)
    <3>1. ~Holds(c, 0)
      BY <1>1 DEF ViewOK, Holds
    <3> QED
      BY <1>1, <1>6, <1>8, <2>2, <2>8, <3>1 DEF KeyExact
  <2>9. ASSUME KeyOrderly(s, A, Q), \A b \in A2 : b.type = "Executed" PROVE KeyOrderly(s2, A2, Q)
    BY <2>9, <1>9 DEF KeyOrderly
  <2> QED
    BY <1>3, <2>3, <2>4, <2>5, <2>6, <2>7, <2>8, <2>9 DEF KeyInv
<1>11. CASE ~(s.leaves > 0)
  <2>1. s2 = Settled
    BY <1>11 DEF Resume
  <2>2. T[s.userRef] = 0 /\ Kept(c, s.userRef) = 0
    <3>1. T[s.userRef] \in Nat /\ Kept(c, s.userRef) \in Nat /\ T[s.userRef] + Kept(c, s.userRef) <= 0
      <4>1. s.userRef \in R /\ s.state # "Idle"
        BY <1>2
      <4>2. T[s.userRef] \in Nat /\ s.leaves \in Nat /\ c.qty \in Nat
        BY <1>1, <4>1
      <4>3. T[s.userRef] + Kept(c, s.userRef) <= s.leaves
        BY <1>1, <4>1 DEF Covered
      <4>4. Kept(c, s.userRef) \in Nat /\ s.leaves = 0
        BY <4>2, <1>11 DEF Kept
      <4> QED
        BY <4>2, <4>3, <4>4
    <3> QED
      BY <3>1
  <2>3. c.qty = 0
    BY <2>2, <1>1, <1>4 DEF Kept, Holds
  <2>4. \A r \in R : T2[r] <= T[r]
    BY <1>1, <1>3
  <2>5. /\ KeyInv(c, Settled, A2, Q, R, T2)
        /\ (\A b \in A2 : b.type # "Executed") => KeyExact(c, Settled, A2, Q, T2)
    BY <2>3, <2>4, <1>1, <1>5, <1>6, SlotSettled
  <2>6. ASSUME KeyExact(c, s, A, Q, T) PROVE \A b \in A2 : b.type # "Executed"
    BY <2>2, <2>6, <1>7, <1>8
  <2>7. ASSUME KeyOrderly(s, A, Q), \A b \in A2 : b.type = "Executed" PROVE KeyOrderly(s2, A2, Q)
    BY <2>7, <1>9 DEF KeyOrderly
  <2> QED
    BY <2>1, <2>5, <2>6, <2>7
<1> QED
  BY <1>10, <1>11

\* Rejected, for the order a slot has entered.
LEMMA RejectedHeard ==
  ASSUME NEW c, NEW s, NEW A, NEW Q, NEW R, NEW T, KeyInv(c, s, A, Q, R, T),
         NEW a, a.type = "Rejected", NEW A2, NEW T2, Heard(a, A, A2, R, T, T2), Works(s, a.ref)
  PROVE  /\ KeyInv(c, Settled, A2, Q, R, T2)
         /\ KeyExact(c, s, A, Q, T) => KeyExact(c, Settled, A2, Q, T2)
         /\ KeyOrderly(s, A, Q) /\ (\A b \in A2 : b.type = "Executed") => KeyOrderly(Settled, A2, Q)
<1>1. /\ KeyTyped(c, s, A, Q, R, T) /\ ViewOK(c, s, R) /\ Covered(c, s, R, T) /\ Apart(A, Q)
      /\ \A n \in Q : AskOK(c, s, n, R)
      /\ \A b \in A : AckOK(c, s, b, A)
      /\ a \in A /\ A2 \subseteq A /\ A \subseteq A2 \cup {a}
      /\ R \subseteq Nat \ {0} /\ \A r \in R : T[r] \in Nat
      /\ c.qty \in Nat /\ T2 \in [R -> Nat]
  BY KeyInvParts DEF KeyTyped, Heard
<1>2. s.state = "PendingNew" /\ s.userRef = a.ref /\ ~Holds(c, a.ref)
  BY <1>1 DEF AckOK, Works
<1>3. c.qty = 0
  <2>1. s.pendingRef = 0
    BY <1>1, <1>2 DEF KeyTyped, Good
  <2> QED
    BY <2>1, <1>1, <1>2 DEF ViewOK, Holds
<1>4. \A n \in Q : n.type # "EnterOrder"
  BY <1>1, <1>2 DEF AskOK, Apart, New
<1>5. \A b \in A2 : b.type \notin {"Accepted", "Replaced"} /\ b.ref # a.ref
  BY <1>1, <1>2 DEF AckOK, Heard, MayFollow
<1>6. \A r \in R : T2[r] <= T[r]
  BY <1>1 DEF Heard
<1>7. /\ KeyInv(c, Settled, A2, Q, R, T2)
      /\ (\A b \in A2 : b.type # "Executed") => KeyExact(c, Settled, A2, Q, T2)
  BY <1>1, <1>3, <1>4, <1>5, <1>6, SlotSettled
<1>8. ASSUME KeyExact(c, s, A, Q, T) PROVE \A b \in A2 : b.type # "Executed"
  BY <1>8, <1>1, <1>2, <1>5 DEF KeyExact, HasAck, AckOK
<1>9. ASSUME KeyOrderly(s, A, Q), \A b \in A2 : b.type = "Executed" PROVE KeyOrderly(Settled, A2, Q)
  <2>1. Q = {}
    BY <1>1, <1>9 DEF KeyOrderly
  <2> QED
    BY <2>1, <1>9 DEF KeyOrderly
<1> QED
  BY <1>7, <1>8, <1>9

\* What onAck looks for.
Matched(s, a) ==
  \/ a.type \in {"Executed", "Canceled", "Rejected"} /\ Works(s, a.ref)
  \/ a.type \in {"Replaced", "Rejected"} /\ Awaits(s, a.ref)
  \/ a.type = "Accepted" /\ s.state = "PendingNew" /\ Works(s, a.ref)
  \/ a.type = "CancelReject" /\ s.state = "PendingCancel" /\ Works(s, a.ref)

\* An answer no slot waits for.
LEMMA UnknownHeard ==
  ASSUME NEW c, NEW s, NEW A, NEW Q, NEW R, NEW T, KeyInv(c, s, A, Q, R, T),
         NEW a, NEW A2, NEW T2, Heard(a, A, A2, R, T, T2), ~Matched(s, a)
  PROVE  /\ KeyInv(c, s, A2, Q, R, T2)
         /\ KeyExact(c, s, A, Q, T) => KeyExact(c, s, A2, Q, T2) /\ a.type # "Executed"
         /\ KeyOrderly(s, A, Q) => KeyOrderly(s, A2, Q)
         /\ KeyExact(c, s, A, Q, T) => ~KeyOrderly(s, A, Q)
<1>1. /\ KeyTyped(c, s, A, Q, R, T) /\ ViewOK(c, s, R) /\ Covered(c, s, R, T) /\ Apart(A, Q)
      /\ \A n \in Q : AskOK(c, s, n, R)
      /\ \A b \in A : AckOK(c, s, b, A)
      /\ a \in A /\ A2 \subseteq A /\ A \subseteq A2 \cup {a}
      /\ R \subseteq Nat \ {0} /\ \A r \in R : T[r] \in Nat /\ T2[r] \in Nat
      /\ c.qty \in Nat /\ T2 \in [R -> Nat] /\ T \in [R -> Nat]
      /\ \A b \in A : b.ref \in R /\ b.qty \in Nat
      /\ a.type \in AckTypes
  BY KeyInvParts DEF KeyTyped, Heard
<1>2. \A r \in R : T2[r] <= T[r] /\ (r # a.ref => T2[r] = T[r])
  <2>1. SUFFICES ASSUME NEW r \in R PROVE T2[r] <= T[r] /\ (r # a.ref => T2[r] = T[r])
    OBVIOUS
  <2>2. T2[r] = T[r] - (IF a.ref = r /\ a.type \in {"Executed", "Canceled"} THEN a.qty ELSE 0)
    BY DEF Heard
  <2>3. T2[r] \in Nat /\ T[r] \in Nat /\ a.qty \in Nat
    BY <1>1
  <2> QED
    BY <2>2, <2>3
<1>3. KeyInv(c, s, A2, Q, R, T2)
  BY <1>1, <1>2, AnswersGone
<1>4. a.type \notin {"Accepted", "Replaced"}
  BY <1>1 DEF Matched, AckOK, Works, Awaits
<1>5. ASSUME KeyExact(c, s, A, Q, T) PROVE a.type # "Executed"
  <2>1. SUFFICES ASSUME a.type = "Executed" PROVE FALSE
    OBVIOUS
  <2>2. a.ref = s.userRef
    <3>1. \A b \in A : b.type = "Replaced" => b \in A2 /\ b.ref # a.ref
      BY <1>1, <2>1 DEF Heard, MayFollow
    <3> QED
      BY <3>1, <1>1, <1>5, <2>1 DEF KeyExact, HasAck
  <2>3. s.state # "Idle"
    <3>1. s.userRef # 0
      BY <2>2, <1>1
    <3> QED
      BY <3>1, <1>1 DEF KeyTyped, Good, Settled
  <2> QED
    BY <2>1, <2>2, <2>3 DEF Matched, Works
<1>6. ASSUME KeyExact(c, s, A, Q, T) PROVE KeyExact(c, s, A2, Q, T2)
  <2>1. a.type \in {"Canceled", "Rejected", "CancelReject"}
    BY <1>1, <1>4, <1>5, <1>6 DEF AckTypes
  <2>2. s.state # "Idle" /\ a.ref = s.userRef => a.type = "CancelReject" /\ s.state # "PendingCancel"
    BY <2>1 DEF Matched, Works
  <2>3. s.state = "PendingReplace" /\ a.ref = s.pendingRef => a.type # "Rejected"
    BY DEF Matched, Awaits
  <2>4. s.state # "Idle" => s.userRef \in R /\ T2[s.userRef] = T[s.userRef]
    <3>1. s.state # "Idle" => s.userRef \in R
      BY <1>1 DEF KeyTyped, Good
    <3>2. a.type = "CancelReject" => T2[a.ref] = T[a.ref]
      <4>1. a.ref \in R
        BY <1>1
      <4>2. T2[a.ref] = T[a.ref] - (IF a.type \in {"Executed", "Canceled"} THEN a.qty ELSE 0)
        BY <4>1 DEF Heard
      <4>3. T[a.ref] \in Nat
        BY <4>1, <1>1
      <4> QED
        BY <4>2, <4>3
    <3> QED
      BY <3>1, <3>2, <1>2, <2>2
  <2>5. /\ \A y, r : y \in {"Accepted", "Replaced"} /\ HasAck(A, y, r) => HasAck(A2, y, r)
        /\ \A r : s.state # "Idle" /\ r = s.userRef /\ HasAck(A, "Rejected", r) => HasAck(A2, "Rejected", r)
        /\ \A r : s.state # "Idle" /\ r = s.userRef /\ HasAck(A, "Canceled", r) => HasAck(A2, "Canceled", r)
        /\ \A r : s.state = "PendingCancel" /\ r = s.userRef /\ HasAck(A, "CancelReject", r) => HasAck(A2, "CancelReject", r)
        /\ \A r : s.state = "PendingReplace" /\ r = s.pendingRef /\ HasAck(A, "Rejected", r) => HasAck(A2, "Rejected", r)
    BY <1>1, <1>4, <2>1, <2>2, <2>3 DEF HasAck
  <2>6. \A b \in A2 : b.type \in {"Accepted", "Replaced"} => T2[b.ref] + Kept(c, b.ref) = QuoteQty
    <3>1. SUFFICES ASSUME NEW b \in A2, b.type \in {"Accepted", "Replaced"}
                   PROVE  T2[b.ref] + Kept(c, b.ref) = QuoteQty
      OBVIOUS
    <3>2. b.ref # a.ref /\ b.ref \in R /\ b \in A
      BY <3>1, <1>1 DEF Heard, MayFollow
    <3>3. T2[b.ref] = T[b.ref]
      BY <3>2, <1>2
    <3>4. T[b.ref] + Kept(c, b.ref) = QuoteQty
      BY <3>1, <3>2, <1>6 DEF KeyExact
    <3> QED
      BY <3>3, <3>4
  <2>7. \A b \in A2 : b.type = "Executed" => b.ref = s.userRef \/ HasAck(A2, "Replaced", b.ref)
    BY <1>1, <1>6, <2>5 DEF KeyExact
  <2> QED
    BY <1>6, <2>4, <2>5, <2>6, <2>7 DEF KeyExact
<1>7. ASSUME KeyOrderly(s, A, Q) PROVE KeyOrderly(s, A2, Q)
  BY <1>1, <1>7 DEF KeyOrderly
<1>8. ASSUME KeyExact(c, s, A, Q, T), KeyOrderly(s, A, Q) PROVE FALSE
  <2>1. a.type \in {"Canceled", "Rejected", "CancelReject"}
    BY <1>1, <1>4, <1>5, <1>8 DEF AckTypes
  <2> QED
    BY <2>1, <1>1, <1>8 DEF KeyOrderly, Matched, Works, Awaits
<1> QED
  BY <1>3, <1>5, <1>6, <1>7, <1>8

\* The messages and the references of one quote.
AcksOf(ak, own, k) == {a \in Answers : own[a.ref] = k /\ \E i \in 1 .. Len(ak) : ak[i] = a}
AsksOf(q, own, k) == {m \in Asks : own[m.ref] = k /\ \E i \in 1 .. Len(q) : q[i] = m}
RefsOf(own, k) == {r \in DOMAIN own : own[r] = k}

\* The shares that the answers under way take from each order.
Leaving(r) == {a \in Answers : a.ref = r /\ a.type \in {"Executed", "Canceled"}}
Due(ak, R) == [r \in R |-> Shares(ak, Leaving(r))]

\* Elements of two sequences of S, one after the other.
Joined(u, s, t, S) == s \in Seq(S) /\ t \in Seq(S) /\ u = s \o t

\* The elements of two sequences joined, and where each of them is.
LEMMA ConcatParts ==
  ASSUME NEW S, NEW s, NEW t, NEW u, Joined(u, s, t, S)
  PROVE  /\ u \in Seq(S) /\ Len(u) = Len(s) + Len(t)
         /\ Len(s) \in Nat /\ Len(t) \in Nat
         /\ \A i \in 1 .. Len(s) : u[i] = s[i] /\ i \in 1 .. Len(u)
         /\ \A i \in 1 .. Len(t) : u[Len(s) + i] = t[i] /\ Len(s) + i \in 1 .. Len(u)
         /\ \A i \in 1 .. Len(u) :
              (i \in 1 .. Len(s)) \/ (i - Len(s) \in 1 .. Len(t) /\ u[i] = t[i - Len(s)] /\ i > Len(s))
<1>0. s \in Seq(S) /\ t \in Seq(S) /\ u = s \o t
  BY DEF Joined
<1> DEFINE m == Len(s)
           n == Len(t)
<1>1. u \in Seq(S) /\ Len(u) = m + n /\ m \in Nat /\ n \in Nat
  BY <1>0
<1>2. \A i \in 1 .. m : u[i] = s[i]
  BY <1>0
<1>3. \A i \in 1 .. n : u[m + i] = t[i]
  BY <1>0
<1> HIDE DEF m, n
<1>4. ASSUME NEW i \in 1 .. Len(u), i \notin 1 .. m PROVE i - m \in 1 .. n /\ u[i] = t[i - m] /\ i > m
  <2>1. i - m \in 1 .. n /\ i > m
    BY <1>1, <1>4
  <2>2. u[m + (i - m)] = t[i - m]
    BY <2>1, <1>3
  <2>3. m + (i - m) = i
    BY <1>1
  <2> QED
    BY <2>1, <2>2, <2>3
<1>5. (\A i \in 1 .. m : i \in 1 .. Len(u)) /\ (\A i \in 1 .. n : m + i \in 1 .. Len(u))
  BY <1>1
<1> QED
  BY <1>1, <1>2, <1>3, <1>4, <1>5 DEF m, n

\* What occurs in two sequences joined occurs in one of them.
LEMMA ConcatElements ==
  ASSUME NEW S, NEW s, NEW t, NEW u, Joined(u, s, t, S), NEW a
  PROVE  (\E i \in 1 .. Len(u) : u[i] = a) <=>
         (\E i \in 1 .. Len(s) : s[i] = a) \/ (\E i \in 1 .. Len(t) : t[i] = a)
<1>1. /\ \A i \in 1 .. Len(s) : u[i] = s[i] /\ i \in 1 .. Len(u)
      /\ \A i \in 1 .. Len(t) : u[Len(s) + i] = t[i] /\ Len(s) + i \in 1 .. Len(u)
      /\ \A i \in 1 .. Len(u) :
           (i \in 1 .. Len(s)) \/ (i - Len(s) \in 1 .. Len(t) /\ u[i] = t[i - Len(s)] /\ i > Len(s))
  BY ConcatParts
<1>2. ASSUME NEW i \in 1 .. Len(u), u[i] = a PROVE (\E j \in 1 .. Len(s) : s[j] = a) \/ (\E j \in 1 .. Len(t) : t[j] = a)
  BY ONLY <1>1, <1>2
<1>3. ASSUME NEW i \in 1 .. Len(s), s[i] = a PROVE \E j \in 1 .. Len(u) : u[j] = a
  BY ONLY <1>1, <1>3
<1>4. ASSUME NEW i \in 1 .. Len(t), t[i] = a PROVE \E j \in 1 .. Len(u) : u[j] = a
  BY ONLY <1>1, <1>4
<1> QED
  BY <1>2, <1>3, <1>4

\* The elements of what follows the head.
LEMMA TailParts ==
  ASSUME NEW S, NEW s \in Seq(S), s # << >>
  PROVE  /\ Tail(s) \in Seq(S) /\ Len(Tail(s)) = Len(s) - 1 /\ Len(s) \in Nat /\ Len(s) >= 1
         /\ Head(s) \in S /\ Head(s) = s[1] /\ 1 \in 1 .. Len(s)
         /\ \A i \in 1 .. Len(Tail(s)) : Tail(s)[i] = s[i + 1] /\ i + 1 \in 2 .. Len(s) /\ i + 1 \in 1 .. Len(s)
         /\ \A a : (\E i \in 1 .. Len(s) : s[i] = a) <=>
                   a = Head(s) \/ (\E i \in 1 .. Len(Tail(s)) : Tail(s)[i] = a)
<1> DEFINE t == Tail(s)
           n == Len(s)
<1>1. t \in Seq(S) /\ Len(t) = n - 1 /\ n \in Nat /\ n >= 1 /\ Head(s) = s[1] /\ Head(s) \in S
  OBVIOUS
<1>2. \A i \in 1 .. (n - 1) : t[i] = s[i + 1]
  OBVIOUS
<1> HIDE DEF t, n
<1>3. 1 \in 1 .. n /\ \A i \in 1 .. (n - 1) : i + 1 \in 2 .. n /\ i + 1 \in 1 .. n
  BY <1>1
<1>4. ASSUME NEW a PROVE (\E i \in 1 .. n : s[i] = a) <=> a = Head(s) \/ (\E i \in 1 .. Len(t) : t[i] = a)
  <2>1. ASSUME NEW i \in 1 .. n, s[i] = a PROVE a = Head(s) \/ (\E j \in 1 .. Len(t) : t[j] = a)
    <3>1. CASE i = 1
      BY <3>1, <2>1, <1>1
    <3>2. CASE i # 1
      <4>1. i - 1 \in 1 .. (n - 1) /\ (i - 1) + 1 = i
        BY <3>2, <1>1
      <4>2. t[i - 1] = a
        BY <4>1, <1>2, <2>1
      <4> QED
        BY <4>1, <4>2, <1>1
    <3> QED
      BY <3>1, <3>2
  <2>2. ASSUME NEW i \in 1 .. Len(t), t[i] = a PROVE \E j \in 1 .. n : s[j] = a
    BY <2>2, <1>1, <1>2, <1>3
  <2> QED
    BY <2>1, <2>2, <1>1, <1>3
<1> QED
  BY <1>1, <1>2, <1>3, <1>4 DEF t, n

\* The due shares are numbers, at least those of each answer, and none without one.
LEMMA DueFacts ==
  ASSUME NEW ak \in Seq(Answers), NEW R
  PROVE  /\ Due(ak, R) \in [R -> Nat]
         /\ \A i \in 1 .. Len(ak) : ak[i].type \in {"Executed", "Canceled"} /\ ak[i].ref \in R =>
              ak[i].qty <= Due(ak, R)[ak[i].ref]
         /\ \A r \in R : (\A i \in 1 .. Len(ak) : ak[i].ref # r) => Due(ak, R)[r] = 0
<1>1. \A r \in R : Due(ak, R)[r] = Shares(ak, Leaving(r))
  BY DEF Due
<1>2. \A r \in R : Shares(ak, Leaving(r)) \in Nat
  BY SharesNat
<1>3. Due(ak, R) \in [R -> Nat]
  BY <1>2 DEF Due
<1>4. \A i \in 1 .. Len(ak) : ak[i] \in Answers
  OBVIOUS
<1>5. ASSUME NEW i \in 1 .. Len(ak), ak[i].type \in {"Executed", "Canceled"}, ak[i].ref \in R
      PROVE  ak[i].qty <= Due(ak, R)[ak[i].ref]
  <2>1. ak[i] \in Leaving(ak[i].ref)
    BY <1>4, <1>5 DEF Leaving
  <2> QED
    BY <2>1, <1>1, <1>5, SharesNat
<1>6. ASSUME NEW r \in R, \A i \in 1 .. Len(ak) : ak[i].ref # r PROVE Due(ak, R)[r] = 0
  <2>1. \A i \in 1 .. Len(ak) : ak[i] \notin Leaving(r)
    BY <1>6 DEF Leaving
  <2> QED
    BY <2>1, <1>1, SharesNone
<1> QED
  BY <1>3, <1>5, <1>6

\* Appending to, and taking from, the messages of a quote.
LEMMA AcksAppended ==
  ASSUME NEW ak, NEW E, NEW own, NEW k, NEW u, Joined(u, ak, E, Answers)
  PROVE  AcksOf(u, own, k) = AcksOf(ak, own, k) \cup AcksOf(E, own, k)
<1>1. \A a : (\E i \in 1 .. Len(u) : u[i] = a) <=>
             (\E i \in 1 .. Len(ak) : ak[i] = a) \/ (\E i \in 1 .. Len(E) : E[i] = a)
  BY ConcatElements
<1> QED
  BY ONLY <1>1 DEF AcksOf

\* The shares due to an order grow by those of the answers queued.
LEMMA DueAppended ==
  ASSUME NEW ak, NEW E, NEW R, NEW u, Joined(u, ak, E, Answers)
  PROVE  \A r \in R : Due(u, R)[r] = Due(ak, R)[r] + Shares(E, Leaving(r))
<1>1. ASSUME NEW r \in R PROVE Due(u, R)[r] = Due(ak, R)[r] + Shares(E, Leaving(r))
  <2>1. Shares(u, Leaving(r)) = Shares(ak, Leaving(r)) + Shares(E, Leaving(r))
    BY SharesConcat DEF Joined
  <2> QED
    BY <2>1 DEF Due
<1> QED
  BY <1>1

\* The requests of a quote after more are sent.
LEMMA AsksAppended ==
  ASSUME NEW q, NEW p, NEW own, NEW k, NEW u, Joined(u, q, p, Asks)
  PROVE  AsksOf(u, own, k) = AsksOf(q, own, k) \cup AsksOf(p, own, k)
<1>1. \A a : (\E i \in 1 .. Len(u) : u[i] = a) <=>
             (\E i \in 1 .. Len(q) : q[i] = a) \/ (\E i \in 1 .. Len(p) : p[i] = a)
  BY ConcatElements
<1> QED
  BY ONLY <1>1 DEF AsksOf

\* The requests of a quote after the oldest of all is taken.
LEMMA AsksTail ==
  ASSUME NEW q \in Seq(Asks), q # << >>, NEW own, NEW k
  PROVE  /\ own[Head(q).ref] # k => AsksOf(Tail(q), own, k) = AsksOf(q, own, k)
         /\ own[Head(q).ref] = k => AsksOf(q, own, k) = AsksOf(Tail(q), own, k) \cup {Head(q)}
<1>1. /\ Head(q) \in Asks
      /\ \A a : (\E i \in 1 .. Len(q) : q[i] = a) <=>
                a = Head(q) \/ (\E i \in 1 .. Len(Tail(q)) : Tail(q)[i] = a)
  BY TailParts
<1> QED
  BY <1>1 DEF AsksOf

\* The answers of a quote and the shares due to it after the oldest answer of all is taken.
LEMMA AcksTail ==
  ASSUME NEW ak \in Seq(Answers), ak # << >>, NEW own, NEW k, NEW R, R = RefsOf(own, k)
  PROVE  /\ own[Head(ak).ref] # k =>
              /\ AcksOf(Tail(ak), own, k) = AcksOf(ak, own, k)
              /\ Due(Tail(ak), R) = Due(ak, R)
         /\ own[Head(ak).ref] = k => AcksOf(ak, own, k) = AcksOf(Tail(ak), own, k) \cup {Head(ak)}
         /\ \A r \in R : Due(Tail(ak), R)[r] =
              Due(ak, R)[r] - (IF Head(ak).ref = r /\ Head(ak).type \in {"Executed", "Canceled"}
                               THEN Head(ak).qty ELSE 0)
<1> DEFINE h == Head(ak)
           t == Tail(ak)
<1>1. /\ h \in Answers /\ t \in Seq(Answers)
      /\ \A a : (\E i \in 1 .. Len(ak) : ak[i] = a) <=> a = h \/ (\E i \in 1 .. Len(t) : t[i] = a)
  BY TailParts
<1>2. \A r : Shares(t, Leaving(r)) = Shares(ak, Leaving(r)) - (IF h \in Leaving(r) THEN h.qty ELSE 0)
  BY SharesTail
<1> HIDE DEF h, t
<1>3. \A r : h \in Leaving(r) <=> h.ref = r /\ h.type \in {"Executed", "Canceled"}
  BY <1>1 DEF Leaving
<1>4. ASSUME NEW r \in R
      PROVE  Due(t, R)[r] = Due(ak, R)[r] - (IF h.ref = r /\ h.type \in {"Executed", "Canceled"} THEN h.qty ELSE 0)
  BY <1>2, <1>3 DEF Due
<1>5. /\ own[h.ref] # k => AcksOf(t, own, k) = AcksOf(ak, own, k)
      /\ own[h.ref] = k => AcksOf(ak, own, k) = AcksOf(t, own, k) \cup {h}
  BY <1>1 DEF AcksOf
<1>6. ASSUME own[h.ref] # k PROVE Due(t, R) = Due(ak, R)
  <2>1. \A r \in R : r # h.ref
    BY <1>6 DEF RefsOf
  <2>2. Due(t, R) \in [R -> Nat] /\ Due(ak, R) \in [R -> Nat]
    BY <1>1, DueFacts
  <2>3. \A r \in R : Due(t, R)[r] = Due(ak, R)[r]
    BY <1>4, <2>1, <2>2
  <2> QED
    BY <2>2, <2>3
<1> QED
  BY <1>4, <1>5, <1>6 DEF h, t

\* The messages of a session: the answers ak and the requests q under way,
\* when "own" says whose each reference is.
SessionTyped(ak, q, own) ==
  /\ ak \in Seq(Answers) /\ q \in Seq(Asks)
  /\ DOMAIN own \subseteq Nat \ {0}
  /\ \A r \in DOMAIN own : own[r] \in Key \cup {TestKey}
  /\ \A i \in 1 .. Len(ak) : ak[i].ref \in DOMAIN own
  /\ \A i \in 1 .. Len(q) :
       /\ q[i].ref \in DOMAIN own
       /\ q[i].type = "EnterOrder" => q[i].key = own[q[i].ref]
       /\ own[q[i].ref] = TestKey => q[i].type = "EnterOrder"
  /\ \A i, j \in 1 .. Len(q) : New(q[i]) /\ New(q[j]) /\ q[i].ref = q[j].ref => i = j

Ordered(ak, own) ==
  \A i, j \in 1 .. Len(ak) :
    i < j /\ own[ak[i].ref] \in Key /\ own[ak[i].ref] = own[ak[j].ref] => MayFollow(ak[i], ak[j])

KeyAt(v, s, ak, q, own, k) ==
  KeyInv(v[k], s[k], AcksOf(ak, own, k), AsksOf(q, own, k), RefsOf(own, k), Due(ak, RefsOf(own, k)))
ExactAt(v, s, ak, q, own, k) ==
  KeyExact(v[k], s[k], AcksOf(ak, own, k), AsksOf(q, own, k), Due(ak, RefsOf(own, k)))
OrderlyAt(s, ak, q, own, k) ==
  /\ KeyOrderly(s[k], AcksOf(ak, own, k), AsksOf(q, own, k))
  /\ \A i, j \in 1 .. Len(q) : own[q[i].ref] = k /\ own[q[j].ref] = k => i = j
  /\ \A i, j \in 1 .. Len(ak) :
       /\ own[ak[i].ref] = k /\ own[ak[j].ref] = k
       /\ ak[i].type # "Executed" /\ ak[j].type # "Executed"
       => i = j

Safe(v, s, ak, q, own) ==
  SessionTyped(ak, q, own) /\ Ordered(ak, own) /\ \A k \in Key : KeyAt(v, s, ak, q, own, k)
Exact(v, s, ak, q, own) == \A k \in Key : ExactAt(v, s, ak, q, own, k)
Orderly(s, ak, q, own) == \A k \in Key : OrderlyAt(s, ak, q, own, k)

\* The parts of the session's invariant.
LEMMA SafeParts ==
  ASSUME NEW v, NEW s, NEW ak, NEW q, NEW own, Safe(v, s, ak, q, own)
  PROVE  /\ SessionTyped(ak, q, own) /\ Ordered(ak, own)
         /\ ak \in Seq(Answers) /\ q \in Seq(Asks)
         /\ DOMAIN own \subseteq Nat \ {0}
         /\ \A i \in 1 .. Len(ak) : ak[i] \in Answers /\ ak[i].ref \in DOMAIN own
         /\ \A i \in 1 .. Len(q) : q[i] \in Asks /\ q[i].ref \in DOMAIN own
         /\ \A k \in Key : KeyAt(v, s, ak, q, own, k)
BY DEF Safe, SessionTyped

\* Answers that may follow those under way.
LEMMA OrderedAppended ==
  ASSUME NEW ak, NEW E, NEW own, NEW u, Joined(u, ak, E, Answers), Ordered(ak, own), Ordered(E, own),
         \A k \in Key : \A a \in AcksOf(ak, own, k), e \in AcksOf(E, own, k) : MayFollow(a, e)
  PROVE  Ordered(u, own)
<1>1. /\ Len(ak) \in Nat /\ Len(E) \in Nat
      /\ \A i \in 1 .. Len(ak) : u[i] = ak[i] /\ i \in 1 .. Len(u)
      /\ \A i \in 1 .. Len(u) :
           (i \in 1 .. Len(ak)) \/ (i - Len(ak) \in 1 .. Len(E) /\ u[i] = E[i - Len(ak)] /\ i > Len(ak))
  BY ConcatParts
<1>2. (\A i \in 1 .. Len(ak) : ak[i] \in Answers) /\ (\A i \in 1 .. Len(E) : E[i] \in Answers)
  BY DEF Joined
<1>3. ASSUME NEW i \in 1 .. Len(u), NEW j \in 1 .. Len(u), i < j, own[u[i].ref] \in Key,
             own[u[i].ref] = own[u[j].ref]
      PROVE  MayFollow(u[i], u[j])
  <2>1. CASE j \in 1 .. Len(ak)
    <3>1. i \in 1 .. Len(ak)
      BY <2>1, <1>1, <1>3
    <3>2. u[i] = ak[i] /\ u[j] = ak[j]
      BY <2>1, <3>1, <1>1
    <3> QED
      BY <2>1, <3>1, <3>2, <1>3 DEF Ordered
  <2>2. CASE j \notin 1 .. Len(ak)
    <3>1. j - Len(ak) \in 1 .. Len(E) /\ u[j] = E[j - Len(ak)]
      BY <2>2, <1>1
    <3>2. CASE i \in 1 .. Len(ak)
      <4>1. u[i] = ak[i] /\ u[i] \in AcksOf(ak, own, own[u[i].ref])
        BY <3>2, <1>1, <1>2 DEF AcksOf
      <4>2. u[j] \in AcksOf(E, own, own[u[i].ref])
        BY <3>1, <1>2, <1>3 DEF AcksOf
      <4> QED
        BY <4>1, <4>2, <1>3
    <3>3. CASE i \notin 1 .. Len(ak)
      <4>1. i - Len(ak) \in 1 .. Len(E) /\ u[i] = E[i - Len(ak)]
        BY <3>3, <1>1
      <4>2. i - Len(ak) < j - Len(ak)
        BY <1>1, <1>3
      <4> QED
        BY <4>1, <4>2, <3>1, <1>3 DEF Ordered
    <3> QED
      BY <3>2, <3>3
  <2> QED
    BY <2>1, <2>2
<1> QED
  BY <1>3 DEF Ordered

\* Answers appended to a session that is typed.
LEMMA TypedAppended ==
  ASSUME NEW ak, NEW q, NEW own, SessionTyped(ak, q, own), NEW E, NEW u, Joined(u, ak, E, Answers),
         \A i \in 1 .. Len(E) : E[i].ref \in DOMAIN own
  PROVE  SessionTyped(u, q, own)
<1>1. /\ ak \in Seq(Answers) /\ \A i \in 1 .. Len(ak) : ak[i].ref \in DOMAIN own
  BY DEF SessionTyped
<1>2. /\ u \in Seq(Answers)
      /\ \A i \in 1 .. Len(ak) : u[i] = ak[i]
      /\ \A i \in 1 .. Len(u) :
           (i \in 1 .. Len(ak)) \/ (i - Len(ak) \in 1 .. Len(E) /\ u[i] = E[i - Len(ak)] /\ i > Len(ak))
  BY <1>1, ConcatParts
<1>3. \A i \in 1 .. Len(u) : u[i].ref \in DOMAIN own
  BY <1>1, <1>2
<1> QED
  BY <1>2, <1>3 DEF SessionTyped

\* Orders are filled: f[k] shares of the one of k, told by the answers E.
AllFilled(v, v2, f, E, own) ==
  /\ f \in [Key -> Nat] /\ \A k \in Key : f[k] <= v[k].qty
  /\ \A k \in Key : v2[k] = Take(v[k], f[k])
  /\ E \in Seq(Answers)
  /\ \A i \in 1 .. Len(E) :
       /\ E[i].type = "Executed" /\ E[i].qty > 0
       /\ E[i].ref \in DOMAIN own
       /\ \A k \in Key : own[E[i].ref] = k => Holds(v[k], E[i].ref)
  /\ \A k \in Key : \A r \in RefsOf(own, k) :
       Shares(E, Leaving(r)) = IF Holds(v[k], r) THEN f[k] ELSE 0

\* Fills of any of the resting client orders, told in any number of answers, keep the session's
\* invariants.
LEMMA SessionFilled ==
  ASSUME NEW v, NEW s, NEW ak, NEW q, NEW own, Safe(v, s, ak, q, own),
         NEW v2, NEW f, NEW E, AllFilled(v, v2, f, E, own),
         NEW u, Joined(u, ak, E, Answers)
  PROVE  /\ Safe(v2, s, u, q, own)
         /\ Exact(v, s, ak, q, own) => Exact(v2, s, u, q, own)
         /\ Orderly(s, ak, q, own) => Orderly(s, u, q, own)
<1> USE DEF AllFilled
<1>1. /\ SessionTyped(ak, q, own) /\ Ordered(ak, own) /\ ak \in Seq(Answers)
      /\ \A k \in Key : KeyAt(v, s, ak, q, own, k)
  BY SafeParts
<1>0. Joined(u, ak, E, Answers)
  OBVIOUS
<1>2. SessionTyped(u, q, own)
  BY <1>0, <1>1, TypedAppended
<1>3. u \in Seq(Answers)
  BY <1>2 DEF SessionTyped
<1>4. \A k : AcksOf(u, own, k) = AcksOf(ak, own, k) \cup AcksOf(E, own, k)
  BY <1>0, AcksAppended
<1>5. \A R : (\A r \in R : Due(u, R)[r] = Due(ak, R)[r] + Shares(E, Leaving(r))) /\ Due(u, R) \in [R -> Nat]
  <2>1. \A R : \A r \in R : Due(u, R)[r] = Due(ak, R)[r] + Shares(E, Leaving(r))
    BY <1>0, DueAppended
  <2>2. \A R : Due(u, R) \in [R -> Nat]
    BY <1>3, DueFacts
  <2> QED
    BY <2>1, <2>2
<1>6. ASSUME NEW k \in Key
      PROVE  /\ KeyAt(v2, s, u, q, own, k)
             /\ \A a \in AcksOf(ak, own, k), e \in AcksOf(E, own, k) : MayFollow(a, e)
             /\ \A d \in AcksOf(E, own, k), e \in AcksOf(E, own, k) : MayFollow(d, e)
             /\ ExactAt(v, s, ak, q, own, k) => ExactAt(v2, s, u, q, own, k)
             /\ KeyOrderly(s[k], AcksOf(ak, own, k), AsksOf(q, own, k)) =>
                KeyOrderly(s[k], AcksOf(u, own, k), AsksOf(q, own, k))
  <2> DEFINE c == v[k]
             c2 == v2[k]
             sk == s[k]
             A == AcksOf(ak, own, k)
             Q == AsksOf(q, own, k)
             R == RefsOf(own, k)
             T == Due(ak, R)
             F == AcksOf(E, own, k)
             A2 == AcksOf(u, own, k)
             T2 == Due(u, R)
             fk == f[k]
  <2>1. KeyInv(c, sk, A, Q, R, T)
    BY <1>1 DEF KeyAt
  <2>2. fk \in Nat /\ fk <= c.qty /\ c2 = Take(c, fk)
    OBVIOUS
  <2>3. F \in SUBSET Answers /\ \A e \in F : e.type = "Executed" /\ e.qty > 0 /\ Holds(c, e.ref)
    BY DEF AcksOf
  <2>4. A2 = A \cup F
    BY <1>4
  <2>5. T2 \in [R -> Nat] /\ \A r \in R : T2[r] = T[r] + Shares(E, Leaving(r))
    BY <1>5
  <2>6. \A r \in R : T2[r] = T[r] + (IF Holds(c, r) THEN fk ELSE 0)
    BY <2>5
  <2> HIDE DEF c, c2, sk, A, Q, R, T, F, A2, T2, fk
  <2>7. FilledBy(fk, F, c, c2, A, A2, R, T, T2)
    BY <2>2, <2>3, <2>4, <2>5, <2>6 DEF FilledBy
  <2>8. /\ KeyInv(c2, sk, A2, Q, R, T2)
        /\ \A a \in A, e \in F : MayFollow(a, e)
        /\ \A d \in F, e \in F : MayFollow(d, e)
        /\ KeyExact(c, sk, A, Q, T) => KeyExact(c2, sk, A2, Q, T2)
        /\ KeyOrderly(sk, A, Q) => KeyOrderly(sk, A2, Q)
    BY ONLY OrderFilled, <2>1, <2>7
  <2> QED
    BY <2>8 DEF KeyAt, ExactAt, c, c2, sk, A, Q, R, T, F, A2, T2
<1>7. Ordered(E, own)
  <2>1. ASSUME NEW i \in 1 .. Len(E), NEW j \in 1 .. Len(E), own[E[i].ref] \in Key,
               own[E[i].ref] = own[E[j].ref]
        PROVE  MayFollow(E[i], E[j])
    <3>1. E[i] \in AcksOf(E, own, own[E[i].ref]) /\ E[j] \in AcksOf(E, own, own[E[i].ref])
      BY <2>1 DEF AcksOf
    <3> QED
      BY <3>1, <2>1, <1>6
  <2> QED
    BY <2>1 DEF Ordered
<1>8. Ordered(u, own)
  BY <1>0, <1>1, <1>6, <1>7, OrderedAppended
<1>9. ASSUME Orderly(s, ak, q, own), NEW k \in Key PROVE OrderlyAt(s, u, q, own, k)
  <2>1. OrderlyAt(s, ak, q, own, k)
    BY <1>9 DEF Orderly
  <2>2. /\ \A i \in 1 .. Len(ak) : u[i] = ak[i]
        /\ \A i \in 1 .. Len(u) :
             (i \in 1 .. Len(ak)) \/ (i - Len(ak) \in 1 .. Len(E) /\ u[i] = E[i - Len(ak)] /\ i > Len(ak))
    BY <1>0, ConcatParts
  <2>3. ASSUME NEW i \in 1 .. Len(u), u[i].type # "Executed" PROVE i \in 1 .. Len(ak)
    <3>1. \A j \in 1 .. Len(E) : E[j].type = "Executed"
      OBVIOUS
    <3> QED
      BY ONLY <3>1, <2>2, <2>3
  <2> QED
    BY <2>1, <2>2, <2>3, <1>6 DEF OrderlyAt
<1> QED
  BY <1>2, <1>6, <1>8, <1>9 DEF Safe, Exact, Orderly

\* The first request m of q is answered with e.
Replies(e, m, q, q2, ak, u) ==
  /\ q # << >> /\ m = Head(q) /\ q2 = Tail(q)
  /\ e \in Answers /\ e.ref = m.ref
  /\ u = ak \o <<e>>

\* What a reply changes: for the quote that asked, and for the others nothing.
LEMMA ReplyParts ==
  ASSUME NEW v, NEW s, NEW ak, NEW q, NEW own, Safe(v, s, ak, q, own),
         NEW e, NEW m, NEW q2, NEW u, Replies(e, m, q, q2, ak, u)
  PROVE  /\ m \in Asks /\ m.ref \in DOMAIN own /\ m = q[1] /\ 1 \in 1 .. Len(q)
         /\ Joined(u, ak, <<e>>, Answers)
         /\ SessionTyped(u, q2, own)
         /\ \A k : own[m.ref] # k =>
              /\ AcksOf(u, own, k) = AcksOf(ak, own, k) /\ AsksOf(q2, own, k) = AsksOf(q, own, k)
              /\ Due(u, RefsOf(own, k)) = Due(ak, RefsOf(own, k))
         /\ \A k : own[m.ref] = k =>
              /\ AcksOf(u, own, k) = AcksOf(ak, own, k) \cup {e}
              /\ Popped(AsksOf(q, own, k), AsksOf(q2, own, k), m)
         /\ \A R : Due(u, R) \in [R -> Nat] /\
              \A r \in R : Due(u, R)[r] =
                Due(ak, R)[r] + (IF e.ref = r /\ e.type \in {"Executed", "Canceled"} THEN e.qty ELSE 0)
<1>1. /\ SessionTyped(ak, q, own) /\ ak \in Seq(Answers) /\ q \in Seq(Asks)
      /\ \A i \in 1 .. Len(q) : q[i] \in Asks /\ q[i].ref \in DOMAIN own
  BY SafeParts
<1>2. /\ q # << >> /\ m = Head(q) /\ q2 = Tail(q) /\ e \in Answers /\ e.ref = m.ref /\ u = ak \o <<e>>
  BY DEF Replies
<1>3. Joined(u, ak, <<e>>, Answers)
  BY <1>1, <1>2 DEF Joined
<1>4. /\ q2 \in Seq(Asks) /\ Len(q2) = Len(q) - 1 /\ m = q[1] /\ 1 \in 1 .. Len(q) /\ Len(q) \in Nat
      /\ \A i \in 1 .. Len(q2) : q2[i] = q[i + 1] /\ i + 1 \in 2 .. Len(q) /\ i + 1 \in 1 .. Len(q)
  BY <1>1, <1>2, TailParts
<1>5. m \in Asks /\ m.ref \in DOMAIN own
  BY <1>1, <1>4
<1>6. SessionTyped(ak, q2, own)
  <2>0. /\ \A i \in 1 .. Len(q) :
             /\ q[i].ref \in DOMAIN own
             /\ q[i].type = "EnterOrder" => q[i].key = own[q[i].ref]
             /\ own[q[i].ref] = TestKey => q[i].type = "EnterOrder"
        /\ \A i, j \in 1 .. Len(q) : New(q[i]) /\ New(q[j]) /\ q[i].ref = q[j].ref => i = j
    BY <1>1 DEF SessionTyped
  <2>1. ASSUME NEW i \in 1 .. Len(q2)
        PROVE  /\ q2[i].ref \in DOMAIN own
               /\ q2[i].type = "EnterOrder" => q2[i].key = own[q2[i].ref]
               /\ own[q2[i].ref] = TestKey => q2[i].type = "EnterOrder"
    <3>1. q2[i] = q[i + 1] /\ i + 1 \in 1 .. Len(q)
      BY <1>4
    <3> QED
      BY ONLY <3>1, <2>0
  <2>2. ASSUME NEW i \in 1 .. Len(q2), NEW j \in 1 .. Len(q2), New(q2[i]), New(q2[j]), q2[i].ref = q2[j].ref
        PROVE  i = j
    <3>1. q2[i] = q[i + 1] /\ i + 1 \in 1 .. Len(q) /\ q2[j] = q[j + 1] /\ j + 1 \in 1 .. Len(q)
      BY <1>4
    <3>2. i + 1 = j + 1
      BY ONLY <3>1, <2>0, <2>2
    <3> QED
      BY <3>2
  <2> QED
    BY <2>1, <2>2, <1>1, <1>4 DEF SessionTyped
<1>7. <<e>> \in Seq(Answers) /\ Len(<<e>>) = 1 /\ <<e>>[1] = e /\ \A i \in 1 .. Len(<<e>>) : i = 1
  BY <1>2
<1>8. SessionTyped(u, q2, own)
  <2>1. \A i \in 1 .. Len(<<e>>) : <<e>>[i].ref \in DOMAIN own
    BY <1>7, <1>5, <1>2
  <2> QED
    BY <2>1, <1>3, <1>6, TypedAppended
<1>9. \A k : AcksOf(<<e>>, own, k) = IF own[m.ref] = k THEN {e} ELSE {}
  BY <1>2, <1>7 DEF AcksOf
<1>10. \A k : AcksOf(u, own, k) = AcksOf(ak, own, k) \cup (IF own[m.ref] = k THEN {e} ELSE {})
  <2>1. \A k : AcksOf(u, own, k) = AcksOf(ak, own, k) \cup AcksOf(<<e>>, own, k)
    BY <1>3, AcksAppended
  <2> QED
    BY <2>1, <1>9
<1>11. \A R : \A r \in R : Due(u, R)[r] =
         Due(ak, R)[r] + (IF e.ref = r /\ e.type \in {"Executed", "Canceled"} THEN e.qty ELSE 0)
  <2>1. \A R : \A r \in R : Due(u, R)[r] = Due(ak, R)[r] + Shares(<<e>>, Leaving(r))
    BY <1>3, DueAppended
  <2>2. \A r : Shares(<<e>>, Leaving(r)) = IF e \in Leaving(r) THEN e.qty ELSE 0
    BY <1>2, SharesOne
  <2>3. \A r : e \in Leaving(r) <=> e.ref = r /\ e.type \in {"Executed", "Canceled"}
    BY <1>2 DEF Leaving
  <2> QED
    BY <2>1, <2>2, <2>3
<1>12. \A R : Due(u, R) \in [R -> Nat] /\ Due(ak, R) \in [R -> Nat]
  BY <1>8, <1>1, DueFacts DEF SessionTyped
<1>13. ASSUME NEW k, own[m.ref] # k
       PROVE  /\ AcksOf(u, own, k) = AcksOf(ak, own, k) /\ AsksOf(q2, own, k) = AsksOf(q, own, k)
              /\ Due(u, RefsOf(own, k)) = Due(ak, RefsOf(own, k))
  <2>1. AcksOf(u, own, k) = AcksOf(ak, own, k)
    BY <1>10, <1>13
  <2>2. AsksOf(q2, own, k) = AsksOf(q, own, k)
    BY <1>1, <1>2, <1>13, AsksTail
  <2> DEFINE R == RefsOf(own, k)
  <2>3. \A r \in R : e.ref # r
    BY <1>2, <1>13 DEF RefsOf
  <2> HIDE DEF R
  <2>4. \A r \in R : Due(u, R)[r] = Due(ak, R)[r] + 0
    BY <1>11, <2>3
  <2>5. \A r \in R : Due(u, R)[r] = Due(ak, R)[r]
    BY <2>4, <1>12
  <2>6. Due(u, R) = Due(ak, R)
    BY <2>5, <1>12
  <2> QED
    BY <2>1, <2>2, <2>6 DEF R
<1>14. ASSUME NEW k, own[m.ref] = k PROVE Popped(AsksOf(q, own, k), AsksOf(q2, own, k), m)
  <2>1. AsksOf(q, own, k) = AsksOf(q2, own, k) \cup {m}
    BY <1>1, <1>2, <1>14, AsksTail
  <2>2. ASSUME New(m), NEW n \in AsksOf(q2, own, k), New(n) PROVE n.ref # m.ref
    <3>1. PICK i \in 1 .. Len(q2) : q2[i] = n
      BY <2>2 DEF AsksOf
    <3>2. q[i + 1] = n /\ i + 1 \in 1 .. Len(q) /\ i + 1 # 1
      BY <3>1, <1>4
    <3> QED
      BY <3>2, <2>2, <1>1, <1>4 DEF SessionTyped
  <2> QED
    BY <2>1, <2>2 DEF Popped
<1> QED
  BY <1>3, <1>4, <1>5, <1>8, <1>10, <1>11, <1>12, <1>13, <1>14

\* A request is answered, and its quote is as it should be afterwards.
LEMMA Replied ==
  ASSUME NEW v, NEW s, NEW ak, NEW q, NEW own, Safe(v, s, ak, q, own),
         NEW e, NEW m, NEW q2, NEW u, Replies(e, m, q, q2, ak, u), e.type # "Executed",
         NEW k, k = own[m.ref], NEW v2, \A j \in Key : j # k => v2[j] = v[j],
         k \in Key => /\ KeyAt(v2, s, u, q2, own, k)
                      /\ \A a \in AcksOf(ak, own, k) : MayFollow(a, e)
  PROVE  /\ Safe(v2, s, u, q2, own)
         /\ Exact(v, s, ak, q, own) /\ (k \in Key => ExactAt(v2, s, u, q2, own, k)) =>
              Exact(v2, s, u, q2, own)
         /\ Orderly(s, ak, q, own) /\ k \in Key => AsksOf(q2, own, k) = {}
         /\ /\ Orderly(s, ak, q, own)
            /\ k \in Key => KeyOrderly(s[k], AcksOf(u, own, k), AsksOf(q2, own, k))
            => Orderly(s, u, q2, own)
<1>1. /\ m \in Asks /\ m.ref \in DOMAIN own /\ m = q[1] /\ 1 \in 1 .. Len(q)
      /\ Joined(u, ak, <<e>>, Answers)
      /\ SessionTyped(u, q2, own)
      /\ \A j : k # j =>
           /\ AcksOf(u, own, j) = AcksOf(ak, own, j) /\ AsksOf(q2, own, j) = AsksOf(q, own, j)
           /\ Due(u, RefsOf(own, j)) = Due(ak, RefsOf(own, j))
  BY ReplyParts
<1>2. /\ Ordered(ak, own) /\ ak \in Seq(Answers) /\ q \in Seq(Asks)
      /\ \A j \in Key : KeyAt(v, s, ak, q, own, j)
  BY SafeParts
<1>3. /\ q # << >> /\ m = Head(q) /\ q2 = Tail(q) /\ e \in Answers /\ e.ref = m.ref
  BY DEF Replies
<1>4. <<e>> \in Seq(Answers) /\ Len(<<e>>) = 1 /\ <<e>>[1] = e /\ \A i \in 1 .. Len(<<e>>) : i = 1
  BY <1>3
<1>5. Ordered(u, own)
  <2>1. Ordered(<<e>>, own)
    BY <1>4 DEF Ordered
  <2>2. \A j : AcksOf(<<e>>, own, j) = IF k = j THEN {e} ELSE {}
    BY <1>3, <1>4 DEF AcksOf
  <2>3. \A j \in Key : \A a \in AcksOf(ak, own, j), b \in AcksOf(<<e>>, own, j) : MayFollow(a, b)
    BY <2>2
  <2> QED
    BY <2>1, <2>3, <1>1, <1>2, OrderedAppended
<1>6. ASSUME NEW j \in Key, j # k
      PROVE  /\ KeyAt(v2, s, u, q2, own, j)
             /\ ExactAt(v, s, ak, q, own, j) => ExactAt(v2, s, u, q2, own, j)
             /\ KeyOrderly(s[j], AcksOf(ak, own, j), AsksOf(q, own, j)) =>
                KeyOrderly(s[j], AcksOf(u, own, j), AsksOf(q2, own, j))
  <2>1. /\ AcksOf(u, own, j) = AcksOf(ak, own, j) /\ AsksOf(q2, own, j) = AsksOf(q, own, j)
        /\ Due(u, RefsOf(own, j)) = Due(ak, RefsOf(own, j))
    BY <1>1, <1>6
  <2>2. v2[j] = v[j] /\ KeyAt(v, s, ak, q, own, j)
    BY <1>2, <1>6
  <2> QED
    BY <2>1, <2>2 DEF KeyAt, ExactAt
<1>7. /\ Len(q2) = Len(q) - 1 /\ Len(q) \in Nat
      /\ \A i \in 1 .. Len(q2) : q2[i] = q[i + 1] /\ i + 1 \in 2 .. Len(q) /\ i + 1 \in 1 .. Len(q)
  BY <1>2, <1>3, TailParts
<1>8. /\ Len(ak) \in Nat
      /\ \A i \in 1 .. Len(ak) : u[i] = ak[i]
      /\ \A i \in 1 .. Len(u) : (i \in 1 .. Len(ak)) \/ (i = Len(ak) + 1 /\ u[i] = e)
  <2>1. /\ Len(ak) \in Nat
        /\ \A i \in 1 .. Len(ak) : u[i] = ak[i]
        /\ \A i \in 1 .. Len(u) : (i \in 1 .. Len(ak)) \/
             (i - Len(ak) \in 1 .. Len(<<e>>) /\ u[i] = <<e>>[i - Len(ak)] /\ i > Len(ak))
    BY <1>1, ConcatParts
  <2>2. ASSUME NEW i \in 1 .. Len(u), i \notin 1 .. Len(ak) PROVE i = Len(ak) + 1 /\ u[i] = e
    <3>1. i - Len(ak) = 1 /\ u[i] = <<e>>[i - Len(ak)]
      BY <2>1, <2>2, <1>4
    <3> QED
      BY <3>1, <2>1, <1>4
  <2> QED
    BY <2>1, <2>2
<1>9. ASSUME Orderly(s, ak, q, own), k \in Key PROVE \A i \in 1 .. Len(q2) : own[q2[i].ref] # k
  <2>1. OrderlyAt(s, ak, q, own, k)
    BY <1>9 DEF Orderly
  <2>2. \A i \in 1 .. Len(q) : own[q[i].ref] = k => i = 1
    BY <2>1, <1>1 DEF OrderlyAt
  <2> QED
    BY <2>2, <1>7
<1>10. ASSUME Orderly(s, ak, q, own), k \in Key PROVE AsksOf(q2, own, k) = {}
  BY <1>9, <1>10 DEF AsksOf
<1>11. ASSUME Orderly(s, ak, q, own), NEW j \in Key,
              j = k => KeyOrderly(s[k], AcksOf(u, own, k), AsksOf(q2, own, k))
       PROVE  OrderlyAt(s, u, q2, own, j)
  <2>1. OrderlyAt(s, ak, q, own, j)
    BY <1>11 DEF Orderly
  <2>2. KeyOrderly(s[j], AcksOf(u, own, j), AsksOf(q2, own, j))
    BY <2>1, <1>6, <1>11 DEF OrderlyAt
  <2>3. ASSUME NEW i \in 1 .. Len(q2), NEW n \in 1 .. Len(q2), own[q2[i].ref] = j, own[q2[n].ref] = j
        PROVE  i = n
    <3>1. q2[i] = q[i + 1] /\ i + 1 \in 1 .. Len(q) /\ q2[n] = q[n + 1] /\ n + 1 \in 1 .. Len(q)
      BY <1>7
    <3>2. \A y, z \in 1 .. Len(q) : own[q[y].ref] = j /\ own[q[z].ref] = j => y = z
      BY <2>1 DEF OrderlyAt
    <3>3. i + 1 = n + 1
      BY ONLY <3>1, <3>2, <2>3
    <3> QED
      BY <3>3
  <2>4. ASSUME NEW i \in 1 .. Len(u), NEW n \in 1 .. Len(u), own[u[i].ref] = j, own[u[n].ref] = j,
               u[i].type # "Executed", u[n].type # "Executed"
        PROVE  i = n
    <3>1. CASE j # k
      <4>1. i \in 1 .. Len(ak) /\ n \in 1 .. Len(ak)
        BY <3>1, <2>4, <1>3, <1>8
      <4> QED
        BY <4>1, <2>1, <2>4, <1>8 DEF OrderlyAt
    <3>2. CASE j = k
      <4>1. m \in AsksOf(q, own, k)
        BY <1>1 DEF AsksOf
      <4>2. \A a \in AcksOf(ak, own, k) : a.type = "Executed"
        BY <2>1, <3>2, <4>1 DEF OrderlyAt, KeyOrderly
      <4>3. \A z \in 1 .. Len(ak) : own[ak[z].ref] = k => ak[z].type = "Executed"
        BY <4>2, <1>2 DEF AcksOf
      <4>4. i \notin 1 .. Len(ak) /\ n \notin 1 .. Len(ak)
        BY <4>3, <3>2, <2>4, <1>8
      <4> QED
        BY <4>4, <1>8
    <3> QED
      BY <3>1, <3>2
  <2> QED
    BY <2>2, <2>3, <2>4 DEF OrderlyAt
<1>12. Safe(v2, s, u, q2, own)
  BY <1>1, <1>5, <1>6 DEF Safe
<1>13. ASSUME Exact(v, s, ak, q, own), k \in Key => ExactAt(v2, s, u, q2, own, k)
       PROVE  Exact(v2, s, u, q2, own)
  BY <1>13, <1>6 DEF Exact
<1> QED
  BY <1>10, <1>11, <1>12, <1>13 DEF Orderly

\* The answer a leaves the front of the answers.
Leaves(a, ak, t) == ak # << >> /\ a = Head(ak) /\ t = Tail(ak)

\* What is left of the answers, of all and of each quote, once the oldest is taken.
LEMMA LeavesParts ==
  ASSUME NEW v, NEW s, NEW ak, NEW q, NEW own, Safe(v, s, ak, q, own),
         NEW a, NEW t, Leaves(a, ak, t)
  PROVE  /\ a \in Answers /\ a.ref \in DOMAIN own
         /\ Len(ak) \in Nat /\ Len(t) = Len(ak) - 1 /\ a = ak[1] /\ 1 \in 1 .. Len(ak)
         /\ \A i \in 1 .. Len(t) : t[i] = ak[i + 1] /\ i + 1 \in 2 .. Len(ak) /\ i + 1 \in 1 .. Len(ak)
         /\ SessionTyped(t, q, own) /\ Ordered(t, own)
         /\ \A k : own[a.ref] # k =>
              AcksOf(t, own, k) = AcksOf(ak, own, k) /\ Due(t, RefsOf(own, k)) = Due(ak, RefsOf(own, k))
         /\ \A k \in Key : own[a.ref] = k =>
              Heard(a, AcksOf(ak, own, k), AcksOf(t, own, k), RefsOf(own, k),
                    Due(ak, RefsOf(own, k)), Due(t, RefsOf(own, k)))
<1>1. /\ SessionTyped(ak, q, own) /\ Ordered(ak, own) /\ ak \in Seq(Answers)
      /\ \A i \in 1 .. Len(ak) : ak[i] \in Answers /\ ak[i].ref \in DOMAIN own
  BY SafeParts
<1>2. ak # << >> /\ a = Head(ak) /\ t = Tail(ak)
  BY DEF Leaves
<1>3. /\ t \in Seq(Answers) /\ Len(t) = Len(ak) - 1 /\ a = ak[1] /\ 1 \in 1 .. Len(ak) /\ Len(ak) \in Nat
      /\ \A i \in 1 .. Len(t) : t[i] = ak[i + 1] /\ i + 1 \in 2 .. Len(ak) /\ i + 1 \in 1 .. Len(ak)
  BY <1>1, <1>2, TailParts
<1>4. a \in Answers /\ a.ref \in DOMAIN own
  BY <1>1, <1>3
<1>5. \A i \in 1 .. Len(t) : t[i] \in Answers /\ t[i].ref \in DOMAIN own
  BY <1>1, <1>3
<1>6. SessionTyped(t, q, own)
  BY <1>1, <1>3, <1>5 DEF SessionTyped
<1>7. Ordered(t, own)
  <2>1. ASSUME NEW i \in 1 .. Len(t), NEW j \in 1 .. Len(t), i < j, own[t[i].ref] \in Key,
               own[t[i].ref] = own[t[j].ref]
        PROVE  MayFollow(t[i], t[j])
    <3>1. /\ t[i] = ak[i + 1] /\ i + 1 \in 1 .. Len(ak) /\ t[j] = ak[j + 1] /\ j + 1 \in 1 .. Len(ak)
          /\ i + 1 < j + 1
      BY <1>3, <2>1
    <3> QED
      BY <3>1, <2>1, <1>1 DEF Ordered
  <2> QED
    BY <2>1 DEF Ordered
<1>8. ASSUME NEW k, own[a.ref] # k
      PROVE  AcksOf(t, own, k) = AcksOf(ak, own, k) /\ Due(t, RefsOf(own, k)) = Due(ak, RefsOf(own, k))
  BY <1>1, <1>2, <1>8, AcksTail
<1>9. ASSUME NEW k \in Key, own[a.ref] = k
      PROVE  Heard(a, AcksOf(ak, own, k), AcksOf(t, own, k), RefsOf(own, k),
                   Due(ak, RefsOf(own, k)), Due(t, RefsOf(own, k)))
  <2> DEFINE A == AcksOf(ak, own, k)
             A2 == AcksOf(t, own, k)
             R == RefsOf(own, k)
             T == Due(ak, R)
             T2 == Due(t, R)
  <2>1. A = A2 \cup {a}
    BY <1>1, <1>2, <1>9, AcksTail
  <2>2. \A r \in R : T2[r] = T[r] - (IF a.ref = r /\ a.type \in {"Executed", "Canceled"} THEN a.qty ELSE 0)
    BY <1>1, <1>2, AcksTail
  <2>3. T2 \in [R -> Nat]
    BY <1>3, DueFacts
  <2>4. ASSUME NEW b \in A2
        PROVE  /\ MayFollow(a, b)
               /\ b.type \in {"Executed", "Canceled"} => b.qty <= T2[b.ref]
    <3>1. PICK i \in 1 .. Len(t) : t[i] = b /\ own[b.ref] = k
      BY <2>4 DEF AcksOf
    <3>2. b = ak[i + 1] /\ i + 1 \in 1 .. Len(ak) /\ 1 < i + 1
      BY <3>1, <1>3
    <3>3. MayFollow(a, b)
      BY <3>1, <3>2, <1>1, <1>3, <1>9 DEF Ordered
    <3>4. b.ref \in R
      BY <3>1, <1>5 DEF RefsOf
    <3>5. \A j \in 1 .. Len(t) : t[j].type \in {"Executed", "Canceled"} /\ t[j].ref \in R =>
            t[j].qty <= Due(t, R)[t[j].ref]
      BY <1>3, DueFacts
    <3> QED
      BY <3>1, <3>3, <3>4, <3>5
  <2> QED
    BY <2>1, <2>2, <2>3, <2>4 DEF Heard
<1> QED
  BY <1>3, <1>4, <1>6, <1>7, <1>8, <1>9

\* An answer is gone, and the quote it was for is as it should be.
LEMMA HeardBy ==
  ASSUME NEW v, NEW s, NEW ak, NEW q, NEW own, Safe(v, s, ak, q, own),
         NEW a, NEW t, Leaves(a, ak, t),
         NEW k, k = own[a.ref], NEW s2, \A j \in Key : j # k => s2[j] = s[j],
         k \in Key => KeyAt(v, s2, t, q, own, k)
  PROVE  /\ Safe(v, s2, t, q, own)
         /\ Exact(v, s, ak, q, own) /\ (k \in Key => ExactAt(v, s2, t, q, own, k)) =>
              Exact(v, s2, t, q, own)
         /\ Orderly(s, ak, q, own) /\ k \in Key /\ a.type # "Executed" =>
              \A b \in AcksOf(t, own, k) : b.type = "Executed"
         /\ /\ Orderly(s, ak, q, own)
            /\ k \in Key => KeyOrderly(s2[k], AcksOf(t, own, k), AsksOf(q, own, k))
            => Orderly(s2, t, q, own)
<1>1. /\ a \in Answers /\ a.ref \in DOMAIN own
      /\ Len(ak) \in Nat /\ Len(t) = Len(ak) - 1 /\ a = ak[1] /\ 1 \in 1 .. Len(ak)
      /\ \A i \in 1 .. Len(t) : t[i] = ak[i + 1] /\ i + 1 \in 2 .. Len(ak) /\ i + 1 \in 1 .. Len(ak)
      /\ SessionTyped(t, q, own) /\ Ordered(t, own)
      /\ \A j : k # j =>
           AcksOf(t, own, j) = AcksOf(ak, own, j) /\ Due(t, RefsOf(own, j)) = Due(ak, RefsOf(own, j))
  BY LeavesParts
<1>2. \A j \in Key : KeyAt(v, s, ak, q, own, j)
  BY SafeParts
<1>3. ASSUME NEW j \in Key, j # k
      PROVE  /\ KeyAt(v, s2, t, q, own, j)
             /\ ExactAt(v, s, ak, q, own, j) => ExactAt(v, s2, t, q, own, j)
             /\ KeyOrderly(s[j], AcksOf(ak, own, j), AsksOf(q, own, j)) =>
                KeyOrderly(s2[j], AcksOf(t, own, j), AsksOf(q, own, j))
  <2>1. AcksOf(t, own, j) = AcksOf(ak, own, j) /\ Due(t, RefsOf(own, j)) = Due(ak, RefsOf(own, j))
    BY <1>1, <1>3
  <2>2. s2[j] = s[j] /\ KeyAt(v, s, ak, q, own, j)
    BY <1>2, <1>3
  <2> QED
    BY <2>1, <2>2 DEF KeyAt, ExactAt
<1>4. Safe(v, s2, t, q, own)
  BY <1>1, <1>3 DEF Safe
<1>5. ASSUME Exact(v, s, ak, q, own), k \in Key => ExactAt(v, s2, t, q, own, k)
      PROVE  Exact(v, s2, t, q, own)
  BY <1>5, <1>3 DEF Exact
<1>6. ASSUME Orderly(s, ak, q, own), k \in Key, a.type # "Executed"
      PROVE  \A b \in AcksOf(t, own, k) : b.type = "Executed"
  <2>1. \A i, j \in 1 .. Len(ak) :
          /\ own[ak[i].ref] = k /\ own[ak[j].ref] = k
          /\ ak[i].type # "Executed" /\ ak[j].type # "Executed"
          => i = j
    BY <1>6 DEF Orderly, OrderlyAt
  <2>2. ASSUME NEW b \in AcksOf(t, own, k), b.type # "Executed" PROVE FALSE
    <3>1. PICK i \in 1 .. Len(t) : t[i] = b /\ own[b.ref] = k
      BY <2>2 DEF AcksOf
    <3>2. b = ak[i + 1] /\ i + 1 \in 1 .. Len(ak) /\ 1 # i + 1
      BY <3>1, <1>1
    <3> QED
      BY <3>1, <3>2, <2>1, <2>2, <1>1, <1>6
  <2> QED
    BY <2>2
<1>7. ASSUME Orderly(s, ak, q, own), NEW j \in Key,
             j = k => KeyOrderly(s2[k], AcksOf(t, own, k), AsksOf(q, own, k))
      PROVE  OrderlyAt(s2, t, q, own, j)
  <2>1. OrderlyAt(s, ak, q, own, j)
    BY <1>7 DEF Orderly
  <2>2. KeyOrderly(s2[j], AcksOf(t, own, j), AsksOf(q, own, j))
    BY <2>1, <1>3, <1>7 DEF OrderlyAt
  <2>3. \A x, y \in 1 .. Len(ak) :
          /\ own[ak[x].ref] = j /\ own[ak[y].ref] = j
          /\ ak[x].type # "Executed" /\ ak[y].type # "Executed"
          => x = y
    BY <2>1 DEF OrderlyAt
  <2>4. ASSUME NEW i \in 1 .. Len(t), NEW n \in 1 .. Len(t), own[t[i].ref] = j, own[t[n].ref] = j,
               t[i].type # "Executed", t[n].type # "Executed"
        PROVE  i = n
    <3>1. t[i] = ak[i + 1] /\ i + 1 \in 1 .. Len(ak) /\ t[n] = ak[n + 1] /\ n + 1 \in 1 .. Len(ak)
      BY <1>1
    <3>2. i + 1 = n + 1
      BY ONLY <3>1, <2>3, <2>4
    <3> QED
      BY <3>2
  <2> QED
    BY <2>1, <2>2, <2>4 DEF OrderlyAt
<1> QED
  BY <1>4, <1>5, <1>6, <1>7 DEF Orderly

\* An answer is lost, or is for no slot.
LEMMA AnswerLost ==
  ASSUME NEW v, NEW s, NEW ak, NEW q, NEW own, Safe(v, s, ak, q, own),
         NEW a, NEW t, Leaves(a, ak, t)
  PROVE  Safe(v, s, t, q, own)
<1> DEFINE k == own[a.ref]
<1>1. ASSUME k \in Key PROVE KeyAt(v, s, t, q, own, k)
  <2> DEFINE c == v[k]
             sk == s[k]
             A == AcksOf(ak, own, k)
             A2 == AcksOf(t, own, k)
             Q == AsksOf(q, own, k)
             R == RefsOf(own, k)
             T == Due(ak, R)
             T2 == Due(t, R)
  <2>1. Heard(a, A, A2, R, T, T2)
    BY <1>1, LeavesParts
  <2>2. KeyInv(c, sk, A, Q, R, T)
    BY <1>1, SafeParts DEF KeyAt
  <2>3. a \in Answers
    BY LeavesParts
  <2> HIDE DEF c, sk, A, A2, Q, R, T, T2
  <2>4. T \in [R -> Nat]
    BY <2>2 DEF KeyInv, KeyTyped
  <2>5. a.qty \in Nat
    BY <2>3 DEF Answers
  <2>6. A2 \subseteq A /\ T2 \in [R -> Nat] /\ \A r \in R : T2[r] <= T[r]
    BY <2>1, <2>4, <2>5 DEF Heard
  <2>7. KeyInv(c, sk, A2, Q, R, T2)
    BY <2>2, <2>6, AnswersGone
  <2> QED
    BY <2>7 DEF KeyAt, c, sk, A, A2, Q, R, T, T2
<1> HIDE DEF k
<1>2. k = own[a.ref]
  BY DEF k
<1> QED
  BY <1>1, <1>2, HeardBy

\* References are given out: own grows to own2.
Grows(own, own2) ==
  /\ DOMAIN own \subseteq DOMAIN own2 /\ DOMAIN own2 \subseteq Nat \ {0}
  /\ \A r \in DOMAIN own : own2[r] = own[r]
  /\ \A r \in DOMAIN own2 : own2[r] \in Key \cup {TestKey}

\* A quote once references are given out, before anything is asked.
LEMMA GrownKey ==
  ASSUME NEW v, NEW s, NEW ak, NEW q, NEW own, Safe(v, s, ak, q, own), NEW own2, Grows(own, own2),
         NEW k \in Key
  PROVE  /\ AcksOf(ak, own2, k) = AcksOf(ak, own, k) /\ AsksOf(q, own2, k) = AsksOf(q, own, k)
         /\ KeyAt(v, s, ak, q, own2, k)
         /\ ExactAt(v, s, ak, q, own, k) => ExactAt(v, s, ak, q, own2, k)
         /\ \A ref \in RefsOf(own2, k) : ref \notin DOMAIN own =>
              Fresh(v[k], s[k], AcksOf(ak, own2, k), AsksOf(q, own2, k), ref, Due(ak, RefsOf(own2, k)))
<1>1. /\ ak \in Seq(Answers) /\ q \in Seq(Asks) /\ KeyAt(v, s, ak, q, own, k)
      /\ \A i \in 1 .. Len(ak) : ak[i] \in Answers /\ ak[i].ref \in DOMAIN own
      /\ \A i \in 1 .. Len(q) : q[i] \in Asks /\ q[i].ref \in DOMAIN own
  BY SafeParts
<1>2. \A i \in 1 .. Len(ak) : own2[ak[i].ref] = own[ak[i].ref]
  BY <1>1 DEF Grows
<1>3. \A i \in 1 .. Len(q) : own2[q[i].ref] = own[q[i].ref]
  BY <1>1 DEF Grows
<1> DEFINE c == v[k]
           sk == s[k]
           A == AcksOf(ak, own, k)
           Q == AsksOf(q, own, k)
           R == RefsOf(own, k)
           T == Due(ak, R)
           R2 == RefsOf(own2, k)
           T2 == Due(ak, R2)
<1>4. AcksOf(ak, own2, k) = A
  BY <1>2 DEF AcksOf
<1>5. AsksOf(q, own2, k) = Q
  BY <1>3 DEF AsksOf
<1>6. R2 \in SUBSET (Nat \ {0}) /\ R \subseteq R2 /\ \A r \in R2 : r \notin R => r \notin DOMAIN own
  BY DEF RefsOf, Grows
<1>7. T2 \in [R2 -> Nat] /\ \A r \in R : T2[r] = T[r]
  <2>1. T2 \in [R2 -> Nat]
    BY <1>1, DueFacts
  <2>2. \A r \in R : T2[r] = T[r]
    BY <1>6 DEF Due
  <2> QED
    BY <2>1, <2>2
<1>8. \A r \in R2 : r \notin R => T2[r] = 0
  <2>1. \A r \in R2 : (\A i \in 1 .. Len(ak) : ak[i].ref # r) => Due(ak, R2)[r] = 0
    BY <1>1, DueFacts
  <2> QED
    BY <2>1, <1>1, <1>6
<1>9. KeyInv(c, sk, A, Q, R, T)
  BY <1>1 DEF KeyAt
<1>a. ExactAt(v, s, ak, q, own, k) <=> KeyExact(c, sk, A, Q, T)
  BY DEF ExactAt
<1>b. /\ KeyInv(c, sk, A, Q, R2, T2) => KeyAt(v, s, ak, q, own2, k)
      /\ KeyExact(c, sk, A, Q, T2) => ExactAt(v, s, ak, q, own2, k)
  BY <1>4, <1>5 DEF KeyAt, ExactAt
<1>c. \A r \in R : r \in DOMAIN own
  BY DEF RefsOf
<1> HIDE DEF c, sk, A, Q, R, T, R2, T2
<1>10. KeyInv(c, sk, A, Q, R2, T2) /\ (KeyExact(c, sk, A, Q, T) => KeyExact(c, sk, A, Q, T2))
  BY <1>6, <1>7, <1>8, <1>9, GrowKey
<1>11. ASSUME NEW ref \in R2, ref \notin DOMAIN own PROVE Fresh(c, sk, A, Q, ref, T2)
  <2>1. ref \notin R /\ ref # 0 /\ T2[ref] = 0
    BY <1>6, <1>8, <1>c, <1>11
  <2>2. KeyTyped(c, sk, A, Q, R, T) /\ ViewOK(c, sk, R) /\ \A m \in Q : AskOK(c, sk, m, R)
    BY <1>9, KeyInvParts
  <2>3. sk.userRef # ref
    BY <2>1, <2>2 DEF KeyTyped, Good, Settled
  <2>4. ~Holds(c, ref)
    BY <2>1, <2>2 DEF ViewOK, Holds
  <2> QED
    BY <2>1, <2>2, <2>3, <2>4 DEF Fresh, KeyTyped, AskOK
<1> QED
  BY <1>4, <1>5, <1>10, <1>11, <1>a, <1>b DEF c, sk, A, Q, R2, T2

\* The requests p are new to the session and for one quote each.
NewAsks(p, own, own2) ==
  /\ p \in Seq(Asks)
  /\ \A i \in 1 .. Len(p) :
       /\ p[i].ref \in DOMAIN own2
       /\ p[i].type = "EnterOrder" => p[i].key = own2[p[i].ref]
       /\ own2[p[i].ref] = TestKey => p[i].type = "EnterOrder"
       /\ New(p[i]) => p[i].ref \notin DOMAIN own
  /\ \A i, j \in 1 .. Len(p) : own2[p[i].ref] = own2[p[j].ref] => i = j

\* Requests are sent, and the quotes are as they should be afterwards.
LEMMA Asked ==
  ASSUME NEW v, NEW s, NEW ak, NEW q, NEW own, Safe(v, s, ak, q, own), NEW own2, Grows(own, own2),
         NEW p, NewAsks(p, own, own2), NEW q2, Joined(q2, q, p, Asks),
         NEW s2, \A k \in Key : KeyAt(v, s2, ak, q2, own2, k)
  PROVE  /\ Safe(v, s2, ak, q2, own2)
         /\ /\ Orderly(s, ak, q, own)
            /\ \A k \in Key : /\ KeyOrderly(s2[k], AcksOf(ak, own2, k), AsksOf(q2, own2, k))
                              /\ AsksOf(p, own2, k) # {} => AsksOf(q, own, k) = {}
            => Orderly(s2, ak, q2, own2)
<1>1. /\ SessionTyped(ak, q, own) /\ Ordered(ak, own)
      /\ ak \in Seq(Answers) /\ q \in Seq(Asks)
      /\ \A i \in 1 .. Len(ak) : ak[i] \in Answers /\ ak[i].ref \in DOMAIN own
      /\ \A i \in 1 .. Len(q) : q[i] \in Asks /\ q[i].ref \in DOMAIN own
  BY SafeParts
<1>2. /\ p \in Seq(Asks)
      /\ \A i \in 1 .. Len(p) :
           /\ p[i].ref \in DOMAIN own2
           /\ p[i].type = "EnterOrder" => p[i].key = own2[p[i].ref]
           /\ own2[p[i].ref] = TestKey => p[i].type = "EnterOrder"
           /\ New(p[i]) => p[i].ref \notin DOMAIN own
      /\ \A i, j \in 1 .. Len(p) : own2[p[i].ref] = own2[p[j].ref] => i = j
  BY DEF NewAsks
<1>4. /\ q2 \in Seq(Asks) /\ Len(q) \in Nat
      /\ \A i \in 1 .. Len(q) : q2[i] = q[i] /\ i \in 1 .. Len(q2)
      /\ \A i \in 1 .. Len(q2) :
           (i \in 1 .. Len(q)) \/ (i - Len(q) \in 1 .. Len(p) /\ q2[i] = p[i - Len(q)] /\ i > Len(q))
  BY ConcatParts
<1>5. \A i \in 1 .. Len(ak) : own2[ak[i].ref] = own[ak[i].ref]
  BY <1>1 DEF Grows
<1>6. \A i \in 1 .. Len(q) : own2[q[i].ref] = own[q[i].ref]
  BY <1>1 DEF Grows
<1>7. Ordered(ak, own2)
  BY <1>1, <1>5 DEF Ordered
<1>8. ASSUME NEW i \in 1 .. Len(q2)
      PROVE  /\ q2[i].ref \in DOMAIN own2
             /\ q2[i].type = "EnterOrder" => q2[i].key = own2[q2[i].ref]
             /\ own2[q2[i].ref] = TestKey => q2[i].type = "EnterOrder"
  <2>1. CASE i \in 1 .. Len(q)
    <3>1. /\ q[i].ref \in DOMAIN own
          /\ q[i].type = "EnterOrder" => q[i].key = own[q[i].ref]
          /\ own[q[i].ref] = TestKey => q[i].type = "EnterOrder"
      BY <2>1, <1>1 DEF SessionTyped
    <3>2. q2[i] = q[i] /\ own2[q[i].ref] = own[q[i].ref] /\ q[i].ref \in DOMAIN own2
      BY <2>1, <3>1, <1>4, <1>6 DEF Grows
    <3> QED
      BY <3>1, <3>2
  <2>2. CASE i \notin 1 .. Len(q)
    BY <2>2, <1>2, <1>4
  <2> QED
    BY <2>1, <2>2
<1>9. ASSUME NEW i \in 1 .. Len(q2), NEW j \in 1 .. Len(q2), New(q2[i]), New(q2[j]), q2[i].ref = q2[j].ref
      PROVE  i = j
  <2>1. CASE i \in 1 .. Len(q) /\ j \in 1 .. Len(q)
    BY <2>1, <1>1, <1>4, <1>9 DEF SessionTyped
  <2>a. \A n \in 1 .. Len(q) : q2[n].ref \in DOMAIN own
    BY <1>1, <1>4
  <2>b. ASSUME NEW n \in 1 .. Len(q2), n \notin 1 .. Len(q), New(q2[n]) PROVE q2[n].ref \notin DOMAIN own
    <3>1. n - Len(q) \in 1 .. Len(p) /\ q2[n] = p[n - Len(q)]
      BY <1>4, <2>b
    <3> QED
      BY ONLY <3>1, <1>2, <2>b
  <2>2. CASE i \in 1 .. Len(q) /\ j \notin 1 .. Len(q)
    BY <2>2, <2>a, <2>b, <1>9
  <2>3. CASE i \notin 1 .. Len(q) /\ j \in 1 .. Len(q)
    BY <2>3, <2>a, <2>b, <1>9
  <2>4. CASE i \notin 1 .. Len(q) /\ j \notin 1 .. Len(q)
    <3>1. i - Len(q) \in 1 .. Len(p) /\ q2[i] = p[i - Len(q)] /\ j - Len(q) \in 1 .. Len(p) /\ q2[j] = p[j - Len(q)]
      BY <2>4, <1>4
    <3>2. i - Len(q) = j - Len(q)
      BY <3>1, <1>2, <1>9
    <3> QED
      BY <3>2, <1>4
  <2> QED
    BY <2>1, <2>2, <2>3, <2>4
<1>10. SessionTyped(ak, q2, own2)
  <2>1. DOMAIN own2 \subseteq Nat \ {0} /\ (\A r \in DOMAIN own2 : own2[r] \in Key \cup {TestKey})
        /\ \A i \in 1 .. Len(ak) : ak[i].ref \in DOMAIN own2
    BY <1>1 DEF Grows
  <2> QED
    BY <2>1, <1>1, <1>4, <1>8, <1>9 DEF SessionTyped
<1>11. ASSUME Orderly(s, ak, q, own), NEW k \in Key,
              KeyOrderly(s2[k], AcksOf(ak, own2, k), AsksOf(q2, own2, k)),
              AsksOf(p, own2, k) # {} => AsksOf(q, own, k) = {}
       PROVE  OrderlyAt(s2, ak, q2, own2, k)
  <2>1. /\ \A i, j \in 1 .. Len(q) : own[q[i].ref] = k /\ own[q[j].ref] = k => i = j
        /\ \A i, j \in 1 .. Len(ak) :
             /\ own[ak[i].ref] = k /\ own[ak[j].ref] = k
             /\ ak[i].type # "Executed" /\ ak[j].type # "Executed"
             => i = j
    BY <1>11 DEF Orderly, OrderlyAt
  <2>2. \A i, j \in 1 .. Len(ak) :
          /\ own2[ak[i].ref] = k /\ own2[ak[j].ref] = k
          /\ ak[i].type # "Executed" /\ ak[j].type # "Executed"
          => i = j
    BY <2>1, <1>5
  <2>3. \A i \in 1 .. Len(q), j \in 1 .. Len(p) : ~(own[q[i].ref] = k /\ own2[p[j].ref] = k)
    <3>1. \A i \in 1 .. Len(q) : own[q[i].ref] = k => q[i] \in AsksOf(q, own, k)
      BY <1>1 DEF AsksOf
    <3>2. \A j \in 1 .. Len(p) : own2[p[j].ref] = k => p[j] \in AsksOf(p, own2, k)
      BY <1>2 DEF AsksOf
    <3> QED
      BY <3>1, <3>2, <1>11
  <2>4. ASSUME NEW i \in 1 .. Len(q2), NEW j \in 1 .. Len(q2), own2[q2[i].ref] = k, own2[q2[j].ref] = k
        PROVE  i = j
    <3>1. CASE i \in 1 .. Len(q) /\ j \in 1 .. Len(q)
      BY <3>1, <2>1, <2>4, <1>4, <1>6
    <3>2. CASE i \in 1 .. Len(q) /\ j \notin 1 .. Len(q)
      BY <3>2, <2>3, <2>4, <1>4, <1>6
    <3>3. CASE i \notin 1 .. Len(q) /\ j \in 1 .. Len(q)
      BY <3>3, <2>3, <2>4, <1>4, <1>6
    <3>4. CASE i \notin 1 .. Len(q) /\ j \notin 1 .. Len(q)
      <4>1. i - Len(q) \in 1 .. Len(p) /\ q2[i] = p[i - Len(q)] /\ j - Len(q) \in 1 .. Len(p) /\ q2[j] = p[j - Len(q)]
        BY <3>4, <1>4
      <4>2. i - Len(q) = j - Len(q)
        BY <4>1, <1>2, <2>4
      <4> QED
        BY <4>2, <1>4
    <3> QED
      BY <3>1, <3>2, <3>3, <3>4
  <2> QED
    BY <2>2, <2>4, <1>11 DEF OrderlyAt
<1> QED
  BY <1>7, <1>10, <1>11 DEF Safe, Orderly

\* What reconcileSlot asks: nothing, or one request with the reference it took
\* or the one the slot works.
LEMMA RequestShape ==
  ASSUME NEW s \in Slot, NEW key \in Key, NEW price \in Nat, NEW ref,
         Allocates(s, price) => ref \in Nat,
         NEW x, x = RequestOf(key, s, price, ref)
  PROVE  \/ x = << >> /\ Decision(s, price) = "None"
         \/ \E m \in Asks :
              /\ x = <<m>>
              /\ \/ /\ Decision(s, price) = "Enter" /\ s.state = "Idle" /\ Allocates(s, price)
                    /\ m.type = "EnterOrder" /\ m.ref = ref /\ m.key = key
                    /\ m.qty = QuoteQty /\ m.price = price
                 \/ /\ Decision(s, price) = "Replace" /\ s.state = "Live" /\ Allocates(s, price)
                    /\ m.type = "ReplaceOrder" /\ m.ref = ref /\ m.orig = s.userRef /\ m.qty = QuoteQty
                 \/ /\ Decision(s, price) = "Cancel" /\ s.state = "Live"
                    /\ m.type = "CancelOrder" /\ m.ref = s.userRef
<1>1. Decision(s, price) \in {"Enter", "Replace", "Cancel", "None"}
  BY DEF Decision
<1>2. /\ Decision(s, price) = "Enter" => s.state = "Idle"
      /\ Decision(s, price) \in {"Replace", "Cancel"} => s.state = "Live"
  BY DEF Decision
<1>3. QuoteQty \in Nat /\ s.userRef \in Nat
  BY QuoteQtyAssumption DEF Slot
<1>4. CASE Decision(s, price) = "Enter"
  <2>1. x = <<EnterOrder(ref, key, QuoteQty, price)>> /\ Allocates(s, price)
    BY <1>4 DEF RequestOf, Allocates
  <2>2. ref \in Nat
    BY <2>1
  <2>3. EnterOrder(ref, key, QuoteQty, price) \in Asks
    BY <2>2, <1>3 DEF EnterOrder, Asks
  <2> QED
    BY <2>1, <2>3, <1>2, <1>4 DEF EnterOrder
<1>5. CASE Decision(s, price) = "Replace"
  <2>1. x = <<ReplaceOrder(s.userRef, ref, QuoteQty, price)>> /\ Allocates(s, price)
    BY <1>5 DEF RequestOf, Allocates
  <2>2. ref \in Nat
    BY <2>1
  <2>3. ReplaceOrder(s.userRef, ref, QuoteQty, price) \in Asks
    BY <2>2, <1>3 DEF ReplaceOrder, Asks
  <2> QED
    BY <2>1, <2>3, <1>2, <1>5 DEF ReplaceOrder
<1>6. CASE Decision(s, price) = "Cancel"
  <2>1. x = <<CancelOrder(s.userRef)>>
    BY <1>6 DEF RequestOf
  <2>2. CancelOrder(s.userRef) \in Asks
    BY <1>3 DEF CancelOrder, Asks
  <2> QED
    BY <2>1, <2>2, <1>2, <1>6 DEF CancelOrder
<1>7. CASE Decision(s, price) = "None"
  BY <1>7 DEF RequestOf
<1> QED
  BY <1>1, <1>4, <1>5, <1>6, <1>7

\* reconcileSlot asks x for a quote, of which Q2 holds some.
AsksFor(x, key, price, ref, s, s2, c, A, Q, Q2, R, T) ==
  /\ key \in Key /\ price \in Nat
  /\ Allocates(s, price) => ref \in R /\ Fresh(c, s, A, Q, ref, T)
  /\ x = RequestOf(key, s, price, ref) /\ s2 = SlotAfter(s, price, ref)
  /\ Q \subseteq Q2 /\ \A m \in Q2 : m \in Q \/ \E i \in 1 .. Len(x) : x[i] = m

\* The request that quote makes for one side, none included, keeps the invariant of that side.
LEMMA SlotAsks ==
  ASSUME NEW c, NEW s, NEW A, NEW Q, NEW R, NEW T, KeyInv(c, s, A, Q, R, T),
         NEW x, NEW key, NEW price, NEW ref, NEW s2, NEW Q2,
         AsksFor(x, key, price, ref, s, s2, c, A, Q, Q2, R, T)
  PROVE  /\ KeyInv(c, s2, A, Q2, R, T)
         /\ KeyExact(c, s, A, Q, T) /\ (\A i \in 1 .. Len(x) : x[i] \in Q2) => KeyExact(c, s2, A, Q2, T)
         /\ KeyOrderly(s, A, Q) => KeyOrderly(s2, A, Q2)
         /\ KeyOrderly(s, A, Q) /\ x # << >> => Q = {}
<1>1. /\ key \in Key /\ price \in Nat
      /\ Allocates(s, price) => ref \in R /\ Fresh(c, s, A, Q, ref, T)
      /\ x = RequestOf(key, s, price, ref) /\ s2 = SlotAfter(s, price, ref)
      /\ Q \subseteq Q2 /\ \A m \in Q2 : m \in Q \/ \E i \in 1 .. Len(x) : x[i] = m
  BY DEF AsksFor
<1>2. /\ s \in Slot /\ R \subseteq Nat \ {0} /\ (\A m \in Q : AskOK(c, s, m, R))
      /\ \A m \in Q : m.type \in {"EnterOrder", "CancelOrder", "ReplaceOrder"}
  BY KeyInvParts
<1>3. ASSUME KeyOrderly(s, A, Q), s.state \in {"Idle", "Live"} PROVE Q = {}
  BY <1>2, <1>3 DEF KeyOrderly, AskOK
<1>4. \/ x = << >> /\ Decision(s, price) = "None"
      \/ \E m \in Asks :
           /\ x = <<m>>
           /\ \/ /\ Decision(s, price) = "Enter" /\ s.state = "Idle" /\ Allocates(s, price)
                 /\ m.type = "EnterOrder" /\ m.ref = ref /\ m.key = key
                 /\ m.qty = QuoteQty /\ m.price = price
              \/ /\ Decision(s, price) = "Replace" /\ s.state = "Live" /\ Allocates(s, price)
                 /\ m.type = "ReplaceOrder" /\ m.ref = ref /\ m.orig = s.userRef /\ m.qty = QuoteQty
              \/ /\ Decision(s, price) = "Cancel" /\ s.state = "Live"
                 /\ m.type = "CancelOrder" /\ m.ref = s.userRef
  <2>1. Allocates(s, price) => ref \in Nat
    BY <1>1, <1>2
  <2> QED
    BY <2>1, <1>1, <1>2, RequestShape
<1>5. CASE x = << >> /\ Decision(s, price) = "None"
  <2>1. s2 = s
    BY <1>1, <1>5 DEF SlotAfter
  <2>2. Q2 = Q
    <3>1. Len(x) = 0
      BY <1>5
    <3>2. \A i \in 1 .. Len(x) : FALSE
      BY <3>1
    <3> QED
      BY <3>2, <1>1
  <2> QED
    BY <2>1, <2>2, <1>5
<1>6. ASSUME NEW m \in Asks, x = <<m>>,
             \/ /\ Decision(s, price) = "Enter" /\ s.state = "Idle" /\ Allocates(s, price)
                /\ m.type = "EnterOrder" /\ m.ref = ref /\ m.key = key
                /\ m.qty = QuoteQty /\ m.price = price
             \/ /\ Decision(s, price) = "Replace" /\ s.state = "Live" /\ Allocates(s, price)
                /\ m.type = "ReplaceOrder" /\ m.ref = ref /\ m.orig = s.userRef /\ m.qty = QuoteQty
             \/ /\ Decision(s, price) = "Cancel" /\ s.state = "Live"
                /\ m.type = "CancelOrder" /\ m.ref = s.userRef
      PROVE  /\ KeyInv(c, s2, A, Q2, R, T)
             /\ KeyExact(c, s, A, Q, T) /\ (\A i \in 1 .. Len(x) : x[i] \in Q2) => KeyExact(c, s2, A, Q2, T)
             /\ KeyOrderly(s, A, Q) => KeyOrderly(s2, A, Q2)
             /\ KeyOrderly(s, A, Q) /\ x # << >> => Q = {}
  <2>1. Q \subseteq Q2 /\ Q2 \subseteq Q \cup {m}
    BY <1>1, <1>6
  <2>2. (\A i \in 1 .. Len(x) : x[i] \in Q2) => m \in Q2
    BY <1>6
  <2>3. s.state \in {"Idle", "Live"}
    BY <1>6
  <2>4. KeyOrderly(s, A, Q) => Q = {}
    BY <2>3, <1>3
  <2>5. CASE Decision(s, price) = "Enter"
    <3>1. EnterAsk(m, ref, price, s, s2, c, A, Q, Q2, R, T)
      BY <2>1, <2>5, <1>1, <1>6 DEF EnterAsk, SlotAfter
    <3> QED
      BY <3>1, <2>2, <2>4, EnterAsked
  <2>6. CASE Decision(s, price) = "Replace"
    <3>1. ReplaceAsk(m, ref, s, s2, c, A, Q, Q2, R, T)
      BY <2>1, <2>6, <1>1, <1>6 DEF ReplaceAsk, SlotAfter
    <3> QED
      BY <3>1, <2>2, <2>4, ReplaceAsked
  <2>7. CASE Decision(s, price) = "Cancel"
    <3>1. CancelAsk(m, s, s2, Q, Q2)
      BY <2>1, <2>7, <1>1, <1>6 DEF CancelAsk, SlotAfter
    <3> QED
      BY <3>1, <2>2, <2>4, CancelAsked
  <2> QED
    BY <2>5, <2>6, <2>7, <1>6
<1> QED
  BY <1>4, <1>5, <1>6

\* Some of the requests x and y, at most one each, in their order.
Part(msgs, kept, i) == IF i \in kept THEN <<msgs[i]>> ELSE << >>
AtMostOne(x) == x = << >> \/ \E m \in Asks : x = <<m>>
Picks(p, x, y) ==
  \/ p = << >>
  \/ \E m \in Asks : p = <<m>> /\ (x = <<m>> \/ y = <<m>>)
  \/ \E m \in Asks, n \in Asks : p = <<m, n>> /\ x = <<m>> /\ y = <<n>>

\* One request sent as two parts of which some are kept is there or lost.
LEMMA OnePart ==
  ASSUME NEW m, NEW kept \in SUBSET {1}
  PROVE  Part(<<m>>, kept, 1) \o Part(<<m>>, kept, 2) = IF 1 \in kept THEN <<m>> ELSE << >>
<1>1. Part(<<m>>, kept, 2) = << >>
  BY DEF Part
<1>2. Part(<<m>>, kept, 1) = IF 1 \in kept THEN <<m>> ELSE << >>
  BY DEF Part
<1>3. << >> \o << >> = << >> /\ <<m>> \o << >> = <<m>>
  OBVIOUS
<1> QED
  BY <1>1, <1>2, <1>3

\* Two sequences of one element joined.
LEMMA PairConcat == \A m, n : <<m>> \o <<n>> = <<m, n>>
<1>1. ASSUME NEW m, NEW n PROVE <<m>> \o <<n>> = <<m, n>>
  <2> DEFINE S == {m, n}
             u == <<m>> \o <<n>>
             w == <<m, n>>
  <2>1. w \in Seq(S) /\ Len(w) = 2 /\ w[1] = m /\ w[2] = n
    OBVIOUS
  <2>2. u \in Seq(S) /\ Len(u) = 2 /\ u[1] = m /\ u[2] = n
    OBVIOUS
  <2>3. 1 .. 2 = {1, 2}
    OBVIOUS
  <2> HIDE DEF u, w, S
  <2>4. \A i \in 1 .. Len(u) : u[i] = w[i]
    BY <2>1, <2>2, <2>3
  <2>5. u = w
    BY <2>1, <2>2, <2>4, SeqEqual
  <2> QED
    BY <2>5 DEF u, w
<1> QED
  BY <1>1

\* Of two requests sent, the kept ones arrive, in their order.
LEMMA TwoParts ==
  ASSUME NEW m, NEW n, NEW kept
  PROVE  Part(<<m, n>>, kept, 1) \o Part(<<m, n>>, kept, 2) =
           IF 1 \in kept THEN IF 2 \in kept THEN <<m, n>> ELSE <<m>>
           ELSE IF 2 \in kept THEN <<n>> ELSE << >>
<1>1. Part(<<m, n>>, kept, 2) = IF 2 \in kept THEN <<n>> ELSE << >>
  BY DEF Part
<1>2. Part(<<m, n>>, kept, 1) = IF 1 \in kept THEN <<m>> ELSE << >>
  BY DEF Part
<1>3. << >> \o << >> = << >>
  OBVIOUS
<1>4. <<m>> \o << >> = <<m>>
  OBVIOUS
<1>5. << >> \o <<n>> = <<n>>
  OBVIOUS
<1>6. <<m>> \o <<n>> = <<m, n>>
  BY PairConcat
<1> QED
  BY <1>1, <1>2, <1>3, <1>4, <1>5, <1>6

\* What arrives of at most one request per side is some of them in their order, all of them
\* where none is lost.
LEMMA PartsSent ==
  ASSUME NEW x, NEW y, AtMostOne(x), AtMostOne(y),
         NEW kept, kept \subseteq DOMAIN (x \o y),
         NEW p, p = Part(x \o y, kept, 1) \o Part(x \o y, kept, 2)
  PROVE  /\ Picks(p, x, y)
         /\ Cardinality(kept) \in Nat /\ Cardinality(kept) <= Len(x \o y) /\ Len(x \o y) \in Nat
         /\ Cardinality(kept) = Len(x \o y) => p = x \o y
<1>1. ASSUME NEW msgs, NEW n \in Nat, kept \subseteq 1 .. n, Len(msgs) = n
      PROVE  /\ Cardinality(kept) \in Nat /\ Cardinality(kept) <= Len(msgs) /\ Len(msgs) \in Nat
             /\ Cardinality(kept) = Len(msgs) => kept = 1 .. n
  <2>1. IsFiniteSet(1 .. n) /\ Cardinality(1 .. n) = n
    BY FS_Interval
  <2>2. Cardinality(kept) \in Nat /\ Cardinality(kept) <= n /\ (Cardinality(kept) = n => kept = 1 .. n)
    BY <2>1, <1>1, FS_Subset, FS_CardinalityType
  <2> QED
    BY <2>2, <1>1
<1>2. CASE x = << >> /\ y = << >>
  <2>1. x \o y = << >> /\ DOMAIN (x \o y) = 1 .. 0 /\ Len(x \o y) = 0
    BY <1>2
  <2>2. Part(<< >>, kept, 1) = << >> /\ Part(<< >>, kept, 2) = << >> /\ << >> \o << >> = << >>
    BY <2>1 DEF Part
  <2>3. p = << >>
    BY <2>1, <2>2
  <2> QED
    BY <2>1, <2>3, <1>1 DEF Picks
<1>3. ASSUME NEW m \in Asks, x = <<m>>, y = << >> PROVE
         /\ Picks(p, x, y)
         /\ Cardinality(kept) \in Nat /\ Cardinality(kept) <= Len(x \o y) /\ Len(x \o y) \in Nat
         /\ Cardinality(kept) = Len(x \o y) => p = x \o y
  <2>1. x \o y = <<m>> /\ DOMAIN (x \o y) = 1 .. 1 /\ Len(x \o y) = 1 /\ 1 .. 1 = {1}
    BY <1>3
  <2>2. p = IF 1 \in kept THEN <<m>> ELSE << >>
    BY <2>1, OnePart
  <2>3. Picks(p, x, y)
    BY <2>2, <1>3 DEF Picks
  <2> QED
    BY <2>1, <2>2, <2>3, <1>1
<1>4. ASSUME NEW m \in Asks, x = << >>, y = <<m>> PROVE
         /\ Picks(p, x, y)
         /\ Cardinality(kept) \in Nat /\ Cardinality(kept) <= Len(x \o y) /\ Len(x \o y) \in Nat
         /\ Cardinality(kept) = Len(x \o y) => p = x \o y
  <2>1. x \o y = <<m>> /\ DOMAIN (x \o y) = 1 .. 1 /\ Len(x \o y) = 1 /\ 1 .. 1 = {1}
    BY <1>4
  <2>2. p = IF 1 \in kept THEN <<m>> ELSE << >>
    BY <2>1, OnePart
  <2>3. Picks(p, x, y)
    BY <2>2, <1>4 DEF Picks
  <2> QED
    BY <2>1, <2>2, <2>3, <1>1
<1>5. ASSUME NEW m \in Asks, NEW n \in Asks, x = <<m>>, y = <<n>> PROVE
         /\ Picks(p, x, y)
         /\ Cardinality(kept) \in Nat /\ Cardinality(kept) <= Len(x \o y) /\ Len(x \o y) \in Nat
         /\ Cardinality(kept) = Len(x \o y) => p = x \o y
  <2>0. x \o y = <<m, n>>
    BY <1>5, PairConcat
  <2>1. x \o y = <<m, n>> /\ DOMAIN (x \o y) = 1 .. 2 /\ Len(x \o y) = 2 /\ 1 .. 2 = {1, 2}
    BY <2>0
  <2>2. p = IF 1 \in kept THEN IF 2 \in kept THEN <<m, n>> ELSE <<m>>
            ELSE IF 2 \in kept THEN <<n>> ELSE << >>
    <3>1. p = Part(<<m, n>>, kept, 1) \o Part(<<m, n>>, kept, 2)
      BY <2>0
    <3>2. Part(<<m, n>>, kept, 1) \o Part(<<m, n>>, kept, 2) =
            IF 1 \in kept THEN IF 2 \in kept THEN <<m, n>> ELSE <<m>>
            ELSE IF 2 \in kept THEN <<n>> ELSE << >>
      BY ONLY TwoParts
    <3> QED
      BY ONLY <3>1, <3>2
  <2>3. Picks(p, x, y)
    BY <2>2, <1>5 DEF Picks
  <2> QED
    BY <2>1, <2>2, <2>3, <1>1
<1> QED
  BY <1>2, <1>3, <1>4, <1>5 DEF AtMostOne

\* x is nothing, or a request for the quote k that is new to the session.
OneAsk(x, k, own, own2) ==
  \/ x = << >>
  \/ \E m \in Asks :
       /\ x = <<m>> /\ m.ref \in DOMAIN own2 /\ own2[m.ref] = k
       /\ m.type = "EnterOrder" => m.key = k
       /\ New(m) => m.ref \notin DOMAIN own
       /\ k = TestKey => m.type = "EnterOrder"

\* What arrives is the request of one side or of the other.
LEMMA PicksNew ==
  ASSUME NEW own, NEW own2, NEW k1, NEW k2, k1 # k2, NEW x, NEW y,
         OneAsk(x, k1, own, own2), OneAsk(y, k2, own, own2), NEW p, Picks(p, x, y)
  PROVE  /\ NewAsks(p, own, own2)
         /\ \A k : \A m \in AsksOf(p, own2, k) : (k = k1 /\ x = <<m>>) \/ (k = k2 /\ y = <<m>>)
<1>0. \A m, n : <<m>> = <<n>> => m = n
  OBVIOUS
<1>1. ASSUME NEW m \in Asks, x = <<m>>
      PROVE  /\ m.ref \in DOMAIN own2 /\ own2[m.ref] = k1
             /\ m.type = "EnterOrder" => m.key = k1
             /\ New(m) => m.ref \notin DOMAIN own
             /\ k1 = TestKey => m.type = "EnterOrder"
  <2>1. <<m>> # << >>
    OBVIOUS
  <2> QED
    BY <2>1, <1>0, <1>1 DEF OneAsk
<1>2. ASSUME NEW m \in Asks, y = <<m>>
      PROVE  /\ m.ref \in DOMAIN own2 /\ own2[m.ref] = k2
             /\ m.type = "EnterOrder" => m.key = k2
             /\ New(m) => m.ref \notin DOMAIN own
             /\ k2 = TestKey => m.type = "EnterOrder"
  <2>1. <<m>> # << >>
    OBVIOUS
  <2> QED
    BY <2>1, <1>0, <1>2 DEF OneAsk
<1>3. CASE p = << >>
  <2>1. p \in Seq(Asks) /\ 1 .. Len(p) = {}
    BY <1>3
  <2> QED
    BY <2>1 DEF NewAsks, AsksOf
<1>4. ASSUME NEW m \in Asks, p = <<m>>, x = <<m>> \/ y = <<m>>
      PROVE  /\ NewAsks(p, own, own2)
             /\ \A k : \A n \in AsksOf(p, own2, k) : (k = k1 /\ x = <<n>>) \/ (k = k2 /\ y = <<n>>)
  <2>1. p \in Seq(Asks) /\ 1 .. Len(p) = {1} /\ p[1] = m
    BY <1>4
  <2>2. NewAsks(p, own, own2)
    BY <2>1, <1>1, <1>2, <1>4 DEF NewAsks
  <2>3. \A k : \A n \in AsksOf(p, own2, k) : n = m /\ own2[m.ref] = k
    BY <2>1 DEF AsksOf
  <2> QED
    BY <2>2, <2>3, <1>1, <1>2, <1>4
<1>5. ASSUME NEW m \in Asks, NEW n \in Asks, p = <<m, n>>, x = <<m>>, y = <<n>>
      PROVE  /\ NewAsks(p, own, own2)
             /\ \A k : \A z \in AsksOf(p, own2, k) : (k = k1 /\ x = <<z>>) \/ (k = k2 /\ y = <<z>>)
  <2>1. p \in Seq(Asks) /\ 1 .. Len(p) = {1, 2} /\ p[1] = m /\ p[2] = n
    BY <1>5
  <2>2. NewAsks(p, own, own2)
    BY <2>1, <1>1, <1>2, <1>5 DEF NewAsks
  <2>3. \A k : \A z \in AsksOf(p, own2, k) : (z = m /\ own2[m.ref] = k) \/ (z = n /\ own2[n.ref] = k)
    BY <2>1 DEF AsksOf
  <2> QED
    BY <2>2, <2>3, <1>1, <1>2, <1>5
<1> QED
  BY <1>3, <1>4, <1>5 DEF Picks

\* When both are sent, both are there.
LEMMA AllSent ==
  ASSUME NEW own, NEW own2, NEW k1, NEW k2, NEW x, NEW y,
         OneAsk(x, k1, own, own2), OneAsk(y, k2, own, own2), NEW p, p = x \o y, NEW m
  PROVE  /\ x = <<m>> => m \in AsksOf(p, own2, k1)
         /\ y = <<m>> => m \in AsksOf(p, own2, k2)
<1>0. \A a, b : <<a>> = <<b>> => a = b
  OBVIOUS
<1>1. x \in Seq(Asks) /\ y \in Seq(Asks)
  <2>1. \A a \in Asks : <<a>> \in Seq(Asks)
    OBVIOUS
  <2>2. << >> \in Seq(Asks)
    OBVIOUS
  <2>3. \A z, k : OneAsk(z, k, own, own2) => z = << >> \/ \E a \in Asks : z = <<a>>
    BY DEF OneAsk
  <2> QED
    BY ONLY <2>1, <2>2, <2>3, OneAsk(x, k1, own, own2), OneAsk(y, k2, own, own2)
<1>2. Joined(p, x, y, Asks)
  BY <1>1 DEF Joined
<1>3. ASSUME NEW z, NEW k, z = <<m>>, OneAsk(z, k, own, own2) PROVE m \in AsksOf(z, own2, k)
  <2>1. <<m>> # << >>
    OBVIOUS
  <2>2. m \in Asks /\ own2[m.ref] = k
    BY <2>1, <1>0, <1>3 DEF OneAsk
  <2>3. Len(z) = 1 /\ z[1] = m /\ 1 \in 1 .. Len(z)
    BY <1>3
  <2> QED
    BY <2>2, <2>3 DEF AsksOf
<1>4. \A k : AsksOf(p, own2, k) = AsksOf(x, own2, k) \cup AsksOf(y, own2, k)
  BY <1>2, AsksAppended
<1>5. x = <<m>> => m \in AsksOf(p, own2, k1)
  BY <1>3, <1>4
<1>6. y = <<m>> => m \in AsksOf(p, own2, k2)
  BY <1>3, <1>4
<1> QED
  BY <1>5, <1>6

\* reconcile of the two quotes of a symbol, in a session: d1 first, and each
\* side takes the reference of rf that it needs.
Reconciles(sym, t, rf, d1, d2, x, y, s, s2, own, own2) ==
  /\ sym \in Syms /\ d1 \in Sides /\ d2 \in Sides /\ d1 # d2 /\ Sides = {d1, d2}
  /\ \A d \in Sides :
       /\ t[d] \in Nat
       /\ Allocates(s[<<sym, d>>], t[d]) =>
            rf[d] \notin DOMAIN own /\ rf[d] \in DOMAIN own2 /\ own2[rf[d]] = <<sym, d>>
  /\ x = RequestOf(<<sym, d1>>, s[<<sym, d1>>], t[d1], rf[d1])
  /\ y = RequestOf(<<sym, d2>>, s[<<sym, d2>>], t[d2], rf[d2])
  /\ \A k \in Key : s2[k] = IF k[1] = sym THEN SlotAfter(s[k], t[k[2]], rf[k[2]]) ELSE s[k]

\* The request of a slot is one request at most, of its own quote, for an order id that is the
\* quote's.
LEMMA RequestIsOneAsk ==
  ASSUME NEW v, NEW s, NEW ak, NEW q, NEW own, Safe(v, s, ak, q, own), NEW own2, Grows(own, own2),
         NEW k \in Key, NEW price \in Nat, NEW ref, NEW x, x = RequestOf(k, s[k], price, ref),
         Allocates(s[k], price) => ref \notin DOMAIN own /\ ref \in DOMAIN own2 /\ own2[ref] = k
  PROVE  OneAsk(x, k, own, own2)
<1> DEFINE sk == s[k]
<1>1. KeyAt(v, s, ak, q, own, k)
  BY SafeParts
<1>2. Good(sk, RefsOf(own, k))
  BY <1>1 DEF KeyAt, KeyInv, KeyTyped
<1>3. sk \in Slot /\ (sk.state # "Idle" => sk.userRef \in DOMAIN own /\ own[sk.userRef] = k)
  BY <1>2 DEF Good, RefsOf
<1>4. sk.state # "Idle" => sk.userRef \in DOMAIN own2 /\ own2[sk.userRef] = k
  BY <1>3 DEF Grows
<1>5. Allocates(sk, price) => ref \in Nat
  BY DEF Grows
<1>6. x = RequestOf(k, sk, price, ref)
  OBVIOUS
<1>7. Allocates(sk, price) => ref \notin DOMAIN own /\ ref \in DOMAIN own2 /\ own2[ref] = k
  OBVIOUS
<1>8. k # TestKey
  BY KeyParts
<1> HIDE DEF sk
<1>9. \/ x = << >> /\ Decision(sk, price) = "None"
      \/ \E m \in Asks :
           /\ x = <<m>>
           /\ \/ /\ Decision(sk, price) = "Enter" /\ sk.state = "Idle" /\ Allocates(sk, price)
                 /\ m.type = "EnterOrder" /\ m.ref = ref /\ m.key = k
                 /\ m.qty = QuoteQty /\ m.price = price
              \/ /\ Decision(sk, price) = "Replace" /\ sk.state = "Live" /\ Allocates(sk, price)
                 /\ m.type = "ReplaceOrder" /\ m.ref = ref /\ m.orig = sk.userRef /\ m.qty = QuoteQty
              \/ /\ Decision(sk, price) = "Cancel" /\ sk.state = "Live"
                 /\ m.type = "CancelOrder" /\ m.ref = sk.userRef
  BY <1>3, <1>5, <1>6, RequestShape
<1>10. ASSUME NEW m \in Asks, x = <<m>>,
              \/ /\ Decision(sk, price) = "Enter" /\ sk.state = "Idle" /\ Allocates(sk, price)
                 /\ m.type = "EnterOrder" /\ m.ref = ref /\ m.key = k
                 /\ m.qty = QuoteQty /\ m.price = price
              \/ /\ Decision(sk, price) = "Replace" /\ sk.state = "Live" /\ Allocates(sk, price)
                 /\ m.type = "ReplaceOrder" /\ m.ref = ref /\ m.orig = sk.userRef /\ m.qty = QuoteQty
              \/ /\ Decision(sk, price) = "Cancel" /\ sk.state = "Live"
                 /\ m.type = "CancelOrder" /\ m.ref = sk.userRef
       PROVE  OneAsk(x, k, own, own2)
  <2>1. m.ref \in DOMAIN own2 /\ own2[m.ref] = k
    BY <1>4, <1>7, <1>10
  <2>2. (m.type = "EnterOrder" => m.key = k) /\ (New(m) => m.ref \notin DOMAIN own)
    BY <1>7, <1>10 DEF New
  <2> QED
    BY <2>1, <2>2, <1>8, <1>10 DEF OneAsk
<1> QED
  BY <1>9, <1>10 DEF OneAsk

\* A symbol is reconciled.
LEMMA Reconciled ==
  ASSUME NEW v, NEW s, NEW ak, NEW q, NEW own, Safe(v, s, ak, q, own), NEW own2, Grows(own, own2),
         NEW sym, NEW t, NEW rf, NEW d1, NEW d2, NEW x, NEW y, NEW s2,
         Reconciles(sym, t, rf, d1, d2, x, y, s, s2, own, own2),
         NEW p, Picks(p, x, y), NEW q2, Joined(q2, q, p, Asks)
  PROVE  /\ Safe(v, s2, ak, q2, own2)
         /\ Exact(v, s, ak, q, own) /\ p = x \o y => Exact(v, s2, ak, q2, own2)
         /\ Orderly(s, ak, q, own) => Orderly(s2, ak, q2, own2)
<1>1. /\ sym \in Syms /\ d1 \in Sides /\ d2 \in Sides /\ d1 # d2 /\ Sides = {d1, d2}
      /\ \A d \in Sides :
           /\ t[d] \in Nat
           /\ Allocates(s[<<sym, d>>], t[d]) =>
                rf[d] \notin DOMAIN own /\ rf[d] \in DOMAIN own2 /\ own2[rf[d]] = <<sym, d>>
      /\ x = RequestOf(<<sym, d1>>, s[<<sym, d1>>], t[d1], rf[d1])
      /\ y = RequestOf(<<sym, d2>>, s[<<sym, d2>>], t[d2], rf[d2])
      /\ \A k \in Key : s2[k] = IF k[1] = sym THEN SlotAfter(s[k], t[k[2]], rf[k[2]]) ELSE s[k]
  BY DEF Reconciles
<1> DEFINE k1 == <<sym, d1>>
           k2 == <<sym, d2>>
<1>2. k1 \in Key /\ k2 \in Key /\ k1 # k2 /\ k1[1] = sym /\ k2[1] = sym /\ k1[2] = d1 /\ k2[2] = d2
  BY <1>1, KeyParts
<1>3. /\ t[d1] \in Nat /\ t[d2] \in Nat
      /\ Allocates(s[k1], t[d1]) => rf[d1] \notin DOMAIN own /\ rf[d1] \in DOMAIN own2 /\ own2[rf[d1]] = k1
      /\ Allocates(s[k2], t[d2]) => rf[d2] \notin DOMAIN own /\ rf[d2] \in DOMAIN own2 /\ own2[rf[d2]] = k2
      /\ x = RequestOf(k1, s[k1], t[d1], rf[d1]) /\ y = RequestOf(k2, s[k2], t[d2], rf[d2])
      /\ s2[k1] = SlotAfter(s[k1], t[d1], rf[d1]) /\ s2[k2] = SlotAfter(s[k2], t[d2], rf[d2])
  BY <1>1, <1>2
<1>4. \A k \in Key : k # k1 /\ k # k2 => s2[k] = s[k]
  BY <1>1, KeyParts
<1> HIDE DEF k1, k2
<1>5. OneAsk(x, k1, own, own2) /\ OneAsk(y, k2, own, own2)
  BY <1>2, <1>3, RequestIsOneAsk
<1>6. /\ NewAsks(p, own, own2)
      /\ \A k : \A m \in AsksOf(p, own2, k) : (k = k1 /\ x = <<m>>) \/ (k = k2 /\ y = <<m>>)
  BY <1>2, <1>5, PicksNew
<1>7. \A k : AsksOf(q2, own2, k) = AsksOf(q, own2, k) \cup AsksOf(p, own2, k)
  BY AsksAppended
<1> DEFINE Turn(k, d, w) == (k = k1 /\ d = d1 /\ w = x) \/ (k = k2 /\ d = d2 /\ w = y)
<1>b. Turn(k1, d1, x) /\ Turn(k2, d2, y)
  OBVIOUS
<1>8. ASSUME NEW k \in Key, NEW d, NEW w, Turn(k, d, w)
      PROVE  /\ KeyAt(v, s2, ak, q2, own2, k)
             /\ ExactAt(v, s, ak, q, own, k) /\ p = x \o y => ExactAt(v, s2, ak, q2, own2, k)
             /\ KeyOrderly(s[k], AcksOf(ak, own, k), AsksOf(q, own, k)) =>
                KeyOrderly(s2[k], AcksOf(ak, own2, k), AsksOf(q2, own2, k))
             /\ KeyOrderly(s[k], AcksOf(ak, own, k), AsksOf(q, own, k)) /\ AsksOf(p, own2, k) # {} =>
                AsksOf(q, own, k) = {}
  <2> DEFINE c == v[k]
             sk == s[k]
             sk2 == s2[k]
             A == AcksOf(ak, own2, k)
             Q == AsksOf(q, own2, k)
             Q2 == AsksOf(q2, own2, k)
             R == RefsOf(own2, k)
             T == Due(ak, R)
             td == t[d]
             ref == rf[d]
  <2>1. /\ AcksOf(ak, own2, k) = AcksOf(ak, own, k) /\ AsksOf(q, own2, k) = AsksOf(q, own, k)
        /\ KeyAt(v, s, ak, q, own2, k)
        /\ ExactAt(v, s, ak, q, own, k) => ExactAt(v, s, ak, q, own2, k)
        /\ \A r \in RefsOf(own2, k) : r \notin DOMAIN own =>
             Fresh(v[k], s[k], AcksOf(ak, own2, k), AsksOf(q, own2, k), r, Due(ak, RefsOf(own2, k)))
    BY GrownKey
  <2>2. /\ td \in Nat /\ sk2 = SlotAfter(sk, td, ref) /\ w = RequestOf(k, sk, td, ref)
        /\ Allocates(sk, td) => ref \notin DOMAIN own /\ ref \in DOMAIN own2 /\ own2[ref] = k
    BY <1>3, <1>8
  <2>3. Allocates(sk, td) => ref \in R /\ Fresh(c, sk, A, Q, ref, T)
    BY <2>1, <2>2 DEF RefsOf
  <2>4. Q2 = Q \cup AsksOf(p, own2, k)
    BY <1>7
  <2>5. \A m \in AsksOf(p, own2, k) : w = <<m>>
    BY <1>6, <1>8, <1>2
  <2>6. \A m \in Q2 : m \in Q \/ \E i \in 1 .. Len(w) : w[i] = m
    <3>1. ASSUME NEW m \in AsksOf(p, own2, k) PROVE \E i \in 1 .. Len(w) : w[i] = m
      <4>1. Len(w) = 1 /\ w[1] = m /\ 1 \in 1 .. Len(w)
        BY <2>5
      <4> QED
        BY <4>1
    <3> QED
      BY <3>1, <2>4
  <2>7. p = x \o y => \A i \in 1 .. Len(w) : w[i] \in Q2
    <3>1. ASSUME p = x \o y, NEW i \in 1 .. Len(w) PROVE w[i] \in AsksOf(p, own2, k)
      <4>1. OneAsk(w, k, own, own2)
        BY <1>5, <1>8
      <4>2. PICK m \in Asks : w = <<m>>
        <5>1. w # << >>
          BY <3>1
        <5> QED
          BY <5>1, <4>1 DEF OneAsk
      <4>3. w[i] = m
        BY <4>2, <3>1
      <4>4. m \in AsksOf(p, own2, k)
        BY <4>2, <3>1, <1>5, <1>8, AllSent
      <4> QED
        BY <4>3, <4>4
    <3> QED
      BY <3>1, <2>4
  <2>8. KeyInv(c, sk, A, Q, R, T) /\ (ExactAt(v, s, ak, q, own, k) => KeyExact(c, sk, A, Q, T))
    BY <2>1 DEF KeyAt, ExactAt
  <2>9. /\ A = AcksOf(ak, own, k) /\ Q = AsksOf(q, own, k)
    BY <2>1
  <2>10. AsksOf(p, own2, k) # {} => w # << >>
    BY <2>5
  <2> HIDE DEF c, sk, sk2, A, Q, Q2, R, T, td, ref
  <2>11. AsksFor(w, k, td, ref, sk, sk2, c, A, Q, Q2, R, T)
    BY <2>2, <2>3, <2>4, <2>6 DEF AsksFor
  <2>12. /\ KeyInv(c, sk2, A, Q2, R, T)
         /\ KeyExact(c, sk, A, Q, T) /\ (\A i \in 1 .. Len(w) : w[i] \in Q2) => KeyExact(c, sk2, A, Q2, T)
         /\ KeyOrderly(sk, A, Q) => KeyOrderly(sk2, A, Q2)
         /\ KeyOrderly(sk, A, Q) /\ w # << >> => Q = {}
    BY <2>8, <2>11, SlotAsks
  <2>13. KeyInv(c, sk2, A, Q2, R, T) => KeyAt(v, s2, ak, q2, own2, k)
    BY DEF KeyAt, c, sk2, A, Q2, R, T
  <2>14. KeyExact(c, sk2, A, Q2, T) => ExactAt(v, s2, ak, q2, own2, k)
    BY DEF ExactAt, c, sk2, A, Q2, R, T
  <2>15. KeyOrderly(s[k], AcksOf(ak, own, k), AsksOf(q, own, k)) <=> KeyOrderly(sk, A, Q)
    BY <2>9 DEF sk
  <2>16. KeyOrderly(sk2, A, Q2) => KeyOrderly(s2[k], AcksOf(ak, own2, k), AsksOf(q2, own2, k))
    BY DEF sk2, A, Q2
  <2> QED
    BY <2>7, <2>8, <2>9, <2>10, <2>12, <2>13, <2>14, <2>15, <2>16
<1>9. ASSUME NEW k \in Key, k # k1, k # k2
      PROVE  /\ KeyAt(v, s2, ak, q2, own2, k)
             /\ ExactAt(v, s, ak, q, own, k) => ExactAt(v, s2, ak, q2, own2, k)
             /\ KeyOrderly(s[k], AcksOf(ak, own, k), AsksOf(q, own, k)) =>
                KeyOrderly(s2[k], AcksOf(ak, own2, k), AsksOf(q2, own2, k))
             /\ AsksOf(p, own2, k) = {}
  <2>1. /\ AcksOf(ak, own2, k) = AcksOf(ak, own, k) /\ AsksOf(q, own2, k) = AsksOf(q, own, k)
        /\ KeyAt(v, s, ak, q, own2, k)
        /\ ExactAt(v, s, ak, q, own, k) => ExactAt(v, s, ak, q, own2, k)
    BY GrownKey
  <2>2. AsksOf(p, own2, k) = {}
    BY <1>6, <1>9
  <2>3. AsksOf(q2, own2, k) = AsksOf(q, own2, k) /\ s2[k] = s[k]
    BY <2>2, <1>4, <1>7, <1>9
  <2> QED
    BY <2>1, <2>2, <2>3 DEF KeyAt, ExactAt
<1> HIDE DEF Turn
<1>a. ASSUME NEW k \in Key
      PROVE  /\ KeyAt(v, s2, ak, q2, own2, k)
             /\ ExactAt(v, s, ak, q, own, k) /\ p = x \o y => ExactAt(v, s2, ak, q2, own2, k)
             /\ KeyOrderly(s[k], AcksOf(ak, own, k), AsksOf(q, own, k)) =>
                KeyOrderly(s2[k], AcksOf(ak, own2, k), AsksOf(q2, own2, k))
             /\ KeyOrderly(s[k], AcksOf(ak, own, k), AsksOf(q, own, k)) /\ AsksOf(p, own2, k) # {} =>
                AsksOf(q, own, k) = {}
  <2>1. CASE k = k1
    <3>1. Turn(k, d1, x)
      BY <1>b, <2>1
    <3> QED
      BY <3>1, <1>8
  <2>2. CASE k = k2
    <3>1. Turn(k, d2, y)
      BY <1>b, <2>2
    <3> QED
      BY <3>1, <1>8
  <2>3. CASE k # k1 /\ k # k2
    BY <2>3, <1>9
  <2> QED
    BY <2>1, <2>2, <2>3
<1>10. \A k \in Key : KeyAt(v, s2, ak, q2, own2, k)
  BY <1>a
<1>11. /\ Safe(v, s2, ak, q2, own2)
       /\ /\ Orderly(s, ak, q, own)
          /\ \A k \in Key : /\ KeyOrderly(s2[k], AcksOf(ak, own2, k), AsksOf(q2, own2, k))
                            /\ AsksOf(p, own2, k) # {} => AsksOf(q, own, k) = {}
          => Orderly(s2, ak, q2, own2)
  BY <1>6, <1>10, Asked
<1>12. ASSUME Exact(v, s, ak, q, own), p = x \o y PROVE Exact(v, s2, ak, q2, own2)
  BY <1>a, <1>12 DEF Exact
<1>13. ASSUME Orderly(s, ak, q, own) PROVE Orderly(s2, ak, q2, own2)
  <2>1. \A k \in Key : KeyOrderly(s[k], AcksOf(ak, own, k), AsksOf(q, own, k))
    BY <1>13 DEF Orderly, OrderlyAt
  <2>2. \A k \in Key : /\ KeyOrderly(s2[k], AcksOf(ak, own2, k), AsksOf(q2, own2, k))
                       /\ AsksOf(p, own2, k) # {} => AsksOf(q, own, k) = {}
    BY <2>1, <1>a
  <2> QED
    BY <2>2, <1>11, <1>13
<1> QED
  BY <1>11, <1>12, <1>13
===============================================================================
