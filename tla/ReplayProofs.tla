---------------------------- MODULE ReplayProofs ----------------------------
(***************************************************************************)
(* The replay publishes the tape, and keeps its pace, for every tape and   *)
(* configuration, every packet size, any number of orders, lost frames and *)
(* repeated logins, and every interleaving of the clock with the pump.  *)
(*                                                                         *)
(* The argument: what was published in a loop is what Kept takes from the  *)
(* messages of the tape that the loop is done with (DayOK), and the feed,  *)
(* packed or not, is that with the orders at rest added and none of them   *)
(* deleted (StreamOK).  At the end of a loop nothing wanted is left in the *)
(* tape and every order at rest is deleted.  A message reaches its own     *)
(* venue since a route and the locate of its venue agree, and a symbol     *)
(* once named has the locate of the tape (LocatesOK).  The anchor is the   *)
(* first paced message of the day (PaceOK), and before it the count of the *)
(* rate limit is that of the day (RateOK).                                 *)
(***************************************************************************)
EXTENDS ReplayRun, WellFoundedInduction, TLAPS

Locates == Range(TapeLocate) \cup Range(InitialLocate)
Frames == Messages \cup [kind : {"A", "D"}, order : Nat]
Feed == [packet : Seq(Frames), wire : Seq(Frames)]
Published == [msg : Messages, at : Nat, known : BOOLEAN, venue : Venues \cup {NoVenue}]
Phases == {"Opening", "Waiting", "Polling", "Pumping", "Ended"}

\* All that was published in this loop, packed or not.
Out(m) == m.wire \o m.packet
\* The messages of the tape that this loop is done with, and those it published.
Done == IF have THEN cursor - 1 ELSE cursor
DayMessages == [i \in DOMAIN day |-> day[i].msg]

\* The types of what the argument is about.
Types ==
  /\ cfg \in Configs /\ phase \in Phases
  /\ cursor \in 0 .. Len(Tape) /\ have \in BOOLEAN /\ (have => cursor > 0)
  /\ finished \in BOOLEAN
  /\ anchor \in [set : BOOLEAN, mono : Nat, ts : Nat] /\ afap \in [start : Nat, sent : Nat]
  /\ batch \in Nat /\ now \in Nat \ {0} /\ clock \in Nat /\ now <= clock
  /\ day \in Seq(Published) /\ named \subseteq Symbols
  /\ resting \in Seq(Nat) /\ toVenue \in Seq(Nat) /\ orders \in Nat
  /\ clientSeen \in BOOLEAN /\ accepted \in BOOLEAN

\* A route leads to a venue that has this locate.  A listed symbol whose directory
\* message was seen has its route; another one still has the locate it was
\* configured with, and its route unless a symbol of the tape took that.
LocatesOK ==
  /\ routes \in [Locates -> Venues \cup {NoVenue}] /\ locateOf \in [Venues -> Locates]
  /\ \A l \in Locates : routes[l] # NoVenue => locateOf[routes[l]] = l
  /\ \A s \in Venues \cap named : locateOf[s] = TapeLocate[s] /\ routes[TapeLocate[s]] = s
  /\ \A s \in Venues \ named :
       /\ locateOf[s] = InitialLocate[s]
       /\ routes[InitialLocate[s]] = s \/ \E t \in Venues \cap named : TapeLocate[t] = InitialLocate[s]

\* Once all listed symbols are named, a message goes to the venue of its symbol.
Delivered ==
  \A i \in DOMAIN day :
    day[i].known /\ day[i].msg.kind = "M" =>
      day[i].venue = IF day[i].msg.sym \in Venues THEN day[i].msg.sym ELSE NoVenue

\* The day is what is to be taken from the messages done with, none of them past
\* stopAt as long as there is more to come.
DayOK ==
  /\ DayMessages = Kept(Tape, Wanted)[Done]
  /\ ~finished => \A j \in 1 .. Done : ~Stops(j)

\* What went into the feed m of a loop, with n orders at rest.
Streams(m, msgs, n) ==
  /\ m \in Feed
  /\ OfTape(Out(m)) = msgs
  /\ Len(OfOrder(Out(m), "A")) = n /\ Len(OfOrder(Out(m), "D")) = 0

\* The feed of this loop, and what left in the loop before.
StreamOK ==
  /\ IF finished THEN md = [packet |-> << >>, wire |-> << >>] /\ phase \in {"Pumping", "Ended"}
     ELSE Streams(md, DayMessages, Len(resting))
  /\ phase # "Pumping" => md.packet = << >>
  /\ prev # << >> =>
       OfTape(prev) = TapeDay /\ Len(OfOrder(prev, "A")) = Len(OfOrder(prev, "D"))

\* The anchor is the first message that is to keep the recorded pace.
IsFirst(f) == Paced(day[f].msg) /\ ~\E k \in 1 .. f - 1 : Paced(day[k].msg)

PaceOK ==
  /\ \A i \in DOMAIN day : day[i].at <= now
  /\ IF anchor.set
     THEN \E f \in DOMAIN day : IsFirst(f) /\ anchor.mono = day[f].at /\ anchor.ts = day[f].msg.ts
     ELSE \A j \in DOMAIN day : ~Paced(day[j].msg)
  /\ batch <= BatchSize /\ (phase = "Pumping" => batch < BatchSize)

\* Until the anchor is set, the rate limit counts the messages of the day from the
\* time of the first one; those of this batch are not held back.
RateOK ==
  ~anchor.set /\ cfg.rate > 0 =>
    /\ afap.sent = Len(day)
    /\ afap.start = IF day = << >> THEN 0 ELSE day[1].at
    /\ day # << >> => afap.start > 0
    /\ batch > 0 => (Len(day) - batch) * Second < (now - afap.start + 1) * cfg.rate

\* The inductive invariant.
IInv == Types /\ LocatesOK /\ Delivered /\ DayOK /\ StreamOK /\ PaceOK /\ RateOK /\ ReplayPaced

-----------------------------------------------------------------------------
(***************************************************************************)
(* What the recursive definitions compute, turn by turn.                   *)
(***************************************************************************)

\* What holds at 0 and passes from each turn to the next holds at every turn up to n.
LEMMA EveryTurn ==
  ASSUME NEW n \in Nat, NEW T, 0 \in T, \A i \in 0 .. (n - 1) : i \in T => i + 1 \in T
  PROVE  \A i \in 0 .. n : i \in T
<1> DEFINE Bad == {i \in 0 .. n : i \notin T}
<1>1. SUFFICES ASSUME Bad # {} PROVE FALSE
  OBVIOUS
<1>3. Bad \in SUBSET Nat
  OBVIOUS
<1>4. PICK x \in Bad : \A y \in Bad : ~ (<<y, x>> \in OpToRel(<, Nat))
  <2> HIDE DEF Bad
  <2>1. QED
    BY <1>1, <1>3, NatLessThanWellFounded, WFMin
<1>5. \A y \in Bad : ~ (y < x)
  BY <1>3, <1>4 DEF OpToRel
<1>6. x \in 0 .. n /\ x \notin T /\ x # 0
  BY <1>4
<1>7. x - 1 \in 0 .. (n - 1) /\ x - 1 \notin Bad
  BY <1>5, <1>6
<1>8. QED
  BY <1>6, <1>7

\* The parts of a sequence that are left of its first members.
Keeping(g, s, keep, n) ==
  g = [i \in 0 .. n |-> IF i = 0 THEN << >> ELSE IF i \in keep THEN Append(g[i - 1], s[i]) ELSE g[i - 1]]

\* There is such a sequence of parts.
LEMMA KeepingExists ==
  ASSUME NEW n \in Nat, NEW s, NEW keep
  PROVE  \E g : Keeping(g, s, keep, n)
<1> DEFINE T == {m \in 0 .. n : \E g : Keeping(g, s, keep, m)}
<1>1. 0 \in T
  <2> DEFINE g == [i \in 0 .. 0 |-> << >>]
  <2>1. Keeping(g, s, keep, 0)
    BY DEF Keeping
  <2> HIDE DEF g
  <2> QED
    BY <2>1
<1>2. ASSUME NEW m \in 0 .. (n - 1), m \in T PROVE m + 1 \in T
  <2>1. PICK g : Keeping(g, s, keep, m)
    BY <1>2
  <2> DEFINE step(x, i) == IF i \in keep THEN Append(x, s[i]) ELSE x
             h == [i \in 0 .. (m + 1) |-> IF i <= m THEN g[i] ELSE step(g[m], m + 1)]
  <2>2. g[0] = << >> /\ \A i \in 1 .. m : g[i] = step(g[i - 1], i)
    <3>1. g = [i \in 0 .. m |-> IF i = 0 THEN << >> ELSE step(g[i - 1], i)]
      BY <2>1 DEF Keeping
    <3> HIDE DEF step
    <3> QED
      BY <3>1
  <2>3. \A i \in 0 .. (m + 1) : h[i] = IF i = 0 THEN << >> ELSE step(h[i - 1], i)
    <3> HIDE DEF step
    <3> QED
      BY <2>2
  <2>4. h = [i \in 0 .. (m + 1) |-> IF i = 0 THEN << >> ELSE step(h[i - 1], i)]
    <3>1. h = [i \in 0 .. (m + 1) |-> h[i]]
      OBVIOUS
    <3> HIDE DEF h, step
    <3> QED
      BY <2>3, <3>1
  <2>5. Keeping(h, s, keep, m + 1)
    BY <2>4 DEF Keeping
  <2> HIDE DEF h
  <2> QED
    BY <2>5
<1>3. n \in T
  <2> HIDE DEF T
  <2>1. \A i \in 0 .. n : i \in T
    BY <1>1, <1>2, EveryTurn
  <2> QED
    BY <2>1
<1> QED
  BY <1>3

\* What Kept takes, member by member.
LEMMA KeptSteps ==
  ASSUME NEW s, Len(s) \in Nat, NEW keep
  PROVE  /\ Kept(s, keep)[0] = << >>
         /\ \A i \in 1 .. Len(s) :
              Kept(s, keep)[i] = IF i \in keep THEN Append(Kept(s, keep)[i - 1], s[i])
                                 ELSE Kept(s, keep)[i - 1]
<1> DEFINE k == Kept(s, keep)
           Is(g) == Keeping(g, s, keep, Len(s))
<1>1. \E g : Is(g)
  BY KeepingExists
<1>2. k = CHOOSE g : Is(g)
  BY DEF Kept, Keeping
<1>3. Is(k)
  <2> HIDE DEF Is, k
  <2> QED
    BY <1>1, <1>2
<1> DEFINE step(x, i) == IF i \in keep THEN Append(x, s[i]) ELSE x
<1>4. k = [i \in 0 .. Len(s) |-> IF i = 0 THEN << >> ELSE step(k[i - 1], i)]
  BY <1>3 DEF Keeping
<1>5. k[0] = << >> /\ \A i \in 1 .. Len(s) : k[i] = step(k[i - 1], i)
  <2> HIDE DEF k, step
  <2> QED
    BY <1>4
<1> QED
  BY <1>5

\* It takes sequences of the members.
LEMMA KeptSeq ==
  ASSUME NEW S, NEW s \in Seq(S), NEW keep
  PROVE  \A i \in 0 .. Len(s) : Kept(s, keep)[i] \in Seq(S)
<1> DEFINE k == Kept(s, keep)
           T == {i \in 0 .. Len(s) : k[i] \in Seq(S)}
<1>1. /\ Len(s) \in Nat /\ k[0] = << >>
      /\ \A i \in 1 .. Len(s) : k[i] = (IF i \in keep THEN Append(k[i - 1], s[i]) ELSE k[i - 1]) /\ s[i] \in S
  BY KeptSteps
<1> HIDE DEF k
<1>2. 0 \in T
  <2>1. << >> \in Seq(S)
    OBVIOUS
  <2>2. k[0] \in Seq(S)
    BY ONLY <1>1, <2>1
  <2>3. 0 \in 0 .. Len(s)
    BY <1>1
  <2> QED
    BY <2>2, <2>3
<1>3. ASSUME NEW i \in 0 .. (Len(s) - 1), i \in T PROVE i + 1 \in T
  <2>1. i + 1 \in 1 .. Len(s) /\ i + 1 - 1 = i
    BY <1>1
  <2>2. k[i + 1] = (IF i + 1 \in keep THEN Append(k[i], s[i + 1]) ELSE k[i]) /\ s[i + 1] \in S
    BY <1>1, <2>1
  <2>3. k[i] \in Seq(S)
    BY <1>3 DEF T
  <2>4. Append(k[i], s[i + 1]) \in Seq(S)
    <3>1. \A x \in Seq(S), e \in S : Append(x, e) \in Seq(S)
      OBVIOUS
    <3> QED
      BY <2>2, <2>3, <3>1
  <2>5. k[i + 1] \in Seq(S)
    BY <2>2, <2>3, <2>4
  <2> QED
    BY <2>1, <2>5
<1>4. \A i \in 0 .. Len(s) : i \in T
  <2> HIDE DEF T
  <2> QED
    BY <1>1, <1>2, <1>3, EveryTurn
<1> QED
  BY <1>4 DEF k

\* What is left of the first members depends on them alone.
LEMMA KeptSame ==
  ASSUME NEW s, NEW t, Len(s) \in Nat, Len(t) \in Nat, NEW K, NEW L, NEW n \in Nat, n <= Len(s), n <= Len(t),
         \A i \in 1 .. n : s[i] = t[i] /\ (i \in K <=> i \in L)
  PROVE  Kept(s, K)[n] = Kept(t, L)[n]
<1> DEFINE k == Kept(s, K)
           l == Kept(t, L)
           T == {i \in 0 .. n : k[i] = l[i]}
<1>1. /\ k[0] = << >> /\ l[0] = << >>
      /\ \A i \in 1 .. Len(s) : k[i] = IF i \in K THEN Append(k[i - 1], s[i]) ELSE k[i - 1]
      /\ \A i \in 1 .. Len(t) : l[i] = IF i \in L THEN Append(l[i - 1], t[i]) ELSE l[i - 1]
  BY KeptSteps
<1> HIDE DEF k, l
<1>2. ASSUME NEW i \in 0 .. (n - 1), i \in T PROVE i + 1 \in T
  <2>1. i + 1 \in 1 .. n /\ i + 1 \in 1 .. Len(s) /\ i + 1 \in 1 .. Len(t) /\ i + 1 - 1 = i
    OBVIOUS
  <2>2. k[i + 1] = (IF i + 1 \in K THEN Append(k[i], s[i + 1]) ELSE k[i])
    BY <1>1, <2>1
  <2>3. l[i + 1] = (IF i + 1 \in L THEN Append(l[i], t[i + 1]) ELSE l[i])
    BY <1>1, <2>1
  <2> QED
    BY <1>2, <2>1, <2>2, <2>3
<1>3. 0 \in T
  BY <1>1
<1>4. \A i \in 0 .. n : i \in T
  <2> HIDE DEF T
  <2> QED
    BY <1>2, <1>3, EveryTurn
<1> QED
  BY <1>4 DEF k, l

\* The parts of the first members are beginnings of the whole.
LEMMA KeptPrefix ==
  ASSUME NEW S, NEW s \in Seq(S), NEW keep, NEW n \in 0 .. Len(s)
  PROVE  IsPrefix(Kept(s, keep)[n], Kept(s, keep)[Len(s)])
<1> DEFINE k == Kept(s, keep)
           a == k[n]
           T == {j \in 0 .. (Len(s) - n) : Len(a) <= Len(k[n + j]) /\ \A i \in 1 .. Len(a) : k[n + j][i] = a[i]}
<1>1. /\ Len(s) \in Nat /\ \A i \in 0 .. Len(s) : k[i] \in Seq(S)
      /\ \A i \in 1 .. Len(s) : k[i] = IF i \in keep THEN Append(k[i - 1], s[i]) ELSE k[i - 1]
  BY KeptSteps, KeptSeq
<1> HIDE DEF k
<1>2. 0 \in T
  BY <1>1
<1>3. ASSUME NEW j \in 0 .. (Len(s) - n - 1), j \in T PROVE j + 1 \in T
  <2>1. n + (j + 1) \in 1 .. Len(s) /\ n + (j + 1) - 1 = n + j /\ n + j \in 0 .. Len(s)
    BY <1>1
  <2>2. k[n + (j + 1)] = IF n + (j + 1) \in keep THEN Append(k[n + j], s[n + (j + 1)]) ELSE k[n + j]
    BY <1>1, <2>1
  <2>3. k[n + j] \in Seq(S) /\ a \in Seq(S)
    BY <1>1, <2>1
  <2>4. CASE n + (j + 1) \in keep
    <3>1. k[n + (j + 1)] = Append(k[n + j], s[n + (j + 1)])
      BY <2>2, <2>4
    <3>2. /\ Len(k[n + (j + 1)]) = Len(k[n + j]) + 1
          /\ \A i \in 1 .. Len(k[n + j]) : k[n + (j + 1)][i] = k[n + j][i]
      BY <2>3, <3>1
    <3> QED
      BY <1>1, <1>3, <2>3, <3>2
  <2>5. CASE n + (j + 1) \notin keep
    BY <1>1, <1>3, <2>2, <2>5
  <2> QED
    BY <2>4, <2>5
<1>4. Len(s) - n \in T
  <2>1. Len(s) - n \in Nat
    BY <1>1
  <2> HIDE DEF T
  <2>2. \A j \in 0 .. (Len(s) - n) : j \in T
    BY <1>2, <1>3, <2>1, EveryTurn
  <2> QED
    BY <2>1, <2>2
<1>5. n + (Len(s) - n) = Len(s) /\ a \in Seq(S) /\ k[Len(s)] \in Seq(S)
  BY <1>1
<1> DEFINE b == k[Len(s)]
<1>6. Len(a) <= Len(b) /\ \A i \in 1 .. Len(a) : b[i] = a[i]
  BY <1>4, <1>5
<1>7. IsPrefix(a, b)
  <2> HIDE DEF a, b
  <2>1. a \in Seq(S) /\ b \in Seq(S)
    BY <1>5 DEF a, b
  <2> QED
    BY <1>6, <2>1 DEF IsPrefix
<1> QED
  BY <1>7 DEF k

\* OfKind member by member.
LEMMA OfKindFacts ==
  /\ \A K : OfKind(<< >>, K) = << >>
  /\ \A S, K : \A s \in Seq(S) : OfKind(s, K) \in Seq(S)
<1>1. ASSUME NEW K PROVE OfKind(<< >>, K) = << >>
  <2>1. Len(<< >>) = 0
    OBVIOUS
  <2> QED
    BY <2>1, KeptSteps DEF OfKind
<1>2. ASSUME NEW S, NEW K, NEW s \in Seq(S) PROVE OfKind(s, K) \in Seq(S)
  <2>1. Len(s) \in 0 .. Len(s)
    OBVIOUS
  <2> QED
    BY <2>1, KeptSeq DEF OfKind
<1> QED
  BY <1>1, <1>2

\* OfKind of one more member.
LEMMA OfKindAppend ==
  ASSUME NEW S, NEW s \in Seq(S), NEW m \in S, NEW K
  PROVE  OfKind(Append(s, m), K) = IF m.kind \in K THEN Append(OfKind(s, K), m) ELSE OfKind(s, K)
<1> DEFINE t == Append(s, m)
           L == {i \in DOMAIN s : s[i].kind \in K}
           M == {i \in DOMAIN t : t[i].kind \in K}
           n == Len(s)
<1>1. /\ Len(s) \in Nat /\ Len(t) = Len(s) + 1 /\ t[Len(s) + 1] = m /\ DOMAIN t = 1 .. (Len(s) + 1)
      /\ DOMAIN s = 1 .. Len(s) /\ \A i \in 1 .. Len(s) : t[i] = s[i]
  OBVIOUS
<1>2. (n + 1 \in M <=> m.kind \in K) /\ \A i \in 1 .. n : i \in L <=> i \in M
  BY <1>1
<1>3. OfKind(t, K) = Kept(t, M)[n + 1] /\ OfKind(s, K) = Kept(s, L)[n]
  BY <1>1 DEF OfKind
<1> HIDE DEF t, L, M
<1>4. Kept(s, L)[n] = Kept(t, M)[n]
  <2>1. \A i \in 1 .. n : s[i] = t[i] /\ (i \in L <=> i \in M)
    BY <1>1, <1>2
  <2>2. n \in Nat /\ n <= Len(s) /\ n <= Len(t) /\ Len(s) \in Nat /\ Len(t) \in Nat
    BY <1>1
  <2> HIDE DEF n
  <2> QED
    BY <2>1, <2>2, KeptSame
<1>5. Kept(t, M)[n + 1] = IF n + 1 \in M THEN Append(Kept(t, M)[n], t[n + 1]) ELSE Kept(t, M)[n]
  <2>1. n + 1 \in 1 .. Len(t) /\ (n + 1) - 1 = n
    BY <1>1
  <2> QED
    BY <1>1, <2>1, KeptSteps
<1>6. OfKind(t, K) = IF m.kind \in K THEN Append(OfKind(s, K), m) ELSE OfKind(s, K)
  <2>1. t[n + 1] = m /\ (n + 1 \in M <=> m.kind \in K)
    BY <1>1, <1>2
  <2> HIDE DEF n
  <2> QED
    BY ONLY <2>1, <1>3, <1>4, <1>5
<1> QED
  BY <1>6 DEF t

\* The packer adds to the end, whatever it does with packets.
LEMMA PackerAdds ==
  ASSUME NEW m \in Feed
  PROVE  /\ FlushMarketData(m) \in Feed /\ Out(FlushMarketData(m)) = Out(m) /\ FlushMarketData(m).packet = << >>
         /\ \A f \in Frames : AppendMarketData(m, f) \in Feed /\ Out(AppendMarketData(m, f)) = Append(Out(m), f)
         /\ Out(m) \in Seq(Frames)
<1>1. m.packet \in Seq(Frames) /\ m.wire \in Seq(Frames)
  BY DEF Feed
<1>2. \A s \in Seq(Frames), t \in Seq(Frames) :
        /\ s \o t \in Seq(Frames) /\ s \o << >> = s
        /\ \A f \in Frames : Append(t, f) \in Seq(Frames) /\ s \o Append(t, f) = Append(s \o t, f)
                             /\ s \o <<f>> = Append(s, f) /\ <<f>> \in Seq(Frames)
  <2>1. ASSUME NEW s \in Seq(Frames), NEW t \in Seq(Frames)
        PROVE  s \o t \in Seq(Frames) /\ s \o << >> = s
    OBVIOUS
  <2>2. ASSUME NEW s \in Seq(Frames), NEW t \in Seq(Frames), NEW f \in Frames
        PROVE  /\ Append(t, f) \in Seq(Frames) /\ s \o Append(t, f) = Append(s \o t, f)
               /\ s \o <<f>> = Append(s, f) /\ <<f>> \in Seq(Frames)
    OBVIOUS
  <2> QED
    BY <2>1, <2>2
<1>3. << >> \in Seq(Frames)
  OBVIOUS
<1>4. FlushMarketData(m) \in Feed /\ Out(FlushMarketData(m)) = Out(m) /\ FlushMarketData(m).packet = << >>
  <2>1. FlushMarketData(m) = [packet |-> << >>, wire |-> m.wire \o m.packet]
    BY DEF FlushMarketData
  <2>2. m.wire \o m.packet \in Seq(Frames) /\ (m.wire \o m.packet) \o << >> = m.wire \o m.packet
    BY <1>1, <1>2
  <2> QED
    BY <1>3, <2>1, <2>2 DEF Feed, Out
<1>5. ASSUME NEW f \in Frames
      PROVE  AppendMarketData(m, f) \in Feed /\ Out(AppendMarketData(m, f)) = Append(Out(m), f)
  <2>1. CASE Len(m.packet) < PacketCap
    <3>1. AppendMarketData(m, f) = [packet |-> Append(m.packet, f), wire |-> m.wire]
      BY <2>1 DEF AppendMarketData, Feed
    <3> QED
      BY <1>1, <1>2, <3>1 DEF Feed, Out
  <2>2. CASE ~(Len(m.packet) < PacketCap)
    <3>1. AppendMarketData(m, f) = [packet |-> <<f>>, wire |-> m.wire \o m.packet]
      BY <2>2 DEF AppendMarketData, FlushMarketData
    <3> QED
      BY <1>1, <1>2, <3>1 DEF Feed, Out
  <2> QED
    BY <2>1, <2>2
<1> QED
  BY <1>1, <1>2, <1>4, <1>5 DEF Out

\* The feed while messages are packed.
Packing(g, m, msgs, n) ==
  g = [i \in 0 .. n |-> IF i = 0 THEN m ELSE AppendMarketData(g[i - 1], msgs[i])]

\* WithMarketData packs one message after the other, and flushes.
LEMMA PackingExists ==
  ASSUME NEW n \in Nat, NEW m, NEW msgs
  PROVE  \E g : Packing(g, m, msgs, n)
<1> DEFINE T == {j \in 0 .. n : \E g : Packing(g, m, msgs, j)}
<1>1. 0 \in T
  <2> DEFINE g == [i \in 0 .. 0 |-> m]
  <2>1. Packing(g, m, msgs, 0)
    BY DEF Packing
  <2> HIDE DEF g
  <2> QED
    BY <2>1
<1>2. ASSUME NEW j \in 0 .. (n - 1), j \in T PROVE j + 1 \in T
  <2>1. PICK g : Packing(g, m, msgs, j)
    BY <1>2
  <2> DEFINE step(x, i) == AppendMarketData(x, msgs[i])
             h == [i \in 0 .. (j + 1) |-> IF i <= j THEN g[i] ELSE step(g[j], j + 1)]
  <2>2. g[0] = m /\ \A i \in 1 .. j : g[i] = step(g[i - 1], i)
    <3>1. g = [i \in 0 .. j |-> IF i = 0 THEN m ELSE step(g[i - 1], i)]
      BY <2>1 DEF Packing
    <3> HIDE DEF step
    <3> QED
      BY <3>1
  <2>3. \A i \in 0 .. (j + 1) : h[i] = IF i = 0 THEN m ELSE step(h[i - 1], i)
    <3> HIDE DEF step
    <3> QED
      BY <2>2
  <2>4. h = [i \in 0 .. (j + 1) |-> IF i = 0 THEN m ELSE step(h[i - 1], i)]
    <3>1. h = [i \in 0 .. (j + 1) |-> h[i]]
      OBVIOUS
    <3> HIDE DEF h, step
    <3> QED
      BY <2>3, <3>1
  <2>5. Packing(h, m, msgs, j + 1)
    BY <2>4 DEF Packing
  <2> HIDE DEF h
  <2> QED
    BY <2>5
<1>3. n \in T
  <2> HIDE DEF T
  <2>1. \A i \in 0 .. n : i \in T
    BY <1>1, <1>2, EveryTurn
  <2> QED
    BY <2>1
<1> QED
  BY <1>3

\* The turns of WithMarketData.
LEMMA PackingTurns ==
  ASSUME NEW m, NEW msgs, Len(msgs) \in Nat
  PROVE  \E p : /\ p[0] = m /\ \A i \in 1 .. Len(msgs) : p[i] = AppendMarketData(p[i - 1], msgs[i])
                /\ WithMarketData(m, msgs) = FlushMarketData(p[Len(msgs)])
<1> DEFINE Is(g) == Packing(g, m, msgs, Len(msgs))
           p == CHOOSE g : Is(g)
           step(x, i) == AppendMarketData(x, msgs[i])
<1>1. \E g : Is(g)
  BY PackingExists
<1>2. Is(p)
  <2> HIDE DEF Is
  <2> QED
    BY <1>1
<1>3. WithMarketData(m, msgs) = FlushMarketData(p[Len(msgs)])
  BY DEF WithMarketData, Packing
<1>4. p = [i \in 0 .. Len(msgs) |-> IF i = 0 THEN m ELSE step(p[i - 1], i)]
  BY <1>2 DEF Packing
<1>5. p[0] = m /\ \A i \in 1 .. Len(msgs) : p[i] = step(p[i - 1], i)
  <2> HIDE DEF p, step
  <2> QED
    BY <1>4
<1> HIDE DEF p
<1> QED
  BY <1>3, <1>5

-----------------------------------------------------------------------------
(***************************************************************************)
(* What is published.                                                      *)
(***************************************************************************)

\* One more message in the feed.
LEMMA FeedGrows ==
  ASSUME NEW m \in Feed, NEW f \in Frames
  PROVE  /\ AppendMarketData(m, f) \in Feed
         /\ \A K : OfKind(Out(AppendMarketData(m, f)), K) =
                     IF f.kind \in K THEN Append(OfKind(Out(m), K), f) ELSE OfKind(Out(m), K)
         /\ \A K : Len(OfKind(Out(m), K)) \in Nat /\ Len(Append(OfKind(Out(m), K), f)) = Len(OfKind(Out(m), K)) + 1
<1>1. AppendMarketData(m, f) \in Feed /\ Out(AppendMarketData(m, f)) = Append(Out(m), f) /\ Out(m) \in Seq(Frames)
  BY PackerAdds
<1>2. \A K : OfKind(Out(m), K) \in Seq(Frames)
  BY <1>1, OfKindFacts
<1>3. ASSUME NEW K
      PROVE  OfKind(Out(AppendMarketData(m, f)), K) =
               IF f.kind \in K THEN Append(OfKind(Out(m), K), f) ELSE OfKind(Out(m), K)
  BY <1>1, OfKindAppend
<1>4. ASSUME NEW s \in Seq(Frames)
      PROVE  Len(s) \in Nat /\ Len(Append(s, f)) = Len(s) + 1
  OBVIOUS
<1> QED
  BY <1>1, <1>2, <1>3, <1>4

\* A message of the tape joins the stream behind those of the day.
LEMMA StreamsTape ==
  ASSUME NEW m, NEW msgs, NEW n, Streams(m, msgs, n), NEW f \in Messages
  PROVE  Streams(AppendMarketData(m, f), Append(msgs, f), n)
<1>1. f \in Frames /\ f.kind \in {"R", "M"} /\ "A" # "R" /\ "A" # "M" /\ "D" # "R" /\ "D" # "M"
  BY DEF Frames, Messages
<1>2. m \in Feed
  BY DEF Streams
<1> DEFINE w == AppendMarketData(m, f)
<1>3. /\ w \in Feed
      /\ OfKind(Out(w), {"R", "M"}) = Append(OfKind(Out(m), {"R", "M"}), f)
      /\ OfKind(Out(w), {"A"}) = OfKind(Out(m), {"A"})
      /\ OfKind(Out(w), {"D"}) = OfKind(Out(m), {"D"})
  <2> HIDE DEF w
  <2>1. \A K : OfKind(Out(w), K) = IF f.kind \in K THEN Append(OfKind(Out(m), K), f) ELSE OfKind(Out(m), K)
    BY <1>1, <1>2, FeedGrows DEF w
  <2>2. w \in Feed
    BY <1>1, <1>2, FeedGrows DEF w
  <2>3. f.kind \notin {"A"} /\ f.kind \notin {"D"}
    BY <1>1
  <2> QED
    BY <1>1, <2>1, <2>2, <2>3
<1> HIDE DEF w
<1>4. Streams(w, Append(msgs, f), n)
  BY <1>3 DEF Streams, OfTape, OfOrder
<1> QED
  BY <1>4 DEF w

\* A flush moves the open packet to the wire, and leaves nothing open.
LEMMA StreamsFlush ==
  ASSUME NEW m, NEW msgs, NEW n, Streams(m, msgs, n)
  PROVE  Streams(FlushMarketData(m), msgs, n) /\ FlushMarketData(m).packet = << >>
<1>1. m \in Feed
  BY DEF Streams
<1>2. /\ FlushMarketData(m) \in Feed /\ Out(FlushMarketData(m)) = Out(m)
      /\ FlushMarketData(m).packet = << >>
  BY <1>1, PackerAdds
<1> QED
  BY <1>2 DEF Streams

\* What the messages of one kind about orders add to the stream.
LEMMA WithOrders ==
  ASSUME NEW m \in Feed, NEW fs, Len(fs) \in Nat, NEW k \in {"A", "D"},
         \A i \in 1 .. Len(fs) : fs[i] \in Frames /\ fs[i].kind = k
  PROVE  LET w == WithMarketData(m, fs)
         IN /\ w \in Feed /\ w.packet = << >>
            /\ OfTape(Out(w)) = OfTape(Out(m))
            /\ Len(OfOrder(Out(w), k)) = Len(OfOrder(Out(m), k)) + Len(fs)
            /\ \A j \in {"A", "D"} : j # k => OfOrder(Out(w), j) = OfOrder(Out(m), j)
<1> DEFINE n == Len(fs)
<1>1. PICK p : /\ p[0] = m /\ \A i \in 1 .. n : p[i] = AppendMarketData(p[i - 1], fs[i])
               /\ WithMarketData(m, fs) = FlushMarketData(p[n])
  BY PackingTurns
<1> DEFINE Fits(x, i) == /\ x \in Feed
                         /\ OfTape(Out(x)) = OfTape(Out(m))
                         /\ Len(OfOrder(Out(x), k)) = Len(OfOrder(Out(m), k)) + i
                         /\ \A j \in {"A", "D"} : j # k => OfOrder(Out(x), j) = OfOrder(Out(m), j)
           T == {i \in 0 .. n : Fits(p[i], i)}
<1>2. 0 \in T
  <2>1. OfOrder(Out(m), k) \in Seq(Frames)
    BY PackerAdds, OfKindFacts DEF OfOrder
  <2>2. Len(OfOrder(Out(m), k)) + 0 = Len(OfOrder(Out(m), k))
    BY <2>1
  <2>3. Fits(p[0], 0)
    BY <1>1, <2>2
  <2> QED
    BY <2>3
<1>3. ASSUME NEW i \in 0 .. (n - 1), i \in T PROVE i + 1 \in T
  <2>1. Fits(p[i], i)
    BY <1>3
  <2>2. i + 1 \in 1 .. n /\ i + 1 - 1 = i /\ i + 1 \in 0 .. n
    OBVIOUS
  <2>3. p[i + 1] = AppendMarketData(p[i], fs[i + 1]) /\ fs[i + 1] \in Frames /\ fs[i + 1].kind = k
    BY <1>1, <2>2
  <2> DEFINE x == p[i]
             f == fs[i + 1]
             y == AppendMarketData(x, f)
  <2>4. x \in Feed /\ f \in Frames /\ f.kind = k
    BY <2>1, <2>3
  <2> HIDE DEF x, f
  <2>5. /\ y \in Feed
        /\ \A K : OfKind(Out(y), K) = IF f.kind \in K THEN Append(OfKind(Out(x), K), f) ELSE OfKind(Out(x), K)
        /\ \A K : Len(OfKind(Out(x), K)) \in Nat /\ Len(Append(OfKind(Out(x), K), f)) = Len(OfKind(Out(x), K)) + 1
    BY <2>4, FeedGrows
  <2> HIDE DEF y
  <2>6. k \notin {"R", "M"} /\ k \in {k} /\ \A j \in {"A", "D"} : j # k => k \notin {j}
    OBVIOUS
  <2>7. OfTape(Out(y)) = OfTape(Out(m))
    BY <2>1, <2>4, <2>5, <2>6 DEF OfTape, x
  <2>8. Len(OfOrder(Out(y), k)) = Len(OfOrder(Out(x), k)) + 1
    <3>1. OfKind(Out(y), {k}) = Append(OfKind(Out(x), {k}), f)
      BY <2>4, <2>5, <2>6
    <3> QED
      BY <2>5, <3>1 DEF OfOrder
  <2>9. Len(OfOrder(Out(x), k)) = Len(OfOrder(Out(m), k)) + i /\ Len(OfOrder(Out(m), k)) \in Nat
    <3>1. OfOrder(Out(m), k) \in Seq(Frames)
      BY PackerAdds, OfKindFacts DEF OfOrder
    <3> QED
      BY <2>1, <3>1 DEF x
  <2>10. Len(OfOrder(Out(y), k)) = Len(OfOrder(Out(m), k)) + (i + 1)
    BY <2>8, <2>9
  <2>11. \A j \in {"A", "D"} : j # k => OfOrder(Out(y), j) = OfOrder(Out(m), j)
    BY <2>1, <2>4, <2>5, <2>6 DEF OfOrder, x
  <2>12. Fits(y, i + 1)
    BY <2>5, <2>7, <2>10, <2>11
  <2>13. p[i + 1] = y
    BY <2>3 DEF x, f, y
  <2> QED
    BY <2>2, <2>12, <2>13
<1>4. Fits(p[n], n)
  <2>1. \A i \in 0 .. n : i \in T
    <3> HIDE DEF T
    <3> QED
      BY <1>2, <1>3, EveryTurn
  <2> QED
    BY <2>1
<1>5. FlushMarketData(p[n]) \in Feed /\ Out(FlushMarketData(p[n])) = Out(p[n]) /\ FlushMarketData(p[n]).packet = << >>
  BY <1>4, PackerAdds
<1> QED
  BY <1>1, <1>4, <1>5

-----------------------------------------------------------------------------
\* What pollOrderEntry has in hand.
Hands == [logins : BOOLEAN, accepted : BOOLEAN, resting : Seq(Nat), md : Feed]

Polling(g, v, n) == g = [i \in 0 .. n |-> IF i = 0 THEN v ELSE HandleSoup(g[i - 1], toVenue[i])]

\* A frame from the device: the stream grows with the orders at rest.
LEMMA SoupStreams ==
  ASSUME NEW v \in Hands, NEW msgs, Streams(v.md, msgs, Len(v.resting)), v.md.packet = << >>, NEW f \in Nat
  PROVE  LET w == HandleSoup(v, f)
         IN w \in Hands /\ Streams(w.md, msgs, Len(w.resting)) /\ w.md.packet = << >>
<1>1. CASE f = Login
  <2>1. HandleSoup(v, f) = [v EXCEPT !.logins = TRUE, !.accepted = TRUE]
    BY <1>1 DEF HandleSoup
  <2> QED
    BY <2>1 DEF Hands
<1>2. CASE f # Login
  <2> DEFINE fs == <<OrderMessage("A", f)>>
             w == WithMarketData(v.md, fs)
             r == Append(v.resting, f)
  <2>1. HandleSoup(v, f) = [v EXCEPT !.resting = r, !.md = w]
    BY <1>2 DEF HandleSoup
  <2>2. Len(fs) = 1 /\ \A i \in 1 .. Len(fs) : fs[i] \in Frames /\ fs[i].kind = "A"
    <3> DEFINE e == OrderMessage("A", f)
    <3>1. e \in [kind : {"A", "D"}, order : Nat] /\ e.kind = "A"
      BY DEF OrderMessage
    <3>2. e \in Frames
      BY <3>1 DEF Frames
    <3> HIDE DEF e
    <3>3. Len(<<e>>) = 1 /\ \A i \in 1 .. Len(<<e>>) : <<e>>[i] = e
      OBVIOUS
    <3>4. fs = <<e>>
      BY DEF e
    <3> HIDE DEF fs
    <3> QED
      BY <3>1, <3>2, <3>3, <3>4
  <2>3. v.md \in Feed /\ v.resting \in Seq(Nat)
    BY DEF Hands
  <2>4. r \in Seq(Nat) /\ Len(r) = Len(v.resting) + 1
    BY <2>3
  <2> HIDE DEF fs
  <2>5. /\ w \in Feed /\ w.packet = << >>
        /\ OfTape(Out(w)) = OfTape(Out(v.md))
        /\ Len(OfOrder(Out(w), "A")) = Len(OfOrder(Out(v.md), "A")) + Len(fs)
        /\ \A j \in {"A", "D"} : j # "A" => OfOrder(Out(w), j) = OfOrder(Out(v.md), j)
    <3> DEFINE m == v.md
    <3>1. m \in Feed /\ Len(fs) \in Nat /\ "A" \in {"A", "D"}
      BY <2>2, <2>3
    <3> HIDE DEF m
    <3>2. LET x == WithMarketData(m, fs)
          IN /\ x \in Feed /\ x.packet = << >>
             /\ OfTape(Out(x)) = OfTape(Out(m))
             /\ Len(OfOrder(Out(x), "A")) = Len(OfOrder(Out(m), "A")) + Len(fs)
             /\ \A j \in {"A", "D"} : j # "A" => OfOrder(Out(x), j) = OfOrder(Out(m), j)
      BY <2>2, <3>1, WithOrders
    <3> QED
      BY <3>2 DEF m
  <2> HIDE DEF w, r
  <2>6. Streams(w, msgs, Len(r))
    <3>1. OfOrder(Out(w), "D") = OfOrder(Out(v.md), "D")
      BY <2>5
    <3> QED
      BY <2>2, <2>4, <2>5, <3>1 DEF Streams
  <2> DEFINE h == [v EXCEPT !.resting = r, !.md = w]
  <2>7. h \in Hands /\ h.resting = r /\ h.md = w
    <3>1. r \in Seq(Nat) /\ w \in Feed
      BY <2>4, <2>5
    <3>2. \A x \in Seq(Nat), y \in Feed :
            LET z == [v EXCEPT !.resting = x, !.md = y] IN z \in Hands /\ z.resting = x /\ z.md = y
      BY DEF Hands
    <3> QED
      BY <3>1, <3>2
  <2>8. HandleSoup(v, f) = h
    BY <2>1
  <2> HIDE DEF h
  <2> QED
    BY <2>5, <2>6, <2>7, <2>8
<1> QED
  BY <1>1, <1>2

\* The turns of the poll exist.
LEMMA PollingExists ==
  ASSUME NEW n \in Nat, NEW v
  PROVE  \E g : Polling(g, v, n)
<1> DEFINE T == {j \in 0 .. n : \E g : Polling(g, v, j)}
<1>1. 0 \in T
  <2> DEFINE g == [i \in 0 .. 0 |-> v]
  <2>1. Polling(g, v, 0)
    BY DEF Polling
  <2> HIDE DEF g
  <2> QED
    BY <2>1
<1>2. ASSUME NEW j \in 0 .. (n - 1), j \in T PROVE j + 1 \in T
  <2>1. PICK g : Polling(g, v, j)
    BY <1>2
  <2> DEFINE step(x, i) == HandleSoup(x, toVenue[i])
             h == [i \in 0 .. (j + 1) |-> IF i <= j THEN g[i] ELSE step(g[j], j + 1)]
  <2>2. g[0] = v /\ \A i \in 1 .. j : g[i] = step(g[i - 1], i)
    <3>1. g = [i \in 0 .. j |-> IF i = 0 THEN v ELSE step(g[i - 1], i)]
      BY <2>1 DEF Polling
    <3> HIDE DEF step
    <3> QED
      BY <3>1
  <2>3. \A i \in 0 .. (j + 1) : h[i] = IF i = 0 THEN v ELSE step(h[i - 1], i)
    <3> HIDE DEF step
    <3> QED
      BY <2>2
  <2>4. h = [i \in 0 .. (j + 1) |-> IF i = 0 THEN v ELSE step(h[i - 1], i)]
    <3>1. h = [i \in 0 .. (j + 1) |-> h[i]]
      OBVIOUS
    <3> HIDE DEF h, step
    <3> QED
      BY <2>3, <3>1
  <2>5. Polling(h, v, j + 1)
    BY <2>4 DEF Polling
  <2> HIDE DEF h
  <2> QED
    BY <2>5
<1>3. n \in T
  <2> HIDE DEF T
  <2>1. \A i \in 0 .. n : i \in T
    BY <1>1, <1>2, EveryTurn
  <2> QED
    BY <2>1
<1> QED
  BY <1>3

\* The poll as a whole.
LEMMA PolledStreams ==
  ASSUME NEW v \in Hands, NEW msgs, Streams(v.md, msgs, Len(v.resting)), v.md.packet = << >>, toVenue \in Seq(Nat)
  PROVE  LET w == Polled(v)
         IN w \in Hands /\ Streams(w.md, msgs, Len(w.resting)) /\ w.md.packet = << >>
<1> DEFINE n == Len(toVenue)
           Is(g) == Polling(g, v, n)
           p == CHOOSE g : Is(g)
           step(x, i) == HandleSoup(x, toVenue[i])
<1>0. n \in Nat /\ \A i \in 1 .. n : toVenue[i] \in Nat
  OBVIOUS
<1>1. \E g : Is(g)
  BY <1>0, PollingExists
<1>2. Is(p)
  <2> HIDE DEF Is
  <2> QED
    BY <1>1
<1>3. Polled(v) = p[n]
  BY DEF Polled, Polling
<1>4. p = [i \in 0 .. n |-> IF i = 0 THEN v ELSE step(p[i - 1], i)]
  BY <1>2 DEF Polling
<1>5. p[0] = v /\ \A i \in 1 .. n : p[i] = step(p[i - 1], i)
  <2> HIDE DEF p, step
  <2> QED
    BY <1>0, <1>4
<1> HIDE DEF p
<1> DEFINE Fits(w) == w \in Hands /\ Streams(w.md, msgs, Len(w.resting)) /\ w.md.packet = << >>
           T == {i \in 0 .. n : Fits(p[i])}
<1>6. 0 \in T
  BY <1>0, <1>5
<1>7. ASSUME NEW i \in 0 .. (n - 1), i \in T PROVE i + 1 \in T
  <2>1. i + 1 \in 1 .. n /\ i + 1 - 1 = i /\ i + 1 \in 0 .. n
    BY <1>0
  <2>2. p[i + 1] = HandleSoup(p[i], toVenue[i + 1]) /\ toVenue[i + 1] \in Nat
    BY <1>0, <1>5, <2>1
  <2>3. Fits(HandleSoup(p[i], toVenue[i + 1]))
    BY <1>7, <2>2, SoupStreams
  <2> QED
    BY <2>1, <2>2, <2>3
<1>8. \A i \in 0 .. n : i \in T
  <2> HIDE DEF T
  <2> QED
    BY <1>0, <1>6, <1>7, EveryTurn
<1>9. Fits(p[n])
  BY <1>0, <1>8
<1> QED
  BY <1>3, <1>9

\* The members of the day, and the messages of the tape.
LEMMA MembersTyped ==
  ASSUME Types
  PROVE  /\ Len(day) \in Nat /\ DOMAIN day = 1 .. Len(day)
         /\ \A i \in DOMAIN day :
              day[i].msg \in Messages /\ day[i].at \in Nat /\ day[i].known \in BOOLEAN
         /\ Tape \in Seq(Messages) /\ Len(Tape) \in Nat
         /\ \A i \in 1 .. Len(Tape) : Tape[i] \in Messages
         /\ BatchSize \in Nat \ {0}
<1>1. Len(day) \in Nat /\ DOMAIN day = 1 .. Len(day) /\ \A i \in DOMAIN day : day[i] \in Published
  <2>1. day \in Seq(Published)
    BY DEF Types
  <2> QED
    BY <2>1
<1>2. \A p \in Published : p.msg \in Messages /\ p.at \in Nat /\ p.known \in BOOLEAN
  BY DEF Published
<1>3. Tape \in Seq(Messages) /\ cfg.maxBatch \in Nat
  BY ConfigsAssumption DEF Types, Tape
<1>4. Len(Tape) \in Nat /\ \A i \in 1 .. Len(Tape) : Tape[i] \in Messages
  BY <1>3
<1>5. BatchSize \in Nat \ {0}
  BY <1>3 DEF BatchSize
<1> QED
  BY <1>1, <1>2, <1>3, <1>4, <1>5

-----------------------------------------------------------------------------
(***************************************************************************)
(* The parts of the invariant that a step leaves alone.                    *)
(***************************************************************************)

\* What depends on the configuration alone.
LEMMA TapeStays ==
  ASSUME cfg' = cfg
  PROVE  /\ Tape' = Tape /\ Wanted' = Wanted /\ TapeDay' = TapeDay /\ BatchSize' = BatchSize
         /\ \A i : Stops(i)' <=> Stops(i)
         /\ \A m : Paced(m)' <=> Paced(m)
<1>1. Tape' = Tape /\ BatchSize' = BatchSize
  BY DEF Tape, BatchSize
<1>2. \A i : Stops(i)' <=> Stops(i)
  BY DEF Stops, PastStop, Tape
<1>3. \A m : Paced(m)' <=> Paced(m)
  BY DEF Paced
<1>4. Wanted' = Wanted
  BY <1>1, <1>2 DEF Wanted
<1>5. TapeDay' = TapeDay
  BY <1>1, <1>4 DEF TapeDay
<1> QED
  BY <1>1, <1>2, <1>3, <1>4, <1>5

\* A step that neither binds a locate nor gets on in the tape.
LEMMA DayStays ==
  ASSUME LocatesOK, Delivered, DayOK, UNCHANGED <<cfg, day, routes, locateOf, named, finished>>, Done' = Done
  PROVE  LocatesOK' /\ Delivered' /\ DayOK' /\ DayMessages' = DayMessages
<1>1. LocatesOK'
  BY DEF LocatesOK
<1>2. Delivered'
  BY DEF Delivered
<1>3. DayMessages' = DayMessages
  BY DEF DayMessages
<1>4. Tape' = Tape /\ Wanted' = Wanted /\ \A i : Stops(i)' <=> Stops(i)
  BY TapeStays
<1>5. DayOK'
  BY <1>3, <1>4 DEF DayOK
<1> QED
  BY <1>1, <1>2, <1>3, <1>5

\* What was published stays paced.
LEMMA PacedStays ==
  ASSUME ReplayPaced, UNCHANGED <<cfg, day>>
  PROVE  ReplayPaced' /\ \A f : IsFirst(f)' <=> IsFirst(f)
<1>1. BatchSize' = BatchSize /\ \A m : Paced(m)' <=> Paced(m)
  BY TapeStays
<1>2. \A i : Fast(i)' <=> Fast(i)
  BY <1>1 DEF Fast
<1>3. \A f : IsFirst(f)' <=> IsFirst(f)
  BY <1>1 DEF IsFirst
<1>4. \A i : (CHOOSE j \in 1 .. i : Paced(day[j].msg)' /\ ~\E k \in 1 .. j - 1 : Paced(day[k].msg)')
             = (CHOOSE j \in 1 .. i : Paced(day[j].msg) /\ ~\E k \in 1 .. j - 1 : Paced(day[k].msg))
  BY DEF Paced
<1>5. ReplayPaced'
  BY <1>1, <1>2, <1>4 DEF ReplayPaced
<1> QED
  BY <1>3, <1>5

\* A step that leaves the pump's times alone.
LEMMA PaceStays ==
  ASSUME PaceOK, RateOK, ReplayPaced, UNCHANGED <<cfg, day, anchor, afap, batch, now>>,
         phase' = "Pumping" => phase = "Pumping"
  PROVE  PaceOK' /\ RateOK' /\ ReplayPaced'
<1>1. BatchSize' = BatchSize /\ \A m : Paced(m)' <=> Paced(m)
  BY TapeStays
<1>2. ReplayPaced' /\ \A f : IsFirst(f)' <=> IsFirst(f)
  BY PacedStays
<1>3. PaceOK'
  BY <1>1, <1>2 DEF PaceOK
<1>4. RateOK'
  BY DEF RateOK
<1> QED
  BY <1>2, <1>3, <1>4

\* A step that leaves the stream alone.
LEMMA StreamStays ==
  ASSUME StreamOK, UNCHANGED <<cfg, md, prev, resting, finished>>, DayMessages' = DayMessages,
         phase' = phase \/ (phase' = "Ended" /\ md.packet = << >>) \/ phase = "Opening"
  PROVE  StreamOK'
<1>1. TapeDay' = TapeDay
  BY TapeStays
<1>2. Streams(md, DayMessages, Len(resting))' <=> Streams(md, DayMessages, Len(resting))
  BY DEF Streams, OfTape, OfOrder, Out
<1>3. OfTape(prev)' = OfTape(prev) /\ OfOrder(prev, "A")' = OfOrder(prev, "A") /\ OfOrder(prev, "D")' = OfOrder(prev, "D")
  OBVIOUS
<1> QED
  BY <1>1, <1>2, <1>3 DEF StreamOK

-----------------------------------------------------------------------------
(***************************************************************************)
(* The steps, but for the publications and the end of a loop.              *)
(***************************************************************************)

\* The device, the wire, the clock, the start and the signal.
LEMMA OthersKeep ==
  ASSUME IInv, SimOpens \/ DutLogsIn \/ DutIsAccepted \/ DutOrders \/ FrameLost \/ Tick \/ StopSignal
  PROVE  IInv'
<1>0. Types /\ LocatesOK /\ Delivered /\ DayOK /\ StreamOK /\ PaceOK /\ RateOK /\ ReplayPaced
  BY DEF IInv
<1>1. /\ UNCHANGED <<cfg, cursor, have, anchor, afap, loop, finished, batch, now, md,
                     routes, locateOf, resting, day, prev, named>>
      /\ phase' = phase \/ (phase = "Opening" /\ phase' \in {"Ended", "Waiting", "Polling"})
      /\ clock' \in Nat /\ now <= clock'
  BY <1>0 DEF Types, SimOpens, DutLogsIn, DutIsAccepted, DutOrders, FrameLost, Tick, StopSignal, replayVars, linkVars
<1>2. /\ toVenue' \in Seq(Nat) /\ orders' \in Nat /\ clientSeen' \in BOOLEAN /\ accepted' \in BOOLEAN
  <2>1. CASE SimOpens \/ DutIsAccepted \/ Tick \/ StopSignal
    BY <1>0, <2>1 DEF Types, SimOpens, DutIsAccepted, Tick, StopSignal, linkVars
  <2>2. \A n \in Nat : Append(toVenue, n) \in Seq(Nat)
    BY <1>0 DEF Types
  <2>3. CASE DutLogsIn
    <3>1. toVenue' = Append(toVenue, 0) /\ UNCHANGED <<orders, clientSeen, accepted>>
      BY <2>3 DEF DutLogsIn, Login
    <3> QED
      BY <1>0, <2>2, <3>1 DEF Types
  <2>5. CASE DutOrders
    <3>1. toVenue' = Append(toVenue, orders + 1) /\ orders' = orders + 1 /\ UNCHANGED <<clientSeen, accepted>>
      BY <2>5 DEF DutOrders
    <3>2. orders + 1 \in Nat
      BY <1>0 DEF Types
    <3> QED
      BY <1>0, <2>2, <3>1, <3>2 DEF Types
  <2>4. CASE FrameLost
    <3>1. toVenue # << >> => Tail(toVenue) \in Seq(Nat)
      BY <1>0 DEF Types
    <3> QED
      BY <1>0, <2>4, <3>1 DEF Types, FrameLost
  <2> QED
    BY <2>1, <2>3, <2>4, <2>5
<1>3. Tape' = Tape
  BY <1>1 DEF Tape
<1>4. Types'
  BY <1>0, <1>1, <1>2, <1>3 DEF Types, Phases
<1>5. Done' = Done
  BY <1>1 DEF Done
<1>6. LocatesOK' /\ Delivered' /\ DayOK' /\ DayMessages' = DayMessages
  BY <1>0, <1>1, <1>5, DayStays
<1>7. PaceOK' /\ RateOK' /\ ReplayPaced'
  BY <1>0, <1>1, PaceStays
<1>8. StreamOK'
  BY <1>0, <1>1, <1>6, StreamStays
<1> QED
  BY <1>4, <1>6, <1>7, <1>8 DEF IInv

\* The loop is left.
LEMMA EndsKeep ==
  ASSUME IInv, SimEnds \/ SimLosesClient
  PROVE  IInv'
<1>0. Types /\ LocatesOK /\ Delivered /\ DayOK /\ StreamOK /\ PaceOK /\ RateOK /\ ReplayPaced
  BY DEF IInv
<1>1. /\ UNCHANGED <<cfg, cursor, have, anchor, afap, loop, finished, batch, now, clock, routes,
                     locateOf, resting, day, prev, named, clientSeen, toVenue, accepted, orders>>
      /\ phase' = "Ended" /\ md' = FlushMarketData(md)
      /\ finished \/ phase \in {"Waiting", "Polling"}
  BY DEF SimEnds, SimLosesClient, linkVars
<1>3. Tape' = Tape
  BY <1>1 DEF Tape
<1>4. Types'
  BY <1>0, <1>1, <1>3 DEF Types, Phases
<1>5. Done' = Done
  BY <1>1 DEF Done
<1>6. LocatesOK' /\ Delivered' /\ DayOK' /\ DayMessages' = DayMessages
  BY <1>0, <1>1, <1>5, DayStays
<1>7. PaceOK' /\ RateOK' /\ ReplayPaced'
  BY <1>0, <1>1, PaceStays
<1>8. StreamOK'
  <2>1. TapeDay' = TapeDay
    BY <1>1, TapeStays
  <2>2. CASE finished
    <3>1. md = [packet |-> << >>, wire |-> << >>]
      BY <1>0, <2>2 DEF StreamOK
    <3>2. << >> \o << >> = << >>
      OBVIOUS
    <3>3. md' = [packet |-> << >>, wire |-> << >>]
      BY <1>1, <3>1, <3>2 DEF FlushMarketData
    <3> QED
      BY <1>0, <1>1, <2>1, <2>2, <3>3 DEF StreamOK
  <2>3. CASE ~finished
    <3>1. Streams(md, DayMessages, Len(resting))
      BY <1>0, <2>3 DEF StreamOK
    <3>2. Streams(FlushMarketData(md), DayMessages, Len(resting)) /\ FlushMarketData(md).packet = << >>
      BY <3>1, StreamsFlush
    <3>3. Streams(md', DayMessages', Len(resting'))
      BY <1>1, <1>6, <3>2
    <3> QED
      BY <1>0, <1>1, <2>1, <2>3, <3>2, <3>3 DEF StreamOK
  <2> QED
    BY <2>2, <2>3
<1> QED
  BY <1>4, <1>6, <1>7, <1>8 DEF IInv

\* The poll of the order entry.
LEMMA PollsKeep ==
  ASSUME IInv, SimPolls
  PROVE  IInv'
<1> DEFINE v == [logins |-> clientSeen, accepted |-> accepted, resting |-> resting, md |-> md]
           w == Polled(v)
<1>0. Types /\ LocatesOK /\ Delivered /\ DayOK /\ StreamOK /\ PaceOK /\ RateOK /\ ReplayPaced
  BY DEF IInv
<1>1. /\ UNCHANGED <<cfg, cursor, have, anchor, afap, loop, finished, clock, routes,
                     locateOf, day, prev, named, orders>>
      /\ phase \in {"Waiting", "Polling"}
      /\ clientSeen' = w.logins /\ accepted' = w.accepted /\ resting' = w.resting /\ md' = w.md
      /\ toVenue' = << >>
      /\ \/ phase' \in {"Waiting", "Polling"} /\ UNCHANGED <<now, batch>>
         \/ phase' = "Pumping" /\ now' = clock /\ batch' = 0
  <2> HIDE DEF w
  <2> QED
    BY DEF SimPolls, w
<1>2. ~finished /\ Streams(md, DayMessages, Len(resting)) /\ md.packet = << >>
  BY <1>0, <1>1 DEF StreamOK
<1>3. v \in Hands
  BY <1>0, <1>2 DEF Types, Hands, Streams
<1>4. w \in Hands /\ Streams(w.md, DayMessages, Len(w.resting)) /\ w.md.packet = << >>
  <2>1. Streams(v.md, DayMessages, Len(v.resting)) /\ v.md.packet = << >> /\ toVenue \in Seq(Nat)
    BY <1>0, <1>2 DEF Types
  <2> HIDE DEF v
  <2> QED
    BY <1>3, <2>1, PolledStreams
<1> HIDE DEF v, w
<1>5. Tape' = Tape /\ BatchSize' = BatchSize
  BY <1>1, TapeStays
<1>6. Types'
  <2>1. w.logins \in BOOLEAN /\ w.accepted \in BOOLEAN /\ w.resting \in Seq(Nat)
    BY <1>4 DEF Hands
  <2>2. << >> \in Seq(Nat)
    OBVIOUS
  <2>3. now' \in Nat \ {0} /\ batch' \in Nat /\ now' <= clock' /\ phase' \in Phases
    BY <1>0, <1>1 DEF Types, Phases
  <2> QED
    BY <1>0, <1>1, <1>5, <2>1, <2>2, <2>3 DEF Types
<1>7. Done' = Done
  BY <1>1 DEF Done
<1>8. LocatesOK' /\ Delivered' /\ DayOK' /\ DayMessages' = DayMessages
  BY <1>0, <1>1, <1>7, DayStays
<1>9. StreamOK'
  <2>1. TapeDay' = TapeDay
    BY <1>1, TapeStays
  <2>2. Streams(md', DayMessages', Len(resting')) /\ md'.packet = << >>
    BY <1>1, <1>4, <1>8
  <2> QED
    BY <1>0, <1>1, <1>2, <2>1, <2>2 DEF StreamOK
<1>10. PaceOK' /\ RateOK' /\ ReplayPaced'
  <2>1. CASE phase' \in {"Waiting", "Polling"} /\ UNCHANGED <<now, batch>>
    BY <1>0, <1>1, <2>1, PaceStays
  <2>2. CASE phase' = "Pumping" /\ now' = clock /\ batch' = 0
    <3>1. ReplayPaced' /\ (\A f : IsFirst(f)' <=> IsFirst(f)) /\ \A m : Paced(m)' <=> Paced(m)
      BY <1>0, <1>1, PacedStays, TapeStays
    <3>2. BatchSize \in Nat \ {0}
      BY <1>0, MembersTyped
    <3>3. \A i \in DOMAIN day : day[i].at \in Nat /\ day[i].at <= now
      BY <1>0, MembersTyped DEF PaceOK
    <3>4. \A i \in DOMAIN day' : day'[i].at <= now'
      BY <1>0, <1>1, <2>2, <3>3 DEF Types
    <3>5. PaceOK'
      BY <1>0, <1>1, <1>5, <2>2, <3>1, <3>2, <3>4 DEF PaceOK
    <3>6. RateOK'
      BY <1>0, <1>1, <2>2 DEF RateOK
    <3> QED
      BY <3>1, <3>5, <3>6
  <2> QED
    BY <1>1, <2>1, <2>2
<1> QED
  BY <1>6, <1>8, <1>9, <1>10 DEF IInv

\* What is left does not grow where nothing is kept.
LEMMA KeptRest ==
  ASSUME NEW s, Len(s) \in Nat, NEW keep, NEW m \in 0 .. Len(s), NEW n \in 0 .. Len(s), m <= n,
         \A j \in (m + 1) .. n : j \notin keep
  PROVE  Kept(s, keep)[n] = Kept(s, keep)[m]
<1> DEFINE k == Kept(s, keep)
           T == {j \in 0 .. (n - m) : k[m + j] = k[m]}
<1>1. \A i \in 1 .. Len(s) : k[i] = IF i \in keep THEN Append(k[i - 1], s[i]) ELSE k[i - 1]
  BY KeptSteps
<1> HIDE DEF k
<1>2. 0 \in T
  OBVIOUS
<1>3. ASSUME NEW j \in 0 .. (n - m - 1), j \in T PROVE j + 1 \in T
  <2>1. m + (j + 1) \in 1 .. Len(s) /\ m + (j + 1) \in (m + 1) .. n /\ m + (j + 1) - 1 = m + j
    OBVIOUS
  <2>2. k[m + (j + 1)] = k[m + j]
    BY <1>1, <2>1
  <2> QED
    BY <1>3, <2>2
<1>4. \A j \in 0 .. (n - m) : j \in T
  <2>1. n - m \in Nat
    OBVIOUS
  <2> HIDE DEF T
  <2> QED
    BY <1>2, <1>3, <2>1, EveryTurn
<1>5. m + (n - m) = n /\ n - m \in 0 .. (n - m)
  OBVIOUS
<1>6. k[m + (n - m)] = k[m]
  BY <1>4, <1>5
<1> QED
  BY <1>5, <1>6 DEF k

\* The next message of the tape is fetched.
LEMMA FetchKeeps ==
  ASSUME IInv, PumpFetches, UNCHANGED <<phase, clientSeen, linkVars, stop>>
  PROVE  IInv'
<1>0. Types /\ LocatesOK /\ Delivered /\ DayOK /\ StreamOK /\ PaceOK /\ RateOK /\ ReplayPaced
  BY DEF IInv
<1>1. /\ UNCHANGED <<cfg, anchor, afap, loop, finished, batch, now, clock, md, routes, locateOf,
                     resting, day, prev, named, phase, clientSeen, toVenue, accepted, orders>>
      /\ ~have /\ have' = TRUE /\ cursor < Len(Tape) /\ cursor' = cursor + 1
  BY DEF PumpFetches, linkVars
<1>2. Tape' = Tape /\ Len(Tape) \in Nat /\ cursor \in 0 .. Len(Tape)
  BY <1>0, <1>1, MembersTyped DEF Tape, Types
<1>3. Types'
  <2>1. cursor + 1 \in 0 .. Len(Tape) /\ cursor + 1 > 0
    BY <1>1, <1>2
  <2> QED
    BY <1>0, <1>1, <1>2, <2>1 DEF Types
<1>4. Done' = Done
  BY <1>1, <1>2 DEF Done
<1>5. LocatesOK' /\ Delivered' /\ DayOK' /\ DayMessages' = DayMessages
  BY <1>0, <1>1, <1>4, DayStays
<1>6. PaceOK' /\ RateOK' /\ ReplayPaced'
  BY <1>0, <1>1, PaceStays
<1>7. StreamOK'
  BY <1>0, <1>1, <1>5, StreamStays
<1> QED
  BY <1>3, <1>5, <1>6, <1>7 DEF IInv

\* A message that is too short is none of the day's.
LEMMA SkipKeeps ==
  ASSUME IInv, PumpSkips, UNCHANGED <<phase, clientSeen, linkVars, stop>>
  PROVE  IInv'
<1>0. Types /\ LocatesOK /\ Delivered /\ DayOK /\ StreamOK /\ PaceOK /\ RateOK /\ ReplayPaced
  BY DEF IInv
<1>1. /\ UNCHANGED <<cfg, cursor, anchor, afap, loop, finished, batch, now, clock, md, routes, locateOf,
                     resting, day, prev, named, phase, clientSeen, toVenue, accepted, orders>>
      /\ have /\ have' = FALSE /\ Cur.short
  BY DEF PumpSkips, linkVars
<1>2. Tape' = Tape /\ Len(Tape) \in Nat /\ cursor \in 1 .. Len(Tape)
  BY <1>0, <1>1, MembersTyped DEF Tape, Types
<1>3. Types'
  BY <1>0, <1>1, <1>2 DEF Types
<1>4. Wanted' = Wanted /\ \A i : Stops(i)' <=> Stops(i)
  BY <1>1, TapeStays
<1>5. cursor \notin Wanted /\ ~Stops(cursor)
  BY <1>1 DEF Wanted, Stops, Cur
<1>6. Done = cursor - 1 /\ Done' = cursor
  BY <1>1 DEF Done
<1>7. DayMessages' = DayMessages
  BY <1>1 DEF DayMessages
<1>8. DayOK'
  <2>1. Kept(Tape, Wanted)[cursor] = Kept(Tape, Wanted)[cursor - 1]
    BY <1>2, <1>5, KeptSteps
  <2>2. DayMessages' = Kept(Tape, Wanted)[cursor]
    BY <1>0, <1>6, <1>7, <2>1 DEF DayOK
  <2>3. ~finished => \A j \in 1 .. cursor : ~Stops(j)
    BY <1>0, <1>2, <1>5, <1>6 DEF DayOK
  <2> QED
    BY <1>1, <1>2, <1>4, <1>6, <2>2, <2>3 DEF DayOK
<1>9. LocatesOK' /\ Delivered'
  BY <1>0, <1>1 DEF LocatesOK, Delivered
<1>10. PaceOK' /\ RateOK' /\ ReplayPaced'
  BY <1>0, <1>1, PaceStays
<1>11. StreamOK'
  BY <1>0, <1>1, <1>7, StreamStays
<1> QED
  BY <1>3, <1>8, <1>9, <1>10, <1>11 DEF IInv

\* The pump returns; the open packet leaves.
LEMMA WaitKeeps ==
  ASSUME IInv, PumpWaits, phase = "Pumping", phase' = "Polling", UNCHANGED <<clientSeen, linkVars, stop>>, ~finished
  PROVE  IInv'
<1>0. Types /\ LocatesOK /\ Delivered /\ DayOK /\ StreamOK /\ PaceOK /\ RateOK /\ ReplayPaced
  BY DEF IInv
<1>1. /\ UNCHANGED <<cfg, cursor, have, anchor, afap, loop, finished, batch, now, clock, routes,
                     locateOf, resting, day, prev, named, clientSeen, toVenue, accepted, orders>>
      /\ md' = FlushMarketData(md)
  BY DEF PumpWaits, linkVars
<1>2. Tape' = Tape
  BY <1>1 DEF Tape
<1>3. Types'
  BY <1>0, <1>1, <1>2 DEF Types, Phases
<1>4. Done' = Done
  BY <1>1 DEF Done
<1>5. LocatesOK' /\ Delivered' /\ DayOK' /\ DayMessages' = DayMessages
  BY <1>0, <1>1, <1>4, DayStays
<1>6. PaceOK' /\ RateOK' /\ ReplayPaced'
  BY <1>0, <1>1, PaceStays
<1>7. StreamOK'
  <2>1. TapeDay' = TapeDay
    BY <1>1, TapeStays
  <2>2. Streams(md, DayMessages, Len(resting))
    BY <1>0 DEF StreamOK
  <2>3. Streams(FlushMarketData(md), DayMessages, Len(resting)) /\ FlushMarketData(md).packet = << >>
    BY <2>2, StreamsFlush
  <2>4. Streams(md', DayMessages', Len(resting')) /\ md'.packet = << >>
    BY <1>1, <1>5, <2>3
  <2> QED
    BY <1>0, <1>1, <2>1, <2>4 DEF StreamOK
<1> QED
  BY <1>3, <1>5, <1>6, <1>7 DEF IInv

-----------------------------------------------------------------------------
(***************************************************************************)
(* The end of a loop.                                                      *)
(***************************************************************************)

\* The day is over: what was published is the tape's day, and the message that
\* ended it, if one did, is none of it.
LEMMA DayIsOver ==
  ASSUME Types, DayOK, PumpEnds
  PROVE  DayMessages = TapeDay /\ DayMessages = Kept(Tape, Wanted)[cursor]
<1>1. Len(Tape) \in Nat /\ cursor \in 0 .. Len(Tape) /\ (have => cursor > 0)
  BY MembersTyped DEF Types
<1>2. Done \in 0 .. Len(Tape) /\ Done <= cursor
  BY <1>1 DEF Done
<1>3. \A j \in (Done + 1) .. Len(Tape) : j \notin Wanted
  <2>1. CASE ~have /\ cursor = Len(Tape)
    BY <1>1, <2>1 DEF Done
  <2>2. CASE have /\ ~Cur.short /\ PastStop(Cur)
    <3>1. Stops(cursor) /\ Done + 1 = cursor /\ cursor \in 1 .. Len(Tape)
      BY <1>1, <2>2 DEF Stops, Cur, Done
    <3> QED
      BY <1>1, <3>1 DEF Wanted
  <2> QED
    BY <2>1, <2>2 DEF PumpEnds
<1>4. Kept(Tape, Wanted)[Len(Tape)] = Kept(Tape, Wanted)[Done]
  <2>1. Len(Tape) \in 0 .. Len(Tape) /\ Done <= Len(Tape)
    BY <1>1, <1>2
  <2> QED
    BY <1>1, <1>2, <1>3, <2>1, KeptRest
<1>5. Kept(Tape, Wanted)[cursor] = Kept(Tape, Wanted)[Done]
  <2>1. \A j \in (Done + 1) .. cursor : j \notin Wanted
    BY <1>1, <1>2, <1>3
  <2> QED
    BY <1>1, <1>2, <2>1, KeptRest
<1> QED
  BY <1>4, <1>5 DEF DayOK, TapeDay

\* An empty feed.
LEMMA EmptyStreams ==
  Streams([packet |-> << >>, wire |-> << >>], << >>, 0)
<1> DEFINE m == [packet |-> << >>, wire |-> << >>]
<1>1. << >> \in Seq(Frames) /\ << >> \o << >> = << >> /\ Len(<< >>) = 0
  OBVIOUS
<1>2. m \in Feed /\ Out(m) = << >>
  BY <1>1 DEF Feed, Out
<1>3. \A K : OfKind(<< >>, K) = << >>
  BY OfKindFacts
<1> HIDE DEF m
<1>4. Streams(m, << >>, 0)
  BY <1>1, <1>2, <1>3 DEF Streams, OfTape, OfOrder
<1> QED
  BY <1>4 DEF m

\* Every order that was added is deleted when the day is reset.
LEMMA ResetDeletes ==
  ASSUME NEW msgs, resting \in Seq(Nat), Streams(md, msgs, Len(resting))
  PROVE  LET w == ResetDay(md)
         IN OfTape(w.wire) = msgs /\ Len(OfOrder(w.wire, "A")) = Len(OfOrder(w.wire, "D"))
<1> DEFINE fs == [i \in 1 .. Len(resting) |-> OrderMessage("D", resting[i])]
           w == WithMarketData(md, fs)
<1>1. md \in Feed /\ Len(resting) \in Nat /\ \A i \in 1 .. Len(resting) : resting[i] \in Nat
  BY DEF Streams
<1>2. Len(fs) = Len(resting)
  BY <1>1
<1>3. \A n \in Nat : OrderMessage("D", n) \in Frames /\ OrderMessage("D", n).kind = "D"
  <2>1. ASSUME NEW n \in Nat
        PROVE  OrderMessage("D", n) \in [kind : {"A", "D"}, order : Nat] /\ OrderMessage("D", n).kind = "D"
    BY DEF OrderMessage
  <2> QED
    BY <2>1 DEF Frames
<1>4. \A i \in 1 .. Len(fs) : fs[i] \in Frames /\ fs[i].kind = "D"
  BY <1>1, <1>2, <1>3
<1> HIDE DEF fs
<1>5. /\ w \in Feed /\ w.packet = << >>
      /\ OfTape(Out(w)) = OfTape(Out(md))
      /\ Len(OfOrder(Out(w), "D")) = Len(OfOrder(Out(md), "D")) + Len(fs)
      /\ \A j \in {"A", "D"} : j # "D" => OfOrder(Out(w), j) = OfOrder(Out(md), j)
  <2>1. Len(fs) \in Nat /\ "D" \in {"A", "D"}
    BY <1>1, <1>2
  <2> QED
    BY <1>1, <1>4, <2>1, WithOrders
<1>6. ResetDay(md) = w
  BY DEF ResetDay, fs
<1> HIDE DEF w
<1>7. Out(w) = w.wire
  <2>1. \A s \in Seq(Frames) : s \o << >> = s
    OBVIOUS
  <2>2. w.wire \in Seq(Frames)
    BY <1>5 DEF Feed
  <2> QED
    BY <1>5, <2>1, <2>2 DEF Out
<1>8. Len(OfOrder(Out(w), "A")) = Len(resting) /\ Len(OfOrder(Out(w), "D")) = 0 + Len(resting)
  <2>1. OfOrder(Out(w), "A") = OfOrder(Out(md), "A")
    BY <1>5
  <2> QED
    BY <1>2, <1>5, <2>1 DEF Streams
<1>9. OfTape(Out(w)) = msgs
  BY <1>5 DEF Streams
<1> QED
  BY <1>1, <1>6, <1>7, <1>8, <1>9

\* The end of a loop, the last or not.
LEMMA LoopEndKeeps ==
  ASSUME IInv, PumpEnds, phase = "Pumping", UNCHANGED <<phase, clientSeen, linkVars, stop>>, ~finished
  PROVE  IInv'
<1>0. Types /\ LocatesOK /\ Delivered /\ DayOK /\ StreamOK /\ PaceOK /\ RateOK /\ ReplayPaced
  BY DEF IInv
<1>1. DayMessages = TapeDay /\ DayMessages = Kept(Tape, Wanted)[cursor]
  BY <1>0, DayIsOver
<1>2. /\ prev' = ResetDay(md).wire /\ md' = [packet |-> << >>, wire |-> << >>] /\ resting' = << >>
      /\ have' = FALSE /\ UNCHANGED <<cfg, batch, routes, locateOf, named>>
      /\ UNCHANGED <<phase, clientSeen, toVenue, accepted, orders>>
      /\ \/ finished' = TRUE /\ UNCHANGED <<cursor, anchor, afap, now, clock, day>>
         \/ finished' = FALSE /\ cursor' = 0 /\ anchor' = NoAnchor /\ afap' = NoAfap
            /\ now' = 1 /\ clock' = 1 + clock - now /\ day' = << >>
  BY DEF PumpEnds, EndOfLoop, Restart, linkVars
<1>3. /\ Tape' = Tape /\ Wanted' = Wanted /\ TapeDay' = TapeDay /\ BatchSize' = BatchSize
      /\ \A i : Stops(i)' <=> Stops(i)
      /\ \A m : Paced(m)' <=> Paced(m)
  BY <1>2, TapeStays
<1>4. << >> \in Seq(Nat) /\ << >> \in Seq(Published) /\ Len(<< >>) = 0 /\ DOMAIN << >> = {}
  OBVIOUS
<1>5. OfTape(prev') = TapeDay /\ Len(OfOrder(prev', "A")) = Len(OfOrder(prev', "D"))
  <2>1. Streams(md, DayMessages, Len(resting)) /\ resting \in Seq(Nat)
    BY <1>0 DEF StreamOK, Types
  <2>2. OfTape(ResetDay(md).wire) = DayMessages
        /\ Len(OfOrder(ResetDay(md).wire, "A")) = Len(OfOrder(ResetDay(md).wire, "D"))
    BY <2>1, ResetDeletes
  <2> QED
    BY <1>1, <1>2, <2>2
<1>6. md'.packet = << >>
  BY <1>2
<1>7. LocatesOK'
  BY <1>0, <1>2 DEF LocatesOK
<1>8. CASE finished' = TRUE /\ UNCHANGED <<cursor, anchor, afap, now, clock, day>>
  <2>1. Types'
    BY <1>0, <1>2, <1>3, <1>4, <1>8 DEF Types
  <2>2. DayMessages' = DayMessages /\ Done' = cursor
    BY <1>2, <1>8 DEF DayMessages, Done
  <2>3. DayOK' /\ Delivered'
    BY <1>0, <1>1, <1>3, <1>8, <2>2 DEF DayOK, Delivered
  <2>4. StreamOK'
    BY <1>2, <1>3, <1>5, <1>6, <1>8 DEF StreamOK
  <2>5. PaceOK' /\ RateOK' /\ ReplayPaced'
    BY <1>0, <1>2, <1>8, PaceStays
  <2> QED
    BY <1>7, <2>1, <2>3, <2>4, <2>5 DEF IInv
<1>9. CASE finished' = FALSE /\ cursor' = 0 /\ anchor' = NoAnchor /\ afap' = NoAfap
           /\ now' = 1 /\ clock' = 1 + clock - now /\ day' = << >>
  <2>1. Types'
    <3>1. anchor' \in [set : BOOLEAN, mono : Nat, ts : Nat] /\ afap' \in [start : Nat, sent : Nat]
      BY <1>9 DEF NoAnchor, NoAfap
    <3>2. cursor' \in 0 .. Len(Tape) /\ now' \in Nat \ {0} /\ clock' \in Nat /\ now' <= clock'
      BY <1>0, <1>9, MembersTyped DEF Types
    <3> QED
      BY <1>0, <1>2, <1>3, <1>4, <1>9, <3>1, <3>2 DEF Types
  <2>2. DayMessages' = << >> /\ Done' = 0
    BY <1>2, <1>9 DEF DayMessages, Done
  <2>3. DayOK'
    <3>1. Kept(Tape, Wanted)[0] = << >>
      BY <1>0, MembersTyped, KeptSteps
    <3> QED
      BY <1>3, <2>2, <3>1 DEF DayOK
  <2>4. Delivered'
    BY <1>4, <1>9 DEF Delivered
  <2>5. StreamOK'
    <3>1. Streams(md', DayMessages', Len(resting'))
      BY <1>2, <1>4, <2>2, EmptyStreams
    <3> QED
      BY <1>3, <1>5, <1>6, <1>9, <3>1 DEF StreamOK
  <2>6. PaceOK'
    BY <1>0, <1>2, <1>3, <1>4, <1>9 DEF PaceOK, NoAnchor
  <2>7. ReplayPaced'
    BY <1>4, <1>9 DEF ReplayPaced
  <2>8. RateOK'
    <3>1. ASSUME batch > 0, cfg.rate > 0 PROVE (0 - batch) * Second < (1 - 0 + 1) * cfg.rate
      <4>1. batch \in Nat /\ Second \in Nat \ {0} /\ cfg.rate \in Nat
        BY <1>0, ConfigsAssumption, BoundsAssumption DEF Types
      <4> DEFINE b == batch
                 r == cfg.rate
      <4>2. b \in Nat /\ b > 0 /\ r \in Nat /\ r > 0
        BY <3>1, <4>1
      <4> HIDE DEF b, r
      <4>3. \A x \in Nat, y \in Nat : x * y \in Nat /\ (0 - x) * y = 0 - x * y
        OBVIOUS
      <4>4. b * Second \in Nat /\ (0 - b) * Second = 0 - b * Second
        BY <4>1, <4>2, <4>3
      <4>5. (0 - b) * Second < (1 - 0 + 1) * r
        BY <4>2, <4>4
      <4> QED
        BY <4>5 DEF b, r
    <3> QED
      BY <1>2, <1>4, <1>9, <3>1 DEF RateOK, NoAfap
  <2> QED
    BY <1>7, <2>1, <2>3, <2>4, <2>5, <2>6, <2>7, <2>8 DEF IInv
<1> QED
  BY <1>2, <1>8, <1>9

-----------------------------------------------------------------------------
(***************************************************************************)
(* The publication of a message.                                           *)
(***************************************************************************)

\* A directory message gives its symbol the locate of the tape, and takes from
\* no other named symbol what it has.
LEMMA BindingKeeps ==
  ASSUME LocatesOK, named \subseteq Symbols, NEW msg, msg.sym \in Symbols, BindDirectory(msg),
         named' = named \cup {msg.sym}
  PROVE  LocatesOK'
<1> DEFINE s == msg.sym
           new == TapeLocate[s]
           old == locateOf[s]
           freed == IF routes[old] = s THEN [routes EXCEPT ![old] = NoVenue] ELSE routes
<1>0. /\ Venues \subseteq Symbols /\ NoVenue \notin Symbols
      /\ DOMAIN InitialLocate = Venues /\ DOMAIN TapeLocate = Symbols
      /\ \A a, b \in Symbols : TapeLocate[a] = TapeLocate[b] => a = b
  BY LocatesAssumption
<1>1. (\A a \in Symbols : TapeLocate[a] \in Locates) /\ \A a \in Venues : InitialLocate[a] \in Locates
  BY <1>0 DEF Locates, Range
<1>2. /\ routes \in [Locates -> Venues \cup {NoVenue}] /\ locateOf \in [Venues -> Locates]
      /\ \A l \in Locates : routes[l] # NoVenue => locateOf[routes[l]] = l
      /\ \A a \in Venues \cap named : locateOf[a] = TapeLocate[a] /\ routes[TapeLocate[a]] = a
      /\ \A a \in Venues \ named :
           /\ locateOf[a] = InitialLocate[a]
           /\ routes[InitialLocate[a]] = a \/ \E t \in Venues \cap named : TapeLocate[t] = InitialLocate[a]
  BY DEF LocatesOK
<1>3. s \in Symbols /\ new \in Locates
  BY <1>1
<1>4. CASE s \notin Venues
  <2>1. routes' = routes /\ locateOf' = locateOf
    BY <1>4 DEF BindDirectory
  <2>2. Venues \cap named' = Venues \cap named /\ Venues \ named' = Venues \ named
    BY <1>4
  <2> QED
    BY <1>2, <2>1, <2>2 DEF LocatesOK
<1>5. CASE s \in Venues /\ old = new
  <2>1. routes' = routes /\ locateOf' = locateOf
    BY <1>5 DEF BindDirectory
  <2>2. routes[TapeLocate[s]] = s
    <3>1. CASE s \in named
      BY <1>2, <1>5, <3>1
    <3>2. CASE s \notin named
      <4>1. InitialLocate[s] = TapeLocate[s]
        BY <1>2, <1>5, <3>2
      <4>2. ~\E t \in Venues \cap named : TapeLocate[t] = TapeLocate[s]
        BY <1>0, <1>3, <3>2
      <4> QED
        BY <1>2, <1>5, <3>2, <4>1, <4>2
    <3> QED
      BY <3>1, <3>2
  <2>3. \A a \in Venues \cap named' : locateOf[a] = TapeLocate[a] /\ routes[TapeLocate[a]] = a
    BY <1>2, <1>5, <2>2
  <2>4. \A a \in Venues \ named' :
           /\ locateOf[a] = InitialLocate[a]
           /\ routes[InitialLocate[a]] = a \/ \E t \in Venues \cap named' : TapeLocate[t] = InitialLocate[a]
    BY <1>2
  <2> QED
    BY <1>2, <2>1, <2>3, <2>4 DEF LocatesOK
<1>6. CASE s \in Venues /\ old # new
  <2>1. routes' = [freed EXCEPT ![new] = s] /\ locateOf' = [locateOf EXCEPT ![s] = new]
    BY <1>6 DEF BindDirectory
  <2>2. old \in Locates
    BY <1>2, <1>6
  <2>3. freed \in [Locates -> Venues \cup {NoVenue}]
    BY <1>2
  <2>4. freed[old] # s /\ \A l \in Locates : l # old => freed[l] = routes[l]
    BY <1>0, <1>2, <1>3, <2>2
  <2>5. \A l \in Locates : freed[l] = routes[l] \/ (l = old /\ routes[l] = s /\ freed[l] = NoVenue)
    BY <1>2, <2>2
  <2> HIDE DEF freed
  <2>6. /\ routes' \in [Locates -> Venues \cup {NoVenue}] /\ routes'[new] = s
        /\ \A l \in Locates : l # new => routes'[l] = freed[l]
    BY <1>3, <1>6, <2>1, <2>3
  <2>7. /\ locateOf' \in [Venues -> Locates] /\ locateOf'[s] = new
        /\ \A a \in Venues : a # s => locateOf'[a] = locateOf[a]
    BY <1>2, <1>3, <1>6, <2>1
  <2>8. ASSUME NEW l \in Locates, routes'[l] # NoVenue
        PROVE  locateOf'[routes'[l]] = l
    <3>1. CASE l = new
      BY <2>6, <2>7, <3>1
    <3>2. CASE l # new
      <4>1. routes'[l] = freed[l] /\ freed[l] = routes[l] /\ routes[l] \in Venues
        BY <1>2, <2>5, <2>6, <2>8, <3>2
      <4>2. locateOf[routes[l]] = l
        BY <1>2, <2>8, <4>1
      <4>3. routes[l] # s
        BY <2>4, <4>1, <4>2
      <4> QED
        BY <2>7, <4>1, <4>2, <4>3
    <3> QED
      BY <3>1, <3>2
  <2>9. ASSUME NEW a \in Venues \cap named'
        PROVE  locateOf'[a] = TapeLocate[a] /\ routes'[TapeLocate[a]] = a
    <3>1. CASE a = s
      BY <2>6, <2>7, <3>1
    <3>2. CASE a # s
      <4>1. a \in Venues \cap named /\ TapeLocate[a] # new /\ TapeLocate[a] \in Locates
        BY <1>0, <1>1, <1>3, <2>9, <3>2
      <4>2. locateOf[a] = TapeLocate[a] /\ routes[TapeLocate[a]] = a
        BY <1>2, <4>1
      <4>3. freed[TapeLocate[a]] = a
        BY <2>5, <3>2, <4>1, <4>2
      <4> QED
        BY <2>6, <2>7, <3>2, <4>1, <4>2, <4>3
    <3> QED
      BY <3>1, <3>2
  <2>10. ASSUME NEW a \in Venues \ named'
         PROVE  /\ locateOf'[a] = InitialLocate[a]
                /\ routes'[InitialLocate[a]] = a \/ \E t \in Venues \cap named' : TapeLocate[t] = InitialLocate[a]
    <3>1. a \in Venues /\ a \notin named /\ a # s /\ InitialLocate[a] \in Locates /\ s \in Venues \cap named'
      BY <1>1, <1>6, <2>10
    <3>2. locateOf'[a] = InitialLocate[a]
      BY <1>2, <2>7, <3>1
    <3>3. CASE routes[InitialLocate[a]] = a
      <4>1. freed[InitialLocate[a]] = a
        BY <2>5, <3>1, <3>3
      <4> QED
        BY <2>6, <3>1, <3>2, <4>1
    <3>4. CASE \E t \in Venues \cap named : TapeLocate[t] = InitialLocate[a]
      BY <3>2, <3>4
    <3> QED
      BY <1>2, <3>1, <3>3, <3>4
  <2> QED
    BY <2>6, <2>7, <2>8, <2>9, <2>10 DEF LocatesOK
<1> QED
  BY <1>4, <1>5, <1>6

\* What ReplayMessage does.
LEMMA Replayed ==
  ASSUME Types, LocatesOK, Delivered, NEW msg \in Messages, NEW t \in Nat, ReplayMessage(msg, t)
  PROVE  /\ \E e \in Published : /\ day' = Append(day, e) /\ e.msg = msg /\ e.at = t
                                 /\ e.known /\ msg.kind = "M" =>
                                      e.venue = IF msg.sym \in Venues THEN msg.sym ELSE NoVenue
         /\ LocatesOK' /\ named' \subseteq Symbols
<1>0. /\ Venues \subseteq Symbols /\ NoVenue \notin Symbols /\ DOMAIN TapeLocate = Symbols
      /\ \A a, b \in Symbols : TapeLocate[a] = TapeLocate[b] => a = b
  BY LocatesAssumption
<1>1. msg.sym \in Symbols /\ msg.kind \in {"R", "M"} /\ named \subseteq Symbols
  BY DEF Messages, Types
<1>2. LocatesOK' /\ named' \subseteq Symbols
  <2>1. CASE msg.kind = "R"
    <3>1. BindDirectory(msg) /\ named' = named \cup {msg.sym}
      BY <2>1 DEF ReplayMessage
    <3> QED
      BY <1>1, <3>1, BindingKeeps
  <2>2. CASE msg.kind # "R"
    <3>1. UNCHANGED <<routes, locateOf, named>>
      BY <2>2 DEF ReplayMessage
    <3> QED
      BY <1>1, <3>1 DEF LocatesOK
  <2> QED
    BY <2>1, <2>2
<1>3. TapeLocate[msg.sym] \in Locates
  BY <1>0, <1>1 DEF Locates, Range
<1>4. routes[TapeLocate[msg.sym]] \in Venues \cup {NoVenue}
  BY <1>3 DEF LocatesOK
<1> DEFINE x == IF msg.kind = "R" THEN NoVenue ELSE routes[TapeLocate[msg.sym]]
           e == [msg |-> msg, at |-> t, known |-> Venues \subseteq named, venue |-> x]
<1>5. x \in Venues \cup {NoVenue}
  BY <1>4
<1>6. day' = Append(day, e)
  BY DEF ReplayMessage
<1>7. ASSUME Venues \subseteq named, msg.kind = "M"
      PROVE  x = IF msg.sym \in Venues THEN msg.sym ELSE NoVenue
  <2>1. x = routes[TapeLocate[msg.sym]]
    BY <1>7
  <2>2. CASE msg.sym \in Venues
    BY <1>7, <2>1, <2>2 DEF LocatesOK
  <2>3. CASE msg.sym \notin Venues
    <3>1. SUFFICES ASSUME x # NoVenue PROVE FALSE
      BY <2>3
    <3> DEFINE v == routes[TapeLocate[msg.sym]]
    <3>2. v \in Venues /\ locateOf[v] = TapeLocate[msg.sym]
      BY <1>3, <1>4, <2>1, <3>1 DEF LocatesOK
    <3>3. locateOf[v] = TapeLocate[v]
      BY <1>7, <3>2 DEF LocatesOK
    <3>4. v = msg.sym
      BY <1>0, <1>1, <3>2, <3>3
    <3> QED
      BY <2>3, <3>2, <3>4
  <2> QED
    BY <2>2, <2>3
<1> HIDE DEF x
<1>8. e \in Published
  BY <1>5 DEF Published
<1>9. e.msg = msg /\ e.at = t /\ e.known = (Venues \subseteq named) /\ e.venue = x
  OBVIOUS
<1> HIDE DEF e
<1> QED
  BY <1>2, <1>6, <1>7, <1>8, <1>9

\* The history with one more message.
LEMMA DayGrows ==
  ASSUME Types, NEW e \in Published, day' = Append(day, e)
  PROVE  /\ Len(day') = Len(day) + 1 /\ DOMAIN day' = 1 .. (Len(day) + 1) /\ day'[Len(day) + 1] = e
         /\ \A i \in 1 .. Len(day) : day'[i] = day[i]
         /\ day' \in Seq(Published)
         /\ DayMessages' = Append(DayMessages, e.msg)
<1>1. day \in Seq(Published) /\ Len(day) \in Nat /\ DOMAIN day = 1 .. Len(day)
  BY MembersTyped DEF Types
<1>2. /\ Len(day') = Len(day) + 1 /\ DOMAIN day' = 1 .. (Len(day) + 1) /\ day'[Len(day) + 1] = e
      /\ \A i \in 1 .. Len(day) : day'[i] = day[i]
      /\ day' \in Seq(Published)
  BY <1>1
<1>3. DayMessages' = Append(DayMessages, e.msg)
  <2> DEFINE f == DayMessages
             n == Len(day)
             g == [i \in 1 .. (n + 1) |-> day'[i].msg]
  <2>1. f \in Seq(Messages) /\ Len(f) = n /\ \A i \in 1 .. n : f[i] = day[i].msg
    <3>1. f = [i \in 1 .. n |-> day[i].msg] /\ \A i \in 1 .. n : day[i].msg \in Messages
      <4>1. DayMessages = [i \in 1 .. n |-> day[i].msg]
        BY <1>1 DEF DayMessages
      <4>2. \A i \in 1 .. n : day[i].msg \in Messages
        BY <1>1, MembersTyped
      <4> QED
        BY <4>1, <4>2
    <3> HIDE DEF f
    <3> QED
      BY <1>1, <3>1
  <2>2. e.msg \in Messages
    BY DEF Published
  <2> DEFINE h == Append(f, e.msg)
  <2>3. /\ DOMAIN h = 1 .. (n + 1) /\ h[n + 1] = e.msg /\ \A i \in 1 .. n : h[i] = f[i]
        /\ h = [i \in 1 .. (n + 1) |-> h[i]]
    <3> HIDE DEF f
    <3> QED
      BY <1>1, <2>1, <2>2
  <2>4. ASSUME NEW i \in 1 .. (n + 1) PROVE h[i] = day'[i].msg
    <3> HIDE DEF f, h
    <3>1. CASE i = n + 1
      BY <1>2, <2>3, <3>1
    <3>2. CASE i # n + 1
      <4>1. i \in 1 .. n
        BY <1>1, <3>2
      <4>2. h[i] = f[i] /\ f[i] = day[i].msg /\ day'[i] = day[i]
        BY <1>2, <2>1, <2>3, <4>1
      <4> QED
        BY <4>2
    <3> QED
      BY <3>1, <3>2
  <2>5. h = g
    <3> HIDE DEF f, h
    <3> QED
      BY <2>3, <2>4
  <2>6. DayMessages' = g
    BY <1>2 DEF DayMessages
  <2> QED
    BY <2>5, <2>6
<1> QED
  BY <1>2, <1>3

\* The quotient of the rate limit, read backwards.
LEMMA RateBackwards ==
  ASSUME NEW a \in Nat, NEW r \in Nat \ {0}, NEW d \in Int, (a \div r) <= d
  PROVE  a < (d + 1) * r
<1> DEFINE q == a \div r
           m == a % r
<1>1. q \in Int /\ m \in 0 .. (r - 1) /\ a = r * q + m
  OBVIOUS
<1> HIDE DEF q, m
<1>2. q + 1 <= d + 1
  BY <1>1 DEF q
<1>3. \A x \in Int, y \in Int : x <= y => x * r <= y * r
  OBVIOUS
<1>4. (q + 1) * r <= (d + 1) * r
  BY <1>1, <1>2, <1>3
<1>5. (q + 1) * r = r * q + r
  BY <1>1
<1> QED
  BY <1>1, <1>4, <1>5

\* Products keep the order.
LEMMA TimesKeepsOrder ==
  /\ \A x \in Int, y \in Int, k \in Nat : x <= y => x * k <= y * k
  /\ \A x \in Int, k \in Nat : x * k \in Int
  /\ \A x \in Int, k \in Nat : x <= 0 => x * k <= 0
  OBVIOUS

\* A set of numbers has a least one.
LEMMA LeastOf ==
  ASSUME NEW A \in SUBSET Nat, A # {}
  PROVE  \E x \in A : \A y \in A : x <= y
<1>1. PICK x \in A : \A y \in A : ~ (<<y, x>> \in OpToRel(<, Nat))
  BY NatLessThanWellFounded, WFMin
<1>2. \A y \in A : ~ (y < x)
  BY <1>1 DEF OpToRel
<1>3. x \in Nat /\ \A y \in A : y \in Nat
  OBVIOUS
<1>4. \A y \in A : x <= y
  BY ONLY <1>2, <1>3
<1> QED
  BY <1>4

\* What the pump computes with.
LEMMA DueFacts ==
  ASSUME Types, Publishable
  PROVE  /\ cursor \in 1 .. Len(Tape) /\ Cur \in Messages /\ Cur.ts \in Nat
         /\ Anchored \in [set : BOOLEAN, mono : Nat, ts : Nat]
         /\ AfapStarted \in [start : Nat, sent : Nat]
         /\ cfg.rate \in Nat /\ cfg.nsPerNs \in Nat
<1>1. cursor \in 1 .. Len(Tape)
  BY MembersTyped DEF Types, Publishable
<1>2. Cur \in Messages
  BY <1>1, MembersTyped DEF Cur
<1>3. Cur.ts \in Nat
  BY <1>2 DEF Messages
<1>4. now \in Nat /\ anchor \in [set : BOOLEAN, mono : Nat, ts : Nat] /\ afap \in [start : Nat, sent : Nat]
  BY DEF Types
<1>5. Anchored \in [set : BOOLEAN, mono : Nat, ts : Nat]
  BY <1>3, <1>4 DEF Anchored
<1>6. AfapStarted \in [start : Nat, sent : Nat]
  BY <1>4 DEF AfapStarted
<1>7. cfg.rate \in Nat /\ cfg.nsPerNs \in Nat
  BY ConfigsAssumption DEF Types
<1> QED
  BY <1>1, <1>2, <1>3, <1>5, <1>6, <1>7

\* The time of a publication: it is the time at hand unless the message is due
\* later.
LEMMA PublishTime ==
  ASSUME Types, PumpPublishes(TRUE) \/ PumpPublishes(FALSE)
  PROVE  /\ Publishable /\ Due <= now' /\ now' \in Nat \ {0} /\ now <= now' /\ now' <= clock
         /\ ~(Due > now) => now' = now
         /\ ReplayMessage(Cur, now')
<1> DEFINE t == IF Due > now THEN clock ELSE now
<1>1. Publishable /\ Due <= t /\ now' = t /\ ReplayMessage(Cur, t)
  BY DEF PumpPublishes
<1>2. now \in Nat \ {0} /\ clock \in Nat /\ now <= clock
  BY DEF Types
<1>3. t \in Nat \ {0} /\ now <= t /\ t <= clock /\ (~(Due > now) => t = now)
  BY <1>2
<1> HIDE DEF t
<1> QED
  BY <1>1, <1>3

\* The pace with one more message.
LEMMA PublishPace ==
  ASSUME Types, LocatesOK, Delivered, PaceOK, RateOK, ReplayPaced, NEW last \in BOOLEAN, PumpPublishes(last),
         phase = "Pumping", phase' = "Pumping" => ~last
  PROVE  PaceOK' /\ RateOK' /\ ReplayPaced'
<1>0. Len(day) \in Nat
  BY MembersTyped
<1> PICK n \in Nat : n = Len(day)
  BY <1>0
<1>1. /\ Publishable /\ Due <= now' /\ now' \in Nat \ {0} /\ now <= now' /\ now' <= clock
      /\ ~(Due > now) => now' = now
      /\ ReplayMessage(Cur, now')
  BY PublishTime
<1>2. /\ Cur \in Messages /\ Cur.ts \in Nat
      /\ Anchored \in [set : BOOLEAN, mono : Nat, ts : Nat]
      /\ AfapStarted \in [start : Nat, sent : Nat]
      /\ cfg.rate \in Nat /\ cfg.nsPerNs \in Nat
  BY <1>1, DueFacts
<1>3. PICK e \in Published : day' = Append(day, e) /\ e.msg = Cur /\ e.at = now'
  <2>1. now' \in Nat
    BY <1>1
  <2> QED
    BY <1>1, <1>2, <2>1, Replayed
<1>4. /\ Len(day') = n + 1 /\ DOMAIN day' = 1 .. (n + 1) /\ day'[n + 1].msg = Cur /\ day'[n + 1].at = now'
      /\ \A i \in 1 .. n : day'[i] = day[i]
  BY <1>3, DayGrows
<1>5. /\ n \in Nat /\ n = Len(day) /\ DOMAIN day = 1 .. n /\ BatchSize \in Nat \ {0}
      /\ \A i \in 1 .. n : day[i].msg \in Messages /\ day[i].at \in Nat
  BY MembersTyped
<1>6. /\ anchor' = Anchored /\ afap' = IF RateLimited THEN [AfapStarted EXCEPT !.sent = @ + 1] ELSE afap
      /\ batch' = batch + 1 /\ cfg' = cfg
  BY DEF PumpPublishes
<1>7. BatchSize' = BatchSize /\ \A m : Paced(m)' <=> Paced(m)
  BY <1>6, TapeStays
<1>8. \A i \in 1 .. n : (IsFirst(i)' <=> IsFirst(i)) /\ (Fast(i)' <=> Fast(i))
  <2>1. ASSUME NEW i \in 1 .. n PROVE IsFirst(i)' <=> IsFirst(i)
    <3>1. \A k \in 1 .. i : day'[k] = day[k]
      BY <1>4, <1>5
    <3>2. i \in 1 .. i /\ \A k \in 1 .. i - 1 : k \in 1 .. i
      BY <1>5
    <3> QED
      BY <1>7, <3>1, <3>2 DEF IsFirst
  <2>2. ASSUME NEW i \in 1 .. n PROVE Fast(i)' <=> Fast(i)
    <3>1. \A k \in 1 .. i : day'[k] = day[k]
      BY <1>4, <1>5
    <3> QED
      BY <1>7, <3>1 DEF Fast
  <2> QED
    BY <2>1, <2>2
<1>9. \A i \in 1 .. (n + 1) : day'[i].at \in Nat /\ day'[i].at <= now'
  <2>1. \A i \in 1 .. n : day'[i].at \in Nat /\ day'[i].at <= now'
    <3>1. \A i \in 1 .. n : day[i].at <= now /\ day[i].at \in Nat
      BY <1>5 DEF PaceOK
    <3>2. now \in Nat
      BY DEF Types
    <3> QED
      BY <1>1, <1>4, <3>1, <3>2
  <2>2. day'[n + 1].at \in Nat /\ day'[n + 1].at <= now'
    BY <1>1, <1>4
  <2>3. \A i \in 1 .. (n + 1) : i \in 1 .. n \/ i = n + 1
    BY <1>5
  <2> QED
    BY <2>1, <2>2, <2>3
<1>10. IF anchor'.set
       THEN \E f \in 1 .. (n + 1) : IsFirst(f)' /\ anchor'.mono = day'[f].at /\ anchor'.ts = day'[f].msg.ts
       ELSE \A j \in 1 .. (n + 1) : ~Paced(day'[j].msg)
  <2>1. CASE anchor.set
    <3>1. PICK f \in 1 .. n : IsFirst(f) /\ anchor.mono = day[f].at /\ anchor.ts = day[f].msg.ts
      BY <1>5, <2>1 DEF PaceOK
    <3>2. anchor' = anchor
      BY <1>6, <2>1 DEF Anchored
    <3>3. f \in 1 .. (n + 1)
      BY <1>5
    <3>4. IsFirst(f)' /\ anchor'.mono = day'[f].at /\ anchor'.ts = day'[f].msg.ts
      BY <1>4, <1>8, <3>1, <3>2
    <3> QED
      BY <2>1, <3>2, <3>3, <3>4
  <2>2. CASE ~anchor.set
    <3>1. \A j \in 1 .. n : ~Paced(day'[j].msg)
      BY <1>4, <1>5, <2>2 DEF PaceOK
    <3>2. CASE Paced(Cur)
      <4>1. anchor' = [set |-> TRUE, mono |-> now, ts |-> Cur.ts]
        BY <1>6, <2>2, <3>2 DEF Anchored
      <4>2. now' = now
        <5>1. Anchored.set /\ Anchored.mono = now /\ Anchored.ts = Cur.ts
          BY <1>6, <4>1
        <5>2. Due = now
          BY <1>2, <5>1 DEF Due, Types
        <5>3. now \in Nat
          BY DEF Types
        <5> QED
          BY <1>1, <5>2, <5>3
      <4>3. IsFirst(n + 1)'
        <5>1. Paced(day[n + 1].msg)'
          BY <1>4, <1>7, <3>2
        <5>2. ~\E k \in 1 .. (n + 1) - 1 : Paced(day[k].msg)'
          BY <1>5, <1>7, <3>1
        <5> QED
          BY <5>1, <5>2 DEF IsFirst
      <4>4. n + 1 \in 1 .. (n + 1)
        BY <1>5
      <4> QED
        BY <1>4, <4>1, <4>2, <4>3, <4>4
    <3>3. CASE ~Paced(Cur)
      <4>1. anchor' = anchor
        BY <1>6, <3>3 DEF Anchored
      <4>2. \A i \in 1 .. (n + 1) : i \in 1 .. n \/ i = n + 1
        BY <1>5
      <4> QED
        BY <1>4, <2>2, <3>1, <3>3, <4>1, <4>2
    <3> QED
      BY <3>2, <3>3
  <2> QED
    BY <2>1, <2>2
<1>11. batch' <= BatchSize' /\ (phase' = "Pumping" => batch' < BatchSize')
  <2>1. batch < BatchSize /\ batch \in Nat /\ cfg.maxBatch \in Nat
    BY ConfigsAssumption DEF PaceOK, Types
  <2>2. CASE last
    BY <1>5, <1>6, <1>7, <2>1, <2>2
  <2>3. CASE ~last
    <3>1. ~(batch + 1 >= cfg.maxBatch)
      <4>1. last = (batch + 1 >= cfg.maxBatch)
        BY DEF PumpPublishes
      <4> QED
        BY ONLY <2>3, <4>1
    <3> QED
      BY <1>6, <1>7, <2>1, <3>1 DEF BatchSize
  <2> QED
    BY <2>2, <2>3
<1>12. PaceOK'
  BY <1>4, <1>7, <1>9, <1>10, <1>11 DEF PaceOK
<1>13. ASSUME ~anchor'.set, cfg.rate > 0
       PROVE  /\ afap'.sent = n + 1 /\ afap'.start = day'[1].at /\ day'[1].at > 0
              /\ ((n + 1) - (batch + 1)) * Second < (now' - day'[1].at + 1) * cfg.rate
  <2>1. RateLimited /\ ~anchor.set
    BY <1>6, <1>13 DEF RateLimited, Anchored
  <2>2. afap'.sent = AfapStarted.sent + 1 /\ afap'.start = AfapStarted.start
    BY <1>2, <1>6, <2>1
  <2>3. /\ afap.sent = n /\ afap.start = (IF day = << >> THEN 0 ELSE day[1].at)
        /\ (day # << >> => afap.start > 0)
        /\ (batch > 0 => (n - batch) * Second < (now - afap.start + 1) * cfg.rate)
    BY <1>13, <2>1 DEF RateOK
  <2>4. batch \in Nat /\ now \in Nat \ {0} /\ Second \in Nat \ {0} /\ cfg.rate \in Nat \ {0} /\ afap.start \in Nat
    BY <1>2, <1>13, BoundsAssumption DEF Types
  <2>5. ~Anchored.set
    BY <1>6, <1>13
  <2>6. Due = IF batch = 0 THEN AfapStarted.start + (AfapStarted.sent * Second) \div cfg.rate ELSE 0
    BY <2>1, <2>5 DEF Due
  <2>7. batch > 0 => now' = now
    BY <1>1, <2>4, <2>6
  <2>8. CASE day = << >>
    <3>1. n = 0 /\ AfapStarted = [start |-> now, sent |-> 0]
      BY <2>1, <2>3, <2>8 DEF AfapStarted
    <3>2. now' = now
      <4>1. 0 * Second = 0 /\ 0 \div cfg.rate = 0
        BY <2>4
      <4>2. Due = (IF batch = 0 THEN now + 0 ELSE 0)
        BY <2>6, <3>1, <4>1
      <4> QED
        BY <1>1, <2>4, <4>2
    <3>3. day'[1].at = now
      BY <1>4, <3>1, <3>2
    <3>4. ((n + 1) - (batch + 1)) * Second < (now' - day'[1].at + 1) * cfg.rate
      <4>1. (n + 1) - (batch + 1) \in Int /\ (n + 1) - (batch + 1) <= 0
        BY <2>4, <3>1
      <4>2. ((n + 1) - (batch + 1)) * Second <= 0 /\ ((n + 1) - (batch + 1)) * Second \in Int
        BY <2>4, <4>1, TimesKeepsOrder
      <4>3. now' - day'[1].at + 1 = 1
        BY <2>4, <3>2, <3>3
      <4>4. (now' - day'[1].at + 1) * cfg.rate = cfg.rate
        BY <2>4, <4>3
      <4> QED
        BY <2>4, <4>2, <4>4
    <3> QED
      BY <2>2, <2>4, <3>1, <3>3, <3>4
  <2>9. CASE day # << >>
    <3>1. n > 0 /\ afap.start = day[1].at /\ afap.start > 0
      BY <1>5, <2>3, <2>9 DEF Types
    <3>2. AfapStarted = afap /\ day'[1] = day[1]
      BY <1>4, <1>5, <2>1, <3>1 DEF AfapStarted
    <3>3. ((n + 1) - (batch + 1)) * Second < (now' - day'[1].at + 1) * cfg.rate
      <4>0. (n + 1) - (batch + 1) = n - batch
        BY <1>5, <2>4
      <4>1. CASE batch > 0
        BY <2>3, <2>7, <3>1, <3>2, <4>0, <4>1
      <4>2. CASE batch = 0
        <5> DEFINE a == n * Second
                   d == now' - day[1].at
        <5>1. a \in Nat /\ d \in Int
          BY <1>1, <1>5, <2>4, <3>1
        <5>2. (a \div cfg.rate) <= d
          <6>1. Due = day[1].at + (a \div cfg.rate)
            BY <2>3, <2>6, <3>1, <3>2, <4>2
          <6>2. a \div cfg.rate \in Int /\ day[1].at \in Nat
            BY <1>5, <2>4, <3>1, <5>1
          <6> QED
            BY <1>1, <6>1, <6>2
        <5>3. a < (d + 1) * cfg.rate
          BY <2>4, <5>1, <5>2, RateBackwards
        <5>4. n - batch = n
          BY <1>5, <4>2
        <5> QED
          BY <3>2, <4>0, <5>3, <5>4
      <4> QED
        BY <2>4, <4>1, <4>2
    <3> QED
      BY <2>2, <2>3, <3>1, <3>2, <3>3
  <2> QED
    BY <2>8, <2>9
<1>14. RateOK'
  <2>1. day' # << >>
    BY <1>4, <1>5
  <2>2. cfg'.rate = cfg.rate /\ Len(day') = n + 1 /\ batch' = batch + 1
    BY <1>4, <1>6
  <2>3. ~anchor'.set /\ cfg'.rate > 0 =>
          /\ afap'.sent = Len(day')
          /\ afap'.start = (IF day' = << >> THEN 0 ELSE day'[1].at)
          /\ day' # << >> => afap'.start > 0
          /\ batch' > 0 => (Len(day') - batch') * Second < (now' - afap'.start + 1) * cfg'.rate
    BY <1>13, <2>1, <2>2
  <2> QED
    BY <2>3 DEF RateOK
<1>15. ASSUME Fast(n + 1)', cfg.rate > 0
       PROVE  ((n + 1) - BatchSize) * Second < (day'[n + 1].at - day'[1].at + 1) * cfg.rate
  <2>1. ~anchor'.set
    <3>1. SUFFICES ASSUME anchor'.set PROVE FALSE
      OBVIOUS
    <3>2. PICK f \in 1 .. (n + 1) : IsFirst(f)'
      BY <1>10, <3>1
    <3> QED
      BY <1>15, <3>2 DEF Fast, IsFirst
  <2>2. ((n + 1) - (batch + 1)) * Second < (day'[n + 1].at - day'[1].at + 1) * cfg.rate
    BY <1>4, <1>13, <1>15, <2>1
  <2>3. ((n + 1) - BatchSize) * Second <= ((n + 1) - (batch + 1)) * Second
    <3>1. batch \in Nat /\ batch + 1 <= BatchSize /\ Second \in Nat
      BY <1>6, <1>7, <1>11, BoundsAssumption DEF Types
    <3>2. /\ (n + 1) - BatchSize \in Int /\ (n + 1) - (batch + 1) \in Int
          /\ (n + 1) - BatchSize <= (n + 1) - (batch + 1)
      BY <1>5, <3>1
    <3> QED
      BY <3>1, <3>2, TimesKeepsOrder
  <2> DEFINE x == ((n + 1) - BatchSize) * Second
             y == ((n + 1) - (batch + 1)) * Second
             z == (day'[n + 1].at - day'[1].at + 1) * cfg.rate
  <2>4. x \in Int /\ y \in Int /\ z \in Int
    <3>1. day'[n + 1].at \in Nat /\ day'[1].at \in Nat /\ batch \in Nat /\ Second \in Nat
      BY <1>5, <1>9, BoundsAssumption DEF Types
    <3>2. /\ (n + 1) - BatchSize \in Int /\ (n + 1) - (batch + 1) \in Int
          /\ day'[n + 1].at - day'[1].at + 1 \in Int
      BY <1>5, <3>1
    <3> QED
      BY <1>2, <3>1, <3>2, TimesKeepsOrder
  <2>5. y < z /\ x <= y
    BY <2>2, <2>3
  <2> HIDE DEF x, y, z
  <2>6. x < z
    BY <2>4, <2>5
  <2> QED
    BY <2>6 DEF x, z
<1>16. ASSUME ~Fast(n + 1)'
       PROVE  \E f \in 1 .. (n + 1) :
                /\ IsFirst(f)'
                /\ day'[n + 1].at - day'[f].at >= (day'[n + 1].msg.ts - day'[f].msg.ts) * cfg.nsPerNs
  <2>1. anchor'.set
    BY <1>7, <1>10, <1>16 DEF Fast
  <2>2. PICK f \in 1 .. (n + 1) : IsFirst(f)' /\ anchor'.mono = day'[f].at /\ anchor'.ts = day'[f].msg.ts
    BY <1>10, <2>1
  <2> DEFINE c == Cur.ts
             m == Anchored.mono
             s == Anchored.ts
             k == cfg.nsPerNs
  <2>3. c \in Nat /\ m \in Nat /\ s \in Nat /\ k \in Nat
    BY <1>2
  <2>4. Due = m + (IF c > s THEN (c - s) * k ELSE 0)
    BY <1>6, <2>1 DEF Due
  <2>5. m = day'[f].at /\ s = day'[f].msg.ts /\ now' = day'[n + 1].at /\ c = day'[n + 1].msg.ts
    BY <1>4, <1>6, <2>2
  <2> HIDE DEF c, m, s, k
  <2>6. now' - m >= (c - s) * k
    <3> DEFINE p == (c - s) * k
    <3>1. p \in Int /\ (c - s <= 0 => p <= 0) /\ c - s \in Int
      BY <2>3, TimesKeepsOrder
    <3>2. Due = m + (IF c > s THEN p ELSE 0)
      BY <2>4
    <3> HIDE DEF p
    <3>3. Due <= now' /\ now' \in Nat
      BY <1>1
    <3>4. now' - m >= p
      <4> DEFINE t == now'
                 d == Due
      <4>1. /\ d <= t /\ t \in Nat /\ m \in Nat /\ c \in Nat /\ s \in Nat /\ p \in Int
            /\ d = m + (IF c > s THEN p ELSE 0)
            /\ (c - s <= 0 => p <= 0)
        BY <2>3, <3>1, <3>2, <3>3
      <4> HIDE DEF t, d
      <4>2. t - m >= p
        <5>1. CASE c > s
          <6>1. d = m + p
            BY <4>1, <5>1
          <6> QED
            BY <4>1, <6>1
        <5>2. CASE ~(c > s)
          <6>1. d = m + 0 /\ p <= 0
            BY <4>1, <5>2
          <6> QED
            BY <4>1, <6>1
        <5> QED
          BY <5>1, <5>2
      <4> QED
        BY <4>2 DEF t
    <3> QED
      BY <3>4 DEF p
  <2> QED
    BY <2>2, <2>5, <2>6 DEF k
<1>17. ReplayPaced'
  <2> DEFINE P(j) == Paced(day'[j].msg) /\ ~\E k \in 1 .. j - 1 : Paced(day'[k].msg)
             first(i) == CHOOSE j \in 1 .. i : P(j)
             F(i) == ~\E j \in 1 .. i : Paced(day'[j].msg)
             Slow(i) == (i - BatchSize) * Second < (day'[i].at - day'[1].at + 1) * cfg.rate
             Late(i) == day'[i].at - day'[first(i)].at >= (day'[i].msg.ts - day'[first(i)].msg.ts) * cfg.nsPerNs
             Ok(i) == IF F(i) THEN cfg.rate > 0 => Slow(i) ELSE Late(i)
  <2>0. \A i : Fast(i)' <=> F(i)
    BY <1>7 DEF Fast
  <2>1. ASSUME NEW i \in 1 .. (n + 1), NEW f \in 1 .. i, P(f) PROVE first(i) = f
    <3>1. ASSUME NEW g \in 1 .. i, P(g) PROVE g = f
      <4>1. ~(f < g) /\ ~(g < f)
        BY <1>5, <2>1, <3>1
      <4> QED
        BY <1>5, <4>1
    <3> HIDE DEF P
    <3> QED
      BY <2>1, <3>1
  <2>2. ASSUME NEW i \in 1 .. n PROVE Ok(i)
    <3>1. \A j \in 1 .. i : day'[j] = day[j]
      BY <1>4, <1>5
    <3>2. i \in 1 .. i /\ 1 \in 1 .. i /\ i \in DOMAIN day
      BY <1>5
    <3>3. CASE Fast(i)
      <4>1. cfg.rate > 0 => (i - BatchSize) * Second < (day[i].at - day[1].at + 1) * cfg.rate
        BY <3>2, <3>3 DEF ReplayPaced
      <4> QED
        BY <1>8, <2>0, <3>1, <3>2, <3>3, <4>1
    <3>4. CASE ~Fast(i)
      <4> DEFINE g == CHOOSE j \in 1 .. i : Paced(day[j].msg) /\ ~\E k \in 1 .. j - 1 : Paced(day[k].msg)
      <4>1. day[i].at - day[g].at >= (day[i].msg.ts - day[g].msg.ts) * cfg.nsPerNs
        BY <3>2, <3>4 DEF ReplayPaced
      <4>2. first(i) = g
        <5>1. \A j \in 1 .. i : \A k \in 1 .. j - 1 : k \in 1 .. i
          BY <1>5
        <5>2. \A j \in 1 .. i :
                (Paced(day'[j].msg) /\ ~\E k \in 1 .. j - 1 : Paced(day'[k].msg))
                <=> (Paced(day[j].msg) /\ ~\E k \in 1 .. j - 1 : Paced(day[k].msg))
          BY <3>1, <5>1
        <5> QED
          BY <5>2
      <4>3. g \in 1 .. i
        <5>1. \E j \in 1 .. i : Paced(day[j].msg) /\ ~\E k \in 1 .. j - 1 : Paced(day[k].msg)
          <6>1. PICK j \in 1 .. i : Paced(day[j].msg)
            BY <3>4 DEF Fast
          <6> DEFINE A == {k \in 1 .. i : Paced(day[k].msg)}
          <6>2. A # {} /\ A \in SUBSET Nat
            BY <6>1
          <6>3. PICK x \in A : \A y \in A : x <= y
            <7> HIDE DEF A
            <7> QED
              BY <6>2, LeastOf
          <6> QED
            BY <1>5, <6>3
        <5> QED
          BY <5>1
      <4> HIDE DEF g
      <4>4. day'[first(i)] = day[g] /\ day'[i] = day[i]
        BY <3>1, <3>2, <4>2, <4>3
      <4> QED
        BY <1>8, <2>0, <3>4, <4>1, <4>4
    <3> QED
      BY <3>3, <3>4
  <2>3. Ok(n + 1)
    <3> PICK k : k = n + 1
      OBVIOUS
    <3>0. k \in 1 .. (n + 1) /\ (Fast(k)' <=> F(k))
      BY <1>5, <2>0
    <3>1. ASSUME F(k), cfg.rate > 0 PROVE Slow(k)
      <4>1. Fast(n + 1)'
        BY <3>0, <3>1
      <4>2. (k - BatchSize) * Second < (day'[k].at - day'[1].at + 1) * cfg.rate
        BY <1>15, <3>1, <4>1
      <4> QED
        BY <4>2
    <3>2. ASSUME ~F(k) PROVE Late(k)
      <4>0. ~Fast(n + 1)'
        BY <3>0, <3>2
      <4>1. PICK f \in 1 .. (n + 1) :
              /\ IsFirst(f)'
              /\ day'[n + 1].at - day'[f].at >= (day'[n + 1].msg.ts - day'[f].msg.ts) * cfg.nsPerNs
        BY <1>16, <4>0
      <4>2. P(f)
        BY <1>7, <4>1 DEF IsFirst
      <4>3. first(k) = f
        <5> HIDE DEF P, first
        <5> QED
          BY <2>1, <3>0, <4>1, <4>2
      <4> HIDE DEF first
      <4>4. day'[k].at - day'[first(k)].at >= (day'[k].msg.ts - day'[first(k)].msg.ts) * cfg.nsPerNs
        BY <4>1, <4>3
      <4> QED
        BY <4>4
    <3>3. Ok(k)
      <4> HIDE DEF Slow, Late, F
      <4> QED
        BY <3>1, <3>2
    <3> HIDE DEF Ok
    <3> QED
      BY <3>3
  <2>4. \A i \in 1 .. (n + 1) : Ok(i)
    <3>1. \A i \in 1 .. (n + 1) : i \in 1 .. n \/ i = n + 1
      BY <1>5
    <3> HIDE DEF Ok
    <3> QED
      BY <2>2, <2>3, <3>1
  <2>5. \A i : first(i) = (CHOOSE j \in 1 .. i : Paced(day[j].msg) /\ ~\E k \in 1 .. j - 1 : Paced(day[k].msg))'
    BY <1>6 DEF Paced
  <2> HIDE DEF first
  <2> QED
    BY <1>4, <1>6, <1>7, <2>0, <2>4, <2>5 DEF ReplayPaced
<1> QED
  BY <1>12, <1>14, <1>17

\* The publication of a message, the last of its batch or not.
LEMMA PublishKeeps ==
  ASSUME IInv, NEW last \in BOOLEAN, PumpPublishes(last), phase = "Pumping", ~finished,
         phase' = IF last THEN "Polling" ELSE phase, UNCHANGED <<clientSeen, linkVars, stop>>
  PROVE  IInv'
<1>0. Types /\ LocatesOK /\ Delivered /\ DayOK /\ StreamOK /\ PaceOK /\ RateOK /\ ReplayPaced
  BY DEF IInv
<1>1. PumpPublishes(TRUE) \/ PumpPublishes(FALSE)
  <2>1. last = TRUE \/ last = FALSE
    OBVIOUS
  <2> QED
    BY <2>1
<1>2. /\ Publishable /\ now' \in Nat \ {0} /\ now' <= clock
      /\ ReplayMessage(Cur, now')
  BY <1>0, <1>1, PublishTime
<1>3. /\ cursor \in 1 .. Len(Tape) /\ Cur \in Messages
      /\ Anchored \in [set : BOOLEAN, mono : Nat, ts : Nat]
      /\ AfapStarted \in [start : Nat, sent : Nat]
  BY <1>0, <1>2, DueFacts
<1>4. PICK e \in Published :
        /\ day' = Append(day, e) /\ e.msg = Cur
        /\ e.known /\ Cur.kind = "M" => e.venue = IF Cur.sym \in Venues THEN Cur.sym ELSE NoVenue
  <2>1. now' \in Nat
    BY <1>2
  <2> QED
    BY <1>0, <1>2, <1>3, <2>1, Replayed
<1>5. LocatesOK' /\ named' \subseteq Symbols
  <2>1. now' \in Nat
    BY <1>2
  <2> QED
    BY <1>0, <1>2, <1>3, <2>1, Replayed
<1>6. /\ Len(day') = Len(day) + 1 /\ DOMAIN day' = 1 .. (Len(day) + 1) /\ day'[Len(day) + 1] = e
      /\ \A i \in 1 .. Len(day) : day'[i] = day[i]
      /\ day' \in Seq(Published)
      /\ DayMessages' = Append(DayMessages, Cur)
  BY <1>0, <1>4, DayGrows
<1>7. /\ UNCHANGED <<cfg, cursor, loop, finished, clock, resting, prev>>
      /\ UNCHANGED <<clientSeen, toVenue, accepted, orders>>
      /\ have = TRUE /\ have' = FALSE /\ batch' = batch + 1 /\ anchor' = Anchored
      /\ afap' = (IF RateLimited THEN [AfapStarted EXCEPT !.sent = @ + 1] ELSE afap)
      /\ md' = (IF last THEN FlushMarketData(AppendMarketData(md, Cur)) ELSE AppendMarketData(md, Cur))
  <2>1. have = TRUE
    BY <1>0, <1>2 DEF Publishable, Types
  <2> QED
    BY <2>1 DEF PumpPublishes, linkVars
<1>8. /\ Tape' = Tape /\ Wanted' = Wanted /\ TapeDay' = TapeDay /\ \A i : Stops(i)' <=> Stops(i)
  BY <1>7, TapeStays
<1>9. Types'
  <2>1. afap' \in [start : Nat, sent : Nat]
    <3>1. \A x \in [start : Nat, sent : Nat] : [x EXCEPT !.sent = @ + 1] \in [start : Nat, sent : Nat]
      OBVIOUS
    <3>2. afap \in [start : Nat, sent : Nat]
      BY <1>0 DEF Types
    <3> QED
      BY <1>3, <1>7, <3>1, <3>2
  <2>2. batch' \in Nat /\ phase' \in Phases
    BY <1>0, <1>7 DEF Types, Phases
  <2> QED
    BY <1>0, <1>2, <1>3, <1>5, <1>6, <1>7, <1>8, <2>1, <2>2 DEF Types
<1>10. Delivered'
  <2> DEFINE n == Len(day)
             Right(p) == p.known /\ p.msg.kind = "M" =>
                           p.venue = IF p.msg.sym \in Venues THEN p.msg.sym ELSE NoVenue
  <2>1. \A i \in 1 .. n : Right(day[i])
    <3>1. DOMAIN day = 1 .. n
      BY <1>0, MembersTyped
    <3> QED
      BY <1>0, <3>1 DEF Delivered
  <2>2. Right(e)
    BY <1>4
  <2>3. n \in Nat /\ \A i \in 1 .. (n + 1) : i \in 1 .. n \/ i = n + 1
    <3>1. n \in Nat
      BY <1>0, MembersTyped
    <3> QED
      BY <3>1
  <2>4. \A i \in DOMAIN day' : Right(day'[i])
    <3> HIDE DEF Right
    <3> QED
      BY <1>6, <2>1, <2>2, <2>3
  <2> QED
    BY <2>4 DEF Delivered
<1>11. DayOK'
  <2>1. Done = cursor - 1 /\ Done' = cursor /\ Len(Tape) \in Nat
    BY <1>0, <1>7, MembersTyped DEF Done
  <2>2. ~Cur.short /\ ~PastStop(Cur) /\ Cur = Tape[cursor]
    BY <1>2 DEF Publishable, Cur
  <2>3. \A j \in 1 .. cursor : ~Stops(j)
    <3>1. \A j \in 1 .. (cursor - 1) : ~Stops(j)
      BY <1>0, <2>1 DEF DayOK
    <3>2. ~Stops(cursor)
      BY <2>2 DEF Stops
    <3> QED
      BY <1>3, <3>1, <3>2
  <2>4. cursor \in Wanted
    <3>1. cursor \in DOMAIN Tape
      <4>1. DOMAIN Tape = 1 .. Len(Tape)
        BY <1>0, MembersTyped
      <4> QED
        BY <1>3, <4>1
    <3> QED
      BY <2>2, <2>3, <3>1 DEF Wanted
  <2>5. Kept(Tape, Wanted)[cursor] = Append(Kept(Tape, Wanted)[cursor - 1], Tape[cursor])
    BY <1>3, <2>1, <2>4, KeptSteps
  <2>6. DayMessages' = Kept(Tape, Wanted)[cursor]
    BY <1>0, <1>6, <2>1, <2>2, <2>5 DEF DayOK
  <2> QED
    BY <1>7, <1>8, <2>1, <2>3, <2>6 DEF DayOK
<1>12. StreamOK'
  <2> DEFINE w == AppendMarketData(md, Cur)
  <2>1. Streams(md, DayMessages, Len(resting))
    BY <1>0 DEF StreamOK
  <2>2. Streams(w, Append(DayMessages, Cur), Len(resting))
    BY <1>3, <2>1, StreamsTape
  <2> HIDE DEF w
  <2>3. Streams(FlushMarketData(w), Append(DayMessages, Cur), Len(resting)) /\ FlushMarketData(w).packet = << >>
    BY <2>2, StreamsFlush
  <2>4. md' = IF last THEN FlushMarketData(w) ELSE w
    BY <1>7 DEF w
  <2>5. Streams(md', DayMessages', Len(resting')) /\ (phase' # "Pumping" => md'.packet = << >>)
    BY <1>6, <1>7, <2>2, <2>3, <2>4
  <2> QED
    BY <1>0, <1>7, <1>8, <2>5 DEF StreamOK
<1>13. PaceOK' /\ RateOK' /\ ReplayPaced'
  <2>1. phase' = "Pumping" => ~last
    OBVIOUS
  <2> QED
    BY <1>0, <2>1, PublishPace
<1> QED
  BY <1>5, <1>9, <1>10, <1>11, <1>12, <1>13 DEF IInv

-----------------------------------------------------------------------------
(***************************************************************************)
(* The theorems.                                                           *)
(***************************************************************************)

\* At the start nothing is published, and each venue has the locate that it was
\* configured with.
LEMMA InitHolds ==
  Init => IInv
<1> SUFFICES ASSUME Init PROVE IInv
  OBVIOUS
<1>0. /\ Venues \subseteq Symbols /\ NoVenue \notin Symbols
      /\ DOMAIN InitialLocate = Venues /\ DOMAIN TapeLocate = Symbols
      /\ \A a, b \in Venues : InitialLocate[a] = InitialLocate[b] => a = b
  BY LocatesAssumption
<1>1. /\ cfg \in Configs
      /\ cursor = 0 /\ have = FALSE /\ anchor = NoAnchor /\ afap = NoAfap
      /\ finished = FALSE /\ batch = 0 /\ now = 1 /\ clock = 1
      /\ md = [packet |-> <<>>, wire |-> <<>>]
      /\ resting = <<>> /\ day = <<>> /\ prev = <<>> /\ named = {}
      /\ phase = "Opening" /\ clientSeen = FALSE /\ toVenue = <<>> /\ accepted = FALSE /\ orders = 0
      /\ locateOf = InitialLocate
      /\ routes = [l \in Locates |->
                    IF \E s \in Venues : InitialLocate[s] = l
                    THEN CHOOSE s \in Venues : InitialLocate[s] = l ELSE NoVenue]
  BY DEF Init, ReplayInit, Locates
<1>2. << >> \in Seq(Nat) /\ << >> \in Seq(Published) /\ Len(<< >>) = 0 /\ DOMAIN << >> = {}
  OBVIOUS
<1>3. Types
  <2>1. anchor \in [set : BOOLEAN, mono : Nat, ts : Nat] /\ afap \in [start : Nat, sent : Nat]
    BY <1>1 DEF NoAnchor, NoAfap
  <2>2. Len(Tape) \in Nat
    <3>1. Tape \in Seq(Messages)
      BY <1>1, ConfigsAssumption DEF Tape
    <3> QED
      BY <3>1
  <2>3. day \in Seq(Published) /\ resting \in Seq(Nat) /\ toVenue \in Seq(Nat)
    BY <1>1, <1>2
  <2>4. cfg \in Configs /\ phase \in Phases /\ cursor \in 0 .. Len(Tape) /\ named \subseteq Symbols
    BY <1>1, <2>2 DEF Phases
  <2>5. batch \in Nat /\ now \in Nat \ {0} /\ clock \in Nat /\ now <= clock /\ orders \in Nat
    BY <1>1
  <2>6. have = FALSE /\ finished = FALSE /\ clientSeen = FALSE /\ accepted = FALSE
    BY <1>1
  <2> QED
    BY <2>1, <2>3, <2>4, <2>5, <2>6 DEF Types
<1>4. LocatesOK
  <2>1. \A s \in Venues : InitialLocate[s] \in Locates
    BY <1>0 DEF Locates, Range
  <2>2. ASSUME NEW l \in Locates
        PROVE  \/ routes[l] \in Venues /\ InitialLocate[routes[l]] = l
               \/ routes[l] = NoVenue /\ ~\E s \in Venues : InitialLocate[s] = l
    <3>1. CASE \E s \in Venues : InitialLocate[s] = l
      <4>1. routes[l] = CHOOSE s \in Venues : InitialLocate[s] = l
        BY <1>1, <3>1
      <4> QED
        BY <3>1, <4>1
    <3>2. CASE ~\E s \in Venues : InitialLocate[s] = l
      BY <1>1, <3>2
    <3> QED
      BY <3>1, <3>2
  <2>3. routes \in [Locates -> Venues \cup {NoVenue}]
    <3>1. DOMAIN routes = Locates /\ routes = [l \in Locates |-> routes[l]]
      BY <1>1
    <3> QED
      BY <2>2, <3>1
  <2>4. \A s \in Venues : routes[InitialLocate[s]] = s
    BY <1>0, <2>1, <2>2
  <2>5. locateOf \in [Venues -> Locates]
    <3>1. locateOf = [s \in Venues |-> InitialLocate[s]]
      BY <1>1, LocatesAssumption
    <3> QED
      BY <2>1, <3>1
  <2> QED
    BY <1>0, <1>1, <2>2, <2>3, <2>4, <2>5 DEF LocatesOK
<1>5. Delivered /\ ReplayPaced
  BY <1>1, <1>2 DEF Delivered, ReplayPaced
<1>6. DayMessages = << >> /\ Done = 0
  BY <1>1 DEF DayMessages, Done
<1>7. DayOK
  <2>1. Kept(Tape, Wanted)[0] = << >>
    BY <1>3, MembersTyped, KeptSteps
  <2> QED
    BY <1>6, <2>1 DEF DayOK
<1>8. StreamOK
  <2>1. Streams(md, DayMessages, Len(resting))
    BY <1>1, <1>2, <1>6, EmptyStreams
  <2> QED
    BY <1>1, <2>1 DEF StreamOK
<1>9. PaceOK /\ RateOK
  <2>1. BatchSize \in Nat \ {0}
    BY <1>3, MembersTyped
  <2> QED
    BY <1>1, <1>2, <2>1 DEF PaceOK, RateOK, NoAnchor, NoAfap
<1> QED
  BY <1>3, <1>4, <1>5, <1>7, <1>8, <1>9 DEF IInv

\* Every step keeps the invariant.
LEMMA StepKeeps ==
  IInv /\ [Next]_vars => IInv'
<1> SUFFICES ASSUME IInv, [Next]_vars PROVE IInv'
  OBVIOUS
<1>0. Types /\ LocatesOK /\ Delivered /\ DayOK /\ StreamOK /\ PaceOK /\ RateOK /\ ReplayPaced
  BY DEF IInv
<1>1. CASE SimOpens \/ DutLogsIn \/ DutIsAccepted \/ DutOrders \/ FrameLost \/ Tick \/ StopSignal
  BY <1>1, OthersKeep
<1>2. CASE SimEnds \/ SimLosesClient
  BY <1>2, EndsKeep
<1>3. CASE SimPolls
  BY <1>3, PollsKeep
<1>4. CASE SimPumps
  <2>1. phase = "Pumping" /\ ~finished /\ UNCHANGED <<clientSeen, linkVars, stop>>
    BY <1>4 DEF SimPumps
  <2>2. CASE PumpFetches /\ UNCHANGED phase
    BY <2>1, <2>2, FetchKeeps
  <2>3. CASE PumpSkips /\ UNCHANGED phase
    BY <2>1, <2>3, SkipKeeps
  <2>4. CASE PumpEnds /\ UNCHANGED phase
    BY <2>1, <2>4, LoopEndKeeps
  <2>5. CASE PumpPublishes(FALSE) /\ UNCHANGED phase
    <3>1. phase' = IF FALSE THEN "Polling" ELSE phase
      BY <2>5
    <3> QED
      BY <2>1, <2>5, <3>1, PublishKeeps
  <2>6. CASE PumpWaits /\ phase' = "Polling"
    BY <2>1, <2>6, WaitKeeps
  <2>7. CASE PumpPublishes(TRUE) /\ phase' = "Polling"
    <3>1. phase' = IF TRUE THEN "Polling" ELSE phase
      BY <2>7
    <3> QED
      BY <2>1, <2>7, <3>1, PublishKeeps
  <2> QED
    BY <1>4, <2>2, <2>3, <2>4, <2>5, <2>6, <2>7 DEF SimPumps
<1>5. CASE UNCHANGED vars
  <2>1. /\ UNCHANGED <<cfg, cursor, have, anchor, afap, loop, finished, batch, now, clock, md,
                       routes, locateOf, resting, day, prev, named>>
        /\ UNCHANGED <<phase, clientSeen, toVenue, accepted, orders>>
    BY <1>5 DEF vars, replayVars, linkVars
  <2>2. Types'
    BY <1>0, <2>1 DEF Types, Tape
  <2>3. Done' = Done
    BY <2>1 DEF Done
  <2>4. LocatesOK' /\ Delivered' /\ DayOK' /\ DayMessages' = DayMessages
    BY <1>0, <2>1, <2>3, DayStays
  <2>5. PaceOK' /\ RateOK' /\ ReplayPaced'
    BY <1>0, <2>1, PaceStays
  <2>6. StreamOK'
    BY <1>0, <2>1, <2>4, StreamStays
  <2> QED
    BY <2>2, <2>4, <2>5, <2>6 DEF IInv
<1> QED
  BY <1>1, <1>2, <1>3, <1>4, <1>5 DEF Next

\* What the stream invariant says about the property.
LEMMA InvImpliesTape ==
  IInv => StreamIsTape
<1> SUFFICES ASSUME IInv PROVE StreamIsTape
  OBVIOUS
<1>0. Types /\ Delivered /\ DayOK /\ StreamOK
  BY DEF IInv
<1>1. md.wire \o md.packet = Out(md) /\ [i \in DOMAIN day |-> day[i].msg] = DayMessages
  BY DEF Out, DayMessages
<1>2. OfTape(Out(md)) = DayMessages \/ (finished /\ Out(md) = << >>)
  <2>1. CASE finished
    <3>1. << >> \o << >> = << >>
      OBVIOUS
    <3> QED
      BY <1>0, <2>1, <3>1 DEF StreamOK, Out
  <2>2. CASE ~finished
    BY <1>0, <2>2 DEF StreamOK, Streams
  <2> QED
    BY <2>1, <2>2
<1>3. IsPrefix(DayMessages, TapeDay)
  <2>1. Tape \in Seq(Messages) /\ Len(Tape) \in Nat
    BY <1>0, MembersTyped
  <2>2. Done \in 0 .. Len(Tape)
    BY <1>0, <2>1 DEF Done, Types
  <2>3. IsPrefix(Kept(Tape, Wanted)[Done], Kept(Tape, Wanted)[Len(Tape)])
    BY <2>1, <2>2, KeptPrefix
  <2> QED
    BY <1>0, <2>3 DEF DayOK, TapeDay
<1>4. /\ phase # "Pumping" => md.packet = << >>
      /\ prev # << >> => OfTape(prev) = TapeDay /\ Len(OfOrder(prev, "A")) = Len(OfOrder(prev, "D"))
  BY <1>0 DEF StreamOK
<1> QED
  BY <1>0, <1>1, <1>2, <1>3, <1>4 DEF StreamIsTape, Delivered

\* The invariant of the replay, for every tape, configuration and interleaving.
THEOREM ReplayInvariant == Spec => []IInv
<1>1. Init => IInv
  BY InitHolds
<1>2. IInv /\ [Next]_vars => IInv'
  BY StepKeeps
<1> QED
  BY <1>1, <1>2, PTL DEF Spec

\* Every loop publishes its part of the tape whole, once and in order, deletes
\* its orders again at the end, and brings each message to its own venue.
THEOREM StreamIsTheTape == Spec => []StreamIsTape
<1>1. IInv => StreamIsTape
  BY InvImpliesTape
<1> QED
  BY <1>1, ReplayInvariant, PTL

\* No message is published before its recorded time, and those before the
\* recorded pace never get more than a batch ahead of the rate limit.
THEOREM ReplayIsPaced == Spec => []ReplayPaced
<1>1. IInv => ReplayPaced
  BY DEF IInv
<1> QED
  BY <1>1, ReplayInvariant, PTL
=============================================================================
