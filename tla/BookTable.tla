----------------------------- MODULE BookTable -----------------------------
(***************************************************************************)
(* dut::BookTable: the books by stock locate, which symbols are hot, and   *)
(* the epoch that lets clearAll empty thousands of books at once.  A table *)
(* is a record and the methods are operators on it.                        *)
(*                                                                         *)
(* A stock is named by the locate its directory message gives it.  A book  *)
(* is the set of orders it holds; BookBuilder models what it really is.    *)
(* The trading state that an H message sets is in DutQuoting.              *)
(***************************************************************************)
EXTENDS Integers, FiniteSets

CONSTANTS
  Locates,     \* the stocks of the feed
  HotStocks,   \* cfg.hotSymbols
  Profiled     \* the stocks in cfg.profiles, whose books exist from the start

ASSUME StocksAssumption == HotStocks \subseteq Locates /\ Profiled \subseteq Locates

NoBook == <<>>
OwnBook(l) == <<l, "created">>
ProfileBook(l) == <<l, "profile">>
BookIds == {OwnBook(l) : l \in Locates} \cup {ProfileBook(l) : l \in Profiled}

\* m_byName holds the stock: the constructor makes profiled books only for the
\* stocks in scope.
HasProfile(t, l) ==
  /\ l \in Profiled
  /\ t.scope = "HotOnly" => l \in HotStocks
  /\ t.scope = "ColdOnly" => l \notin HotStocks

\* The constructor; "preset" are the hot stocks with a locate in cfg.hotLocates.
NewTable(scope, preset) ==
  LET t == [scope |-> scope,
            book |-> [l \in Locates |-> IF l \in preset THEN OwnBook(l) ELSE NoBook],
            resolved |-> preset,
            hotBook |-> [l \in HotStocks |-> NoBook],
            books |-> [i \in BookIds |-> [orders |-> {}, epoch |-> 0]],
            epoch |-> 0, live |-> 0]
  IN [t EXCEPT !.hotBook = [l \in HotStocks |->
                              IF l \in preset THEN OwnBook(l)
                              ELSE IF HasProfile(t, l) THEN ProfileBook(l) ELSE NoBook]]

\* isHot.
IsHot(t, l) == l \in t.resolved

\* create.
Create(t, l) == [t EXCEPT !.book[l] = OwnBook(l)]

(***************************************************************************)
(* onDirectory: the stock's profiled book is bound, or one is created; the *)
(* first directory of a hot stock resolves it.  A cold-only table learns   *)
(* which locates are hot and makes no book for them.                       *)
(***************************************************************************)
OnDirectory(t, l) ==
  LET bound == IF t.book[l] = NoBook /\ HasProfile(t, l)
               THEN [t EXCEPT !.book[l] = ProfileBook(l)] ELSE t
      filled == IF bound.book[l] = NoBook THEN Create(bound, l) ELSE bound
  IN IF l \in HotStocks \ t.resolved
     THEN IF t.scope = "ColdOnly" THEN [bound EXCEPT !.resolved = @ \cup {l}]
          ELSE [filled EXCEPT !.resolved = @ \cup {l}, !.hotBook[l] = filled.book[l]]
     ELSE IF t.scope = "HotOnly" THEN bound ELSE filled

\* Mutant of Refreshed: a book of an earlier epoch is not emptied.
RefreshedKeeps(t, i) == t

\* The books emptied by clearAll in name only are emptied when next used.
Refreshed(t, i) ==
  IF t.books[i].epoch = t.epoch THEN t
  ELSE [t EXCEPT !.books[i] = [orders |-> {}, epoch |-> t.epoch]]

\* apply: message s of the given type and locate.  An "A" stands for every
\* message that goes to the book.
TableApply(t, type, l, s) ==
  IF type = "R" THEN OnDirectory(t, l)
  ELSE IF /\ t.book[l] = NoBook
          /\ \/ t.scope = "HotOnly" /\ ~IsHot(t, l)
             \/ t.scope = "ColdOnly" /\ IsHot(t, l)
       THEN t
       ELSE LET u == IF t.book[l] = NoBook THEN Create(t, l) ELSE t
                i == u.book[l]
                c == Refreshed(u, i)
            IN IF type = "H" THEN u
               ELSE [c EXCEPT !.books[i].orders = @ \cup {s},
                              !.live = @ + Cardinality(c.books[i].orders \cup {s})
                                         - Cardinality(c.books[i].orders)]

\* Mutant of ClearAll: the hot books are left to the epoch as well.
ClearAllLazily(t) == [t EXCEPT !.epoch = @ + 1, !.live = 0]

\* clearAll: the hot books at once, since they are read between messages, the
\* others when their next message arrives.
ClearAll(t) ==
  LET shown == {t.hotBook[l] : l \in HotStocks} \ {NoBook}
  IN [t EXCEPT !.epoch = @ + 1, !.live = 0,
               !.books = [i \in BookIds |->
                            IF i \in shown THEN [orders |-> {}, epoch |-> t.epoch + 1]
                            ELSE @[i]]]

\* hotBook: what the strategy reads; the epoch is not looked at.
HotBook(t, l) == IF t.hotBook[l] = NoBook THEN {} ELSE t.books[t.hotBook[l]].orders

\* What the book at a locate holds as of this epoch.
Held(t, l) ==
  IF t.book[l] = NoBook \/ t.books[t.book[l]].epoch # t.epoch THEN {}
  ELSE t.books[t.book[l]].orders

\* The orders in the books of this epoch.
LiveOrders(t) ==
  UNION {{i} \X t.books[i].orders : i \in {b \in BookIds : t.books[b].epoch = t.epoch}}

\* m_live is the number of orders in the books of this epoch.
LiveIsExact(t) == t.live = Cardinality(LiveOrders(t))
=============================================================================
