-------------------------- MODULE DutQuotingProofs --------------------------
(***************************************************************************)
(* What the quoting loop asks for, for every set of symbols, every band,   *)
(* spread and skew, and every order of packets, answers and venue steps.   *)
(*                                                                         *)
(* The strategy's memory is safe because of three facts that hold between  *)
(* packets.  A symbol is quoted only while the feed is valid and, with     *)
(* marketHoursOnly, the market open, so a memory outlives neither.  Hence  *)
(* every event that runs the loop over all symbols either finds no memory, *)
(* or stops trading, or has emptied the books, and in each case a marked   *)
(* top is not taken for a seen one.  And warmQuotePath, which also runs    *)
(* that loop, has made the strategies forget before.                       *)
(***************************************************************************)
EXTENDS DutQuoting, OrderEntryProofs, SequenceTheorems, TLAPS

\* The tables are indexed by symbol.
IsTable(f) == f = [s \in Syms |-> f[s]]
Tables ==
  /\ IsTable(mem) /\ IsTable(fair) /\ IsTable(trading) /\ IsTable(position)
  /\ dirty \in [Syms -> BOOLEAN] /\ todo \subseteq Syms

\* A symbol with a memory was last quoted on a valid feed in market hours.
MemoryIsOfHours ==
  \A s \in Syms \ todo : mem[s] # NoMem => feedValid /\ marketOpen

\* The strategies forgot before warmQuotePath asked for all quotes.
WarmForgot == reconcileAll => todo = {} /\ \A s \in Syms : mem[s] = NoMem

\* The loop over all symbols never meets a marked top and a memory in use.
LoopForgets ==
  \A s \in todo : mem[s] # NoMem /\ dirty[s] => fair[s] = NoFair \/ ~Allowed(s)

MemoryInv ==
  /\ Tables
  /\ HoursOnly => MemoryIsOfHours /\ WarmForgot /\ LoopForgets
  /\ MemoryTracksPosition

\* Trading with market hours needs both.
LEMMA AllowedInHours ==
  ASSUME HoursOnly, NEW valid, NEW open, NEW tradable, TradingAllowed(valid, open, tradable)
  PROVE  valid /\ open
BY DEF TradingAllowed

\* An unused memory has no fair value.
LEMMA NoMemHasNoFair == NoMem.fair = NoFair /\ NoMem \in [fair : {NoFair}, pos : {0}, target : {NoTarget}]
BY DEF NoMem, NoTarget

\* What is remembered of a quote is its position, or nothing.
LEMMA RememberedPosition ==
  ASSUME NEW f, NEW pos, Remembered(f, pos) # NoMem PROVE Remembered(f, pos).pos = pos
BY DEF Remembered

\* One call of quote leaves the memory it had, one of the position, or none; and
\* none unless trading is allowed.
LEMMA QuoteHotEffect ==
  ASSUME NEW sym \in Syms, NEW f, NEW m, NEW allowed, Tables, QuoteHot(sym, f, m, allowed)
  PROVE  /\ dirty' = [dirty EXCEPT ![sym] = FALSE]
         /\ IsTable(mem') /\ \A s \in Syms \ {sym} : mem'[s] = mem[s]
         /\ mem'[sym] # NoMem =>
              /\ allowed
              /\ \/ mem'[sym].pos = position[sym]
                 \/ mem'[sym] = m /\ m.fair = f /\ f # NoFair
         /\ UNCHANGED position
<1>1. dirty' = [dirty EXCEPT ![sym] = FALSE]
  BY DEF QuoteHot
<1>2. IsTable(mem)
  BY DEF Tables
<1>3. \A v : mem' = [mem EXCEPT ![sym] = v] =>
               IsTable(mem') /\ mem'[sym] = v /\ \A s \in Syms \ {sym} : mem'[s] = mem[s]
  BY <1>2 DEF IsTable
<1>4. \A t : Quote(sym, t) => UNCHANGED position
  BY DEF Quote, Reconcile
<1>5. CASE allowed /\ f # NoFair /\ m.fair = f /\ mem' = [mem EXCEPT ![sym] = m] /\ NoRequest
  <2>1. UNCHANGED position
    BY <1>5 DEF NoRequest, vars, omsVars
  <2>2. IsTable(mem') /\ mem'[sym] = m /\ \A s \in Syms \ {sym} : mem'[s] = mem[s]
    BY <1>3, <1>5
  <2>3. QED
    BY <1>1, <1>5, <2>1, <2>2
<1>6. CASE /\ allowed /\ mem' = [mem EXCEPT ![sym] = Remembered(f, position[sym])]
           /\ Quote(sym, Target(f, position[sym]))
  <2>1. /\ IsTable(mem') /\ mem'[sym] = Remembered(f, position[sym])
        /\ \A s \in Syms \ {sym} : mem'[s] = mem[s]
    BY <1>3, <1>6
  <2>2. QED
    BY <1>1, <1>4, <1>6, <2>1, RememberedPosition
<1>7. CASE mem' = [mem EXCEPT ![sym] = NoMem] /\ Quote(sym, NoTarget)
  <2>1. IsTable(mem') /\ mem'[sym] = NoMem /\ \A s \in Syms \ {sym} : mem'[s] = mem[s]
    BY <1>3, <1>7
  <2>2. QED
    BY <1>1, <1>4, <1>7, <2>1
<1>8. QED
  BY <1>5, <1>6, <1>7 DEF QuoteHot

\* Only a fill moves a position, and it marks the symbol it moves.
LEMMA AckMarks ==
  ASSUME IsTable(position), NEW a, OnAck(a)
  PROVE  /\ IsTable(position')
         /\ \A s \in Syms : position'[s] = position[s] \/ s \in Marked(a)
<1>1. CASE UNCHANGED position
  BY <1>1 DEF IsTable
<1>2. UnknownAck \/ TestAck => UNCHANGED position
  BY DEF UnknownAck, TestAck
<1>3. \A k, s : SetSlot(k, s) => UNCHANGED position
  BY DEF SetSlot
<1>4. OnAccepted(a) => UNCHANGED position
  BY <1>2, <1>3 DEF OnAccepted
<1>5. OnReplaced(a) => UNCHANGED position
  BY <1>2, <1>3 DEF OnReplaced
<1>6. OnCanceled(a) => UNCHANGED position
  BY <1>2, <1>3 DEF OnCanceled
<1>7. OnRejected(a) => UNCHANGED position
  BY <1>2, <1>3 DEF OnRejected
<1>8. OnCancelReject(a) => UNCHANGED position
  BY <1>2, <1>3 DEF OnCancelReject
<1>9. ASSUME a.type = "Executed", NEW k \in SlotByRef(a.ref),
             position' = [position EXCEPT ![k[1]] = @ + Signed(k[2], a.qty)]
      PROVE  /\ IsTable(position')
             /\ \A s \in Syms : position'[s] = position[s] \/ s \in Marked(a)
  <2>1. k[1] \in Marked(a)
    BY <1>9 DEF Marked, AckSym
  <2>2. IsTable(position')
    BY <1>9 DEF IsTable
  <2>3. \A s \in Syms : s # k[1] => position'[s] = position[s]
    BY <1>9 DEF IsTable
  <2>4. QED
    BY <2>1, <2>2, <2>3
<1>10. CASE a.type = "Executed" /\ OnExecuted(a)
  BY <1>1, <1>2, <1>9, <1>10 DEF OnExecuted
<1>11. QED
  BY <1>1, <1>4, <1>5, <1>6, <1>7, <1>8, <1>10 DEF OnAck

-----------------------------------------------------------------------------
(***************************************************************************)
(* The memory, step by step.                                               *)
(***************************************************************************)

\* A packet for one book: that symbol is quoted, and the loop over all symbols
\* follows only if warmQuotePath ran before, with nothing remembered.
LEMMA PacketKeepsMemory ==
  ASSUME MemoryInv, todo = {}, NEW sym \in Syms, NEW f, NEW m,
         NextPacket(FALSE),
         QuoteHot(sym, f, m, TradingAllowed(feedValid, marketOpen, trading'[sym])),
         m = NoMem \/ (m = mem[sym] /\ ~dirty[sym]),
         IsTable(fair'), IsTable(trading'), UNCHANGED <<feedValid, marketOpen>>
  PROVE  MemoryInv'
<1> DEFINE allowed == TradingAllowed(feedValid, marketOpen, trading'[sym])
<1>0. Tables
  BY DEF MemoryInv
<1>1. /\ dirty' = [dirty EXCEPT ![sym] = FALSE]
      /\ IsTable(mem') /\ \A s \in Syms \ {sym} : mem'[s] = mem[s]
      /\ mem'[sym] # NoMem =>
           /\ allowed
           /\ \/ mem'[sym].pos = position[sym]
              \/ mem'[sym] = m /\ m.fair = f /\ f # NoFair
      /\ UNCHANGED position
  BY <1>0, QuoteHotEffect
<1>2. Tables'
  BY <1>0, <1>1 DEF Tables, IsTable, NextPacket
<1>3. dirty'[sym] = FALSE /\ \A s \in Syms \ {sym} : dirty'[s] = dirty[s]
  BY <1>0, <1>1 DEF Tables
<1>4. ASSUME HoursOnly PROVE (MemoryIsOfHours /\ WarmForgot /\ LoopForgets)' /\ MemoryTracksPosition'
  <2>1. MemoryIsOfHours /\ WarmForgot /\ MemoryTracksPosition
    BY <1>4 DEF MemoryInv
  <2>2. mem'[sym] # NoMem => feedValid /\ marketOpen
    BY <1>1, <1>4, AllowedInHours
  <2>3. mem'[sym] # NoMem => mem'[sym].pos = position'[sym]
    <3>1. mem[sym] # NoMem /\ ~dirty[sym] => mem[sym].pos = position[sym]
      BY <1>4, <2>1 DEF MemoryTracksPosition
    <3>2. QED
      BY <1>1, <3>1, NoMemHasNoFair
  <2>4. MemoryTracksPosition'
    BY <1>1, <1>3, <2>1, <2>3 DEF MemoryTracksPosition
  <2>5. MemoryIsOfHours'
    BY <1>1, <2>1, <2>2 DEF MemoryIsOfHours
  <2>6. reconcileAll' = FALSE /\ todo' = IF reconcileAll THEN Syms ELSE {}
    BY DEF NextPacket
  <2>7. LoopForgets'
    <3> SUFFICES ASSUME NEW s \in todo', mem'[s] # NoMem, dirty'[s] PROVE FALSE
      BY DEF LoopForgets
    <3>1. s \in Syms /\ reconcileAll
      BY <2>6
    <3>2. s # sym
      BY <1>3
    <3>3. mem'[s] = NoMem
      BY <1>1, <2>1, <3>1, <3>2 DEF WarmForgot
    <3>4. QED
      BY <3>3
  <2>8. QED
    BY <2>4, <2>5, <2>6, <2>7 DEF WarmForgot
<1>5. ~HoursOnly => MemoryTracksPosition'
  BY DEF MemoryTracksPosition
<1>6. QED
  BY <1>2, <1>4, <1>5 DEF MemoryInv

\* A packet that quotes nothing itself and is followed by the loop or not.
LEMMA EventKeepsMemory ==
  ASSUME MemoryInv, todo = {}, NEW all \in BOOLEAN, NextPacket(all), IsTable(fair'), IsTable(trading'),
         UNCHANGED <<mem, dirty, position>>,
         HoursOnly /\ ~all => UNCHANGED <<feedValid, marketOpen>>,
         HoursOnly /\ all => \A s \in Syms :
           mem[s] = NoMem \/ fair'[s] = NoFair \/ ~ (feedValid' /\ marketOpen')
  PROVE  MemoryInv'
<1>1. Tables'
  BY DEF MemoryInv, Tables, IsTable, NextPacket
<1>2. reconcileAll' = FALSE /\ todo' = IF all \/ reconcileAll THEN Syms ELSE {}
  BY DEF NextPacket
<1>3. ASSUME HoursOnly PROVE (MemoryIsOfHours /\ WarmForgot /\ LoopForgets)' /\ MemoryTracksPosition'
  <2>1. MemoryIsOfHours /\ WarmForgot /\ MemoryTracksPosition
    BY <1>3 DEF MemoryInv
  <2>2. MemoryTracksPosition'
    BY <2>1 DEF MemoryTracksPosition
  <2>3. CASE ~all
    <3>1. MemoryIsOfHours'
      BY <1>3, <2>1, <2>3 DEF MemoryIsOfHours
    <3>2. \A s \in todo' : mem'[s] = NoMem
      BY <1>2, <2>1, <2>3 DEF WarmForgot
    <3>3. QED
      BY <1>2, <2>2, <3>1, <3>2 DEF WarmForgot, LoopForgets
  <2>4. CASE all
    <3>1. todo' = Syms
      BY <1>2, <2>4
    <3>2. MemoryIsOfHours'
      BY <3>1 DEF MemoryIsOfHours
    <3>3. ASSUME NEW s \in Syms, mem'[s] # NoMem PROVE fair'[s] = NoFair \/ ~Allowed(s)'
      <4>1. fair'[s] = NoFair \/ ~ (feedValid' /\ marketOpen')
        BY <1>3, <2>4, <3>3
      <4>2. Allowed(s)' => feedValid' /\ marketOpen'
        BY <1>3 DEF Allowed, TradingAllowed
      <4>3. QED
        BY <4>1, <4>2
    <3>4. LoopForgets'
      BY <3>1, <3>3 DEF LoopForgets
    <3>5. QED
      BY <1>2, <2>2, <3>2, <3>4 DEF WarmForgot
  <2>5. QED
    BY <2>3, <2>4
<1>4. ~HoursOnly => MemoryTracksPosition'
  BY DEF MemoryTracksPosition
<1>5. QED
  BY <1>1, <1>3, <1>4 DEF MemoryInv

\* One turn of the loop over all symbols.
LEMMA LoopKeepsMemory ==
  ASSUME MemoryInv, NEW sym \in Syms, QuoteNext(sym)
  PROVE  MemoryInv'
<1>0. /\ sym \in todo /\ todo' = todo \ {sym}
      /\ QuoteHot(sym, fair[sym], mem[sym], Allowed(sym))
      /\ UNCHANGED <<fair, trading, feedValid, marketOpen, reconcileAll, packets>>
  BY DEF QuoteNext, Allowed
<1>1. Tables
  BY DEF MemoryInv
<1>2. /\ dirty' = [dirty EXCEPT ![sym] = FALSE]
      /\ IsTable(mem') /\ \A s \in Syms \ {sym} : mem'[s] = mem[s]
      /\ mem'[sym] # NoMem =>
           /\ Allowed(sym)
           /\ \/ mem'[sym].pos = position[sym]
              \/ mem'[sym] = mem[sym] /\ mem[sym].fair = fair[sym] /\ fair[sym] # NoFair
      /\ UNCHANGED position
  BY <1>0, <1>1, QuoteHotEffect
<1>3. Tables'
  BY <1>0, <1>1, <1>2 DEF Tables, IsTable
<1>4. dirty'[sym] = FALSE /\ \A s \in Syms \ {sym} : dirty'[s] = dirty[s]
  BY <1>1, <1>2 DEF Tables
<1>5. ASSUME HoursOnly PROVE (MemoryIsOfHours /\ WarmForgot /\ LoopForgets)' /\ MemoryTracksPosition'
  <2>1. MemoryIsOfHours /\ WarmForgot /\ LoopForgets /\ MemoryTracksPosition
    BY <1>5 DEF MemoryInv
  <2>2. mem'[sym] # NoMem => feedValid /\ marketOpen
    BY <1>2, <1>5, AllowedInHours DEF Allowed
  <2>3. mem'[sym] # NoMem => mem'[sym].pos = position'[sym]
    <3> SUFFICES ASSUME mem'[sym] # NoMem, mem'[sym] = mem[sym], fair[sym] # NoFair
                 PROVE  mem[sym].pos = position[sym]
      BY <1>2
    <3>1. ~dirty[sym]
      BY <1>0, <1>2, <2>1 DEF LoopForgets
    <3>2. QED
      BY <1>5, <2>1, <3>1 DEF MemoryTracksPosition
  <2>4. MemoryTracksPosition'
    BY <1>2, <1>4, <2>1, <2>3 DEF MemoryTracksPosition
  <2>5. MemoryIsOfHours'
    <3> SUFFICES ASSUME NEW s \in Syms \ todo', mem'[s] # NoMem PROVE feedValid /\ marketOpen
      BY <1>0 DEF MemoryIsOfHours
    <3>1. CASE s = sym
      BY <2>2, <3>1
    <3>2. CASE s # sym
      <4>1. s \in Syms \ todo /\ mem[s] # NoMem
        BY <1>0, <1>2, <3>2
      <4>2. QED
        BY <2>1, <4>1 DEF MemoryIsOfHours
    <3>3. QED
      BY <3>1, <3>2
  <2>6. \A s \in todo' : s \in todo /\ mem'[s] = mem[s] /\ dirty'[s] = dirty[s]
    BY <1>0, <1>1, <1>2, <1>4 DEF Tables
  <2>7. LoopForgets'
    BY <1>0, <2>1, <2>6 DEF LoopForgets, Allowed
  <2>8. WarmForgot'
    BY <1>0, <2>1 DEF WarmForgot
  <2>9. QED
    BY <2>4, <2>5, <2>7, <2>8
<1>6. ~HoursOnly => MemoryTracksPosition'
  BY DEF MemoryTracksPosition
<1>7. QED
  BY <1>3, <1>5, <1>6 DEF MemoryInv

\* The answers mark what they move.
LEMMA AckKeepsMemory ==
  ASSUME MemoryInv, HandleAck
  PROVE  MemoryInv'
<1>0. /\ todo = {} /\ OnAck(Head(acks))
      /\ dirty' = [s \in Syms |-> dirty[s] \/ s \in Marked(Head(acks))]
      /\ UNCHANGED <<fair, trading, feedValid, marketOpen, mem, reconcileAll, todo, packets>>
  BY DEF HandleAck, ApplyAck
<1>1. Tables
  BY DEF MemoryInv
<1>2. /\ IsTable(position')
      /\ \A s \in Syms : position'[s] = position[s] \/ s \in Marked(Head(acks))
  BY <1>0, <1>1, AckMarks DEF Tables
<1>3. \A s \in Syms : dirty'[s] = (dirty[s] \/ s \in Marked(Head(acks)))
  BY <1>0
<1>4. \A s \in Syms : (dirty[s] \/ s \in Marked(Head(acks))) \in BOOLEAN
  BY <1>1 DEF Tables
<1>5. Tables'
  BY <1>0, <1>1, <1>2, <1>4 DEF Tables, IsTable
<1>6. MemoryTracksPosition'
  <2> SUFFICES ASSUME HoursOnly, NEW s \in Syms, mem'[s] # NoMem, ~dirty'[s]
               PROVE  mem'[s].pos = position'[s]
    BY DEF MemoryTracksPosition
  <2>1. ~dirty[s] /\ s \notin Marked(Head(acks))
    BY <1>3
  <2>2. mem[s].pos = position[s]
    BY <1>0, <2>1 DEF MemoryInv, MemoryTracksPosition
  <2>3. QED
    BY <1>0, <1>2, <2>1, <2>2
<1>7. HoursOnly => (MemoryIsOfHours /\ WarmForgot /\ LoopForgets)'
  BY <1>0 DEF MemoryInv, MemoryIsOfHours, WarmForgot, LoopForgets
<1>8. QED
  BY <1>5, <1>6, <1>7 DEF MemoryInv

\* warmQuotePath makes the strategies forget.
LEMMA WarmKeepsMemory ==
  ASSUME MemoryInv, WarmQuotePath
  PROVE  MemoryInv'
<1>1. /\ todo = {} /\ mem' = [s \in Syms |-> NoMem]
      /\ UNCHANGED <<fair, trading, dirty, todo, position>>
  BY DEF WarmQuotePath, NoRequest, vars, omsVars
<1>2. \A s \in Syms : mem'[s] = NoMem
  BY <1>1
<1>3. Tables'
  BY <1>1 DEF MemoryInv, Tables, IsTable
<1>4. QED
  BY <1>1, <1>2, <1>3 DEF MemoryInv, MemoryIsOfHours, WarmForgot, LoopForgets, MemoryTracksPosition

\* clearAll and the changes of one entry keep the tables tables.
LEMMA TablesStay ==
  /\ \A f, k, v : IsTable(f) => IsTable([f EXCEPT ![k] = v])
  /\ \A v : IsTable([s \in Syms |-> v])
BY DEF IsTable

\* Steps that leave the loop alone.
LEMMA IdleKeepsMemory ==
  ASSUME MemoryInv, UNCHANGED <<fair, trading, feedValid, marketOpen, mem, dirty, reconcileAll,
                                todo, position>>
  PROVE  MemoryInv'
BY DEF MemoryInv, Tables, IsTable, MemoryIsOfHours, WarmForgot, LoopForgets, Allowed,
       MemoryTracksPosition

\* Every step of the device and of the venue keeps the memory right.
LEMMA NextKeepsMemory == MemoryInv /\ [DutNext]_allVars => MemoryInv'
<1> SUFFICES ASSUME MemoryInv, [DutNext]_allVars PROVE MemoryInv'
  OBVIOUS
<1>0. Tables /\ IsTable(fair) /\ IsTable(trading)
  BY DEF MemoryInv, Tables
<1>1. ASSUME NEW sym \in Syms, NEW f, NEW moved \in BOOLEAN, BookPacket(sym, f, moved)
      PROVE  MemoryInv'
  <2> DEFINE m == IF dirty[sym] THEN NoMem ELSE mem[sym]
  <2>1. /\ todo = {} /\ NextPacket(FALSE) /\ fair' = [fair EXCEPT ![sym] = f]
        /\ UNCHANGED <<trading, feedValid, marketOpen>>
        /\ QuoteHot(sym, f, m, TradingAllowed(feedValid, marketOpen, trading'[sym]))
    BY <1>1 DEF BookPacket, Between
  <2>2. m = NoMem \/ (m = mem[sym] /\ ~dirty[sym])
    OBVIOUS
  <2>3. IsTable(fair') /\ IsTable(trading')
    BY <1>0, <2>1, TablesStay
  <2> HIDE DEF m
  <2>4. QED
    BY <2>1, <2>2, <2>3, PacketKeepsMemory
<1>2. ASSUME NEW sym \in Syms, NEW state \in BOOLEAN, TradingActionPacket(sym, state)
      PROVE  MemoryInv'
  <2>1. /\ todo = {} /\ NextPacket(FALSE) /\ trading' = [trading EXCEPT ![sym] = state]
        /\ UNCHANGED <<fair, feedValid, marketOpen>>
    BY <1>2 DEF TradingActionPacket, Between
  <2>2. IsTable(fair') /\ IsTable(trading') /\ trading'[sym] = state
    <3>1. trading'[sym] = state
      BY <1>0, <2>1 DEF IsTable
    <3>2. QED
      BY <1>0, <2>1, <3>1, TablesStay
  <2>3. CASE dirty[sym]
    <3>1. QuoteHot(sym, fair[sym], NoMem, TradingAllowed(feedValid, marketOpen, trading'[sym]))
      BY <1>2, <2>2, <2>3 DEF TradingActionPacket
    <3>2. QED
      BY <2>1, <2>2, <3>1, PacketKeepsMemory
  <2>4. CASE ~dirty[sym]
    <3>1. UNCHANGED <<mem, dirty, position>>
      BY <1>2, <2>4 DEF TradingActionPacket, NoRequest, vars, omsVars
    <3>2. QED
      BY <2>1, <2>2, <3>1, EventKeepsMemory
  <2>5. QED
    BY <2>3, <2>4
<1>3. CASE OtherPacket
  <2>1. /\ todo = {} /\ NextPacket(FALSE)
        /\ UNCHANGED <<fair, trading, feedValid, marketOpen, mem, dirty, position>>
    BY <1>3 DEF OtherPacket, Between, NoRequest, vars, omsVars
  <2>2. IsTable(fair') /\ IsTable(trading')
    BY <1>0, <2>1
  <2>3. QED
    BY <2>1, <2>2, EventKeepsMemory
<1>4. ASSUME ClearAll PROVE IsTable(fair') /\ IsTable(trading') /\ \A s \in Syms : fair'[s] = NoFair
  BY <1>4, TablesStay DEF ClearAll
<1>5. QuotesFollow => UNCHANGED <<mem, dirty, position>>
  BY DEF QuotesFollow, NoRequest, vars, omsVars
<1>6. CASE GapPacket
  BY <1>4, <1>5, <1>6, EventKeepsMemory DEF GapPacket, Between
<1>7. CASE StartOfMessages
  BY <1>4, <1>5, <1>7, EventKeepsMemory DEF StartOfMessages, Between
<1>8. CASE StartOfMarketHours
  <2>1. /\ todo = {} /\ NextPacket(TRUE) /\ (~marketOpen \/ ~feedValid)
        /\ UNCHANGED <<fair, trading, feedValid, mem, dirty, position>>
    BY <1>5, <1>8 DEF StartOfMarketHours, Between
  <2>2. HoursOnly => \A s \in Syms : mem[s] = NoMem
    BY <2>1 DEF MemoryInv, MemoryIsOfHours
  <2>3. IsTable(fair') /\ IsTable(trading')
    BY <1>0, <2>1
  <2>4. QED
    BY <2>1, <2>2, <2>3, EventKeepsMemory
<1>9. CASE EndOfMarketHours
  <2>1. /\ todo = {} /\ NextPacket(TRUE) /\ ~marketOpen'
        /\ UNCHANGED <<fair, trading, feedValid, mem, dirty, position>>
    BY <1>5, <1>9 DEF EndOfMarketHours, Between
  <2>2. IsTable(fair') /\ IsTable(trading')
    BY <1>0, <2>1
  <2>3. QED
    BY <2>1, <2>2, EventKeepsMemory
<1>10. ASSUME NEW sym \in Syms, QuoteNext(sym) PROVE MemoryInv'
  BY <1>10, LoopKeepsMemory
<1>11. CASE WarmQuotePath
  BY <1>11, WarmKeepsMemory
<1>12. CASE HandleAck
  BY <1>12, AckKeepsMemory
<1>13. CASE VenueStep
  <2>1. UNCHANGED omsVars /\ UNCHANGED dutVars
    BY <1>13 DEF VenueStep, PollOrderEntry, Mirror
  <2>2. QED
    BY <2>1, IdleKeepsMemory DEF omsVars, dutVars
<1>14. CASE UNCHANGED allVars
  BY <1>14, IdleKeepsMemory DEF allVars, vars, omsVars, dutVars
<1>15. QED
  BY <1>1, <1>2, <1>3, <1>6, <1>7, <1>8, <1>9, <1>10, <1>11, <1>12, <1>13, <1>14 DEF DutNext

\* Nothing is remembered at the start.
LEMMA InitMemory == DutInit => MemoryInv
<1> SUFFICES ASSUME DutInit PROVE MemoryInv
  OBVIOUS
<1>1. /\ mem = [s \in Syms |-> NoMem] /\ fair = [s \in Syms |-> NoFair]
      /\ trading = [s \in Syms |-> TRUE] /\ position = [s \in Syms |-> 0]
      /\ dirty = [s \in Syms |-> FALSE] /\ todo = {} /\ reconcileAll = FALSE
  BY DEF DutInit, Init, OmsInit
<1>2. Tables
  BY <1>1, TablesStay DEF Tables
<1>3. \A s \in Syms : mem[s] = NoMem
  BY <1>1
<1>4. QED
  BY <1>1, <1>2, <1>3 DEF MemoryInv, MemoryIsOfHours, WarmForgot, LoopForgets, MemoryTracksPosition

\* A fill always reaches the strategy: with marketHoursOnly, a quote that is not
\* asked for again because the fair value stays inside (m_fairLo, m_fairHi) was
\* computed with the position of now.
THEOREM MemoryIsCurrent == DutSpec => []MemoryTracksPosition
<1>1. MemoryInv => MemoryTracksPosition
  BY DEF MemoryInv
<1>2. QED
  BY <1>1, InitMemory, NextKeepsMemory, PTL DEF DutSpec

-----------------------------------------------------------------------------
(***************************************************************************)
(* The requests.                                                           *)
(***************************************************************************)

OeIsSeq == \E S : oe \in Seq(S)

\* What is sent is put behind what is under way.
LEMMA SentEffect ==
  ASSUME OeIsSeq, NEW msgs, Sent(msgs)
  PROVE  /\ OeIsSeq'
         /\ \A i \in (Len(oe) + 1) .. Len(oe') : \E j \in DOMAIN msgs : oe'[i] = msgs[j]
<1>1. PICK kept \in SUBSET DOMAIN msgs :
        oe' = oe \o (IF 1 \in kept THEN <<msgs[1]>> ELSE << >>)
                 \o (IF 2 \in kept THEN <<msgs[2]>> ELSE << >>)
  BY DEF Sent
<1>2. PICK S : oe \in Seq(S)
  BY DEF OeIsSeq
<1> DEFINE T == S \cup {msgs[1], msgs[2]}
           a == IF 1 \in kept THEN <<msgs[1]>> ELSE << >>
           b == IF 2 \in kept THEN <<msgs[2]>> ELSE << >>
<1>3. oe \in Seq(T) /\ a \in Seq(T) /\ b \in Seq(T)
  <2>1. msgs[1] \in T /\ msgs[2] \in T /\ S \subseteq T
    OBVIOUS
  <2> HIDE DEF T
  <2>2. \A e \in T : <<e>> \in Seq(T)
    OBVIOUS
  <2>3. << >> \in Seq(T)
    OBVIOUS
  <2>4. a \in Seq(T) /\ b \in Seq(T)
    BY <2>1, <2>2, <2>3
  <2>5. oe \in Seq(T)
    <3>1. Len(oe) \in Nat /\ oe \in [1 .. Len(oe) -> S]
      BY <1>2
    <3>2. oe \in [1 .. Len(oe) -> T]
      BY <2>1, <3>1
    <3>3. QED
      BY <3>1, <3>2, SeqDef
  <2>6. QED
    BY <2>4, <2>5
<1>4. /\ Len(a) \in 0 .. 1 /\ \A i \in 1 .. Len(a) : a[i] = msgs[1] /\ 1 \in kept
      /\ Len(b) \in 0 .. 1 /\ \A i \in 1 .. Len(b) : b[i] = msgs[2] /\ 2 \in kept
  OBVIOUS
<1>5. oe' = (oe \o a) \o b
  BY <1>1
<1> HIDE DEF T, a, b
<1>6. /\ oe \o a \in Seq(T) /\ Len(oe \o a) = Len(oe) + Len(a)
      /\ \A i \in 1 .. Len(oe) + Len(a) :
           (oe \o a)[i] = IF i <= Len(oe) THEN oe[i] ELSE a[i - Len(oe)]
  BY <1>3, ConcatProperties
<1>7. /\ oe' \in Seq(T) /\ Len(oe') = Len(oe) + Len(a) + Len(b)
      /\ \A i \in 1 .. Len(oe') :
           oe'[i] = IF i <= Len(oe) + Len(a) THEN (oe \o a)[i] ELSE b[i - (Len(oe) + Len(a))]
  BY <1>3, <1>5, <1>6, ConcatProperties
<1>8. Len(oe) \in Nat /\ Len(a) \in Nat /\ Len(b) \in Nat
  BY <1>3, LenProperties
<1>9. ASSUME NEW i \in (Len(oe) + 1) .. Len(oe') PROVE \E j \in DOMAIN msgs : oe'[i] = msgs[j]
  <2>1. i \in Nat /\ i \in 1 .. Len(oe') /\ i > Len(oe) /\ i <= Len(oe) + Len(a) + Len(b)
    BY <1>7, <1>8
  <2>2. CASE i <= Len(oe) + Len(a)
    <3>1. i - Len(oe) \in 1 .. Len(a) /\ oe'[i] = a[i - Len(oe)]
      BY <1>6, <1>7, <1>8, <2>1, <2>2
    <3>2. QED
      BY <1>4, <3>1
  <2>3. CASE ~ (i <= Len(oe) + Len(a))
    <3>1. i - (Len(oe) + Len(a)) \in 1 .. Len(b) /\ oe'[i] = b[i - (Len(oe) + Len(a))]
      BY <1>7, <1>8, <2>1, <2>3
    <3>2. QED
      BY <1>4, <3>1
  <2>4. QED
    BY <2>2, <2>3
<1>10. QED
  BY <1>7, <1>9 DEF OeIsSeq

\* reconcile without a target only cancels.
LEMMA PullingCancels ==
  ASSUME NEW sym
  PROVE  \A j \in DOMAIN Requests(sym, NoTarget) : Requests(sym, NoTarget)[j].type = "CancelOrder"
<1> DEFINE d == SideOrder(sym, NoTarget)
           r(side) == RequestOf(<<sym, side>>, slots[<<sym, side>>], NoTarget[side],
                                RefTaken(sym, NoTarget, side))
           C(side) == CancelOrder(slots[<<sym, side>>].userRef)
<1>1. d[1] \in Sides /\ d[2] \in Sides
  BY DEF SideOrder, Sides
<1>2. \A side \in Sides : NoTarget[side] = NoQuote
  BY DEF NoTarget, Sides
<1>3. \A side \in Sides : r(side) = <<C(side)>> \/ r(side) = << >>
  BY <1>2 DEF RequestOf, Decision
<1>4. \A side \in Sides : C(side).type = "CancelOrder"
  BY DEF CancelOrder
<1>5. Requests(sym, NoTarget) = r(d[1]) \o r(d[2])
  BY DEF Requests
<1> DEFINE x == r(d[1])
           y == r(d[2])
           P == {C(d[1]), C(d[2])}
<1>6. x \in Seq(P) /\ y \in Seq(P)
  <2>1. C(d[1]) \in P /\ C(d[2]) \in P
    OBVIOUS
  <2>2. /\ x = <<C(d[1])>> \/ x = << >>
        /\ y = <<C(d[2])>> \/ y = << >>
    BY <1>1, <1>3
  <2> HIDE DEF P, x, y
  <2>3. << >> \in Seq(P) /\ \A e \in P : <<e>> \in Seq(P)
    OBVIOUS
  <2>4. QED
    BY <2>1, <2>2, <2>3
<1>7. \A c \in P : c.type = "CancelOrder"
  BY <1>1, <1>4
<1> HIDE DEF x, y, P, C
<1>8. x \o y \in Seq(P)
  BY <1>6, ConcatProperties
<1>9. \A j \in DOMAIN (x \o y) : (x \o y)[j] \in P
  BY <1>8
<1>10. QED
  BY <1>5, <1>7, <1>9 DEF x, y

\* What a step adds to the requests under way.
Added(Ok) == \A i \in (Len(oe) + 1) .. Len(oe') : oe'[i].type = "CancelOrder" \/ Ok

\* One call of quote adds only cancels unless trading is allowed.
LEMMA QuoteHotAdds ==
  ASSUME OeIsSeq, NEW sym, NEW f, NEW m, NEW allowed \in BOOLEAN, QuoteHot(sym, f, m, allowed)
  PROVE  OeIsSeq' /\ Added(allowed)
<1>0. ASSUME UNCHANGED oe PROVE OeIsSeq' /\ Added(allowed)
  <2>1. Len(oe) \in Nat
    BY LenProperties DEF OeIsSeq
  <2>2. QED
    BY <1>0, <2>1 DEF OeIsSeq, Added
<1>1. CASE NoRequest
  BY <1>0, <1>1 DEF NoRequest, vars, entryVars
<1>2. CASE allowed /\ Quote(sym, Target(f, position[sym]))
  <2>1. OeIsSeq'
    BY <1>2, SentEffect DEF Quote
  <2>2. QED
    BY <1>2, <2>1 DEF Added
<1>3. CASE Quote(sym, NoTarget)
  <2>1. /\ OeIsSeq'
        /\ \A i \in (Len(oe) + 1) .. Len(oe') :
             \E j \in DOMAIN Requests(sym, NoTarget) : oe'[i] = Requests(sym, NoTarget)[j]
    BY <1>3, SentEffect DEF Quote
  <2>2. QED
    BY <2>1, PullingCancels DEF Added
<1>4. QED
  BY <1>1, <1>2, <1>3 DEF QuoteHot

\* The action that OnlyCancelsWhenStopped is about.
OnlyCancels == Added(feedValid' /\ (HoursOnly => marketOpen'))

\* Trading is allowed only on a valid feed and, with marketHoursOnly, in hours.
LEMMA AllowedMeans ==
  ASSUME NEW valid \in BOOLEAN, NEW open \in BOOLEAN, NEW tradable \in BOOLEAN
  PROVE  /\ TradingAllowed(valid, open, tradable) \in BOOLEAN
         /\ TradingAllowed(valid, open, tradable) => valid /\ (HoursOnly => open)
BY HoursOnlyAssumption DEF TradingAllowed

Flags == feedValid \in BOOLEAN /\ marketOpen \in BOOLEAN /\ trading \in [Syms -> BOOLEAN]

\* Every step adds only cancels, or is one of a device that may trade.
LEMMA NextAdds ==
  ASSUME OeIsSeq, Flags, [DutNext]_allVars
  PROVE  OeIsSeq' /\ Flags' /\ OnlyCancels
<1>0. ASSUME UNCHANGED oe PROVE OeIsSeq' /\ OnlyCancels
  <2>1. Len(oe) \in Nat
    BY LenProperties DEF OeIsSeq
  <2>2. QED
    BY <1>0, <2>1 DEF OeIsSeq, OnlyCancels, Added
<1>1. NoRequest => UNCHANGED oe
  BY DEF NoRequest, vars, entryVars
<1>2. ASSUME NEW sym, NEW f, NEW m, NEW tradable \in BOOLEAN,
             QuoteHot(sym, f, m, TradingAllowed(feedValid, marketOpen, tradable)),
             UNCHANGED <<feedValid, marketOpen>>
      PROVE  OeIsSeq' /\ OnlyCancels
  <2> DEFINE allowed == TradingAllowed(feedValid, marketOpen, tradable)
  <2>1. allowed \in BOOLEAN /\ (allowed => feedValid /\ (HoursOnly => marketOpen))
    BY AllowedMeans DEF Flags
  <2> HIDE DEF allowed
  <2>2. OeIsSeq' /\ Added(allowed)
    BY <1>2, <2>1, QuoteHotAdds DEF allowed
  <2>3. QED
    BY <1>2, <2>1, <2>2 DEF OnlyCancels, Added
<1>3. ASSUME NEW sym \in Syms, NEW f, NEW moved \in BOOLEAN, BookPacket(sym, f, moved)
      PROVE  OeIsSeq' /\ Flags' /\ OnlyCancels
  <2>1. trading[sym] \in BOOLEAN /\ UNCHANGED <<trading, feedValid, marketOpen>>
    BY <1>3 DEF Flags, BookPacket
  <2>2. QuoteHot(sym, f, IF dirty[sym] THEN NoMem ELSE mem[sym],
                 TradingAllowed(feedValid, marketOpen, trading[sym]))
    BY <1>3 DEF BookPacket
  <2>3. QED
    BY <1>2, <2>1, <2>2 DEF Flags
<1>4. ASSUME NEW sym \in Syms, NEW state \in BOOLEAN, TradingActionPacket(sym, state)
      PROVE  OeIsSeq' /\ Flags' /\ OnlyCancels
  <2>1. Flags' /\ UNCHANGED <<feedValid, marketOpen>>
    BY <1>4 DEF TradingActionPacket, Flags
  <2>2. \/ QuoteHot(sym, fair[sym], NoMem, TradingAllowed(feedValid, marketOpen, state))
        \/ NoRequest
    BY <1>4 DEF TradingActionPacket
  <2>3. QED
    BY <1>0, <1>1, <1>2, <2>1, <2>2
<1>5. CASE OtherPacket
  BY <1>0, <1>1, <1>5 DEF OtherPacket, Flags
<1>6. CASE GapPacket \/ StartOfMessages
  <2>1. UNCHANGED oe
    BY <1>1, <1>6 DEF GapPacket, StartOfMessages, QuotesFollow
  <2>2. Flags'
    BY <1>6 DEF GapPacket, StartOfMessages, ClearAll, Flags
  <2>3. QED
    BY <1>0, <2>1, <2>2
<1>7. CASE StartOfMarketHours \/ EndOfMarketHours
  <2>1. UNCHANGED oe
    BY <1>1, <1>7 DEF StartOfMarketHours, EndOfMarketHours, QuotesFollow
  <2>2. Flags'
    BY <1>7 DEF StartOfMarketHours, EndOfMarketHours, Flags
  <2>3. QED
    BY <1>0, <2>1, <2>2
<1>8. ASSUME NEW sym \in Syms, QuoteNext(sym) PROVE OeIsSeq' /\ Flags' /\ OnlyCancels
  <2>1. trading[sym] \in BOOLEAN /\ UNCHANGED <<trading, feedValid, marketOpen>>
    BY <1>8 DEF Flags, QuoteNext
  <2>2. QuoteHot(sym, fair[sym], mem[sym], TradingAllowed(feedValid, marketOpen, trading[sym]))
    BY <1>8 DEF QuoteNext
  <2>3. QED
    BY <1>2, <2>1, <2>2 DEF Flags
<1>9. CASE WarmQuotePath
  BY <1>0, <1>1, <1>9 DEF WarmQuotePath, Flags
<1>10. CASE HandleAck
  BY <1>0, <1>10 DEF HandleAck, ApplyAck, entryVars, Flags
<1>11. CASE VenueStep
  <2>1. Flags'
    BY <1>11 DEF VenueStep, dutVars, Flags
  <2>2. CASE Mirror
    BY <1>0, <2>1, <2>2 DEF Mirror
  <2>3. CASE PollOrderEntry
    <3>1. oe # << >> /\ oe' = Tail(oe)
      BY <2>3 DEF PollOrderEntry
    <3>2. PICK S : oe \in Seq(S)
      BY DEF OeIsSeq
    <3>3. oe' \in Seq(S) /\ Len(oe') = Len(oe) - 1 /\ Len(oe) \in Nat
      BY <3>1, <3>2, HeadTailProperties, LenProperties
    <3>4. QED
      BY <2>1, <3>3 DEF OeIsSeq, OnlyCancels, Added
  <2>4. QED
    BY <1>11, <2>2, <2>3 DEF VenueStep
<1>12. CASE UNCHANGED allVars
  BY <1>0, <1>12 DEF allVars, vars, entryVars, dutVars, Flags
<1>13. QED
  BY <1>3, <1>4, <1>5, <1>6, <1>7, <1>8, <1>9, <1>10, <1>11, <1>12 DEF DutNext

\* tradingAllowed guards every order and every replacement: on an invalid feed,
\* and with marketHoursOnly outside market hours, applyPacket sends only cancels.
THEOREM StoppedOnlyCancels == DutSpec => OnlyCancelsWhenStopped
<1>1. DutInit => OeIsSeq /\ Flags
  <2> SUFFICES ASSUME DutInit PROVE OeIsSeq /\ Flags
    OBVIOUS
  <2>1. oe = << >> /\ feedValid = TRUE /\ marketOpen = FALSE /\ trading = [s \in Syms |-> TRUE]
    BY DEF DutInit, Init
  <2>2. oe \in Seq({})
    BY <2>1
  <2>3. QED
    BY <2>1, <2>2 DEF OeIsSeq, Flags
<1>2. (OeIsSeq /\ Flags) /\ [DutNext]_allVars => (OeIsSeq /\ Flags)'
  BY NextAdds
<1>3. (OeIsSeq /\ Flags) /\ [DutNext]_allVars =>
        [\A i \in (Len(oe) + 1) .. Len(oe') :
           oe'[i].type = "CancelOrder" \/ (feedValid' /\ (HoursOnly => marketOpen'))]_allVars
  BY NextAdds DEF OnlyCancels, Added
<1>4. QED
  BY <1>1, <1>2, <1>3, PTL DEF DutSpec, OnlyCancelsWhenStopped

-----------------------------------------------------------------------------
(***************************************************************************)
(* The order-entry session.                                                *)
(***************************************************************************)

\* The strategy's quote is two prices of the session that do not cross.  Only
\* clampToBand can break it, when both prices fall on one edge of the band.
NotLocked ==
  \A s \in Syms : fair[s] # NoFair => Target(fair[s], position[s]) \in Targets

\* A quote that touches no edge of the band, for which onBook keeps an interval,
\* is not locked.
LEMMA PlainIsNotLocked ==
  ASSUME NEW f \in Int, NEW pos \in Int, BandLow \in Int, BandHigh \in Int, HalfSpread \in Int,
         SkewTicks \in Int, BandLow .. BandHigh \subseteq Prices, Plain(RawTarget(f, pos))
  PROVE  Target(f, pos) \in Targets
<1> DEFINE buy == RawTarget(f, pos)["Buy"]
           sell == RawTarget(f, pos)["Sell"]
<1>1. pos * SkewTicks \in Int
  OBVIOUS
<1>2. buy \in Int /\ sell \in Int
  BY <1>1 DEF RawTarget, Max2
<1>3. buy > BandLow /\ buy < sell /\ sell <= BandHigh
  BY DEF Plain
<1>4. Target(f, pos) = [Buy |-> buy, Sell |-> sell]
  <2> HIDE DEF buy, sell
  <2>1. Clamp(buy) = buy /\ Clamp(sell) = sell /\ ~ (buy >= sell)
    BY <1>2, <1>3 DEF Clamp
  <2>2. QED
    BY <2>1 DEF Target, buy, sell
<1> HIDE DEF buy, sell
<1>5. buy \in Prices /\ sell \in Prices
  BY <1>2, <1>3
<1>6. QED
  BY <1>3, <1>4, <1>5 DEF Targets, Sides

\* One call of quote is a quote of the session, or no step of it.
LEMMA QuoteHotImplements ==
  ASSUME NEW sym \in Syms, NEW f, NEW m, NEW allowed, QuoteHot(sym, f, m, allowed),
         f # NoFair => Target(f, position[sym]) \in Targets
  PROVE  [Next]_vars
<1>1. NoTarget \in Targets
  BY DEF NoTarget, Targets
<1>2. \A t \in Targets : Quote(sym, t) => Next
  BY DEF Next
<1>3. QED
  BY <1>1, <1>2 DEF QuoteHot, NoRequest

\* A step of the quoting loop is one of the session or none.
LEMMA DutStepImplements ==
  ASSUME Tables, NotLocked, NotLocked', [DutNext]_allVars
  PROVE  [Next]_vars
<1>1. NoRequest => [Next]_vars
  BY DEF NoRequest
<1>2. ASSUME NEW sym \in Syms, NEW f, NEW moved \in BOOLEAN, BookPacket(sym, f, moved)
      PROVE  [Next]_vars
  <2>1. /\ fair' = [fair EXCEPT ![sym] = f]
        /\ QuoteHot(sym, f, IF dirty[sym] THEN NoMem ELSE mem[sym],
                    TradingAllowed(feedValid, marketOpen, trading[sym]))
    BY <1>2 DEF BookPacket
  <2>2. fair'[sym] = f
    BY <2>1 DEF Tables, IsTable
  <2>3. UNCHANGED position
    BY <2>1, QuoteHotEffect
  <2>4. f # NoFair => Target(f, position[sym]) \in Targets
    BY <2>2, <2>3 DEF NotLocked
  <2>5. QED
    BY <2>1, <2>4, QuoteHotImplements
<1>3. ASSUME NEW sym \in Syms, NEW state \in BOOLEAN, TradingActionPacket(sym, state)
      PROVE  [Next]_vars
  <2>1. \/ QuoteHot(sym, fair[sym], NoMem, TradingAllowed(feedValid, marketOpen, state))
        \/ NoRequest
    BY <1>3 DEF TradingActionPacket
  <2>2. QED
    BY <1>1, <2>1, QuoteHotImplements DEF NotLocked
<1>4. ASSUME NEW sym \in Syms, QuoteNext(sym) PROVE [Next]_vars
  BY <1>4, QuoteHotImplements DEF QuoteNext, NotLocked
<1>5. GapPacket \/ StartOfMessages \/ StartOfMarketHours \/ EndOfMarketHours \/ OtherPacket
        \/ WarmQuotePath => NoRequest
  BY DEF GapPacket, StartOfMessages, StartOfMarketHours, EndOfMarketHours, OtherPacket,
         WarmQuotePath, QuotesFollow
<1>6. HandleAck \/ VenueStep => Next
  BY DEF HandleAck, VenueStep, Next
<1>7. UNCHANGED allVars => UNCHANGED vars
  BY DEF allVars
<1>8. QED
  BY <1>1, <1>2, <1>3, <1>4, <1>5, <1>6, <1>7 DEF DutNext

\* The quoting loop implements the order-entry session for as long as the clamp
\* does not lock its quotes: everything else applyPacket, applyAck and
\* warmQuotePath do is a step of the session or invisible to it.
THEOREM LoopImplementsSession == DutSpec /\ []NotLocked => ImplementsOrderEntry
<1>1. DutInit => Init
  BY DEF DutInit
<1>2. MemoryInv /\ NotLocked /\ NotLocked' /\ [DutNext]_allVars => [Next]_vars
  BY DutStepImplements DEF MemoryInv
<1>3. QED
  BY <1>1, <1>2, InitMemory, NextKeepsMemory, PTL DEF DutSpec, ImplementsOrderEntry, Spec

\* What the session guarantees for every strategy therefore holds of the device
\* with this one: no order is lost from sight or doubled, requests find their
\* venue, the position is the venue's, requests and slots stay paired, and the
\* two quotes only meet after a disorder.
THEOREM LoopKeepsSession ==
  DutSpec /\ []NotLocked =>
    [](/\ NoOrphans /\ OneOrderPerSide /\ RoutesFindOrders
       /\ PositionExact /\ QuietAgreement /\ OneRequestOutstanding
       /\ SelfTradeNeedsDisorder)
<1>1. QED
  BY LoopImplementsSession, OrdersHaveSlots, OneClientOrderPerSide, OrdersAreRouted, PositionIsExact,
     SessionAgreesWhenQuiet, OneRequestAtATime, SelfTradesMeanDisorder, PTL DEF ImplementsOrderEntry
=============================================================================
