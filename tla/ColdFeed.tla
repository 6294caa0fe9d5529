------------------------------ MODULE ColdFeed ------------------------------
(***************************************************************************)
(* The receiving side of the device with a cold shard: the feed of         *)
(* MoldFeed arrives in the receive ring of ColdShard; the hot thread       *)
(* applies each frame to the hot-only BookTable and hands it on, and the   *)
(* cold thread applies it to the cold-only one.                            *)
(***************************************************************************)
EXTENDS MoldFeed, ColdShard, BookTable

CONSTANTS
  Tapes,      \* the recorded days to choose from: types and locates of messages
  MaxFrames   \* bound: frames received

ASSUME TapesAssumption ==
  \A t \in Tapes : /\ Len(t) = MaxSeq
                   /\ \A s \in 1 .. MaxSeq :
                        \/ t[s].type = "S"
                        \/ t[s] \in [type : {"R", "A", "H"}, locate : Locates]

VARIABLES
  content,  \* the tape being replayed
  frames,   \* the packet in each frame received
  hotT,     \* DutSession::m_books
  coldT,    \* ColdShard::m_books
  torn,     \* history: the cold thread read a buffer that was overwritten
  lost,     \* history: messages of frames dropped by push or found stale
  gapAt,    \* history: the first message behind the last gap
  dirAt     \* history: the message that resolved each hot stock, 0 if the configuration

tableVars == <<hotT, coldT, torn, lost, gapAt, dirAt>>
runVars == <<vars, coldVars, content, frames, tableVars>>

Unresolved == MaxSeq + 1

\* The messages of a packet, in order.
InOrder(p) == [i \in 1 .. p.count |-> p.seq + i - 1]

-----------------------------------------------------------------------------
(***************************************************************************)
(* The publisher.  UDP may hold a packet back as long as it likes, so the  *)
(* device sees nothing new when messages are published while it is already *)
(* receiving: the model publishes first.                                   *)
(***************************************************************************)
Publish ==
  /\ arrived = 0
  /\ AppendMarketData(nextSeq <= MaxSeq /\ content[nextSeq].type = "S")
  /\ UNCHANGED <<coldVars, content, frames, tableVars>>

Flush ==
  /\ arrived = 0
  /\ FlushMarketData
  /\ UNCHANGED <<coldVars, content, frames, tableVars>>

\* UDP delivers a packet into the next buffer of the ring.
Arrive(p) ==
  /\ Receive
  /\ arrived < MaxFrames
  /\ frames' = Append(frames, p)
  /\ UNCHANGED <<vars, content, tableVars>>

-----------------------------------------------------------------------------
(***************************************************************************)
(* The hot thread, on frame handled + 1.                                   *)
(***************************************************************************)
Here == frames[handled + 1]

(***************************************************************************)
(* applyMessage and onSystemEvent on message s.  x holds the table,        *)
(* m_feedValid and the history of the messages that resolved hot stocks.   *)
(***************************************************************************)
ApplyMessage(x, s) ==
  LET k == content[s]
      t == TableApply(x.table, k.type, k.locate, s)
  IN IF k.type = "S" THEN [x EXCEPT !.table = ClearAll(@), !.valid = TRUE]
     ELSE IF ~x.valid \/ (k.type # "R" /\ ~IsHot(x.table, k.locate)) THEN x
     ELSE [x EXCEPT !.table = t,
                    !.dirAt = [l \in HotStocks |->
                                 IF l \in t.resolved \ x.table.resolved THEN s ELSE @[l]]]

\* The loop of applyPacket over the messages of a packet.
ApplyAll(x, msgs) ==
  LET after[i \in 0 .. Len(msgs)] ==
        IF i = 0 THEN x ELSE ApplyMessage(after[i - 1], msgs[i])
  IN after[Len(msgs)]

\* The state the first message of the packet meets.
AfterGap(gap) ==
  [table |-> IF gap THEN ClearAll(hotT) ELSE hotT,
   valid |-> ~gap /\ feedValid, dirAt |-> dirAt]

HandleStale ==
  /\ handled < arrived
  /\ Result(Here) = "Stale"
  /\ PassOver
  /\ UNCHANGED <<vars, content, frames, tableVars>>

\* invalidateFeed: the marker goes into the queue before the packet does.
HandleGap ==
  /\ handled < arrived
  /\ Result(Here) = "Gap"
  /\ ResetCold
  /\ UNCHANGED <<vars, content, frames, tableVars>>

\* applyPacket: the messages, then the push, which happens whether or not the
\* feed is valid.
HandlePacket ==
  LET gap == Result(Here) = "Gap"
      after == ApplyAll(AfterGap(gap), InOrder(Here))
  IN /\ handled < arrived
     /\ gap => resetDone
     /\ ApplyPacket(Here)
     /\ Push
     /\ hotT' = after.table
     /\ dirAt' = after.dirAt
     /\ lost' = IF skipped' = skipped THEN lost ELSE lost \cup Messages(Here)
     /\ gapAt' = IF gap THEN Here.seq ELSE gapAt
     /\ UNCHANGED <<content, frames, coldT, torn>>

Stop ==
  /\ StopCold
  /\ UNCHANGED <<vars, content, frames, tableVars>>

-----------------------------------------------------------------------------
(***************************************************************************)
(* The cold thread.                                                        *)
(***************************************************************************)

\* applyOne.
ApplyOne(t, s) ==
  LET k == content[s]
  IN IF k.type = "S" THEN ClearAll(t) ELSE TableApply(t, k.type, k.locate, s)

\* The loop of applyFrame.
ApplyFrame(t, msgs) ==
  LET after[i \in 0 .. Len(msgs)] ==
        IF i = 0 THEN t ELSE ApplyOne(after[i - 1], msgs[i])
  IN after[Len(msgs)]

ColdReset ==
  /\ ConsumeReset
  /\ coldT' = ClearAll(coldT)
  /\ UNCHANGED <<vars, content, frames, hotT, torn, lost, gapAt, dirAt>>

ColdStale ==
  /\ ConsumeStale
  /\ lost' = lost \cup Messages(frames[Head(coldQ).frame])
  /\ UNCHANGED <<vars, content, frames, hotT, coldT, torn, gapAt, dirAt>>

ColdBegin ==
  /\ BeginFrame
  /\ UNCHANGED <<vars, content, frames, tableVars>>

\* The newest frame in the buffer of frame k.
InBuffer(k) == frames[k + RingDepth * ((arrived - k) \div RingDepth)]

\* applyFrame.  A buffer overwritten meanwhile may have been read before, after
\* or while it was: the messages up to some point are those of the old frame.
ColdEnd(cut) ==
  LET k == Head(coldQ).frame
      old == InOrder(frames[k])
      now == InOrder(InBuffer(k))
  IN /\ EndFrame
     /\ cut <= Len(old)
     /\ Recycled(k) \/ cut = 0
     /\ coldT' = ApplyFrame(coldT, SubSeq(old, 1, cut) \o SubSeq(now, cut + 1, Len(now)))
     /\ torn' = (torn \/ Recycled(k))
     /\ UNCHANGED <<vars, content, frames, hotT, lost, gapAt, dirAt>>

ColdJoined ==
  /\ ColdEnds
  /\ UNCHANGED <<vars, content, frames, tableVars>>

RunInit ==
  /\ Init /\ ColdInit
  /\ content \in Tapes /\ frames = <<>>
  /\ \E preset \in SUBSET HotStocks :
       /\ hotT = NewTable("HotOnly", preset) /\ coldT = NewTable("ColdOnly", preset)
       /\ dirAt = [l \in HotStocks |-> IF l \in preset THEN 0 ELSE Unresolved]
  /\ torn = FALSE /\ lost = {} /\ gapAt = 0

RunNext ==
  \/ Publish
  \/ Flush
  \/ \E p \in sent : Arrive(p)
  \/ HandleStale \/ HandleGap \/ HandlePacket
  \/ Stop
  \/ ColdReset \/ ColdStale \/ ColdBegin \/ ColdJoined
  \/ \E cut \in 0 .. PacketCap : ColdEnd(cut)

\* Both threads spin without blocking: the cold thread takes what is at the
\* front, and reset tries until there is room.
RunSpec ==
  /\ RunInit /\ [][RunNext]_runVars
  /\ WF_coldVars(ColdThread)
  /\ WF_coldVars(handled < arrived /\ Result(Here) = "Gap" /\ ResetCold)

-----------------------------------------------------------------------------
(***************************************************************************)
(* Properties.                                                             *)
(***************************************************************************)

\* When the cold thread has caught up and never read an overwritten buffer,
\* the book of a cold stock holds every message the tracker let through since
\* the last gap and the last StartOfMessages, but for the frames that push
\* dropped or consume found stale.  A dropped StartOfMessages is one of them:
\* the books then keep the orders of the day before.
ColdBooksAccounted ==
  (coldQ = <<>> /\ ~torn /\ ~resetDone) =>
    \A l \in Locates \ HotStocks :
      Held(coldT, l) =
        {s \in seen \ lost :
           /\ content[s] = [type |-> "A", locate |-> l]
           /\ s >= gapAt
           /\ \A k \in starts \cap (seen \ lost) : k < s \/ k >= expected}

\* The book the strategy reads for a hot stock holds exactly the messages of
\* that stock among those the feed vouches for, from the directory message
\* on that resolved the stock, unless its locate was configured: nothing of an
\* earlier epoch is ever shown.
HotBookFaithful ==
  \A l \in HotStocks :
    HotBook(hotT, l) =
      {s \in book : /\ content[s] = [type |-> "A", locate |-> l]
                    /\ dirAt[l] < s}

\* Both tables count the orders of the current epoch, although clearAll leaves
\* the orders of earlier epochs in place.
LiveExact == LiveIsExact(hotT) /\ LiveIsExact(coldT)

\* The spin in reset ends, and so does the drain behind a stop request.
ColdResponds ==
  /\ (handled < arrived /\ Result(Here) = "Gap" /\ coldRun = "Running")
       ~> (resetDone \/ coldRun # "Running")
  /\ (coldRun = "Stopping") ~> (coldRun = "Ended")
=============================================================================
