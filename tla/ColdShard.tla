----------------------------- MODULE ColdShard -----------------------------
(***************************************************************************)
(* dut::ColdShard: the hot thread hands the frames it has handled to the   *)
(* cold thread by reference, through a single-producer single-consumer     *)
(* queue, and the cold thread reads them in place out of the receive ring. *)
(*                                                                         *)
(* Frames are numbered in the order of their arrival.  Frame k lies in     *)
(* buffer k % RingDepth and is overwritten when frame k + RingDepth        *)
(* arrives.  The ring is rxRing of DutSession::run for sockets, and the    *)
(* NIC's for the transports.                                               *)
(***************************************************************************)
EXTENDS Integers, Sequences

CONSTANTS
  RingDepth,  \* buffers of the receive ring (kSocketRxRing)
  QueueCap,   \* cfg.coldQueue
  Margin,     \* kLifetimeMargin
  RxLead      \* how many frames may lie received and not yet handled (kRxBatch)

ASSUME ColdAssumption ==
  /\ RingDepth \in Nat \ {0} /\ QueueCap \in Nat \ {0}
  /\ Margin \in Nat /\ RxLead \in Nat \ {0}

VARIABLES
  arrived,   \* frames received so far
  handled,   \* frames the hot thread is done with
  skipped,   \* history: handled frames that are not in the queue's sequence
  coldQ,     \* m_queue, each reference with the value of "skipped" at its push
  resetDone, \* the hot thread has queued the reset of the gap it is handling
  reading,   \* the cold thread is in applyFrame, and what it knew at the check
  coldRun    \* m_thread: running, asked to stop, or joined

coldVars == <<arrived, handled, skipped, coldQ, resetDone, reading, coldRun>>

NoFrame == 0   \* a reference whose data is null: the reset marker
NotReading == [on |-> FALSE, handled |-> 0, skipped |-> 0]

\* m_safeDepth.
SafeDepth == IF QueueCap > Margin THEN QueueCap - Margin ELSE QueueCap

\* A frame's buffer holds a later frame.
Recycled(k) == arrived >= k + RingDepth

-----------------------------------------------------------------------------
(***************************************************************************)
(* The hot thread.                                                         *)
(***************************************************************************)

\* socketRecvBatch, or the NIC: the next buffer of the ring is filled.
Receive ==
  /\ coldRun = "Running"
  /\ arrived < handled + RxLead
  /\ arrived' = arrived + 1
  /\ UNCHANGED <<handled, skipped, coldQ, resetDone, reading, coldRun>>

\* A frame that applyPacket returns from early, or an order-entry answer.
PassOver ==
  /\ coldRun = "Running"
  /\ handled < arrived
  /\ handled' = handled + 1
  /\ skipped' = skipped + 1
  /\ UNCHANGED <<arrived, coldQ, resetDone, reading, coldRun>>

\* push, at the end of applyPacket: a full queue drops the reference.
Push ==
  /\ coldRun = "Running"
  /\ handled < arrived
  /\ handled' = handled + 1
  /\ resetDone' = FALSE
  /\ IF Len(coldQ) < QueueCap
     THEN /\ coldQ' = Append(coldQ, [frame |-> handled + 1, skips |-> skipped])
          /\ UNCHANGED skipped
     ELSE skipped' = skipped + 1 /\ UNCHANGED coldQ
  /\ UNCHANGED <<arrived, reading, coldRun>>

\* Mutant of ResetCold: a full queue drops the marker as push drops a frame.
ResetMayDrop ==
  /\ coldRun = "Running"
  /\ handled < arrived
  /\ ~resetDone
  /\ coldQ' = IF Len(coldQ) < QueueCap
              THEN Append(coldQ, [frame |-> NoFrame, skips |-> skipped]) ELSE coldQ
  /\ resetDone' = TRUE
  /\ UNCHANGED <<arrived, handled, skipped, reading, coldRun>>

\* reset, called by invalidateFeed: spins until the marker is in the queue.
ResetCold ==
  /\ coldRun = "Running"
  /\ handled < arrived
  /\ ~resetDone
  /\ Len(coldQ) < QueueCap
  /\ coldQ' = Append(coldQ, [frame |-> NoFrame, skips |-> skipped])
  /\ resetDone' = TRUE
  /\ UNCHANGED <<arrived, handled, skipped, reading, coldRun>>

\* stop, from stopCold, once the hot thread has left its loop.
StopCold ==
  /\ coldRun = "Running"
  /\ ~resetDone
  /\ coldRun' = "Stopping"
  /\ UNCHANGED <<arrived, handled, skipped, coldQ, resetDone, reading>>

-----------------------------------------------------------------------------
(***************************************************************************)
(* The cold thread.  An entry is popped after it was consumed, so the      *)
(* depth that consume compares counts the frame it is about to read.       *)
(***************************************************************************)
AtFront == ~reading.on /\ coldQ # <<>> /\ coldRun # "Ended"

Pop == coldQ' = Tail(coldQ)

ConsumeReset ==
  /\ AtFront
  /\ Head(coldQ).frame = NoFrame
  /\ Pop
  /\ UNCHANGED <<arrived, handled, skipped, resetDone, reading, coldRun>>

\* Mutant of TooDeep: only a full queue is too deep.
TooDeepAtCap == Len(coldQ) > QueueCap

TooDeep == Len(coldQ) > SafeDepth

\* Mutant of ConsumeStale: a stale frame is counted and left at the front.
ConsumeStaleKeeps ==
  /\ AtFront
  /\ Head(coldQ).frame # NoFrame
  /\ TooDeep
  /\ UNCHANGED coldVars

ConsumeStale ==
  /\ AtFront
  /\ Head(coldQ).frame # NoFrame
  /\ TooDeep
  /\ Pop
  /\ UNCHANGED <<arrived, handled, skipped, resetDone, reading, coldRun>>

BeginFrame ==
  /\ AtFront
  /\ Head(coldQ).frame # NoFrame
  /\ ~TooDeep
  /\ reading' = [on |-> TRUE, handled |-> handled, skipped |-> skipped]
  /\ UNCHANGED <<arrived, handled, skipped, coldQ, resetDone, coldRun>>

EndFrame ==
  /\ reading.on
  /\ reading' = NotReading
  /\ Pop
  /\ UNCHANGED <<arrived, handled, skipped, resetDone, coldRun>>

\* The loop behind the stop request has drained the queue.
ColdEnds ==
  /\ coldRun = "Stopping"
  /\ ~reading.on
  /\ coldQ = <<>>
  /\ coldRun' = "Ended"
  /\ UNCHANGED <<arrived, handled, skipped, coldQ, resetDone, reading>>

-----------------------------------------------------------------------------
ColdInit ==
  /\ arrived = 0 /\ handled = 0 /\ skipped = 0
  /\ coldQ = <<>>
  /\ resetDone = FALSE
  /\ reading = NotReading
  /\ coldRun = "Running"

\* loop.
ColdThread == ConsumeReset \/ ConsumeStale \/ BeginFrame \/ EndFrame \/ ColdEnds

ColdNext ==
  \/ Receive \/ PassOver \/ Push \/ ResetCold \/ StopCold
  \/ ColdThread

ColdSpec == ColdInit /\ [][ColdNext]_coldVars

-----------------------------------------------------------------------------
(***************************************************************************)
(* consume checks the depth of the queue before it reads the buffer, and   *)
(* the depth counts references, not buffers.  The frame being read can be  *)
(* overwritten all the same, but only if more than the margin's worth of   *)
(* frames (less by what the queue exceeds the ring) either went by without *)
(* being queued since its push, or arrived after the check.                *)
(***************************************************************************)
RecycledNeedsSlack ==
  (reading.on /\ Recycled(Head(coldQ).frame)) =>
    (reading.skipped - Head(coldQ).skips) + (arrived - reading.handled)
      > RingDepth - SafeDepth
=============================================================================
