---------------------------- MODULE OrderThread ----------------------------
(***************************************************************************)
(* The device with kernel sockets (DutSession::run and orderLoop): the     *)
(* main thread quotes and applies answers, the order thread owns the TCP   *)
(* connection, and the two exchange requests and answers over two queues.  *)
(* The order thread also pairs the transmit time stamps that come back on  *)
(* the error queue with the requests in flight and records the latencies;  *)
(* runDut ends the threads one after the other.                            *)
(*                                                                         *)
(* A request is its place in "made"; the answer to it carries the same     *)
(* number.  Of the order manager only what decides the reference of a      *)
(* request is kept: an order gets a new one, a cancel reuses that of the   *)
(* accepted order.  "clock" is the NIC's: it stamps packets and frames.    *)
(***************************************************************************)
EXTENDS LatencyRecorder

CONSTANTS
  Slots,        \* the quote slots
  SendCap,      \* capacity of sendQ (kSocketQueue)
  AckCap,       \* capacity of ackQ (kSocketQueue)
  TxRefs,       \* kTxRefs
  InFlightSize, \* kInFlight
  MaxPackets,   \* bound: market-data packets
  MaxRequests   \* bound: requests

ASSUME ThreadAssumption ==
  /\ SendCap \in Nat \ {0} /\ AckCap \in Nat \ {0}
  /\ TxRefs \in Nat \ {0} /\ InFlightSize \in Nat \ {0}

VARIABLES
  main,      \* where the main thread is
  order,     \* where the order thread is
  status,    \* orderStatus
  go,        \* go
  stopReq,   \* the order thread's stop token
  mdQ,       \* stamps of the packets in the market-data socket
  cur,       \* the packet being applied: its stamp and "sent"
  slots,     \* the order manager's slots: state and the request they wait for
  made,      \* the requests made
  sendQ, ackQ, \* the queues between the threads
  pushing,   \* the answers orderReadAcks still has to push
  toNic,     \* sent, not yet on the wire
  stream,    \* answers in the TCP connection
  closed,    \* the venue closed the connection
  packets,   \* market-data packets received
  clock,     \* the NIC's clock
  errQ,      \* transmit stamps in the socket's error queue
  txRefs,    \* txRefs from txRead to txSeq
  inflight,  \* inflight
  lost,      \* history: requests that never left
  paired     \* history: the samples, with the requests they were made of

mainVars == <<main, go, stopReq, mdQ, cur, slots, made>>
linkVars == <<toNic, stream, closed, packets, clock, errQ>>
stampVars == <<txRefs, inflight, paired>>
vars == <<main, order, status, go, stopReq, mdQ, cur, slots, made, sendQ, ackQ, pushing,
          toNic, stream, closed, packets, clock, errQ, txRefs, inflight, lost, paired,
          recorderVars>>

NoRef == 0
Login == 0            \* the login request's number
NoPacket == [rx |-> 0, sent |-> FALSE]
NoOrder == [state |-> "Idle", ref |-> NoRef, request |-> Login]
Vacant == [ref |-> NoRef, rx |-> 0, request |-> Login]

-----------------------------------------------------------------------------
(***************************************************************************)
(* The main thread.                                                        *)
(***************************************************************************)

\* run, before its loop: the connection is up.
MainGo ==
  /\ main = "Waiting"
  /\ status = 1
  /\ go' = TRUE
  /\ main' = "Running"
  /\ UNCHANGED <<order, status, stopReq, mdQ, cur, slots, made, sendQ, ackQ, pushing,
                 lost, linkVars, stampVars, recorderVars>>

\* run leaves either loop and joins the order thread: the connection failed or
\* was closed by the venue,
MainFails ==
  /\ \/ main = "Waiting" /\ status = -1
     \/ main = "Running" /\ status = -2
  /\ main' = "Joining"
  /\ stopReq' = TRUE
  /\ UNCHANGED <<order, status, go, mdQ, cur, slots, made, sendQ, ackQ, pushing, lost,
                 linkVars, stampVars, recorderVars>>

\* or the program was asked to stop.
MainStops ==
  /\ \/ main = "Waiting" /\ status = 0
     \/ main = "Running"
  /\ main' = "Joining"
  /\ stopReq' = TRUE
  /\ UNCHANGED <<order, status, go, mdQ, cur, slots, made, sendQ, ackQ, pushing, lost,
                 linkVars, stampVars, recorderVars>>

\* runDut, once run has joined the order thread: consumer.stop.
MainJoins ==
  /\ main = "Joining"
  /\ order = "Exited"
  /\ main' = "Done"
  /\ recorder' = "Stopping"
  /\ UNCHANGED <<order, status, go, stopReq, mdQ, cur, slots, made, sendQ, ackQ, pushing,
                 lost, linkVars, stampVars>>
  /\ UNCHANGED <<samples, sampleDrops, hist, interval, worstRun, worstInterval, flushed>>

\* applyPacket begins.
MainPacket ==
  /\ main = "Running"
  /\ mdQ # <<>>
  /\ cur' = [rx |-> Head(mdQ), sent |-> FALSE]
  /\ mdQ' = Tail(mdQ)
  /\ UNCHANGED <<main, order, status, go, stopReq, slots, made, sendQ, ackQ, pushing,
                 lost, linkVars, stampVars, recorderVars>>

NextRef == 1 + Cardinality({i \in DOMAIN made : made[i].kind = "Enter"})

\* quote, for one request of reconcile, and socketQueueOrder.  The slot moves
\* before the request is queued; a full queue loses it.  The first request of
\* a packet that was queued is the one to be timed.
Quote(s) ==
  LET enter == slots[s].state = "Idle"
      ref == IF enter THEN NextRef ELSE slots[s].ref
      n == Len(made) + 1
      room == Len(sendQ) < SendCap
  IN /\ main = "Running"
     /\ cur # NoPacket
     /\ n <= MaxRequests
     /\ slots[s].state \in {"Idle", "Live"}
     /\ made' = Append(made, [kind |-> IF enter THEN "Enter" ELSE "Cancel", slot |-> s,
                              ref |-> ref, timed |-> ~cur.sent, rx |-> cur.rx])
     /\ slots' = [slots EXCEPT ![s] =
                    [state |-> IF enter THEN "PendingNew" ELSE "PendingCancel",
                     ref |-> ref, request |-> n]]
     /\ sendQ' = IF room THEN Append(sendQ, n) ELSE sendQ
     /\ cur' = [cur EXCEPT !.sent = @ \/ room]
     /\ lost' = IF room THEN lost ELSE lost \cup {n}
     /\ UNCHANGED <<main, order, status, go, stopReq, mdQ, ackQ, pushing,
                    linkVars, stampVars, recorderVars>>

\* applyAck, after the batch of packets.
MainAck ==
  LET n == Head(ackQ)
      s == made[n].slot
  IN /\ main = "Running"
     /\ ackQ # <<>>
     /\ ackQ' = Tail(ackQ)
     /\ cur' = NoPacket
     /\ slots' = [slots EXCEPT ![s] = IF made[n].kind = "Enter"
                                      THEN [@ EXCEPT !.state = "Live"] ELSE NoOrder]
     /\ UNCHANGED <<main, order, status, go, stopReq, mdQ, made, sendQ, pushing, lost,
                    linkVars, stampVars, recorderVars>>

-----------------------------------------------------------------------------
(***************************************************************************)
(* The order thread.                                                       *)
(***************************************************************************)

\* orderConnect.
OrderConnects ==
  /\ order = "Connecting"
  /\ \/ order' = "WaitGo" /\ status' = 1
     \/ order' = "Exited" /\ status' = -1
  /\ UNCHANGED <<mainVars, sendQ, ackQ, pushing, lost, linkVars, stampVars, recorderVars>>

\* Mutant of OrderGivesUp: the wait for "go" does not look at the stop token.
OrderWaitsOn == FALSE /\ UNCHANGED vars

\* The wait for "go" ends with a stop request.
OrderGivesUp ==
  /\ order = "WaitGo"
  /\ ~go /\ stopReq
  /\ order' = "Exited"
  /\ UNCHANGED <<status, mainVars, sendQ, ackQ, pushing, lost, linkVars, stampVars,
                 recorderVars>>

\* orderSend: the ring of references to transmitted frames drops its oldest
\* entry when it is full, and the in-flight entry of the reference is replaced.
OrderSend(n, ref, rx) ==
  LET kept == IF Len(txRefs) = TxRefs THEN Tail(txRefs) ELSE txRefs
  IN IF closed
     THEN lost' = lost \cup {n} /\ UNCHANGED <<toNic, txRefs, inflight>>
     ELSE /\ toNic' = Append(toNic, n)
          /\ txRefs' = Append(kept, [key |-> n, ref |-> ref])
          /\ inflight' = IF ref = NoRef THEN inflight
                         ELSE [inflight EXCEPT ![ref % InFlightSize] =
                                 [ref |-> ref, rx |-> rx, request |-> n]]
          /\ UNCHANGED lost

OrderLogsIn ==
  /\ order = "WaitGo"
  /\ go
  /\ OrderSend(Login, NoRef, 0)
  /\ order' = "Loop"
  /\ UNCHANGED <<status, mainVars, sendQ, ackQ, pushing, paired, recorderVars>>
  /\ UNCHANGED <<stream, closed, packets, clock, errQ>>

OrderStops ==
  /\ order = "Loop"
  /\ stopReq
  /\ order' = "Exited"
  /\ UNCHANGED <<status, mainVars, sendQ, ackQ, pushing, lost, linkVars, stampVars,
                 recorderVars>>

OrderSends ==
  LET n == Head(sendQ)
  IN /\ order = "Loop" /\ ~stopReq
     /\ sendQ # <<>>
     /\ sendQ' = Tail(sendQ)
     /\ OrderSend(n, IF made[n].timed THEN made[n].ref ELSE NoRef, made[n].rx)
     /\ UNCHANGED <<order, status, mainVars, ackQ, pushing, paired, recorderVars>>
     /\ UNCHANGED <<stream, closed, packets, clock, errQ>>

Idle == order = "Loop" /\ ~stopReq /\ sendQ = <<>>

\* orderCompleteTx passes over the references whose stamp never came.
Skipped(key) == {i \in DOMAIN txRefs : \A j \in 1 .. i : txRefs[j].key < key}
Unread(key) == SubSeq(txRefs, Cardinality(Skipped(key)) + 1, Len(txRefs))

\* Mutant of Matches: the reference now at txRead is taken for the stamp's own.
MatchesAny(rest, key) == rest # <<>>

\* The reference now at txRead is that of the stamp: it was not overwritten.
Matches(rest, key) == rest # <<>> /\ Head(rest).key = key

\* orderDrainTxStamps and orderCompleteTx, for one stamp.
OrderDrains ==
  LET stamp == Head(errQ)
      rest == Unread(stamp.key)
      match == Matches(rest, stamp.key)
      ref == Head(rest).ref
      slot == inflight[ref % InFlightSize]
  IN /\ Idle
     /\ txRefs # <<>> /\ errQ # <<>>
     /\ errQ' = Tail(errQ)
     /\ txRefs' = IF match THEN Tail(rest) ELSE rest
     /\ IF match /\ ref # NoRef /\ slot.ref = ref /\ stamp.tx > slot.rx
        THEN /\ Record(stamp.tx - slot.rx)
             /\ paired' = paired \cup {[sent |-> stamp.key, from |-> slot.request,
                                        tx |-> stamp.tx]}
        ELSE UNCHANGED <<paired, recorderVars>>
     /\ UNCHANGED <<order, status, mainVars, sendQ, ackQ, pushing, lost, inflight>>
     /\ UNCHANGED <<toNic, stream, closed, packets, clock>>

\* orderReadAcks: all that the connection holds.
OrderReads ==
  /\ Idle
  /\ stream # <<>>
  /\ stream' = <<>>
  /\ pushing' = stream
  /\ order' = "Pushing"
  /\ UNCHANGED <<status, mainVars, sendQ, ackQ, lost, stampVars, recorderVars>>
  /\ UNCHANGED <<toNic, closed, packets, clock, errQ>>

OrderSeesClose ==
  /\ Idle
  /\ stream = <<>> /\ closed
  /\ order' = "Exited" /\ status' = -2
  /\ UNCHANGED <<mainVars, sendQ, ackQ, pushing, lost, linkVars, stampVars, recorderVars>>

\* Mutant of PushAck: an answer that finds ackQ full is dropped.
PushAckOnce ==
  /\ order = "Pushing"
  /\ ackQ' = IF Head(pushing) # Login /\ Len(ackQ) < AckCap
             THEN Append(ackQ, Head(pushing)) ELSE ackQ
  /\ pushing' = Tail(pushing)
  /\ order' = IF Len(pushing) = 1 THEN "Loop" ELSE "Pushing"
  /\ UNCHANGED <<status, mainVars, sendQ, lost, linkVars, stampVars, recorderVars>>

\* One message of orderReadAcks' loop: the answer to the login goes no further;
\* the push of any other spins, and does not look at the stop token.
PushAck ==
  /\ order = "Pushing"
  /\ \/ Head(pushing) = Login /\ UNCHANGED ackQ
     \/ /\ Head(pushing) # Login
        /\ Len(ackQ) < AckCap
        /\ ackQ' = Append(ackQ, Head(pushing))
  /\ pushing' = Tail(pushing)
  /\ order' = IF Len(pushing) = 1 THEN "Loop" ELSE "Pushing"
  /\ UNCHANGED <<status, mainVars, sendQ, lost, linkVars, stampVars, recorderVars>>

-----------------------------------------------------------------------------
(***************************************************************************)
(* The NIC, the kernel and the venue.                                      *)
(***************************************************************************)
PacketArrives ==
  /\ packets < MaxPackets
  /\ main = "Running"
  /\ mdQ' = Append(mdQ, clock)
  /\ packets' = packets + 1
  /\ clock' = clock + 1
  /\ UNCHANGED <<main, go, stopReq, cur, slots, made, order, status, sendQ, ackQ, pushing,
                 toNic, stream, closed, errQ, lost, stampVars, recorderVars>>

\* A frame leaves; its stamp may get lost.  The venue answers every request,
\* and the answer may lie in the connection for as long as it likes.
NicTransmits(stamped) ==
  /\ toNic # <<>>
  /\ toNic' = Tail(toNic)
  /\ stream' = IF closed THEN stream ELSE Append(stream, Head(toNic))
  /\ errQ' = IF stamped THEN Append(errQ, [key |-> Head(toNic), tx |-> clock]) ELSE errQ
  /\ clock' = clock + 1
  /\ UNCHANGED <<order, status, mainVars, sendQ, ackQ, pushing, lost, stampVars,
                 closed, packets, recorderVars>>

VenueCloses ==
  /\ go /\ ~closed
  /\ closed' = TRUE
  /\ UNCHANGED <<order, status, mainVars, sendQ, ackQ, pushing, lost, stampVars,
                 toNic, stream, packets, clock, errQ, recorderVars>>

Recording ==
  /\ DrainOne \/ FlushPeriod \/ RecorderEnds
  /\ UNCHANGED <<order, status, mainVars, sendQ, ackQ, pushing, lost, linkVars, stampVars>>

-----------------------------------------------------------------------------
Init ==
  /\ main = "Waiting" /\ order = "Connecting" /\ status = 0
  /\ go = FALSE /\ stopReq = FALSE
  /\ mdQ = <<>> /\ cur = NoPacket
  /\ slots = [s \in Slots |-> NoOrder] /\ made = <<>>
  /\ sendQ = <<>> /\ ackQ = <<>> /\ pushing = <<>>
  /\ toNic = <<>> /\ stream = <<>> /\ closed = FALSE
  /\ packets = 0 /\ clock = 1 /\ errQ = <<>>
  /\ txRefs = <<>> /\ inflight = [i \in 0 .. InFlightSize - 1 |-> Vacant]
  /\ lost = {} /\ paired = {}
  /\ RecorderInit

MainThread == MainGo \/ MainFails \/ MainJoins \/ MainAck
OrderLoop == OrderConnects \/ OrderGivesUp \/ OrderLogsIn \/ OrderStops \/ OrderSends \/ PushAck
Network == NicTransmits(TRUE) \/ NicTransmits(FALSE)

Next ==
  \/ MainGo \/ MainFails \/ MainStops \/ MainJoins \/ MainPacket \/ MainAck
  \/ \E s \in Slots : Quote(s)
  \/ OrderConnects \/ OrderGivesUp \/ OrderLogsIn \/ OrderStops \/ OrderSends
  \/ OrderDrains \/ OrderReads \/ OrderSeesClose \/ PushAck
  \/ PacketArrives \/ VenueCloses
  \/ \E stamped \in BOOLEAN : NicTransmits(stamped)
  \/ Recording

(***************************************************************************)
(* All threads spin.  orderLoop comes by orderReadAcks on every eighth     *)
(* idle turn.  Nothing is assumed of quotes, packets, stamps and signals.  *)
(***************************************************************************)
Spec ==
  /\ Init /\ [][Next]_vars
  /\ WF_vars(MainThread) /\ WF_vars(OrderLoop) /\ WF_vars(OrderReads \/ OrderSeesClose)
  /\ WF_vars(Network) /\ WF_recorderVars(RecorderThread)

-----------------------------------------------------------------------------
(***************************************************************************)
(* Properties.                                                             *)
(***************************************************************************)

\* A sample is the time from the packet that caused a request to that
\* request's transmission, and a packet gives at most one such sample.  The
\* one exception: a cancel reuses its order's reference, so the stamp of the
\* order, read after the cancel was sent, meets the cancel's in-flight entry.
\* It is paired with it only if the cancel's packet was stamped before the
\* order left, that is, lay in the socket behind others meanwhile.
MispairNeedsReuse ==
  /\ \A p \in paired :
       \/ p.sent = p.from
       \/ /\ p.sent # Login /\ made[p.sent].ref = made[p.from].ref
          /\ made[p.from].kind = "Cancel" /\ made[p.sent].kind = "Enter"
          /\ made[p.sent].rx < made[p.from].rx /\ made[p.from].rx < p.tx
  /\ \A p, q \in paired :
       (p.sent = p.from /\ q.sent = q.from /\ made[p.from].rx = made[q.from].rx) => p = q

\* Nothing that was recorded is forgotten: the intervals written to the log
\* add up to the run's histogram, the worst samples are the largest ones, and
\* when the recorder thread has ended every sample is in the histogram, in the
\* log, or counted as dropped.
SamplesAccounted ==
  /\ flushed \o interval = hist
  /\ IsWorst(worstRun, hist) /\ IsWorst(worstInterval, interval)
  /\ recorder = "Ended" => Len(flushed) + sampleDrops = Cardinality(paired)

\* While the session is up, a slot that waits for an answer gets it, unless its
\* request was lost to a full sendQ or a failed send: neither thread starves
\* the other, whichever queue is full.
Waiting(s) == slots[s].state \in {"PendingNew", "PendingCancel"} /\ slots[s].request \notin lost
RequestsAnswered ==
  \A s \in Slots : Waiting(s) ~> (~Waiting(s) \/ main # "Running" \/ closed)

\* After a stop request or a lost connection every thread ends, unless the order
\* thread spins on a full ackQ that the main thread no longer drains.
ShutdownEnds ==
  (main = "Joining") ~> (recorder = "Ended" \/ (order = "Pushing" /\ Len(ackQ) = AckCap))
=============================================================================
