-------------------------- MODULE LatencyRecorder --------------------------
(***************************************************************************)
(* dut::LatencyRecorder and RecorderThread: samples pass through a queue   *)
(* from the measured thread to the recorder thread, which keeps a          *)
(* histogram of the run, one of the interval since the last flush, and the *)
(* worst samples of each.  A histogram is the sequence of its values.      *)
(***************************************************************************)
EXTENDS Integers, Sequences, FiniteSets

CONSTANTS
  SampleCap,  \* capacity of m_queue
  WorstCap    \* kWorst

ASSUME RecorderAssumption == SampleCap \in Nat \ {0} /\ WorstCap \in Nat \ {0}

VARIABLES
  samples,    \* m_queue
  sampleDrops, \* m_dropped
  hist,       \* m_hist
  interval,   \* m_interval
  worstRun,   \* m_worstRun
  worstInterval, \* m_worstInterval
  flushed,    \* history: values written to the log
  recorder    \* RecorderThread::m_thread: running, asked to stop, or joined

recorderVars ==
  <<samples, sampleDrops, hist, interval, worstRun, worstInterval, flushed, recorder>>

\* record, by the measured thread.
Record(ns) ==
  /\ IF Len(samples) < SampleCap
     THEN samples' = Append(samples, ns) /\ UNCHANGED sampleDrops
     ELSE sampleDrops' = sampleDrops + 1 /\ UNCHANGED samples
  /\ UNCHANGED <<hist, interval, worstRun, worstInterval, flushed, recorder>>

\* The first of the lowest items.
Lowest(items) ==
  CHOOSE i \in DOMAIN items :
    /\ \A j \in DOMAIN items : items[i] <= items[j]
    /\ \A j \in 1 .. i - 1 : items[i] < items[j]

\* Worst::offer.
Offer(items, ns) ==
  IF Len(items) < WorstCap THEN Append(items, ns)
  ELSE IF ns > items[Lowest(items)] THEN [items EXCEPT ![Lowest(items)] = ns]
  ELSE items

\* drainOne; drain, behind the stop request, is the same until nothing is left.
DrainOne ==
  LET ns == Head(samples)
  IN /\ recorder # "Ended"
     /\ samples # <<>>
     /\ samples' = Tail(samples)
     /\ hist' = Append(hist, ns)
     /\ interval' = Append(interval, ns)
     /\ worstRun' = Offer(worstRun, ns)
     /\ worstInterval' = Offer(worstInterval, ns)
     /\ UNCHANGED <<sampleDrops, flushed, recorder>>

\* flushInterval on a non-empty interval; an empty one writes nothing.
FlushInterval ==
  /\ flushed' = flushed \o interval
  /\ interval' = <<>>
  /\ worstInterval' = <<>>

\* The flush that the clock starts.
FlushPeriod ==
  /\ recorder = "Running"
  /\ interval # <<>>
  /\ FlushInterval
  /\ UNCHANGED <<samples, sampleDrops, hist, worstRun, recorder>>

\* Mutant of RecorderEnds: the loop ends without the drain behind it.
RecorderEndsAtOnce ==
  /\ recorder = "Stopping"
  /\ FlushInterval
  /\ recorder' = "Ended"
  /\ UNCHANGED <<samples, sampleDrops, hist, worstRun>>

\* The end of loop: all is drained, then flushed.
RecorderEnds ==
  /\ recorder = "Stopping"
  /\ samples = <<>>
  /\ FlushInterval
  /\ recorder' = "Ended"
  /\ UNCHANGED <<samples, sampleDrops, hist, worstRun>>

RecorderThread == DrainOne \/ RecorderEnds

RecorderInit ==
  /\ samples = <<>> /\ sampleDrops = 0
  /\ hist = <<>> /\ interval = <<>>
  /\ worstRun = <<>> /\ worstInterval = <<>>
  /\ flushed = <<>>
  /\ recorder = "Running"

\* Of the values "all", "items" are the WorstCap largest.
AtLeast(s, v) == Cardinality({i \in DOMAIN s : s[i] >= v})
IsWorst(items, all) ==
  \A v \in {all[i] : i \in DOMAIN all} :
    AtLeast(items, v) = IF AtLeast(all, v) < WorstCap THEN AtLeast(all, v) ELSE WorstCap
=============================================================================
