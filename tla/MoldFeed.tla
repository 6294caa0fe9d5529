------------------------------ MODULE MoldFeed ------------------------------
(***************************************************************************)
(* The market-data link from the exchange simulator to the device under    *)
(* test: ExchangeSession packs ITCH messages into MoldUDP64 packets        *)
(* (mold::Packer), UDP carries the packets, and DutSession::applyPacket    *)
(* classifies each one with SequenceTracker before its messages reach the  *)
(* hot books.                                                              *)
(*                                                                         *)
(* UDP may lose, repeat and reorder packets.  "sent" therefore only grows: *)
(* a packet in it may be applied never (lost in the network, or counted as *)
(* txDropped by ExchangeSession::sendFrame after its sequence numbers were *)
(* consumed), once, or many times, and in any order.                       *)
(*                                                                         *)
(* A message is its MoldUDP64 sequence number.  Its content matters only   *)
(* in one respect, whether it is the StartOfMessages system event that     *)
(* makes a day begin with empty books; "starts" holds those numbers.  The  *)
(* hot books are the set of messages they were built from.                 *)
(***************************************************************************)
EXTENDS Integers, FiniteSets

CONSTANTS
  MaxSeq,     \* bound: messages published
  PacketCap   \* the most messages that fit the payload limit of mdCapacity

ASSUME MaxSeqAssumption == MaxSeq \in Nat
ASSUME PacketCapAssumption == PacketCap \in Nat \ {0}

VARIABLES
  nextSeq,    \* Packer::m_seq, the next sequence number
  starts,     \* history: the published messages that are StartOfMessages
  mdOpen,     \* ExchangeSession::m_mdOpen
  packer,     \* Packer::m_firstSeq and m_count
  sent,       \* the packets handed to UDP
  started,    \* SequenceTracker::m_started
  expected,   \* SequenceTracker::m_expected
  gaps,       \* SequenceTracker::m_gaps
  missed,     \* SequenceTracker::m_missed
  feedValid,  \* DutSession::m_feedValid
  book,       \* the messages applied to the hot books since they were cleared
  joined,     \* history: the first sequence number of the first packet seen
  seen,       \* history: the messages of the packets that were not stale
  again       \* history: messages applied to books that already held them

venueVars == <<nextSeq, starts, mdOpen, packer, sent>>
dutVars == <<started, expected, gaps, missed, feedValid, book, joined, seen, again>>
vars == <<nextSeq, starts, mdOpen, packer, sent, started, expected, gaps,
          missed, feedValid, book, joined, seen, again>>

Packet == [seq : Nat, count : Nat]

\* The sequence numbers a packet carries.
Messages(p) == p.seq .. (p.seq + p.count - 1)

-----------------------------------------------------------------------------
(***************************************************************************)
(* The publisher.                                                          *)
(***************************************************************************)

\* Mutant of Reset: a packet that was filled before keeps its first sequence
\* number.
ResetKeepsFirst ==
  [seq |-> IF packer.seq = 0 THEN nextSeq ELSE packer.seq, count |-> 0]

\* Packer::reset: an empty packet that starts at the next sequence number.
Reset == [seq |-> nextSeq, count |-> 0]

\* The packet the next message is offered to; appendMarketData opens one when
\* none is open.
Current == IF mdOpen THEN packer ELSE Reset

(***************************************************************************)
(* ExchangeSession::appendMarketData, through Packer::append.  Whether a   *)
(* message fits depends on the message sizes, which are not modelled: a    *)
(* packet may turn a message down as soon as it holds one, and does at     *)
(* PacketCap.  An empty packet takes any ITCH message, since mdCapacity    *)
(* leaves 64 bytes after the header.  A refused message flushes the packet *)
(* and starts the next one.                                                *)
(***************************************************************************)
AppendMarketData(isStart) ==
  /\ nextSeq <= MaxSeq
  /\ \/ /\ Current.count < PacketCap
        /\ packer' = [Current EXCEPT !.count = @ + 1]
        /\ sent' = sent
     \/ /\ Current.count > 0
        /\ sent' = sent \cup {Current}
        /\ packer' = [Reset EXCEPT !.count = @ + 1]
  /\ mdOpen' = TRUE
  /\ nextSeq' = nextSeq + 1
  /\ starts' = IF isStart THEN starts \cup {nextSeq} ELSE starts
  /\ UNCHANGED dutVars

\* ExchangeSession::flushMarketData: the end of a pump batch, of a handled
\* client message or of the day.
FlushMarketData ==
  /\ mdOpen
  /\ sent' = sent \cup {packer}
  /\ mdOpen' = FALSE
  /\ UNCHANGED <<nextSeq, starts, packer>>
  /\ UNCHANGED dutVars

-----------------------------------------------------------------------------
(***************************************************************************)
(* The receiver.                                                           *)
(***************************************************************************)

\* Mutant of Result: a packet beyond m_expected is taken as in order.
ResultIgnoresGap(p) ==
  IF ~started \/ p.seq >= expected THEN "InOrder" ELSE "Stale"

(***************************************************************************)
(* SequenceTracker::onPacket, its classification.  The simulator sends no  *)
(* heartbeat and no end-of-session packet, so every packet carries         *)
(* messages.                                                               *)
(***************************************************************************)
Result(p) ==
  IF ~started \/ p.seq = expected THEN "InOrder"
  ELSE IF p.seq > expected THEN "Gap"
  ELSE IF p.seq + p.count > expected THEN "InOrder"
  ELSE "Stale"

\* Mutants of Track: m_missed computed from the wrong end, and counted after
\* m_expected moved.
TrackWrongSign(p) ==
  /\ started' = TRUE
  /\ expected' = p.seq + p.count
  /\ gaps' = IF Result(p) = "Gap" THEN gaps + 1 ELSE gaps
  /\ missed' = IF Result(p) = "Gap" THEN missed + (expected - p.seq) ELSE missed

TrackMissesLate(p) ==
  /\ started' = TRUE
  /\ expected' = p.seq + p.count
  /\ gaps' = IF Result(p) = "Gap" THEN gaps + 1 ELSE gaps
  /\ missed' = IF Result(p) = "Gap" THEN missed + (expected' - expected) ELSE missed

\* The bookkeeping of SequenceTracker::onPacket for a packet that is used.
Track(p) ==
  /\ started' = TRUE
  /\ expected' = p.seq + p.count
  /\ gaps' = IF Result(p) = "Gap" THEN gaps + 1 ELSE gaps
  /\ missed' = IF Result(p) = "Gap" THEN missed + (p.seq - expected) ELSE missed

(***************************************************************************)
(* The message loop of DutSession::applyPacket over applyMessage and       *)
(* onSystemEvent, as its net effect.  "valid" and "held" are m_feedValid   *)
(* and the books once a gap has been handled (invalidateFeed clears both). *)
(* StartOfMessages clears the books and makes the feed valid, so after the *)
(* last one of the packet exactly the messages behind it have been booked; *)
(* without one they are booked only while the feed is valid.               *)
(***************************************************************************)
ApplyMessages(p, valid, held) ==
  LET resets == Messages(p) \cap starts
  IN /\ feedValid' = (valid \/ resets # {})
     /\ book' = IF resets # {} THEN {s \in Messages(p) : \A k \in resets : k < s}
                ELSE IF valid THEN held \cup Messages(p) ELSE held
     /\ again' = again \cup {s \in held \cap Messages(p) :
                               valid /\ \A k \in resets : s < k}

\* DutSession::applyPacket, as far as the books and the sequence go.
ApplyPacket(p) ==
  /\ p \in sent
  /\ Result(p) # "Stale"
  /\ Track(p)
  /\ IF Result(p) = "Gap" THEN ApplyMessages(p, FALSE, {})
                          ELSE ApplyMessages(p, feedValid, book)
  /\ joined' = IF started THEN joined ELSE p.seq
  /\ seen' = seen \cup Messages(p)
  /\ UNCHANGED venueVars

-----------------------------------------------------------------------------
Init ==
  /\ nextSeq = 1
  /\ starts = {}
  /\ mdOpen = FALSE
  /\ packer = [seq |-> 0, count |-> 0]
  /\ sent = {}
  /\ started = FALSE
  /\ expected = 0
  /\ gaps = 0
  /\ missed = 0
  /\ feedValid = TRUE
  /\ book = {}
  /\ joined = 0
  /\ seen = {}
  /\ again = {}

Next ==
  \/ \E isStart \in BOOLEAN : AppendMarketData(isStart)
  \/ FlushMarketData
  \/ \E p \in sent : ApplyPacket(p)

Spec == Init /\ [][Next]_vars

-----------------------------------------------------------------------------
(***************************************************************************)
(* Properties.                                                             *)
(***************************************************************************)

\* Every variable has the type of the field it stands for.
TypeOK ==
  /\ nextSeq \in Nat \ {0}
  /\ starts \subseteq Nat
  /\ mdOpen \in BOOLEAN
  /\ packer \in Packet
  /\ sent \subseteq Packet
  /\ started \in BOOLEAN
  /\ expected \in Nat
  /\ gaps \in Nat
  /\ missed \in Nat
  /\ feedValid \in BOOLEAN
  /\ book \subseteq Nat
  /\ joined \in Nat
  /\ seen \subseteq Nat
  /\ again \subseteq Nat

\* The sequence tracker keeps every message from being applied twice to the
\* same books, whatever UDP repeats or delays: onPacket's overlap branch, which
\* lets a packet through that starts before m_expected, is never entered on
\* the packets this publisher makes.
NothingAppliedTwice == again = {}

\* While m_feedValid is set, the hot books were built from every message since
\* the last StartOfMessages, or since the packet the tracker started from, and
\* from nothing else; while it is not set they are empty.  A lost message can
\* therefore never be missing from books that the strategy trusts.
ValidBooksAreComplete ==
  started => book = IF feedValid
                    THEN {s \in joined .. (expected - 1) :
                            \A k \in starts : k < s \/ k >= expected}
                    ELSE {}

\* m_missed is exactly the number of messages the tracker skipped over since
\* its first packet, and a skipped message has been reported as a gap.
MissedIsExact ==
  started => /\ missed = (expected - joined) - Cardinality(seen)
             /\ (missed > 0) = (gaps > 0)
=============================================================================
