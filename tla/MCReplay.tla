------------------------------ MODULE MCReplay ------------------------------
(***************************************************************************)
(* Replays of short tapes: A and B are listed, Z is not.  In the tape A has*)
(* B's initial locate and Z has A's.                                       *)
(***************************************************************************)
EXTENDS ReplayRun

Directory(s, t) == [kind |-> "R", sym |-> s, ts |-> t, short |-> FALSE]
Other(s, t) == [kind |-> "M", sym |-> s, ts |-> t, short |-> FALSE]
Short == [kind |-> "M", sym |-> "Z", ts |-> 0, short |-> TRUE]

MCSymbols == {"A", "B", "Z"}
MCVenues == {"A", "B"}
MCInitialLocate == [s \in MCVenues |-> IF s = "A" THEN 1 ELSE 2]
MCTapeLocate == [s \in MCSymbols |-> CASE s = "A" -> 2 [] s = "B" -> 3 [] s = "Z" -> 1]

AscendingTape == <<Directory("A", 1), Directory("B", 1), Other("A", 2), Other("Z", 3)>>
UnorderedTape == <<Directory("B", 2), Directory("A", 1), Short, Other("B", 3)>>
LateTape == <<Short, Other("B", 3)>>

Config(tape, loops, skipTo, stopAt, nsPerNs, maxBatch, waitForDut) ==
  [tape |-> tape, loops |-> loops, skipTo |-> skipTo, stopAt |-> stopAt, nsPerNs |-> nsPerNs,
   rate |-> IF nsPerNs = 0 THEN 3 ELSE 1, maxBatch |-> maxBatch, waitForDut |-> waitForDut]

MCConfigs ==
  { Config(AscendingTape, 2, 2, 0, 1, 2, TRUE),
    Config(AscendingTape, 0, 0, 2, 1, 2, FALSE),
    Config(UnorderedTape, 2, 0, 2, 0, 2, TRUE),
    Config(UnorderedTape, 0, 2, 0, 1, 1, TRUE),
    Config(LateTape, 2, 0, 0, 1, 1, TRUE),
    Config(LateTape, 0, 0, 2, 1, 1, FALSE),
    Config(<<>>, 1, 0, 0, 1, 1, TRUE) }
=============================================================================
