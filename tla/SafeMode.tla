------------------------------ MODULE SafeMode ------------------------------
(***************************************************************************)
(* Fault protection: a loop that finds a declared limit tripped writes     *)
(* safe-mode.json, and until the owner removes it no loop claims a task.   *)
(*                                                                         *)
(* The file is the state.  Loops look at most every thirty seconds and go  *)
(* by what they saw; nothing here takes a lock: whether the file is there, *)
(* and putting one there, are two steps.                                   *)
(***************************************************************************)
EXTENDS Naturals

CONSTANTS
  Dogs,          \* loops with a watchdog
  MaxEpisodes    \* bound: records written to the file

ASSUME SafeModeAssumption == MaxEpisodes \in Nat

VARIABLES
  mode,      \* the record in the file, 0 for no file
  written,   \* records written so far
  dog,       \* dog[p]: "off", "found nothing", "tripped"
  wdMode,    \* wdMode[p]: _wd_mode, what p last saw
  working,   \* loops with a task in their hands
  tripping,  \* do the ledgers exceed a limit?
  clearing,  \* the record the owner is clearing, 0 for none
  raced      \* history: two loops were entering at once

smVars == <<mode, written, dog, wdMode, working, tripping, clearing, raced>>

SmTypeOK ==
  /\ mode \in 0..MaxEpisodes /\ written \in 0..MaxEpisodes
  /\ dog \in [Dogs -> {"off", "found nothing", "tripped"}]
  /\ wdMode \in [Dogs -> 0..MaxEpisodes]
  /\ working \subseteq Dogs /\ tripping \in BOOLEAN
  /\ clearing \in 0..MaxEpisodes
  /\ raced \in BOOLEAN

SmInit ==
  /\ mode = 0 /\ written = 0
  /\ dog = [p \in Dogs |-> "off"] /\ wdMode = [p \in Dogs |-> 0]
  /\ working = {} /\ tripping = FALSE
  /\ clearing = 0 /\ raced = FALSE

-----------------------------------------------------------------------------
\* check: the file first; it is there, and the loop goes by it.
SeesMode(p) ==
  /\ dog[p] = "off" /\ mode # 0
  /\ wdMode' = [wdMode EXCEPT ![p] = mode]
  /\ UNCHANGED <<mode, written, dog, working, tripping, clearing, raced>>

SeesNone(p) ==
  /\ dog[p] = "off" /\ mode = 0
  /\ dog' = [dog EXCEPT ![p] = "found nothing"]
  /\ UNCHANGED <<mode, written, wdMode, working, tripping, clearing, raced>>

\* evaluate: nothing trips.
Evaluates(p) ==
  /\ dog[p] = "found nothing" /\ ~tripping
  /\ dog' = [dog EXCEPT ![p] = "off"] /\ wdMode' = [wdMode EXCEPT ![p] = 0]
  /\ UNCHANGED <<mode, written, working, tripping, clearing, raced>>

\* Mutant: enter does not look again.
TripsAnyway(p) ==
  /\ dog[p] = "found nothing" /\ tripping
  /\ dog' = [dog EXCEPT ![p] = "tripped"]
  /\ UNCHANGED <<mode, written, wdMode, working, tripping, clearing, raced>>

\* evaluate trips, and enter looks once more: an episode that is there is kept.
Trips(p) ==
  /\ dog[p] = "found nothing" /\ tripping
  /\ IF mode # 0
     THEN /\ dog' = [dog EXCEPT ![p] = "off"]
          /\ wdMode' = [wdMode EXCEPT ![p] = mode] /\ UNCHANGED raced
     ELSE /\ dog' = [dog EXCEPT ![p] = "tripped"] /\ UNCHANGED wdMode
          /\ raced' = (raced \/ \E q \in Dogs : dog[q] = "tripped")
  /\ UNCHANGED <<mode, written, working, tripping, clearing>>

\* The record replaces whatever is there; the loop holds by what it wrote.  The
\* line in episodes.jsonl follows.
Enter(p) ==
  /\ dog[p] = "tripped" /\ written < MaxEpisodes
  /\ written' = written + 1 /\ mode' = written + 1
  /\ dog' = [dog EXCEPT ![p] = "off"]
  /\ wdMode' = [wdMode EXCEPT ![p] = written + 1]
  /\ UNCHANGED <<working, tripping, clearing, raced>>

\* An exception in check, for example in reading the ledgers: the loop goes on
\* as if there were no mode.  A kill looks the same from outside.
DogFails(p) ==
  /\ dog[p] # "off" /\ dog' = [dog EXCEPT ![p] = "off"]
  /\ wdMode' = [wdMode EXCEPT ![p] = 0] /\ working' = working \ {p}
  /\ UNCHANGED <<mode, written, tripping, clearing, raced>>

\* _run: claim, or the next step of the task, by what the loop last saw.
Work(p) ==
  /\ dog[p] = "off" /\ wdMode[p] = 0 /\ working' = working \cup {p}
  /\ UNCHANGED <<mode, written, dog, wdMode, tripping, clearing, raced>>

\* A step boundary at which the mode is seen: the task is put down.
PutDown(p) ==
  /\ p \in working /\ dog[p] = "off" /\ wdMode[p] # 0
  /\ working' = working \ {p}
  /\ UNCHANGED <<mode, written, dog, wdMode, tripping, clearing, raced>>

\* clear: the record is read and logged as cleared, then the file is removed,
\* whatever it holds by now.
ClearReads ==
  /\ clearing = 0 /\ mode # 0 /\ clearing' = mode
  /\ UNCHANGED <<mode, written, dog, wdMode, working, tripping, raced>>

\* A kill between the two leaves the mode as it was.
ClearRemoves ==
  /\ clearing # 0 /\ clearing' = 0 /\ mode' \in {0, mode}
  /\ UNCHANGED <<written, dog, wdMode, working, tripping, raced>>

Metrics ==
  /\ tripping' = ~tripping
  /\ UNCHANGED <<mode, written, dog, wdMode, working, clearing, raced>>

DogStep(p) ==
  \/ SeesMode(p) \/ SeesNone(p) \/ Evaluates(p) \/ Trips(p) \/ Enter(p)
  \/ Work(p) \/ PutDown(p)

SmNext ==
  \/ \E p \in Dogs : DogStep(p) \/ DogFails(p)
  \/ ClearReads \/ ClearRemoves \/ Metrics

SmSpec == SmInit /\ [][SmNext]_smVars

-----------------------------------------------------------------------------
(* Properties.                                                             *)

\* "The FIRST trip is the one to investigate" (enter): a record is replaced by
\* another only when two loops were entering at once.
FirstTripKept == [][mode # 0 /\ mode' # mode => mode' = 0 \/ raced]_smVars
=============================================================================
