----------------------------- MODULE Candidates -----------------------------
(***************************************************************************)
(* Test-time compute: what a refused finish_task does with the attempt.    *)
(*                                                                         *)
(* The gate is run; a refused attempt is scored by running the gate again, *)
(* stashed on disk under a number that is counted in memory, and compared; *)
(* when the attempts run out the best one is put back.  The files of the   *)
(* task and the stash outlive a kill, the counters only from the commit.   *)
(*                                                                         *)
(* Which files an attempt wrote is read from the records of its steps.  A  *)
(* record is cut at 300 characters, and one that was cut no longer parses: *)
(* a long write_file is missing from the list, a refused one is on it.     *)
(***************************************************************************)
EXTENDS Naturals, FiniteSets, Functions

CONSTANTS
  Files,         \* files the task's calls name
  Foreign,       \* those of them that File Authority does not let it write
  Quality,       \* what the scorers give one file, 0 if it is missing
  Flaky,         \* may the gate answer differently on the same files?
  Sampling,      \* candidates_on_gate_failure
  Stashing,      \* and candidates_max above one
  CandRejects,   \* max_done_rejects
  CandKills      \* bound: kills of the loop

ASSUME CandAssumption ==
  /\ CandRejects \in Nat \ {0} /\ CandKills \in Nat
  /\ Quality \subseteq Nat /\ 0 \in Quality
  /\ Foreign \subseteq Files
  /\ Sampling \in BOOLEAN /\ Stashing \in BOOLEAN /\ (Stashing => Sampling)

VARIABLES
  saved,     \* the task's counters in state.json: rejects, rounds, outcome, and
             \* paths, what written_paths makes of its step records
  copy,      \* the loop's copy of them
  phase,     \* "off", "work", "decide" (the attempt is stashed), "commit"
  work,      \* work[f]: quality of f on disk
  stash,     \* stash[n]: attempt n as candidates/<id>/<n>/score.json has it
  kills

candVars == <<saved, copy, phase, work, stash, kills>>

Numbers == 1..CandRejects
Absent == [attempt |-> 0, passed |-> FALSE, files |-> [f \in Files |-> 0],
           paths |-> {}, kept |-> {}]
Outcomes == {"running", "done", "failed"}
Counters == [rejects : Nat, rounds : Nat, paths : SUBSET Files, outcome : Outcomes]
Attempts == [attempt : 0..CandRejects, passed : BOOLEAN, files : [Files -> Quality],
             paths : SUBSET Files, kept : SUBSET Files]

CandTypeOK ==
  /\ saved \in Counters /\ copy \in Counters
  /\ phase \in {"off", "work", "decide", "commit"}
  /\ work \in [Files -> Quality]
  /\ stash \in [Numbers -> Attempts]
  /\ kills \in Nat

CandInit ==
  /\ saved = [rejects |-> 0, rounds |-> 0, paths |-> {}, outcome |-> "running"]
  /\ copy = saved /\ phase = "work"
  /\ work \in [Files -> Quality]
  /\ stash = [n \in Numbers |-> Absent]
  /\ kills = 0

-----------------------------------------------------------------------------
\* The gate: all files are good, unless it is a flaky one.
Verdicts(w) == IF Flaky THEN BOOLEAN ELSE {\A f \in Files : \A q \in Quality : q <= w[f]}

\* rank: the gate first, then the mean over the files the attempt was scored by.
Better(a, b) ==
  \/ a.passed /\ ~b.passed
  \/ /\ a.passed = b.passed
     /\ SumFunctionOnSet(a.files, a.paths) * Cardinality(b.paths)
          > SumFunctionOnSet(b.files, b.paths) * Cardinality(a.paths)

Stashed == {n \in Numbers : stash[n] # Absent}

\* The winner: the first in the order of the sort.
Best == CHOOSE n \in Stashed :
          /\ \A k \in Stashed : ~Better(stash[k], stash[n])
          /\ \A k \in Stashed : k < n => Better(stash[n], stash[k])

-----------------------------------------------------------------------------
\* A loop takes the task (again): its copy is what was committed.
\* Mutant: the number of the attempt is not among what was committed.
CandTakeFresh ==
  /\ phase = "off" /\ saved.outcome = "running"
  /\ copy' = [saved EXCEPT !.rounds = 0] /\ phase' = "work"
  /\ UNCHANGED <<saved, work, stash, kills>>

CandTake ==
  /\ phase = "off" /\ saved.outcome = "running"
  /\ copy' = saved /\ phase' = "work"
  /\ UNCHANGED <<saved, work, stash, kills>>

Noted(fs) == copy' = [copy EXCEPT !.paths = @ \cup fs]

\* A file is written.  The record of a write_file tells, unless it was cut; that
\* of a shell command, which may also remove a file, does not.
WriteFile ==
  /\ phase = "work"
  /\ \E f \in Files \ Foreign, q \in Quality :
       /\ work' = [work EXCEPT ![f] = q]
       /\ Noted({}) \/ (q > 0 /\ Noted({f}))
  /\ phase' = "commit"
  /\ UNCHANGED <<saved, stash, kills>>

\* A write_file that File Authority refuses, or that fails, is a step as well.
RefusedWrite ==
  /\ phase = "work"
  /\ \E f \in Files : Noted({f})
  /\ phase' = "commit"
  /\ UNCHANGED <<saved, work, stash, kills>>

FinishPasses ==
  /\ phase = "work" /\ TRUE \in Verdicts(work)
  /\ copy' = [copy EXCEPT !.outcome = "done"]
  /\ phase' = "commit"
  /\ UNCHANGED <<saved, work, stash, kills>>

\* What stash copies of the files of an attempt: those that are there and that the
\* task may write.
Copied(paths) == {f \in paths \ Foreign : work[f] > 0}

\* The gate refuses.  The attempt is counted, and stashed with a second verdict of
\* the gate unless that is off or no write was noted.
FinishFails ==
  /\ phase = "work" /\ FALSE \in Verdicts(work)
  /\ copy' = [copy EXCEPT !.rejects = @ + 1, !.rounds = @ + 1]
  /\ \E again \in Verdicts(work) :
       IF Stashing /\ copy.paths # {}
       THEN stash' = [stash EXCEPT ![copy'.rounds] =
                        [attempt |-> copy'.rounds, passed |-> again, files |-> work,
                         paths |-> copy.paths, kept |-> Copied(copy.paths)]]
       ELSE UNCHANGED stash
  /\ phase' = "decide"
  /\ UNCHANGED <<saved, work, kills>>

\* next_attempt: what stops the sampling, whatever the economics say.
MustStop ==
  \/ copy.rejects >= CandRejects
  \/ ~Sampling
  \/ \E n \in Stashed : stash[n].passed
  \/ Cardinality(Stashed) >= CandRejects

\* Sampling goes on.
TryAgain ==
  /\ phase = "decide" /\ ~MustStop
  /\ phase' = "commit"
  /\ UNCHANGED <<saved, copy, work, stash, kills>>

\* Mutant: the first attempt is put back, whether it won or not.
GiveUpFirst ==
  /\ phase = "decide"
  /\ LET first == CHOOSE n \in Stashed : \A k \in Stashed : n <= k
         wins == Cardinality(Stashed) >= 2
     IN  work' = [f \in Files |-> IF wins /\ f \in stash[first].kept
                                  THEN stash[first].files[f] ELSE work[f]]
  /\ copy' = [copy EXCEPT !.outcome = "failed"]
  /\ phase' = "commit"
  /\ UNCHANGED <<saved, stash, kills>>

\* It stops, for these reasons or because another attempt is not worth its cost.
\* The winner is put back if it beats the last attempt: the files of it that were
\* copied, no others.
GiveUp ==
  /\ phase = "decide"
  /\ LET last == copy.rounds
         wins == /\ Cardinality(Stashed) >= 2 /\ Best # last
                 /\ last \in Stashed => Better(stash[Best], stash[last])
     IN  work' = [f \in Files |-> IF wins /\ f \in stash[Best].kept
                                  THEN stash[Best].files[f] ELSE work[f]]
  /\ copy' = [copy EXCEPT !.outcome = "failed"]
  /\ phase' = "commit"
  /\ UNCHANGED <<saved, stash, kills>>

\* commit_task, after the transcript.
CandCommit ==
  /\ phase = "commit"
  /\ saved' = copy
  /\ phase' = IF copy.outcome = "running" THEN "work" ELSE "off"
  /\ UNCHANGED <<copy, work, stash, kills>>

CandCrash ==
  /\ phase # "off" /\ kills < CandKills
  /\ kills' = kills + 1 /\ phase' = "off"
  /\ UNCHANGED <<saved, copy, work, stash>>

CandNext ==
  \/ CandTake \/ WriteFile \/ RefusedWrite \/ FinishPasses \/ FinishFails \/ TryAgain \/ GiveUp
  \/ CandCommit \/ CandCrash

CandSpec == CandInit /\ [][CandNext]_candVars

-----------------------------------------------------------------------------
(* Properties.                                                             *)

\* By the scores: is what is on disk now worse than attempt a was, over the files the
\* task's records name?
WorseThan(a) == Better(a, [a EXCEPT !.files = work, !.paths = copy.paths])

GaveUp == phase = "commit" /\ copy.outcome = "failed"

\* "Put the BEST attempt back on disk, not the last one" (_promote_best_attempt):
\* what a failed task leaves never scores worse than its last attempt did, though
\* files are scored that are not copied, unless the winner and the last attempt were
\* scored by different files.  Of the files whose writes were cut from the records
\* it says nothing: they are neither scored nor put back, and stay the last attempt's.
WorseOnlyByMixing ==
  GaveUp /\ copy.rounds \in Stashed =>
    ~WorseThan(stash[copy.rounds]) \/ stash[Best].paths # copy.paths

\* The counters may be behind the stash after a kill, by one attempt and no more,
\* and the next refusal overwrites that one: no attempt of a lost life is ever
\* compared as if it were a later one.
StashAheadByOne ==
  /\ \A n \in Stashed : n <= saved.rounds + 1
  /\ phase = "decide" /\ Stashing /\ copy.paths # {} =>
       copy.rounds \in Stashed /\ Stashed \subseteq 1..copy.rounds
=============================================================================
