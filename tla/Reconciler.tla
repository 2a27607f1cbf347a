----------------------------- MODULE Reconciler -----------------------------
(***************************************************************************)
(* Standing controllers: an owner declares a state, and every idle tick    *)
(* that finds it drifted runs the proven procedure that restores it.       *)
(*                                                                         *)
(* A tick holds the lock of reconcilers.json while it observes and acts,   *)
(* as long as the procedures take, and saves the whole list once at its    *)
(* end.  A waiting tick takes the lock for a corpse's after twenty seconds *)
(* and an owner's command after eight.                                     *)
(***************************************************************************)
EXTENDS Naturals

CONSTANTS
  Tickers,       \* loops
  Keepers,       \* the owner's processes
  NoTick, DeadTick,
  Recs,          \* the reconcilers that may be declared
  MaxTries,      \* max_failures
  MaxOlder,      \* bound: live holders overtaken by the clock
  MaxLost,       \* bound: kills, and exceptions out of a tick
  MaxChanges      \* bound: orders of the owner, drifts of the world, changes of trust

ASSUME ReconcilerAssumption ==
  /\ NoTick \notin Tickers \cup Keepers /\ DeadTick \notin Tickers \cup Keepers
  /\ MaxTries \in Nat \ {0}
  /\ "none" \notin Recs   \* no restore runs

VARIABLES
  recs,       \* the file: recs[r]
  rlock, age, \* the holder, and 0, 1 (past 8 s) or 2 (past 20 s)
  todo,       \* todo[p]: what a tick has not looked at yet
  doing,      \* doing[p]: the reconciler whose restore runs, or "none"
  inside,     \* processes in the section
  mine,       \* mine[p]: p's copy
  looked,     \* those in the section that have something to save
  inSpec,     \* the world: is the declared state true?
  proven,     \* runbook.status of the restore
  tried,      \* history: failed restores in a row, as they happened
  older, lost, changes

rcVars == <<recs, rlock, age, todo, doing, inside, mine, looked, inSpec, proven, tried,
            older, lost, changes>>
world == <<inSpec, proven>>

Who == Tickers \cup Keepers
Statuses == {"absent", "armed", "paused", "removed", "halted"}
Files0 == [Recs -> [status : Statuses, failures : Nat]]

RcTypeOK ==
  /\ recs \in Files0 /\ mine \in [Who -> Files0]
  /\ rlock \in Who \cup {NoTick, DeadTick} /\ age \in 0..2
  /\ todo \in [Who -> SUBSET Recs] /\ doing \in [Who -> Recs \cup {"none"}]
  /\ inside \subseteq Who /\ looked \subseteq inside
  /\ inSpec \in [Recs -> BOOLEAN] /\ proven \in [Recs -> BOOLEAN]
  /\ tried \in [Recs -> Nat]
  /\ older \in Nat /\ lost \in Nat /\ changes \in Nat

RcInit ==
  /\ recs = [r \in Recs |-> [status |-> "absent", failures |-> 0]]
  /\ rlock = NoTick /\ age = 0
  /\ todo = [p \in Who |-> {}] /\ doing = [p \in Who |-> "none"]
  /\ inside = {} /\ mine = [p \in Who |-> recs] /\ looked = {}
  /\ inSpec \in [Recs -> BOOLEAN] /\ proven = [r \in Recs |-> TRUE]
  /\ tried = [r \in Recs |-> 0]
  /\ older = 0 /\ lost = 0 /\ changes = 0

-----------------------------------------------------------------------------
Changes == changes < MaxChanges /\ changes' = changes + 1

Enters(p) == /\ p \notin inside /\ rlock = NoTick
             /\ rlock' = p /\ age' = 0 /\ inside' = inside \cup {p}
             /\ looked' = IF p \in Keepers THEN looked \cup {p} ELSE looked

Exits(p) == /\ rlock' = (IF rlock = p THEN NoTick ELSE rlock)
            /\ age' = (IF rlock = p THEN 0 ELSE age)
            /\ inside' = inside \ {p} /\ looked' = looked \ {p}

Older ==
  /\ rlock # NoTick /\ age < 2 /\ age' = age + 1
  /\ IF rlock = DeadTick THEN UNCHANGED older
     ELSE older < MaxOlder /\ older' = older + 1
  /\ UNCHANGED <<recs, rlock, todo, doing, looked, inside, mine, world, tried, lost, changes>>

\* Mutant: whoever wants the lock takes it away.
BreakAtOnce ==
  /\ rlock # NoTick /\ rlock' = NoTick /\ age' = 0
  /\ UNCHANGED <<recs, todo, doing, looked, inside, mine, world, tried, older, lost, changes>>

\* An owner's command breaks the lock at eight seconds, a tick at twenty.
BreakLock ==
  /\ \E p \in Who \ inside : age = 2 \/ (age = 1 /\ p \in Keepers)
  /\ rlock' = NoTick /\ age' = 0
  /\ UNCHANGED <<recs, todo, doing, looked, inside, mine, world, tried, older, lost, changes>>

-----------------------------------------------------------------------------
\* add, pause, resume, remove: what the owner may make of item r.
Commands(it) ==
  IF it.status = "absent" THEN {[status |-> "armed", failures |-> 0]}
  ELSE {[it EXCEPT !.status = "paused"], [it EXCEPT !.status = "removed"],
        [status |-> "armed", failures |-> 0]}

\* _locked: load, change, save.  The order is a step, the save is another.
Command(p) ==
  /\ Enters(p) /\ Changes
  /\ \E r \in Recs : \E it \in Commands(recs[r]) :
       /\ mine' = [mine EXCEPT ![p] = [recs EXCEPT ![r] = it]]
       /\ tried' = IF it.status = "armed" THEN [tried EXCEPT ![r] = 0] ELSE tried
  /\ UNCHANGED <<recs, todo, doing, world, older, lost>>

-----------------------------------------------------------------------------
\* Mutant: one that failed is never due again.
TickStartsFresh(p) ==
  /\ Enters(p)
  /\ mine' = [mine EXCEPT ![p] = recs]
  /\ todo' = [todo EXCEPT ![p] = {r \in Recs : recs[r] = [status |-> "armed", failures |-> 0]}]
  /\ UNCHANGED <<recs, doing, world, tried, older, lost, changes>>

TickStarts(p) ==
  /\ Enters(p)
  /\ mine' = [mine EXCEPT ![p] = recs]
  /\ todo' = [todo EXCEPT ![p] = {r \in Recs : recs[r].status = "armed"}]
  /\ UNCHANGED <<recs, doing, world, tried, older, lost, changes>>

\* Not due yet: backing off, or looked at a moment ago.
NotDue(p) ==
  /\ doing[p] = "none"
  /\ \E r \in todo[p] : todo' = [todo EXCEPT ![p] = @ \ {r}]
  /\ UNCHANGED <<recs, rlock, age, doing, looked, inside, mine, world, tried, older, lost, changes>>

\* Due: in spec, blocked by an unproven restore, or the restore starts.
Observe(p) ==
  /\ doing[p] = "none"
  /\ \E r \in todo[p] :
       /\ todo' = [todo EXCEPT ![p] = @ \ {r}]
       /\ looked' = looked \cup {p}
       /\ \/ /\ inSpec[r] /\ mine' = [mine EXCEPT ![p][r].failures = 0]
             /\ tried' = [tried EXCEPT ![r] = 0] /\ UNCHANGED doing
          \/ ~inSpec[r] /\ ~proven[r] /\ UNCHANGED <<mine, tried, doing>>
          \/ /\ ~inSpec[r] /\ proven[r] /\ doing' = [doing EXCEPT ![p] = r]
             /\ UNCHANGED <<mine, tried>>
  /\ UNCHANGED <<recs, rlock, age, inside, world, older, lost, changes>>

Repaired(p) ==
  /\ doing[p] # "none" /\ doing' = [doing EXCEPT ![p] = "none"]
  /\ inSpec' = [inSpec EXCEPT ![doing[p]] = TRUE]
  /\ mine' = [mine EXCEPT ![p][doing[p]].failures = 0]
  /\ tried' = [tried EXCEPT ![doing[p]] = 0]
  /\ UNCHANGED <<recs, rlock, age, todo, looked, inside, proven, older, lost, changes>>

\* Mutant: the ceiling is one too high.
FailedLate(p) ==
  /\ doing[p] # "none" /\ doing' = [doing EXCEPT ![p] = "none"]
  /\ LET n == mine[p][doing[p]].failures + 1 IN
       mine' = [mine EXCEPT ![p][doing[p]] =
                  [status |-> IF n > MaxTries THEN "halted" ELSE @.status, failures |-> n]]
  /\ tried' = [tried EXCEPT ![doing[p]] = @ + 1]
  /\ UNCHANGED <<recs, rlock, age, todo, looked, inside, world, older, lost, changes>>

\* The restore did not run, or ran and the state is not back: count, or halt.
Failed(p) ==
  /\ doing[p] # "none" /\ doing' = [doing EXCEPT ![p] = "none"]
  /\ LET n == mine[p][doing[p]].failures + 1 IN
       mine' = [mine EXCEPT ![p][doing[p]] =
                  [status |-> IF n >= MaxTries THEN "halted" ELSE @.status, failures |-> n]]
  /\ tried' = [tried EXCEPT ![doing[p]] = @ + 1]
  /\ UNCHANGED <<recs, rlock, age, todo, looked, inside, world, older, lost, changes>>

\* One save of the whole list, if anything was due, and the release.
Saves(p) ==
  /\ p \in inside /\ todo[p] = {} /\ doing[p] = "none"
  /\ recs' = (IF p \in looked THEN mine[p] ELSE recs) /\ Exits(p)
  /\ UNCHANGED <<todo, doing, mine, world, tried, older, lost, changes>>

\* An exception leaves the section, a kill leaves the lock file behind; either
\* way what was counted is not saved.  A restore may have failed unseen.
Lost(p) ==
  /\ p \in inside /\ lost < MaxLost /\ lost' = lost + 1
  /\ \/ Exits(p)
     \/ /\ inside' = inside \ {p} /\ looked' = looked \ {p} /\ UNCHANGED age
        /\ rlock' = IF rlock = p THEN DeadTick ELSE rlock
  /\ tried' = IF doing[p] = "none" THEN tried ELSE [tried EXCEPT ![doing[p]] = @ + 1]
  /\ todo' = [todo EXCEPT ![p] = {}] /\ doing' = [doing EXCEPT ![p] = "none"]
  /\ UNCHANGED <<recs, mine, world, older, changes>>

\* The world drifts or is put right by somebody else, a restore loses its trust or is proven again.
Drift ==
  /\ Changes
  /\ \E r \in Recs :
       \/ inSpec' = [inSpec EXCEPT ![r] = ~@] /\ UNCHANGED proven
       \/ proven' = [proven EXCEPT ![r] = ~@] /\ UNCHANGED inSpec
  /\ UNCHANGED <<recs, looked, rlock, age, todo, doing, inside, mine, tried, older, lost>>

TickStep(p) == Observe(p) \/ Repaired(p) \/ Failed(p) \/ Saves(p)

RcNext ==
  \/ \E p \in Keepers : Command(p) \/ Saves(p)
  \/ \E p \in Tickers : TickStarts(p) \/ NotDue(p) \/ TickStep(p)
  \/ \E p \in Who : Lost(p)
  \/ Older \/ BreakLock \/ Drift

RcSpec == RcInit /\ [][RcNext]_rcVars

-----------------------------------------------------------------------------
(* Properties.                                                             *)

\* "Stop and ask, never loop" (_halt_question): a restore that does not restore
\* is tried max_failures times in a row, once more for each tick whose counting
\* was lost, and all over again when an overtaken tick saves what it had read.
HaltsAtCeiling == \A r \in Recs : tried[r] <= MaxTries * (1 + older) + lost

\* The owner's order stands until the owner's next one.
OrderHolds ==
  [][older' = 0 =>
       \A r \in Recs :
         recs'[r].status # recs[r].status /\ recs[r].status \in {"paused", "removed", "halted"}
           => \E p \in Keepers \cap inside : p \notin inside']_rcVars

\* A drifted state is restored, halted on, or left to the owner.
Converges ==
  \A r \in Recs : (recs[r].status = "armed" /\ ~inSpec[r])
                    ~> (inSpec[r] \/ recs[r].status # "armed" \/ ~proven[r])
=============================================================================
