---------------------------- MODULE Prospective ----------------------------
(***************************************************************************)
(* Prospective memory: "WHEN <condition> THEN <queue this task>".          *)
(*                                                                         *)
(* The ledger prospective.json is read, edited and written whole, by the   *)
(* loops' idle ticks (check) and by the owner (add, cancel), each inside   *)
(* locks.holding: waiting five seconds for a lock that is taken for a      *)
(* corpse's after eight.  A check that cannot get it skips; an owner goes  *)
(* on without it.  A check queues the task of a due intention at once and  *)
(* marks the intention by its save at the end.                             *)
(***************************************************************************)
EXTENDS Naturals, Sequences, SequencesExt, FiniteSets

CONSTANTS
  Checkers,      \* loops whose idle tick checks the ledger
  Askers,        \* processes of the owner: panel, command line, workflows
  NoProc, Corpse,
  MaxIntents,    \* bound: intentions an owner adds
  Kinds,         \* of conditions: "once", "event", "repeat", "change", "every", "after"
  ConsumedCap,   \* consumed[-200:]
  MaxOcc,        \* bound: occurrences of the conditions
  MaxTasks,      \* bound: tasks queued
  MaxFaults      \* bound: locks broken under a live holder or done without, kills,
                 \* and mutex timeouts out of add_task

ASSUME ProspectiveAssumption ==
  /\ NoProc \notin Checkers \cup Askers /\ Corpse \notin Checkers \cup Askers
  /\ MaxIntents \in Nat /\ ConsumedCap \in Nat /\ MaxTasks \in Nat
  /\ Kinds \subseteq {"once", "event", "repeat", "change", "every", "after"}

VARIABLES
  ledger,     \* the file: a sequence of items
  made,       \* intentions created so far
  kind,       \* kind[i]: the condition intention i waits for; "after" is the task of i - 1
  lock, aged, \* who wrote the lock file, and whether it is past eight seconds
  at,         \* at[p]: 0 outside; the item a check looks at; past the end to save
  copy, dirty,
  occ,        \* occ[i]: how often i's condition has come true
  board,      \* board[n]: the intention that queued task n
  finished,   \* the tasks that are done
  overlaps, failures

pmVars == <<ledger, made, kind, lock, aged, at, copy, dirty, occ, board, finished,
            overlaps, failures>>
procVars == <<at, copy, dirty>>

Procs == Checkers \cup Askers
Intents == 1..MaxIntents

Item == [id : Intents, status : {"armed", "fired", "cancelled"},
         seen : Seq(Nat),      \* consumed events, or the last content or day seen
         task : Nat]           \* fired_task, 0 for none

PmTypeOK ==
  /\ ledger \in Seq(Item) /\ made \in Nat /\ kind \in [Intents -> Kinds \cup {"none"}]
  /\ lock \in Procs \cup {NoProc, Corpse} /\ aged \in BOOLEAN
  /\ at \in [Procs -> Nat] /\ copy \in [Procs -> Seq(Item)]
  /\ dirty \in [Procs -> BOOLEAN]
  /\ occ \in [Intents -> Nat]
  /\ board \in Seq(Intents) /\ finished \subseteq 1..Len(board)
  /\ overlaps \in Nat /\ failures \in Nat

PmInit ==
  /\ ledger = <<>> /\ made = 0 /\ kind = [i \in Intents |-> "none"]
  /\ lock = NoProc /\ aged = FALSE
  /\ at = [p \in Procs |-> 0] /\ copy = [p \in Procs |-> <<>>]
  /\ dirty = [p \in Procs |-> FALSE]
  /\ occ = [i \in Intents |-> 0]
  /\ board = <<>> /\ finished = {}
  /\ overlaps = 0 /\ failures = 0

-----------------------------------------------------------------------------
\* Mutant: the lock file stays.
ReleasedNever(p) == UNCHANGED <<lock, aged>>

\* locks.holding, as far as a ledger sees it; FileMutex has its inside.
Released(p) == /\ lock' = IF lock = p THEN NoProc ELSE lock
               /\ aged' = (aged /\ lock # p)

Leave(p) == /\ Released(p)
            /\ at' = [at EXCEPT ![p] = 0]
            /\ copy' = [copy EXCEPT ![p] = <<>>]
            /\ dirty' = [dirty EXCEPT ![p] = FALSE]

Takes(p) == lock = NoProc /\ lock' = p /\ aged' = FALSE

\* A corpse ages; a live holder does behind a slow probe or a stall.
Ages ==
  /\ lock # NoProc /\ ~aged /\ aged' = TRUE
  /\ IF lock = Corpse THEN UNCHANGED overlaps
     ELSE overlaps + failures < MaxFaults /\ overlaps' = overlaps + 1
  /\ UNCHANGED <<ledger, made, kind, lock, procVars, occ, board, finished, failures>>

\* Another process that wants the lock removes the old file.
Break ==
  /\ aged /\ \E p \in Procs : at[p] = 0
  /\ lock' = NoProc /\ aged' = FALSE
  /\ UNCHANGED <<ledger, made, kind, procVars, occ, board, finished, overlaps, failures>>

-----------------------------------------------------------------------------
\* add and cancel, on the ledger as it was read.
New(i, k) == [id |-> i, status |-> "armed", task |-> 0,
              seen |-> IF k = "every" THEN <<occ[i]>> ELSE <<>>]

Adds(p) ==
  /\ made + 1 \in Intents /\ made' = made + 1
  /\ \E k \in Kinds :
       /\ k = "after" => made > 0
       /\ kind' = [kind EXCEPT ![made + 1] = k]
       /\ copy' = [copy EXCEPT ![p] = Append(ledger, New(made + 1, k))]

Cancels(p) ==
  /\ \E n \in DOMAIN ledger :
       /\ ledger[n].status = "armed"
       /\ copy' = [copy EXCEPT ![p] = [ledger EXCEPT ![n].status = "cancelled"]]
  /\ UNCHANGED <<made, kind>>

Edits(p) ==
  /\ at[p] = 0 /\ (Adds(p) \/ Cancels(p))
  /\ at' = [at EXCEPT ![p] = Len(copy'[p]) + 1]
  /\ dirty' = [dirty EXCEPT ![p] = TRUE]
  /\ UNCHANGED <<ledger, occ, board, finished, failures>>

\* Mutant: add and cancel never ask for the lock, as they once did not.
EditAnyway(p) == Edits(p) /\ UNCHANGED <<lock, aged, overlaps>>

Edit(p) == Edits(p) /\ Takes(p) /\ UNCHANGED overlaps

\* TimeoutError: the edit is made without the lock.
EditUnlocked(p) ==
  /\ Edits(p) /\ lock # NoProc
  /\ overlaps + failures < MaxFaults /\ overlaps' = overlaps + 1
  /\ UNCHANGED <<lock, aged>>

-----------------------------------------------------------------------------
\* A check takes the lock and reads; on a busy one it skips the tick.
Check(p) ==
  /\ at[p] = 0 /\ ledger # <<>> /\ Takes(p)
  /\ at' = [at EXCEPT ![p] = 1] /\ copy' = [copy EXCEPT ![p] = ledger]
  /\ UNCHANGED <<ledger, made, kind, dirty, occ, board, finished, overlaps, failures>>

Unconsumed(it) == 1..occ[it.id] \ ToSet(it.seen)

\* _due.  "after" resolves the earlier intention's task in the copy, which has
\* the tasks this very tick has queued.
Due(p, it) ==
  CASE kind[it.id] = "once" -> occ[it.id] > 0
    [] kind[it.id] \in {"event", "repeat"} -> Unconsumed(it) # {}
    [] kind[it.id] = "change" -> it.seen # <<>> /\ Last(it.seen) # occ[it.id]
    [] kind[it.id] = "every" -> Last(it.seen) < occ[it.id]
    [] kind[it.id] = "after" ->
         \E n \in DOMAIN copy[p] :
            copy[p][n].id = it.id - 1 /\ copy[p][n].task \in finished

Polled(it) == kind[it.id] = "change"     \* rate-limited, and not always observable

\* Mutant: the item of a fired intention is a record no reader knows.
FiredAsDone(it, n) == [it EXCEPT !.task = n, !.status = "done"]

\* The item after firing as task n.
FiredAs(it, n) ==
  LET stays == kind[it.id] \in {"repeat", "change", "every"}
      consumed == Append(it.seen, Min(Unconsumed(it)))
  IN  [it EXCEPT !.task = n, !.status = IF stays THEN "armed" ELSE "fired",
         !.seen = CASE kind[it.id] \in {"event", "repeat"} ->
                         SubSeq(consumed, IF Len(consumed) > ConsumedCap
                                          THEN Len(consumed) - ConsumedCap + 1 ELSE 1,
                                Len(consumed))
                    [] kind[it.id] \in {"change", "every"} -> <<occ[it.id]>>
                    [] OTHER -> @]

Looking(p) == at[p] \in 1..Len(copy[p])
Looked(p) == copy[p][at[p]]
Steps(p, it) == /\ copy' = [copy EXCEPT ![p][at[p]] = it]
                /\ at' = [at EXCEPT ![p] = @ + 1]

Fire(p) ==
  /\ Looking(p) /\ Looked(p).status = "armed" /\ Due(p, Looked(p))
  /\ Len(board) < MaxTasks
  /\ board' = Append(board, Looked(p).id)
  /\ Steps(p, FiredAs(Looked(p), Len(board) + 1))
  /\ dirty' = [dirty EXCEPT ![p] = TRUE]
  /\ UNCHANGED <<ledger, made, kind, lock, aged, occ, finished, overlaps, failures>>

\* Not armed, not due, or a probe that is too early or finds nothing to look at.
Pass(p) ==
  /\ Looking(p)
  /\ LET it == Looked(p) IN
       /\ it.status = "armed" /\ Due(p, it) => Polled(it)
       /\ \/ Steps(p, it) /\ UNCHANGED dirty
          \/ /\ Polled(it) /\ it.status = "armed" /\ ~Due(p, it)
             /\ Steps(p, [it EXCEPT !.seen = <<occ[it.id]>>])   \* the baseline
             /\ dirty' = [dirty EXCEPT ![p] = TRUE]
  /\ UNCHANGED <<ledger, made, kind, lock, aged, occ, board, finished, overlaps, failures>>

\* The state mutex is busy for ten seconds: add_task raises, nothing is saved.
FireRaises(p) ==
  /\ Looking(p) /\ Looked(p).status = "armed" /\ Due(p, Looked(p))
  /\ overlaps + failures < MaxFaults /\ failures' = failures + 1
  /\ Leave(p)
  /\ UNCHANGED <<ledger, made, kind, occ, board, finished, overlaps>>

\* Mutant: what a check marked is not written.
SaveNothing(p) ==
  /\ at[p] > Len(copy[p]) /\ Leave(p)
  /\ ledger' = IF p \in Askers THEN copy[p] ELSE ledger
  /\ UNCHANGED <<made, kind, occ, board, finished, overlaps, failures>>

\* The one save of the section, if there is anything to save, and the release.
Save(p) ==
  /\ at[p] > Len(copy[p]) /\ Leave(p)
  /\ ledger' = IF dirty[p] THEN copy[p] ELSE ledger
  /\ UNCHANGED <<made, kind, occ, board, finished, overlaps, failures>>

\* A kill inside the section leaves the lock file.
PmCrash(p) ==
  /\ at[p] # 0 /\ overlaps + failures < MaxFaults /\ failures' = failures + 1
  /\ lock' = IF lock = p THEN Corpse ELSE lock
  /\ at' = [at EXCEPT ![p] = 0] /\ copy' = [copy EXCEPT ![p] = <<>>]
  /\ dirty' = [dirty EXCEPT ![p] = FALSE]
  /\ UNCHANGED <<ledger, made, kind, aged, occ, board, finished, overlaps>>

\* The world: a deadline passes, an event arrives, a file changes, a day elapses.
Happens ==
  /\ FoldFunction(+, 0, occ) < MaxOcc
  /\ \E i \in 1..made : kind[i] # "after" /\ occ' = [occ EXCEPT ![i] = @ + 1]
  /\ UNCHANGED <<ledger, made, kind, lock, aged, procVars, board, finished, overlaps, failures>>

\* A task is done, one that a later intention waits for.
TaskDone ==
  /\ \E n \in DOMAIN board \ finished :
       /\ board[n] < made /\ kind[board[n] + 1] = "after"
       /\ finished' = finished \cup {n}
  /\ UNCHANGED <<ledger, made, kind, lock, aged, procVars, occ, board, overlaps, failures>>

Ticks(p) == Fire(p) \/ Pass(p) \/ Save(p)

PmNext ==
  \/ \E p \in Askers : Edit(p) \/ EditUnlocked(p) \/ Save(p)
  \/ \E p \in Checkers : Check(p) \/ Ticks(p) \/ FireRaises(p)
  \/ \E p \in Procs : PmCrash(p)
  \/ Ages \/ Break \/ Happens \/ TaskDone

PmSpec == PmInit /\ [][PmNext]_pmVars

-----------------------------------------------------------------------------
(* Properties.                                                             *)

TasksOf(i) == Cardinality({n \in DOMAIN board : board[n] = i})

\* What i was armed for: once, every occurrence, or once its stage is reached.
\* Events that outnumber what consumed remembers come again and again.
Forgets(i) == kind[i] = "repeat" /\ occ[i] > ConsumedCap
Occasions(i) ==
  CASE kind[i] \in {"once", "event"} -> IF occ[i] > 0 THEN 1 ELSE 0
    [] Forgets(i) -> MaxTasks
    [] kind[i] \in {"repeat", "change", "every"} /\ ~Forgets(i) -> occ[i]
    [] OTHER -> IF \E k \in finished : board[k] = i - 1 THEN 1 ELSE 0

\* An intention queues one task for each occasion.  The double firing that was
\* "measured live" needs a fault, and each fault repeats an occasion at most once:
\* a lock taken from a live holder or done without, a kill, or an add_task that
\* raised after others had fired.
FiredOncePerFault ==
  \A i \in 1..made : TasksOf(i) <= Occasions(i) * (1 + overlaps + failures)

\* "Every writer of this ledger takes the lock": while it is neither broken
\* under a live holder nor done without, no intention disappears, and one that
\* was fired or cancelled is not armed again.
HistoryKept ==
  [][overlaps' = 0 =>
       \A n \in DOMAIN ledger :
         /\ n \in DOMAIN ledger' /\ ledger'[n].id = ledger[n].id
         /\ ledger[n].status # "armed" => ledger'[n].status = ledger[n].status]_pmVars

\* An armed intention whose condition has come true is served: in the end none
\* is left waiting in the ledger.
Waiting == \E n \in DOMAIN ledger :
             /\ ledger[n].status = "armed" /\ kind[ledger[n].id] \in {"once", "event", "repeat"}
             /\ Unconsumed(ledger[n]) # {} /\ ~Forgets(ledger[n].id)
Fires == Waiting ~> ~Waiting
=============================================================================
