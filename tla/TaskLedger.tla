----------------------------- MODULE TaskLedger -----------------------------
(***************************************************************************)
(* What the task queue promises its owner, without loops, locks, files or  *)
(* archives: a task is queued, executed by one loop at a time, may block   *)
(* on the human and come back, survives the loss of its executor, and once *)
(* done or failed never changes again.                                     *)
(***************************************************************************)
CONSTANTS Tasks, Loops

VARIABLES
  life,      \* life[t]: unborn, queued, running, blocked, done or failed
  executors  \* executors[t]: the loops executing t

vars == <<life, executors>>

Init ==
  /\ life = [t \in Tasks |-> "unborn"]
  /\ executors = [t \in Tasks |-> {}]

Becomes(t, from, to) == life[t] = from /\ life' = [life EXCEPT ![t] = to]

Submit(t) == Becomes(t, "unborn", "queued") /\ UNCHANGED executors

\* Only a task nobody executes can be taken, from the queue or over.
Take(p, t) ==
  /\ life[t] \in {"queued", "running"} /\ executors[t] = {}
  /\ life' = [life EXCEPT ![t] = "running"]
  /\ executors' = [executors EXCEPT ![t] = {p}]

\* The executor stops between steps or dies; the task stays running.
Abandon(p, t) ==
  /\ p \in executors[t]
  /\ executors' = [executors EXCEPT ![t] = {}]
  /\ UNCHANGED life

\* Only its executor ends a task or blocks it.
Conclude(p, t, outcome) ==
  /\ executors[t] = {p}
  /\ Becomes(t, "running", outcome)
  /\ executors' = [executors EXCEPT ![t] = {}]

Answer(t) == Becomes(t, "blocked", "queued") /\ UNCHANGED executors

Next == \E t \in Tasks :
  \/ Submit(t) \/ Answer(t)
  \/ \E p \in Loops :
       \/ Take(p, t) \/ Abandon(p, t)
       \/ \E outcome \in {"done", "failed", "blocked"} : Conclude(p, t, outcome)

Spec == Init /\ [][Next]_vars
=============================================================================
