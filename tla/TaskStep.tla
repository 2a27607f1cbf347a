------------------------------ MODULE TaskStep ------------------------------
(***************************************************************************)
(* One task inside one loop: Agent.run_task_step, turn after turn.         *)
(*                                                                         *)
(* A turn loads the transcript, compacts it, asks the model, does what the *)
(* first tool call says and applies the brakes.  It writes twice: the      *)
(* transcript (save_context) and then the task record (commit_task).  A    *)
(* kill between the two leaves a transcript that is ahead of its record.   *)
(*                                                                         *)
(* A message of the transcript is who says it and, for the assistant, how  *)
(* many tool calls it makes, for a tool message, which of these it answers.*)
(***************************************************************************)
EXTENDS Naturals, Sequences

CONSTANTS
  Calls,         \* tool calls, told apart by name and arguments
  StopSteps,     \* values of stop.max_steps, 0 for none
  MaxSteps,      \* max_steps
  MaxMalformed,  \* max_malformed
  MaxRejects,    \* max_done_rejects
  MaxCost,       \* max_task_usd in units of one model call, 0 for none
  WarnSame,      \* identical calls before the warning (3 in the code)
  FailSame,      \* identical calls that fail the task (5 in the code)
  EscalateAfter, \* escalate_after_errors, 0 for never
  Threshold,     \* messages above which a transcript is compacted
  KeepRecent,    \* ctx_keep_recent
  MaxExtras,     \* bound: tool calls beside the first in one message
  MaxAnswers,    \* bound: questions the owner answers
  MaxCrashes,    \* bound: kills of the loop
  CostCap        \* bound: cost is not counted beyond this

ASSUME TaskStepAssumption ==
  /\ {"finish_task", "ask_human"} \subseteq Calls
  /\ StopSteps \subseteq Nat /\ MaxSteps \in Nat \ {0}
  /\ MaxMalformed \in Nat \ {0} /\ MaxRejects \in Nat \ {0}
  /\ MaxCost \in Nat /\ CostCap \in Nat /\ MaxCost <= CostCap
  /\ WarnSame \in Nat /\ FailSame \in Nat /\ EscalateAfter \in Nat
  /\ Threshold \in Nat /\ KeepRecent \in Nat \ {0} /\ MaxExtras \in Nat
  /\ MaxAnswers \in Nat /\ MaxCrashes \in Nat

VARIABLES
  disk,      \* the task record in state.json
  ctx,       \* the transcript in contexts/<id>.json
  task,      \* the loop's copy of the record
  pc,        \* "off", "ready", "forced" (after a forced compaction), "commit"
  stopAt,    \* stop.max_steps of the task
  deadline,  \* stop.deadline: "none", "ahead", "passed"
  answers,   \* history: questions answered
  crashes

vars == <<disk, ctx, task, pc, stopAt, deadline, answers, crashes>>

Statuses == {"queued", "running", "blocked", "done", "failed"}
Record == [status : Statuses, malformed : Nat, rejects : Nat, errors : Nat,
           escalated : BOOLEAN, steps : Nat, last : Calls \cup {"none"}, same : Nat,
           cost : Nat, early : BOOLEAN]   \* early, a history: the last turn
                                          \* returned before the brakes
NewTask == [status |-> "queued", malformed |-> 0, rejects |-> 0, errors |-> 0,
            escalated |-> FALSE, steps |-> 0, last |-> "none", same |-> 0, cost |-> 0, early |-> FALSE]

User == [from |-> "user", n |-> 0]
Asst(n) == [from |-> "assistant", n |-> n]
Tool(k) == [from |-> "tool", n |-> k]
Message == [from : {"user", "assistant", "tool"}, n : 0..(1 + MaxExtras)]

TypeOK ==
  /\ disk \in Record /\ task \in Record
  /\ ctx \in Seq(Message)
  /\ pc \in {"off", "ready", "forced", "commit"}
  /\ stopAt \in StopSteps /\ deadline \in {"none", "ahead", "passed"}
  /\ answers \in Nat /\ crashes \in Nat

-----------------------------------------------------------------------------
(* The transcript.                                                         *)

\* Mutant: the cut falls where the count says.
KeptAsAsked(tail, k) == k

\* How much of the tail is kept: at least k messages, and never starting on a
\* tool result.
Kept(tail, k) ==
  CHOOSE j \in k..Len(tail) :
    /\ j = Len(tail) \/ tail[Len(tail) - j + 1].from # "tool"
    /\ \A i \in k..(j - 1) : tail[Len(tail) - i + 1].from = "tool"

Compacted(m, force) ==
  LET tail == SubSeq(m, 3, Len(m))
      least == IF force THEN 2 ELSE KeepRecent
      keep == Kept(tail, IF least < Len(tail) THEN least ELSE Len(tail))
  IN  IF (~force /\ Len(m) <= Threshold) \/ keep = Len(tail) THEN m
      ELSE SubSeq(m, 1, 2) \o <<User>> \o SubSeq(tail, Len(tail) - keep + 1, Len(tail))

\* The transcript the model is asked with.
Window == IF pc = "forced" THEN ctx ELSE Compacted(ctx, FALSE)

\* Mutant: only the call that runs is answered.
ExtraAnswersNone(x) == <<>>

\* The calls beside the first are answered before it.
ExtraAnswers(x) == [i \in 1..x |-> Tool(i + 1)]

-----------------------------------------------------------------------------
Init ==
  /\ disk = NewTask /\ task = NewTask
  /\ ctx = <<User, User>>           \* initial_messages: the system and the goal
  /\ pc = "off"
  /\ stopAt \in StopSteps /\ deadline \in {"none", "ahead"}
  /\ answers = 0 /\ crashes = 0

\* A loop claims the queued task, or adopts the running one of a dead loop.
Take ==
  /\ pc = "off" /\ disk.status \in {"queued", "running"}
  /\ disk' = [disk EXCEPT !.status = "running"]
  /\ task' = disk' /\ pc' = "ready"
  /\ UNCHANGED <<ctx, stopAt, deadline, answers, crashes>>

\* Mutant: the deadline is asked only once a step has been counted.
StopDueLate == (deadline = "passed" /\ task.steps > 0) \/ (stopAt > 0 /\ task.steps >= stopAt)

StopDue == deadline = "passed" \/ (stopAt > 0 /\ task.steps >= stopAt)

\* The task's own stop condition, asked before the model is.
Stopped ==
  /\ pc = "ready" /\ StopDue
  /\ task' = [task EXCEPT !.status = "failed"]
  /\ ctx' = Compacted(ctx, FALSE) /\ pc' = "commit"
  /\ UNCHANGED <<disk, stopAt, deadline, answers, crashes>>

MayCall == (pc = "ready" /\ ~StopDue) \/ pc = "forced"

\* call_model: no rung of the ladder answers, or the transcript still does not
\* fit after the forced compaction.
ProviderFails ==
  /\ MayCall
  /\ task' = [task EXCEPT !.status = "failed"] /\ pc' = "commit"
  /\ UNCHANGED <<disk, ctx, stopAt, deadline, answers, crashes>>

\* An exception nobody expected leaves the step; _run fails the task.
StepRaises ==
  /\ pc \in {"ready", "forced"}
  /\ task' = [task EXCEPT !.status = "failed"] /\ pc' = "commit"
  /\ UNCHANGED <<disk, ctx, stopAt, deadline, answers, crashes>>

\* The provider's gate refuses the transcript: compact it by force, save it.
Overflow ==
  /\ pc = "ready" /\ ~StopDue
  /\ ctx' = Compacted(Compacted(ctx, FALSE), TRUE) /\ pc' = "forced"
  /\ UNCHANGED <<disk, task, stopAt, deadline, answers, crashes>>

\* The model was asked and paid.
Paid == [task EXCEPT !.cost = IF task.cost < CostCap THEN task.cost + 1 ELSE CostCap]

\* A turn ends with the transcript saved and the record to be committed.
Turn(t, m, early) ==
  /\ task' = [t EXCEPT !.early = early] /\ ctx' = m /\ pc' = "commit"
  /\ UNCHANGED <<disk, stopAt, deadline, answers, crashes>>

\* No tool call, or one that cannot be parsed: the model is told, or the task
\* fails without another word.
Malformed ==
  /\ MayCall
  /\ LET t == [Paid EXCEPT !.malformed = @ + 1] IN
     \E x \in 0..(MaxExtras + 1) :      \* tool calls in the message
       LET said == Window \o <<Asst(x)>> \o (IF x > 0 THEN ExtraAnswers(x - 1) ELSE <<>>)
       IN  IF t.malformed >= MaxMalformed
           THEN Turn([t EXCEPT !.status = "failed"], said, TRUE)
           ELSE Turn(t, Append(said, IF x = 0 THEN User ELSE Tool(1)), TRUE)

\* A tool the role does not permit.
Refused ==
  /\ MayCall
  /\ \E x \in 0..MaxExtras :
       Turn(Paid, Window \o <<Asst(1 + x)>> \o ExtraAnswers(x) \o <<Tool(1)>>, TRUE)

\* Mutant: the cost ceiling is never asked.
BrakedUncosted(t) ==
  IF t.status = "running" /\ (t.same >= FailSame \/ t.steps >= MaxSteps)
  THEN [t EXCEPT !.status = "failed"] ELSE t

Braked(t) ==
  IF /\ t.status = "running"
     /\ t.same >= FailSame \/ t.steps >= MaxSteps \/ (MaxCost > 0 /\ t.cost >= MaxCost)
  THEN [t EXCEPT !.status = "failed"] ELSE t

\* The end of a counted turn: errors and escalation, the answer, the step, the
\* brakes.  t is the record after the call itself, bad whether it failed.
Counted(call, t, bad) ==
  LET errors == IF bad THEN t.errors + 1 ELSE 0
      same == IF t.last = call THEN t.same + 1 ELSE 1
  IN \E wants \in BOOLEAN, x \in 0..MaxExtras :
       LET escalates == ~t.escalated /\ (wants \/ (EscalateAfter > 0 /\ errors >= EscalateAfter))
           warned == t.status = "running" /\ same = WarnSame /\ same < FailSame
       IN  /\ wants => EscalateAfter > 0          \* a stronger model is configured
           /\ Turn(Braked([t EXCEPT !.errors = errors, !.escalated = @ \/ escalates,
                                    !.steps = @ + 1, !.last = call, !.same = same]),
                   Window \o <<Asst(1 + x)>> \o ExtraAnswers(x)
                     \o (IF escalates THEN <<User>> ELSE <<>>)
                     \o <<Tool(1)>> \o (IF warned THEN <<User>> ELSE <<>>),
                   FALSE)

Called == [Paid EXCEPT !.malformed = 0]

RunTool ==
  /\ MayCall
  /\ \E call \in Calls \ {"finish_task", "ask_human"}, bad \in BOOLEAN :
       Counted(call, Called, bad)

AskHuman ==
  /\ MayCall
  /\ Counted("ask_human", [Called EXCEPT !.status = "blocked"], FALSE)

\* Mutant: the record gets a status nobody reads.
FinishAcceptedUnknown ==
  /\ MayCall
  /\ Counted("finish_task", [Called EXCEPT !.status = "finished"], FALSE)

FinishAccepted ==
  /\ MayCall
  /\ Counted("finish_task", [Called EXCEPT !.status = "done"], FALSE)

\* The gate refuses.  The hard ceiling, or the sampling policy before it, gives up.
FinishRefused ==
  /\ MayCall
  /\ \E giveUp \in BOOLEAN :
       /\ task.rejects + 1 >= MaxRejects => giveUp
       /\ Counted("finish_task",
                  [Called EXCEPT !.rejects = @ + 1,
                                 !.status = IF giveUp THEN "failed" ELSE "running"], FALSE)

Commit ==
  /\ pc = "commit"
  /\ disk' = task
  /\ pc' = IF task.status = "running" THEN "ready" ELSE "off"
  /\ UNCHANGED <<ctx, task, stopAt, deadline, answers, crashes>>

\* Between two steps the loop may stop: a signal, safe mode.
BreakOff ==
  /\ pc = "ready" /\ pc' = "off"
  /\ UNCHANGED <<disk, ctx, task, stopAt, deadline, answers, crashes>>

Crash ==
  /\ pc # "off" /\ crashes < MaxCrashes
  /\ crashes' = crashes + 1 /\ pc' = "off"
  /\ UNCHANGED <<disk, ctx, task, stopAt, deadline, answers>>

\* answer_task: the answer joins the transcript, the task is queued again.
AnswerTask ==
  /\ disk.status = "blocked" /\ pc = "off" /\ answers < MaxAnswers
  /\ answers' = answers + 1
  /\ ctx' = Append(ctx, User)
  /\ disk' = [disk EXCEPT !.status = "queued"]
  /\ UNCHANGED <<task, pc, stopAt, deadline, crashes>>

DeadlinePasses ==
  /\ deadline = "ahead" /\ deadline' = "passed"
  /\ UNCHANGED <<disk, ctx, task, pc, stopAt, answers, crashes>>

Step ==
  \/ Stopped \/ ProviderFails \/ StepRaises \/ Overflow
  \/ Malformed \/ Refused \/ RunTool \/ AskHuman \/ FinishAccepted \/ FinishRefused
  \/ Commit

Next == Take \/ Step \/ BreakOff \/ Crash \/ AnswerTask \/ DeadlinePasses

Spec == Init /\ [][Next]_vars

\* A live loop goes on, a loop is there to take the task, and time passes.
FairSpec == Spec /\ SF_vars(Step) /\ WF_vars(Take) /\ WF_vars(DeadlinePasses)

-----------------------------------------------------------------------------
(* Properties.                                                             *)

\* Assistant message j is the one message i answers or could answer.
Precedes(m, j, i) ==
  /\ j < i /\ m[j].from = "assistant"
  /\ \A k \in (j + 1)..(i - 1) : m[k].from # "assistant"

AllAnswered(m) ==
  \A j \in 1..Len(m) : m[j].from = "assistant" =>
    \A c \in 1..m[j].n : \E i \in 1..Len(m) : Precedes(m, j, i) /\ m[i] = Tool(c)

NoOrphan(m) ==
  \A i \in 1..Len(m) : m[i].from = "tool" =>
    \E j \in 1..Len(m) : Precedes(m, j, i) /\ m[i].n <= m[j].n

\* "EVERY tool_call_id GETS AN ANSWER" (run_task_step): whenever the model is about
\* to be asked again, every call it ever made in what is left of the transcript has
\* its answer.  A kill can undo it in one place only: after the transcript of a
\* last malformed turn was saved and before the failure was committed.
CallsAreAnswered == pc \in {"ready", "forced"} /\ crashes = 0 => AllAnswered(Window)

\* "never start the kept tail on a dangling tool result" (compact_context): an
\* answer without its call is sent only in a task that was escalated, whose notice
\* stands between a call and its answer and hides the answer from the rule.
OrphansByEscalation ==
  pc \in {"ready", "forced"} /\ ~task.escalated /\ crashes = 0 => NoOrphan(Window)

\* The brakes: a task goes on above a ceiling only in two ways, a turn that returns
\* before the brakes are asked, or a question the owner answered at the ceiling;
\* and the counted steps exceed max_steps by no more than the answers.
CeilingsBind ==
  /\ task.steps <= MaxSteps + answers
  /\ pc = "ready" /\ MaxCost > 0 /\ task.cost >= MaxCost => task.early \/ answers > 0

\* A task stops being executed, or the model makes nothing but refused calls for
\* ever and has no deadline: no other way of working escapes every brake.
AttemptEnds ==
  \/ <>[](disk.status # "running")
  \/ deadline = "none" /\ <>[](disk.status = "running" /\ disk.early)
=============================================================================
