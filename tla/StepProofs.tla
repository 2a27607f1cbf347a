----------------------------- MODULE StepProofs -----------------------------
(***************************************************************************)
(* One task's turns, for any tools, ceilings and thresholds and any number *)
(* of answers and kills: the brakes bind, every call of the transcript is  *)
(* answered, the stash of refused work is at most one attempt ahead, and   *)
(* what is put back from it is not worse than what it replaces.            *)
(***************************************************************************)
EXTENDS MCStep, FiniteSetTheorems, SequenceTheorems, WellFoundedInduction, TLAPS
-----------------------------------------------------------------------------
(* The task record under its brakes (TaskStep).                            *)

\* The smallest of some numbers.
LEMMA Smallest == ASSUME NEW T \in SUBSET Nat, T # {} PROVE \E j \in T : \A i \in T : j <= i
<1>1. PICK j \in T : \A i \in T : ~(<<i, j>> \in OpToRel(<, Nat))
  BY NatLessThanWellFounded, WFMin
<1>2. \A i \in T : ~(i < j) BY <1>1 DEF OpToRel
<1> QED BY <1>2

LEMMA BrakedFacts ==
  ASSUME NEW t \in Record
  PROVE  /\ Braked(t) \in Record
         /\ Braked(t).steps = t.steps /\ Braked(t).cost = t.cost /\ Braked(t).escalated = t.escalated
         /\ Braked(t).status \in {t.status, "failed"}
         /\ Braked(t).status = "running" => t.steps < MaxSteps /\ (MaxCost > 0 => t.cost < MaxCost)
<1>1. [t EXCEPT !.status = "failed"] \in Record BY DEF Record, Statuses
<1>2. t.steps \in Nat /\ t.cost \in Nat /\ MaxSteps \in Nat /\ MaxCost \in Nat
  BY TaskStepAssumption DEF Record
<1>3. CASE Braked(t) = t /\ (t.status = "running" => t.steps < MaxSteps /\ (MaxCost > 0 => t.cost < MaxCost))
  BY <1>3
<1>4. CASE Braked(t) = [t EXCEPT !.status = "failed"]
  BY <1>1, <1>4 DEF Record
<1> QED BY <1>2, <1>3, <1>4 DEF Braked

\* What a counted turn leaves behind.
LEMMA CountedFacts ==
  ASSUME NEW call \in Calls, NEW t \in Record, NEW bad \in BOOLEAN, Counted(call, t, bad)
  PROVE  /\ task' \in Record /\ task'.steps = t.steps + 1 /\ task'.cost = t.cost
         /\ task'.status \in {t.status, "failed"}
         /\ task'.status = "running" => task'.steps < MaxSteps /\ (MaxCost > 0 => task'.cost < MaxCost)
         /\ pc' = "commit" /\ UNCHANGED <<disk, stopAt, deadline, answers, crashes>>
         /\ \E esc \in BOOLEAN, x \in 0..MaxExtras, warned \in BOOLEAN :
              /\ task'.escalated = (t.escalated \/ esc)
              /\ ctx' = Window \o <<Asst(1 + x)>> \o ExtraAnswers(x)
                          \o (IF esc THEN <<User>> ELSE <<>>) \o <<Tool(1)>>
                          \o (IF warned THEN <<User>> ELSE <<>>)
<1> DEFINE errors == IF bad THEN t.errors + 1 ELSE 0
           same == IF t.last = call THEN t.same + 1 ELSE 1
           Esc(wants) == ~t.escalated /\ (wants \/ (EscalateAfter > 0 /\ errors >= EscalateAfter))
           Warned == t.status = "running" /\ same = WarnSame /\ same < FailSame
           r(wants) == [t EXCEPT !.errors = errors, !.escalated = @ \/ Esc(wants),
                                 !.steps = @ + 1, !.last = call, !.same = same]
<1>1. PICK wants \in BOOLEAN, x \in 0..MaxExtras :
        Turn(Braked(r(wants)),
             Window \o <<Asst(1 + x)>> \o ExtraAnswers(x) \o (IF Esc(wants) THEN <<User>> ELSE <<>>)
               \o <<Tool(1)>> \o (IF Warned THEN <<User>> ELSE <<>>), FALSE)
  BY Zenon DEF Counted
<1> HIDE DEF Esc, Warned
<1>2. t.errors \in Nat /\ t.same \in Nat /\ t.steps \in Nat /\ t.cost \in Nat BY DEF Record
<1>3. errors \in Nat /\ same \in Nat BY <1>2
<1>4. Esc(wants) \in BOOLEAN /\ Warned \in BOOLEAN BY DEF Esc, Warned
<1> HIDE DEF errors, same
<1>5. r(wants) \in Record
  <2>1. \A e \in Nat, b \in BOOLEAN, n \in Nat, k \in Nat :
          [t EXCEPT !.errors = e, !.escalated = b, !.steps = n, !.last = call, !.same = k] \in Record
    BY DEF Record
  <2>2. (t.escalated \/ Esc(wants)) \in BOOLEAN /\ t.steps + 1 \in Nat BY <1>2
  <2> QED BY <1>3, <2>1, <2>2
<1>6. /\ r(wants).steps = t.steps + 1 /\ r(wants).cost = t.cost /\ r(wants).status = t.status
      /\ r(wants).escalated = (t.escalated \/ Esc(wants))
  BY DEF Record
<1> HIDE DEF r
<1>7. task' = [Braked(r(wants)) EXCEPT !.early = FALSE] /\ pc' = "commit"
      /\ UNCHANGED <<disk, stopAt, deadline, answers, crashes>>
      /\ ctx' = Window \o <<Asst(1 + x)>> \o ExtraAnswers(x) \o (IF Esc(wants) THEN <<User>> ELSE <<>>)
                 \o <<Tool(1)>> \o (IF Warned THEN <<User>> ELSE <<>>)
  BY <1>1 DEF Turn
<1>8. /\ Braked(r(wants)) \in Record /\ Braked(r(wants)).steps = r(wants).steps
      /\ Braked(r(wants)).cost = r(wants).cost /\ Braked(r(wants)).escalated = r(wants).escalated
      /\ Braked(r(wants)).status \in {r(wants).status, "failed"}
      /\ Braked(r(wants)).status = "running" =>
           r(wants).steps < MaxSteps /\ (MaxCost > 0 => r(wants).cost < MaxCost)
  BY <1>5, BrakedFacts
<1>9. /\ task' \in Record /\ task'.steps = Braked(r(wants)).steps /\ task'.cost = Braked(r(wants)).cost
      /\ task'.status = Braked(r(wants)).status /\ task'.escalated = Braked(r(wants)).escalated
  BY <1>7, <1>8 DEF Record
<1>10. \E esc \in BOOLEAN, y \in 0..MaxExtras, w \in BOOLEAN :
         /\ task'.escalated = (t.escalated \/ esc)
         /\ ctx' = Window \o <<Asst(1 + y)>> \o ExtraAnswers(y) \o (IF esc THEN <<User>> ELSE <<>>)
                     \o <<Tool(1)>> \o (IF w THEN <<User>> ELSE <<>>)
  <2>1. task'.escalated = (t.escalated \/ Esc(wants)) BY <1>6, <1>8, <1>9
  <2> QED BY <1>4, <1>7, <2>1, Zenon
<1>11. /\ task' \in Record /\ task'.steps = t.steps + 1 /\ task'.cost = t.cost
       /\ task'.status \in {t.status, "failed"}
       /\ task'.status = "running" => task'.steps < MaxSteps /\ (MaxCost > 0 => task'.cost < MaxCost)
  BY <1>6, <1>8, <1>9
<1> QED BY <1>7, <1>10, <1>11

\* The record a running task goes on with: below every ceiling that was asked.
Below(t) ==
  /\ t.steps < MaxSteps + answers
  /\ MaxCost > 0 /\ t.cost >= MaxCost => t.early \/ answers > 0

StepInv ==
  /\ task \in Record /\ disk \in Record /\ answers \in Nat
  /\ pc \in {"off", "ready", "forced", "commit"}
  /\ task.steps <= MaxSteps + answers /\ disk.steps <= MaxSteps + answers
  /\ disk.status \in {"queued", "running"} => Below(disk)
  /\ pc \in {"ready", "forced"} => task.status = "running" /\ Below(task)
  /\ pc = "commit" => task.status # "queued" /\ (task.status = "running" => Below(task))

LEMMA StepStarts == Init => StepInv
<1> SUFFICES ASSUME Init PROVE StepInv OBVIOUS
<1>1. NewTask \in Record /\ task = NewTask /\ disk = NewTask /\ answers = 0 /\ pc = "off"
  BY DEF NewTask, Record, Statuses, Init
<1>2. task.steps = 0 /\ disk.steps = 0 /\ task.cost = 0 /\ disk.cost = 0 BY <1>1 DEF NewTask
<1> QED BY <1>1, <1>2, TaskStepAssumption DEF StepInv, Below

LEMMA PaidFacts ==
  ASSUME task \in Record
  PROVE  /\ Paid \in Record /\ Paid.steps = task.steps /\ Paid.status = task.status
         /\ Paid.escalated = task.escalated
         /\ Called \in Record /\ Called.steps = task.steps /\ Called.status = task.status
         /\ Called.escalated = task.escalated
<1>1. task.cost \in Nat /\ CostCap \in Nat BY TaskStepAssumption DEF Record
<1>2. (IF task.cost < CostCap THEN task.cost + 1 ELSE CostCap) \in Nat BY <1>1
<1>3. Paid \in Record /\ Paid.steps = task.steps /\ Paid.status = task.status /\ Paid.escalated = task.escalated
  BY <1>2 DEF Paid, Record
<1> QED BY <1>3 DEF Called, Record

\* A counted turn ends below the ceilings, or does not go on.
LEMMA CountedInv ==
  ASSUME StepInv, pc \in {"ready", "forced"}, NEW call \in Calls, NEW t \in Record, NEW bad \in BOOLEAN,
         t.steps = task.steps, t.status # "queued", Counted(call, t, bad)
  PROVE  StepInv'
<1>1. /\ task' \in Record /\ task'.steps = t.steps + 1
      /\ task'.status \in {t.status, "failed"}
      /\ task'.status = "running" => task'.steps < MaxSteps /\ (MaxCost > 0 => task'.cost < MaxCost)
      /\ pc' = "commit" /\ UNCHANGED <<disk, answers>>
  BY CountedFacts
<1>2. task.steps \in Nat /\ answers \in Nat /\ MaxSteps \in Nat /\ task'.cost \in Nat /\ MaxCost \in Nat
  BY <1>1, TaskStepAssumption DEF StepInv, Record
<1>3. task'.steps <= MaxSteps + answers BY <1>1, <1>2 DEF StepInv, Below
<1>4. task'.status = "running" => Below(task)'
  BY <1>1, <1>2 DEF Below
<1>5. disk'.status \in {"queued", "running"} => Below(disk)' BY <1>1 DEF StepInv, Below
<1> QED BY <1>1, <1>2, <1>3, <1>4, <1>5 DEF StepInv

\* A turn without a counted step: more is spent, and the record says it ended early.
LEMMA EarlyInv ==
  ASSUME StepInv, pc \in {"ready", "forced"}, task' \in Record, task'.steps = task.steps,
         task'.status # "queued", task'.status = "running" => task'.early, pc' = "commit",
         UNCHANGED <<disk, answers>>
  PROVE  StepInv'
<1>1. task'.status = "running" => Below(task)' BY DEF StepInv, Below
<1>2. disk'.status \in {"queued", "running"} => Below(disk)' BY DEF StepInv, Below
<1> QED BY <1>1, <1>2 DEF StepInv, Below

LEMMA StepKeeps == StepInv /\ [Next]_vars => StepInv'
<1> SUFFICES ASSUME StepInv, [Next]_vars PROVE StepInv' OBVIOUS
<1>0. task \in Record /\ disk \in Record BY DEF StepInv
<1>1. CASE Take
  <2>1. /\ disk' = [disk EXCEPT !.status = "running"] /\ task' = disk' /\ pc' = "ready" /\ answers' = answers
        /\ disk.status \in {"queued", "running"}
    BY <1>1 DEF Take
  <2>2. /\ disk' \in Record /\ disk'.status = "running" /\ disk'.steps = disk.steps
        /\ disk'.cost = disk.cost /\ disk'.early = disk.early
    BY <1>0, <2>1 DEF Record, Statuses
  <2>3. Below(disk)' BY <2>1, <2>2 DEF StepInv, Below
  <2>4. Below(task)' BY <2>1, <2>3 DEF Below
  <2> QED BY <2>1, <2>2, <2>3, <2>4 DEF StepInv
<1>2. CASE Stopped \/ ProviderFails \/ StepRaises
  <2>1. /\ task' = [task EXCEPT !.status = "failed"] /\ pc' = "commit" /\ UNCHANGED <<disk, answers>>
        /\ pc \in {"ready", "forced"}
    BY <1>2 DEF Stopped, ProviderFails, StepRaises, MayCall
  <2>2. task' \in Record /\ task'.status = "failed" /\ task'.steps = task.steps
    BY <1>0, <2>1 DEF Record, Statuses
  <2> QED BY <2>1, <2>2, EarlyInv
<1>3. CASE Overflow
  <2>1. pc' = "forced" /\ pc = "ready" /\ UNCHANGED <<disk, task, answers>> BY <1>3 DEF Overflow
  <2> QED BY <2>1 DEF StepInv, Below
<1>4. CASE Malformed
  <2> DEFINE t == [Paid EXCEPT !.malformed = @ + 1]
  <2>1. pc \in {"ready", "forced"} BY <1>4 DEF Malformed, MayCall
  <2>2. /\ task' \in {[[t EXCEPT !.status = "failed"] EXCEPT !.early = TRUE], [t EXCEPT !.early = TRUE]}
        /\ pc' = "commit" /\ UNCHANGED <<disk, answers>>
    BY <1>4, Zenon DEF Malformed, Turn
  <2>3. t \in Record /\ t.steps = task.steps /\ t.status = task.status BY <1>0, PaidFacts DEF Record
  <2> HIDE DEF t
  <2>4. /\ task' \in Record /\ task'.steps = task.steps /\ task'.early
        /\ task'.status \in {task.status, "failed"}
    BY <2>2, <2>3 DEF Record, Statuses
  <2>5. task'.status # "queued" BY <2>1, <2>4 DEF StepInv
  <2> QED BY <2>1, <2>2, <2>4, <2>5, EarlyInv
<1>5. CASE Refused
  <2>1. /\ pc \in {"ready", "forced"} /\ task' = [Paid EXCEPT !.early = TRUE] /\ pc' = "commit"
        /\ UNCHANGED <<disk, answers>>
    BY <1>5 DEF Refused, MayCall, Turn
  <2>2. task' \in Record /\ task'.steps = task.steps /\ task'.early /\ task'.status = task.status
    BY <1>0, <2>1, PaidFacts DEF Record
  <2>3. task'.status # "queued" BY <2>1, <2>2 DEF StepInv
  <2> QED BY <2>1, <2>2, <2>3, EarlyInv
<1>6. CASE RunTool
  <2>1. PICK call \in Calls, bad \in BOOLEAN : Counted(call, Called, bad) BY <1>6 DEF RunTool
  <2>2. pc \in {"ready", "forced"} BY <1>6 DEF RunTool, MayCall
  <2>3. Called \in Record /\ Called.steps = task.steps /\ Called.status = "running"
    BY <1>0, <2>2, PaidFacts DEF StepInv
  <2> QED BY <2>1, <2>2, <2>3, CountedInv
<1>7. ASSUME NEW call \in {"ask_human", "finish_task"}, NEW t, Counted(call, t, FALSE), MayCall,
             t \in Record, t.steps = task.steps, t.status # "queued"
      PROVE  StepInv'
  BY <1>7, CountedInv, TaskStepAssumption DEF MayCall
<1>8. CASE AskHuman
  <2>1. [Called EXCEPT !.status = "blocked"] \in Record /\ [Called EXCEPT !.status = "blocked"].steps = task.steps
    BY <1>0, PaidFacts DEF Record, Statuses
  <2>2. [Called EXCEPT !.status = "blocked"].status = "blocked" BY <1>0, PaidFacts DEF Record
  <2> QED BY <1>7, <1>8, <2>1, <2>2 DEF AskHuman
<1>9. CASE FinishAccepted
  <2>1. [Called EXCEPT !.status = "done"] \in Record /\ [Called EXCEPT !.status = "done"].steps = task.steps
    BY <1>0, PaidFacts DEF Record, Statuses
  <2>2. [Called EXCEPT !.status = "done"].status = "done" BY <1>0, PaidFacts DEF Record
  <2> QED BY <1>7, <1>9, <2>1, <2>2 DEF FinishAccepted
<1>10. CASE FinishRefused
  <2>1. PICK giveUp \in BOOLEAN :
          Counted("finish_task", [Called EXCEPT !.rejects = @ + 1,
                                                !.status = IF giveUp THEN "failed" ELSE "running"], FALSE)
    BY <1>10 DEF FinishRefused
  <2>2. ASSUME NEW st \in {"failed", "running"}
        PROVE  /\ [Called EXCEPT !.rejects = @ + 1, !.status = st] \in Record
               /\ [Called EXCEPT !.rejects = @ + 1, !.status = st].steps = task.steps
               /\ [Called EXCEPT !.rejects = @ + 1, !.status = st].status = st
    <3>1. Called \in Record /\ Called.steps = task.steps BY <1>0, PaidFacts
    <3>2. Called.rejects + 1 \in Nat BY <3>1 DEF Record
    <3> QED BY <3>1, <3>2 DEF Record, Statuses
  <2>3. CASE giveUp BY <1>7, <1>10, <2>1, <2>2, <2>3 DEF FinishRefused
  <2>4. CASE ~giveUp BY <1>7, <1>10, <2>1, <2>2, <2>4 DEF FinishRefused
  <2> QED BY <2>3, <2>4
<1>11. CASE Commit
  <2>1. /\ disk' = task /\ task' = task /\ answers' = answers /\ pc = "commit"
        /\ pc' = IF task.status = "running" THEN "ready" ELSE "off"
    BY <1>11 DEF Commit
  <2> QED BY <2>1 DEF StepInv, Below
<1>12. CASE BreakOff \/ Crash
  <2>1. UNCHANGED <<disk, task, answers>> /\ pc' = "off" BY <1>12 DEF BreakOff, Crash
  <2> QED BY <2>1 DEF StepInv, Below
<1>13. CASE AnswerTask
  <2>1. /\ disk' = [disk EXCEPT !.status = "queued"] /\ answers' = answers + 1 /\ task' = task
        /\ pc = "off" /\ pc' = pc
    BY <1>13 DEF AnswerTask
  <2>2. disk' \in Record /\ disk'.steps = disk.steps BY <1>0, <2>1 DEF Record, Statuses
  <2>3. /\ answers \in Nat /\ answers' \in Nat /\ answers' > 0 /\ MaxSteps \in Nat
        /\ disk.steps \in Nat /\ task.steps \in Nat
    BY <1>0, <2>1, TaskStepAssumption DEF StepInv, Record
  <2>4. Below(disk)' /\ disk'.steps <= MaxSteps + answers' /\ task'.steps <= MaxSteps + answers'
    BY <2>1, <2>2, <2>3 DEF StepInv, Below
  <2> QED BY <2>1, <2>2, <2>3, <2>4 DEF StepInv
<1>14. CASE DeadlinePasses \/ UNCHANGED vars
  <2>1. UNCHANGED <<disk, task, answers, pc>> BY <1>14 DEF DeadlinePasses, vars
  <2> QED BY <2>1 DEF StepInv, Below
<1> QED BY <1>1, <1>2, <1>3, <1>4, <1>5, <1>6, <1>8, <1>9, <1>10, <1>11, <1>12, <1>13, <1>14
        DEF Next, Step

\* The brakes of run_task_step: the ceiling on counted steps is passed only by answers of
\* the owner, the ceiling on cost only by turns that return early, or after an answer.
THEOREM CeilingsBindHolds == Spec => []CeilingsBind
<1>1. StepInv => CeilingsBind BY DEF StepInv, Below, CeilingsBind
<1> QED BY <1>1, StepStarts, StepKeeps, PTL DEF Spec

-----------------------------------------------------------------------------
(* What a transcript is made of (TaskStep).                                *)

\* A transcript opens with the system message and the goal.
Opened(m) ==
  m \in Seq(Message) /\ Len(m) >= 2 /\ m[1].from = "user" /\ m[2].from = "user"

LEMMA Joined ==
  ASSUME NEW S, NEW m \in Seq(S), NEW e \in Seq(S)
  PROVE  /\ m \o e \in Seq(S) /\ Len(m \o e) = Len(m) + Len(e) /\ Len(m) \in Nat /\ Len(e) \in Nat
         /\ \A i \in 1..Len(m) : (m \o e)[i] = m[i]
         /\ \A k \in 1..Len(e) : (m \o e)[Len(m) + k] = e[k]
         /\ \A i \in 1..Len(m \o e) : i > Len(m) => i - Len(m) \in 1..Len(e) /\ (m \o e)[i] = e[i - Len(m)]
<1>1. /\ Len(m) \in Nat /\ Len(e) \in Nat /\ m \o e \in Seq(S) /\ Len(m \o e) = Len(m) + Len(e)
      /\ \A i \in 1..(Len(m) + Len(e)) : (m \o e)[i] = IF i <= Len(m) THEN m[i] ELSE e[i - Len(m)]
  BY ConcatProperties, LenProperties
<1>2. \A i \in 1..Len(m) : (m \o e)[i] = m[i] BY <1>1
<1>3. ASSUME NEW k \in 1..Len(e) PROVE (m \o e)[Len(m) + k] = e[k]
  <2>1. Len(m) + k \in 1..(Len(m) + Len(e)) /\ ~(Len(m) + k <= Len(m)) /\ (Len(m) + k) - Len(m) = k BY <1>1
  <2> QED BY <1>1, <2>1
<1>4. ASSUME NEW i \in 1..Len(m \o e), i > Len(m)
      PROVE  i - Len(m) \in 1..Len(e) /\ (m \o e)[i] = e[i - Len(m)]
  <2>1. i \in 1..(Len(m) + Len(e)) /\ ~(i <= Len(m)) /\ i - Len(m) \in 1..Len(e) BY <1>1, <1>4
  <2> QED BY <1>1, <2>1
<1> QED BY <1>1, <1>2, <1>3, <1>4

LEMMA OpenedGrows == ASSUME NEW m, Opened(m), NEW e \in Seq(Message) PROVE Opened(m \o e)
BY Joined DEF Opened

\* What precedes what in the first part of a transcript.
LEMMA PrecedesKept ==
  ASSUME NEW m \in Seq(Message), NEW e \in Seq(Message), NEW j \in 1..Len(m), NEW i \in 1..Len(m)
  PROVE  Precedes(m \o e, j, i) <=> Precedes(m, j, i)
<1>1. \A k \in 1..Len(m) : (m \o e)[k] = m[k] BY Joined
<1>2. \A k \in (j + 1)..(i - 1) : k \in 1..Len(m) BY Joined
<1> QED BY <1>1, <1>2 DEF Precedes

\* Every message before the last assistant's is answered; of its own calls, all but those in C.
AnsweredBut(m, j, C) ==
  /\ j \in 1..Len(m) /\ m[j].from = "assistant"
  /\ \A k \in (j + 1)..Len(m) : m[k].from # "assistant"
  /\ \A h \in 1..Len(m) : h # j /\ m[h].from = "assistant" =>
       \A c \in 1..m[h].n : \E i \in 1..Len(m) : Precedes(m, h, i) /\ m[i] = Tool(c)
  /\ \A c \in (1..m[j].n) \ C : \E i \in 1..Len(m) : Precedes(m, j, i) /\ m[i] = Tool(c)

LEMMA AsksFirst ==
  ASSUME NEW m \in Seq(Message), AllAnswered(m), NEW n \in 0..(1 + MaxExtras)
  PROVE  /\ m \o <<Asst(n)>> \in Seq(Message)
         /\ AnsweredBut(m \o <<Asst(n)>>, Len(m) + 1, 1..n)
         /\ (m \o <<Asst(n)>>)[Len(m) + 1].n = n
<1>e. PICK e : e = <<Asst(n)>> OBVIOUS
<1> DEFINE M == m \o e
<1>1. e \in Seq(Message) /\ Len(e) = 1 /\ e[1] = Asst(n)
  <2>1. Asst(n) \in Message BY DEF Asst, Message
  <2> HIDE DEF M
  <2> QED BY <1>e, <2>1
<1>2. /\ M \in Seq(Message) /\ Len(M) = Len(m) + 1 /\ Len(m) \in Nat
      /\ \A i \in 1..Len(m) : M[i] = m[i]
      /\ M[Len(m) + 1] = Asst(n)
  <2>1. /\ M \in Seq(Message) /\ Len(M) = Len(m) + Len(e) /\ Len(m) \in Nat
        /\ \A i \in 1..Len(m) : M[i] = m[i]
        /\ \A k \in 1..Len(e) : M[Len(m) + k] = e[k]
    <3>1. e \in Seq(Message) BY <1>1
    <3> QED BY <3>1, Joined
  <2>2. 1 \in 1..Len(e) BY <1>1
  <2>3. M[Len(m) + 1] = e[1] BY <2>1, <2>2
  <2> QED BY <1>1, <2>1, <2>3
<1>3. ASSUME NEW h \in 1..Len(M), h # Len(m) + 1, M[h].from = "assistant", NEW c \in 1..M[h].n
      PROVE  \E i \in 1..Len(M) : Precedes(M, h, i) /\ M[i] = Tool(c)
  <2>1. h \in 1..Len(m) /\ M[h] = m[h] BY <1>2, <1>3
  <2>2. PICK i \in 1..Len(m) : Precedes(m, h, i) /\ m[i] = Tool(c) BY <1>3, <2>1 DEF AllAnswered
  <2>3. Precedes(M, h, i) /\ M[i] = Tool(c) /\ i \in 1..Len(M) BY <1>1, <1>2, <2>1, <2>2, PrecedesKept
  <2> QED BY <2>3
<1>4. M[Len(m) + 1].from = "assistant" /\ M[Len(m) + 1].n = n BY <1>2 DEF Asst
<1>5. Len(m) + 1 \in 1..Len(M) /\ (Len(m) + 1 + 1)..Len(M) = {} BY <1>2
<1> HIDE DEF M
<1>6. AnsweredBut(M, Len(m) + 1, 1..n) BY <1>3, <1>4, <1>5 DEF AnsweredBut
<1> QED BY <1>e, <1>2, <1>4, <1>6 DEF M

LEMMA AnswersFollow ==
  ASSUME NEW m \in Seq(Message), NEW j, NEW C, AnsweredBut(m, j, C), NEW e \in Seq(Message), NEW D,
         \A k \in 1..Len(e) : e[k].from # "assistant",
         \A c \in C \ D : \E k \in 1..Len(e) : e[k] = Tool(c)
  PROVE  m \o e \in Seq(Message) /\ AnsweredBut(m \o e, j, D) /\ (m \o e)[j] = m[j]
<1> DEFINE M == m \o e
<1>1. /\ M \in Seq(Message) /\ Len(M) = Len(m) + Len(e) /\ Len(m) \in Nat /\ Len(e) \in Nat
      /\ \A i \in 1..Len(m) : M[i] = m[i]
      /\ \A k \in 1..Len(e) : M[Len(m) + k] = e[k]
      /\ \A i \in 1..Len(M) : i > Len(m) => i - Len(m) \in 1..Len(e) /\ M[i] = e[i - Len(m)]
  BY Joined
<1>2. j \in 1..Len(m) /\ j \in 1..Len(M) /\ M[j] = m[j] BY <1>1 DEF AnsweredBut
<1>3. \A i \in 1..Len(m) : i \in 1..Len(M) /\ \A h \in 1..Len(m) : Precedes(m, h, i) => Precedes(M, h, i)
  BY <1>1, PrecedesKept
<1> HIDE DEF M
<1>4. \A k \in (j + 1)..Len(M) : M[k].from # "assistant"
  <2> SUFFICES ASSUME NEW k \in (j + 1)..Len(M) PROVE M[k].from # "assistant" OBVIOUS
  <2>1. CASE k <= Len(m)
    <3>1. k \in (j + 1)..Len(m) /\ M[k] = m[k] BY <1>1, <1>2, <2>1
    <3> QED BY <3>1 DEF AnsweredBut
  <2>2. CASE k > Len(m)
    <3>1. k \in 1..Len(M) BY <1>1, <1>2
    <3> QED BY <1>1, <2>2, <3>1
  <2> QED BY <1>1, <1>2, <2>1, <2>2
<1>5. ASSUME NEW h \in 1..Len(M), h # j, M[h].from = "assistant", NEW c \in 1..M[h].n
      PROVE  \E i \in 1..Len(M) : Precedes(M, h, i) /\ M[i] = Tool(c)
  <2>1. h \in 1..Len(m) /\ M[h] = m[h]
    <3>1. ~(h > j) BY <1>1, <1>2, <1>4, <1>5
    <3> QED BY <1>1, <1>2, <3>1
  <2>2. PICK i \in 1..Len(m) : Precedes(m, h, i) /\ m[i] = Tool(c) BY <1>5, <2>1 DEF AnsweredBut
  <2> QED BY <1>1, <1>3, <2>1, <2>2
<1>6. ASSUME NEW c \in (1..M[j].n) \ D PROVE \E i \in 1..Len(M) : Precedes(M, j, i) /\ M[i] = Tool(c)
  <2>1. CASE c \notin C
    <3>1. PICK i \in 1..Len(m) : Precedes(m, j, i) /\ m[i] = Tool(c) BY <1>2, <1>6, <2>1 DEF AnsweredBut
    <3> QED BY <1>1, <1>2, <1>3, <3>1
  <2>2. CASE c \in C
    <3>1. PICK k \in 1..Len(e) : e[k] = Tool(c) BY <1>6, <2>2
    <3>2. Len(m) + k \in 1..Len(M) /\ M[Len(m) + k] = Tool(c) /\ j < Len(m) + k BY <1>1, <1>2, <3>1
    <3>3. \A l \in (j + 1)..((Len(m) + k) - 1) : l \in (j + 1)..Len(M) BY <1>1, <1>2, <3>2
    <3>4. Precedes(M, j, Len(m) + k) BY <1>2, <1>4, <3>2, <3>3 DEF Precedes, AnsweredBut
    <3> QED BY <3>2, <3>4
  <2> QED BY <2>1, <2>2
<1>7. AnsweredBut(M, j, D) BY <1>2, <1>4, <1>5, <1>6 DEF AnsweredBut
<1> QED BY <1>1, <1>2, <1>7 DEF M

LEMMA LastAnswered ==
  ASSUME NEW m \in Seq(Message), NEW j, NEW C, AnsweredBut(m, j, C), (1..m[j].n) \cap C = {}
  PROVE  AllAnswered(m)
BY DEF AnsweredBut, AllAnswered

LEMMA TailOfTail ==
  ASSUME NEW S, NEW m \in Seq(S), NEW i \in 1..Len(m), NEW k, NEW n,
         k \in 1..(Len(m) - i + 1), n \in 1..(Len(m) - i + 1)
  PROVE  SubSeq(SubSeq(m, i, Len(m)), k, n) = SubSeq(m, i + k - 1, i + n - 1)
<1>1. Len(m) \in 1..Len(m) BY LenProperties
<1> QED BY <1>1, SubSeqOfSubSeq

\* compact_context: the first two messages, a notice, and a tail that does not start on a
\* tool result; or nothing is left out.
LEMMA KeptFacts ==
  ASSUME NEW tail \in Seq(Message), NEW k \in Nat, k <= Len(tail)
  PROVE  /\ Kept(tail, k) \in k..Len(tail)
         /\ Kept(tail, k) = Len(tail) \/ tail[Len(tail) - Kept(tail, k) + 1].from # "tool"
<1> DEFINE T == {j \in k..Len(tail) : j = Len(tail) \/ tail[Len(tail) - j + 1].from # "tool"}
           Good(j) == /\ j = Len(tail) \/ tail[Len(tail) - j + 1].from # "tool"
                      /\ \A i \in k..(j - 1) : tail[Len(tail) - i + 1].from = "tool"
<1>1. Len(tail) \in Nat BY LenProperties
<1>2. T \in SUBSET Nat /\ Len(tail) \in T BY <1>1
<1>3. PICK j \in T : \A i \in T : j <= i BY <1>2, Smallest
<1>4. \A i \in k..(j - 1) : tail[Len(tail) - i + 1].from = "tool"
  <2> SUFFICES ASSUME NEW i \in k..(j - 1) PROVE tail[Len(tail) - i + 1].from = "tool" OBVIOUS
  <2>1. i \in k..Len(tail) /\ i < j BY <1>1, <1>3
  <2>2. i \notin T BY <1>2, <1>3, <2>1
  <2> QED BY <2>1, <2>2
<1>5. \E h \in k..Len(tail) : Good(h) BY <1>3, <1>4
<1> HIDE DEF Good
<1>6. Kept(tail, k) = CHOOSE h \in k..Len(tail) : Good(h) BY DEF Kept, Good
<1>7. Kept(tail, k) \in k..Len(tail) /\ Good(Kept(tail, k)) BY <1>5, <1>6
<1> QED BY <1>7 DEF Good

LEMMA CompactedForm ==
  ASSUME NEW m \in Seq(Message), Len(m) >= 2, NEW force \in BOOLEAN
  PROVE  \/ Compacted(m, force) = m
         \/ \E s \in 3..Len(m) :
              /\ m[s].from # "tool"
              /\ Compacted(m, force) = SubSeq(m, 1, 2) \o <<User>> \o SubSeq(m, s, Len(m))
<1> DEFINE tail == SubSeq(m, 3, Len(m))
           least == IF force THEN 2 ELSE KeepRecent
           k == IF least < Len(tail) THEN least ELSE Len(tail)
           keep == Kept(tail, k)
<1>1. Len(m) \in Nat /\ \A i \in 1..Len(m) : m[i] \in Message BY LenProperties, ElementOfSeq
<1>2. tail \in Seq(Message) /\ Len(tail) = Len(m) - 2 /\ Len(tail) \in Nat
  <2>1. 3 \in Int /\ Len(m) \in Int /\ \A i \in 3..Len(m) : m[i] \in Message BY <1>1
  <2>2. tail \in Seq(Message) /\ Len(tail) = IF 3 <= Len(m) THEN Len(m) - 3 + 1 ELSE 0
    BY <2>1, SubSeqProperties
  <2> HIDE DEF tail
  <2>3. CASE Len(m) = 2
    <3>1. Len(tail) = 0 BY <2>2, <2>3
    <3> QED BY <2>2, <2>3, <3>1
  <2>4. CASE Len(m) >= 3
    <3>1. Len(tail) = Len(m) - 3 + 1 BY <2>2, <2>4
    <3> QED BY <1>1, <2>2, <2>4, <3>1
  <2>5. Len(m) \in Nat /\ Len(m) >= 2 BY <1>1
  <2>6. \A a \in Nat : a >= 2 => a = 2 \/ a >= 3 OBVIOUS
  <2>7. Len(m) = 2 \/ Len(m) >= 3 BY <2>5, <2>6
  <2> QED BY <2>3, <2>4, <2>7
<1>3. \A i \in 1..Len(tail) : tail[i] = m[i + 2]
  <2>1. 3 \in Int /\ Len(m) \in Int /\ \A i \in 3..Len(m) : m[i] \in Message BY <1>1
  <2>2. \A i \in 1..(Len(m) - 3 + 1) : tail[i] = m[3 + i - 1] BY <2>1, SubSeqProperties
  <2> QED BY <1>1, <1>2, <2>2
<1>4. least \in Nat /\ least >= 1 /\ k \in Nat /\ k <= Len(tail) /\ (k = 0 => Len(tail) = 0)
  BY <1>2, TaskStepAssumption
<1> HIDE DEF k
<1>5. keep \in k..Len(tail) /\ (keep = Len(tail) \/ tail[Len(tail) - keep + 1].from # "tool")
  BY <1>2, <1>4, KeptFacts
<1>6. CASE (~force /\ Len(m) <= Threshold) \/ keep = Len(tail)
  BY <1>6 DEF Compacted, k
<1>7. CASE ~((~force /\ Len(m) <= Threshold) \/ keep = Len(tail))
  <2> DEFINE a == Len(tail) - keep + 1
  <2>1. keep \in Nat /\ keep >= 1 /\ keep < Len(tail) BY <1>2, <1>4, <1>5, <1>7
  <2>2. a \in 2..Len(tail) /\ a + 2 \in 3..Len(m) BY <1>1, <1>2, <2>1
  <2>3. tail[a].from # "tool" /\ tail[a] = m[a + 2] BY <1>2, <1>3, <1>5, <1>7, <2>2
  <2>4. SubSeq(tail, a, Len(tail)) = SubSeq(m, a + 2, Len(m))
    <3>1. /\ 3 \in 1..Len(m) /\ Len(m) \in 1..Len(m)
          /\ a \in 1..(Len(m) - 3 + 1) /\ Len(tail) \in 1..(Len(m) - 3 + 1)
      BY <1>1, <1>2, <2>2
    <3>2. SubSeq(tail, a, Len(tail)) = SubSeq(m, 3 + a - 1, 3 + Len(tail) - 1)
      <4>1. PICK h, n : h = a /\ n = Len(tail) OBVIOUS
      <4>2. PICK i \in 1..Len(m) : i = 3 BY <3>1
      <4>3. h \in 1..(Len(m) - i + 1) /\ n \in 1..(Len(m) - i + 1) BY <3>1, <4>1, <4>2
      <4>4. SubSeq(SubSeq(m, i, Len(m)), h, n) = SubSeq(m, i + h - 1, i + n - 1) BY <4>3, TailOfTail
      <4> QED BY <4>1, <4>2, <4>4
    <3>3. 3 + a - 1 = a + 2 /\ 3 + Len(tail) - 1 = Len(m) BY <1>1, <1>2, <2>2
    <3> QED BY <3>2, <3>3
  <2>5. Compacted(m, force) = SubSeq(m, 1, 2) \o <<User>> \o SubSeq(tail, a, Len(tail))
    BY <1>7 DEF Compacted, k
  <2> QED BY <2>2, <2>3, <2>4, <2>5
<1> QED BY <1>6, <1>7

\* The messages of a compacted transcript are messages of the old one.
LEMMA CompactedElems ==
  ASSUME NEW m \in Seq(Message), Len(m) >= 2, NEW s \in 3..Len(m), NEW R,
         R = SubSeq(m, 1, 2) \o <<User>> \o SubSeq(m, s, Len(m))
  PROVE  /\ R \in Seq(Message) /\ Len(R) = Len(m) - s + 4 /\ Len(R) \in Nat /\ Len(m) \in Nat
         /\ R[1] = m[1] /\ R[2] = m[2] /\ R[3] = User
         /\ \A i \in 4..Len(R) : i + s - 4 \in s..Len(m) /\ R[i] = m[i + s - 4]
<1>1. Len(m) \in Nat /\ \A i \in 1..Len(m) : m[i] \in Message BY LenProperties, ElementOfSeq
<1>2a. PICK H, G, F : H = SubSeq(m, 1, 2) /\ G = <<User>> /\ F = SubSeq(m, s, Len(m)) OBVIOUS
<1>2. H \in Seq(Message) /\ Len(H) = 2 /\ H[1] = m[1] /\ H[2] = m[2]
  <2>1. 1 \in Int /\ 2 \in Int /\ \A i \in 1..2 : m[i] \in Message BY <1>1
  <2>2. /\ H \in Seq(Message) /\ Len(H) = IF 1 <= 2 THEN 2 - 1 + 1 ELSE 0
        /\ \A i \in 1..(2 - 1 + 1) : H[i] = m[1 + i - 1]
    BY <1>2a, <2>1, SubSeqProperties
  <2> QED BY <2>2
<1>3. G \in Seq(Message) /\ Len(G) = 1 /\ G[1] = User
  <2>1. User \in Message BY TaskStepAssumption DEF User, Message
  <2> QED BY <1>2a, <2>1
<1>4. /\ F \in Seq(Message) /\ Len(F) = Len(m) - s + 1
      /\ \A i \in 1..Len(F) : F[i] = m[s + i - 1]
  <2>1. s \in Int /\ Len(m) \in Int /\ \A i \in s..Len(m) : m[i] \in Message BY <1>1
  <2>2. /\ F \in Seq(Message) /\ Len(F) = IF s <= Len(m) THEN Len(m) - s + 1 ELSE 0
        /\ \A i \in 1..(Len(m) - s + 1) : F[i] = m[s + i - 1]
    BY <1>2a, <2>1, SubSeqProperties
  <2> QED BY <1>1, <2>2
<1>5. /\ H \o G \in Seq(Message) /\ Len(H \o G) = 3
      /\ (H \o G)[1] = m[1] /\ (H \o G)[2] = m[2] /\ (H \o G)[3] = User
  <2>1. /\ H \o G \in Seq(Message) /\ Len(H \o G) = Len(H) + Len(G)
        /\ \A i \in 1..Len(H) : (H \o G)[i] = H[i]
        /\ \A k \in 1..Len(G) : (H \o G)[Len(H) + k] = G[k]
    <3>1. H \in Seq(Message) /\ G \in Seq(Message) BY <1>2, <1>3
    <3> QED BY <3>1, Joined
  <2>2. 1 \in 1..Len(H) /\ 2 \in 1..Len(H) /\ 1 \in 1..Len(G) /\ Len(H) + 1 = 3 BY <1>2, <1>3
  <2>3. (H \o G)[Len(H) + 1] = G[1] BY <2>1, <2>2
  <2> QED BY <1>2, <1>3, <2>1, <2>2, <2>3
<1>6. /\ R \in Seq(Message) /\ Len(R) = Len(H \o G) + Len(F)
      /\ \A i \in 1..Len(H \o G) : R[i] = (H \o G)[i]
      /\ \A i \in 1..Len(R) : i > Len(H \o G) => i - Len(H \o G) \in 1..Len(F) /\ R[i] = F[i - Len(H \o G)]
  
  <2>1. R = (H \o G) \o F BY <1>2a
  <2>2. PICK E : E = H \o G OBVIOUS
  <2>3. E \in Seq(Message) BY <1>5, <2>2
  <2>4. R = E \o F BY <2>1, <2>2
  <2>5. F \in Seq(Message) BY <1>4
  <2>6. /\ E \o F \in Seq(Message) /\ Len(E \o F) = Len(E) + Len(F)
        /\ \A i \in 1..Len(E) : (E \o F)[i] = E[i]
        /\ \A i \in 1..Len(E \o F) : i > Len(E) => i - Len(E) \in 1..Len(F) /\ (E \o F)[i] = F[i - Len(E)]
    BY <2>3, <2>5, Joined
  <2> QED BY <2>2, <2>4, <2>6
<1>7. Len(R) = Len(m) - s + 4 /\ Len(R) \in Nat BY <1>1, <1>4, <1>5, <1>6
<1>8. R[1] = m[1] /\ R[2] = m[2] /\ R[3] = User
  <2>1. 1 \in 1..Len(H \o G) /\ 2 \in 1..Len(H \o G) /\ 3 \in 1..Len(H \o G) BY <1>5
  <2> QED BY <1>5, <1>6, <2>1
<1>9. ASSUME NEW i \in 4..Len(R) PROVE i + s - 4 \in s..Len(m) /\ R[i] = m[i + s - 4]
  <2>1. i \in 1..Len(R) /\ i > Len(H \o G) /\ i - Len(H \o G) = i - 3 BY <1>5, <1>7
  <2>2. i - 3 \in 1..Len(F) /\ R[i] = F[i - 3] BY <1>6, <2>1
  <2>3. F[i - 3] = m[s + (i - 3) - 1] BY <1>4, <2>2
  <2>4. s + (i - 3) - 1 = i + s - 4 /\ i + s - 4 \in s..Len(m) BY <1>1, <1>7
  <2> QED BY <2>2, <2>3, <2>4
<1> QED BY <1>1, <1>6, <1>7, <1>8, <1>9

\* What is said later, by others than the assistant, leaves no call unanswered.
LEMMA AnsweredGrows ==
  ASSUME NEW m \in Seq(Message), AllAnswered(m), NEW e \in Seq(Message),
         \A k \in 1..Len(e) : e[k].from = "user"
  PROVE  AllAnswered(m \o e)
<1>1. /\ Len(m) \in Nat /\ Len(m \o e) = Len(m) + Len(e) /\ Len(e) \in Nat
      /\ \A i \in 1..Len(m) : (m \o e)[i] = m[i]
      /\ \A i \in 1..Len(m \o e) : i > Len(m) => i - Len(m) \in 1..Len(e) /\ (m \o e)[i] = e[i - Len(m)]
  BY Joined
<1>2. PICK M : M = m \o e OBVIOUS
<1>3. ASSUME NEW j \in 1..Len(M), M[j].from = "assistant", NEW c \in 1..M[j].n
      PROVE  \E i \in 1..Len(M) : Precedes(M, j, i) /\ M[i] = Tool(c)
  <2>1. j \in 1..Len(m) /\ M[j] = m[j]
    <3>1. ~(j > Len(m)) BY <1>1, <1>2, <1>3
    <3>2. j \in 1..Len(m) BY <1>1, <1>2, <3>1
    <3> QED BY <1>1, <1>2, <3>2
  <2>2. PICK i \in 1..Len(m) : Precedes(m, j, i) /\ m[i] = Tool(c) BY <1>3, <2>1 DEF AllAnswered
  <2>3. i \in 1..Len(M) /\ M[i] = m[i] BY <1>1, <1>2
  <2>4. Precedes(M, j, i) BY <1>2, <2>1, <2>2, PrecedesKept
  <2> QED BY <2>2, <2>3, <2>4
<1>4. AllAnswered(M) BY <1>3 DEF AllAnswered
<1> QED BY <1>2, <1>4

\* Every answer stands in the run of answers that follows its call.
Tight(m) ==
  \A i \in 1..Len(m) : m[i].from = "tool" =>
    \E j \in 1..(i - 1) : /\ m[j].from = "assistant" /\ m[i].n <= m[j].n
                          /\ \A k \in (j + 1)..(i - 1) : m[k].from = "tool"

\* Message j is a call, and only answers have been added since.
OpenAt(m, j) ==
  /\ m \in Seq(Message) /\ Tight(m) /\ j \in 1..Len(m) /\ m[j].from = "assistant"
  /\ \A k \in (j + 1)..Len(m) : m[k].from = "tool"

LEMMA TightHasNoOrphan == ASSUME NEW m \in Seq(Message), Tight(m) PROVE NoOrphan(m)
<1> SUFFICES ASSUME NEW i \in 1..Len(m), m[i].from = "tool"
             PROVE  \E j \in 1..Len(m) : Precedes(m, j, i) /\ m[i].n <= m[j].n
  BY DEF NoOrphan
<1>1. Len(m) \in Nat BY LenProperties
<1>2. PICK j \in 1..(i - 1) : /\ m[j].from = "assistant" /\ m[i].n <= m[j].n
                              /\ \A k \in (j + 1)..(i - 1) : m[k].from = "tool"
  BY DEF Tight
<1>3. j \in 1..Len(m) /\ j < i BY <1>1
<1> QED BY <1>2, <1>3 DEF Precedes

LEMMA TightTail ==
  ASSUME NEW m \in Seq(Message), Tight(m), NEW e \in Seq(Message), NEW M, M = m \o e,
         \A i \in 1..Len(e) : e[i].from = "tool" =>
           \E j \in 1..(Len(m) + i - 1) :
              /\ M[j].from = "assistant" /\ e[i].n <= M[j].n
              /\ \A k \in (j + 1)..(Len(m) + i - 1) : M[k].from = "tool"
  PROVE  Tight(M)
<1>1. /\ Len(m) \in Nat /\ Len(e) \in Nat /\ Len(M) = Len(m) + Len(e)
      /\ \A i \in 1..Len(m) : M[i] = m[i]
      /\ \A i \in 1..Len(M) : i > Len(m) => i - Len(m) \in 1..Len(e) /\ M[i] = e[i - Len(m)]
  BY Joined
<1> SUFFICES ASSUME NEW i \in 1..Len(M), M[i].from = "tool"
             PROVE  \E j \in 1..(i - 1) : /\ M[j].from = "assistant" /\ M[i].n <= M[j].n
                                          /\ \A k \in (j + 1)..(i - 1) : M[k].from = "tool"
  BY DEF Tight
<1>2. CASE i <= Len(m)
  <2>1. i \in 1..Len(m) /\ M[i] = m[i] BY <1>1, <1>2
  <2>2. PICK j \in 1..(i - 1) : /\ m[j].from = "assistant" /\ m[i].n <= m[j].n
                                /\ \A k \in (j + 1)..(i - 1) : m[k].from = "tool"
    BY <2>1 DEF Tight
  <2>3. j \in 1..Len(m) /\ \A k \in (j + 1)..(i - 1) : k \in 1..Len(m) BY <1>1, <2>1
  <2>4. M[j] = m[j] /\ \A k \in (j + 1)..(i - 1) : M[k] = m[k] BY <1>1, <2>3
  <2> QED BY <2>1, <2>2, <2>4
<1>3. CASE i > Len(m)
  <2>1. PICK h : h = i - Len(m) OBVIOUS
  <2>2. h \in 1..Len(e) /\ M[i] = e[h] /\ Len(m) + h = i BY <1>1, <1>3, <2>1
  <2>3. PICK j \in 1..(Len(m) + h - 1) :
              /\ M[j].from = "assistant" /\ e[h].n <= M[j].n
              /\ \A k \in (j + 1)..(Len(m) + h - 1) : M[k].from = "tool"
    BY <2>2
  <2>4. Len(m) + h - 1 = i - 1 BY <1>1, <2>2
  <2> QED BY <2>2, <2>3, <2>4
<1>4. i <= Len(m) \/ i > Len(m)
  <2>1. \A a, b \in Nat : a <= b \/ a > b OBVIOUS
  <2>2. i \in Nat BY <1>1
  <2> QED BY <1>1, <2>1, <2>2
<1> QED BY <1>2, <1>3, <1>4

LEMMA TightNotes ==
  ASSUME NEW m \in Seq(Message), Tight(m), NEW e \in Seq(Message),
         \A i \in 1..Len(e) : e[i].from # "tool"
  PROVE  Tight(m \o e)
BY TightTail

LEMMA TightCall ==
  ASSUME NEW m \in Seq(Message), Tight(m), NEW n \in 0..(1 + MaxExtras)
  PROVE  OpenAt(m \o <<Asst(n)>>, Len(m) + 1)
<1>e. PICK e : e = <<Asst(n)>> OBVIOUS
<1>1. Asst(n) \in Message /\ Asst(n).from = "assistant" BY DEF Asst, Message
<1>2. e \in Seq(Message) /\ Len(e) = 1 /\ e[1].from = "assistant" BY <1>e, <1>1
<1>3. e \in Seq(Message) /\ \A i \in 1..Len(e) : e[i].from # "tool" BY <1>2
<1>4. Tight(m \o e) BY <1>3, TightNotes
<1>5. /\ m \o e \in Seq(Message) /\ Len(m \o e) = Len(m) + Len(e) /\ Len(m) \in Nat
      /\ \A k \in 1..Len(e) : (m \o e)[Len(m) + k] = e[k]
  BY <1>3, Joined
<1>6. PICK M : M = m \o e OBVIOUS
<1>7. M[Len(m) + 1].from = "assistant"
  <2>1. 1 \in 1..Len(e) BY <1>2
  <2>2. M[Len(m) + 1] = e[1] BY <1>5, <1>6, <2>1
  <2> QED BY <1>2, <2>2
<1>8. Len(M) = Len(m) + 1 /\ Len(m) \in Nat BY <1>2, <1>5, <1>6
<1>9. Len(m) + 1 \in 1..Len(M) /\ (Len(m) + 1 + 1)..Len(M) = {} BY <1>8
<1>10. OpenAt(M, Len(m) + 1) BY <1>4, <1>5, <1>6, <1>7, <1>9 DEF OpenAt
<1> QED BY <1>e, <1>6, <1>10

LEMMA TightAnswers ==
  ASSUME NEW m, NEW j, OpenAt(m, j), NEW e \in Seq(Message),
         \A i \in 1..Len(e) : e[i].from = "tool" /\ e[i].n <= m[j].n
  PROVE  OpenAt(m \o e, j) /\ (m \o e)[j] = m[j]
<1>0. m \in Seq(Message) /\ Tight(m) /\ j \in 1..Len(m) BY DEF OpenAt
<1>1. /\ m \o e \in Seq(Message) /\ Len(m \o e) = Len(m) + Len(e) /\ Len(m) \in Nat /\ Len(e) \in Nat
      /\ \A i \in 1..Len(m) : (m \o e)[i] = m[i]
      /\ \A i \in 1..Len(m \o e) : i > Len(m) => i - Len(m) \in 1..Len(e) /\ (m \o e)[i] = e[i - Len(m)]
  BY <1>0, Joined
<1>2. PICK M : M = m \o e OBVIOUS
<1>3. j \in 1..Len(M) /\ M[j] = m[j] BY <1>0, <1>1, <1>2
<1>4. ASSUME NEW k \in (j + 1)..Len(M) PROVE M[k].from = "tool"
  <2>1. CASE k <= Len(m)
    <3>1. k \in 1..Len(m) /\ k \in (j + 1)..Len(m) BY <1>0, <1>1, <2>1
    <3>2. M[k] = m[k] BY <1>1, <1>2, <3>1
    <3> QED BY <3>1, <3>2 DEF OpenAt
  <2>2. CASE k > Len(m)
    <3>1. k \in 1..Len(M) BY <1>0, <1>1, <1>4
    <3> QED BY <1>1, <1>2, <2>2, <3>1
  <2> QED BY <1>0, <1>1, <2>1, <2>2
<1>5. ASSUME NEW i \in 1..Len(e)
      PROVE  \E h \in 1..(Len(m) + i - 1) :
              /\ M[h].from = "assistant" /\ e[i].n <= M[h].n
              /\ \A k \in (h + 1)..(Len(m) + i - 1) : M[k].from = "tool"
  <2>1. j \in 1..(Len(m) + i - 1) BY <1>0, <1>1
  <2>2. M[j].from = "assistant" /\ e[i].n <= M[j].n BY <1>3 DEF OpenAt
  <2>3. \A k \in (j + 1)..(Len(m) + i - 1) : k \in (j + 1)..Len(M) BY <1>0, <1>1, <1>2
  <2> QED BY <1>4, <2>1, <2>2, <2>3
<1>6. Tight(M) BY <1>0, <1>2, <1>5, TightTail
<1>7. OpenAt(M, j) BY <1>1, <1>2, <1>3, <1>4, <1>6 DEF OpenAt
<1> QED BY <1>2, <1>3, <1>7

\* compact_context keeps every answer with its call: the calls left in are all in the tail.
LEMMA CompactedKeeps ==
  ASSUME NEW m, Opened(m), NEW force \in BOOLEAN, NEW R, R = Compacted(m, force)
  PROVE  /\ Opened(R)
         /\ AllAnswered(m) => AllAnswered(R)
         /\ Tight(m) => Tight(R)
<1>1. CASE R = m BY <1>1
<1>2. ASSUME NEW s \in 3..Len(m), m[s].from # "tool",
             R = SubSeq(m, 1, 2) \o <<User>> \o SubSeq(m, s, Len(m))
      PROVE  Opened(R) /\ (AllAnswered(m) => AllAnswered(R)) /\ (Tight(m) => Tight(R))
  <2>1. /\ R \in Seq(Message) /\ Len(R) = Len(m) - s + 4 /\ Len(R) \in Nat /\ Len(m) \in Nat
        /\ R[1] = m[1] /\ R[2] = m[2] /\ R[3] = User
        /\ \A i \in 4..Len(R) : i + s - 4 \in s..Len(m) /\ R[i] = m[i + s - 4]
    BY <1>2, CompactedElems DEF Opened
  <2>2. Opened(R)
    <3>1. Len(R) >= 2 BY <2>1
    <3> QED BY <2>1, <3>1 DEF Opened
  <2>3. \A i \in 1..Len(R) : R[i].from # "user" => i \in 4..Len(R)
    <3>1. \A i \in 1..Len(R) : i = 1 \/ i = 2 \/ i = 3 \/ i \in 4..Len(R) BY <2>1
    <3> QED BY <2>1, <3>1 DEF User, Opened
  <2>4. ASSUME AllAnswered(m), NEW j \in 1..Len(R), R[j].from = "assistant", NEW c \in 1..R[j].n
        PROVE  \E i \in 1..Len(R) : Precedes(R, j, i) /\ R[i] = Tool(c)
    <3>1. j \in 4..Len(R) BY <2>3, <2>4
    <3>2. j + s - 4 \in s..Len(m) /\ R[j] = m[j + s - 4] BY <2>1, <3>1
    <3>3. PICK g : g = j + s - 4 OBVIOUS
    <3>4. g \in 1..Len(m) /\ m[g] = R[j] BY <3>2, <3>3
    <3>5. PICK h \in 1..Len(m) : Precedes(m, g, h) /\ m[h] = Tool(c) BY <2>4, <3>4 DEF AllAnswered
    <3>6. g < h /\ \A k \in (g + 1)..(h - 1) : m[k].from # "assistant" BY <3>5 DEF Precedes
    <3>7. PICK i : i = h - s + 4 OBVIOUS
    <3>8. i \in 4..Len(R) /\ i + s - 4 = h /\ j < i BY <2>1, <3>1, <3>3, <3>4, <3>5, <3>6, <3>7
    <3>9. R[i] = m[h] BY <2>1, <3>8
    <3>10. ASSUME NEW k \in (j + 1)..(i - 1) PROVE R[k].from # "assistant"
      <4>1. k \in 4..Len(R) /\ k + s - 4 \in (g + 1)..(h - 1) BY <2>1, <3>1, <3>3, <3>8
      <4> QED BY <2>1, <3>6, <4>1
    <3>11. Precedes(R, j, i) BY <2>4, <3>8, <3>10 DEF Precedes
    <3> QED BY <3>5, <3>8, <3>9, <3>11
  <2>5. AllAnswered(m) => AllAnswered(R) BY <2>4 DEF AllAnswered
  <2>6. ASSUME Tight(m), NEW i \in 1..Len(R), R[i].from = "tool"
        PROVE  \E j \in 1..(i - 1) : /\ R[j].from = "assistant" /\ R[i].n <= R[j].n
                                     /\ \A k \in (j + 1)..(i - 1) : R[k].from = "tool"
    <3>1. i \in 4..Len(R) BY <2>3, <2>6
    <3>2. i + s - 4 \in s..Len(m) /\ R[i] = m[i + s - 4] BY <2>1, <3>1
    <3>3. PICK h : h = i + s - 4 OBVIOUS
    <3>4. h \in 1..Len(m) /\ h \in s..Len(m) /\ m[h] = R[i] BY <3>2, <3>3
    <3>5. PICK g \in 1..(h - 1) : /\ m[g].from = "assistant" /\ m[h].n <= m[g].n
                                  /\ \A k \in (g + 1)..(h - 1) : m[k].from = "tool"
      BY <2>6, <3>4 DEF Tight
    <3>6. g >= s
      <4>1. h # s BY <1>2, <2>6, <3>4
      <4>2. g < s => s \in (g + 1)..(h - 1) BY <3>4, <3>5, <4>1
      <4>3. ~(g < s) BY <1>2, <3>5, <4>2
      <4> QED BY <3>4, <3>5, <4>3
    <3>7. PICK j : j = g - s + 4 OBVIOUS
    <3>8. j \in 4..Len(R) /\ j + s - 4 = g /\ j \in 1..(i - 1) BY <2>1, <3>1, <3>3, <3>4, <3>5, <3>6, <3>7
    <3>9. R[j] = m[g] BY <2>1, <3>8
    <3>10. ASSUME NEW k \in (j + 1)..(i - 1) PROVE R[k].from = "tool"
      <4>1. k \in 4..Len(R) /\ k + s - 4 \in (g + 1)..(h - 1) BY <2>1, <3>1, <3>3, <3>8
      <4> QED BY <2>1, <3>5, <4>1
    <3> QED BY <3>4, <3>5, <3>8, <3>9, <3>10
  <2>7. Tight(m) => Tight(R) BY <2>6 DEF Tight
  <2> QED BY <2>2, <2>5, <2>7
<1>3. Len(m) >= 2 /\ m \in Seq(Message) BY DEF Opened
<1> QED BY <1>1, <1>2, <1>3, CompactedForm

LEMMA WindowKeeps ==
  ASSUME Opened(ctx)
  PROVE  Opened(Window) /\ (AllAnswered(ctx) => AllAnswered(Window)) /\ (Tight(ctx) => Tight(Window))
<1>1. CASE pc = "forced" BY <1>1 DEF Window
<1>2. CASE pc # "forced" BY <1>2, CompactedKeeps DEF Window
<1> QED BY <1>1, <1>2

LEMMA ExtraFacts ==
  ASSUME NEW x \in 0..MaxExtras
  PROVE  /\ ExtraAnswers(x) \in Seq(Message) /\ Len(ExtraAnswers(x)) = x
         /\ \A i \in 1..x : ExtraAnswers(x)[i] = Tool(i + 1)
<1>1. x \in Nat /\ MaxExtras \in Nat BY TaskStepAssumption
<1>2. \A i \in 1..x : Tool(i + 1) \in Message BY <1>1 DEF Tool, Message
<1>3. ExtraAnswers(x) \in [1..x -> Message] BY <1>2 DEF ExtraAnswers
<1>4. ExtraAnswers(x) \in Seq(Message) BY <1>1, <1>3, SeqDef
<1>5. Len(ExtraAnswers(x)) = x 
  <2>1. \A a, b \in Nat : 1..a = 1..b => a = b
    <3> SUFFICES ASSUME NEW a \in Nat, NEW b \in Nat, 1..a = 1..b, a # b PROVE FALSE OBVIOUS
    <3>1. (a \in 1..a <=> a \in 1..b) /\ (b \in 1..a <=> b \in 1..b) OBVIOUS
    <3>2. a < b \/ b < a OBVIOUS
    <3> QED BY <3>1, <3>2
  <2>2. DOMAIN ExtraAnswers(x) = 1..x BY <1>3
  <2>3. DOMAIN ExtraAnswers(x) = 1..Len(ExtraAnswers(x)) /\ Len(ExtraAnswers(x)) \in Nat BY <1>4, LenProperties
  <2> QED BY <1>1, <2>1, <2>2, <2>3
<1> QED BY <1>4, <1>5 DEF ExtraAnswers

LEMMA ToolFacts ==
  /\ User \in Message /\ User.from = "user"
  /\ \A c \in 0..(1 + MaxExtras) : Tool(c) \in Message /\ Tool(c).from = "tool" /\ Tool(c).n = c
BY TaskStepAssumption DEF User, Tool, Message

\* The assistant's message and the answers to all its calls but the first.
LEMMA CallAndExtras ==
  ASSUME NEW W, Opened(W), NEW x \in 0..MaxExtras, NEW R, R = W \o <<Asst(1 + x)>> \o ExtraAnswers(x)
  PROVE  LET j == Len(W) + 1 IN
           /\ Opened(R) /\ j \in Nat /\ R[j].n = 1 + x
           /\ AllAnswered(W) => AnsweredBut(R, j, {1})
           /\ Tight(W) => OpenAt(R, j)
<1>1. W \in Seq(Message) /\ Len(W) \in Nat BY LenProperties DEF Opened
<1>2. PICK n : n = 1 + x OBVIOUS
<1>3. n \in 0..(1 + MaxExtras) /\ x \in Nat /\ MaxExtras \in Nat BY <1>2, TaskStepAssumption
<1>4. PICK M : M = W \o <<Asst(n)>> OBVIOUS
<1>5. PICK j : j = Len(W) + 1 OBVIOUS
<1>6. PICK e : e = ExtraAnswers(x) OBVIOUS
<1>7. R = M \o e BY <1>2, <1>4, <1>6
<1>8. e \in Seq(Message) /\ Len(e) = x /\ \A i \in 1..x : e[i] = Tool(i + 1) BY <1>6, ExtraFacts
<1>9. \A i \in 1..Len(e) : e[i].from = "tool" /\ e[i].n <= n
  <2>1. \A i \in 1..x : i + 1 \in 0..(1 + MaxExtras) /\ i + 1 <= n BY <1>2, <1>3
  <2> QED BY <1>8, <2>1, ToolFacts
<1>10. M \in Seq(Message) /\ Opened(M) /\ M[j].n = n /\ j \in 1..Len(M)
  <2>1. PICK d : d = <<Asst(n)>> OBVIOUS
  <2>2. Asst(n) \in Message /\ Asst(n).n = n BY <1>3 DEF Asst, Message
  <2>3. d \in Seq(Message) /\ Len(d) = 1 /\ d[1].n = n BY <2>1, <2>2
  <2>4. d \in Seq(Message) BY <2>3
  <2>5. Opened(W \o d) BY <2>4, OpenedGrows
  <2>6. /\ W \o d \in Seq(Message) /\ Len(W \o d) = Len(W) + Len(d)
        /\ \A k \in 1..Len(d) : (W \o d)[Len(W) + k] = d[k]
    BY <1>1, <2>4, Joined
  <2>7. 1 \in 1..Len(d) BY <2>3
  <2>8. (W \o d)[Len(W) + 1] = d[1] BY <2>6, <2>7
  <2>9. Len(W \o d) = Len(W) + 1 BY <2>3, <2>6
  <2>10. Len(W) + 1 \in 1..(Len(W) + 1) BY <1>1
  <2> QED BY <1>4, <1>5, <2>1, <2>3, <2>5, <2>6, <2>8, <2>9, <2>10
<1>11. Opened(R) BY <1>7, <1>8, <1>10, OpenedGrows
<1>12. R[j] = M[j]
  <2>1. e \in Seq(Message) /\ M \in Seq(Message) BY <1>8, <1>10
  <2>2. \A i \in 1..Len(M) : (M \o e)[i] = M[i] BY <2>1, Joined
  <2> QED BY <1>7, <1>10, <2>2
<1>13. ASSUME AllAnswered(W) PROVE AnsweredBut(R, j, {1})
  <2>1. AnsweredBut(M, j, 1..n) BY <1>1, <1>3, <1>4, <1>5, <1>13, AsksFirst
  <2>2. \A k \in 1..Len(e) : e[k].from # "assistant" BY <1>9
  <2>3. ASSUME NEW c \in (1..n) \ {1} PROVE \E k \in 1..Len(e) : e[k] = Tool(c)
    <3>1. PICK k : k = c - 1 OBVIOUS
    <3>2. k \in 1..x /\ k + 1 = c BY <1>2, <1>3, <2>3, <3>1
    <3> QED BY <1>8, <3>2
  <2>4. e \in Seq(Message) /\ M \in Seq(Message) BY <1>8, <1>10
  <2>5. AnsweredBut(M \o e, j, {1}) BY <2>1, <2>2, <2>3, <2>4, AnswersFollow
  <2> QED BY <1>7, <2>5
<1>14. ASSUME Tight(W) PROVE OpenAt(R, j)
  <2>1. OpenAt(M, j) BY <1>1, <1>3, <1>4, <1>5, <1>14, TightCall
  <2>2. e \in Seq(Message) BY <1>8
  <2> QED BY <1>7, <1>9, <1>10, <2>1, <2>2, TightAnswers
<1>15. j \in Nat BY <1>1, <1>5
<1> QED BY <1>2, <1>5, <1>10, <1>11, <1>12, <1>13, <1>14, <1>15

\* What is said after them: a notice or none, the first call's answer, a notice or none.
LEMMA FirstAnswer ==
  ASSUME NEW M, NEW j, Opened(M), M[j].n \in Nat, M[j].n >= 1,
         NEW e \in {<<>>, <<User>>}, NEW w \in {<<>>, <<User>>},
         NEW R, R = M \o e \o <<Tool(1)>> \o w
  PROVE  /\ Opened(R)
         /\ AnsweredBut(M, j, {1}) => AllAnswered(R)
         /\ OpenAt(M, j) /\ e = <<>> => Tight(R)
<1>1. User \in Message /\ User.from = "user" /\ Tool(1) \in Message /\ Tool(1).from = "tool" /\ Tool(1).n = 1
  <2>1. 1 \in 0..(1 + MaxExtras) BY TaskStepAssumption
  <2> QED BY <2>1, ToolFacts
<1>2. \A f \in {<<>>, <<User>>} : f \in Seq(Message) /\ \A k \in 1..Len(f) : f[k].from = "user"
  <2>1. <<>> \in Seq(Message) /\ Len(<<>>) = 0 OBVIOUS
  <2>2. <<User>> \in Seq(Message) /\ Len(<<User>>) = 1 /\ <<User>>[1] = User BY <1>1
  <2>3. \A k \in 1..Len(<<User>>) : <<User>>[k].from = "user"
    <3>1. \A k \in 1..Len(<<User>>) : k = 1 BY <2>2
    <3> QED BY <1>1, <2>2, <3>1
  <2>4. \A k \in 1..Len(<<>>) : <<>>[k].from = "user" BY <2>1
  <2> QED BY <2>1, <2>2, <2>3, <2>4
<1>3. PICK a : a = <<Tool(1)>> OBVIOUS
<1>4. a \in Seq(Message) /\ Len(a) = 1 /\ a[1] = Tool(1) BY <1>1, <1>3
<1>5. a \in Seq(Message) /\ 1 \in 1..Len(a) /\ \A k \in 1..Len(a) : a[k] = Tool(1)
  <2>1. \A k \in 1..Len(a) : k = 1 BY <1>4
  <2>2. 1 \in 1..Len(a) BY <1>4
  <2> QED BY <1>4, <2>1, <2>2
<1>6. /\ e \in Seq(Message) /\ w \in Seq(Message)
      /\ \A k \in 1..Len(e) : e[k].from = "user"
      /\ \A k \in 1..Len(w) : w[k].from = "user"
  BY <1>2
<1>7. PICK A : A = M \o e OBVIOUS
<1>8. PICK B : B = A \o a OBVIOUS
<1>9. R = B \o w BY <1>3, <1>7, <1>8
<1>10. M \in Seq(Message) BY DEF Opened
<1>11. Opened(A) /\ A \in Seq(Message) BY <1>6, <1>7, OpenedGrows DEF Opened
<1>12. Opened(B) /\ B \in Seq(Message) BY <1>5, <1>8, <1>11, OpenedGrows DEF Opened
<1>13. Opened(R) BY <1>6, <1>9, <1>12, OpenedGrows
<1>14. ASSUME AnsweredBut(M, j, {1}) PROVE AllAnswered(R)
  <2>1. AnsweredBut(A, j, {1}) /\ A[j] = M[j]
    <3>1. \A k \in 1..Len(e) : e[k].from # "assistant" BY <1>6
    <3>2. \A c \in {1} \ {1} : \E k \in 1..Len(e) : e[k] = Tool(c) OBVIOUS
    <3>3. e \in Seq(Message) BY <1>6
    <3> QED BY <1>7, <1>10, <1>14, <3>1, <3>2, <3>3, AnswersFollow
  <2>2. AnsweredBut(B, j, {}) /\ B[j] = A[j]
    <3>1. \A k \in 1..Len(a) : a[k].from # "assistant" BY <1>1, <1>5
    <3>2. \A c \in {1} \ {} : \E k \in 1..Len(a) : a[k] = Tool(c) BY <1>5
    <3>3. a \in Seq(Message) BY <1>5
    <3> QED BY <1>8, <1>11, <2>1, <3>1, <3>2, <3>3, AnswersFollow
  <2>3. AnsweredBut(R, j, {})
    <3>1. \A k \in 1..Len(w) : w[k].from # "assistant" BY <1>6
    <3>2. \A c \in {} \ {} : \E k \in 1..Len(w) : w[k] = Tool(c) OBVIOUS
    <3>3. w \in Seq(Message) BY <1>6
    <3>4. AnsweredBut(B, j, {}) /\ B \in Seq(Message) BY <1>12, <2>2
    <3>5. AnsweredBut(B \o w, j, {}) BY <3>1, <3>2, <3>3, <3>4, AnswersFollow
    <3> QED BY <1>9, <3>5
  <2>4. R \in Seq(Message) /\ (1..R[j].n) \cap {} = {} BY <1>13 DEF Opened
  <2> QED BY <2>3, <2>4, LastAnswered
<1>15. ASSUME OpenAt(M, j), e = <<>> PROVE Tight(R)
  <2>1. A = M BY <1>7, <1>10, <1>15, ConcatEmptySeq
  <2>2. OpenAt(B, j)
    <3>1. \A i \in 1..Len(a) : a[i].from = "tool" /\ a[i].n <= A[j].n BY <1>1, <1>5, <2>1
    <3>2. a \in Seq(Message) BY <1>5
    <3> QED BY <1>8, <1>15, <2>1, <3>1, <3>2, TightAnswers
  <2>3. \A i \in 1..Len(w) : w[i].from # "tool" BY <1>6
  <2>4. w \in Seq(Message) /\ Tight(B) BY <1>6, <2>2 DEF OpenAt
  <2> QED BY <1>9, <1>12, <2>3, <2>4, TightNotes
<1> QED BY <1>13, <1>14, <1>15

\* A turn whose calls are all answered, with the notices e and w, or with none.
Turned(W, x, e, w) == W \o <<Asst(1 + x)>> \o ExtraAnswers(x) \o e \o <<Tool(1)>> \o w
Plain(W, x) == W \o <<Asst(1 + x)>> \o ExtraAnswers(x) \o <<Tool(1)>>

LEMMA AnsweredTurn ==
  ASSUME NEW W, Opened(W), NEW x \in 0..MaxExtras,
         NEW e \in {<<>>, <<User>>}, NEW w \in {<<>>, <<User>>}
  PROVE  /\ Opened(Turned(W, x, e, w))
         /\ AllAnswered(W) => AllAnswered(Turned(W, x, e, w))
         /\ Tight(W) /\ e = <<>> => Tight(Turned(W, x, e, w))
<1> DEFINE R == Turned(W, x, e, w)
<1>1. PICK M : M = W \o <<Asst(1 + x)>> \o ExtraAnswers(x) OBVIOUS
<1>2. PICK j : j = Len(W) + 1 OBVIOUS
<1>3. /\ Opened(M) /\ M[j].n = 1 + x
      /\ AllAnswered(W) => AnsweredBut(M, j, {1})
      /\ Tight(W) => OpenAt(M, j)
  BY <1>1, <1>2, CallAndExtras
<1>4. 1 + x \in Nat /\ 1 + x >= 1 OBVIOUS
<1>5. M[j].n \in Nat /\ M[j].n >= 1 BY <1>3, <1>4
<1>6. R = M \o e \o <<Tool(1)>> \o w BY <1>1 DEF Turned
<1> HIDE DEF R
<1>7. /\ Opened(R)
      /\ AnsweredBut(M, j, {1}) => AllAnswered(R)
      /\ OpenAt(M, j) /\ e = <<>> => Tight(R)
  BY <1>3, <1>5, <1>6, FirstAnswer
<1> QED BY <1>3, <1>7 DEF R

\* The same with no notice around the answer.
LEMMA PlainTurn ==
  ASSUME NEW W, Opened(W), NEW x \in 0..MaxExtras
  PROVE  /\ Opened(Plain(W, x))
         /\ AllAnswered(W) => AllAnswered(Plain(W, x))
         /\ Tight(W) => Tight(Plain(W, x))
<1>1. PICK M : M = W \o <<Asst(1 + x)>> \o ExtraAnswers(x) OBVIOUS
<1>2. Opened(M) /\ M \in Seq(Message) BY <1>1, CallAndExtras DEF Opened
<1>3. M \o <<>> = M BY <1>2, ConcatEmptySeq
<1>4. Tool(1) \in Message
  <2>1. 1 \in 0..(1 + MaxExtras) BY TaskStepAssumption
  <2> QED BY <2>1, ToolFacts
<1>5. M \o <<Tool(1)>> \in Seq(Message)
  <2>1. PICK a : a = <<Tool(1)>> OBVIOUS
  <2>2. a \in Seq(Message) BY <1>4, <2>1
  <2>3. M \o a \in Seq(Message) BY <1>2, <2>2, ConcatProperties
  <2> QED BY <2>1, <2>3
<1>6. M \o <<Tool(1)>> \o <<>> = M \o <<Tool(1)>> BY <1>5, ConcatEmptySeq
<1>7. Plain(W, x) = Turned(W, x, <<>>, <<>>) BY <1>1, <1>3, <1>6 DEF Plain, Turned
<1> QED BY <1>7, AnsweredTurn

\* What every turn that asks the model does to the transcript.
Spoken ==
  /\ pc' = "commit" /\ UNCHANGED <<disk, crashes>>
  /\ task.escalated => task'.escalated
  /\ Opened(ctx')
  /\ AllAnswered(Window) => AllAnswered(ctx') \/ task'.status = "failed"
  /\ Tight(Window) /\ ~task'.escalated => Tight(ctx')

LEMMA CountedSpeaks ==
  ASSUME Opened(ctx), NEW call \in Calls, NEW t \in Record, NEW bad \in BOOLEAN,
         t.escalated = task.escalated, Counted(call, t, bad)
  PROVE  Spoken
<1>1. pc' = "commit" /\ UNCHANGED <<disk, crashes>> BY CountedFacts
<1>2. PICK esc \in BOOLEAN, x \in 0..MaxExtras, warned \in BOOLEAN :
        /\ task'.escalated = (t.escalated \/ esc)
        /\ ctx' = Window \o <<Asst(1 + x)>> \o ExtraAnswers(x)
                    \o (IF esc THEN <<User>> ELSE <<>>) \o <<Tool(1)>>
                    \o (IF warned THEN <<User>> ELSE <<>>)
  BY CountedFacts
<1>3. PICK e, w : e = (IF esc THEN <<User>> ELSE <<>>) /\ w = (IF warned THEN <<User>> ELSE <<>>) OBVIOUS
<1>4. e \in {<<>>, <<User>>} /\ w \in {<<>>, <<User>>} /\ (~esc => e = <<>>) BY <1>3
<1>5. PICK R : R = ctx' OBVIOUS
<1>6. R = Window \o <<Asst(1 + x)>> \o ExtraAnswers(x) \o e \o <<Tool(1)>> \o w BY <1>2, <1>3, <1>5
<1>7. PICK W : W = Window OBVIOUS
<1>8. Opened(W) BY <1>7, WindowKeeps
<1>9. /\ Opened(R)
      /\ AllAnswered(W) => AllAnswered(R)
      /\ Tight(W) /\ e = <<>> => Tight(R)
  <2>1. R = Turned(W, x, e, w) BY <1>6, <1>7 DEF Turned
  <2>2. x \in 0..MaxExtras BY <1>2
  <2> QED BY <1>4, <1>8, <2>1, <2>2, AnsweredTurn
<1>10. task.escalated => task'.escalated BY <1>2
<1>11. ~task'.escalated => e = <<>> BY <1>2, <1>4
<1>12. /\ Opened(ctx')
       /\ AllAnswered(Window) => AllAnswered(ctx')
       /\ Tight(Window) /\ e = <<>> => Tight(ctx')
  BY <1>5, <1>7, <1>9
<1> QED BY <1>1, <1>10, <1>11, <1>12 DEF Spoken

LEMMA RefusedSpeaks ==
  ASSUME Opened(ctx), task \in Record, Refused
  PROVE  Spoken
<1>1. PICK x \in 0..MaxExtras :
        Turn(Paid, Window \o <<Asst(1 + x)>> \o ExtraAnswers(x) \o <<Tool(1)>>, TRUE)
  BY DEF Refused
<1>2. /\ task' = [Paid EXCEPT !.early = TRUE] /\ pc' = "commit" /\ UNCHANGED <<disk, crashes>>
      /\ ctx' = Window \o <<Asst(1 + x)>> \o ExtraAnswers(x) \o <<Tool(1)>>
  BY <1>1 DEF Turn
<1>3. task'.escalated = task.escalated BY <1>2, PaidFacts DEF Record
<1>4. PICK R, W : R = ctx' /\ W = Window OBVIOUS
<1>5. Opened(W) /\ R = Plain(W, x) BY <1>2, <1>4, WindowKeeps DEF Plain
<1>x. x \in 0..MaxExtras BY <1>1
<1>6. Opened(R) /\ (AllAnswered(W) => AllAnswered(R)) /\ (Tight(W) => Tight(R)) BY <1>5, <1>x, PlainTurn
<1>7. Opened(ctx') /\ (AllAnswered(Window) => AllAnswered(ctx')) /\ (Tight(Window) => Tight(ctx')) BY <1>4, <1>6
<1> QED BY <1>2, <1>3, <1>7 DEF Spoken

LEMMA AppendOne ==
  ASSUME NEW m \in Seq(Message), NEW a \in Message
  PROVE  Append(m, a) = m \o <<a>>
BY AppendIsConcat

LEMMA NoCallTurn ==
  ASSUME NEW W, Opened(W)
  PROVE  LET said == W \o <<Asst(0)>> \o <<>> IN
           /\ Opened(said) /\ Opened(Append(said, User))
           /\ AllAnswered(W) => AllAnswered(Append(said, User))
           /\ Tight(W) => Tight(said) /\ Tight(Append(said, User))
<1>1. W \in Seq(Message) BY DEF Opened
<1>2. 0 \in 0..(1 + MaxExtras) BY TaskStepAssumption
<1>3. PICK d : d = <<Asst(0)>> OBVIOUS
<1>4. Asst(0) \in Message /\ Asst(0).from = "assistant" BY <1>2 DEF Asst, Message
<1>5. d \in Seq(Message) /\ Len(d) = 1 /\ d[1] = Asst(0) BY <1>3, <1>4
<1>6. d \in Seq(Message) /\ \A k \in 1..Len(d) : d[k].from # "tool"
  <2>1. \A k \in 1..Len(d) : k = 1 BY <1>5
  <2> QED BY <1>4, <1>5, <2>1
<1>7. PICK M : M = W \o d OBVIOUS
<1>8. Opened(M) /\ M \in Seq(Message) BY <1>6, <1>7, OpenedGrows DEF Opened
<1>9. M = W \o <<Asst(0)>> \o <<>> BY <1>3, <1>7, <1>8, ConcatEmptySeq
<1>10. PICK e : e = <<User>> OBVIOUS
<1>11. e \in Seq(Message) /\ Len(e) = 1 /\ e[1] = User BY <1>10, ToolFacts
<1>12. e \in Seq(Message) /\ \A k \in 1..Len(e) : e[k].from = "user"
  <2>1. \A k \in 1..Len(e) : k = 1 BY <1>11
  <2> QED BY <1>11, <2>1, ToolFacts
<1>13. Append(M, User) = M \o e BY <1>8, <1>10, AppendOne, ToolFacts
<1>14. Opened(M \o e) BY <1>8, <1>12, OpenedGrows
<1>15. ASSUME AllAnswered(W) PROVE AllAnswered(M \o e)
  <2>1. AnsweredBut(W \o <<Asst(0)>>, Len(W) + 1, 1..0) /\ (W \o <<Asst(0)>>)[Len(W) + 1].n = 0
    BY <1>1, <1>2, <1>15, AsksFirst
  <2>2. PICK j : j = Len(W) + 1 OBVIOUS
  <2>3. AnsweredBut(M, j, {}) /\ M[j].n = 0 BY <1>3, <1>7, <2>1, <2>2
  <2>4. \A k \in 1..Len(e) : e[k].from # "assistant" BY <1>12
  <2>5. e \in Seq(Message) /\ \A c \in {} \ {} : \E k \in 1..Len(e) : e[k] = Tool(c) BY <1>12
  <2>6. AnsweredBut(M \o e, j, {}) /\ M \o e \in Seq(Message) BY <1>8, <2>3, <2>4, <2>5, AnswersFollow
  <2>7. PICK R : R = M \o e OBVIOUS
  <2>8. AnsweredBut(R, j, {}) /\ R \in Seq(Message) /\ (1..R[j].n) \cap {} = {} BY <2>6, <2>7
  <2>9. AllAnswered(R) BY <2>8, LastAnswered
  <2> QED BY <2>7, <2>9
<1>16. ASSUME Tight(W) PROVE Tight(M) /\ Tight(M \o e)
  <2>1. Tight(M) BY <1>1, <1>6, <1>7, <1>16, TightNotes
  <2>2. \A k \in 1..Len(e) : e[k].from # "tool" BY <1>12
  <2> QED BY <1>8, <1>12, <2>1, <2>2, TightNotes
<1> QED BY <1>8, <1>9, <1>13, <1>14, <1>15, <1>16

LEMMA MalformedSpeaks ==
  ASSUME Opened(ctx), task \in Record, Malformed
  PROVE  Spoken
<1> DEFINE t == [Paid EXCEPT !.malformed = @ + 1]
           Said(x) == Window \o <<Asst(x)>> \o (IF x > 0 THEN ExtraAnswers(x - 1) ELSE <<>>)
<1>1. PICK x \in 0..(MaxExtras + 1) :
        IF t.malformed >= MaxMalformed
        THEN Turn([t EXCEPT !.status = "failed"], Said(x), TRUE)
        ELSE Turn(t, Append(Said(x), IF x = 0 THEN User ELSE Tool(1)), TRUE)
  BY DEF Malformed
<1>2. t \in Record /\ t.escalated = task.escalated BY PaidFacts DEF Record
<1> HIDE DEF t
<1>3. PICK W, s : W = Window /\ s = Said(x) OBVIOUS
<1>4. Opened(W) BY <1>3, WindowKeeps
<1>5. /\ Opened(s) /\ (Tight(W) => Tight(s))
      /\ LET R == Append(s, IF x = 0 THEN User ELSE Tool(1))
         IN  Opened(R) /\ (AllAnswered(W) => AllAnswered(R)) /\ (Tight(W) => Tight(R))
  <2>1. CASE x = 0
    <3>1. s = W \o <<Asst(0)>> \o <<>> BY <1>3, <2>1
    <3> QED BY <1>4, <2>1, <3>1, NoCallTurn
  <2>2. CASE x # 0
    <3>1. PICK y : y = x - 1 OBVIOUS
    <3>2. y \in 0..MaxExtras /\ x = 1 + y /\ x > 0
      <4>1. x \in 0..(MaxExtras + 1) /\ MaxExtras \in Nat BY <1>1, TaskStepAssumption
      <4> QED BY <2>2, <3>1, <4>1
    <3>y. y \in 0..MaxExtras BY <3>2
    <3>3. s = W \o <<Asst(1 + y)>> \o ExtraAnswers(y) BY <1>3, <3>1, <3>2
    <3>4. Opened(s) /\ s \in Seq(Message) /\ (Tight(W) => Tight(s))
      <4>1. LET j == Len(W) + 1 IN Opened(s) /\ (Tight(W) => OpenAt(s, j)) BY <1>4, <3>y, <3>3, CallAndExtras
      <4> QED BY <4>1 DEF Opened, OpenAt
    <3>5. Tool(1) \in Message
      <4>1. 1 \in 0..(1 + MaxExtras) BY TaskStepAssumption
      <4> QED BY <4>1, ToolFacts
    <3>6. PICK R : R = s \o <<Tool(1)>> OBVIOUS
    <3>7. R = Plain(W, y) BY <3>3, <3>6 DEF Plain
    <3>8. Opened(R) /\ (AllAnswered(W) => AllAnswered(R)) /\ (Tight(W) => Tight(R))
      BY <1>4, <3>y, <3>7, PlainTurn
    <3>9. Append(s, IF x = 0 THEN User ELSE Tool(1)) = R BY <2>2, <3>4, <3>5, <3>6, AppendOne
    <3> QED BY <3>4, <3>8, <3>9
  <2> QED BY <2>1, <2>2
<1> HIDE DEF Said
<1>6. CASE t.malformed >= MaxMalformed
  <2>1. /\ task' = [[t EXCEPT !.status = "failed"] EXCEPT !.early = TRUE] /\ pc' = "commit"
        /\ UNCHANGED <<disk, crashes>> /\ ctx' = s
    BY <1>1, <1>3, <1>6 DEF Turn
  <2>2. task'.escalated = task.escalated /\ task'.status = "failed" BY <1>2, <2>1 DEF Record
  <2> QED BY <1>3, <1>5, <2>1, <2>2 DEF Spoken
<1>7. CASE ~(t.malformed >= MaxMalformed)
  <2>1. /\ task' = [t EXCEPT !.early = TRUE] /\ pc' = "commit"
        /\ UNCHANGED <<disk, crashes>> /\ ctx' = Append(s, IF x = 0 THEN User ELSE Tool(1))
    BY <1>1, <1>3, <1>7 DEF Turn
  <2>2. task'.escalated = task.escalated BY <1>2, <2>1 DEF Record
  <2> QED BY <1>3, <1>5, <2>1, <2>2 DEF Spoken
<1> QED BY <1>6, <1>7

\* The transcript and the record of a task whose loop was never killed: every call is answered,
\* except by the last turn of a task that fails; and until it is escalated, answers follow calls.
TranscriptInv ==
  /\ Opened(ctx) /\ crashes \in Nat
  /\ crashes = 0 =>
       /\ pc # "commit" => disk.escalated = task.escalated
       /\ ~task.escalated => Tight(ctx)
       /\ AllAnswered(ctx) \/ (pc = "commit" /\ task.status = "failed")
                           \/ (pc = "off" /\ disk.status = "failed")

LEMMA TranscriptStarts == Init => TranscriptInv
<1> SUFFICES ASSUME Init PROVE TranscriptInv OBVIOUS
<1>1. ctx = <<User, User>> /\ crashes = 0 /\ disk = task BY DEF Init
<1>2. ctx \in Seq(Message) /\ Len(ctx) = 2 /\ ctx[1] = User /\ ctx[2] = User BY <1>1, ToolFacts
<1>3. \A i \in 1..Len(ctx) : ctx[i].from = "user"
  <2>1. \A i \in 1..Len(ctx) : i = 1 \/ i = 2 BY <1>2
  <2> QED BY <1>2, <2>1, ToolFacts
<1>4. Opened(ctx) BY <1>2, ToolFacts DEF Opened
<1>5. Tight(ctx) BY <1>3 DEF Tight
<1>6. AllAnswered(ctx) BY <1>3 DEF AllAnswered
<1> QED BY <1>1, <1>4, <1>5, <1>6 DEF TranscriptInv

LEMMA SpokenKeeps ==
  ASSUME TranscriptInv, pc \in {"ready", "forced"}, Spoken
  PROVE  TranscriptInv'
<1>1. /\ pc' = "commit" /\ crashes' = crashes
      /\ task.escalated => task'.escalated
      /\ Opened(ctx')
      /\ AllAnswered(Window) => AllAnswered(ctx') \/ task'.status = "failed"
      /\ Tight(Window) /\ ~task'.escalated => Tight(ctx')
  BY DEF Spoken
<1>2. (AllAnswered(ctx) => AllAnswered(Window)) /\ (Tight(ctx) => Tight(Window))
  BY WindowKeeps DEF TranscriptInv
<1> QED BY <1>1, <1>2 DEF TranscriptInv

LEMMA TranscriptKeeps == StepInv /\ TranscriptInv /\ [Next]_vars => TranscriptInv'
<1> SUFFICES ASSUME StepInv, TranscriptInv, [Next]_vars PROVE TranscriptInv' OBVIOUS
<1>0. task \in Record /\ disk \in Record /\ Opened(ctx) /\ crashes \in Nat BY DEF StepInv, TranscriptInv
<1>1. CASE Take
  <2>1. /\ disk' = [disk EXCEPT !.status = "running"] /\ task' = disk' /\ pc' = "ready" /\ pc = "off"
        /\ disk.status \in {"queued", "running"} /\ ctx' = ctx /\ crashes' = crashes
    BY <1>1 DEF Take
  <2>2. disk'.escalated = disk.escalated BY <1>0, <2>1 DEF Record
  <2> QED BY <2>1, <2>2 DEF TranscriptInv
<1>2. CASE Stopped
  <2>1. /\ task' = [task EXCEPT !.status = "failed"] /\ pc' = "commit" /\ UNCHANGED <<disk, crashes>>
        /\ pc = "ready" /\ ctx' = Compacted(ctx, FALSE)
    BY <1>2 DEF Stopped
  <2>2. task'.escalated = task.escalated /\ task'.status = "failed" BY <1>0, <2>1 DEF Record
  <2>3. Opened(ctx') /\ (Tight(ctx) => Tight(ctx')) BY <1>0, <2>1, CompactedKeeps
  <2> QED BY <2>1, <2>2, <2>3 DEF TranscriptInv
<1>3. CASE ProviderFails \/ StepRaises
  <2>1. /\ task' = [task EXCEPT !.status = "failed"] /\ pc' = "commit" /\ UNCHANGED <<disk, ctx, crashes>>
    BY <1>3 DEF ProviderFails, StepRaises
  <2>2. task'.escalated = task.escalated /\ task'.status = "failed" BY <1>0, <2>1 DEF Record
  <2> QED BY <2>1, <2>2 DEF TranscriptInv
<1>4. CASE Overflow
  <2>1. pc' = "forced" /\ pc = "ready" /\ UNCHANGED <<disk, task, crashes>>
        /\ ctx' = Compacted(Compacted(ctx, FALSE), TRUE)
    BY <1>4 DEF Overflow
  <2>2. PICK m : m = Compacted(ctx, FALSE) OBVIOUS
  <2>3. Opened(m) /\ (AllAnswered(ctx) => AllAnswered(m)) /\ (Tight(ctx) => Tight(m))
    BY <1>0, <2>2, CompactedKeeps
  <2>4. Opened(ctx') /\ (AllAnswered(m) => AllAnswered(ctx')) /\ (Tight(m) => Tight(ctx'))
    BY <2>1, <2>2, <2>3, CompactedKeeps
  <2> QED BY <2>1, <2>3, <2>4 DEF TranscriptInv
<1>5. CASE Malformed
  BY <1>0, <1>5, MalformedSpeaks, SpokenKeeps DEF Malformed, MayCall
<1>6. CASE Refused
  BY <1>0, <1>6, RefusedSpeaks, SpokenKeeps DEF Refused, MayCall
<1>7. CASE RunTool
  <2>1. PICK call \in Calls, bad \in BOOLEAN : Counted(call, Called, bad) BY <1>7 DEF RunTool
  <2>2. Called \in Record /\ Called.escalated = task.escalated BY <1>0, PaidFacts
  <2>3. Spoken BY <1>0, <2>1, <2>2, CountedSpeaks
  <2>4. pc \in {"ready", "forced"} BY <1>7 DEF RunTool, MayCall
  <2> QED BY <2>3, <2>4, SpokenKeeps
<1>8. ASSUME NEW call \in {"ask_human", "finish_task"}, NEW t, Counted(call, t, FALSE), MayCall,
             t \in Record, t.escalated = task.escalated
      PROVE  TranscriptInv'
  <2>1. call \in Calls BY TaskStepAssumption
  <2>2. Spoken BY <1>0, <1>8, <2>1, CountedSpeaks
  <2>3. pc \in {"ready", "forced"} BY <1>8 DEF MayCall
  <2> QED BY <2>2, <2>3, SpokenKeeps
<1>9. Called \in Record /\ Called.escalated = task.escalated BY <1>0, PaidFacts
<1>10. CASE AskHuman
  <2>1. /\ [Called EXCEPT !.status = "blocked"] \in Record
        /\ [Called EXCEPT !.status = "blocked"].escalated = task.escalated
    BY <1>9 DEF Record, Statuses
  <2> QED BY <1>8, <1>10, <2>1 DEF AskHuman
<1>11. CASE FinishAccepted
  <2>1. /\ [Called EXCEPT !.status = "done"] \in Record
        /\ [Called EXCEPT !.status = "done"].escalated = task.escalated
    BY <1>9 DEF Record, Statuses
  <2> QED BY <1>8, <1>11, <2>1 DEF FinishAccepted
<1>12. CASE FinishRefused
  <2>1. PICK giveUp \in BOOLEAN :
          Counted("finish_task", [Called EXCEPT !.rejects = @ + 1,
                                                !.status = IF giveUp THEN "failed" ELSE "running"], FALSE)
    BY <1>12 DEF FinishRefused
  <2>2. ASSUME NEW st \in {"failed", "running"}
        PROVE  /\ [Called EXCEPT !.rejects = @ + 1, !.status = st] \in Record
               /\ [Called EXCEPT !.rejects = @ + 1, !.status = st].escalated = task.escalated
    <3>1. Called.rejects + 1 \in Nat BY <1>9 DEF Record
    <3> QED BY <1>9, <3>1 DEF Record, Statuses
  <2>3. CASE giveUp BY <1>8, <1>12, <2>1, <2>2, <2>3 DEF FinishRefused
  <2>4. CASE ~giveUp BY <1>8, <1>12, <2>1, <2>2, <2>4 DEF FinishRefused
  <2> QED BY <2>3, <2>4
<1>13. CASE Commit
  <2>1. /\ disk' = task /\ task' = task /\ pc = "commit" /\ ctx' = ctx /\ crashes' = crashes
        /\ pc' = IF task.status = "running" THEN "ready" ELSE "off"
    BY <1>13 DEF Commit
  <2> QED BY <2>1 DEF TranscriptInv
<1>14. CASE BreakOff
  <2>1. UNCHANGED <<disk, task, ctx, crashes>> /\ pc = "ready" /\ pc' = "off" BY <1>14 DEF BreakOff
  <2> QED BY <2>1 DEF TranscriptInv
<1>15. CASE Crash
  <2>1. ctx' = ctx /\ crashes' = crashes + 1 BY <1>15 DEF Crash
  <2>2. crashes' \in Nat /\ crashes' # 0
    <3>1. \A c \in Nat : c + 1 \in Nat /\ c + 1 # 0 OBVIOUS
    <3> QED BY <1>0, <2>1, <3>1
  <2> QED BY <1>0, <2>1, <2>2 DEF TranscriptInv
<1>16. CASE AnswerTask
  <2>1. /\ disk' = [disk EXCEPT !.status = "queued"] /\ ctx' = Append(ctx, User) /\ task' = task
        /\ pc = "off" /\ pc' = pc /\ crashes' = crashes /\ disk.status = "blocked"
    BY <1>16 DEF AnswerTask
  <2>2. disk'.escalated = disk.escalated BY <1>0, <2>1 DEF Record
  <2>3. PICK e : e = <<User>> OBVIOUS
  <2>4. e \in Seq(Message) /\ Len(e) = 1 /\ e[1] = User BY <2>3, ToolFacts
  <2>5. e \in Seq(Message) /\ \A k \in 1..Len(e) : e[k].from = "user"
    <3>1. \A k \in 1..Len(e) : k = 1 BY <2>4
    <3> QED BY <2>4, <3>1, ToolFacts
  <2>6. ctx \in Seq(Message) BY <1>0 DEF Opened
  <2>7. ctx' = ctx \o e BY <2>1, <2>3, <2>6, AppendOne, ToolFacts
  <2>8. Opened(ctx \o e) BY <1>0, <2>5, OpenedGrows
  <2>9. Tight(ctx) => Tight(ctx \o e) BY <2>5, <2>6, TightNotes
  <2>10. AllAnswered(ctx) => AllAnswered(ctx \o e) BY <2>5, <2>6, AnsweredGrows
  <2> QED BY <2>1, <2>2, <2>7, <2>8, <2>9, <2>10 DEF TranscriptInv
<1>17. CASE DeadlinePasses \/ UNCHANGED vars
  <2>1. UNCHANGED <<disk, task, ctx, crashes, pc>> BY <1>17 DEF DeadlinePasses, vars
  <2> QED BY <2>1 DEF TranscriptInv
<1> QED BY <1>1, <1>2, <1>3, <1>4, <1>5, <1>6, <1>7, <1>10, <1>11, <1>12, <1>13, <1>14, <1>15, <1>16, <1>17
        DEF Next, Step

\* The inductive invariant of a task's turns: the record and the transcript.
THEOREM TurnInvariant == Spec => [](StepInv /\ TranscriptInv)
BY StepStarts, StepKeeps, TranscriptStarts, TranscriptKeeps, PTL DEF Spec

\* What no step touches, or only time does.
Given == stopAt \in StopSteps /\ deadline \in {"none", "ahead", "passed"}

\* The turns of a call that counts leave the committed record alone.
LEMMA CalledTurn ==
  ASSUME StepInv, RunTool \/ AskHuman \/ FinishAccepted \/ FinishRefused
  PROVE  pc # "off" /\ pc' = "commit" /\ UNCHANGED <<disk, stopAt, deadline>>
<1>1. ASSUME NEW call \in Calls, NEW t, t \in Record, NEW bad \in BOOLEAN, Counted(call, t, bad)
      PROVE  pc' = "commit" /\ UNCHANGED <<disk, stopAt, deadline>>
  BY <1>1, CountedFacts
<1>2. task \in Record BY DEF StepInv
<1>3. Called \in Record BY <1>2, PaidFacts
<1>4. pc # "off"
  <2>1. MayCall BY Zenon DEF RunTool, AskHuman, FinishAccepted, FinishRefused
  <2> QED BY <2>1 DEF MayCall
<1>5. "ask_human" \in Calls /\ "finish_task" \in Calls BY TaskStepAssumption
<1>6. \A st \in Statuses : [Called EXCEPT !.status = st] \in Record BY <1>3 DEF Record
<1>7. \A st \in Statuses : [Called EXCEPT !.rejects = @ + 1, !.status = st] \in Record
  <2>1. Called.rejects + 1 \in Nat BY <1>3 DEF Record
  <2> QED BY <1>3, <2>1 DEF Record
<1>8. CASE RunTool BY <1>1, <1>3, <1>4, <1>8 DEF RunTool
<1>9. CASE AskHuman
  <2>1. [Called EXCEPT !.status = "blocked"] \in Record BY <1>6 DEF Statuses
  <2> QED BY <1>1, <1>4, <1>5, <1>9, <2>1 DEF AskHuman
<1>10. CASE FinishAccepted
  <2>1. [Called EXCEPT !.status = "done"] \in Record BY <1>6 DEF Statuses
  <2> QED BY <1>1, <1>4, <1>5, <1>10, <2>1 DEF FinishAccepted
<1>11. CASE FinishRefused
  <2>1. PICK st \in {"failed", "running"} :
          Counted("finish_task", [Called EXCEPT !.rejects = @ + 1, !.status = st], FALSE)
    BY <1>11, Zenon DEF FinishRefused
  <2>2. [Called EXCEPT !.rejects = @ + 1, !.status = st] \in Record BY <1>7, <2>1 DEF Statuses
  <2> QED BY <1>1, <1>4, <1>5, <2>1, <2>2
<1> QED BY <1>8, <1>9, <1>10, <1>11

LEMMA GivenKept == ASSUME Given, StepInv, [Next]_vars PROVE Given'
<1>1. CASE RunTool \/ AskHuman \/ FinishAccepted \/ FinishRefused
  BY <1>1, CalledTurn DEF Given
<1>2. CASE ~(RunTool \/ AskHuman \/ FinishAccepted \/ FinishRefused)
  <2>1. stopAt' = stopAt /\ deadline' \in {deadline, "passed"}
    BY <1>2, Zenon DEF Next, Step, Take, Stopped, ProviderFails, StepRaises, Overflow, Malformed,
       Refused, Turn, Commit, BreakOff, Crash, AnswerTask, DeadlinePasses, vars
  <2> QED BY <2>1 DEF Given
<1> QED BY <1>1, <1>2

\* The model of a task's turns keeps its types, for every choice of its constants.
THEOREM TypeCorrect == Spec => []TypeOK
<1>1. Init => Given BY DEF Init, Given
<1>2. Given /\ StepInv /\ [Next]_vars => Given' BY GivenKept
<1>3. Given /\ StepInv /\ TranscriptInv => TypeOK
  BY DEF Given, StepInv, TranscriptInv, Opened, TypeOK
<1> QED BY <1>1, <1>2, <1>3, TurnInvariant, PTL DEF Spec

\* The task as its owner sees it: its committed record, and whether a loop executes it.
Ledger == INSTANCE TaskLedger WITH
  Tasks <- {"task"}, Loops <- {"loop"},
  life <- [t \in {"task"} |-> disk.status],
  executors <- [t \in {"task"} |-> IF pc = "off" THEN {} ELSE {"loop"}]

RunsOnDisk == pc # "off" => disk.status = "running"

\* What a step does to the owner's view, if anything.
LEMMA OwnerSees ==
  ASSUME StepInv, RunsOnDisk, [Next]_vars
  PROVE  \/ disk'.status = disk.status /\ (pc' = "off" <=> pc = "off")
         \/ Take \/ BreakOff \/ Crash \/ AnswerTask
         \/ Commit /\ task.status # "running"
<1>1. CASE RunTool \/ AskHuman \/ FinishAccepted \/ FinishRefused
  BY <1>1, CalledTurn
<1>2. CASE Stopped \/ ProviderFails \/ StepRaises \/ Overflow \/ Malformed \/ Refused
  <2>1. pc # "off" /\ pc' # "off" /\ disk' = disk
    BY <1>2 DEF Stopped, ProviderFails, StepRaises, Overflow, Malformed, Refused, Turn, MayCall
  <2> QED BY <2>1
<1>3. CASE DeadlinePasses \/ UNCHANGED vars
  BY <1>3 DEF DeadlinePasses, vars
<1>4. CASE Commit /\ task.status = "running"
  <2>1. disk' = task /\ pc = "commit" /\ pc' = "ready" BY <1>4 DEF Commit
  <2> QED BY <1>4, <2>1 DEF RunsOnDisk
<1> QED BY <1>1, <1>2, <1>3, <1>4 DEF Next, Step

\* An attempt does to its task what TaskLedger lets an executor do: it takes a task nobody
\* executes, it alone concludes it, from running, by the commit of a step (commit_task), it
\* may leave it running, and only an answer brings a blocked one back.
THEOREM AttemptKeepsLedger == Spec => [][Ledger!Next]_(Ledger!vars)
<1> DEFINE L(x) == [t \in {"task"} |-> x]
<1>1. Init => RunsOnDisk BY DEF Init, RunsOnDisk
<1>2. ASSUME StepInv, RunsOnDisk, [Next]_vars PROVE RunsOnDisk'
  <2>1. CASE disk'.status = disk.status /\ (pc' = "off" <=> pc = "off") BY <1>2, <2>1 DEF RunsOnDisk
  <2>2. CASE Take
    <3>1. disk' = [disk EXCEPT !.status = "running"] /\ disk \in Record
      BY <1>2, <2>2 DEF Take, StepInv
    <3> QED BY <3>1 DEF RunsOnDisk, Record
  <2>3. CASE Commit /\ task.status # "running" BY <2>3 DEF Commit, RunsOnDisk
  <2>4. CASE BreakOff \/ Crash BY <2>4 DEF BreakOff, Crash, RunsOnDisk
  <2>5. CASE AnswerTask
    <3>1. pc' = "off" BY <2>5 DEF AnswerTask
    <3> QED BY <3>1 DEF RunsOnDisk
  <2> QED BY <1>2, <2>1, <2>2, <2>3, <2>4, <2>5, OwnerSees
<1>3. \A x, y : [L(x) EXCEPT !["task"] = y] = L(y) /\ L(x)["task"] = x
  OBVIOUS
<1>4. ASSUME StepInv, RunsOnDisk, [Next]_vars PROVE [Ledger!Next]_(Ledger!vars)
  <2> USE DEF Ledger!Next, Ledger!Becomes
  <2>1. CASE disk'.status = disk.status /\ (pc' = "off" <=> pc = "off")
    BY <2>1 DEF Ledger!vars
  <2>2. CASE Take
    <3>1. /\ pc = "off" /\ pc' # "off" /\ disk.status \in {"queued", "running"}
          /\ disk' = [disk EXCEPT !.status = "running"] /\ disk \in Record
      BY <1>4, <2>2 DEF Take, StepInv
    <3>2. disk'.status = "running" BY <3>1 DEF Record
    <3>3. Ledger!Take("loop", "task") BY <1>3, <3>1, <3>2 DEF Ledger!Take
    <3> QED BY <3>3
  <2>3. CASE Commit /\ task.status # "running"
    <3>1. pc = "commit" /\ pc' = "off" /\ disk' = task BY <2>3 DEF Commit
    <3>2. task.status \in {"done", "failed", "blocked"}
      BY <1>4, <2>3, <3>1 DEF StepInv, Record, Statuses
    <3>3. disk.status = "running" BY <1>4, <3>1 DEF RunsOnDisk
    <3>4. Ledger!Conclude("loop", "task", task.status)
      BY <1>3, <3>1, <3>3 DEF Ledger!Conclude
    <3> QED BY <3>2, <3>4
  <2>4. CASE BreakOff \/ Crash
    <3>1. pc # "off" /\ pc' = "off" /\ disk' = disk BY <2>4 DEF BreakOff, Crash
    <3>2. Ledger!Abandon("loop", "task") BY <1>3, <3>1 DEF Ledger!Abandon
    <3> QED BY <3>2
  <2>5. CASE AnswerTask
    <3>1. /\ pc = "off" /\ pc' = "off" /\ disk.status = "blocked"
          /\ disk' = [disk EXCEPT !.status = "queued"] /\ disk \in Record
      BY <1>4, <2>5 DEF AnswerTask, StepInv
    <3>2. disk'.status = "queued" BY <3>1 DEF Record
    <3>3. Ledger!Answer("task") BY <1>3, <3>1, <3>2 DEF Ledger!Answer
    <3> QED BY <3>3
  <2> QED BY <1>4, <2>1, <2>2, <2>3, <2>4, <2>5, OwnerSees
<1> QED BY <1>1, <1>2, <1>4, TurnInvariant, PTL DEF Spec

\* "EVERY tool_call_id GETS AN ANSWER" (run_task_step): unless the loop was killed, the
\* model is never asked with a call of its own left unanswered.
THEOREM CallsAreAnsweredHolds == Spec => []CallsAreAnswered
<1>1. StepInv /\ TranscriptInv => CallsAreAnswered
  BY WindowKeeps DEF TranscriptInv, CallsAreAnswered
<1> QED BY <1>1, TurnInvariant, PTL

\* compact_context never starts the kept tail on a dangling result: unless the loop was
\* killed, an answer is sent without its call only in a task that was escalated.
THEOREM OrphansByEscalationHolds == Spec => []OrphansByEscalation
<1>1. StepInv /\ TranscriptInv => OrphansByEscalation
  BY WindowKeeps, TightHasNoOrphan DEF TranscriptInv, OrphansByEscalation, Opened
<1> QED BY <1>1, TurnInvariant, PTL

-----------------------------------------------------------------------------
(* Refused work (Candidates).                                              *)

\* A running task has attempts left; every refusal was an attempt.
RoundPerReject(c) == c.rejects = c.rounds
HasMore(c) == c.outcome = "running" => c.rounds < CandRejects

\* What the loop's copy says beyond what is committed.
CopyOfPhase ==
  /\ phase # "off" => saved.outcome = "running"
  /\ phase = "work" => copy = saved
  /\ phase = "decide" =>
       /\ copy.rounds = saved.rounds + 1 /\ copy.paths = saved.paths
       /\ copy.outcome = "running"
  /\ phase = "commit" =>
       /\ copy.rounds \in {saved.rounds, saved.rounds + 1} /\ copy.rounds <= CandRejects
       /\ HasMore(copy)

\* Attempts are numbered up to the one after the last committed.
NoneBeyond == \A n \in Stashed : n <= saved.rounds + 1

\* The attempt that is being decided about is there, if attempts are kept.
DecidedIsStashed ==
  phase = "decide" /\ Stashing /\ copy.paths # {} => copy.rounds \in Stashed

\* The types that matter here; that work and stash keep theirs needs a best attempt to
\* exist (BestWins below).
CountersOK ==
  /\ saved \in Counters /\ copy \in Counters
  /\ phase \in {"off", "work", "decide", "commit"}
  /\ stash = [n \in Numbers |-> stash[n]]

CandInv ==
  /\ CountersOK /\ RoundPerReject(saved) /\ RoundPerReject(copy) /\ HasMore(saved)
  /\ CopyOfPhase /\ NoneBeyond /\ DecidedIsStashed

\* A write adds what was noted of it to the paths, and changes no file of others.
LEMMA NotedIs ==
  ASSUME WriteFile \/ RefusedWrite
  PROVE  \E fs \in SUBSET Files :
           /\ phase = "work" /\ phase' = "commit" /\ UNCHANGED <<saved, kills>>
           /\ IsFiniteSet(fs) /\ copy' = [copy EXCEPT !.paths = @ \cup fs]
<1>1. \A f \in Files : {} \in SUBSET Files /\ {f} \in SUBSET Files /\ IsFiniteSet({}) /\ IsFiniteSet({f})
  BY FS_EmptySet, FS_Singleton
<1>2. CASE WriteFile
  <2>1. PICK f \in Files : Noted({}) \/ Noted({f}) BY <1>2 DEF WriteFile
  <2> QED BY <1>1, <1>2, <2>1 DEF WriteFile, Noted
<1>3. CASE RefusedWrite
  <2>1. PICK f \in Files : Noted({f}) BY <1>3 DEF RefusedWrite
  <2> QED BY <1>1, <1>3, <2>1 DEF RefusedWrite, Noted
<1> QED BY <1>2, <1>3

LEMMA CandStarts == CandInit => CandInv
<1> SUFFICES ASSUME CandInit PROVE CandInv
  OBVIOUS
<1> USE CandAssumption
<1>1. 0 \in Nat /\ 0 \in 0..CandRejects /\ 0 < CandRejects
  OBVIOUS
<1>2. /\ saved = [rejects |-> 0, rounds |-> 0, paths |-> {}, outcome |-> "running"]
      /\ copy = saved /\ phase = "work" /\ work \in [Files -> Quality]
      /\ stash = [n \in Numbers |-> Absent] /\ kills = 0
  BY Zenon DEF CandInit
<1>3. saved \in Counters
  BY <1>1, <1>2 DEF Counters, Outcomes
<1>4. CountersOK
  BY <1>2, <1>3 DEF CountersOK
<1>5. Stashed = {}
  BY <1>2 DEF Stashed
<1> QED
  BY <1>1, <1>2, <1>4, <1>5
     DEF CandInv, RoundPerReject, HasMore, CopyOfPhase, NoneBeyond, DecidedIsStashed

\* The steps that leave the stash alone.
LEMMA CandQuiet ==
  ASSUME CandInv, CandTake \/ WriteFile \/ RefusedWrite \/ FinishPasses \/ TryAgain \/ CandCommit \/ CandCrash
  PROVE  CandInv'
<1> USE CandAssumption DEF CandInv
<1>0. UNCHANGED stash /\ Stashed' = Stashed
  BY DEF CandTake, WriteFile, RefusedWrite, FinishPasses, TryAgain, CandCommit, CandCrash, Stashed
<1>1. saved \in Counters /\ copy \in Counters
  BY DEF CountersOK
<1>2. CASE CandTake
  BY <1>0, <1>1, <1>2 DEF CandTake, CountersOK, RoundPerReject, HasMore, CopyOfPhase, NoneBeyond,
     DecidedIsStashed
<1>3. CASE WriteFile \/ RefusedWrite
  <2>1. PICK fs \in SUBSET Files :
          /\ phase = "work" /\ phase' = "commit" /\ UNCHANGED <<saved, kills>>
          /\ copy' = [copy EXCEPT !.paths = @ \cup fs]
    BY <1>3, NotedIs
  <2>2. /\ copy' \in Counters /\ copy'.rounds = copy.rounds /\ copy'.rejects = copy.rejects
        /\ copy'.outcome = copy.outcome
    BY <1>1, <2>1 DEF Counters
  <2>3. copy.rounds \in Nat /\ CandRejects \in Nat
    BY <1>1 DEF Counters
  <2> QED
    BY <1>0, <2>1, <2>2, <2>3 DEF CountersOK, RoundPerReject, HasMore, CopyOfPhase, NoneBeyond,
       DecidedIsStashed
<1>4. CASE FinishPasses
  <2>1. /\ copy' \in Counters /\ copy'.rounds = copy.rounds /\ copy'.rejects = copy.rejects
        /\ copy'.outcome = "done"
    BY <1>1, <1>4 DEF FinishPasses, Counters, Outcomes
  <2>2. copy.rounds \in Nat /\ CandRejects \in Nat
    BY <1>1 DEF Counters
  <2> QED
    BY <1>0, <1>4, <2>1, <2>2 DEF FinishPasses, CountersOK, RoundPerReject, HasMore, CopyOfPhase,
       NoneBeyond, DecidedIsStashed
<1>5. CASE TryAgain
  <2>1. /\ phase = "decide" /\ phase' = "commit" /\ UNCHANGED <<saved, copy, work, kills>>
        /\ ~(copy.rejects >= CandRejects)
    BY <1>5 DEF TryAgain, MustStop
  <2>2. copy.rounds \in Nat /\ CandRejects \in Nat
    BY <1>1 DEF Counters
  <2>3. copy.rounds < CandRejects
    BY <2>1, <2>2 DEF RoundPerReject
  <2> QED
    BY <1>0, <2>1, <2>2, <2>3 DEF CountersOK, RoundPerReject, HasMore, CopyOfPhase, NoneBeyond,
       DecidedIsStashed
<1>6. CASE CandCommit
  <2>1. /\ phase = "commit" /\ saved' = copy /\ UNCHANGED <<copy, work, kills>>
        /\ phase' = IF copy.outcome = "running" THEN "work" ELSE "off"
    BY <1>6 DEF CandCommit
  <2>2. \A n \in Stashed : n \in Nat
    BY DEF Stashed, Numbers
  <2>3. saved.rounds \in Nat /\ saved'.rounds \in {saved.rounds, saved.rounds + 1}
    BY <1>1, <2>1 DEF Counters, CopyOfPhase
  <2>4. NoneBeyond'
    BY <1>0, <2>2, <2>3 DEF NoneBeyond
  <2> QED
    BY <1>0, <1>1, <2>1, <2>4 DEF CountersOK, RoundPerReject, HasMore, CopyOfPhase,
       DecidedIsStashed
<1>7. CASE CandCrash
  BY <1>0, <1>7 DEF CandCrash, CountersOK, RoundPerReject, HasMore, CopyOfPhase, NoneBeyond,
     DecidedIsStashed
<1> QED
  BY <1>2, <1>3, <1>4, <1>5, <1>6, <1>7

\* A refusal: the attempt gets the next number.
LEMMA CandRefused == ASSUME CandInv, FinishFails PROVE CandInv'
<1> USE CandAssumption DEF CandInv
<1>1. /\ saved \in Counters /\ copy = saved /\ phase = "work" /\ saved.outcome = "running"
  BY DEF CountersOK, FinishFails, CopyOfPhase
<1>2. PICK again \in BOOLEAN :
        /\ phase' = "decide" /\ UNCHANGED <<saved, work, kills>>
        /\ copy' = [copy EXCEPT !.rejects = @ + 1, !.rounds = @ + 1]
        /\ IF Stashing /\ copy.paths # {}
           THEN stash' = [stash EXCEPT ![copy'.rounds] =
                            [attempt |-> copy'.rounds, passed |-> again, files |-> work,
                             paths |-> copy.paths, kept |-> Copied(copy.paths)]]
           ELSE UNCHANGED stash
  BY Zenon DEF FinishFails, Verdicts
<1> DEFINE k == copy'.rounds
           new == [attempt |-> k, passed |-> again, files |-> work,
                   paths |-> copy.paths, kept |-> Copied(copy.paths)]
<1>3. /\ copy' \in Counters /\ k = saved.rounds + 1 /\ copy'.rejects = saved.rejects + 1
      /\ copy'.paths = copy.paths /\ copy'.outcome = "running"
  <2>1. copy \in Counters /\ copy' = [copy EXCEPT !.rejects = @ + 1, !.rounds = @ + 1]
    BY <1>1, <1>2
  <2>2. /\ copy' \in Counters /\ copy'.rounds = copy.rounds + 1
        /\ copy'.rejects = copy.rejects + 1
        /\ copy'.paths = copy.paths /\ copy'.outcome = copy.outcome
    <3>1. /\ copy.rejects \in Nat /\ copy.rounds \in Nat
          /\ copy.rejects + 1 \in Nat /\ copy.rounds + 1 \in Nat
      BY <2>1 DEF Counters
    <3>2. copy' = [copy EXCEPT !.rejects = copy.rejects + 1, !.rounds = copy.rounds + 1]
      BY <2>1, Zenon
    <3> QED
      BY <2>1, <3>1, <3>2 DEF Counters
  <2>3. /\ copy.rounds = saved.rounds /\ copy.rejects = saved.rejects
        /\ copy.outcome = "running"
    BY <1>1
  <2> QED
    BY <2>2, <2>3
<1>4. saved.rounds \in Nat /\ saved.rounds < CandRejects /\ saved.paths \subseteq Files
  BY <1>1 DEF Counters, HasMore
<1>5. k \in Numbers /\ k \in 0..CandRejects /\ k # 0
  BY <1>3, <1>4 DEF Numbers
<1>6. new # Absent
  <2>1. new.attempt # Absent.attempt
    BY <1>5 DEF Absent
  <2> QED
    BY <2>1
<1> HIDE DEF new
<1>7. /\ stash' = [n \in Numbers |-> stash'[n]]
      /\ \A n \in Numbers : n # k => stash'[n] = stash[n]
      /\ Stashing /\ copy.paths # {} => stash'[k] = new
  <2>1. CASE Stashing /\ copy.paths # {}
    <3>1. stash' = [stash EXCEPT ![k] = new]
      BY <1>2, <2>1 DEF new
    <3> QED
      BY <1>5, <1>6, <3>1 DEF CountersOK
  <2>2. CASE ~(Stashing /\ copy.paths # {})
    BY <1>2, <2>2 DEF CountersOK
  <2> QED
    BY <2>1, <2>2
<1> HIDE DEF k
<1>8. NoneBeyond'
  <2>1. \A n \in Numbers : n # k /\ stash'[n] # Absent => n <= saved.rounds + 1
    BY <1>7 DEF NoneBeyond, Stashed
  <2>2. \A n \in Numbers : stash'[n] # Absent => n <= saved.rounds + 1
    BY <1>3, <1>4, <2>1
  <2> QED
    BY <1>2, <2>2 DEF NoneBeyond, Stashed, Absent
<1>9. DecidedIsStashed'
  <2>1. Stashing /\ copy.paths # {} => k \in Numbers /\ stash'[k] # Absent
    BY <1>5, <1>6, <1>7
  <2> QED
    BY <1>3, <2>1 DEF DecidedIsStashed, Stashed, k, Absent
<1>10. RoundPerReject(copy)' /\ RoundPerReject(saved)'
  BY <1>1, <1>2, <1>3 DEF RoundPerReject, k
<1>11. CopyOfPhase' /\ HasMore(saved)'
  BY <1>1, <1>2, <1>3 DEF CopyOfPhase, HasMore, k
<1>12. CountersOK'
  BY <1>2, <1>3, <1>7 DEF CountersOK
<1> QED
  BY <1>8, <1>9, <1>10, <1>11, <1>12

\* The best attempt is put back, with whatever choice the comparison makes.
LEMMA CandGivesUp == ASSUME CandInv, GiveUp PROVE CandInv'
<1> USE CandAssumption DEF CandInv
<1>1. /\ phase = "decide" /\ phase' = "commit" /\ UNCHANGED <<saved, stash, kills>>
      /\ copy' = [copy EXCEPT !.outcome = "failed"]
  BY DEF GiveUp
<1>2. saved \in Counters /\ copy \in Counters
  BY DEF CountersOK
<1>3. /\ copy' \in Counters /\ copy'.rounds = copy.rounds /\ copy'.rejects = copy.rejects
      /\ copy'.outcome = "failed"
  BY <1>1, <1>2 DEF Counters, Outcomes
<1>4. CountersOK' /\ Stashed' = Stashed
  BY <1>1, <1>3 DEF CountersOK, Stashed
<1>5. saved.rounds \in Nat /\ copy.rounds <= CandRejects
  BY <1>1, <1>2 DEF Counters, CopyOfPhase, HasMore
<1> QED
  BY <1>1, <1>3, <1>4, <1>5 DEF RoundPerReject, HasMore, CopyOfPhase, NoneBeyond, DecidedIsStashed

\* The counters, the copy and the stash agree, always.
THEOREM CandInvHolds == CandSpec => []CandInv
<1>1. CandInv /\ [CandNext]_candVars => CandInv'
  <2> SUFFICES ASSUME CandInv, [CandNext]_candVars PROVE CandInv'
    OBVIOUS
  <2>1. CASE UNCHANGED candVars
    <3>1. CountersOK'
      BY <2>1 DEF candVars, CandInv, CountersOK
    <3> QED
      BY <2>1, <3>1 DEF candVars, CandInv, RoundPerReject, HasMore, CopyOfPhase, NoneBeyond,
         DecidedIsStashed, Stashed
  <2> QED
    BY <2>1, CandQuiet, CandRefused, CandGivesUp DEF CandNext
<1> QED
  BY <1>1, CandStarts, PTL DEF CandSpec

\* After any kills the stash is ahead of the committed counter by one attempt at
\* most, and whoever decides finds its own attempt there and none beyond
\* (_stash_attempt, commit_task).
THEOREM StashAheadByOneHolds == CandSpec => []StashAheadByOne
<1>1. CandInv => StashAheadByOne
  <2> SUFFICES ASSUME CandInv PROVE StashAheadByOne
    OBVIOUS
  <2>1. ASSUME phase = "decide" PROVE Stashed \subseteq 1..copy.rounds
    <3>1. copy.rounds = saved.rounds + 1 /\ saved.rounds \in Nat
      BY <2>1 DEF CandInv, CopyOfPhase, CountersOK, Counters
    <3>2. \A n \in Stashed : n \in Nat /\ 1 <= n /\ n <= copy.rounds
      BY <3>1, CandAssumption DEF CandInv, NoneBeyond, Stashed, Numbers
    <3> QED
      BY <3>1, <3>2
  <2> QED
    BY <2>1 DEF CandInv, NoneBeyond, DecidedIsStashed, StashAheadByOne
<1> QED
  BY <1>1, CandInvHolds, PTL
-----------------------------------------------------------------------------
(* What is put back is not worse than the last attempt (Candidates).       *)

\* The sum over a set, as the equation its recursive function solves.
SumStep(f, K, h) ==
  [s \in SUBSET K |-> IF s = {} THEN 0
                      ELSE f[CHOOSE x \in s : TRUE] + h[s \ {CHOOSE x \in s : TRUE}]]

LEMMA SumIs ==
  ASSUME NEW f, NEW K
  PROVE  SumFunctionOnSet(f, K) = (CHOOSE h : h = SumStep(f, K, h))[K]
BY DEF SumFunctionOnSet, FoldFunctionOnSet, MapThenFoldSet, SumStep

\* A solution that is right for the sets of up to n elements.
RightTo(f, K, n, h) ==
  /\ h \in [SUBSET K -> Nat]
  /\ \A s \in SUBSET K : Cardinality(s) <= n => h[s] = SumStep(f, K, h)[s]

\* A set is one element and a smaller set.
LEMMA OneLess ==
  ASSUME NEW K, IsFiniteSet(K), NEW s \in SUBSET K, s # {}
  PROVE  /\ (CHOOSE x \in s : TRUE) \in s /\ s \ {CHOOSE x \in s : TRUE} \in SUBSET K
         /\ Cardinality(s) \in Nat /\ Cardinality(s \ {CHOOSE x \in s : TRUE}) = Cardinality(s) - 1
         /\ Cardinality(s) - 1 \in Nat
<1>1. (CHOOSE x \in s : TRUE) \in s OBVIOUS
<1>2. IsFiniteSet(s) BY FS_Subset
<1> DEFINE y == CHOOSE x \in s : TRUE
<1>3. y \in s BY <1>1
<1> HIDE DEF y
<1>4. /\ IsFiniteSet(s \ {y}) /\ Cardinality(s \ {y}) = Cardinality(s) - 1
      /\ Cardinality(s) \in Nat /\ Cardinality(s \ {y}) \in Nat
  BY <1>2, <1>3, FS_RemoveElement, FS_CardinalityType
<1>5. /\ y \in s /\ s \ {y} \in SUBSET K /\ Cardinality(s) \in Nat
      /\ Cardinality(s \ {y}) = Cardinality(s) - 1 /\ Cardinality(s) - 1 \in Nat
  BY <1>3, <1>4
<1> QED BY <1>5 DEF y

LEMMA RightNext ==
  ASSUME NEW K, IsFiniteSet(K), NEW f, \A x \in K : f[x] \in Nat, NEW n \in Nat, NEW h, RightTo(f, K, n, h)
  PROVE  RightTo(f, K, n + 1, SumStep(f, K, h))
<1> DEFINE g == SumStep(f, K, h)
           one(s) == CHOOSE x \in s : TRUE
<1>1. h \in [SUBSET K -> Nat] BY DEF RightTo
<1>2. \A s \in SUBSET K : s # {} =>
        /\ one(s) \in s /\ s \ {one(s)} \in SUBSET K /\ Cardinality(s) \in Nat
        /\ Cardinality(s \ {one(s)}) = Cardinality(s) - 1
  BY OneLess
<1>3. \A s \in SUBSET K : g[s] = IF s = {} THEN 0 ELSE f[one(s)] + h[s \ {one(s)}]
  BY DEF SumStep
<1>8. g = [s \in SUBSET K |-> g[s]] BY DEF SumStep
<1>4. \A s \in SUBSET K : SumStep(f, K, g)[s] = IF s = {} THEN 0 ELSE f[one(s)] + g[s \ {one(s)}]
  BY DEF SumStep
<1> HIDE DEF g, one
<1>5. ASSUME NEW s \in SUBSET K PROVE g[s] \in Nat
  <2>1. CASE s = {} BY <1>3, <2>1
  <2>2. CASE s # {}
    <3>1. one(s) \in K /\ s \ {one(s)} \in SUBSET K BY <1>2, <2>2
    <3>2. f[one(s)] \in Nat /\ h[s \ {one(s)}] \in Nat BY <1>1, <3>1
    <3> QED BY <1>3, <2>2, <3>2
  <2> QED BY <2>1, <2>2
<1>6. ASSUME NEW s \in SUBSET K, Cardinality(s) <= n + 1 PROVE g[s] = SumStep(f, K, g)[s]
  <2>1. CASE s = {} BY <1>3, <1>4, <2>1
  <2>2. CASE s # {}
    <3>1. s \ {one(s)} \in SUBSET K /\ Cardinality(s \ {one(s)}) <= n BY <1>2, <1>6, <2>2
    <3>2. h[s \ {one(s)}] = SumStep(f, K, h)[s \ {one(s)}] BY <3>1 DEF RightTo
    <3>3. h[s \ {one(s)}] = g[s \ {one(s)}] BY <3>2 DEF g
    <3> QED BY <1>3, <1>4, <2>2, <3>3
  <2> QED BY <2>1, <2>2
<1>7. g \in [SUBSET K -> Nat] BY <1>5, <1>8
<1> QED BY <1>6, <1>7 DEF RightTo, g

\* For every size there is one: the smallest size without one would follow a size with one.
LEMMA RightExists ==
  ASSUME NEW K, IsFiniteSet(K), NEW f, \A x \in K : f[x] \in Nat, NEW n \in Nat
  PROVE  \E h : RightTo(f, K, n, h)
<1> DEFINE Good == {m \in Nat : \E h : RightTo(f, K, m, h)}
<1>1. 0 \in Good
  <2> DEFINE z == [s \in SUBSET K |-> 0]
  <2>1. ASSUME NEW s \in SUBSET K, Cardinality(s) <= 0 PROVE s = {}
    <3> SUFFICES ASSUME s # {} PROVE FALSE OBVIOUS
    <3>1. Cardinality(s) \in Nat /\ Cardinality(s) - 1 \in Nat BY OneLess
    <3> QED BY <2>1, <3>1
  <2>2. SumStep(f, K, z)[{}] = 0 BY DEF SumStep
  <2>3. z \in [SUBSET K -> Nat] /\ z[{}] = 0 OBVIOUS
  <2> HIDE DEF z
  <2>4. RightTo(f, K, 0, z) BY <2>1, <2>2, <2>3 DEF RightTo
  <2> QED BY <2>4
<1>2. \A m \in Good : m + 1 \in Good BY RightNext
<1>3. Good \in SUBSET Nat OBVIOUS
<1> HIDE DEF Good
<1>4. Nat \subseteq Good
  <2> SUFFICES ASSUME Nat \ Good # {} PROVE FALSE OBVIOUS
  <2>1. PICK j \in Nat \ Good : \A i \in Nat \ Good : j <= i BY Smallest
  <2>2. j # 0 /\ j - 1 \in Nat BY <1>1, <2>1
  <2>3. j - 1 \in Good /\ (j - 1) + 1 = j BY <2>1, <2>2
  <2> QED BY <1>2, <2>1, <2>2, <2>3
<1> QED BY <1>4 DEF Good

\* There is a solution, and no other.
LEMMA SumSolved ==
  ASSUME NEW K, IsFiniteSet(K), NEW f, \A x \in K : f[x] \in Nat
  PROVE  \E h \in [SUBSET K -> Nat] : h = SumStep(f, K, h)
<1>1. Cardinality(K) \in Nat BY FS_CardinalityType
<1>2. PICK h : RightTo(f, K, Cardinality(K), h) BY <1>1, RightExists
<1>3. \A s \in SUBSET K : Cardinality(s) <= Cardinality(K) BY FS_Subset
<1>4. h \in [SUBSET K -> Nat] /\ \A s \in SUBSET K : h[s] = SumStep(f, K, h)[s]
  BY <1>2, <1>3 DEF RightTo
<1>5. SumStep(f, K, h) = [s \in SUBSET K |-> SumStep(f, K, h)[s]] BY DEF SumStep
<1>6. h = [s \in SUBSET K |-> h[s]] BY <1>4
<1>7. [s \in SUBSET K |-> h[s]] = [s \in SUBSET K |-> SumStep(f, K, h)[s]] BY <1>4
<1>8. h = SumStep(f, K, h) BY <1>5, <1>6, <1>7
<1> QED BY <1>4, <1>8

LEMMA SumUnique ==
  ASSUME NEW K, IsFiniteSet(K), NEW f, NEW h, h = SumStep(f, K, h), NEW g, g = SumStep(f, K, g)
  PROVE  h = g
<1> DEFINE one(s) == CHOOSE x \in s : TRUE
           Bad == {n \in Nat : \E s \in SUBSET K : Cardinality(s) = n /\ h[s] # g[s]}
<1>1. \A s \in SUBSET K : h[s] = IF s = {} THEN 0 ELSE f[one(s)] + h[s \ {one(s)}]
  <2>1. \A s \in SUBSET K : SumStep(f, K, h)[s] = IF s = {} THEN 0 ELSE f[one(s)] + h[s \ {one(s)}]
    BY DEF SumStep
  <2> QED BY <2>1
<1>2. \A s \in SUBSET K : g[s] = IF s = {} THEN 0 ELSE f[one(s)] + g[s \ {one(s)}]
  <2>1. \A s \in SUBSET K : SumStep(f, K, g)[s] = IF s = {} THEN 0 ELSE f[one(s)] + g[s \ {one(s)}]
    BY DEF SumStep
  <2> QED BY <2>1
<1>3. \A s \in SUBSET K : s # {} =>
        /\ s \ {one(s)} \in SUBSET K /\ Cardinality(s) \in Nat /\ Cardinality(s) - 1 \in Nat
        /\ Cardinality(s \ {one(s)}) = Cardinality(s) - 1
  BY OneLess
<1>4. \A s \in SUBSET K : Cardinality(s) \in Nat BY FS_Subset, FS_CardinalityType
<1> HIDE DEF one
<1>5. Bad = {}
  <2> SUFFICES ASSUME Bad # {} PROVE FALSE OBVIOUS
  <2>1. PICK n \in Bad : \A i \in Bad : n <= i BY Smallest
  <2>2. PICK s \in SUBSET K : Cardinality(s) = n /\ h[s] # g[s] BY <2>1
  <2>3. s # {} BY <1>1, <1>2, <2>2
  <2>4. h[s \ {one(s)}] # g[s \ {one(s)}] BY <1>1, <1>2, <2>2, <2>3
  <2>5. Cardinality(s) - 1 \in Bad BY <1>3, <2>3, <2>4
  <2> QED BY <1>4, <2>1, <2>2, <2>5
<1>6. \A s \in SUBSET K : h[s] = g[s] BY <1>4, <1>5
<1>7. h = [s \in SUBSET K |-> h[s]]
  <2>1. SumStep(f, K, h) = [s \in SUBSET K |-> SumStep(f, K, h)[s]] BY DEF SumStep
  <2> QED BY <2>1
<1>8. g = [s \in SUBSET K |-> g[s]]
  <2>1. SumStep(f, K, g) = [s \in SUBSET K |-> SumStep(f, K, g)[s]] BY DEF SumStep
  <2> QED BY <2>1
<1>9. [s \in SUBSET K |-> h[s]] = [s \in SUBSET K |-> g[s]] BY <1>6
<1> QED BY <1>7, <1>8, <1>9

\* A sum of numbers is one ...
LEMMA SumType ==
  ASSUME NEW K, IsFiniteSet(K), NEW f, \A x \in K : f[x] \in Nat
  PROVE  SumFunctionOnSet(f, K) \in Nat
<1>1. PICK h \in [SUBSET K -> Nat] : h = SumStep(f, K, h) BY SumSolved
<1> DEFINE c == CHOOSE g : g = SumStep(f, K, g)
<1>2. c = SumStep(f, K, c) BY <1>1
<1> HIDE DEF c
<1>3. c = h BY <1>1, <1>2, SumUnique
<1>4. c[K] \in Nat BY <1>3
<1> QED BY <1>4, SumIs DEF c

\* ... and depends on what is summed only.
LEMMA SumSame ==
  ASSUME NEW K, IsFiniteSet(K), NEW f, NEW g, \A x \in K : f[x] \in Nat /\ g[x] = f[x]
  PROVE  SumFunctionOnSet(f, K) = SumFunctionOnSet(g, K)
<1> DEFINE c == CHOOSE h : h = SumStep(f, K, h)
           d == CHOOSE h : h = SumStep(g, K, h)
<1>1. c = SumStep(f, K, c)
  <2>1. \E h : h = SumStep(f, K, h) BY SumSolved
  <2> QED BY <2>1
<1>2. d = SumStep(g, K, d)
  <2>1. \A x \in K : g[x] \in Nat OBVIOUS
  <2>2. \E h : h = SumStep(g, K, h) BY <2>1, SumSolved
  <2> QED BY <2>2
<1> HIDE DEF c, d
<1>3. SumStep(g, K, d) = SumStep(f, K, d)
  <2>1. \A s \in SUBSET K : s # {} => (CHOOSE x \in s : TRUE) \in K BY OneLess
  <2>2. \A s \in SUBSET K : s # {} => g[CHOOSE x \in s : TRUE] = f[CHOOSE x \in s : TRUE] BY <2>1
  <2> QED BY <2>2 DEF SumStep
<1>4. c = d BY <1>1, <1>2, <1>3, SumUnique
<1>5. c[K] = d[K] BY <1>4
<1> QED BY <1>5, SumIs DEF c, d

\* ... and grows with it: the smallest part on which it did not would follow a smaller one.
LEMMA SumMore ==
  ASSUME NEW K, IsFiniteSet(K), NEW f, NEW g, \A x \in K : f[x] \in Nat /\ g[x] \in Nat /\ g[x] <= f[x]
  PROVE  SumFunctionOnSet(g, K) <= SumFunctionOnSet(f, K)
<1>1. PICK c \in [SUBSET K -> Nat] : c = SumStep(f, K, c) BY SumSolved
<1>2. PICK d \in [SUBSET K -> Nat] : d = SumStep(g, K, d) BY SumSolved
<1> DEFINE one(t) == CHOOSE x \in t : TRUE
           Bad == {n \in Nat : \E t \in SUBSET K : Cardinality(t) = n /\ ~(d[t] <= c[t])}
<1>3. \A t \in SUBSET K : c[t] = IF t = {} THEN 0 ELSE f[one(t)] + c[t \ {one(t)}]
  <2>1. \A t \in SUBSET K : SumStep(f, K, c)[t] = IF t = {} THEN 0 ELSE f[one(t)] + c[t \ {one(t)}]
    BY DEF SumStep
  <2> QED BY <1>1, <2>1
<1>4. \A t \in SUBSET K : d[t] = IF t = {} THEN 0 ELSE g[one(t)] + d[t \ {one(t)}]
  <2>1. \A t \in SUBSET K : SumStep(g, K, d)[t] = IF t = {} THEN 0 ELSE g[one(t)] + d[t \ {one(t)}]
    BY DEF SumStep
  <2> QED BY <1>2, <2>1
<1>5. \A t \in SUBSET K : t # {} =>
        /\ one(t) \in t /\ t \ {one(t)} \in SUBSET K /\ Cardinality(t) \in Nat
        /\ Cardinality(t) - 1 \in Nat /\ Cardinality(t \ {one(t)}) = Cardinality(t) - 1
  BY OneLess
<1>6. \A t \in SUBSET K : Cardinality(t) \in Nat BY FS_Subset, FS_CardinalityType
<1> HIDE DEF one
<1>7. Bad = {}
  <2> SUFFICES ASSUME Bad # {} PROVE FALSE OBVIOUS
  <2>1. PICK n \in Bad : \A i \in Bad : n <= i BY Smallest
  <2>2. PICK t \in SUBSET K : Cardinality(t) = n /\ ~(d[t] <= c[t]) BY <2>1
  <2>3. t # {}
    <3> SUFFICES ASSUME t = {} PROVE FALSE OBVIOUS
    <3>1. d[t] = 0 /\ c[t] = 0 BY <1>3, <1>4
    <3> QED BY <2>2, <3>1
  <2> DEFINE u == t \ {one(t)}
             x == one(t)
  <2>4. x \in K /\ u \in SUBSET K BY <1>5, <2>3
  <2>5. d[t] = g[x] + d[u] /\ c[t] = f[x] + c[u] BY <1>3, <1>4, <2>3
  <2>6. g[x] \in Nat /\ f[x] \in Nat /\ g[x] <= f[x] /\ d[u] \in Nat /\ c[u] \in Nat BY <2>4
  <2>7. Cardinality(u) = Cardinality(t) - 1 BY <1>5, <2>3
  <2> HIDE DEF u, x
  <2>8. ~(d[u] <= c[u]) BY <2>2, <2>5, <2>6
  <2>9. Cardinality(t) - 1 \in Bad BY <1>5, <2>3, <2>4, <2>7, <2>8
  <2> QED BY <1>6, <2>1, <2>2, <2>9
<1>8. d[K] <= c[K] BY <1>6, <1>7
<1> DEFINE a == CHOOSE h : h = SumStep(f, K, h)
           b == CHOOSE h : h = SumStep(g, K, h)
<1>9. a = SumStep(f, K, a) /\ b = SumStep(g, K, b) BY <1>1, <1>2
<1> HIDE DEF a, b
<1>10. a = c /\ b = d BY <1>1, <1>2, <1>9, SumUnique
<1>11. b[K] <= a[K] BY <1>8, <1>10
<1> QED BY <1>11, SumIs DEF a, b

\* What there is to compare: an attempt that wrote something.
Proper(a) ==
  /\ a.passed \in BOOLEAN /\ a.files \in [Files -> Quality]
  /\ a.paths \in SUBSET Files /\ a.paths # {} /\ IsFiniteSet(a.paths)
  /\ a.kept = {f \in a.paths \ Foreign : a.files[f] > 0}

LEMMA ProperNumbers ==
  ASSUME NEW a, Proper(a)
  PROVE  /\ SumFunctionOnSet(a.files, a.paths) \in Nat /\ Cardinality(a.paths) \in Nat \ {0}
         /\ a.passed \in BOOLEAN
<1>1. \A x \in a.paths : a.files[x] \in Nat BY CandAssumption DEF Proper
<1>2. SumFunctionOnSet(a.files, a.paths) \in Nat BY <1>1, SumType DEF Proper
<1>3. Cardinality(a.paths) \in Nat /\ Cardinality(a.paths) # 0
  BY FS_CardinalityType, FS_EmptySet DEF Proper
<1> QED BY <1>2, <1>3 DEF Proper

\* Means compared by multiplying out.
LEMMA CrossOver ==
  ASSUME NEW s \in Nat, NEW c \in Nat \ {0}, NEW t \in Nat, NEW d \in Nat \ {0},
         NEW u \in Nat, NEW e \in Nat \ {0}, s * d > t * c, ~(u * d > t * e)
  PROVE  s * e > u * c
<1>1. (s * d) * e > (t * c) * e
  <2>1. s * d \in Nat /\ t * c \in Nat OBVIOUS
  <2>2. \A x, y \in Nat : \A z \in Nat \ {0} : x > y => x * z > y * z OBVIOUS
  <2> QED BY <2>1, <2>2
<1>2. (t * e) * c >= (u * d) * c
  <2>1. u * d \in Nat /\ t * e \in Nat /\ t * e >= u * d OBVIOUS
  <2>2. \A x, y \in Nat : \A z \in Nat \ {0} : x >= y => x * z >= y * z OBVIOUS
  <2> QED BY <2>1, <2>2
<1>3. (s * d) * e = (s * e) * d /\ (t * c) * e = (t * e) * c /\ (u * d) * c = (u * c) * d OBVIOUS
<1>4. /\ s * e \in Nat /\ u * c \in Nat /\ (s * d) * e \in Nat /\ (t * c) * e \in Nat
      /\ (t * e) * c \in Nat /\ (u * d) * c \in Nat
  OBVIOUS
<1>5. (s * e) * d > (u * c) * d BY <1>1, <1>2, <1>3, <1>4
<1>6. \A x, y \in Nat : \A z \in Nat \ {0} : x * z > y * z => x > y
  <2> SUFFICES ASSUME NEW x \in Nat, NEW y \in Nat, NEW z \in Nat \ {0}, x * z > y * z, ~(x > y) PROVE FALSE
    OBVIOUS
  <2>1. y >= x OBVIOUS
  <2>2. y * z >= x * z BY <2>1
  <2> QED BY <2>2
<1> QED BY <1>4, <1>5, <1>6

LEMMA BetterIs ==
  ASSUME NEW a, Proper(a), NEW b, Proper(b)
  PROVE  ~(Better(a, b) /\ Better(b, a))
<1> DEFINE s == SumFunctionOnSet(a.files, a.paths) * Cardinality(b.paths)
           t == SumFunctionOnSet(b.files, b.paths) * Cardinality(a.paths)
<1>1. s \in Nat /\ t \in Nat BY ProperNumbers
<1>2. Better(a, b) <=> (a.passed /\ ~b.passed) \/ (a.passed = b.passed /\ s > t) BY DEF Better
<1>3. Better(b, a) <=> (b.passed /\ ~a.passed) \/ (b.passed = a.passed /\ t > s) BY DEF Better
<1> HIDE DEF s, t
<1>4. ~(s > t /\ t > s) BY <1>1
<1> QED BY <1>2, <1>3, <1>4

\* Whatever beats one that another does not beat, beats the other.
LEMMA BetterLifts ==
  ASSUME NEW a, Proper(a), NEW b, Proper(b), NEW k, Proper(k), Better(a, b), ~Better(k, b)
  PROVE  Better(a, k)
<1> DEFINE S(x) == SumFunctionOnSet(x.files, x.paths)
           C(x) == Cardinality(x.paths)
<1>1. \A x \in {a, b, k} : S(x) \in Nat /\ C(x) \in Nat \ {0} BY ProperNumbers
<1>2. \A x, y \in {a, b, k} : Better(x, y) <=>
        (x.passed /\ ~y.passed) \/ (x.passed = y.passed /\ S(x) * C(y) > S(y) * C(x))
  BY DEF Better
<1> HIDE DEF S, C
<1>3. S(a) * C(b) > S(b) * C(a) /\ ~(S(k) * C(b) > S(b) * C(k)) => S(a) * C(k) > S(k) * C(a)
  BY <1>1, CrossOver
<1>4. a.passed \in BOOLEAN /\ b.passed \in BOOLEAN /\ k.passed \in BOOLEAN BY DEF Proper
<1>5. /\ (a.passed /\ ~b.passed) \/ (a.passed = b.passed /\ S(a) * C(b) > S(b) * C(a))
      /\ ~((k.passed /\ ~b.passed) \/ (k.passed = b.passed /\ S(k) * C(b) > S(b) * C(k)))
  BY <1>2
<1>6. (a.passed /\ ~k.passed) \/ (a.passed = k.passed /\ S(a) * C(k) > S(k) * C(a))
  BY <1>3, <1>4, <1>5
<1> QED BY <1>2, <1>6

\* n wins among the first m attempts, in the order of the sort.
WinsOf(n, m) ==
  /\ n \in Stashed /\ n <= m
  /\ \A k \in Stashed : k <= m => ~Better(stash[k], stash[n])
  /\ \A k \in Stashed : k < n => Better(stash[n], stash[k])

LEMMA WinnerNext ==
  ASSUME \A n \in Stashed : Proper(stash[n]), NEW m \in Nat,
         (\E k \in Stashed : k <= m) => \E n \in Stashed : WinsOf(n, m),
         \E k \in Stashed : k <= m + 1
  PROVE  \E n \in Stashed : WinsOf(n, m + 1)
<1>1. \A k \in Stashed : k \in Nat BY CandAssumption DEF Stashed, Numbers
<1>2. \A k \in Stashed : k <= m + 1 => k <= m \/ k = m + 1 BY <1>1
<1>3. CASE m + 1 \notin Stashed
  <2>1. PICK n \in Stashed : WinsOf(n, m) BY <1>2, <1>3
  <2>2. WinsOf(n, m + 1) BY <1>1, <1>2, <1>3, <2>1 DEF WinsOf
  <2> QED BY <2>2
<1>4. CASE m + 1 \in Stashed /\ \A k \in Stashed : ~(k <= m)
  <2>1. ~Better(stash[m + 1], stash[m + 1]) BY <1>4, BetterIs
  <2>2. \A k \in Stashed : k <= m + 1 => k = m + 1 BY <1>2, <1>4
  <2>3. \A k \in Stashed : ~(k < m + 1) BY <1>1, <1>4
  <2>4. WinsOf(m + 1, m + 1) BY <1>4, <2>1, <2>2, <2>3 DEF WinsOf
  <2> QED BY <1>4, <2>4
<1>5. CASE m + 1 \in Stashed /\ \E k \in Stashed : k <= m
  <2>1. PICK n \in Stashed : WinsOf(n, m) BY <1>5
  <2>2. n <= m /\ \A k \in Stashed : k <= m => ~Better(stash[k], stash[n]) BY <2>1 DEF WinsOf
  <2>3. CASE Better(stash[m + 1], stash[n])
    <3>1. \A k \in Stashed : k <= m => Better(stash[m + 1], stash[k])
      BY <1>5, <2>2, <2>3, BetterLifts
    <3>2. \A k \in Stashed : k <= m => ~Better(stash[k], stash[m + 1])
      BY <1>5, <3>1, BetterIs
    <3>3. ~Better(stash[m + 1], stash[m + 1]) BY <1>5, BetterIs
    <3>4. \A k \in Stashed : k < m + 1 => k <= m BY <1>1
    <3>5. WinsOf(m + 1, m + 1) BY <1>2, <1>5, <3>1, <3>2, <3>3, <3>4 DEF WinsOf
    <3> QED BY <1>5, <3>5
  <2>4. CASE ~Better(stash[m + 1], stash[n])
    <3>1. n <= m + 1 BY <1>1, <2>2
    <3>2. WinsOf(n, m + 1) BY <1>2, <2>1, <2>4, <3>1 DEF WinsOf
    <3> QED BY <3>2
  <2> QED BY <2>3, <2>4
<1> QED BY <1>3, <1>4, <1>5

\* There is a winner wherever there is an attempt.
LEMMA BestWins ==
  ASSUME \A n \in Stashed : Proper(stash[n]), Stashed # {}
  PROVE  Best \in Stashed /\ Best \in Numbers
<1> DEFINE Good == {m \in Nat : (\E k \in Stashed : k <= m) => \E n \in Stashed : WinsOf(n, m)}
<1>1. Stashed \subseteq Numbers /\ Stashed \subseteq Nat /\ CandRejects \in Nat
      /\ \A k \in Stashed : 1 <= k /\ k <= CandRejects
  BY CandAssumption DEF Stashed, Numbers
<1>2. 0 \in Good
  <2>1. \A k \in Stashed : ~(k <= 0) BY <1>1
  <2> QED BY <2>1
<1>3. \A m \in Good : m + 1 \in Good BY WinnerNext
<1>4. Good \in SUBSET Nat OBVIOUS
<1> HIDE DEF Good
<1>5. Nat \subseteq Good
  <2> SUFFICES ASSUME Nat \ Good # {} PROVE FALSE OBVIOUS
  <2>1. PICK j \in Nat \ Good : \A i \in Nat \ Good : j <= i BY Smallest
  <2>2. j # 0 /\ j - 1 \in Nat BY <1>2, <2>1
  <2>3. j - 1 \in Good /\ (j - 1) + 1 = j BY <2>1, <2>2
  <2> QED BY <1>3, <2>1, <2>2, <2>3
<1>6. \E n \in Stashed : WinsOf(n, CandRejects)
  <2>1. CandRejects \in Good BY <1>1, <1>5
  <2>2. \E k \in Stashed : k <= CandRejects BY <1>1
  <2> QED BY <2>1, <2>2 DEF Good
<1>7. \E n \in Stashed : /\ \A k \in Stashed : ~Better(stash[k], stash[n])
                         /\ \A k \in Stashed : k < n => Better(stash[n], stash[k])
  BY <1>1, <1>6 DEF WinsOf
<1>8. Best \in Stashed BY <1>7 DEF Best
<1> QED BY <1>1, <1>8

\* An attempt is stashed only after some file was written and committed.
Written ==
  /\ IsFiniteSet(saved.paths) /\ IsFiniteSet(copy.paths)
  /\ phase # "off" => saved.paths \subseteq copy.paths
  /\ \A n \in Stashed : Proper(stash[n]) /\ Stashing /\ saved.paths # {}

\* No attempt follows one that passed the second time.
PassedIsLast ==
  /\ saved.outcome = "running" => \A n \in Stashed : stash[n].passed => n = saved.rounds + 1
  /\ phase = "commit" /\ copy.outcome = "running" =>
       \A n \in Stashed : stash[n].passed => n = copy.rounds + 1

\* The attempt that is decided on is what is on disk.
LastIsOnDisk ==
  phase = "decide" /\ copy.rounds \in Stashed =>
    stash[copy.rounds].files = work /\ stash[copy.rounds].paths = copy.paths

\* What the task may not write is as every attempt found it.
OthersStay == \A n \in Stashed : \A f \in Foreign : stash[n].files[f] = work[f]

MixInv ==
  CandTypeOK /\ Written /\ PassedIsLast /\ LastIsOnDisk /\ OthersStay /\ WorseOnlyByMixing

LEMMA MixStarts == CandInit => MixInv
<1> SUFFICES ASSUME CandInit PROVE MixInv
  OBVIOUS
<1>1. /\ saved = [rejects |-> 0, rounds |-> 0, paths |-> {}, outcome |-> "running"]
      /\ copy = saved /\ phase = "work" /\ work \in [Files -> Quality]
      /\ stash = [n \in Numbers |-> Absent] /\ kills = 0
  BY Zenon DEF CandInit
<1>2. /\ saved \in Counters /\ saved.paths = {} /\ work \in [Files -> Quality]
  BY <1>1, CandAssumption DEF Counters, Outcomes
<1>3. Absent \in Attempts
  <2>1. 0 \in 0..CandRejects /\ [f \in Files |-> 0] \in [Files -> Quality]
    BY CandAssumption
  <2> QED
    BY <2>1 DEF Absent, Attempts
<1>4. CandTypeOK
  BY <1>1, <1>2, <1>3 DEF CandTypeOK
<1>5. Stashed = {}
  BY <1>1 DEF Stashed
<1>6. Written
  BY <1>1, <1>2, <1>5, FS_EmptySet DEF Written
<1> QED
  BY <1>1, <1>4, <1>5, <1>6 DEF MixInv, PassedIsLast, LastIsOnDisk, OthersStay, WorseOnlyByMixing, GaveUp

\* The steps that leave the stash alone: none of them gives up.
LEMMA MixQuiet ==
  ASSUME CandInv, MixInv, CandInv',
         CandTake \/ WriteFile \/ RefusedWrite \/ FinishPasses \/ TryAgain \/ CandCommit \/ CandCrash
  PROVE  MixInv'
<1>0. /\ UNCHANGED stash /\ Stashed' = Stashed
      /\ \A n \in Stashed : Proper(stash[n])' <=> Proper(stash[n])
  BY DEF CandTake, WriteFile, RefusedWrite, FinishPasses, TryAgain, CandCommit, CandCrash, Stashed, Proper
<1>1. /\ saved \in Counters /\ copy \in Counters /\ saved' \in Counters /\ copy' \in Counters
      /\ phase' \in {"off", "work", "decide", "commit"}
      /\ work \in [Files -> Quality] /\ stash \in [Numbers -> Attempts] /\ kills \in Nat
  BY DEF MixInv, CandTypeOK, CandInv, CountersOK
<1>2. IsFiniteSet(saved.paths) /\ IsFiniteSet(copy.paths)
      /\ \A n \in Stashed : Proper(stash[n]) /\ Stashing /\ saved.paths # {}
  BY DEF MixInv, Written
<1>9. OthersStay'
  <2>1. \A f \in Foreign : work'[f] = work[f]
    BY <1>1, CandAssumption DEF CandTake, WriteFile, RefusedWrite, FinishPasses, TryAgain, CandCommit, CandCrash
  <2> QED BY <1>0, <2>1 DEF MixInv, OthersStay
<1>3. CASE CandTake
  <2>1. /\ phase' = "work" /\ copy' = saved /\ UNCHANGED <<saved, work, kills>>
    BY <1>3 DEF CandTake
  <2>2. CandTypeOK' BY <1>0, <1>1, <2>1 DEF CandTypeOK
  <2>3. Written' BY <1>0, <1>2, <2>1 DEF Written
  <2>4. PassedIsLast' BY <1>0, <2>1 DEF MixInv, PassedIsLast
  <2> QED BY <1>9, <2>1, <2>2, <2>3, <2>4 DEF MixInv, LastIsOnDisk, WorseOnlyByMixing, GaveUp
<1>4. CASE WriteFile \/ RefusedWrite
  <2>1. PICK fs \in SUBSET Files :
          /\ phase = "work" /\ phase' = "commit" /\ UNCHANGED <<saved, kills>>
          /\ IsFiniteSet(fs) /\ copy' = [copy EXCEPT !.paths = @ \cup fs]
    BY <1>4, NotedIs
  <2>7. work' \in [Files -> Quality] /\ \A f \in Foreign : work'[f] = work[f]
    BY <1>1, <1>4, CandAssumption DEF WriteFile, RefusedWrite
  <2>2. /\ copy'.rounds = copy.rounds /\ copy'.outcome = copy.outcome
        /\ copy'.paths = copy.paths \cup fs
    BY <1>1, <2>1 DEF Counters
  <2>3. copy = saved /\ saved.outcome = "running" BY <2>1 DEF CandInv, CopyOfPhase
  <2>4. CandTypeOK' BY <1>0, <1>1, <2>1, <2>7 DEF CandTypeOK
  <2>5. Written'
    <3>1. IsFiniteSet(copy.paths \cup fs) BY <1>2, <2>1, FS_Union
    <3> QED BY <1>0, <1>2, <2>1, <2>2, <2>3, <3>1 DEF Written
  <2>6. PassedIsLast' BY <1>0, <2>1, <2>2, <2>3 DEF MixInv, PassedIsLast
  <2> QED BY <1>9, <2>1, <2>2, <2>3, <2>4, <2>5, <2>6 DEF MixInv, LastIsOnDisk, WorseOnlyByMixing, GaveUp
<1>5. CASE FinishPasses
  <2>1. /\ phase = "work" /\ phase' = "commit" /\ UNCHANGED <<saved, work, kills>>
        /\ copy'.outcome = "done" /\ copy'.paths = copy.paths
    BY <1>1, <1>5 DEF FinishPasses, Counters
  <2>2. CandTypeOK' BY <1>0, <1>1, <2>1 DEF CandTypeOK
  <2>3. Written' BY <1>0, <1>2, <2>1 DEF MixInv, Written
  <2>4. PassedIsLast' BY <1>0, <2>1 DEF MixInv, PassedIsLast
  <2> QED BY <1>9, <2>1, <2>2, <2>3, <2>4 DEF MixInv, LastIsOnDisk, WorseOnlyByMixing, GaveUp
<1>6. CASE TryAgain
  <2>1. /\ phase = "decide" /\ phase' = "commit" /\ UNCHANGED <<saved, copy, work, kills>>
        /\ \A n \in Stashed : ~stash[n].passed
    BY <1>6 DEF TryAgain, MustStop
  <2>2. copy.outcome = "running" BY <2>1 DEF CandInv, CopyOfPhase
  <2>3. CandTypeOK' BY <1>0, <1>1, <2>1 DEF CandTypeOK
  <2>4. Written' BY <1>0, <1>2, <2>1 DEF MixInv, Written
  <2>5. PassedIsLast' BY <1>0, <2>1 DEF PassedIsLast
  <2> QED BY <1>9, <2>1, <2>2, <2>3, <2>4, <2>5 DEF MixInv, LastIsOnDisk, WorseOnlyByMixing, GaveUp
<1>7. CASE CandCommit
  <2>1. /\ phase = "commit" /\ saved' = copy /\ UNCHANGED <<copy, work, kills>>
        /\ phase' = IF copy.outcome = "running" THEN "work" ELSE "off"
    BY <1>7 DEF CandCommit
  <2>2. CandTypeOK' BY <1>0, <1>1, <2>1 DEF CandTypeOK
  <2>3. Written'
    <3>1. saved.paths \subseteq copy.paths BY <2>1 DEF MixInv, Written
    <3> QED BY <1>0, <1>2, <2>1, <3>1 DEF Written
  <2>4. PassedIsLast' BY <1>0, <2>1 DEF MixInv, PassedIsLast
  <2> QED BY <1>9, <2>1, <2>2, <2>3, <2>4 DEF MixInv, LastIsOnDisk, WorseOnlyByMixing, GaveUp
<1>8. CASE CandCrash
  <2>1. phase' = "off" /\ kills' = kills + 1 /\ UNCHANGED <<saved, copy, work>>
    BY <1>8 DEF CandCrash
  <2>2. CandTypeOK' BY <1>0, <1>1, <2>1 DEF CandTypeOK
  <2>3. Written' BY <1>0, <1>2, <2>1 DEF Written
  <2>4. PassedIsLast' BY <1>0, <2>1 DEF MixInv, PassedIsLast
  <2> QED BY <1>9, <2>1, <2>2, <2>3, <2>4 DEF MixInv, LastIsOnDisk, WorseOnlyByMixing, GaveUp
<1> QED
  BY <1>3, <1>4, <1>5, <1>6, <1>7, <1>8

\* A refusal stashes what is on disk, over whatever a lost life left under the number.
LEMMA MixRefused == ASSUME CandInv, MixInv, CandInv', FinishFails PROVE MixInv'
<1> USE CandAssumption
<1>1. /\ saved \in Counters /\ copy = saved /\ saved.outcome = "running" /\ phase = "work"
      /\ stash \in [Numbers -> Attempts] /\ work \in [Files -> Quality] /\ kills \in Nat
  BY DEF FinishFails, MixInv, CandTypeOK, CandInv, CountersOK, CopyOfPhase
<1>2. PICK again \in BOOLEAN :
        /\ phase' = "decide" /\ UNCHANGED <<saved, work, kills>>
        /\ copy' = [copy EXCEPT !.rejects = @ + 1, !.rounds = @ + 1]
        /\ IF Stashing /\ copy.paths # {}
           THEN stash' = [stash EXCEPT ![copy'.rounds] =
                            [attempt |-> copy'.rounds, passed |-> again, files |-> work,
                             paths |-> copy.paths, kept |-> Copied(copy.paths)]]
           ELSE UNCHANGED stash
  BY Zenon DEF FinishFails, Verdicts
<1>3. /\ copy' \in Counters /\ copy'.rounds = saved.rounds + 1 /\ copy'.paths = saved.paths
      /\ copy'.outcome = "running" /\ saved'.rounds = saved.rounds
  BY <1>2 DEF CandInv, CountersOK, CopyOfPhase
<1>4. saved.rounds \in Nat /\ saved.rounds < CandRejects /\ saved.paths \in SUBSET Files
  BY <1>1 DEF CandInv, Counters, HasMore
<1>5. copy'.rounds \in Numbers /\ copy'.rounds \in 0..CandRejects
  BY <1>3, <1>4 DEF Numbers
<1>6. /\ IsFiniteSet(saved.paths)
      /\ \A n \in Stashed : Proper(stash[n]) /\ Stashing /\ saved.paths # {}
  BY DEF MixInv, Written
<1>7. \A n \in Stashed : stash[n].passed => n = saved.rounds + 1
  BY <1>1 DEF MixInv, PassedIsLast
<1>8. CASE Stashing /\ copy.paths # {}
  <2> DEFINE k == copy'.rounds
             new == [attempt |-> k, passed |-> again, files |-> work,
                   paths |-> copy.paths, kept |-> Copied(copy.paths)]
  <2>1. new \in Attempts /\ new.files = work /\ new.paths = copy.paths
        /\ new.kept = {f \in copy.paths \ Foreign : work[f] > 0} /\ new.passed = again
    BY <1>1, <1>4, <1>5 DEF Attempts, Copied
  <2>2. Proper(new)
    BY <1>1, <1>4, <1>6, <1>8, <2>1 DEF Proper
  <2>3. stash' = [stash EXCEPT ![k] = new] BY <1>2, <1>8
  <2> HIDE DEF new
  <2>4. /\ stash' \in [Numbers -> Attempts] /\ stash'[k] = new
        /\ \A n \in Numbers : n # k => stash'[n] = stash[n]
    BY <1>1, <1>5, <2>1, <2>3
  <2>5. k = saved.rounds + 1 BY <1>3
  <2> HIDE DEF k
  <2>6. \A n \in Stashed' : n # k => (n \in Stashed /\ stash'[n] = stash[n])
    <3>1. Stashed' = {n \in Numbers : stash'[n] # Absent} BY DEF Stashed, Absent
    <3>2. Stashed = {n \in Numbers : stash[n] # Absent} BY DEF Stashed
    <3> SUFFICES ASSUME NEW n \in Stashed', n # k PROVE n \in Stashed /\ stash'[n] = stash[n] OBVIOUS
    <3>3. n \in Numbers /\ stash'[n] # Absent BY <3>1
    <3>4. stash'[n] = stash[n] BY <2>4, <3>3
    <3> QED BY <3>2, <3>3, <3>4
  <2>7. \A n \in Stashed' : Proper(stash'[n]) /\ Stashing /\ saved.paths # {}
    BY <1>1, <1>6, <1>8, <2>2, <2>4, <2>6
  <2>8. \A n \in Stashed' : stash'[n].passed => n = saved.rounds + 1
    BY <1>7, <2>5, <2>6
  <2>9. CandTypeOK'
    BY <1>1, <1>2, <1>3, <2>4 DEF CandTypeOK
  <2>10. Written'
    BY <1>2, <1>3, <1>6, <2>7 DEF Written, Proper
  <2>11. PassedIsLast'
    BY <1>2, <2>8 DEF PassedIsLast
  <2>12. LastIsOnDisk'
    BY <1>1, <1>2, <1>3, <2>1, <2>4 DEF LastIsOnDisk, k
  <2>13. OthersStay'
    <3>1. \A n \in Stashed : \A f \in Foreign : stash[n].files[f] = work[f] BY DEF MixInv, OthersStay
    <3> QED BY <1>2, <2>1, <2>4, <2>6, <3>1 DEF OthersStay
  <2> QED
    BY <1>2, <2>9, <2>10, <2>11, <2>12, <2>13 DEF MixInv, WorseOnlyByMixing, GaveUp
<1>9. CASE ~(Stashing /\ copy.paths # {})
  <2>1. stash' = stash /\ Stashed' = {}
    BY <1>1, <1>2, <1>6, <1>9 DEF Stashed, Absent
  <2>2. CandTypeOK' BY <1>1, <1>2, <1>3, <2>1 DEF CandTypeOK
  <2>3. Written' BY <1>2, <1>3, <1>6, <2>1 DEF Written
  <2>4. PassedIsLast' BY <2>1 DEF PassedIsLast
  <2>5. LastIsOnDisk' BY <2>1 DEF LastIsOnDisk
  <2>6. OthersStay' BY <2>1 DEF OthersStay
  <2> QED
    BY <1>2, <2>2, <2>3, <2>4, <2>5, <2>6 DEF MixInv, WorseOnlyByMixing, GaveUp
<1> QED
  BY <1>8, <1>9

\* What is put back on disk has the mean of the winner at least, if both are scored by the
\* same files and those that are not put back are no worse than the winner's.
LEMMA PutBack ==
  ASSUME NEW a \in Attempts, Proper(a), NEW b, Proper(b), ~b.passed, Better(b, a), b.paths = a.paths,
         NEW w, \A f \in a.paths : w[f] \in Nat /\ b.files[f] <= w[f]
  PROVE  ~Better(a, [a EXCEPT !.files = w, !.paths = a.paths])
<1> DEFINE new == [a EXCEPT !.files = w, !.paths = a.paths]
           c == Cardinality(a.paths)
           s == SumFunctionOnSet(a.files, a.paths)
           t == SumFunctionOnSet(b.files, a.paths)
           u == SumFunctionOnSet(w, a.paths)
<1>1. s \in Nat /\ t \in Nat /\ c \in Nat BY ProperNumbers
<1>2. u \in Nat /\ t <= u
  <2>1. \A f \in a.paths : b.files[f] \in Nat BY CandAssumption DEF Proper
  <2>2. IsFiniteSet(a.paths) BY DEF Proper
  <2> QED BY <2>1, <2>2, SumMore, SumType
<1>3. (b.passed = a.passed /\ t * c > s * c) \/ (b.passed /\ ~a.passed) BY DEF Better
<1>4. ~a.passed /\ t * c > s * c BY <1>3 DEF Proper
<1>5. new.passed = a.passed /\ new.files = w /\ new.paths = a.paths BY DEF Attempts
<1> HIDE DEF new
<1>6. Better(a, new) <=> (a.passed /\ ~new.passed) \/ (a.passed = new.passed /\ s * c > u * c)
  BY <1>5 DEF Better
<1> HIDE DEF s, t, u, c
<1>7. ~(s * c > u * c)
  <2>1. s * c \in Nat /\ t * c \in Nat /\ u * c \in Nat BY <1>1, <1>2
  <2>2. \A x, y, z \in Nat : x <= y => x * z <= y * z OBVIOUS
  <2>3. t * c <= u * c BY <1>1, <1>2, <2>2
  <2> QED BY <1>4, <2>1, <2>3
<1>8. ~Better(a, new) BY <1>4, <1>5, <1>6, <1>7
<1> QED BY <1>8 DEF new

\* What stays as it is on disk is not worse than it was.
LEMMA NotWorse == ASSUME NEW a \in Attempts, Proper(a) PROVE ~Better(a, [a EXCEPT !.files = a.files, !.paths = a.paths])
<1>1. [a EXCEPT !.files = a.files, !.paths = a.paths] = a BY DEF Attempts
<1> QED BY <1>1, BetterIs

\* The winner is put back: what is on disk is not worse than the last attempt was.
LEMMA MixGivesUp == ASSUME CandInv, MixInv, CandInv', GiveUp PROVE MixInv'
<1> DEFINE last == copy.rounds
           wins == /\ Cardinality(Stashed) >= 2 /\ Best # last
                   /\ last \in Stashed => Better(stash[Best], stash[last])
<1>1. /\ phase = "decide" /\ phase' = "commit" /\ UNCHANGED <<saved, stash, kills>>
      /\ copy' = [copy EXCEPT !.outcome = "failed"]
      /\ work' = [f \in Files |-> IF wins /\ f \in stash[Best].kept THEN stash[Best].files[f] ELSE work[f]]
  BY DEF GiveUp
<1>2. /\ saved \in Counters /\ copy \in Counters /\ copy' \in Counters
      /\ stash \in [Numbers -> Attempts] /\ work \in [Files -> Quality] /\ kills \in Nat
  BY DEF MixInv, CandTypeOK, CandInv, CountersOK
<1>3. /\ copy'.outcome = "failed" /\ copy'.rounds = last /\ copy'.paths = copy.paths
  BY <1>1, <1>2 DEF Counters
<1>4. /\ saved.outcome = "running" /\ last = saved.rounds + 1
      /\ \A n \in Stashed : Proper(stash[n]) /\ Stashing /\ saved.paths # {}
      /\ Stashed \subseteq Numbers
  BY <1>1 DEF MixInv, Written, CandInv, CopyOfPhase, Stashed
<1>5. Stashed' = Stashed /\ Best' = Best
  BY <1>1 DEF Stashed, Best, Better, Absent
<1>6. wins => Best \in Stashed
  <2>1. Stashed = {} => Cardinality(Stashed) = 0 BY FS_EmptySet
  <2>2. wins => Stashed # {} BY <2>1
  <2> QED BY <1>4, <2>2, BestWins
<1> HIDE DEF wins, last
<1>7. work' \in [Files -> Quality]
  <2>1. ASSUME wins PROVE stash[Best].files \in [Files -> Quality] BY <1>4, <1>6, <2>1 DEF Proper
  <2>2. ASSUME NEW f \in Files PROVE (IF wins /\ f \in stash[Best].kept THEN stash[Best].files[f] ELSE work[f]) \in Quality
    BY <1>2, <2>1
  <2> QED BY <1>1, <2>2
<1>8. CandTypeOK' BY <1>1, <1>2, <1>7 DEF CandTypeOK
<1>9. Written'
  <2>1. \A n \in Stashed : Proper(stash[n])' BY <1>1, <1>4 DEF Proper
  <2> QED BY <1>1, <1>3, <1>4, <1>5, <2>1 DEF MixInv, Written
<1>10. PassedIsLast' BY <1>1, <1>3, <1>5 DEF MixInv, PassedIsLast
<1>11. LastIsOnDisk' BY <1>1 DEF LastIsOnDisk
<1>13. OthersStay'
  <2>1. wins => stash[Best].kept \cap Foreign = {} BY <1>4, <1>6 DEF Proper
  <2>2. \A f \in Foreign : work'[f] = work[f] BY <1>1, <2>1, CandAssumption
  <2> QED BY <1>1, <1>5, <2>2 DEF MixInv, OthersStay
<1>12. WorseOnlyByMixing'
  <2> SUFFICES ASSUME last \in Stashed, stash[Best].paths = copy.paths
               PROVE  ~Better(stash[last], [stash[last] EXCEPT !.files = work', !.paths = copy.paths])
    BY <1>1, <1>3, <1>5 DEF WorseOnlyByMixing, WorseThan, Better
  <2>1. /\ stash[last] \in Attempts /\ Proper(stash[last])
        /\ stash[last].files = work /\ stash[last].paths = copy.paths
    BY <1>1, <1>2, <1>4 DEF MixInv, LastIsOnDisk, last
  <2>2. CASE wins
    <3>1. Best \in Stashed /\ Best # last /\ Better(stash[Best], stash[last]) BY <1>6, <2>2 DEF wins
    <3>2. ~stash[Best].passed /\ Proper(stash[Best]) BY <1>4, <3>1 DEF MixInv, PassedIsLast
    <3>3. \A f \in stash[last].paths : work'[f] \in Nat /\ stash[Best].files[f] <= work'[f]
      <4> SUFFICES ASSUME NEW f \in copy.paths PROVE work'[f] \in Nat /\ stash[Best].files[f] <= work'[f]
        BY <2>1
      <4>1. f \in Files /\ work'[f] \in Nat
        BY <1>7, <2>1, CandAssumption DEF Proper
      <4>2. stash[Best].files[f] \in Nat BY <3>2, <4>1, CandAssumption DEF Proper
      <4>3. CASE f \in stash[Best].kept
        <5>1. work'[f] = stash[Best].files[f] BY <1>1, <2>2, <4>1, <4>3
        <5> QED BY <4>2, <5>1
      <4>4. CASE f \in Foreign
        <5>1. f \notin stash[Best].kept BY <3>2, <4>4 DEF Proper
        <5>2. work'[f] = work[f] BY <1>1, <4>1, <5>1
        <5>3. stash[Best].files[f] = work[f] BY <3>1, <4>4 DEF MixInv, OthersStay
        <5> QED BY <4>1, <5>2, <5>3
      <4>5. CASE f \notin stash[Best].kept /\ f \notin Foreign
        <5>1. ~(stash[Best].files[f] > 0) BY <3>2, <4>5 DEF Proper
        <5> QED BY <4>1, <4>2, <5>1
      <4> QED BY <4>3, <4>4, <4>5
    <3> QED BY <2>1, <3>1, <3>2, <3>3, PutBack
  <2>3. CASE ~wins
    <3>1. work' = work
      <4>1. work' = [f \in Files |-> work[f]] BY <1>1, <2>3
      <4> QED BY <1>2, <4>1
    <3> QED BY <2>1, <3>1, NotWorse
  <2> QED BY <2>2, <2>3
<1> QED BY <1>8, <1>9, <1>10, <1>11, <1>12, <1>13 DEF MixInv

\* The winner exists, and everything it is compared by is a number, always.
THEOREM MixInvHolds == CandSpec => [](CandInv /\ MixInv)
<1>1. CandInv /\ MixInv /\ CandInv' /\ [CandNext]_candVars => MixInv'
  <2> SUFFICES ASSUME CandInv, MixInv, CandInv', [CandNext]_candVars PROVE MixInv'
    OBVIOUS
  <2>1. CASE UNCHANGED candVars
    <3>1. UNCHANGED <<saved, copy, phase, work, stash, kills>> BY <2>1 DEF candVars
    <3>2. Stashed' = Stashed /\ Best' = Best BY <3>1 DEF Stashed, Best, Better, Absent
    <3>3. CandTypeOK' /\ PassedIsLast' /\ LastIsOnDisk' /\ OthersStay'
      BY <3>1, <3>2 DEF MixInv, CandTypeOK, PassedIsLast, LastIsOnDisk, OthersStay
    <3>4. Written' BY <3>1, <3>2 DEF MixInv, Written, Proper
    <3>5. WorseOnlyByMixing' BY <3>1, <3>2 DEF MixInv, WorseOnlyByMixing, WorseThan, Better, GaveUp
    <3> QED BY <3>3, <3>4, <3>5 DEF MixInv
  <2> QED
    BY <2>1, MixQuiet, MixRefused, MixGivesUp DEF CandNext
<1> QED
  BY <1>1, MixStarts, CandInvHolds, PTL DEF CandSpec

\* For any files, quality, flakiness of the gate, attempts and kills: when a task has failed, what
\* _promote_best_attempt left on disk does not score worse than its last attempt did, unless the
\* winner was scored by other files, whatever the truncated records hide and File Authority refuses.
THEOREM WorseOnlyByMixingHolds == CandSpec => []WorseOnlyByMixing
<1>1. MixInv => WorseOnlyByMixing BY DEF MixInv
<1> QED BY <1>1, MixInvHolds, PTL

\* The counters, the files on disk and the stash keep their types: what is put back is an attempt's.
THEOREM CandTypeCorrect == CandSpec => []CandTypeOK
<1>1. MixInv => CandTypeOK BY DEF MixInv
<1> QED BY <1>1, MixInvHolds, PTL

-----------------------------------------------------------------------------
(* The composition TLC explores (MCStep). *)

\* What TLC explores are behaviours of the task's turns and of the search over attempts:
\* neither relies on the other, and MCInit only leaves initial states out.
THEOREM StepPartsKeepTheirSpecs == MCSpec => Spec /\ CandSpec
<1>1. MCInit => Init /\ CandInit BY DEF MCInit
<1>2. [MCNext]_<<vars, candVars, part>> => [Next]_vars /\ [CandNext]_candVars
  BY DEF MCNext
<1> QED BY <1>1, <1>2, PTL DEF MCSpec, Spec, CandSpec

\* The task, its transcript and its attempts keep their types, both in either part.
THEOREM StepTypeCorrect == MCSpec => []StepTypeOK
<1>1. TypeOK /\ CandTypeOK => StepTypeOK BY DEF StepTypeOK
<1> QED BY <1>1, StepPartsKeepTheirSpecs, TypeCorrect, CandTypeCorrect, PTL
=============================================================================
