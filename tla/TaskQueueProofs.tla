-------------------------- MODULE TaskQueueProofs --------------------------
(***************************************************************************)
(* The task queue, for every number of loops, tasks, courses and retries:  *)
(* type correctness; that no record is lost and no lock taken over; and -  *)
(* for any number of hosts whose pids are not recycled, with one answerer, *)
(* when no lease lapses under a live loop - that a task has one executor   *)
(* and a final outcome, that it is retried and followed up once, and how   *)
(* alone a loop at work can lose its course's lock.                        *)
(***************************************************************************)
EXTENDS TaskQueue, FiniteSetTheorems, TLAPS

-----------------------------------------------------------------------------
(* commit_task *)

\* What a commit of t does to the record of any task: t's own becomes s, the
\* others stay, and either may go to the archive if it is finished.
CommitMoves(t, s, u) ==
  LET v == IF u = t THEN s ELSE status[u]
  IN  \/ /\ status'[u] = v
         /\ (u = t \/ at[u] # 0) <=> at'[u] # 0
         /\ filed'[u] = filed[u] /\ rows'[u] = rows[u]
      \/ /\ u = t \/ at[u] # 0
         /\ v \in Terminal
         /\ status'[u] = "none" /\ at'[u] = 0
         /\ filed'[u] = v /\ rows'[u] = rows[u] + 1

LEMMA TrimmedFinished ==
  ASSUME NEW st, NEW pos
  PROVE  \A u \in Trimmed(st, pos) : u \in Tasks /\ pos[u] # 0 /\ st[u] \in Terminal
BY DEF Trimmed

LEMMA PlacedType ==
  ASSUME TypeOK, NEW t \in Tasks
  PROVE  /\ Placed(t) \in [Tasks -> Nat]
         /\ \A u \in Tasks : Placed(t)[u] # 0 <=> (u = t \/ at[u] # 0)
<1>1. at \in [Tasks -> Nat] /\ appends \in Nat BY DEF TypeOK
<1>2. CASE at[t] # 0 BY <1>1, <1>2 DEF Placed
<1>3. CASE at[t] = 0 BY <1>1, <1>3 DEF Placed
<1> QED BY <1>2, <1>3

LEMMA CommitFacts ==
  ASSUME TypeOK, NEW t \in Tasks, NEW s \in Statuses, NEW r, Commit(t, s, r)
  PROVE  /\ mutex = Nobody
         /\ runner' = [runner EXCEPT ![t] = r]
         /\ lapsed' = lapsed \ {t}
         /\ appends' \in Nat
         /\ at' \in [Tasks -> Nat] /\ rows' \in [Tasks -> Nat]
         /\ status' \in [Tasks -> Statuses] /\ filed' \in [Tasks -> Statuses]
         /\ \A u \in Tasks : CommitMoves(t, s, u)
<1> DEFINE st == [status EXCEPT ![t] = s]
           pos == Placed(t)
<1>1. PICK drop \in {Trimmed(st, pos)} \cup (IF ArchiveMayFail THEN {{}} ELSE {}) :
        /\ Archive(drop, st)
        /\ at' = [u \in Tasks |-> IF u \in drop THEN 0 ELSE pos[u]]
        /\ status' = [u \in Tasks |-> IF u \in drop THEN "none" ELSE st[u]]
  BY DEF Commit
<1>2. \A u \in drop : u \in Tasks /\ pos[u] # 0 /\ st[u] \in Terminal
  <2>1. drop = Trimmed(st, pos) \/ drop = {} BY <1>1
  <2> QED BY <2>1, TrimmedFinished
<1>3. pos \in [Tasks -> Nat] /\ \A u \in Tasks : pos[u] # 0 <=> (u = t \/ at[u] # 0)
  BY PlacedType
<1>4. st \in [Tasks -> Statuses] /\ \A u \in Tasks : st[u] = IF u = t THEN s ELSE status[u]
  BY DEF TypeOK
<1>5. /\ rows' = [u \in Tasks |-> IF u \in drop THEN rows[u] + 1 ELSE rows[u]]
      /\ filed' = [u \in Tasks |-> IF u \in drop THEN st[u] ELSE filed[u]]
  BY <1>1 DEF Archive
<1> HIDE DEF st, pos
<1>6. at' \in [Tasks -> Nat] BY <1>1, <1>3
<1>7. status' \in [Tasks -> Statuses] BY <1>1, <1>4 DEF Statuses
<1>8. rows' \in [Tasks -> Nat] BY <1>5 DEF TypeOK
<1>9. filed' \in [Tasks -> Statuses] BY <1>4, <1>5 DEF TypeOK
<1>10. ASSUME NEW u \in Tasks PROVE CommitMoves(t, s, u)
  <2>1. CASE u \in drop
    BY <1>1, <1>2, <1>3, <1>4, <1>5, <2>1 DEF CommitMoves
  <2>2. CASE u \notin drop
    BY <1>1, <1>3, <1>4, <1>5, <2>2 DEF CommitMoves
  <2> QED BY <2>1, <2>2
<1>11. appends' \in Nat BY DEF Commit, TypeOK
<1> QED BY <1>6, <1>7, <1>8, <1>9, <1>10, <1>11 DEF Commit

-----------------------------------------------------------------------------
(* Type correctness *)

\* Everything a loop, an answerer or a snapshot points at has been created.
Known ==
  /\ \A t \in Tasks : t > born => status[t] = "none"
  /\ \A t \in Tasks : t <= born => info[t].role \in Roles
  /\ \A p \in Loops : ~Idle(p) => cur[p] \in 1..born
  /\ \A h \in Answerers : reply[h] # NoReply => reply[h].task \in 1..born
  /\ \A p \in Loops : \A t \in Tasks : todo[p][t] # 0 => t <= born

TInv == TypeOK /\ Known

LEMMA TInvInit == Init => TInv
<1> SUFFICES ASSUME Init PROVE TInv
  OBVIOUS
<1> USE TaskQueueAssumption DEF Init, Tasks, NoTask, Statuses, Terminal, Points
<1>1. NoInfo \in TaskInfo BY DEF NoInfo, TaskInfo
<1>2. born \in 0..MaxTasks /\ added \in Nat /\ crashes \in Nat /\ appends \in Nat
  OBVIOUS
<1>3. /\ info \in [Tasks -> TaskInfo]
      /\ at \in [Tasks -> Nat] /\ rows \in [Tasks -> Nat]
      /\ status \in [Tasks -> Statuses] /\ filed \in [Tasks -> Statuses]
  BY <1>1
<1>4. runner \in [Tasks -> Loops \cup {Nobody}] /\ lapsed \subseteq Tasks
  OBVIOUS
<1>5. lock \in [Courses -> Tasks \cup {NoTask}] /\ lockOld \in [Courses -> BOOLEAN]
  OBVIOUS
<1>6. /\ pc \in [Loops -> Points] /\ cur \in [Loops -> Tasks \cup {NoTask}]
      /\ mem \in [Loops -> Statuses] /\ todo \in [Loops -> [Tasks -> Nat]]
      /\ live \in [Loops -> SUBSET Tasks]
  OBVIOUS
<1>7. stop \in [Loops -> BOOLEAN] /\ hold \in [Loops -> BOOLEAN]
  OBVIOUS
<1>8. reply \in [Answerers -> [task : Tasks \cup {NoTask}, runner : Loops \cup {Nobody}]]
  BY DEF NoReply
<1>9. mutex \in Loops \cup {Nobody}
  OBVIOUS
<1>10. TypeOK
  BY <1>2, <1>3, <1>4, <1>5, <1>6, <1>7, <1>8, <1>9 DEF TypeOK
<1> QED BY <1>10 DEF TInv, Known, Idle

\* add_task creates the next task, queued, and leaves the others alone.
LEMMA AddFacts ==
  ASSUME TInv, NEW c \in Courses \cup {NoCourse}, NEW r \in Roles, NEW n \in Nat,
         NEW l \in Nat, NEW k \in Nat, AddTask(c, r, n, l, k)
  PROVE  /\ born + 1 \in Tasks /\ born' = born + 1 /\ born' \in 0..MaxTasks
         /\ info' \in [Tasks -> TaskInfo]
         /\ \A t \in Tasks : info'[t] = IF t = born + 1
              THEN [course |-> c, role |-> r, attempt |-> n, limit |-> k,
                    lineage |-> IF l = NoTask THEN born + 1 ELSE l]
              ELSE info[t]
         /\ Commit(born + 1, "queued", Nobody)
<1>1. born \in 0..MaxTasks /\ info \in [Tasks -> TaskInfo] BY DEF TInv, TypeOK
<1>2. born + 1 \in Tasks /\ born + 1 \in 0..MaxTasks /\ born + 1 \in Nat
  BY <1>1, TaskQueueAssumption DEF AddTask, Tasks
<1> DEFINE i == [course |-> c, role |-> r, attempt |-> n, limit |-> k,
                 lineage |-> IF l = NoTask THEN born + 1 ELSE l]
<1>3. i \in TaskInfo BY <1>2 DEF TaskInfo
<1>4. info' = [info EXCEPT ![born + 1] = i] BY DEF AddTask
<1> HIDE DEF i
<1>5. info' \in [Tasks -> TaskInfo] BY <1>1, <1>3, <1>4
<1>6. \A t \in Tasks : info'[t] = IF t = born + 1 THEN i ELSE info[t]
  BY <1>1, <1>4
<1> QED BY <1>2, <1>5, <1>6 DEF AddTask, i

\* The task of a busy loop exists.
LEMMA CurKnown ==
  ASSUME TInv, NEW p \in Loops, pc[p] \notin {"off", "idle", "scan", "gone", "raised"}
  PROVE  cur[p] \in 1..born /\ cur[p] \in Tasks /\ info[cur[p]] \in TaskInfo
<1>1. cur[p] \in 1..born BY DEF TInv, Known, Idle
<1>2. born \in 0..MaxTasks /\ MaxTasks \in Nat BY TaskQueueAssumption DEF TInv, TypeOK
<1>3. cur[p] \in Tasks BY <1>1, <1>2 DEF Tasks
<1> QED BY <1>1, <1>3 DEF TInv, TypeOK

\* Selecting a task.
LEMMA TInvSelect ==
  ASSUME TInv, NEW p \in Loops,
         \/ ShutDown(p) \/ HoldDrains(p) \/ SelectResumable(p) \/ SelectQueued(p)
         \/ ScanFree(p) \/ ScanHeld(p) \/ ScanStale(p) \/ ScanEmpty(p)
         \/ ScanBreak(p) \/ ScanBreakRaises(p)
  PROVE  TInv'
<1> USE DEF TInv, TypeOK, Known, Goto, Points, Idle, Statuses, Terminal, NoTask,
            fileVars, lockVars, loopVars
<1>1. CASE ShutDown(p) BY <1>1 DEF ShutDown
<1>2. CASE HoldDrains(p) BY <1>2 DEF HoldDrains
<1>3. CASE SelectResumable(p)
  <2>1. PICK t \in Running : cur' = [cur EXCEPT ![p] = t]
    BY <1>3 DEF SelectResumable
  <2>2. t \in Tasks /\ t \in 1..born
    BY <2>1 DEF Running, Tasks
  <2> QED BY <1>3, <2>1, <2>2 DEF SelectResumable
<1>4. CASE SelectQueued(p)
  <2> DEFINE left == [t \in Tasks |-> IF status[t] = "queued" THEN at[t] ELSE 0]
  <2>1. left \in [Tasks -> Nat] /\ \A t \in Tasks : left[t] # 0 => t <= born
    BY DEF Tasks
  <2>2. todo' = [todo EXCEPT ![p] = left] /\ live' = [live EXCEPT ![p] = Running]
    BY <1>4 DEF SelectQueued
  <2>3. Running \subseteq Tasks BY DEF Running
  <2> HIDE DEF left
  <2> QED BY <1>4, <2>1, <2>2, <2>3 DEF SelectQueued
<1>5. CASE ScanFree(p)
  <2>1. PICK t \in Tasks : Examines(p, t) /\ Selected(p, t)
    BY <1>5 DEF ScanFree
  <2>2. t <= born /\ t \in 1..born
    BY <2>1 DEF Examines, Tasks
  <2>3. cur' = [cur EXCEPT ![p] = t]
    BY <2>1 DEF Selected
  <2>4. /\ todo' = [todo EXCEPT ![p] = [u \in Tasks |-> 0]]
        /\ live' = [live EXCEPT ![p] = {}]
    BY <2>1 DEF Selected
  <2> QED BY <1>5, <2>2, <2>3, <2>4 DEF ScanFree
<1>6. CASE ScanHeld(p)
  <2>1. PICK t \in Tasks : todo' = [todo EXCEPT ![p][t] = 0]
    BY <1>6 DEF ScanHeld
  <2>2. todo' \in [Loops -> [Tasks -> Nat]] BY <2>1
  <2>3. \A q \in Loops : \A u \in Tasks : todo'[q][u] # 0 => u <= born BY <2>1
  <2> QED BY <1>6, <2>2, <2>3 DEF ScanHeld
<1>7. CASE ScanStale(p)
  <2>1. PICK t \in Tasks : Examines(p, t) /\ Selected(p, t)
    BY <1>7 DEF ScanStale
  <2>2. t <= born /\ t \in 1..born
    BY <2>1 DEF Examines, Tasks
  <2>3. cur' = [cur EXCEPT ![p] = t]
    BY <2>1 DEF Selected
  <2>4. /\ todo' = [todo EXCEPT ![p] = [u \in Tasks |-> 0]]
        /\ live' = [live EXCEPT ![p] = {}]
    BY <2>1 DEF Selected
  <2> QED BY <1>7, <2>2, <2>3, <2>4 DEF ScanStale
<1>8. CASE ScanEmpty(p) BY <1>8 DEF ScanEmpty
<1>9. CASE ScanBreak(p) BY <1>9 DEF ScanBreak, Unlocked
<1>10. CASE ScanBreakRaises(p) BY <1>10 DEF ScanBreakRaises, Forgotten
<1> QED BY <1>1, <1>2, <1>3, <1>4, <1>5, <1>6, <1>7, <1>8, <1>9, <1>10

\* Claiming or adopting it.
LEMMA TInvClaim ==
  ASSUME TInv, NEW p \in Loops,
         \/ BeginClaim(p) \/ BeginAdopt(p) \/ ClaimLost(p) \/ AdoptLost(p)
         \/ CheckFree(p) \/ CheckHeld(p) \/ CheckStale(p) \/ ClaimBreak(p)
         \/ ClaimBreakRaises(p) \/ Save(p) \/ TakeLock(p)
  PROVE  TInv'
<1> USE DEF TInv, TypeOK, Known, Goto, Points, Idle, Statuses, Terminal, NoTask,
            fileVars, lockVars, loopVars
<1>1. CASE BeginClaim(p) BY <1>1 DEF BeginClaim
<1>2. CASE BeginAdopt(p) BY <1>2 DEF BeginAdopt
<1>3. CASE ClaimLost(p) BY <1>3 DEF ClaimLost, Forgotten
<1>4. CASE AdoptLost(p) BY <1>4 DEF AdoptLost, Forgotten
<1>5. CASE CheckFree(p) BY <1>5 DEF CheckFree
<1>6. CASE CheckHeld(p) BY <1>6 DEF CheckHeld, Forgotten
<1>7. CASE CheckStale(p) BY <1>7 DEF CheckStale
<1>8. CASE ClaimBreak(p) BY <1>8 DEF ClaimBreak, Unlocked
<1>9. CASE ClaimBreakRaises(p) BY <1>9 DEF ClaimBreakRaises, Forgotten
<1>10. CASE Save(p)
  <2>1. cur[p] \in 1..born /\ cur[p] \in Tasks
    BY <1>10, CurKnown DEF Save
  <2>2. \A t \in Tasks : status'[t] = IF t = cur[p] THEN "running" ELSE status[t]
    BY <1>10 DEF Save
  <2>3. status' \in [Tasks -> Statuses] /\ runner' \in [Tasks -> Loops \cup {Nobody}]
    BY <1>10 DEF Save
  <2>4. lapsed' \subseteq Tasks BY <1>10 DEF Save
  <2> QED BY <1>10, <2>1, <2>2, <2>3, <2>4 DEF Save
<1>11. CASE TakeLock(p)
  <2>1. cur[p] \in Tasks /\ info[cur[p]] \in TaskInfo
    BY <1>11, CurKnown DEF TakeLock
  <2>2. info[cur[p]].course \in Courses \cup {NoCourse} BY <2>1 DEF TaskInfo
  <2>3. lock' \in [Courses -> Tasks \cup {NoTask}] /\ lockOld' \in [Courses -> BOOLEAN]
    BY <1>11, <2>1, <2>2 DEF TakeLock
  <2> QED BY <1>11, <2>3, TaskQueueAssumption DEF TakeLock
<1> QED BY <1>1, <1>2, <1>3, <1>4, <1>5, <1>6, <1>7, <1>8, <1>9, <1>10, <1>11

\* Leaving it.
LEMMA TInvAfter ==
  ASSUME TInv, NEW p \in Loops,
         \/ BreakOff(p) \/ ReleaseOwned(p) \/ ReleaseOther(p) \/ Unlink(p)
         \/ FileUnscored(p) \/ FileNothing(p) \/ ChainEnds(p) \/ ReflectSkips(p)
         \/ RetryGivesUp(p)
  PROVE  TInv'
<1> USE DEF TInv, TypeOK, Known, Goto, Points, Idle, Statuses, Terminal, NoTask,
            fileVars, lockVars, loopVars
<1>1. CASE BreakOff(p) BY <1>1 DEF BreakOff
<1>2. CASE ReleaseOwned(p) BY <1>2 DEF ReleaseOwned
<1>3. CASE ReleaseOther(p) BY <1>3 DEF ReleaseOther
<1>4. CASE Unlink(p) BY <1>4 DEF Unlink, Unlocked
<1>5. CASE FileUnscored(p) BY <1>5 DEF FileUnscored, AfterFiling
<1>6. CASE FileNothing(p) BY <1>6 DEF FileNothing, Forgotten
<1>7. CASE ChainEnds(p) BY <1>7 DEF ChainEnds
<1>8. CASE ReflectSkips(p) BY <1>8 DEF ReflectSkips, Forgotten
<1>9. CASE RetryGivesUp(p) BY <1>9 DEF RetryGivesUp, Forgotten
<1> QED BY <1>1, <1>2, <1>3, <1>4, <1>5, <1>6, <1>7, <1>8, <1>9

\* A commit keeps the files well typed and creates nothing but its own task.
LEMMA CommitTyped ==
  ASSUME TInv, NEW t \in Tasks, NEW s \in Statuses, NEW r \in Loops \cup {Nobody},
         Commit(t, s, r), born' = born \/ born' = t
  PROVE  /\ appends' \in Nat /\ lapsed' \subseteq Tasks
         /\ at' \in [Tasks -> Nat] /\ rows' \in [Tasks -> Nat]
         /\ status' \in [Tasks -> Statuses] /\ filed' \in [Tasks -> Statuses]
         /\ runner' \in [Tasks -> Loops \cup {Nobody}]
         /\ \A u \in Tasks : u # t /\ u > born => status'[u] = "none"
<1>1. TypeOK /\ Known BY DEF TInv
<1>2. /\ runner' = [runner EXCEPT ![t] = r] /\ lapsed' = lapsed \ {t} /\ appends' \in Nat
      /\ at' \in [Tasks -> Nat] /\ rows' \in [Tasks -> Nat]
      /\ status' \in [Tasks -> Statuses] /\ filed' \in [Tasks -> Statuses]
      /\ \A u \in Tasks : CommitMoves(t, s, u)
  BY <1>1, CommitFacts
<1>3. ASSUME NEW u \in Tasks, u # t, u > born PROVE status'[u] = "none"
  <2>1. status[u] = "none" BY <1>1, <1>3 DEF Known
  <2> QED BY <1>2, <1>3, <2>1 DEF CommitMoves
<1>4. lapsed' \subseteq Tasks /\ runner' \in [Tasks -> Loops \cup {Nobody}]
  BY <1>1, <1>2 DEF TypeOK
<1> QED BY <1>2, <1>3, <1>4

\* Steps of a task that commit it.
LEMMA TInvCommits ==
  ASSUME TInv, NEW p \in Loops, StepRuns(p) \/ StepEnds(p) \/ FileMemory(p)
  PROVE  TInv'
<1> USE DEF TInv, TypeOK, Known, Goto, Points, Idle, Statuses, Terminal, NoTask,
            fileVars, lockVars, loopVars
<1>1. CASE StepRuns(p)
  <2>1. cur[p] \in 1..born /\ cur[p] \in Tasks BY <1>1, CurKnown DEF StepRuns
  <2>2. Commit(cur[p], "running", p) /\ born' = born BY <1>1 DEF StepRuns
  <2> HIDE DEF TInv
  <2>3. /\ appends' \in Nat /\ lapsed' \subseteq Tasks
        /\ at' \in [Tasks -> Nat] /\ rows' \in [Tasks -> Nat]
        /\ status' \in [Tasks -> Statuses] /\ filed' \in [Tasks -> Statuses]
        /\ runner' \in [Tasks -> Loops \cup {Nobody}]
        /\ \A u \in Tasks : u # cur[p] /\ u > born => status'[u] = "none"
    BY <2>1, <2>2, CommitTyped
  <2> QED BY <1>1, <2>1, <2>3 DEF StepRuns, TInv
<1>2. CASE StepEnds(p)
  <2>1. cur[p] \in 1..born /\ cur[p] \in Tasks BY <1>2, CurKnown DEF StepEnds
  <2>2. PICK s \in Terminal \cup {"blocked"} :
          Commit(cur[p], s, p) /\ mem' = [mem EXCEPT ![p] = s]
    BY <1>2 DEF StepEnds
  <2>3. born' = born BY <1>2 DEF StepEnds
  <2>4. s \in Statuses OBVIOUS
  <2> HIDE DEF TInv
  <2>5. /\ appends' \in Nat /\ lapsed' \subseteq Tasks
        /\ at' \in [Tasks -> Nat] /\ rows' \in [Tasks -> Nat]
        /\ status' \in [Tasks -> Statuses] /\ filed' \in [Tasks -> Statuses]
        /\ runner' \in [Tasks -> Loops \cup {Nobody}]
        /\ \A u \in Tasks : u # cur[p] /\ u > born => status'[u] = "none"
    BY <2>1, <2>2, <2>3, <2>4, CommitTyped
  <2> QED BY <1>2, <2>1, <2>2, <2>5 DEF StepEnds, TInv
<1>3. CASE FileMemory(p)
  <2>1. cur[p] \in 1..born /\ cur[p] \in Tasks BY <1>3, CurKnown DEF FileMemory
  <2>2. Commit(cur[p], mem[p], p) /\ born' = born /\ mem[p] \in Statuses
    BY <1>3 DEF FileMemory
  <2> HIDE DEF TInv
  <2>3. /\ appends' \in Nat /\ lapsed' \subseteq Tasks
        /\ at' \in [Tasks -> Nat] /\ rows' \in [Tasks -> Nat]
        /\ status' \in [Tasks -> Statuses] /\ filed' \in [Tasks -> Statuses]
        /\ runner' \in [Tasks -> Loops \cup {Nobody}]
        /\ \A u \in Tasks : u # cur[p] /\ u > born => status'[u] = "none"
    BY <2>1, <2>2, CommitTyped
  <2> QED BY <1>3, <2>1, <2>3 DEF FileMemory, AfterFiling, TInv
<1> QED BY <1>1, <1>2, <1>3

\* Adding a task, whoever adds it.
LEMMA TInvAdds ==
  ASSUME TInv, NEW c \in Courses \cup {NoCourse}, NEW r \in Roles, NEW n \in Nat,
         NEW l \in Nat, NEW k \in Nat, AddTask(c, r, n, l, k)
  PROVE  /\ born' \in 0..MaxTasks /\ born \in Nat /\ born' = born + 1
         /\ info' \in [Tasks -> TaskInfo]
         /\ \A t \in Tasks : t <= born' => info'[t].role \in Roles
         /\ appends' \in Nat /\ lapsed' \subseteq Tasks
         /\ at' \in [Tasks -> Nat] /\ rows' \in [Tasks -> Nat]
         /\ status' \in [Tasks -> Statuses] /\ filed' \in [Tasks -> Statuses]
         /\ runner' \in [Tasks -> Loops \cup {Nobody}]
         /\ \A u \in Tasks : u > born' => status'[u] = "none"
<1>1. /\ born + 1 \in Tasks /\ born' = born + 1 /\ born' \in 0..MaxTasks
      /\ info' \in [Tasks -> TaskInfo]
      /\ \A t \in Tasks : info'[t] = IF t = born + 1
           THEN [course |-> c, role |-> r, attempt |-> n, limit |-> k,
                 lineage |-> IF l = NoTask THEN born + 1 ELSE l]
           ELSE info[t]
      /\ Commit(born + 1, "queued", Nobody)
  BY AddFacts
<1>2. born \in Nat BY DEF TInv, TypeOK
<1>3. /\ appends' \in Nat /\ lapsed' \subseteq Tasks
      /\ at' \in [Tasks -> Nat] /\ rows' \in [Tasks -> Nat]
      /\ status' \in [Tasks -> Statuses] /\ filed' \in [Tasks -> Statuses]
      /\ runner' \in [Tasks -> Loops \cup {Nobody}]
      /\ \A u \in Tasks : u # born + 1 /\ u > born => status'[u] = "none"
  <2>1. "queued" \in Statuses BY DEF Statuses
  <2> QED BY <1>1, <2>1, CommitTyped
<1>4. \A u \in Tasks : u > born' => status'[u] = "none"
  BY <1>1, <1>2, <1>3 DEF Tasks
<1>5. ASSUME NEW t \in Tasks, t <= born' PROVE info'[t].role \in Roles
  <2>1. CASE t = born + 1 BY <1>1, <2>1
  <2>2. CASE t # born + 1
    <3>1. t <= born BY <1>1, <1>2, <1>5, <2>2 DEF Tasks
    <3> QED BY <1>1, <2>2, <3>1 DEF TInv, Known
  <2> QED BY <2>1, <2>2
<1> QED BY <1>1, <1>2, <1>3, <1>4, <1>5

\* Follow-ups and retries.
LEMMA TInvFollows ==
  ASSUME TInv, NEW p \in Loops, ChainAdds(p) \/ ReflectAdds(p) \/ RetryAdds(p)
  PROVE  TInv'
<1> USE DEF TInv, TypeOK, Known, Goto, Points, Idle, Statuses, Terminal, NoTask,
            fileVars, lockVars, loopVars
<1>1. CASE ChainAdds(p)
  <2>1. cur[p] \in 1..born /\ cur[p] \in Tasks /\ info[cur[p]] \in TaskInfo
    BY <1>1, CurKnown DEF ChainAdds
  <2>2. /\ AddTask(info[cur[p]].course, Chain[info[cur[p]].role], 1, 0, 0)
        /\ Chain[info[cur[p]].role] # NoRole BY <1>1 DEF ChainAdds
  <2>3. info[cur[p]].course \in Courses \cup {NoCourse} /\ Chain[info[cur[p]].role] \in Roles /\ 1 \in Nat /\ 0 \in Nat
    BY <2>1, <2>2, TaskQueueAssumption DEF TaskInfo
  <2> HIDE DEF TInv
  <2>4. /\ born' \in 0..MaxTasks /\ born \in Nat /\ born' = born + 1
        /\ info' \in [Tasks -> TaskInfo]
        /\ \A t \in Tasks : t <= born' => info'[t].role \in Roles
        /\ appends' \in Nat /\ lapsed' \subseteq Tasks
        /\ at' \in [Tasks -> Nat] /\ rows' \in [Tasks -> Nat]
        /\ status' \in [Tasks -> Statuses] /\ filed' \in [Tasks -> Statuses]
        /\ runner' \in [Tasks -> Loops \cup {Nobody}]
        /\ \A u \in Tasks : u > born' => status'[u] = "none"
    BY <2>2, <2>3, TInvAdds
  <2>5. UNCHANGED <<lockVars, todo, live, stop, hold, reply, added, crashes>>
    BY <1>1 DEF ChainAdds
  <2>6. /\ pc' \in [Loops -> Points] /\ cur' \in [Loops -> Tasks \cup {NoTask}]
        /\ mem' \in [Loops -> Statuses]
        /\ \A q \in Loops : ~Idle(q)' => ~Idle(q) /\ cur'[q] = cur[q]
    BY <1>1 DEF ChainAdds, Forgotten, TInv
  <2>7. TypeOK' BY <2>4, <2>5, <2>6 DEF TInv
  <2>8. Known'
    <3>1. \A x \in 1..born : x \in 1..born' BY <2>4
    <3>2. \A x \in Tasks : x <= born => x <= born' BY <2>4 DEF Tasks
    <3> QED BY <2>4, <2>5, <2>6, <3>1, <3>2 DEF TInv
  <2> QED BY <2>7, <2>8 DEF TInv
<1>2. CASE ReflectAdds(p)
  <2>1. cur[p] \in 1..born /\ cur[p] \in Tasks /\ info[cur[p]] \in TaskInfo
    BY <1>2, CurKnown DEF ReflectAdds
  <2>2. AddTask(info[cur[p]].course, Reflector, 1, 0, 0) BY <1>2 DEF ReflectAdds
  <2>3. info[cur[p]].course \in Courses \cup {NoCourse} /\ Reflector \in Roles /\ 1 \in Nat /\ 0 \in Nat
    BY <2>1, TaskQueueAssumption DEF TaskInfo
  <2> HIDE DEF TInv
  <2>4. /\ born' \in 0..MaxTasks /\ born \in Nat /\ born' = born + 1
        /\ info' \in [Tasks -> TaskInfo]
        /\ \A t \in Tasks : t <= born' => info'[t].role \in Roles
        /\ appends' \in Nat /\ lapsed' \subseteq Tasks
        /\ at' \in [Tasks -> Nat] /\ rows' \in [Tasks -> Nat]
        /\ status' \in [Tasks -> Statuses] /\ filed' \in [Tasks -> Statuses]
        /\ runner' \in [Tasks -> Loops \cup {Nobody}]
        /\ \A u \in Tasks : u > born' => status'[u] = "none"
    BY <2>2, <2>3, TInvAdds
  <2>5. UNCHANGED <<lockVars, todo, live, stop, hold, reply, added, crashes>>
    BY <1>2 DEF ReflectAdds
  <2>6. /\ pc' \in [Loops -> Points] /\ cur' \in [Loops -> Tasks \cup {NoTask}]
        /\ mem' \in [Loops -> Statuses]
        /\ \A q \in Loops : ~Idle(q)' => ~Idle(q) /\ cur'[q] = cur[q]
    BY <1>2 DEF ReflectAdds, Forgotten, TInv
  <2>7. TypeOK' BY <2>4, <2>5, <2>6 DEF TInv
  <2>8. Known'
    <3>1. \A x \in 1..born : x \in 1..born' BY <2>4
    <3>2. \A x \in Tasks : x <= born => x <= born' BY <2>4 DEF Tasks
    <3> QED BY <2>4, <2>5, <2>6, <3>1, <3>2 DEF TInv
  <2> QED BY <2>7, <2>8 DEF TInv
<1>3. CASE RetryAdds(p)
  <2>1. cur[p] \in 1..born /\ cur[p] \in Tasks /\ info[cur[p]] \in TaskInfo
    BY <1>3, CurKnown DEF RetryAdds
  <2>2. AddTask(info[cur[p]].course, info[cur[p]].role, info[cur[p]].attempt + 1,
                info[cur[p]].lineage, info[cur[p]].limit) BY <1>3 DEF RetryAdds
  <2>3. /\ info[cur[p]].course \in Courses \cup {NoCourse} /\ info[cur[p]].role \in Roles
        /\ info[cur[p]].attempt + 1 \in Nat /\ info[cur[p]].lineage \in Nat
        /\ info[cur[p]].limit \in Nat
    BY <2>1, TaskQueueAssumption DEF TaskInfo
  <2> HIDE DEF TInv
  <2>4. /\ born' \in 0..MaxTasks /\ born \in Nat /\ born' = born + 1
        /\ info' \in [Tasks -> TaskInfo]
        /\ \A t \in Tasks : t <= born' => info'[t].role \in Roles
        /\ appends' \in Nat /\ lapsed' \subseteq Tasks
        /\ at' \in [Tasks -> Nat] /\ rows' \in [Tasks -> Nat]
        /\ status' \in [Tasks -> Statuses] /\ filed' \in [Tasks -> Statuses]
        /\ runner' \in [Tasks -> Loops \cup {Nobody}]
        /\ \A u \in Tasks : u > born' => status'[u] = "none"
    BY <2>2, <2>3, TInvAdds
  <2>5. UNCHANGED <<lockVars, todo, live, stop, hold, reply, added, crashes>>
    BY <1>3 DEF RetryAdds
  <2>6. /\ pc' \in [Loops -> Points] /\ cur' \in [Loops -> Tasks \cup {NoTask}]
        /\ mem' \in [Loops -> Statuses]
        /\ \A q \in Loops : ~Idle(q)' => ~Idle(q) /\ cur'[q] = cur[q]
    BY <1>3 DEF RetryAdds, Forgotten, TInv
  <2>7. TypeOK' BY <2>4, <2>5, <2>6 DEF TInv
  <2>8. Known'
    <3>1. \A x \in 1..born : x \in 1..born' BY <2>4
    <3>2. \A x \in Tasks : x <= born => x <= born' BY <2>4 DEF Tasks
    <3> QED BY <2>4, <2>5, <2>6, <3>1, <3>2 DEF TInv
  <2> QED BY <2>7, <2>8 DEF TInv
<1> QED BY <1>1, <1>2, <1>3

LEMMA TInvOwner == ASSUME TInv, OwnerAdds PROVE TInv'
<1> USE DEF TInv, TypeOK, Known, Goto, Points, Idle, Statuses, Terminal, NoTask,
            fileVars, lockVars, loopVars
<1>1. PICK c \in Courses \cup {NoCourse}, r \in OwnerRoles, l \in Limits :
        AddTask(c, r, 1, 0, l)
  BY DEF OwnerAdds
<1>2. r \in Roles /\ l \in Nat /\ 1 \in Nat /\ 0 \in Nat BY TaskQueueAssumption
<1> HIDE DEF TInv
<1>3. /\ born' \in 0..MaxTasks /\ born \in Nat /\ born' = born + 1
      /\ info' \in [Tasks -> TaskInfo]
      /\ \A t \in Tasks : t <= born' => info'[t].role \in Roles
      /\ appends' \in Nat /\ lapsed' \subseteq Tasks
      /\ at' \in [Tasks -> Nat] /\ rows' \in [Tasks -> Nat]
      /\ status' \in [Tasks -> Statuses] /\ filed' \in [Tasks -> Statuses]
      /\ runner' \in [Tasks -> Loops \cup {Nobody}]
      /\ \A u \in Tasks : u > born' => status'[u] = "none"
  BY <1>1, <1>2, TInvAdds
<1>4. UNCHANGED <<lockVars, loopVars, reply, crashes>> /\ added' \in Nat
  BY DEF OwnerAdds, TInv
<1>5. TypeOK' BY <1>3, <1>4 DEF TInv
<1>6. Known'
  <2>1. \A x \in 1..born : x \in 1..born' BY <1>3
  <2>2. \A x \in Tasks : x <= born => x <= born' BY <1>3 DEF Tasks
  <2> QED BY <1>3, <1>4, <2>1, <2>2 DEF TInv
<1> QED BY <1>5, <1>6 DEF TInv

\* Humans, signals, the watchdog and the clock.
LEMMA TInvAround ==
  ASSUME TInv,
         \/ \E p \in Loops : Start(p) \/ Signal(p) \/ WatchdogTick(p)
         \/ \E h \in Answerers : AnswerReads(h) \/ AnswerCommits(h)
         \/ \E c \in Courses : LockAges(c)
         \/ \E t \in Tasks : LeaseLapses(t)
  PROVE  TInv'
<1> USE DEF TInv, TypeOK, Known, Goto, Points, Idle, Statuses, Terminal, NoTask,
            fileVars, lockVars, loopVars
<1>1. ASSUME NEW p \in Loops, Start(p) PROVE TInv' BY <1>1 DEF Start
<1>2. ASSUME NEW p \in Loops, Signal(p) PROVE TInv' BY <1>2 DEF Signal
<1>3. ASSUME NEW p \in Loops, WatchdogTick(p) PROVE TInv' BY <1>3 DEF WatchdogTick
<1>4. ASSUME NEW h \in Answerers, AnswerReads(h) PROVE TInv'
  <2>1. PICK t \in Tasks :
          /\ status[t] = "blocked"
          /\ reply' = [reply EXCEPT ![h] = [task |-> t, runner |-> runner[t]]]
    BY <1>4 DEF AnswerReads
  <2>2. t \in 1..born BY <2>1 DEF Tasks
  <2> QED BY <1>4, <2>1, <2>2 DEF AnswerReads
<1>5. ASSUME NEW h \in Answerers, AnswerCommits(h) PROVE TInv'
  <2>1. reply[h].task \in 1..born /\ born \in 0..MaxTasks BY <1>5 DEF AnswerCommits
  <2>2. reply[h].task \in Tasks BY <2>1, TaskQueueAssumption DEF Tasks
  <2>3. /\ Commit(reply[h].task, "queued", reply[h].runner)
        /\ born' = born /\ "queued" \in Statuses /\ reply[h].runner \in Loops \cup {Nobody}
    BY <1>5 DEF AnswerCommits
  <2> HIDE DEF TInv
  <2>4. /\ appends' \in Nat /\ lapsed' \subseteq Tasks
        /\ at' \in [Tasks -> Nat] /\ rows' \in [Tasks -> Nat]
        /\ status' \in [Tasks -> Statuses] /\ filed' \in [Tasks -> Statuses]
        /\ runner' \in [Tasks -> Loops \cup {Nobody}]
        /\ \A u \in Tasks : u # reply[h].task /\ u > born => status'[u] = "none"
    BY <2>2, <2>3, CommitTyped
  <2>5. reply' \in [Answerers -> [task : Tasks \cup {NoTask}, runner : Loops \cup {Nobody}]]
    BY <1>5 DEF AnswerCommits, NoReply, TInv
  <2>6. \A i \in Answerers : reply'[i] # NoReply => reply'[i] = reply[i]
    BY <1>5 DEF AnswerCommits, TInv
  <2> QED BY <1>5, <2>1, <2>4, <2>5, <2>6 DEF AnswerCommits, TInv
<1>6. ASSUME NEW c \in Courses, LockAges(c) PROVE TInv' BY <1>6 DEF LockAges
<1>7. ASSUME NEW t \in Tasks, LeaseLapses(t) PROVE TInv' BY <1>7 DEF LeaseLapses
<1> QED BY <1>1, <1>2, <1>3, <1>4, <1>5, <1>6, <1>7

\* A killed loop, also one killed between the archive and the queue, and one that raised.
LEMMA TInvDies ==
  ASSUME TInv, NEW p \in Loops, Ends(p)
  PROVE  TInv'
<1> USE DEF TInv, TypeOK, Known, Goto, Points, Idle, Statuses, Terminal, NoTask,
            fileVars, lockVars, loopVars
<1>1. /\ rows' \in [Tasks -> Nat] /\ filed' \in [Tasks -> Statuses]
  <2>1. CASE Crash(p) \/ CommitRaises(p) \/ ScanRaises(p)
    BY <2>1 DEF Crash, CommitRaises, ScanRaises, Raised
  <2>2. CASE CrashInTrim(p)
    <3>1. PICK s \in Terminal :
            Archive(Trimmed([status EXCEPT ![cur[p]] = s], Placed(cur[p])),
                    [status EXCEPT ![cur[p]] = s])
      BY <2>2 DEF CrashInTrim
    <3> DEFINE st == [status EXCEPT ![cur[p]] = s]
               drop == Trimmed(st, Placed(cur[p]))
    <3>2. st \in [Tasks -> Statuses] OBVIOUS
    <3>3. Archive(drop, st) BY <3>1
    <3> HIDE DEF st, drop
    <3> QED BY <3>2, <3>3 DEF Archive
  <2> QED BY <2>1, <2>2 DEF Ends
<1>2. /\ Dies(p) \/ Raised(p)
      /\ UNCHANGED <<born, info, at, appends, status, runner, lapsed>>
      /\ crashes' \in Nat
  <2>1. CASE Crash(p) \/ CrashInTrim(p) BY <2>1 DEF Crash, CrashInTrim, Dies
  <2>2. CASE CommitRaises(p) \/ ScanRaises(p) BY <2>2 DEF CommitRaises, ScanRaises, Raised
  <2> QED BY <2>1, <2>2 DEF Ends
<1>3. /\ todo' = [todo EXCEPT ![p] = [t \in Tasks |-> 0]] /\ live' = [live EXCEPT ![p] = {}]
      /\ todo' \in [Loops -> [Tasks -> Nat]] /\ live' \in [Loops -> SUBSET Tasks]
  <2>1. todo' = [todo EXCEPT ![p] = [t \in Tasks |-> 0]] /\ live' = [live EXCEPT ![p] = {}]
    BY <1>2 DEF Dies, Raised
  <2> QED BY <2>1
<1>4. \A q \in Loops : \A t \in Tasks : todo'[q][t] # 0 => t <= born
  BY <1>3
<1>5. mutex' \in Loops \cup {Nobody} BY <1>2 DEF Dies, Raised
<1>6. /\ pc' \in [Loops -> Points] /\ cur' \in [Loops -> Tasks \cup {NoTask}]
      /\ mem' \in [Loops -> Statuses]
      /\ \A q \in Loops : ~Idle(q)' => ~Idle(q) /\ cur'[q] = cur[q]
  BY <1>2 DEF Dies, Raised, Forgotten
<1>7. UNCHANGED <<lock, lockOld, stop, hold, reply, added>> BY <1>2 DEF Dies, Raised
<1> QED BY <1>1, <1>2, <1>3, <1>4, <1>5, <1>6, <1>7

LEMMA TInvNext == TInv /\ [Next]_vars => TInv'
<1> SUFFICES ASSUME TInv, [Next]_vars PROVE TInv'
  OBVIOUS
<1>1. CASE UNCHANGED vars
  BY <1>1 DEF vars, fileVars, lockVars, loopVars, TInv, TypeOK, Known, Idle
<1>2. ASSUME NEW p \in Loops, LoopStep(p) PROVE TInv'
  BY <1>2, TInvSelect, TInvClaim, TInvCommits, TInvAfter, TInvFollows DEF LoopStep
<1>3. ASSUME NEW p \in Loops, Ends(p) PROVE TInv'
  BY <1>3, TInvDies
<1> QED BY <1>1, <1>2, <1>3, TInvOwner, TInvAround DEF Next

\* The queue, the locks, the loops and the answerers keep their types.
THEOREM TypeCorrect == Spec => []TypeOK
<1>1. TInv => TypeOK BY DEF TInv
<1> QED BY <1>1, TInvInit, TInvNext, PTL DEF Spec

-----------------------------------------------------------------------------
(* What a step does to the records *)

\* The ways to a new task.
Adding ==
  \/ OwnerAdds
  \/ \E p \in Loops : ChainAdds(p) \/ ReflectAdds(p) \/ RetryAdds(p)

\* A step commits one record, saves a claim, archives and dies, lets a lease lapse, or leaves
\* state.json and the archive alone.
LEMMA FileMoves ==
  ASSUME TInv, [Next]_vars
  PROVE  \/ UNCHANGED <<born, at, status, runner, lapsed, rows>>
         \/ \E t \in Tasks, s \in Statuses \ {"none"}, r \in Loops \cup {Nobody} :
              Commit(t, s, r) /\ (born' = born \/ (born' = born + 1 /\ t = born + 1))
         \/ \E p \in Loops : Save(p) \/ CrashInTrim(p)
         \/ \E t \in Tasks : LeaseLapses(t)
<1> DEFINE Leaves == UNCHANGED <<born, at, status, runner, lapsed, rows>>
           Commits1 == \E t \in Tasks, s \in Statuses \ {"none"}, r \in Loops \cup {Nobody} :
                         Commit(t, s, r) /\ (born' = born \/ (born' = born + 1 /\ t = born + 1))
<1> SUFFICES ASSUME ~\E p \in Loops : Save(p) \/ CrashInTrim(p), ~\E t \in Tasks : LeaseLapses(t)
             PROVE  Leaves \/ Commits1
  OBVIOUS
<1>1. ASSUME NEW p \in Loops,
             \/ ShutDown(p) \/ HoldDrains(p) \/ SelectResumable(p) \/ SelectQueued(p)
             \/ ScanFree(p) \/ ScanHeld(p) \/ ScanStale(p) \/ ScanEmpty(p)
             \/ ScanBreak(p) \/ ScanBreakRaises(p)
             \/ BeginClaim(p) \/ BeginAdopt(p) \/ ClaimLost(p) \/ AdoptLost(p)
             \/ CheckFree(p) \/ CheckHeld(p) \/ CheckStale(p)
             \/ ClaimBreak(p) \/ ClaimBreakRaises(p) \/ TakeLock(p)
      PROVE  Leaves
  BY <1>1 DEF ShutDown, HoldDrains, SelectResumable, SelectQueued, ScanFree, ScanHeld, ScanStale,
     ScanEmpty, ScanBreak, ScanBreakRaises, BeginClaim, BeginAdopt, ClaimLost, AdoptLost, CheckFree,
     CheckHeld, CheckStale, ClaimBreak, ClaimBreakRaises, TakeLock, fileVars
<1>2. ASSUME NEW p \in Loops,
             \/ BreakOff(p) \/ ReleaseOwned(p) \/ ReleaseOther(p) \/ Unlink(p)
             \/ FileUnscored(p) \/ FileNothing(p) \/ ChainEnds(p)
             \/ ReflectSkips(p) \/ RetryGivesUp(p)
             \/ Start(p) \/ Signal(p) \/ WatchdogTick(p)
             \/ Crash(p) \/ CommitRaises(p) \/ ScanRaises(p)
      PROVE  Leaves
  BY <1>2 DEF BreakOff, ReleaseOwned, ReleaseOther, Unlink, FileUnscored, FileNothing, ChainEnds,
     ReflectSkips, RetryGivesUp, Start, Signal, WatchdogTick, Crash, CommitRaises,
     ScanRaises, Raised, fileVars
<1>3. ASSUME NEW p \in Loops, StepRuns(p) \/ StepEnds(p) \/ FileMemory(p) PROVE Commits1
  <2>1. cur[p] \in Tasks BY <1>3, CurKnown DEF StepRuns, StepEnds, FileMemory, Goto
  <2>2. \E s \in Statuses \ {"none"} : Commit(cur[p], s, p)
    BY <1>3 DEF StepRuns, StepEnds, FileMemory, Statuses, Terminal
  <2>3. born' = born BY <1>3 DEF StepRuns, StepEnds, FileMemory
  <2> QED BY <2>1, <2>2, <2>3
<1>4. ASSUME Adding PROVE Commits1
  <2>1. born < MaxTasks /\ born' = born + 1 /\ Commit(born + 1, "queued", Nobody)
    BY <1>4 DEF Adding, OwnerAdds, ChainAdds, ReflectAdds, RetryAdds, AddTask
  <2>2. born + 1 \in Tasks BY <2>1, TaskQueueAssumption DEF TInv, TypeOK, Tasks
  <2>3. "queued" \in Statuses \ {"none"} BY DEF Statuses
  <2> QED BY <2>1, <2>2, <2>3
<1>5. ASSUME NEW h \in Answerers, AnswerReads(h) \/ AnswerCommits(h) PROVE Leaves \/ Commits1
  <2>1. CASE AnswerReads(h) BY <2>1 DEF AnswerReads, fileVars
  <2>2. CASE AnswerCommits(h)
    <3>1. Commit(reply[h].task, "queued", reply[h].runner) /\ born' = born /\ reply[h] # NoReply
      BY <2>2 DEF AnswerCommits
    <3>2. reply[h].task \in 1..born /\ reply[h].runner \in Loops \cup {Nobody} /\ born \in 0..MaxTasks
      BY <3>1 DEF TInv, Known, TypeOK
    <3>3. reply[h].task \in Tasks BY <3>2, TaskQueueAssumption DEF Tasks
    <3>4. "queued" \in Statuses \ {"none"} BY DEF Statuses
    <3> QED BY <3>1, <3>2, <3>3, <3>4
  <2> QED BY <1>5, <2>1, <2>2
<1>6. CASE (\E c \in Courses : LockAges(c)) \/ UNCHANGED vars
  BY <1>6 DEF LockAges, fileVars, vars
<1> HIDE DEF Leaves, Commits1
<1> QED BY <1>1, <1>2, <1>3, <1>4, <1>5, <1>6 DEF Next, LoopStep, Ends, Adding

\* What is recorded of a task, in state.json or in the archive, stays.
LEMMA FoundStays ==
  ASSUME TInv, NothingLost, [Next]_vars PROVE NothingLost'
<1> SUFFICES ASSUME NEW u \in 1..born' PROVE at'[u] # 0 \/ rows'[u] > 0
  BY DEF NothingLost
<1>t. /\ rows \in [Tasks -> Nat] /\ at \in [Tasks -> Nat] /\ born \in 0..MaxTasks /\ MaxTasks \in Nat
      /\ TypeOK
  BY TaskQueueAssumption DEF TInv, TypeOK
<1>1. CASE UNCHANGED <<born, at, status, runner, lapsed, rows>>
  BY <1>1 DEF NothingLost
<1>2. CASE \E t \in Tasks, s \in Statuses \ {"none"}, r \in Loops \cup {Nobody} :
             Commit(t, s, r) /\ (born' = born \/ (born' = born + 1 /\ t = born + 1))
  <2>1. PICK t \in Tasks, s \in Statuses \ {"none"}, r \in Loops \cup {Nobody} :
             Commit(t, s, r) /\ (born' = born \/ (born' = born + 1 /\ t = born + 1))
    BY <1>2
  <2>2. u \in 1..born \/ u = t BY <1>t, <2>1
  <2>3. u \in Tasks BY <1>t, <2>2 DEF Tasks
  <2>4. CommitMoves(t, s, u) BY <1>t, <2>1, <2>3, CommitFacts
  <2>5. u = t \/ at[u] # 0 \/ rows[u] > 0 BY <2>2 DEF NothingLost
  <2>6. rows[u] \in Nat BY <1>t, <2>3
  <2> QED BY <2>4, <2>5, <2>6 DEF CommitMoves
<1>3. ASSUME NEW p \in Loops, Save(p) PROVE at'[u] # 0 \/ rows'[u] > 0
  BY <1>3 DEF Save, NothingLost
<1>4. ASSUME NEW p \in Loops, CrashInTrim(p) PROVE at'[u] # 0 \/ rows'[u] > 0
  <2>1. born' = born /\ at' = at BY <1>4 DEF CrashInTrim
  <2>2. u \in Tasks BY <1>t, <2>1 DEF Tasks
  <2>3. rows[u] \in Nat BY <1>t, <2>2
  <2>4. PICK drop : rows' = [v \in Tasks |-> IF v \in drop THEN rows[v] + 1 ELSE rows[v]]
    BY <1>4 DEF CrashInTrim, Archive
  <2>5. rows'[u] = rows[u] \/ rows'[u] = rows[u] + 1 BY <2>2, <2>4
  <2> QED BY <2>1, <2>3, <2>5 DEF NothingLost
<1>5. ASSUME NEW t \in Tasks, LeaseLapses(t) PROVE at'[u] # 0 \/ rows'[u] > 0
  BY <1>5 DEF LeaseLapses, NothingLost
<1> QED BY <1>1, <1>2, <1>3, <1>4, <1>5, FileMoves

\* commit_task, _trim_state: a task that was ever created is in the queue or in the archive,
\* whatever host or pid the loops have, however many answer, whatever dies or raises.
THEOREM NothingIsLost == Spec => []NothingLost
<1>1. Init => NothingLost BY DEF Init, NothingLost
<1>2. TInv /\ NothingLost /\ [Next]_vars => NothingLost' BY FoundStays
<1> QED BY <1>1, <1>2, TInvInit, TInvNext, PTL DEF Spec

-----------------------------------------------------------------------------
(* One executor for each task *)

\* Any number of machines whose pids are not given out again while a queue lives, and one
\* human answering: what the code's liveness test and answer_task assume.
Fleet ==
  /\ \A p, q \in Loops : HostOf[p] = HostOf[q] /\ PidOf[p] = PidOf[q] => p = q
  /\ \A h, i \in Answerers : h = i

\* "It must exceed the longest gap between two commits of one task" (loop.py:781): no loop is
\* so slow that its lease lapses while it lives.  A lease is asked about by other hosts only,
\* so the model lets none lapse that nobody could ask about (the guard of LeaseLapses).
LeasesKept == \A t \in lapsed' \ lapsed : runner[t] \in Loops => Dead(runner[t])

\* What a kept lease says to other machines: its loop is dead.
LapsedDead ==
  \A t \in lapsed : status[t] = "running" /\ runner[t] \in Loops => Dead(runner[t])

\* The inductive invariant.  Ownership says who may decide about a task at every
\* point of the code; it needs Records, because a finished task may have left
\* state.json for the archive, and that a working loop's copy says "running",
\* because a loop that stops between two steps must not look finished.
CopyIsRunning == \A p \in Loops : pc[p] = "work" => mem[p] = "running"

IInv == TInv /\ Records /\ Ownership /\ CopyIsRunning /\ LapsedDead

LEMMA IInvInit == Init => IInv
<1> SUFFICES ASSUME Init PROVE IInv
  OBVIOUS
<1>1. TInv BY TInvInit
<1>2. Records BY DEF Init, Records, Tasks
<1>3. Ownership
  BY TaskQueueAssumption DEF Init, Ownership, InMutex, Idle, Executing, NoReply
<1>4. CopyIsRunning BY DEF Init, CopyIsRunning
<1>5. LapsedDead BY DEF Init, LapsedDead
<1> QED BY <1>1, <1>2, <1>3, <1>4, <1>5 DEF IInv

\* The part of Ownership that is about one loop.
OwnershipOf(p) ==
  /\ InMutex(p) <=> mutex = p
  /\ ~Idle(p) => cur[p] \in 1..born
  /\ pc[p] \in {"check", "break", "save"} => Decidable(p, cur[p])
  /\ Executing(p) => status[cur[p]] = "running" /\ runner[cur[p]] = p
  /\ pc[p] \in {"release", "unlink", "file"} /\ mem[p] \in Terminal
       => Outcome(cur[p]) = mem[p]
  /\ pc[p] = "work" => mem[p] = "running"

LEMMA OwnershipEach == IInv => \A p \in Loops : OwnershipOf(p)
BY DEF IInv, Ownership, OwnershipOf, CopyIsRunning

\* A step of one loop that touches no record needs a look at that loop only.
LEMMA OwnFrame ==
  ASSUME IInv, Known', NEW p \in Loops, UNCHANGED <<fileVars, reply>>,
         \A q \in Loops \ {p} : pc'[q] = pc[q] /\ cur'[q] = cur[q] /\ mem'[q] = mem[q],
         \A q \in Loops \ {p} : mutex' = q <=> mutex = q,
         Dead(p) => Dead(p)', pc[p] # "off" => pc'[p] # "off",
         OwnershipOf(p)'
  PROVE  Records' /\ Ownership' /\ CopyIsRunning'
<1> USE DEF IInv, Records, Ownership, OwnershipOf, CopyIsRunning, fileVars
<1>1. Records' BY DEF Known
<1>2. \A q \in Loops : pc[q] # "off" => pc'[q] # "off" OBVIOUS
<1>3. \A q \in Loops : Dead(q) => Dead(q)' BY DEF Dead
<1>4. \A q \in Loops \ {p} : OwnershipOf(q)'
  <2> SUFFICES ASSUME NEW q \in Loops \ {p} PROVE OwnershipOf(q)'
    OBVIOUS
  <2>1. (InMutex(q) <=> mutex = q)' BY DEF InMutex
  <2>2. (~Idle(q) => cur[q] \in 1..born)' BY DEF Idle
  <2>3. (pc[q] \in {"check", "break", "save"} => Decidable(q, cur[q]))'
    <3> SUFFICES ASSUME pc'[q] \in {"check", "break", "save"} PROVE Decidable(q, cur[q])'
      OBVIOUS
    <3>1. Decidable(q, cur[q]) OBVIOUS
    <3>2. runner[cur[q]] \in Loops \cup {Nobody}
      <4>1. cur[q] \in 1..born BY DEF Idle
      <4>2. born \in 0..MaxTasks /\ MaxTasks \in Nat /\ runner \in [Tasks -> Loops \cup {Nobody}]
        BY TaskQueueAssumption DEF TInv, TypeOK
      <4>3. cur[q] \in Tasks BY <4>1, <4>2 DEF Tasks
      <4> QED BY <4>2, <4>3
    <3>3. CASE runner[cur[q]] = Nobody BY <3>1, <3>3 DEF Decidable
    <3>4. CASE runner[cur[q]] \in Loops BY <1>3, <3>1, <3>4 DEF Decidable
    <3> QED BY <3>2, <3>3, <3>4
  <2>4. (Executing(q) => status[cur[q]] = "running" /\ runner[cur[q]] = q)'
    BY DEF Executing
  <2>5. (pc[q] \in {"release", "unlink", "file"} /\ mem[q] \in Terminal
          => Outcome(cur[q]) = mem[q])' BY DEF Outcome
  <2>6. (pc[q] = "work" => mem[q] = "running")' OBVIOUS
  <2> QED BY <2>1, <2>2, <2>3, <2>4, <2>5, <2>6
<1>5. \A q \in Loops : OwnershipOf(q)' BY <1>4
<1>6. CopyIsRunning' BY <1>5
<1>7. Ownership' BY <1>2, <1>5
<1> QED BY <1>1, <1>6, <1>7

\* Selecting a task decides nothing.
LEMMA OwnSelect ==
  ASSUME IInv, Known', NEW p \in Loops,
         \/ ShutDown(p) \/ HoldDrains(p) \/ SelectResumable(p) \/ SelectQueued(p)
         \/ ScanFree(p) \/ ScanHeld(p) \/ ScanStale(p) \/ ScanEmpty(p)
         \/ ScanBreak(p) \/ ScanBreakRaises(p)
  PROVE  Records' /\ Ownership' /\ CopyIsRunning'
<1> SUFFICES /\ UNCHANGED <<fileVars, reply>>
             /\ \A q \in Loops \ {p} : pc'[q] = pc[q] /\ cur'[q] = cur[q] /\ mem'[q] = mem[q]
             /\ \A q \in Loops \ {p} : mutex' = q <=> mutex = q
             /\ (Dead(p) => Dead(p)') /\ (pc[p] # "off" => pc'[p] # "off")
             /\ OwnershipOf(p)'
  BY OwnFrame
<1>0. OwnershipOf(p) BY OwnershipEach
<1> USE <1>0 DEF OwnershipOf, Outcome, Decidable, Dead, InMutex, Executing, Idle, Goto, Terminal,
            fileVars, lockVars, loopVars, IInv, TInv, TypeOK, Known
<1>1. CASE ShutDown(p) BY <1>1 DEF ShutDown
<1>2. CASE HoldDrains(p) BY <1>2 DEF HoldDrains
<1>3. CASE SelectResumable(p) BY <1>3 DEF SelectResumable, Running
<1>4. CASE SelectQueued(p) BY <1>4 DEF SelectQueued, Running
<1>5. CASE ScanFree(p) BY <1>5 DEF ScanFree, Examines, Selected
<1>6. CASE ScanHeld(p) BY <1>6 DEF ScanHeld, Examines
<1>7. CASE ScanStale(p) BY <1>7 DEF ScanStale, Examines, Selected
<1>8. CASE ScanEmpty(p) BY <1>8 DEF ScanEmpty
<1>9. CASE ScanBreak(p) BY <1>9 DEF ScanBreak, Unlocked
<1>10. CASE ScanBreakRaises(p) BY <1>10 DEF ScanBreakRaises, Forgotten
<1> QED BY <1>1, <1>2, <1>3, <1>4, <1>5, <1>6, <1>7, <1>8, <1>9, <1>10

\* Inside the mutex, a task stays decidable until it is stamped.
LEMMA OwnClaim ==
  ASSUME IInv, Known', NEW p \in Loops,
         \/ BeginClaim(p) \/ ClaimLost(p) \/ AdoptLost(p) \/ CheckFree(p)
         \/ CheckHeld(p) \/ CheckStale(p) \/ ClaimBreak(p) \/ ClaimBreakRaises(p)
         \/ TakeLock(p)
  PROVE  Records' /\ Ownership' /\ CopyIsRunning'
<1> SUFFICES /\ UNCHANGED <<fileVars, reply>>
             /\ \A q \in Loops \ {p} : pc'[q] = pc[q] /\ cur'[q] = cur[q] /\ mem'[q] = mem[q]
             /\ \A q \in Loops \ {p} : mutex' = q <=> mutex = q
             /\ (Dead(p) => Dead(p)') /\ (pc[p] # "off" => pc'[p] # "off")
             /\ OwnershipOf(p)'
  BY OwnFrame
<1>0. OwnershipOf(p) BY OwnershipEach
<1> USE <1>0 DEF OwnershipOf, Outcome, Decidable, Dead, InMutex, Executing, Idle, Goto, Terminal,
            fileVars, lockVars, loopVars, IInv, TInv, TypeOK, Known
<1>1. CASE BeginClaim(p) BY <1>1, TaskQueueAssumption DEF BeginClaim, Claimable
<1>2. CASE ClaimLost(p) BY <1>2 DEF ClaimLost, Forgotten
<1>3. CASE AdoptLost(p) BY <1>3 DEF AdoptLost, Forgotten
<1>4. CASE CheckFree(p) BY <1>4 DEF CheckFree
<1>5. CASE CheckHeld(p) BY <1>5, TaskQueueAssumption DEF CheckHeld, Forgotten
<1>6. CASE CheckStale(p) BY <1>6 DEF CheckStale
<1>7. CASE ClaimBreak(p) BY <1>7 DEF ClaimBreak, Unlocked
<1>8. CASE ClaimBreakRaises(p) BY <1>8, TaskQueueAssumption DEF ClaimBreakRaises, Forgotten
<1>9. CASE TakeLock(p) BY <1>9, TaskQueueAssumption DEF TakeLock
<1> QED BY <1>1, <1>2, <1>3, <1>4, <1>5, <1>6, <1>7, <1>8, <1>9

\* Leaving a task.
LEMMA OwnAfter ==
  ASSUME IInv, Known', NEW p \in Loops,
         \/ BreakOff(p) \/ ReleaseOwned(p) \/ ReleaseOther(p) \/ Unlink(p)
         \/ FileUnscored(p) \/ FileNothing(p) \/ ChainEnds(p) \/ ReflectSkips(p)
         \/ RetryGivesUp(p)
  PROVE  Records' /\ Ownership' /\ CopyIsRunning'
<1> SUFFICES /\ UNCHANGED <<fileVars, reply>>
             /\ \A q \in Loops \ {p} : pc'[q] = pc[q] /\ cur'[q] = cur[q] /\ mem'[q] = mem[q]
             /\ \A q \in Loops \ {p} : mutex' = q <=> mutex = q
             /\ (Dead(p) => Dead(p)') /\ (pc[p] # "off" => pc'[p] # "off")
             /\ OwnershipOf(p)'
  BY OwnFrame
<1>0. OwnershipOf(p) BY OwnershipEach
<1> USE <1>0 DEF OwnershipOf, Outcome, Decidable, Dead, InMutex, Executing, Idle, Goto, Terminal,
            fileVars, lockVars, loopVars, IInv, TInv, TypeOK, Known
<1>1. CASE BreakOff(p) BY <1>1 DEF BreakOff
<1>2. CASE ReleaseOwned(p) BY <1>2 DEF ReleaseOwned
<1>3. CASE ReleaseOther(p) BY <1>3 DEF ReleaseOther
<1>4. CASE Unlink(p) BY <1>4 DEF Unlink, Unlocked
<1>5. CASE FileUnscored(p) BY <1>5 DEF FileUnscored, AfterFiling
<1>6. CASE FileNothing(p) BY <1>6 DEF FileNothing, Forgotten
<1>7. CASE ChainEnds(p) BY <1>7 DEF ChainEnds
<1>8. CASE ReflectSkips(p) BY <1>8 DEF ReflectSkips, Forgotten
<1>9. CASE RetryGivesUp(p) BY <1>9 DEF RetryGivesUp, Forgotten
<1> QED BY <1>1, <1>2, <1>3, <1>4, <1>5, <1>6, <1>7, <1>8, <1>9

\* A task may be resumed only when nobody can be executing it: its loop's machine finds no
\* process of its pid, any other machine finds its lease lapsed.
LEMMA ResumableIsDecidable ==
  ASSUME Fleet, IInv, NEW p \in Loops, NEW t \in Tasks, Adoptable(p, t)
  PROVE  Decidable(p, t)
<1>1. status[t] = "running" /\ MayResume(p, t) BY DEF Adoptable
<1>2. CASE runner[t] \in {Nobody, p} BY <1>1, <1>2 DEF Decidable
<1>3. CASE runner[t] \notin {Nobody, p}
  <2>1. runner[t] \in Loops BY <1>3 DEF IInv, TInv, TypeOK
  <2>2. CASE HostOf[runner[t]] = HostOf[p]
    <3>1. ~ProcessAlive(runner[t]) BY <1>1, <1>3, <2>2 DEF MayResume
    <3>2. ~Alive(runner[t]) BY <2>1, <3>1 DEF ProcessAlive
    <3>3. pc[runner[t]] # "off" BY <2>1 DEF IInv, Ownership
    <3> QED BY <1>1, <3>2, <3>3 DEF Alive, Decidable, Dead
  <2>3. CASE HostOf[runner[t]] # HostOf[p]
    <3>1. t \in lapsed BY <1>1, <1>3, <2>3 DEF MayResume
    <3> QED BY <1>1, <2>1, <3>1 DEF IInv, LapsedDead, Decidable
  <2> QED BY <2>2, <2>3
<1> QED BY <1>2, <1>3

LEMMA OwnAdopt ==
  ASSUME Fleet, IInv, Known', NEW p \in Loops, BeginAdopt(p)
  PROVE  Records' /\ Ownership' /\ CopyIsRunning'
<1> SUFFICES /\ UNCHANGED <<fileVars, reply>>
             /\ \A q \in Loops \ {p} : pc'[q] = pc[q] /\ cur'[q] = cur[q] /\ mem'[q] = mem[q]
             /\ \A q \in Loops \ {p} : mutex' = q <=> mutex = q
             /\ (Dead(p) => Dead(p)') /\ (pc[p] # "off" => pc'[p] # "off")
             /\ OwnershipOf(p)'
  BY OwnFrame
<1>1. OwnershipOf(p) BY OwnershipEach
<1>2. cur[p] \in Tasks /\ cur[p] \in 1..born BY CurKnown DEF BeginAdopt, Goto, IInv
<1>3. Decidable(p, cur[p]) BY <1>2, ResumableIsDecidable DEF BeginAdopt
<1>4. runner[cur[p]] \in Loops /\ runner[cur[p]] # p => (Dead(runner[cur[p]]) => Dead(runner[cur[p]])')
  BY DEF BeginAdopt, Goto, Dead, fileVars, IInv, TInv, TypeOK
<1>5. pc' = [pc EXCEPT ![p] = "check"] /\ pc[p] = "adopt" /\ pc \in [Loops -> Points]
      /\ mutex = Nobody /\ mutex' = p
      /\ UNCHANGED <<fileVars, reply, cur, mem>>
  BY DEF BeginAdopt, Goto, IInv, TInv, TypeOK
<1>6. Decidable(p, cur[p])'
  <2>1. runner[cur[p]] \in Loops \cup {Nobody} BY <1>2 DEF IInv, TInv, TypeOK
  <2>2. CASE runner[cur[p]] = Nobody BY <1>3, <1>5, <2>2 DEF Decidable, fileVars
  <2>3. CASE runner[cur[p]] = p BY <1>3, <1>5, <2>3 DEF Decidable, fileVars
  <2>4. CASE runner[cur[p]] \in Loops \ {p}
    BY <1>3, <1>4, <1>5, <2>4, TaskQueueAssumption DEF Decidable, fileVars
  <2> QED BY <2>1, <2>2, <2>3, <2>4
<1>7. OwnershipOf(p)'
  BY <1>2, <1>5, <1>6 DEF OwnershipOf, InMutex, Idle, Executing, fileVars
<1> QED BY <1>5, <1>7, TaskQueueAssumption DEF Dead

\* The stamp: whoever is entitled to the task becomes the one who executes it.
LEMMA OwnSave ==
  ASSUME IInv, TInv', NEW p \in Loops, Save(p)
  PROVE  Records' /\ Ownership' /\ CopyIsRunning'
<1> DEFINE t == cur[p]
<1>1. t \in 1..born /\ t \in Tasks BY CurKnown DEF Save, Goto, IInv
<1>2. /\ pc[p] = "save" /\ pc' = [pc EXCEPT ![p] = "take"]
      /\ status' = [status EXCEPT ![t] = "running"]
      /\ runner' = [runner EXCEPT ![t] = p]
      /\ UNCHANGED <<born, info, at, appends, rows, filed, lockVars, cur, mem, todo, reply>>
  BY DEF Save, Goto
<1>3. /\ status \in [Tasks -> Statuses] /\ runner \in [Tasks -> Loops \cup {Nobody}]
      /\ pc \in [Loops -> Points]
  BY DEF IInv, TInv, TypeOK
<1>4. Decidable(p, t) /\ mutex = p
  BY <1>2 DEF IInv, Ownership, InMutex
<1> HIDE DEF t
<1>5. status[t] \in {"queued", "running"} /\ at[t] # 0
  BY <1>1, <1>4 DEF Decidable, IInv, Records
<1>6. Outcome(t) \in {"queued", "running"}
  BY <1>1, <1>5 DEF Outcome, IInv, TInv, TypeOK
<1>7. Records'
  BY <1>1, <1>2, <1>3, <1>5 DEF IInv, Records
<1>8. ASSUME NEW q \in Loops, q # p PROVE OwnershipOf(q)'
  <2>1. OwnershipOf(q) BY OwnershipEach
  <2>2. pc'[q] = pc[q] BY <1>2, <1>3, <1>8
  <2>3. ~InMutex(q) BY <1>4, <1>8, <2>1 DEF OwnershipOf
  <2>4. CASE Idle(q)
    BY <1>2, <1>4, <1>8, <2>2, <2>3, <2>4 DEF OwnershipOf, InMutex, Idle, Executing, lockVars
  <2>5. CASE ~Idle(q)
    <3>1. cur[q] \in 1..born /\ cur[q] \in Tasks
      BY <2>5, CurKnown DEF Idle, IInv
    <3>2. ASSUME Executing(q) PROVE cur[q] # t
      <4>1. pc[q] = "work" BY <2>3, <3>2 DEF Executing, InMutex
      <4>2. SUFFICES ASSUME cur[q] = t PROVE FALSE OBVIOUS
      <4>3. status[t] = "running" /\ runner[t] = q BY <2>1, <3>2, <4>2 DEF OwnershipOf
      <4>4. q # Nobody BY TaskQueueAssumption
      <4> QED BY <1>4, <1>8, <4>1, <4>3, <4>4 DEF Decidable, Dead
    <3>3. ASSUME pc[q] \in {"release", "unlink", "file"}, mem[q] \in Terminal
          PROVE  cur[q] # t
      BY <1>6, <2>1, <3>3 DEF OwnershipOf, Terminal
    <3>4. cur[q] # t => status'[cur[q]] = status[cur[q]] /\ runner'[cur[q]] = runner[cur[q]]
      BY <1>1, <1>2, <1>3, <3>1
    <3>5. cur[q] # t => Outcome(cur[q])' = Outcome(cur[q])
      BY <1>2, <3>4 DEF Outcome
    <3> QED BY <1>2, <1>4, <1>8, <2>1, <2>2, <2>3, <3>1, <3>2, <3>3, <3>4, <3>5
        DEF OwnershipOf, InMutex, Idle, Executing, lockVars
  <2> QED BY <2>4, <2>5
<1>9. OwnershipOf(p)'
  BY <1>1, <1>2, <1>3, <1>4 DEF OwnershipOf, InMutex, Idle, Executing, lockVars, t
<1>10. \A q \in Loops : OwnershipOf(q)' BY <1>8, <1>9
<1>11. /\ \A h \in Answerers : reply'[h] # NoReply =>
            reply'[h].task \in 1..born' /\ status'[reply'[h].task] = "blocked"
  <2> SUFFICES ASSUME NEW h \in Answerers, reply[h] # NoReply
               PROVE  reply[h].task \in 1..born /\ status'[reply[h].task] = "blocked"
    BY <1>2
  <2>1. reply[h].task \in 1..born /\ status[reply[h].task] = "blocked"
    BY DEF IInv, Ownership
  <2>2. reply[h].task # t BY <1>5, <2>1
  <2> QED BY <1>1, <1>2, <1>3, <2>1, <2>2
<1>12. \A u \in Tasks : runner'[u] \in Loops => pc'[runner'[u]] # "off"
  <2> SUFFICES ASSUME NEW u \in Tasks, runner'[u] \in Loops PROVE pc'[runner'[u]] # "off"
    OBVIOUS
  <2>1. CASE u = t BY <1>1, <1>2, <1>3, <2>1
  <2>2. CASE u # t
    <3>1. runner'[u] = runner[u] BY <1>2, <1>3, <2>2
    <3>2. pc[runner[u]] # "off" BY <3>1 DEF IInv, Ownership
    <3> QED BY <1>2, <1>3, <3>1, <3>2
  <2> QED BY <2>1, <2>2
<1>13. \A h \in Answerers : reply'[h].runner \in Loops => pc'[reply'[h].runner] # "off"
  <2>1. \A h \in Answerers : reply[h].runner \in Loops => pc[reply[h].runner] # "off"
    BY DEF IInv, Ownership
  <2> QED BY <1>2, <1>3, <2>1
<1>14. Ownership' BY <1>10, <1>11, <1>12, <1>13 DEF Ownership, OwnershipOf
<1> QED BY <1>7, <1>10, <1>14 DEF CopyIsRunning, OwnershipOf

\* A commit of a known task, or of the task that is being added.
Commits(t, s, r) ==
  /\ Commit(t, s, r)
  /\ \/ t \in 1..born /\ born' = born
     \/ t = born + 1 /\ born' = born + 1

\* It decides that task's outcome and nobody else's, and keeps every record.
LEMMA CommitOutcome ==
  ASSUME IInv, NEW t \in Tasks, NEW s \in Statuses \ {"none"}, NEW r, Commits(t, s, r)
  PROVE  /\ Outcome(t)' = s /\ (s \notin Terminal => status'[t] = s)
         /\ \A u \in Tasks \ {t} : Outcome(u)' = Outcome(u)
         /\ \A u \in Tasks \ {t} : status[u] \in {"queued", "running", "blocked"}
                                     => status'[u] = status[u]
         /\ \A u \in Tasks : at'[u] = 0 <=> status'[u] = "none"
         /\ \A u \in Tasks : u > born' => at'[u] = 0
         /\ \A u \in 1..born' : at'[u] = 0 => rows'[u] > 0 /\ filed'[u] \in Terminal
<1>1. TypeOK /\ Records BY DEF IInv, TInv
<1>2. \A u \in Tasks : CommitMoves(t, s, u) BY <1>1, CommitFacts DEF Commits
<1>3. born \in Nat /\ born' \in Nat /\ t \in Nat /\ t <= born' /\ MaxTasks \in Nat
  BY <1>1, TaskQueueAssumption DEF TypeOK, Commits, Tasks
<1>4. \A u \in Tasks : u \in Nat /\ (u # t => (u > born <=> u > born'))
  BY <1>3 DEF Commits, Tasks
<1>5. /\ \A u \in Tasks : at[u] = 0 <=> status[u] = "none"
      /\ \A u \in Tasks : u > born => at[u] = 0
      /\ \A u \in Tasks : rows[u] \in Nat
  BY <1>1 DEF Records, TypeOK
<1>6. Outcome(t)' = s /\ (s \notin Terminal => status'[t] = s)
  <2>1. CommitMoves(t, s, t) BY <1>2
  <2> QED BY <1>3, <2>1 DEF CommitMoves, Outcome
<1>7. ASSUME NEW u \in Tasks \ {t}
      PROVE  /\ Outcome(u)' = Outcome(u)
             /\ status[u] \in {"queued", "running", "blocked"} => status'[u] = status[u]
  <2>1. CommitMoves(t, s, u) BY <1>2
  <2>2. u > born <=> u > born' BY <1>4
  <2>3. CASE u > born
    BY <2>2, <2>3, <2>1, <1>5 DEF Outcome, CommitMoves, Terminal
  <2>4. CASE ~(u > born)
    BY <2>2, <2>4, <2>1, <1>5 DEF Outcome, CommitMoves, Terminal
  <2> QED BY <2>3, <2>4
<1>8. \A u \in Tasks : at'[u] = 0 <=> status'[u] = "none"
  BY <1>2, <1>5 DEF CommitMoves, Terminal
<1>9. ASSUME NEW u \in Tasks, u > born' PROVE at'[u] = 0
  <2>1. u # t BY <1>3, <1>9
  <2>2. at[u] = 0 BY <1>4, <1>5, <1>9, <2>1
  <2> QED BY <1>2, <2>1, <2>2 DEF CommitMoves
<1>10. ASSUME NEW u \in 1..born', at'[u] = 0 PROVE rows'[u] > 0 /\ filed'[u] \in Terminal
  <2>1. born' <= MaxTasks
    BY <1>1, <1>3 DEF TypeOK, Commits, Tasks
  <2>2. u \in Tasks BY <1>3, <2>1 DEF Tasks
  <2>3. CommitMoves(t, s, u) /\ rows[u] \in Nat BY <1>2, <1>5, <2>2
  <2>4. CASE u = t \/ at[u] # 0 BY <1>10, <2>3, <2>4 DEF CommitMoves
  <2>5. CASE u # t /\ at[u] = 0
    <3>1. u \in 1..born BY <1>3, <2>5 DEF Commits
    <3>2. rows[u] > 0 /\ filed[u] \in Terminal BY <1>1, <2>5, <3>1 DEF Records
    <3> QED BY <2>3, <2>5, <3>2 DEF CommitMoves
  <2> QED BY <2>4, <2>5
<1> QED BY <1>6, <1>7, <1>8, <1>9, <1>10

\* A loop that is not at work on the committed task, or agrees with what is
\* committed, is not disturbed.
LEMMA CommitOther ==
  ASSUME IInv, NEW t \in Tasks, NEW s \in Statuses \ {"none"}, NEW r \in Loops \cup {Nobody},
         Commits(t, s, r), mutex' = mutex, NEW q \in Loops,
         pc'[q] = pc[q], cur'[q] = cur[q], mem'[q] = mem[q],
         Executing(q) /\ cur[q] = t => s = "running" /\ r = q,
         pc[q] \in {"release", "unlink", "file"} /\ mem[q] \in Terminal /\ cur[q] = t
           => s = mem[q]
  PROVE  OwnershipOf(q)'
<1>1. OwnershipOf(q) BY OwnershipEach
<1>2. mutex = Nobody /\ Nobody \notin Loops
  BY TaskQueueAssumption DEF Commits, Commit
<1>3. ~InMutex(q) BY <1>1, <1>2 DEF OwnershipOf
<1>4. CASE Idle(q) BY <1>2, <1>3, <1>4 DEF OwnershipOf, InMutex, Idle, Executing
<1>5. CASE ~Idle(q)
  <2>1. cur[q] \in 1..born /\ cur[q] \in Tasks BY <1>5, CurKnown DEF Idle, IInv
  <2>2. cur[q] \in 1..born' BY <2>1 DEF Commits, IInv, TInv, TypeOK
  <2>3. runner' = [runner EXCEPT ![t] = r] /\ runner \in [Tasks -> Loops \cup {Nobody}]
    BY DEF Commits, Commit, IInv, TInv, TypeOK
  <2>4. CASE cur[q] # t
    <3>1. /\ Outcome(cur[q])' = Outcome(cur[q])
          /\ status[cur[q]] = "running" => status'[cur[q]] = "running"
      BY <2>1, <2>4, CommitOutcome
    <3>2. runner'[cur[q]] = runner[cur[q]] BY <2>1, <2>3, <2>4
    <3> QED BY <1>1, <1>2, <1>3, <1>5, <2>2, <3>1, <3>2
        DEF OwnershipOf, InMutex, Idle, Executing
  <2>5. CASE cur[q] = t
    <3>1. Outcome(t)' = s /\ (s \notin Terminal => status'[t] = s) BY CommitOutcome
    <3>2. runner'[t] = r BY <2>3
    <3> QED BY <1>1, <1>2, <1>3, <1>5, <2>2, <2>5, <3>1, <3>2
        DEF OwnershipOf, InMutex, Idle, Executing, Terminal
  <2> QED BY <2>4, <2>5
<1> QED BY <1>4, <1>5

\* Nor are the records and the answerers.
LEMMA CommitAround ==
  ASSUME IInv, Known', NEW t \in Tasks, NEW s \in Statuses \ {"none"},
         NEW r \in Loops \cup {Nobody},
         Commits(t, s, r), r \in Loops => pc[r] # "off",
         \A q \in Loops : pc[q] # "off" => pc'[q] # "off",
         \A h \in Answerers : reply'[h] \in {reply[h], NoReply},
         \A h \in Answerers : reply'[h] # NoReply => reply[h].task # t,
         \A q \in Loops : OwnershipOf(q)'
  PROVE  Records' /\ Ownership' /\ CopyIsRunning'
<1>1. Records' BY CommitOutcome DEF Records, Known
<1>2. runner' = [runner EXCEPT ![t] = r] /\ runner \in [Tasks -> Loops \cup {Nobody}]
  BY DEF Commits, Commit, IInv, TInv, TypeOK
<1>3. ASSUME NEW h \in Answerers, reply'[h] # NoReply
      PROVE  reply'[h].task \in 1..born' /\ status'[reply'[h].task] = "blocked"
  <2>1. reply'[h] = reply[h] /\ reply[h] # NoReply /\ reply[h].task # t BY <1>3
  <2>2. reply[h].task \in 1..born /\ status[reply[h].task] = "blocked"
    BY <2>1 DEF IInv, Ownership
  <2>3. reply[h].task \in Tasks
    BY <2>2, TaskQueueAssumption DEF IInv, TInv, TypeOK, Tasks
  <2>4. status'[reply[h].task] = "blocked" BY <2>1, <2>2, <2>3, CommitOutcome
  <2>5. reply[h].task \in 1..born' BY <2>2 DEF Commits, IInv, TInv, TypeOK
  <2> QED BY <2>1, <2>4, <2>5
<1>4. ASSUME NEW u \in Tasks, runner'[u] \in Loops PROVE pc'[runner'[u]] # "off"
  <2>1. CASE u = t BY <1>2, <1>4, <2>1
  <2>2. CASE u # t
    <3>1. runner'[u] = runner[u] BY <1>2, <2>2
    <3>2. pc[runner[u]] # "off" BY <1>4, <3>1 DEF IInv, Ownership
    <3> QED BY <1>4, <3>1, <3>2
  <2> QED BY <2>1, <2>2
<1>5. ASSUME NEW h \in Answerers, reply'[h].runner \in Loops
      PROVE  pc'[reply'[h].runner] # "off"
  <2>1. CASE reply'[h] = NoReply BY <1>5, <2>1, TaskQueueAssumption DEF NoReply
  <2>2. CASE reply'[h] = reply[h] BY <1>5, <2>2 DEF IInv, Ownership
  <2> QED BY <2>1, <2>2
<1>6. Ownership' BY <1>3, <1>4, <1>5 DEF Ownership, OwnershipOf
<1> QED BY <1>1, <1>6 DEF CopyIsRunning, OwnershipOf

\* The executor's own commits.
LEMMA OwnCommits ==
  ASSUME IInv, Known', NEW p \in Loops, StepRuns(p) \/ StepEnds(p) \/ FileMemory(p)
  PROVE  Records' /\ Ownership' /\ CopyIsRunning'
<1>0. /\ cur[p] \in 1..born /\ cur[p] \in Tasks /\ born \in Nat
  <2>1. pc[p] \in {"work", "file"} BY DEF StepRuns, StepEnds, FileMemory, Goto
  <2>2. TInv /\ born \in Nat BY DEF IInv, TInv, TypeOK
  <2> QED BY <2>1, <2>2, CurKnown
<1>1. PICK t \in Tasks : t = cur[p] /\ t \in 1..born /\ born \in Nat
  BY <1>0
<1>2. /\ UNCHANGED <<born, mutex, reply>>
      /\ \A q \in Loops \ {p} : pc'[q] = pc[q] /\ cur'[q] = cur[q] /\ mem'[q] = mem[q]
      /\ \A q \in Loops : pc[q] # "off" => pc'[q] # "off"
      /\ cur' = cur
  BY DEF StepRuns, StepEnds, FileMemory, AfterFiling, Goto, loopVars, lockVars, IInv, TInv, TypeOK
<1>3. OwnershipOf(p) BY OwnershipEach
<1>4. mutex = Nobody /\ p # Nobody
  BY TaskQueueAssumption DEF StepRuns, StepEnds, FileMemory, Commit
<1>5. pc[p] # "off" BY DEF StepRuns, StepEnds, FileMemory, Goto
<1>6. CASE StepRuns(p) \/ StepEnds(p)
  <2>1. pc[p] = "work" BY <1>6 DEF StepRuns, StepEnds, Goto
  <2>2. status[t] = "running" /\ runner[t] = p BY <1>1, <1>3, <2>1 DEF OwnershipOf, Executing
  <2>3. Outcome(t) = "running"
    BY <1>1, <2>2 DEF Outcome, IInv, Records
  <2>4. ASSUME NEW q \in Loops, cur[q] = t, Executing(q) PROVE q = p
    <3>1. OwnershipOf(q) BY OwnershipEach
    <3> QED BY <2>2, <2>4, <3>1 DEF OwnershipOf
  <2>5. ASSUME NEW q \in Loops, cur[q] = t, pc[q] \in {"release", "unlink", "file"},
               mem[q] \in Terminal
        PROVE  FALSE
    <3>1. OwnershipOf(q) BY OwnershipEach
    <3> QED BY <2>3, <2>5, <3>1 DEF OwnershipOf, Terminal
  <2>6. \A h \in Answerers : reply'[h] # NoReply => reply[h].task # t
    BY <1>2, <2>2 DEF IInv, Ownership
  <2>7. CASE StepRuns(p)
    <3>1. Commits(t, "running", p) /\ "running" \in Statuses \ {"none"}
      BY <1>1, <1>2, <2>7 DEF StepRuns, Commits, Statuses
    <3>2. UNCHANGED <<pc, mem>> BY <2>7 DEF StepRuns, loopVars
    <3>3. ASSUME NEW q \in Loops PROVE OwnershipOf(q)'
      BY <1>1, <1>2, <2>4, <2>5, <3>1, <3>2, CommitOther
    <3> QED BY <1>1, <1>2, <1>5, <2>6, <3>1, <3>3, CommitAround
  <2>8. CASE StepEnds(p)
    <3>1. PICK s \in Terminal \cup {"blocked"} :
            Commit(t, s, p) /\ mem' = [mem EXCEPT ![p] = s]
      BY <1>1, <2>8 DEF StepEnds
    <3>2. Commits(t, s, p) /\ s \in Statuses \ {"none"}
      BY <1>1, <1>2, <3>1 DEF Commits, Statuses, Terminal
    <3>3. pc'[p] = "release" /\ mem'[p] = s
      BY <2>8, <3>1 DEF StepEnds, Goto, IInv, TInv, TypeOK
    <3>4. ASSUME NEW q \in Loops \ {p} PROVE OwnershipOf(q)'
      BY <1>1, <1>2, <2>4, <2>5, <3>2, CommitOther
    <3>5. OwnershipOf(p)'
      <4>1. Outcome(t)' = s BY <1>1, <3>2, CommitOutcome
      <4> QED BY <1>1, <1>2, <1>4, <3>3, <4>1 DEF OwnershipOf, InMutex, Executing, Idle
    <3>6. \A q \in Loops : OwnershipOf(q)' BY <3>4, <3>5
    <3> QED BY <1>1, <1>2, <1>5, <2>6, <3>2, <3>6, CommitAround
  <2> QED BY <1>6, <2>7, <2>8
<1>7. CASE FileMemory(p)
  <2>1. pc[p] = "file" /\ mem[p] \in Terminal BY <1>7 DEF FileMemory, Goto
  <2>2. Outcome(t) = mem[p] BY <1>1, <1>3, <2>1 DEF OwnershipOf
  <2>3. status[t] \notin {"queued", "running", "blocked"}
    BY <1>1, <2>1, <2>2 DEF Outcome, Terminal, IInv, Records
  <2>4. Commits(t, mem[p], p) /\ mem[p] \in Statuses \ {"none"}
    BY <1>1, <1>2, <1>7, <2>1 DEF FileMemory, Commits, Statuses, Terminal
  <2>5. ASSUME NEW q \in Loops, cur[q] = t PROVE ~Executing(q)
    <3>1. OwnershipOf(q) BY OwnershipEach
    <3> QED BY <2>3, <2>5, <3>1 DEF OwnershipOf
  <2>6. ASSUME NEW q \in Loops, cur[q] = t, pc[q] \in {"release", "unlink", "file"},
               mem[q] \in Terminal
        PROVE  mem[q] = mem[p]
    <3>1. OwnershipOf(q) BY OwnershipEach
    <3> QED BY <2>2, <2>6, <3>1 DEF OwnershipOf
  <2>7. \A h \in Answerers : reply'[h] # NoReply => reply[h].task # t
    BY <1>2, <2>3 DEF IInv, Ownership
  <2>8. pc'[p] \in {"chain", "retry"}
    BY <1>7 DEF FileMemory, AfterFiling, Goto, IInv, TInv, TypeOK
  <2>9. OwnershipOf(p)'
    BY <1>1, <1>2, <1>4, <2>8 DEF OwnershipOf, InMutex, Executing, Idle
  <2>10. ASSUME NEW q \in Loops \ {p} PROVE OwnershipOf(q)'
    BY <1>1, <1>2, <2>4, <2>5, <2>6, CommitOther
  <2>11. \A q \in Loops : OwnershipOf(q)' BY <2>9, <2>10
  <2> QED BY <1>1, <1>2, <1>5, <2>4, <2>7, <2>11, CommitAround
<1> QED BY <1>6, <1>7

\* Adding a task disturbs no other.
LEMMA OwnAdds ==
  ASSUME IInv, Known', NEW c \in Courses \cup {NoCourse}, NEW r \in Roles, NEW n \in Nat,
         NEW l \in Nat, NEW k \in Nat, AddTask(c, r, n, l, k),
         UNCHANGED <<mutex, reply>>,
         \A q \in Loops : \/ pc'[q] = pc[q] /\ cur'[q] = cur[q] /\ mem'[q] = mem[q]
                          \/ pc'[q] \in {"idle", "reflect"} /\ cur'[q] \in Tasks \cup {NoTask}
                             /\ (pc'[q] = "reflect" => cur'[q] \in 1..born)
  PROVE  Records' /\ Ownership' /\ CopyIsRunning'
<1> DEFINE t == born + 1
<1>1. t \in Tasks /\ born' = t /\ Commit(t, "queued", Nobody) BY AddFacts DEF IInv
<1>2. Commits(t, "queued", Nobody) /\ "queued" \in Statuses \ {"none"} /\ born \in Nat
  BY <1>1 DEF Commits, Statuses, IInv, TInv, TypeOK
<1>3. t \notin 1..born BY <1>2
<1>4. mutex = Nobody /\ Nobody \notin Loops BY <1>1, TaskQueueAssumption DEF Commit
<1>5. \A x \in 1..born : x \in 1..born' BY <1>1, <1>2
<1> HIDE DEF t
<1>6. ASSUME NEW q \in Loops PROVE OwnershipOf(q)'
  <2>1. CASE pc'[q] = pc[q] /\ cur'[q] = cur[q] /\ mem'[q] = mem[q]
    <3>1. ~Idle(q) => cur[q] # t BY <1>3 DEF IInv, Ownership
    <3>2. Executing(q) \/ pc[q] \in {"release", "unlink", "file"} => ~Idle(q)
      BY DEF Executing, Idle
    <3> QED BY <1>1, <1>2, <2>1, <3>1, <3>2, CommitOther
  <2>2. CASE pc'[q] \in {"idle", "reflect"} /\ (pc'[q] = "reflect" => cur'[q] \in 1..born)
    BY <1>4, <1>5, <2>2 DEF OwnershipOf, InMutex, Executing, Idle
  <2> QED BY <2>1, <2>2
<1>7. \A h \in Answerers : reply'[h] # NoReply => reply[h].task # t
  BY <1>3 DEF IInv, Ownership
<1> QED BY <1>1, <1>2, <1>4, <1>6, <1>7, CommitAround

LEMMA OwnOwner ==
  ASSUME IInv, Known', OwnerAdds PROVE Records' /\ Ownership' /\ CopyIsRunning'
<1>1. PICK c \in Courses \cup {NoCourse}, r \in OwnerRoles, l \in Limits :
        AddTask(c, r, 1, 0, l)
  BY DEF OwnerAdds, NoTask
<1>2. r \in Roles /\ l \in Nat /\ 1 \in Nat /\ 0 \in Nat BY TaskQueueAssumption
<1>3. UNCHANGED <<mutex, reply, pc, cur, mem>> BY DEF OwnerAdds, lockVars, loopVars
<1> QED BY <1>1, <1>2, <1>3, OwnAdds

LEMMA OwnFollows ==
  ASSUME IInv, Known', NEW p \in Loops,
         ChainAdds(p) \/ ReflectAdds(p) \/ RetryAdds(p)
  PROVE  Records' /\ Ownership' /\ CopyIsRunning'
<1>1. TInv BY DEF IInv
<1>2. pc \in [Loops -> Points] /\ cur \in [Loops -> Tasks \cup {NoTask}]
      /\ mem \in [Loops -> Statuses]
  BY <1>1 DEF TInv, TypeOK
<1>3. 1 \in Nat /\ 0 \in Nat OBVIOUS
<1>5. CASE ChainAdds(p)
  <2>1. pc[p] = "chain" /\ pc' = [pc EXCEPT ![p] = "reflect"] /\ UNCHANGED <<mutex, reply, cur, mem>>
    BY <1>5 DEF ChainAdds, Goto, lockVars
  <2>2. cur[p] \in 1..born /\ cur[p] \in Tasks /\ info[cur[p]] \in TaskInfo
    BY <1>1, <2>1, CurKnown
  <2>3. AddTask(info[cur[p]].course, Chain[info[cur[p]].role], 1, 0, 0)
        /\ Chain[info[cur[p]].role] # NoRole
    BY <1>5 DEF ChainAdds, NoTask
  <2>4. info[cur[p]].course \in Courses \cup {NoCourse} /\ Chain[info[cur[p]].role] \in Roles
    <3>1. cur[p] <= born /\ info[cur[p]].role \in Roles
      BY <1>1, <2>2 DEF TInv, Known, TypeOK
    <3>2. Chain[info[cur[p]].role] \in Roles
      BY <2>3, <3>1, TaskQueueAssumption
    <3> QED BY <2>2, <3>2 DEF TaskInfo
  <2>5. \A q \in Loops : \/ pc'[q] = pc[q] /\ cur'[q] = cur[q] /\ mem'[q] = mem[q]
                         \/ pc'[q] \in {"idle", "reflect"} /\ cur'[q] \in Tasks \cup {NoTask}
                            /\ (pc'[q] = "reflect" => cur'[q] \in 1..born)
    BY <1>2, <2>1, <2>2
  <2> QED BY <1>3, <2>1, <2>3, <2>4, <2>5, OwnAdds
<1>6. CASE ReflectAdds(p) \/ RetryAdds(p)
  <2>1. /\ pc[p] \in {"reflect", "retry"} /\ pc' = [pc EXCEPT ![p] = "idle"]
        /\ cur' = [cur EXCEPT ![p] = NoTask] /\ mem' = [mem EXCEPT ![p] = "none"]
        /\ UNCHANGED <<mutex, reply>>
    BY <1>6 DEF ReflectAdds, RetryAdds, Goto, Forgotten, lockVars
  <2>2. cur[p] \in 1..born /\ cur[p] \in Tasks /\ info[cur[p]] \in TaskInfo
    BY <1>1, <2>1, CurKnown
  <2>3. /\ info[cur[p]].course \in Courses \cup {NoCourse}
        /\ info[cur[p]].role \in Roles
        /\ info[cur[p]].attempt + 1 \in Nat /\ info[cur[p]].lineage \in Nat
        /\ info[cur[p]].limit \in Nat
    <3>1. cur[p] <= born /\ info[cur[p]].role \in Roles
      BY <1>1, <2>2 DEF TInv, Known, TypeOK
    <3> QED BY <2>2, <3>1 DEF TaskInfo
  <2>4. \A q \in Loops : \/ pc'[q] = pc[q] /\ cur'[q] = cur[q] /\ mem'[q] = mem[q]
                         \/ pc'[q] \in {"idle", "reflect"} /\ cur'[q] \in Tasks \cup {NoTask}
                            /\ (pc'[q] = "reflect" => cur'[q] \in 1..born)
    BY <1>2, <2>1
  <2>5. CASE ReflectAdds(p)
    <3>1. AddTask(info[cur[p]].course, Reflector, 1, 0, 0) /\ Reflector \in Roles
      BY <2>5, TaskQueueAssumption DEF ReflectAdds, NoTask
    <3> QED BY <1>3, <2>1, <2>3, <2>4, <3>1, OwnAdds
  <2>6. CASE RetryAdds(p)
    <3>1. AddTask(info[cur[p]].course, info[cur[p]].role, info[cur[p]].attempt + 1,
                  info[cur[p]].lineage, info[cur[p]].limit)
      BY <2>6 DEF RetryAdds
    <3> QED BY <2>1, <2>3, <2>4, <3>1, OwnAdds
  <2> QED BY <1>6, <2>5, <2>6
<1> QED BY <1>5, <1>6

\* The human: with one answerer, the blocked task it has read stays blocked.
LEMMA OwnAnswers ==
  ASSUME Fleet, IInv, Known', NEW h \in Answerers, AnswerReads(h) \/ AnswerCommits(h)
  PROVE  Records' /\ Ownership' /\ CopyIsRunning'
<1>1. CASE AnswerReads(h)
  <2>1. PICK t \in Tasks :
          /\ status[t] = "blocked"
          /\ reply' = [reply EXCEPT ![h] = [task |-> t, runner |-> runner[t]]]
    BY <1>1 DEF AnswerReads
  <2>2. UNCHANGED <<fileVars, lockVars, loopVars>> BY <1>1 DEF AnswerReads
  <2>3. t \in 1..born BY <2>1 DEF IInv, TInv, TypeOK, Known, Tasks
  <2>4. \A q \in Loops : OwnershipOf(q)'
    <3>1. \A q \in Loops : OwnershipOf(q) BY OwnershipEach
    <3> QED BY <2>2, <3>1 DEF OwnershipOf, InMutex, Idle, Decidable, Dead, Executing, Outcome,
              fileVars, lockVars, loopVars
  <2>5. Records' BY <2>2 DEF IInv, Records, fileVars, loopVars
  <2>6. reply \in [Answerers -> [task : Tasks \cup {NoTask}, runner : Loops \cup {Nobody}]]
    BY DEF IInv, TInv, TypeOK
  <2>7. ASSUME NEW i \in Answerers
        PROVE  /\ reply'[i] # NoReply =>
                    reply'[i].task \in 1..born' /\ status'[reply'[i].task] = "blocked"
               /\ reply'[i].runner \in Loops => pc'[reply'[i].runner] # "off"
    <3>1. CASE i = h
      <4>1. reply'[i] = [task |-> t, runner |-> runner[t]] BY <2>1, <2>6, <3>1
      <4>2. runner[t] \in Loops => pc[runner[t]] # "off" BY DEF IInv, Ownership
      <4> QED BY <2>1, <2>2, <2>3, <4>1, <4>2 DEF fileVars, loopVars
    <3>2. CASE i # h
      <4>1. reply'[i] = reply[i] BY <2>1, <2>6, <3>2
      <4> QED BY <2>2, <4>1 DEF IInv, Ownership, fileVars, loopVars
    <3> QED BY <3>1, <3>2
  <2>8. \A u \in Tasks : runner'[u] \in Loops => pc'[runner'[u]] # "off"
    BY <2>2 DEF IInv, Ownership, fileVars, loopVars
  <2>9. Ownership' BY <2>4, <2>7, <2>8 DEF Ownership, OwnershipOf
  <2> QED BY <2>4, <2>5, <2>9 DEF CopyIsRunning, OwnershipOf
<1>2. CASE AnswerCommits(h)
  <2>1. reply[h].task \in 1..born /\ status[reply[h].task] = "blocked"
    BY <1>2 DEF AnswerCommits, IInv, Ownership
  <2>2. PICK t \in 1..born : t = reply[h].task BY <2>1
  <2>3. t \in Tasks /\ born \in Nat
    BY TaskQueueAssumption DEF IInv, TInv, TypeOK, Tasks
  <2>4. PICK r \in Loops \cup {Nobody} : r = reply[h].runner
    BY DEF IInv, TInv, TypeOK
  <2>5. /\ Commits(t, "queued", r) /\ "queued" \in Statuses \ {"none"}
        /\ reply' = [reply EXCEPT ![h] = NoReply]
        /\ UNCHANGED <<mutex, pc, cur, mem>>
    BY <1>2, <2>2, <2>4 DEF AnswerCommits, Commits, Statuses, lockVars, loopVars
  <2>6. status[t] = "blocked" /\ Outcome(t) = "blocked"
    BY <2>1, <2>2, <2>3 DEF Outcome, IInv, Records
  <2>7. ASSUME NEW q \in Loops PROVE OwnershipOf(q)'
    <3>1. OwnershipOf(q) BY OwnershipEach
    <3>2. Executing(q) => cur[q] # t BY <2>6, <3>1 DEF OwnershipOf
    <3>3. pc[q] \in {"release", "unlink", "file"} /\ mem[q] \in Terminal => cur[q] # t
      BY <2>6, <3>1 DEF OwnershipOf, Terminal
    <3> QED BY <2>3, <2>5, <3>2, <3>3, CommitOther
  <2>8. \A i \in Answerers : reply'[i] = NoReply
    BY <2>5 DEF Fleet, IInv, TInv, TypeOK
  <2>9. r \in Loops => pc[r] # "off" BY <2>4 DEF IInv, Ownership
  <2> QED BY <2>3, <2>5, <2>7, <2>8, <2>9, CommitAround
<1> QED BY <1>1, <1>2

\* Signals, the watchdog, the clock, a loop that starts.
LEMMA OwnAround ==
  ASSUME IInv, Known',
         \/ \E p \in Loops : Start(p) \/ Signal(p) \/ WatchdogTick(p)
         \/ \E c \in Courses : LockAges(c)
         \/ \E t \in Tasks : LeaseLapses(t)
         \/ UNCHANGED vars
  PROVE  Records' /\ Ownership' /\ CopyIsRunning'
<1>1. ASSUME NEW p \in Loops, Start(p) PROVE Records' /\ Ownership' /\ CopyIsRunning'
  <2>1. OwnershipOf(p) BY OwnershipEach
  <2>2. /\ pc[p] = "off" /\ pc' = [pc EXCEPT ![p] = "idle"] /\ pc \in [Loops -> Points]
        /\ UNCHANGED <<fileVars, reply, mutex, cur, mem>>
    BY <1>1 DEF Start, Goto, lockVars, IInv, TInv, TypeOK
  <2>3. OwnershipOf(p)'
    BY <2>1, <2>2 DEF OwnershipOf, InMutex, Idle, Executing
  <2>4. Dead(p) => Dead(p)' BY <2>2 DEF Dead
  <2> QED BY <2>2, <2>3, <2>4, OwnFrame
<1>2. ASSUME UNCHANGED <<born, info, at, appends, status, runner, rows, filed,
                         mutex, pc, cur, mem, todo, reply>>
      PROVE  Records' /\ Ownership' /\ CopyIsRunning'
  BY <1>2 DEF IInv, Records, Ownership, CopyIsRunning, Outcome, Decidable, Dead, InMutex,
              Executing, Idle
<1>3. ASSUME NEW p \in Loops, Signal(p) \/ WatchdogTick(p)
      PROVE  Records' /\ Ownership' /\ CopyIsRunning'
  BY <1>2, <1>3 DEF Signal, WatchdogTick, fileVars, lockVars, loopVars
<1>4. ASSUME NEW c \in Courses, LockAges(c) PROVE Records' /\ Ownership' /\ CopyIsRunning'
  BY <1>2, <1>4 DEF LockAges, fileVars, lockVars, loopVars
<1>5. ASSUME NEW t \in Tasks, LeaseLapses(t) PROVE Records' /\ Ownership' /\ CopyIsRunning'
  BY <1>2, <1>5 DEF LeaseLapses, fileVars, lockVars, loopVars
<1>6. CASE UNCHANGED vars BY <1>2, <1>6 DEF vars, fileVars, lockVars, loopVars
<1> QED BY <1>1, <1>3, <1>4, <1>5, <1>6

\* A loop killed between the archive and the queue has archived nothing that
\* changes an outcome.
LEMMA TrimCrashOutcome ==
  ASSUME IInv, NEW p \in Loops, CrashInTrim(p)
  PROVE  /\ \A u \in Tasks : Outcome(u)' = Outcome(u)
         /\ \A u \in 1..born : at[u] = 0 => rows'[u] > 0 /\ filed'[u] \in Terminal
<1>0. TInv /\ TypeOK /\ Records /\ OwnershipOf(p)
  BY OwnershipEach DEF IInv, TInv
<1>1. PICK s \in Terminal :
        /\ pc[p] = "work" \/ (pc[p] = "file" /\ mem[p] = s)
        /\ Archive(Trimmed([status EXCEPT ![cur[p]] = s], Placed(cur[p])),
                   [status EXCEPT ![cur[p]] = s])
  BY DEF CrashInTrim
<1>2. cur[p] \in 1..born /\ cur[p] \in Tasks BY <1>0, <1>1, CurKnown
<1>3. PICK t \in Tasks : t = cur[p] /\ t \in 1..born BY <1>2
<1> DEFINE st == [status EXCEPT ![t] = s]
           drop == Trimmed(st, Placed(t))
<1>4. Archive(drop, st) BY <1>1, <1>3
<1>5. \A u \in drop : u \in Tasks /\ Placed(t)[u] # 0 /\ st[u] \in Terminal
  BY TrimmedFinished
<1>6. \A u \in Tasks : Placed(t)[u] # 0 <=> (u = t \/ at[u] # 0) BY <1>0, PlacedType
<1>7. \A u \in Tasks : st[u] = IF u = t THEN s ELSE status[u] BY <1>0 DEF TypeOK
<1> HIDE DEF st, drop
<1>8. UNCHANGED <<born, at, status>> BY DEF CrashInTrim
<1>9. born \in Nat /\ MaxTasks \in Nat /\ born <= MaxTasks
  BY <1>0, TaskQueueAssumption DEF TypeOK
<1>10. ASSUME NEW u \in 1..born, at[u] = 0
       PROVE  /\ filed'[u] = filed[u]
              /\ rows'[u] > 0 /\ filed'[u] \in Terminal
  <2>1. u \in Tasks BY <1>9 DEF Tasks
  <2>2. rows[u] > 0 /\ rows[u] \in Nat /\ filed[u] \in Terminal
    BY <1>0, <1>10, <2>1 DEF Records, TypeOK
  <2>3. /\ rows'[u] = IF u \in drop THEN rows[u] + 1 ELSE rows[u]
        /\ filed'[u] = IF u \in drop THEN st[u] ELSE filed[u]
    BY <1>4, <2>1 DEF Archive
  <2>4. CASE u \notin drop BY <2>2, <2>3, <2>4
  <2>5. CASE u \in drop
    <3>1. u = t BY <1>5, <1>6, <1>10, <2>5
    <3>2. st[u] = s BY <1>7, <3>1
    <3>3. pc[p] = "file" /\ mem[p] = s
      <4>1. SUFFICES ASSUME pc[p] = "work" PROVE FALSE BY <1>1
      <4>2. status[t] = "running" BY <1>0, <1>3, <4>1 DEF OwnershipOf, Executing
      <4> QED BY <1>0, <1>10, <3>1, <4>2 DEF Records
    <3>4. Outcome(t) = s BY <1>0, <1>3, <3>3 DEF OwnershipOf
    <3>5. filed[u] = s BY <1>3, <1>9, <1>10, <3>1, <3>4 DEF Outcome
    <3> QED BY <2>2, <2>3, <2>5, <3>2, <3>5
  <2> QED BY <2>4, <2>5
<1>11. ASSUME NEW u \in Tasks PROVE Outcome(u)' = Outcome(u)
  <2>1. CASE u > born BY <1>8, <2>1 DEF Outcome
  <2>2. CASE ~(u > born) /\ at[u] # 0 BY <1>8, <2>2 DEF Outcome
  <2>3. CASE ~(u > born) /\ at[u] = 0
    <3>1. u \in 1..born BY <1>9, <2>3 DEF Tasks
    <3>2. filed'[u] = filed[u] BY <1>10, <2>3, <3>1
    <3> QED BY <1>8, <2>3, <3>2 DEF Outcome
  <2> QED BY <2>1, <2>2, <2>3
<1> QED BY <1>10, <1>11

LEMMA OwnDies ==
  ASSUME IInv, Known', NEW p \in Loops, Ends(p)
  PROVE  Records' /\ Ownership' /\ CopyIsRunning'
<1>0. pc[p] \notin {"check", "break", "save", "take"} => mutex # p
  BY OwnershipEach DEF OwnershipOf, InMutex
<1>1. /\ pc[p] \notin {"off", "gone", "raised"}
      /\ pc' = [pc EXCEPT ![p] = "gone"] \/ pc' = [pc EXCEPT ![p] = "raised"]
      /\ pc \in [Loops -> Points] /\ cur \in [Loops -> Tasks \cup {NoTask}]
      /\ mem \in [Loops -> Statuses]
      /\ mutex' = IF mutex = p THEN Nobody ELSE mutex
      /\ cur' = [cur EXCEPT ![p] = NoTask] /\ mem' = [mem EXCEPT ![p] = "none"]
      /\ UNCHANGED <<born, at, status, runner, reply>>
  <2>1. CASE Crash(p) \/ CrashInTrim(p)
    BY <2>1 DEF Crash, CrashInTrim, Dies, Alive, Forgotten, fileVars, IInv, TInv, TypeOK
  <2>2. CASE CommitRaises(p) \/ ScanRaises(p)
    BY <1>0, <2>2 DEF CommitRaises, ScanRaises, Raised, Forgotten, fileVars, lockVars, IInv, TInv, TypeOK
  <2> QED BY <2>1, <2>2 DEF Ends
<1>2. Nobody \notin Loops BY TaskQueueAssumption
<1>3. OwnershipOf(p)'
  BY <1>1, <1>2 DEF OwnershipOf, InMutex, Idle, Executing
<1>4. CASE Crash(p) \/ CommitRaises(p) \/ ScanRaises(p)
  <2>1. UNCHANGED <<fileVars, reply>> BY <1>1, <1>4 DEF Crash, CommitRaises, ScanRaises, Raised
  <2> QED BY <1>1, <1>2, <1>3, <2>1, OwnFrame DEF Dead
<1>5. CASE CrashInTrim(p)
  <2>1. \A u \in Tasks : Outcome(u)' = Outcome(u) BY <1>5, TrimCrashOutcome
  <2>2. \A u \in 1..born : at[u] = 0 => rows'[u] > 0 /\ filed'[u] \in Terminal
    BY <1>5, TrimCrashOutcome
  <2>3. Records' BY <1>1, <2>2 DEF IInv, Records, Known
  <2>4. ASSUME NEW q \in Loops, q # p PROVE OwnershipOf(q)'
    <3>1. OwnershipOf(q) BY OwnershipEach
    <3>2. pc'[q] = pc[q] /\ cur'[q] = cur[q] /\ mem'[q] = mem[q] BY <1>1, <2>4
    <3>3. mutex = Nobody BY <1>5 DEF CrashInTrim
    <3>4. ~InMutex(q) BY <1>2, <3>1, <3>3 DEF OwnershipOf
    <3>5. mutex' = Nobody BY <1>1, <3>3
    <3>6. CASE Idle(q)
      BY <1>2, <3>2, <3>4, <3>5, <3>6 DEF OwnershipOf, InMutex, Idle, Executing
    <3>7. CASE ~Idle(q)
      <4>1. cur[q] \in Tasks BY <3>7, CurKnown DEF Idle, IInv
      <4>2. Outcome(cur[q])' = Outcome(cur[q])
        <5>1. PICK t \in Tasks : t = cur[q] BY <4>1
        <5>2. Outcome(t)' = Outcome(t) BY <2>1
        <5> QED BY <3>2, <5>1, <5>2 DEF Outcome
      <4> QED BY <1>1, <1>2, <3>1, <3>2, <3>4, <3>5, <3>7, <4>2
          DEF OwnershipOf, InMutex, Idle, Executing
    <3> QED BY <3>6, <3>7
  <2>5. \A q \in Loops : OwnershipOf(q)' BY <1>3, <2>4
  <2>6. \A q \in Loops : pc[q] # "off" => pc'[q] # "off" BY <1>1
  <2>7. Ownership' BY <1>1, <2>5, <2>6 DEF IInv, Ownership, OwnershipOf
  <2> QED BY <2>3, <2>5, <2>7 DEF CopyIsRunning, OwnershipOf
<1> QED BY <1>4, <1>5 DEF Ends

\* Nobody comes back from the dead.
LEMMA DeadStays ==
  ASSUME IInv, [Next]_vars, NEW q \in Loops, Dead(q) PROVE Dead(q)'
<1> USE DEF Dead
<1>1. pc \in [Loops -> Points] BY DEF IInv, TInv, TypeOK
<1>2. ASSUME NEW p \in Loops, LoopStep(p) \/ Start(p) \/ Signal(p) \/ WatchdogTick(p) PROVE Dead(q)'
  <2>1. pc' = pc \/ \E x : pc[p] \notin {"gone", "raised"} /\ pc' = [pc EXCEPT ![p] = x]
    <3>1. CASE \/ ShutDown(p) \/ HoldDrains(p) \/ SelectResumable(p) \/ SelectQueued(p)
               \/ ScanFree(p) \/ ScanHeld(p) \/ ScanStale(p) \/ ScanEmpty(p)
               \/ ScanBreak(p) \/ ScanBreakRaises(p)
               \/ BeginClaim(p) \/ BeginAdopt(p) \/ ClaimLost(p) \/ AdoptLost(p)
               \/ CheckFree(p) \/ CheckHeld(p) \/ CheckStale(p)
      BY <3>1, Zenon DEF Goto, ShutDown, HoldDrains, SelectResumable, SelectQueued, ScanFree, ScanHeld,
         ScanStale, ScanEmpty, ScanBreak, ScanBreakRaises, BeginClaim, BeginAdopt, ClaimLost,
         AdoptLost, CheckFree, CheckHeld, CheckStale
    <3>2. CASE \/ ClaimBreak(p) \/ ClaimBreakRaises(p) \/ Save(p) \/ TakeLock(p)
               \/ StepRuns(p) \/ StepEnds(p) \/ BreakOff(p)
               \/ ReleaseOwned(p) \/ ReleaseOther(p) \/ Unlink(p)
      BY <3>2, Zenon DEF Goto, ClaimBreak, ClaimBreakRaises, Save, TakeLock, StepRuns, StepEnds, BreakOff,
         ReleaseOwned, ReleaseOther, Unlink, loopVars
    <3>3. CASE \/ FileMemory(p) \/ FileUnscored(p) \/ FileNothing(p) \/ ChainAdds(p) \/ ChainEnds(p)
               \/ ReflectAdds(p) \/ ReflectSkips(p) \/ RetryAdds(p) \/ RetryGivesUp(p)
               \/ Start(p) \/ Signal(p) \/ WatchdogTick(p)
      BY <3>3, Zenon DEF Goto, FileMemory, FileUnscored, FileNothing, ChainAdds, ChainEnds, ReflectAdds,
         ReflectSkips, RetryAdds, RetryGivesUp, Start, Signal, WatchdogTick
    <3> QED BY <1>2, <3>1, <3>2, <3>3 DEF LoopStep
  <2> QED BY <1>1, <2>1
<1>3. ASSUME NEW p \in Loops, Ends(p) PROVE Dead(q)'
  BY <1>1, <1>3 DEF Ends, Crash, CrashInTrim, CommitRaises, ScanRaises, Dies, Raised
<1> QED
  BY <1>2, <1>3 DEF Next, vars, loopVars, AnswerReads, AnswerCommits, LockAges, LeaseLapses, OwnerAdds

\* A lease lapses of itself; a commit and a claim renew it.
LEMMA LapsedStep ==
  ASSUME IInv, [Next]_vars, [LeasesKept]_vars PROVE LapsedDead'
<1> SUFFICES ASSUME NEW u \in lapsed', status'[u] = "running", NEW q \in Loops, runner'[u] = q
             PROVE  Dead(q)'
  BY DEF LapsedDead, Dead
<1>t. /\ lapsed \subseteq Tasks /\ runner \in [Tasks -> Loops \cup {Nobody}]
      /\ status \in [Tasks -> Statuses] /\ TypeOK /\ TInv
  BY DEF IInv, TInv, TypeOK
<1>1. ASSUME u \in lapsed, status[u] = "running", runner'[u] = runner[u] PROVE Dead(q)'
  <2>1. Dead(q) BY <1>1 DEF IInv, LapsedDead
  <2> QED BY <2>1, DeadStays
<1>2. ASSUME u \notin lapsed, runner'[u] = runner[u] PROVE Dead(q)'
  <2>1. LeasesKept BY <1>2 DEF vars, fileVars
  <2>2. Dead(q) BY <1>2, <2>1 DEF LeasesKept
  <2> QED BY <2>2, DeadStays
<1>3. CASE UNCHANGED <<born, at, status, runner, lapsed, rows>> BY <1>1, <1>3
<1>4. CASE \E t \in Tasks, s \in Statuses \ {"none"}, r \in Loops \cup {Nobody} :
             Commit(t, s, r) /\ (born' = born \/ (born' = born + 1 /\ t = born + 1))
  <2>1. PICK t \in Tasks, s \in Statuses \ {"none"}, r \in Loops \cup {Nobody} : Commit(t, s, r)
    BY <1>4
  <2>2. lapsed' = lapsed \ {t} /\ runner' = [runner EXCEPT ![t] = r] BY <1>t, <2>1, CommitFacts
  <2>3. u # t /\ u \in lapsed /\ u \in Tasks BY <1>t, <2>2
  <2>4. CommitMoves(t, s, u) BY <1>t, <2>1, <2>3, CommitFacts
  <2>5. status[u] = "running" BY <2>3, <2>4 DEF CommitMoves
  <2>6. runner'[u] = runner[u] BY <1>t, <2>2, <2>3
  <2> QED BY <1>1, <2>3, <2>5, <2>6
<1>5. ASSUME NEW p \in Loops, Save(p) PROVE Dead(q)'
  <2>1. lapsed' = lapsed \ {cur[p]} /\ runner' = [runner EXCEPT ![cur[p]] = p]
        /\ status' = [status EXCEPT ![cur[p]] = "running"]
    BY <1>5 DEF Save
  <2>2. u # cur[p] /\ u \in lapsed /\ u \in Tasks BY <1>t, <2>1
  <2>3. status[u] = "running" /\ runner'[u] = runner[u] BY <1>t, <2>1, <2>2
  <2> QED BY <1>1, <2>2, <2>3
<1>6. ASSUME NEW p \in Loops, CrashInTrim(p) PROVE Dead(q)'
  BY <1>1, <1>6 DEF CrashInTrim
<1>7. ASSUME NEW t \in Tasks, LeaseLapses(t) PROVE Dead(q)'
  <2>1. status' = status /\ runner' = runner BY <1>7 DEF LeaseLapses
  <2> QED BY <1>1, <1>2, <2>1
<1> QED BY <1>t, <1>3, <1>4, <1>5, <1>6, <1>7, FileMoves

LEMMA IInvNext == ASSUME Fleet PROVE IInv /\ [Next]_vars /\ [LeasesKept]_vars => IInv'
<1> SUFFICES ASSUME IInv, [Next]_vars, [LeasesKept]_vars PROVE IInv'
  OBVIOUS
<1>1. TInv' BY TInvNext DEF IInv
<1>2. Known' BY <1>1 DEF TInv
<1>3. SUFFICES Records' /\ Ownership' /\ CopyIsRunning' BY <1>1, LapsedStep DEF IInv
<1>4. CASE UNCHANGED vars BY <1>2, <1>4, OwnAround
<1>5. ASSUME NEW p \in Loops, LoopStep(p) PROVE Records' /\ Ownership' /\ CopyIsRunning'
  BY <1>2, <1>5, OwnSelect, OwnClaim, OwnAdopt, <1>1, OwnSave, OwnCommits, OwnAfter, OwnFollows
     DEF LoopStep
<1>6. ASSUME NEW p \in Loops, Ends(p)
      PROVE  Records' /\ Ownership' /\ CopyIsRunning'
  BY <1>2, <1>6, OwnDies
<1>7. ASSUME NEW h \in Answerers, AnswerReads(h) \/ AnswerCommits(h)
      PROVE  Records' /\ Ownership' /\ CopyIsRunning'
  BY <1>2, <1>7, OwnAnswers
<1> QED BY <1>2, <1>4, <1>5, <1>6, <1>7, OwnAround, OwnOwner DEF Next

\* The records of state.json and of the archive, and who may decide about a
\* task, at every point of the code.
THEOREM OwnershipHolds == ASSUME Fleet PROVE Spec /\ [][LeasesKept]_vars => [](Ownership /\ Records)
<1>1. IInv => Ownership /\ Records BY DEF IInv
<1>2. IInv /\ [Next]_vars /\ [LeasesKept]_vars => IInv' BY IInvNext
<1> QED BY <1>1, <1>2, IInvInit, PTL DEF Spec

\* claim_task, adopt_task and _may_resume: a task has one executor, however
\* many loops drain the queue, stop and die.
THEOREM OneExecutorHolds == ASSUME Fleet PROVE Spec /\ [][LeasesKept]_vars => []OneExecutor
<1>1. IInv => OneExecutor
  <2> SUFFICES ASSUME IInv, NEW p \in Loops, NEW q \in Loops, NEW t \in Tasks,
                      Working(p, t), Working(q, t)
               PROVE  p = q
    BY DEF OneExecutor
  <2>1. OwnershipOf(p) /\ OwnershipOf(q) BY OwnershipEach
  <2> QED BY <2>1 DEF OwnershipOf, Working, Executing
<1>2. IInv /\ [Next]_vars /\ [LeasesKept]_vars => IInv' BY IInvNext
<1> QED BY <1>1, <1>2, IInvInit, PTL DEF Spec

-----------------------------------------------------------------------------
(* The queue implements the ledger *)

\* What the ledger sees of the queue.
SameLife == \A t \in Tasks : Outcome(t)' = Outcome(t)
SameExecutors ==
  \A q \in Loops : (Executing(q)' <=> Executing(q)) /\ (Executing(q) => cur'[q] = cur[q])

LedgerStep == [Ledger!Next]_(Ledger!vars)

LEMMA LedgerStutters == ASSUME SameLife, SameExecutors PROVE LedgerStep
<1>1. [t \in Tasks |-> Outcome(t)]' = [t \in Tasks |-> Outcome(t)]
  BY DEF SameLife
<1>2. [t \in Tasks |-> {q \in Loops : pc[q] \in {"take", "work"} /\ cur[q] = t}]'
        = [t \in Tasks |-> {q \in Loops : pc[q] \in {"take", "work"} /\ cur[q] = t}]
  BY DEF SameExecutors, Executing
<1> QED BY <1>1, <1>2 DEF LedgerStep, Ledger!vars

\* A step that moves one task and its executors is a step of the ledger.
LedgerMoves(t, x) ==
  /\ Outcome(t)' = x
  /\ \A u \in Tasks \ {t} : Outcome(u)' = Outcome(u)
\* The executors of t become those of E, the others keep theirs.
LedgerExecutes(t, E) ==
  /\ \A q \in Loops : Executing(q)' /\ cur'[q] = t <=> q \in E
  /\ \A q \in Loops : \A u \in Tasks \ {t} :
       (Executing(q) /\ cur[q] = u)' <=> (Executing(q) /\ cur[q] = u)

LEMMA LedgerChanges ==
  ASSUME NEW t \in Tasks, NEW x, NEW E \in SUBSET Loops, LedgerMoves(t, x), LedgerExecutes(t, E)
  PROVE  /\ [u \in Tasks |-> Outcome(u)]' = [[u \in Tasks |-> Outcome(u)] EXCEPT ![t] = x]
         /\ [u \in Tasks |-> {q \in Loops : pc[q] \in {"take", "work"} /\ cur[q] = u}]'
              = [[u \in Tasks |-> {q \in Loops : pc[q] \in {"take", "work"} /\ cur[q] = u}]
                   EXCEPT ![t] = E]
<1>1. [u \in Tasks |-> Outcome(u)]' = [[u \in Tasks |-> Outcome(u)] EXCEPT ![t] = x]
  BY DEF LedgerMoves
<1> DEFINE ex(u) == {q \in Loops : pc[q] \in {"take", "work"} /\ cur[q] = u}
<1>2. ASSUME NEW u \in Tasks, u # t PROVE ex(u)' = ex(u)
  BY <1>2 DEF LedgerExecutes, Executing
<1>3. ex(t)' = E BY DEF LedgerExecutes, Executing
<1> HIDE DEF ex
<1>4. [u \in Tasks |-> ex(u)]' = [[u \in Tasks |-> ex(u)] EXCEPT ![t] = E]
  BY <1>2, <1>3
<1> QED BY <1>1, <1>4 DEF ex

\* Most steps of a loop are none of the owner's business.
LEMMA LedgerSelect ==
  ASSUME IInv, NEW p \in Loops,
         \/ ShutDown(p) \/ HoldDrains(p) \/ SelectResumable(p) \/ SelectQueued(p)
         \/ ScanFree(p) \/ ScanHeld(p) \/ ScanStale(p) \/ ScanEmpty(p)
         \/ ScanBreak(p) \/ ScanBreakRaises(p) \/ BeginClaim(p) \/ BeginAdopt(p)
         \/ ClaimLost(p) \/ AdoptLost(p) \/ CheckFree(p) \/ CheckHeld(p)
         \/ CheckStale(p) \/ ClaimBreak(p) \/ ClaimBreakRaises(p) \/ TakeLock(p)
         \/ ReleaseOwned(p) \/ ReleaseOther(p) \/ Unlink(p) \/ FileUnscored(p)
         \/ FileNothing(p) \/ ChainEnds(p) \/ ReflectSkips(p) \/ RetryGivesUp(p)
  PROVE  SameLife /\ SameExecutors
<1> USE DEF SameLife, SameExecutors, Outcome, Executing, Goto, fileVars, loopVars, IInv, TInv, TypeOK
<1>1. CASE ShutDown(p) BY <1>1 DEF ShutDown
<1>2. CASE HoldDrains(p) BY <1>2 DEF HoldDrains
<1>3. CASE SelectResumable(p) BY <1>3 DEF SelectResumable, Running
<1>4. CASE SelectQueued(p) BY <1>4 DEF SelectQueued, Running
<1>5. CASE ScanFree(p) BY <1>5 DEF ScanFree, Examines, Selected
<1>6. CASE ScanHeld(p) BY <1>6 DEF ScanHeld, Examines
<1>7. CASE ScanStale(p) BY <1>7 DEF ScanStale, Examines, Selected
<1>8. CASE ScanEmpty(p) BY <1>8 DEF ScanEmpty
<1>9. CASE ScanBreak(p) BY <1>9 DEF ScanBreak, Unlocked
<1>10. CASE ScanBreakRaises(p) BY <1>10 DEF ScanBreakRaises, Forgotten
<1>11. CASE BeginClaim(p) BY <1>11 DEF BeginClaim
<1>12. CASE BeginAdopt(p) BY <1>12 DEF BeginAdopt
<1>13. CASE ClaimLost(p) BY <1>13 DEF ClaimLost, Forgotten
<1>14. CASE AdoptLost(p) BY <1>14 DEF AdoptLost, Forgotten
<1>15. CASE CheckFree(p) BY <1>15 DEF CheckFree
<1>16. CASE CheckHeld(p) BY <1>16 DEF CheckHeld, Forgotten
<1>17. CASE CheckStale(p) BY <1>17 DEF CheckStale
<1>18. CASE ClaimBreak(p) BY <1>18 DEF ClaimBreak, Unlocked
<1>19. CASE ClaimBreakRaises(p) BY <1>19 DEF ClaimBreakRaises, Forgotten
<1>20. CASE TakeLock(p) BY <1>20 DEF TakeLock
<1>21. CASE ReleaseOwned(p) BY <1>21 DEF ReleaseOwned
<1>22. CASE ReleaseOther(p) BY <1>22 DEF ReleaseOther
<1>23. CASE Unlink(p) BY <1>23 DEF Unlink, Unlocked
<1>24. CASE FileUnscored(p) BY <1>24 DEF FileUnscored, AfterFiling
<1>25. CASE FileNothing(p) BY <1>25 DEF FileNothing, Forgotten
<1>26. CASE ChainEnds(p) BY <1>26 DEF ChainEnds
<1>27. CASE ReflectSkips(p) BY <1>27 DEF ReflectSkips, Forgotten
<1>28. CASE RetryGivesUp(p) BY <1>28 DEF RetryGivesUp, Forgotten
<1> QED BY <1>1, <1>2, <1>3, <1>4, <1>5, <1>6, <1>7, <1>8, <1>9, <1>10, <1>11, <1>12, <1>13, <1>14, <1>15, <1>16, <1>17, <1>18, <1>19, <1>20, <1>21, <1>22, <1>23, <1>24, <1>25, <1>26, <1>27, <1>28

\* A renewed lease and a scored task are none, either.
LEMMA LedgerRenews ==
  ASSUME IInv, NEW p \in Loops, StepRuns(p) \/ FileMemory(p)
  PROVE  SameLife /\ SameExecutors
<1>1. /\ cur[p] \in 1..born /\ cur[p] \in Tasks
  <2>1. pc[p] \in {"work", "file"} BY DEF StepRuns, FileMemory, Goto
  <2> QED BY <2>1, CurKnown DEF IInv
<1>2. PICK t \in Tasks : t = cur[p] /\ t \in 1..born BY <1>1
<1>3. PICK s \in {"running"} \cup Terminal :
        /\ Commit(t, s, p) /\ born' = born
        /\ \/ pc[p] = "work" /\ s = "running"
           \/ pc[p] = "file" /\ mem[p] \in Terminal /\ s = mem[p]
  BY <1>2 DEF StepRuns, FileMemory, Goto
<1>4. Commits(t, s, p) /\ s \in Statuses \ {"none"}
  BY <1>2, <1>3 DEF Commits, Statuses, Terminal
<1>5. Outcome(t) = s
  <2>1. OwnershipOf(p) BY OwnershipEach
  <2>2. CASE pc[p] = "work"
    <3>1. status[t] = "running" /\ s = "running"
      BY <1>2, <1>3, <2>1, <2>2 DEF OwnershipOf, Executing
    <3> QED BY <1>2, <3>1 DEF Outcome, IInv, Records, TInv, TypeOK
  <2>3. CASE pc[p] = "file" BY <1>2, <1>3, <2>1, <2>3 DEF OwnershipOf
  <2> QED BY <1>3, <2>2, <2>3
<1>6. SameLife BY <1>4, <1>5, CommitOutcome DEF SameLife
<1>7. SameExecutors
  BY DEF SameExecutors, Executing, StepRuns, FileMemory, AfterFiling, Goto, loopVars, IInv, TInv, TypeOK
<1> QED BY <1>6, <1>7

\* The executors of a task, before a step.
LEMMA ExecutorsOf ==
  ASSUME IInv, NEW t \in Tasks
  PROVE  /\ \A p \in Loops : Executing(p) /\ cur[p] = t => status[t] = "running" /\ runner[t] = p
         /\ (t \in 1..born /\ status[t] # "none" => Outcome(t) = status[t])
         /\ (t > born => Outcome(t) = "unborn")
<1>1. ASSUME NEW p \in Loops, Executing(p), cur[p] = t
      PROVE  status[t] = "running" /\ runner[t] = p
  <2>1. OwnershipOf(p) BY OwnershipEach
  <2> QED BY <1>1, <2>1 DEF OwnershipOf
<1> QED BY <1>1 DEF Outcome, IInv, Records, TInv, TypeOK

LEMMA LedgerSave == ASSUME IInv, NEW p \in Loops, Save(p) PROVE LedgerStep
<1>1. PICK t \in Tasks : t = cur[p] /\ t \in 1..born
  <2>1. pc[p] = "save" BY DEF Save, Goto
  <2> QED BY <2>1, CurKnown DEF IInv
<1>2. /\ pc[p] = "save" /\ pc' = [pc EXCEPT ![p] = "take"]
      /\ status' = [status EXCEPT ![t] = "running"]
      /\ UNCHANGED <<born, at, filed, cur>>
      /\ pc \in [Loops -> Points] /\ status \in [Tasks -> Statuses]
  BY <1>1 DEF Save, Goto, IInv, TInv, TypeOK
<1>3. Decidable(p, t) BY <1>1, <1>2 DEF IInv, Ownership
<1>4. status[t] \in {"queued", "running"} /\ Outcome(t) = status[t]
  BY <1>1, <1>3, ExecutorsOf DEF Decidable
<1>5. \A q \in Loops : ~(Executing(q) /\ cur[q] = t)
  <2> SUFFICES ASSUME NEW q \in Loops, Executing(q), cur[q] = t PROVE FALSE
    OBVIOUS
  <2>1. status[t] = "running" /\ runner[t] = q BY ExecutorsOf
  <2>2. q # p BY <1>2 DEF Executing
  <2>3. q # Nobody BY TaskQueueAssumption
  <2> QED BY <1>3, <2>1, <2>2, <2>3 DEF Decidable, Dead, Executing
<1>6. LedgerMoves(t, "running")
  BY <1>1, <1>2, <1>4 DEF LedgerMoves, Outcome, IInv, Records, TInv, TypeOK
<1>7. LedgerExecutes(t, {p})
  BY <1>1, <1>2, <1>5 DEF LedgerExecutes, Executing
<1>8. Ledger!Take(p, t)
  <2>1. /\ [u \in Tasks |-> Outcome(u)]' = [[u \in Tasks |-> Outcome(u)] EXCEPT ![t] = "running"]
        /\ [u \in Tasks |-> {q \in Loops : pc[q] \in {"take", "work"} /\ cur[q] = u}]'
             = [[u \in Tasks |-> {q \in Loops : pc[q] \in {"take", "work"} /\ cur[q] = u}]
                  EXCEPT ![t] = {p}]
    <3>1. {p} \in SUBSET Loops OBVIOUS
    <3> QED BY <1>6, <1>7, <3>1, LedgerChanges
  <2>2. {q \in Loops : pc[q] \in {"take", "work"} /\ cur[q] = t} = {}
    BY <1>5 DEF Executing
  <2>3. [u \in Tasks |-> {q \in Loops : pc[q] \in {"take", "work"} /\ cur[q] = u}][t] = {}
    BY <2>2
  <2>4. [u \in Tasks |-> Outcome(u)][t] \in {"queued", "running"}
    BY <1>4
  <2> QED BY <2>1, <2>3, <2>4 DEF Ledger!Take
<1> QED BY <1>8 DEF LedgerStep, Ledger!Next

LEMMA LedgerEnds == ASSUME IInv, NEW p \in Loops, StepEnds(p) PROVE LedgerStep
<1>1. PICK t \in Tasks : t = cur[p] /\ t \in 1..born
  <2>1. pc[p] = "work" BY DEF StepEnds, Goto
  <2> QED BY <2>1, CurKnown DEF IInv
<1>2. PICK s \in Terminal \cup {"blocked"} : Commit(t, s, p)
  BY <1>1 DEF StepEnds
<1>3. /\ pc[p] = "work" /\ pc' = [pc EXCEPT ![p] = "release"] /\ pc \in [Loops -> Points]
      /\ UNCHANGED <<born, cur>>
  BY DEF StepEnds, Goto, IInv, TInv, TypeOK
<1>4. Commits(t, s, p) /\ s \in Statuses \ {"none"}
  BY <1>1, <1>2, <1>3 DEF Commits, Statuses, Terminal
<1>5. status[t] = "running" /\ runner[t] = p
  BY <1>1, <1>3, ExecutorsOf DEF Executing
<1>6. Outcome(t) = "running" BY <1>1, <1>5, ExecutorsOf
<1>7. \A q \in Loops : Executing(q) /\ cur[q] = t <=> q = p
  BY <1>1, <1>3, <1>5, ExecutorsOf DEF Executing
<1>8. LedgerMoves(t, s) BY <1>4, CommitOutcome DEF LedgerMoves
<1>9. LedgerExecutes(t, {})
  BY <1>1, <1>3, <1>7 DEF LedgerExecutes, Executing
<1>10. Ledger!Conclude(p, t, s)
  <2>1. /\ [u \in Tasks |-> Outcome(u)]' = [[u \in Tasks |-> Outcome(u)] EXCEPT ![t] = s]
        /\ [u \in Tasks |-> {q \in Loops : pc[q] \in {"take", "work"} /\ cur[q] = u}]'
             = [[u \in Tasks |-> {q \in Loops : pc[q] \in {"take", "work"} /\ cur[q] = u}]
                  EXCEPT ![t] = {}]
    <3>1. {} \in SUBSET Loops OBVIOUS
    <3> QED BY <1>8, <1>9, <3>1, LedgerChanges
  <2>2. {q \in Loops : pc[q] \in {"take", "work"} /\ cur[q] = t} = {p}
    BY <1>7 DEF Executing
  <2>3. [u \in Tasks |-> {q \in Loops : pc[q] \in {"take", "work"} /\ cur[q] = u}][t] = {p}
    BY <2>2
  <2>4. [u \in Tasks |-> Outcome(u)][t] = "running"
    BY <1>6
  <2> QED BY <2>1, <2>3, <2>4 DEF Ledger!Conclude, Ledger!Becomes
<1> QED BY <1>10 DEF LedgerStep, Ledger!Next, Terminal

\* An executor stops between two steps, or dies; any other loop's death is
\* nobody's business.
LEMMA LedgerLeaves ==
  ASSUME IInv, NEW p \in Loops, BreakOff(p) \/ Ends(p)
  PROVE  LedgerStep
<1>1. SameLife
  <2>1. CASE CrashInTrim(p) BY <2>1, TrimCrashOutcome DEF SameLife
  <2>2. CASE BreakOff(p) \/ Crash(p) \/ CommitRaises(p) \/ ScanRaises(p)
    BY <2>2 DEF SameLife, Outcome, BreakOff, Crash, CommitRaises, ScanRaises, Raised, fileVars
  <2> QED BY <2>1, <2>2 DEF Ends
<1>2. /\ pc \in [Loops -> Points] /\ pc'[p] \notin {"take", "work"}
      /\ \A q \in Loops \ {p} : pc'[q] = pc[q] /\ cur'[q] = cur[q]
  BY DEF BreakOff, Ends, Crash, CrashInTrim, CommitRaises, ScanRaises, Dies, Raised,
     Forgotten, Goto, IInv, TInv, TypeOK
<1>3. CASE ~Executing(p)
  <2>1. SameExecutors BY <1>2, <1>3 DEF SameExecutors, Executing
  <2> QED BY <1>1, <2>1, LedgerStutters
<1>4. CASE Executing(p)
  <2>1. PICK t \in Tasks : t = cur[p] /\ t \in 1..born
    BY <1>4, CurKnown DEF IInv, Executing
  <2>2. status[t] = "running" /\ runner[t] = p BY <1>4, <2>1, ExecutorsOf
  <2>3. \A q \in Loops : Executing(q) /\ cur[q] = t <=> q = p
    BY <1>4, <2>1, <2>2, ExecutorsOf
  <2>4. LedgerMoves(t, Outcome(t))
    <3>1. PICK x : x = Outcome(t) OBVIOUS
    <3> QED BY <1>1, <3>1 DEF SameLife, LedgerMoves
  <2>5. LedgerExecutes(t, {})
    <3>1. ~Executing(p)' BY <1>2 DEF Executing
    <3>2. \A q \in Loops \ {p} : Executing(q)' <=> Executing(q) BY <1>2 DEF Executing
    <3> QED BY <1>2, <2>1, <2>3, <3>1, <3>2 DEF LedgerExecutes
  <2>6. Ledger!Abandon(p, t)
    <3>1. PICK x : x = Outcome(t) OBVIOUS
    <3>2. /\ [u \in Tasks |-> Outcome(u)]' = [[u \in Tasks |-> Outcome(u)] EXCEPT ![t] = x]
        /\ [u \in Tasks |-> {q \in Loops : pc[q] \in {"take", "work"} /\ cur[q] = u}]'
             = [[u \in Tasks |-> {q \in Loops : pc[q] \in {"take", "work"} /\ cur[q] = u}]
                  EXCEPT ![t] = {}]
      <4>1. {} \in SUBSET Loops OBVIOUS
      <4>2. LedgerMoves(t, x) BY <2>4, <3>1
      <4> QED BY <2>5, <4>1, <4>2, LedgerChanges
    <3>3. [[u \in Tasks |-> Outcome(u)] EXCEPT ![t] = x] = [u \in Tasks |-> Outcome(u)]
      BY <3>1
    <3>4. p \in {q \in Loops : pc[q] \in {"take", "work"} /\ cur[q] = t}
      BY <2>3 DEF Executing
    <3>5. p \in [u \in Tasks |-> {q \in Loops : pc[q] \in {"take", "work"} /\ cur[q] = u}][t]
      BY <3>4
    <3> QED BY <3>2, <3>3, <3>5 DEF Ledger!Abandon
  <2> QED BY <2>6 DEF LedgerStep, Ledger!Next
<1> QED BY <1>3, <1>4

\* A task is created, or a blocked one answered: it is queued, nobody executes it.
LEMMA LedgerQueues ==
  ASSUME IInv, NEW t \in Tasks, NEW r \in Loops \cup {Nobody}, Commits(t, "queued", r),
         Outcome(t) \in {"unborn", "blocked"}, SameExecutors
  PROVE  LedgerStep
<1>1. "queued" \in Statuses \ {"none"} BY DEF Statuses
<1>2. LedgerMoves(t, "queued") BY <1>1, CommitOutcome DEF LedgerMoves
<1>3. [u \in Tasks |-> Outcome(u)]' = [[u \in Tasks |-> Outcome(u)] EXCEPT ![t] = "queued"]
  BY <1>2 DEF LedgerMoves
<1>4. [u \in Tasks |-> {q \in Loops : pc[q] \in {"take", "work"} /\ cur[q] = u}]'
        = [u \in Tasks |-> {q \in Loops : pc[q] \in {"take", "work"} /\ cur[q] = u}]
  BY DEF SameExecutors, Executing
<1>5. [u \in Tasks |-> Outcome(u)][t] \in {"unborn", "blocked"} OBVIOUS
<1>6. Ledger!Submit(t) \/ Ledger!Answer(t)
  BY <1>3, <1>4, <1>5 DEF Ledger!Submit, Ledger!Answer, Ledger!Becomes
<1> QED BY <1>6 DEF LedgerStep, Ledger!Next

LEMMA LedgerAdds ==
  ASSUME IInv, NEW c \in Courses \cup {NoCourse}, NEW r \in Roles, NEW n \in Nat,
         NEW l \in Nat, NEW k \in Nat, AddTask(c, r, n, l, k), SameExecutors
  PROVE  LedgerStep
<1>1. born + 1 \in Tasks /\ born' = born + 1 /\ Commit(born + 1, "queued", Nobody)
  BY AddFacts DEF IInv
<1>2. PICK t \in Tasks : t = born + 1 BY <1>1
<1>3. Commits(t, "queued", Nobody) BY <1>1, <1>2 DEF Commits
<1>4. Outcome(t) = "unborn" BY <1>2, ExecutorsOf DEF IInv, TInv, TypeOK
<1> QED BY <1>3, <1>4, LedgerQueues

LEMMA LedgerFollows ==
  ASSUME IInv, NEW p \in Loops, ChainAdds(p) \/ ReflectAdds(p) \/ RetryAdds(p)
  PROVE  LedgerStep
<1>1. SameExecutors
  BY DEF SameExecutors, Executing, ChainAdds, ReflectAdds, RetryAdds, Goto, Forgotten,
         IInv, TInv, TypeOK
<1>2. pc[p] \in {"chain", "reflect", "retry"}
  BY DEF ChainAdds, ReflectAdds, RetryAdds, Goto
<1>3. cur[p] \in 1..born /\ cur[p] \in Tasks /\ info[cur[p]] \in TaskInfo
  BY <1>2, CurKnown DEF IInv
<1>4. cur[p] <= born /\ info[cur[p]].role \in Roles
  BY <1>3 DEF IInv, TInv, Known, TypeOK
<1>5. /\ info[cur[p]].course \in Courses \cup {NoCourse}
      /\ info[cur[p]].attempt + 1 \in Nat /\ info[cur[p]].lineage \in Nat
      /\ info[cur[p]].limit \in Nat /\ 0 \in Nat /\ 1 \in Nat
  BY <1>3 DEF TaskInfo
<1>6. CASE ChainAdds(p)
  <2>1. AddTask(info[cur[p]].course, Chain[info[cur[p]].role], 1, 0, 0)
        /\ Chain[info[cur[p]].role] # NoRole
    BY <1>6 DEF ChainAdds, NoTask
  <2>2. Chain[info[cur[p]].role] \in Roles
    BY <1>4, <2>1, TaskQueueAssumption
  <2> QED BY <1>1, <1>5, <2>1, <2>2, LedgerAdds
<1>7. CASE ReflectAdds(p)
  <2>1. AddTask(info[cur[p]].course, Reflector, 1, 0, 0) /\ Reflector \in Roles
    BY <1>7, TaskQueueAssumption DEF ReflectAdds, NoTask
  <2> QED BY <1>1, <1>5, <2>1, LedgerAdds
<1>8. CASE RetryAdds(p)
  <2>1. AddTask(info[cur[p]].course, info[cur[p]].role, info[cur[p]].attempt + 1,
                info[cur[p]].lineage, info[cur[p]].limit)
    BY <1>8 DEF RetryAdds
  <2> QED BY <1>1, <1>4, <1>5, <2>1, LedgerAdds
<1> QED BY <1>6, <1>7, <1>8

LEMMA LedgerOwner == ASSUME IInv, OwnerAdds PROVE LedgerStep
<1>1. PICK c \in Courses \cup {NoCourse}, r \in OwnerRoles, l \in Limits :
        AddTask(c, r, 1, 0, l)
  BY DEF OwnerAdds, NoTask
<1>2. r \in Roles /\ l \in Nat /\ 1 \in Nat /\ 0 \in Nat BY TaskQueueAssumption
<1>3. SameExecutors BY DEF SameExecutors, Executing, OwnerAdds, loopVars
<1> QED BY <1>1, <1>2, <1>3, LedgerAdds

LEMMA LedgerAnswers ==
  ASSUME IInv, NEW h \in Answerers, AnswerCommits(h)
  PROVE  LedgerStep
<1>1. reply[h].task \in 1..born /\ status[reply[h].task] = "blocked"
  BY DEF AnswerCommits, IInv, Ownership
<1>2. PICK t \in Tasks : t = reply[h].task /\ t \in 1..born
  BY <1>1, TaskQueueAssumption DEF IInv, TInv, TypeOK, Tasks
<1>3. PICK r \in Loops \cup {Nobody} : r = reply[h].runner
  BY DEF IInv, TInv, TypeOK
<1>4. Commits(t, "queued", r) BY <1>2, <1>3 DEF AnswerCommits, Commits
<1>5. Outcome(t) = "blocked" BY <1>1, <1>2, ExecutorsOf
<1>6. SameExecutors BY DEF SameExecutors, Executing, AnswerCommits, loopVars
<1> QED BY <1>4, <1>5, <1>6, LedgerQueues

LEMMA LedgerAround ==
  ASSUME IInv,
         \/ \E p \in Loops : Start(p) \/ Signal(p) \/ WatchdogTick(p)
         \/ \E h \in Answerers : AnswerReads(h)
         \/ \E c \in Courses : LockAges(c)
         \/ \E t \in Tasks : LeaseLapses(t)
         \/ UNCHANGED vars
  PROVE  LedgerStep
<1>1. UNCHANGED <<born, at, status, filed, cur>>
  BY DEF Start, Signal, WatchdogTick, AnswerReads, LockAges, LeaseLapses,
         vars, fileVars, lockVars, loopVars
<1>2. SameLife BY <1>1 DEF SameLife, Outcome
<1>3. SameExecutors
  <2>1. ASSUME NEW p \in Loops, Start(p) PROVE SameExecutors
    BY <1>1, <2>1 DEF SameExecutors, Executing, Start, Goto, IInv, TInv, TypeOK
  <2>2. ASSUME pc' = pc PROVE SameExecutors
    BY <1>1, <2>2 DEF SameExecutors, Executing
  <2>3. \/ \E p \in Loops : Start(p)
        \/ pc' = pc
    BY DEF Signal, WatchdogTick, AnswerReads, LockAges, LeaseLapses, vars, loopVars
  <2> QED BY <2>1, <2>2, <2>3
<1> QED BY <1>2, <1>3, LedgerStutters

LEMMA LedgerNext == IInv /\ [Next]_vars => LedgerStep
<1> SUFFICES ASSUME IInv, [Next]_vars PROVE LedgerStep
  OBVIOUS
<1>1. ASSUME NEW p \in Loops, LoopStep(p) PROVE LedgerStep
  <2>1. CASE SameLife /\ SameExecutors BY <2>1, LedgerStutters
  <2> QED BY <1>1, <2>1, LedgerSelect, LedgerRenews, LedgerSave, LedgerEnds, LedgerLeaves,
             LedgerFollows DEF LoopStep
<1>2. ASSUME NEW p \in Loops, Ends(p) PROVE LedgerStep
  BY <1>2, LedgerLeaves
<1> QED BY <1>1, <1>2, LedgerAround, LedgerAnswers, LedgerOwner DEF Next

LEMMA LedgerInit == Init => Ledger!Init
<1> SUFFICES ASSUME Init PROVE Ledger!Init
  OBVIOUS
<1>1. \A t \in Tasks : Outcome(t) = "unborn" BY DEF Init, Outcome, Tasks
<1>2. \A t \in Tasks : {q \in Loops : pc[q] \in {"take", "work"} /\ cur[q] = t} = {}
  BY DEF Init
<1> QED BY <1>1, <1>2 DEF Ledger!Init

\* Loops, locks, leases, archives and crashes implement the owner's view: a
\* task is executed by one loop at a time, taken only when nobody executes it,
\* ended only by its executor, and final once it has ended.
THEOREM LedgerKept == ASSUME Fleet PROVE Spec /\ [][LeasesKept]_vars => KeepsLedger
<1>1. IInv /\ [Next]_vars /\ [LeasesKept]_vars => IInv' BY IInvNext
<1>2. IInv /\ [Next]_vars => [Ledger!Next]_(Ledger!vars) BY LedgerNext DEF LedgerStep
<1> QED BY <1>1, <1>2, IInvInit, LedgerInit, PTL DEF Spec, KeepsLedger, Ledger!Spec

\* Reading one task's life off the ledger, before and after a step.
LEMMA OneLife ==
  ASSUME NEW t \in Tasks
  PROVE  /\ [u \in Tasks |-> Outcome(u)][t] = Outcome(t)
         /\ [u \in Tasks |-> Outcome(u)]'[t] = Outcome(t)'
         /\ \A u \in Tasks : \A x : [[w \in Tasks |-> Outcome(w)] EXCEPT ![u] = x][t]
              = IF u = t THEN x ELSE Outcome(t)
OBVIOUS

\* No step of the ledger changes what has ended.
LEMMA LedgerFinal == ASSUME LedgerStep PROVE \A t \in Tasks : Outcome(t) \in Terminal => Outcome(t)' = Outcome(t)
<1> SUFFICES ASSUME NEW t \in Tasks, Outcome(t) \in Terminal
             PROVE  Outcome(t)' = Outcome(t)
  OBVIOUS
<1>1. CASE UNCHANGED Ledger!vars
  <2>1. [u \in Tasks |-> Outcome(u)]' = [u \in Tasks |-> Outcome(u)]
    BY <1>1 DEF Ledger!vars
  <2> QED BY <2>1, OneLife
<1>2. CASE Ledger!Next
  <2>1. PICK u \in Tasks :
          \/ Ledger!Submit(u) \/ Ledger!Answer(u)
          \/ \E p \in Loops :
               \/ Ledger!Take(p, u) \/ Ledger!Abandon(p, u)
               \/ \E outcome \in {"done", "failed", "blocked"} : Ledger!Conclude(p, u, outcome)
    BY <1>2 DEF Ledger!Next
  <2>2. CASE Ledger!Submit(u) BY <2>2, OneLife DEF Ledger!Submit, Ledger!Becomes, Terminal
  <2>3. CASE Ledger!Answer(u) BY <2>3, OneLife DEF Ledger!Answer, Ledger!Becomes, Terminal
  <2>4. ASSUME NEW p \in Loops, Ledger!Take(p, u) PROVE Outcome(t)' = Outcome(t)
    BY <2>4, OneLife DEF Ledger!Take, Terminal
  <2>5. ASSUME NEW p \in Loops, Ledger!Abandon(p, u) PROVE Outcome(t)' = Outcome(t)
    BY <2>5, OneLife DEF Ledger!Abandon
  <2>6. ASSUME NEW p \in Loops, NEW x, Ledger!Conclude(p, u, x)
        PROVE  Outcome(t)' = Outcome(t)
    BY <2>6, OneLife DEF Ledger!Conclude, Ledger!Becomes, Terminal
  <2> QED BY <2>1, <2>2, <2>3, <2>4, <2>5, <2>6
<1> QED BY <1>1, <1>2 DEF LedgerStep

\* commit_task, _trim_state, answer_task: a done or failed task stays so.
THEOREM OutcomesAreFinal == ASSUME Fleet PROVE Spec /\ [][LeasesKept]_vars => OutcomeIsFinal
<1>1. IInv /\ [Next]_vars => (\A t \in Tasks : Outcome(t) \in Terminal => Outcome(t)' = Outcome(t))
  BY LedgerFinal, LedgerNext
<1>2. IInv /\ [Next]_vars /\ [LeasesKept]_vars => IInv' BY IInvNext
<1> QED BY <1>1, <1>2, IInvInit, PTL DEF Spec, OutcomeIsFinal


-----------------------------------------------------------------------------
(* What follows a task                                                     *)

\* p has ended a task and has not finished with it.
Follows(p) ==
  \/ pc[p] \in {"release", "unlink", "file"} /\ mem[p] \in Terminal
  \/ pc[p] \in {"chain", "reflect", "retry"}

\* A finished task is followed up by the loop that ended it, alone.
FollowersOK ==
  /\ \A p \in Loops : Follows(p) => Outcome(cur[p]) \in Terminal
  /\ \A p, q \in Loops : Follows(p) /\ Follows(q) /\ cur[p] = cur[q] => p = q
  /\ \A p \in Loops : pc[p] \in {"chain", "reflect"} => Outcome(cur[p]) = "done"

\* Who follows a task after a step went on with it, or has just ended it.
GoesOn(q) ==
  \/ pc'[q] \in {"release", "unlink", "file"} /\ pc[q] \in {"release", "unlink", "file"} /\ mem'[q] = mem[q]
  \/ pc'[q] = "chain" /\ (pc[q] = "chain" \/ (pc[q] = "file" /\ mem[q] = "done"))
  \/ pc'[q] = "reflect" /\ pc[q] \in {"chain", "reflect"}
  \/ pc'[q] = "retry" /\ (pc[q] = "retry" \/ (pc[q] = "file" /\ mem[q] \in Terminal))
Origin(q) == Follows(q)' => cur'[q] = cur[q] /\ (GoesOn(q) \/ StepEnds(q))

LEMMA OriginSame == ASSUME UNCHANGED <<pc, cur, mem>> PROVE \A q \in Loops : Origin(q)
BY DEF Origin, GoesOn, Follows

LEMMA OriginFrame ==
  ASSUME NEW p \in Loops, Origin(p),
         \A q \in Loops \ {p} : pc'[q] = pc[q] /\ cur'[q] = cur[q] /\ mem'[q] = mem[q]
  PROVE  \A q \in Loops : Origin(q)
<1>1. \A q \in Loops \ {p} : Origin(q)
  BY DEF Origin, GoesOn, Follows
<1> QED
  BY <1>1

LEMMA OriginOf ==
  ASSUME IInv, NEW p \in Loops,
         LoopStep(p) \/ Start(p) \/ Signal(p) \/ WatchdogTick(p) \/ Ends(p)
  PROVE  \A q \in Loops : Origin(q)
<1> USE DEF IInv, TInv, TypeOK, Goto, Forgotten, Selected
<1>1. CASE \/ ShutDown(p) \/ HoldDrains(p) \/ SelectResumable(p) \/ SelectQueued(p)
           \/ ScanFree(p) \/ ScanStale(p) \/ ScanEmpty(p) \/ ScanBreak(p) \/ ScanBreakRaises(p)
           \/ BeginClaim(p) \/ BeginAdopt(p) \/ ClaimLost(p) \/ AdoptLost(p)
  <2>1. /\ pc'[p] \in {"gone", "adopt", "scan", "claim", "scanbreak", "idle", "raised", "check"}
        /\ \A q \in Loops \ {p} : pc'[q] = pc[q] /\ cur'[q] = cur[q] /\ mem'[q] = mem[q]
    BY <1>1 DEF ShutDown, HoldDrains, SelectResumable, SelectQueued, ScanFree, ScanStale, ScanEmpty,
       ScanBreak, ScanBreakRaises, BeginClaim, BeginAdopt, ClaimLost, AdoptLost
  <2> QED
    BY <2>1, OriginFrame DEF Origin, Follows
<1>2. CASE \/ CheckFree(p) \/ CheckHeld(p) \/ CheckStale(p) \/ ClaimBreak(p) \/ ClaimBreakRaises(p)
           \/ Save(p) \/ TakeLock(p) \/ Start(p)
  <2>1. /\ pc'[p] \in {"save", "idle", "break", "raised", "take", "work"}
        /\ \A q \in Loops \ {p} : pc'[q] = pc[q] /\ cur'[q] = cur[q] /\ mem'[q] = mem[q]
    BY <1>2 DEF CheckFree, CheckHeld, CheckStale, ClaimBreak, ClaimBreakRaises, Save, TakeLock, Start
  <2> QED
    BY <2>1, OriginFrame DEF Origin, Follows
<1>3. CASE ScanHeld(p) \/ StepRuns(p) \/ Signal(p) \/ WatchdogTick(p)
  BY <1>3, OriginSame DEF ScanHeld, StepRuns, Signal, WatchdogTick, loopVars
<1>4. CASE StepEnds(p)
  <2>1. cur' = cur /\ \A q \in Loops \ {p} : pc'[q] = pc[q] /\ mem'[q] = mem[q]
    BY <1>4 DEF StepEnds
  <2> QED
    BY <1>4, <2>1, OriginFrame DEF Origin
<1>5. CASE BreakOff(p)
  <2>1. pc'[p] = "release" /\ mem' = mem /\ cur' = cur /\ mem[p] = "running"
        /\ \A q \in Loops \ {p} : pc'[q] = pc[q]
    BY <1>5 DEF BreakOff, CopyIsRunning
  <2> QED
    BY <2>1, OriginFrame DEF Origin, Follows, Terminal
<1>6. CASE ReleaseOwned(p) \/ ReleaseOther(p) \/ Unlink(p)
  <2>1. /\ pc[p] \in {"release", "unlink"} /\ pc'[p] \in {"unlink", "file"} /\ mem' = mem /\ cur' = cur
        /\ \A q \in Loops \ {p} : pc'[q] = pc[q]
    BY <1>6 DEF ReleaseOwned, ReleaseOther, Unlink
  <2> QED
    BY <2>1, OriginFrame DEF Origin, GoesOn
<1>7. CASE FileMemory(p) \/ FileUnscored(p)
  <2>1. /\ pc[p] = "file" /\ mem[p] \in Terminal /\ mem' = mem /\ cur' = cur
        /\ pc'[p] = IF mem[p] = "done" THEN "chain" ELSE "retry"
        /\ \A q \in Loops \ {p} : pc'[q] = pc[q]
    BY <1>7 DEF FileMemory, FileUnscored, AfterFiling
  <2> QED
    BY <2>1, OriginFrame DEF Origin, GoesOn
<1>8. CASE ChainAdds(p) \/ ChainEnds(p)
  <2>1. /\ pc[p] = "chain" /\ pc'[p] = "reflect" /\ mem' = mem /\ cur' = cur
        /\ \A q \in Loops \ {p} : pc'[q] = pc[q]
    BY <1>8 DEF ChainAdds, ChainEnds
  <2> QED
    BY <2>1, OriginFrame DEF Origin, GoesOn
<1>9. CASE FileNothing(p) \/ ReflectAdds(p) \/ ReflectSkips(p) \/ RetryAdds(p) \/ RetryGivesUp(p)
  <2>1. /\ pc'[p] = "idle"
        /\ \A q \in Loops \ {p} : pc'[q] = pc[q] /\ cur'[q] = cur[q] /\ mem'[q] = mem[q]
    BY <1>9 DEF FileNothing, ReflectAdds, ReflectSkips, RetryAdds, RetryGivesUp
  <2> QED
    BY <2>1, OriginFrame DEF Origin, Follows
<1>10. CASE Ends(p)
  <2>1. /\ pc'[p] \in {"gone", "raised"}
        /\ \A q \in Loops \ {p} : pc'[q] = pc[q] /\ cur'[q] = cur[q] /\ mem'[q] = mem[q]
    BY <1>10 DEF Ends, Crash, CrashInTrim, CommitRaises, ScanRaises, Dies, Raised
  <2> QED
    BY <2>1, OriginFrame DEF Origin, Follows
<1> QED
  BY <1>1, <1>2, <1>3, <1>4, <1>5, <1>6, <1>7, <1>8, <1>9, <1>10 DEF LoopStep

LEMMA OriginStep == ASSUME IInv, [Next]_vars PROVE \A q \in Loops : Origin(q)
<1>1. ASSUME UNCHANGED loopVars PROVE \A q \in Loops : Origin(q)
  BY <1>1, OriginSame DEF loopVars
<1> QED
  BY <1>1, OriginOf DEF Next, vars, AnswerReads, AnswerCommits, LockAges, LeaseLapses, OwnerAdds

\* Outcomes are final, step by step.
LEMMA FinalNext ==
  ASSUME IInv, [Next]_vars
  PROVE  \A t \in Tasks : Outcome(t) \in Terminal => Outcome(t)' = Outcome(t)
BY LedgerNext, LedgerFinal

LEMMA Follower ==
  ASSUME IInv, NEW q \in Loops, Follows(q) \/ pc[q] = "work" \/ GoesOn(q) \/ StepEnds(q)
  PROVE  cur[q] \in 1..born /\ cur[q] \in Tasks
BY CurKnown DEF Follows, IInv, GoesOn, StepEnds, Goto

\* A task that a loop ends was running, and the loop's.
LEMMA EndsRunning ==
  ASSUME IInv, NEW q \in Loops, StepEnds(q)
  PROVE  /\ cur[q] \in Tasks /\ Outcome(cur[q]) = "running" /\ runner[cur[q]] = q
         /\ pc'[q] = "release" /\ pc[q] = "work"
<1>1. pc[q] = "work" /\ pc'[q] = "release"
  BY DEF StepEnds, Goto, IInv, TInv, TypeOK
<1>2. cur[q] \in 1..born /\ cur[q] \in Tasks
  BY <1>1, CurKnown DEF IInv
<1>3. status[cur[q]] = "running" /\ runner[cur[q]] = q
  BY <1>1, OwnershipEach DEF OwnershipOf, Executing
<1>4. at[cur[q]] # 0 /\ ~(cur[q] > born)
  BY <1>2, <1>3, TaskQueueAssumption DEF IInv, Records, TInv, TypeOK
<1> QED
  BY <1>1, <1>2, <1>3, <1>4 DEF Outcome

LEMMA GoesOnFollows ==
  ASSUME NEW q \in Loops, Follows(q)', GoesOn(q) PROVE Follows(q)
BY DEF Follows, GoesOn, Terminal

LEMMA FollowersInit == Init => FollowersOK
BY DEF Init, FollowersOK, Follows

LEMMA FollowersStep ==
  ASSUME IInv, IInv', FollowersOK, [Next]_vars
  PROVE  FollowersOK'
<1>1. ASSUME NEW q \in Loops, Follows(q)'
      PROVE  cur'[q] = cur[q] /\ ((GoesOn(q) /\ Follows(q)) \/ StepEnds(q))
  BY <1>1, OriginStep, GoesOnFollows DEF Origin
<1>2. ASSUME NEW q \in Loops, Follows(q)' PROVE (Outcome(cur[q]) \in Terminal)'
  <2>1. CASE Follows(q)
    <3>1. cur[q] \in Tasks /\ Outcome(cur[q]) \in Terminal
      BY <2>1, Follower DEF FollowersOK
    <3>2. PICK t \in Tasks : t = cur[q] /\ t = cur'[q]
      BY <1>1, <1>2, <3>1
    <3> QED
      BY <3>1, <3>2, FinalNext
  <2>2. CASE StepEnds(q)
    <3>1. pc'[q] = "release" /\ mem'[q] \in Terminal
      BY <1>2, <2>2, EndsRunning DEF Follows
    <3> QED
      BY <3>1 DEF IInv, Ownership
  <2> QED
    BY <1>1, <1>2, <2>1, <2>2
<1>3. ASSUME NEW p \in Loops, NEW q \in Loops, Follows(p)', Follows(q)', cur'[p] = cur'[q]
      PROVE  p = q
  <2>1. cur[p] = cur[q]
    BY <1>1, <1>3
  <2>2. CASE Follows(p) /\ Follows(q)
    BY <2>1, <2>2 DEF FollowersOK
  <2>3. CASE StepEnds(p) /\ StepEnds(q)
    BY <2>1, <2>3, EndsRunning
  <2>4. CASE StepEnds(p) /\ Follows(q)
    BY <2>1, <2>4, EndsRunning DEF FollowersOK, Terminal
  <2>5. CASE Follows(p) /\ StepEnds(q)
    BY <2>1, <2>5, EndsRunning DEF FollowersOK, Terminal
  <2> QED
    BY <1>1, <1>3, <2>2, <2>3, <2>4, <2>5
<1>4. ASSUME NEW q \in Loops, pc'[q] \in {"chain", "reflect"} PROVE (Outcome(cur[q]) = "done")'
  <2>1. Follows(q)'
    BY <1>4 DEF Follows
  <2>2. GoesOn(q)
    BY <1>1, <1>4, <2>1, EndsRunning
  <2>3. cur[q] \in Tasks /\ Outcome(cur[q]) = "done"
    BY <1>4, <2>2, Follower DEF GoesOn, FollowersOK, IInv, Ownership, Terminal
  <2>4. PICK t \in Tasks : t = cur[q] /\ t = cur'[q]
    BY <1>1, <2>1, <2>3
  <2> QED
    BY <2>3, <2>4, FinalNext DEF Terminal
<1> QED
  BY <1>2, <1>3, <1>4 DEF FollowersOK

-----------------------------------------------------------------------------
(* One live attempt                                                        *)

SameLineage(t, u) == t # u /\ info[t].lineage = info[u].lineage

\* Attempts of a lineage are numbered apart, and only the last one may be live or have
\* somebody who may still retry it.
Superseded(t) == Outcome(t) \in Terminal /\ \A q \in Loops : Follows(q) => cur[q] # t
Lineages ==
  /\ \A t \in 1..born : info[t].lineage \in 1..born /\ info[t].attempt \in Nat \ {0}
  /\ \A t, u \in 1..born : SameLineage(t, u) =>
       /\ info[t].attempt # info[u].attempt
       /\ info[t].attempt < info[u].attempt => Superseded(t)

\* What is superseded stays so.
LEMMA SupersededStays ==
  ASSUME IInv, [Next]_vars, NEW t \in Tasks, Superseded(t)
  PROVE  Superseded(t)'
<1>1. (Outcome(t) \in Terminal)'
  BY FinalNext DEF Superseded
<1>2. ASSUME NEW q \in Loops, Follows(q)' PROVE cur'[q] # t
  <2>1. cur'[q] = cur[q] /\ ((GoesOn(q) /\ Follows(q)) \/ StepEnds(q))
    BY <1>2, OriginStep, GoesOnFollows DEF Origin
  <2>2. CASE Follows(q)
    BY <2>1, <2>2 DEF Superseded
  <2>3. CASE StepEnds(q)
    BY <2>1, <2>3, EndsRunning DEF Superseded, Terminal
  <2> QED
    BY <2>1, <2>2, <2>3
<1> QED
  BY <1>1, <1>2 DEF Superseded

LEMMA BornTasks == IInv => 1..born \subseteq Tasks /\ born \in Nat
BY TaskQueueAssumption DEF IInv, TInv, TypeOK, Tasks

LEMMA LineagesInit == Init => Lineages
BY DEF Init, Lineages

LEMMA AddsOrNot == ASSUME [Next]_vars PROVE UNCHANGED <<born, info>> \/ Adding
<1> USE DEF fileVars
<1>1. ASSUME NEW p \in Loops,
             \/ ShutDown(p) \/ HoldDrains(p) \/ SelectResumable(p) \/ SelectQueued(p)
             \/ ScanFree(p) \/ ScanHeld(p) \/ ScanStale(p) \/ ScanEmpty(p)
             \/ ScanBreak(p) \/ ScanBreakRaises(p)
             \/ BeginClaim(p) \/ BeginAdopt(p) \/ ClaimLost(p) \/ AdoptLost(p)
             \/ CheckFree(p) \/ CheckHeld(p) \/ CheckStale(p)
             \/ ClaimBreak(p) \/ ClaimBreakRaises(p) \/ Save(p) \/ TakeLock(p)
      PROVE  UNCHANGED <<born, info>>
  BY <1>1 DEF ShutDown, HoldDrains, SelectResumable, SelectQueued, ScanFree, ScanHeld, ScanStale,
     ScanEmpty, ScanBreak, ScanBreakRaises, BeginClaim, BeginAdopt, ClaimLost, AdoptLost, CheckFree,
     CheckHeld, CheckStale, ClaimBreak, ClaimBreakRaises, Save, TakeLock
<1>2. ASSUME NEW p \in Loops,
             \/ StepRuns(p) \/ StepEnds(p) \/ BreakOff(p)
             \/ ReleaseOwned(p) \/ ReleaseOther(p) \/ Unlink(p)
             \/ FileMemory(p) \/ FileUnscored(p) \/ FileNothing(p) \/ ChainEnds(p)
             \/ ReflectSkips(p) \/ RetryGivesUp(p)
             \/ Start(p) \/ Signal(p) \/ WatchdogTick(p) \/ Ends(p)
      PROVE  UNCHANGED <<born, info>>
  BY <1>2 DEF StepRuns, StepEnds, BreakOff, ReleaseOwned, ReleaseOther, Unlink, FileMemory,
     FileUnscored, FileNothing, ChainEnds, ReflectSkips, RetryGivesUp, Start, Signal, WatchdogTick,
     Ends, Crash, CrashInTrim, CommitRaises, ScanRaises, Raised
<1>3. CASE \/ \E h \in Answerers : AnswerReads(h) \/ AnswerCommits(h)
           \/ \E c \in Courses : LockAges(c)
           \/ \E t \in Tasks : LeaseLapses(t)
           \/ UNCHANGED vars
  BY <1>3 DEF AnswerReads, AnswerCommits, LockAges, LeaseLapses, vars
<1> QED
  BY <1>1, <1>2, <1>3 DEF Next, LoopStep, Adding

\* What the new task n is: a first attempt, its lineage its own, or the next attempt of
\* the task that its loop has followed.
AddedAs(n) ==
  \/ /\ info'[n].lineage = n /\ info'[n].attempt = 1
     /\ \/ OwnerAdds /\ info'[n].role \in OwnerRoles
        \/ \E p \in Loops :
             \/ ChainAdds(p) /\ info'[n].role = Chain[info[cur[p]].role] /\ info'[n].role \in Roles
             \/ ReflectAdds(p) /\ info'[n].role = Reflector
  \/ \E p \in Loops :
       /\ RetryAdds(p) /\ info'[n].lineage = info[cur[p]].lineage
       /\ info'[n].attempt = info[cur[p]].attempt + 1

\* It has the next number, and nobody else's fields change.
LEMMA AddsOne ==
  ASSUME IInv, Lineages, Adding
  PROVE  /\ born' = born + 1 /\ born + 1 \in Tasks
         /\ \A t \in 1..born : info'[t] = info[t]
         /\ AddedAs(born + 1)
<1>1. ASSUME NEW c \in Courses \cup {NoCourse}, NEW r \in Roles, NEW n \in Nat, NEW l \in Nat,
             NEW k \in Nat, AddTask(c, r, n, l, k)
      PROVE  /\ born' = born + 1 /\ born + 1 \in Tasks /\ \A t \in 1..born : info'[t] = info[t]
             /\ info'[born + 1].role = r /\ info'[born + 1].attempt = n
             /\ info'[born + 1].lineage = IF l = 0 THEN born + 1 ELSE l
  <2>1. /\ born + 1 \in Tasks /\ born' = born + 1
        /\ \A t \in Tasks : info'[t] = IF t = born + 1
              THEN [course |-> c, role |-> r, attempt |-> n, limit |-> k,
                    lineage |-> IF l = NoTask THEN born + 1 ELSE l]
              ELSE info[t]
    BY <1>1, AddFacts DEF IInv
  <2>2. info'[born + 1] = [course |-> c, role |-> r, attempt |-> n, limit |-> k,
                           lineage |-> IF l = 0 THEN born + 1 ELSE l]
    BY <2>1 DEF NoTask
  <2>3. \A t \in 1..born : t \in Tasks /\ t # born + 1
    BY BornTasks
  <2> QED
    BY <2>1, <2>2, <2>3
<1>2. CASE OwnerAdds
  <2>1. PICK c \in Courses \cup {NoCourse}, r \in OwnerRoles, l \in Limits : AddTask(c, r, 1, 0, l)
    BY <1>2 DEF OwnerAdds, NoTask
  <2>2. r \in Roles /\ l \in Nat /\ 1 \in Nat /\ 0 \in Nat
    BY TaskQueueAssumption
  <2>3. /\ born' = born + 1 /\ born + 1 \in Tasks /\ \A t \in 1..born : info'[t] = info[t]
        /\ info'[born + 1].role = r /\ info'[born + 1].attempt = 1
        /\ info'[born + 1].lineage = born + 1
    BY <1>1, <2>1, <2>2
  <2> QED
    BY <1>2, <2>3 DEF AddedAs
<1>3. ASSUME NEW p \in Loops, ChainAdds(p) \/ ReflectAdds(p) \/ RetryAdds(p)
      PROVE  /\ cur[p] \in 1..born /\ info[cur[p]].role \in Roles
             /\ info[cur[p]].course \in Courses \cup {NoCourse}
             /\ info[cur[p]].attempt + 1 \in Nat /\ info[cur[p]].lineage \in Nat \ {0}
             /\ info[cur[p]].limit \in Nat /\ 0 \in Nat /\ 1 \in Nat
  <2>1. cur[p] \in 1..born /\ cur[p] \in Tasks /\ info[cur[p]] \in TaskInfo
    BY <1>3, CurKnown DEF ChainAdds, ReflectAdds, RetryAdds, Goto, IInv
  <2>2. info[cur[p]].lineage \in 1..born /\ info[cur[p]].role \in Roles
    BY <2>1, BornTasks DEF Lineages, IInv, TInv, Known
  <2> QED
    BY <2>1, <2>2, BornTasks DEF TaskInfo
<1>4. ASSUME NEW p \in Loops, ChainAdds(p)
      PROVE  AddTask(info[cur[p]].course, Chain[info[cur[p]].role], 1, 0, 0) /\ Chain[info[cur[p]].role] \in Roles
  BY <1>3, <1>4, TaskQueueAssumption DEF ChainAdds, NoTask
<1>5. ASSUME NEW p \in Loops, ReflectAdds(p)
      PROVE  AddTask(info[cur[p]].course, Reflector, 1, 0, 0) /\ Reflector \in Roles
  BY <1>5, TaskQueueAssumption DEF ReflectAdds, NoTask
<1>6. ASSUME NEW p \in Loops, RetryAdds(p)
      PROVE  AddTask(info[cur[p]].course, info[cur[p]].role, info[cur[p]].attempt + 1,
                     info[cur[p]].lineage, info[cur[p]].limit)
  BY <1>6 DEF RetryAdds
<1>7. ASSUME NEW p \in Loops, ChainAdds(p)
      PROVE  /\ born' = born + 1 /\ born + 1 \in Tasks
             /\ \A t \in 1..born : info'[t] = info[t]
             /\ info'[born + 1].lineage = born + 1 /\ info'[born + 1].attempt = 1
             /\ info'[born + 1].role = Chain[info[cur[p]].role] /\ info'[born + 1].role \in Roles
  <2> DEFINE c == info[cur[p]].course
             r == Chain[info[cur[p]].role]
  <2>1. AddTask(c, r, 1, 0, 0) /\ r \in Roles
    BY <1>4, <1>7
  <2>2. c \in Courses \cup {NoCourse} /\ 0 \in Nat /\ 1 \in Nat
    BY <1>3, <1>7
  <2> HIDE DEF c, r
  <2>3. /\ born' = born + 1 /\ born + 1 \in Tasks /\ \A t \in 1..born : info'[t] = info[t]
        /\ info'[born + 1].role = r /\ info'[born + 1].attempt = 1
        /\ info'[born + 1].lineage = born + 1
    BY <1>1, <2>1, <2>2
  <2> QED
    BY <2>1, <2>3 DEF r
<1>8. ASSUME NEW p \in Loops, ReflectAdds(p)
      PROVE  /\ born' = born + 1 /\ born + 1 \in Tasks
             /\ \A t \in 1..born : info'[t] = info[t]
             /\ info'[born + 1].lineage = born + 1 /\ info'[born + 1].attempt = 1
             /\ info'[born + 1].role = Reflector
  <2> DEFINE c == info[cur[p]].course
  <2>1. AddTask(c, Reflector, 1, 0, 0) /\ Reflector \in Roles
    BY <1>5, <1>8
  <2>2. c \in Courses \cup {NoCourse} /\ 0 \in Nat /\ 1 \in Nat
    BY <1>3, <1>8
  <2> HIDE DEF c
  <2> QED
    BY <1>1, <2>1, <2>2
<1>9. ASSUME NEW p \in Loops, RetryAdds(p)
      PROVE  /\ born' = born + 1 /\ born + 1 \in Tasks
             /\ \A t \in 1..born : info'[t] = info[t]
             /\ info'[born + 1].lineage = info[cur[p]].lineage
             /\ info'[born + 1].attempt = info[cur[p]].attempt + 1
  <2> DEFINE i == info[cur[p]]
  <2>1. AddTask(i.course, i.role, i.attempt + 1, i.lineage, i.limit)
    BY <1>6, <1>9
  <2>2. /\ i.role \in Roles /\ i.course \in Courses \cup {NoCourse}
        /\ i.attempt + 1 \in Nat /\ i.lineage \in Nat /\ i.lineage # 0 /\ i.limit \in Nat
    BY <1>3, <1>9
  <2> HIDE DEF i
  <2>3. /\ born' = born + 1 /\ born + 1 \in Tasks /\ \A t \in 1..born : info'[t] = info[t]
        /\ info'[born + 1].attempt = i.attempt + 1 /\ info'[born + 1].lineage = i.lineage
    BY <1>1, <2>1, <2>2
  <2> QED
    BY <2>3 DEF i
<1>10. ASSUME NEW p \in Loops, ChainAdds(p) \/ ReflectAdds(p) \/ RetryAdds(p)
       PROVE  AddedAs(born + 1) /\ born' = born + 1 /\ born + 1 \in Tasks
              /\ \A t \in 1..born : info'[t] = info[t]
  <2>1. /\ born' = born + 1 /\ born + 1 \in Tasks
        /\ \A t \in 1..born : info'[t] = info[t]
    BY <1>7, <1>8, <1>9, <1>10
  <2>2. CASE ChainAdds(p)
    <3>1. /\ info'[born + 1].lineage = born + 1 /\ info'[born + 1].attempt = 1
          /\ info'[born + 1].role = Chain[info[cur[p]].role] /\ info'[born + 1].role \in Roles
      BY <1>7, <2>2
    <3> QED
      BY <2>1, <2>2, <3>1, Zenon DEF AddedAs
  <2>3. CASE ReflectAdds(p)
    <3>1. /\ info'[born + 1].lineage = born + 1 /\ info'[born + 1].attempt = 1
          /\ info'[born + 1].role = Reflector
      BY <1>8, <2>3
    <3> QED
      BY <2>1, <2>3, <3>1, Zenon DEF AddedAs
  <2>4. CASE RetryAdds(p)
    <3>1. /\ info'[born + 1].lineage = info[cur[p]].lineage
          /\ info'[born + 1].attempt = info[cur[p]].attempt + 1
      BY <1>9, <2>4
    <3> QED
      BY <2>1, <2>4, <3>1, Zenon DEF AddedAs
  <2> QED
    BY <1>10, <2>2, <2>3, <2>4
<1> QED
  BY <1>2, <1>10 DEF Adding

\* Who retries a task follows the last attempt of its lineage.
LEMMA RetriesLast ==
  ASSUME IInv, Lineages, FollowersOK, NEW p \in Loops, RetryAdds(p), NEW t \in 1..born,
         info[t].lineage = info[cur[p]].lineage
  PROVE  /\ info[t].attempt <= info[cur[p]].attempt /\ Outcome(t) \in Terminal
         /\ t # cur[p] => Superseded(t)
<1>1. cur[p] \in 1..born /\ Follows(p)
  BY Follower DEF RetryAdds, Goto, Follows
<1>2. CASE t = cur[p]
  BY <1>1, <1>2 DEF FollowersOK, Lineages
<1>3. CASE t # cur[p]
  <2>1. SameLineage(t, cur[p]) /\ SameLineage(cur[p], t)
    BY <1>3 DEF SameLineage
  <2>2. ~Superseded(cur[p])
    BY <1>1 DEF Superseded
  <2>3. ~(info[cur[p]].attempt < info[t].attempt)
    BY <1>1, <2>1, <2>2 DEF Lineages
  <2>4. info[t].attempt \in Nat /\ info[cur[p]].attempt \in Nat /\ info[t].attempt # info[cur[p]].attempt
    BY <1>1, <2>1 DEF Lineages
  <2>5. info[t].attempt < info[cur[p]].attempt
    BY <2>3, <2>4
  <2> QED
    BY <1>1, <2>1, <2>4, <2>5 DEF Lineages, Superseded
<1> QED
  BY <1>2, <1>3

LEMMA LineagesStep ==
  ASSUME IInv, IInv', FollowersOK, FollowersOK', Lineages, [Next]_vars
  PROVE  Lineages'
<1>1. 1..born \subseteq Tasks /\ born \in Nat
  BY BornTasks
\* Pairs that are there already.
<1>2. ASSUME \A t \in 1..born : info'[t] = info[t],
             NEW t \in 1..born, NEW u \in 1..born, SameLineage(t, u)'
      PROVE  info'[t].attempt # info'[u].attempt /\ (info'[t].attempt < info'[u].attempt => Superseded(t)')
  <2>1. SameLineage(t, u)
    BY <1>2 DEF SameLineage
  <2> QED
    BY <1>1, <1>2, <2>1, SupersededStays DEF Lineages
<1>3. CASE UNCHANGED <<born, info>>
  <2>1. \A t \in 1..born : info'[t] = info[t]
    BY <1>3
  <2> QED
    BY <1>2, <1>3, <2>1 DEF Lineages
<1>4. CASE Adding
  <2> DEFINE n == born + 1
  <2>1. born' = n /\ n \in Tasks /\ \A t \in 1..born : info'[t] = info[t]
    BY <1>4, AddsOne
  <2>2. 1..born' = (1..born) \cup {n} /\ n \notin 1..born
    BY <1>1, <2>1
  <2>3. \/ info'[n].lineage = n /\ info'[n].attempt = 1
        \/ \E p \in Loops : /\ RetryAdds(p) /\ info'[n].lineage = info[cur[p]].lineage
                            /\ info'[n].attempt = info[cur[p]].attempt + 1
    BY <1>4, AddsOne DEF AddedAs
  <2> HIDE DEF n
  <2>4. CASE info'[n].lineage = n /\ info'[n].attempt = 1
    <3>1. \A t \in 1..born : info'[t].lineage # n
      BY <2>1, <2>2 DEF Lineages
    <3>2. \A t \in 1..born' : info'[t].lineage \in 1..born' /\ info'[t].attempt \in Nat \ {0}
      BY <2>1, <2>2, <2>4 DEF Lineages
    <3>3. \A t, u \in 1..born' : SameLineage(t, u)' => t \in 1..born /\ u \in 1..born
      BY <2>2, <2>4, <3>1 DEF SameLineage
    <3> QED
      BY <1>2, <2>1, <3>2, <3>3 DEF Lineages
  <2>5. ASSUME NEW p \in Loops, RetryAdds(p), info'[n].lineage = info[cur[p]].lineage,
               info'[n].attempt = info[cur[p]].attempt + 1
        PROVE  Lineages'
    <3>1. cur[p] \in 1..born /\ Follows(p) /\ ~Follows(p)'
      BY <2>5, Follower DEF RetryAdds, Goto, Follows, IInv, TInv, TypeOK
    <3>2. \A t \in 1..born' : info'[t].lineage \in 1..born' /\ info'[t].attempt \in Nat \ {0}
      BY <2>1, <2>2, <2>5, <3>1 DEF Lineages
    <3>3. ASSUME NEW t \in 1..born, info'[t].lineage = info'[n].lineage
          PROVE  info'[t].attempt < info'[n].attempt /\ Superseded(t)'
      <4>1. /\ info[t].attempt <= info[cur[p]].attempt /\ Outcome(t) \in Terminal
            /\ t # cur[p] => Superseded(t)
        BY <2>1, <2>5, <3>3, RetriesLast
      <4>2. info[t].attempt \in Nat /\ info[cur[p]].attempt \in Nat
        BY <3>1 DEF Lineages
      <4>3. info'[t].attempt < info'[n].attempt
        BY <2>1, <2>5, <4>1, <4>2
      <4>4. CASE t # cur[p]
        BY <1>1, <4>1, <4>3, <4>4, SupersededStays
      <4>5. CASE t = cur[p]
        <5>1. (Outcome(t) \in Terminal)'
          BY <1>1, <4>1, FinalNext
        <5>2. ASSUME NEW q \in Loops, Follows(q)' PROVE cur'[q] # t
          <6>1. q # p /\ cur'[q] = cur[q] /\ ((GoesOn(q) /\ Follows(q)) \/ StepEnds(q))
            BY <3>1, <5>2, OriginStep, GoesOnFollows DEF Origin
          <6>2. CASE Follows(q)
            BY <3>1, <4>5, <6>1, <6>2 DEF FollowersOK
          <6>3. CASE StepEnds(q)
            BY <4>1, <6>1, <6>3, EndsRunning DEF Terminal
          <6> QED
            BY <6>1, <6>2, <6>3
        <5> QED
          BY <4>3, <5>1, <5>2 DEF Superseded
      <4> QED
        BY <4>3, <4>4, <4>5
    <3>4. ASSUME NEW t \in 1..born', NEW u \in 1..born', SameLineage(t, u)'
          PROVE  info'[t].attempt # info'[u].attempt /\ (info'[t].attempt < info'[u].attempt => Superseded(t)')
      <4>1. CASE t \in 1..born /\ u \in 1..born
        BY <1>2, <2>1, <3>4, <4>1
      <4>2. info'[t].attempt \in Nat /\ info'[u].attempt \in Nat
        BY <3>2
      <4>3. CASE t \in 1..born /\ u = n
        BY <3>3, <3>4, <4>2, <4>3 DEF SameLineage
      <4>4. CASE t = n /\ u \in 1..born
        BY <3>3, <3>4, <4>2, <4>4 DEF SameLineage
      <4> QED
        BY <2>2, <3>4, <4>1, <4>3, <4>4 DEF SameLineage
    <3> QED
      BY <3>2, <3>4 DEF Lineages
  <2> QED
    BY <2>3, <2>4, <2>5
<1> QED
  BY <1>3, <1>4, AddsOrNot

\* _maybe_retry: the loops never have two attempts of a lineage in flight, nor
\* two with one number, whatever the crashes.
THEOREM OneLiveAttemptHolds == ASSUME Fleet PROVE Spec /\ [][LeasesKept]_vars => []OneLiveAttempt
<1>1. Init => IInv /\ FollowersOK /\ Lineages
  BY IInvInit, FollowersInit, LineagesInit
<1>2. IInv /\ FollowersOK /\ Lineages /\ [Next]_vars /\ [LeasesKept]_vars
        => IInv' /\ FollowersOK' /\ Lineages'
  BY IInvNext, FollowersStep, LineagesStep
<1>3. Lineages => OneLiveAttempt
  <2> SUFFICES ASSUME Lineages, NEW t \in 1..born, NEW u \in 1..born, t # u,
                      info[t].lineage = info[u].lineage
               PROVE  /\ info[t].attempt # info[u].attempt
                      /\ Outcome(t) \in Terminal \/ Outcome(u) \in Terminal
    BY DEF OneLiveAttempt
  <2>1. SameLineage(t, u) /\ SameLineage(u, t)
    BY DEF SameLineage
  <2>2. info[t].attempt \in Nat /\ info[u].attempt \in Nat /\ info[t].attempt # info[u].attempt
    BY <2>1 DEF Lineages
  <2>3. info[t].attempt < info[u].attempt \/ info[u].attempt < info[t].attempt
    BY <2>2
  <2> QED
    BY <2>1, <2>2, <2>3 DEF Lineages, Superseded
<1> QED
  BY <1>1, <1>2, <1>3, PTL DEF Spec

-----------------------------------------------------------------------------
(* A finished task is followed up once                                     *)

\* What FollowUpOnce counts, for a role r: its first attempts, and the finished tasks that
\* ask for one.
First(r) == {u \in 1..born : info[u].role = r /\ info[u].attempt = 1}
Source(r) == IF r = Reflector THEN ReflectAfter \ {Reflector} ELSE {s \in Roles : Chain[s] = r}
Finished(r) == {t \in 1..born : info[t].role \in Source(r) /\ Outcome(t) = "done"}

\* p has not yet decided whether t is followed by a task of role r.
Due(p, t, r) ==
  /\ cur[p] = t /\ pc[p] \in {"release", "unlink", "file", "chain", "reflect"}
  /\ pc[p] \in {"release", "unlink", "file"} => mem[p] = "done"
  /\ pc[p] = "reflect" => r = Reflector
Paid(r) == {t \in Finished(r) : \A p \in Loops : ~Due(p, t, r)}

\* Each first attempt of a role nobody adds by hand has a finished task that paid for it.
Settled == \A r \in Roles \ OwnerRoles : Cardinality(First(r)) <= Cardinality(Paid(r))

LEMMA Counted ==
  ASSUME IInv, NEW r
  PROVE  /\ IsFiniteSet(First(r)) /\ IsFiniteSet(Paid(r)) /\ IsFiniteSet(Finished(r))
         /\ Cardinality(First(r)) \in Nat /\ Cardinality(Paid(r)) \in Nat
         /\ Cardinality(Finished(r)) \in Nat
<1>1. born \in Int /\ 1 \in Int
  BY BornTasks
<1>2. IsFiniteSet(1..born)
  BY <1>1, FS_Interval
<1>3. First(r) \in SUBSET (1..born) /\ Paid(r) \in SUBSET (1..born) /\ Finished(r) \in SUBSET (1..born)
  BY DEF First, Paid, Finished
<1>4. IsFiniteSet(First(r)) /\ IsFiniteSet(Paid(r)) /\ IsFiniteSet(Finished(r))
  BY <1>2, <1>3, FS_Subset
<1> QED
  BY <1>4, FS_CardinalityType

\* Only a task that p ends, or follows, can be due.
LEMMA DueGoesOn ==
  ASSUME IInv, [Next]_vars, NEW t \in 1..born, NEW r, NEW p \in Loops, Due(p, t, r)'
  PROVE  cur[p] = t /\ (Due(p, t, r) \/ StepEnds(p))
<1>1. Follows(p)'
  BY DEF Due, Follows, Terminal
<1>2. cur'[p] = cur[p] /\ (GoesOn(p) \/ StepEnds(p))
  BY <1>1, OriginStep DEF Origin
<1>3. CASE GoesOn(p)
  BY <1>2, <1>3 DEF GoesOn, Due
<1> QED
  BY <1>2, <1>3 DEF Due

\* What finished stays so, and what is paid stays paid.
LEMMA PaidStays ==
  ASSUME IInv, [Next]_vars, \A t \in 1..born : info'[t] = info[t], born' >= born, born' \in Nat,
         NEW r
  PROVE  /\ Finished(r) \subseteq Finished(r)'
         /\ Paid(r) \subseteq Paid(r)'
<1>1. 1..born \subseteq 1..born' /\ 1..born \subseteq Tasks
  BY BornTasks
<1>2. Finished(r) \subseteq Finished(r)'
  <2> SUFFICES ASSUME NEW t \in Finished(r) PROVE t \in Finished(r)'
    OBVIOUS
  <2>1. t \in 1..born /\ t \in Tasks /\ t \in 1..born' /\ info'[t] = info[t] /\ info[t].role \in Source(r)
        /\ Outcome(t) = "done"
    BY <1>1 DEF Finished
  <2>2. (Outcome(t) = "done")'
    BY <2>1, FinalNext DEF Terminal
  <2> QED
    BY <2>1, <2>2 DEF Finished, Source
<1>3. ASSUME NEW t \in Paid(r) PROVE t \in Paid(r)'
  <2>1. t \in Finished(r) /\ t \in 1..born /\ Outcome(t) = "done" /\ \A p \in Loops : ~Due(p, t, r)
    BY DEF Paid, Finished
  <2>2. ASSUME NEW p \in Loops, Due(p, t, r)' PROVE FALSE
    <3>1. cur[p] = t /\ StepEnds(p)
      BY <2>1, <2>2, DueGoesOn
    <3> QED
      BY <2>1, <3>1, EndsRunning
  <2> QED
    BY <1>2, <2>1, <2>2 DEF Paid
<1> QED
  BY <1>2, <1>3

\* Who adds a follow-up pays with the task it follows.
LEMMA Pays ==
  ASSUME IInv, FollowersOK, [Next]_vars, NEW p \in Loops, NEW r,
         \A t \in 1..born : info'[t] = info[t], born' >= born, born' \in Nat,
         \/ pc[p] = "chain" /\ pc'[p] = "reflect" /\ r # Reflector
         \/ pc[p] = "reflect" /\ pc'[p] = "idle" /\ r = Reflector,
         info[cur[p]].role \in Source(r)
  PROVE  cur[p] \notin Paid(r) /\ cur[p] \in Paid(r)'
<1>1. Follows(p) /\ Due(p, cur[p], r) /\ ~Due(p, cur[p], r)' /\ Outcome(cur[p]) = "done"
  BY DEF Follows, Due, FollowersOK
<1>2. cur[p] \in 1..born /\ cur[p] \in Finished(r)
  BY <1>1, Follower DEF Finished
<1>3. PICK t \in 1..born : t = cur[p]
  BY <1>2
<1>4. t \notin Paid(r)
  BY <1>1, <1>3 DEF Paid
<1>5. t \in Finished(r)'
  BY <1>2, <1>3, PaidStays
<1>6. ASSUME NEW q \in Loops, Due(q, t, r)' PROVE FALSE
  <2>1. cur[q] = t /\ (Due(q, t, r) \/ StepEnds(q))
    BY <1>6, DueGoesOn
  <2>2. CASE StepEnds(q)
    BY <1>1, <1>3, <2>1, <2>2, EndsRunning
  <2>3. CASE Due(q, t, r)
    <3>1. Follows(q)
      BY <2>3 DEF Due, Follows, Terminal
    <3>2. q = p
      BY <1>1, <1>3, <2>1, <3>1 DEF FollowersOK
    <3> QED
      BY <1>6, <3>2 DEF Due
  <2> QED
    BY <2>1, <2>2, <2>3
<1> QED
  BY <1>3, <1>4, <1>5, <1>6 DEF Paid

\* The chain does not lead to the reflector.
NoChainToReflector == \A s \in Roles : Chain[s] # Reflector

LEMMA SettledInit == Init => Settled
<1> SUFFICES ASSUME Init, NEW r \in Roles \ OwnerRoles
             PROVE  Cardinality(First(r)) <= Cardinality(Paid(r))
  BY DEF Settled
<1>1. First(r) = {} /\ Paid(r) = {}
  BY DEF Init, First, Paid, Finished
<1> QED
  BY <1>1, FS_EmptySet

LEMMA SettledStep ==
  ASSUME NoChainToReflector, IInv, IInv', FollowersOK, Lineages, Settled, [Next]_vars
  PROVE  Settled'
<1> SUFFICES ASSUME NEW r \in Roles \ OwnerRoles
             PROVE  (Cardinality(First(r)) <= Cardinality(Paid(r)))'
  BY DEF Settled
<1>1. /\ Cardinality(First(r)) <= Cardinality(Paid(r))
      /\ Cardinality(First(r)) \in Nat /\ Cardinality(Paid(r)) \in Nat
      /\ IsFiniteSet(First(r)) /\ IsFiniteSet(Paid(r))
  BY Counted DEF Settled
<1>2. /\ Cardinality(First(r))' \in Nat /\ Cardinality(Paid(r))' \in Nat
      /\ IsFiniteSet(First(r)') /\ IsFiniteSet(Paid(r)')
  <2>1. (/\ IsFiniteSet(First(r)) /\ IsFiniteSet(Paid(r))
         /\ Cardinality(First(r)) \in Nat /\ Cardinality(Paid(r)) \in Nat)'
    BY Counted, PTL
  <2> QED
    BY <2>1
<1>3. born \in Nat
  BY BornTasks
<1>4. ASSUME First(r)' = First(r), Paid(r) \subseteq Paid(r)' PROVE (Cardinality(First(r)) <= Cardinality(Paid(r)))'
  <2>1. Cardinality(Paid(r)) <= Cardinality(Paid(r)')
    BY <1>2, <1>4, FS_Subset
  <2> QED
    BY <1>1, <1>2, <1>4, <2>1
<1>5. CASE UNCHANGED <<born, info>>
  <2>1. First(r)' = First(r)
    BY <1>5 DEF First
  <2>2. Paid(r) \subseteq Paid(r)'
    BY <1>3, <1>5, PaidStays
  <2> QED
    BY <1>4, <2>1, <2>2
<1>6. CASE Adding
  <2> DEFINE n == born + 1
  <2>1. born' = n /\ \A t \in 1..born : info'[t] = info[t]
    BY <1>6, AddsOne
  <2>2. 1..born' = (1..born) \cup {n} /\ n \notin 1..born /\ born' >= born /\ born' \in Nat
    BY <1>3, <2>1
  <2>3. Paid(r) \subseteq Paid(r)'
    BY <2>1, <2>2, PaidStays
  <2>4. \/ info'[n].role # r \/ info'[n].attempt # 1
        \/ \E p \in Loops : ChainAdds(p) /\ r = Chain[info[cur[p]].role]
        \/ \E p \in Loops : ReflectAdds(p) /\ r = Reflector
    <3>1. AddedAs(n)
      BY <1>6, AddsOne
    <3>2. ASSUME NEW p \in Loops, RetryAdds(p), info'[n].attempt = info[cur[p]].attempt + 1
          PROVE  info'[n].attempt # 1
      <4>1. cur[p] \in 1..born
        BY <3>2, Follower DEF RetryAdds, Goto, Follows
      <4> QED
        BY <3>2, <4>1 DEF Lineages
    <3> HIDE DEF n
    <3> QED
      BY <3>1, <3>2 DEF AddedAs
  <2> HIDE DEF n
  <2>5. CASE info'[n].role # r \/ info'[n].attempt # 1
    <3>1. First(r)' = First(r)
      BY <2>1, <2>2, <2>5 DEF First
    <3> QED
      BY <1>4, <2>3, <3>1
  <2>6. ASSUME NEW x, x \notin Paid(r), x \in Paid(r)' PROVE (Cardinality(First(r)) <= Cardinality(Paid(r)))'
    <3>1. Cardinality(Paid(r) \cup {x}) = Cardinality(Paid(r)) + 1
      BY <1>1, <2>6, FS_AddElement
    <3>2. Paid(r) \cup {x} \in SUBSET Paid(r)'
      BY <2>3, <2>6
    <3>3. Cardinality(Paid(r) \cup {x}) <= Cardinality(Paid(r)')
      BY <1>2, <3>2, FS_Subset
    <3>4. IsFiniteSet(First(r) \cup {n}) /\ Cardinality(First(r) \cup {n}) <= Cardinality(First(r)) + 1
          /\ Cardinality(First(r) \cup {n}) \in Nat
      <4>1. /\ IsFiniteSet(First(r) \cup {n})
            /\ Cardinality(First(r) \cup {n}) = IF n \in First(r) THEN Cardinality(First(r)) ELSE Cardinality(First(r)) + 1
        BY <1>1, FS_AddElement
      <4> QED
        BY <1>1, <4>1
    <3>5. First(r)' \in SUBSET (First(r) \cup {n})
      BY <2>1, <2>2 DEF First
    <3>6. Cardinality(First(r)') <= Cardinality(First(r) \cup {n})
      BY <3>4, <3>5, FS_Subset
    <3> QED
      BY <1>1, <1>2, <3>1, <3>3, <3>4, <3>6
  <2>7. ASSUME NEW p \in Loops, ChainAdds(p), r = Chain[info[cur[p]].role]
        PROVE  (Cardinality(First(r)) <= Cardinality(Paid(r)))'
    <3>1. pc[p] = "chain" /\ pc'[p] = "reflect"
      BY <2>7 DEF ChainAdds, Goto, IInv, TInv, TypeOK
    <3>2. cur[p] \in 1..born /\ info[cur[p]].role \in Roles
      BY <3>1, Follower, BornTasks DEF Follows, IInv, TInv, Known, TypeOK, TaskInfo
    <3>3. r # Reflector /\ info[cur[p]].role \in Source(r)
      BY <2>7, <3>2 DEF NoChainToReflector, Source
    <3>4. cur[p] \notin Paid(r) /\ cur[p] \in Paid(r)'
      BY <2>1, <2>2, <3>1, <3>3, Pays
    <3> QED
      BY <2>6, <3>4
  <2>8. ASSUME NEW p \in Loops, ReflectAdds(p), r = Reflector
        PROVE  (Cardinality(First(r)) <= Cardinality(Paid(r)))'
    <3>1. pc[p] = "reflect" /\ pc'[p] = "idle" /\ info[cur[p]].role \in Source(r)
      BY <2>8 DEF ReflectAdds, Reflects, Source, Goto, IInv, TInv, TypeOK
    <3>2. cur[p] \notin Paid(r) /\ cur[p] \in Paid(r)'
      BY <2>1, <2>2, <2>8, <3>1, Pays
    <3> QED
      BY <2>6, <3>2
  <2> QED
    BY <2>4, <2>5, <2>7, <2>8
<1> QED
  BY <1>5, <1>6, AddsOrNot

\* _maybe_queue_chain, _maybe_queue_reflection: the loops never follow a finished
\* task up twice, if no role is chained to the reflector.
THEOREM FollowUpOnceHolds ==
  ASSUME Fleet, NoChainToReflector PROVE Spec /\ [][LeasesKept]_vars => []FollowUpOnce
<1>1. Init => IInv /\ FollowersOK /\ Lineages /\ Settled
  BY IInvInit, FollowersInit, LineagesInit, SettledInit
<1>2. IInv /\ FollowersOK /\ Lineages /\ Settled /\ [Next]_vars /\ [LeasesKept]_vars
        => IInv' /\ FollowersOK' /\ Lineages' /\ Settled'
  BY IInvNext, FollowersStep, LineagesStep, SettledStep
<1>3. IInv /\ Settled => FollowUpOnce
  <2> SUFFICES ASSUME IInv, Settled, NEW r \in Roles \ OwnerRoles
               PROVE  Cardinality(First(r)) <= Cardinality(Finished(r))
    BY DEF FollowUpOnce, First, Finished, Source
  <2>1. Paid(r) \in SUBSET Finished(r)
    BY DEF Paid
  <2>2. Cardinality(Paid(r)) <= Cardinality(Finished(r))
    BY <2>1, Counted, FS_Subset
  <2> QED
    BY <2>2, Counted DEF Settled
<1> QED
  BY <1>1, <1>2, <1>3, PTL DEF Spec
-----------------------------------------------------------------------------
(* A course's lock is taken when it is free *)

\* The state mutex names the loop in its critical section, and from the check of the course's
\* lock to acquire_lock nobody else creates that lock: only acquire_lock does.
ClaimOf(p) ==
  /\ InMutex(p) <=> mutex = p
  /\ pc[p] \in {"save", "take"} => LockFree(cur[p])

ClaimsOK == \A p \in Loops : ClaimOf(p)

NoneReplaced == \A c \in Courses : lock[c] # NoTask /\ lock'[c] # NoTask => lock'[c] = lock[c]

\* Tasks keep their course.
LEMMA SameInfo == ASSUME TInv, [Next]_vars PROVE \A t \in 1..born : info'[t] = info[t]
<1>1. born \in Nat /\ info \in [Tasks -> TaskInfo] /\ \A t \in 1..born : t # born + 1
  BY TaskQueueAssumption DEF TInv, TypeOK
<1>2. ASSUME NEW i, info' = [info EXCEPT ![born + 1] = i] PROVE \A t \in 1..born : info'[t] = info[t]
  BY <1>1, <1>2
<1>3. CASE Adding
  <2>1. \E c, r, n, l, k : AddTask(c, r, n, l, k)
    BY <1>3 DEF Adding, OwnerAdds, ChainAdds, ReflectAdds, RetryAdds
  <2> QED
    BY <1>2, <2>1 DEF AddTask
<1> QED
  BY <1>3, AddsOrNot

\* A step that only removes locks, and moves one loop.
LEMMA ClaimFrame ==
  ASSUME TInv, ClaimsOK, NEW p \in Loops, \A t \in 1..born : info'[t] = info[t],
         \A c \in Courses : lock'[c] \in {lock[c], NoTask},
         \A q \in Loops \ {p} : pc'[q] = pc[q] /\ cur'[q] = cur[q] /\ (mutex' = q <=> mutex = q),
         ClaimOf(p)'
  PROVE  ClaimsOK' /\ NoneReplaced
<1>1. ASSUME NEW q \in Loops \ {p} PROVE ClaimOf(q)'
  <2>1. pc'[q] \in {"save", "take"} => cur'[q] \in 1..born /\ LockFree(cur[q])
    BY <1>1 DEF ClaimsOK, ClaimOf, TInv, Known, Idle
  <2>2. pc'[q] \in {"save", "take"} => LockFree(cur[q])'
    BY <1>1, <2>1 DEF LockFree
  <2> QED
    BY <1>1, <2>2 DEF ClaimsOK, ClaimOf, InMutex
<1>2. ClaimsOK'
  BY <1>1 DEF ClaimsOK
<1> QED
  BY <1>2 DEF NoneReplaced

\* The locks stay, and no loop moves to or from the critical section.
LEMMA ClaimStutter ==
  ASSUME TInv, ClaimsOK, \A t \in 1..born : info'[t] = info[t], UNCHANGED <<mutex, lock, pc, cur>>
  PROVE  ClaimsOK' /\ NoneReplaced
<1>1. ASSUME NEW q \in Loops PROVE ClaimOf(q)'
  <2>1. pc[q] \in {"save", "take"} => cur[q] \in 1..born /\ LockFree(cur[q])
    BY DEF ClaimsOK, ClaimOf, TInv, Known, Idle
  <2> QED
    BY <2>1 DEF ClaimsOK, ClaimOf, InMutex, LockFree
<1> QED
  BY <1>1 DEF ClaimsOK, NoneReplaced

LEMMA ClaimSteps ==
  ASSUME TInv, ClaimsOK, NEW p \in Loops, \A t \in 1..born : info'[t] = info[t],
         LoopStep(p) \/ Start(p) \/ Signal(p) \/ WatchdogTick(p) \/ Ends(p)
  PROVE  ClaimsOK' /\ NoneReplaced
<1> DEFINE Moves == \A q \in Loops \ {p} : pc'[q] = pc[q] /\ cur'[q] = cur[q]
<1> USE DEF TInv, TypeOK, Goto, Forgotten, Selected
<1>0. Nobody \notin Loops /\ (InMutex(p) <=> mutex = p)
  BY TaskQueueAssumption DEF ClaimsOK, ClaimOf
<1>1. CASE \/ ShutDown(p) \/ HoldDrains(p) \/ SelectResumable(p) \/ SelectQueued(p)
           \/ ScanFree(p) \/ ScanStale(p) \/ ScanEmpty(p) \/ ScanBreakRaises(p)
           \/ ClaimLost(p) \/ AdoptLost(p) \/ Start(p)
  <2>1. /\ Moves /\ UNCHANGED <<mutex, lock>> /\ ~InMutex(p)
        /\ pc'[p] \in {"gone", "adopt", "scan", "claim", "scanbreak", "idle", "raised"}
    BY <1>1 DEF ShutDown, HoldDrains, SelectResumable, SelectQueued, ScanFree, ScanStale, ScanEmpty,
       ScanBreakRaises, ClaimLost, AdoptLost, Start, lockVars, InMutex
  <2> QED
    BY <1>0, <2>1, ClaimFrame DEF ClaimOf, InMutex
<1>2. CASE \/ BreakOff(p) \/ ReleaseOwned(p) \/ ReleaseOther(p) \/ StepEnds(p)
           \/ FileMemory(p) \/ FileUnscored(p) \/ FileNothing(p) \/ ChainAdds(p) \/ ChainEnds(p)
           \/ ReflectAdds(p) \/ ReflectSkips(p) \/ RetryAdds(p) \/ RetryGivesUp(p)
  <2>1. /\ Moves /\ UNCHANGED <<mutex, lock>> /\ ~InMutex(p)
        /\ pc'[p] \in {"release", "unlink", "file", "chain", "reflect", "retry", "idle"}
    BY <1>2 DEF BreakOff, ReleaseOwned, ReleaseOther, StepEnds, FileMemory, FileUnscored, FileNothing,
       ChainAdds, ChainEnds, ReflectAdds, ReflectSkips, RetryAdds, RetryGivesUp, AfterFiling, lockVars,
       InMutex
  <2> QED
    BY <1>0, <2>1, ClaimFrame DEF ClaimOf, InMutex
<1>3. CASE ScanBreak(p) \/ Unlink(p)
  <2>1. /\ Moves /\ mutex' = mutex /\ ~InMutex(p) /\ pc'[p] \in {"claim", "file"}
        /\ \A c \in Courses : lock'[c] \in {lock[c], NoTask}
    BY <1>3 DEF ScanBreak, Unlink, Unlocked, InMutex
  <2> QED
    BY <1>0, <2>1, ClaimFrame DEF ClaimOf, InMutex
<1>4. CASE ScanHeld(p) \/ StepRuns(p) \/ Signal(p) \/ WatchdogTick(p)
  BY <1>4, ClaimStutter DEF ScanHeld, StepRuns, Signal, WatchdogTick, loopVars, lockVars
<1>5. CASE BeginClaim(p) \/ BeginAdopt(p)
  <2>1. /\ Moves /\ lock' = lock /\ pc'[p] = "check" /\ mutex = Nobody /\ mutex' = p
    BY <1>5 DEF BeginClaim, BeginAdopt
  <2> QED
    BY <1>0, <2>1, ClaimFrame DEF ClaimOf, InMutex
<1>6. CASE CheckHeld(p) \/ ClaimBreakRaises(p)
  <2>1. /\ Moves /\ lock' = lock /\ pc'[p] \in {"idle", "raised"} /\ mutex = p /\ mutex' = Nobody
    BY <1>0, <1>6 DEF CheckHeld, ClaimBreakRaises, InMutex
  <2> QED
    BY <1>0, <2>1, ClaimFrame DEF ClaimOf, InMutex
<1>7. CASE CheckStale(p)
  <2>1. Moves /\ UNCHANGED <<mutex, lock>> /\ pc[p] = "check" /\ pc'[p] = "break"
    BY <1>7 DEF CheckStale, lockVars
  <2> QED
    BY <1>0, <2>1, ClaimFrame DEF ClaimOf, InMutex
<1>8. CASE CheckFree(p) \/ Save(p)
  <2>1. /\ Moves /\ UNCHANGED <<mutex, lock, info>> /\ pc[p] \in {"check", "save"}
        /\ pc'[p] \in {"save", "take"} /\ cur' = cur /\ LockFree(cur[p])
    BY <1>8 DEF CheckFree, Save, lockVars, fileVars, ClaimsOK, ClaimOf
  <2>2. LockFree(cur[p])'
    BY <2>1 DEF LockFree
  <2> QED
    BY <1>0, <2>1, <2>2, ClaimFrame DEF ClaimOf, InMutex
<1>9. CASE ClaimBreak(p)
  <2>1. /\ Moves /\ UNCHANGED <<mutex, info>> /\ pc[p] = "break" /\ pc'[p] = "save" /\ cur' = cur
        /\ lock' = [lock EXCEPT ![info[cur[p]].course] = NoTask]
    BY <1>9 DEF ClaimBreak, Unlocked, fileVars
  <2>2. /\ \A c \in Courses : lock'[c] \in {lock[c], NoTask}
        /\ LockFree(cur[p])'
    BY <2>1 DEF LockFree
  <2> QED
    BY <1>0, <2>1, <2>2, ClaimFrame DEF ClaimOf, InMutex
<1>10. CASE TakeLock(p)
  <2>1. /\ Moves /\ UNCHANGED <<info, cur>> /\ pc[p] = "take" /\ pc'[p] = "work" /\ mutex' = Nobody
        /\ lock' = lock \/ lock' = [lock EXCEPT ![info[cur[p]].course] = cur[p]]
    BY <1>10 DEF TakeLock, fileVars
  <2>2. mutex = p /\ LockFree(cur[p])
    BY <1>0, <2>1 DEF InMutex, ClaimsOK, ClaimOf
  <2>3. NoneReplaced
    BY <2>1, <2>2 DEF NoneReplaced, LockFree
  <2>4. ASSUME NEW q \in Loops PROVE ClaimOf(q)'
    <3>1. CASE q = p BY <1>0, <2>1, <3>1 DEF ClaimOf, InMutex
    <3>2. CASE q # p
      <4>1. ~InMutex(q) BY <2>2, <3>2 DEF ClaimsOK, ClaimOf
      <4> QED BY <1>0, <2>1, <3>2, <4>1 DEF ClaimOf, InMutex
    <3> QED BY <3>1, <3>2
  <2> QED
    BY <2>3, <2>4 DEF ClaimsOK
<1>11. CASE Ends(p)
  <2>1. /\ Moves /\ lock' = lock /\ pc'[p] \in {"gone", "raised"}
        /\ mutex' = IF mutex = p THEN Nobody ELSE mutex
    <3>1. CASE Crash(p) \/ CrashInTrim(p) BY <3>1 DEF Crash, CrashInTrim, Dies
    <3>2. CASE CommitRaises(p) \/ ScanRaises(p)
      BY <1>0, <3>2 DEF CommitRaises, ScanRaises, Raised, InMutex, lockVars
    <3> QED BY <1>11, <3>1, <3>2 DEF Ends
  <2> QED
    BY <1>0, <2>1, ClaimFrame DEF ClaimOf, InMutex
<1> QED
  BY <1>1, <1>2, <1>3, <1>4, <1>5, <1>6, <1>7, <1>8, <1>9, <1>10, <1>11 DEF LoopStep

LEMMA ClaimsNext == ASSUME TInv, ClaimsOK, [Next]_vars PROVE ClaimsOK' /\ NoneReplaced
<1>1. \A t \in 1..born : info'[t] = info[t]
  BY SameInfo
<1>2. CASE UNCHANGED <<mutex, lock, pc, cur>>
  BY <1>1, <1>2, ClaimStutter
<1>3. CASE \E p \in Loops : LoopStep(p) \/ Start(p) \/ Signal(p) \/ WatchdogTick(p)
                             \/ Ends(p)
  BY <1>1, <1>3, ClaimSteps
<1> QED
  BY <1>2, <1>3 DEF Next, vars, AnswerReads, AnswerCommits, LockAges, LeaseLapses, OwnerAdds,
     lockVars, loopVars

\* Whatever the hosts and pids, also when a lease lapses under a live loop and its task is
\* adopted: acquire_lock writes over no other task's lock, because the mutex is held from can_lock on.
THEOREM NeverTakenOverHolds == Spec => NeverTakenOver
<1>1. Init => ClaimsOK
  BY TaskQueueAssumption DEF Init, ClaimsOK, ClaimOf, InMutex
<1>2. ASSUME TInv, ClaimsOK, [Next]_vars PROVE ClaimsOK' /\ NoneReplaced
  BY <1>2, ClaimsNext
<1>3. TInv /\ ClaimsOK /\ [Next]_vars => (TInv /\ ClaimsOK)'
  BY <1>2, TInvNext
<1>4. TInv /\ ClaimsOK /\ [Next]_vars =>
        [\A c \in Courses : lock[c] # NoTask /\ lock'[c] # NoTask => lock'[c] = lock[c]]_vars
  BY <1>2 DEF NoneReplaced
<1> QED
  BY <1>1, <1>3, <1>4, TInvInit, PTL DEF Spec, NeverTakenOver

-----------------------------------------------------------------------------
(* How a loop at work loses its course's lock, and that nothing else makes two writers *)

\* The course of a loop's task; p works under the lock of its course; a step leaves it at work
\* without the lock.
Course(p) == info[cur[p]].course
Holds(p) == pc[p] = "work" /\ Course(p) \in Courses /\ lock[Course(p)] = cur[p]
Loses(p) == Holds(p) /\ pc'[p] = "work" /\ lock'[Course(p)] # cur[p]
Unrobbed == \A p \in Loops : ~Loses(p)

\* r removes the lock of p's course: on the word of a snapshot or of a file that was still empty,
\* by its age, or because r saw its own task in the file a moment ago.
Robs(r, p) ==
  /\ Course(r) = Course(p)
  /\ ScanBreak(r) \/ (ClaimBreak(r) /\ lockOld[Course(p)]) \/ Unlink(r)

\* Who is at work has acquired the lock, and a lock judged stale under the mutex is not a
\* working loop's, unless it is old.
HoldersOK == \A p \in Loops : pc[p] = "work" /\ Course(p) \in Courses => Holds(p)
JudgedOK ==
  \A r, p \in Loops : pc[r] = "break" /\ Holds(p) /\ Course(r) = Course(p) => lockOld[Course(p)]

\* What moves a lock, and where a loop at work, or about to break a lock, comes from.
Relocks ==
  \/ lock' = lock /\ \A c \in Courses : lockOld[c] => lockOld'[c]
  \/ \E r \in Loops : ScanBreak(r) \/ ClaimBreak(r) \/ Unlink(r) \/ TakeLock(r)
Arrives(q) ==
  pc'[q] \in {"work", "break"} =>
    cur'[q] = cur[q] /\ (pc'[q] = pc[q] \/ TakeLock(q) \/ CheckStale(q))

LEMMA RelocksOf ==
  ASSUME TInv, NEW p \in Loops,
         LoopStep(p) \/ Start(p) \/ Signal(p) \/ WatchdogTick(p) \/ Ends(p)
  PROVE  Relocks /\ \A q \in Loops : Arrives(q)
<1> DEFINE Moves == \A q \in Loops \ {p} : pc'[q] = pc[q] /\ cur'[q] = cur[q]
           Rests == UNCHANGED <<lock, lockOld>>
<1> USE DEF TInv, TypeOK, Goto, Forgotten, Selected
<1>1. CASE \/ ShutDown(p) \/ HoldDrains(p) \/ SelectResumable(p) \/ SelectQueued(p)
           \/ ScanFree(p) \/ ScanStale(p) \/ ScanEmpty(p) \/ ScanBreakRaises(p)
           \/ ClaimLost(p) \/ AdoptLost(p) \/ Start(p)
  <2>1. /\ Moves /\ Rests
        /\ pc'[p] \in {"gone", "adopt", "scan", "claim", "scanbreak", "idle", "raised"}
    BY <1>1 DEF ShutDown, HoldDrains, SelectResumable, SelectQueued, ScanFree, ScanStale, ScanEmpty,
       ScanBreakRaises, ClaimLost, AdoptLost, Start, lockVars
  <2> QED
    BY <2>1 DEF Relocks, Arrives
<1>2. CASE \/ BreakOff(p) \/ ReleaseOwned(p) \/ ReleaseOther(p) \/ StepEnds(p)
           \/ FileMemory(p) \/ FileUnscored(p) \/ FileNothing(p) \/ ChainAdds(p) \/ ChainEnds(p)
           \/ ReflectAdds(p) \/ ReflectSkips(p) \/ RetryAdds(p) \/ RetryGivesUp(p)
  <2>1. /\ Moves /\ Rests
        /\ pc'[p] \in {"release", "unlink", "file", "chain", "reflect", "retry", "idle"}
    BY <1>2 DEF BreakOff, ReleaseOwned, ReleaseOther, StepEnds, FileMemory, FileUnscored, FileNothing,
       ChainAdds, ChainEnds, ReflectAdds, ReflectSkips, RetryAdds, RetryGivesUp, AfterFiling, lockVars
  <2> QED
    BY <2>1 DEF Relocks, Arrives
<1>3. CASE ScanBreak(p) \/ Unlink(p) \/ ClaimBreak(p)
  <2>1. Moves /\ pc'[p] \in {"claim", "file", "save"}
    BY <1>3 DEF ScanBreak, Unlink, ClaimBreak
  <2> QED
    BY <1>3, <2>1 DEF Relocks, Arrives
<1>4. CASE ScanHeld(p) \/ StepRuns(p) \/ Signal(p) \/ WatchdogTick(p)
  <2>1. Rests /\ pc' = pc /\ cur' = cur
    BY <1>4 DEF ScanHeld, StepRuns, Signal, WatchdogTick, loopVars, lockVars
  <2> QED
    BY <2>1 DEF Relocks, Arrives
<1>5. CASE \/ BeginClaim(p) \/ BeginAdopt(p) \/ CheckHeld(p) \/ ClaimBreakRaises(p) \/ CheckFree(p)
           \/ Save(p) \/ Ends(p)
  <2>1. Moves /\ Rests /\ pc'[p] \in {"check", "idle", "raised", "save", "take", "gone"}
    BY <1>5 DEF BeginClaim, BeginAdopt, CheckHeld, ClaimBreakRaises, CheckFree, Save,
       Ends, Crash, CrashInTrim, CommitRaises, ScanRaises, Dies, Raised, lockVars
  <2> QED
    BY <2>1 DEF Relocks, Arrives
<1>6. CASE CheckStale(p)
  <2>1. Moves /\ Rests /\ cur' = cur
    BY <1>6 DEF CheckStale, lockVars
  <2> QED
    BY <1>6, <2>1 DEF Relocks, Arrives
<1>7. CASE TakeLock(p)
  <2>1. Moves /\ cur' = cur
    BY <1>7 DEF TakeLock
  <2> QED
    BY <1>7, <2>1 DEF Relocks, Arrives
<1> QED
  BY <1>1, <1>2, <1>3, <1>4, <1>5, <1>6, <1>7 DEF LoopStep

LEMMA RelocksStep == ASSUME TInv, [Next]_vars PROVE Relocks /\ \A q \in Loops : Arrives(q)
<1>1. CASE \E p \in Loops : LoopStep(p) \/ Start(p) \/ Signal(p) \/ WatchdogTick(p)
                             \/ Ends(p)
  BY <1>1, RelocksOf
<1>2. CASE UNCHANGED <<lock, lockOld, pc, cur>>
  BY <1>2 DEF Relocks, Arrives
<1>3. ASSUME NEW c \in Courses, LockAges(c) PROVE Relocks /\ \A q \in Loops : Arrives(q)
  BY <1>3 DEF LockAges, Relocks, Arrives, loopVars, TInv, TypeOK
<1> QED
  BY <1>1, <1>2, <1>3 DEF Next, vars, AnswerReads, AnswerCommits, LeaseLapses, OwnerAdds, lockVars, loopVars

\* A busy loop's task keeps its course.
LEMMA SameCourse ==
  ASSUME IInv, [Next]_vars, NEW p \in Loops, ~Idle(p), cur'[p] = cur[p]
  PROVE  Course(p)' = Course(p)
BY SameInfo DEF Course, IInv, TInv, Known

LEMMA HoldersStep ==
  ASSUME IInv, HoldersOK, [Next]_vars, [Unrobbed]_vars PROVE HoldersOK'
<1> SUFFICES ASSUME NEW p \in Loops, pc'[p] = "work", Course(p)' \in Courses
             PROVE  lock'[Course(p)'] = cur'[p]
  BY DEF HoldersOK, Holds
<1>1. cur'[p] = cur[p] /\ (pc[p] = "work" \/ TakeLock(p))
  BY RelocksStep DEF Arrives, IInv, CheckStale, Goto, TInv, TypeOK
<1>2. Course(p)' = Course(p)
  BY <1>1, SameCourse DEF Idle, TakeLock, Goto
<1>3. CASE pc[p] = "work"
  <2>1. Holds(p) BY <1>2, <1>3 DEF HoldersOK
  <2>2. UNCHANGED vars \/ ~Loses(p) BY DEF Unrobbed
  <2> QED BY <1>1, <1>2, <2>1, <2>2 DEF Loses, Holds, vars, lockVars
<1>4. CASE TakeLock(p)
  <2>1. Course(p) \in Courses BY <1>2
  <2>2. Course(p) # NoCourse BY <2>1, TaskQueueAssumption
  <2>3. lock' = [lock EXCEPT ![Course(p)] = cur[p]] BY <1>4, <2>2 DEF TakeLock, Course
  <2> QED BY <1>1, <1>2, <2>1, <2>3 DEF IInv, TInv, TypeOK
<1> QED BY <1>1, <1>3, <1>4

\* "one task writes to a course's memory at a time": whatever lapses, ages or dies, two loops
\* write to one course only after a loop at work was robbed of its lock.
THEOREM WritersUnlessRobbed ==
  ASSUME Fleet PROVE Spec /\ [][LeasesKept]_vars /\ [][Unrobbed]_vars => []SingleWriter
<1>1. Init => HoldersOK
  BY DEF Init, HoldersOK
<1>2. IInv /\ HoldersOK => SingleWriter
  <2> SUFFICES ASSUME IInv, HoldersOK, NEW p \in Loops, NEW q \in Loops, NEW t \in Tasks, NEW u \in Tasks,
                      Working(p, t), Working(q, u), info[t].course = info[u].course,
                      info[t].course # NoCourse
               PROVE  p = q
    BY DEF SingleWriter
  <2>1. Course(p) \in Courses /\ Course(q) = Course(p)
    BY DEF Course, Working, IInv, TInv, TypeOK, TaskInfo
  <2>2. lock[Course(p)] = cur[p] /\ lock[Course(p)] = cur[q]
    BY <2>1 DEF HoldersOK, Holds, Working
  <2>3. OwnershipOf(p) /\ OwnershipOf(q) BY OwnershipEach
  <2> QED BY <2>2, <2>3 DEF OwnershipOf, Working, Executing
<1>3. IInv /\ HoldersOK /\ [Next]_vars /\ [LeasesKept]_vars /\ [Unrobbed]_vars => (IInv /\ HoldersOK)'
  BY IInvNext, HoldersStep
<1> QED BY <1>1, <1>2, <1>3, IInvInit, PTL DEF Spec

\* Who holds a lock after a step in which the mutex belongs to r has held it before.
LEMMA JudgedStep ==
  ASSUME IInv, ClaimsOK, ClaimsOK', JudgedOK, [Next]_vars PROVE JudgedOK'
<1> SUFFICES ASSUME NEW r \in Loops, NEW p \in Loops, pc'[r] = "break", Holds(p)',
                    Course(r)' = Course(p)'
             PROVE  lockOld'[Course(p)']
  BY DEF JudgedOK
<1> USE DEF Goto, IInv, TInv, TypeOK
<1>1. cur'[r] = cur[r] /\ (pc[r] = "break" \/ CheckStale(r))
  BY RelocksStep DEF Arrives, TakeLock
<1>2. InMutex(r) /\ InMutex(r)' /\ mutex = r /\ mutex' = r
  BY <1>1 DEF ClaimsOK, ClaimOf, InMutex, CheckStale
<1>3. cur'[p] = cur[p] /\ (pc[p] = "work" \/ TakeLock(p))
  BY RelocksStep DEF Arrives, Holds, CheckStale
<1>4. \A q \in Loops : ~TakeLock(q)
  <2>1. ASSUME NEW q \in Loops, TakeLock(q) PROVE FALSE
    BY <1>2, <2>1, TaskQueueAssumption DEF TakeLock
  <2> QED BY <2>1
<1>5. pc[p] = "work" BY <1>3, <1>4
<1>6. Course(p)' = Course(p) /\ Course(r)' = Course(r)
  BY <1>1, <1>3, <1>5, SameCourse DEF Idle, CheckStale
<1>7. lock'[Course(p)] = cur[p] /\ Course(p) \in Courses /\ cur[p] \in Tasks /\ cur[p] # NoTask
  <2>1. cur[p] \in Tasks BY <1>5, CurKnown
  <2> QED BY <1>3, <1>6, <2>1 DEF Holds, Tasks, NoTask
<1>8. Holds(p) /\ (lockOld[Course(p)] => lockOld'[Course(p)])
  <2>1. CASE lock' = lock /\ \A c \in Courses : lockOld[c] => lockOld'[c]
    BY <1>5, <1>7, <2>1 DEF Holds
  <2>2. ASSUME NEW q \in Loops, ScanBreak(q) \/ ClaimBreak(q) \/ Unlink(q)
        PROVE  Holds(p) /\ (lockOld[Course(p)] => lockOld'[Course(p)])
    <3>1. Unlocked(info[cur[q]].course)
      BY <2>2 DEF ScanBreak, ClaimBreak, Unlink
    <3> QED BY <1>5, <1>7, <3>1 DEF Unlocked, Holds
  <2> QED BY <1>4, <2>1, <2>2, RelocksStep DEF Relocks
<1>9. CASE pc[r] = "break" BY <1>6, <1>8, <1>9 DEF JudgedOK
<1>10. CASE CheckStale(r)
  <2>1. status[cur[p]] = "running" BY <1>5 DEF Ownership, Executing
  <2>2. lock[Course(p)] \in Running BY <1>7, <1>8, <2>1 DEF Holds, Running
  <2>3. lockOld[Course(p)] BY <1>6, <1>10, <2>2 DEF CheckStale, LockStale, LockHeld, Course
  <2> QED BY <1>6, <1>8, <2>3
<1> QED BY <1>1, <1>9, <1>10

\* A loop at work loses its lock in three ways only: next_task breaks it by the running tasks
\* of a snapshot or because it read the file before the task was in it, claim_task or
\* adopt_task break it by its age, release_lock removes it after it saw its own task there.
\* acquire_lock, crashes, answers, adoptions and leases take none.
THEOREM RobbedOnlyHow ==
  ASSUME Fleet
  PROVE  Spec /\ [][LeasesKept]_vars
           => [][\A p \in Loops : Loses(p) => \E r \in Loops \ {p} : Robs(r, p)]_vars
<1>1. Init => ClaimsOK /\ JudgedOK
  BY TaskQueueAssumption DEF Init, ClaimsOK, ClaimOf, InMutex, JudgedOK
<1>2. ASSUME IInv, ClaimsOK, [Next]_vars PROVE ClaimsOK' /\ NoneReplaced
  BY <1>2, ClaimsNext DEF IInv
<1>3. ASSUME IInv, ClaimsOK, JudgedOK, [Next]_vars, NEW p \in Loops, Loses(p)
      PROVE  \E r \in Loops \ {p} : Robs(r, p)
  <2>1. Holds(p) /\ pc[p] = "work" /\ lock'[Course(p)] # lock[Course(p)] /\ Course(p) \in Courses
    BY <1>3 DEF Loses, Holds
  <2>2. cur[p] \in Tasks /\ cur[p] # NoTask
    BY <1>3, <2>1, CurKnown DEF IInv, Tasks, NoTask
  <2>3. lock'[Course(p)] = NoTask
    BY <1>2, <1>3, <2>1, <2>2 DEF NoneReplaced, Holds
  <2>4. PICK r \in Loops : ScanBreak(r) \/ ClaimBreak(r) \/ Unlink(r) \/ TakeLock(r)
    BY <1>3, <2>1, RelocksStep DEF Relocks, IInv
  <2>5. ~TakeLock(r)
    <3>1. ASSUME TakeLock(r) PROVE FALSE
      <4>1. cur[r] \in Tasks /\ cur[r] # NoTask
        BY <1>3, <3>1, CurKnown DEF TakeLock, Goto, IInv, Tasks, NoTask
      <4> QED BY <1>3, <2>1, <2>3, <3>1, <4>1 DEF TakeLock, IInv, TInv, TypeOK
    <3> QED BY <3>1
  <2>6. Course(r) = Course(p)
    BY <1>3, <2>1, <2>4, <2>5 DEF ScanBreak, ClaimBreak, Unlink, Unlocked, Course, IInv, TInv, TypeOK
  <2>7. r # p
    BY <2>1, <2>4, <2>5 DEF ScanBreak, ClaimBreak, Unlink, Goto
  <2>8. ClaimBreak(r) => lockOld[Course(p)]
    BY <1>3, <2>1, <2>6 DEF ClaimBreak, Goto, JudgedOK
  <2> QED BY <2>4, <2>5, <2>6, <2>7, <2>8 DEF Robs
<1>4. IInv /\ ClaimsOK /\ JudgedOK /\ [Next]_vars /\ [LeasesKept]_vars => (IInv /\ ClaimsOK /\ JudgedOK)'
  BY <1>2, IInvNext, JudgedStep
<1>5. IInv /\ ClaimsOK /\ JudgedOK /\ [Next]_vars
        => [\A p \in Loops : Loses(p) => \E r \in Loops \ {p} : Robs(r, p)]_vars
  BY <1>3
<1> QED BY <1>1, <1>4, <1>5, IInvInit, PTL DEF Spec
=============================================================================
