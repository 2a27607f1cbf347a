----------------------------- MODULE TaskQueue -----------------------------
(***************************************************************************)
(* The durable task queue of loop.Agent and the loops that drain it.       *)
(*                                                                         *)
(* state.json is rewritten whole, atomically, and only under the state     *)
(* mutex (module FileMutex says when that is a mutex), so a commit is one  *)
(* step; it is read without the mutex, so what a reader decides from it    *)
(* can be stale.  The lock file of a course is a second piece of shared    *)
(* state, tested, broken, written and removed in separate file operations, *)
(* some under the mutex and some not, and each is a step of its own.       *)
(*                                                                         *)
(* A member of Loops is one loop PROCESS, from start to death: its         *)
(* runner_id is never used again, its pid may be.                          *)
(***************************************************************************)
EXTENDS Naturals, FiniteSets

CONSTANTS
  Loops,        \* loop processes
  HostOf,       \* HostOf[p]: platform.node() of the process
  PidOf,        \* PidOf[p]: its pid on that host
  Drainers,     \* the loops started with --drain
  Answerers,    \* panel threads and CLIs that answer blocked tasks
  Nobody,       \* neither a loop nor an answerer
  Courses, NoCourse,
  Roles, NoRole,
  OwnerRoles,   \* roles of the tasks added from outside the loops
  Chain, ReflectAfter, Reflector,  \* [agent.chain] and reflect_after
  Limits,       \* values of stop.max_attempts an owner sets, 0 for none
  MaxRetries,   \* max_task_retries
  Retain,       \* retain_finished_tasks
  Slack,        \* the slack band of _trim_state (25 in the code)
  ArchiveMayFail, \* may the archive be unwritable?
  Stoppable,    \* may loops be sent SIGTERM?
  SafeModes,    \* may the watchdog trip and be cleared?
  LocksMayAge,  \* may a course lock reach lock_stale_minutes?
  MaxAlive,     \* loops a supervisor keeps at a time
  MaxTasks,     \* bound: tasks ever created
  OwnerTasks,   \* bound: of these, tasks added from outside the loops
  MaxCrashes    \* bound: loops killed, or ended by a commit that raises

ASSUME TaskQueueAssumption ==
  /\ Nobody \notin Loops
  /\ NoCourse \notin Courses
  /\ Drainers \subseteq Loops
  /\ Reflector \in Roles /\ OwnerRoles \subseteq Roles /\ ReflectAfter \subseteq Roles
  /\ Chain \in [Roles -> Roles \cup {NoRole}] /\ NoRole \notin Roles
  /\ MaxRetries \in Nat /\ Retain \in Nat /\ Slack \in Nat
  /\ MaxAlive \in Nat /\ MaxTasks \in Nat /\ OwnerTasks \in Nat /\ MaxCrashes \in Nat
  /\ Limits \subseteq Nat
  /\ ArchiveMayFail \in BOOLEAN /\ Stoppable \in BOOLEAN /\ SafeModes \in BOOLEAN
  /\ LocksMayAge \in BOOLEAN

Tasks == 1..MaxTasks
NoTask == 0
Terminal == {"done", "failed"}
Statuses == {"none", "queued", "running", "blocked"} \cup Terminal

VARIABLES
  (* state.json and the archive *)
  born,      \* tasks created; task ids are 1..born
  info,      \* info[t]: the fields of t that never change
  at,        \* at[t]: place of t in state["tasks"], 0 when it is not there
  appends,   \* places given out so far: the list is in order of place
  status,    \* status[t]: its status there, "none" when it is not there
  runner,    \* runner[t]: the loop its runner stamp names
  lapsed,    \* tasks whose runner stamp is older than runner_lease_seconds
  rows,      \* rows[t]: lines of tasks-archive.jsonl about t
  filed,     \* filed[t]: the status on the last of them
  (* lock files *)
  mutex,     \* the loop inside a multi-step state.json critical section
  lock,      \* lock[c]: task named in courses/<c>/.lock
  lockOld,   \* lockOld[c]: that file is older than lock_stale_minutes
  (* each loop *)
  pc,        \* where the loop is in _run
  cur,       \* the task it has selected
  mem,       \* the status in its in-memory copy of the task
  todo,      \* todo[p][t]: position in the snapshot of a task left to examine
  live,      \* live[p]: tasks running in that snapshot
  stop,      \* stop[p]: SIGTERM received
  hold,      \* hold[p]: safe mode or an exceeded budget, as last seen
  (* humans and bounds *)
  reply,     \* reply[h]: the copy of a blocked task an answerer has read
  added,     \* tasks added from outside
  crashes

fileVars == <<born, info, at, appends, status, runner, lapsed, rows, filed>>
lockVars == <<mutex, lock, lockOld>>
loopVars == <<pc, cur, mem, todo, live, stop, hold>>
vars == <<fileVars, lockVars, loopVars, reply, added, crashes>>

Points == {"off", "idle", "scan", "scanbreak", "claim", "adopt", "check", "break", "save",
           "take", "work", "release", "unlink", "file", "chain", "reflect",
           "retry", "gone", "raised"}

TaskInfo == [course : Courses \cup {NoCourse}, role : Roles \cup {NoRole},
             attempt : Nat, lineage : Nat, limit : Nat]
NoInfo == [course |-> NoCourse, role |-> NoRole, attempt |-> 0,
           lineage |-> NoTask, limit |-> 0]
NoReply == [task |-> NoTask, runner |-> Nobody]

TypeOK ==
  /\ born \in 0..MaxTasks /\ added \in Nat /\ crashes \in Nat
  /\ info \in [Tasks -> TaskInfo] /\ appends \in Nat
  /\ at \in [Tasks -> Nat] /\ rows \in [Tasks -> Nat]
  /\ status \in [Tasks -> Statuses] /\ filed \in [Tasks -> Statuses]
  /\ runner \in [Tasks -> Loops \cup {Nobody}]
  /\ lapsed \subseteq Tasks
  /\ mutex \in Loops \cup {Nobody}
  /\ lock \in [Courses -> Tasks \cup {NoTask}] /\ lockOld \in [Courses -> BOOLEAN]
  /\ pc \in [Loops -> Points]
  /\ cur \in [Loops -> Tasks \cup {NoTask}]
  /\ mem \in [Loops -> Statuses]
  /\ todo \in [Loops -> [Tasks -> Nat]]
  /\ live \in [Loops -> SUBSET Tasks]
  /\ stop \in [Loops -> BOOLEAN] /\ hold \in [Loops -> BOOLEAN]
  /\ reply \in [Answerers -> [task : Tasks \cup {NoTask}, runner : Loops \cup {Nobody}]]

Init ==
  /\ born = 0 /\ appends = 0 /\ added = 0 /\ crashes = 0
  /\ info = [t \in Tasks |-> NoInfo]
  /\ at = [t \in Tasks |-> 0] /\ rows = [t \in Tasks |-> 0]
  /\ status = [t \in Tasks |-> "none"] /\ filed = [t \in Tasks |-> "none"]
  /\ runner = [t \in Tasks |-> Nobody]
  /\ lapsed = {}
  /\ mutex = Nobody
  /\ lock = [c \in Courses |-> NoTask] /\ lockOld = [c \in Courses |-> FALSE]
  /\ pc = [p \in Loops |-> "off"]
  /\ cur = [p \in Loops |-> NoTask]
  /\ mem = [p \in Loops |-> "none"]
  /\ todo = [p \in Loops |-> [t \in Tasks |-> 0]]
  /\ live = [p \in Loops |-> {}]
  /\ stop = [p \in Loops |-> FALSE] /\ hold = [p \in Loops |-> FALSE]
  /\ reply = [h \in Answerers |-> NoReply]

-----------------------------------------------------------------------------
(* state.json *)

Goto(p, from, to) == pc[p] = from /\ pc' = [pc EXCEPT ![p] = to]

\* _trim_state: the finished tasks beyond Retain, oldest in the list first,
\* once there are more than Retain + Slack of them.
Trimmed(st, pos) ==
  LET finished == {t \in Tasks : pos[t] # 0 /\ st[t] \in Terminal}
  IN  IF Retain = 0 \/ Cardinality(finished) <= Retain + Slack THEN {}
      ELSE {t \in finished :
              Cardinality({u \in finished : pos[u] > pos[t]}) >= Retain}

\* Mutant: commit_task without the for-else that appends a new record.
PlacedInPlace(t) == at

\* commit_task replaces the record in place, or appends it to the list.
Placed(t) == IF at[t] # 0 THEN at ELSE [at EXCEPT ![t] = appends + 1]

Archive(drop, st) ==
  /\ rows' = [u \in Tasks |-> IF u \in drop THEN rows[u] + 1 ELSE rows[u]]
  /\ filed' = [u \in Tasks |-> IF u \in drop THEN st[u] ELSE filed[u]]

\* commit_task: merge one task's record into a fresh read, trim, save.
Commit(t, s, r) ==
  /\ mutex = Nobody
  /\ runner' = [runner EXCEPT ![t] = r]
  /\ lapsed' = lapsed \ {t}
  /\ appends' = IF at[t] # 0 THEN appends ELSE appends + 1
  /\ LET st  == [status EXCEPT ![t] = s]
         pos == Placed(t)
     IN  \E drop \in {Trimmed(st, pos)} \cup (IF ArchiveMayFail THEN {{}} ELSE {}) :
           /\ Archive(drop, st)
           /\ at' = [u \in Tasks |-> IF u \in drop THEN 0 ELSE pos[u]]
           /\ status' = [u \in Tasks |-> IF u \in drop THEN "none" ELSE st[u]]

\* add_task: a fresh id, queued, its own lineage unless it retries another's.
AddTask(c, role, attempt, lineage, limit) ==
  LET t == born + 1
  IN  /\ born < MaxTasks
      /\ born' = t
      /\ info' = [info EXCEPT ![t] =
           [course |-> c, role |-> role, attempt |-> attempt, limit |-> limit,
            lineage |-> IF lineage = NoTask THEN t ELSE lineage]]
      /\ Commit(t, "queued", Nobody)

-----------------------------------------------------------------------------
(* Runner leases and course locks *)

Alive(p) == pc[p] \notin {"off", "gone", "raised"}

\* os.kill(pid, 0): some process of the host has that pid.
ProcessAlive(r) ==
  \E q \in Loops : Alive(q) /\ HostOf[q] = HostOf[r] /\ PidOf[q] = PidOf[r]

\* Mutant: a running task is anybody's, as before the runner leases.
MayResumeAny(p, t) == status[t] = "running"

MayResume(p, t) ==
  LET r == runner[t]
  IN  \/ r \in {Nobody, p}
      \/ r \in Loops /\ HostOf[r] = HostOf[p] /\ ~ProcessAlive(r)
      \/ r \in Loops /\ HostOf[r] # HostOf[p] /\ t \in lapsed

\* can_lock's three answers, for a set of tasks believed to be running:
\* no lock or our own, a live sibling's, one to break.
LockFree(t) == info[t].course \in Courses => lock[info[t].course] \in {NoTask, t}
\* Mutant: a lock is never stale.
LockHeldForever(t, running) == ~LockFree(t)

LockHeld(t, running) ==
  /\ ~LockFree(t)
  /\ lock[info[t].course] \in running /\ ~lockOld[info[t].course]
LockStale(t, running) == ~LockFree(t) /\ ~LockHeld(t, running)

Running == {t \in Tasks : status[t] = "running"}

-----------------------------------------------------------------------------
(* The top of _run: start, stop, hold, select *)

\* The loop has no task of its own any more.
Forgotten(p) ==
  /\ cur' = [cur EXCEPT ![p] = NoTask]
  /\ mem' = [mem EXCEPT ![p] = "none"]

\* A supervisor starts a loop; the system never gives a live pid away twice.
Start(p) ==
  /\ Goto(p, "off", "idle")
  /\ Cardinality({q \in Loops : Alive(q)}) < MaxAlive
  /\ \A q \in Loops : Alive(q) => HostOf[q] # HostOf[p] \/ PidOf[q] # PidOf[p]
  /\ UNCHANGED <<fileVars, lockVars, cur, mem, todo, live, stop, hold, reply, added, crashes>>

\* _should_stop between tasks.
ShutDown(p) ==
  /\ Goto(p, "idle", "gone")
  /\ stop[p]
  /\ UNCHANGED <<fileVars, lockVars, cur, mem, todo, live, stop, hold, reply, added, crashes>>

\* _safe_mode_hold and the budget brake: a draining loop returns, another
\* sleeps and comes back to the same place.
HoldDrains(p) ==
  /\ Goto(p, "idle", "gone")
  /\ hold[p] /\ ~stop[p] /\ p \in Drainers
  /\ UNCHANGED <<fileVars, lockVars, cur, mem, todo, live, stop, hold, reply, added, crashes>>

\* next_task, first loop: the first running task it may resume.
SelectResumable(p) ==
  /\ Goto(p, "idle", "adopt")
  /\ ~stop[p] /\ ~hold[p]
  /\ \E t \in Running :
       /\ MayResume(p, t)
       /\ \A u \in Running : MayResume(p, u) => at[t] <= at[u]
       /\ cur' = [cur EXCEPT ![p] = t]
  /\ UNCHANGED <<fileVars, lockVars, mem, todo, live, stop, hold, reply, added, crashes>>

\* next_task, second loop: nothing to resume, so examine the queued tasks of
\* the snapshot, in its order.
SelectQueued(p) ==
  /\ Goto(p, "idle", "scan")
  /\ ~stop[p] /\ ~hold[p]
  /\ \A t \in Running : ~MayResume(p, t)
  /\ todo' = [todo EXCEPT ![p] = [t \in Tasks |-> IF status[t] = "queued" THEN at[t] ELSE 0]]
  /\ live' = [live EXCEPT ![p] = Running]
  /\ UNCHANGED <<fileVars, lockVars, cur, mem, stop, hold, reply, added, crashes>>

\* The task of the snapshot whose turn it is.
Examines(p, t) ==
  /\ pc[p] = "scan" /\ todo[p][t] # 0
  /\ \A u \in Tasks : todo[p][u] # 0 => todo[p][t] <= todo[p][u]

Selected(p, t) ==
  /\ cur' = [cur EXCEPT ![p] = t]
  /\ todo' = [todo EXCEPT ![p] = [u \in Tasks |-> 0]]
  /\ live' = [live EXCEPT ![p] = {}]

ScanFree(p) ==
  /\ Goto(p, "scan", "claim")
  /\ \E t \in Tasks : Examines(p, t) /\ LockFree(t) /\ Selected(p, t)
  /\ UNCHANGED <<fileVars, lockVars, mem, stop, hold, reply, added, crashes>>

ScanHeld(p) ==
  /\ \E t \in Tasks :
       /\ Examines(p, t) /\ LockHeld(t, live[p])
       /\ todo' = [todo EXCEPT ![p][t] = 0]
  /\ UNCHANGED <<fileVars, lockVars, pc, cur, mem, live, stop, hold, reply, added, crashes>>

\* acquire_lock opens the file of the course and then writes the task into it.
Acquiring(c) == c \in Courses /\ \E q \in Loops : pc[q] = "take" /\ info[cur[q]].course = c

\* can_lock judges the lock by the SNAPSHOT, or by a file that is still empty
\* and names no task, and is about to remove it.
ScanStale(p) ==
  /\ Goto(p, "scan", "scanbreak")
  /\ \E t \in Tasks :
       /\ Examines(p, t) /\ Selected(p, t)
       /\ LockStale(t, live[p]) \/ Acquiring(info[t].course)
  /\ UNCHANGED <<fileVars, lockVars, mem, stop, hold, reply, added, crashes>>

\* Nothing to do: the idle ticks, then sleep, or the end of a drain.
ScanEmpty(p) ==
  /\ Goto(p, "scan", IF p \in Drainers THEN "gone" ELSE "idle")
  /\ todo[p] = [t \in Tasks |-> 0]
  /\ live' = [live EXCEPT ![p] = {}]
  /\ UNCHANGED <<fileVars, lockVars, cur, mem, todo, stop, hold, reply, added, crashes>>

Unlocked(c) == lock' = [lock EXCEPT ![c] = NoTask] /\ lockOld' = [lockOld EXCEPT ![c] = FALSE]

\* os.remove of whatever lock the course has by now ...
ScanBreak(p) ==
  /\ Goto(p, "scanbreak", "claim")
  /\ lock[info[cur[p]].course] # NoTask
  /\ Unlocked(info[cur[p]].course)
  /\ UNCHANGED <<fileVars, mutex, cur, mem, todo, live, stop, hold, reply, added, crashes>>

\* ... which raises out of _run when there is none.
ScanBreakRaises(p) ==
  /\ Goto(p, "scanbreak", "raised")
  /\ lock[info[cur[p]].course] = NoTask /\ ~Acquiring(info[cur[p]].course)
  /\ Forgotten(p)
  /\ UNCHANGED <<fileVars, lockVars, todo, live, stop, hold, reply, added, crashes>>

-----------------------------------------------------------------------------
(* claim_task and adopt_task: one critical section of the state mutex *)

\* Mutant: claim_task trusts next_task's snapshot.
ClaimableUnchecked(t) == status[t] # "none"

\* The re-check under the mutex, of a fresh read.
Claimable(t) == status[t] = "queued"
Adoptable(p, t) == status[t] = "running" /\ MayResume(p, t)

BeginClaim(p) ==
  /\ Goto(p, "claim", "check")
  /\ mutex = Nobody /\ Claimable(cur[p])
  /\ mutex' = p
  /\ UNCHANGED <<fileVars, lock, lockOld, cur, mem, todo, live, stop, hold, reply, added, crashes>>

BeginAdopt(p) ==
  /\ Goto(p, "adopt", "check")
  /\ mutex = Nobody /\ Adoptable(p, cur[p])
  /\ mutex' = p
  /\ UNCHANGED <<fileVars, lock, lockOld, cur, mem, todo, live, stop, hold, reply, added, crashes>>

\* Another loop was first.
ClaimLost(p) ==
  /\ Goto(p, "claim", "idle")
  /\ mutex = Nobody /\ ~Claimable(cur[p])
  /\ Forgotten(p)
  /\ UNCHANGED <<fileVars, lockVars, todo, live, stop, hold, reply, added, crashes>>

AdoptLost(p) ==
  /\ Goto(p, "adopt", "idle")
  /\ mutex = Nobody /\ ~Adoptable(p, cur[p])
  /\ Forgotten(p)
  /\ UNCHANGED <<fileVars, lockVars, todo, live, stop, hold, reply, added, crashes>>

\* Mutant: the course lock is not checked again under the mutex.
CheckNothing(p) ==
  /\ Goto(p, "check", "save")
  /\ UNCHANGED <<fileVars, lockVars, cur, mem, todo, live, stop, hold, reply, added, crashes>>

\* can_lock again, now against the state read under the mutex.
CheckFree(p) ==
  /\ Goto(p, "check", "save")
  /\ LockFree(cur[p])
  /\ UNCHANGED <<fileVars, lockVars, cur, mem, todo, live, stop, hold, reply, added, crashes>>

CheckHeld(p) ==
  /\ Goto(p, "check", "idle")
  /\ LockHeld(cur[p], Running)
  /\ mutex' = Nobody
  /\ Forgotten(p)
  /\ UNCHANGED <<fileVars, lock, lockOld, todo, live, stop, hold, reply, added, crashes>>

CheckStale(p) ==
  /\ Goto(p, "check", "break")
  /\ LockStale(cur[p], Running)
  /\ UNCHANGED <<fileVars, lockVars, cur, mem, todo, live, stop, hold, reply, added, crashes>>

ClaimBreak(p) ==
  /\ Goto(p, "break", "save")
  /\ lock[info[cur[p]].course] # NoTask
  /\ Unlocked(info[cur[p]].course)
  /\ UNCHANGED <<fileVars, mutex, cur, mem, todo, live, stop, hold, reply, added, crashes>>

ClaimBreakRaises(p) ==
  /\ Goto(p, "break", "raised")
  /\ lock[info[cur[p]].course] = NoTask
  /\ mutex' = Nobody
  /\ Forgotten(p)
  /\ UNCHANGED <<fileVars, lock, lockOld, todo, live, stop, hold, reply, added, crashes>>

\* Mutant: the claim is not stamped.
SaveUnstamped(p) ==
  /\ Goto(p, "save", "take")
  /\ status' = [status EXCEPT ![cur[p]] = "running"]
  /\ UNCHANGED <<born, info, at, appends, runner, lapsed, rows, filed, lockVars,
                 cur, mem, todo, live, stop, hold, reply, added, crashes>>

\* The task is running and stamped as ours: save_state.
Save(p) ==
  /\ Goto(p, "save", "take")
  /\ status' = [status EXCEPT ![cur[p]] = "running"]
  /\ runner' = [runner EXCEPT ![cur[p]] = p]
  /\ lapsed' = lapsed \ {cur[p]}
  /\ UNCHANGED <<born, info, at, appends, rows, filed, lockVars,
                 cur, mem, todo, live, stop, hold, reply, added, crashes>>

\* Mutant: the lock names the loop, not the task.
TakeLockNamingLoop(p) ==
  /\ Goto(p, "take", "work")
  /\ LET c == info[cur[p]].course
     IN  IF c = NoCourse THEN UNCHANGED <<lock, lockOld>>
         ELSE /\ lock' = [lock EXCEPT ![c] = p]
              /\ lockOld' = [lockOld EXCEPT ![c] = FALSE]
  /\ mutex' = Nobody
  /\ mem' = [mem EXCEPT ![p] = "running"]
  /\ UNCHANGED <<fileVars, cur, todo, live, stop, hold, reply, added, crashes>>

\* acquire_lock (re)writes the course's lock file; the mutex is released.
TakeLock(p) ==
  /\ Goto(p, "take", "work")
  /\ LET c == info[cur[p]].course
     IN  IF c = NoCourse THEN UNCHANGED <<lock, lockOld>>
         ELSE /\ lock' = [lock EXCEPT ![c] = cur[p]]
              /\ lockOld' = [lockOld EXCEPT ![c] = FALSE]
  /\ mutex' = Nobody
  /\ mem' = [mem EXCEPT ![p] = "running"]
  /\ UNCHANGED <<fileVars, cur, todo, live, stop, hold, reply, added, crashes>>

-----------------------------------------------------------------------------
(* run_task_step and what follows a task *)

\* A step that leaves the task running: every commit renews the lease.
StepRuns(p) ==
  /\ pc[p] = "work"
  /\ Commit(cur[p], "running", p)
  /\ UNCHANGED <<born, info, lockVars, loopVars, reply, added, crashes>>

\* A step that finishes, fails or blocks the task, a step that raises, and a
\* procedure that completes it without a model: the outcome is committed.
StepEnds(p) ==
  /\ Goto(p, "work", "release")
  /\ \E outcome \in Terminal \cup {"blocked"} :
       /\ Commit(cur[p], outcome, p)
       /\ mem' = [mem EXCEPT ![p] = outcome]
  /\ UNCHANGED <<born, info, lockVars, cur, todo, live, stop, hold, reply, added, crashes>>

\* The inner boundary: stop between steps, the task stays running.
BreakOff(p) ==
  /\ Goto(p, "work", "release")
  /\ stop[p] \/ hold[p]
  /\ UNCHANGED <<fileVars, lockVars, cur, mem, todo, live, stop, hold, reply, added, crashes>>

Owns(p) ==
  LET c == info[cur[p]].course IN c # NoCourse /\ lock[c] = cur[p]

\* release_lock reads the file, outside the mutex ...
ReleaseOwned(p) ==
  /\ Goto(p, "release", "unlink")
  /\ Owns(p)
  /\ UNCHANGED <<fileVars, lockVars, cur, mem, todo, live, stop, hold, reply, added, crashes>>

ReleaseOther(p) ==
  /\ Goto(p, "release", "file")
  /\ ~Owns(p)
  /\ UNCHANGED <<fileVars, lockVars, cur, mem, todo, live, stop, hold, reply, added, crashes>>

\* ... and removes whatever is at its path a moment later.
Unlink(p) ==
  /\ Goto(p, "unlink", "file")
  /\ Unlocked(info[cur[p]].course)
  /\ UNCHANGED <<fileVars, mutex, cur, mem, todo, live, stop, hold, reply, added, crashes>>

\* Mutant: the chain is queued whatever the outcome.
AfterFilingChain(p) == "chain"

AfterFiling(p) == IF mem[p] = "done" THEN "chain" ELSE "retry"

\* _file_memory commits a finished task a second time, with its confidence,
FileMemory(p) ==
  /\ Goto(p, "file", AfterFiling(p))
  /\ mem[p] \in Terminal
  /\ Commit(cur[p], mem[p], p)
  /\ UNCHANGED <<born, info, lockVars, cur, mem, todo, live, stop, hold, reply, added, crashes>>

\* Mutant: an exception of the scoring skips what follows the task.
FileRaises(p) ==
  /\ Goto(p, "file", "idle")
  /\ mem[p] \in Terminal
  /\ Forgotten(p)
  /\ UNCHANGED <<fileVars, lockVars, todo, live, stop, hold, reply, added, crashes>>

\* ... or does not, when confidence is disabled or its scoring raised.
FileUnscored(p) ==
  /\ Goto(p, "file", AfterFiling(p))
  /\ mem[p] \in Terminal
  /\ UNCHANGED <<fileVars, lockVars, cur, mem, todo, live, stop, hold, reply, added, crashes>>

\* A task that only stopped or blocked has nothing to file.
FileNothing(p) ==
  /\ Goto(p, "file", "idle")
  /\ mem[p] \notin Terminal
  /\ Forgotten(p)
  /\ UNCHANGED <<fileVars, lockVars, todo, live, stop, hold, reply, added, crashes>>

\* _maybe_queue_chain
ChainAdds(p) ==
  LET i == info[cur[p]]
  IN  /\ Goto(p, "chain", "reflect")
      /\ Chain[i.role] # NoRole
      /\ AddTask(i.course, Chain[i.role], 1, NoTask, 0)
      /\ UNCHANGED <<lockVars, cur, mem, todo, live, stop, hold, reply, added, crashes>>

ChainEnds(p) ==
  /\ Goto(p, "chain", "reflect")
  /\ Chain[info[cur[p]].role] = NoRole
  /\ UNCHANGED <<fileVars, lockVars, cur, mem, todo, live, stop, hold, reply, added, crashes>>

\* _maybe_queue_reflection
Reflects(p) == info[cur[p]].role \in ReflectAfter \ {Reflector}

ReflectAdds(p) ==
  /\ Goto(p, "reflect", "idle")
  /\ Reflects(p)
  /\ AddTask(info[cur[p]].course, Reflector, 1, NoTask, 0)
  /\ Forgotten(p)
  /\ UNCHANGED <<lockVars, todo, live, stop, hold, reply, added, crashes>>

ReflectSkips(p) ==
  /\ Goto(p, "reflect", "idle")
  /\ ~Reflects(p)
  /\ Forgotten(p)
  /\ UNCHANGED <<fileVars, lockVars, todo, live, stop, hold, reply, added, crashes>>

\* _maybe_retry
Exhausted(t) ==
  LET i == info[t]
  IN  i.attempt > MaxRetries \/ (i.limit # 0 /\ i.attempt >= i.limit)

\* Mutant: the attempt is not counted.
RetryUncounted(p) ==
  LET i == info[cur[p]]
  IN  /\ Goto(p, "retry", "idle")
      /\ ~Exhausted(cur[p])
      /\ AddTask(i.course, i.role, i.attempt, i.lineage, i.limit)
      /\ Forgotten(p)
      /\ UNCHANGED <<lockVars, todo, live, stop, hold, reply, added, crashes>>

RetryAdds(p) ==
  LET i == info[cur[p]]
  IN  /\ Goto(p, "retry", "idle")
      /\ ~Exhausted(cur[p])
      /\ AddTask(i.course, i.role, i.attempt + 1, i.lineage, i.limit)
      /\ Forgotten(p)
      /\ UNCHANGED <<lockVars, todo, live, stop, hold, reply, added, crashes>>

RetryGivesUp(p) ==
  /\ Goto(p, "retry", "idle")
  /\ Exhausted(cur[p])
  /\ Forgotten(p)
  /\ UNCHANGED <<fileVars, lockVars, todo, live, stop, hold, reply, added, crashes>>

-----------------------------------------------------------------------------
(* Owner, humans, clock, and loops that end *)

\* The panel, the CLI, an intention or a tick queues a task.
OwnerAdds ==
  /\ added < OwnerTasks
  /\ added' = added + 1
  /\ \E c \in Courses \cup {NoCourse}, r \in OwnerRoles, l \in Limits :
       AddTask(c, r, 1, NoTask, l)
  /\ UNCHANGED <<lockVars, loopVars, reply, crashes>>

\* Mutant: any task can be answered.
AnswerReadsAny(h) ==
  /\ reply[h] = NoReply
  /\ \E t \in Tasks :
       /\ status[t] # "none"
       /\ reply' = [reply EXCEPT ![h] = [task |-> t, runner |-> runner[t]]]
  /\ UNCHANGED <<fileVars, lockVars, loopVars, added, crashes>>

\* answer_task reads the blocked task outside the mutex ...
AnswerReads(h) ==
  /\ reply[h] = NoReply
  /\ \E t \in Tasks :
       /\ status[t] = "blocked"
       /\ reply' = [reply EXCEPT ![h] = [task |-> t, runner |-> runner[t]]]
  /\ UNCHANGED <<fileVars, lockVars, loopVars, added, crashes>>

\* ... and commits the copy it read, queued.
AnswerCommits(h) ==
  /\ reply[h] # NoReply
  /\ Commit(reply[h].task, "queued", reply[h].runner)
  /\ reply' = [reply EXCEPT ![h] = NoReply]
  /\ UNCHANGED <<born, info, lockVars, loopVars, added, crashes>>

\* SIGTERM sets a flag.
Signal(p) ==
  /\ Stoppable /\ Alive(p) /\ ~stop[p]
  /\ stop' = [stop EXCEPT ![p] = TRUE]
  /\ UNCHANGED <<fileVars, lockVars, pc, cur, mem, todo, live, hold, reply, added, crashes>>

\* _watchdog_tick, read at the top of the loop and before every step.
WatchdogTick(p) ==
  /\ SafeModes /\ pc[p] \in {"idle", "work"}
  /\ hold' = [hold EXCEPT ![p] = ~hold[p]]
  /\ UNCHANGED <<fileVars, lockVars, pc, cur, mem, todo, live, stop, reply, added, crashes>>

\* lock_stale_minutes pass: no write renews a course lock while a task works.
LockAges(c) ==
  /\ LocksMayAge /\ lock[c] # NoTask /\ ~lockOld[c]
  /\ lockOld' = [lockOld EXCEPT ![c] = TRUE]
  /\ UNCHANGED <<fileVars, mutex, lock, loopVars, reply, added, crashes>>

\* runner_lease_seconds pass without a commit of t.  _may_resume asks about a
\* lease on other hosts only: a lapse nobody can ask about is left out.
LeaseLapses(t) ==
  /\ status[t] = "running" /\ t \notin lapsed
  /\ \E p \in Loops : Alive(p) /\ runner[t] \in Loops /\ HostOf[p] # HostOf[runner[t]]
  /\ lapsed' = lapsed \cup {t}
  /\ UNCHANGED <<born, info, at, appends, status, runner, rows, filed,
                 lockVars, loopVars, reply, added, crashes>>

\* kill -9, anywhere.  A corpse of the state mutex is broken by its waiters.
Dies(p) ==
  /\ crashes < MaxCrashes /\ crashes' = crashes + 1
  /\ Alive(p)
  /\ pc' = [pc EXCEPT ![p] = "gone"]
  /\ mutex' = IF mutex = p THEN Nobody ELSE mutex
  /\ todo' = [todo EXCEPT ![p] = [t \in Tasks |-> 0]]
  /\ live' = [live EXCEPT ![p] = {}]
  /\ Forgotten(p)
  /\ UNCHANGED <<lock, lockOld, stop, hold, reply, added>>

Crash(p) == Dies(p) /\ UNCHANGED fileVars

\* Killed inside a commit, between the append to the archive and the save.
CrashInTrim(p) ==
  /\ Dies(p) /\ mutex = Nobody
  /\ \E s \in Terminal :
       LET st == [status EXCEPT ![cur[p]] = s]
           drop == Trimmed(st, Placed(cur[p]))
       IN  /\ pc[p] = "work" \/ (pc[p] = "file" /\ mem[p] = s)
           /\ drop # {}
           /\ Archive(drop, st)
  /\ UNCHANGED <<born, info, at, appends, status, runner, lapsed>>

\* An exception leaves _run: the loop is over, and only its memory is lost.
Raised(p) ==
  /\ pc' = [pc EXCEPT ![p] = "raised"]
  /\ todo' = [todo EXCEPT ![p] = [t \in Tasks |-> 0]]
  /\ live' = [live EXCEPT ![p] = {}]
  /\ Forgotten(p)
  /\ UNCHANGED <<fileVars, lockVars, stop, hold, reply, added>>

\* A commit of the loop raises and nothing in _run catches it: the mutex was
\* not to be had for its 20 seconds.  What the loop had yet to queue is lost.
CommitRaises(p) ==
  /\ crashes < MaxCrashes /\ crashes' = crashes + 1
  /\ pc[p] \in {"claim", "adopt", "work", "chain", "reflect", "retry"}
  /\ Raised(p)

\* can_lock has read a lock that another loop removes before getmtime asks
\* for its age, which raises as well.
ScanRaises(p) ==
  /\ pc[p] = "scan"
  /\ \E t \in Tasks, q \in Loops \ {p} :
       /\ Examines(p, t) /\ ~LockFree(t)
       /\ pc[q] \in {"scanbreak", "break", "unlink"} /\ info[cur[q]].course = info[t].course
  /\ Raised(p)
  /\ UNCHANGED crashes

\* The ends of a loop that are nobody's wish.
Ends(p) == Crash(p) \/ CrashInTrim(p) \/ CommitRaises(p) \/ ScanRaises(p)

LoopStep(p) ==
  \/ ShutDown(p) \/ HoldDrains(p) \/ SelectResumable(p) \/ SelectQueued(p)
  \/ ScanFree(p) \/ ScanHeld(p) \/ ScanStale(p) \/ ScanEmpty(p)
  \/ ScanBreak(p) \/ ScanBreakRaises(p)
  \/ BeginClaim(p) \/ BeginAdopt(p) \/ ClaimLost(p) \/ AdoptLost(p)
  \/ CheckFree(p) \/ CheckHeld(p) \/ CheckStale(p)
  \/ ClaimBreak(p) \/ ClaimBreakRaises(p) \/ Save(p) \/ TakeLock(p)
  \/ StepRuns(p) \/ StepEnds(p) \/ BreakOff(p)
  \/ ReleaseOwned(p) \/ ReleaseOther(p) \/ Unlink(p)
  \/ FileMemory(p) \/ FileUnscored(p) \/ FileNothing(p) \/ ChainAdds(p) \/ ChainEnds(p)
  \/ ReflectAdds(p) \/ ReflectSkips(p) \/ RetryAdds(p) \/ RetryGivesUp(p)

Next ==
  \/ \E p \in Loops :
       LoopStep(p) \/ Start(p) \/ Signal(p) \/ WatchdogTick(p) \/ Ends(p)
  \/ \E h \in Answerers : AnswerReads(h) \/ AnswerCommits(h)
  \/ \E c \in Courses : LockAges(c)
  \/ \E t \in Tasks : LeaseLapses(t)
  \/ OwnerAdds

Spec == Init /\ [][Next]_vars

\* A live loop keeps polling for the mutex and for work, a supervisor restarts
\* loops, and an attempt ends.  The last is the step ceiling's doing, as long
\* as the model calls tools that its role permits: refused calls count no step.
LoopFairness ==
  \A p \in Loops : SF_vars(LoopStep(p)) /\ WF_vars(StepEnds(p)) /\ WF_vars(Start(p))

\* The clock moves: a lock nobody rewrites grows old.
ClockFairness == \A c \in Courses : WF_vars(LockAges(c))

FairSpec == Spec /\ LoopFairness /\ ClockFairness

-----------------------------------------------------------------------------
(* Properties *)

\* The status an owner sees: find_task looks in the queue, then the archive.
Outcome(t) ==
  IF t > born THEN "unborn" ELSE IF at[t] # 0 THEN status[t] ELSE filed[t]

Working(p, t) == pc[p] = "work" /\ cur[p] = t

\* Two loops never execute one task (claim_task: "exactly-once"; the comment
\* above _runner_stamp: 6 tasks queued, 14 task_end events).
OneExecutor == \A p, q \in Loops : \A t \in Tasks : Working(p, t) /\ Working(q, t) => p = q

\* Why OneExecutor holds: who may decide about a task, at every point of the
\* code.  A loop in its critical section looks at a queued or abandoned task
\* that stays so; an executing loop is the one the runner stamp names; what a
\* loop still has to file about a finished task is its outcome; an answerer's
\* copy is still blocked (claim_task, adopt_task, _may_resume, commit_task).
Dead(p) == pc[p] \in {"gone", "raised"}
InMutex(p) == pc[p] \in {"check", "break", "save", "take"}
Executing(p) == pc[p] \in {"take", "work"}
Idle(p) == pc[p] \in {"off", "idle", "scan", "gone", "raised"}

Decidable(p, t) ==
  \/ status[t] = "queued"
  \/ status[t] = "running" /\ (runner[t] \in {Nobody, p} \/ Dead(runner[t]))

Ownership ==
  /\ \A p \in Loops : InMutex(p) <=> mutex = p
  /\ \A p \in Loops : ~Idle(p) => cur[p] \in 1..born
  /\ \A p \in Loops : pc[p] \in {"check", "break", "save"} => Decidable(p, cur[p])
  /\ \A p \in Loops : Executing(p) => status[cur[p]] = "running" /\ runner[cur[p]] = p
  /\ \A p \in Loops : pc[p] \in {"release", "unlink", "file"} /\ mem[p] \in Terminal
                        => Outcome(cur[p]) = mem[p]
  /\ \A h \in Answerers : reply[h] # NoReply =>
       reply[h].task \in 1..born /\ status[reply[h].task] = "blocked"
  /\ \A t \in Tasks : runner[t] \in Loops => pc[runner[t]] # "off"
  /\ \A h \in Answerers : reply[h].runner \in Loops => pc[reply[h].runner] # "off"

\* The queue and the archive agree: a record is in state.json exactly when it
\* has a place there, and what has none was archived with its outcome.
Records ==
  /\ \A t \in Tasks : at[t] = 0 <=> status[t] = "none"
  /\ \A t \in Tasks : t > born => at[t] = 0
  /\ \A t \in 1..born : at[t] = 0 => rows[t] > 0 /\ filed[t] \in Terminal
  /\ \A p \in Loops : \A t \in Tasks : todo[p][t] # 0 => t <= born

\* A done or failed task keeps its outcome for ever, through second commits,
\* trimming, archiving, adoption and late answers.
OutcomeIsFinal ==
  [][\A t \in Tasks : Outcome(t) \in Terminal => Outcome(t)' = Outcome(t)]_vars

\* No writer of state.json erases another's task, and trimming drops nothing
\* that is not in the archive (commit_task, _trim_state).
NothingLost == \A t \in 1..born : at[t] # 0 \/ rows[t] > 0

\* Retries are a chain: a lineage never has two attempts in flight, nor one
\* attempt twice (the "phantom RETRY task" of the runner lease comment).
OneLiveAttempt ==
  \A t, u \in 1..born :
    t # u /\ info[t].lineage = info[u].lineage =>
      /\ info[t].attempt # info[u].attempt
      /\ Outcome(t) \in Terminal \/ Outcome(u) \in Terminal

\* A finished task is followed up once: no more first attempts of a chained
\* role, or of the reflector, than finished tasks that ask for one.
FollowUpOnce ==
  LET first(r) == {u \in 1..born : info[u].role = r /\ info[u].attempt = 1}
      finished(R) == {t \in 1..born : info[t].role \in R /\ Outcome(t) = "done"}
  IN  \A r \in Roles \ OwnerRoles :
        Cardinality(first(r)) <=
          Cardinality(finished(IF r = Reflector THEN ReflectAfter \ {Reflector}
                               ELSE {s \in Roles : Chain[s] = r}))

\* "one task writes to a course's memory at a time".
SingleWriter ==
  \A p, q \in Loops : \A t, u \in Tasks :
    Working(p, t) /\ Working(q, u) /\ info[t].course = info[u].course
      => p = q \/ info[t].course = NoCourse

\* acquire_lock never takes a course's lock file over from another task, also when a lease
\* lapses under a live loop of another host and its task is adopted.
NeverTakenOver ==
  [][\A c \in Courses : lock[c] # NoTask /\ lock'[c] # NoTask => lock'[c] = lock[c]]_vars

\* The next attempt of a failed task is queued.
Retried(t) ==
  \E u \in 1..born : info[u].lineage = info[t].lineage /\ info[u].attempt = info[t].attempt + 1

\* An artefact of the bound on tasks: a loop that would queue one more attempt.
OutOfTasks == born = MaxTasks /\ \E p \in Loops : pc[p] = "retry" /\ ~Exhausted(cur[p])

\* "A failed task is re-queued with fresh eyes ... up to max_task_retries
\* times" (_maybe_retry): a loop that has seen its task fail queues the next
\* attempt, unless it ends first: killed, or raised out of _run by a commit.
\* A scoring that raises in between (_file_memory) must not end it.
RetriedUnlessLoopEnds ==
  \A p \in Loops : \A t \in Tasks :
    (cur[p] = t /\ mem[p] = "failed" /\ ~Exhausted(t)) ~>
      (Retried(t) \/ Dead(p) \/ OutOfTasks)

\* "Dead owner, on the other hand, recovers now": while loops are alive, a task
\* whose loop died is taken up again.
Abandoned(t) == status[t] = "running" /\ runner[t] \in Loops /\ ~Alive(runner[t])
AbandonedIsResumed ==
  \A t \in Tasks : Abandoned(t) ~> (~Abandoned(t) \/ OutOfTasks \/ \A p \in Loops : ~Alive(p))

\* While loops are alive, every queued task and every running one, abandoned or
\* not, gets to an outcome or to a question.
WorkSettles ==
  \A t \in Tasks : (Outcome(t) \in {"queued", "running"}) ~>
    (Outcome(t) \in Terminal \cup {"blocked"} \/ OutOfTasks \/ \A p \in Loops : ~Alive(p))

\* The queue implements the owner's view of it.
Ledger == INSTANCE TaskLedger WITH
  life <- [t \in Tasks |-> Outcome(t)],
  executors <- [t \in Tasks |-> {p \in Loops : pc[p] \in {"take", "work"} /\ cur[p] = t}]
KeepsLedger == Ledger!Spec
=============================================================================
