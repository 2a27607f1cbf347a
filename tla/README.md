# A formal model of the 24/7 agent

This directory holds TLA+ models of the agent in this repository, the TLC
configurations that check them on small instances, and theorems about them with
proofs checked by TLAPS. It starts from the part everything else stands on: the
locks, the durable task queue with the loops that drain it, and the ledger that
keeps a retried task from acting on the world twice. Around it: the inside of one
task (turns, brakes, refused finishes), what a loop does beside its tasks
(intentions, reconcilers, safe mode), a task's browser session, and the ledgers that
decide whether unattended work counts and may be repeated: the contract of a goal, the
trust in a runbook, the procedures that loops compile from their own work, and the
capabilities they acquire.

Contents: 1 inventory, 2 plan, 3 modules and how they correspond to the code,
4 runs and bounds, 5 fairness, 6 what is proved, 7 where the code and its text
disagree, 8 what is not modelled.

Check a run with `tlc -workers 2 -config TaskQueue_queue.cfg MCTaskQueue`, a
proof with `tlapm TaskQueueProofs.tla`. `PROJECT.json` lists the components,
the runs, the lines behind every definition, the hazards with the property that
covers each, and for every checked property a mutation of the model that
breaks it. The mutated operators are in the modules, marked `Mutant:`; nothing
else uses them.

## 1 Inventory

One machine runs any number of **loop processes** (`loop.py run`, under systemd
or in containers). They share a directory. The control panel's threads, command
lines, timers and standing controllers read and write the same files. There is
no server: every protocol between processes is made of files, `os.replace`,
`O_EXCL`, `flock`, process ids and clocks. That is where the hard behaviour is.

| Component (source) | State | Operations | Interacts through | Hard behaviour | What makes it correct |
|---|---|---|---|---|---|
| **State mutex, ledger locks** (`loop.py _state_lock`, `locks.py holding`) | a lock file with a token, its mtime | acquire, break a corpse after 8 s, release, time out | every writer of `state.json` and of the ledgers | test-then-remove on a path; kill -9; a stalled holder; Windows delete-pending | one process inside; a holder that was robbed does not rob its successor |
| **Advisory locks** (`locks.py advisory_holding`) | a kernel lock on an inode | acquire, time out, release | session leases, provider registry | identity of the inode; death releases | one holder of the path |
| **Task queue** (`loop.py` 860-1300) | `state.json`, `tasks-archive.jsonl`, `courses/<c>/.lock` | add, commit, trim, find, claim, adopt, answer, lock, release | loops, panel, CLI, timers | stale snapshots; leases of dead, remote and recycled owners; kills between two writes; retention limit | a task has one executor; nothing is lost; an outcome is final; one writer per course |
| **Loop scheduler** (`loop.py _run`, `_maybe_*`) | position in the loop, in-memory copy of the task, stop flag | poll, select, step, release, file, chain, reflect, retry | the queue; the watchdog; systemd | signals and holds between any two steps; a crash between an outcome and its follow-up | queued work settles; abandoned work is resumed; retries form a chain; follow-ups are not doubled |
| **Step engine** (`loop.py run_task_step`; `candidates`, `gates`, `verify*`, `confidence`) | step and cost counters, message list, malformed and repetition counts, candidate workspaces | one model turn: call tools, check, promote, commit | the queue (commit), effects, gateway | a dozen brakes in a fixed order, some of which return early; rejected finishes; promotion rollback | every attempt ends; nothing unverified is promoted |
| **Effects ledger** (`effects.py`) | `effects.jsonl`: started, done, error per key | claim, lookup, begin, unfinished, record | MCP and HTTP effects, procedures | a crash between call and record; reads without the lock | no effect is sent while the fate of an earlier one is unknown |
| **MCP client** (`mcp.py`) | server table, process pipes, result cache | list, call, guarded_call | effects, approvals | timeouts after the call went out | as above; policy before the call |
| **Approvals** (`approvals.py`) | `approvals/<id>.json` | request, decide, status | guarded_call, panel | decision racing a second request | one decision, never revised; no gated effect without it |
| **HTTP effects** (`httpstate.py`, tool `http_effect`) | endpoint registry | effect with readback | effects ledger | a verified effect whose record fails | as for the ledger |
| **Prospective intentions** (`prospective.py`, `routines.py`) | `intentions.json`, event cursors | add, cancel, check (fire) | add_task; idle ticks of every loop | add_task first, save later: crash or timeout between them | an intention fires once; an armed one fires eventually |
| **Watchdog** (`watchdog.py`) | episodes, safe-mode file | tick, trip, clear | loops (hold), steps (counters) | a clear racing a trip | a tripped condition holds every loop until the owner clears it |
| **Reconcilers** (`reconciler.py`) | controller ledger | observe, act, back off | add_task, operators | lease corpse age against a slow action | one action per drift |
| **Goal pursuit** (`goal.py`, `contract.py`, `repair.py`, `steer.py`, `swarm.py`, `universal.py`) | goal directory, contract, rounds | freeze, queue, wait, judge, repair, stop | queue, verifier, steering inbox | restart in the middle of a round; a frozen contract changed | the contract judged is the contract frozen; rounds bounded |
| **Missions** (`mission.py`) | phase, criteria ledger | phases and receipts | queue | restart between receipt and phase | no phase without its criteria |
| **Procedures, runbooks** (`procedure.py`, `runbook.py`, `operators.py`, `signatures.py`) | trajectories, compiled runbooks, sealed receipts, trust counts | capture, compile, evaluate, record, replay, clear | step engine, queue | two loops compile over each other while both evaluate; a receipt whose record is lost; trust earned while being revoked | a verdict is about the bytes that are there; only a proven procedure runs unattended |
| **Skills** (`skills.py`) | skill graph with evidence | propose, promote, quarantine | memory | evidence arriving out of order | quarantine wins |
| **Computer sessions** (`computersession.py`, `computerprocess.py`, `computeruse.py`, `computerverify.py`) | index, session leases, action intents | open, observe, click, close, reconcile, recover | step engine, commit_task, OS processes | crash between intent and outcome; descendants that survive | an UNKNOWN action is not retried; one session per task |
| **Model gateway, routing, providers** (`modelgateway.py`, `modelrouter.py`, `providers.py`, `scheduler.py`, `credentials.py`) | statistics, provider registry | complete with fallbacks | step engine | retry ladders | a call returns or fails |
| **Grants, control plane, authorities** (`grants.py`, `controlplane.py`, `fileauth.py`, `execution.py`, `policy.py`, `sandbox.py`, `capability.py`, `acquire.py`, `org.py`) | grants with counts and expiry | issue, consume, revoke | tools | consumption racing revocation | no more uses than granted |
| **Typed world states** (`dbstate.py`, `gitstate.py`, `tabular.py`, `tabletypes.py`, `xlsxstate.py`, `checkpoint.py`) | none of their own | canonicalise, apply, read back | verification | - | transforms are what they declare |
| **Memory and knowledge** (`memory.py`, `recall.py`, `retrieval.py`, `knowledge.py`, `commons.py`, ...) | append-only ledgers, indexes | write, rank, supersede | steps, reflection | concurrent appends (under `locks.holding`) | no line lost or torn |
| **Learning, evaluation** (`mastery.py`, `benchmark.py`, `evalsuite.py`, `training.py`, ...) | result files | measure, compare | offline | - | the statistics are what they say |
| **Capability frontier** (`frontier.py`, `acquire.py`) | a row per capability, sealed probes and adoptions, acquisitions | propose, falsify, acquire, adopt, retire, reseal, accept terms | agents, owners, approvals | the row is read, something slow is done, the whole row is written back; only the write is locked | what is published as ready climbed every rung: seen absent, acquired, seen present, granted |
| **Digital twin** (`twin*.py`) | predictions and decisions | predict, measure | queue (adds a task) | - | - |
| **Teams, workflows, federation** (`team.py`, `workflows.py`, `federation.py`, `chief.py`, ...) | plans, workflow state | queue a group, join it | queue | restart while waiting | each node runs once |
| **Control panel** (`ui.py`, `uicards.py`) | none of its own | HTTP handlers | all of the above | threads that answer one question twice | - |
| **Operations** (`fleet.py`, `backup.py`, `package.py`, `preflight.py`, `doctor.py`, `trace.py`, ...) | archives, receipts | install, pack, diagnose | - | - | - |

## 2 Plan

Most important first. Done:

1. `Mutex`, `FileMutex`, `AdvisoryLock`: the two locks and the promise they are
   used for. Theorems: exclusion of each, under the conditions it needs.
2. `TaskLedger`, `TaskQueue`: the queue, the loops, leases, course locks,
   archive; refinement of the owner's view. Theorems: ownership, one executor,
   nothing lost, final outcomes, one live attempt, one follow-up, no lock taken
   over, how a lock is lost, the refinement.
3. `EffectLedger`: ledger, approvals and their two callers. Theorems: one open
   effect, no gated effect without a grant.
4. Liveness of the queue under the loops' polling (TLC only).
5. `TaskStep`, `Candidates`: `run_task_step` with its brakes in the order the code
   asks them, and what a refused finish does with the attempt.
6. `Prospective`, `Reconciler`, `SafeMode`: the idle ticks and the watchdog.
7. `ComputerSession`: the browser session under its server lease.
8. `Pursuit`: a goal's contract, its budgets, its judge and its event ledger.
9. `Trust`: the trust ledger of runbooks.
10. `Frontier`: a capability from its proposal to its adoption.
11. `Procedure`: what the loops teach themselves, from capture to replay.
12. Theorems of 5 to 11: `CeilingsBind`, `CallsAreAnswered`, `OrphansByEscalation`, `HistoryKept`, `FiredOncePerFault`,
    `StashAheadByOne`, `WorseOnlyByMixing`, `FirstTripKept`, `OrderHolds`, `HaltsAtCeiling`,
    `BrowserIsNamed`, `NoEffectIsTrue`, `NoBlindRepeat`, `CompletionIsHonest`, `CyclesBounded`, `GradedAndFinal`, `DivergesByName`, `ProvenIsEarned`, `ReadyIsEarned`,
    `VerdictIsOfTheseBytes`.

Left, in this order:

13. A second answerer in `TaskQueue`, as a constant that the existing runs turn off.
14. Skills, missions, grants, workflows.

## 3 Modules and the code

| Module | Models | Role |
|---|---|---|
| `Mutex` | the promise of every `with` lock | abstract specification |
| `FileMutex`, `MCFileMutex` | `Agent._state_lock`, `locks.holding` | refines `Mutex` when nobody stalls or dies |
| `AdvisoryLock` | `locks.advisory_holding` | refines `Mutex` always |
| `TaskLedger` | what the owner is promised about tasks | abstract specification |
| `TaskQueue`, `MCTaskQueue`, `TaskQueueProofs` | queue, leases, course locks, scheduler | refines `TaskLedger` |
| `EffectLedger`, `MCEffectLedger`, `EffectLedgerProofs` | `effects`, `approvals`, `guarded_call`, `http_effect` | its effects of unknown fate refine `Mutex` |
| `TaskStep` | `run_task_step`, compaction, escalation | the inside of `TaskQueue`'s `StepRuns` and `StepEnds` |
| `Candidates` | the gate loop of `finish_task`, `candidates.py`, promotion | a refused finish, attempt by attempt |
| `MCStep`, `StepProofs` | - | runs of, and proofs about, the two above |
| `Prospective` | `prospective.py` | who queues tasks in `TaskQueue`'s idle ticks |
| `Reconciler` | `reconciler.py` | controllers of the idle ticks |
| `SafeMode` | `watchdog.py` | the hold that `TaskQueue` has as one Boolean |
| `MCStanding` | - | runs of the three above and of `EffectLedger` |
| `ComputerSession` | `computersession.py`, `computerprocess.py` | the session of one task, under an `AdvisoryLock` |
| `SessionProofs` | - | proofs about `ComputerSession` |
| `Pursuit` | `contract.py`, `goal.pursue`, `runbook.reconcile` and `settle`, `repair.apply` | one goal, its two records and the processes on it |
| `LoopProofs` | - | proofs about `SafeMode`, `Reconciler` and `Prospective`, and of what `MCStanding` puts together |
| `Trust` | `runbook.run` and `record`, the owner's clear | trust in the bytes of one runbook |
| `Procedure` | `procedure.py`, the learning and replay hooks of `loop.py`, `record` and `status` of `runbook.py` | one family of tasks and the runbook compiled from it |
| `PursuitProofs` | - | proofs about `Pursuit` |
| `Frontier` | `frontier.py`, the stages of `acquire.py` it goes through | one capability, from proposal to adoption |
| `TrustProofs` | - | proofs about `Trust`, `Procedure` and `Frontier` |
| `MCLeases` | - | runs of the locks, the sessions, the contract, the trust ledger, the procedures and the frontier |
| `LeasesProofs` | - | proofs about `FileMutex` and `AdvisoryLock`, and of what `MCLeases` puts together |

How they compose: `TaskQueue` and `EffectLedger` use the state mutex and the
claim as a mutex (one variable holding the loop or the caller inside), which is
the interface `Mutex` states and `FileMutex` is shown to provide, or shown not
to. Inside `TaskQueue` a critical section that is a single atomic replacement of
`state.json` is one step; the sections of `claim_task` and `adopt_task`, which
also touch the course lock, are several steps between which anything that does
not need the mutex can happen.

**FileMutex.** `lock` is the token in the file, `old` whether its mtime is past
the stale age, `mine[p]` the token of `p`'s acquisition, `robbed` a history
variable. `Create` is `os.open(O_EXCL)`; `Busy`, `JudgeStale`, `Break` and
`BreakFails` are the `FileExistsError` branch with its `getmtime`, comparison and
`os.remove` apart; `Wait` and `GiveUp` the sleep and the deadline; `LeaveOwning`,
`LeaveBroken`, `Remove`, `RemoveFails` the `finally` block. The clock is `Age`.

**AdvisoryLock.** `path` is the inode at the path, `fd[p]` the inode `p` has open,
which is what the kernel locks; opening and locking are two steps, and the proof needs that nobody
ever unlinks the file, which is what `locks.py:36` says.

**TaskQueue.** `at[t]` is the place of a task in `state["tasks"]` (0 when it is not
there), so that "first in the list" and trimming "oldest first" are what the
code does; `rows`/`filed` are the archive; `runner`/`lapsed` the runner stamp and
whether its lease is over; `lock`/`lockOld` the course lock file and whether it
is past `lock_stale_minutes`. `pc[p]` is a program counter through `_run`:

    idle -> (select) -> scan | adopt -> claim -> check -> break? -> save -> take -> work
         -> release -> unlink? -> file -> chain -> reflect -> idle      (done)
                                       -> retry -> idle                 (failed)

`SelectResumable` and `SelectQueued` read the snapshot; the scan then examines
the queued tasks one by one with `can_lock` against a file system that keeps
moving, outside the mutex. `BeginClaim` ... `TakeLock` are `claim_task` and
`adopt_task`. `StepRuns`, `StepEnds`, `BreakOff` are what a step commits, the
exceptions of a step included. `FileMemory`/`FileUnscored` are the second commit
with the confidence. `AddTask` and `Commit` are operators that every writer
shares, exactly as in the code, the trim and the archive included. `acquire_lock`
opens the file and then writes it: while a claim is at `take`, a scan can read the
file empty, find no task in it and remove it (`Acquiring`, in `ScanStale`). A loop
ends without its wish in four ways (`Ends`). `Crash` and `CrashInTrim` kill it at
any point, also between archive and save. `CommitRaises` is the state mutex that was
not to be had for twenty seconds: the `RuntimeError` leaves `_run` at a claim, an adoption, a
step's commit, a chained task, a reflection or a retry, and what was to be written is not.
`ScanRaises`, `ScanBreakRaises` and `ClaimBreakRaises` are the `FileNotFoundError` of
`getmtime` or `os.remove` on a lock file that another loop removed.

**EffectLedger.** One key. `last` is the status of the key's last line, `known`
whether there is any `done` line: the two questions `unfinished` and `lookup`
ask. `pc[c]` runs through the claim (`lookup`, `approve`, `request`,
`unfinished`, `begin`), the call and the record. `http` chooses which of the two
callers of the ledger the key belongs to; it never changes. `outcome[c]` is what a caller made of
its call: `done` and `error` are what the other side said, `guess` is the error that
`http_effect` records when it only knows that the call timed out, that the effect could not be verified
(`CallUnverified`), or that the record of a verified one failed. `Unknown` are the effects whose fate
nobody knows, guessed ones included; `Guessed` those of them that the ledger takes for settled.

**TaskStep.** `disk` is the task record, `ctx` the transcript, `task` the loop's
copy. A turn is one action for each way a turn can end: `Stopped` by what is asked before the
model, `ProviderFails`, `Malformed`, `Refused`, `RunTool`, `AskHuman` and the
`Finish...` actions, with the brakes in the order of the code, because most of the hazards are in
that order (an early return before the counter, before the answers of the extra
calls, before the cost is written). It ends in `pc = "commit"`, the transcript
written and the record not yet; `Commit` writes it, `Crash` loses it. A message is
who says it and which calls it makes or answers, which is all that compaction and
the provider's rule look at.

**Candidates.** Files have a quality, so that "better", "the best attempt" and "put
back" mean something; the gate's answer is a condition on it, or any answer when
`Flaky`. The counters live in the copy until the commit, the stash on disk. `paths` is not
what was written but what `written_paths` can read from the records of the steps. A record is cut at 300
characters, so a long `write_file` may be missing, and one that was refused or failed is on the list
(`WriteFile`, `RefusedWrite`). `paths` is what an attempt is scored by, `kept` what of it was copied:
the files that are there and that File Authority lets the task write (not `Foreign`).

**Prospective.** The ledger is a sequence that a process reads whole (`Check`)
and saves whole; between the two a check looks at its items one by one and
queues tasks. `occ` counts how often the condition of an intention has come true,
`board` remembers which intention queued each task. The lock is a file with an age;
that it is broken under a live holder, or done without after five seconds, is
counted in `overlaps`, kills and raised timeouts in `failures`.

**Reconciler.** The same pattern with a restore between observation and count:
`todo`, `doing` and `mine` are where a tick is, `tried` the history of failed
restores as they really happened, which `recs[r].failures` may lag behind.

**SafeMode.** `mode` is the record in the file, `wdMode[p]` what loop `p` last saw;
the test and the write of `enter` are two steps, and so are the owner's read and
removal.

**ComputerSession.** `owner`, `index`, `ledger`, `acts`, `env` are files; `sup`, `alive`,
`wire`, `stop` are the supervisor process, its browser, the request in flight and
the order to stop. `step[t]` is a program counter through `__init__`, `execute`,
`complete`, `close` and `_recover`, with one step per durable write, because a kill
between two of them is what the records are for. The lease is the kernel lock that
`AdvisoryLock` shows to exclude.

**Pursuit.** `state`, `accept`, `hash` are `contract.json`; the events are not kept,
but what the code derives from them is: `told` (what `replay` says), `cycles`, `hits`,
`repairs`. `at[p]` is where a process is in `pursue`, `settle`, `apply`; a transition is two
steps, `Transition` under the contract's lock and `Tell` after it. `Verdicts` is
`contract.verify`: the graders' answer is any, whether they are run at all is the code's.
`raced` and `apart` are history: the ways in which two creators, a kill, or an event told
late can part the two records.

**Trust.** `book` is the content of the runbook file, `trust` its entry, `use[p]` one run of
it from loading to recording. `earned` counts what each content was really accepted for,
`misfiled` the wins recorded against a file that changed during the run.

**Procedure.** One family of tasks. `proc` is the compiled file, which is the set of
trajectories it was compiled from; `traj[t]` the capture of a task, open or closed;
`receipts` the outcomes of sealed cases, each of certain bytes, the first one kept; `credit`
the entry of the file in the trust ledger. `doing[t]` is a program counter of the task's
loop: match, load and replay a proven file, or begin a capture; work; then close it, read the
family's rows, compare with what is there, write the file over whatever is there by now,
evaluate the file as found at the start. `record` looks at the file twice under the trust lock, once for the
hash of the entry (`EvalLoads`) and once for the accepted cases of the bytes that are there then
(`EvalRecords`); a compilation does not take that lock and may come between. Every access of a file is a step
of its own, between any two of which the other loops go on. A
kill sends a running task back without its replay or its capture, and ends the learning of
a finished one. `lost`, `foreign` and `strayed` are history: failures of each content, failures
credited to a content that did not run, and for each content the cases that its entry counts on a receipt
of other bytes, because a compilation came between the two looks.

**Frontier.** `cap` is the capability's row, with its stage; `firstSeal`, `conflict` and
`adoption` what the append-only ledger of seals says; `there` and `tested` the packages.
`op[p]` is a command under way: the row it read, what its probe answered, what its owner
typed. A command reads, does something slow, and puts the whole row back; only the
putting is locked, so that everything else may happen between. `Answers` is the probe with its
three answers. `Aborts` is a kill, a lock that timed out or a refusal nobody writes
down. `slipped` is history: a command read the row a second time, and it was not the
one it had read.

The data that is left out is data no property tells apart: goals, messages,
costs, timestamps (a Boolean says whether the relevant age has passed), tool
arguments (the operation key), file contents.

## 4 Runs

| Run | Distinct states | Shows |
|---|---|---|
| `FileMutex_onecrash` | counterexample | exclusion of the lock file needs calm: one kill loses it |
| `TaskQueue_queue` | 697 k | two loops, one host, one course, an answerer, three tasks, a retry, retention 1, one kill or raised commit: type correctness, one executor, ownership, one live attempt, refinement of `TaskLedger` (which makes outcomes final) |
| `TaskQueue_pipeline` | 572 k | chain, reflection, `max_attempts`, SIGTERM, safe mode, drain, unwritable archive: at most one follow-up, nothing lost |
| `TaskQueue_hosts` | 82 k | loops on two hosts with lapsing leases: locks never taken over |
| `TaskQueue_live` | 177 k | liveness: queued and abandoned tasks settle, failed tasks are retried unless their loop ends |
| `TaskQueue_twowriters` | counterexample | two writers in one course |
| `TaskQueue_recycledpid` | counterexample | a recycled pid blocks recovery |
| `EffectLedger_race` | counterexample | a known-completed effect sent again |
| `TaskStep` | 1.4 M | a task turn by turn with a kill: every call has its answer, ceilings hold except where the code returns early, an attempt ends; refused finishes with writes the records miss: promotion, the stash is ahead of the record by one attempt at most |
| `Standing` | 327 k | four calls of one key: grant before effect, one effect of unknown fate beside the guessed ones; intentions fire once per occasion and fault, and are not starved; restores halt at the ceiling, orders stand, drift converges; the first trip is kept |
| `Leases` | 2.8 M | lock file under stalls, two kills, Windows windows; kernel lock refines `Mutex`; browser sessions with kills of task and supervisor; two processes on a goal contract with tampering and a kill; two users of a runbook whose file is rewritten; two loops that compile, evaluate and replay one procedure, with a kill; two agents and an owner on one capability |
| `Trust_cleared` | counterexample | a win nobody accepted promotes a runbook that was quarantined and cleared |

A module of several parts (`MCStep`, `MCStanding`, `MCLeases`) has a variable `part`
that is chosen at the start and never changes. The parts share no state, so the sum of
them is explored and not the product, which would show nothing more.

**Bounds, and why they are enough.** *Two loops*: every interference in the code
is between one loop and "another", which a snapshot, a stamp or a lock file
names; the proofs cover any number. *Three tasks, two from the owner and one
retry*: two tasks contend for a course while one finishes, is trimmed and is
retried; the pipeline has four because one task can ask for a chained task and
its reflection. *`Retain = 1`, `Slack = 0`*: small stand-ins for 150 and 25, so
that trimming happens with two finished tasks; the pipeline has `Slack = 1` so
that the band is seen, and the liveness run `Retain = 0`, where the code never
trims. *One course*: locks of different courses do not interact; a task without
a course is also there (`NoCourse`). *One kill or one raised commit*
(`MaxCrashes` counts both) is enough to abandon a task at
any point of the code, and a second loop is left to find it. *Four calls, one
fresh* let two retries follow a lost call beside a sibling. `MaxTokens` bounds
acquisitions: five let each of three processes hold the lock and two hold it
again. One step of a task is bounded by four counted steps, two malformed answers and
two refused finishes, small stand-ins for 150, 3 and 6 that leave room for each
brake to come first; the transcript is compacted above six messages, of which two
are recent. `CostCap` equals the ceiling, so cost is exact where it matters. Three files
of three qualities, one of which the task may not write: two files are the least in which a mixture
is worse than both attempts, and the third is scored and never copied.
`ConsumedCap = 1` stands for 200, so that a second event pushes the first out;
`Narrow` bounds the two intentions and the occurrences of their conditions together;
the kinds left out of the cfg (`once`, `every`) are `event` without memory of events
and `repeat` without a change. One fault, one overtaken lock and one lost tick
(`MaxFaults`, `MaxOlder`, `MaxLost`) are what the properties count against. Two
environments, two actions, one kill of a task and one of a supervisor let a session
be lost, found by the next claimant, and lost again; a session with a second action has
beside it either a second task or one of the deaths (`Narrow` of `MCLeases`, which holds all
the bounds of that module on what may come together). On a goal
contract two processes give three commands (a pursuit, another one, a reconciliation or a
repair), two cycles are allowed and one repair, and once one has died the other goes on
alone or is restarted, without the last command; where both created it the last command is given alone; the third cycle number is there, so that a budget can be overrun. The trust
ledger has its real thresholds, three wins and two losses, eight runs by two users and two
rewrites of the file. A procedure has three tasks (`MaxLoops`): two accepted runs compile
it and the third task compiles it anew or replays it, in any interleaving of two of them, and of all three
as long as nothing else went wrong and one at a time evaluates (`Crowded`); two kinds of work, a suite of
two cases, one of them an edge case, and thresholds of two, which are the least that tell
independent from many, diverse from many and a streak from a failure. After a kill the last task
is not begun. Three tasks are enough for a case to stray to another content, not for a content to be proven by
it; four are, and a run of the module that starts behind the second compilation reaches that in nineteen steps.
The bound of the run does not; the theorem has none. A capability has two probes and two commands to publish, two generations, six
commands by two agents and one owner and one package removed: a second command can begin between
any two steps of the first, and the first can still be adopted. `MaxTasks` of the queue stops behaviours that want one more task; `OutOfTasks`
excuses exactly the loop that would have queued a retry, and nothing else.

**Symmetry** (`LoopSymmetry`) is used in the safety runs in which the two loops
have the same role (`queue`, `hosts`), where `HostOf` and `PidOf` are either
constant or injective, and never in a liveness run. `Leases` has no liveness
property and takes the two tasks, each its own lineage, and the two processes on the
contract as symmetric. The names are shared between its parts: the two processes are also the
users of a runbook, the frontier's agents and the two kinds of work, the two tasks also its
probes and two of the three tasks of a family; no part tells the members apart.

**Deadlock** is not checked: acquisitions, tasks, calls and kills are bounded, and
with all loops gone or all calls returned nothing is left to do. That a loop is
never stuck while there is work is what the liveness run says instead.

## 5 Fairness

`FairSpec` of `TaskQueue` assumes, and only the liveness run uses:

- `SF(LoopStep(p))`: a live loop keeps running and keeps polling. Strong, because a
  loop waits for the mutex by trying again and again: each try finds it either
  free or held for a moment.
- `WF(StepEnds(p))`: an attempt ends. In the code that is the step ceiling and the
  task deadline. `AttemptEnds` of `TaskStep` is what stands behind it, and shows its
  limit: a call of a tool the role does not permit returns before the step is
  counted (`loop.py:3048`), so an attempt ends, or its turns are refused for ever.
- `WF(Start(p))`: a supervisor starts loops (`agent.service:23`, `Restart=always`).
- `WF(LockAges(c))`: time passes, so a course lock nobody rewrites grows old.

The other specifications with fairness:

- `MCSpec` (`TaskStep`): `SF(Step)`, the loop comes back for the next turn; `WF(Take)`,
  a loop takes the task; `WF(DeadlinePasses)`, the clock.
- `MCStandingSpec`: a begun tick or command goes on and a dead holder's lock ages
  (`WF(PmProceeds)`, `WF(RcProceeds)`); idle ticks come again and again and one day find
  the lock free and the reconciler due (`SF` of `Check` and `TickStarts`); the watched
  world is observed (`SF` of the observation). Nothing says that a restore succeeds.

Nothing is assumed of owners, answerers, signals, safe mode or kills.
`RetriedUnlessLoopEnds` exempts a loop that is gone, killed or raised out of `_run` by a commit:
`_maybe_retry` runs after the commit of the failure and nobody looks at failed tasks again, so a kill between
the two loses the retry, and so does the retry's own commit when the mutex is not to be had
(both listed as hazards).

## 6 Proofs

Every theorem is for all values of the constants that satisfy the named
assumption of its module, and for any number of processes, tasks and calls.

**LeasesProofs.** Of `FileMutex`, `TypeCorrect`. The inductive invariant is type correctness,
`TokensUnique` (no two acquisitions have one token, none is newer than `issued`),
`UnrobbedOwn` (whoever is inside and was not robbed owns the file) and
`RobbedDisowned` (whoever was robbed does not). `UnrobbedExclude` follows: two
unrobbed holders would own one file with two tokens. `RobbedLeaves` is the action
property from the same invariant. Under `Calm` (no stall, no kill, no Windows
window), `CalmInv` adds that nobody is ever about to break a live file, and
`CalmExclusion` and `CalmRefinement` follow. `FileMutex_onecrash` shows that the
kill cannot be dropped from `Calm`. Of `AdvisoryLock`, `KernelTypeCorrect`, and `AdvisoryRefinement`
with no condition: every holder holds the one inode at the path. A behaviour of `MCLeases` is one of
its seven parts with the others at rest, so each part keeps its own specification
(`PartsKeepTheirSpecs`). With that, what is proved of a part holds of what TLC explores:
`LeasesTypeCorrect` and `LeaseKeepsPromiseHolds`.

**SessionProofs.** `CsTypeCorrect`, and the four safety properties of `ComputerSession`, for any
number of tasks, browsers, actions and kills, from two invariants. `ServerInv`: a task is inside a call
only while it holds the lease, so the owner record can be told from where that one call is (`OwnerOf`,
`ConnOf`): it is empty when a new connection begins and names the browser before the process is
started; and a record that says closed is of a browser that is gone (`ClosedIsGone`). That gives
`BrowserIsNamedHolds`. `LedgerInv`: a request under way belongs to an action that is dispatched or
unknown and has not acted (`WireOK`), an action never sent has not acted (`NothingYet`), an
earlier action of the same intent is over or has the owner's leave (`RepeatsExcused`), a completed
lineage has nothing open (`SettledWell`). Every step makes of a record one that follows it
(`Follows`: refused, without effect and verified are final, decisions are only added), which is why
what was true at completion stays true. `NoEffectIsTrueHolds`, `NoBlindRepeatHolds` and
`CompletionIsHonestHolds` follow.

**TaskQueueProofs.** Three theorems have no condition, whatever the hosts, pids, leases and answerers:
`TypeCorrect`, `NothingIsLost` (a commit places its task, and drops only what it has filed: `FileMoves`)
and `NeverTakenOverHolds`. The rest assume what the code assumes, in two parts. `Fleet`: no two loops have
one host and one pid, and there is at most one answerer; the liveness test of `_may_resume` and
the two steps of `answer_task` need that. `LeasesKept`: no lease lapses under a live loop, "It must exceed the
longest gap between two commits of one task" (`loop.py:781`). `Fleet` is about constants; `LeasesKept` is about
behaviours, so the theorems read `Spec /\ [][LeasesKept]_vars => ...`. A lease is asked about only by a loop
of another host, and `LeaseLapses` leaves out the lapses nobody could see; that is a convention of the model and
no result. The inductive invariant is

    IInv == TInv /\ Records /\ Ownership /\ CopyIsRunning /\ LapsedDead

`Ownership` says, for every point of the code, who may decide about a task:
a loop in its critical section looks at a task that is queued or abandoned, an
executing loop is the one the stamp names, what is left to file is the outcome,
an answerer's copy is still blocked. It is not inductive alone. `Records` (a task
is in the queue or archived with a final outcome) is needed because a second
commit can meet a task that was trimmed; `CopyIsRunning` because a loop that
stops between two steps must not look finished; `LapsedDead`, that a lapsed lease names a dead
loop, because an adopter on another host sees nothing else of it, and the dead stay dead
(`DeadStays`). `TInv` is type correctness and
that tasks referred to exist. `Commit` is treated once (`CommitFacts`,
`CommitOutcome`, `CommitOther`) and each step's proof cites it. From `IInv`:
`OwnershipHolds`, `OneExecutorHolds`. `LedgerKept` shows the
refinement step by step: each action maps to one action of `TaskLedger` or to a
stutter. `OutcomesAreFinal` is then a fact of the abstract ledger carried down.
Two theorems count tasks. Both rest on `FollowersOK`: the loop that ended a task is the
only one that still follows it, and the task is over. `OneLiveAttemptHolds`: the attempts of
a lineage are numbered apart, and every one but the last is over with nobody left to retry
it (`Lineages`, `Superseded`), so whoever retries, retries the last. `FollowUpOnceHolds`: a
finished task that no loop is due to follow has paid for what it asks, and the first attempts of
a role are at most the tasks that have paid (`Settled`): adding a follow-up and
paying for it are one step. It assumes besides that no role is chained to the reflector
(`NoChainToReflector`), since such a role would ask for it twice. For
`NeverTakenOverHolds`, the mutex names the loop in its critical section, and between its `can_lock`
and its `acquire_lock` the course's lock is free or its own (`ClaimsOK`), since others can
only remove a lock there.
Two theorems say what is left of "one task writes to a course's memory at a time", which the code breaks
(section 7, 2). `WritersUnlessRobbed`: two loops write to one course only after a step took the lock
from a loop at work and left it at work (`Loses`); until then everybody at work on a course holds its lock
(`HoldersOK`), and two holders would execute one task. `RobbedOnlyHow`: only three steps do that, `next_task`
breaking a lock by its snapshot or because it read the file while it was still empty (`ScanBreak`), a claim or an adoption breaking one that is old
(`ClaimBreak`), and `release_lock` removing what it saw as its own before (`Unlink`). `TaskQueue_twowriters`
is the first of the three; no crash, raised commit, answer, lapsed lease or `acquire_lock` does it. The
claim is on the list by age alone: under the mutex it sees every working loop's task as
running (`JudgedOK`, from `Ownership`), which is what the snapshot of `next_task` lacks.

**EffectLedgerProofs.** `TypeCorrect`; `OneOpenAtATime` (the refinement of `Mutex` by
the effects of unknown fate, `Unknown`, without those `http_effect` guessed about, `Guessed`) and
`SentIsGranted`. For MCP effects, which guess nothing (`HttpGuesses`), that is the whole promise; for `http_effect`
it is what the code keeps of it (section 7). The invariant: one caller in the claim; an
effect of unknown fate that is not guessed is the last line of the key, which says `started`, unless
`http_effect`'s handler wrote an error behind it, and then there is a `done` line
that `lookup` replays before anyone gets further; so whoever is about to write its
intent is alone (`BeginsAlone`), which is why the check for an unfinished intent
must be inside the claim. `KnownIsRepeatedOnce` bounds what section 7, 4 breaks: once an effect is known,
only a call already past its lookup (`Late`) can send it again, there is at most one, sending takes it out of
`Late`, and nobody joins. The model takes the claim as a mutex: with the
corpse of a claim broken under two waiters, `FileMutex_onecrash` applies.

**LoopProofs.** `FirstTripIsKept`. The invariant says that whoever is between the test
and the write of `enter` is alone there and finds no file, unless two were entering at
once (`EntersAlone`); the step that writes is the only one that could replace a trip.
`OrdersStand` is about the reconcilers: as long as no live holder of the list's lock was
overtaken (`older = 0`), only the lock's owner is inside (`OneInside`), only a corpse's lock
gets old (`OldIsDead`), and a tick's copy differs from the file only by what it halted itself
(`CopyIsFile`), so its save undoes no order. `HaltsAtCeilingHolds` bounds the failed restores also
when holders are overtaken. What was tried is at most what the file counts, with those
who counted and have not saved (`CountedBy`), the ticks that were lost, and the slack: each live
holder the clock overtook pays for `MaxTries` tries, but its payment is only free to be used once
it has left (`Behind`, `Slack`), because until then its old copy may still come over the file
(`FileBound`). For the holder of the lock the same is said of its copy (`CopyBound`), which becomes
the file when it saves. `HistoryIsKept` is about intentions: until a lock is broken under a live holder
or done without, whoever is inside holds the lock, and its copy tells everything the ledger does (`OneEditor`,
`Extends`), so that the save at the end loses nothing. `FiredOncePerFaultHolds` bounds the tasks of an
intention with the faults counted in. Each item tells the occasions it has served (`Tells`: the list of
a `repeat`, everything up to the last number of a `change` or an `every`, the status of the others), and
`Told` says that what any item tells, in the file or in a copy, has happened. A stray, who is inside without the
lock, may still fire what its copy does not tell, or bring it back by saving: the tasks and all that (`Debt`)
are at most what the record that counts tells, with as many repeats as there were faults
(`Covered`). The record that counts is the holder's copy, and also the file unless that copy is dirty. Strays
are at most the locks broken under a live holder or done without (`Watched`). A check that fires moves one occasion from
untold to told in its copy (`FiredIs`); a stray's save pays for what it brings back
out of its own debt. Where the last 200 occurrences may have pushed out one that happened, the list forgets (`Forgets`)
and the property promises nothing but the bound on tasks. `PmTypeCorrect` and `RcTypeCorrect` are the types, `StandingTypeCorrect` those of everything `MCStanding`
puts together.

**StepProofs.** Of `Candidates`, `StashAheadByOneHolds`: the copy is ahead of the
committed counters by one attempt while a refusal is decided on (`CopyOfPhase`), every
refusal is an attempt (`RoundPerReject`), and attempts are numbered up to one beyond the record
(`NoneBeyond`); a kill throws the copy away and leaves the stash, which is why one beyond
is allowed. `WorseOnlyByMixingHolds` compares means, which are sums that a recursive function computes
(`SumFunctionOnSet`). `SumType` and `SumSame` are proved about it by well-ordering: a smallest size of set for which
there was no solution, or two, would follow a size with exactly one (`RightNext`, `SumUnique`).
Then means are a weak order (`BetterIs`, `BetterLifts`), so the sort has a first (`BestWins`), and the
winner's files give its mean wherever they are put (`PutBack`). `MixInv` has what this needs of a run: attempts have
something on their list (`Written`), the one decided on is on disk (`LastIsOnDisk`), and after one that passed no
other is tried (`PassedIsLast`), so the winner did not win by the gate alone. What is put back is less than what
was scored: the files on the list that no attempt could write are the same in all of them (`OthersStay`), a file that
was missing counts nothing, and where the lists of the two differ the theorem says nothing. For a file whose
write is on no list it says nothing either: such a file is not scored. Of `TaskStep`, all its safety properties, from two invariants. `StepInv` says where a task may
stand with a ceiling behind it (`Below`), for the record on disk and the loop's copy: `CeilingsBindHolds`.
`TranscriptInv` is about the transcript of a loop that was not killed. Every call is answered, except in
the last turn of a task that fails; and until the task is escalated, every answer stands in the run of
answers right behind its call (`Tight`). The second is stronger than what `OrphansByEscalation` says,
and needed: a cut at a message that is no tool result keeps `Tight` (`CompactedKeeps`), but it would
not keep "every answer has a call before it". The lemmas follow a turn message by message: the call
(`AsksFirst`, `TightCall`), the answers to the others (`CallAndExtras`), the notices and the answer to
the first (`FirstAnswer`). That `Kept` has a value is the well-ordering of the naturals (`Smallest`,
`KeptFacts`). `CallsAreAnsweredHolds` and `OrphansByEscalationHolds` follow for any threshold and tail.
`AttemptKeepsLedger`: seen by its owner, an attempt does only what `TaskLedger` allows, the abstraction that
`TaskQueue` implements. It takes a task nobody executes, concludes it from running by the commit of a step,
or leaves it running; a blocked one is queued again by an answer (`OwnerSees`: every other step leaves the
committed status and the executor alone). The initial state is not compared: the ledger begins before the task is submitted.
`StepTypeCorrect` is the types of both parts of `MCStep` in every behaviour of either.

**TrustProofs.** `ProvenIsEarnedHolds`: `TrInv` says that the wins recorded for some bytes,
with the accepted runs not recorded yet, are at most those earned plus those misfiled
(`WinsBacked`), and that a proven entry has its wins. `OnlyClearBuysTrust`: section 7, 5 has no other cause than
`clear_quarantine`; until an owner uses it, a candidate is short of the wins promotion asks (`FallsShort`), so
the win that promotes is an accepted one. `VerdictIsEarned`: the invariant `PrInv` of
`Procedure` follows a verdict back to what earned it. A trajectory is accepted only when
it is closed and never opened again (`Unclosed`, `AcceptedClosed`), so whatever was read for
a compilation, compiled, or evaluated stays learned from accepted runs that did different
work (`LearnedAll`); the cases in an entry have accepting receipts, of the entry's bytes or of those that were there at
the second look of the `record` that counted them, and those cases are in `strayed`
(`CreditEarned`); and its streak, with the failures not yet recorded, is covered by the failures
of those bytes and the foreign ones (`LossesBacked`).
`ReadyIsEarnedHolds` is about capabilities: `FrInv` says what each stage of a row implies
(`Climbed`, `Backed`), of the row in the file and of every row some command read and
has not written back yet (`Knows`): since the whole row is written over whatever is there,
each copy under way has to be as good as the one it will replace. What is seen and
granted only grows, which is why a copy stays good while it waits.

**PursuitProofs.** All three safety properties of `Pursuit`, from `PuTyped`: what a process
carries fits the place where it is. `CyclesAreBounded` counts who found budget and has not
spent it yet (`Budgeted`: the cycles and those who start are at most `MaxCycles` and the
processes). `GradedAndFinalHolds`: whoever is on the way to `verified` holds a pass of sealed
graders (`HasPass`). `DivergesByNameHolds`: unless one of the named ways was taken, whoever
wrote the state and did not tell it yet is alone and carries it, and a cycle told too early
belongs to somebody who may still write it (`Agree`); a refused transition is the hard case,
since it ends what `Between` excused.

**Only model-checked**: the liveness properties (`WorkSettles`, `RetriedUnlessLoopEnds`, `AttemptEnds`, `Fires`,
`Converges`). Every invariant, action property
and refinement of a passing run is stated by a theorem. Liveness under fairness and `ENABLED` are
out of the prover's reach. So are the library's induction theorems, which take an operator
for a parameter; where a proof needs induction it takes the smallest counterexample of a set of numbers
(`Smallest`). No module of the proofs has a RECURSIVE operator.

## 7 Where the code and its text disagree

1. **Stale break** (`loop.py:889-890`, `locks.py:107-108`). Age test and removal are
   two operations on a path. Two waiters that both judged one corpse: the first
   removes it and enters, the second removes the first's live file and enters.
   One killed process is enough.
2. **Course lock broken on an old snapshot** (`loop.py:1240`, called from
   `next_task` at 1275 outside the mutex). The comment calls it a cheap
   pre-check, but it removes the file. Two tasks of one course then run at once,
   without a crash or an aged lock. There are two ways to it: the snapshot is older than the
   owner's claim, or the lock was read between the `open` of `acquire_lock` and its `write`
   (`loop.py:1250-1251`), when no task is in it. The run finds the second, which is shorter.
3. **Recycled pid** (`loop.py:1070-1076`). On the stamp's own host the lease is never
   asked. A restarted container with the same host name and pid never resumes
   its predecessor's task, which is the case the lease is documented for.
4. **Two reads of the effects ledger** (`mcp.py:551`, `585`; `loop.py:2498`, `2504`).
   A sibling records its result between them, and a known-completed effect is
   sent again.

5. **Wins nobody accepted** (`runbook.py:326`, `369-373`). Promotion is tested on every
   win, and clearing a quarantine keeps the accepted wins: after a clear, one win
   without a grader is enough. The docstring says that only accepted wins promote
   (`runbook.py:264-266`).

Others were met while modelling and have no run of their own; the properties of the
passing runs state what the code does instead, or excuse it by name:

- `http_effect` takes every exception for an error (`loop.py:2531-2534`): a timeout, a write that could
  not be read back (`httpstate.py:313-317`, `391-397`), a record of a verified write that failed. The
  outcome is not known, the line says `error`, and the next call of the key sends again. The docs say
  that ambiguous effects "halt for reconciliation instead of being replayed blindly" (`effects.py:20-22`,
  and `loop.py:2462-2463`). `OneOpenEffect` excuses these by name (`Guessed`).
- A retry is lost when its own commit cannot have the mutex for twenty seconds: `_maybe_retry` raises
  out of `_run` (`loop.py:895`, `3765`; `RetriedUnlessLoopEnds`). So are a chained task and a reflection.
- `record` hashes the file for its entry (`runbook.py:292`) and reads it again for the accepted cases
  (`procedure.py:1329`), and `compile` writes without the trust lock (`procedure.py:725`): an entry can count a case
  that other bytes passed, and be proven with it. `VerdictIsOfTheseBytes` excuses these cases by name
  (`strayed`).
- The files of an attempt are parsed from step records that were cut at 300 characters (`loop.py:547`, `3190`,
  `candidates.py:54-64`): a longer `write_file` is neither scored nor put back, and a refused one is counted.
- Two answers to one question from two panel threads can put a running task back
  into the queue (under the hazards).
- Refused tool calls count as no step (`loop.py:3048`; `AttemptEnds`). The cost
  ceiling is only asked at the end of a turn, and the early returns before it pass it
  by (`CeilingsBind`).
- An identical `finish_task` call meets the repetition brake before `max_done_rejects`,
  and with `candidates_on_gate_failure` off the first refusal fails the task
  (`candidates.py:512`) although `max_done_rejects` counts six.
- Putting the best attempt back restores the files that were copied with it and leaves the others as the last
  attempt made them: the mixture can be worse than either (`WorseOnlyByMixing` excepts attempts scored by
  different files). A
  flaky gate is asked again to score the attempt it has just refused.
- The docstring at `reconciler.py:247-249` has one tick at a time; a tick that restores for more than
  twenty seconds is overtaken by the next (`HaltsAtCeiling` counts these).
- `README.md:47-49` blocks a retry "across the task lineage"; the action ledger is per
  lineage and server. An action the owner reconciled as unknown still blocks completion,
  and a kill between the index record PREPARED and the ledger file aborts the lineage
  for good.

- The event ledger of a goal and its `contract.json` part in four named ways
  (`DivergesByName`): an event appended after the lock is released (`contract.py:468`), a
  kill between the two, `cycle_started` told on a contract that is not running
  (`goal.py:313`), and two creations with one goal id (the default id has a resolution of
  one second).
- A pursuit that is resumed can begin one cycle beyond `max_cycles` (the test at
  `contract.py:558` is `>` and comes before the event; `CyclesBounded`). One failing pursuit of two
  cycles is remembered by `oscillating`, and blocks every later one after its first failing cycle.
- A planning failure leaves the contract running; the state `failed` is never reached. A kill
  between `create` and `freeze` leaves a goal whose graders can never be run. `reconcile`
  reports what its own grading said and ignores what `settle` made of it, so
  `goal.json` can say verified when the contract is not.
- The trust ledger records the hash of the file as it is when the run ends, not of what was run
  (`ProvenIsEarned` counts these wins as `misfiled`).
- A replay whose steps verify but whose task the gate refuses is recorded as a win without
  evidence: it proves nothing, but it ends a streak of losses. A receipt is written before the
  record; a kill or a timeout between the two leaves a case that is neither run nor counted
  again (`procedure.py:1405`). Every new accepted trajectory recompiles the file, and the trust in
  the old bytes is gone.
- `acquire` reads the row again after the installation and no longer asks its stage
  (`frontier.py:1010`; `slipped`). `unfalsifiable` is called terminal (`frontier.py:125`), and
  `propose` writes over it, as over every row that is not owned, retired or impossible. A kill
  between the trust that `adopt` grants in `acquire.py`'s ledger and the row it writes leaves a
  proven row that can never be adopted, because the acquisition is no longer at the stage `tested`.
- Read only, in parts that have no module: `grants.py` loads, changes and saves without a lock, so
  a use in flight undoes a revocation, and `universal.py` records a use without its amount, so
  that a cap is never consumed; a mission is loaded twice when it is closed; a use of a skill
  recorded while its file differs turns a stored quarantine into a candidate; a stage of a workflow
  waits for the task it queued, and for ever if that task fails and its retry succeeds.

## 8 Not modelled

- Left for the plan above: skills, missions, grants, workflows.
- Of goal pursuit: a caller that resumes a goal with other `cycles` than the contract's (`goal.py:292`; the
  contract's own budget binds anyway); the plans, the swarm and its agents, steering messages, the
  narrative of `goal.json`; of runbooks: the steps themselves, which any outcome stands for.
- Of procedures: sealed judges, whose evidence is compiled by another rule, the contents of steps
  and inputs (a proven procedure fits a task or not), torn writes of the file.
- Of the frontier: the need with its quote from the goal, the routes of an acquisition (one
  that needs an owner or one that does not), digests, the quota of open rows, the
  recipes of the toolbox, a second capability.
- Left out for good: pure data transforms (typed world states, policies over
  strings, ranking, statistics), network I/O and its retry ladders, HTTP
  handlers, installers and reports. They keep no protocol state between actors,
  or the part of it that matters is in a component above.
- In the step engine: I/O errors in `_stash_attempt`; what gates, judges and verifiers compute (any answer), the rungs
  of the provider ladder, the economics of one more attempt, the cost of the call
  that compaction makes (it is not in the task's cost in the code either).
- In the computer sessions: Docker cleanup, the freezing of an invoice and its claims,
  page authority and artifacts, more than one server, the benchmark.
- In the other modelled parts: the context files that move with a trimmed task; the
  mutex deadline in the idle ticks (that of the filing commit is caught and is `FileUnscored`); the retries of the mutex before its deadline (`FileMutex` has
  them; a loop of `TaskQueue` waits or raises); `close_computers` inside `commit_task`; torn ledger lines;
  I/O errors other than the ones named.
