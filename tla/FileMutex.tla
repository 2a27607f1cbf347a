----------------------------- MODULE FileMutex -----------------------------
(***************************************************************************)
(* The lock-file mutex of locks.holding and loop.Agent._state_lock: the    *)
(* file is created with O_EXCL and holds a token unique to the acquisition *)
(* ("pid:uuid4"); a waiter that finds a file older than eight seconds      *)
(* removes it as a corpse; a release reads the file back and removes it    *)
(* only when the token is still its own.  Every file operation is a step,  *)
(* so that the clock test and the removal that follows it, and the         *)
(* ownership test and the removal that follows it, can be separated.       *)
(***************************************************************************)
EXTENDS Naturals

CONSTANTS
  Procs,        \* process incarnations contending for one path
  MaxTokens,    \* bound: acquisitions attempted in a behaviour
  MaxCrashes,   \* bound: processes killed in a behaviour
  MayStall,     \* may a live holder outlast the eight seconds?
  Windows       \* may remove fail, and create meet a pending delete?

ASSUME FileMutexAssumption ==
  /\ MaxTokens \in Nat
  /\ MaxCrashes \in Nat
  /\ MayStall \in BOOLEAN
  /\ Windows \in BOOLEAN

NoFile == 0

VARIABLES
  lock,      \* token written in the lock file, NoFile when there is none
  old,       \* the file's mtime is more than the stale age in the past
  issued,    \* tokens handed out so far
  mine,      \* mine[p]: the token of p's current acquisition
  pc,        \* where each process is in the acquire/release code
  crashes,   \* processes killed so far
  robbed     \* history: processes inside whose file somebody else removed

vars == <<lock, old, issued, mine, pc, crashes, robbed>>

Points == {"idle", "trying", "judging", "breaking", "inside", "removing", "dead"}

TypeOK ==
  /\ lock \in Nat /\ old \in BOOLEAN
  /\ issued \in Nat /\ crashes \in Nat
  /\ mine \in [Procs -> Nat]
  /\ pc \in [Procs -> Points]
  /\ robbed \subseteq Procs

Init ==
  /\ lock = NoFile /\ old = FALSE
  /\ issued = 0 /\ crashes = 0
  /\ mine = [p \in Procs |-> NoFile]
  /\ pc = [p \in Procs |-> "idle"]
  /\ robbed = {}

Goto(p, from, to) == pc[p] = from /\ pc' = [pc EXCEPT ![p] = to]

\* The live process, if any, whose acquisition wrote token t.
HolderOf(t) == {p \in Procs : mine[p] = t /\ pc[p] \in {"inside", "removing"}}

-----------------------------------------------------------------------------
(* Acquire *)

Attempt(p) ==
  /\ issued < MaxTokens
  /\ Goto(p, "idle", "trying")
  /\ issued' = issued + 1
  /\ mine' = [mine EXCEPT ![p] = issued + 1]
  /\ UNCHANGED <<lock, old, crashes, robbed>>

\* Mutant: the pid instead of the acquisition's own token.
CreateNamingOwner(p) ==
  /\ lock = NoFile
  /\ Goto(p, "trying", "inside")
  /\ lock' = p /\ old' = FALSE
  /\ UNCHANGED <<issued, mine, crashes, robbed>>

Create(p) ==
  /\ lock = NoFile
  /\ Goto(p, "trying", "inside")
  /\ lock' = mine[p] /\ old' = FALSE
  /\ UNCHANGED <<issued, mine, crashes, robbed>>

\* FileExistsError, or on Windows the EACCES of a delete still pending.
Busy(p) ==
  /\ lock # NoFile \/ Windows
  /\ Goto(p, "trying", "judging")
  /\ UNCHANGED <<lock, old, issued, mine, crashes, robbed>>

\* getmtime says the file is older than the stale age.
JudgeStale(p) ==
  /\ lock # NoFile /\ old
  /\ Goto(p, "judging", "breaking")
  /\ UNCHANGED <<lock, old, issued, mine, crashes, robbed>>

\* The file is young, or it vanished before getmtime: sleep and try again.
Wait(p) ==
  /\ lock = NoFile \/ ~old
  /\ Goto(p, "judging", "trying")
  /\ UNCHANGED <<lock, old, issued, mine, crashes, robbed>>

\* Mutant: the deadline ends the wait without an exception.
GiveUpInside(p) ==
  /\ lock = NoFile \/ ~old
  /\ Goto(p, "judging", "inside")
  /\ UNCHANGED <<lock, old, issued, mine, crashes, robbed>>

\* The acquire deadline has passed: TimeoutError / RuntimeError.
GiveUp(p) ==
  /\ lock = NoFile \/ ~old
  /\ Goto(p, "judging", "idle")
  /\ UNCHANGED <<lock, old, issued, mine, crashes, robbed>>

\* os.remove takes away whatever file is at the path NOW.
Break(p) ==
  /\ Goto(p, "breaking", "trying")
  /\ lock' = NoFile
  /\ robbed' = robbed \cup (IF lock = NoFile THEN {} ELSE HolderOf(lock))
  /\ UNCHANGED <<old, issued, mine, crashes>>

\* os.remove raised, because another waiter was first or a delete is pending:
\* try again, or (_state_lock) give up when the deadline has passed.
BreakFails(p) ==
  /\ lock = NoFile \/ Windows
  /\ \E to \in {"trying", "idle"} : Goto(p, "breaking", to)
  /\ UNCHANGED <<lock, old, issued, mine, crashes, robbed>>

-----------------------------------------------------------------------------
(* Release *)

\* Mutant: a release that does not compare the token.
LeaveUnread(p) ==
  /\ Goto(p, "inside", "removing")
  /\ UNCHANGED <<lock, old, issued, mine, crashes, robbed>>

\* The finally block reads the file: still ours, remove it ...
LeaveOwning(p) ==
  /\ lock = mine[p]
  /\ Goto(p, "inside", "removing")
  /\ UNCHANGED <<lock, old, issued, mine, crashes, robbed>>

\* ... broken meanwhile (missing, or another's token): leave it alone.
LeaveBroken(p) ==
  /\ lock # mine[p]
  /\ Goto(p, "inside", "idle")
  /\ robbed' = robbed \ {p}
  /\ UNCHANGED <<lock, old, issued, mine, crashes>>

\* The removal, again of whatever is at the path now.
Remove(p) ==
  /\ Goto(p, "removing", "idle")
  /\ lock' = NoFile
  /\ robbed' = (robbed \cup (IF lock = NoFile THEN {} ELSE HolderOf(lock))) \ {p}
  /\ UNCHANGED <<old, issued, mine, crashes>>

\* An OSError of the release is swallowed and the file stays behind.
RemoveFails(p) ==
  /\ Windows
  /\ Goto(p, "removing", "idle")
  /\ robbed' = robbed \ {p}
  /\ UNCHANGED <<lock, old, issued, mine, crashes>>

-----------------------------------------------------------------------------
(* Environment *)

\* kill -9 anywhere in the code; the file stays.
Crash(p) ==
  /\ crashes < MaxCrashes
  /\ pc[p] \notin {"idle", "dead"}
  /\ pc' = [pc EXCEPT ![p] = "dead"]
  /\ crashes' = crashes + 1
  /\ robbed' = robbed \ {p}
  /\ UNCHANGED <<lock, old, issued, mine>>

\* Eight seconds pass since the file was written.  A holder that is alive
\* leaves within them unless it may stall.
Age ==
  /\ lock # NoFile /\ ~old
  /\ MayStall \/ HolderOf(lock) = {}
  /\ old' = TRUE
  /\ UNCHANGED <<lock, issued, mine, pc, crashes, robbed>>

ProcNext(p) ==
  \/ Attempt(p) \/ Create(p) \/ Busy(p) \/ JudgeStale(p) \/ Wait(p) \/ GiveUp(p)
  \/ Break(p) \/ BreakFails(p) \/ LeaveOwning(p) \/ LeaveBroken(p)
  \/ Remove(p) \/ RemoveFails(p) \/ Crash(p)

Next == Age \/ \E p \in Procs : ProcNext(p)

Spec == Init /\ [][Next]_vars

-----------------------------------------------------------------------------
(* Properties *)

Inside == {p \in Procs : pc[p] = "inside"}

\* "Cross-PROCESS mutex": no two processes execute the with-block at once
\* (loop.py _state_lock, locks.py holding).
Exclusion == \A p, q \in Inside : p = q

\* Two processes are inside together only after a third party removed the
\* lock file of one of them while it was alive: exclusion can be lost through
\* the stale break and the unlocked removals, and through nothing else.
ExclusionUnlessRobbed == \A p, q \in Inside \ robbed : p = q

\* The comment of both releases: "ours was broken as stale and another process
\* owns the mutex now - removing it would admit a third writer".  A holder that
\* was robbed before it reaches the release leaves the file as it is.
RobbedLeavesFileAlone ==
  [][\A p \in robbed : pc[p] = "inside" /\ pc'[p] # "inside" => lock' = lock /\ pc'[p] # "removing"]_vars

\* The lock-file mutex implements the promise its callers rely on.
Promise == INSTANCE Mutex WITH inside <- Inside
KeepsPromise == Promise!Spec
=============================================================================
