---------------------------- MODULE AdvisoryLock ----------------------------
(***************************************************************************)
(* locks.advisory_holding: exclusion through flock / LockFileEx on a       *)
(* persistent <path>.lock.  The kernel keeps the lock on the INODE a       *)
(* descriptor was opened on, so the promise rests on nobody unlinking or   *)
(* replacing the file; the model therefore keeps inodes, not names.        *)
(***************************************************************************)
EXTENDS Naturals

CONSTANTS
  Procs,        \* opens that contend, in one process or in several
  MaxInodes,    \* bound: files ever created at the path
  MaxCrashes    \* bound: processes killed

NoInode == 0

VARIABLES
  path,      \* inode the lock path names, NoInode before the first open
  created,   \* inodes created so far
  fd,        \* fd[p]: inode p's descriptor is open on
  pc,
  crashes

vars == <<path, created, fd, pc, crashes>>

TypeOK ==
  /\ path \in Nat /\ created \in Nat /\ crashes \in Nat
  /\ fd \in [Procs -> Nat]
  /\ pc \in [Procs -> {"idle", "trying", "inside", "closing", "dead"}]

Init ==
  /\ path = NoInode /\ created = 0 /\ crashes = 0
  /\ fd = [p \in Procs |-> NoInode]
  /\ pc = [p \in Procs |-> "idle"]

Goto(p, from, to) == pc[p] = from /\ pc' = [pc EXCEPT ![p] = to]

\* The kernel's table: an inode is locked while a descriptor holds it.
Locked(i) == \E q \in Procs : pc[q] = "inside" /\ fd[q] = i

\* os.open(O_CREAT): the inode at the path, or a new one.
OpenExisting(p) ==
  /\ path # NoInode
  /\ Goto(p, "idle", "trying")
  /\ fd' = [fd EXCEPT ![p] = path]
  /\ UNCHANGED <<path, created, crashes>>

OpenCreating(p) ==
  /\ path = NoInode /\ created < MaxInodes
  /\ Goto(p, "idle", "trying")
  /\ created' = created + 1 /\ path' = created + 1
  /\ fd' = [fd EXCEPT ![p] = created + 1]
  /\ UNCHANGED crashes

\* LOCK_EX | LOCK_NB succeeds.
Acquire(p) ==
  /\ ~Locked(fd[p])
  /\ Goto(p, "trying", "inside")
  /\ UNCHANGED <<path, created, fd, crashes>>

\* EAGAIN until the deadline: TimeoutError, and the finally closes the file.
TimeOut(p) ==
  /\ Locked(fd[p])
  /\ Goto(p, "trying", "idle")
  /\ fd' = [fd EXCEPT ![p] = NoInode]
  /\ UNCHANGED <<path, created, crashes>>

\* LOCK_UN, then close; the file stays where it is.
Unlock(p) ==
  /\ Goto(p, "inside", "closing")
  /\ UNCHANGED <<path, created, fd, crashes>>

\* Mutant: the release tidies the file away, as locks.holding does.
CloseRemoving(p) ==
  /\ Goto(p, "closing", "idle")
  /\ path' = NoInode
  /\ fd' = [fd EXCEPT ![p] = NoInode]
  /\ UNCHANGED <<created, crashes>>

Close(p) ==
  /\ Goto(p, "closing", "idle")
  /\ fd' = [fd EXCEPT ![p] = NoInode]
  /\ UNCHANGED <<path, created, crashes>>

\* "The kernel releases exclusion on descriptor close/process death."
Crash(p) ==
  /\ crashes < MaxCrashes
  /\ pc[p] \notin {"idle", "dead"}
  /\ pc' = [pc EXCEPT ![p] = "dead"]
  /\ fd' = [fd EXCEPT ![p] = NoInode]
  /\ crashes' = crashes + 1
  /\ UNCHANGED <<path, created>>

Next == \E p \in Procs :
  \/ OpenExisting(p) \/ OpenCreating(p) \/ Acquire(p) \/ TimeOut(p)
  \/ Unlock(p) \/ Close(p) \/ Crash(p)

Spec == Init /\ [][Next]_vars

-----------------------------------------------------------------------------
Inside == {p \in Procs : pc[p] = "inside"}

\* advisory_holding keeps the promise whatever crashes and however long an
\* owner is paused: no age ever takes the lock away.
Promise == INSTANCE Mutex WITH inside <- Inside
KeepsPromise == Promise!Spec
=============================================================================
