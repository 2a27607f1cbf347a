------------------------------ MODULE MCLeases ------------------------------
(***************************************************************************)
(* TLC instances of the locks and of the ledgers kept under them: the      *)
(* lock-file mutex, the kernel lock, a computer session under its server   *)
(* lease, the contract of a goal, the trust ledger of runbooks, the        *)
(* procedures loops compile into them and the capability frontier.         *)
(* They share no state, so a behaviour is one of them (part): the sum is   *)
(* explored, not the product.                                              *)
(***************************************************************************)
EXTENDS FileMutex, ComputerSession, Pursuit, Trust, Procedure, Frontier, TLC

CONSTANTS
  p1, p2, p3, t1, t2, t3, r1, r2,
  easy, edge,   \* the two sealed cases of the family
  MaxInodes     \* bound: files ever created at the kernel lock's path

VARIABLES path, created, fd, kpc, kcrashes, part

kernel == <<path, created, fd, kpc, kcrashes>>

Kernel == INSTANCE AdvisoryLock WITH pc <- kpc, crashes <- kcrashes

ThreeProcs == {p1, p2, p3}
TwoTasks == {t1, t2}
OwnLineages == [t \in TwoTasks |-> t]
TwoRunners == {r1, r2}
ThreeTasks == {t1, t2, t3}
SealedSuite == <<easy, edge>>
OwnInputs == [c \in {easy, edge} |-> c]
NamesSymmetry == Permutations(TwoTasks) \cup Permutations(TwoRunners)

\* Bounds: beside two actions, a death or a second task; once a process has died over a
\* contract, one at a time goes on and the last command is not given, and where two created
\* it, the last command is given alone; after a kill the last task is not begun, and
\* three loops learn at once only where nobody died or failed, and one evaluates at a time.
Begun == {l \in Lineages : index[l] # "none"}
OneIsIdle == \E p \in Runners : at[p] = "idle"
Where(stations) == {t \in Jobs : doing[t].at \in stations}
Crowded == Cardinality(Where(Stations \ {"new", "over"})) > 2
Narrow ==
  /\ Len(acts) <= 1 \/ kills + supKills + Cardinality(Begun) <= 2
  /\ deaths = 0 \/ (commands < MaxCommands /\ OneIsIdle)
  /\ raced /\ commands = MaxCommands => OneIsIdle
  /\ dead = 0 \/ \E t \in Jobs : doing[t].at = "new"
  /\ Crowded => /\ dead = 0 /\ foreign = 0 /\ \A r \in receipts : r.ok
                /\ Cardinality(Where({"case", "arena", "result", "evidence"})) <= 1

LeasesInit ==
  /\ Init /\ Kernel!Init /\ CsInit /\ PuInit /\ TrInit /\ PrInit /\ FrInit
  /\ book = "bytes"
  /\ part \in {"file", "kernel", "session", "pursuit", "trust", "procedure", "frontier"}

LeasesNext ==
  \/ part = "file" /\ Next /\ UNCHANGED <<kernel, csvars, puVars, trVars, prVars, frVars, part>>
  \/ part = "kernel" /\ Kernel!Next /\ UNCHANGED <<vars, csvars, puVars, trVars, prVars, frVars, part>>
  \/ part = "session" /\ CsNext /\ UNCHANGED <<vars, kernel, puVars, trVars, prVars, frVars, part>> /\ Narrow'
  \/ part = "pursuit" /\ PuNext /\ UNCHANGED <<vars, kernel, csvars, trVars, prVars, frVars, part>> /\ Narrow'
  \/ part = "trust" /\ TrNext /\ UNCHANGED <<vars, kernel, csvars, puVars, prVars, frVars, part>>
  \/ part = "procedure" /\ PrNext /\ UNCHANGED <<vars, kernel, csvars, puVars, trVars, frVars, part>> /\ Narrow'
  \/ part = "frontier" /\ FrNext /\ UNCHANGED <<vars, kernel, csvars, puVars, trVars, prVars, part>>

LeasesSpec == LeasesInit /\ [][LeasesNext]_<<vars, kernel, csvars, puVars, trVars, prVars, frVars, part>>

-----------------------------------------------------------------------------
\* The lock files, the kernel's locks, the sessions, the contract, the trust ledger, the
\* procedures and the frontier keep their types (the parts that do not run stay as they began).
LeasesTypeOK ==
  /\ part = "file" => TypeOK /\ Kernel!TypeOK /\ CsTypeOK /\ PuTypeOK /\ TrTypeOK /\ PrTypeOK /\ FrTypeOK
  /\ part = "kernel" => Kernel!TypeOK
  /\ part = "session" => CsTypeOK
  /\ part = "pursuit" => PuTypeOK
  /\ part = "trust" => TrTypeOK
  /\ part = "procedure" => PrTypeOK
  /\ part = "frontier" => FrTypeOK

\* advisory_holding keeps the promise of a mutex whatever crashes and however long an
\* owner is paused: no age ever takes the lock away.
LeaseKeepsPromise == Kernel!KeepsPromise
=============================================================================
