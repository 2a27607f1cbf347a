---------------------------- MODULE LeasesProofs ----------------------------
(***************************************************************************)
(* The two locks, for every set of processes: what the lock file           *)
(* guarantees, and that the kernel lock keeps the promise of a mutex       *)
(* whatever crashes.  And the composition TLC explores: its behaviours are *)
(* behaviours of every part, so that what is proved of the parts holds of  *)
(* it, for every value of its constants.                                   *)
(***************************************************************************)
EXTENDS MCLeases, SessionProofs, PursuitProofs, TrustProofs, TLAPS

-----------------------------------------------------------------------------
(* The lock file (FileMutex). *)

(***************************************************************************)
(* The inductive invariant.  Tokens are unique, so at most one live        *)
(* process can recognise the file as its own; a process inside recognises  *)
(* it exactly when nobody robbed it.                                       *)
(***************************************************************************)
TokensUnique ==
  /\ \A p \in Procs : mine[p] <= issued
  /\ \A p \in Procs : pc[p] \notin {"idle", "dead"} => mine[p] # NoFile
  /\ \A p, q \in Procs : p # q /\ mine[p] = mine[q] => mine[p] = NoFile
UnrobbedOwn == \A p \in Procs \ robbed : pc[p] = "inside" => lock = mine[p]
RobbedDisowned == \A p \in robbed : pc[p] \in {"inside", "removing"} /\ lock # mine[p]

IInv == TypeOK /\ TokensUnique /\ UnrobbedOwn /\ RobbedDisowned

\* Every process has a state of the right type (locks.py, loop.py _state_lock).
LEMMA TypeInit == Init => TypeOK
<1> SUFFICES ASSUME Init PROVE TypeOK
  OBVIOUS
<1>1. old \in BOOLEAN
  BY DEF Init
<1>2. mine \in [Procs -> Nat] /\ pc \in [Procs -> Points]
  BY DEF Init, Points, NoFile
<1>3. lock \in Nat /\ issued \in Nat /\ crashes \in Nat /\ robbed \subseteq Procs
  BY DEF Init, NoFile
<1> QED BY <1>1, <1>2, <1>3 DEF TypeOK

LEMMA TypeStep == TypeOK /\ [Next]_vars => TypeOK'
<1> SUFFICES ASSUME TypeOK, [Next]_vars PROVE TypeOK'
  OBVIOUS
<1> USE DEF TypeOK, Points, Goto, NoFile
<1>1. CASE Age
  BY <1>1 DEF Age
<1>2. ASSUME NEW p \in Procs, ProcNext(p) PROVE TypeOK'
  <2>1. CASE Attempt(p) BY <2>1 DEF Attempt
  <2>2. CASE Create(p) BY <2>2 DEF Create
  <2>3. CASE Busy(p) BY <2>3 DEF Busy
  <2>4. CASE JudgeStale(p) BY <2>4 DEF JudgeStale
  <2>5. CASE Wait(p) BY <2>5 DEF Wait
  <2>6. CASE GiveUp(p) BY <2>6 DEF GiveUp
  <2>7. CASE Break(p) BY <2>7 DEF Break, HolderOf
  <2>8. CASE BreakFails(p) BY <2>8 DEF BreakFails
  <2>9. CASE LeaveOwning(p) BY <2>9 DEF LeaveOwning
  <2>10. CASE LeaveBroken(p) BY <2>10 DEF LeaveBroken
  <2>11. CASE Remove(p) BY <2>11 DEF Remove, HolderOf
  <2>12. CASE RemoveFails(p) BY <2>12 DEF RemoveFails
  <2>13. CASE Crash(p) BY <2>13 DEF Crash
  <2> QED BY <1>2, <2>1, <2>2, <2>3, <2>4, <2>5, <2>6, <2>7, <2>8, <2>9,
             <2>10, <2>11, <2>12, <2>13 DEF ProcNext
<1>3. CASE UNCHANGED vars
  BY <1>3 DEF vars
<1> QED BY <1>1, <1>2, <1>3 DEF Next

\* TypeOK of locks.holding and _state_lock.
THEOREM TypeCorrect == Spec => []TypeOK
<1>1. Init => TypeOK BY TypeInit
<1>2. TypeOK /\ [Next]_vars => TypeOK' BY TypeStep
<1> QED BY <1>1, <1>2, PTL DEF Spec

LEMMA IInvInit == Init => IInv
  BY TypeInit DEF Init, IInv, TokensUnique, UnrobbedOwn, RobbedDisowned, NoFile

LEMMA IInvStep == IInv /\ [Next]_vars => IInv'
<1> SUFFICES ASSUME IInv, [Next]_vars PROVE IInv'
  OBVIOUS
<1>t. TypeOK' BY TypeStep DEF IInv
<1> USE <1>t DEF IInv, TypeOK, Points, Goto, NoFile
<1>1. CASE Age
  BY <1>1 DEF Age, TokensUnique, UnrobbedOwn, RobbedDisowned
<1>2. ASSUME NEW p \in Procs, ProcNext(p) PROVE IInv'
  <2>1. CASE Attempt(p)
    <3>1. TokensUnique' BY <2>1 DEF Attempt, TokensUnique
    <3>2. UnrobbedOwn' BY <2>1 DEF Attempt, UnrobbedOwn
    <3>3. RobbedDisowned' BY <2>1 DEF Attempt, RobbedDisowned
    <3> QED BY <3>1, <3>2, <3>3
  <2>2. CASE Create(p)
    <3>1. TokensUnique' BY <2>2 DEF Create, TokensUnique
    <3>2. UnrobbedOwn' BY <2>2 DEF Create, UnrobbedOwn, TokensUnique
    <3>3. RobbedDisowned' BY <2>2 DEF Create, RobbedDisowned, TokensUnique
    <3> QED BY <3>1, <3>2, <3>3
  <2>3. CASE Busy(p)
    BY <2>3 DEF Busy, TokensUnique, UnrobbedOwn, RobbedDisowned
  <2>4. CASE JudgeStale(p)
    BY <2>4 DEF JudgeStale, TokensUnique, UnrobbedOwn, RobbedDisowned
  <2>5. CASE Wait(p)
    BY <2>5 DEF Wait, TokensUnique, UnrobbedOwn, RobbedDisowned
  <2>6. CASE GiveUp(p)
    BY <2>6 DEF GiveUp, TokensUnique, UnrobbedOwn, RobbedDisowned
  <2>7. CASE Break(p)
    <3>1. TokensUnique' BY <2>7 DEF Break, TokensUnique
    <3>2. UnrobbedOwn' BY <2>7 DEF Break, UnrobbedOwn, HolderOf, TokensUnique
    <3>3. RobbedDisowned' BY <2>7 DEF Break, RobbedDisowned, HolderOf, TokensUnique
    <3> QED BY <3>1, <3>2, <3>3
  <2>8. CASE BreakFails(p)
    BY <2>8 DEF BreakFails, TokensUnique, UnrobbedOwn, RobbedDisowned
  <2>9. CASE LeaveOwning(p)
    BY <2>9 DEF LeaveOwning, TokensUnique, UnrobbedOwn, RobbedDisowned
  <2>10. CASE LeaveBroken(p)
    BY <2>10 DEF LeaveBroken, TokensUnique, UnrobbedOwn, RobbedDisowned
  <2>11. CASE Remove(p)
    <3>1. TokensUnique' BY <2>11 DEF Remove, TokensUnique
    <3>2. UnrobbedOwn' BY <2>11 DEF Remove, UnrobbedOwn, HolderOf, TokensUnique
    <3>3. RobbedDisowned' BY <2>11 DEF Remove, RobbedDisowned, HolderOf, TokensUnique
    <3> QED BY <3>1, <3>2, <3>3
  <2>12. CASE RemoveFails(p)
    BY <2>12 DEF RemoveFails, TokensUnique, UnrobbedOwn, RobbedDisowned
  <2>13. CASE Crash(p)
    BY <2>13 DEF Crash, TokensUnique, UnrobbedOwn, RobbedDisowned
  <2> QED BY <1>2, <2>1, <2>2, <2>3, <2>4, <2>5, <2>6, <2>7, <2>8, <2>9,
             <2>10, <2>11, <2>12, <2>13 DEF ProcNext
<1>3. CASE UNCHANGED vars
  BY <1>3 DEF vars, TokensUnique, UnrobbedOwn, RobbedDisowned
<1> QED BY <1>1, <1>2, <1>3 DEF Next

LEMMA IInvAlways == Spec => []IInv
<1>1. Init => IInv BY IInvInit
<1>2. IInv /\ [Next]_vars => IInv' BY IInvStep
<1> QED BY <1>1, <1>2, PTL DEF Spec

\* Whatever crashes, stalls or fails, two processes are in the with-block of
\* _state_lock / holding together only if one of them had its live lock file
\* removed by somebody else.
THEOREM UnrobbedExclude == Spec => []ExclusionUnlessRobbed
<1>1. IInv => ExclusionUnlessRobbed
  BY DEF IInv, ExclusionUnlessRobbed, UnrobbedOwn, TokensUnique, Inside
<1> QED BY <1>1, IInvAlways, PTL

\* A robbed holder never removes its successor's file: the ownership check of
\* the release does what its comment says.
THEOREM RobbedLeaves == Spec => RobbedLeavesFileAlone
<1> DEFINE Safe == \A p \in robbed : pc[p] = "inside" /\ pc'[p] # "inside"
                      => lock' = lock /\ pc'[p] # "removing"
<1>1. IInv /\ [Next]_vars => [Safe]_vars
  <2> SUFFICES ASSUME IInv, [Next]_vars, NEW p \in robbed,
                      pc[p] = "inside", pc'[p] # "inside"
               PROVE  lock' = lock /\ pc'[p] # "removing"
    OBVIOUS
  <2>1. p \in Procs /\ pc \in [Procs -> Points] /\ lock # mine[p]
    BY DEF IInv, TypeOK, RobbedDisowned
  <2>2. CASE UNCHANGED vars
    BY <2>2 DEF vars
  <2>3. CASE Age
    BY <2>3 DEF Age
  <2>4. ASSUME NEW q \in Procs, ProcNext(q)
        PROVE  lock' = lock /\ pc'[p] # "removing"
    <3>1. q = p
      BY <2>1, <2>4 DEF ProcNext, Goto, Attempt, Create, Busy, JudgeStale, Wait, GiveUp,
         Break, BreakFails, LeaveOwning, LeaveBroken, Remove, RemoveFails, Crash
    <3>2. LeaveBroken(p) \/ Crash(p)
      BY <2>1, <2>4, <3>1 DEF ProcNext, Goto, Attempt, Create, Busy, JudgeStale, Wait,
         GiveUp, Break, BreakFails, LeaveOwning, Remove, RemoveFails
    <3> QED BY <2>1, <3>2 DEF LeaveBroken, Crash, Goto
  <2> QED BY <2>2, <2>3, <2>4 DEF Next
<1> QED BY <1>1, IInvAlways, PTL DEF Spec, RobbedLeavesFileAlone

-----------------------------------------------------------------------------
(***************************************************************************)
(* With no crash, no holder beyond eight seconds and POSIX removals, the   *)
(* file is never stale, nobody breaks it and the promise is kept.          *)
(***************************************************************************)
Calm == MaxCrashes = 0 /\ MayStall = FALSE /\ Windows = FALSE

CalmInv ==
  /\ IInv
  /\ old = FALSE /\ robbed = {} /\ crashes = 0
  /\ \A p \in Procs : pc[p] \notin {"breaking", "dead"}
  /\ \A p \in Procs : pc[p] = "removing" => lock = mine[p]
  /\ lock # NoFile => \E p \in Procs : p \in HolderOf(lock)

LEMMA CalmInit == Init => CalmInv
  BY IInvInit DEF CalmInv, Init, NoFile

LEMMA CalmStep == ASSUME Calm PROVE CalmInv /\ [Next]_vars => CalmInv'
<1> SUFFICES ASSUME CalmInv, [Next]_vars PROVE CalmInv'
  OBVIOUS
<1>i. IInv' BY IInvStep DEF CalmInv
<1> USE <1>i DEF CalmInv, IInv, TypeOK, TokensUnique, UnrobbedOwn, Calm, Points, Goto,
                 NoFile, HolderOf
<1>1. CASE Age
  BY <1>1 DEF Age
<1>2. ASSUME NEW p \in Procs, ProcNext(p) PROVE CalmInv'
  <2>1. CASE Attempt(p)
    BY <2>1 DEF Attempt
  <2>2. CASE Create(p)
    BY <2>2 DEF Create
  <2>3. CASE Busy(p)
    BY <2>3 DEF Busy
  <2>4. CASE Wait(p) \/ GiveUp(p)
    BY <2>4 DEF Wait, GiveUp
  <2>5. CASE LeaveOwning(p)
    BY <2>5 DEF LeaveOwning
  <2>6. CASE LeaveBroken(p)
    BY <2>6 DEF LeaveBroken
  <2>7. CASE Remove(p)
    BY <2>7 DEF Remove
  <2>8. CASE JudgeStale(p) \/ Break(p) \/ BreakFails(p) \/ RemoveFails(p) \/ Crash(p)
    BY <2>8 DEF JudgeStale, Break, BreakFails, RemoveFails, Crash
  <2> QED BY <1>2, <2>1, <2>2, <2>3, <2>4, <2>5, <2>6, <2>7, <2>8 DEF ProcNext
<1>3. CASE UNCHANGED vars
  BY <1>3 DEF vars
<1> QED BY <1>1, <1>2, <1>3 DEF Next

\* The cross-process mutex of state.json, for any number of calm processes.
THEOREM CalmExclusion == ASSUME Calm PROVE Spec => []Exclusion
<1>1. Init => CalmInv BY CalmInit
<1>2. CalmInv /\ [Next]_vars => CalmInv' BY CalmStep
<1>3. CalmInv => Exclusion
  BY DEF CalmInv, IInv, Exclusion, UnrobbedOwn, TokensUnique, Inside
<1> QED BY <1>1, <1>2, <1>3, PTL DEF Spec

\* Calm processes implement the abstract mutex: at every step nothing happens
\* to the set of processes inside, or one enters an empty one, or one leaves.
THEOREM CalmRefinement == ASSUME Calm PROVE Spec => KeepsPromise
<1>1. Init => Promise!Init
  BY DEF Init, Promise!Init, Inside
<1>2. Init => CalmInv BY CalmInit
<1>3. CalmInv /\ [Next]_vars => CalmInv' BY CalmStep
<1>4. CalmInv /\ [Next]_vars => [Promise!Next]_Inside
  <2> SUFFICES ASSUME CalmInv, [Next]_vars
               PROVE  Promise!Next \/ Inside' = Inside
    OBVIOUS
  <2> USE DEF CalmInv, IInv, TypeOK, TokensUnique, UnrobbedOwn, Points, Goto, Inside
  <2>1. CASE Age
    BY <2>1 DEF Age
  <2>2. ASSUME NEW p \in Procs, ProcNext(p)
        PROVE  Promise!Next \/ Inside' = Inside
    <3>1. CASE Create(p)
      <4>1. Inside = {} BY <3>1 DEF Create
      <4>2. Inside' = {p} BY <3>1, <4>1 DEF Create
      <4> QED BY <4>1, <4>2 DEF Promise!Next, Promise!Enter
    <3>2. CASE LeaveOwning(p) \/ LeaveBroken(p)
      <4>1. p \in Inside /\ Inside' = Inside \ {p}
        BY <3>2 DEF LeaveOwning, LeaveBroken
      <4> QED BY <4>1 DEF Promise!Next, Promise!Leave
    <3>3. CASE Attempt(p) \/ Busy(p) \/ Wait(p) \/ GiveUp(p) \/ JudgeStale(p)
      BY <3>3 DEF Attempt, Busy, Wait, GiveUp, JudgeStale
    <3>4. CASE Remove(p) \/ RemoveFails(p) \/ Break(p) \/ BreakFails(p)
      BY <3>4 DEF Remove, RemoveFails, Break, BreakFails
    <3>5. CASE Crash(p)
      BY <3>5 DEF Crash, Calm
    <3> QED BY <2>2, <3>1, <3>2, <3>3, <3>4, <3>5 DEF ProcNext
  <2>3. CASE UNCHANGED vars
    BY <2>3 DEF vars
  <2> QED BY <2>1, <2>2, <2>3 DEF Next
<1> QED BY <1>1, <1>2, <1>3, <1>4, PTL DEF Spec, KeepsPromise, Promise!Spec

-----------------------------------------------------------------------------
(* The kernel lock (AdvisoryLock). *)

\* The file is created once and never replaced, so every open descriptor is on
\* the one inode the path names; hence the kernel's per-inode lock is a lock
\* on the path.
OneInode == \A p \in Procs :
  kpc[p] \in {"trying", "inside", "closing"} => path # Kernel!NoInode /\ fd[p] = path
KernelInv ==
  /\ Kernel!TypeOK
  /\ OneInode
  /\ \A p, q \in Kernel!Inside : p = q

LEMMA KernelInvInit == Kernel!Init => KernelInv
<1> SUFFICES ASSUME Kernel!Init PROVE KernelInv
  OBVIOUS
<1>1. fd \in [Procs -> Nat]
      /\ kpc \in [Procs -> {"idle", "trying", "inside", "closing", "dead"}]
  BY DEF Kernel!Init, Kernel!NoInode
<1>2. path \in Nat /\ created \in Nat /\ kcrashes \in Nat
  BY DEF Kernel!Init, Kernel!NoInode
<1> QED BY <1>1, <1>2 DEF Kernel!Init, KernelInv, Kernel!TypeOK, OneInode, Kernel!Inside

LEMMA KernelInvStep == KernelInv /\ [Kernel!Next]_kernel => KernelInv'
<1> SUFFICES ASSUME KernelInv, [Kernel!Next]_kernel PROVE KernelInv'
  OBVIOUS
<1> USE DEF KernelInv, Kernel!TypeOK, OneInode, Kernel!Inside, Kernel!Goto, Kernel!NoInode
<1>1. ASSUME NEW p \in Procs, Kernel!OpenExisting(p) PROVE KernelInv'
  BY <1>1 DEF Kernel!OpenExisting
<1>2. ASSUME NEW p \in Procs, Kernel!OpenCreating(p) PROVE KernelInv'
  BY <1>2 DEF Kernel!OpenCreating
<1>3. ASSUME NEW p \in Procs, Kernel!Acquire(p) PROVE KernelInv'
  BY <1>3 DEF Kernel!Acquire, Kernel!Locked
<1>4. ASSUME NEW p \in Procs, Kernel!TimeOut(p) PROVE KernelInv'
  BY <1>4 DEF Kernel!TimeOut
<1>5. ASSUME NEW p \in Procs, Kernel!Unlock(p) PROVE KernelInv'
  BY <1>5 DEF Kernel!Unlock
<1>6. ASSUME NEW p \in Procs, Kernel!Close(p) PROVE KernelInv'
  BY <1>6 DEF Kernel!Close
<1>7. ASSUME NEW p \in Procs, Kernel!Crash(p) PROVE KernelInv'
  BY <1>7 DEF Kernel!Crash
<1>8. CASE UNCHANGED kernel
  BY <1>8 DEF kernel
<1> QED BY <1>1, <1>2, <1>3, <1>4, <1>5, <1>6, <1>7, <1>8 DEF Kernel!Next

\* An opener is outside, trying, inside, closing or dead, and has an inode open or none.
THEOREM KernelTypeCorrect == Kernel!Spec => []Kernel!TypeOK
<1>1. KernelInv => Kernel!TypeOK
  BY DEF KernelInv
<1> QED
  BY <1>1, KernelInvInit, KernelInvStep, PTL DEF Kernel!Spec, kernel, Kernel!vars

\* advisory_holding implements the abstract mutex, with no assumption on
\* crashes, pauses or the number of openers.
THEOREM AdvisoryRefinement == Kernel!Spec => Kernel!KeepsPromise
<1>1. Kernel!Init => Kernel!Promise!Init
  BY DEF Kernel!Init, Kernel!Promise!Init, Kernel!Inside
<1>2. Kernel!Init => KernelInv BY KernelInvInit
<1>3. KernelInv /\ [Kernel!Next]_kernel => KernelInv' BY KernelInvStep
<1>4. KernelInv /\ [Kernel!Next]_kernel => [Kernel!Promise!Next]_(Kernel!Inside)
  <2> SUFFICES ASSUME KernelInv, [Kernel!Next]_kernel
               PROVE  Kernel!Promise!Next \/ Kernel!Inside' = Kernel!Inside
    OBVIOUS
  <2> USE DEF KernelInv, Kernel!TypeOK, OneInode, Kernel!Inside, Kernel!Goto
  <2>1. ASSUME NEW p \in Procs, Kernel!Acquire(p)
        PROVE  Kernel!Promise!Next \/ Kernel!Inside' = Kernel!Inside
    <3>1. Kernel!Inside = {} BY <2>1 DEF Kernel!Acquire, Kernel!Locked
    <3>2. Kernel!Inside' = {p} BY <2>1, <3>1 DEF Kernel!Acquire
    <3> QED BY <3>1, <3>2 DEF Kernel!Promise!Next, Kernel!Promise!Enter
  <2>2. ASSUME NEW p \in Procs, Kernel!Unlock(p)
        PROVE  Kernel!Promise!Next \/ Kernel!Inside' = Kernel!Inside
    <3>1. p \in Kernel!Inside /\ Kernel!Inside' = Kernel!Inside \ {p} BY <2>2 DEF Kernel!Unlock
    <3> QED BY <3>1 DEF Kernel!Promise!Next, Kernel!Promise!Leave
  <2>3. ASSUME NEW p \in Procs, Kernel!Crash(p)
        PROVE  Kernel!Promise!Next \/ Kernel!Inside' = Kernel!Inside
    <3>1. Kernel!Inside' = Kernel!Inside \ {p} BY <2>3 DEF Kernel!Crash
    <3>2. p \notin Kernel!Inside => Kernel!Inside' = Kernel!Inside BY <3>1
    <3> QED BY <3>1, <3>2 DEF Kernel!Promise!Next, Kernel!Promise!Leave
  <2>4. ASSUME NEW p \in Procs, Kernel!OpenExisting(p) \/ Kernel!OpenCreating(p)
             \/ Kernel!TimeOut(p) \/ Kernel!Close(p)
        PROVE  Kernel!Promise!Next \/ Kernel!Inside' = Kernel!Inside
    BY <2>4 DEF Kernel!OpenExisting, Kernel!OpenCreating, Kernel!TimeOut, Kernel!Close
  <2>5. CASE UNCHANGED kernel
    BY <2>5 DEF kernel
  <2> QED BY <2>1, <2>2, <2>3, <2>4, <2>5 DEF Kernel!Next
<1> QED BY <1>1, <1>2, <1>3, <1>4, PTL DEF Kernel!Spec, kernel, Kernel!vars, Kernel!KeepsPromise, Kernel!Promise!Spec

-----------------------------------------------------------------------------
(* The composition. *)

parts == <<vars, kernel, csvars, puVars, trVars, prVars, frVars, part>>

\* All of them begin as they do alone ...
LEMMA PartsStart ==
  LeasesInit => Init /\ Kernel!Init /\ CsInit /\ PuInit /\ TrInit /\ PrInit /\ FrInit
BY DEF LeasesInit

\* ... and a step of one of them is a stutter of the others.
LEMMA PartsStep ==
  [LeasesNext]_parts =>
    /\ [Next]_vars /\ [Kernel!Next]_kernel /\ [CsNext]_csvars /\ [PuNext]_puVars
    /\ [TrNext]_trVars /\ [PrNext]_prVars /\ [FrNext]_frVars
BY DEF LeasesNext, parts

\* What TLC explores are behaviours of the lock file, of the kernel lock, of the session, of
\* the contract, of the trust ledger, of the procedures and of the frontier: no part relies on
\* another, and the bound Narrow only leaves steps out.
THEOREM PartsKeepTheirSpecs ==
  LeasesSpec => Spec /\ Kernel!Spec /\ CsSpec /\ PuSpec /\ TrSpec /\ PrSpec /\ FrSpec
<1> USE DEF kernel, Kernel!vars
<1>1. LeasesInit => Init /\ Kernel!Init /\ CsInit /\ PuInit /\ TrInit /\ PrInit /\ FrInit
  BY PartsStart
<1>2. [LeasesNext]_parts =>
        /\ [Next]_vars /\ [Kernel!Next]_kernel /\ [CsNext]_csvars /\ [PuNext]_puVars
        /\ [TrNext]_trVars /\ [PrNext]_prVars /\ [FrNext]_frVars
  BY PartsStep
<1> QED BY <1>1, <1>2, PTL DEF LeasesSpec, parts, Spec, Kernel!Spec, CsSpec, PuSpec, TrSpec, PrSpec, FrSpec

\* The lock files, the kernel's locks, the sessions, the contract, the trust ledger, the
\* procedures and the frontier keep their types, all of them in every part.
THEOREM LeasesTypeCorrect == LeasesSpec => []LeasesTypeOK
<1>1. PuTyped => PuTypeOK BY DEF PuTyped
<1>2. TrInv => TrTypeOK BY DEF TrInv
<1>3. PrInv => PrTypeOK BY DEF PrInv
<1>4. FrInv => FrTypeOK BY DEF FrInv
<1>5. TypeOK /\ Kernel!TypeOK /\ CsTypeOK /\ PuTypeOK /\ TrTypeOK /\ PrTypeOK /\ FrTypeOK => LeasesTypeOK
  BY DEF LeasesTypeOK
<1> QED
  BY <1>1, <1>2, <1>3, <1>4, <1>5, PartsKeepTheirSpecs, TypeCorrect, KernelTypeCorrect, CsTypeCorrect,
     PuTypedHolds, TrInvHolds, PrInvHolds, FrInvHolds, PTL

\* advisory_holding keeps the promise of a mutex in the composition too.
THEOREM LeaseKeepsPromiseHolds == LeasesSpec => LeaseKeepsPromise
BY PartsKeepTheirSpecs, AdvisoryRefinement DEF LeaseKeepsPromise
=============================================================================
