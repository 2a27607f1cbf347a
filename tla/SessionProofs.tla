---------------------------- MODULE SessionProofs ----------------------------
(***************************************************************************)
(* The browser sessions that are serialized by a server lease.             *)
(* Under such a lease a session leaves no browser without an owner record, *)
(* its ledgers never call without effect what happens later, no click is   *)
(* repeated blindly and a completed lineage is verified: for any number of *)
(* tasks, browsers and actions, and any kills of tasks and supervisors.    *)
(***************************************************************************)
EXTENDS ComputerSession, SequenceTheorems, TLAPS

----------------------------------------------------------------------------
(* The server: who holds it, which browser its owner record names.         *)
(* A task is inside a call only while it holds the lease, so what the      *)
(* owner record says can be told from where that one call is (OwnerOf,     *)
(* ConnOf): it is empty when a constructor or a new connection begins, and *)
(* names the browser before its process is started.                        *)

\* Where a call is.
Entering == {"index", "ledger", "commit", "clean", "term", "disown", "own"}
Connecting == {"name", "spawn", "shake"}
Calling == {"prepared", "send", "sent", "acked"}
Quieting == {"quiet", "quieted"}
Spots == {"out", "idle"} \cup Entering \cup Connecting \cup Calling \cup Quieting

\* The server, its browsers and the sessions; the ledgers apart.
ServerTyped ==
    /\ lease \in Tasks \cup {Free}
    /\ owner \in [env : Envs \cup {NoEnv}, lineage : Lineages \cup {Free}]
    /\ env \in [Envs -> {"none", "created", "ready", "closed"}]
    /\ sup \in [Envs -> {"none", "starting", "running", "gone"}]
    /\ alive \in [Envs -> BOOLEAN] /\ stop \in [Envs -> BOOLEAN]
    /\ st \in [Tasks -> {"none", "created", "active", "quiescent", "tainted", "closing"}]
    /\ conn \in [Tasks -> Envs \cup {NoEnv}]
    /\ step \in [Tasks -> Spots] /\ leaving \in [Tasks -> BOOLEAN]
    /\ \A t \in Tasks : step[t] # "out" => lease = t

\* A closed record is of a browser that is gone for good; without one, nothing was started.
ClosedIsGone ==
    \A e \in Envs : /\ env[e] = "closed" => sup[e] = "gone" /\ ~alive[e]
                    /\ env[e] = "none" => sup[e] = "none"

\* What the owner record names, while t holds the server.
OwnerOf(t) ==
    /\ step[t] \in {"own", "quieted", "name"} => owner.env = NoEnv
    /\ step[t] = "idle" /\ st[t] # "tainted" /\ conn[t] = NoEnv => owner.env = NoEnv
    /\ step[t] = "spawn" => owner.env = conn[t]
    /\ step[t] \in {"term", "disown"} => owner.env # NoEnv /\ env[owner.env] = "closed"

\* What t is connected to.
ConnOf(t) ==
    /\ step[t] \in Connecting \cup Calling => conn[t] # NoEnv
    /\ step[t] \in {"name", "spawn"} => env[conn[t]] = "created" /\ sup[conn[t]] \notin {"starting", "running"}
    /\ step[t] = "idle" /\ st[t] = "active" => conn[t] # NoEnv
    /\ step[t] \in Entering /\ ~leaving[t] => st[t] # "active"

ServerInv ==
    /\ ServerTyped /\ ClosedIsGone /\ BrowserIsNamed
    /\ \A t \in Tasks : OwnerOf(t) /\ ConnOf(t)

LEMMA ServerStarts == CsInit => ServerInv
BY SessionAssumption DEF CsInit, ServerInv, ServerTyped, ClosedIsGone, BrowserIsNamed, OwnerOf, ConnOf,
   Spots, Entering, Connecting, Calling, Quieting, Lineages, NoEnv, Envs

\* Only the task that holds the lease is inside a call.
LEMMA OthersAreOut ==
  ASSUME ServerInv, NEW t \in Tasks, step[t] # "out" \/ lease = Free
  PROVE  \A u \in Tasks : u # t => step[u] = "out"
BY SessionAssumption DEF ServerInv, ServerTyped

\* A step of t says nothing of the others.
LEMMA OnlyMine ==
  ASSUME ServerInv, NEW t \in Tasks, step[t] # "out" \/ lease = Free,
         NEW at, step' = [step EXCEPT ![t] = at], OwnerOf(t)', ConnOf(t)'
  PROVE  \A u \in Tasks : OwnerOf(u)' /\ ConnOf(u)'
<1> SUFFICES ASSUME NEW u \in Tasks, u # t PROVE OwnerOf(u)' /\ ConnOf(u)'
  OBVIOUS
<1>1. step[u] = "out" BY OthersAreOut
<1>2. step'[u] = "out" BY <1>1 DEF ServerInv, ServerTyped
<1> QED BY <1>2 DEF OwnerOf, ConnOf, Entering, Connecting, Calling

LEMMA StopTyped ==
  ASSUME NEW t \in Tasks, stop \in [Envs -> BOOLEAN], StopsServer(t) PROVE stop' \in [Envs -> BOOLEAN]
BY DEF StopsServer

LEMMA TaintTyped ==
  ASSUME NEW t \in Tasks, st \in [Tasks -> {"none", "created", "active", "quiescent", "tainted", "closing"}],
         st' = st \/ st' = [st EXCEPT ![t] = "tainted"]
  PROVE  st' \in [Tasks -> {"none", "created", "active", "quiescent", "tainted", "closing"}]
OBVIOUS

LEMMA ServerEnter == ASSUME ServerInv, NEW t \in Tasks, Enter(t) PROVE ServerInv'
<1> USE SessionAssumption DEF ServerInv, ServerTyped, ClosedIsGone, BrowserIsNamed, OwnerOf, ConnOf,
   Spots, Entering, Connecting, Calling, Quieting, NoEnv, Envs, Now, records, browser, session, budget
<1>1. CASE Construct(t) BY <1>1 DEF Construct
<1>2. CASE IndexStands(t) BY <1>2 DEF IndexStands
<1>3. CASE IndexPrepare(t) BY <1>3 DEF IndexPrepare
<1>4. CASE IndexLedger(t) BY <1>4 DEF IndexLedger
<1>5. CASE IndexCommit(t) BY <1>5 DEF IndexCommit
<1>6. CASE IndexAbort(t) BY <1>6 DEF IndexAbort, Refuse
<1> QED BY <1>1, <1>2, <1>3, <1>4, <1>5, <1>6 DEF Enter

LEMMA ServerRecover == ASSUME ServerInv, NEW t \in Tasks, Recover(t) PROVE ServerInv'
<1> USE SessionAssumption DEF ServerInv, ServerTyped, ClosedIsGone, BrowserIsNamed, OwnerOf, ConnOf,
   Spots, Entering, Connecting, Calling, Quieting, NoEnv, Envs, Now, records, browser, session, budget
<1>1. CASE AskStop(t) BY <1>1 DEF AskStop
<1>2. CASE Clean(t) BY <1>2 DEF Clean, Cleaned
<1>3. CASE CleanFails(t)
  <2>1. ServerTyped'
    <3>1. \E s \in {"tainted", "none"} : st' = [st EXCEPT ![t] = s]
      BY <1>3 DEF CleanFails, Refuse
    <3>2. step[t] = "clean" /\ UNCHANGED <<owner, env, sup, alive, stop, leaving, conn>>
      BY <1>3 DEF CleanFails, Refuse
    <3>3. \/ lease' = Free /\ step' = [step EXCEPT ![t] = "out"]
          \/ lease' = lease /\ step' = [step EXCEPT ![t] = "idle"]
      BY <1>3 DEF CleanFails, Refuse
    <3>4. st' \in [Tasks -> {"none", "created", "active", "quiescent", "tainted", "closing"}]
      BY <3>1
    <3>5. CASE lease' = Free /\ step' = [step EXCEPT ![t] = "out"] BY <3>2, <3>4, <3>5
    <3>6. CASE lease' = lease /\ step' = [step EXCEPT ![t] = "idle"] BY <3>2, <3>4, <3>6
    <3> QED BY <3>3, <3>5, <3>6
  <2>2. ClosedIsGone' /\ BrowserIsNamed' BY <1>3 DEF CleanFails, Refuse
  <2>3. ASSUME NEW u \in Tasks PROVE OwnerOf(u)' BY <1>3 DEF CleanFails, Refuse
  <2>4. ASSUME NEW u \in Tasks PROVE ConnOf(u)' BY <1>3 DEF CleanFails, Refuse
  <2> QED BY <2>1, <2>2, <2>3, <2>4
<1>4. CASE TermOwner(t) BY <1>4 DEF TermOwner
<1>5. CASE Disown(t)
  <2>1. ServerTyped'
    <3>1. /\ step[t] = "disown" /\ step' = [step EXCEPT ![t] = "own"]
          /\ UNCHANGED <<lease, env, sup, alive, stop, st, leaving, conn>>
      BY <1>5 DEF Disown
    <3>2. owner' \in [env : Envs \cup {NoEnv}, lineage : Lineages \cup {Free}]
      BY <1>5 DEF Disown
    <3> QED BY <3>1, <3>2
  <2>2. ClosedIsGone' /\ BrowserIsNamed' BY <1>5 DEF Disown
  <2>3. ASSUME NEW u \in Tasks PROVE OwnerOf(u)' /\ ConnOf(u)' BY <1>5 DEF Disown
  <2> QED BY <2>1, <2>2, <2>3
<1>6. CASE TermOwn(t)
  <2>1. ServerTyped'
    <3>1. step[t] = "own" /\ UNCHANGED <<owner, env, sup, alive, stop>> BY <1>6 DEF TermOwn
    <3>2. CASE leaving[t]
      <4>1. /\ lease' = Free /\ st' = [st EXCEPT ![t] = "none"] /\ step' = [step EXCEPT ![t] = "out"]
            /\ leaving' = [leaving EXCEPT ![t] = FALSE] /\ conn' = [conn EXCEPT ![t] = NoEnv]
        BY <1>6, <3>2 DEF TermOwn
      <4> QED BY <3>1, <4>1
    <3>3. CASE ~leaving[t]
      <4>1. step' = [step EXCEPT ![t] = "idle"] /\ UNCHANGED <<lease, st, leaving, conn>>
        BY <1>6, <3>3 DEF TermOwn
      <4> QED BY <3>1, <4>1
    <3> QED BY <3>2, <3>3
  <2>2. ClosedIsGone' /\ BrowserIsNamed' BY <1>6 DEF TermOwn
  <2>3. ASSUME NEW u \in Tasks PROVE OwnerOf(u)' BY <1>6 DEF TermOwn
  <2>4. ASSUME NEW u \in Tasks PROVE ConnOf(u)' BY <1>6 DEF TermOwn
  <2> QED BY <2>1, <2>2, <2>3, <2>4
<1> QED BY <1>1, <1>2, <1>3, <1>4, <1>5, <1>6 DEF Recover

LEMMA ServerConnect == ASSUME ServerInv, NEW t \in Tasks, Connect(t) PROVE ServerInv'
<1> USE SessionAssumption DEF ServerInv, ServerTyped, ClosedIsGone, BrowserIsNamed, OwnerOf, ConnOf,
   Spots, Entering, Connecting, Calling, Quieting, NoEnv, Envs, Now, records, browser, session, budget
<1>1. CASE EnvRecord(t)
  <2>1. ServerTyped' BY <1>1 DEF EnvRecord, Boundary
  <2>2. ClosedIsGone' /\ BrowserIsNamed' BY <1>1 DEF EnvRecord, Boundary
  <2>3. ASSUME NEW u \in Tasks PROVE OwnerOf(u)' BY <1>1 DEF EnvRecord, Boundary
  <2>4. ASSUME NEW u \in Tasks PROVE ConnOf(u)'
    <3>1. CASE u = t BY <1>1, <3>1 DEF EnvRecord, Boundary
    <3>2. CASE u # t BY <1>1, <3>2 DEF EnvRecord, Boundary
    <3> QED BY <3>1, <3>2
  <2> QED BY <2>1, <2>2, <2>3, <2>4
<1>2. CASE EnvOwner(t)
  <2>1. ServerTyped' BY <1>2 DEF EnvOwner, Lineages
  <2>2. ClosedIsGone' /\ BrowserIsNamed' BY <1>2 DEF EnvOwner, Lineages
  <2>3. step[t] = "name" /\ step' = [step EXCEPT ![t] = "spawn"] BY <1>2 DEF EnvOwner
  <2>4. OwnerOf(t)' /\ ConnOf(t)' BY <1>2, <2>3 DEF EnvOwner
  <2>5. step[t] # "out" BY <2>3
  <2>6. \A u \in Tasks : OwnerOf(u)' /\ ConnOf(u)' BY <2>3, <2>4, <2>5, OnlyMine
  <2> QED BY <2>1, <2>2, <2>6
<1>3. CASE Spawn(t)
  <2>1. ServerTyped' BY <1>3 DEF Spawn
  <2>2. ClosedIsGone' /\ BrowserIsNamed' BY <1>3 DEF Spawn
  <2>3. step[t] = "spawn" /\ step' = [step EXCEPT ![t] = "shake"] BY <1>3 DEF Spawn
  <2>4. OwnerOf(t)' /\ ConnOf(t)' BY <1>3, <2>3 DEF Spawn
  <2>5. step[t] # "out" BY <2>3
  <2>6. \A u \in Tasks : OwnerOf(u)' /\ ConnOf(u)' BY <2>3, <2>4, <2>5, OnlyMine
  <2> QED BY <2>1, <2>2, <2>6
<1>4. CASE Handshake(t)
  <2>1. /\ step[t] = "shake" /\ step' = [step EXCEPT ![t] = "idle"] /\ st' = [st EXCEPT ![t] = "active"]
        /\ UNCHANGED <<lease, owner, env, sup, alive, stop, leaving, conn>>
    BY <1>4 DEF Handshake
  <2>2. ServerTyped' BY <2>1
  <2>3. ClosedIsGone' /\ BrowserIsNamed' BY <2>1
  <2>4. OwnerOf(t)' /\ ConnOf(t)' BY <2>1
  <2>5. step[t] # "out" BY <2>1
  <2>6. \A u \in Tasks : OwnerOf(u)' /\ ConnOf(u)' BY <2>1, <2>4, <2>5, OnlyMine
  <2> QED BY <2>2, <2>3, <2>6
<1>5. CASE HandshakeFails(t)
  <2>1. /\ step[t] = "shake" /\ step' = [step EXCEPT ![t] = "idle"] /\ st' = [st EXCEPT ![t] = "tainted"]
        /\ UNCHANGED <<lease, owner, env, sup, alive, leaving, conn>>
    BY <1>5 DEF HandshakeFails
  <2>2. stop' \in [Envs -> BOOLEAN] BY <1>5, StopTyped DEF HandshakeFails
  <2>3. ServerTyped' BY <2>1, <2>2
  <2>4. ClosedIsGone' /\ BrowserIsNamed' BY <2>1
  <2>5. OwnerOf(t)' /\ ConnOf(t)' BY <2>1
  <2>6. step[t] # "out" BY <2>1
  <2>7. \A u \in Tasks : OwnerOf(u)' /\ ConnOf(u)' BY <2>1, <2>5, <2>6, OnlyMine
  <2> QED BY <2>3, <2>4, <2>7
<1> QED BY <1>1, <1>2, <1>3, <1>4, <1>5 DEF Connect

LEMMA ServerCall == ASSUME ServerInv, NEW t \in Tasks, Call(t) \/ Check(t) PROVE ServerInv'
<1> USE SessionAssumption DEF ServerInv, ServerTyped, ClosedIsGone, BrowserIsNamed, OwnerOf, ConnOf,
   Spots, Entering, Connecting, Calling, Quieting, NoEnv, Envs, Now, records, browser, session, budget
<1>0. ASSUME NEW refused \in BOOLEAN, step[t] \in Calling, Failure(t, refused) PROVE ServerInv'
  <2>1. ServerTyped'
    <3>1. /\ st' \in [Tasks -> {"none", "created", "active", "quiescent", "tainted", "closing"}]
          /\ stop' \in [Envs -> BOOLEAN]
      <4>1. st' = st \/ st' = [st EXCEPT ![t] = "tainted"] BY <1>0 DEF Failure
      <4>2. stop' = stop \/ StopsServer(t) BY <1>0 DEF Failure
      <4>3. StopsServer(t) => stop' \in [Envs -> BOOLEAN] BY StopTyped
      <4>4. st' \in [Tasks -> {"none", "created", "active", "quiescent", "tainted", "closing"}] BY <4>1, TaintTyped
      <4>5. stop' \in [Envs -> BOOLEAN] BY <4>2, <4>3
      <4> QED BY <4>4, <4>5
    <3>2. /\ step' = [step EXCEPT ![t] = "idle"]
          /\ UNCHANGED <<lease, owner, env, sup, alive, leaving, conn>>
      BY <1>0 DEF Failure
    <3> QED BY <1>0, <3>1, <3>2
  <2>2. ClosedIsGone' /\ BrowserIsNamed' BY <1>0 DEF Failure, StopsServer
  <2>3. ASSUME NEW u \in Tasks PROVE OwnerOf(u)' BY <1>0 DEF Failure, StopsServer
  <2>4. ASSUME NEW u \in Tasks PROVE ConnOf(u)' BY <1>0 DEF Failure, StopsServer
  <2> QED BY <2>1, <2>2, <2>3, <2>4
<1>1. CASE NotSent(t) BY <1>0, <1>1 DEF NotSent
<1>2. CASE Dispatch(t) BY <1>2 DEF Dispatch
<1>3. CASE Send(t) BY <1>3 DEF Send
<1>4. CASE OpenVerified(t) BY <1>4 DEF OpenVerified
<1>5. CASE Acknowledge(t) BY <1>5 DEF Acknowledge
<1>6. CASE ClickReturns(t) BY <1>6 DEF ClickReturns
<1>7. CASE ClickRefused(t) BY <1>7 DEF ClickRefused
<1>8. CASE NoAnswer(t) BY <1>0, <1>8 DEF NoAnswer
<1>9. CASE QuietOwner(t)
  <2>1. ServerTyped'
    <3>1. /\ step[t] = "quiet" /\ step' = [step EXCEPT ![t] = "quieted"]
          /\ conn' = [conn EXCEPT ![t] = NoEnv]
          /\ UNCHANGED <<lease, env, sup, alive, stop, st, leaving>>
      BY <1>9 DEF QuietOwner
    <3>2. owner' \in [env : Envs \cup {NoEnv}, lineage : Lineages \cup {Free}]
      BY <1>9 DEF QuietOwner
    <3> QED BY <3>1, <3>2
  <2>2. ClosedIsGone' /\ BrowserIsNamed' BY <1>9 DEF QuietOwner, Cleaned
  <2>3. ASSUME NEW u \in Tasks PROVE OwnerOf(u)' BY <1>9 DEF QuietOwner, Cleaned
  <2>4. ASSUME NEW u \in Tasks PROVE ConnOf(u)' BY <1>9 DEF QuietOwner, Cleaned
  <2> QED BY <2>1, <2>2, <2>3, <2>4
<1>10. CASE QuietReceipt(t) BY <1>10 DEF QuietReceipt
<1>11. CASE QuietFails(t)
  <2>1. ServerTyped' BY <1>11 DEF QuietFails
  <2>2. ClosedIsGone' /\ BrowserIsNamed' BY <1>11 DEF QuietFails
  <2>3. ASSUME NEW u \in Tasks PROVE OwnerOf(u)' /\ ConnOf(u)' BY <1>11 DEF QuietFails
  <2> QED BY <2>1, <2>2, <2>3
<1>12. ASSUME NEW a, Quiesce(t, a) PROVE ServerInv'
  <2>1. ServerTyped'
    <3>1. /\ step[t] = "idle" /\ step' = [step EXCEPT ![t] = "quiet"]
          /\ UNCHANGED <<lease, owner, env, sup, alive, st, leaving, conn>>
      BY <1>12 DEF Quiesce
    <3>2. stop' \in [Envs -> BOOLEAN] BY <1>12 DEF Quiesce
    <3> QED BY <3>1, <3>2
  <2>2. ClosedIsGone' /\ BrowserIsNamed' BY <1>12 DEF Quiesce
  <2>3. ASSUME NEW u \in Tasks PROVE OwnerOf(u)' BY <1>12 DEF Quiesce
  <2>4. ASSUME NEW u \in Tasks PROVE ConnOf(u)' BY <1>12 DEF Quiesce
  <2> QED BY <2>1, <2>2, <2>3, <2>4
<1>13. ASSUME NEW a, Verify(t, a) PROVE ServerInv' BY <1>13 DEF Verify
<1> QED BY <1>1, <1>2, <1>3, <1>4, <1>5, <1>6, <1>7, <1>8, <1>9, <1>10, <1>11, <1>12, <1>13 DEF Call, Check

LEMMA ServerRest ==
  ASSUME ServerInv, NEW t \in Tasks,
         \/ \E i \in Intents, frozen \in BOOLEAN : Prepare(t, i, frozen)
         \/ Finish(t) \/ CloseSession(t) \/ KillOwner(t)
         \/ \E a \in 1..Len(acts), d \in Decisions : Reconcile(t, a, d)
  PROVE ServerInv'
<1> USE SessionAssumption DEF ServerInv, ServerTyped, ClosedIsGone, BrowserIsNamed, OwnerOf, ConnOf,
   Spots, Entering, Connecting, Calling, Quieting, NoEnv, Envs, Now, records, browser, session, budget
<1>1. ASSUME NEW i, NEW frozen, Prepare(t, i, frozen) PROVE ServerInv' BY <1>1 DEF Prepare, Boundary
<1>2. CASE Finish(t) BY <1>2 DEF Finish
<1>3. CASE CloseSession(t) BY <1>3 DEF CloseSession
<1>4. CASE KillOwner(t) BY <1>4 DEF KillOwner
<1>5. ASSUME NEW a, NEW d, Reconcile(t, a, d) PROVE ServerInv' BY <1>5 DEF Reconcile
<1> QED BY <1>1, <1>2, <1>3, <1>4, <1>5

LEMMA ServerBrowser ==
  ASSUME ServerInv, NEW e \in Envs,
         SupReady(e) \/ SupStops(e) \/ SupDies(e) \/ BrowserExits(e) \/ BrowserActs(e)
  PROVE ServerInv'
<1> USE SessionAssumption DEF ServerInv, ServerTyped, ClosedIsGone, BrowserIsNamed, OwnerOf, ConnOf,
   Spots, Entering, Connecting, Calling, Quieting, NoEnv, Envs, Now, records, browser, session, budget
<1>1. CASE SupReady(e) BY <1>1 DEF SupReady
<1>2. CASE SupStops(e) BY <1>2 DEF SupStops
<1>3. CASE SupDies(e) BY <1>3 DEF SupDies
<1>4. CASE BrowserExits(e) BY <1>4 DEF BrowserExits
<1>5. CASE BrowserActs(e) BY <1>5 DEF BrowserActs
<1> QED BY <1>1, <1>2, <1>3, <1>4, <1>5

LEMMA ServerIdles == ASSUME ServerInv, UNCHANGED csvars PROVE ServerInv'
BY DEF ServerInv, ServerTyped, ClosedIsGone, BrowserIsNamed, OwnerOf, ConnOf,
   csvars, records, browser, session, budget

LEMMA ServerStep == ServerInv /\ [CsNext]_csvars => ServerInv'
<1> SUFFICES ASSUME ServerInv, [CsNext]_csvars PROVE ServerInv' OBVIOUS
<1>1. CASE UNCHANGED csvars BY <1>1, ServerIdles
<1>2. CASE CsNext
  <2>1. ASSUME NEW t \in Tasks,
               \/ Enter(t) \/ Recover(t) \/ Connect(t) \/ Call(t) \/ Check(t)
               \/ \E i \in Intents, frozen \in BOOLEAN : Prepare(t, i, frozen)
               \/ Finish(t) \/ CloseSession(t) \/ KillOwner(t)
               \/ \E a \in 1..Len(acts), d \in Decisions : Reconcile(t, a, d)
        PROVE ServerInv'
    BY <2>1, ServerEnter, ServerRecover, ServerConnect, ServerCall, ServerRest
  <2>2. ASSUME NEW e \in Envs,
               SupReady(e) \/ SupStops(e) \/ SupDies(e) \/ BrowserExits(e) \/ BrowserActs(e)
        PROVE ServerInv'
    BY <2>2, ServerBrowser
  <2> QED BY <1>2, <2>1, <2>2 DEF CsNext
<1> QED BY <1>1, <1>2

\* Every reachable state.
THEOREM BrowserIsNamedHolds == CsSpec => []BrowserIsNamed
<1>1. CsSpec => []ServerInv BY ServerStarts, ServerStep, PTL DEF CsSpec
<1>2. ServerInv => BrowserIsNamed BY DEF ServerInv
<1> QED BY <1>1, <1>2, PTL
----------------------------------------------------------------------------
(* The ledgers. *)

\* What stays as it is once a ledger says so.
Closed == NoEffect \cup {"VERIFIED"}
Unsent == NoEffect \cup {"PREPARED"}

LedgerTyped ==
    /\ acts \in Seq(Action)
    /\ wire \in [Envs -> 0..Len(acts)]
    /\ cur \in [Tasks -> 0..Len(acts)]
    /\ settled \in [Lineages -> SUBSET (1..Len(acts))]

\* The action in hand.
CurOf(t) ==
    /\ step[t] \in Calling \cup Quieting => cur[t] # 0
    /\ step[t] = "prepared" => acts[cur[t]].state = "PREPARED"
    /\ step[t] \in {"send", "sent", "acked"} =>
         acts[cur[t]].state = "DISPATCHED" /\ acts[cur[t]].env = conn[t]
    /\ step[t] = "send" => ~acts[cur[t]].acted /\ \A e \in Envs : wire[e] # cur[t]
    /\ step[t] \in Quieting => acts[cur[t]].state = "DISPATCHED" /\ acts[cur[t]].env \in Envs

\* A request on its way belongs to its browser and has not taken effect.
WireOK ==
    \A e \in Envs : wire[e] # 0 =>
        /\ ~acts[wire[e]].acted /\ acts[wire[e]].env = e
        /\ acts[wire[e]].state \notin Unsent

NothingYet == \A a \in DOMAIN acts : acts[a].state = "PREPARED" => ~acts[a].acted

Excused(a) ==
    \/ acts[a].state \in Closed
    \/ \E n \in DOMAIN acts[a].decisions : acts[a].decisions[n] = "retry"
RepeatsExcused ==
    \A a, b \in DOMAIN acts :
        a < b /\ acts[a].lineage = acts[b].lineage /\ acts[a].intent = acts[b].intent => Excused(a)

SettledWell ==
    \A l \in Lineages : \A a \in settled[l] :
        acts[a].intent \in Clicks => acts[a].state \in NoEffect \/ acts[a].proved

LedgerInv ==
    /\ LedgerTyped /\ WireOK /\ NothingYet /\ NoEffectIsTrue /\ RepeatsExcused /\ SettledWell
    /\ \A t \in Tasks : CurOf(t)

LEMMA LedgerStarts == CsInit => LedgerInv
BY SessionAssumption DEF CsInit, LedgerInv, LedgerTyped, WireOK, NothingYet, NoEffectIsTrue, RepeatsExcused,
   SettledWell, CurOf, Calling, Quieting, Lineages

\* What a step may make of a record.
Follows(a, b) ==
    /\ b.lineage = a.lineage /\ b.intent = a.intent
    /\ a.proved => b.proved
    /\ a.state \in Closed => b.state = a.state
    /\ \A n \in DOMAIN a.decisions : n \in DOMAIN b.decisions /\ b.decisions[n] = a.decisions[n]
    /\ b.state \in Unsent => ~b.acted

LEMMA FollowsItself == ASSUME LedgerInv, NEW a \in 1..Len(acts) PROVE Follows(acts[a], acts[a])
BY DEF Follows, LedgerInv, LedgerTyped, NothingYet, NoEffectIsTrue, Unsent

LEMMA RecordsFollow ==
  ASSUME LedgerTyped, RepeatsExcused, SettledWell, settled' = settled,
         acts' \in Seq(Action), Len(acts') = Len(acts),
         \A a \in 1..Len(acts) : Follows(acts[a], acts'[a])
  PROVE  NothingYet' /\ NoEffectIsTrue' /\ RepeatsExcused' /\ SettledWell'
<1>0. DOMAIN acts = 1..Len(acts) /\ DOMAIN acts' = 1..Len(acts) BY DEF LedgerTyped
<1>1. NothingYet' /\ NoEffectIsTrue' BY <1>0 DEF NothingYet, NoEffectIsTrue, Follows, Unsent
<1>2. ASSUME NEW a \in 1..Len(acts), Excused(a) PROVE Excused(a)'
  BY <1>2 DEF Excused, Follows
<1>3. RepeatsExcused' BY <1>0, <1>2 DEF RepeatsExcused, Follows
<1>4. ASSUME NEW l \in Lineages, NEW a \in settled[l], acts'[a].intent \in Clicks
      PROVE  acts'[a].state \in NoEffect \/ acts'[a].proved
  <2>1. a \in 1..Len(acts) BY DEF LedgerTyped
  <2> QED BY <1>4, <2>1 DEF SettledWell, Follows, Closed
<1>5. SettledWell' BY <1>4 DEF SettledWell, Lineages
<1> QED BY <1>1, <1>3, <1>5

LEMMA OneRecord ==
  ASSUME acts \in Seq(Action), NEW k \in 1..Len(acts), NEW r \in Action, acts' = [acts EXCEPT ![k] = r]
  PROVE  /\ acts' \in Seq(Action) /\ Len(acts') = Len(acts) /\ acts'[k] = r
         /\ \A a \in 1..Len(acts) : a # k => acts'[a] = acts[a]
OBVIOUS

\* A step that rewrites the record of one action.
LEMMA OneWrite ==
  ASSUME LedgerInv, NEW k \in 1..Len(acts), NEW r \in Action, acts' = [acts EXCEPT ![k] = r],
         Follows(acts[k], r), r.env = acts[k].env, r.acted = acts[k].acted, settled' = settled,
         wire' \in [Envs -> 0..Len(acts)], \A e \in Envs : wire'[e] \in {0, wire[e]},
         r.state \in Unsent => \A e \in Envs : wire'[e] # k,
         cur' \in [Tasks -> 0..Len(acts)], \A t \in Tasks : CurOf(t)'
  PROVE  LedgerInv'
<1>0. acts \in Seq(Action) BY DEF LedgerInv, LedgerTyped
<1>1. /\ acts' \in Seq(Action) /\ Len(acts') = Len(acts) /\ acts'[k] = r
      /\ \A a \in 1..Len(acts) : a # k => acts'[a] = acts[a]
  BY <1>0, OneRecord
<1>2. \A a \in 1..Len(acts) : Follows(acts[a], acts'[a]) BY <1>1, FollowsItself
<1>3. NothingYet' /\ NoEffectIsTrue' /\ RepeatsExcused' /\ SettledWell'
  BY <1>1, <1>2, RecordsFollow DEF LedgerInv
<1>4. LedgerTyped' BY <1>1 DEF LedgerInv, LedgerTyped, Lineages
<1>5. WireOK'
  <2> SUFFICES ASSUME NEW e \in Envs, wire'[e] # 0
               PROVE  ~acts'[wire'[e]].acted /\ acts'[wire'[e]].env = e /\ acts'[wire'[e]].state \notin Unsent
    BY DEF WireOK, Envs
  <2>1. wire'[e] = wire[e] /\ wire[e] \in 1..Len(acts) BY DEF LedgerInv, LedgerTyped
  <2>2. ~acts[wire[e]].acted /\ acts[wire[e]].env = e /\ acts[wire[e]].state \notin Unsent
    BY <2>1 DEF LedgerInv, WireOK
  <2>3. CASE wire[e] = k BY <1>1, <2>1, <2>2, <2>3
  <2>4. CASE wire[e] # k BY <1>1, <2>1, <2>2, <2>4
  <2> QED BY <2>3, <2>4
<1> QED BY <1>3, <1>4, <1>5 DEF LedgerInv

\* A step that rewrites none.
LEMMA NoWrite ==
  ASSUME LedgerInv, acts' = acts, settled' = settled,
         wire' \in [Envs -> 0..Len(acts)], \A e \in Envs : wire'[e] \in {0, wire[e]},
         cur' \in [Tasks -> 0..Len(acts)], \A t \in Tasks : CurOf(t)'
  PROVE  LedgerInv'
<1>1. LedgerTyped' BY DEF LedgerInv, LedgerTyped, Lineages
<1>2. WireOK' BY DEF LedgerInv, WireOK, Envs
<1> QED BY <1>1, <1>2 DEF LedgerInv, NothingYet, NoEffectIsTrue, RepeatsExcused, Excused, SettledWell, Lineages
LEMMA BetweenCalls ==
  ASSUME LedgerInv, acts' = acts, settled' = settled,
         wire' \in [Envs -> 0..Len(acts)], \A e \in Envs : wire'[e] \in {0, wire[e]},
         cur' \in [Tasks -> 0..Len(acts)],
         \A u \in Tasks : step'[u] \notin Calling \cup Quieting
  PROVE  LedgerInv'
<1>1. \A u \in Tasks : CurOf(u)' BY DEF CurOf, Calling, Quieting
<1> QED BY <1>1, NoWrite

\* The steps of t that neither write a record nor have an action in hand.
Idling(t) ==
    \/ Enter(t) \/ AskStop(t) \/ Clean(t) \/ CleanFails(t) \/ Disown(t) \/ Connect(t)
    \/ ClickReturns(t) \/ CloseSession(t) \/ KillOwner(t)
LEMMA LedgerIdling == ASSUME ServerInv, LedgerInv, NEW t \in Tasks, Idling(t) PROVE LedgerInv'
<1>0. step \in [Tasks -> Spots] /\ wire \in [Envs -> 0..Len(acts)] /\ cur \in [Tasks -> 0..Len(acts)]
  BY DEF ServerInv, ServerTyped, LedgerInv, LedgerTyped
<1>1. /\ acts' = acts /\ settled' = settled /\ wire' = wire
      /\ cur' = cur \/ cur' = [cur EXCEPT ![t] = 0]
      /\ step[t] # "out" \/ lease = Free
      /\ \E at \in {"out", "idle"} \cup Entering \cup Connecting : step' = [step EXCEPT ![t] = at]
  <2> USE DEF Entering, Connecting, Now, records, browser, session
  <2>1. CASE Enter(t)
    BY <2>1 DEF Enter, Construct, IndexStands, IndexPrepare, IndexLedger, IndexCommit, IndexAbort, Refuse
  <2>2. CASE AskStop(t) BY <1>0, <2>2 DEF AskStop
  <2>3. CASE Clean(t) BY <2>3 DEF Clean
  <2>4. CASE CleanFails(t) BY <2>4 DEF CleanFails, Refuse
  <2>5. CASE Disown(t) BY <2>5 DEF Disown
  <2>6. CASE Connect(t)
    BY <2>6 DEF Connect, EnvRecord, Boundary, EnvOwner, Spawn, Handshake, HandshakeFails
  <2>7. CASE ClickReturns(t) BY <2>7 DEF ClickReturns
  <2>8. CASE CloseSession(t) BY <2>8 DEF CloseSession
  <2>9. CASE KillOwner(t) BY <2>9 DEF KillOwner
  <2> QED BY <2>1, <2>2, <2>3, <2>4, <2>5, <2>6, <2>7, <2>8, <2>9 DEF Idling
<1>2. \A u \in Tasks : step'[u] \notin Calling \cup Quieting
  BY <1>0, <1>1, OthersAreOut DEF Calling, Quieting, Entering, Connecting
<1>3. cur' \in [Tasks -> 0..Len(acts)] BY <1>0, <1>1
<1> QED BY <1>0, <1>1, <1>2, <1>3, BetweenCalls

\* _terminalize over a ledger.
LEMMA EndedFollows ==
  ASSUME LedgerInv, NEW l, NEW e, acts' = [a \in DOMAIN acts |-> Ended(acts[a], l, e)]
  PROVE  /\ acts' \in Seq(Action) /\ Len(acts') = Len(acts)
         /\ \A a \in 1..Len(acts) :
              /\ Follows(acts[a], acts'[a])
              /\ acts'[a].acted = acts[a].acted /\ acts'[a].env = acts[a].env
              /\ acts'[a].state \in Unsent => acts[a].state \in Unsent
<1>0. acts \in Seq(Action) BY DEF LedgerInv, LedgerTyped
<1>1. ASSUME NEW a \in 1..Len(acts)
      PROVE  /\ acts'[a] \in Action /\ Follows(acts[a], acts'[a])
             /\ acts'[a].acted = acts[a].acted /\ acts'[a].env = acts[a].env
             /\ acts'[a].state \in Unsent => acts[a].state \in Unsent
  <2>1. acts[a] \in Action /\ acts'[a] = Ended(acts[a], l, e) BY <1>0
  <2>2. Follows(acts[a], acts[a]) BY FollowsItself
  <2>3. CASE acts[a].lineage # l \/ acts[a].state \notin {"PREPARED", "DISPATCHED"}
    BY <2>1, <2>2, <2>3 DEF Ended
  <2>4. CASE acts[a].lineage = l /\ acts[a].state = "PREPARED"
    <3>1. acts'[a] = [acts[a] EXCEPT !.state = "FAILED_WITH_KNOWN_NO_EFFECT"] BY <2>1, <2>4 DEF Ended
    <3> QED BY <2>1, <2>2, <2>4, <3>1 DEF Follows, Action, States, Unsent, NoEffect, Closed
  <2>5. CASE acts[a].lineage = l /\ acts[a].state = "DISPATCHED"
    <3>1. acts'[a] = [acts[a] EXCEPT !.state = "UNKNOWN",
                                     !.receipt = @ \/ (e # NoEnv /\ acts[a].env = e)]
      BY <2>1, <2>5 DEF Ended
    <3>2. (e # NoEnv /\ acts[a].env = e) \in BOOLEAN OBVIOUS
    <3>3. (acts[a].receipt \/ (e # NoEnv /\ acts[a].env = e)) \in BOOLEAN OBVIOUS
    <3> DEFINE With(r) == [acts[a] EXCEPT !.state = "UNKNOWN", !.receipt = r]
    <3>4. \A r \in BOOLEAN :
            /\ With(r) \in Action /\ With(r).state = "UNKNOWN"
            /\ With(r).acted = acts[a].acted /\ With(r).env = acts[a].env
            /\ With(r).lineage = acts[a].lineage /\ With(r).intent = acts[a].intent
            /\ With(r).proved = acts[a].proved /\ With(r).decisions = acts[a].decisions
      BY <2>1 DEF Action, States
    <3>5. \E r \in BOOLEAN : acts'[a] = With(r) BY <3>1, <3>3
    <3> HIDE DEF With
    <3> QED BY <2>2, <2>5, <3>4, <3>5 DEF Follows, Unsent, NoEffect, Closed
  <2> QED BY <2>3, <2>4, <2>5
<1>2. DOMAIN acts = 1..Len(acts) /\ Len(acts) \in Nat BY <1>0
<1>3. acts' \in Seq(Action) /\ Len(acts') = Len(acts)
  <2>1. acts' \in [1..Len(acts) -> Action] BY <1>1, <1>2
  <2> QED BY <1>2, <2>1, IsASeq, LenProperties
<1> QED BY <1>1, <1>3

LEMMA LedgerSweep ==
  ASSUME ServerInv, LedgerInv, NEW t \in Tasks, TermOwner(t) \/ TermOwn(t)
  PROVE  LedgerInv'
<1>0. step \in [Tasks -> Spots] /\ wire \in [Envs -> 0..Len(acts)] /\ cur \in [Tasks -> 0..Len(acts)]
  BY DEF ServerInv, ServerTyped, LedgerInv, LedgerTyped
<1>1. /\ settled' = settled /\ wire' = wire /\ step[t] # "out"
      /\ cur' = cur \/ cur' = [cur EXCEPT ![t] = 0]
      /\ \E at \in {"out", "idle", "disown"} : step' = [step EXCEPT ![t] = at]
  BY DEF TermOwner, TermOwn, Now, browser, session
<1>2. PICK l, x : acts' = [a \in DOMAIN acts |-> Ended(acts[a], l, x)]
  BY DEF TermOwner, TermOwn
<1>3. /\ acts' \in Seq(Action) /\ Len(acts') = Len(acts)
      /\ \A a \in 1..Len(acts) :
           /\ Follows(acts[a], acts'[a])
           /\ acts'[a].acted = acts[a].acted /\ acts'[a].env = acts[a].env
           /\ acts'[a].state \in Unsent => acts[a].state \in Unsent
  BY <1>2, EndedFollows
<1>4. NothingYet' /\ NoEffectIsTrue' /\ RepeatsExcused' /\ SettledWell'
  BY <1>1, <1>3, RecordsFollow DEF LedgerInv
<1>5. cur' \in [Tasks -> 0..Len(acts)] BY <1>0, <1>1
<1>6. LedgerTyped' BY <1>0, <1>1, <1>3, <1>5 DEF LedgerInv, LedgerTyped, Lineages
<1>7. WireOK'
  <2> SUFFICES ASSUME NEW e \in Envs, wire[e] # 0
               PROVE  ~acts'[wire[e]].acted /\ acts'[wire[e]].env = e /\ acts'[wire[e]].state \notin Unsent
    BY <1>1 DEF WireOK, Envs
  <2>1. wire[e] \in 1..Len(acts) BY <1>0
  <2>2. ~acts[wire[e]].acted /\ acts[wire[e]].env = e /\ acts[wire[e]].state \notin Unsent
    BY DEF LedgerInv, WireOK
  <2> QED BY <1>3, <2>1, <2>2
<1>8. \A u \in Tasks : CurOf(u)'
  <2>1. \A u \in Tasks : step'[u] \notin Calling \cup Quieting
    BY <1>0, <1>1, OthersAreOut DEF Calling, Quieting
  <2> QED BY <2>1 DEF CurOf, Calling, Quieting
<1> QED BY <1>4, <1>6, <1>7, <1>8 DEF LedgerInv
\* The action in hand is a record of the ledgers.
LEMMA InHand ==
  ASSUME LedgerInv, NEW t \in Tasks, step[t] \in Calling \cup Quieting
  PROVE  cur[t] \in 1..Len(acts) /\ acts[cur[t]] \in Action
BY DEF LedgerInv, LedgerTyped, CurOf

\* t writes a new state of the action in hand and is done with it.
LEMMA LedgerWrite ==
  ASSUME ServerInv, LedgerInv, NEW t \in Tasks, step[t] \in Calling \cup Quieting,
         NEW s \in States, Write(cur[t], s), settled' = settled,
         acts[cur[t]].state \notin Closed, s \in Unsent => ~acts[cur[t]].acted,
         wire' \in [Envs -> 0..Len(acts)], \A e \in Envs : wire'[e] \in {0, wire[e]},
         s \in Unsent => \A e \in Envs : wire'[e] # cur[t],
         cur' = [cur EXCEPT ![t] = 0], step' = [step EXCEPT ![t] = "idle"]
  PROVE  LedgerInv'
<1> DEFINE r == [acts[cur[t]] EXCEPT !.state = s]
<1>0. step \in [Tasks -> Spots] /\ cur \in [Tasks -> 0..Len(acts)]
  BY DEF ServerInv, ServerTyped, LedgerInv, LedgerTyped
<1>1. cur[t] \in 1..Len(acts) /\ acts[cur[t]] \in Action BY InHand
<1>2. acts' = [acts EXCEPT ![cur[t]] = r] BY DEF Write
<1>3. /\ r \in Action /\ r.env = acts[cur[t]].env /\ r.acted = acts[cur[t]].acted /\ r.state = s
      /\ Follows(acts[cur[t]], r)
  BY <1>1 DEF Action, Follows
<1>4. cur' \in [Tasks -> 0..Len(acts)] BY <1>0
<1>5. \A u \in Tasks : CurOf(u)'
  <2>1. \A u \in Tasks : step'[u] \notin Calling \cup Quieting
    BY <1>0, OthersAreOut DEF Calling, Quieting
  <2> QED BY <2>1 DEF CurOf, Calling, Quieting
<1> HIDE DEF r
<1> QED BY <1>1, <1>2, <1>3, <1>4, <1>5, OneWrite

LEMMA LedgerFailure ==
  ASSUME ServerInv, LedgerInv, NEW t \in Tasks, NEW refused \in BOOLEAN, Failure(t, refused),
         \/ step[t] = "prepared"
         \/ step[t] \in {"send", "sent"} /\ (refused => acts[cur[t]].intent \notin Clicks)
         \/ step[t] = "acked"
  PROVE  LedgerInv'
<1> DEFINE s == FailedAs(acts[cur[t]], refused, step[t] = "acked")
<1>0. step[t] \in Calling \cup Quieting /\ wire \in [Envs -> 0..Len(acts)]
  BY DEF Calling, LedgerInv, LedgerTyped
<1>1. cur[t] \in 1..Len(acts) /\ acts[cur[t]] \in Action BY <1>0, InHand
<1>2. /\ Write(cur[t], s) /\ settled' = settled /\ wire' = wire
      /\ cur' = [cur EXCEPT ![t] = 0] /\ step' = [step EXCEPT ![t] = "idle"]
  BY DEF Failure, Now
<1>3. s \in States BY DEF FailedAs, States
<1>4. CASE step[t] = "prepared"
  <2>1. acts[cur[t]].state = "PREPARED" BY <1>4 DEF LedgerInv, CurOf
  <2>2. ~acts[cur[t]].acted BY <1>1, <2>1 DEF LedgerInv, NothingYet, LedgerTyped
  <2>3. \A e \in Envs : wire[e] # cur[t] BY <1>1, <2>1 DEF LedgerInv, WireOK, Unsent
  <2>4. acts[cur[t]].state \notin Closed BY <2>1 DEF Closed, NoEffect
  <2> HIDE DEF s
  <2> QED BY <1>0, <1>2, <1>3, <2>2, <2>3, <2>4, LedgerWrite
<1>5. CASE step[t] # "prepared"
  <2>1. acts[cur[t]].state = "DISPATCHED" BY <1>5 DEF LedgerInv, CurOf
  <2>2. s = "UNKNOWN" BY <1>5, <2>1 DEF FailedAs
  <2>3. s \notin Unsent /\ acts[cur[t]].state \notin Closed BY <2>1, <2>2 DEF Closed, NoEffect, Unsent
  <2> HIDE DEF s
  <2> QED BY <1>0, <1>2, <1>3, <2>3, LedgerWrite
<1> QED BY <1>4, <1>5

LEMMA LedgerDispatch == ASSUME ServerInv, LedgerInv, NEW t \in Tasks, Dispatch(t) PROVE LedgerInv'
<1>0. /\ step \in [Tasks -> Spots] /\ wire \in [Envs -> 0..Len(acts)] /\ cur \in [Tasks -> 0..Len(acts)]
      /\ acts \in Seq(Action)
  BY DEF ServerInv, ServerTyped, LedgerInv, LedgerTyped
<1>1. /\ step[t] = "prepared" /\ step' = [step EXCEPT ![t] = "send"]
      /\ settled' = settled /\ wire' = wire /\ cur' = cur /\ conn' = conn
  BY DEF Dispatch, Now, browser
<1>2. cur[t] \in 1..Len(acts) /\ acts[cur[t]] \in Action BY <1>1, InHand DEF Calling
<1>3. conn[t] \in Envs BY <1>1 DEF ServerInv, ServerTyped, ConnOf, Calling
<1> DEFINE r == [acts[cur[t]] EXCEPT !.state = "DISPATCHED", !.env = conn[t]]
<1>4. acts' = [acts EXCEPT ![cur[t]] = r] BY <1>0, <1>2 DEF Dispatch, Action
<1>5. acts[cur[t]].state = "PREPARED" BY <1>1 DEF LedgerInv, CurOf
<1>6. ~acts[cur[t]].acted BY <1>0, <1>2, <1>5 DEF LedgerInv, NothingYet
<1>7. \A e \in Envs : wire[e] # cur[t] BY <1>2, <1>5 DEF LedgerInv, WireOK, Unsent
<1>8. /\ r \in Action /\ r.state = "DISPATCHED" /\ r.env = conn[t] /\ ~r.acted
      /\ Follows(acts[cur[t]], r)
  BY <1>2, <1>3, <1>5, <1>6 DEF Action, States, Follows, Closed, NoEffect, Unsent
<1> HIDE DEF r
<1>9. /\ acts' \in Seq(Action) /\ Len(acts') = Len(acts) /\ acts'[cur[t]] = r
      /\ \A a \in 1..Len(acts) : a # cur[t] => acts'[a] = acts[a]
  BY <1>0, <1>2, <1>4, <1>8, OneRecord
<1>10. \A a \in 1..Len(acts) : Follows(acts[a], acts'[a]) BY <1>8, <1>9, FollowsItself
<1>11. NothingYet' /\ NoEffectIsTrue' /\ RepeatsExcused' /\ SettledWell'
  BY <1>1, <1>9, <1>10, RecordsFollow DEF LedgerInv
<1>12. LedgerTyped' BY <1>1, <1>9 DEF LedgerInv, LedgerTyped, Lineages
<1>13. WireOK'
  <2> SUFFICES ASSUME NEW e \in Envs, wire[e] # 0
               PROVE  ~acts'[wire[e]].acted /\ acts'[wire[e]].env = e /\ acts'[wire[e]].state \notin Unsent
    BY <1>1 DEF WireOK, Envs
  <2>1. wire[e] \in 1..Len(acts) /\ wire[e] # cur[t] BY <1>0, <1>7
  <2>2. acts'[wire[e]] = acts[wire[e]] BY <1>9, <2>1
  <2> QED BY <2>2 DEF LedgerInv, WireOK
<1>14. \A u \in Tasks : CurOf(u)'
  <2>1. \A u \in Tasks : u # t => step'[u] = "out" BY <1>0, <1>1, OthersAreOut
  <2>2. step'[t] = "send" BY <1>0, <1>1
  <2>3. CurOf(t)' BY <1>1, <1>2, <1>7, <1>8, <1>9, <2>2 DEF CurOf, Calling, Quieting, Envs
  <2> QED BY <2>1, <2>3 DEF CurOf, Calling, Quieting
<1> QED BY <1>11, <1>12, <1>13, <1>14 DEF LedgerInv

LEMMA LedgerSend == ASSUME ServerInv, LedgerInv, NEW t \in Tasks, Send(t) PROVE LedgerInv'
<1>0. /\ step \in [Tasks -> Spots] /\ wire \in [Envs -> 0..Len(acts)] /\ cur \in [Tasks -> 0..Len(acts)]
      /\ acts \in Seq(Action)
  BY DEF ServerInv, ServerTyped, LedgerInv, LedgerTyped
<1>1. /\ step[t] = "send" /\ step' = [step EXCEPT ![t] = "sent"]
      /\ wire' = [wire EXCEPT ![conn[t]] = cur[t]]
      /\ acts' = acts /\ settled' = settled /\ cur' = cur /\ conn' = conn
  BY DEF Send, Now, records
<1>2. cur[t] \in 1..Len(acts) BY <1>1, InHand DEF Calling
<1>3. acts[cur[t]].state = "DISPATCHED" /\ acts[cur[t]].env = conn[t] /\ ~acts[cur[t]].acted
  BY <1>1 DEF LedgerInv, CurOf
<1>4. LedgerTyped' BY <1>0, <1>1 DEF LedgerInv, LedgerTyped, Lineages
<1>5. WireOK'
  <2> SUFFICES ASSUME NEW e \in Envs, wire'[e] # 0
               PROVE  ~acts[wire'[e]].acted /\ acts[wire'[e]].env = e /\ acts[wire'[e]].state \notin Unsent
    BY <1>1 DEF WireOK, Envs
  <2>1. CASE e = conn[t]
    <3>1. wire'[e] = cur[t] BY <1>0, <1>1, <2>1
    <3> QED BY <1>3, <2>1, <3>1 DEF Unsent, NoEffect
  <2>2. CASE e # conn[t] BY <1>0, <1>1, <2>2 DEF LedgerInv, WireOK
  <2> QED BY <2>1, <2>2
<1>6. \A u \in Tasks : CurOf(u)'
  <2>1. \A u \in Tasks : u # t => step'[u] = "out" BY <1>0, <1>1, OthersAreOut
  <2>2. step'[t] = "sent" BY <1>0, <1>1
  <2>3. CurOf(t)' BY <1>1, <1>2, <1>3, <2>2 DEF CurOf, Calling, Quieting
  <2> QED BY <2>1, <2>3 DEF CurOf, Calling, Quieting
<1> QED BY <1>1, <1>4, <1>5, <1>6
     DEF LedgerInv, NothingYet, NoEffectIsTrue, RepeatsExcused, Excused, SettledWell, Lineages

LEMMA LedgerCall == ASSUME ServerInv, LedgerInv, NEW t \in Tasks, Call(t) PROVE LedgerInv'
<1>0. /\ step \in [Tasks -> Spots] /\ wire \in [Envs -> 0..Len(acts)] /\ cur \in [Tasks -> 0..Len(acts)]
      /\ acts \in Seq(Action)
  BY DEF ServerInv, ServerTyped, LedgerInv, LedgerTyped
<1>1. CASE NotSent(t) BY <1>1, LedgerFailure DEF NotSent
<1>2. CASE Dispatch(t) BY <1>2, LedgerDispatch
<1>3. CASE Send(t) BY <1>3, LedgerSend
<1>4. CASE OpenVerified(t)
  <2>1. /\ step[t] = "sent" /\ Write(cur[t], "VERIFIED") /\ step' = [step EXCEPT ![t] = "idle"]
        /\ cur' = [cur EXCEPT ![t] = 0] /\ settled' = settled /\ wire' = wire
    BY <1>4 DEF OpenVerified, Now, browser
  <2>2. acts[cur[t]].state = "DISPATCHED" BY <2>1 DEF LedgerInv, CurOf
  <2>3. /\ step[t] \in Calling \cup Quieting /\ "VERIFIED" \in States /\ "VERIFIED" \notin Unsent
        /\ acts[cur[t]].state \notin Closed
    BY <2>1, <2>2 DEF Calling, States, Unsent, Closed, NoEffect
  <2> QED BY <1>0, <2>1, <2>3, LedgerWrite
<1>5. CASE Acknowledge(t)
  <2>1. /\ step[t] = "sent" /\ step' = [step EXCEPT ![t] = "acked"]
        /\ acts' = acts /\ settled' = settled /\ wire' = wire /\ cur' = cur /\ conn' = conn
    BY <1>5 DEF Acknowledge, Now, browser, records
  <2>2. \A u \in Tasks : u # t => step'[u] = "out" BY <1>0, <2>1, OthersAreOut
  <2>3. CurOf(t) BY DEF LedgerInv
  <2>4. CurOf(t)' BY <1>0, <2>1, <2>3 DEF CurOf, Calling, Quieting
  <2>5. \A u \in Tasks : CurOf(u)' BY <2>2, <2>4 DEF CurOf, Calling, Quieting
  <2> QED BY <1>0, <2>1, <2>5, NoWrite
<1>6. CASE ClickReturns(t) BY <1>6, LedgerIdling DEF Idling
<1>7. CASE ClickRefused(t)
  <2> DEFINE s == FailedAs(acts[cur[t]], TRUE, FALSE)
  <2>1. /\ step[t] = "sent" /\ wire[conn[t]] = cur[t] /\ Write(cur[t], s)
        /\ wire' = [wire EXCEPT ![conn[t]] = 0] /\ step' = [step EXCEPT ![t] = "idle"]
        /\ cur' = [cur EXCEPT ![t] = 0] /\ settled' = settled
    BY <1>7 DEF ClickRefused, Now
  <2>2. acts[cur[t]].state = "DISPATCHED" /\ acts[cur[t]].env = conn[t] BY <2>1 DEF LedgerInv, CurOf
  <2>3. s \in States BY DEF FailedAs, States
  <2>4. cur[t] # 0 /\ conn[t] \in Envs /\ step[t] \in Calling \cup Quieting
    BY <2>1, InHand DEF ServerInv, ServerTyped, ConnOf, Calling
  <2>5. ~acts[cur[t]].acted BY <2>1, <2>4 DEF LedgerInv, WireOK
  <2>6. \A e \in Envs : wire'[e] # cur[t]
    <3> SUFFICES ASSUME NEW e \in Envs, e # conn[t] PROVE wire[e] # cur[t] BY <1>0, <2>1, <2>4
    <3> QED BY <2>2, <2>4 DEF LedgerInv, WireOK
  <2>7. wire' \in [Envs -> 0..Len(acts)] /\ \A e \in Envs : wire'[e] \in {0, wire[e]}
    <3>1. wire' = [wire EXCEPT ![conn[t]] = 0] BY <2>1
    <3>2. 0 \in 0..Len(acts) BY <1>0
    <3> QED BY <1>0, <3>1, <3>2
  <2>8. acts[cur[t]].state \notin Closed BY <2>2 DEF Closed, NoEffect
  <2> HIDE DEF s
  <2> QED BY <2>1, <2>3, <2>4, <2>5, <2>6, <2>7, <2>8, LedgerWrite
<1>8. CASE NoAnswer(t) BY <1>8, LedgerFailure DEF NoAnswer
<1> QED BY <1>1, <1>2, <1>3, <1>4, <1>5, <1>6, <1>7, <1>8 DEF Call
LEMMA LedgerCheck == ASSUME ServerInv, LedgerInv, NEW t \in Tasks, Check(t) PROVE LedgerInv'
<1>0. /\ step \in [Tasks -> Spots] /\ wire \in [Envs -> 0..Len(acts)] /\ cur \in [Tasks -> 0..Len(acts)]
      /\ acts \in Seq(Action) /\ \A e \in Envs : wire[e] \in {0, wire[e]}
  BY DEF ServerInv, ServerTyped, LedgerInv, LedgerTyped
<1>1. CASE QuietOwner(t)
  <2>1. /\ step[t] = "quiet" /\ step' = [step EXCEPT ![t] = "quieted"]
        /\ acts' = acts /\ settled' = settled /\ wire' = wire /\ cur' = cur
    BY <1>1 DEF QuietOwner, Now, browser
  <2>2. \A u \in Tasks : u # t => step'[u] = "out" BY <1>0, <2>1, OthersAreOut
  <2>3. CurOf(t) BY DEF LedgerInv
  <2>4. CurOf(t)' BY <1>0, <2>1, <2>3 DEF CurOf, Calling, Quieting, Envs
  <2>5. \A u \in Tasks : CurOf(u)' BY <2>2, <2>4 DEF CurOf, Calling, Quieting
  <2> QED BY <1>0, <2>1, <2>5, NoWrite
<1>2. CASE QuietReceipt(t)
  <2> DEFINE r == [acts[cur[t]] EXCEPT !.receipt = TRUE]
  <2>1. /\ step[t] = "quieted" /\ step' = [step EXCEPT ![t] = "idle"] /\ cur' = [cur EXCEPT ![t] = 0]
        /\ settled' = settled /\ wire' = wire /\ acts' = [acts EXCEPT ![cur[t]] = r]
    BY <1>2 DEF QuietReceipt, Now, browser
  <2>2. cur[t] \in 1..Len(acts) /\ acts[cur[t]] \in Action BY <2>1, InHand DEF Quieting
  <2>3. acts[cur[t]].state = "DISPATCHED" BY <2>1 DEF LedgerInv, CurOf, Quieting
  <2>4. /\ r \in Action /\ r.state = "DISPATCHED" /\ r.env = acts[cur[t]].env /\ r.acted = acts[cur[t]].acted
        /\ Follows(acts[cur[t]], r) /\ r.state \notin Unsent
    BY <2>2, <2>3 DEF Action, Follows, Closed, NoEffect, Unsent
  <2>5. \A u \in Tasks : step'[u] \notin Calling \cup Quieting
    BY <1>0, <2>1, OthersAreOut DEF Calling, Quieting
  <2>6. \A u \in Tasks : CurOf(u)' BY <2>5 DEF CurOf, Calling, Quieting
  <2>7. cur' \in [Tasks -> 0..Len(acts)] BY <1>0, <2>1
  <2> HIDE DEF r
  <2> QED BY <1>0, <2>1, <2>2, <2>4, <2>6, <2>7, OneWrite
<1>3. CASE QuietFails(t)
  <2>1. /\ step[t] = "quiet" /\ Write(cur[t], "UNKNOWN") /\ step' = [step EXCEPT ![t] = "idle"]
        /\ cur' = [cur EXCEPT ![t] = 0] /\ settled' = settled /\ wire' = wire
    BY <1>3 DEF QuietFails, Now, browser
  <2>2. acts[cur[t]].state = "DISPATCHED" BY <2>1 DEF LedgerInv, CurOf, Quieting
  <2>3. /\ step[t] \in Calling \cup Quieting /\ "UNKNOWN" \in States /\ "UNKNOWN" \notin Unsent
        /\ acts[cur[t]].state \notin Closed
    BY <2>1, <2>2 DEF Quieting, States, Unsent, Closed, NoEffect
  <2> QED BY <1>0, <2>1, <2>3, LedgerWrite
<1>4. ASSUME NEW a \in 1..Len(acts), Quiesce(t, a) PROVE LedgerInv'
  <2>1. /\ step[t] = "idle" /\ step' = [step EXCEPT ![t] = "quiet"] /\ cur' = [cur EXCEPT ![t] = a]
        /\ acts' = acts /\ settled' = settled /\ wire' = wire
        /\ acts[a].state = "DISPATCHED" /\ acts[a].env # NoEnv
    BY <1>4 DEF Quiesce, Now, records
  <2>2. \A u \in Tasks : u # t => step'[u] = "out" BY <1>0, <2>1, OthersAreOut
  <2>3. acts[a].env \in Envs
    <3>1. acts[a] \in Action BY <1>0
    <3> QED BY <2>1, <3>1 DEF Action
  <2>4. step'[t] = "quiet" /\ cur'[t] = a BY <1>0, <2>1
  <2>5. CurOf(t)' BY <2>1, <2>3, <2>4 DEF CurOf, Calling, Quieting, Envs
  <2>6. \A u \in Tasks : CurOf(u)' BY <2>2, <2>5 DEF CurOf, Calling, Quieting
  <2>7. cur' \in [Tasks -> 0..Len(acts)] BY <1>0, <2>1
  <2> QED BY <1>0, <2>1, <2>6, <2>7, NoWrite
<1>5. ASSUME NEW a \in 1..Len(acts), Verify(t, a) PROVE LedgerInv'
  <2>1. /\ step[t] = "idle" /\ step' = step /\ cur' = cur /\ settled' = settled /\ wire' = wire
    BY <1>5 DEF Verify, browser, session
  <2>2. \E r \in Action : /\ acts' = [acts EXCEPT ![a] = r]
                          /\ r.env = acts[a].env /\ r.acted = acts[a].acted /\ Follows(acts[a], r)
                          /\ r.state \notin Unsent
    <3>1. acts[a] \in Action BY <1>0
    <3>2. CASE /\ acts[a].state \in {"DISPATCHED", "UNKNOWN"}
               /\ acts' = [acts EXCEPT ![a].proved = TRUE,
                                       ![a].state = IF @ = "DISPATCHED" THEN "VERIFIED" ELSE @]
      <4> DEFINE s == IF acts[a].state = "DISPATCHED" THEN "VERIFIED" ELSE acts[a].state
                 r == [acts[a] EXCEPT !.proved = TRUE, !.state = s]
      <4>1. acts' = [acts EXCEPT ![a] = r] BY <1>0, <3>1, <3>2 DEF Action
      <4>2. s \in {"VERIFIED", "UNKNOWN"} BY <3>2
      <4> HIDE DEF s
      <4>3. /\ r \in Action /\ r.env = acts[a].env /\ r.acted = acts[a].acted /\ Follows(acts[a], r)
            /\ r.state \notin Unsent
        BY <3>1, <3>2, <4>2 DEF Action, States, Follows, Closed, NoEffect, Unsent
      <4> QED BY <4>1, <4>3
    <3>3. CASE acts[a].state = "DISPATCHED" /\ Write(a, "FAILED_POSTCONDITION")
      <4> DEFINE r == [acts[a] EXCEPT !.state = "FAILED_POSTCONDITION"]
      <4>1. acts' = [acts EXCEPT ![a] = r] BY <3>3 DEF Write
      <4>2. /\ r \in Action /\ r.env = acts[a].env /\ r.acted = acts[a].acted /\ Follows(acts[a], r)
            /\ r.state \notin Unsent
        BY <3>1, <3>3 DEF Action, States, Follows, Closed, NoEffect, Unsent
      <4> QED BY <4>1, <4>2
    <3> QED BY <1>5, <3>2, <3>3 DEF Verify
  <2>3. \A u \in Tasks : step'[u] \notin Calling \cup Quieting
    BY <1>0, <2>1, OthersAreOut DEF Calling, Quieting
  <2>4. \A u \in Tasks : CurOf(u)' BY <2>3 DEF CurOf, Calling, Quieting
  <2> QED BY <1>0, <2>1, <2>2, <2>4, OneWrite
<1> QED BY <1>1, <1>2, <1>3, <1>4, <1>5 DEF Check

\* An owner's decision, also one given while no task holds the server.
LEMMA LedgerReconcile ==
  ASSUME ServerInv, LedgerInv, NEW t \in Tasks, NEW a \in 1..Len(acts), NEW d \in Decisions, Reconcile(t, a, d)
  PROVE  LedgerInv'
<1>0. /\ step \in [Tasks -> Spots] /\ wire \in [Envs -> 0..Len(acts)] /\ cur \in [Tasks -> 0..Len(acts)]
      /\ acts \in Seq(Action) /\ \A e \in Envs : wire[e] \in {0, wire[e]}
  BY DEF ServerInv, ServerTyped, LedgerInv, LedgerTyped
<1>1. /\ step[t] = "idle" \/ (step[t] = "out" /\ lease = Free)
      /\ step' = step /\ cur' = cur /\ settled' = settled /\ wire' = wire
      /\ acts[a].state \in {"DISPATCHED", "UNKNOWN"}
  BY DEF Reconcile, browser, session
<1>2. acts[a] \in Action /\ acts[a].decisions \in Seq(Decisions)
  <2>1. acts[a] \in Action BY <1>0
  <2> QED BY <2>1 DEF Action
<1> DEFINE ds == Append(acts[a].decisions, d)
           r == [acts[a] EXCEPT !.decisions = ds]
<1>3. acts' = [acts EXCEPT ![a] = r] BY DEF Reconcile
<1>4. /\ ds \in Seq(Decisions)
      /\ \A n \in DOMAIN acts[a].decisions : n \in DOMAIN ds /\ ds[n] = acts[a].decisions[n]
  BY <1>2
<1> HIDE DEF ds
<1>5. /\ r \in Action /\ r.env = acts[a].env /\ r.acted = acts[a].acted /\ r.state = acts[a].state
      /\ r.decisions = ds /\ r.lineage = acts[a].lineage /\ r.intent = acts[a].intent
      /\ r.proved = acts[a].proved
  BY <1>2, <1>4 DEF Action
<1>6. r.state \notin Unsent BY <1>1, <1>5 DEF Unsent, NoEffect
<1>7. Follows(acts[a], r) BY <1>4, <1>5, <1>6 DEF Follows
<1>8. \A u \in Tasks : step'[u] \notin Calling \cup Quieting
  BY <1>0, <1>1, OthersAreOut DEF Calling, Quieting
<1>9. \A u \in Tasks : CurOf(u)' BY <1>8 DEF CurOf, Calling, Quieting
<1> HIDE DEF r
<1> QED BY <1>0, <1>1, <1>3, <1>5, <1>6, <1>7, <1>9, OneWrite

LEMMA LedgerFinish == ASSUME ServerInv, LedgerInv, NEW t \in Tasks, Finish(t) PROVE LedgerInv'
<1>0. /\ step \in [Tasks -> Spots] /\ acts \in Seq(Action) /\ settled \in [Lineages -> SUBSET (1..Len(acts))]
  BY DEF ServerInv, ServerTyped, LedgerInv, LedgerTyped
<1>1. /\ step[t] = "idle" /\ step' = [step EXCEPT ![t] = "clean"] /\ Complete(t)
      /\ settled' = [settled EXCEPT ![LineageOf[t]] = Mine(t)]
      /\ acts' = acts /\ wire' = wire /\ cur' = cur
  BY DEF Finish, Now, browser
<1>2. Mine(t) \in SUBSET (1..Len(acts)) BY <1>0 DEF Mine
<1>3. LedgerTyped' BY <1>1, <1>2 DEF LedgerInv, LedgerTyped, Lineages
<1>4. SettledWell'
  <2> SUFFICES ASSUME NEW l \in Lineages, NEW a \in settled'[l], acts[a].intent \in Clicks
               PROVE  acts[a].state \in NoEffect \/ acts[a].proved
    BY <1>1 DEF SettledWell, Lineages
  <2>1. CASE l = LineageOf[t]
    <3>1. a \in Mine(t) BY <1>0, <1>1, <2>1
    <3> QED BY <1>1, <3>1 DEF Complete
  <2>2. CASE l # LineageOf[t]
    <3>1. a \in settled[l] BY <1>0, <1>1, <2>2
    <3> QED BY <3>1 DEF LedgerInv, SettledWell
  <2> QED BY <2>1, <2>2
<1>5. \A u \in Tasks : step'[u] \notin Calling \cup Quieting
  BY <1>0, <1>1, OthersAreOut DEF Calling, Quieting
<1>6. \A u \in Tasks : CurOf(u)' BY <1>5 DEF CurOf, Calling, Quieting
<1> QED BY <1>1, <1>3, <1>4, <1>6
     DEF LedgerInv, WireOK, Envs, NothingYet, NoEffectIsTrue, RepeatsExcused, Excused
LEMMA LedgerPrepare ==
  ASSUME ServerInv, LedgerInv, NEW t \in Tasks, NEW i \in Intents, NEW frozen \in BOOLEAN, Prepare(t, i, frozen)
  PROVE  LedgerInv'
<1> DEFINE n == Len(acts)
           r == [lineage |-> LineageOf[t], intent |-> i, state |-> "PREPARED",
                 env |-> NoEnv, frozen |-> frozen, receipt |-> FALSE, proved |-> FALSE,
                 decisions |-> <<>>, acted |-> FALSE]
<1>0. /\ step \in [Tasks -> Spots] /\ wire \in [Envs -> 0..n] /\ cur \in [Tasks -> 0..n]
      /\ acts \in Seq(Action) /\ n \in Nat /\ settled \in [Lineages -> SUBSET (1..n)]
  BY DEF ServerInv, ServerTyped, LedgerInv, LedgerTyped
<1>1. /\ step[t] = "idle" /\ step' = [step EXCEPT ![t] = "prepared"] /\ cur' = [cur EXCEPT ![t] = n + 1]
      /\ settled' = settled /\ wire' = wire /\ acts' = Append(acts, r)
      /\ \A a \in Mine(t) : acts[a].intent = i => MayRepeat(acts[a])
  BY DEF Prepare, Boundary, Now, browser
<1>2. r \in Action BY DEF Action, States, Lineages
<1>3. /\ r.state = "PREPARED" /\ ~r.acted /\ r.lineage = LineageOf[t] /\ r.intent = i OBVIOUS
<1> HIDE DEF r
<1>4. /\ acts' \in Seq(Action) /\ Len(acts') = n + 1 /\ acts'[n + 1] = r
      /\ DOMAIN acts = 1..n /\ DOMAIN acts' = 1..(n + 1)
      /\ \A a \in 1..n : acts'[a] = acts[a] /\ a # n + 1
  BY <1>0, <1>1, <1>2
<1> HIDE DEF n
<1>5. LedgerTyped'
  <2>1. wire' \in [Envs -> 0..(n + 1)] /\ cur' \in [Tasks -> 0..(n + 1)]
    BY <1>0, <1>1
  <2>2. settled' \in [Lineages -> SUBSET (1..(n + 1))] BY <1>0, <1>1
  <2> QED BY <1>4, <2>1, <2>2 DEF LedgerTyped, Lineages
<1>6. WireOK'
  <2> SUFFICES ASSUME NEW e \in Envs, wire[e] # 0
               PROVE  ~acts'[wire[e]].acted /\ acts'[wire[e]].env = e /\ acts'[wire[e]].state \notin Unsent
    BY <1>1 DEF WireOK, Envs
  <2>1. wire[e] \in 1..n BY <1>0
  <2> QED BY <1>4, <2>1 DEF LedgerInv, WireOK
<1>7. NothingYet' /\ NoEffectIsTrue'
  <2>1. \A a \in 1..(n + 1) : a \in 1..n \/ a = n + 1 BY <1>0
  <2> QED BY <1>3, <1>4, <2>1 DEF LedgerInv, NothingYet, NoEffectIsTrue
<1>8. RepeatsExcused'
  <2> SUFFICES ASSUME NEW a \in 1..(n + 1), NEW b \in 1..(n + 1), a < b,
                      acts'[a].lineage = acts'[b].lineage, acts'[a].intent = acts'[b].intent
               PROVE  Excused(a)'
    BY <1>4 DEF RepeatsExcused
  <2>1. a \in 1..n BY <1>0
  <2>2. Excused(a)
    <3>1. CASE b \in 1..n BY <1>4, <2>1, <3>1 DEF LedgerInv, RepeatsExcused
    <3>2. CASE b = n + 1
      <4>1. a \in Mine(t) /\ acts[a].intent = i BY <1>3, <1>4, <2>1, <3>2 DEF Mine
      <4>2. MayRepeat(acts[a]) BY <1>1, <4>1
      <4>3. CASE acts[a].state \in Closed BY <4>3 DEF Excused
      <4>4. CASE acts[a].state \notin Closed
        <5>1. acts[a].decisions # <<>> /\ acts[a].decisions[Len(acts[a].decisions)] = "retry"
          BY <4>2, <4>4 DEF MayRepeat, Reconciled, Closed, NoEffect
        <5>2. acts[a].decisions \in Seq(Decisions)
          <6>1. acts[a] \in Action BY <1>0, <1>4, <2>1
          <6> QED BY <6>1 DEF Action
        <5>3. Len(acts[a].decisions) \in DOMAIN acts[a].decisions BY <5>1, <5>2
        <5> QED BY <5>1, <5>3 DEF Excused
      <4> QED BY <4>3, <4>4
    <3> QED BY <1>0, <3>1, <3>2
  <2> QED BY <1>4, <2>1, <2>2 DEF Excused
<1>9. SettledWell'
  <2> SUFFICES ASSUME NEW l \in Lineages, NEW a \in settled[l], acts'[a].intent \in Clicks
               PROVE  acts'[a].state \in NoEffect \/ acts'[a].proved
    BY <1>1 DEF SettledWell, Lineages
  <2>1. a \in 1..n BY <1>0
  <2> QED BY <1>4, <2>1 DEF LedgerInv, SettledWell
<1>10. \A u \in Tasks : CurOf(u)'
  <2>1. \A u \in Tasks : u # t => step'[u] = "out" BY <1>0, <1>1, OthersAreOut
  <2>2. step'[t] = "prepared" /\ cur'[t] = n + 1 /\ n + 1 # 0 BY <1>0, <1>1
  <2>3. CurOf(t)' BY <1>3, <1>4, <2>2 DEF CurOf, Calling, Quieting
  <2> QED BY <2>1, <2>3 DEF CurOf, Calling, Quieting
<1> QED BY <1>5, <1>6, <1>7, <1>8, <1>9, <1>10 DEF LedgerInv

LEMMA LedgerActs == ASSUME LedgerInv, NEW e \in Envs, BrowserActs(e) PROVE LedgerInv'
<1> DEFINE k == wire[e]
           r == [acts[k] EXCEPT !.acted = TRUE]
<1>0. /\ wire \in [Envs -> 0..Len(acts)] /\ acts \in Seq(Action) /\ Len(acts) \in Nat
  BY DEF LedgerInv, LedgerTyped
<1>1. /\ k # 0 /\ acts' = [acts EXCEPT ![k] = r] /\ wire' = [wire EXCEPT ![e] = 0]
      /\ settled' = settled /\ step' = step /\ cur' = cur /\ conn' = conn
  BY DEF BrowserActs, session
<1>2. k \in 1..Len(acts) /\ acts[k] \in Action
  <2>1. k \in 1..Len(acts) BY <1>0, <1>1
  <2> QED BY <1>0, <2>1
<1>3. acts[k].env = e /\ acts[k].state \notin Unsent BY <1>1 DEF LedgerInv, WireOK
<1>4. /\ r \in Action /\ r.state = acts[k].state /\ r.env = acts[k].env
      /\ Follows(acts[k], r)
  BY <1>2, <1>3 DEF Action, Follows
<1> HIDE DEF r, k
<1>5. /\ acts' \in Seq(Action) /\ Len(acts') = Len(acts) /\ acts'[k] = r
      /\ \A a \in 1..Len(acts) : a # k => acts'[a] = acts[a]
  BY <1>0, <1>1, <1>2, <1>4, OneRecord
<1>6. \A a \in 1..Len(acts) : Follows(acts[a], acts'[a]) BY <1>4, <1>5, FollowsItself
<1>7. NothingYet' /\ NoEffectIsTrue' /\ RepeatsExcused' /\ SettledWell'
  BY <1>1, <1>5, <1>6, RecordsFollow DEF LedgerInv
<1>8. LedgerTyped'
  <2>1. 0 \in 0..Len(acts) BY <1>0
  <2>2. wire' \in [Envs -> 0..Len(acts)] BY <1>0, <1>1, <2>1
  <2> QED BY <1>1, <1>5, <2>2 DEF LedgerInv, LedgerTyped, Lineages
<1>9. WireOK'
  <2> SUFFICES ASSUME NEW f \in Envs, wire'[f] # 0
               PROVE  ~acts'[wire'[f]].acted /\ acts'[wire'[f]].env = f /\ acts'[wire'[f]].state \notin Unsent
    BY DEF WireOK, Envs
  <2>1. f # e /\ wire'[f] = wire[f] /\ wire[f] \in 1..Len(acts) BY <1>0, <1>1
  <2>2. ~acts[wire[f]].acted /\ acts[wire[f]].env = f /\ acts[wire[f]].state \notin Unsent
    BY <2>1 DEF LedgerInv, WireOK
  <2>3. wire[f] # k BY <1>3, <2>1, <2>2
  <2> QED BY <1>5, <2>1, <2>2, <2>3
<1>10. ASSUME NEW u \in Tasks PROVE CurOf(u)'
  <2>1. CurOf(u) BY DEF LedgerInv
  <2>2. CASE step[u] \notin Calling \cup Quieting BY <1>1, <2>2 DEF CurOf, Calling, Quieting
  <2>3. CASE step[u] \in Calling \cup Quieting
    <3>1. cur[u] \in 1..Len(acts) BY <2>3, InHand
    <3>2. acts'[cur[u]].state = acts[cur[u]].state /\ acts'[cur[u]].env = acts[cur[u]].env
      BY <1>4, <1>5, <3>1
    <3>3. step[u] = "send" => ~acts'[cur[u]].acted /\ \A f \in Envs : wire'[f] # cur[u]
      <4> SUFFICES ASSUME step[u] = "send" PROVE ~acts'[cur[u]].acted /\ \A f \in Envs : wire'[f] # cur[u]
        OBVIOUS
      <4>1. ~acts[cur[u]].acted /\ \A f \in Envs : wire[f] # cur[u] BY <2>1 DEF CurOf
      <4>2. cur[u] # k BY <4>1 DEF k
      <4>3. \A f \in Envs : wire'[f] \in {0, wire[f]} BY <1>0, <1>1
      <4> QED BY <1>5, <3>1, <4>1, <4>2, <4>3
    <3> QED BY <1>1, <2>1, <3>2, <3>3 DEF CurOf, Envs
  <2> QED BY <2>2, <2>3
<1> QED BY <1>7, <1>8, <1>9, <1>10 DEF LedgerInv

LEMMA LedgerBrowser ==
  ASSUME LedgerInv, NEW e \in Envs, SupReady(e) \/ SupStops(e) \/ SupDies(e) \/ BrowserExits(e) \/ BrowserActs(e)
  PROVE  LedgerInv'
<1>0. /\ wire \in [Envs -> 0..Len(acts)] /\ cur \in [Tasks -> 0..Len(acts)] /\ Len(acts) \in Nat
  BY DEF LedgerInv, LedgerTyped
<1>1. CASE SupReady(e) \/ SupStops(e) \/ SupDies(e) \/ BrowserExits(e)
  <2>1. /\ acts' = acts /\ settled' = settled /\ step' = step /\ cur' = cur /\ conn' = conn
        /\ wire' = wire \/ wire' = [wire EXCEPT ![e] = 0]
    BY <1>1 DEF SupReady, SupStops, SupDies, BrowserExits, records, session
  <2>2. wire' \in [Envs -> 0..Len(acts)] /\ \A f \in Envs : wire'[f] \in {0, wire[f]}
    <3>1. 0 \in 0..Len(acts) BY <1>0
    <3> QED BY <1>0, <2>1, <3>1
  <2>3. ASSUME NEW u \in Tasks PROVE CurOf(u)'
    <3>1. CurOf(u) BY DEF LedgerInv
    <3>2. \A f \in Envs : wire'[f] = 0 \/ wire'[f] = wire[f] BY <2>2
    <3> QED BY <2>1, <3>1, <3>2 DEF CurOf, Calling, Quieting, Envs
  <2> QED BY <1>0, <2>1, <2>2, <2>3, NoWrite
<1>2. CASE BrowserActs(e) BY <1>2, LedgerActs
<1> QED BY <1>1, <1>2

LEMMA LedgerStep == ServerInv /\ LedgerInv /\ [CsNext]_csvars => LedgerInv'
<1> SUFFICES ASSUME ServerInv, LedgerInv, [CsNext]_csvars PROVE LedgerInv' OBVIOUS
<1>1. CASE UNCHANGED csvars
  BY <1>1 DEF LedgerInv, LedgerTyped, WireOK, NothingYet, NoEffectIsTrue, RepeatsExcused, Excused, SettledWell,
     CurOf, csvars, records, browser, session, Lineages, Envs
<1>2. ASSUME NEW t \in Tasks,
             Enter(t) \/ Recover(t) \/ Connect(t) \/ Call(t) \/ Check(t) \/ CloseSession(t) \/ KillOwner(t)
      PROVE  LedgerInv'
  BY <1>2, LedgerIdling, LedgerSweep, LedgerCall, LedgerCheck DEF Idling, Recover
<1>3. ASSUME NEW t \in Tasks,
             \/ \E i \in Intents, frozen \in BOOLEAN : Prepare(t, i, frozen)
             \/ Finish(t)
             \/ \E a \in 1..Len(acts), d \in Decisions : Reconcile(t, a, d)
      PROVE  LedgerInv'
  BY <1>3, LedgerPrepare, LedgerFinish, LedgerReconcile
<1>4. ASSUME NEW e \in Envs,
             SupReady(e) \/ SupStops(e) \/ SupDies(e) \/ BrowserExits(e) \/ BrowserActs(e)
      PROVE  LedgerInv'
  BY <1>4, LedgerBrowser
<1>5. CASE CsNext BY <1>2, <1>3, <1>4, <1>5 DEF CsNext
<1> QED BY <1>1, <1>5

LEMMA SessionInvariant == CsSpec => [](ServerInv /\ LedgerInv)
<1>1. CsInit => ServerInv /\ LedgerInv BY ServerStarts, LedgerStarts
<1>2. ServerInv /\ LedgerInv /\ [CsNext]_csvars => (ServerInv /\ LedgerInv)' BY ServerStep, LedgerStep
<1> QED BY <1>1, <1>2, PTL DEF CsSpec

\* What a ledger calls refused or without effect never happens.
THEOREM NoEffectIsTrueHolds == CsSpec => []NoEffectIsTrue
<1>1. LedgerInv => NoEffectIsTrue BY DEF LedgerInv
<1> QED BY <1>1, SessionInvariant, PTL

\* A click is not repeated blindly.
THEOREM NoBlindRepeatHolds == CsSpec => []NoBlindRepeat
<1>1. LedgerInv => NoBlindRepeat
  BY DEF LedgerInv, RepeatsExcused, Excused, Closed, NoEffectIsTrue, NoBlindRepeat
<1> QED BY <1>1, SessionInvariant, PTL

\* What a completed lineage did is verified.
THEOREM CompletionIsHonestHolds == CsSpec => []CompletionIsHonest
<1>1. ASSUME LedgerInv, NEW l \in Lineages, NEW a \in settled[l], acts[a].intent \in Clicks, acts[a].acted
      PROVE  acts[a].proved
  <2>1. a \in DOMAIN acts BY <1>1 DEF LedgerInv, LedgerTyped
  <2> QED BY <1>1, <2>1 DEF LedgerInv, SettledWell, NoEffectIsTrue
<1>2. LedgerInv => CompletionIsHonest BY <1>1 DEF CompletionIsHonest
<1> QED BY <1>2, SessionInvariant, PTL

\* Index and ledger files, and how many actions there are.
Shelved ==
    /\ index \in [Lineages -> {"none", "PREPARED", "COMMITTED", "ABORTED"}]
    /\ ledger \in [Lineages -> BOOLEAN]
    /\ Len(acts) <= MaxActs

\* Two sequences with one domain have one length.
LEMMA SameLength ==
  ASSUME LedgerInv, LedgerInv', DOMAIN acts' = DOMAIN acts PROVE Len(acts') = Len(acts)
<1>1. DOMAIN acts = 1..Len(acts) /\ Len(acts) \in Nat BY DEF LedgerInv, LedgerTyped
<1>2. DOMAIN acts' = 1..Len(acts') /\ Len(acts') \in Nat BY DEF LedgerInv, LedgerTyped
<1> QED BY <1>1, <1>2

\* Only _prepare adds an action.
LEMMA Adds ==
  ASSUME LedgerInv, LedgerInv', NEW t \in Tasks,
         \/ Enter(t) \/ Recover(t) \/ Connect(t) \/ Call(t) \/ Check(t) \/ Finish(t) \/ CloseSession(t)
         \/ KillOwner(t) \/ \E a \in 1..Len(acts), d \in Decisions : Reconcile(t, a, d)
  PROVE  Len(acts') = Len(acts)
<1>1. CASE Enter(t) \/ Connect(t) \/ Finish(t) \/ CloseSession(t) \/ KillOwner(t)
  BY <1>1 DEF Enter, Connect, Finish, CloseSession, KillOwner, Construct, IndexStands, IndexPrepare,
     IndexLedger, IndexCommit, IndexAbort, EnvRecord, EnvOwner, Spawn, Handshake, HandshakeFails, records
<1>2. CASE Recover(t)
  <2>1. DOMAIN acts' = DOMAIN acts
    BY <1>2 DEF Recover, AskStop, Clean, CleanFails, TermOwner, Disown, TermOwn, records
  <2> QED BY <2>1, SameLength
<1>3. CASE Call(t)
  <2>1. DOMAIN acts' = DOMAIN acts
    BY <1>3 DEF Call, NotSent, Failure, Write, Dispatch, Send, OpenVerified, Acknowledge, ClickReturns,
       ClickRefused, NoAnswer, records
  <2> QED BY <2>1, SameLength
<1>4. CASE Check(t)
  <2>1. DOMAIN acts' = DOMAIN acts
    BY <1>4 DEF Check, QuietOwner, QuietReceipt, QuietFails, Quiesce, Verify, Write, records
  <2> QED BY <2>1, SameLength
<1>5. CASE \E a \in 1..Len(acts), d \in Decisions : Reconcile(t, a, d)
  <2>1. DOMAIN acts' = DOMAIN acts BY <1>5 DEF Reconcile
  <2> QED BY <2>1, SameLength
<1> QED BY <1>1, <1>2, <1>3, <1>4, <1>5

LEMMA ShelvedStep ==
  ASSUME LedgerInv, LedgerInv', Shelved, [CsNext]_csvars PROVE Shelved'
<1> USE DEF Shelved, Lineages
<1>1. CASE UNCHANGED csvars BY <1>1 DEF csvars, records
<1>2. ASSUME NEW t \in Tasks, Enter(t) PROVE Shelved'
  <2>1. Len(acts') = Len(acts) BY <1>2, Adds
  <2>2. /\ index' = index \/ \E s \in {"PREPARED", "COMMITTED", "ABORTED"} :
             index' = [index EXCEPT ![LineageOf[t]] = s]
        /\ ledger' = ledger \/ ledger' = [ledger EXCEPT ![LineageOf[t]] = TRUE]
    BY <1>2 DEF Enter, Construct, IndexStands, IndexPrepare, IndexLedger, IndexCommit, IndexAbort, records
  <2> QED BY <2>1, <2>2
<1>3. ASSUME NEW t \in Tasks,
             \/ Recover(t) \/ Connect(t) \/ Call(t) \/ Check(t) \/ Finish(t) \/ CloseSession(t)
             \/ KillOwner(t) \/ \E a \in 1..Len(acts), d \in Decisions : Reconcile(t, a, d)
      PROVE  Shelved'
  <2>1. Len(acts') = Len(acts) BY <1>3, Adds
  <2>2. index' = index /\ ledger' = ledger
    BY <1>3 DEF Recover, Connect, Call, Check, Finish, CloseSession, KillOwner, Reconcile,
       EnvRecord, EnvOwner, Spawn, Handshake, HandshakeFails,
       AskStop, Clean, CleanFails, TermOwner, Disown, TermOwn,
       NotSent, Failure, Dispatch, Send, OpenVerified, Acknowledge, ClickReturns, ClickRefused, NoAnswer,
       QuietOwner, QuietReceipt, QuietFails, Quiesce, Verify, records
  <2> QED BY <2>1, <2>2
<1>4. ASSUME NEW t \in Tasks, NEW i \in Intents, NEW frozen \in BOOLEAN, Prepare(t, i, frozen)
      PROVE  Shelved'
  <2>1. index' = index /\ ledger' = ledger BY <1>4 DEF Prepare
  <2>2. Len(acts') = Len(acts) + 1 /\ Len(acts) < MaxActs /\ Len(acts) \in Nat
    BY <1>4 DEF Prepare, LedgerInv, LedgerTyped
  <2> QED BY <2>1, <2>2, SessionAssumption
<1>5. ASSUME NEW e \in Envs,
             SupReady(e) \/ SupStops(e) \/ SupDies(e) \/ BrowserExits(e) \/ BrowserActs(e)
      PROVE  Shelved'
  <2>1. index' = index /\ ledger' = ledger /\ DOMAIN acts' = DOMAIN acts
    BY <1>5 DEF SupReady, SupStops, SupDies, BrowserExits, BrowserActs, records
  <2> QED BY <2>1, SameLength
<1> QED BY <1>1, <1>2, <1>3, <1>4, <1>5 DEF CsNext

\* The leases, the ledgers, the owner record, the browsers and the sessions keep their types:
\* no more actions than the run allows, and every request and every session names one of them
\* (computeruse.py, computerprocess.py).
THEOREM CsTypeCorrect == CsSpec => []CsTypeOK
<1>1. CsInit => Shelved BY SessionAssumption DEF CsInit, Shelved
<1>2. LedgerInv /\ LedgerInv' /\ Shelved /\ [CsNext]_csvars => Shelved' BY ShelvedStep
<1>3. ASSUME ServerInv, LedgerInv, Shelved PROVE CsTypeOK
  <2>1. Len(acts) \in Nat /\ 0..Len(acts) \subseteq 0..MaxActs
    BY <1>3, SessionAssumption DEF LedgerInv, LedgerTyped, Shelved
  <2>2. wire \in [Envs -> 0..MaxActs] /\ cur \in [Tasks -> 0..MaxActs]
    BY <1>3, <2>1 DEF LedgerInv, LedgerTyped
  <2> QED BY <1>3, <2>2 DEF CsTypeOK, ServerInv, ServerTyped, LedgerInv, LedgerTyped, Shelved
<1> QED BY <1>1, <1>2, <1>3, SessionInvariant, PTL DEF CsSpec
=============================================================================
