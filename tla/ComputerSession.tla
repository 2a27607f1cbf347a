-------------------------- MODULE ComputerSession --------------------------
(***************************************************************************)
(* A task's browser session (computersession.py, computerprocess.py): one  *)
(* owner-configured server, the tasks that claim it one after the other,   *)
(* the supervisor process that owns the browser, and the durable records   *)
(* from which the next claimant has to tell what happened: the server's    *)
(* owner record, the environment records, the lineages' action ledgers and *)
(* their index.  The process of a task can be killed between any two       *)
(* writes; so can a supervisor.  The cleanup is that of POSIX.             *)
(* The server lease is the kernel lock of AdvisoryLock; with one server it *)
(* covers the index lease of the lineage.                                  *)
(***************************************************************************)
EXTENDS Naturals, Sequences, FiniteSets

CONSTANTS Tasks, LineageOf,  \* a retry shares the lineage of its predecessor
          Intents, Clicks,   \* what a task may ask of the browser; the others open a page
          MaxEnvs,           \* bound: browsers started
          MaxActs,           \* bound: actions prepared
          MaxKills,          \* bound: kills of a task's process
          MaxSupKills,       \* bound: kills of a supervisor, browser crashes
          MaxReconciled      \* bound: owner decisions on one action

Free == "free"   \* the lease, when no task holds it

ASSUME SessionAssumption ==
    /\ Clicks \subseteq Intents
    /\ Free \notin Tasks
    /\ {MaxEnvs, MaxActs, MaxKills, MaxSupKills, MaxReconciled} \subseteq Nat

Lineages == {LineageOf[t] : t \in Tasks}
Envs == 1..MaxEnvs
NoEnv == 0

VARIABLES
    lease,    \* the task whose session holds the server lease, or Free
    index,    \* index[l]: the lineage's index, "none", PREPARED, COMMITTED, ABORTED
    ledger,   \* ledger[l]: whether the lineage's action ledger file exists
    acts,     \* the actions of all ledgers, in the order they were prepared
    owner,    \* the server's owner record: the environment and lineage it names
    env,      \* env[e]: "none", "created", "ready", "closed", the record of a browser
    sup,      \* sup[e]: its supervisor, "none", "starting", "running", "gone"
    alive,    \* alive[e]: whether the browser runs
    stop,     \* stop[e]: the stop file, or the end of the supervisor's input
    wire,     \* wire[e]: the action whose request the browser has yet to act on
    step, st,   \* step[t], st[t]: where a task's call is, and ComputerSession.state
    leaving,  \* leaving[t]: _recover runs for close rather than __init__
    conn,     \* conn[t]: the environment the session is connected to
    cur,      \* cur[t]: the action in hand
    settled,  \* settled[l]: the actions at the last completion of a task of l
    kills, supKills

records == <<index, ledger, acts, owner, settled>>
browser == <<env, sup, alive, stop, wire>>
session == <<step, st, leaving, conn, cur>>
budget == <<kills, supKills>>
csvars == <<lease, records, browser, session, budget>>

States == {"PREPARED", "DISPATCHED", "VERIFIED", "REFUSED",
           "FAILED_WITH_KNOWN_NO_EFFECT", "FAILED_POSTCONDITION", "UNKNOWN"}
\* confirmed_effect; and confirmed_no_effect and authorize_retry, which read the same.
Decisions == {"effect", "retry"}
TERMINAL == States \ {"PREPARED", "DISPATCHED"}
NoEffect == {"REFUSED", "FAILED_WITH_KNOWN_NO_EFFECT"}
Action == [lineage : Lineages, intent : Intents, state : States, env : Envs \cup {NoEnv},
           frozen : BOOLEAN, receipt : BOOLEAN,
           proved : BOOLEAN, decisions : Seq(Decisions), acted : BOOLEAN]

Mine(t) == {a \in DOMAIN acts : acts[a].lineage = LineageOf[t]}
Now(t, at) == step' = [step EXCEPT ![t] = at]
Write(a, s) == acts' = [acts EXCEPT ![a].state = s]

CsInit ==
    /\ lease = Free
    /\ index = [l \in Lineages |-> "none"] /\ ledger = [l \in Lineages |-> FALSE]
    /\ acts = <<>>
    /\ owner = [env |-> NoEnv, lineage |-> Free]
    /\ env = [e \in Envs |-> "none"] /\ sup = [e \in Envs |-> "none"]
    /\ alive = [e \in Envs |-> FALSE] /\ stop = [e \in Envs |-> FALSE]
    /\ wire = [e \in Envs |-> 0]
    /\ step = [t \in Tasks |-> "out"] /\ st = [t \in Tasks |-> "none"]
    /\ leaving = [t \in Tasks |-> FALSE]
    /\ conn = [t \in Tasks |-> NoEnv] /\ cur = [t \in Tasks |-> 0]
    /\ settled = [l \in Lineages |-> {}]
    /\ kills = 0 /\ supKills = 0

----------------------------------------------------------------------------
(* Construction: the leases, the index, the recovery of what a predecessor left. *)

\* __init__ up to the index.
Construct(t) ==
    /\ step[t] = "out" /\ st[t] = "none" /\ lease = Free
    /\ lease' = t /\ st' = [st EXCEPT ![t] = "created"] /\ Now(t, "index")
    /\ UNCHANGED <<records, browser, leaving, conn, cur, budget>>

\* The except branch of __init__: no instance escapes and the leases are given up.
Refuse(t) ==
    /\ lease' = Free /\ st' = [st EXCEPT ![t] = "none"] /\ Now(t, "out")
    /\ UNCHANGED <<leaving, conn, cur>>

\* _register_ledger: a registration interrupted before its ledger was written is aborted
\* for good, one whose ledger exists is completed.
IndexStands(t) ==
    /\ step[t] = "index" /\ index[LineageOf[t]] = "COMMITTED"
    /\ Now(t, "clean")
    /\ UNCHANGED <<lease, records, browser, st, leaving, conn, cur, budget>>

IndexPrepare(t) ==
    /\ step[t] = "index" /\ index[LineageOf[t]] = "none"
    /\ index' = [index EXCEPT ![LineageOf[t]] = "PREPARED"]
    /\ Now(t, "ledger")
    /\ UNCHANGED <<lease, ledger, acts, owner, settled, browser, st, leaving, conn, cur, budget>>

IndexLedger(t) ==
    /\ step[t] = "ledger"
    /\ ledger' = [ledger EXCEPT ![LineageOf[t]] = TRUE]
    /\ Now(t, "commit")
    /\ UNCHANGED <<lease, index, acts, owner, settled, browser, st, leaving, conn, cur, budget>>

IndexCommit(t) ==
    /\ \/ step[t] = "commit"
       \/ step[t] = "index" /\ index[LineageOf[t]] = "PREPARED" /\ ledger[LineageOf[t]]
    /\ index' = [index EXCEPT ![LineageOf[t]] = "COMMITTED"]
    /\ Now(t, "clean")
    /\ UNCHANGED <<lease, ledger, acts, owner, settled, browser, st, leaving, conn, cur, budget>>

IndexAbort(t) ==
    /\ step[t] = "index" /\ ~ledger[LineageOf[t]]
    /\ index[LineageOf[t]] \in {"PREPARED", "ABORTED"}
    /\ index' = [index EXCEPT ![LineageOf[t]] = "ABORTED"]
    /\ Refuse(t)
    /\ UNCHANGED <<ledger, acts, owner, settled, browser, budget>>

\* Mutant: an environment that never reported itself ready needs no cleanup.
CleanedUnstarted(e) == env[e] \in {"closed", "created"}

\* computerprocess.cleanup: what the record of environment e must say before its owner
\* record is given up.  A browser whose start nobody saw cannot be ruled out.
Cleaned(e) == env[e] = "closed"

\* cleanup asks the supervisor to stop and waits for the record to say closed.
AskStop(t) ==
    /\ step[t] = "clean" /\ owner.env # NoEnv /\ env[owner.env] = "ready" /\ ~stop[owner.env]
    /\ stop' = [stop EXCEPT ![owner.env] = TRUE]
    /\ UNCHANGED <<lease, records, env, sup, alive, wire, session, budget>>

Clean(t) ==
    /\ step[t] = "clean"
    /\ owner.env # NoEnv => Cleaned(owner.env)
    /\ Now(t, IF owner.env = NoEnv THEN "own" ELSE "term")
    /\ UNCHANGED <<lease, records, browser, st, leaving, conn, cur, budget>>

\* It is refused, or not confirmed within five seconds: a constructor gives up and a
\* later one tries again; a close leaves its session tainted and holding the lease.
CleanFails(t) ==
    /\ step[t] = "clean" /\ owner.env # NoEnv /\ ~Cleaned(owner.env)
    /\ env[owner.env] = "created" \/ stop[owner.env]
    /\ \/ ~leaving[t] /\ Refuse(t)
       \/ /\ leaving[t]
          /\ st' = [st EXCEPT ![t] = "tainted"] /\ Now(t, "idle")
          /\ UNCHANGED <<lease, leaving, conn, cur>>
    /\ UNCHANGED <<records, browser, budget>>

\* _terminalize over the ledger of lineage l.
Ended(a, l, e) ==
    IF a.lineage # l THEN a
    ELSE CASE a.state = "PREPARED" -> [a EXCEPT !.state = "FAILED_WITH_KNOWN_NO_EFFECT"]
           [] a.state = "DISPATCHED" ->
                [a EXCEPT !.state = "UNKNOWN", !.receipt = @ \/ (e # NoEnv /\ a.env = e)]
           [] OTHER -> a
TermOwner(t) ==
    /\ step[t] = "term"
    /\ acts' = [a \in DOMAIN acts |-> Ended(acts[a], owner.lineage, owner.env)]
    /\ Now(t, "disown")
    /\ UNCHANGED <<lease, index, ledger, owner, settled, browser, st, leaving, conn, cur, budget>>

Disown(t) ==
    /\ step[t] = "disown"
    /\ owner' = [owner EXCEPT !.env = NoEnv]
    /\ Now(t, "own")
    /\ UNCHANGED <<lease, index, ledger, acts, settled, browser, st, leaving, conn, cur, budget>>

\* The last line of _recover; then the constructor returns, or close frees the leases.
TermOwn(t) ==
    /\ step[t] = "own"
    /\ acts' = [a \in DOMAIN acts |-> Ended(acts[a], LineageOf[t], NoEnv)]
    /\ IF leaving[t]
       THEN /\ lease' = Free /\ st' = [st EXCEPT ![t] = "none"] /\ Now(t, "out")
            /\ leaving' = [leaving EXCEPT ![t] = FALSE]
            /\ conn' = [conn EXCEPT ![t] = NoEnv] /\ cur' = [cur EXCEPT ![t] = 0]
       ELSE Now(t, "idle") /\ UNCHANGED <<lease, st, leaving, conn, cur>>
    /\ UNCHANGED <<index, ledger, owner, settled, browser, budget>>

----------------------------------------------------------------------------
(* The browser: a supervisor per environment, which outlives nobody. *)

Stopping(e) == stop[e] \/ ~alive[e]

\* supervise: the record says ready before the browser is spawned.
SupReady(e) ==
    /\ sup[e] = "starting"
    /\ sup' = [sup EXCEPT ![e] = "running"] /\ env' = [env EXCEPT ![e] = "ready"]
    /\ alive' = [alive EXCEPT ![e] = TRUE]
    /\ UNCHANGED <<lease, records, stop, wire, session, budget>>

\* The stop file, the end of its input (the task's process is gone) or the browser's own
\* exit: the group is killed and the record closed, in this order.
SupStops(e) ==
    /\ sup[e] = "running" /\ Stopping(e)
    /\ alive' = [alive EXCEPT ![e] = FALSE] /\ wire' = [wire EXCEPT ![e] = 0]
    /\ sup' = [sup EXCEPT ![e] = "gone"] /\ env' = [env EXCEPT ![e] = "closed"]
    /\ UNCHANGED <<lease, records, stop, session, budget>>

\* Killed, it leaves its record as it was, and the browser running.
SupDies(e) ==
    /\ sup[e] \in {"starting", "running"} /\ supKills < MaxSupKills
    /\ sup' = [sup EXCEPT ![e] = "gone"] /\ supKills' = supKills + 1
    /\ UNCHANGED <<lease, records, env, alive, stop, wire, session, kills>>

BrowserExits(e) ==
    /\ alive[e] /\ supKills < MaxSupKills
    /\ alive' = [alive EXCEPT ![e] = FALSE] /\ wire' = [wire EXCEPT ![e] = 0]
    /\ supKills' = supKills + 1
    /\ UNCHANGED <<lease, records, env, sup, stop, session, kills>>

\* The request takes effect, whether or not anybody still waits for the answer.
BrowserActs(e) ==
    /\ alive[e] /\ wire[e] # 0
    /\ acts' = [acts EXCEPT ![wire[e]].acted = TRUE]
    /\ wire' = [wire EXCEPT ![e] = 0]
    /\ UNCHANGED <<lease, index, ledger, owner, settled, env, sup, alive, stop, session, budget>>

----------------------------------------------------------------------------
(* One call of an open session: computer_open, computer_observe, computer_click. *)

Reconciled(a) == a.decisions # <<>>

\* _boundary(mutation=True): an open session, a live supervisor, no unresolved UNKNOWN.
Boundary(t) ==
    /\ step[t] = "idle" /\ st[t] \in {"created", "active", "quiescent"}
    /\ conn[t] # NoEnv => sup[conn[t]] = "running"
    /\ \A a \in Mine(t) : acts[a].state = "UNKNOWN" => Reconciled(acts[a])

\* _connect: the ledger names the environment, then its record is written ...
EnvRecord(t) ==
    /\ Boundary(t) /\ conn[t] = NoEnv
    /\ \E e \in Envs :
         /\ env[e] = "none" /\ \A f \in 1..(e - 1) : env[f] # "none"
         /\ env' = [env EXCEPT ![e] = "created"] /\ conn' = [conn EXCEPT ![t] = e]
    /\ Now(t, "name")
    /\ UNCHANGED <<lease, records, sup, alive, stop, wire, st, leaving, cur, budget>>

\* ... then the server's owner record, ...
EnvOwner(t) ==
    /\ step[t] = "name"
    /\ owner' = [env |-> conn[t], lineage |-> LineageOf[t]]
    /\ Now(t, "spawn")
    /\ UNCHANGED <<lease, index, ledger, acts, settled, browser, st, leaving, conn, cur, budget>>

\* ... and only then the process is started.
Spawn(t) ==
    /\ step[t] = "spawn"
    /\ sup' = [sup EXCEPT ![conn[t]] = "starting"]
    /\ Now(t, "shake")
    /\ UNCHANGED <<lease, records, env, alive, stop, wire, st, leaving, conn, cur, budget>>

Handshake(t) ==
    /\ step[t] = "shake" /\ alive[conn[t]]
    /\ st' = [st EXCEPT ![t] = "active"] /\ Now(t, "idle")
    /\ UNCHANGED <<lease, records, browser, leaving, conn, cur, budget>>

\* Server.close asks the supervisor to stop; what cleanup finds does not matter to a
\* session that is tainted either way.
StopsServer(t) == stop' = [stop EXCEPT ![conn[t]] = @ \/ env[conn[t]] = "ready"]

HandshakeFails(t) ==
    /\ step[t] = "shake" /\ StopsServer(t)
    /\ st' = [st EXCEPT ![t] = "tainted"] /\ Now(t, "idle")
    /\ UNCHANGED <<lease, records, env, sup, alive, wire, leaving, conn, cur, budget>>

\* Mutant: any decision of the owner releases the intent.
MayRepeatDecided(a) ==
    \/ a.state \in {"REFUSED", "FAILED_WITH_KNOWN_NO_EFFECT", "VERIFIED"}
    \/ Reconciled(a)

\* _prepare: the same intent may not have an action of which nobody knows, or everybody
\* knows, that it took effect, unless the owner's last word allows it.
MayRepeat(a) ==
    \/ a.state \in {"REFUSED", "FAILED_WITH_KNOWN_NO_EFFECT", "VERIFIED"}
    \/ Reconciled(a) /\ a.decisions[Len(a.decisions)] = "retry"

Prepare(t, i, frozen) ==
    /\ Boundary(t) /\ st[t] = "active" /\ Len(acts) < MaxActs
    /\ frozen => i \in Clicks
    /\ \A a \in Mine(t) : acts[a].intent = i => MayRepeat(acts[a])
    /\ acts' = Append(acts, [lineage |-> LineageOf[t], intent |-> i, state |-> "PREPARED",
                             env |-> NoEnv, frozen |-> frozen,
                             receipt |-> FALSE, proved |-> FALSE, decisions |-> <<>>,
                             acted |-> FALSE])
    /\ cur' = [cur EXCEPT ![t] = Len(acts) + 1]
    /\ Now(t, "prepared")
    /\ UNCHANGED <<lease, index, ledger, owner, settled, browser, st, leaving, conn, budget>>

\* Mutant: a refusal is a refusal, also of a click that was acknowledged.
FailedAsRefused(a, refused, acknowledged) ==
    CASE refused -> "REFUSED"
      [] a.state = "PREPARED" -> "FAILED_WITH_KNOWN_NO_EFFECT"
      [] OTHER -> "UNKNOWN"

\* _failure: what an exception says about the action in hand.
FailedAs(a, refused, acknowledged) ==
    CASE refused /\ (a.state = "PREPARED" \/ (a.intent \in Clicks /\ ~acknowledged)) -> "REFUSED"
      [] a.state = "PREPARED" /\ ~refused -> "FAILED_WITH_KNOWN_NO_EFFECT"
      [] OTHER -> "UNKNOWN"

Failure(t, refused) ==
    LET s == FailedAs(acts[cur[t]], refused, step[t] = "acked")
    IN  /\ Write(cur[t], s)
        /\ IF s = "UNKNOWN"
           THEN st' = [st EXCEPT ![t] = "tainted"] /\ StopsServer(t)
           ELSE UNCHANGED <<st, stop>>
        /\ Now(t, "idle") /\ cur' = [cur EXCEPT ![t] = 0]
        /\ UNCHANGED <<lease, index, ledger, owner, settled, env, sup, alive, wire, leaving, conn, budget>>

\* Policy, approval or the effects ledger stop the call before anything is sent.
NotSent(t) == step[t] = "prepared" /\ \E refused \in BOOLEAN : Failure(t, refused)

\* before_send: DISPATCHED is durable before the request leaves.
Dispatch(t) ==
    /\ step[t] = "prepared" /\ sup[conn[t]] = "running"
    /\ acts' = [acts EXCEPT ![cur[t]].state = "DISPATCHED", ![cur[t]].env = conn[t]]
    /\ Now(t, "send")
    /\ UNCHANGED <<lease, index, ledger, owner, settled, browser, st, leaving, conn, cur, budget>>

Send(t) ==
    /\ step[t] = "send"
    /\ wire' = [wire EXCEPT ![conn[t]] = cur[t]]
    /\ Now(t, "sent")
    /\ UNCHANGED <<lease, records, env, sup, alive, stop, st, leaving, conn, cur, budget>>

\* The page is where it was sent: an open is verified by its own observation.
OpenVerified(t) ==
    /\ step[t] = "sent" /\ acts[cur[t]].intent \notin Clicks /\ acts[cur[t]].acted
    /\ Write(cur[t], "VERIFIED")
    /\ Now(t, "idle") /\ cur' = [cur EXCEPT ![t] = 0]
    /\ UNCHANGED <<lease, index, ledger, owner, settled, browser, st, leaving, conn, budget>>

\* dispatch_acknowledged is durable: the click is DISPATCHED and known to have been made.
Acknowledge(t) ==
    /\ step[t] = "sent" /\ acts[cur[t]].intent \in Clicks /\ acts[cur[t]].acted
    /\ Now(t, "acked")
    /\ UNCHANGED <<lease, records, browser, st, leaving, conn, cur, budget>>

ClickReturns(t) ==
    /\ step[t] = "acked" /\ Now(t, "idle") /\ cur' = [cur EXCEPT ![t] = 0]
    /\ UNCHANGED <<lease, records, browser, st, leaving, conn, budget>>

\* The page refuses a click before it acts: nothing was done, and the answer says so.
ClickRefused(t) ==
    /\ step[t] = "sent" /\ acts[cur[t]].intent \in Clicks /\ wire[conn[t]] = cur[t] /\ alive[conn[t]]
    /\ Write(cur[t], FailedAs(acts[cur[t]], TRUE, FALSE))
    /\ wire' = [wire EXCEPT ![conn[t]] = 0]
    /\ Now(t, "idle") /\ cur' = [cur EXCEPT ![t] = 0]
    /\ UNCHANGED <<lease, index, ledger, owner, settled, env, sup, alive, stop, st, leaving, conn, budget>>

\* A lost answer, an error, an artifact that cannot be read after the acknowledgment, a
\* page that is not where it was sent: only the last two are refusals.
NoAnswer(t) ==
    \/ step[t] \in {"send", "sent"} /\ Failure(t, FALSE)
    \/ step[t] = "acked" /\ Failure(t, TRUE)
    \/ step[t] = "sent" /\ acts[cur[t]].intent \notin Clicks /\ acts[cur[t]].acted /\ Failure(t, TRUE)

----------------------------------------------------------------------------
(* The controller's verification of a frozen click, completion, close, the owner. *)

\* _quiesce: the browser goes first, then the owner record, then the receipt.
Quiesce(t, a) ==
    /\ step[t] = "idle" /\ st[t] \in {"active", "quiescent"} /\ a \in Mine(t)
    /\ acts[a].frozen /\ acts[a].state = "DISPATCHED" /\ acts[a].env # NoEnv
    /\ conn[t] # NoEnv => sup[conn[t]] = "running"
    /\ stop' = [stop EXCEPT ![acts[a].env] = TRUE]
    /\ cur' = [cur EXCEPT ![t] = a] /\ Now(t, "quiet")
    /\ UNCHANGED <<lease, records, env, sup, alive, wire, st, leaving, conn, budget>>

QuietOwner(t) ==
    /\ step[t] = "quiet" /\ Cleaned(acts[cur[t]].env)
    /\ owner.env \in {NoEnv, acts[cur[t]].env}
    /\ owner' = [owner EXCEPT !.env = NoEnv]
    /\ conn' = [conn EXCEPT ![t] = NoEnv] /\ Now(t, "quieted")
    /\ UNCHANGED <<lease, index, ledger, acts, settled, browser, st, leaving, cur, budget>>

QuietReceipt(t) ==
    /\ step[t] = "quieted"
    /\ acts' = [acts EXCEPT ![cur[t]].receipt = TRUE]
    /\ st' = [st EXCEPT ![t] = "quiescent"] /\ Now(t, "idle") /\ cur' = [cur EXCEPT ![t] = 0]
    /\ UNCHANGED <<lease, index, ledger, owner, settled, browser, leaving, conn, budget>>

QuietFails(t) ==
    /\ step[t] = "quiet"
    /\ ~Cleaned(acts[cur[t]].env) \/ owner.env \notin {NoEnv, acts[cur[t]].env}
    /\ Write(cur[t], "UNKNOWN")
    /\ st' = [st EXCEPT ![t] = "tainted"] /\ Now(t, "idle") /\ cur' = [cur EXCEPT ![t] = 0]
    /\ UNCHANGED <<lease, index, ledger, owner, settled, browser, leaving, conn, budget>>

\* verify_invoice_action reads the output itself: the receipt of an UNKNOWN action is
\* kept beside its state, which stays.
Verify(t, a) ==
    /\ step[t] = "idle" /\ st[t] \in {"created", "active", "quiescent"} /\ a \in Mine(t)
    /\ acts[a].frozen /\ acts[a].receipt /\ ~acts[a].proved
    /\ \/ /\ acts[a].acted
          /\ acts[a].state \in {"DISPATCHED", "UNKNOWN"}
          /\ acts' = [acts EXCEPT ![a].proved = TRUE,
                                  ![a].state = IF @ = "DISPATCHED" THEN "VERIFIED" ELSE @]
       \/ /\ acts[a].state = "DISPATCHED" /\ Write(a, "FAILED_POSTCONDITION")
    /\ UNCHANGED <<lease, index, ledger, owner, settled, browser, session, budget>>

\* Mutant: an action that the owner has decided about is out of the way.
CompleteDecided(t) ==
    \A a \in Mine(t) : \/ Reconciled(acts[a])
                       \/ acts[a].intent \in Clicks =>
                            acts[a].state \in NoEffect \/ (acts[a].frozen /\ acts[a].proved)

\* completion_status: what finish_task is told, and commit_task's close after it.
Complete(t) ==
    /\ \A a \in Mine(t) :
         /\ acts[a].state \in {"PREPARED", "DISPATCHED", "UNKNOWN"} => acts[a].proved
         /\ acts[a].intent \in Clicks =>
              acts[a].state \in NoEffect \/ (acts[a].frozen /\ acts[a].proved)

Finish(t) ==
    /\ step[t] = "idle" /\ index[LineageOf[t]] = "COMMITTED" /\ Complete(t)
    /\ settled' = [settled EXCEPT ![LineageOf[t]] = Mine(t)]
    /\ leaving' = [leaving EXCEPT ![t] = TRUE] /\ Now(t, "clean")
    /\ UNCHANGED <<lease, index, ledger, acts, owner, browser, st, conn, cur, budget>>

\* close: policy revoked, browser died, task ended elsewhere, runtime exit; also of a
\* tainted session, whose lease only this gives back.
CloseSession(t) ==
    /\ step[t] = "idle"
    /\ leaving' = [leaving EXCEPT ![t] = TRUE]
    /\ st' = [st EXCEPT ![t] = "closing"] /\ Now(t, "clean")
    /\ UNCHANGED <<lease, records, browser, conn, cur, budget>>

\* reconcile: an owner's attestation, under the server's lease.
Reconcile(t, a, decision) ==
    /\ (step[t] = "idle" /\ lease = t) \/ (step[t] = "out" /\ lease = Free)
    /\ a \in Mine(t) /\ acts[a].state \in {"DISPATCHED", "UNKNOWN"}
    /\ Len(acts[a].decisions) < MaxReconciled
    /\ acts' = [acts EXCEPT ![a].decisions = Append(@, decision)]
    /\ UNCHANGED <<lease, index, ledger, owner, settled, browser, session, budget>>

\* kill -9 of the task's process: the kernel frees its lease, the supervisor reads the
\* end of its input.
KillOwner(t) ==
    /\ step[t] # "out" /\ kills < MaxKills
    /\ kills' = kills + 1
    /\ lease' = Free
    /\ st' = [st EXCEPT ![t] = "none"] /\ Now(t, "out")
    /\ leaving' = [leaving EXCEPT ![t] = FALSE]
    /\ conn' = [conn EXCEPT ![t] = NoEnv] /\ cur' = [cur EXCEPT ![t] = 0]
    /\ stop' = IF conn[t] = NoEnv THEN stop ELSE [stop EXCEPT ![conn[t]] = TRUE]
    /\ UNCHANGED <<records, env, sup, alive, wire, supKills>>

Enter(t) == Construct(t) \/ IndexStands(t) \/ IndexPrepare(t) \/ IndexLedger(t)
            \/ IndexCommit(t) \/ IndexAbort(t)
Recover(t) == AskStop(t) \/ Clean(t) \/ CleanFails(t) \/ TermOwner(t) \/ Disown(t) \/ TermOwn(t)
Connect(t) == EnvRecord(t) \/ EnvOwner(t) \/ Spawn(t) \/ Handshake(t) \/ HandshakeFails(t)
Call(t) == NotSent(t) \/ Dispatch(t) \/ Send(t) \/ OpenVerified(t) \/ Acknowledge(t)
           \/ ClickReturns(t) \/ ClickRefused(t) \/ NoAnswer(t)
Check(t) == QuietOwner(t) \/ QuietReceipt(t) \/ QuietFails(t)
            \/ \E a \in 1..Len(acts) : Quiesce(t, a) \/ Verify(t, a)

CsNext ==
    \/ \E t \in Tasks :
         \/ Enter(t) \/ Recover(t) \/ Connect(t) \/ Call(t) \/ Check(t)
         \/ \E i \in Intents, frozen \in BOOLEAN : Prepare(t, i, frozen)
         \/ Finish(t) \/ CloseSession(t) \/ KillOwner(t)
         \/ \E a \in 1..Len(acts), d \in Decisions : Reconcile(t, a, d)
    \/ \E e \in Envs : SupReady(e) \/ SupStops(e) \/ SupDies(e) \/ BrowserExits(e) \/ BrowserActs(e)

CsSpec == CsInit /\ [][CsNext]_csvars

----------------------------------------------------------------------------
(* Properties. *)

\* The records, the sessions and the browsers keep their types.
CsTypeOK ==
    /\ lease \in Tasks \cup {Free}
    /\ index \in [Lineages -> {"none", "PREPARED", "COMMITTED", "ABORTED"}]
    /\ ledger \in [Lineages -> BOOLEAN]
    /\ acts \in Seq(Action) /\ Len(acts) <= MaxActs
    /\ owner \in [env : Envs \cup {NoEnv}, lineage : Lineages \cup {Free}]
    /\ env \in [Envs -> {"none", "created", "ready", "closed"}]
    /\ sup \in [Envs -> {"none", "starting", "running", "gone"}]
    /\ {alive, stop} \subseteq [Envs -> BOOLEAN]
    /\ wire \in [Envs -> 0..MaxActs]
    /\ st \in [Tasks -> {"none", "created", "active", "quiescent", "tainted", "closing"}]
    /\ conn \in [Tasks -> Envs \cup {NoEnv}] /\ cur \in [Tasks -> 0..MaxActs]
    /\ \A t \in Tasks : step[t] # "out" => lease = t

\* No browser is orphaned: one that runs, or may still start, is the one the server's owner
\* record names, so the next claimant has to deal with it before it starts its own.
BrowserIsNamed ==
    \A e \in Envs : alive[e] \/ sup[e] = "starting" => owner.env = e

\* What a ledger calls refused or without effect never happens: not before, and not later
\* through a browser that somebody forgot.
NoEffectIsTrue == \A a \in DOMAIN acts : acts[a].state \in NoEffect => ~acts[a].acted

\* Two clicks of one intent take effect only if the first was independently verified or the
\* owner's last word on it let the task go on.
NoBlindRepeat ==
    \A a, b \in DOMAIN acts :
        (/\ a < b /\ acts[a].lineage = acts[b].lineage /\ acts[a].intent = acts[b].intent
         /\ acts[a].acted /\ acts[b].acted)
        => \/ acts[a].state = "VERIFIED"
           \/ \E n \in DOMAIN acts[a].decisions : acts[a].decisions[n] = "retry"

\* When a task is told that it may complete, every click of its lineage that took effect, or
\* ever will, has an independent receipt.
CompletionIsHonest ==
    \A l \in Lineages : \A a \in settled[l] :
        acts[a].intent \in Clicks /\ acts[a].acted => acts[a].proved
=============================================================================
