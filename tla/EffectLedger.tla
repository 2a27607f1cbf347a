---------------------------- MODULE EffectLedger ----------------------------
(***************************************************************************)
(* effects.py and its two callers, mcp.guarded_call and the http_effect    *)
(* tool of loop._exec_tool: a write-ahead ledger that keeps a retried task *)
(* from hitting the world twice.                                           *)
(*                                                                         *)
(* One operation key (lineage, server, tool, arguments), of an MCP tool or *)
(* of http_effect: keys share only the ledger's append lock, whose timeout *)
(* is an outcome here.  A caller is one call of it, of an attempt that may *)
(* be a retry, a zombie or a sibling.  The claim of the key is             *)
(* locks.holding, a mutex whose corpses are broken (module FileMutex says  *)
(* when it is one).  The ledger is read line by line without its lock, so  *)
(* every read is a step of its own.                                        *)
(***************************************************************************)
CONSTANTS
  Callers,      \* calls of the key
  Fresh,        \* those that pass --fresh, if it is an MCP tool's
  Gated,        \* does the MCP server's policy want an approval?
  Nobody

ASSUME EffectLedgerAssumption ==
  /\ Nobody \notin Callers
  /\ Fresh \subseteq Callers
  /\ Gated \in BOOLEAN

VARIABLES
  http,      \* is it a key of http_effect?  (never changes)
  claim,     \* the caller in the claim's with-block
  last,      \* status of the key's last line in effects.jsonl
  known,     \* is there a "done" line?
  approval,  \* status in approvals/<id>.json
  pc,        \* where each caller is
  outcome    \* what it made of its call; "guess": an error of http_effect's for an
             \* effect that may have happened

vars == <<http, claim, last, known, approval, pc, outcome>>

Points == {"idle", "lookup", "approve", "request", "unfinished", "begin",
           "calling", "recording", "replayed", "refused", "unresolved", "live",
           "raised", "lost"}
Claiming == {"lookup", "approve", "request", "unfinished", "begin"}
Returned == {"replayed", "refused", "unresolved", "live", "raised", "lost"}

TypeOK ==
  /\ http \in BOOLEAN
  /\ claim \in Callers \cup {Nobody}
  /\ last \in {"none", "started", "done", "error"}
  /\ known \in BOOLEAN
  /\ approval \in {"none", "pending", "granted", "denied"}
  /\ pc \in [Callers -> Points]
  /\ outcome \in [Callers -> {"none", "done", "error", "guess"}]

Init ==
  /\ http \in BOOLEAN
  /\ claim = Nobody /\ last = "none" /\ known = FALSE /\ approval = "none"
  /\ pc = [c \in Callers |-> "idle"]
  /\ outcome = [c \in Callers |-> "none"]

Goto(c, from, to) == pc[c] = from /\ pc' = [pc EXCEPT ![c] = to]
LeaveClaim == claim' = Nobody

-----------------------------------------------------------------------------
(* The claim: has this happened, may it, did somebody start it? *)

EnterClaim(c) ==
  /\ claim = Nobody
  /\ Goto(c, "idle", IF c \in Fresh /\ ~http THEN "approve" ELSE "lookup")
  /\ claim' = c
  /\ UNCHANGED <<http, last, known, approval, outcome>>

\* TimeoutError of the claim's lock.
ClaimBusy(c) ==
  /\ claim # Nobody
  /\ Goto(c, "idle", "raised")
  /\ UNCHANGED <<http, claim, last, known, approval, outcome>>

\* lookup finds a "done" line: the recorded result is replayed.
Replay(c) ==
  /\ known
  /\ Goto(c, "lookup", "replayed")
  /\ LeaveClaim
  /\ UNCHANGED <<http, last, known, approval, outcome>>

LookupMisses(c) ==
  /\ ~known
  /\ Goto(c, "lookup", "approve")
  /\ UNCHANGED <<http, claim, last, known, approval, outcome>>

\* Mutant: a pending request is enough.
AdmittedPending == http \/ ~Gated \/ approval \in {"pending", "granted"}

Admitted == http \/ ~Gated \/ approval = "granted"

Approved(c) ==
  /\ Admitted
  /\ Goto(c, "approve", "unfinished")
  /\ UNCHANGED <<http, claim, last, known, approval, outcome>>

Denied(c) ==
  /\ ~Admitted /\ approval = "denied"
  /\ Goto(c, "approve", "refused")
  /\ LeaveClaim
  /\ UNCHANGED <<http, last, known, approval, outcome>>

Undecided(c) ==
  /\ ~Admitted /\ approval # "denied"
  /\ Goto(c, "approve", "request")
  /\ UNCHANGED <<http, claim, last, known, approval, outcome>>

\* approvals.request writes a pending record unless there is one; "approval
\* required" goes back to the agent whatever the owner decided meanwhile.
Request(c) ==
  /\ Goto(c, "request", "refused")
  /\ approval' = IF approval = "none" THEN "pending" ELSE approval
  /\ LeaveClaim
  /\ UNCHANGED <<http, last, known, outcome>>

\* Mutant: an intent counts as unfinished only while nobody holds the claim.
UnfinishedClaimed == last = "started" /\ claim = Nobody

\* unfinished: the last line says "started".
Unfinished == last = "started"

Halt(c) ==
  /\ Unfinished
  /\ Goto(c, "unfinished", "unresolved")
  /\ LeaveClaim
  /\ UNCHANGED <<http, last, known, approval, outcome>>

Proceed(c) ==
  /\ ~Unfinished
  /\ Goto(c, "unfinished", "begin")
  /\ UNCHANGED <<http, claim, last, known, approval, outcome>>

\* begin writes the intent ahead of the call, and the claim is left.
Begin(c) ==
  /\ Goto(c, "begin", "calling")
  /\ last' = "started"
  /\ LeaveClaim
  /\ UNCHANGED <<http, known, approval, outcome>>

\* TimeoutError of the ledger's lock, before anything was sent.
BeginBusy(c) ==
  /\ Goto(c, "begin", "raised")
  /\ LeaveClaim
  /\ UNCHANGED <<http, last, known, approval, outcome>>

-----------------------------------------------------------------------------
(* The call and its record, outside the claim *)

\* The server answers: a result, or an MCP server's error.  http_effect returns
\* from a write it has verified only.
CallReturns(c) ==
  /\ Goto(c, "calling", "recording")
  /\ \E r \in {"done"} \cup (IF http THEN {} ELSE {"error"}) : outcome' = [outcome EXCEPT ![c] = r]
  /\ UNCHANGED <<http, claim, last, known, approval>>

\* The exception leaves the intent open ...
CallRaises(c) ==
  /\ Goto(c, "calling", "lost")
  /\ UNCHANGED <<http, claim, last, known, approval, outcome>>

\* ... but of an OSError or a ValueError, a request that timed out, an answer
\* that is no 2xx or a readback that does not match, http_effect makes an error.
CallUnverified(c) ==
  /\ http
  /\ Goto(c, "calling", "recording")
  /\ outcome' = [outcome EXCEPT ![c] = "guess"]
  /\ UNCHANGED <<http, claim, last, known, approval>>

Record(c) ==
  /\ Goto(c, "recording", "live")
  /\ last' = IF outcome[c] = "done" THEN "done" ELSE "error"
  /\ known' = (known \/ outcome[c] = "done")
  /\ UNCHANGED <<http, claim, approval, outcome>>

\* TimeoutError of the ledger's lock after the world was hit.  It is an
\* OSError: http_effect's handler takes a verified effect for a failed one.
RecordBusy(c) ==
  /\ IF http /\ outcome[c] = "done"
     THEN pc[c] = "recording" /\ UNCHANGED pc
     ELSE Goto(c, "recording", "lost")
  /\ outcome' = [outcome EXCEPT ![c] = IF http THEN "guess" ELSE @]
  /\ UNCHANGED <<http, claim, last, known, approval>>

\* procedure.finish_action raises after the "done" line: http_effect's
\* handler records an error for the effect it has just verified.
LateError(c) ==
  /\ http /\ pc[c] = "live" /\ outcome[c] = "done"
  /\ last' = "error"
  /\ outcome' = [outcome EXCEPT ![c] = "error"]
  /\ UNCHANGED <<http, claim, known, approval, pc>>

-----------------------------------------------------------------------------
(* The owner, and kill -9 *)

\* approvals.decide: once.
OwnerDecides ==
  /\ approval = "pending"
  /\ approval' \in {"granted", "denied"}
  /\ UNCHANGED <<http, claim, last, known, pc, outcome>>

\* Its claim is broken when it is twenty seconds old.
Crash(c) ==
  /\ pc[c] \notin Returned \cup {"idle"}
  /\ pc' = [pc EXCEPT ![c] = IF pc[c] \in Claiming THEN "raised" ELSE "lost"]
  /\ claim' = IF claim = c THEN Nobody ELSE claim
  /\ UNCHANGED <<http, last, known, approval, outcome>>

CallerStep(c) ==
  \/ EnterClaim(c) \/ ClaimBusy(c) \/ Replay(c) \/ LookupMisses(c)
  \/ Approved(c) \/ Denied(c) \/ Undecided(c) \/ Request(c)
  \/ Halt(c) \/ Proceed(c) \/ Begin(c) \/ BeginBusy(c)
  \/ CallReturns(c) \/ CallRaises(c) \/ CallUnverified(c) \/ Record(c) \/ RecordBusy(c) \/ LateError(c)

Next == OwnerDecides \/ \E c \in Callers : CallerStep(c) \/ Crash(c)

Spec == Init /\ [][Next]_vars

-----------------------------------------------------------------------------
(* Properties *)

\* The effects whose outcome nobody knows: in flight, not recorded yet, lost, or
\* of http_effect and recorded as an error that is a guess.
Unknown == {c \in Callers : \/ pc[c] \in {"calling", "recording", "lost"}
                            \/ pc[c] = "live" /\ outcome[c] = "guess"}

\* Those the ledger takes for settled, against the promise that "ambiguous effects
\* halt for reconciliation instead of being replayed blindly": what http_effect
\* could not verify or could not record is sent again by the next call.
Guessed == {c \in Callers : http /\ pc[c] = "live" /\ outcome[c] = "guess"}

\* An effect of an MCP tool is never sent while the outcome of an earlier one is
\* unknown: not beside a call in flight, and never again after a caller was
\* killed, timed out or could not record.  Of http_effect that holds but for the
\* outcomes it guessed.  As a refinement, the others are the inside of a mutex
\* that only a record leaves, never a lost caller.
Promise == INSTANCE Mutex WITH Procs <- Callers, inside <- Unknown \ Guessed
OneOpenEffect == Promise!Spec

\* An effect behind the approval gate is only ever sent after the owner's yes,
\* whatever the owner decides while callers are between two reads.
SentOnlyIfGranted ==
  Gated /\ ~http /\ (\E c \in Callers : pc[c] \in {"begin", "calling", "recording", "live"})
    => approval = "granted"

\* "Known-completed effects are never automatically repeated."
KnownNotRepeated ==
  [][\A c \in Callers : c \notin Fresh /\ pc[c] = "begin" /\ pc'[c] = "calling" => ~known]_vars
=============================================================================
