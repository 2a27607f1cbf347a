------------------------------- MODULE Trust -------------------------------
(***************************************************************************)
(* The trust ledger of one runbook (runbook.py), filled by reconcile, by   *)
(* the command line and by the reducer of a swarm (swarm.py).              *)
(*                                                                         *)
(* A run reads the file when it starts and records its outcome when it     *)
(* has ended; record, under the ledger's lock, reads the file again and    *)
(* credits these bytes.  Workers may author runbooks at any time.          *)
(* Compiled procedures, whose wins need sealed receipts, are left out.     *)
(***************************************************************************)
EXTENDS Naturals, FiniteSets

CONSTANTS
  Users,            \* processes that run the procedure
  Contents,         \* what the runbook's file may hold
  PromoteWins,      \* PROMOTE_WINS
  QuarantineLosses, \* QUARANTINE_LOSSES
  MaxRuns,          \* bound: runs
  MaxEdits          \* bound: times the file is rewritten

ASSUME TrustAssumption ==
  /\ IsFiniteSet(Users)
  /\ PromoteWins \in Nat \ {0} /\ QuarantineLosses \in Nat \ {0}
  /\ MaxRuns \in Nat /\ MaxEdits \in Nat

VARIABLES
  book,      \* the bytes of runbooks/<name>.json
  trust,     \* its entry in trust.json
  use,       \* use[p]: p's run: the bytes it loaded, and how it went
  earned,    \* history: earned[b], accepted runs of the bytes b
  misfiled,  \* history: accepted runs credited to bytes that did not run
  runs, edits

trVars == <<book, trust, use, earned, misfiled, runs, edits>>

NoUse(b) == [at |-> "off", ran |-> b, ok |-> FALSE, accepted |-> FALSE]
Uses == [at : {"off", "steps", "record"}, ran : Contents, ok : BOOLEAN, accepted : BOOLEAN]
NewEntry(b) == [status |-> "candidate", wins |-> 0, streak |-> 0, bytes |-> b]
Entries == [status : {"candidate", "proven", "quarantined"}, wins : Nat, streak : Nat,
            bytes : Contents]

TrTypeOK ==
  /\ book \in Contents /\ trust \in Entries /\ use \in [Users -> Uses]
  /\ earned \in [Contents -> Nat] /\ misfiled \in Nat /\ runs \in Nat /\ edits \in Nat

\* No entry is read as a candidate's; the bytes it is bound to do not matter then.
TrInit ==
  /\ book \in Contents /\ trust = NewEntry(book)
  /\ use = [p \in Users |-> NoUse(book)]
  /\ earned = [b \in Contents |-> 0] /\ misfiled = 0 /\ runs = 0 /\ edits = 0

-----------------------------------------------------------------------------
\* status: trust is of the bytes that earned it.
Status == IF trust.bytes = book THEN trust.status ELSE "candidate"

\* run: a quarantined runbook is refused, a candidate needs the caller's leave.
Run(p, allowCandidate) ==
  /\ use[p].at = "off" /\ runs < MaxRuns /\ runs' = runs + 1
  /\ Status = "proven" \/ (Status = "candidate" /\ allowCandidate)
  /\ use' = [use EXCEPT ![p].at = "steps", ![p].ran = book]
  /\ UNCHANGED <<book, trust, earned, misfiled, edits>>

Outcome(p, ok, accepted) ==
  /\ use[p].at = "steps"
  /\ use' = [use EXCEPT ![p].at = "record", ![p].ok = ok, ![p].accepted = accepted]
  /\ UNCHANGED <<book, trust, misfiled, runs, edits>>

\* A step does not verify, or is refused: the run stops.
Stops(p) == Outcome(p, FALSE, FALSE) /\ UNCHANGED earned

\* Every step verified, and the caller, if there is one that grades, rejects or ...
Rejected(p) == Outcome(p, TRUE, FALSE) /\ UNCHANGED earned

\* ... accepts the work.
Accepted(p) ==
  /\ Outcome(p, TRUE, TRUE)
  /\ earned' = [earned EXCEPT ![use[p].ran] = @ + 1]

-----------------------------------------------------------------------------
\* record: an entry of other bytes is dropped ...
\* Mutant: it is kept.
EntryKept == trust
Entry == IF trust.bytes = book THEN trust ELSE NewEntry(book)

\* ... accepted wins promote, losses in a row quarantine.
Won(e, accepted) ==
  LET wins == IF accepted THEN e.wins + 1 ELSE e.wins
  IN  [e EXCEPT !.wins = wins, !.streak = 0, !.bytes = book,
         !.status = IF @ = "candidate" /\ wins >= PromoteWins THEN "proven" ELSE @]
LostOne(e) ==
  [e EXCEPT !.streak = @ + 1, !.bytes = book,
     !.status = IF e.streak + 1 >= QuarantineLosses THEN "quarantined" ELSE @]

Off(p) == use' = [use EXCEPT ![p] = NoUse(book)]

RecordOutcome(p) ==
  LET u == use[p]
  IN  /\ u.at = "record" /\ Off(p)
      /\ trust' = IF u.ok THEN Won(Entry, u.accepted) ELSE LostOne(Entry)
      /\ misfiled' = IF u.accepted /\ u.ran # book THEN misfiled + 1 ELSE misfiled
      /\ UNCHANGED <<book, earned, runs, edits>>

\* A kill, a lock that timed out, a rehearsal that does not record: no outcome.
Forgotten(p) ==
  /\ use[p].at # "off" /\ Off(p)
  /\ UNCHANGED <<book, trust, earned, misfiled, runs, edits>>

\* clear_quarantine, by the owner: the losses are forgotten, the wins are kept.
Clear ==
  /\ trust.status = "quarantined"
  /\ trust' = [trust EXCEPT !.status = "candidate", !.streak = 0]
  /\ UNCHANGED <<book, use, earned, misfiled, runs, edits>>

\* A worker, a repair or an owner writes the file.
Author ==
  /\ edits < MaxEdits /\ edits' = edits + 1
  /\ book' \in Contents \ {book}
  /\ UNCHANGED <<trust, use, earned, misfiled, runs>>

TrNext ==
  \/ Clear \/ Author
  \/ \E p \in Users : \/ \E allow \in BOOLEAN : Run(p, allow)
                      \/ Stops(p) \/ Rejected(p) \/ Accepted(p) \/ RecordOutcome(p) \/ Forgotten(p)

TrSpec == TrInit /\ [][TrNext]_trVars

-----------------------------------------------------------------------------
\* "Proven" is of these bytes: they were accepted as often as promotion asks, but for
\* wins of other bytes that were credited to them because the file changed during a run.
ProvenIsEarned == Status = "proven" => earned[book] + misfiled >= PromoteWins

\* "Only accepted wins promote.  A win with accepted=False ... buys no trust."
OnlyAcceptedPromotes ==
  [][trust.status = "candidate" /\ trust'.status = "proven" =>
       \E p \in Users : use[p].at = "record" /\ use[p].accepted]_trVars
=============================================================================
