----------------------------- MODULE Procedure -----------------------------
(***************************************************************************)
(* Procedures that the loops teach themselves (procedure.py and the hooks  *)
(* of loop.py): one family of tasks and its runbook proc-<family>.         *)
(*                                                                         *)
(* A gated task is captured as a trajectory.  When it has ended, its loop  *)
(* compiles the accepted trajectories of the family into the runbook and   *)
(* evaluates it on the owner's sealed suite.  Accepted cases make it       *)
(* proven, and a proven one is replayed for the next task before any model *)
(* is asked.  Every task has its own loop, all loops share the files.      *)
(* record excludes other recorders by the ledger's lock; compile writes    *)
(* without it.  Sealed judges, whose evidence compiles by another rule,    *)
(* are left out.                                                           *)
(***************************************************************************)
EXTENDS Naturals, Sequences, FiniteSets

CONSTANTS
  Jobs,         \* the tasks of the family
  Works,        \* what a task may have done: the work_hash of its trajectory
  Suite,        \* the sealed suite: a sequence of cases, none of them a trajectory
  InputOf,      \* InputOf[c]: the inputs of case c
  EdgeCases,    \* the cases marked edge
  PromoteAt,    \* PROMOTE_WINS
  QuarantineAt, \* QUARANTINE_LOSSES
  MaxLoops,     \* bound: tasks worked on at once
  MaxDead       \* bound: kills

Cases == {Suite[i] : i \in DOMAIN Suite}

ASSUME ProcedureAssumption ==
  /\ IsFiniteSet(Jobs) /\ Suite \in Seq(Cases) /\ IsFiniteSet(Cases)
  /\ PromoteAt \in Nat \ {0} /\ QuarantineAt \in Nat \ {0}
  /\ MaxLoops \in Nat /\ MaxDead \in Nat

VARIABLES
  proc,     \* the runbook's bytes: the trajectories it was compiled from, none if there is none
  traj,     \* traj[t]: the trajectory of t
  receipts, \* evaluations of cases: of which bytes, and how they ended
  credit,   \* the runbook's entry in trust.json
  doing,    \* doing[t]: what t's loop is at
  lost,     \* history: lost[b], runs of the bytes b that failed
  foreign,  \* history: failures credited to bytes that did not run
  strayed,  \* history: strayed[b], cases counted for b on a receipt of other bytes, because
            \* the file was written over while record ran
  dead

prVars == <<proc, traj, receipts, credit, doing, lost, foreign, strayed, dead>>
past == <<lost, foreign, strayed>>

NoWork == "none"
Bytes == SUBSET Jobs
Trajectories == [state : {"none", "open", "closed"}, work : Works \cup {NoWork}, clean : BOOLEAN,
                 accepted : BOOLEAN]
Receipts == [bytes : Bytes, case : Cases, ok : BOOLEAN]
Credits == [status : {"candidate", "proven", "quarantined"}, evidence : SUBSET Receipts,
            streak : Nat, bytes : Bytes]
Stations == {"new", "match", "replay", "failed", "passed", "refused", "commit", "work", "file",
           "rows", "known", "compile", "suite", "case", "arena", "result", "evidence", "over"}
\* bytes: what it runs, or is about to compile; next: its case; ok: how that ended, or
\* whether the task's gate passed; seen: the file as record loaded it.
Doing == [at : Stations, bytes : Bytes, next : Nat, ok : BOOLEAN, seen : Bytes]

PrTypeOK ==
  /\ proc \in Bytes /\ traj \in [Jobs -> Trajectories] /\ receipts \subseteq Receipts
  /\ credit \in Credits /\ doing \in [Jobs -> Doing]
  /\ lost \in [Bytes -> Nat] /\ foreign \in Nat /\ strayed \in [Bytes -> SUBSET Cases]
  /\ dead \in Nat

Nowhere == [at |-> "new", bytes |-> {}, next |-> 0, ok |-> FALSE, seen |-> {}]
NewCredit(b) == [status |-> "candidate", evidence |-> {}, streak |-> 0, bytes |-> b]

PrInit ==
  /\ proc = {} /\ receipts = {} /\ credit = NewCredit({})
  /\ traj = [t \in Jobs |-> [state |-> "none", work |-> NoWork, clean |-> TRUE,
                             accepted |-> FALSE]]
  /\ doing = [t \in Jobs |-> Nowhere]
  /\ lost = [b \in Bytes |-> 0] /\ foreign = 0 /\ strayed = [b \in Bytes |-> {}] /\ dead = 0

-----------------------------------------------------------------------------
(* Trust (runbook.py).                                                     *)

\* status: of the bytes that are there now.
Verdict == IF credit.bytes = proc THEN credit.status ELSE "candidate"

Diverse(cases) ==
  /\ Cardinality(cases) >= PromoteAt
  /\ Cardinality({InputOf[c] : c \in cases}) >= PromoteAt
  /\ cases \cap EdgeCases # {}

Receipt(b, c, ok) == [bytes |-> b, case |-> c, ok |-> ok]
CasesOf(rs) == {r.case : r \in rs}

\* accepted_evidence: the receipt is of the bytes that are there when it looks.
\* Mutant: of any bytes.
EvidenceOfAny(b, c) == {Receipt(b, c, TRUE)} \cap receipts
Evidence(b, c) == IF b = proc THEN {Receipt(b, c, TRUE)} \cap receipts ELSE {}

\* _record_locked, of the bytes h that it loaded.  An entry of other bytes is dropped.
\* Mutant: it is kept.
CreditKept(h) == credit
Credit(h) == IF credit.bytes = h THEN credit ELSE NewCredit(h)

WonWith(h, e, new) ==
  [e EXCEPT !.bytes = h, !.evidence = @ \cup new, !.streak = 0,
     !.status = IF @ = "candidate" /\ Diverse(CasesOf(e.evidence \cup new)) THEN "proven" ELSE @]

LostAgain(h, e) ==
  [e EXCEPT !.bytes = h, !.streak = @ + 1,
     !.status = IF e.streak + 1 >= QuarantineAt THEN "quarantined" ELSE @]

Wins(h, new) ==
  /\ credit' = WonWith(h, Credit(h), new) /\ UNCHANGED <<lost, foreign>>
  /\ strayed' = IF h = proc THEN strayed ELSE [strayed EXCEPT ![h] = @ \cup CasesOf(new)]
Loses(h, b) == credit' = LostAgain(h, Credit(h)) /\ UNCHANGED <<lost, strayed>>
               /\ foreign' = IF b = h THEN foreign ELSE foreign + 1

\* The ledger's lock is held over more than one step only between record's two looks.
LedgerIsFree == \A t \in Jobs : doing[t].at # "evidence"

-----------------------------------------------------------------------------
Passes(t, from, d) == doing[t].at \in from /\ doing' = [doing EXCEPT ![t] = d]
At(t, where) == [doing[t] EXCEPT !.at = where]
Finished == [Nowhere EXCEPT !.at = "over"]

\* _begin_trajectory, at the end of every claim that leaves the task running.
Opens(t, from) ==
  /\ Passes(t, from, [Nowhere EXCEPT !.at = "work"])
  /\ traj' = [traj EXCEPT ![t].state = "open"]

(* Replay (_try_procedure_route).                                          *)
MayTake == Cardinality({t \in Jobs : doing[t].at \notin {"new", "over"}}) < MaxLoops

RouteMatches(t) ==
  /\ Verdict = "proven" /\ MayTake /\ Passes(t, {"new"}, At(t, "match"))
  /\ UNCHANGED <<proc, traj, receipts, credit, past, dead>>

\* Nothing is proven, or it does not fit the task's inputs.
RouteMisses(t) ==
  /\ doing[t].at = "new" => MayTake
  /\ Opens(t, {"new", "match"})
  /\ UNCHANGED <<proc, receipts, credit, past, dead>>

\* The file is loaded after the match.
RouteLoads(t) ==
  /\ Passes(t, {"match"}, [At(t, "replay") EXCEPT !.bytes = proc])
  /\ UNCHANGED <<proc, traj, receipts, credit, past, dead>>

\* A guard says "not now": no evidence.
Declines(t) ==
  /\ Opens(t, {"replay"}) /\ UNCHANGED <<proc, receipts, credit, past, dead>>

ReplayFails(t) ==
  /\ Passes(t, {"replay"}, At(t, "failed"))
  /\ lost' = [lost EXCEPT ![doing[t].bytes] = @ + 1]
  /\ UNCHANGED <<proc, traj, receipts, credit, foreign, strayed, dead>>

\* The steps verified; the task's own gate decides.
StepsVerify(t) ==
  /\ \E where \in {"passed", "refused"} : Passes(t, {"replay"}, At(t, where))
  /\ UNCHANGED <<proc, traj, receipts, credit, past, dead>>

\* record, without evidence; when its lock times out, nothing.  A failure, and work that
\* the gate refused, leave the task to the model.
RecordsReplay(t) ==
  /\ \/ LedgerIsFree /\ doing[t].at = "failed" /\ Loses(proc, doing[t].bytes)
     \/ LedgerIsFree /\ doing[t].at \in {"passed", "refused"} /\ Wins(proc, {})
     \/ UNCHANGED <<credit, past>>
  /\ \/ Opens(t, {"failed", "refused"})
     \/ Passes(t, {"passed"}, At(t, "commit")) /\ UNCHANGED traj
  /\ UNCHANGED <<proc, receipts, dead>>

\* What the gate passed is done.
CommitsDone(t) ==
  /\ Passes(t, {"commit"}, Finished) /\ UNCHANGED <<proc, traj, receipts, credit, past, dead>>

-----------------------------------------------------------------------------
(* Capture and compilation (_procedural_learning).                         *)

\* The model works; every action is recorded, and is clean if it completed and was
\* observed to have succeeded.  A failure that will be retried is not learned from.
WorkEnds(t) ==
  /\ \E w \in Works, clean \in BOOLEAN, gate \in BOOLEAN :
       /\ traj' = [traj EXCEPT ![t].work = w, ![t].clean = @ /\ clean]
       /\ \/ Passes(t, {"work"}, [At(t, "file") EXCEPT !.ok = gate])
          \/ ~gate /\ Passes(t, {"work"}, Finished)
  /\ UNCHANGED <<proc, receipts, credit, past, dead>>

\* finish_trajectory, if one is open.
Closes(t) ==
  /\ traj[t].state = "open"
  /\ LET accepted == traj[t].clean /\ doing[t].ok
     IN  /\ traj' = [traj EXCEPT ![t].state = "closed", ![t].accepted = accepted]
         /\ Passes(t, {"file"}, IF accepted THEN At(t, "rows") ELSE Finished)
  /\ UNCHANGED <<proc, receipts, credit, past, dead>>

NothingOpen(t) ==
  /\ traj[t].state # "open" /\ Passes(t, {"file"}, Finished)
  /\ UNCHANGED <<proc, traj, receipts, credit, past, dead>>

\* accepted_trajectories, of which two did different work.
\* Mutant: two of them, whatever they did.
IndependentlyMany(rows) == Cardinality(rows) >= 2
Independent(rows) == Cardinality({traj[u].work : u \in rows}) >= 2

ReadsRows(t) ==
  /\ LET rows == {u \in Jobs : traj[u].accepted}
     IN  Passes(t, {"rows"}, IF Independent(rows) THEN [At(t, "known") EXCEPT !.bytes = rows]
                           ELSE Finished)
  /\ UNCHANGED <<proc, traj, receipts, credit, past, dead>>

\* Nothing new to induce from, against the runbook as it is now; or the compiler refuses.
LearnsNothing(t) ==
  /\ \/ doing[t].bytes \subseteq proc /\ Passes(t, {"known"}, Finished)
     \/ Passes(t, {"compile"}, Finished)
  /\ UNCHANGED <<proc, traj, receipts, credit, past, dead>>

FindsNew(t) ==
  /\ ~(doing[t].bytes \subseteq proc) /\ Passes(t, {"known"}, At(t, "compile"))
  /\ UNCHANGED <<proc, traj, receipts, credit, past, dead>>

\* compile: the file is written over, whatever is there by now.
Compiles(t) ==
  /\ Passes(t, {"compile"}, At(t, "suite")) /\ proc' = doing[t].bytes
  /\ UNCHANGED <<traj, receipts, credit, past, dead>>

-----------------------------------------------------------------------------
(* Evaluation (evaluate), of the file as it is when it starts.             *)
EvalStarts(t) ==
  /\ Passes(t, {"suite"}, [At(t, "case") EXCEPT !.bytes = proc, !.next = 1])
  /\ UNCHANGED <<proc, traj, receipts, credit, past, dead>>

Case(t) == Suite[doing[t].next]
HasReceipt(t) == \E ok \in BOOLEAN : Receipt(doing[t].bytes, Case(t), ok) \in receipts
NextCase(t) == [At(t, "case") EXCEPT !.next = @ + 1]

\* A case with a receipt is not run again, nor is one of a quarantined runbook.
EvalNext(t) ==
  /\ LET d == doing[t]
     IN  Passes(t, {"case"},
              IF d.next > Len(Suite) THEN Finished
              ELSE IF HasReceipt(t) THEN NextCase(t)
              ELSE IF Verdict = "quarantined" THEN Finished ELSE At(t, "arena"))
  /\ UNCHANGED <<proc, traj, receipts, credit, past, dead>>

\* The case runs in an arena of its own; the first receipt of a case stays.
EvalRuns(t) ==
  /\ \E ok \in BOOLEAN :
       /\ Passes(t, {"arena"}, [At(t, "result") EXCEPT !.ok = ok])
       /\ receipts' = IF HasReceipt(t) THEN receipts
                      ELSE receipts \cup {Receipt(doing[t].bytes, Case(t), ok)}
       /\ lost' = IF ok THEN lost ELSE [lost EXCEPT ![doing[t].bytes] = @ + 1]
  /\ UNCHANGED <<proc, traj, credit, foreign, strayed, dead>>

\* record takes the ledger's lock and loads the file: whose entry it is.
EvalLoads(t) ==
  /\ LedgerIsFree
  /\ Passes(t, {"result"}, [At(t, "evidence") EXCEPT !.seen = proc])
  /\ UNCHANGED <<proc, traj, receipts, credit, past, dead>>

\* The file is loaded again for the evidence, which counts once; then the entry is written
\* and the lock released.
EvalRecords(t) ==
  /\ LET d == doing[t]
         new == Evidence(d.bytes, Case(t))
     IN  /\ Passes(t, {"evidence"}, [NextCase(t) EXCEPT !.seen = {}])
         /\ IF new \cap Credit(d.seen).evidence # {} THEN UNCHANGED <<credit, past>>
            ELSE IF d.ok THEN Wins(d.seen, new) ELSE Loses(d.seen, d.bytes)
  /\ UNCHANGED <<proc, traj, receipts, dead>>

\* A lock times out, the case cannot be set up, or the file is half written when record
\* loads it.
EvalAborts(t) ==
  /\ Passes(t, {"arena", "result", "evidence"}, Finished)
  /\ UNCHANGED <<proc, traj, receipts, credit, past, dead>>

-----------------------------------------------------------------------------
\* clear_quarantine.
OwnerClears ==
  /\ LedgerIsFree /\ credit.status = "quarantined"
  /\ credit' = [credit EXCEPT !.status = "candidate", !.streak = 0]
  /\ UNCHANGED <<proc, traj, receipts, doing, past, dead>>

\* A kill.  A task that was running is adopted: it is not claimed again, so nothing is
\* replayed and no trajectory opened; one that had ended is not looked at again.
LoopDies(t) ==
  /\ dead < MaxDead /\ dead' = dead + 1
  /\ \/ /\ Passes(t, {"match", "replay", "failed", "passed", "refused", "commit"},
                [Nowhere EXCEPT !.at = "work"])
        /\ UNCHANGED traj
     \/ /\ doing[t].at = "work" /\ traj[t].state = "open" /\ UNCHANGED doing
        /\ traj' = [traj EXCEPT ![t].clean = FALSE]     \* in the middle of an action
     \/ /\ Passes(t, {"file", "rows", "known", "compile", "suite", "case", "arena", "result",
                   "evidence"}, Finished)
        /\ UNCHANGED traj
  /\ UNCHANGED <<proc, receipts, credit, past>>

JobStep(t) ==
  \/ RouteMatches(t) \/ RouteMisses(t) \/ RouteLoads(t) \/ Declines(t) \/ ReplayFails(t)
  \/ StepsVerify(t) \/ RecordsReplay(t) \/ CommitsDone(t)
  \/ WorkEnds(t) \/ Closes(t) \/ NothingOpen(t) \/ ReadsRows(t) \/ LearnsNothing(t)
  \/ FindsNew(t) \/ Compiles(t)
  \/ EvalStarts(t) \/ EvalNext(t) \/ EvalRuns(t) \/ EvalLoads(t) \/ EvalRecords(t) \/ EvalAborts(t)
  \/ LoopDies(t)

PrNext == OwnerClears \/ \E t \in Jobs : JobStep(t)

PrSpec == PrInit /\ [][PrNext]_prVars

-----------------------------------------------------------------------------
AcceptedCases(b) == {c \in Cases : Receipt(b, c, TRUE) \in receipts}

\* A verdict is about the bytes that are there, however loops compile over each other and
\* evaluate at once.  Proven: they were compiled from accepted runs that did different work,
\* and sealed cases enough, of different inputs and with an edge case, accepted these very
\* bytes, but for cases that record counted for them on a receipt of other bytes because the
\* file was written over between its two looks.  Quarantined: these bytes failed often
\* enough, but for failures of other bytes that were credited to them.
VerdictIsOfTheseBytes ==
  /\ Verdict = "proven" =>
       /\ \A u \in proc : traj[u].accepted
       /\ Cardinality({traj[u].work : u \in proc}) >= 2
       /\ Diverse(AcceptedCases(proc) \cup strayed[proc])
  /\ Verdict = "quarantined" => lost[proc] + foreign >= QuarantineAt
=============================================================================
