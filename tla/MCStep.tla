------------------------------- MODULE MCStep -------------------------------
(***************************************************************************)
(* TLC instances of TaskStep and Candidates.  The two share no state here, *)
(* so a behaviour is one or the other: the constant-like variable part says *)
(* which, and the sum of the two is explored instead of their product.     *)
(***************************************************************************)
EXTENDS TaskStep, Candidates

VARIABLE part

OneTool == {"look", "finish_task", "ask_human"}
SomeStops == {0, 2}
ThreeFiles == {"f", "g", "h"}
OneForeign == {"h"}
Qualities == {0, 2, 3}

MCInit ==
  /\ part \in {"step", "candidates"} /\ Init /\ CandInit
  /\ stopAt = 0 \/ deadline = "none"       \* one of the stop conditions at a time
  /\ part = "candidates" => stopAt = 0 /\ deadline = "none"
  \* The task's own files are not there yet; an unwritable one is, or is not.
  /\ \A f \in Files : work[f] = 0 \/ (part = "candidates" /\ f \in Foreign /\ work[f] = 2)

MCNext ==
  \/ part = "step" /\ Next /\ UNCHANGED <<candVars, part>>
  \/ part = "candidates" /\ CandNext /\ UNCHANGED <<vars, part>>

InPart(A) == part = "step" /\ A /\ UNCHANGED <<candVars, part>>

MCSpec ==
  /\ MCInit /\ [][MCNext]_<<vars, candVars, part>>
  /\ SF_vars(InPart(Step)) /\ WF_vars(InPart(Take)) /\ WF_vars(InPart(DeadlinePasses))

-----------------------------------------------------------------------------
\* The task, its transcript and its attempts keep their types.
StepTypeOK == TypeOK /\ CandTypeOK
=============================================================================
