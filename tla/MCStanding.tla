----------------------------- MODULE MCStanding -----------------------------
(***************************************************************************)
(* TLC instances of the ledgers a loop keeps beside its tasks: outward     *)
(* effects, prospective intentions, reconcilers and safe mode.  They share *)
(* no state, so a behaviour is one of them (part): the sum is explored,    *)
(* not the product.                                                        *)
(***************************************************************************)
EXTENDS MCEffectLedger, Prospective, Reconciler, SafeMode

VARIABLE part

SomeKinds == {"event", "repeat", "change", "after"}

MCStart ==
  /\ Init /\ PmInit /\ RcInit /\ SmInit
  /\ \/ part = "effects" /\ inSpec = [r \in Recs |-> TRUE]
     \/ part = "prospective" /\ inSpec = [r \in Recs |-> TRUE]
     \/ part = "reconciler"
     \/ part = "safemode" /\ inSpec = [r \in Recs |-> TRUE]
  /\ part # "effects" => ~http

\* Bound: two intentions, or two occurrences of the condition of one.
Narrow == made <= 1 \/ FoldFunction(+, 0, occ) <= 1

Acting(A) == part = "effects" /\ A /\ UNCHANGED <<pmVars, rcVars, smVars, part>>
Prospecting(A) == part = "prospective" /\ A /\ Narrow' /\ UNCHANGED <<vars, rcVars, smVars, part>>
Reconciling(A) == part = "reconciler" /\ A /\ UNCHANGED <<vars, pmVars, smVars, part>>
Guarding(A) == part = "safemode" /\ A /\ UNCHANGED <<vars, pmVars, rcVars, part>>

MCSteps == Acting(Next) \/ Prospecting(PmNext) \/ Reconciling(RcNext) \/ Guarding(SmNext)

\* What is begun goes on, and the clock ages a dead holder's lock ...
PmProceeds ==
  \/ \E p \in Checkers : Ticks(p)
  \/ \E p \in Askers : Save(p)
  \/ Break \/ (lock = Corpse /\ Ages)

RcProceeds ==
  \/ \E p \in Tickers : Repaired(p) \/ Failed(p)
  \/ \E p \in Who : Saves(p)
  \/ BreakLock \/ (rlock = DeadTick /\ Older)

\* ... and loops come to an idle tick again and again: one day one of them finds
\* the lock free, and an armed reconciler is due.
MCStandingSpec ==
  /\ MCStart /\ [][MCSteps]_<<vars, pmVars, rcVars, smVars, part>>
  /\ WF_pmVars(Prospecting(PmProceeds))
  /\ SF_pmVars(Prospecting(\E p \in Checkers : Check(p)))
  /\ WF_rcVars(Reconciling(RcProceeds))
  /\ SF_rcVars(Reconciling(\E p \in Tickers : TickStarts(p)))
  /\ SF_rcVars(Reconciling(\E p \in Tickers : Observe(p)))

-----------------------------------------------------------------------------
\* The ledgers, the records and the processes that edit them keep their types.
StandingTypeOK == TypeOK /\ PmTypeOK /\ RcTypeOK /\ SmTypeOK
=============================================================================
