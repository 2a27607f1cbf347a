------------------------- MODULE EffectLedgerProofs -------------------------
(***************************************************************************)
(* What the effects ledger guarantees for any number of calls of a key,    *)
(* retries, siblings, crashes and timeouts.                                *)
(***************************************************************************)
EXTENDS EffectLedger, TLAPS

(***************************************************************************)
(* The inductive invariant.  The claim has one caller.  There is one open  *)
(* effect at most (of unknown outcome and not guessed), and it is the last *)
(* line of the ledger, so that nobody                                      *)
(* who reads that line gets past it, unless http_effect's handler wrote an *)
(* error behind it; but that takes an earlier "done" line, and once there  *)
(* is one, nobody gets past the lookup while an effect is open.  So a      *)
(* caller about to begin knows that nothing is open.                       *)
(***************************************************************************)
Open == {c \in Callers : pc[c] \in {"calling", "recording", "lost"}}
OneClaims == \A c \in Callers : pc[c] \in Claiming <=> claim = c
OpenIsLast ==
  /\ \A c \in Open : last = "started" \/ (http /\ known)
  /\ \A c, d \in Open : c = d
KnownIsReplayed ==
  /\ \A c \in Callers : http /\ pc[c] = "live" /\ outcome[c] = "done" => known
  /\ http /\ known /\ Open # {} =>
       \A c \in Callers : pc[c] \notin {"approve", "request", "unfinished", "begin"}
BeginsAlone == \A c \in Callers : pc[c] = "begin" => Open = {}
HttpGuesses == \A c \in Callers : outcome[c] = "guess" => http
IInv == TypeOK /\ OneClaims /\ OpenIsLast /\ KnownIsReplayed /\ BeginsAlone /\ HttpGuesses

LEMMA OpenIs == IInv => Unknown \ Guessed = Open
  BY DEF IInv, HttpGuesses, Unknown, Guessed, Open


LEMMA TypeInit == Init => TypeOK
  BY EffectLedgerAssumption DEF Init, TypeOK, Points

LEMMA TypeStep == TypeOK /\ [Next]_vars => TypeOK'
<1> SUFFICES ASSUME TypeOK, [Next]_vars PROVE TypeOK'
  OBVIOUS
<1> USE DEF TypeOK, Points, Goto, LeaveClaim
<1>1. CASE OwnerDecides
  BY <1>1 DEF OwnerDecides
<1>2. ASSUME NEW c \in Callers, CallerStep(c) PROVE TypeOK'
  <2>1. CASE EnterClaim(c) \/ ClaimBusy(c) \/ Replay(c) \/ LookupMisses(c)
    BY <2>1 DEF EnterClaim, ClaimBusy, Replay, LookupMisses
  <2>2. CASE Approved(c) \/ Denied(c) \/ Undecided(c) \/ Request(c)
    BY <2>2 DEF Approved, Denied, Undecided, Request
  <2>3. CASE Halt(c) \/ Proceed(c) \/ Begin(c) \/ BeginBusy(c)
    BY <2>3 DEF Halt, Proceed, Begin, BeginBusy
  <2>4. CASE CallReturns(c)
    BY <2>4 DEF CallReturns
  <2>5. CASE CallRaises(c)
    BY <2>5 DEF CallRaises
  <2>8. CASE CallUnverified(c)
    BY <2>8 DEF CallUnverified
  <2>6. CASE Record(c)
    <3>1. known' \in BOOLEAN
      BY <2>6 DEF Record
    <3>2. last' \in {"none", "started", "done", "error"}
      BY <2>6 DEF Record
    <3> QED BY <2>6, <3>1, <3>2 DEF Record
  <2>7. CASE RecordBusy(c) \/ LateError(c)
    BY <2>7 DEF RecordBusy, LateError
  <2> QED BY <1>2, <2>1, <2>2, <2>3, <2>4, <2>5, <2>6, <2>7, <2>8 DEF CallerStep
<1>3. ASSUME NEW c \in Callers, Crash(c) PROVE TypeOK'
  BY <1>3 DEF Crash
<1>4. CASE UNCHANGED vars
  BY <1>4 DEF vars
<1> QED BY <1>1, <1>2, <1>3, <1>4 DEF Next

\* Callers, claim, ledger and approval keep their types.
THEOREM TypeCorrect == Spec => []TypeOK
<1>1. Init => TypeOK BY TypeInit
<1>2. TypeOK /\ [Next]_vars => TypeOK' BY TypeStep
<1> QED BY <1>1, <1>2, PTL DEF Spec

LEMMA IInvInit == Init => IInv
  BY TypeInit, EffectLedgerAssumption
  DEF Init, IInv, OneClaims, OpenIsLast, KnownIsReplayed, BeginsAlone, HttpGuesses, Open, Claiming

LEMMA IInvStep == IInv /\ [Next]_vars => IInv'
<1> SUFFICES ASSUME IInv, [Next]_vars PROVE IInv'
  OBVIOUS
<1>t. TypeOK' BY TypeStep DEF IInv
<1> USE <1>t, EffectLedgerAssumption
    DEF IInv, TypeOK, Points, Goto, LeaveClaim, OneClaims, OpenIsLast, KnownIsReplayed, BeginsAlone, HttpGuesses, Open, Claiming
<1>1. CASE OwnerDecides
  BY <1>1 DEF OwnerDecides
<1>2. ASSUME NEW c \in Callers, CallerStep(c) PROVE IInv'
  <2>1. CASE EnterClaim(c) \/ ClaimBusy(c)
    BY <2>1 DEF EnterClaim, ClaimBusy
  <2>2. CASE Replay(c) \/ LookupMisses(c)
    BY <2>2 DEF Replay, LookupMisses
  <2>3. CASE Approved(c) \/ Denied(c)
    BY <2>3 DEF Approved, Denied
  <2>4. CASE Undecided(c) \/ Request(c)
    BY <2>4 DEF Undecided, Request
  <2>5. CASE Halt(c) \/ Proceed(c)
    BY <2>5 DEF Halt, Proceed, Unfinished
  <2>6. CASE Begin(c)
    BY <2>6 DEF Begin
  <2>7. CASE BeginBusy(c)
    BY <2>7 DEF BeginBusy
  <2>8. CASE CallReturns(c)
    BY <2>8 DEF CallReturns
  <2>9. CASE CallRaises(c)
    BY <2>9 DEF CallRaises
  <2>13. CASE CallUnverified(c)
    BY <2>13 DEF CallUnverified
  <2>10. CASE Record(c)
    BY <2>10 DEF Record
  <2>11. CASE RecordBusy(c)
    BY <2>11 DEF RecordBusy
  <2>12. CASE LateError(c)
    BY <2>12 DEF LateError
  <2> QED BY <1>2, <2>1, <2>2, <2>3, <2>4, <2>5, <2>6, <2>7, <2>8, <2>9, <2>10, <2>11,
             <2>12, <2>13 DEF CallerStep
<1>3. ASSUME NEW c \in Callers, Crash(c) PROVE IInv'
  BY <1>3 DEF Crash, Returned
<1>4. CASE UNCHANGED vars
  BY <1>4 DEF vars
<1> QED BY <1>1, <1>2, <1>3, <1>4 DEF Next

LEMMA IInvAlways == Spec => []IInv
<1>1. Init => IInv BY IInvInit
<1>2. IInv /\ [Next]_vars => IInv' BY IInvStep
<1> QED BY <1>1, <1>2, PTL DEF Spec

\* Of an MCP tool, the ledger keeps a lineage from sending an effect beside, or
\* after, one whose outcome nobody knows; of http_effect, unless it wrote an error
\* for an outcome it guessed.  The unknown effects less the guessed ones implement
\* a mutex that only a record leaves (mcp.guarded_call, http_effect).
THEOREM OneOpenAtATime == Spec => OneOpenEffect
<1>1. Init => Promise!Init
  BY IInvInit, OpenIs DEF Init, Promise!Init, Open
<1>2. IInv /\ [Next]_vars => Promise!Next \/ UNCHANGED (Unknown \ Guessed)
  <2> DEFINE Moves ==
        \/ \E c \in Callers : Open = {} /\ Open' = {c}
        \/ \E c \in Open : Open' = Open \ {c}
        \/ Open' = Open
  <2> SUFFICES ASSUME IInv, [Next]_vars PROVE Moves
    <3>1. ASSUME IInv, [Next]_vars, Moves PROVE Promise!Next \/ UNCHANGED (Unknown \ Guessed)
      <4>1. Unknown \ Guessed = Open BY <3>1, OpenIs
      <4>2. (Unknown \ Guessed)' = Open'
        <5>1. HttpGuesses' BY <3>1, IInvStep DEF IInv
        <5> QED BY <5>1 DEF HttpGuesses, Unknown, Guessed, Open
      <4>3. Open \subseteq Callers BY DEF Open
      <4>4. CASE Open' = Open BY <4>1, <4>2, <4>4, Zenon
      <4>5. ASSUME NEW c \in Callers, Open = {}, Open' = {c} PROVE Promise!Next
        BY <4>1, <4>2, <4>5, Zenon DEF Promise!Next, Promise!Enter
      <4>6. ASSUME NEW c \in Open, Open' = Open \ {c} PROVE Promise!Next
        BY <4>1, <4>2, <4>3, <4>6, Zenon DEF Promise!Next, Promise!Leave
      <4> QED BY <3>1, <4>4, <4>5, <4>6, Zenon
    <3> QED BY <3>1
  <2> USE DEF IInv, TypeOK, Points, Goto, Open
  <2>1. CASE OwnerDecides
    BY <2>1 DEF OwnerDecides
  <2>2. ASSUME NEW c \in Callers, CallerStep(c) PROVE Moves
    <3>1. CASE Begin(c)
      <4>1. Open = {} BY <3>1 DEF Begin, OpenIsLast, BeginsAlone
      <4>2. Open' = {c} BY <3>1, <4>1 DEF Begin
      <4> QED BY <4>1, <4>2
    <3>2. CASE Record(c)
      <4>1. c \in Open /\ Open' = Open \ {c} BY <3>2 DEF Record
      <4> QED BY <4>1
    <3>3. CASE CallReturns(c) \/ CallRaises(c) \/ CallUnverified(c) \/ RecordBusy(c) \/ LateError(c)
      BY <3>3 DEF CallReturns, CallRaises, CallUnverified, RecordBusy, LateError
    <3>4. CASE EnterClaim(c) \/ ClaimBusy(c) \/ Replay(c) \/ LookupMisses(c)
      BY <3>4 DEF EnterClaim, ClaimBusy, Replay, LookupMisses
    <3>5. CASE Approved(c) \/ Denied(c) \/ Undecided(c) \/ Request(c)
      BY <3>5 DEF Approved, Denied, Undecided, Request
    <3>6. CASE Halt(c) \/ Proceed(c) \/ BeginBusy(c)
      BY <3>6 DEF Halt, Proceed, BeginBusy
    <3> QED BY <2>2, <3>1, <3>2, <3>3, <3>4, <3>5, <3>6 DEF CallerStep
  <2>3. ASSUME NEW c \in Callers, Crash(c) PROVE Moves
    BY <2>3 DEF Crash, Returned, Claiming
  <2>4. CASE UNCHANGED vars
    BY <2>4 DEF vars
  <2> QED BY <2>1, <2>2, <2>3, <2>4 DEF Next
<1> QED BY <1>1, <1>2, IInvAlways, PTL DEF Spec, OneOpenEffect, Promise!Spec

\* The read of approvals/<id>.json admits the caller; what it read stays true.
GrantKept ==
  Gated /\ ~http => \A c \in Callers :
             pc[c] \in {"unfinished", "begin", "calling", "recording", "live"}
               => approval = "granted"

\* Nothing behind the approval gate is sent before the owner granted it
\* (mcp.guarded_call with approvals.request and approvals.decide).
THEOREM SentIsGranted == Spec => []SentOnlyIfGranted
<1> DEFINE Inv == TypeOK /\ GrantKept
<1>1. Init => Inv
  BY TypeInit DEF Init, GrantKept
<1>2. Inv /\ [Next]_vars => Inv'
  <2> SUFFICES ASSUME Inv, [Next]_vars, Gated, ~http' PROVE GrantKept'
    BY TypeStep DEF GrantKept
  <2> USE DEF TypeOK, Points, Goto, GrantKept
  <2>1. CASE OwnerDecides
    BY <2>1 DEF OwnerDecides
  <2>2. ASSUME NEW c \in Callers, CallerStep(c) PROVE GrantKept'
    <3>1. CASE Approved(c)
      BY <3>1 DEF Approved, Admitted
    <3>2. CASE Request(c)
      BY <3>2 DEF Request
    <3>3. CASE EnterClaim(c) \/ ClaimBusy(c) \/ Replay(c) \/ LookupMisses(c)
      BY <3>3 DEF EnterClaim, ClaimBusy, Replay, LookupMisses
    <3>4. CASE Denied(c) \/ Undecided(c) \/ Halt(c) \/ Proceed(c)
      BY <3>4 DEF Denied, Undecided, Halt, Proceed
    <3>5. CASE Begin(c) \/ BeginBusy(c)
      BY <3>5 DEF Begin, BeginBusy
    <3>6. CASE CallReturns(c) \/ CallRaises(c) \/ CallUnverified(c)
      BY <3>6 DEF CallReturns, CallRaises, CallUnverified
    <3>7. CASE Record(c) \/ RecordBusy(c) \/ LateError(c)
      BY <3>7 DEF Record, RecordBusy, LateError
    <3> QED BY <2>2, <3>1, <3>2, <3>3, <3>4, <3>5, <3>6, <3>7 DEF CallerStep
  <2>3. ASSUME NEW c \in Callers, Crash(c) PROVE GrantKept'
    BY <2>3 DEF Crash
  <2>4. CASE UNCHANGED vars
    BY <2>4 DEF vars
  <2> QED BY <2>1, <2>2, <2>3, <2>4 DEF Next
<1>3. Inv => SentOnlyIfGranted
  BY DEF GrantKept, SentOnlyIfGranted
<1> QED BY <1>1, <1>2, <1>3, PTL DEF Spec

-----------------------------------------------------------------------------
(* A known effect is repeated once at most *)

\* The calls past a lookup that missed: what is recorded from now on they do not read.
Late ==
  {c \in Callers : (c \notin Fresh \/ http) /\ pc[c] \in {"approve", "request", "unfinished", "begin"}}

\* "Known-completed effects are never automatically repeated" is broken by one call at most: only a call
\* that is past its lookup when the effect becomes known can send it, there is one such call,
\* sending takes it out, and nobody gets there any more (guarded_call, http_effect).
THEOREM KnownIsRepeatedOnce ==
  Spec => /\ [](\A c, d \in Late : c = d)
          /\ [][known => known' /\ Late' \subseteq Late]_vars
          /\ [][\A c \in Callers : c \notin Fresh /\ pc[c] = "begin" /\ pc'[c] = "calling"
                  => c \in Late \ Late']_vars
<1>1. IInv => \A c, d \in Late : c = d
  BY DEF IInv, OneClaims, Late, Claiming
<1>2. IInv /\ [Next]_vars => [known => Late' \subseteq Late]_vars
  <2> SUFFICES ASSUME IInv, Next, known PROVE Late' \subseteq Late
    OBVIOUS
  <2> USE DEF IInv, TypeOK, Goto, Late
  <2>1. CASE OwnerDecides
    BY <2>1 DEF OwnerDecides
  <2>2. ASSUME NEW c \in Callers, CallerStep(c) PROVE Late' \subseteq Late
    <3>1. CASE EnterClaim(c) \/ ClaimBusy(c) \/ Replay(c) \/ LookupMisses(c)
      BY <3>1 DEF EnterClaim, ClaimBusy, Replay, LookupMisses
    <3>2. CASE Approved(c) \/ Denied(c) \/ Undecided(c) \/ Request(c)
      BY <3>2 DEF Approved, Denied, Undecided, Request
    <3>3. CASE Halt(c) \/ Proceed(c) \/ Begin(c) \/ BeginBusy(c)
      BY <3>3 DEF Halt, Proceed, Begin, BeginBusy
    <3>4. CASE CallReturns(c) \/ CallRaises(c) \/ CallUnverified(c)
      BY <3>4 DEF CallReturns, CallRaises, CallUnverified
    <3>5. CASE Record(c) \/ RecordBusy(c) \/ LateError(c)
      BY <3>5 DEF Record, RecordBusy, LateError
    <3> QED BY <2>2, <3>1, <3>2, <3>3, <3>4, <3>5 DEF CallerStep
  <2>3. ASSUME NEW c \in Callers, Crash(c) PROVE Late' \subseteq Late
    BY <2>3 DEF Crash
  <2> QED BY <2>1, <2>2, <2>3 DEF Next
<1>3. [Next]_vars => [known => known']_vars
  <2> SUFFICES ASSUME Next, known PROVE known'
    OBVIOUS
  <2>1. ASSUME NEW c \in Callers, Record(c) PROVE known'
    BY <2>1, Zenon DEF Record
  <2>2. ASSUME NEW c \in Callers, CallerStep(c) \/ Crash(c), ~Record(c) PROVE known' = known
    BY <2>2, Zenon DEF CallerStep, Crash, EnterClaim, ClaimBusy, Replay, LookupMisses, Approved,
       Denied, Undecided, Request, Halt, Proceed, Begin, BeginBusy, CallReturns, CallRaises, CallUnverified,
       RecordBusy, LateError
  <2>3. OwnerDecides => known' = known
    BY Zenon DEF OwnerDecides
  <2> QED BY <2>1, <2>2, <2>3, Zenon DEF Next
<1>4. [\A c \in Callers : c \notin Fresh /\ pc[c] = "begin" /\ pc'[c] = "calling"
         => c \in Late \ Late']_vars
  BY DEF Late
<1> QED BY <1>1, <1>2, <1>3, <1>4, IInvInit, IInvStep, PTL DEF Spec
=============================================================================
