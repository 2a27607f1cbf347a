---------------------------- MODULE TrustProofs ----------------------------
(***************************************************************************)
(* A proven runbook earned it, for any number of users, contents and runs, *)
(* and any thresholds; and a compiled procedure is proven or quarantined   *)
(* for what its present bytes did, for any number of tasks and any suite.  *)
(***************************************************************************)
EXTENDS Trust, Procedure, Frontier, FiniteSetTheorems, TLAPS

\* Accepted runs of the bytes b that are not recorded yet.
Pending(b) == {p \in Users : use[p].at = "record" /\ use[p].accepted /\ use[p].ran = b}

\* The wins the entry has for the bytes b.
Recorded(b) == IF trust.bytes = b THEN trust.wins ELSE 0

\* Every win recorded or about to be was earned by these bytes or misfiled.
WinsBacked == \A b \in Contents : Recorded(b) + Cardinality(Pending(b)) <= earned[b] + misfiled

ProvenHasWins == trust.status = "proven" => trust.wins >= PromoteWins

TrInv == TrTypeOK /\ WinsBacked /\ ProvenHasWins

LEMMA TrTypes == ASSUME TrTypeOK, [TrNext]_trVars PROVE TrTypeOK'
<1> USE TrustAssumption DEF TrTypeOK
<1>1. ASSUME NEW p \in Users, NEW allow \in BOOLEAN, Run(p, allow)
      PROVE  TrTypeOK'
  <2>1. /\ runs' = runs + 1 /\ use' = [use EXCEPT ![p].at = "steps", ![p].ran = book]
        /\ UNCHANGED <<book, trust, earned, misfiled, edits>>
    BY <1>1, Zenon DEF Run
  <2>2. use[p] \in Uses
    OBVIOUS
  <2>3. [use[p] EXCEPT !.at = "steps", !.ran = book] \in Uses
    BY <2>2 DEF Uses
  <2>4. use' = [use EXCEPT ![p] = [use[p] EXCEPT !.at = "steps", !.ran = book]]
    BY <2>1
  <2> QED
    BY <2>1, <2>3, <2>4
<1>2. ASSUME NEW p \in Users, Stops(p) \/ Rejected(p)
      PROVE  TrTypeOK'
  BY <1>2 DEF Stops, Rejected, Outcome, Uses
<1>3. ASSUME NEW p \in Users, Accepted(p)
      PROVE  TrTypeOK'
  <2>1. use[p].ran \in Contents
    BY DEF Uses
  <2>2. earned' \in [Contents -> Nat]
    BY <1>3, <2>1 DEF Accepted
  <2>3. use' = [use EXCEPT ![p].at = "record", ![p].ok = TRUE, ![p].accepted = TRUE]
        /\ UNCHANGED <<book, trust, misfiled, runs, edits>>
    BY <1>3 DEF Accepted, Outcome
  <2>4. [use[p] EXCEPT !.at = "record", !.ok = TRUE, !.accepted = TRUE] \in Uses
    BY DEF Uses
  <2>5. use' = [use EXCEPT ![p] = [use[p] EXCEPT !.at = "record", !.ok = TRUE, !.accepted = TRUE]]
    BY <2>3
  <2> QED
    BY <2>2, <2>3, <2>4, <2>5
<1>4. ASSUME NEW p \in Users, RecordOutcome(p)
      PROVE  TrTypeOK'
  <2>1. Entry \in Entries
    BY DEF Entry, NewEntry, Entries
  <2>2. ASSUME NEW e \in Entries, NEW accepted PROVE Won(e, accepted) \in Entries
    <3> DEFINE wins == IF accepted THEN e.wins + 1 ELSE e.wins
    <3>1. wins \in Nat
      BY DEF Entries
    <3> DEFINE st == IF e.status = "candidate" /\ wins >= PromoteWins THEN "proven" ELSE e.status
    <3>2. Won(e, accepted) =
            [e EXCEPT !.wins = wins, !.streak = 0, !.bytes = book, !.status = st]
      BY Zenon DEF Won
    <3>3. st \in {"candidate", "proven", "quarantined"}
      BY DEF Entries
    <3> HIDE DEF wins, st
    <3>4. \A w \in Nat, s \in {"candidate", "proven", "quarantined"} :
            [e EXCEPT !.wins = w, !.streak = 0, !.bytes = book, !.status = s] \in Entries
      BY DEF Entries
    <3>5. [e EXCEPT !.wins = wins, !.streak = 0, !.bytes = book, !.status = st] \in Entries
      BY <3>1, <3>3, <3>4, Zenon
    <3> QED
      BY <3>2, <3>5, Zenon
  <2>3. ASSUME NEW e \in Entries PROVE LostOne(e) \in Entries
    <3> DEFINE st == IF e.streak + 1 >= QuarantineLosses THEN "quarantined" ELSE e.status
    <3>1. LostOne(e) = [e EXCEPT !.streak = e.streak + 1, !.bytes = book, !.status = st]
      BY Zenon DEF LostOne
    <3>2. st \in {"candidate", "proven", "quarantined"} /\ e.streak + 1 \in Nat
      BY DEF Entries
    <3> HIDE DEF st
    <3> QED
      BY <3>1, <3>2 DEF Entries
  <2>4. trust' \in Entries
    BY <1>4, <2>1, <2>2, <2>3, Zenon DEF RecordOutcome
  <2>5. misfiled' \in Nat
    BY <1>4 DEF RecordOutcome
  <2> QED
    BY <1>4, <2>4, <2>5 DEF RecordOutcome, Off, NoUse, Uses
<1>5. ASSUME NEW p \in Users, Forgotten(p)
      PROVE  TrTypeOK'
  BY <1>5 DEF Forgotten, Off, NoUse, Uses
<1>6. CASE Clear
  BY <1>6 DEF Clear, Entries
<1>7. CASE Author
  BY <1>7 DEF Author
<1>8. CASE UNCHANGED trVars
  BY <1>8 DEF trVars
<1> QED
  BY <1>1, <1>2, <1>3, <1>4, <1>5, <1>6, <1>7, <1>8 DEF TrNext

LEMMA PendingFinite ==
  ASSUME NEW b PROVE IsFiniteSet(Pending(b)) /\ Cardinality(Pending(b)) \in Nat
<1>1. IsFiniteSet(Users)
  BY TrustAssumption
<1>2. Pending(b) \subseteq Users
  BY DEF Pending
<1> QED
  BY <1>1, <1>2, FS_Subset, FS_CardinalityType

LEMMA PendingFiniteNext ==
  ASSUME NEW b PROVE Cardinality(Pending(b)') \in Nat
<1>1. IsFiniteSet(Users)
  BY TrustAssumption
<1>2. Pending(b)' \subseteq Users
  BY DEF Pending
<1> QED
  BY <1>1, <1>2, FS_Subset, FS_CardinalityType

\* What a step that leaves the records alone does to the backing.
LEMMA SamePending ==
  ASSUME TrTypeOK, NEW b \in Contents, NEW p \in Users, NEW u,
         use' = [use EXCEPT ![p] = u],
         ~(u.at = "record" /\ u.accepted /\ u.ran = b)
  PROVE  /\ Pending(b)' = Pending(b) \ {p}
         /\ Cardinality(Pending(b)') =
              IF p \in Pending(b) THEN Cardinality(Pending(b)) - 1 ELSE Cardinality(Pending(b))
<1>1. \A q \in Users : use'[q] = IF q = p THEN u ELSE use[q]
  BY DEF TrTypeOK
<1>2. Pending(b)' = Pending(b) \ {p}
  BY <1>1 DEF Pending
<1>3. IsFiniteSet(Pending(b))
  BY PendingFinite
<1> QED
  BY <1>2, <1>3, FS_RemoveElement

\* What record makes of the entry: its bytes, its wins, and when it is proven.
LEMMA RecordedWins ==
  ASSUME TrInv, NEW p \in Users, RecordOutcome(p)
  PROVE  /\ trust'.bytes = book
         /\ trust'.wins <= Recorded(book) + (IF use[p].accepted THEN 1 ELSE 0)
         /\ ProvenHasWins'
<1> USE TrustAssumption
<1>1. /\ Entry \in Entries /\ Entry.wins = Recorded(book)
      /\ Entry.status = "proven" => Entry.wins >= PromoteWins
  BY DEF TrInv, TrTypeOK, ProvenHasWins, Entry, NewEntry, Entries, Recorded
<1>2. CASE use[p].ok
  <2> DEFINE wins == IF use[p].accepted THEN Entry.wins + 1 ELSE Entry.wins
             st == IF Entry.status = "candidate" /\ wins >= PromoteWins
                   THEN "proven" ELSE Entry.status
  <2>1. trust' = [Entry EXCEPT !.wins = wins, !.streak = 0, !.bytes = book, !.status = st]
    BY <1>2, Zenon DEF RecordOutcome, Won
  <2>2. wins <= Entry.wins + (IF use[p].accepted THEN 1 ELSE 0)
    BY <1>1 DEF Entries
  <2>3. st = "proven" => wins >= PromoteWins
    BY <1>1 DEF Entries
  <2> HIDE DEF wins, st
  <2>4. trust'.bytes = book /\ trust'.wins = wins /\ trust'.status = st
    BY <1>1, <2>1 DEF Entries
  <2> QED
    BY <1>1, <2>2, <2>3, <2>4 DEF ProvenHasWins
<1>3. CASE ~use[p].ok
  <2> DEFINE st == IF Entry.streak + 1 >= QuarantineLosses
                   THEN "quarantined" ELSE Entry.status
  <2>1. trust' = [Entry EXCEPT !.streak = Entry.streak + 1, !.bytes = book, !.status = st]
    BY <1>3, Zenon DEF RecordOutcome, LostOne
  <2>2. st = "proven" => Entry.status = "proven"
    OBVIOUS
  <2> HIDE DEF st
  <2>3. trust'.bytes = book /\ trust'.wins = Entry.wins /\ trust'.status = st
    BY <1>1, <2>1 DEF Entries
  <2>4. Entry.wins \in Nat
    BY <1>1 DEF Entries
  <2>5. Entry.wins <= Recorded(book) + (IF use[p].accepted THEN 1 ELSE 0)
    BY <1>1, <2>4
  <2> QED
    BY <1>1, <2>2, <2>3, <2>5 DEF ProvenHasWins
<1> QED
  BY <1>2, <1>3

LEMMA BackedStep == ASSUME TrInv, [TrNext]_trVars PROVE WinsBacked' /\ ProvenHasWins'
<1> USE DEF TrInv
<1>1. \A b \in Contents : /\ Cardinality(Pending(b)) \in Nat /\ Recorded(b) \in Nat
                          /\ earned[b] \in Nat /\ misfiled \in Nat
                          /\ Recorded(b) + Cardinality(Pending(b)) <= earned[b] + misfiled
  BY PendingFinite DEF TrTypeOK, Entries, WinsBacked, Recorded
<1>2. ASSUME UNCHANGED <<earned, misfiled>>, NEW p \in Users, NEW u,
             use' = [use EXCEPT ![p] = u], ~(u.at = "record" /\ u.accepted),
             UNCHANGED trust
      PROVE  WinsBacked' /\ ProvenHasWins'
  <2>1. ASSUME NEW b \in Contents
        PROVE  Cardinality(Pending(b)') <= Cardinality(Pending(b))
    <3>1. Cardinality(Pending(b)') =
            IF p \in Pending(b) THEN Cardinality(Pending(b)) - 1 ELSE Cardinality(Pending(b))
      BY <1>2, SamePending, Zenon
    <3> QED
      BY <3>1, <1>1
  <2>2. ASSUME NEW b \in Contents PROVE Cardinality(Pending(b)') \in Nat
    BY PendingFiniteNext
  <2>3. \A b \in Contents : Recorded(b)' = Recorded(b)
    BY <1>2 DEF Recorded
  <2> QED
    BY <1>1, <1>2, <2>1, <2>2, <2>3 DEF WinsBacked, ProvenHasWins
<1>3. ASSUME NEW p \in Users, NEW allow \in BOOLEAN, Run(p, allow)
      PROVE  WinsBacked' /\ ProvenHasWins'
  <2> DEFINE u == [use[p] EXCEPT !.at = "steps", !.ran = book]
  <2>1. use' = [use EXCEPT ![p] = u] /\ UNCHANGED <<earned, misfiled, trust>>
    BY <1>3, Zenon DEF Run
  <2>2. u.at # "record"
    BY DEF TrTypeOK, Uses
  <2> HIDE DEF u
  <2> QED
    BY <1>2, <2>1, <2>2, Zenon
<1>4. ASSUME NEW p \in Users, Stops(p) \/ Rejected(p)
      PROVE  WinsBacked' /\ ProvenHasWins'
  <2>1. PICK ok \in BOOLEAN : Outcome(p, ok, FALSE) /\ UNCHANGED earned
    BY <1>4, Zenon DEF Stops, Rejected
  <2> DEFINE u == [use[p] EXCEPT !.at = "record", !.ok = ok, !.accepted = FALSE]
  <2>2. use' = [use EXCEPT ![p] = u] /\ UNCHANGED <<earned, misfiled, trust>>
    BY <2>1, Zenon DEF Outcome
  <2>3. ~u.accepted
    BY DEF TrTypeOK, Uses
  <2> HIDE DEF u
  <2> QED
    BY <1>2, <2>2, <2>3, Zenon
<1>5. ASSUME NEW p \in Users, Accepted(p)
      PROVE  WinsBacked' /\ ProvenHasWins'
  <2> DEFINE r == use[p].ran
  <2>1. r \in Contents /\ use[p].at = "steps"
    BY <1>5 DEF TrTypeOK, Uses, Accepted, Outcome
  <2>2. /\ \A q \in Users : q # p => use'[q] = use[q]
        /\ use'[p].at = "record" /\ use'[p].accepted /\ use'[p].ran = r
    BY <1>5 DEF Accepted, Outcome, TrTypeOK, Uses
  <2>3. earned' = [earned EXCEPT ![r] = @ + 1] /\ UNCHANGED <<misfiled, trust>>
    BY <1>5, Zenon DEF Accepted, Outcome
  <2>4. ASSUME NEW b \in Contents, b # r PROVE Pending(b)' = Pending(b)
    BY <2>2, <2>4, <2>1 DEF Pending
  <2>5. ASSUME NEW b \in Contents, b = r
        PROVE  Cardinality(Pending(b)') = Cardinality(Pending(b)) + 1
    <3>1. Pending(b)' = Pending(b) \cup {p} /\ p \notin Pending(b)
      BY <2>1, <2>2, <2>5 DEF Pending
    <3> QED
      BY <3>1, PendingFinite, FS_AddElement
  <2>6. \A b \in Contents : earned'[b] = IF b = r THEN earned[b] + 1 ELSE earned[b]
    BY <2>3 DEF TrTypeOK
  <2>7. \A b \in Contents : Recorded(b)' = Recorded(b)
    BY <2>3 DEF Recorded
  <2> HIDE DEF r
  <2>8. ASSUME NEW b \in Contents
        PROVE  Recorded(b)' + Cardinality(Pending(b)') <= earned'[b] + misfiled'
    <3>1. CASE b = r
      <4>1. Cardinality(Pending(b)') = Cardinality(Pending(b)) + 1
        BY <2>5, <3>1
      <4> QED
        BY <1>1, <2>3, <2>6, <2>7, <3>1, <4>1
    <3>2. CASE b # r
      <4>1. Cardinality(Pending(b)') = Cardinality(Pending(b))
        BY <2>4, <3>2
      <4> QED
        BY <1>1, <2>3, <2>6, <2>7, <3>2, <4>1
    <3> QED
      BY <3>1, <3>2
  <2> QED
    BY <2>3, <2>8 DEF WinsBacked, ProvenHasWins
<1>6. ASSUME NEW p \in Users, RecordOutcome(p)
      PROVE  WinsBacked' /\ ProvenHasWins'
  <2>1. use' = [use EXCEPT ![p] = NoUse(book)] /\ use[p].at = "record" /\ earned' = earned
    BY <1>6, Zenon DEF RecordOutcome, Off
  <2>2. NoUse(book).at # "record"
    BY DEF NoUse
  <2>3. ASSUME NEW b \in Contents
        PROVE  Cardinality(Pending(b)') =
                 IF p \in Pending(b) THEN Cardinality(Pending(b)) - 1 ELSE Cardinality(Pending(b))
    BY <2>1, <2>2, SamePending, Zenon
  <2>4. p \in Pending(book) <=> use[p].accepted /\ use[p].ran = book
    BY <2>1 DEF Pending
  <2>5. /\ use[p].accepted /\ use[p].ran # book => misfiled' = misfiled + 1
        /\ ~(use[p].accepted /\ use[p].ran # book) => misfiled' = misfiled
    BY <1>6, Zenon DEF RecordOutcome
  <2>6. /\ trust'.bytes = book /\ ProvenHasWins'
        /\ trust'.wins <= Recorded(book) + (IF use[p].accepted THEN 1 ELSE 0)
    BY <1>6, RecordedWins, Zenon
  <2>7. trust' \in Entries /\ misfiled' \in Nat
    BY TrTypes DEF TrTypeOK
  <2>8. ASSUME NEW b \in Contents
        PROVE  /\ Cardinality(Pending(b)') \in Nat
               /\ Cardinality(Pending(b)') <= Cardinality(Pending(b))
    BY <1>1, <2>3, PendingFiniteNext
  <2>9. ASSUME NEW b \in Contents
        PROVE  Recorded(b)' + Cardinality(Pending(b)') <= earned'[b] + misfiled'
    <3>1. CASE b # book
      <4>1. Recorded(b)' = 0
        BY <2>6, <3>1 DEF Recorded
      <4> QED
        BY <1>1, <2>1, <2>5, <2>7, <2>8, <4>1
    <3>2. CASE b = book
      <4>1. Recorded(b)' = trust'.wins /\ trust'.wins \in Nat
        BY <2>6, <2>7, <3>2 DEF Recorded, Entries
      <4>2. book \in Contents
        BY DEF TrTypeOK
      <4>3. CASE ~use[p].accepted
        BY <1>1, <2>1, <2>5, <2>6, <2>8, <3>2, <4>1, <4>2, <4>3
      <4>4. CASE use[p].accepted /\ use[p].ran # book
        BY <1>1, <2>1, <2>5, <2>6, <2>8, <3>2, <4>1, <4>2, <4>4
      <4>5. CASE use[p].accepted /\ use[p].ran = book
        BY <1>1, <2>1, <2>3, <2>4, <2>5, <2>6, <3>2, <4>1, <4>2, <4>5
      <4> QED
        BY <4>3, <4>4, <4>5
    <3> QED
      BY <3>1, <3>2
  <2> QED
    BY <2>6, <2>9 DEF WinsBacked
<1>7. ASSUME NEW p \in Users, Forgotten(p)
      PROVE  WinsBacked' /\ ProvenHasWins'
  <2>1. use' = [use EXCEPT ![p] = NoUse(book)] /\ UNCHANGED <<earned, misfiled, trust>>
    BY <1>7, Zenon DEF Forgotten, Off
  <2>2. NoUse(book).at # "record"
    BY DEF NoUse
  <2> QED
    BY <1>2, <2>1, <2>2, Zenon
<1>8. CASE Clear
  <2>1. /\ trust'.wins = trust.wins /\ trust'.bytes = trust.bytes
        /\ trust'.status = "candidate" /\ UNCHANGED <<use, earned, misfiled>>
    BY <1>8 DEF Clear, TrTypeOK, Entries
  <2>2. \A b \in Contents : Recorded(b)' = Recorded(b) /\ Pending(b)' = Pending(b)
    BY <2>1 DEF Recorded, Pending
  <2> QED
    BY <2>1, <2>2 DEF WinsBacked, ProvenHasWins
<1>9. CASE Author \/ UNCHANGED trVars
  <2>1. UNCHANGED <<trust, use, earned, misfiled>>
    BY <1>9 DEF Author, trVars
  <2>2. \A b \in Contents : Recorded(b)' = Recorded(b) /\ Pending(b)' = Pending(b)
    BY <2>1 DEF Recorded, Pending
  <2> QED
    BY <2>1, <2>2 DEF WinsBacked, ProvenHasWins
<1> QED
  BY <1>3, <1>4, <1>5, <1>6, <1>7, <1>8, <1>9, Zenon DEF TrNext

-----------------------------------------------------------------------------
\* The types, the backing of every win, and the wins of a proven entry, always.
THEOREM TrInvHolds == TrSpec => []TrInv
<1>1. TrInit => TrInv
  <2>1. ASSUME TrInit PROVE TrTypeOK
    <3>1. 0 \in Nat
      OBVIOUS
    <3> QED
      BY <2>1, <3>1 DEF TrInit, TrTypeOK, NoUse, NewEntry, Uses, Entries
  <2>2. ASSUME TrInit, NEW b \in Contents
        PROVE  Recorded(b) + Cardinality(Pending(b)) <= earned[b] + misfiled
    <3>1. Recorded(b) = 0 /\ earned[b] = 0 /\ misfiled = 0
      BY <2>2 DEF TrInit, NewEntry, Recorded
    <3>2. Pending(b) = {}
      BY <2>2 DEF TrInit, NoUse, Pending
    <3> QED
      BY <3>1, <3>2, FS_EmptySet
  <2>3. TrInit => ProvenHasWins
    BY DEF TrInit, NewEntry, ProvenHasWins
  <2> QED
    BY <2>1, <2>2, <2>3 DEF TrInv, WinsBacked
<1>2. TrInv /\ [TrNext]_trVars => TrInv'
  BY TrTypes, BackedStep DEF TrInv
<1> QED
  BY <1>1, <1>2, PTL DEF TrSpec

\* A runbook that runs as proven was accepted as often as promotion asks, but for
\* the wins other bytes left to it (runbook.record, status).
THEOREM ProvenIsEarnedHolds == TrSpec => []ProvenIsEarned
<1>1. TrInv => ProvenIsEarned
  <2> SUFFICES ASSUME TrInv, Status = "proven"
               PROVE  earned[book] + misfiled >= PromoteWins
    BY DEF ProvenIsEarned
  <2>1. trust.bytes = book /\ trust.status = "proven"
    BY DEF Status
  <2>2. /\ trust.wins >= PromoteWins /\ Recorded(book) = trust.wins
        /\ Recorded(book) + Cardinality(Pending(book)) <= earned[book] + misfiled
    BY <2>1 DEF TrInv, TrTypeOK, WinsBacked, ProvenHasWins, Recorded
  <2>3. /\ Cardinality(Pending(book)) \in Nat /\ trust.wins \in Nat
        /\ earned[book] \in Nat /\ misfiled \in Nat /\ PromoteWins \in Nat
    BY PendingFinite, TrustAssumption DEF TrInv, TrTypeOK, Entries
  <2> QED
    BY <2>2, <2>3
<1> QED
  BY <1>1, TrInvHolds, PTL

\* Until the owner clears a quarantine, a candidate has fewer wins than promotion asks.
FallsShort == trust.status = "candidate" => trust.wins < PromoteWins

\* "Only accepted wins promote" (record) is broken by clear_quarantine alone: until the owner clears one,
\* a candidate becomes proven only by an accepted run, whatever is rewritten, killed or misfiled.
THEOREM OnlyClearBuysTrust == TrSpec /\ [][~Clear]_trVars => OnlyAcceptedPromotes
<1>1. TrInit => FallsShort
  BY TrustAssumption DEF TrInit, NewEntry, FallsShort
<1> DEFINE Earns == trust.status = "candidate" /\ trust'.status = "proven" =>
                      \E p \in Users : use[p].at = "record" /\ use[p].accepted
<1>2. ASSUME TrInv, FallsShort, [TrNext]_trVars, [~Clear]_trVars PROVE FallsShort' /\ Earns
  <2>1. CASE trust' = trust
    BY <1>2, <2>1 DEF FallsShort
  <2>2. ASSUME NEW p \in Users, RecordOutcome(p) PROVE FallsShort' /\ Earns
    <3>1. PICK e : e = Entry
      OBVIOUS
    <3>2. /\ e \in Entries /\ (e.status = "candidate" => e.wins < PromoteWins)
          /\ trust.status = "candidate" => e.status = "candidate"
      <4>1. book \in Contents /\ trust \in Entries
        BY <1>2 DEF TrInv, TrTypeOK
      <4>2. CASE e = trust
        BY <1>2, <4>1, <4>2 DEF FallsShort
      <4>3. CASE e = NewEntry(book)
        BY <4>1, <4>3, TrustAssumption DEF NewEntry, Entries
      <4> QED BY <3>1, <4>2, <4>3 DEF Entry
    <3>3. use[p].at = "record"
          /\ (trust' = Won(e, use[p].accepted) \/ trust' = LostOne(e))
      BY <2>2, <3>1 DEF RecordOutcome
    <3>4. CASE trust' = Won(e, use[p].accepted)
      <4>1. /\ trust'.wins = IF use[p].accepted THEN e.wins + 1 ELSE e.wins
            /\ trust'.status = IF e.status = "candidate" /\ trust'.wins >= PromoteWins
                               THEN "proven" ELSE e.status
            /\ e.wins \in Nat
        BY <3>2, <3>4 DEF Won, Entries
      <4>2. trust'.wins \in Nat /\ PromoteWins \in Nat
        BY <4>1, TrustAssumption
      <4> QED BY <3>2, <3>3, <4>1, <4>2 DEF FallsShort
    <3>5. CASE trust' = LostOne(e)
      <4>1. trust'.wins = e.wins /\ trust'.status \in {"quarantined", e.status}
        BY <3>2, <3>5 DEF LostOne, Entries
      <4> QED BY <3>2, <4>1 DEF FallsShort
    <3> QED BY <3>3, <3>4, <3>5
  <2>3. CASE UNCHANGED trVars
    BY <2>1, <2>3 DEF trVars
  <2>4. CASE Clear
    <3>1. UNCHANGED trVars
      BY <1>2, <2>4
    <3> QED BY <2>3, <3>1
  <2>5. CASE Author
    BY <2>1, <2>5 DEF Author
  <2>6. ASSUME NEW p \in Users, NEW allow \in BOOLEAN, Run(p, allow) PROVE trust' = trust
    BY <2>6 DEF Run
  <2>7. ASSUME NEW p \in Users, Stops(p) \/ Rejected(p) \/ Accepted(p) \/ Forgotten(p)
        PROVE  trust' = trust
    BY <2>7 DEF Stops, Rejected, Accepted, Outcome, Forgotten
  <2> QED
    BY <1>2, <2>1, <2>2, <2>3, <2>4, <2>5, <2>6, <2>7 DEF TrNext
<1>3. TrInv /\ FallsShort /\ [TrNext]_trVars /\ [~Clear]_trVars => FallsShort'
  BY <1>2
<1>4. TrInv /\ FallsShort /\ [TrNext]_trVars /\ [~Clear]_trVars => [Earns]_trVars
  BY <1>2
<1> QED
  BY <1>1, <1>3, <1>4, TrInvHolds, PTL DEF TrSpec, OnlyAcceptedPromotes

-----------------------------------------------------------------------------
(* Compiled procedures (Procedure).                                        *)

\* Where the task's trajectory cannot be closed yet.
Unfinished == {"new", "match", "replay", "failed", "passed", "refused", "commit", "work", "file"}

Unclosed == \A t \in Jobs : doing[t].at \in Unfinished => traj[t].state # "closed"

AcceptedClosed == \A t \in Jobs : traj[t].accepted => traj[t].state = "closed"

\* Compiled from accepted runs that did different work.
Learned(b) == /\ \A u \in b : traj[u].accepted
              /\ Cardinality({traj[u].work : u \in b}) >= 2

\* Where something has been compiled for sure.
Evaluating == {"suite", "case", "arena", "result", "evidence"}

LearnedAll ==
  /\ \A t \in Jobs :
       /\ doing[t].at \in {"known", "compile", "case", "arena", "result", "evidence"} =>
            Learned(doing[t].bytes)
       /\ doing[t].at \in Evaluating => Learned(proc)
       /\ doing[t].at = "evidence" => Learned(doing[t].seen)
  /\ \A r \in receipts : Learned(r.bytes)

InSuite == \A t \in Jobs :
  /\ doing[t].at \in {"case", "arena", "result", "evidence"} => doing[t].next >= 1
  /\ doing[t].at \in {"arena", "result", "evidence"} => doing[t].next \in DOMAIN Suite

\* What an entry counts is accepted evidence, of its own bytes or strayed to them.
Counted(e) ==
  /\ e.evidence \subseteq receipts
  /\ \A r \in e.evidence : r.ok /\ (r.bytes = e.bytes \/ r.case \in strayed[e.bytes])
  /\ e.status = "proven" => Diverse(CasesOf(e.evidence))
CreditEarned == Counted(credit)

CreditLearned == credit.evidence # {} => Learned(credit.bytes)

\* Failures of the bytes b that are not recorded yet, and those in the entry.
Failing(d, b) == d.bytes = b /\ (d.at = "failed" \/ (d.at \in {"result", "evidence"} /\ ~d.ok))
Unrecorded(b) == {t \in Jobs : Failing(doing[t], b)}
Streak(b) == IF credit.bytes = b THEN credit.streak ELSE 0

LossesBacked ==
  /\ \A b \in Bytes : Streak(b) + Cardinality(Unrecorded(b)) <= lost[b] + foreign
  /\ credit.status = "quarantined" => lost[credit.bytes] + foreign >= QuarantineAt

PrInv == /\ PrTypeOK /\ Unclosed /\ AcceptedClosed /\ LearnedAll /\ InSuite /\ CreditEarned
         /\ CreditLearned /\ LossesBacked

LEMMA AtIs ==
  ASSUME PrTypeOK, NEW t \in Jobs, NEW w \in Stations
  PROVE  /\ At(t, w) \in Doing /\ At(t, w).at = w /\ At(t, w).bytes = doing[t].bytes
         /\ At(t, w).next = doing[t].next /\ At(t, w).ok = doing[t].ok
         /\ At(t, w).seen = doing[t].seen
BY DEF PrTypeOK, Doing, At

LEMMA Moved ==
  ASSUME PrTypeOK, NEW t \in Jobs, NEW d \in Doing, NEW from, Passes(t, from, d)
  PROVE  /\ doing[t].at \in from
         /\ doing' \in [Jobs -> Doing] /\ doing'[t] = d
         /\ \A u \in Jobs : u # t => doing'[u] = doing[u]
BY DEF PrTypeOK, Passes

LEMMA NowhereIs ==
  /\ Nowhere \in Doing /\ Finished \in Doing /\ Finished.at = "over"
  /\ \A w \in Stations : /\ [Nowhere EXCEPT !.at = w] \in Doing
                         /\ [Nowhere EXCEPT !.at = w].at = w
BY DEF Nowhere, Finished, Doing, Stations, Bytes

LEMMA CreditType ==
  ASSUME PrTypeOK, NEW h \in Bytes
  PROVE  /\ Credit(h) \in Credits /\ Credit(h).bytes = h
         /\ \A b \in Bytes : NewCredit(b) \in Credits
BY DEF PrTypeOK, Credit, NewCredit, Credits, Bytes

\* The entry w is e after a win.
AfterWin(w, h, e, new) ==
  /\ w \in Credits /\ w.bytes = h /\ w.evidence = e.evidence \cup new /\ w.streak = 0
  /\ w.status = "proven" => e.status = "proven" \/ Diverse(CasesOf(e.evidence \cup new))
  /\ w.status = "quarantined" => e.status = "quarantined"

LEMMA WonType ==
  ASSUME PrTypeOK, NEW h \in Bytes, NEW e \in Credits, NEW new \in SUBSET Receipts
  PROVE  AfterWin(WonWith(h, e, new), h, e, new)
<1> DEFINE st == IF e.status = "candidate" /\ Diverse(CasesOf(e.evidence \cup new)) THEN "proven"
                 ELSE e.status
<1>1. WonWith(h, e, new) = [e EXCEPT !.bytes = h, !.evidence = e.evidence \cup new,
                                    !.streak = 0, !.status = st]
  BY Zenon DEF WonWith
<1>2. /\ st \in {"candidate", "proven", "quarantined"}
      /\ st = "proven" => e.status = "proven" \/ Diverse(CasesOf(e.evidence \cup new))
      /\ st = "quarantined" => e.status = "quarantined"
  BY DEF Credits
<1> HIDE DEF st
<1>3. e \in Credits /\ h \in Bytes
  OBVIOUS
<1>4. /\ WonWith(h, e, new).bytes = h /\ WonWith(h, e, new).evidence = e.evidence \cup new
      /\ WonWith(h, e, new).streak = 0 /\ WonWith(h, e, new).status = st
  BY <1>1, <1>3 DEF Credits
<1>5. WonWith(h, e, new) \in Credits
  <2>1. e.evidence \cup new \in SUBSET Receipts
    BY DEF Credits
  <2>2. \A c \in SUBSET Receipts : [e EXCEPT !.bytes = h, !.evidence = c, !.streak = 0,
                                           !.status = st] \in Credits
    BY <1>2, <1>3 DEF Credits
  <2> QED
    BY <1>1, <2>1, <2>2, Zenon
<1> QED
  BY <1>2, <1>4, <1>5 DEF AfterWin

LEMMA LostType ==
  ASSUME PrTypeOK, NEW h \in Bytes, NEW e \in Credits
  PROVE  /\ LostAgain(h, e) \in Credits
         /\ LostAgain(h, e).bytes = h /\ LostAgain(h, e).evidence = e.evidence
         /\ LostAgain(h, e).streak = e.streak + 1
         /\ LostAgain(h, e).status = "proven" => e.status = "proven"
         /\ LostAgain(h, e).status = "quarantined" =>
              e.status = "quarantined" \/ e.streak + 1 >= QuarantineAt
<1> DEFINE st == IF e.streak + 1 >= QuarantineAt THEN "quarantined" ELSE e.status
<1>1. LostAgain(h, e) = [e EXCEPT !.bytes = h, !.streak = e.streak + 1, !.status = st]
  BY Zenon DEF LostAgain
<1>2. /\ st \in {"candidate", "proven", "quarantined"}
      /\ st = "proven" => e.status = "proven"
      /\ st = "quarantined" => e.status = "quarantined" \/ e.streak + 1 >= QuarantineAt
  BY DEF Credits
<1> HIDE DEF st
<1>3. e \in Credits /\ h \in Bytes
  OBVIOUS
<1>4. /\ LostAgain(h, e).bytes = h /\ LostAgain(h, e).evidence = e.evidence
      /\ LostAgain(h, e).streak = e.streak + 1 /\ LostAgain(h, e).status = st
  BY <1>1, <1>3 DEF Credits
<1>5. LostAgain(h, e) \in Credits
  <2>1. e.streak + 1 \in Nat
    BY DEF Credits
  <2>2. \A n \in Nat : [e EXCEPT !.bytes = h, !.streak = n, !.status = st] \in Credits
    BY <1>2, <1>3 DEF Credits
  <2> QED
    BY <1>1, <2>1, <2>2, Zenon
<1> QED
  BY <1>2, <1>4, <1>5

\* What a step does to the place of its loop, and to the trajectories.
LEMMA TrajTypes ==
  ASSUME PrTypeOK, NEW t \in Jobs,
         NEW s \in {"none", "open", "closed"}, NEW w \in Works, NEW c \in BOOLEAN, NEW a \in BOOLEAN
  PROVE  /\ [traj EXCEPT ![t].state = s] \in [Jobs -> Trajectories]
         /\ [traj EXCEPT ![t].clean = c] \in [Jobs -> Trajectories]
         /\ [traj EXCEPT ![t].state = s, ![t].accepted = a] \in [Jobs -> Trajectories]
         /\ [traj EXCEPT ![t].work = w, ![t].clean = c] \in [Jobs -> Trajectories]
BY DEF PrTypeOK, Trajectories

LEMMA InCases ==
  ASSUME PrTypeOK, InSuite, NEW t \in Jobs, doing[t].at \in {"arena", "result", "evidence"}
  PROVE  Case(t) \in Cases
BY DEF InSuite, Case, Cases

LEMMA CreditNext ==
  ASSUME PrTypeOK, NEW h \in Bytes, NEW b \in Bytes, NEW new \in SUBSET Receipts,
         Wins(h, new) \/ Loses(h, b) \/ UNCHANGED <<credit, past>>
  PROVE  /\ credit' \in Credits /\ foreign' \in Nat /\ lost' = lost
         /\ strayed' \in [Bytes -> SUBSET Cases]
<1>1. CASE Wins(h, new)
  <2>1. credit' \in Credits /\ foreign' \in Nat /\ lost' = lost
    <3>1. AfterWin(credit', h, Credit(h), new)
      BY <1>1, CreditType, WonType, Zenon DEF Wins
    <3> QED
      BY <1>1, <3>1 DEF AfterWin, Wins, PrTypeOK
  <2>2. CasesOf(new) \in SUBSET Cases
    BY DEF CasesOf, Receipts
  <2>3. strayed' \in [Bytes -> SUBSET Cases]
    BY <1>1, <2>2 DEF Wins, PrTypeOK
  <2> QED
    BY <2>1, <2>3
<1>2. CASE Loses(h, b)
  <2>1. credit' \in Credits
    BY <1>2, CreditType, LostType, Zenon DEF Loses
  <2> QED
    BY <1>2, <2>1 DEF Loses, PrTypeOK
<1>3. CASE UNCHANGED <<credit, past>>
  BY <1>3 DEF past, PrTypeOK
<1> QED
  BY <1>1, <1>2, <1>3

\* What record is given: its entry keeps its types, and its loop goes on.
LEMMA JobTypes ==
  ASSUME PrTypeOK, InSuite, NEW t \in Jobs, JobStep(t)
  PROVE  PrTypeOK'
<1> USE DEF PrTypeOK
<1>0. /\ doing[t] \in Doing /\ doing[t].bytes \in Bytes /\ doing[t].next \in Nat
      /\ doing[t].ok \in BOOLEAN /\ doing[t].seen \in Bytes
  BY DEF Doing
<1>a. \A w \in Stations : At(t, w) \in Doing
  BY AtIs
<1>b. \A w \in Stations, b \in Bytes : [At(t, w) EXCEPT !.bytes = b] \in Doing
  BY <1>a DEF Doing
<1>c. \A w \in Stations, ok \in BOOLEAN : [At(t, w) EXCEPT !.ok = ok] \in Doing
  BY <1>a DEF Doing
<1>1. ASSUME NEW d \in Doing, NEW from, Passes(t, from, d)
      PROVE  doing' \in [Jobs -> Doing]
  BY <1>1, Moved
<1>d. ASSUME NEW from, Opens(t, from)
      PROVE  doing' \in [Jobs -> Doing] /\ traj' \in [Jobs -> Trajectories]
  <2>1. [Nowhere EXCEPT !.at = "work"] \in Doing
    BY NowhereIs DEF Stations
  <2> QED
    <3>1. Passes(t, from, [Nowhere EXCEPT !.at = "work"]) /\ traj' = [traj EXCEPT ![t].state = "open"]
      BY <1>d, Zenon DEF Opens
    <3>2. [traj EXCEPT ![t].state = "open"] \in [Jobs -> Trajectories]
      BY DEF Trajectories
    <3> QED
      BY <1>1, <2>1, <3>1, <3>2, Zenon
<1>2. CASE RouteMatches(t)
  <2>1. At(t, "match") \in Doing
    BY <1>a DEF Stations
  <2> QED
    BY <1>1, <1>2, <2>1, Zenon DEF RouteMatches, past
<1>3. CASE RouteMisses(t)
  BY <1>d, <1>3, Zenon DEF RouteMisses, past
<1>4. CASE RouteLoads(t)
  <2>1. [At(t, "replay") EXCEPT !.bytes = proc] \in Doing
    BY <1>b DEF Stations
  <2> QED
    BY <1>1, <1>4, <2>1, Zenon DEF RouteLoads, past
<1>5. CASE Declines(t)
  BY <1>d, <1>5, Zenon DEF Declines, past
<1>6. CASE ReplayFails(t)
  <2>1. At(t, "failed") \in Doing
    BY <1>a DEF Stations
  <2>2. lost' \in [Bytes -> Nat]
    BY <1>0, <1>6 DEF ReplayFails
  <2> QED
    BY <1>1, <1>6, <2>1, <2>2, Zenon DEF ReplayFails
<1>7. CASE StepsVerify(t)
  <2>1. At(t, "passed") \in Doing /\ At(t, "refused") \in Doing
    BY <1>a DEF Stations
  <2> QED
    BY <1>1, <1>7, <2>1, Zenon DEF StepsVerify, past
<1>8. CASE RecordsReplay(t)
  <2>1. At(t, "commit") \in Doing
    BY <1>a DEF Stations
  <2>2. doing' \in [Jobs -> Doing] /\ traj' \in [Jobs -> Trajectories]
    BY <1>1, <1>d, <1>8, <2>1, Zenon DEF RecordsReplay
  <2>3. {} \in SUBSET Receipts
    OBVIOUS
  <2>4. /\ credit' \in Credits /\ foreign' \in Nat /\ lost' = lost
        /\ strayed' \in [Bytes -> SUBSET Cases]
    BY <1>0, <1>8, <2>3, CreditNext, Zenon DEF RecordsReplay
  <2> QED
    BY <1>8, <2>2, <2>4, Zenon DEF RecordsReplay
<1>9. CASE CommitsDone(t)
  BY <1>1, <1>9, NowhereIs, Zenon DEF CommitsDone, past
<1>10. CASE WorkEnds(t)
  <2>1. \A ok \in BOOLEAN : [At(t, "file") EXCEPT !.ok = ok] \in Doing
    BY <1>c DEF Stations
  <2>2. doing' \in [Jobs -> Doing]
    BY <1>1, <1>10, <2>1, NowhereIs, Zenon DEF WorkEnds
  <2>3. PICK w \in Works, c \in BOOLEAN :
          traj' = [traj EXCEPT ![t].work = w, ![t].clean = traj[t].clean /\ c]
    BY <1>10, Zenon DEF WorkEnds
  <2>4. (traj[t].clean /\ c) \in BOOLEAN
    BY Zenon
  <2>5. traj' \in [Jobs -> Trajectories]
    BY <2>3, <2>4, TrajTypes, Zenon
  <2>6. UNCHANGED <<proc, receipts, credit, past, dead>>
    BY <1>10, Zenon DEF WorkEnds
  <2> QED
    BY <2>2, <2>5, <2>6, Zenon DEF past
<1>11. CASE Closes(t)
  <2> DEFINE a == traj[t].clean /\ doing[t].ok
             d == IF a THEN At(t, "rows") ELSE Finished
  <2>1. d \in Doing
    BY <1>a, NowhereIs DEF Stations
  <2>2. /\ traj' = [traj EXCEPT ![t].state = "closed", ![t].accepted = a]
        /\ Passes(t, {"file"}, d) /\ UNCHANGED <<proc, receipts, credit, past, dead>>
    BY <1>11, Zenon DEF Closes
  <2>3. a \in BOOLEAN
    BY <1>0
  <2>4. \A x \in BOOLEAN :
          [traj EXCEPT ![t].state = "closed", ![t].accepted = x] \in [Jobs -> Trajectories]
    BY DEF Trajectories
  <2>5. traj' \in [Jobs -> Trajectories]
    BY <2>2, <2>3, <2>4, Zenon
  <2> QED
    BY <1>1, <2>1, <2>2, <2>5, Zenon DEF past
<1>12. CASE NothingOpen(t)
  BY <1>1, <1>12, NowhereIs, Zenon DEF NothingOpen, past
<1>13. CASE ReadsRows(t)
  <2> DEFINE rows == {u \in Jobs : traj[u].accepted}
             d == IF Independent(rows) THEN [At(t, "known") EXCEPT !.bytes = rows] ELSE Finished
  <2>1. d \in Doing
    BY <1>b, NowhereIs DEF Stations, Bytes
  <2>2. Passes(t, {"rows"}, d) /\ UNCHANGED <<proc, traj, receipts, credit, past, dead>>
    BY <1>13, Zenon DEF ReadsRows
  <2> QED
    BY <1>1, <2>1, <2>2, Zenon DEF past
<1>14. CASE LearnsNothing(t)
  BY <1>1, <1>14, NowhereIs, Zenon DEF LearnsNothing, past
<1>15. CASE FindsNew(t)
  <2>1. At(t, "compile") \in Doing
    BY <1>a DEF Stations
  <2> QED
    BY <1>1, <1>15, <2>1, Zenon DEF FindsNew, past
<1>16. CASE Compiles(t)
  <2>1. At(t, "suite") \in Doing
    BY <1>a DEF Stations
  <2> QED
    BY <1>0, <1>1, <1>16, <2>1, Zenon DEF Compiles, past
<1>17. CASE EvalStarts(t)
  <2>1. [At(t, "case") EXCEPT !.bytes = proc, !.next = 1] \in Doing
    BY <1>a DEF Stations, Doing
  <2> QED
    BY <1>1, <1>17, <2>1, Zenon DEF EvalStarts, past
<1>18. NextCase(t) \in Doing
  <2>1. At(t, "case") \in Doing
    BY <1>a DEF Stations
  <2>2. At(t, "case").next + 1 \in Nat
    BY <2>1 DEF Doing
  <2> QED
    BY <2>1, <2>2 DEF NextCase, Doing
<1>19. CASE EvalNext(t)
  <2>1. At(t, "arena") \in Doing
    BY <1>a DEF Stations
  <2>2. PICK d \in Doing :
          Passes(t, {"case"}, d) /\ UNCHANGED <<proc, traj, receipts, credit, past, dead>>
    BY <1>18, <1>19, <2>1, NowhereIs DEF EvalNext
  <2> QED
    BY <1>1, <2>2, Zenon DEF past
<1>20. CASE EvalRuns(t)
  <2>1. PICK ok \in BOOLEAN :
          /\ Passes(t, {"arena"}, [At(t, "result") EXCEPT !.ok = ok])
          /\ receipts' = IF HasReceipt(t) THEN receipts
                         ELSE receipts \cup {Receipt(doing[t].bytes, Case(t), ok)}
          /\ lost' = IF ok THEN lost ELSE [lost EXCEPT ![doing[t].bytes] = @ + 1]
          /\ UNCHANGED <<proc, traj, credit, foreign, strayed, dead>>
    BY <1>20, Zenon DEF EvalRuns
  <2>2. [At(t, "result") EXCEPT !.ok = ok] \in Doing
    BY <1>c DEF Stations
  <2>3. Case(t) \in Cases
    BY <2>1, InCases DEF Passes
  <2>4. Receipt(doing[t].bytes, Case(t), ok) \in Receipts
    BY <1>0, <2>3 DEF Receipt, Receipts
  <2>5. receipts' \subseteq Receipts /\ lost' \in [Bytes -> Nat]
    BY <1>0, <2>1, <2>4
  <2> QED
    BY <1>1, <2>1, <2>2, <2>5, Zenon
<1>21. CASE EvalRecords(t)
  <2> DEFINE new == Evidence(doing[t].bytes, Case(t))
             d == [NextCase(t) EXCEPT !.seen = {}]
  <2>1. /\ Passes(t, {"evidence"}, d) /\ UNCHANGED <<proc, traj, receipts, dead>>
        /\ \/ Wins(doing[t].seen, new) \/ Loses(doing[t].seen, doing[t].bytes)
           \/ UNCHANGED <<credit, past>>
    BY <1>21, Zenon DEF EvalRecords
  <2>2. new \in SUBSET Receipts
    BY DEF Evidence
  <2>3. d \in Doing
    BY <1>18 DEF Doing, Bytes
  <2> HIDE DEF new, d
  <2>4. /\ credit' \in Credits /\ foreign' \in Nat /\ lost' = lost
        /\ strayed' \in [Bytes -> SUBSET Cases]
    BY <1>0, <2>1, <2>2, CreditNext, Zenon
  <2> QED
    BY <1>1, <2>1, <2>3, <2>4, Zenon
<1>24. CASE EvalLoads(t)
  <2>1. [At(t, "evidence") EXCEPT !.seen = proc] \in Doing
    BY <1>a DEF Stations, Doing
  <2> QED
    BY <1>1, <1>24, <2>1, Zenon DEF EvalLoads, past
<1>22. CASE EvalAborts(t)
  BY <1>1, <1>22, NowhereIs, Zenon DEF EvalAborts, past
<1>23. CASE LoopDies(t)
  <2>1. /\ \/ /\ \E from : Passes(t, from, [Nowhere EXCEPT !.at = "work"])
              /\ UNCHANGED traj
           \/ /\ UNCHANGED doing
              /\ traj' = [traj EXCEPT ![t].clean = FALSE]
           \/ /\ \E from : Passes(t, from, Finished)
              /\ UNCHANGED traj
        /\ UNCHANGED <<proc, receipts, credit, past>> /\ dead' = dead + 1
    BY <1>23, Zenon DEF LoopDies
  <2>2. [Nowhere EXCEPT !.at = "work"] \in Doing
    BY NowhereIs DEF Stations
  <2>3. doing' \in [Jobs -> Doing]
    BY <1>1, <2>1, <2>2, NowhereIs, Zenon
  <2>4. [traj EXCEPT ![t].clean = FALSE] \in [Jobs -> Trajectories]
    BY DEF Trajectories
  <2>5. traj' \in [Jobs -> Trajectories]
    BY <2>1, <2>4, Zenon
  <2> QED
    BY <2>1, <2>3, <2>5 DEF past
<1> QED
  BY <1>2, <1>3, <1>4, <1>5, <1>6, <1>7, <1>8, <1>9, <1>10, <1>11, <1>12, <1>13, <1>14,
     <1>15, <1>16, <1>17, <1>19, <1>20, <1>21, <1>22, <1>23, <1>24 DEF JobStep

\* Accepted runs stay as they are.
AcceptedStay == \A u \in Jobs : traj[u].accepted => /\ traj'[u].accepted
                                                    /\ traj'[u].work = traj[u].work

LEMMA TrajStep ==
  ASSUME PrTypeOK, Unclosed, AcceptedClosed, NEW t \in Jobs, JobStep(t)
  PROVE  Unclosed' /\ AcceptedClosed' /\ AcceptedStay
<1>0. doing[t] \in Doing /\ traj[t] \in Trajectories
  BY DEF PrTypeOK
<1>a. \A w \in Stations : At(t, w) \in Doing /\ At(t, w).at = w
  BY AtIs
<1>1. ASSUME NEW d \in Doing, NEW from, Passes(t, from, d), UNCHANGED traj,
             d.at \in Unfinished => from \subseteq Unfinished
      PROVE  Unclosed' /\ AcceptedClosed' /\ AcceptedStay
  BY <1>1, Moved DEF Unclosed, AcceptedClosed, AcceptedStay
<1>2. ASSUME NEW from \in SUBSET Unfinished, Opens(t, from)
      PROVE  Unclosed' /\ AcceptedClosed' /\ AcceptedStay
  <2> DEFINE d == [Nowhere EXCEPT !.at = "work"]
  <2>1. d \in Doing
    BY NowhereIs DEF Stations
  <2>2. Passes(t, from, d) /\ traj' = [traj EXCEPT ![t].state = "open"]
    BY <1>2, Zenon DEF Opens
  <2> HIDE DEF d
  <2>3. doing[t].at \in Unfinished /\ \A u \in Jobs : u # t => doing'[u] = doing[u]
    BY <2>1, <2>2, Moved
  <2>4. /\ \A u \in Jobs : u # t => traj'[u] = traj[u]
        /\ traj'[t].state = "open" /\ traj'[t].accepted = traj[t].accepted
        /\ traj'[t].work = traj[t].work
    BY <2>2, <1>0 DEF PrTypeOK, Trajectories
  <2>5. ~traj[t].accepted
    BY <2>3 DEF Unclosed, AcceptedClosed
  <2> QED
    BY <2>3, <2>4, <2>5 DEF Unclosed, AcceptedClosed, AcceptedStay
<1>3. CASE RouteMatches(t)
  <2>1. At(t, "match") \in Doing /\ {"new"} \subseteq Unfinished
    BY <1>a DEF Stations, Unfinished
  <2> QED
    BY <1>1, <1>3, <2>1, Zenon DEF RouteMatches
<1>4. CASE RouteMisses(t)
  <2>1. {"new", "match"} \in SUBSET Unfinished
    BY DEF Unfinished
  <2> QED
    BY <1>2, <1>4, <2>1, Zenon DEF RouteMisses
<1>5. CASE RouteLoads(t)
  <2>1. [At(t, "replay") EXCEPT !.bytes = proc] \in Doing /\ {"match"} \subseteq Unfinished
    BY <1>a DEF Stations, Unfinished, Doing, PrTypeOK
  <2> QED
    BY <1>1, <1>5, <2>1, Zenon DEF RouteLoads
<1>6. CASE Declines(t)
  <2>1. {"replay"} \in SUBSET Unfinished
    BY DEF Unfinished
  <2> QED
    BY <1>2, <1>6, <2>1, Zenon DEF Declines
<1>7. CASE ReplayFails(t)
  <2>1. At(t, "failed") \in Doing /\ {"replay"} \subseteq Unfinished
    BY <1>a DEF Stations, Unfinished
  <2> QED
    BY <1>1, <1>7, <2>1, Zenon DEF ReplayFails
<1>8. CASE StepsVerify(t)
  <2>1. At(t, "passed") \in Doing /\ At(t, "refused") \in Doing /\ {"replay"} \subseteq Unfinished
    BY <1>a DEF Stations, Unfinished
  <2> QED
    BY <1>1, <1>8, <2>1, Zenon DEF StepsVerify
<1>9. CASE RecordsReplay(t)
  <2>1. /\ At(t, "commit") \in Doing /\ {"passed"} \subseteq Unfinished
        /\ {"failed", "refused"} \in SUBSET Unfinished
    BY <1>a DEF Stations, Unfinished
  <2> QED
    BY <1>1, <1>2, <1>9, <2>1, Zenon DEF RecordsReplay
<1>10. /\ Finished \in Doing /\ Finished.at \notin Unfinished
       /\ [Nowhere EXCEPT !.at = "work"] \in Doing
  BY NowhereIs DEF Unfinished, Stations
<1>11. CASE CommitsDone(t)
  BY <1>1, <1>10, <1>11, Zenon DEF CommitsDone
<1>12. CASE WorkEnds(t)
  <2>1. PICK w \in Works, c \in BOOLEAN, gate \in BOOLEAN :
          /\ traj' = [traj EXCEPT ![t].work = w, ![t].clean = traj[t].clean /\ c]
          /\ \/ Passes(t, {"work"}, [At(t, "file") EXCEPT !.ok = gate])
             \/ Passes(t, {"work"}, Finished)
    BY <1>12, Zenon DEF WorkEnds
  <2>2. [At(t, "file") EXCEPT !.ok = gate] \in Doing
    BY <1>a DEF Stations, Doing
  <2>3. doing[t].at = "work" /\ \A u \in Jobs : u # t => doing'[u] = doing[u]
    BY <1>10, <2>1, <2>2, Moved
  <2>4. /\ \A u \in Jobs : u # t => traj'[u] = traj[u]
        /\ traj'[t].state = traj[t].state /\ traj'[t].accepted = traj[t].accepted
    BY <2>1, <1>0 DEF PrTypeOK, Trajectories
  <2>5. ~traj[t].accepted /\ traj[t].state # "closed"
    BY <2>3 DEF Unclosed, AcceptedClosed, Unfinished
  <2> QED
    BY <2>3, <2>4, <2>5 DEF Unclosed, AcceptedClosed, AcceptedStay
<1>13. CASE Closes(t)
  <2> DEFINE a == traj[t].clean /\ doing[t].ok
             d == IF a THEN At(t, "rows") ELSE Finished
  <2>1. d \in Doing /\ d.at \notin Unfinished
    BY <1>a, <1>10 DEF Stations, Unfinished
  <2>2. /\ traj' = [traj EXCEPT ![t].state = "closed", ![t].accepted = a]
        /\ Passes(t, {"file"}, d) /\ traj[t].state = "open"
    BY <1>13, Zenon DEF Closes
  <2> HIDE DEF a, d
  <2>3. doing'[t] = d /\ \A u \in Jobs : u # t => doing'[u] = doing[u]
    BY <2>1, <2>2, Moved
  <2>4. /\ \A u \in Jobs : u # t => traj'[u] = traj[u]
        /\ traj'[t].state = "closed"
    BY <2>2, <1>0 DEF PrTypeOK, Trajectories
  <2>5. ~traj[t].accepted
    BY <2>2 DEF AcceptedClosed
  <2> QED
    BY <2>1, <2>3, <2>4, <2>5 DEF Unclosed, AcceptedClosed, AcceptedStay
<1>14. CASE NothingOpen(t)
  BY <1>1, <1>10, <1>14, Zenon DEF NothingOpen
<1>15. CASE ReadsRows(t)
  <2> DEFINE rows == {u \in Jobs : traj[u].accepted}
             d == IF Independent(rows) THEN [At(t, "known") EXCEPT !.bytes = rows] ELSE Finished
  <2>1. d \in Doing /\ d.at \notin Unfinished
    BY <1>a, <1>10 DEF Stations, Bytes, Doing, Unfinished
  <2>2. Passes(t, {"rows"}, d) /\ UNCHANGED traj
    BY <1>15, Zenon DEF ReadsRows
  <2> QED
    BY <1>1, <2>1, <2>2, Zenon
<1>16. CASE LearnsNothing(t)
  BY <1>1, <1>10, <1>16, Zenon DEF LearnsNothing
<1>17. CASE FindsNew(t)
  <2>1. At(t, "compile") \in Doing /\ At(t, "compile").at \notin Unfinished
    BY <1>a DEF Stations, Unfinished
  <2> QED
    BY <1>1, <1>17, <2>1, Zenon DEF FindsNew
<1>18. CASE Compiles(t)
  <2>1. At(t, "suite") \in Doing /\ At(t, "suite").at \notin Unfinished
    BY <1>a DEF Stations, Unfinished
  <2> QED
    BY <1>1, <1>18, <2>1, Zenon DEF Compiles
<1>19. ASSUME \/ EvalStarts(t) \/ EvalNext(t) \/ EvalRuns(t)
              \/ EvalLoads(t) \/ EvalRecords(t) \/ EvalAborts(t)
       PROVE  Unclosed' /\ AcceptedClosed' /\ AcceptedStay
  <2> DEFINE EndsRun(d) == d \in Doing /\ d.at \notin Unfinished
             e == [At(t, "case") EXCEPT !.bytes = proc, !.next = 1]
             n == IF doing[t].next > Len(Suite) THEN Finished
                  ELSE IF HasReceipt(t) THEN NextCase(t)
                  ELSE IF Verdict = "quarantined" THEN Finished ELSE At(t, "arena")
  <2>1. EndsRun(e)
    BY <1>a DEF Stations, Doing, PrTypeOK, Unfinished
  <2>2. EndsRun(NextCase(t))
    BY <1>a DEF Stations, Doing, NextCase, Unfinished
  <2>3. EndsRun(n)
    BY <1>a, <1>10, <2>2 DEF Stations, Unfinished
  <2>4. \A ok \in BOOLEAN : EndsRun([At(t, "result") EXCEPT !.ok = ok])
    BY <1>a DEF Stations, Doing, Unfinished
  <2>5. ASSUME NEW d, EndsRun(d), NEW from, Passes(t, from, d), UNCHANGED traj
        PROVE  Unclosed' /\ AcceptedClosed' /\ AcceptedStay
    BY <1>1, <2>5
  <2>6. EndsRun(Finished)
    BY <1>10
  <2> HIDE DEF EndsRun
  <2>7. CASE EvalStarts(t)
    BY <2>1, <2>5, <2>7, Zenon DEF EvalStarts
  <2>8. CASE EvalNext(t)
    <3>1. Passes(t, {"case"}, n) /\ UNCHANGED traj
      BY <2>8, Zenon DEF EvalNext
    <3> QED
      BY <2>3, <2>5, <3>1, Zenon
  <2>9. CASE EvalRuns(t)
    BY <2>4, <2>5, <2>9, Zenon DEF EvalRuns
  <2>10. CASE EvalRecords(t)
    <3>1. EndsRun([NextCase(t) EXCEPT !.seen = {}])
      BY <2>2 DEF EndsRun, Doing, Bytes
    <3> QED
      BY <2>5, <2>10, <3>1, Zenon DEF EvalRecords
  <2>12. CASE EvalLoads(t)
    <3>1. EndsRun([At(t, "evidence") EXCEPT !.seen = proc])
      BY <1>a DEF EndsRun, Stations, Doing, PrTypeOK, Unfinished
    <3> QED
      BY <2>5, <2>12, <3>1, Zenon DEF EvalLoads
  <2>11. CASE EvalAborts(t)
    BY <2>5, <2>6, <2>11, Zenon DEF EvalAborts
  <2> QED
    BY <1>19, <2>7, <2>8, <2>9, <2>10, <2>11, <2>12, Zenon
<1>20. CASE LoopDies(t)
  <2>1. \/ /\ Passes(t, {"match", "replay", "failed", "passed", "refused", "commit"},
                     [Nowhere EXCEPT !.at = "work"])
           /\ UNCHANGED traj
        \/ UNCHANGED doing /\ traj' = [traj EXCEPT ![t].clean = FALSE]
        \/ UNCHANGED traj /\ \E from : Passes(t, from, Finished)
    BY <1>20, Zenon DEF LoopDies
  <2>2. {"match", "replay", "failed", "passed", "refused", "commit"} \subseteq Unfinished
    BY DEF Unfinished
  <2>3. ASSUME UNCHANGED doing, traj' = [traj EXCEPT ![t].clean = FALSE]
        PROVE  Unclosed' /\ AcceptedClosed' /\ AcceptedStay
    <3>1. \A u \in Jobs : /\ traj'[u].state = traj[u].state /\ traj'[u].work = traj[u].work
                          /\ traj'[u].accepted = traj[u].accepted
      BY <2>3 DEF PrTypeOK, Trajectories
    <3> QED
      BY <2>3, <3>1 DEF Unclosed, AcceptedClosed, AcceptedStay
  <2> QED
    BY <1>1, <1>10, <2>1, <2>2, <2>3, Zenon
<1> QED
  BY <1>3, <1>4, <1>5, <1>6, <1>7, <1>8, <1>9, <1>11, <1>12, <1>13, <1>14, <1>15, <1>16,
     <1>17, <1>18, <1>19, <1>20 DEF JobStep

\* The same of the next state.
WillBeLearned(b) == /\ \A u \in b : traj'[u].accepted
                    /\ Cardinality({traj'[u].work : u \in b}) >= 2

LEMMA LearnedStays ==
  ASSUME PrTypeOK, AcceptedStay, NEW b \in Bytes, Learned(b)
  PROVE  WillBeLearned(b)
<1>1. \A u \in b : u \in Jobs /\ traj'[u].accepted /\ traj'[u].work = traj[u].work
  BY DEF AcceptedStay, Learned, Bytes
<1>2. {traj'[u].work : u \in b} = {traj[u].work : u \in b}
  BY <1>1
<1> QED
  BY <1>1, <1>2 DEF Learned, WillBeLearned

LEMMA LearnStep ==
  ASSUME PrTypeOK, PrTypeOK', AcceptedStay, LearnedAll, InSuite, NEW t \in Jobs, JobStep(t)
  PROVE  LearnedAll' /\ InSuite'
<1> DEFINE Induced == {"known", "compile", "case", "arena", "result", "evidence"}
           Fits(d) == /\ d \in Doing
                      /\ d.at \in Induced => Learned(d.bytes)
                      /\ d.at \in Evaluating => Learned(proc)
                      /\ d.at = "evidence" => Learned(d.seen)
                      /\ d.at \in {"case", "arena", "result", "evidence"} => d.next >= 1
                      /\ d.at \in {"arena", "result", "evidence"} => d.next \in DOMAIN Suite
<1>0. /\ doing[t] \in Doing /\ doing[t].bytes \in Bytes
      /\ \A w \in Stations :
           /\ At(t, w) \in Doing /\ At(t, w).at = w /\ At(t, w).bytes = doing[t].bytes
           /\ At(t, w).next = doing[t].next /\ At(t, w).seen = doing[t].seen
  BY AtIs DEF PrTypeOK, Doing
<1>1. ASSUME NEW d, Fits(d), NEW from, Passes(t, from, d), UNCHANGED proc,
             \A r \in receipts' : r \in receipts \/ Learned(r.bytes)
      PROVE  LearnedAll' /\ InSuite'
  <2>1. doing'[t] = d /\ \A u \in Jobs : u # t => doing'[u] = doing[u]
    BY <1>1, Moved
  <2>2. \A b \in Bytes : Learned(b) => WillBeLearned(b)
    BY LearnedStays
  <2>3. \A u \in Jobs : doing[u].bytes \in Bytes /\ doing[u].seen \in Bytes
    BY DEF PrTypeOK, Doing
  <2>4. proc \in Bytes /\ \A r \in receipts' : r.bytes \in Bytes
    BY DEF PrTypeOK, Receipts
  <2>5. InSuite'
    BY <1>1, <2>1 DEF InSuite
  <2>6. ASSUME NEW u \in Jobs
        PROVE  /\ doing'[u].at \in Induced => WillBeLearned(doing'[u].bytes)
               /\ doing'[u].at \in Evaluating => WillBeLearned(proc')
               /\ doing'[u].at = "evidence" => WillBeLearned(doing'[u].seen)
    <3>1. CASE u = t
      <4>1. d.bytes \in Bytes /\ d.seen \in Bytes
        BY <1>1 DEF Doing
      <4> QED
        BY <1>1, <2>1, <2>2, <2>4, <3>1, <4>1
    <3>2. CASE u # t
      <4>1. doing'[u] = doing[u] /\ proc' = proc
        BY <1>1, <2>1, <3>2
      <4> QED
        BY <2>2, <2>3, <2>4, <4>1 DEF LearnedAll
    <3> QED
      BY <3>1, <3>2
  <2>7. \A r \in receipts' : WillBeLearned(r.bytes)
    BY <1>1, <2>2, <2>4 DEF LearnedAll
  <2> QED
    BY <2>5, <2>6, <2>7 DEF LearnedAll, Learned, WillBeLearned
<1>2. ASSUME NEW w \in Stations, w \notin Induced, w # "suite"
      PROVE  /\ Fits(At(t, w)) /\ Fits([Nowhere EXCEPT !.at = w])
             /\ \A b \in Bytes : Fits([At(t, w) EXCEPT !.bytes = b])
             /\ \A ok \in BOOLEAN : Fits([At(t, w) EXCEPT !.ok = ok])
  <2>1. /\ \A b \in Bytes : /\ [At(t, w) EXCEPT !.bytes = b] \in Doing
                            /\ [At(t, w) EXCEPT !.bytes = b].at = w
        /\ \A ok \in BOOLEAN : /\ [At(t, w) EXCEPT !.ok = ok] \in Doing
                               /\ [At(t, w) EXCEPT !.ok = ok].at = w
    BY <1>0 DEF Doing
  <2>2. [Nowhere EXCEPT !.at = w] \in Doing /\ [Nowhere EXCEPT !.at = w].at = w
    BY NowhereIs
  <2>3. w \notin Evaluating /\ w # "evidence" /\ w \notin {"case", "arena", "result", "evidence"}
    BY <1>2 DEF Evaluating
  <2> QED
    BY <1>0, <1>2, <2>1, <2>2, <2>3
<1>3. Fits(Finished)
  BY NowhereIs DEF Evaluating
<1>4. ASSUME NEW from, Opens(t, from), UNCHANGED <<proc, receipts>>
      PROVE  LearnedAll' /\ InSuite'
  <2>1. Fits([Nowhere EXCEPT !.at = "work"])
    BY <1>2 DEF Stations
  <2> HIDE DEF Fits
  <2> QED
    BY <1>1, <1>4, <2>1, Zenon DEF Opens
<1>5. /\ Fits(At(t, "match")) /\ Fits(At(t, "failed")) /\ Fits(At(t, "passed"))
      /\ Fits(At(t, "refused")) /\ Fits(At(t, "commit")) /\ Fits(At(t, "rows"))
      /\ Fits([Nowhere EXCEPT !.at = "work"])
      /\ \A b \in Bytes : Fits([At(t, "replay") EXCEPT !.bytes = b])
      /\ \A ok \in BOOLEAN : Fits([At(t, "file") EXCEPT !.ok = ok])
  <2> DEFINE Quiet(w) == w \in Stations /\ w \notin Induced /\ w # "suite"
  <2>1. /\ Quiet("match") /\ Quiet("failed") /\ Quiet("passed") /\ Quiet("refused")
        /\ Quiet("commit") /\ Quiet("rows") /\ Quiet("work") /\ Quiet("replay") /\ Quiet("file")
    BY DEF Stations
  <2>2. \A w : Quiet(w) => /\ Fits(At(t, w)) /\ Fits([Nowhere EXCEPT !.at = w])
                          /\ \A b \in Bytes : Fits([At(t, w) EXCEPT !.bytes = b])
                          /\ \A ok \in BOOLEAN : Fits([At(t, w) EXCEPT !.ok = ok])
    BY <1>2
  <2>7. ASSUME NEW ok \in BOOLEAN PROVE Fits([At(t, "file") EXCEPT !.ok = ok])
    <3>1. At(t, "file") \in Doing /\ At(t, "file").at = "file"
      BY <1>0 DEF Stations
    <3>2. /\ [At(t, "file") EXCEPT !.ok = ok] \in Doing
          /\ [At(t, "file") EXCEPT !.ok = ok].at = "file"
      BY <3>1 DEF Doing
    <3> QED
      BY <3>2 DEF Evaluating
  <2> HIDE DEF Fits, Quiet
  <2>3. Fits(At(t, "match")) /\ Fits(At(t, "failed")) /\ Fits(At(t, "passed"))
    BY <2>1, <2>2, Zenon
  <2>4. Fits(At(t, "refused")) /\ Fits(At(t, "commit")) /\ Fits(At(t, "rows"))
    BY <2>1, <2>2, Zenon
  <2>5. Fits([Nowhere EXCEPT !.at = "work"])
    BY <2>1, <2>2, Zenon
  <2>6. \A b \in Bytes : Fits([At(t, "replay") EXCEPT !.bytes = b])
    BY <2>1, <2>2, Zenon
  <2> QED
    BY <2>3, <2>4, <2>5, <2>6, <2>7
<1>6. proc \in Bytes
  BY DEF PrTypeOK
<1>7. \A r \in receipts : r \in receipts \/ Learned(r.bytes)
  OBVIOUS
<1>8. ASSUME \/ RouteMatches(t) \/ RouteMisses(t) \/ RouteLoads(t) \/ Declines(t)
             \/ ReplayFails(t) \/ StepsVerify(t) \/ RecordsReplay(t) \/ CommitsDone(t)
      PROVE  LearnedAll' /\ InSuite'
  <2> HIDE DEF Fits
  <2>1. CASE RouteMatches(t) \/ ReplayFails(t) \/ StepsVerify(t) \/ CommitsDone(t)
    BY <1>1, <1>3, <1>5, <2>1, Zenon DEF RouteMatches, ReplayFails, StepsVerify, CommitsDone
  <2>2. CASE RouteMisses(t) \/ Declines(t)
    BY <1>4, <2>2, Zenon DEF RouteMisses, Declines
  <2>3. CASE RouteLoads(t)
    BY <1>1, <1>5, <1>6, <2>3, Zenon DEF RouteLoads
  <2>4. CASE RecordsReplay(t)
    BY <1>1, <1>4, <1>5, <2>4, Zenon DEF RecordsReplay
  <2> QED
    BY <1>8, <2>1, <2>2, <2>3, <2>4
<1>9. ASSUME \/ WorkEnds(t) \/ Closes(t) \/ NothingOpen(t) \/ LearnsNothing(t)
             \/ EvalAborts(t) \/ LoopDies(t)
      PROVE  LearnedAll' /\ InSuite'
  <2> HIDE DEF Fits
  <2>1. CASE WorkEnds(t)
    BY <1>1, <1>3, <1>5, <2>1, Zenon DEF WorkEnds
  <2>2. CASE Closes(t)
    <3>1. \/ Passes(t, {"file"}, At(t, "rows"))
          \/ Passes(t, {"file"}, Finished)
      BY <2>2 DEF Closes
    <3> QED
      BY <1>1, <1>3, <1>5, <2>2, <3>1, Zenon DEF Closes
  <2>3. CASE NothingOpen(t) \/ LearnsNothing(t) \/ EvalAborts(t)
    BY <1>1, <1>3, <2>3, Zenon DEF NothingOpen, LearnsNothing, EvalAborts
  <2>4. CASE LoopDies(t)
    <3>1. CASE UNCHANGED doing
      <4>1. UNCHANGED <<proc, receipts>>
        BY <2>4, Zenon DEF LoopDies
      <4>2. \A b \in Bytes : Learned(b) => WillBeLearned(b)
        BY LearnedStays
      <4>3. /\ proc \in Bytes /\ \A u \in Jobs : doing[u].bytes \in Bytes /\ doing[u].seen \in Bytes
            /\ \A r \in receipts : r.bytes \in Bytes
        BY DEF PrTypeOK, Doing, Receipts
      <4> QED
        BY <3>1, <4>1, <4>2, <4>3 DEF LearnedAll, InSuite, Learned, WillBeLearned
    <3>2. CASE \E from : \/ Passes(t, from, [Nowhere EXCEPT !.at = "work"])
                        \/ Passes(t, from, Finished)
      BY <1>1, <1>3, <1>5, <2>4, <3>2, Zenon DEF LoopDies
    <3> QED
      BY <2>4, <3>1, <3>2, Zenon DEF LoopDies
  <2> QED
    BY <1>9, <2>1, <2>2, <2>3, <2>4
<1>10. CASE ReadsRows(t)
  <2> DEFINE rows == {u \in Jobs : traj[u].accepted}
             d == IF Independent(rows) THEN [At(t, "known") EXCEPT !.bytes = rows] ELSE Finished
  <2>1. Independent(rows) => Learned(rows)
    BY DEF Independent, Learned
  <2>2. /\ [At(t, "known") EXCEPT !.bytes = rows] \in Doing
        /\ [At(t, "known") EXCEPT !.bytes = rows].at = "known"
        /\ [At(t, "known") EXCEPT !.bytes = rows].bytes = rows
    BY <1>0 DEF Stations, Doing, Bytes
  <2>3. Fits(d)
    BY <1>3, <2>1, <2>2 DEF Evaluating
  <2>4. Passes(t, {"rows"}, d) /\ UNCHANGED <<proc, receipts>>
    BY <1>10, Zenon DEF ReadsRows
  <2> HIDE DEF Fits, d
  <2> QED
    BY <1>1, <2>3, <2>4, Zenon
<1>11. CASE FindsNew(t)
  <2>1. doing[t].at = "known"
    BY <1>11 DEF FindsNew, Passes
  <2>2. Fits(At(t, "compile"))
    BY <1>0, <2>1 DEF Stations, LearnedAll, Evaluating
  <2> HIDE DEF Fits
  <2> QED
    BY <1>1, <1>11, <2>2, Zenon DEF FindsNew
<1>12. CASE Compiles(t)
  <2>1. /\ doing[t].at = "compile" /\ proc' = doing[t].bytes /\ UNCHANGED receipts
        /\ Passes(t, {"compile"}, At(t, "suite"))
    BY <1>12 DEF Compiles, Passes
  <2>2. /\ At(t, "suite") \in Doing /\ At(t, "suite").at = "suite"
    BY <1>0 DEF Stations
  <2>3. doing'[t].at = "suite" /\ \A u \in Jobs : u # t => doing'[u] = doing[u]
    BY <2>1, <2>2, Moved
  <2>4. \A b \in Bytes : Learned(b) => WillBeLearned(b)
    BY LearnedStays
  <2>5. /\ Learned(doing[t].bytes)
        /\ \A u \in Jobs : doing[u].bytes \in Bytes /\ doing[u].seen \in Bytes
        /\ \A r \in receipts : r.bytes \in Bytes
    BY <2>1 DEF LearnedAll, PrTypeOK, Doing, Receipts
  <2>6. WillBeLearned(proc')
    BY <1>0, <2>1, <2>4, <2>5
  <2>7. \A u \in Jobs : /\ doing'[u].at \in Induced => WillBeLearned(doing'[u].bytes)
                        /\ doing'[u].at = "evidence" => WillBeLearned(doing'[u].seen)
    BY <2>3, <2>4, <2>5 DEF LearnedAll
  <2>8. \A r \in receipts' : WillBeLearned(r.bytes)
    BY <2>1, <2>4, <2>5 DEF LearnedAll
  <2>9. InSuite'
    BY <2>3 DEF InSuite
  <2> QED
    BY <2>6, <2>7, <2>8, <2>9 DEF LearnedAll, Learned, WillBeLearned
<1>13. CASE EvalStarts(t)
  <2> DEFINE d == [At(t, "case") EXCEPT !.bytes = proc, !.next = 1]
  <2>1. /\ doing[t].at = "suite" /\ Passes(t, {"suite"}, d) /\ UNCHANGED <<proc, receipts>>
    BY <1>13, Zenon DEF EvalStarts, Passes
  <2>2. d \in Doing /\ d.at = "case" /\ d.bytes = proc /\ d.next = 1
    BY <1>0, <1>6 DEF Stations, Doing
  <2>3. Fits(d)
    BY <2>1, <2>2 DEF LearnedAll, Evaluating
  <2> HIDE DEF Fits, d
  <2> QED
    BY <1>1, <2>1, <2>3, Zenon
<1>14. ASSUME doing[t].at \in {"case", "arena", "result", "evidence"}
       PROVE  /\ Learned(doing[t].bytes) /\ doing[t].next >= 1 /\ Learned(proc)
              /\ doing[t].at # "case" => doing[t].next \in DOMAIN Suite
  BY <1>14 DEF LearnedAll, InSuite, Evaluating
<1>15. ASSUME doing[t].at \in {"case", "arena", "result", "evidence"}
       PROVE  Fits(NextCase(t)) /\ Fits([NextCase(t) EXCEPT !.seen = {}])
  <2>1. At(t, "case") \in Doing /\ At(t, "case").next = doing[t].next
    BY <1>0 DEF Stations
  <2>2. doing[t].next + 1 \in Nat /\ doing[t].next + 1 >= 1
    BY <1>0 DEF Doing
  <2>3. /\ NextCase(t) \in Doing /\ NextCase(t).at = "case"
        /\ NextCase(t).bytes = At(t, "case").bytes /\ NextCase(t).next = doing[t].next + 1
    BY <1>0, <2>1, <2>2 DEF NextCase, Doing, Stations
  <2>4. At(t, "case").bytes = doing[t].bytes
    BY <1>0 DEF Stations
  <2> DEFINE d == [NextCase(t) EXCEPT !.seen = {}]
  <2>5. d \in Doing /\ d.at = "case" /\ d.bytes = doing[t].bytes /\ d.next = NextCase(t).next
    BY <2>3, <2>4 DEF Doing, Bytes
  <2> HIDE DEF d
  <2>6. Fits(NextCase(t)) /\ Fits(d)
    BY <1>14, <1>15, <2>2, <2>3, <2>4, <2>5
  <2> QED
    BY <2>6 DEF d
<1>16. CASE EvalNext(t)
  <2> DEFINE d == IF doing[t].next > Len(Suite) THEN Finished
                  ELSE IF HasReceipt(t) THEN NextCase(t)
                  ELSE IF Verdict = "quarantined" THEN Finished ELSE At(t, "arena")
  <2>1. doing[t].at = "case" /\ Passes(t, {"case"}, d) /\ UNCHANGED <<proc, receipts>>
    BY <1>16, Zenon DEF EvalNext, Passes
  <2>2. Suite \in Seq(Cases) /\ doing[t].next \in Nat
    BY <1>0, ProcedureAssumption DEF Doing
  <2>3. doing[t].next <= Len(Suite) => doing[t].next \in DOMAIN Suite
    BY <1>14, <2>1, <2>2
  <2>4. doing[t].next <= Len(Suite) => Fits(At(t, "arena"))
    BY <1>0, <1>14, <2>1, <2>3 DEF Stations, Evaluating
  <2>5. Fits(d)
    <3>1. doing[t].next > Len(Suite) \/ doing[t].next <= Len(Suite)
      BY <2>2
    <3>2. Fits(NextCase(t))
      BY <1>15, <2>1
    <3> HIDE DEF Fits
    <3> QED
      BY <1>3, <2>4, <3>1, <3>2
  <2> HIDE DEF Fits, d
  <2> QED
    BY <1>1, <2>1, <2>5, Zenon
<1>17. CASE EvalRuns(t)
  <2>1. PICK ok \in BOOLEAN :
          /\ Passes(t, {"arena"}, [At(t, "result") EXCEPT !.ok = ok])
          /\ receipts' = IF HasReceipt(t) THEN receipts
                         ELSE receipts \cup {Receipt(doing[t].bytes, Case(t), ok)}
          /\ UNCHANGED proc
    BY <1>17, Zenon DEF EvalRuns
  <2> DEFINE d == [At(t, "result") EXCEPT !.ok = ok]
  <2>2. d \in Doing /\ d.at = "result" /\ d.bytes = doing[t].bytes /\ d.next = doing[t].next
    BY <1>0 DEF Stations, Doing
  <2>3. doing[t].at = "arena"
    BY <2>1 DEF Passes
  <2>4. Fits(d)
    BY <1>14, <2>2, <2>3
  <2>5. \A r \in receipts' : r \in receipts \/ Learned(r.bytes)
    BY <1>14, <2>1, <2>3 DEF Receipt
  <2> HIDE DEF Fits
  <2> QED
    BY <1>1, <2>1, <2>4, <2>5, Zenon
<1>18. CASE EvalRecords(t)
  <2>1. Passes(t, {"evidence"}, [NextCase(t) EXCEPT !.seen = {}]) /\ UNCHANGED <<proc, receipts>>
    BY <1>18, Zenon DEF EvalRecords
  <2>2. Fits([NextCase(t) EXCEPT !.seen = {}])
    BY <1>15, <2>1 DEF Passes
  <2> HIDE DEF Fits
  <2> QED
    BY <1>1, <2>1, <2>2, Zenon
<1>19. CASE EvalLoads(t)
  <2> DEFINE d == [At(t, "evidence") EXCEPT !.seen = proc]
  <2>1. doing[t].at = "result" /\ Passes(t, {"result"}, d) /\ UNCHANGED <<proc, receipts>>
    BY <1>19, Zenon DEF EvalLoads, Passes
  <2>2. /\ d \in Doing /\ d.at = "evidence" /\ d.bytes = doing[t].bytes /\ d.next = doing[t].next
        /\ d.seen = proc
    BY <1>0, <1>6 DEF Stations, Doing
  <2> HIDE DEF d
  <2>3. Fits(d)
    BY <1>14, <2>1, <2>2
  <2> HIDE DEF Fits
  <2> QED
    BY <1>1, <2>1, <2>3, Zenon
<1> QED
  BY <1>8, <1>9, <1>10, <1>11, <1>12, <1>13, <1>16, <1>17, <1>18, <1>19 DEF JobStep

LEMMA DiverseMore ==
  ASSUME NEW A, NEW B \in SUBSET Cases, A \subseteq B, Diverse(A)
  PROVE  Diverse(B)
<1>1. IsFiniteSet(B)
  BY ProcedureAssumption, FS_Subset
<1>2. Cardinality(A) \in Nat /\ Cardinality(B) \in Nat /\ Cardinality(A) <= Cardinality(B)
  BY <1>1, FS_Subset, FS_CardinalityType
<1> DEFINE I(S) == {InputOf[c] : c \in S}
           f == [c \in B |-> InputOf[c]]
<1>3. f \in Surjection(B, I(B))
  BY DEF Surjection
<1>4. IsFiniteSet(I(B))
  BY <1>1, <1>3, FS_Surjection
<1>5. I(A) \subseteq I(B)
  OBVIOUS
<1> HIDE DEF I
<1>6. /\ Cardinality(I(A)) \in Nat /\ Cardinality(I(B)) \in Nat
      /\ Cardinality(I(A)) <= Cardinality(I(B))
  BY <1>4, <1>5, FS_Subset, FS_CardinalityType
<1>7. Cardinality(A) >= PromoteAt /\ Cardinality(I(A)) >= PromoteAt /\ A \cap EdgeCases # {}
  BY DEF Diverse, I
<1>8. Cardinality(B) >= PromoteAt /\ Cardinality(I(B)) >= PromoteAt /\ B \cap EdgeCases # {}
  BY <1>2, <1>6, <1>7, ProcedureAssumption
<1> QED
  BY <1>8 DEF Diverse, I

LEMMA CasesIn == \A rs \in SUBSET Receipts : CasesOf(rs) \in SUBSET Cases
BY DEF CasesOf, Receipts

\* What may be counted for the bytes h: accepted evidence of what is there now.
Countable(h, new) ==
  /\ new \subseteq receipts /\ \A r \in new : r.ok /\ r.bytes = proc
  /\ new # {} => Learned(h)

LEMMA RecordStep ==
  ASSUME PrTypeOK, LearnedAll, InSuite, NEW t \in Jobs, JobStep(t)
  PROVE  /\ receipts \subseteq receipts'
         /\ \/ UNCHANGED <<credit, strayed>>
            \/ /\ UNCHANGED receipts
               /\ \E h \in Bytes : \/ \E new : Countable(h, new) /\ Wins(h, new)
                                   \/ \E b \in Bytes : Loses(h, b)
<1>0. proc \in Bytes /\ doing[t].bytes \in Bytes /\ doing[t].seen \in Bytes
  BY DEF PrTypeOK, Doing
<1>1. CASE EvalRecords(t)
  <2> DEFINE b == doing[t].bytes
             h == doing[t].seen
             new == Evidence(b, Case(t))
  <2>1. /\ doing[t].at = "evidence" /\ UNCHANGED receipts
        /\ Wins(h, new) \/ Loses(h, b) \/ UNCHANGED <<credit, past>>
    BY <1>1, Zenon DEF EvalRecords, Passes
  <2>2. Countable(h, new)
    BY <2>1 DEF Evidence, Receipt, Countable, LearnedAll
  <2> HIDE DEF new, h, b
  <2> QED
    BY <1>0, <2>1, <2>2, Zenon DEF past, h, b
<1>2. CASE RecordsReplay(t)
  <2>1. /\ UNCHANGED receipts
        /\ Wins(proc, {}) \/ Loses(proc, doing[t].bytes) \/ UNCHANGED <<credit, past>>
    BY <1>2, Zenon DEF RecordsReplay
  <2>2. Countable(proc, {})
    BY DEF Countable
  <2> QED
    BY <1>0, <2>1, <2>2, Zenon DEF past
<1>3. CASE EvalRuns(t)
  BY <1>3 DEF EvalRuns
<1>4. ASSUME \/ RouteMatches(t) \/ RouteMisses(t) \/ RouteLoads(t) \/ Declines(t)
             \/ ReplayFails(t) \/ StepsVerify(t) \/ CommitsDone(t)
      PROVE  UNCHANGED <<receipts, credit, strayed>>
  BY <1>4, Zenon DEF RouteMatches, RouteMisses, RouteLoads, Declines, ReplayFails, StepsVerify,
     CommitsDone, past
<1>5. ASSUME WorkEnds(t) \/ Closes(t) \/ NothingOpen(t) \/ ReadsRows(t) \/ LearnsNothing(t)
      PROVE  UNCHANGED <<receipts, credit, strayed>>
  BY <1>5, Zenon DEF WorkEnds, Closes, NothingOpen, ReadsRows, LearnsNothing, past
<1>6. ASSUME \/ FindsNew(t) \/ Compiles(t) \/ EvalStarts(t) \/ EvalNext(t) \/ EvalLoads(t)
             \/ EvalAborts(t) \/ LoopDies(t)
      PROVE  UNCHANGED <<receipts, credit, strayed>>
  BY <1>6, Zenon DEF FindsNew, Compiles, EvalStarts, EvalNext, EvalLoads, EvalAborts, LoopDies,
     past
<1> QED
  BY <1>1, <1>2, <1>3, <1>4, <1>5, <1>6 DEF JobStep

\* An entry keeps what it counted; record adds evidence to one entry, and names the strays.
LEMMA CreditStep ==
  ASSUME PrTypeOK, LearnedAll, InSuite, CreditEarned, CreditLearned, AcceptedStay,
         NEW t \in Jobs, JobStep(t)
  PROVE  CreditEarned' /\ CreditLearned'
<1>1. receipts \subseteq receipts'
  BY RecordStep
<1>2. ASSUME NEW b \in Bytes, Learned(b) PROVE WillBeLearned(b)
  BY <1>2, LearnedStays
<1>3. credit.bytes \in Bytes /\ credit.evidence \in SUBSET Receipts
  BY DEF PrTypeOK, Credits
<1>4. CASE UNCHANGED <<credit, strayed>>
  <2>1. CreditEarned'
    BY <1>1, <1>4 DEF CreditEarned, Counted
  <2>2. CreditLearned'
    BY <1>2, <1>3, <1>4 DEF CreditLearned, Learned, WillBeLearned
  <2> QED
    BY <2>1, <2>2
<1>5. ASSUME NEW h \in Bytes
      PROVE  /\ Counted(Credit(h)) /\ Credit(h) \in Credits /\ Credit(h).bytes = h
             /\ Credit(h).evidence # {} => Learned(h)
  <2>1. CASE credit.bytes = h
    BY <2>1, CreditType DEF Credit, CreditEarned, CreditLearned
  <2>2. CASE credit.bytes # h
    BY <2>2, CreditType DEF Credit, NewCredit, Counted
  <2> QED
    BY <2>1, <2>2
<1>6. ASSUME UNCHANGED receipts, NEW h \in Bytes, NEW new, Countable(h, new), Wins(h, new)
      PROVE  CreditEarned' /\ CreditLearned'
  <2> DEFINE e == Credit(h)
             all == e.evidence \cup new
  <2>1. new \in SUBSET Receipts /\ e.evidence \in SUBSET Receipts /\ h \in DOMAIN strayed
    BY <1>5, <1>6 DEF Countable, PrTypeOK, Credits
  <2>2. /\ credit'.bytes = h /\ credit'.evidence = all
        /\ credit'.status = "proven" => e.status = "proven" \/ Diverse(CasesOf(all))
    <3>1. AfterWin(credit', h, e, new)
      BY <1>5, <1>6, <2>1, WonType, Zenon DEF Wins
    <3> QED
      BY <3>1 DEF AfterWin
  <2>3. e.status = "proven" => Diverse(CasesOf(all))
    <3>1. CasesOf(e.evidence) \subseteq CasesOf(all) /\ CasesOf(all) \in SUBSET Cases
      BY <2>1, CasesIn DEF CasesOf
    <3>2. e.status = "proven" => Diverse(CasesOf(e.evidence))
      BY <1>5 DEF Counted
    <3> HIDE DEF all, e
    <3> QED
      BY <3>1, <3>2, DiverseMore
  <2>4. strayed[h] \subseteq strayed'[h] /\ (h # proc => CasesOf(new) \subseteq strayed'[h])
    BY <1>6, <2>1 DEF Wins
  <2>5. ASSUME NEW r \in all PROVE r.ok /\ (r.bytes = h \/ r.case \in strayed'[h])
    <3>1. CASE r \in e.evidence
      BY <1>5, <2>4, <3>1 DEF Counted
    <3>2. CASE r \in new
      BY <1>6, <2>4, <3>2 DEF Countable, CasesOf
    <3> QED
      BY <3>1, <3>2
  <2>6. all \subseteq receipts'
    BY <1>5, <1>6 DEF Counted, Countable
  <2>7. all # {} => Learned(h)
    BY <1>5, <1>6 DEF Countable
  <2> HIDE DEF all, e
  <2>8. CreditEarned'
    BY <2>2, <2>3, <2>5, <2>6 DEF CreditEarned, Counted, CasesOf
  <2>9. CreditLearned'
    BY <1>2, <2>2, <2>7 DEF CreditLearned, Learned, WillBeLearned
  <2> QED
    BY <2>8, <2>9
<1>7. ASSUME UNCHANGED receipts, NEW h \in Bytes, NEW b \in Bytes, Loses(h, b)
      PROVE  CreditEarned' /\ CreditLearned'
  <2>1. /\ credit'.bytes = h /\ credit'.evidence = Credit(h).evidence
        /\ credit'.status = "proven" => Credit(h).status = "proven"
        /\ UNCHANGED strayed
    BY <1>5, <1>7, LostType, Zenon DEF Loses
  <2>2. CreditEarned'
    BY <1>5, <1>7, <2>1 DEF CreditEarned, Counted, CasesOf
  <2>3. CreditLearned'
    BY <1>2, <1>5, <2>1 DEF CreditLearned, Learned, WillBeLearned
  <2> QED
    BY <2>2, <2>3
<1> QED
  BY <1>4, <1>6, <1>7, RecordStep

LEMMA UnrecordedFinite ==
  ASSUME NEW b
  PROVE  /\ IsFiniteSet(Unrecorded(b)) /\ Cardinality(Unrecorded(b)) \in Nat
         /\ Cardinality(Unrecorded(b)') \in Nat
<1>1. Unrecorded(b) \subseteq Jobs /\ Unrecorded(b)' \subseteq Jobs
  BY DEF Unrecorded
<1> QED
  BY <1>1, ProcedureAssumption, FS_Subset, FS_CardinalityType

\* A move adds its loop to those that have a failure to record, or takes it away.
LEMMA LossesMove ==
  ASSUME PrTypeOK, NEW t \in Jobs, NEW d \in Doing, NEW from, Passes(t, from, d), NEW b
  PROVE  Cardinality(Unrecorded(b)') =
           Cardinality(Unrecorded(b)) + (IF Failing(d, b) THEN 1 ELSE 0)
                                      - (IF Failing(doing[t], b) THEN 1 ELSE 0)
<1>1. doing'[t] = d /\ \A u \in Jobs : u # t => doing'[u] = doing[u]
  BY Moved
<1>2. /\ Unrecorded(b)' = IF Failing(d, b) THEN Unrecorded(b) \cup {t} ELSE Unrecorded(b) \ {t}
      /\ t \in Unrecorded(b) <=> Failing(doing[t], b)
  BY <1>1 DEF Unrecorded
<1>3. /\ Cardinality(Unrecorded(b) \cup {t}) =
           IF t \in Unrecorded(b) THEN Cardinality(Unrecorded(b)) ELSE Cardinality(Unrecorded(b)) + 1
      /\ Cardinality(Unrecorded(b) \ {t}) =
           IF t \in Unrecorded(b) THEN Cardinality(Unrecorded(b)) - 1 ELSE Cardinality(Unrecorded(b))
      /\ Cardinality(Unrecorded(b)) \in Nat
  BY UnrecordedFinite, FS_AddElement, FS_RemoveElement
<1> QED
  BY <1>2, <1>3

\* Nothing fails and nothing is recorded.
LEMMA QuietLosses ==
  ASSUME PrTypeOK, LossesBacked, NEW t \in Jobs, NEW d \in Doing, NEW from, Passes(t, from, d),
         d.at \notin {"failed", "result", "evidence"} \/ (d.at # "failed" /\ d.ok),
         UNCHANGED <<credit, past>>
  PROVE  LossesBacked'
<1>1. UNCHANGED <<credit, lost, foreign>>
  BY DEF past
<1>2. ASSUME NEW b \in Bytes PROVE Cardinality(Unrecorded(b)') <= Cardinality(Unrecorded(b))
  <2>1. ~Failing(d, b)
    BY DEF Failing
  <2>2. Cardinality(Unrecorded(b)) \in Nat
    BY UnrecordedFinite
  <2>3. Cardinality(Unrecorded(b)') =
           Cardinality(Unrecorded(b)) - (IF Failing(doing[t], b) THEN 1 ELSE 0)
    BY <2>1, <2>2, LossesMove
  <2> QED
    BY <2>2, <2>3
<1>3. \A b \in Bytes : /\ Cardinality(Unrecorded(b)) \in Nat /\ Cardinality(Unrecorded(b)') \in Nat
                       /\ Streak(b) \in Nat /\ Streak(b)' = Streak(b) /\ lost[b] \in Nat
                       /\ foreign \in Nat
  BY <1>1, UnrecordedFinite DEF Streak, PrTypeOK, Credits
<1> QED
  BY <1>1, <1>2, <1>3 DEF LossesBacked

\* Bytes fail, and the failure waits to be recorded.
LEMMA OneMoreLoss ==
  ASSUME PrTypeOK, LossesBacked, NEW t \in Jobs, NEW d \in Doing, NEW from, Passes(t, from, d),
         d.bytes = doing[t].bytes, doing[t].at \notin {"failed", "result", "evidence"},
         lost' = [lost EXCEPT ![doing[t].bytes] = @ + 1], UNCHANGED <<credit, foreign>>
  PROVE  LossesBacked'
<1> DEFINE r == doing[t].bytes
<1>1. r \in Bytes
  BY DEF PrTypeOK, Doing
<1>2. \A b \in Bytes : lost'[b] = IF b = r THEN lost[b] + 1 ELSE lost[b]
  BY <1>1 DEF PrTypeOK
<1>3. \A b \in Bytes : /\ Cardinality(Unrecorded(b)) \in Nat /\ Cardinality(Unrecorded(b)') \in Nat
                       /\ Streak(b) \in Nat /\ Streak(b)' = Streak(b) /\ lost[b] \in Nat
                       /\ foreign \in Nat
  BY UnrecordedFinite DEF Streak, PrTypeOK, Credits
<1>4. ASSUME NEW b \in Bytes
      PROVE  Cardinality(Unrecorded(b)') <= Cardinality(Unrecorded(b)) + (IF b = r THEN 1 ELSE 0)
  <2>1. ~Failing(doing[t], b) /\ (Failing(d, b) => b = r)
    BY DEF Failing
  <2>2. Cardinality(Unrecorded(b)') = Cardinality(Unrecorded(b)) + (IF Failing(d, b) THEN 1 ELSE 0)
    BY <1>3, <2>1, LossesMove
  <2> QED
    BY <1>3, <2>1, <2>2
<1>5. credit.bytes \in Bytes
  BY DEF PrTypeOK, Credits
<1> HIDE DEF r
<1>6. \A b \in Bytes : lost'[b] >= lost[b]
  BY <1>2, <1>3
<1>7. \A b \in Bytes : Streak(b)' + Cardinality(Unrecorded(b)') <= lost'[b] + foreign'
  BY <1>2, <1>3, <1>4 DEF LossesBacked
<1>8. credit'.status = "quarantined" => lost'[credit'.bytes] + foreign' >= QuarantineAt
  BY <1>2, <1>3, <1>5, <1>6, ProcedureAssumption DEF LossesBacked
<1> QED
  BY <1>7, <1>8 DEF LossesBacked

LEMMA WinKeepsLosses ==
  ASSUME PrTypeOK, LossesBacked, NEW t \in Jobs, NEW d \in Doing, NEW from, Passes(t, from, d),
         d.at \notin {"failed", "result", "evidence"}, NEW h \in Bytes,
         NEW new \in SUBSET Receipts, Wins(h, new)
  PROVE  LossesBacked'
<1>1. Credit(h) \in Credits /\ Credit(h).bytes = h /\ UNCHANGED <<lost, foreign>>
  BY CreditType DEF Wins
<1>2. /\ credit'.bytes = h /\ credit'.streak = 0
      /\ credit'.status = "quarantined" => Credit(h).status = "quarantined"
  <2>1. AfterWin(credit', h, Credit(h), new)
    BY <1>1, WonType, Zenon DEF Wins
  <2> QED
    BY <2>1 DEF AfterWin
<1>3. Credit(h).status = "quarantined" => lost[h] + foreign >= QuarantineAt
  BY DEF Credit, NewCredit, LossesBacked
<1>4. ASSUME NEW b \in Bytes
      PROVE  Streak(b)' + Cardinality(Unrecorded(b)') <= lost[b] + foreign
  <2>1. Streak(b)' = 0
    BY <1>2 DEF Streak
  <2>2. /\ Cardinality(Unrecorded(b)) \in Nat /\ Cardinality(Unrecorded(b)') \in Nat
        /\ Streak(b) \in Nat /\ lost[b] \in Nat /\ foreign \in Nat
    BY UnrecordedFinite DEF Streak, PrTypeOK, Credits
  <2>3. Cardinality(Unrecorded(b)') <= Cardinality(Unrecorded(b))
    <3>1. ~Failing(d, b)
      BY DEF Failing
    <3> QED
      BY <2>2, <3>1, LossesMove
  <2> QED
    BY <2>1, <2>2, <2>3 DEF LossesBacked
<1> QED
  BY <1>1, <1>2, <1>3, <1>4 DEF LossesBacked

LEMMA LossIsRecorded ==
  ASSUME PrTypeOK, LossesBacked, NEW t \in Jobs, NEW d \in Doing, NEW from, Passes(t, from, d),
         d.at \notin {"failed", "result", "evidence"},
         Failing(doing[t], doing[t].bytes), NEW h \in Bytes, Loses(h, doing[t].bytes)
  PROVE  LossesBacked'
<1> DEFINE r == doing[t].bytes
<1>1. /\ Credit(h) \in Credits /\ Credit(h).bytes = h /\ lost' = lost /\ r \in Bytes /\ h \in Bytes
      /\ foreign' = IF r = h THEN foreign ELSE foreign + 1
  BY CreditType DEF Loses, PrTypeOK, Doing
<1>2. /\ credit'.bytes = h /\ credit'.streak = Credit(h).streak + 1
      /\ credit'.status = "quarantined" =>
           Credit(h).status = "quarantined" \/ Credit(h).streak + 1 >= QuarantineAt
  BY <1>1, LostType, Zenon DEF Loses
<1>3. /\ Credit(h).status = "quarantined" => lost[h] + foreign >= QuarantineAt
      /\ Credit(h).streak = Streak(h)
  BY DEF Credit, NewCredit, LossesBacked, Streak
<1>4. ASSUME NEW b \in Bytes
      PROVE  /\ Cardinality(Unrecorded(b)) \in Nat /\ Cardinality(Unrecorded(b)') \in Nat
             /\ Streak(b) \in Nat /\ lost[b] \in Nat /\ foreign \in Nat
             /\ Cardinality(Unrecorded(b)') <= Cardinality(Unrecorded(b))
             /\ b = r => Cardinality(Unrecorded(b)') = Cardinality(Unrecorded(b)) - 1
  <2>1. /\ Cardinality(Unrecorded(b)) \in Nat /\ Cardinality(Unrecorded(b)') \in Nat
        /\ Streak(b) \in Nat /\ lost[b] \in Nat /\ foreign \in Nat
    BY UnrecordedFinite DEF Streak, PrTypeOK, Credits
  <2>2. ~Failing(d, b) /\ (b = r => Failing(doing[t], b))
    BY DEF Failing
  <2> HIDE DEF r
  <2> QED
    BY <2>1, <2>2, LossesMove
<1> HIDE DEF r
<1>5. ASSUME NEW b \in Bytes
      PROVE  Streak(b)' + Cardinality(Unrecorded(b)') <= lost[b] + foreign'
  <2>1. Streak(b) + Cardinality(Unrecorded(b)) <= lost[b] + foreign
    BY DEF LossesBacked
  <2>2. CASE b # h
    <3>1. Streak(b)' = 0
      BY <1>2, <2>2 DEF Streak
    <3> QED
      BY <1>1, <1>4, <2>1, <3>1
  <2>3. CASE b = h
    <3>1. Streak(b)' = Streak(b) + 1
      BY <1>2, <1>3, <2>3 DEF Streak
    <3> QED
      BY <1>1, <1>4, <2>1, <2>3, <3>1
  <2> QED
    BY <2>2, <2>3
<1>6. /\ foreign \in Nat /\ foreign' \in Nat /\ foreign' >= foreign /\ QuarantineAt \in Nat
      /\ \A b \in Bytes : lost[b] \in Nat /\ Cardinality(Unrecorded(b)') \in Nat
  BY <1>1, <1>4, ProcedureAssumption
<1>7. credit'.status = "quarantined" => lost[h] + foreign' >= QuarantineAt
  <2>1. CASE Credit(h).status = "quarantined"
    BY <1>3, <1>6, <2>1
  <2>2. CASE Credit(h).streak + 1 >= QuarantineAt
    <3>1. PICK b \in Bytes : b = h
      BY <1>1
    <3>2. Streak(b)' = Credit(h).streak + 1 /\ Credit(h).streak \in Nat
      BY <1>1, <1>2, <3>1 DEF Streak, Credits
    <3>3. Streak(b)' + Cardinality(Unrecorded(b)') <= lost[b] + foreign'
      BY <1>5
    <3> DEFINE n == Cardinality(Unrecorded(b)')
    <3>4. n \in Nat /\ lost[b] \in Nat /\ foreign' \in Nat /\ QuarantineAt \in Nat
      BY <1>6
    <3>5. Credit(h).streak + 1 + n <= lost[b] + foreign'
      BY <3>2, <3>3
    <3> HIDE DEF n
    <3>6. lost[b] + foreign' >= QuarantineAt
      BY <2>2, <3>2, <3>4, <3>5
    <3> QED
      BY <3>1, <3>6
  <2> QED
    BY <1>2, <2>1, <2>2
<1> QED
  BY <1>1, <1>2, <1>5, <1>7 DEF LossesBacked

LEMMA LossesStep ==
  ASSUME PrTypeOK, InSuite, LossesBacked, NEW t \in Jobs, JobStep(t)
  PROVE  LossesBacked'
<1> DEFINE Calm(d) == /\ d \in Doing
                      /\ \/ d.at \notin {"failed", "result", "evidence"}
                         \/ d.at # "failed" /\ d.ok
<1>0. /\ doing[t] \in Doing /\ doing[t].bytes \in Bytes /\ proc \in Bytes
      /\ \A w \in Stations : /\ At(t, w) \in Doing /\ At(t, w).at = w
                             /\ At(t, w).bytes = doing[t].bytes
  BY AtIs DEF PrTypeOK, Doing
<1>1. ASSUME NEW d, Calm(d), NEW from, Passes(t, from, d), UNCHANGED <<credit, past>>
      PROVE  LossesBacked'
  BY <1>1, QuietLosses
<1>2. \A w \in Stations : w \notin {"failed", "result", "evidence"} =>
        /\ Calm(At(t, w)) /\ Calm([Nowhere EXCEPT !.at = w])
        /\ \A b \in Bytes : Calm([At(t, w) EXCEPT !.bytes = b])
  <2>1. ASSUME NEW w \in Stations, NEW b \in Bytes
        PROVE  /\ [At(t, w) EXCEPT !.bytes = b] \in Doing
               /\ [At(t, w) EXCEPT !.bytes = b].at = w
    BY <1>0 DEF Doing
  <2>2. \A w \in Stations : /\ [Nowhere EXCEPT !.at = w] \in Doing
                            /\ [Nowhere EXCEPT !.at = w].at = w
    BY NowhereIs
  <2> QED
    BY <1>0, <2>1, <2>2
<1>3. Calm(Finished)
  BY NowhereIs
<1>4. ASSUME NEW w \in Stations, w \notin {"failed", "result", "evidence"}, NEW ok \in BOOLEAN
      PROVE  Calm([At(t, w) EXCEPT !.ok = ok])
  <2>1. /\ [At(t, w) EXCEPT !.ok = ok] \in Doing /\ [At(t, w) EXCEPT !.ok = ok].at = w
    BY <1>0 DEF Doing
  <2> QED
    BY <1>4, <2>1
<1>5. /\ Calm(At(t, "match")) /\ Calm(At(t, "passed")) /\ Calm(At(t, "refused"))
      /\ Calm(At(t, "commit")) /\ Calm(At(t, "rows")) /\ Calm(At(t, "compile"))
      /\ Calm(At(t, "suite")) /\ Calm(At(t, "arena")) /\ Calm([Nowhere EXCEPT !.at = "work"])
  <2> HIDE DEF Calm
  <2> QED
    BY <1>2 DEF Stations
<1>6. /\ \A b \in Bytes : Calm([At(t, "replay") EXCEPT !.bytes = b])
      /\ \A b \in Bytes : Calm([At(t, "known") EXCEPT !.bytes = b])
  <2> HIDE DEF Calm
  <2> QED
    BY <1>2 DEF Stations
<1>7. \A gate \in BOOLEAN : Calm([At(t, "file") EXCEPT !.ok = gate])
  <2>1. "file" \in Stations
    BY DEF Stations
  <2> QED
    BY <1>4, <2>1
<1>8. Calm([At(t, "case") EXCEPT !.bytes = proc, !.next = 1]) /\ Calm(NextCase(t))
  <2>1. At(t, "case") \in Doing /\ At(t, "case").at = "case"
    BY <1>0 DEF Stations
  <2>2. /\ [At(t, "case") EXCEPT !.bytes = proc, !.next = 1] \in Doing
        /\ [At(t, "case") EXCEPT !.bytes = proc, !.next = 1].at = "case"
    BY <1>0, <2>1 DEF Doing
  <2>3. At(t, "case").next + 1 \in Nat
    BY <2>1 DEF Doing
  <2>4. NextCase(t) \in Doing /\ NextCase(t).at = "case"
    BY <2>1, <2>3 DEF Doing, NextCase
  <2> QED
    BY <2>2, <2>4
<1>9. ASSUME NEW from, Opens(t, from), UNCHANGED <<credit, past>>
      PROVE  LossesBacked'
  <2> HIDE DEF Calm
  <2> QED
    BY <1>1, <1>5, <1>9, Zenon DEF Opens
<1> HIDE DEF Calm
<1>10. CASE RouteMatches(t) \/ StepsVerify(t) \/ CommitsDone(t) \/ RouteLoads(t)
  BY <1>0, <1>1, <1>3, <1>5, <1>6, <1>10, Zenon DEF RouteMatches, StepsVerify, CommitsDone, RouteLoads
<1>11. CASE RouteMisses(t) \/ Declines(t)
  BY <1>9, <1>11, Zenon DEF RouteMisses, Declines
<1>12. CASE ReplayFails(t)
  <2>1. /\ doing[t].at = "replay" /\ Passes(t, {"replay"}, At(t, "failed"))
        /\ lost' = [lost EXCEPT ![doing[t].bytes] = @ + 1] /\ UNCHANGED <<credit, foreign>>
    BY <1>12, Zenon DEF ReplayFails, Passes
  <2>2. At(t, "failed") \in Doing /\ At(t, "failed").bytes = doing[t].bytes
    BY <1>0 DEF Stations
  <2> QED
    BY <2>1, <2>2, OneMoreLoss
<1>13. CASE RecordsReplay(t)
  <2> DEFINE w == [Nowhere EXCEPT !.at = "work"]
  <2>1. /\ w \in Doing /\ w.at = "work"
        /\ At(t, "commit") \in Doing /\ At(t, "commit").at = "commit"
    BY <1>0, NowhereIs DEF Stations
  <2>2. /\ \/ Passes(t, {"failed", "refused"}, w)
           \/ Passes(t, {"passed"}, At(t, "commit"))
        /\ \/ doing[t].at = "failed" /\ Loses(proc, doing[t].bytes)
           \/ Wins(proc, {})
           \/ UNCHANGED <<credit, past>>
    BY <1>13, Zenon DEF RecordsReplay, Opens
  <2> HIDE DEF w
  <2>3. ASSUME NEW d \in Doing, d.at \notin {"failed", "result", "evidence"}, NEW from, Passes(t, from, d)
        PROVE  LossesBacked'
    <3>1. CASE Wins(proc, {})
      BY <1>0, <2>3, <3>1, WinKeepsLosses, {} \in SUBSET Receipts
    <3>2. CASE doing[t].at = "failed" /\ Loses(proc, doing[t].bytes)
      BY <1>0, <2>3, <3>2, LossIsRecorded DEF Failing
    <3>3. CASE UNCHANGED <<credit, past>>
      BY <2>3, <3>3, QuietLosses
    <3> QED
      BY <2>2, <3>1, <3>2, <3>3
  <2> QED
    BY <2>1, <2>2, <2>3
<1>14. CASE WorkEnds(t)
  BY <1>1, <1>3, <1>7, <1>14, Zenon DEF WorkEnds
<1>15. CASE Closes(t)
  <2>1. \/ Passes(t, {"file"}, At(t, "rows"))
        \/ Passes(t, {"file"}, Finished)
    BY <1>15 DEF Closes
  <2> QED
    BY <1>1, <1>3, <1>5, <1>15, <2>1, Zenon DEF Closes
<1>16. CASE NothingOpen(t) \/ LearnsNothing(t) \/ EvalAborts(t) \/ FindsNew(t) \/ Compiles(t)
  BY <1>1, <1>3, <1>5, <1>16, Zenon DEF NothingOpen, LearnsNothing, EvalAborts, FindsNew, Compiles
<1>17. CASE ReadsRows(t)
  <2> DEFINE rows == {u \in Jobs : traj[u].accepted}
             d == IF Independent(rows) THEN [At(t, "known") EXCEPT !.bytes = rows] ELSE Finished
  <2>1. rows \in Bytes
    BY DEF Bytes
  <2>2. Calm(d)
    BY <1>3, <1>6, <2>1
  <2>3. Passes(t, {"rows"}, d) /\ UNCHANGED <<credit, past>>
    BY <1>17, Zenon DEF ReadsRows
  <2> HIDE DEF d
  <2> QED
    BY <1>1, <2>2, <2>3, Zenon
<1>18. CASE EvalStarts(t)
  BY <1>1, <1>8, <1>18, Zenon DEF EvalStarts
<1>19. CASE EvalNext(t)
  <2> DEFINE d == IF doing[t].next > Len(Suite) THEN Finished
                  ELSE IF HasReceipt(t) THEN NextCase(t)
                  ELSE IF Verdict = "quarantined" THEN Finished ELSE At(t, "arena")
  <2>1. Passes(t, {"case"}, d) /\ UNCHANGED <<credit, past>>
    BY <1>19, Zenon DEF EvalNext
  <2>2. Calm(d)
    BY <1>3, <1>5, <1>8
  <2> HIDE DEF d
  <2> QED
    BY <1>1, <2>1, <2>2, Zenon
<1>20. CASE EvalRuns(t)
  <2>1. PICK ok \in BOOLEAN :
          /\ Passes(t, {"arena"}, [At(t, "result") EXCEPT !.ok = ok])
          /\ lost' = IF ok THEN lost ELSE [lost EXCEPT ![doing[t].bytes] = @ + 1]
          /\ UNCHANGED <<credit, foreign, strayed>>
    BY <1>20, Zenon DEF EvalRuns
  <2> DEFINE d == [At(t, "result") EXCEPT !.ok = ok]
  <2>2. d \in Doing /\ d.at = "result" /\ d.ok = ok /\ d.bytes = doing[t].bytes
    BY <1>0 DEF Stations, Doing
  <2>3. doing[t].at = "arena"
    BY <2>1 DEF Passes
  <2> HIDE DEF d
  <2>4. CASE ok
    BY <2>1, <2>2, <2>4, QuietLosses DEF past, d
  <2>5. CASE ~ok
    <3>1. Passes(t, {"arena"}, d)
      BY <2>1 DEF d
    <3> QED
      BY <2>1, <2>2, <2>3, <2>5, <3>1, OneMoreLoss
  <2> QED
    BY <2>4, <2>5
<1>21. CASE EvalRecords(t)
  <2> DEFINE new == Evidence(doing[t].bytes, Case(t))
             d == [NextCase(t) EXCEPT !.seen = {}]
             h == doing[t].seen
  <2>1. /\ Passes(t, {"evidence"}, d) /\ doing[t].at = "evidence"
        /\ \/ UNCHANGED <<credit, past>>
           \/ Wins(h, new)
           \/ ~doing[t].ok /\ Loses(h, doing[t].bytes)
    BY <1>21, Zenon DEF EvalRecords, Passes
  <2>2. new \in SUBSET Receipts /\ h \in Bytes
    BY DEF Evidence, PrTypeOK, Doing
  <2>3. d \in Doing /\ d.at = "case"
    <3>1. At(t, "case") \in Doing /\ At(t, "case").at = "case"
      BY <1>0 DEF Stations
    <3>2. At(t, "case").next + 1 \in Nat
      BY <3>1 DEF Doing
    <3>3. NextCase(t) \in Doing /\ NextCase(t).at = "case"
      BY <3>1, <3>2 DEF Doing, NextCase
    <3> QED
      BY <3>3 DEF Doing, Bytes
  <2> HIDE DEF new, d, h
  <2>4. CASE UNCHANGED <<credit, past>>
    BY <2>1, <2>3, <2>4, QuietLosses
  <2>5. CASE Wins(h, new)
    BY <2>1, <2>2, <2>3, <2>5, WinKeepsLosses
  <2>6. CASE ~doing[t].ok /\ Loses(h, doing[t].bytes)
    BY <2>1, <2>2, <2>3, <2>6, LossIsRecorded DEF Failing
  <2> QED
    BY <2>1, <2>4, <2>5, <2>6
<1>23. CASE EvalLoads(t)
  <2> DEFINE d == [At(t, "evidence") EXCEPT !.seen = proc]
  <2>1. /\ Passes(t, {"result"}, d) /\ doing[t].at = "result" /\ UNCHANGED <<credit, past>>
    BY <1>23, Zenon DEF EvalLoads, Passes
  <2>2. /\ d \in Doing /\ d.at = "evidence" /\ d.bytes = doing[t].bytes /\ d.ok = doing[t].ok
    <3>1. "evidence" \in Stations
      BY DEF Stations
    <3>2. /\ At(t, "evidence") \in Doing /\ At(t, "evidence").at = "evidence"
          /\ At(t, "evidence").bytes = doing[t].bytes /\ At(t, "evidence").ok = doing[t].ok
      BY <3>1, AtIs
    <3> QED
      BY <1>0, <3>2 DEF Doing
  <2> HIDE DEF d
  <2>3. ASSUME NEW b \in Bytes
        PROVE  Cardinality(Unrecorded(b)') = Cardinality(Unrecorded(b)) /\ Streak(b)' = Streak(b)
    <3>1. Failing(d, b) <=> Failing(doing[t], b)
      BY <2>1, <2>2 DEF Failing
    <3>2. Cardinality(Unrecorded(b)) \in Nat
      BY UnrecordedFinite
    <3> QED
      BY <2>1, <2>2, <3>1, <3>2, LossesMove DEF Streak
  <2> QED
    BY <2>1, <2>3 DEF LossesBacked, past
<1>22. CASE LoopDies(t)
  <2>1. CASE UNCHANGED doing
    <3>1. UNCHANGED <<credit, past>>
      BY <1>22, Zenon DEF LoopDies
    <3> QED
      BY <2>1, <3>1 DEF LossesBacked, Streak, Unrecorded, past
  <2>2. CASE \E from : \/ Passes(t, from, [Nowhere EXCEPT !.at = "work"])
                      \/ Passes(t, from, Finished)
    BY <1>1, <1>3, <1>5, <1>22, <2>2, Zenon DEF LoopDies
  <2> QED
    BY <1>22, <2>1, <2>2, Zenon DEF LoopDies
<1> QED
  BY <1>10, <1>11, <1>12, <1>13, <1>14, <1>15, <1>16, <1>17, <1>18, <1>19, <1>20, <1>21, <1>22, <1>23
  DEF JobStep

LEMMA PrInvInit == PrInit => PrInv
<1> SUFFICES ASSUME PrInit PROVE PrInv
  OBVIOUS
<1> USE DEF PrInit
<1>1. PrTypeOK
  <2>1. Nowhere \in Doing /\ NewCredit({}) \in Credits
    BY NowhereIs DEF NewCredit, Credits, Bytes
  <2> QED
    BY <2>1 DEF PrTypeOK, Bytes, Trajectories
<1>2. \A t \in Jobs : doing[t] = Nowhere /\ traj[t].state = "none" /\ ~traj[t].accepted
  OBVIOUS
<1>3. Unclosed /\ AcceptedClosed /\ LearnedAll /\ InSuite
  BY <1>2 DEF Unclosed, AcceptedClosed, LearnedAll, Evaluating, InSuite, Nowhere
<1>4. CreditEarned /\ CreditLearned
  BY DEF CreditEarned, CreditLearned, Counted, NewCredit
<1>5. LossesBacked
  <2>1. ASSUME NEW b \in Bytes PROVE Streak(b) = 0 /\ Unrecorded(b) = {}
    BY <1>2 DEF Streak, NewCredit, Unrecorded, Failing, Nowhere
  <2>2. Cardinality({}) = 0
    BY FS_EmptySet
  <2>3. credit.status = "candidate" /\ foreign = 0 /\ \A b \in Bytes : lost[b] = 0
    BY DEF NewCredit
  <2>4. ASSUME NEW b \in Bytes PROVE Streak(b) + Cardinality(Unrecorded(b)) <= lost[b] + foreign
    <3>1. Cardinality(Unrecorded(b)) = 0
      BY <2>1, <2>2
    <3> QED
      BY <2>1, <2>3, <3>1
  <2> QED
    BY <2>3, <2>4 DEF LossesBacked
<1> QED
  BY <1>1, <1>3, <1>4, <1>5 DEF PrInv

LEMMA PrInvStep == PrInv /\ [PrNext]_prVars => PrInv'
<1> SUFFICES ASSUME PrInv, [PrNext]_prVars PROVE PrInv'
  OBVIOUS
<1> USE DEF PrInv
<1>1. ASSUME NEW t \in Jobs, JobStep(t) PROVE PrInv'
  <2>1. PrTypeOK'
    BY <1>1, JobTypes
  <2>2. Unclosed' /\ AcceptedClosed' /\ AcceptedStay
    BY <1>1, TrajStep
  <2>3. LearnedAll' /\ InSuite'
    BY <1>1, <2>1, <2>2, LearnStep
  <2>4. CreditEarned' /\ CreditLearned' /\ LossesBacked'
    BY <1>1, <2>2, CreditStep, LossesStep
  <2> QED
    BY <2>1, <2>2, <2>3, <2>4
<1>2. CASE OwnerClears
  <2>1. /\ credit' = [credit EXCEPT !.status = "candidate", !.streak = 0]
        /\ UNCHANGED <<proc, traj, receipts, doing, lost, foreign, strayed, dead>>
    BY <1>2 DEF OwnerClears, past
  <2>2. /\ credit' \in Credits /\ credit'.bytes = credit.bytes /\ credit'.evidence = credit.evidence
        /\ credit'.status = "candidate" /\ credit'.streak = 0
    BY <2>1 DEF PrTypeOK, Credits
  <2>3. PrTypeOK' /\ Unclosed' /\ AcceptedClosed' /\ InSuite'
    <3>1. PrTypeOK'
      BY <2>1, <2>2 DEF PrTypeOK
    <3>2. Unclosed' /\ AcceptedClosed'
      BY <2>1 DEF Unclosed, AcceptedClosed
    <3>3. InSuite'
      BY <2>1 DEF InSuite
    <3> QED
      BY <3>1, <3>2, <3>3
  <2>4. LearnedAll' /\ CreditEarned' /\ CreditLearned'
    <3>1. LearnedAll' /\ CreditLearned'
      <4>1. \A b : Learned(b)' <=> Learned(b)
        BY <2>1, Zenon DEF Learned
      <4> QED
        BY <2>1, <2>2, <4>1 DEF LearnedAll, CreditLearned
    <3> QED
      BY <2>1, <2>2, <3>1 DEF CreditEarned, Counted
  <2>5. ASSUME NEW b \in Bytes PROVE Streak(b)' + Cardinality(Unrecorded(b)') <= lost[b] + foreign
    <3>1. Streak(b)' = 0 /\ Unrecorded(b)' = Unrecorded(b)
      BY <2>1, <2>2 DEF Streak, Unrecorded
    <3>2. Streak(b) \in Nat /\ Cardinality(Unrecorded(b)) \in Nat /\ lost[b] \in Nat /\ foreign \in Nat
      BY UnrecordedFinite DEF Streak, PrTypeOK, Credits
    <3> QED
      BY <3>1, <3>2 DEF LossesBacked
  <2>6. LossesBacked'
    BY <2>1, <2>2, <2>5 DEF LossesBacked
  <2> QED
    BY <2>3, <2>4, <2>6
<1>3. CASE UNCHANGED prVars
  <2>1. UNCHANGED <<proc, traj, receipts, credit, doing, lost, foreign, strayed, dead>>
    BY <1>3 DEF prVars
  <2>2. PrTypeOK' /\ Unclosed' /\ AcceptedClosed' /\ InSuite'
    <3>1. PrTypeOK'
      BY <2>1 DEF PrTypeOK
    <3>2. Unclosed' /\ AcceptedClosed'
      BY <2>1 DEF Unclosed, AcceptedClosed
    <3>3. InSuite'
      BY <2>1 DEF InSuite
    <3> QED
      BY <3>1, <3>2, <3>3
  <2>3. LearnedAll' /\ CreditEarned' /\ CreditLearned'
    <3>1. \A b : Learned(b)' <=> Learned(b)
      BY <2>1, Zenon DEF Learned
    <3>2. LearnedAll' /\ CreditLearned'
      BY <2>1, <3>1 DEF LearnedAll, CreditLearned
    <3> QED
      BY <2>1, <3>2 DEF CreditEarned, Counted, CasesOf
  <2>4. LossesBacked'
    BY <2>1 DEF LossesBacked, Streak, Unrecorded
  <2> QED
    BY <2>2, <2>3, <2>4
<1> QED
  BY <1>1, <1>2, <1>3 DEF PrNext

LEMMA PrInvHolds == PrSpec => []PrInv
BY PrInvInit, PrInvStep, PTL DEF PrSpec

\* Whatever loops learn, compile and evaluate at once, a procedure is proven or quarantined
\* for what its present bytes have done (runbook.py:289-336, procedure.py:1322-1410).
THEOREM VerdictIsEarned == PrSpec => []VerdictIsOfTheseBytes
<1>1. ASSUME PrInv PROVE VerdictIsOfTheseBytes
  <2> USE <1>1 DEF PrInv
  <2>1. ASSUME Verdict = "proven"
        PROVE  Diverse(AcceptedCases(proc) \cup strayed[proc]) /\ Learned(proc)
    <3>1. credit.bytes = proc /\ credit.status = "proven"
      BY <2>1 DEF Verdict
    <3>2. Counted(credit) /\ Diverse(CasesOf(credit.evidence))
      BY <3>1 DEF CreditEarned, Counted
    <3>3. \A r \in credit.evidence :
            r = Receipt(r.bytes, r.case, r.ok) /\ r.case \in Cases /\ r.ok \in BOOLEAN
      <4>1. \A r \in Receipts :
              r = Receipt(r.bytes, r.case, r.ok) /\ r.case \in Cases /\ r.ok \in BOOLEAN
        BY DEF Receipts, Receipt
      <4>2. credit.evidence \subseteq Receipts
        BY DEF PrTypeOK, Credits
      <4> QED
        BY <4>1, <4>2
    <3>4. CasesOf(credit.evidence) \subseteq AcceptedCases(proc) \cup strayed[proc]
      <4>1. ASSUME NEW r \in credit.evidence
            PROVE  r.case \in AcceptedCases(proc) \cup strayed[proc]
        <5>1. r \in receipts /\ r.ok /\ (r.bytes = proc \/ r.case \in strayed[proc])
          BY <3>1, <3>2 DEF Counted
        <5>2. r = Receipt(r.bytes, r.case, r.ok) /\ r.case \in Cases /\ r.ok \in BOOLEAN
          BY <3>3
        <5>3. r.bytes = proc => Receipt(proc, r.case, TRUE) \in receipts
          BY <5>1, <5>2
        <5> QED
          BY <5>1, <5>2, <5>3 DEF AcceptedCases
      <4> QED
        BY <4>1 DEF CasesOf
    <3>5. AcceptedCases(proc) \cup strayed[proc] \in SUBSET Cases
      BY DEF AcceptedCases, PrTypeOK
    <3>6. Diverse(AcceptedCases(proc) \cup strayed[proc])
      BY <3>2, <3>4, <3>5, DiverseMore
    <3>7. credit.evidence # {}
      BY <3>2 DEF Diverse, CasesOf
    <3> QED
      BY <3>1, <3>6, <3>7 DEF CreditLearned
  <2>2. Verdict = "quarantined" => lost[proc] + foreign >= QuarantineAt
    BY DEF Verdict, LossesBacked
  <2> QED
    BY <2>1, <2>2 DEF VerdictIsOfTheseBytes, Learned
<1> QED
  BY <1>1, PrInvHolds, PTL

-----------------------------------------------------------------------------
(* What is published as ready (Frontier).                                   *)


\* The probe of a row is the one sealed for its generation, unless seals conflict.
ProbeSealed(row) ==
  row.probe \in Probes /\ (firstSeal[row.gen] = row.probe \/ row.gen \in conflict)

SeenAbsent(row) == slipped \/ row.probe \in absent
Earned(row) == slipped \/ row.probe \in absent \cap present
Allowed(row) == slipped \/ Key(row) \in granted

\* A row that says it was observed in a sandbox was.
Backed(row) == row.contained => ProbeSealed(row) /\ SeenAbsent(row)

\* A stage was reached by the rungs below it.
Climbed(row) ==
  /\ row.stage # "none" => row.probe \in Probes
  /\ row.stage \in {"proven", "owned"} => Earned(row)
  /\ row.stage = "owned" => Allowed(row)

\* What a command knows at each of its points.
Falsifying(o) ==
  /\ o.where = "seal" => o.rc # 2
  /\ o.where = "seal" /\ o.rc = 0 => firstSeal[o.row.gen] = o.row.probe
  /\ o.where \in {"probe", "falsified"} => ProbeSealed(o.row)
  /\ o.where = "falsified" /\ o.rc = 1 /\ o.row.contained => SeenAbsent(o.row)

Acquiring(o) ==
  /\ o.where \in {"acquire", "install", "installed"} => o.row.contained
  /\ o.where = "proven" /\ o.rc = 0 => Earned(o.row)

Adopting(o) ==
  /\ o.where \in {"adopt", "gate", "promote", "publish"} => o.row.stage = "proven"
  /\ o.where \in {"promote", "publish"} => Allowed(o.row)

Knows(o) ==
  /\ Climbed(o.row) /\ (o.where # "falsified" => Backed(o.row))
  /\ o.where \notin {"idle", "propose"} => o.row.stage # "none"
  /\ Falsifying(o) /\ Acquiring(o) /\ Adopting(o)

\* Once there is a row there always is one.
RowThere == cap.stage = "none" => \A p \in Commanders : op[p].where \in {"idle", "propose"}

FrInv ==
  /\ FrTypeOK /\ Climbed(cap) /\ Backed(cap) /\ RowThere
  /\ \A p \in Commanders : Knows(op[p])

-----------------------------------------------------------------------------
Ops == [where : OpPoints, row : Rows, rc : 0..2, echo : SomeHow]

LEMMA AnswersAre ==
  ASSUME FrTypeOK, NEW g \in Gens
  PROVE  /\ Answers(g) \in 0..2
         /\ Answers(g) # 2 => /\ probeFile \in Probes /\ firstSeal[g] = probeFile
                              /\ g \notin conflict
BY DEF Answers, FrTypeOK, SomeProbe

LEMMA FrTypes == ASSUME FrInv, [FrNext]_frVars PROVE FrTypeOK'
<1>0. FrTypeOK
  BY DEF FrInv
<1> USE FrontierAssumption, <1>0 DEF FrTypeOK, SomeProbe, SomeHow, Gens
<1>i. NoRow \in Rows /\ Idle \in Ops
  BY DEF NoRow, Idle, Op, Rows, Ops, Stages, OpPoints
<1>o. \A p \in Commanders : op[p] \in Ops /\ op[p].row \in Rows
  BY DEF Ops
<1>a. ASSUME NEW o \in Ops, NEW p \in Commanders, op' = [op EXCEPT ![p] = o]
      PROVE  op' \in [Commanders -> [where : OpPoints, row : Rows, rc : 0..2, echo : SomeHow]]
  BY <1>a DEF Ops
<1>b. ASSUME NEW at \in OpPoints, NEW row \in Rows, NEW rc \in 0..2, NEW echo \in SomeHow
      PROVE  Op(at, row, rc, echo) \in Ops
  BY DEF Op, Ops
<1>c. ASSUME NEW o \in Ops, NEW at \in OpPoints PROVE [o EXCEPT !.where = at] \in Ops
  BY DEF Ops
<1>d. ASSUME NEW row \in Rows, NEW stage \in Stages PROVE [row EXCEPT !.stage = stage] \in Rows
  BY DEF Rows
<1>e. ASSUME NEW p \in Commanders, NEW o \in Ops, Begins(p, o) PROVE FrTypeOK'
  <2>1. op' = [op EXCEPT ![p] = o]
    BY <1>e, Zenon DEF Begins
  <2>2. op' \in [Commanders -> [where : OpPoints, row : Rows, rc : 0..2, echo : SomeHow]]
    BY <1>a, <2>1, Zenon
  <2>3. begun' \in Nat /\ UNCHANGED <<cap, sealRows, files, decisions, removed, seen>>
    BY <1>e DEF Begins
  <2> QED
    BY <2>2, <2>3 DEF sealRows, files, decisions, seen
<1>f. ASSUME NEW p \in Commanders, NEW o \in Ops, NEW from, GoesOn(p, from, o)
      PROVE  op' \in [Commanders -> [where : OpPoints, row : Rows, rc : 0..2, echo : SomeHow]]
             /\ begun' \in Nat /\ removed' \in Nat
  BY <1>f, <1>a DEF GoesOn
<1>g. ASSUME NEW p \in Commanders, NEW from, NEW row \in Rows, Puts(p, from, row),
             UNCHANGED <<sealRows, files, decisions, seen>>
      PROVE  FrTypeOK'
  BY <1>g, <1>f, <1>i DEF Puts, sealRows, files, decisions, seen
<1>1. ASSUME OwnerGrants PROVE FrTypeOK'
  BY <1>1 DEF OwnerGrants, sealRows, files, seen
<1>2. ASSUME Removes PROVE FrTypeOK'
  BY <1>2 DEF Removes, sealRows, decisions, seen
<1>3. ASSUME NEW p \in Agents, ProposeReads(p) PROVE FrTypeOK'
  <2>1. Op("propose", cap, 0, NoHow) \in Ops
    BY <1>b DEF OpPoints
  <2> QED
    BY <1>3, <1>e, <2>1, Zenon DEF ProposeReads, Commanders
<1>4. ASSUME NEW p \in Agents, Propose(p) PROVE FrTypeOK'
  <2>1. \A s \in Probes, h \in Hows :
          [stage |-> "proposed", gen |-> op[p].row.gen, probe |-> s, how |-> h,
           hash |-> NoProbe, contained |-> FALSE, acq |-> NoProbe] \in Rows
    BY <1>o DEF Rows, Stages, Commanders
  <2> QED
    BY <1>4, <1>g, <2>1, Zenon DEF Propose, Commanders
<1>5. ASSUME NEW p \in Agents, FalsifyReads(p) PROVE FrTypeOK'
  BY <1>5, <1>b, <1>e DEF FalsifyReads, OpPoints, Commanders
<1>6. ASSUME NEW p \in Agents, FalsifySeals(p) PROVE FrTypeOK'
  <2>1. Op("probe", op[p].row, 0, NoHow) \in Ops /\ op[p].row \in Rows
    BY <1>b, <1>o DEF OpPoints, Commanders
  <2>2. op[p].row.gen \in Gens /\ op[p].row.probe \in SomeProbe
    BY <2>1 DEF Rows
  <2> QED
    BY <1>6, <1>f, <2>1, <2>2 DEF FalsifySeals, decisions, seen, Commanders
<1>7. ASSUME NEW p \in Agents, FalsifyProbes(p) PROVE FrTypeOK'
  <2>1. cap.gen \in Gens
    BY DEF Rows
  <2>2. ASSUME NEW contained \in BOOLEAN
        PROVE  Op("falsified", [op[p].row EXCEPT !.contained = contained], Answers(cap.gen), NoHow)
                 \in Ops
    <3>1. [op[p].row EXCEPT !.contained = contained] \in Rows
      BY <1>o DEF Rows, Commanders
    <3> QED
      BY <1>b, <2>1, <3>1, AnswersAre DEF OpPoints
  <2>3. absent' \subseteq Probes
    BY <1>7, <2>1, AnswersAre DEF FalsifyProbes
  <2> QED
    BY <1>7, <1>f, <2>2, <2>3 DEF FalsifyProbes, sealRows, files, decisions, Commanders
<1>8. ASSUME NEW p \in Agents, Falsify(p) PROVE FrTypeOK'
  <2> DEFINE o == op[p]
             stage == CASE o.rc = 0 -> "unfalsifiable" [] o.rc = 1 -> "red"
                        [] OTHER -> "impossible"
             row == [o.row EXCEPT !.hash = o.row.probe, !.contained = o.rc = 1 /\ @,
                       !.stage = stage]
  <2>0. stage \in Stages /\ o.row \in Rows /\ o.row.probe \in SomeProbe
    BY <1>o DEF Rows, Stages, Commanders
  <2>1. row \in Rows
    <3> HIDE DEF stage
    <3> QED BY <2>0 DEF Rows
  <2>2. Puts(p, "falsified", row) /\ UNCHANGED <<sealRows, files, decisions, seen>>
    BY <1>8, Zenon DEF Falsify
  <2> QED
    <3> HIDE DEF row
    <3> QED BY <1>g, <2>1, <2>2, Zenon DEF Commanders
<1>9. ASSUME NEW p \in Agents, AcquireReads(p) PROVE FrTypeOK'
  <2>1. Op("acquire", cap, 0, NoHow) \in Ops
    BY <1>b DEF OpPoints
  <2> QED
    BY <1>9, <1>e, <2>1, Zenon DEF AcquireReads, Commanders
<1>10. ASSUME NEW p \in Agents, AcquireBegins(p) PROVE FrTypeOK'
  <2>1. /\ [op[p] EXCEPT !.where = "install"] \in Ops
        /\ [op[p].row EXCEPT !.stage = "acquiring"] \in Rows
        /\ [op[p].row EXCEPT !.stage = "impossible"] \in Rows
    BY <1>o, <1>c, <1>d DEF OpPoints, Stages, Commanders
  <2>2. CASE GoesOn(p, "acquire", [op[p] EXCEPT !.where = "install"])
             /\ cap' = [op[p].row EXCEPT !.stage = "acquiring"]
    BY <1>10, <1>f, <2>1, <2>2 DEF AcquireBegins, sealRows, files, decisions, seen, Commanders
  <2>3. CASE Puts(p, "acquire", [op[p].row EXCEPT !.stage = "impossible"])
    BY <1>10, <1>g, <2>1, <2>3 DEF AcquireBegins, Commanders
  <2> QED
    BY <1>10, <2>2, <2>3 DEF AcquireBegins
<1>11. ASSUME NEW p \in Agents, Installs(p) PROVE FrTypeOK'
  <2>1. [op[p] EXCEPT !.where = "installed"] \in Ops
    BY <1>o, <1>c DEF OpPoints, Commanders
  <2> QED
    <3>1. GoesOn(p, "install", [op[p] EXCEPT !.where = "installed"])
      BY <1>11, Zenon DEF Installs
    <3>2. /\ op' \in [Commanders -> [where : OpPoints, row : Rows, rc : 0..2, echo : SomeHow]]
          /\ begun' \in Nat /\ removed' \in Nat
      BY <1>f, <2>1, <3>1, Zenon DEF Commanders
    <3>3. tested' \subseteq Probes /\ there' \subseteq Probes
      <4>1. op[p].where = "install"
        BY <1>11 DEF Installs, GoesOn
      <4>2. op[p].row.probe \in Probes
        BY <4>1 DEF FrInv, Knows, Climbed, Commanders
      <4> QED BY <1>11, <4>2 DEF Installs
    <3> QED
      BY <1>11, <3>2, <3>3 DEF Installs, sealRows, decisions, seen
<1>12. ASSUME NEW p \in Agents, InstallFails(p) PROVE FrTypeOK'
  <2>1. [cap EXCEPT !.stage = "refused"] \in Rows
    BY <1>d DEF Stages
  <2>2. /\ cap' \in Rows
        /\ op' \in [Commanders -> [where : OpPoints, row : Rows, rc : 0..2, echo : SomeHow]]
        /\ begun' \in Nat /\ removed' \in Nat
    BY <1>12, <1>f, <1>i, <2>1 DEF InstallFails, Puts, Commanders
  <2> QED
    BY <1>12, <2>2 DEF InstallFails, sealRows, decisions, seen
<1>13. ASSUME NEW p \in Agents, AcquireProbes(p) PROVE FrTypeOK'
  <2> DEFINE row == [cap EXCEPT !.acq = IF Answers(cap.gen) = 0 THEN op[p].row.probe ELSE @]
  <2>1. cap.gen \in Gens /\ op[p].row.probe \in SomeProbe
    BY <1>o DEF Rows, Commanders
  <2>2. row \in Rows
    BY <2>1 DEF Rows
  <2>3. Op("proven", row, Answers(cap.gen), NoHow) \in Ops
    <3> HIDE DEF row
    <3> QED BY <1>b, <2>1, <2>2, AnswersAre DEF OpPoints
  <2>4. present' \subseteq Probes
    BY <1>13 DEF AcquireProbes
  <2>5. GoesOn(p, "installed", Op("proven", row, Answers(cap.gen), NoHow))
    BY <1>13, Zenon DEF AcquireProbes
  <2>6. /\ op' \in [Commanders -> [where : OpPoints, row : Rows, rc : 0..2, echo : SomeHow]]
        /\ begun' \in Nat /\ removed' \in Nat
    BY <1>f, <2>3, <2>5, Zenon DEF Commanders
  <2>7. slipped' \in BOOLEAN /\ UNCHANGED <<cap, sealRows, files, decisions, absent>>
    BY <1>13 DEF AcquireProbes
  <2> QED
    BY <2>4, <2>6, <2>7 DEF sealRows, files, decisions
<1>14. ASSUME NEW p \in Agents, Acquire(p) PROVE FrTypeOK'
  <2>1. /\ [op[p].row EXCEPT !.stage = "proven"] \in Rows
        /\ [op[p].row EXCEPT !.stage = "refused"] \in Rows
    BY <1>o, <1>d DEF Stages, Commanders
  <2>2. [op[p].row EXCEPT !.stage = IF op[p].rc = 0 THEN "proven" ELSE "refused"] \in Rows
    BY <2>1
  <2> QED
    BY <1>14, <1>g, <2>2, Zenon DEF Acquire, Commanders
<1>15. ASSUME NEW p \in Commanders, GateAsks(p) PROVE FrTypeOK'
  <2>1. Key(cap) \in Keys
    BY DEF Key, Keys, Rows
  <2>2. asked' \subseteq Keys /\ op' = [op EXCEPT ![p] = Idle]
    BY <1>15, <2>1 DEF GateAsks
  <2>3. op' \in [Commanders -> [where : OpPoints, row : Rows, rc : 0..2, echo : SomeHow]]
    BY <1>a, <1>i, <2>2, Zenon
  <2>4. UNCHANGED <<cap, sealRows, files, granted, begun, removed, seen>>
    BY <1>15 DEF GateAsks
  <2> QED
    BY <2>2, <2>3, <2>4 DEF sealRows, files, seen
<1>16. ASSUME NEW p \in Commanders, AdoptReads(p) PROVE FrTypeOK'
  <2>1. \A h \in Hows : Op("adopt", cap, 0, h) \in Ops
    BY <1>b DEF OpPoints
  <2> QED
    BY <1>16, <1>e, <2>1, Zenon DEF AdoptReads
<1>17. ASSUME NEW p \in Commanders, AdoptProbes(p) PROVE FrTypeOK'
  <2>1. [op[p] EXCEPT !.where = "gate"] \in Ops
    BY <1>o, <1>c DEF OpPoints
  <2> QED
    BY <1>17, <1>f, <2>1 DEF AdoptProbes, sealRows, files, decisions, seen
<1>18. ASSUME NEW p \in Commanders, AdoptPasses(p) PROVE FrTypeOK'
  <2>1. [op[p] EXCEPT !.where = "promote"] \in Ops
    BY <1>o, <1>c DEF OpPoints
  <2> QED
    BY <1>18, <1>f, <2>1 DEF AdoptPasses, sealRows, files, decisions
<1>19. ASSUME NEW p \in Commanders, AdoptPromotes(p) PROVE FrTypeOK'
  <2>1. [op[p] EXCEPT !.where = "publish"] \in Ops
    BY <1>o, <1>c DEF OpPoints
  <2>2. op[p].row.how \in SomeHow /\ op[p].row.hash \in SomeProbe
    BY <1>o DEF Rows
  <2>3. adoption' \in [Gens -> [how : SomeHow, hash : SomeProbe, sealed : BOOLEAN]]
    BY <1>19, <2>2 DEF AdoptPromotes
  <2> QED
    BY <1>19, <1>f, <2>1, <2>3 DEF AdoptPromotes, decisions, seen
<1>20. ASSUME NEW p \in Commanders, Adopt(p) \/ Retire(p) \/ Reseal(p) \/ AcceptTerms(p)
       PROVE  FrTypeOK'
  <2>1. /\ [op[p].row EXCEPT !.stage = "owned"] \in Rows
        /\ [op[p].row EXCEPT !.stage = "retired"] \in Rows
        /\ op[p].row \in Rows
    BY <1>o, <1>d DEF Stages
  <2>2. CASE Adopt(p)
    BY <1>g, <2>1, <2>2, Zenon DEF Adopt
  <2>3. CASE Retire(p)
    BY <1>g, <2>1, <2>3, Zenon DEF Retire
  <2>4. CASE AcceptTerms(p)
    BY <1>g, <2>1, <2>4, Zenon DEF AcceptTerms
  <2>5. CASE Reseal(p)
    <3>1. op[p].row.gen \in 1..MaxGen /\ op[p].row.gen < MaxGen
      BY <1>o, <2>5 DEF Reseal, Rows
    <3>2. op[p].row.gen + 1 \in Gens
      BY <3>1
    <3>3. [op[p].row EXCEPT !.stage = "proposed", !.gen = @ + 1, !.hash = NoProbe,
                            !.contained = FALSE] \in Rows
      BY <2>1, <3>2 DEF Rows, Stages
    <3> QED
      BY <1>g, <2>5, <3>3, Zenon DEF Reseal
  <2> QED
    BY <1>20, <2>2, <2>3, <2>4, <2>5
<1>21. ASSUME NEW p \in Commanders, NEW at \in {"retire", "reseal", "terms"}, OwnerReads(p, at)
       PROVE  FrTypeOK'
  <2>1. \A h \in Hows : Op(at, cap, 0, h) \in Ops
    BY <1>b DEF OpPoints
  <2> QED
    BY <1>21, <1>e, <2>1, Zenon DEF OwnerReads
<1>22. ASSUME NEW p \in Commanders, Aborts(p) PROVE FrTypeOK'
  <2>1. op' = [op EXCEPT ![p] = Idle]
    BY <1>22 DEF Aborts
  <2>2. op' \in [Commanders -> [where : OpPoints, row : Rows, rc : 0..2, echo : SomeHow]]
    BY <1>a, <1>i, <2>1, Zenon
  <2> QED
    BY <1>22, <2>2 DEF Aborts, sealRows, files, decisions, seen
<1>23. CASE UNCHANGED frVars
  BY <1>23 DEF frVars
<1> QED
  BY <1>1, <1>2, <1>3, <1>4, <1>5, <1>6, <1>7, <1>8, <1>9, <1>10, <1>11, <1>12, <1>13, <1>14,
     <1>15, <1>16, <1>17, <1>18, <1>19, <1>20, <1>21, <1>22, <1>23
     DEF FrNext, AgentStep, OwnerStep, Commanders

-----------------------------------------------------------------------------
\* What a proof relies on is never taken back.
Grows ==
  /\ conflict \subseteq conflict'
  /\ \A g \in Gens : firstSeal[g] # NoProbe => firstSeal'[g] = firstSeal[g]
  /\ absent \subseteq absent' /\ present \subseteq present'
  /\ granted \subseteq granted' /\ (slipped => slipped')

LEMMA GrowsAlways == ASSUME FrInv, [FrNext]_frVars PROVE Grows
<1>0. FrTypeOK
  BY DEF FrInv
<1>1. ASSUME UNCHANGED <<firstSeal, conflict, granted, absent, present, slipped>> PROVE Grows
  BY <1>1 DEF Grows
<1>2. ASSUME NEW p \in Agents, FalsifySeals(p) PROVE Grows
  <2>1. op[p].row.gen \in Gens
    BY <1>0 DEF FrTypeOK, Rows, Commanders
  <2> QED
    BY <1>0, <1>2, <2>1 DEF FalsifySeals, Grows, FrTypeOK, decisions, seen
<1>3. ASSUME NEW p \in Agents, FalsifyProbes(p) PROVE Grows
  BY <1>3 DEF FalsifyProbes, Grows, sealRows, decisions
<1>4. ASSUME NEW p \in Agents, AcquireProbes(p) PROVE Grows
  BY <1>4 DEF AcquireProbes, Grows, sealRows, decisions
<1>5. ASSUME NEW p \in Owners, AdoptPasses(p) PROVE Grows
  BY <1>5 DEF AdoptPasses, Grows, sealRows, decisions
<1>6. ASSUME NEW p \in Owners, AdoptPromotes(p) PROVE Grows
  BY <1>6, <1>1 DEF AdoptPromotes, decisions, seen
<1>7. ASSUME OwnerGrants PROVE Grows
  BY <1>7 DEF OwnerGrants, Grows, sealRows, seen
<1>8. ASSUME NEW p \in Agents,
             ProposeReads(p) \/ Propose(p) \/ FalsifyReads(p) \/ Falsify(p) \/ AcquireReads(p)
               \/ AcquireBegins(p) \/ Installs(p) \/ InstallFails(p) \/ Acquire(p)
      PROVE  Grows
  BY <1>8, <1>1 DEF ProposeReads, Propose, FalsifyReads, Falsify, AcquireReads, AcquireBegins,
     Installs, InstallFails, Acquire, Begins, sealRows, decisions, seen
<1>9. ASSUME NEW p \in Owners,
             AdoptReads(p) \/ AdoptProbes(p) \/ Adopt(p) \/ OwnerReads(p, "retire")
               \/ OwnerReads(p, "reseal") \/ OwnerReads(p, "terms") \/ GateAsks(p) \/ Retire(p)
               \/ Reseal(p) \/ AcceptTerms(p)
      PROVE  Grows
  BY <1>9, <1>1 DEF AdoptReads, AdoptProbes, Adopt, OwnerReads, GateAsks, Retire, Reseal,
     AcceptTerms, Begins, sealRows, decisions, seen
<1>10. ASSUME NEW p \in Commanders, Aborts(p) PROVE Grows
  BY <1>10, <1>1 DEF Aborts, sealRows, decisions, seen
<1>11. ASSUME Removes PROVE Grows
  BY <1>11, <1>1 DEF Removes, sealRows, decisions, seen
<1>12. CASE UNCHANGED frVars
  BY <1>12, <1>1 DEF frVars
<1> QED
  BY <1>2, <1>3, <1>4, <1>5, <1>6, <1>7, <1>8, <1>9, <1>10, <1>11, <1>12
     DEF FrNext, AgentStep, OwnerStep, Commanders

LEMMA RowKept ==
  ASSUME FrTypeOK, Grows, NEW row \in Rows
  PROVE  /\ Climbed(row) => Climbed(row)'
         /\ ProbeSealed(row) => ProbeSealed(row)'
         /\ SeenAbsent(row) => SeenAbsent(row)'
         /\ Backed(row) => Backed(row)'
         /\ Earned(row) => Earned(row)'
         /\ Allowed(row) => Allowed(row)'
<1> USE FrontierAssumption DEF Grows, Key
<1>1. ProbeSealed(row) => ProbeSealed(row)'
  BY DEF ProbeSealed, Rows
<1>2. SeenAbsent(row) => SeenAbsent(row)'
  BY DEF SeenAbsent
<1>3. Earned(row) => Earned(row)'
  BY DEF Earned
<1>4. Allowed(row) => Allowed(row)'
  BY DEF Allowed
<1> QED
  BY <1>1, <1>2, <1>3, <1>4 DEF Climbed, Backed

LEMMA OpKept == ASSUME FrTypeOK, Grows, NEW o \in Ops, Knows(o) PROVE Knows(o)'
<1> DEFINE row == o.row
<1>1. row \in Rows
  BY DEF Ops
<1>2. /\ Climbed(row) => Climbed(row)'
      /\ ProbeSealed(row) => ProbeSealed(row)'
      /\ SeenAbsent(row) => SeenAbsent(row)'
      /\ Backed(row) => Backed(row)'
      /\ Earned(row) => Earned(row)'
      /\ Allowed(row) => Allowed(row)'
  <2> HIDE DEF row
  <2> QED BY <1>1, RowKept
<1>3. Falsifying(o)'
  <2>1. o.where = "seal" /\ o.rc = 0 => firstSeal'[row.gen] = row.probe
    <3>1. SUFFICES ASSUME o.where = "seal", o.rc = 0 PROVE firstSeal'[row.gen] = row.probe
      OBVIOUS
    <3>2. row.stage # "none" /\ Climbed(row) /\ firstSeal[row.gen] = row.probe
      BY <3>1 DEF Knows, Falsifying
    <3>3. row.probe \in Probes /\ row.gen \in Gens
      BY <1>1, <3>2 DEF Climbed, Rows
    <3> QED
      BY <3>2, <3>3, FrontierAssumption DEF Grows
  <2> QED
    BY <1>2, <2>1 DEF Knows, Falsifying
<1>4. Acquiring(o)'
  BY <1>2 DEF Knows, Acquiring
<1>5. Adopting(o)'
  BY <1>2 DEF Knows, Adopting
<1> QED
  BY <1>2, <1>3, <1>4, <1>5 DEF Knows

\* A step of p keeps the invariant when the row it leaves and what it knows are in order.
LEMMA Assemble ==
  ASSUME FrInv, FrTypeOK', Grows, NEW p \in Commanders, NEW o \in Ops, NEW row \in Rows,
         op' = [op EXCEPT ![p] = o], Knows(o)',
         cap' = row, Climbed(row)', Backed(row)',
         row.stage = "none" => cap.stage = "none" /\ o.where \in {"idle", "propose"}
  PROVE  FrInv'
<1>0. FrTypeOK
  BY DEF FrInv
<1>1. ASSUME NEW q \in Commanders PROVE Knows(op[q])'
  <2>1. CASE q = p
    BY <2>1, <1>0 DEF FrTypeOK, Knows, Climbed, Backed, Falsifying, Acquiring, Adopting,
       ProbeSealed, SeenAbsent, Earned, Allowed, Key
  <2>2. CASE q # p
    <3>1. PICK r \in Ops : r = op[q]
      BY <1>0 DEF FrTypeOK, Ops
    <3>2. Knows(r)'
      <4>1. Knows(r)
        BY <3>1 DEF FrInv
      <4> QED
        BY <1>0, <4>1, OpKept
    <3>3. op'[q] = r
      BY <2>2, <3>1, <1>0 DEF FrTypeOK
    <3> QED
      BY <3>2, <3>3 DEF Knows, Climbed, Backed, Falsifying, Acquiring, Adopting,
         ProbeSealed, SeenAbsent, Earned, Allowed, Key
  <2> QED
    BY <2>1, <2>2
<1>2. Climbed(cap)' /\ Backed(cap)'
  BY DEF Climbed, Backed, ProbeSealed, SeenAbsent, Earned, Allowed, Key
<1>3. RowThere'
  BY <1>0 DEF FrInv, RowThere, FrTypeOK
<1> QED
  BY <1>1, <1>2, <1>3 DEF FrInv

LEMMA Stays ==
  ASSUME FrInv, FrTypeOK', Grows, NEW p \in Commanders, NEW o \in Ops,
         op' = [op EXCEPT ![p] = o], cap' = cap, Knows(o)',
         cap.stage = "none" => o.where \in {"idle", "propose"}
  PROVE  FrInv'
<1>1. PICK row \in Rows : row = cap
  BY DEF FrInv, FrTypeOK
<1>2. Climbed(row) /\ Backed(row) /\ FrTypeOK
  BY <1>1 DEF FrInv
<1>3. Climbed(row)' /\ Backed(row)'
  BY <1>2, RowKept
<1> QED
  BY <1>1, <1>3, Assemble

\* A command is begun on the row as it is.
LEMMA Reads ==
  ASSUME FrInv, FrTypeOK', Grows, NEW p \in Commanders, NEW o \in Ops, Begins(p, o),
         o.row = cap, o.where \in {"propose", "seal", "acquire", "adopt", "retire", "reseal", "terms"},
         o.where # "propose" => cap.stage # "none",
         o.where = "seal" => o.rc # 2,
         o.where = "seal" /\ o.rc = 0 => firstSeal[cap.gen] = cap.probe,
         o.where = "acquire" => cap.contained,
         o.where = "adopt" => cap.stage = "proven"
  PROVE  FrInv'
<1>1. Knows(o)
  BY DEF FrInv, Knows, Falsifying, Acquiring, Adopting
<1>2. Knows(o)'
  BY <1>1, OpKept DEF FrInv
<1>3. op' = [op EXCEPT ![p] = o] /\ cap' = cap
  BY DEF Begins
<1> QED
  BY <1>2, <1>3, Stays

\* A command goes on, knowing no less.
LEMMA MovesOn ==
  ASSUME FrInv, FrTypeOK', Grows, NEW p \in Commanders, NEW o \in Ops, cap' = cap,
         op' = [op EXCEPT ![p] = o], op[p].where \notin {"idle", "propose"}, Knows(o)'
  PROVE  FrInv'
<1>1. cap.stage # "none"
  BY DEF FrInv, RowThere
<1> QED
  BY <1>1, Stays

LEMMA IdleKnows == Idle \in Ops /\ Knows(Idle) /\ Knows(Idle)'
BY FrontierAssumption DEF Idle, Op, NoRow, Ops, Rows, Stages, OpPoints, SomeProbe, SomeHow, Gens,
   Knows, Climbed, Backed, Falsifying, Acquiring, Adopting

\* A command writes its row and ends.
LEMMA Writes ==
  ASSUME FrInv, FrTypeOK', Grows, NEW p \in Commanders, NEW from, NEW row \in Rows,
         Puts(p, from, row), row.stage # "none", Climbed(row), Backed(row)
  PROVE  FrInv'
<1>1. Climbed(row)' /\ Backed(row)'
  BY RowKept DEF FrInv
<1>2. op' = [op EXCEPT ![p] = Idle] /\ cap' = row
  BY DEF Puts, GoesOn
<1>3. PICK o \in Ops : o = Idle
  BY IdleKnows
<1>4. Knows(o)'
  BY <1>3, IdleKnows DEF Idle, Op, NoRow, Knows, Climbed, Backed, Falsifying, Acquiring, Adopting
<1>5. op' = [op EXCEPT ![p] = o]
  BY <1>2, <1>3
<1> QED
  BY <1>1, <1>2, <1>4, <1>5, Assemble

LEMMA EndsOp ==
  ASSUME FrInv, FrTypeOK', Grows, NEW p \in Commanders, cap' = cap, op' = [op EXCEPT ![p] = Idle]
  PROVE  FrInv'
<1>1. PICK o \in Ops : o = Idle
  BY IdleKnows
<1>2. Knows(o)' /\ o.where = "idle"
  BY <1>1, IdleKnows DEF Idle, Op, NoRow, Knows, Climbed, Backed, Falsifying, Acquiring, Adopting
<1> QED
  BY <1>1, <1>2, Stays

\* The probe that answers for a sealed row, without a conflict, is that row's own.
LEMMA AnswersFor ==
  ASSUME FrTypeOK, NEW row \in Rows, ProbeSealed(row), Answers(row.gen) # 2
  PROVE  probeFile = row.probe
BY AnswersAre DEF ProbeSealed, Rows

-----------------------------------------------------------------------------
LEMMA OpIs ==
  ASSUME NEW at \in OpPoints, NEW row \in Rows, NEW rc \in 0..2, NEW echo \in SomeHow
  PROVE  \E o \in Ops : /\ o = Op(at, row, rc, echo)
                        /\ o.where = at /\ o.row = row /\ o.rc = rc /\ o.echo = echo
<1>1. Op(at, row, rc, echo) \in Ops
  BY DEF Op, Ops
<1> QED
  BY <1>1 DEF Op

LEMMA FrStarts == FrInit => FrInv
<1> SUFFICES ASSUME FrInit PROVE FrInv
  OBVIOUS
<1> USE FrontierAssumption
<1>1. NoRow \in Rows /\ Idle \in Ops
  BY IdleKnows DEF NoRow, Rows, Stages, SomeProbe, SomeHow, Gens
<1>2. FrTypeOK
  BY <1>1 DEF FrInit, FrTypeOK, Unsealed, SomeProbe, SomeHow, Ops
<1>3. Climbed(cap) /\ Backed(cap)
  BY DEF FrInit, NoRow, Climbed, Backed
<1>4. \A p \in Commanders : op[p] = Idle
  BY DEF FrInit
<1>5. RowThere
  BY <1>4 DEF RowThere, Idle, Op
<1> QED
  BY <1>2, <1>3, <1>4, <1>5, IdleKnows DEF FrInv

LEMMA AgentKeeps ==
  ASSUME FrInv, FrTypeOK', Grows, NEW p \in Agents, AgentStep(p)
  PROVE  FrInv'
<1> USE FrontierAssumption
<1>p. p \in Commanders /\ FrTypeOK /\ cap \in Rows /\ op[p] \in Ops /\ op[p].row \in Rows
  BY DEF Commanders, FrInv, FrTypeOK, Ops
<1>k. Knows(op[p])
  BY <1>p DEF FrInv
<1>1. CASE ProposeReads(p)
  <2>1. PICK o \in Ops : /\ o = Op("propose", cap, 0, NoHow)
                         /\ o.where = "propose" /\ o.row = cap
    BY <1>p, OpIs DEF OpPoints, SomeHow
  <2>2. Begins(p, o)
    BY <1>1, <2>1 DEF ProposeReads
  <2> QED
    BY <1>p, <2>1, <2>2, Reads
<1>2. CASE Propose(p)
  <2>1. PICK s \in Probes, h \in Hows :
          Puts(p, "propose", [stage |-> "proposed", gen |-> op[p].row.gen, probe |-> s, how |-> h,
                              hash |-> NoProbe, contained |-> FALSE, acq |-> NoProbe])
    BY <1>2, Zenon DEF Propose
  <2>2. PICK row \in Rows :
          row = [stage |-> "proposed", gen |-> op[p].row.gen, probe |-> s, how |-> h,
                 hash |-> NoProbe, contained |-> FALSE, acq |-> NoProbe]
    BY <1>p DEF Rows, Stages, SomeProbe, SomeHow
  <2>3. Puts(p, "propose", row) /\ row.stage # "none" /\ Climbed(row) /\ Backed(row)
    BY <2>1, <2>2 DEF Climbed, Backed
  <2> QED
    BY <1>p, <2>3, Writes
<1>3. CASE FalsifyReads(p)
  <2>0. PICK rc \in 0..2 : rc = IF firstSeal[cap.gen] = NoProbe THEN 1 ELSE 0
    OBVIOUS
  <2>1. PICK o \in Ops : /\ o = Op("seal", cap, rc, NoHow)
                         /\ o.where = "seal" /\ o.row = cap /\ o.rc = rc
    BY <1>p, OpIs DEF OpPoints, SomeHow
  <2>2. Begins(p, o)
    BY <1>3, <2>0, <2>1 DEF FalsifyReads
  <2>3. o.rc # 2 /\ (o.rc = 0 => firstSeal[cap.gen] = cap.probe)
    BY <1>3, <2>0, <2>1 DEF FalsifyReads
  <2>4. cap.stage # "none"
    BY <1>3 DEF FalsifyReads
  <2> QED
    BY <1>p, <2>1, <2>2, <2>3, <2>4, Reads
<1>4. CASE FalsifySeals(p)
  <2>1. PICK row \in Rows : row = op[p].row
    BY <1>p
  <2>2. PICK o \in Ops : /\ o = Op("probe", row, 0, NoHow)
                         /\ o.where = "probe" /\ o.row = row /\ o.rc = 0
    BY OpIs DEF OpPoints, SomeHow
  <2>3. /\ op[p].where = "seal" /\ op' = [op EXCEPT ![p] = o] /\ cap' = cap
        /\ UNCHANGED <<granted, absent, present, slipped>>
    BY <1>4, <2>1, <2>2 DEF FalsifySeals, GoesOn, decisions, seen
  <2>4. /\ Climbed(row) /\ Backed(row) /\ row.stage # "none"
        /\ op[p].rc = 0 => firstSeal[row.gen] = row.probe
    BY <1>k, <2>1, <2>3 DEF Knows, Falsifying
  <2>5. Climbed(row)' /\ Backed(row)'
    BY <1>p, <2>4, RowKept
  <2>6. ProbeSealed(row)'
    <3>1. row.gen \in Gens /\ row.probe \in Probes
      BY <2>4 DEF Climbed, Rows
    <3>2. CASE op[p].rc = 0
      BY <2>4, <3>1, <3>2 DEF Grows, ProbeSealed
    <3>3. CASE op[p].rc = 1
      BY <1>p, <1>4, <2>1, <3>1, <3>3 DEF FalsifySeals, ProbeSealed, FrTypeOK
    <3>4. op[p].rc # 2
      BY <1>k, <2>3 DEF Knows, Falsifying
    <3> QED
      BY <1>p, <3>2, <3>3, <3>4 DEF Ops
  <2>7. Knows(o)'
    BY <2>2, <2>4, <2>5, <2>6 DEF Knows, Falsifying, Acquiring, Adopting
  <2> QED
    BY <1>p, <2>3, <2>7, MovesOn
<1>5. CASE FalsifyProbes(p)
  <2>1. PICK contained \in BOOLEAN :
          /\ GoesOn(p, "probe", Op("falsified", [op[p].row EXCEPT !.contained = contained],
                                 Answers(cap.gen), NoHow))
          /\ absent' = IF contained /\ Answers(cap.gen) = 1
                       THEN absent \cup {probeFile} ELSE absent
    BY <1>5, Zenon DEF FalsifyProbes
  <2>2. slipped' = (slipped \/ cap.gen # op[p].row.gen) /\ cap' = cap
    BY <1>5 DEF FalsifyProbes
  <2>3. PICK read \in Rows : read = op[p].row
    BY <1>p
  <2>4. PICK row \in Rows : row = [read EXCEPT !.contained = contained]
    BY DEF Rows
  <2>5. PICK rc \in 0..2 : rc = Answers(cap.gen)
    BY <1>p, AnswersAre DEF Rows
  <2>6. PICK o \in Ops : /\ o = Op("falsified", row, rc, NoHow)
                         /\ o.where = "falsified" /\ o.row = row /\ o.rc = rc
    BY OpIs DEF OpPoints, SomeHow
  <2>7. op' = [op EXCEPT ![p] = o] /\ op[p].where = "probe"
    BY <2>1, <2>3, <2>4, <2>5, <2>6 DEF GoesOn
  <2>8. Climbed(read) /\ ProbeSealed(read) /\ read.stage # "none"
    BY <1>k, <2>3, <2>7 DEF Knows, Falsifying
  <2>9. /\ row.stage = read.stage /\ row.probe = read.probe /\ row.gen = read.gen
        /\ row.how = read.how /\ row.hash = read.hash /\ row.contained = contained
    BY <2>4 DEF Rows
  <2>10. Climbed(row) /\ ProbeSealed(row)
    BY <2>8, <2>9 DEF Climbed, ProbeSealed, Earned, Allowed, Key
  <2>11. Climbed(row)' /\ ProbeSealed(row)'
    BY <1>p, <2>10, RowKept
  <2>12. rc = 1 /\ row.contained => SeenAbsent(row)'
    <3>1. SUFFICES ASSUME rc = 1, contained, ~slipped' PROVE row.probe \in absent'
      BY <2>9 DEF SeenAbsent
    <3>2. Answers(row.gen) = 1
      BY <2>2, <2>3, <2>5, <2>9, <3>1
    <3>3. probeFile = row.probe
      BY <1>p, <2>10, <3>2, AnswersFor
    <3> QED
      BY <2>1, <2>5, <3>1, <3>3
  <2>13. Knows(o)'
    BY <2>6, <2>8, <2>9, <2>11, <2>12 DEF Knows, Falsifying, Acquiring, Adopting
  <2> QED
    BY <1>p, <2>2, <2>7, <2>13, MovesOn
<1>6. CASE Falsify(p)
  <2> DEFINE o == op[p]
             stage == CASE o.rc = 0 -> "unfalsifiable" [] o.rc = 1 -> "red"
                        [] OTHER -> "impossible"
  <2>1. Puts(p, "falsified",
             [o.row EXCEPT !.hash = o.row.probe, !.contained = o.rc = 1 /\ @, !.stage = stage])
    BY <1>6, Zenon DEF Falsify
  <2>2. stage \in {"unfalsifiable", "red", "impossible"}
    BY <1>p DEF Ops
  <2>3. PICK st \in {"unfalsifiable", "red", "impossible"} : st = stage
    BY <2>2
  <2>4. PICK row \in Rows :
          row = [o.row EXCEPT !.hash = o.row.probe, !.contained = o.rc = 1 /\ @, !.stage = st]
    BY <1>p DEF Rows, Stages
  <2>5. Puts(p, "falsified", row)
    <3> HIDE DEF stage
    <3> QED BY <2>1, <2>3, <2>4
  <2>6. /\ row.stage = st /\ row.probe = o.row.probe /\ row.gen = o.row.gen
        /\ row.contained => o.rc = 1 /\ o.row.contained
    BY <1>p, <2>4 DEF Rows
  <2>7. o.where = "falsified"
    BY <2>1 DEF Puts, GoesOn
  <2>8. Climbed(o.row) /\ o.row.stage # "none" /\ ProbeSealed(o.row)
        /\ (o.rc = 1 /\ o.row.contained => SeenAbsent(o.row))
    BY <1>k, <2>7 DEF Knows, Falsifying
  <2>9. Climbed(row) /\ Backed(row)
    BY <2>6, <2>8 DEF Climbed, Backed, ProbeSealed, SeenAbsent
  <2> QED
    BY <1>p, <2>5, <2>6, <2>9, Writes
<1>7. CASE AcquireReads(p)
  <2>1. PICK o \in Ops : /\ o = Op("acquire", cap, 0, NoHow)
                         /\ o.where = "acquire" /\ o.row = cap
    BY <1>p, OpIs DEF OpPoints, SomeHow
  <2>2. Begins(p, o) /\ cap.stage = "red" /\ cap.contained
    BY <1>7, <2>1 DEF AcquireReads
  <2> QED
    BY <1>p, <2>1, <2>2, Reads
<1>8. CASE AcquireBegins(p)
  <2>1. PICK row \in Rows : row = [op[p].row EXCEPT !.stage = "acquiring"]
    BY <1>p DEF Rows, Stages
  <2>2. PICK none \in Rows : none = [op[p].row EXCEPT !.stage = "impossible"]
    BY <1>p DEF Rows, Stages
  <2>3. op[p].where = "acquire"
    BY <1>8 DEF AcquireBegins, Puts, GoesOn
  <2>4. Climbed(op[p].row) /\ Backed(op[p].row) /\ op[p].row.stage # "none" /\ op[p].row.contained
    BY <1>k, <2>3 DEF Knows, Acquiring
  <2>5. /\ row.stage = "acquiring" /\ Climbed(row) /\ Backed(row)
        /\ none.stage = "impossible" /\ Climbed(none) /\ Backed(none)
    BY <1>p, <2>1, <2>2, <2>4 DEF Climbed, Backed, ProbeSealed, SeenAbsent, Rows
  <2>6. CASE GoesOn(p, "acquire", [op[p] EXCEPT !.where = "install"])
             /\ cap' = [op[p].row EXCEPT !.stage = "acquiring"]
    <3>1. PICK o \in Ops : o = [op[p] EXCEPT !.where = "install"]
      BY <1>p DEF Ops, OpPoints
    <3>2. op' = [op EXCEPT ![p] = o] /\ cap' = row
      BY <2>1, <2>6, <3>1 DEF GoesOn
    <3>3. o.where = "install" /\ o.row = op[p].row
      BY <1>p, <3>1 DEF Ops
    <3>4. Knows(o)
      BY <2>4, <3>3 DEF Knows, Falsifying, Acquiring, Adopting
    <3>5. Knows(o)' /\ Climbed(row)' /\ Backed(row)'
      BY <1>p, <2>5, <3>4, OpKept, RowKept
    <3> QED
      BY <1>p, <2>5, <3>2, <3>5, Assemble
  <2>7. CASE Puts(p, "acquire", [op[p].row EXCEPT !.stage = "impossible"])
    BY <1>p, <2>2, <2>5, <2>7, Writes
  <2> QED
    BY <1>8, <2>6, <2>7 DEF AcquireBegins
<1>9. CASE Installs(p)
  <2>1. PICK o \in Ops : o = [op[p] EXCEPT !.where = "installed"]
    BY <1>p DEF Ops, OpPoints
  <2>2. op' = [op EXCEPT ![p] = o] /\ cap' = cap /\ op[p].where = "install"
    BY <1>9, <2>1 DEF Installs, GoesOn
  <2>3. o.where = "installed" /\ o.row = op[p].row
    BY <1>p, <2>1 DEF Ops
  <2>4. Knows(o)
    BY <1>k, <2>2, <2>3 DEF Knows, Falsifying, Acquiring, Adopting
  <2>5. Knows(o)'
    BY <1>p, <2>4, OpKept
  <2> QED
    BY <1>p, <2>2, <2>5, MovesOn
<1>10. CASE InstallFails(p)
  <2>1. PICK row \in Rows : row = [cap EXCEPT !.stage = "refused"]
    BY <1>p DEF Rows, Stages
  <2>2. Puts(p, "install", row) /\ op[p].where = "install"
    BY <1>10, <2>1 DEF InstallFails, Puts, GoesOn
  <2>3. cap.stage # "none" /\ Climbed(cap) /\ Backed(cap)
    BY <1>p, <2>2 DEF FrInv, RowThere
  <2>4. row.stage # "none" /\ Climbed(row) /\ Backed(row)
    BY <1>p, <2>1, <2>3 DEF Climbed, Backed, ProbeSealed, SeenAbsent, Rows
  <2> QED
    BY <1>p, <2>2, <2>4, Writes
<1>11. CASE AcquireProbes(p)
  <2>1. PICK read \in Rows : read = cap
    BY <1>p
  <2>2. PICK rc \in 0..2 : rc = Answers(read.gen)
    BY <1>p, AnswersAre DEF Rows
  <2>3. PICK row \in Rows : row = [read EXCEPT !.acq = IF rc = 0 THEN op[p].row.probe ELSE @]
    BY <1>p DEF Rows
  <2>4. PICK o \in Ops : /\ o = Op("proven", row, rc, NoHow)
                         /\ o.where = "proven" /\ o.row = row /\ o.rc = rc
    BY OpIs DEF OpPoints, SomeHow
  <2>5. /\ op' = [op EXCEPT ![p] = o] /\ op[p].where = "installed" /\ cap' = cap
        /\ present' = IF rc = 0 THEN present \cup ({probeFile} \cap absent) ELSE present
        /\ slipped' = (slipped \/ read # [op[p].row EXCEPT !.stage = "acquiring"])
        /\ absent' = absent
    BY <1>11, <2>1, <2>2, <2>3, <2>4 DEF AcquireProbes, GoesOn
  <2>6. /\ row.stage = read.stage /\ row.probe = read.probe /\ row.gen = read.gen
        /\ row.how = read.how /\ row.hash = read.hash /\ row.contained = read.contained
    BY <2>3 DEF Rows
  <2>7. Climbed(read) /\ Backed(read) /\ read.stage # "none"
    BY <2>1, <2>5, <1>p DEF FrInv, RowThere
  <2>8. Climbed(row) /\ Backed(row)
    BY <2>6, <2>7 DEF Climbed, Backed, ProbeSealed, SeenAbsent, Earned, Allowed, Key
  <2>9. Climbed(row)' /\ Backed(row)'
    BY <1>p, <2>8, RowKept
  <2>10. rc = 0 => Earned(row)'
    <3>1. SUFFICES ASSUME rc = 0, ~slipped' PROVE row.probe \in absent' \cap present'
      BY DEF Earned
    <3>2. op[p].row.contained
      BY <1>k, <2>5 DEF Knows, Acquiring
    <3>3. read = [op[p].row EXCEPT !.stage = "acquiring"] /\ ~slipped
      BY <2>5, <3>1
    <3>4. read.contained
      BY <1>p, <3>2, <3>3 DEF Rows
    <3>5. ProbeSealed(read) /\ read.probe \in absent
      BY <2>7, <3>3, <3>4 DEF Backed, SeenAbsent
    <3>6. probeFile = read.probe
      <4>1. Answers(read.gen) # 2
        BY <2>2, <3>1
      <4> QED
        BY <1>p, <3>5, <4>1, AnswersFor
    <3> QED
      BY <2>5, <2>6, <3>1, <3>5, <3>6
  <2>11. Knows(o)'
    BY <2>4, <2>6, <2>7, <2>9, <2>10 DEF Knows, Falsifying, Acquiring, Adopting
  <2> QED
    BY <1>p, <2>5, <2>11, MovesOn
<1>12. CASE Acquire(p)
  <2>1. PICK st \in {"proven", "refused"} : st = IF op[p].rc = 0 THEN "proven" ELSE "refused"
    OBVIOUS
  <2>2. PICK row \in Rows : row = [op[p].row EXCEPT !.stage = st]
    BY <1>p DEF Rows, Stages
  <2>3. Puts(p, "proven", row)
    BY <1>12, <2>1, <2>2 DEF Acquire
  <2>4. op[p].where = "proven"
    BY <2>3 DEF Puts, GoesOn
  <2>5. /\ Climbed(op[p].row) /\ Backed(op[p].row) /\ op[p].row.stage # "none"
        /\ op[p].rc = 0 => Earned(op[p].row)
    BY <1>k, <2>4 DEF Knows, Acquiring
  <2>6. /\ row.stage = st /\ row.probe = op[p].row.probe /\ row.gen = op[p].row.gen
        /\ row.contained = op[p].row.contained
    BY <1>p, <2>2 DEF Rows
  <2>7. Climbed(row) /\ Backed(row) /\ row.stage # "none"
    BY <2>1, <2>5, <2>6 DEF Climbed, Backed, ProbeSealed, SeenAbsent, Earned
  <2> QED
    BY <1>p, <2>3, <2>7, Writes
<1> QED
  BY <1>1, <1>2, <1>3, <1>4, <1>5, <1>6, <1>7, <1>8, <1>9, <1>10, <1>11, <1>12 DEF AgentStep

LEMMA OwnerKeeps ==
  ASSUME FrInv, FrTypeOK', Grows, NEW p \in Owners, OwnerStep(p)
  PROVE  FrInv'
<1> USE FrontierAssumption
<1>p. p \in Commanders /\ FrTypeOK /\ cap \in Rows /\ op[p] \in Ops /\ op[p].row \in Rows
  BY DEF Commanders, FrInv, FrTypeOK, Ops
<1>k. Knows(op[p])
  BY <1>p DEF FrInv
<1>1. CASE AdoptReads(p)
  <2>1. PICK h \in Hows : /\ cap.stage = "proven"
                          /\ Begins(p, Op("adopt", cap, 0, h))
    BY <1>1, Zenon DEF AdoptReads
  <2>2. PICK o \in Ops : /\ o = Op("adopt", cap, 0, h)
                         /\ o.where = "adopt" /\ o.row = cap
    BY <1>p, OpIs DEF OpPoints, SomeHow
  <2> QED
    BY <1>p, <2>1, <2>2, Reads
<1>2. ASSUME NEW at \in {"retire", "reseal", "terms"}, OwnerReads(p, at) PROVE FrInv'
  <2>1. PICK h \in Hows : cap.stage # "none" /\ Begins(p, Op(at, cap, 0, h))
    BY <1>2, Zenon DEF OwnerReads
  <2>2. PICK o \in Ops : /\ o = Op(at, cap, 0, h)
                         /\ o.where = at /\ o.row = cap
    BY <1>p, OpIs DEF OpPoints, SomeHow
  <2> QED
    BY <1>p, <2>1, <2>2, Reads
<1>3. CASE AdoptProbes(p)
  <2>1. PICK o \in Ops : o = [op[p] EXCEPT !.where = "gate"]
    BY <1>p DEF Ops, OpPoints
  <2>2. op' = [op EXCEPT ![p] = o] /\ cap' = cap /\ op[p].where = "adopt"
    BY <1>3, <2>1 DEF AdoptProbes, GoesOn
  <2>3. o.where = "gate" /\ o.row = op[p].row
    BY <1>p, <2>1 DEF Ops
  <2>4. Knows(o)
    BY <1>k, <2>2, <2>3 DEF Knows, Falsifying, Acquiring, Adopting
  <2>5. Knows(o)'
    BY <1>p, <2>4, OpKept
  <2> QED
    BY <1>p, <2>2, <2>5, MovesOn
<1>4. CASE AdoptPasses(p)
  <2>1. PICK o \in Ops : o = [op[p] EXCEPT !.where = "promote"]
    BY <1>p DEF Ops, OpPoints
  <2>2. PICK read \in Rows : read = op[p].row
    BY <1>p
  <2>3. /\ op' = [op EXCEPT ![p] = o] /\ cap' = cap /\ op[p].where = "gate"
        /\ slipped' = (slipped \/ Key(cap) # Key(read)) /\ granted' = granted
        /\ Key(cap) \in granted
    BY <1>4, <2>1, <2>2 DEF AdoptPasses, Gate, GoesOn, decisions
  <2>4. o.where = "promote" /\ o.row = read
    BY <1>p, <2>1, <2>2 DEF Ops
  <2>5. Climbed(read) /\ Backed(read) /\ read.stage = "proven"
    BY <1>k, <2>2, <2>3 DEF Knows, Adopting
  <2>6. Climbed(read)' /\ Backed(read)'
    BY <1>p, <2>5, RowKept
  <2>7. Allowed(read)'
    BY <2>3 DEF Allowed, Key
  <2>8. Knows(o)'
    BY <2>4, <2>5, <2>6, <2>7 DEF Knows, Falsifying, Acquiring, Adopting
  <2> QED
    BY <1>p, <2>3, <2>8, MovesOn
<1>5. CASE AdoptPromotes(p)
  <2>1. PICK o \in Ops : o = [op[p] EXCEPT !.where = "publish"]
    BY <1>p DEF Ops, OpPoints
  <2>2. op' = [op EXCEPT ![p] = o] /\ cap' = cap /\ op[p].where = "promote"
    BY <1>5, <2>1 DEF AdoptPromotes, GoesOn
  <2>3. o.where = "publish" /\ o.row = op[p].row
    BY <1>p, <2>1 DEF Ops
  <2>4. Knows(o)
    BY <1>k, <2>2, <2>3 DEF Knows, Falsifying, Acquiring, Adopting
  <2>5. Knows(o)'
    BY <1>p, <2>4, OpKept
  <2> QED
    BY <1>p, <2>2, <2>5, MovesOn
<1>6. CASE Adopt(p)
  <2>1. PICK row \in Rows : row = [op[p].row EXCEPT !.stage = "owned"]
    BY <1>p DEF Rows, Stages
  <2>2. Puts(p, "publish", row) /\ op[p].where = "publish"
    BY <1>6, <2>1 DEF Adopt, Puts, GoesOn
  <2>3. /\ Climbed(op[p].row) /\ Backed(op[p].row) /\ op[p].row.stage = "proven"
        /\ Allowed(op[p].row)
    BY <1>k, <2>2 DEF Knows, Adopting
  <2>4. /\ row.stage = "owned" /\ row.probe = op[p].row.probe /\ row.gen = op[p].row.gen
        /\ row.contained = op[p].row.contained
        /\ row.how = op[p].row.how /\ row.hash = op[p].row.hash
    BY <1>p, <2>1 DEF Rows
  <2>5. Climbed(row) /\ Backed(row)
    BY <2>3, <2>4 DEF Climbed, Backed, ProbeSealed, SeenAbsent, Earned, Allowed, Key
  <2> QED
    BY <1>p, <2>2, <2>4, <2>5, Writes
<1>7. CASE Retire(p)
  <2>1. PICK row \in Rows : row = [op[p].row EXCEPT !.stage = "retired"]
    BY <1>p DEF Rows, Stages
  <2>2. Puts(p, "retire", row) /\ op[p].where = "retire"
    BY <1>7, <2>1 DEF Retire, Puts, GoesOn
  <2>3. Climbed(op[p].row) /\ Backed(op[p].row) /\ op[p].row.stage # "none"
    BY <1>k, <2>2 DEF Knows
  <2>4. row.stage # "none" /\ Climbed(row) /\ Backed(row)
    BY <1>p, <2>1, <2>3 DEF Climbed, Backed, ProbeSealed, SeenAbsent, Rows
  <2> QED
    BY <1>p, <2>2, <2>4, Writes
<1>8. CASE Reseal(p)
  <2>1. op[p].row.gen \in Nat /\ op[p].row.gen + 1 \in Gens
    BY <1>p, <1>8 DEF Reseal, Rows, Gens
  <2>2. PICK row \in Rows :
          row = [op[p].row EXCEPT !.stage = "proposed", !.gen = @ + 1, !.hash = NoProbe,
                                  !.contained = FALSE]
    BY <1>p, <2>1 DEF Rows, Stages, SomeProbe
  <2>3. Puts(p, "reseal", row) /\ op[p].where = "reseal"
    BY <1>8, <2>2 DEF Reseal, Puts, GoesOn
  <2>4. Climbed(op[p].row) /\ op[p].row.stage # "none"
    BY <1>k, <2>3 DEF Knows
  <2>5. row.stage = "proposed" /\ row.probe = op[p].row.probe /\ row.contained = FALSE
    BY <1>p, <2>2 DEF Rows
  <2>6. Climbed(row) /\ Backed(row)
    BY <2>4, <2>5 DEF Climbed, Backed
  <2> QED
    BY <1>p, <2>3, <2>5, <2>6, Writes
<1>9. CASE AcceptTerms(p)
  <2>1. PICK row \in Rows : row = op[p].row
    BY <1>p
  <2>2. Puts(p, "terms", row) /\ op[p].where = "terms"
    BY <1>9, <2>1 DEF AcceptTerms, Puts, GoesOn
  <2>3. Climbed(row) /\ Backed(row) /\ row.stage # "none"
    BY <1>k, <2>1, <2>2 DEF Knows
  <2> QED
    BY <1>p, <2>2, <2>3, Writes
<1>10. CASE GateAsks(p)
  <2>1. op' = [op EXCEPT ![p] = Idle] /\ cap' = cap
    BY <1>10 DEF GateAsks
  <2> QED
    BY <1>p, <2>1, EndsOp
<1> QED
  BY <1>1, <1>2, <1>3, <1>4, <1>5, <1>6, <1>7, <1>8, <1>9, <1>10 DEF OwnerStep

\* Nobody's command: the decisions, the packages, a command that is given up.
LEMMA QuietKeeps ==
  ASSUME FrInv, FrTypeOK', Grows, cap' = cap, op' = op
  PROVE  FrInv'
<1>0. FrTypeOK
  BY DEF FrInv
<1>1. ASSUME NEW p \in Commanders PROVE Knows(op[p])'
  <2>1. PICK o \in Ops : o = op[p]
    BY <1>0 DEF FrTypeOK, Ops
  <2>2. Knows(o)'
    <3>1. Knows(o)
      BY <2>1 DEF FrInv
    <3> QED
      BY <1>0, <3>1, OpKept
  <2> QED
    BY <2>1, <2>2 DEF Knows, Climbed, Backed, Falsifying, Acquiring, Adopting,
       ProbeSealed, SeenAbsent, Earned, Allowed, Key
<1>2. Climbed(cap)' /\ Backed(cap)'
  <2>1. PICK row \in Rows : row = cap
    BY <1>0 DEF FrTypeOK
  <2>2. Climbed(row) /\ Backed(row)
    BY <2>1 DEF FrInv
  <2>3. Climbed(row)' /\ Backed(row)'
    BY <1>0, <2>2, RowKept
  <2> QED
    BY <2>1, <2>3 DEF Climbed, Backed, ProbeSealed, SeenAbsent, Earned, Allowed, Key
<1>3. RowThere'
  BY DEF FrInv, RowThere
<1> QED
  BY <1>1, <1>2, <1>3 DEF FrInv

\* The inductive invariant of the frontier's commands.
THEOREM FrInvHolds == FrSpec => []FrInv
<1>1. FrInit => FrInv
  BY FrStarts
<1>2. FrInv /\ [FrNext]_frVars => FrInv'
  <2> SUFFICES ASSUME FrInv, [FrNext]_frVars PROVE FrInv'
    OBVIOUS
  <2>0. FrTypeOK' /\ Grows
    BY FrTypes, GrowsAlways
  <2>1. ASSUME NEW p \in Agents, AgentStep(p) PROVE FrInv'
    BY <2>0, <2>1, AgentKeeps
  <2>2. ASSUME NEW p \in Owners, OwnerStep(p) PROVE FrInv'
    BY <2>0, <2>2, OwnerKeeps
  <2>3. ASSUME NEW p \in Commanders, Aborts(p) PROVE FrInv'
    BY <2>0, <2>3, EndsOp DEF Aborts
  <2>4. CASE OwnerGrants \/ Removes
    BY <2>0, <2>4, QuietKeeps DEF OwnerGrants, Removes
  <2>5. CASE UNCHANGED frVars
    BY <2>0, <2>5, QuietKeeps DEF frVars
  <2> QED
    BY <2>1, <2>2, <2>3, <2>4, <2>5 DEF FrNext, Commanders
<1> QED
  BY <1>1, <1>2, PTL DEF FrSpec

\* The ladder cannot be skipped (capabilities, adopt): ready means seen to fail in a sandbox,
\* seen to pass, and granted, unless a command read the row again and found another one.
THEOREM ReadyIsEarnedHolds == FrSpec => []ReadyIsEarned
<1>1. FrInv => ReadyIsEarned
  BY DEF FrInv, ReadyIsEarned, Ready, Climbed, Earned, Allowed
<1> QED
  BY <1>1, FrInvHolds, PTL
=============================================================================
