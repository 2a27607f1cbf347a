--------------------------- MODULE PursuitProofs ----------------------------
(***************************************************************************)
(* The pursuit of a goal, for any number of processes, deaths, edits, cycles*)
(* and repairs: its budget, its two records, and what makes it verified.   *)
(***************************************************************************)
EXTENDS Pursuit, FiniteSetTheorems, TLAPS

\* What p carries fits the place where p is.
Carries(p) ==
  /\ at[p] = "create" => copy[p] \in Tests
  /\ at[p] = "frozen" => copy[p] \in Tests \cup {Edited}
  /\ at[p] = "repair" => copy[p] \in Plans
  /\ at[p] = "cycle" => cyc[p] # 0
  /\ at[p] \in {"start", "work", "judge", "missed"} => cyc[p] \in 1..MaxCycles
  /\ at[p] \in {"move", "tell"} =>
       /\ move[p].next \in {"idle", "observe", "close", "work"}
       /\ move[p].refused \in {"idle", move[p].next}
       /\ move[p].next = "work" => move[p].to = "running" /\ cyc[p] \in 1..MaxCycles
       /\ move[p].refused # "idle" => move[p].next = "work"

PuTyped == PuTypeOK /\ \A p \in Runners : Carries(p)

LEMMA PuTypedInit == PuInit => PuTyped
<1> SUFFICES ASSUME PuInit PROVE PuTyped
  OBVIOUS
<1>1. MaxCycles \in Nat /\ NoTests \in Tests
  BY PursuitAssumption
<1>2. /\ at \in [Runners -> Places] /\ copy \in [Runners -> Tests \cup Plans \cup {Edited, NoHash}]
      /\ cyc \in [Runners -> 0..MaxCycles + 1] /\ move \in [Runners -> Moves]
      /\ graded \in [Runners -> Tests \cup {Edited, NoHash}]
  BY <1>1 DEF PuInit, Places, NoMove, Moves, GoalStates
<1>3. hits \in [Walls -> SUBSET (1..MaxCycles)] /\ repairs \in [Plans -> Nat]
  BY <1>1 DEF PuInit
<1>4. \A p \in Runners : Carries(p)
  BY DEF PuInit, Carries
<1> QED
  BY <1>1, <1>2, <1>3, <1>4 DEF PuInit, PuTyped, PuTypeOK, GoalStates

LEMMA CyclesNat == MaxCycles \in Nat
BY PursuitAssumption

\* A process that ends carries nothing.
LEMMA EndsTyped ==
  ASSUME PuTyped, NEW p \in Runners, Ends(p)
  PROVE  /\ at' \in [Runners -> Places] /\ cyc' \in [Runners -> 0..MaxCycles + 1]
         /\ copy' \in [Runners -> Tests \cup Plans \cup {Edited, NoHash}]
         /\ move' \in [Runners -> Moves] /\ graded' \in [Runners -> Tests \cup {Edited, NoHash}]
         /\ \A q \in Runners : Carries(q)'
BY PursuitAssumption DEF PuTyped, PuTypeOK, Ends, Carries, NoMove, Moves, Places, GoalStates

\* One that asks for a transition carries it.
LEMMA AsksTyped ==
  ASSUME PuTyped, NEW p \in Runners, NEW to \in GoalStates, NEW next \in Places, NEW ref \in Places,
         Asks(p, to, next, ref), UNCHANGED cyc,
         next \in {"idle", "observe", "close", "work"}, ref \in {"idle", next},
         next = "work" => to = "running" /\ cyc[p] \in 1..MaxCycles, ref # "idle" => next = "work",
         \A q \in Runners \ {p} : copy'[q] = copy[q]
  PROVE  /\ at' \in [Runners -> Places] /\ move' \in [Runners -> Moves]
         /\ \A q \in Runners : Carries(q)'
<1>1. at' = [at EXCEPT ![p] = "move"] /\ move' = [move EXCEPT ![p] = [to |-> to, next |-> next, refused |-> ref]]
  BY DEF Asks, Goes
<1>2. at' \in [Runners -> Places] /\ move' \in [Runners -> Moves]
  BY <1>1 DEF PuTyped, PuTypeOK, Places, Moves
<1>3. Carries(p)'
  BY <1>1 DEF PuTyped, PuTypeOK, Carries
<1>4. ASSUME NEW q \in Runners \ {p} PROVE Carries(q)'
  BY <1>1, <1>4 DEF PuTyped, PuTypeOK, Carries
<1> QED
  BY <1>2, <1>3, <1>4

LEMMA VerdictIs == \A v \in Verdicts : v \in {"unmechanical", "tamper", "pass", "fail"}
BY DEF Verdicts

\* What the pass of the graders, or anything else, leaves as graded.
LEMMA GradesTyped ==
  ASSUME PuTyped, NEW p \in Runners, NEW v, Grades(p, v)
  PROVE  graded' \in [Runners -> Tests \cup {Edited, NoHash}]
BY DEF PuTyped, PuTypeOK, Grades

\* A process that goes from one place to another with what it has.
LEMMA GoesTyped ==
  ASSUME PuTyped, NEW p \in Runners, NEW place \in Places, Goes(p, place),
         UNCHANGED move, copy'[p] = copy[p] \/ place \notin {"create", "frozen", "repair"},
         place \notin {"move", "tell", "repair"},
         place = "create" => copy'[p] \in Tests, place = "frozen" => copy'[p] \in Tests \cup {Edited},
         place = "cycle" => cyc'[p] # 0,
         place \in {"start", "work", "judge", "missed"} => cyc'[p] \in 1..MaxCycles,
         \A q \in Runners \ {p} : copy'[q] = copy[q] /\ cyc'[q] = cyc[q]
  PROVE  at' \in [Runners -> Places] /\ \A q \in Runners : Carries(q)'
<1>1. at' = [at EXCEPT ![p] = place]
  BY DEF Goes
<1>2. at' \in [Runners -> Places]
  BY <1>1 DEF PuTyped, PuTypeOK
<1>3. Carries(p)'
  BY <1>1 DEF PuTyped, PuTypeOK, Carries
<1>4. ASSUME NEW q \in Runners \ {p} PROVE Carries(q)'
  BY <1>1, <1>4 DEF PuTyped, PuTypeOK, Carries
<1> QED
  BY <1>2, <1>3, <1>4

LEMMA MoveTyped ==
  ASSUME PuTyped, NEW p \in Runners, Transition(p) \/ Tell(p) \/ FreezeWrites(p)
  PROVE  PuTyped'
<1> USE DEF PuTyped, Turn, outside, snapshot, counts, history
<1>1. move[p] \in Moves /\ Carries(p) /\ state \in GoalStates /\ at[p] \in Places
  BY DEF PuTypeOK
<1>2. CASE Transition(p) /\ move[p].to \in TRANSITIONS[state]
  <2>1. at' = [at EXCEPT ![p] = "tell"] /\ at[p] = "move" /\ state' = move[p].to
    BY <1>2 DEF Transition, Goes
  <2>2. at' \in [Runners -> Places] /\ state' \in GoalStates
    BY <1>1, <2>1 DEF PuTypeOK, Places, Moves
  <2>3. \A q \in Runners : Carries(q)'
    BY <1>2, <2>1 DEF PuTypeOK, Carries, Transition
  <2>4. apart' \in BOOLEAN
    BY <1>2 DEF Transition, PuTypeOK
  <2> QED
    BY <1>2, <2>2, <2>3, <2>4 DEF PuTypeOK, Transition
<1>3. CASE Transition(p) /\ move[p].to \notin TRANSITIONS[state]
  <2>1. CASE move[p].refused = "idle"
    <3>1. Ends(p)
      BY <1>3, <2>1 DEF Transition
    <3> QED
      BY <1>3, <3>1, EndsTyped DEF PuTypeOK, Transition
  <2>2. CASE move[p].refused # "idle"
    <3>1. Goes(p, "work") /\ UNCHANGED <<move, copy, cyc, graded>> /\ cyc[p] \in 1..MaxCycles
      BY <1>1, <1>3, <2>2 DEF Transition, Carries
    <3>2. at' \in [Runners -> Places] /\ \A q \in Runners : Carries(q)'
      BY <3>1, GoesTyped DEF Places
    <3> QED
      BY <1>3, <3>1, <3>2 DEF PuTypeOK, Transition
  <2> QED
    BY <2>1, <2>2
<1>4. CASE Tell(p)
  <2>0. told' \in GoalStates /\ at[p] = "tell"
    BY <1>1, <1>4 DEF Tell, Replayed, Moves
  <2>1. CASE move[p].next = "idle"
    <3>1. Ends(p)
      BY <1>4, <2>1 DEF Tell
    <3> QED
      BY <1>4, <2>0, <3>1, EndsTyped DEF PuTypeOK, Tell
  <2>2. CASE move[p].next # "idle"
    <3> DEFINE n == move[p].next
    <3>1. Goes(p, n) /\ UNCHANGED <<move, copy, cyc, graded>>
      BY <1>4, <2>2 DEF Tell
    <3>2. n \in {"observe", "close", "work"} /\ (n = "work" => cyc[p] \in 1..MaxCycles)
      BY <1>1, <2>0, <2>2 DEF Carries
    <3>3. at' \in [Runners -> Places] /\ \A q \in Runners : Carries(q)'
      BY <3>1, <3>2, GoesTyped DEF Places
    <3> QED
      BY <1>4, <2>0, <3>1, <3>3 DEF PuTypeOK, Tell
  <2> QED
    BY <2>1, <2>2
<1>5. CASE FreezeWrites(p)
  <2>1. /\ at' = [at EXCEPT ![p] = "tell"] /\ at[p] = "frozen" /\ UNCHANGED <<copy, cyc>>
        /\ move' = [move EXCEPT ![p] = [to |-> "ready", next |-> "observe", refused |-> "idle"]]
    BY <1>5 DEF FreezeWrites, Goes
  <2>2. at' \in [Runners -> Places] /\ move' \in [Runners -> Moves]
    BY <2>1 DEF PuTypeOK, Places, Moves, GoalStates
  <2>3. \A q \in Runners : Carries(q)'
    BY <2>1 DEF PuTypeOK, Carries
  <2>4. copy[p] \in Tests \cup {Edited}
    BY <1>1, <2>1 DEF Carries
  <2>5. apart' \in BOOLEAN /\ raced' \in BOOLEAN
    BY <1>5 DEF FreezeWrites, PuTypeOK
  <2> QED
    BY <1>5, <2>2, <2>3, <2>4, <2>5 DEF PuTypeOK, FreezeWrites, GoalStates
<1> QED
  BY <1>2, <1>3, <1>4, <1>5

LEMMA CreateTyped ==
  ASSUME PuTyped, NEW p \in Runners,
         Pursue(p) \/ CreateGoal(p) \/ Freeze(p) \/ ReconcileGoal(p) \/ Apply(p)
  PROVE  PuTyped'
<1> USE CyclesNat DEF PuTyped, Turn, outside, snapshot, counts, history
<1>1. Carries(p) /\ commands + 1 \in Nat
  BY DEF PuTypeOK
<1>2. CASE Pursue(p)
  <2>1. PICK place \in {"create", "observe"} :
          /\ Goes(p, place) /\ cyc' = [cyc EXCEPT ![p] = 1]
          /\ \/ place = "create" /\ \E t \in Tests : copy' = [copy EXCEPT ![p] = t]
             \/ place = "observe" /\ UNCHANGED copy
    BY <1>2 DEF Pursue
  <2>2. /\ copy' \in [Runners -> Tests \cup Plans \cup {Edited, NoHash}]
        /\ cyc' \in [Runners -> 0..MaxCycles + 1]
        /\ \A q \in Runners \ {p} : copy'[q] = copy[q] /\ cyc'[q] = cyc[q]
        /\ place = "create" => copy'[p] \in Tests
    BY <2>1 DEF PuTypeOK
  <2>3. at' \in [Runners -> Places] /\ \A q \in Runners : Carries(q)'
    <3>1. UNCHANGED move /\ place \in Places /\ (copy'[p] = copy[p] \/ place = "create")
      BY <1>2, <2>1 DEF Pursue, Places
    <3>2. CASE place = "observe"
      BY <2>1, <2>2, <3>1, <3>2, GoesTyped
    <3>3. CASE place = "create"
      <4>1. at' = [at EXCEPT ![p] = "create"]
        BY <2>1, <3>3 DEF Goes
      <4>2. \A q \in Runners : Carries(q)'
        BY <2>2, <3>1, <3>3, <4>1 DEF PuTypeOK, Carries
      <4> QED
        BY <4>1, <4>2, <3>1, <3>3 DEF PuTypeOK
    <3> QED
      BY <2>1, <3>2, <3>3
  <2> QED
    BY <1>1, <1>2, <2>2, <2>3 DEF PuTypeOK, Pursue
<1>3. CASE CreateGoal(p)
  <2>1. copy[p] \in Tests /\ at' = [at EXCEPT ![p] = "freeze"] /\ UNCHANGED <<copy, cyc, move>>
    BY <1>1, <1>3 DEF CreateGoal, Carries, Goes
  <2>2. at' \in [Runners -> Places] /\ \A q \in Runners : Carries(q)'
    BY <2>1 DEF PuTypeOK, Carries, Places
  <2>3. raced' \in BOOLEAN
    BY <1>3 DEF CreateGoal, PuTypeOK
  <2> QED
    BY <1>3, <2>1, <2>2, <2>3 DEF PuTypeOK, CreateGoal, GoalStates
<1>4. CASE Freeze(p)
  <2>1. CASE state = "draft"
    <3>1. /\ at' = [at EXCEPT ![p] = "frozen"] /\ copy' = [copy EXCEPT ![p] = accept]
          /\ UNCHANGED <<cyc, move, graded>> /\ seals' = seals \cup {accept}
      BY <1>4, <2>1 DEF Freeze, Goes
    <3>2. at' \in [Runners -> Places] /\ \A q \in Runners : Carries(q)'
      BY <3>1 DEF PuTypeOK, Carries, Places
    <3>3. copy' \in [Runners -> Tests \cup Plans \cup {Edited, NoHash}]
      BY <3>1 DEF PuTypeOK
    <3> QED
      BY <1>4, <3>1, <3>2, <3>3 DEF PuTypeOK, Freeze
  <2>2. CASE state # "draft"
    BY <1>4, <2>2, EndsTyped DEF Freeze, PuTypeOK
  <2> QED
    BY <2>1, <2>2
<1>5. CASE ReconcileGoal(p)
  <2>1. at' \in [Runners -> Places] /\ \A q \in Runners : Carries(q)'
    BY <1>5, GoesTyped DEF ReconcileGoal, Places
  <2> QED
    BY <1>1, <1>5, <2>1 DEF PuTypeOK, ReconcileGoal
<1>6. CASE Apply(p)
  <2>1. PICK h \in Plans : copy' = [copy EXCEPT ![p] = h]
    BY <1>6 DEF Apply
  <2>2. at' = [at EXCEPT ![p] = "repair"] /\ UNCHANGED <<cyc, move>>
    BY <1>6 DEF Apply, Goes
  <2>3. at' \in [Runners -> Places] /\ \A q \in Runners : Carries(q)'
    BY <2>1, <2>2 DEF PuTypeOK, Carries, Places
  <2>4. copy' \in [Runners -> Tests \cup Plans \cup {Edited, NoHash}]
    BY <2>1 DEF PuTypeOK
  <2> QED
    BY <1>1, <1>6, <2>3, <2>4 DEF PuTypeOK, Apply
<1> QED
  BY <1>2, <1>3, <1>4, <1>5, <1>6

LEMMA SettleTyped ==
  ASSUME PuTyped, NEW p \in Runners,
         Observe(p) \/ Settle(p) \/ SettleResumes(p) \/ SettleCloses(p) \/ Repair(p) \/ Die(p)
  PROVE  PuTyped'
<1> USE CyclesNat DEF PuTyped, Turn, outside, snapshot, counts, history
<1>1. CASE Observe(p)
  <2>1. PICK v \in Verdicts :
          \/ Goes(p, "settle") /\ Grades(p, v) /\ UNCHANGED <<copy, cyc, move>>
          \/ Ends(p)
          \/ cyc[p] # 0 /\ Goes(p, "cycle") /\ Grades(p, v) /\ UNCHANGED <<copy, cyc, move>>
    BY <1>1 DEF Observe
  <2>2. CASE Ends(p)
    BY <1>1, <2>2, EndsTyped DEF Observe, PuTypeOK
  <2>3. CASE Goes(p, "settle") /\ Grades(p, v) /\ UNCHANGED <<copy, cyc, move>>
    <3>1. at' \in [Runners -> Places] /\ \A q \in Runners : Carries(q)'
      BY <2>3, GoesTyped DEF Places
    <3> QED
      BY <1>1, <2>3, <3>1, GradesTyped DEF Observe, PuTypeOK
  <2>4. CASE cyc[p] # 0 /\ Goes(p, "cycle") /\ Grades(p, v) /\ UNCHANGED <<copy, cyc, move>>
    <3>1. at' \in [Runners -> Places] /\ \A q \in Runners : Carries(q)'
      BY <2>4, GoesTyped DEF Places
    <3> QED
      BY <1>1, <2>4, <3>1, GradesTyped DEF Observe, PuTypeOK
  <2> QED
    BY <2>1, <2>2, <2>3, <2>4
<1>2. CASE Settle(p)
  <2>1. PICK v \in Verdicts :
          Ends(p) \/ (Goes(p, "resume") /\ Grades(p, v) /\ UNCHANGED <<copy, cyc, move>>)
    BY <1>2 DEF Settle
  <2>2. CASE Ends(p)
    BY <1>2, <2>2, EndsTyped DEF Settle, PuTypeOK
  <2>3. CASE Goes(p, "resume") /\ Grades(p, v) /\ UNCHANGED <<copy, cyc, move>>
    <3>1. at' \in [Runners -> Places] /\ \A q \in Runners : Carries(q)'
      BY <2>3, GoesTyped DEF Places
    <3> QED
      BY <1>2, <2>3, <3>1, GradesTyped DEF Settle, PuTypeOK
  <2> QED
    BY <2>1, <2>2, <2>3
<1>3. CASE SettleResumes(p)
  <2>1. UNCHANGED <<copy, cyc, graded>>
    BY <1>3 DEF SettleResumes
  <2>2. CASE Asks(p, "running", "close", "idle")
    <3>1. at' \in [Runners -> Places] /\ move' \in [Runners -> Moves] /\ \A q \in Runners : Carries(q)'
      BY <2>1, <2>2, AsksTyped DEF Places, GoalStates
    <3> QED
      BY <1>3, <3>1 DEF SettleResumes, PuTypeOK
  <2>3. CASE Goes(p, "close") /\ UNCHANGED move
    <3>1. at' \in [Runners -> Places] /\ \A q \in Runners : Carries(q)'
      BY <2>1, <2>3, GoesTyped DEF Places
    <3> QED
      BY <1>3, <2>3, <3>1 DEF SettleResumes, PuTypeOK
  <2> QED
    BY <1>3, <2>2, <2>3 DEF SettleResumes
<1>4. CASE SettleCloses(p)
  <2>1. CASE EndsAs(p, "verified") /\ UNCHANGED <<copy, cyc, graded>>
    <3>1. at' \in [Runners -> Places] /\ move' \in [Runners -> Moves] /\ \A q \in Runners : Carries(q)'
      BY <2>1, AsksTyped DEF Places, GoalStates, EndsAs
    <3> QED
      BY <1>4, <2>1, <3>1 DEF SettleCloses, PuTypeOK
  <2>2. CASE Ends(p)
    BY <1>4, <2>2, EndsTyped DEF SettleCloses, PuTypeOK
  <2> QED
    BY <1>4, <2>1, <2>2 DEF SettleCloses
<1>5. CASE Repair(p)
  <2>1. copy[p] \in Plans
    BY <1>5 DEF Repair, Carries
  <2>2. repairs' \in [Plans -> Nat]
    BY <1>5, <2>1 DEF Repair, PuTypeOK
  <2>3. CASE Ends(p)
    BY <1>5, <2>2, <2>3, EndsTyped DEF Repair, PuTypeOK
  <2>4. CASE Asks(p, "running", "observe", "idle") /\ UNCHANGED <<copy, cyc, graded>>
    <3>1. at' \in [Runners -> Places] /\ move' \in [Runners -> Moves] /\ \A q \in Runners : Carries(q)'
      BY <2>4, AsksTyped DEF Places, GoalStates
    <3> QED
      BY <1>5, <2>2, <2>4, <3>1 DEF Repair, PuTypeOK
  <2>5. CASE Goes(p, "observe") /\ UNCHANGED <<move, copy, cyc, graded>>
    <3>1. at' \in [Runners -> Places] /\ \A q \in Runners : Carries(q)'
      BY <2>5, GoesTyped DEF Places
    <3> QED
      BY <1>5, <2>2, <2>5, <3>1 DEF Repair, PuTypeOK
  <2> QED
    BY <1>5, <2>3, <2>4, <2>5 DEF Repair
<1>6. CASE Die(p)
  <2>1. apart' \in BOOLEAN /\ deaths' \in Nat
    BY <1>6 DEF Die, PuTypeOK
  <2> QED
    BY <1>6, <2>1, EndsTyped DEF Die, PuTypeOK
<1> QED
  BY <1>1, <1>2, <1>3, <1>4, <1>5, <1>6

LEMMA MissedTyped ==
  ASSUME PuTyped, NEW p \in Runners, at[p] \in {"missed", "judge"}, Missed(p), UNCHANGED copy
  PROVE  /\ at' \in [Runners -> Places] /\ move' \in [Runners -> Moves]
         /\ cyc' \in [Runners -> 0..MaxCycles + 1] /\ \A q \in Runners : Carries(q)'
<1> USE CyclesNat DEF PuTyped
<1>1. cyc[p] \in 1..MaxCycles
  BY DEF Carries
<1>2. CASE EndsAs(p, "blocked") /\ UNCHANGED cyc
  BY <1>2, AsksTyped DEF Places, GoalStates, EndsAs, PuTypeOK
<1>3. CASE Goes(p, "cycle") /\ cyc' = [cyc EXCEPT ![p] = @ + 1] /\ UNCHANGED move
  <2>1. /\ cyc' \in [Runners -> 0..MaxCycles + 1] /\ cyc'[p] # 0
        /\ \A q \in Runners \ {p} : cyc'[q] = cyc[q]
    BY <1>1, <1>3 DEF PuTypeOK
  <2> QED
    BY <1>3, <2>1, GoesTyped DEF Places, PuTypeOK
<1> QED
  BY <1>2, <1>3 DEF Missed

LEMMA CycleTyped ==
  ASSUME PuTyped, NEW p \in Runners,
         CycleChecks(p) \/ CycleStarts(p) \/ PlanFails(p) \/ Work(p) \/ CycleMissed(p) \/ Judged(p)
  PROVE  PuTyped'
<1> USE CyclesNat DEF PuTyped, Turn, outside, snapshot, counts, history
<1>0. Carries(p)
  OBVIOUS
<1>1. CASE CycleChecks(p)
  <2>1. at[p] = "cycle" /\ cyc[p] \in 1..MaxCycles + 1 /\ UNCHANGED <<copy, cyc, graded>>
    BY <1>0, <1>1 DEF CycleChecks, Carries, PuTypeOK
  <2>2. CASE \E to \in {"exhausted", "blocked"} : EndsAs(p, to)
    <3>1. at' \in [Runners -> Places] /\ move' \in [Runners -> Moves] /\ \A q \in Runners : Carries(q)'
      BY <2>1, <2>2, AsksTyped DEF Places, GoalStates, EndsAs
    <3> QED
      BY <1>1, <3>1 DEF CycleChecks, PuTypeOK
  <2>3. CASE ~(cyc[p] > MaxCycles) /\ Goes(p, "start") /\ UNCHANGED move
    <3>1. cyc[p] \in 1..MaxCycles
      BY <2>1, <2>3
    <3>2. at' \in [Runners -> Places] /\ \A q \in Runners : Carries(q)'
      BY <2>1, <2>3, <3>1, GoesTyped DEF Places
    <3> QED
      BY <1>1, <2>3, <3>2 DEF CycleChecks, PuTypeOK
  <2> QED
    BY <1>1, <2>2, <2>3 DEF CycleChecks
<1>2. CASE CycleStarts(p)
  <2>1. cyc[p] \in 1..MaxCycles /\ UNCHANGED <<copy, cyc, graded>>
    BY <1>0, <1>2 DEF CycleStarts, Carries
  <2>2. cycles' \in Nat /\ told' \in GoalStates /\ apart' \in BOOLEAN
    BY <1>2 DEF CycleStarts, PuTypeOK, GoalStates
  <2>3. CASE Asks(p, "running", "work", "work")
    <3>1. at' \in [Runners -> Places] /\ move' \in [Runners -> Moves] /\ \A q \in Runners : Carries(q)'
      BY <2>1, <2>3, AsksTyped DEF Places, GoalStates
    <3> QED
      BY <1>2, <2>2, <3>1 DEF CycleStarts, PuTypeOK
  <2>4. CASE Goes(p, "work") /\ UNCHANGED move
    <3>1. at' \in [Runners -> Places] /\ \A q \in Runners : Carries(q)'
      BY <2>1, <2>4, GoesTyped DEF Places
    <3> QED
      BY <1>2, <2>2, <2>4, <3>1 DEF CycleStarts, PuTypeOK
  <2> QED
    BY <1>2, <2>3, <2>4 DEF CycleStarts
<1>3. CASE PlanFails(p)
  BY <1>3, EndsTyped DEF PlanFails, PuTypeOK
<1>4. CASE Work(p)
  <2>1. cyc[p] \in 1..MaxCycles
    BY <1>0, <1>4 DEF Work, Carries
  <2>2. hits' \in [Walls -> SUBSET (1..MaxCycles)] /\ spent' \in BOOLEAN
    <3>1. PICK F \in SUBSET Walls :
            hits' = [w \in Walls |-> IF w \in F THEN hits[w] \cup {cyc[p]} ELSE hits[w]]
      BY <1>4 DEF Work
    <3>2. \A w \in Walls : hits[w] \cup {cyc[p]} \subseteq 1..MaxCycles
      BY <2>1 DEF PuTypeOK
    <3>3. spent' \in BOOLEAN
      BY <1>4 DEF Work, PuTypeOK
    <3> QED
      BY <3>1, <3>2, <3>3 DEF PuTypeOK
  <2>3. at' \in [Runners -> Places] /\ \A q \in Runners : Carries(q)'
    <3>1. PICK place \in {"judge", "missed"} : Goes(p, place)
      BY <1>4 DEF Work
    <3> QED
      BY <1>4, <2>1, <3>1, GoesTyped DEF Work, Places
  <2> QED
    BY <1>4, <2>2, <2>3 DEF Work, PuTypeOK
<1>5. CASE CycleMissed(p)
  BY <1>5, MissedTyped DEF CycleMissed, PuTypeOK
<1>6. CASE Judged(p)
  <2>1. PICK v \in Verdicts :
          /\ Grades(p, v)
          /\ \/ \E to \in {"blocked", "verified", "partial"} : EndsAs(p, to) /\ UNCHANGED cyc
             \/ Missed(p)
    BY <1>6, VerdictIs DEF Judged
  <2>2. at[p] = "judge" /\ UNCHANGED copy
    BY <1>6 DEF Judged
  <2>3. /\ at' \in [Runners -> Places] /\ move' \in [Runners -> Moves]
        /\ cyc' \in [Runners -> 0..MaxCycles + 1] /\ \A q \in Runners : Carries(q)'
    <3>1. CASE Missed(p)
      BY <2>2, <3>1, MissedTyped
    <3>2. ASSUME NEW to \in {"blocked", "verified", "partial"}, EndsAs(p, to), UNCHANGED cyc
          PROVE  /\ at' \in [Runners -> Places] /\ move' \in [Runners -> Moves]
                 /\ cyc' \in [Runners -> 0..MaxCycles + 1] /\ \A q \in Runners : Carries(q)'
      BY <2>2, <3>2, AsksTyped DEF Places, GoalStates, EndsAs, PuTypeOK
    <3> QED
      BY <2>1, <3>1, <3>2
  <2>4. graded' \in [Runners -> Tests \cup {Edited, NoHash}]
    BY <2>1, GradesTyped
  <2> QED
    BY <1>6, <2>3, <2>4 DEF Judged, PuTypeOK
<1> QED
  BY <1>1, <1>2, <1>3, <1>4, <1>5, <1>6

LEMMA PuTypes == ASSUME PuTyped, [PuNext]_puVars PROVE PuTyped'
<1>1. CASE Edit
  BY <1>1 DEF Edit, PuTyped, PuTypeOK, Carries, counts, outside, history
<1>2. CASE UNCHANGED puVars
  BY <1>2 DEF puVars, PuTyped, PuTypeOK, Carries
<1> QED
  BY <1>1, <1>2, MoveTyped, CreateTyped, SettleTyped, CycleTyped DEF PuNext, Pursuing, Settling

-----------------------------------------------------------------------------
\* Whoever found budget for a cycle has not spent it yet.
Starting == {p \in Runners : at[p] = "start"}
Budgeted == cycles + Cardinality(Starting) <= MaxCycles + Cardinality(Runners)

LEMMA StartingFinite ==
  ASSUME NEW S \in SUBSET Runners
  PROVE  /\ IsFiniteSet(S) /\ Cardinality(S) \in Nat /\ Cardinality(Runners) \in Nat
         /\ Cardinality(S) <= Cardinality(Runners)
         /\ \A p \in Runners : /\ Cardinality(S \ {p}) \in Nat /\ Cardinality(S \ {p}) <= Cardinality(S)
                               /\ p \in S => Cardinality(S \ {p}) = Cardinality(S) - 1
<1>1. IsFiniteSet(Runners)
  BY PursuitAssumption
<1>2. IsFiniteSet(S) /\ Cardinality(S) <= Cardinality(Runners)
  BY <1>1, FS_Subset
<1>3. \A p \in Runners : p \in S => Cardinality(S \ {p}) = Cardinality(S) - 1
  BY <1>2, FS_RemoveElement
<1>4. \A p \in Runners : p \notin S => S \ {p} = S
  OBVIOUS
<1> QED
  BY <1>1, <1>2, <1>3, <1>4, FS_CardinalityType, FS_RemoveElement

\* Only a check of the budget adds to those that start.
LEMMA StartingStep ==
  ASSUME PuTyped, NEW p \in Runners, Pursuing(p) \/ Settling(p) \/ Die(p)
  PROVE  \/ CycleChecks(p) /\ ~Exceeded
         \/ CycleStarts(p) /\ p \in Starting /\ Starting' = Starting \ {p} /\ cycles' = cycles + 1
         \/ (Starting' = Starting \/ Starting' = Starting \ {p}) /\ cycles' = cycles
<1> USE DEF PuTyped, PuTypeOK, Starting, Goes, Ends, Asks, EndsAs, Turn, outside, snapshot, counts, history
<1>1. CASE CycleChecks(p)
  BY <1>1 DEF CycleChecks
<1>2. CASE CycleStarts(p)
  BY <1>2 DEF CycleStarts
<1>3. CASE Transition(p) \/ Tell(p)
  BY <1>3 DEF Transition, Tell, Carries
<1>4. CASE Pursue(p) \/ CreateGoal(p) \/ Freeze(p) \/ FreezeWrites(p) \/ ReconcileGoal(p) \/ Apply(p)
  BY <1>4 DEF Pursue, CreateGoal, Freeze, FreezeWrites, ReconcileGoal, Apply
<1>5. CASE Observe(p) \/ Settle(p) \/ SettleResumes(p) \/ SettleCloses(p) \/ Repair(p) \/ Die(p)
  BY <1>5 DEF Observe, Settle, SettleResumes, SettleCloses, Repair, Die
<1>6. CASE PlanFails(p) \/ Work(p) \/ CycleMissed(p)
  BY <1>6 DEF PlanFails, Work, CycleMissed, Missed
<1>7. CASE Judged(p)
  BY <1>7, VerdictIs DEF Judged, Missed
<1> QED
  BY <1>1, <1>2, <1>3, <1>4, <1>5, <1>6, <1>7 DEF Pursuing, Settling

LEMMA BudgetedStep == ASSUME PuTyped, Budgeted, [PuNext]_puVars PROVE Budgeted'
<1> USE CyclesNat, StartingFinite
<1>1. cycles \in Nat /\ Starting \in SUBSET Runners /\ Starting' \in SUBSET Runners
  BY DEF PuTyped, PuTypeOK, Starting
<1>2. CASE cycles' = cycles /\ Starting' = Starting
  BY <1>2 DEF Budgeted
<1>3. ASSUME NEW p \in Runners, Pursuing(p) \/ Settling(p) \/ Die(p)
      PROVE  Budgeted'
  <2>1. CASE CycleChecks(p) /\ ~Exceeded
    <3>1. cycles <= MaxCycles /\ cycles' = cycles
      BY <1>1, <2>1 DEF CycleChecks, Exceeded, counts
    <3> QED
      BY <1>1, <3>1 DEF Budgeted
  <2>2. CASE p \in Starting /\ Starting' = Starting \ {p} /\ cycles' = cycles + 1
    BY <1>1, <2>2 DEF Budgeted
  <2>3. CASE (Starting' = Starting \/ Starting' = Starting \ {p}) /\ cycles' = cycles
    BY <1>1, <2>3 DEF Budgeted
  <2> QED
    BY <1>3, <2>1, <2>2, <2>3, StartingStep
<1> QED
  BY <1>2, <1>3 DEF PuNext, puVars, Edit, counts, Starting

LEMMA BudgetedInit == PuInit => Budgeted
<1> SUFFICES ASSUME PuInit PROVE Budgeted
  OBVIOUS
<1>1. Starting = {} /\ cycles = 0
  BY DEF PuInit, Starting
<1>2. Cardinality(Starting) = 0
  BY <1>1, FS_EmptySet
<1> QED
  BY <1>1, <1>2, CyclesNat, StartingFinite DEF Budgeted

\* Whatever the number of processes, restarts and repairs: the events show the contract's
\* cycles and at most one more for each process.
THEOREM CyclesAreBounded == PuSpec => []CyclesBounded
<1>1. PuInit => PuTyped /\ Budgeted
  BY PuTypedInit, BudgetedInit
<1>2. PuTyped /\ Budgeted /\ [PuNext]_puVars => PuTyped' /\ Budgeted'
  BY PuTypes, BudgetedStep
<1>3. PuTyped /\ Budgeted => CyclesBounded
  <2> SUFFICES ASSUME PuTyped, Budgeted PROVE CyclesBounded
    OBVIOUS
  <2>1. cycles \in Nat /\ Starting \in SUBSET Runners
    BY DEF PuTyped, PuTypeOK, Starting
  <2> QED
    BY <2>1, CyclesNat, StartingFinite DEF Budgeted, CyclesBounded
<1> QED
  BY <1>1, <1>2, <1>3, PTL DEF PuSpec

LEMMA PuTypedHolds == PuSpec => []PuTyped
BY PuTypedInit, PuTypes, PTL DEF PuSpec

-----------------------------------------------------------------------------
\* A step of p is p's alone, and no seal is taken back.
LEMMA OthersKeep ==
  ASSUME PuTyped, NEW p \in Runners, Pursuing(p) \/ Settling(p) \/ Die(p)
  PROVE  /\ \A q \in Runners \ {p} : at'[q] = at[q] /\ move'[q] = move[q] /\ graded'[q] = graded[q]
         /\ seals \subseteq seals'
<1> USE DEF PuTyped, PuTypeOK, Goes, Ends, Asks, EndsAs, Grades, Turn, outside, history
<1>1. CASE CycleChecks(p) \/ CycleStarts(p)
  BY <1>1 DEF CycleChecks, CycleStarts
<1>2. CASE Transition(p) \/ Tell(p)
  BY <1>2 DEF Transition, Tell
<1>3. CASE Pursue(p) \/ CreateGoal(p) \/ Freeze(p) \/ FreezeWrites(p) \/ ReconcileGoal(p) \/ Apply(p)
  BY <1>3 DEF Pursue, CreateGoal, Freeze, FreezeWrites, ReconcileGoal, Apply
<1>4. CASE Observe(p) \/ Settle(p) \/ SettleResumes(p) \/ SettleCloses(p) \/ Repair(p) \/ Die(p)
  BY <1>4 DEF Observe, Settle, SettleResumes, SettleCloses, Repair, Die
<1>5. CASE PlanFails(p) \/ Work(p) \/ CycleMissed(p)
  BY <1>5 DEF PlanFails, Work, CycleMissed, Missed
<1>6. CASE Judged(p)
  BY <1>6, VerdictIs DEF Judged, Missed
<1> QED
  BY <1>1, <1>2, <1>3, <1>4, <1>5, <1>6 DEF Pursuing, Settling

\* On the way to verified p holds the pass of graders that are sealed.
NeedsPass(p) ==
  \/ at[p] \in {"settle", "resume", "close"}
  \/ at[p] \in {"move", "tell"} /\ move[p].next = "close"
  \/ at[p] = "move" /\ move[p].to = "verified"
HasPass == \A p \in Runners : NeedsPass(p) => graded[p] \in seals

LEMMA PassIsSealed == "pass" \in Verdicts => accept \in seals
BY DEF Verdicts, Sealed

LEMMA PassStep ==
  ASSUME PuTyped, HasPass, NEW p \in Runners, Pursuing(p) \/ Settling(p) \/ Die(p)
  PROVE  NeedsPass(p)' => graded'[p] \in seals'
<1> USE DEF PuTyped, PuTypeOK, Goes, Ends, Asks, EndsAs, Grades, Turn, outside, history
<1>0. NeedsPass(p) => graded[p] \in seals
  BY DEF HasPass
<1>1. CASE CycleChecks(p) \/ CycleStarts(p)
  BY <1>1 DEF CycleChecks, CycleStarts, NeedsPass
<1>2. CASE Transition(p)
  BY <1>0, <1>2 DEF Transition, NeedsPass, Carries
<1>3. CASE Tell(p)
  BY <1>0, <1>3 DEF Tell, NeedsPass, Carries
<1>4. CASE Pursue(p) \/ CreateGoal(p) \/ FreezeWrites(p) \/ ReconcileGoal(p) \/ Apply(p)
  <2>1. \/ at'[p] \in {"create", "observe", "freeze", "repair"}
        \/ at'[p] = "tell" /\ move'[p].next = "observe"
    <3>1. CASE Pursue(p)
      BY <3>1 DEF Pursue
    <3>2. CASE CreateGoal(p)
      BY <3>2 DEF CreateGoal
    <3>3. CASE FreezeWrites(p)
      BY <3>3 DEF FreezeWrites
    <3>4. CASE ReconcileGoal(p) \/ Apply(p)
      BY <3>4 DEF ReconcileGoal, Apply
    <3> QED
      BY <1>4, <3>1, <3>2, <3>3, <3>4
  <2> QED
    BY <2>1 DEF NeedsPass
<1>11. CASE Freeze(p)
  BY <1>11 DEF Freeze, NeedsPass
<1>5. CASE Observe(p) \/ Settle(p)
  BY <1>5, PassIsSealed DEF Observe, Settle, NeedsPass
<1>6. CASE SettleResumes(p) \/ SettleCloses(p) \/ Repair(p) \/ Die(p)
  BY <1>0, <1>6 DEF SettleResumes, SettleCloses, Repair, Die, NeedsPass
<1>7. CASE PlanFails(p) \/ Work(p)
  BY <1>7 DEF PlanFails, Work, NeedsPass
<1>8. ASSUME Missed(p) PROVE ~NeedsPass(p)'
  <2>1. CASE Oscillating
    BY <1>8, <2>1 DEF Missed, NeedsPass
  <2>2. CASE ~Oscillating
    BY <1>8, <2>2 DEF Missed, NeedsPass
  <2> QED
    BY <2>1, <2>2
<1>9. CASE CycleMissed(p)
  BY <1>8, <1>9 DEF CycleMissed
<1>10. CASE Judged(p)
  <2>1. PICK v \in Verdicts :
          /\ Grades(p, v)
          /\ \/ Missed(p) \/ EndsAs(p, "blocked") \/ EndsAs(p, "partial")
             \/ EndsAs(p, "verified") /\ v = "pass"
    BY <1>10, VerdictIs DEF Judged
  <2>2. CASE Missed(p)
    BY <1>8, <2>2
  <2>3. CASE EndsAs(p, "blocked") \/ EndsAs(p, "partial")
    BY <2>3 DEF NeedsPass
  <2>4. CASE EndsAs(p, "verified") /\ v = "pass"
    BY <1>10, <2>1, <2>4, PassIsSealed DEF Judged
  <2> QED
    BY <2>1, <2>2, <2>3, <2>4
<1> QED
  BY <1>1, <1>2, <1>3, <1>4, <1>5, <1>6, <1>7, <1>9, <1>10, <1>11 DEF Pursuing, Settling

LEMMA HasPassStep == ASSUME PuTyped, HasPass, [PuNext]_puVars PROVE HasPass'
<1>1. CASE Edit
  BY <1>1 DEF Edit, HasPass, NeedsPass, outside
<1>2. CASE UNCHANGED puVars
  BY <1>2 DEF puVars, HasPass, NeedsPass
<1>3. ASSUME NEW p \in Runners, Pursuing(p) \/ Settling(p) \/ Die(p) PROVE HasPass'
  <2>1. NeedsPass(p)' => graded'[p] \in seals'
    BY <1>3, PassStep
  <2>2. ASSUME NEW q \in Runners \ {p}, NeedsPass(q)' PROVE graded'[q] \in seals'
    BY <1>3, <2>2, OthersKeep DEF HasPass, NeedsPass
  <2> QED
    BY <2>1, <2>2 DEF HasPass
<1> QED
  BY <1>1, <1>2, <1>3 DEF PuNext

\* The three ways to write the state.
LEMMA StateWrites ==
  ASSUME [PuNext]_puVars, state' # state
  PROVE  \E p \in Runners :
           \/ Transition(p) /\ move[p].to \in TRANSITIONS[state]
           \/ CreateGoal(p)
           \/ FreezeWrites(p)
<1> USE DEF Turn, outside, history, snapshot, counts
<1>1. state' = state \/ \E p \in Runners : Pursuing(p) \/ Settling(p) \/ Die(p)
  BY DEF PuNext, Edit, puVars
<1>2. PICK p \in Runners : Pursuing(p) \/ Settling(p) \/ Die(p)
  BY <1>1
<1>3. Transition(p) \/ CreateGoal(p) \/ FreezeWrites(p)
  BY <1>2 DEF Pursuing, Settling, Die, CycleChecks, CycleStarts, Tell, Pursue, Freeze, ReconcileGoal,
     Apply, Observe, Settle, SettleResumes, SettleCloses, Repair, PlanFails, Work, CycleMissed, Judged
<1> QED
  BY <1>3 DEF Transition

LEMMA FinalStep ==
  ASSUME PuTyped, HasPass, [PuNext]_puVars, state' # state
  PROVE  /\ state' = "verified" => \E p \in Runners : at[p] = "move" /\ at'[p] = "tell" /\ graded[p] \in seals
         /\ state \in Over => raced'
<1>1. PICK p \in Runners :
         \/ Transition(p) /\ move[p].to \in TRANSITIONS[state]
         \/ CreateGoal(p)
         \/ FreezeWrites(p)
  BY StateWrites
<1>2. CASE Transition(p) /\ move[p].to \in TRANSITIONS[state]
  <2>1. at[p] = "move" /\ at'[p] = "tell" /\ state' = move[p].to
    BY <1>2 DEF Transition, Turn, Goes, PuTyped, PuTypeOK
  <2>2. state' = "verified" => graded[p] \in seals
    BY <2>1 DEF HasPass, NeedsPass
  <2>3. state \notin Over
    BY <1>2 DEF Over, TRANSITIONS, GoalStates
  <2> QED
    BY <2>1, <2>2, <2>3
<1>3. CASE CreateGoal(p)
  BY <1>3 DEF CreateGoal, Over
<1>4. CASE FreezeWrites(p)
  BY <1>4 DEF FreezeWrites, Over
<1> QED
  BY <1>1, <1>2, <1>3, <1>4

\* Whatever the goals' processes do: verified is written by a process that saw the sealed
\* graders pass, and what is over is left only for a second creator.
THEOREM GradedAndFinalHolds == PuSpec => GradedAndFinal
<1>1. PuInit => HasPass
  BY DEF PuInit, HasPass, NeedsPass
<1>2. PuTyped /\ HasPass /\ [PuNext]_puVars => HasPass'
  BY HasPassStep
<1>3. PuTyped /\ HasPass /\ [PuNext]_puVars =>
        [/\ state' = "verified" /\ state # "verified" =>
              \E p \in Runners : at[p] = "move" /\ at'[p] = "tell" /\ graded[p] \in seals
         /\ state \in Over /\ state' # state => raced']_puVars
  BY FinalStep
<1> QED
  BY <1>1, <1>2, <1>3, PuTypedHolds, PTL DEF PuSpec, GradedAndFinal

-----------------------------------------------------------------------------
\* The events will say what the snapshot says: who writes the state tells it, alone, and
\* a first cycle told already will be written.
TellsState == \A p \in Runners : at[p] = "tell" => move[p].to = state
OneTells == \A p, q \in Runners : at[p] = "tell" /\ at[q] = "tell" => p = q
WillAgree ==
  state # "none" /\ told # state =>
    \/ \E p \in Runners : at[p] = "tell"
    \/ /\ state \in {"ready", "blocked"}
       /\ \E p \in Runners : at[p] = "move" /\ move[p].next = "work"
NotYet == state = "none" => told = "draft" /\ \A p \in Runners : at[p] \in {"idle", "create"}
Agree == TellsState /\ OneTells /\ WillAgree /\ NotYet

AgreesOr == raced \/ apart \/ Agree

\* A step of one who neither writes, nor tells, nor was about to.
LEMMA QuietAgrees ==
  ASSUME PuTyped, Agree, NEW p \in Runners, ~Between(p), UNCHANGED <<state, told>>,
         at'[p] # "tell", at'[p] \in {"idle", "create"} \/ state # "none",
         \A q \in Runners \ {p} : at'[q] = at[q] /\ move'[q] = move[q]
  PROVE  Agree'
<1> USE DEF Agree
<1>1. TellsState'
  BY DEF TellsState
<1>2. OneTells'
  BY DEF OneTells
<1>3. WillAgree'
  BY DEF WillAgree, Between
<1>4. NotYet'
  BY DEF NotYet
<1> QED
  BY <1>1, <1>2, <1>3, <1>4

LEMMA TransitionAgrees ==
  ASSUME PuTyped, Agree, NEW p \in Runners, Transition(p), ~apart'
  PROVE  Agree'
<1> USE DEF Agree
<1>0. at[p] = "move" /\ Carries(p) /\ state # "none" /\ told' = told
      /\ \A q \in Runners \ {p} : at'[q] = at[q] /\ move'[q] = move[q]
  BY OthersKeep DEF Transition, Turn, NotYet, counts, PuTyped, Settling
<1>1. CASE move[p].to \in TRANSITIONS[state]
  <2>1. /\ state' = move[p].to /\ at'[p] = "tell" /\ move' = move
        /\ \A q \in Runners : at[q] # "tell"
    BY <1>1 DEF Transition, Goes, Telling, PuTyped, PuTypeOK
  <2>2. state' # "none"
    BY <1>1, <2>1 DEF TRANSITIONS, PuTyped, PuTypeOK, GoalStates
  <2> QED
    BY <1>0, <2>1, <2>2 DEF TellsState, OneTells, WillAgree, NotYet
<1>2. CASE move[p].to \notin TRANSITIONS[state]
  <2>1. UNCHANGED state /\ at'[p] # "tell"
    BY <1>0, <1>2 DEF Transition, Goes, Ends, PuTyped, PuTypeOK, Carries
  <2>2. CASE move[p].next # "work"
    BY <1>0, <2>1, <2>2, QuietAgrees DEF Between
  <2>3. CASE move[p].next = "work"
    <3>1. state \notin {"ready", "blocked"}
      BY <1>0, <1>2, <2>3 DEF Carries, TRANSITIONS, GoalStates
    <3> QED
      BY <1>0, <2>1, <3>1 DEF TellsState, OneTells, WillAgree, NotYet
  <2> QED
    BY <2>2, <2>3
<1> QED
  BY <1>1, <1>2

LEMMA WritesAgree ==
  ASSUME PuTyped, Agree, NEW p \in Runners, Tell(p) \/ CreateGoal(p) \/ FreezeWrites(p),
         ~raced', ~apart'
  PROVE  Agree'
<1> USE DEF Agree
<1>0. Carries(p) /\ \A q \in Runners \ {p} : at'[q] = at[q] /\ move'[q] = move[q]
  BY OthersKeep DEF Settling, Pursuing, PuTyped
<1>1. CASE Tell(p)
  <2>1. at[p] = "tell" /\ UNCHANGED state /\ told' = state
    BY <1>1 DEF Tell, Turn, Replayed, TellsState, snapshot
  <2>2. at'[p] # "tell"
    BY <1>0, <1>1, <2>1 DEF Tell, Ends, Goes, Carries, PuTyped, PuTypeOK
  <2> QED
    BY <1>0, <2>1, <2>2 DEF TellsState, OneTells, WillAgree, NotYet
<1>2. CASE CreateGoal(p)
  <2>1. state = "none" /\ state' = "draft" /\ at'[p] = "freeze" /\ told' = told
    BY <1>2 DEF CreateGoal, Goes, counts, PuTyped, PuTypeOK
  <2> QED
    BY <1>0, <2>1 DEF TellsState, OneTells, WillAgree, NotYet
<1>3. CASE FreezeWrites(p)
  <2>1. /\ state' = "ready" /\ at'[p] = "tell" /\ move'[p].to = "ready"
        /\ \A q \in Runners : at[q] # "tell"
    BY <1>3 DEF FreezeWrites, Goes, Telling, PuTyped, PuTypeOK
  <2> QED
    BY <1>0, <2>1 DEF TellsState, OneTells, WillAgree, NotYet
<1> QED
  BY <1>1, <1>2, <1>3

LEMMA StartsAgree ==
  ASSUME PuTyped, Agree, NEW p \in Runners, CycleStarts(p), ~apart'
  PROVE  Agree'
<1> USE DEF Agree
<1>0. /\ at[p] = "start" /\ state # "none" /\ UNCHANGED state /\ told' = "running"
      /\ \A q \in Runners \ {p} : at'[q] = at[q] /\ move'[q] = move[q]
  BY OthersKeep DEF CycleStarts, Turn, NotYet, snapshot, Pursuing
<1>1. at'[p] # "tell"
  BY DEF CycleStarts, Asks, Goes, PuTyped, PuTypeOK
<1>2. state = "running" \/ (cyc[p] = 1 /\ state \in {"ready", "blocked"})
  BY DEF CycleStarts
<1>3. cyc[p] = 1 => at'[p] = "move" /\ move'[p].next = "work"
  BY DEF CycleStarts, Asks, Goes, PuTyped, PuTypeOK
<1> QED
  BY <1>0, <1>1, <1>2, <1>3 DEF TellsState, OneTells, WillAgree, NotYet

\* All others are quiet.
LEMMA OthersQuiet ==
  ASSUME PuTyped, NotYet, NEW p \in Runners,
         \/ Pursue(p) \/ Freeze(p) \/ ReconcileGoal(p) \/ Apply(p) \/ Observe(p) \/ Settle(p)
         \/ SettleResumes(p) \/ SettleCloses(p) \/ Repair(p) \/ CycleChecks(p) \/ PlanFails(p)
         \/ Work(p) \/ CycleMissed(p) \/ Judged(p) \/ (Die(p) /\ ~apart')
  PROVE  /\ ~Between(p) /\ UNCHANGED <<state, told>> /\ at'[p] # "tell"
         /\ at'[p] \in {"idle", "create"} \/ state # "none"
<1> USE DEF PuTyped, PuTypeOK, Goes, Ends, Asks, EndsAs, Grades, Turn, snapshot, counts
<1>1. CASE Pursue(p)
  BY <1>1 DEF Pursue, Between
<1>2. CASE Freeze(p)
  BY <1>2 DEF Freeze, Between, NotYet
<1>3. CASE ReconcileGoal(p) \/ Apply(p)
  BY <1>3 DEF ReconcileGoal, Apply, Between
<1>4. CASE Observe(p) \/ Settle(p)
  BY <1>4 DEF Observe, Settle, Between, NotYet
<1>5. CASE SettleResumes(p) \/ SettleCloses(p) \/ Repair(p) \/ CycleChecks(p)
  BY <1>5 DEF SettleResumes, SettleCloses, Repair, CycleChecks, Between, NotYet
<1>6. CASE PlanFails(p) \/ Work(p)
  BY <1>6 DEF PlanFails, Work, Between, NotYet
<1>7. ASSUME Missed(p) PROVE at'[p] # "tell"
  BY <1>7 DEF Missed
<1>8. CASE CycleMissed(p)
  BY <1>7, <1>8 DEF CycleMissed, Between, NotYet
<1>9. CASE Judged(p)
  <2>1. Missed(p) \/ \E to \in GoalStates : EndsAs(p, to)
    BY <1>9, VerdictIs DEF Judged, GoalStates
  <2>2. at'[p] # "tell"
    BY <1>7, <2>1
  <2> QED
    BY <1>9, <2>2 DEF Judged, Between, NotYet
<1>10. CASE Die(p) /\ ~apart'
  BY <1>10 DEF Die
<1> QED
  BY <1>1, <1>2, <1>3, <1>4, <1>5, <1>6, <1>8, <1>9, <1>10

LEMMA HistoryGrows == ASSUME [PuNext]_puVars, ~raced', ~apart' PROVE ~raced /\ ~apart
<1> USE DEF Turn, history
<1>1. CASE UNCHANGED <<raced, apart>>
  BY <1>1
<1>2. ASSUME NEW p \in Runners, Transition(p) PROVE ~raced /\ ~apart
  <2>1. raced' = raced /\ (apart' = (apart \/ Telling) \/ apart' = apart)
    BY <1>2 DEF Transition
  <2>2. CASE apart' = (apart \/ Telling)
    BY <2>1, <2>2
  <2>3. CASE apart' = apart
    BY <2>1, <2>3
  <2> QED
    BY <2>1, <2>2, <2>3
<1>3. ASSUME NEW p \in Runners, CreateGoal(p) PROVE ~raced /\ ~apart
  <2>1. raced' = (raced \/ state # "none") /\ apart' = apart
    BY <1>3 DEF CreateGoal
  <2> QED
    BY <2>1
<1>5. ASSUME NEW p \in Runners, FreezeWrites(p) PROVE ~raced /\ ~apart
  <2>1. raced' = (raced \/ state # "draft" \/ hash # NoHash) /\ apart' = (apart \/ Telling)
    BY <1>5 DEF FreezeWrites
  <2> QED
    BY <2>1
<1>6. ASSUME NEW p \in Runners, CycleStarts(p) PROVE ~raced /\ ~apart
  <2>1. /\ apart' = (apart \/ ~(state = "running" \/ (cyc[p] = 1 /\ state \in {"ready", "blocked"})))
        /\ raced' = raced
    BY <1>6 DEF CycleStarts
  <2> QED
    BY <2>1
<1>7. ASSUME NEW p \in Runners, Die(p) PROVE ~raced /\ ~apart
  <2>1. apart' = (apart \/ Between(p)) /\ raced' = raced
    BY <1>7 DEF Die
  <2> QED
    BY <2>1
<1>4. ASSUME NEW p \in Runners,
             \/ Pursue(p) \/ Freeze(p) \/ ReconcileGoal(p) \/ Apply(p) \/ Observe(p) \/ Settle(p)
             \/ SettleResumes(p) \/ SettleCloses(p) \/ Repair(p) \/ CycleChecks(p) \/ PlanFails(p)
             \/ Work(p) \/ CycleMissed(p) \/ Judged(p) \/ Tell(p)
      PROVE  UNCHANGED <<raced, apart>>
  BY <1>4 DEF Pursue, Freeze, ReconcileGoal, Apply, Observe, Settle, SettleResumes, SettleCloses,
     Repair, CycleChecks, PlanFails, Work, CycleMissed, Judged, Tell
<1> QED
  BY <1>1, <1>2, <1>3, <1>4, <1>5, <1>6, <1>7 DEF PuNext, puVars, Edit, Pursuing, Settling

LEMMA AgreeStep == ASSUME PuTyped, AgreesOr, [PuNext]_puVars PROVE AgreesOr'
<1> SUFFICES ASSUME ~raced', ~apart' PROVE Agree'
  BY DEF AgreesOr
<1>0. Agree
  BY HistoryGrows DEF AgreesOr
<1>1. CASE Edit
  BY <1>0, <1>1 DEF Edit, Agree, TellsState, OneTells, WillAgree, NotYet, counts
<1>2. CASE UNCHANGED puVars
  BY <1>0, <1>2 DEF puVars, Agree, TellsState, OneTells, WillAgree, NotYet
<1>3. ASSUME NEW p \in Runners, Pursuing(p) \/ Settling(p) \/ Die(p) PROVE Agree'
  <2>1. CASE Transition(p)
    BY <1>0, <2>1, TransitionAgrees
  <2>2. CASE Tell(p) \/ CreateGoal(p) \/ FreezeWrites(p)
    BY <1>0, <2>2, WritesAgree
  <2>3. CASE CycleStarts(p)
    BY <1>0, <2>3, StartsAgree
  <2>4. CASE ~(Transition(p) \/ Tell(p) \/ CreateGoal(p) \/ FreezeWrites(p) \/ CycleStarts(p))
    <3>1. /\ ~Between(p) /\ UNCHANGED <<state, told>> /\ at'[p] # "tell"
          /\ at'[p] \in {"idle", "create"} \/ state # "none"
      BY <1>0, <1>3, <2>4, OthersQuiet DEF Pursuing, Settling, Agree
    <3> QED
      BY <1>0, <1>3, <3>1, OthersKeep, QuietAgrees
  <2> QED
    BY <2>1, <2>2, <2>3, <2>4
<1> QED
  BY <1>1, <1>2, <1>3 DEF PuNext

\* For any number of processes and deaths: the two records of a goal agree whenever nobody
\* is between the two, but for the four ways that are named.
THEOREM DivergesByNameHolds == PuSpec => []DivergesByName
<1>1. PuInit => AgreesOr
  BY DEF PuInit, AgreesOr, Agree, TellsState, OneTells, WillAgree, NotYet
<1>2. PuTyped /\ AgreesOr /\ [PuNext]_puVars => AgreesOr'
  BY AgreeStep
<1>3. AgreesOr => DivergesByName
  BY DEF AgreesOr, Agree, WillAgree, DivergesByName, Between
<1> QED
  BY <1>1, <1>2, <1>3, PuTypedHolds, PTL DEF PuSpec
=============================================================================
