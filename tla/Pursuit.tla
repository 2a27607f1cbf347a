------------------------------ MODULE Pursuit ------------------------------
(***************************************************************************)
(* Goal pursuit: contract.py, goal.pursue, runbook.reconcile and settle,   *)
(* repair.apply, on one goal.                                              *)
(*                                                                         *)
(* The contract is kept twice: contract.json is rewritten by transitions,  *)
(* which decide under its lock; events.jsonl is appended to, after the     *)
(* lock is released.  What budget_state, oscillating and replay derive     *)
(* from the events is kept here instead of the events.  Any number of      *)
(* processes may pursue, reconcile or repair the goal.                     *)
(***************************************************************************)
EXTENDS Naturals, FiniteSets, Functions

CONSTANTS
  Runners,      \* processes that pursue, reconcile or repair the goal
  Tests,        \* acceptance sets a caller may bring
  NoTests,      \* the empty one
  Edited,       \* what a worker makes of the set in contract.json
  NoHash,
  Walls,        \* milestones with their checks, as oscillating tells them apart
  Plans,        \* repair plans, told apart by their hash
  MaxCycles,    \* max_cycles
  MaxRepairs,   \* MAX_REPAIRS
  MaxCommands,  \* bound: commands given
  MaxDeaths     \* bound: runners killed

ASSUME PursuitAssumption ==
  /\ NoTests \in Tests /\ Edited \notin Tests /\ NoHash \notin Tests \cup {Edited}
  /\ {MaxCycles, MaxRepairs, MaxCommands, MaxDeaths} \subseteq Nat /\ IsFiniteSet(Runners)

GoalStates == {"none", "draft", "ready", "running", "verified", "partial", "blocked", "exhausted"}
Over == {"verified", "partial", "exhausted"}    \* nothing leaves these

TRANSITIONS == [s \in GoalStates |->
  CASE s = "ready" -> {"running", "blocked"}
    [] s = "running" -> {"verified", "partial", "blocked", "exhausted", "running"}
    [] s = "blocked" -> {"running"}
    [] OTHER -> {}]

VARIABLES
  state, accept, hash,  \* contract.json: its state, acceptance and accept_hash
  seals,     \* the acceptance sets sealed for the goal
  told,      \* events.jsonl: the state that replay derives,
  cycles,    \* its cycle_started events,
  hits,      \* hits[w]: the cycles of its milestone_failed events of w,
  repairs,   \* the plans of its repair_applied events
  spent,     \* have the dollars or the minutes run out?
  at,        \* at[p]: where a runner is
  copy,      \* copy[p]: the acceptance it brings, or the contract it freezes
  cyc,       \* cyc[p]: its cycle, 0 when it does not pursue
  move,      \* move[p]: the transition it is making, and where it goes on
  graded,    \* history: graded[p], the graders p has seen pass
  commands, deaths,
  raced,     \* history: it was created by two,
  apart      \* or the two records came apart otherwise

puVars == <<state, accept, hash, seals, told, cycles, hits, repairs, spent, at, copy, cyc,
            move, graded, commands, deaths, raced, apart>>
snapshot == <<state, accept, hash>>
counts == <<told, cycles, hits, repairs>>
history == <<raced, apart>>
outside == <<seals, spent, commands, deaths>>

Places == {"idle", "create", "freeze", "frozen", "observe", "settle", "resume", "close",
           "cycle", "start", "work", "judge", "missed", "repair", "move", "tell"}
NoMove == [to |-> "none", next |-> "idle", refused |-> "idle"]
Moves == [to : GoalStates, next : Places, refused : Places]

PuTypeOK ==
  /\ state \in GoalStates /\ accept \in Tests \cup {Edited} /\ hash \in Tests \cup {Edited, NoHash}
  /\ seals \subseteq Tests \cup {Edited}
  /\ told \in GoalStates /\ cycles \in Nat /\ hits \in [Walls -> SUBSET (1..MaxCycles)]
  /\ repairs \in [Plans -> Nat] /\ spent \in BOOLEAN
  /\ at \in [Runners -> Places] /\ copy \in [Runners -> Tests \cup Plans \cup {Edited, NoHash}]
  /\ cyc \in [Runners -> 0..MaxCycles + 1] /\ move \in [Runners -> Moves]
  /\ graded \in [Runners -> Tests \cup {Edited, NoHash}]
  /\ commands \in Nat /\ deaths \in Nat
  /\ raced \in BOOLEAN /\ apart \in BOOLEAN

PuInit ==
  /\ state = "none" /\ accept = NoTests /\ hash = NoHash /\ seals = {}
  /\ told = "draft" /\ cycles = 0 /\ hits = [w \in Walls |-> {}]
  /\ repairs = [h \in Plans |-> 0] /\ spent = FALSE
  /\ at = [p \in Runners |-> "idle"] /\ copy = [p \in Runners |-> NoHash]
  /\ cyc = [p \in Runners |-> 0] /\ move = [p \in Runners |-> NoMove]
  /\ graded = [p \in Runners |-> NoHash]
  /\ commands = 0 /\ deaths = 0
  /\ raced = FALSE /\ apart = FALSE

-----------------------------------------------------------------------------
\* p is over: what it knew is gone with it.
Ends(p) ==
  /\ at' = [at EXCEPT ![p] = "idle"] /\ copy' = [copy EXCEPT ![p] = NoHash]
  /\ cyc' = [cyc EXCEPT ![p] = 0] /\ move' = [move EXCEPT ![p] = NoMove]
  /\ graded' = [graded EXCEPT ![p] = NoHash]

Goes(p, place) == at' = [at EXCEPT ![p] = place]

\* p asks for a transition and goes on at next, or at refused on a ContractError.
Asks(p, to, next, refused) ==
  /\ Goes(p, "move")
  /\ move' = [move EXCEPT ![p] = [to |-> to, next |-> next, refused |-> refused]]

\* The end of a pursuit: refused or not, it returns.
EndsAs(p, to) == Asks(p, to, "idle", "idle")

\* p has written and not yet told, or told of a cycle whose transition is to come.
Between(p) == at[p] = "tell" \/ (at[p] = "move" /\ move[p].next = "work")
Telling == \E q \in Runners : at[q] = "tell"

Turn(p, place) == at[p] = place /\ UNCHANGED outside

-----------------------------------------------------------------------------
\* contract.transition: the decision and the write, under the lock ...
Transition(p) ==
  LET m == move[p]
      legal == m.to \in TRANSITIONS[state]
  IN  /\ Turn(p, "move")
      /\ UNCHANGED <<accept, hash, counts, raced>>
      /\ IF legal
           THEN /\ state' = m.to /\ Goes(p, "tell")
                /\ apart' = (apart \/ Telling)
                /\ UNCHANGED <<move, copy, cyc, graded>>
           ELSE /\ UNCHANGED <<state, apart>>
                /\ IF m.refused = "idle" THEN Ends(p)
                   ELSE Goes(p, m.refused) /\ UNCHANGED <<move, copy, cyc, graded>>

\* replay: the last state event says the state.
\* Mutant: "running" is left to the cycles' events.
ReplayedSparsely(to) == IF to = "running" THEN told ELSE to
Replayed(to) == to

\* ... and then the event, without it.
Tell(p) ==
  /\ Turn(p, "tell")
  /\ told' = Replayed(move[p].to)
  /\ IF move[p].next = "idle" THEN Ends(p)
     ELSE Goes(p, move[p].next) /\ UNCHANGED <<move, copy, cyc, graded>>
  /\ UNCHANGED <<snapshot, cycles, hits, repairs, history>>

-----------------------------------------------------------------------------
\* goal.pursue: a contract that can be loaded is resumed, else it is created ...
Pursue(p) ==
  /\ at[p] = "idle" /\ commands < MaxCommands /\ commands' = commands + 1
  /\ cyc' = [cyc EXCEPT ![p] = 1]
  /\ IF state = "none"
       THEN Goes(p, "create") /\ \E t \in Tests : copy' = [copy EXCEPT ![p] = t]
       ELSE Goes(p, "observe") /\ UNCHANGED copy
  /\ UNCHANGED <<snapshot, counts, seals, spent, move, graded, deaths, history>>

\* ... over whatever another creator has put there meanwhile.
CreateGoal(p) ==
  /\ Turn(p, "create")
  /\ state' = "draft" /\ accept' = copy[p] /\ hash' = NoHash
  /\ raced' = (raced \/ state # "none")
  /\ Goes(p, "freeze")
  /\ UNCHANGED <<counts, copy, cyc, move, graded, apart>>

\* freeze raises unless the contract is a draft; the seal comes first ...
Freeze(p) ==
  /\ at[p] = "freeze"
  /\ IF state = "draft"
       THEN /\ seals' = seals \cup {accept}
            /\ copy' = [copy EXCEPT ![p] = accept]
            /\ Goes(p, "frozen") /\ UNCHANGED <<cyc, move, graded>>
       ELSE Ends(p) /\ UNCHANGED seals
  /\ UNCHANGED <<snapshot, counts, spent, commands, deaths, history>>

\* ... and what it loaded is written back, without the lock.
FreezeWrites(p) ==
  /\ Turn(p, "frozen")
  /\ state' = "ready" /\ accept' = copy[p] /\ hash' = copy[p]
  /\ raced' = (raced \/ state # "draft" \/ hash # NoHash)
  /\ apart' = (apart \/ Telling)
  /\ Goes(p, "tell")
  /\ move' = [move EXCEPT ![p] = [to |-> "ready", next |-> "observe", refused |-> "idle"]]
  /\ UNCHANGED <<counts, copy, cyc, graded>>

-----------------------------------------------------------------------------
\* contract.verify: the graders are run if they are the sealed ones.
Sealed == hash # NoHash /\ seals = {hash} /\ accept = hash
\* Mutant: the graders on disk are run, whatever was sealed.
VerdictsUnsealed == IF hash = NoHash \/ accept = NoTests THEN {"unmechanical"} ELSE {"pass", "fail"}
Verdicts ==
  IF hash = NoHash \/ seals = {} THEN {"unmechanical"}
  ELSE IF ~Sealed THEN {"tamper"}
  ELSE IF accept = NoTests THEN {"unmechanical"} ELSE {"pass", "fail"}

Grades(p, v) == graded' = [graded EXCEPT ![p] = IF v = "pass" THEN accept ELSE NoHash]

\* swarm.auto, reconcile: proven runbooks are applied until the graders pass or there is
\* none left.  A pursuit that is not done goes to the model.
Observe(p) ==
  /\ Turn(p, "observe")
  /\ \E v \in Verdicts :
       IF v = "pass" THEN Goes(p, "settle") /\ Grades(p, v) /\ UNCHANGED <<copy, cyc, move>>
       ELSE IF cyc[p] = 0 THEN Ends(p)
       ELSE Goes(p, "cycle") /\ Grades(p, v) /\ UNCHANGED <<copy, cyc, move>>
  /\ UNCHANGED <<snapshot, counts, history>>

\* settle runs the graders again.
Settle(p) ==
  /\ Turn(p, "settle")
  /\ \E v \in Verdicts :
       IF v = "pass" THEN Goes(p, "resume") /\ Grades(p, v) /\ UNCHANGED <<copy, cyc, move>>
       ELSE Ends(p)
  /\ UNCHANGED <<snapshot, counts, history>>

SettleResumes(p) ==
  /\ Turn(p, "resume")
  /\ IF state \in {"ready", "blocked"} THEN Asks(p, "running", "close", "idle")
     ELSE Goes(p, "close") /\ UNCHANGED move
  /\ UNCHANGED <<snapshot, counts, history, copy, cyc, graded>>

SettleCloses(p) ==
  /\ Turn(p, "close")
  /\ IF state = "running" THEN EndsAs(p, "verified") /\ UNCHANGED <<copy, cyc, graded>>
     ELSE Ends(p)
  /\ UNCHANGED <<snapshot, counts, history>>

-----------------------------------------------------------------------------
\* budget_state, from the events: also what other pursuits spent.
\* Mutant: the pursuit counts its own cycles only.
ExceededHere == spent
Exceeded == spent \/ cycles > MaxCycles

\* The cycles a pursuit was called with are the contract's; with others, which a resumed
\* goal can be given, the loop would end sooner or later, and Exceeded at the same event.
CycleChecks(p) ==
  /\ Turn(p, "cycle")
  /\ IF cyc[p] > MaxCycles THEN EndsAs(p, "exhausted")
     ELSE IF Exceeded THEN EndsAs(p, "blocked")
     ELSE Goes(p, "start") /\ UNCHANGED move
  /\ UNCHANGED <<snapshot, counts, history, copy, cyc, graded>>

\* The event of the cycle comes before the transition, which the first cycle asks for.
CycleStarts(p) ==
  /\ Turn(p, "start")
  /\ cycles' = cycles + 1 /\ told' = "running"
  /\ IF cyc[p] = 1 THEN Asks(p, "running", "work", "work")
     ELSE Goes(p, "work") /\ UNCHANGED move
  /\ apart' = (apart \/ ~(state = "running" \/ (cyc[p] = 1 /\ state \in {"ready", "blocked"})))
  /\ UNCHANGED <<snapshot, hits, repairs, copy, cyc, graded, raced>>

\* Planning fails: goal.json says failed, the contract is left as it is.
PlanFails(p) ==
  /\ Turn(p, "work") /\ Ends(p)
  /\ UNCHANGED <<snapshot, counts, history>>

\* The milestones are worked on and the judge speaks, its verdict checked.
Work(p) ==
  /\ at[p] = "work"
  /\ \E F \in SUBSET Walls :
       hits' = [w \in Walls |-> IF w \in F THEN hits[w] \cup {cyc[p]} ELSE hits[w]]
  /\ spent' \in {spent, TRUE}
  /\ \E place \in {"judge", "missed"} : Goes(p, place)
  /\ UNCHANGED <<snapshot, told, cycles, repairs, history, seals, commands, deaths,
                 copy, cyc, move, graded>>

\* oscillating: a wall was hit in two consecutive cycles, whoever's they were.
Oscillating == \E w \in Walls : \E c \in hits[w] : c + 1 \in hits[w]

Missed(p) ==
  IF Oscillating THEN EndsAs(p, "blocked") /\ UNCHANGED cyc
  ELSE Goes(p, "cycle") /\ cyc' = [cyc EXCEPT ![p] = @ + 1] /\ UNCHANGED move

CycleMissed(p) ==
  /\ Turn(p, "missed") /\ Missed(p)
  /\ UNCHANGED <<snapshot, counts, history, copy, graded>>

\* The judge says ACHIEVED: the frozen graders outrank it.
Judged(p) ==
  /\ Turn(p, "judge")
  /\ \E v \in Verdicts :
       /\ Grades(p, v)
       /\ CASE v = "tamper" -> EndsAs(p, "blocked") /\ UNCHANGED cyc
            [] v = "fail" -> Missed(p)
            [] v = "pass" -> EndsAs(p, "verified") /\ UNCHANGED cyc
            [] v = "unmechanical" -> EndsAs(p, "partial") /\ UNCHANGED cyc
  /\ UNCHANGED <<snapshot, counts, history, copy>>

-----------------------------------------------------------------------------
\* repair.apply: a bound and a convergence test, both from the events ...
Applied == {h \in Plans : repairs[h] > 0}

Apply(p) ==
  /\ at[p] = "idle" /\ commands < MaxCommands /\ commands' = commands + 1
  /\ state \in {"blocked", "exhausted"} /\ FoldFunction(+, 0, repairs) < MaxRepairs
  /\ \E h \in Plans \ Applied : copy' = [copy EXCEPT ![p] = h]
  /\ Goes(p, "repair")
  /\ UNCHANGED <<snapshot, counts, seals, spent, cyc, move, graded, deaths, history>>

\* ... and, the repair recorded, back to the graders if the owner says so.
Repair(p) ==
  /\ Turn(p, "repair")
  /\ repairs' = [repairs EXCEPT ![copy[p]] = @ + 1]
  /\ \E resume \in BOOLEAN :
       IF ~resume THEN Ends(p)
       ELSE /\ IF state = "blocked" THEN Asks(p, "running", "observe", "idle")
               ELSE Goes(p, "observe") /\ UNCHANGED move
            /\ UNCHANGED <<copy, cyc, graded>>
  /\ UNCHANGED <<snapshot, told, cycles, hits, history>>

\* runbook.reconcile from the command line.
ReconcileGoal(p) ==
  /\ at[p] = "idle" /\ commands < MaxCommands /\ commands' = commands + 1
  /\ state # "none" /\ Goes(p, "observe")
  /\ UNCHANGED <<snapshot, counts, seals, spent, copy, cyc, move, graded, deaths, history>>

-----------------------------------------------------------------------------
\* A worker shells around its tools and rewrites the graders.
Edit ==
  /\ state \notin {"none", "draft"} /\ accept # Edited /\ accept' = Edited
  /\ UNCHANGED <<state, hash, counts, outside, at, copy, cyc, move, graded, history>>

\* kill -9, or an exception nobody catches: a lock that timed out.  What was written and
\* not yet told, or told and not yet written, stays so.
Die(p) ==
  /\ at[p] # "idle" /\ deaths < MaxDeaths /\ deaths' = deaths + 1
  /\ Ends(p)
  /\ apart' = (apart \/ Between(p))
  /\ UNCHANGED <<snapshot, counts, seals, spent, commands, raced>>

Pursuing(p) ==
  \/ Pursue(p) \/ CreateGoal(p) \/ Freeze(p) \/ FreezeWrites(p)
  \/ CycleChecks(p) \/ CycleStarts(p) \/ PlanFails(p) \/ Work(p) \/ CycleMissed(p) \/ Judged(p)

Settling(p) ==
  \/ ReconcileGoal(p) \/ Apply(p) \/ Repair(p) \/ Observe(p)
  \/ Settle(p) \/ SettleResumes(p) \/ SettleCloses(p) \/ Transition(p) \/ Tell(p)

PuNext == Edit \/ \E p \in Runners : Pursuing(p) \/ Settling(p) \/ Die(p)

PuSpec == PuInit /\ [][PuNext]_puVars

-----------------------------------------------------------------------------
\* "BUDGETS bound the pursuit": over restarts, repairs and concurrent pursuits, the cycles
\* are the contract's and one more for each process that looked before another's event.
CyclesBounded == cycles <= MaxCycles + Cardinality(Runners)

\* replay makes of the events what the snapshot says once nobody is between the two,
\* except in the four ways that are named: a process died between write and event, two
\* transitions told in another order than written, a cycle begun on a contract that is
\* not running and does not become so, and a contract created twice.
DivergesByName ==
  state # "none" /\ told # state =>
    (\E p \in Runners : Between(p)) \/ apart \/ raced

\* "Only contract.verify decides", and "nothing leaves a terminal state": a contract
\* becomes verified by a process that has itself seen the sealed graders pass, and what
\* is over stays over, except under a second creator.
GradedAndFinal ==
  [][/\ state' = "verified" /\ state # "verified" =>
          \E p \in Runners : at[p] = "move" /\ at'[p] = "tell" /\ graded[p] \in seals
     /\ state \in Over /\ state' # state => raced']_puVars
=============================================================================
