----------------------------- MODULE LoopProofs -----------------------------
(***************************************************************************)
(* What the loop keeps from one tick to the next, for any number of loops  *)
(* and owners and any ceilings: the first trip of an episode, the owner's  *)
(* orders to the reconcilers and how often they try.                       *)
(***************************************************************************)
EXTENDS MCStanding, EffectLedgerProofs, FiniteSetTheorems, SequenceTheorems,
        WellFoundedInduction, TLAPS
-----------------------------------------------------------------------------
(* Safe mode (SafeMode).                                                   *)

\* The flags are flags; the rest of SmTypeOK is about numbers and processes.
Flags == tripping \in BOOLEAN /\ raced \in BOOLEAN
Numbered ==
  /\ mode \in 0..MaxEpisodes /\ written \in 0..MaxEpisodes
  /\ dog \in [Dogs -> {"off", "found nothing", "tripped"}]
  /\ wdMode \in [Dogs -> 0..MaxEpisodes]
  /\ working \subseteq Dogs
  /\ clearing \in 0..MaxEpisodes

\* Whoever is past its last look and about to write is alone and finds no file ...
Alone ==
  \A p \in Dogs : dog[p] = "tripped" =>
    mode = 0 /\ \A q \in Dogs : dog[q] = "tripped" => q = p

\* ... unless two were entering at once.
EntersAlone == raced \/ Alone

SmInv == SmTypeOK /\ EntersAlone

LEMMA SmTypeSplit == SmTypeOK <=> Flags /\ Numbered
  BY DEF SmTypeOK, Flags, Numbered

LEMMA SmStarts == SmInit => Flags /\ Numbered /\ Alone
<1> SUFFICES ASSUME SmInit PROVE Flags /\ Numbered /\ Alone
  OBVIOUS
<1>1. Flags
  BY DEF SmInit, Flags
<1>2. Numbered /\ Alone
  BY SafeModeAssumption DEF SmInit, Numbered, Alone
<1> QED
  BY <1>1, <1>2

LEMMA SmFlags == ASSUME Flags, [SmNext]_smVars PROVE Flags'
<1>1. ASSUME NEW p \in Dogs, DogStep(p) \/ DogFails(p)
      PROVE  Flags'
  BY <1>1 DEF Flags, DogStep, DogFails, SeesMode, SeesNone, Evaluates, Trips, Enter, Work, PutDown
<1>2. CASE ClearReads \/ ClearRemoves \/ Metrics \/ UNCHANGED smVars
  BY <1>2 DEF Flags, ClearReads, ClearRemoves, Metrics, smVars
<1> QED
  BY <1>1, <1>2 DEF SmNext

LEMMA SmNumbers == ASSUME Numbered, [SmNext]_smVars PROVE Numbered'
<1>0. 0 \in 0..MaxEpisodes /\ \A n \in 0..MaxEpisodes : n < MaxEpisodes => n + 1 \in 0..MaxEpisodes
  BY SafeModeAssumption
<1> USE <1>0 DEF Numbered
<1>1. ASSUME NEW p \in Dogs, SeesMode(p)
      PROVE  Numbered'
  BY <1>1 DEF SeesMode
<1>2. ASSUME NEW p \in Dogs, SeesNone(p) \/ Evaluates(p) \/ DogFails(p)
      PROVE  Numbered'
  <2>1. /\ UNCHANGED <<mode, written, clearing>> /\ working' \subseteq working
        /\ wdMode' \in {wdMode, [wdMode EXCEPT ![p] = 0]}
        /\ dog' \in {[dog EXCEPT ![p] = "off"], [dog EXCEPT ![p] = "found nothing"]}
    BY <1>2, Zenon DEF SeesNone, Evaluates, DogFails
  <2> QED
    BY <2>1
<1>3. ASSUME NEW p \in Dogs, Trips(p) \/ Enter(p)
      PROVE  Numbered'
  <2>1. CASE Trips(p)
    <3>1. /\ UNCHANGED <<mode, written, working, clearing>>
          /\ wdMode' \in {wdMode, [wdMode EXCEPT ![p] = mode]}
          /\ dog' \in {[dog EXCEPT ![p] = "off"], [dog EXCEPT ![p] = "tripped"]}
      BY <2>1, Zenon DEF Trips
    <3> QED
      BY <3>1
  <2>2. CASE Enter(p)
    <3>1. mode' \in 0..MaxEpisodes /\ written' \in 0..MaxEpisodes
      BY <2>2, Zenon DEF Enter
    <3> QED
      BY <2>2, <3>1 DEF Enter
  <2> QED
    BY <1>3, <2>1, <2>2
<1>4. ASSUME NEW p \in Dogs, Work(p) \/ PutDown(p)
      PROVE  Numbered'
  BY <1>4 DEF Work, PutDown
<1>5. CASE ClearReads
  BY <1>5 DEF ClearReads
<1>8. CASE ClearRemoves
  <2>1. mode' \in 0..MaxEpisodes /\ clearing' \in 0..MaxEpisodes
    BY <1>8, Zenon DEF ClearRemoves
  <2> QED
    BY <1>8, <2>1 DEF ClearRemoves
<1>6. CASE Metrics
  BY <1>6 DEF Metrics
<1>7. CASE UNCHANGED smVars
  BY <1>7 DEF smVars
<1> QED
  BY <1>1, <1>2, <1>3, <1>4, <1>5, <1>6, <1>7, <1>8 DEF SmNext, DogStep

LEMMA SmAlone == ASSUME Numbered, EntersAlone, [SmNext]_smVars PROVE EntersAlone'
<1> USE DEF Numbered
<1>1. raced => raced'
  BY Zenon DEF SmNext, DogStep, DogFails, SeesMode, SeesNone, Evaluates, Trips, Enter, Work,
     PutDown, ClearReads, ClearRemoves, Metrics, smVars
<1>2. ASSUME Alone, ~raced', NEW p \in Dogs, dog'[p] = "tripped"
      PROVE  mode' = 0 /\ \A q \in Dogs : dog'[q] = "tripped" => q = p
  <2>1. ASSUME NEW r \in Dogs, SeesMode(r) \/ SeesNone(r) \/ Evaluates(r) \/ DogFails(r)
        PROVE  mode' = 0 /\ \A q \in Dogs : dog'[q] = "tripped" => q = p
    <3>1. mode' = mode BY <2>1 DEF SeesMode, SeesNone, Evaluates, DogFails
    <3>2. \A q \in Dogs : dog'[q] = "tripped" => dog[q] = "tripped"
      BY <2>1 DEF SeesMode, SeesNone, Evaluates, DogFails
    <3> QED
      BY <1>2, <3>1, <3>2 DEF Alone
  <2>2. ASSUME NEW r \in Dogs, Trips(r), mode # 0
        PROVE  mode' = 0 /\ \A q \in Dogs : dog'[q] = "tripped" => q = p
    BY <1>2, <2>2 DEF Alone, Trips
  <2>3. ASSUME NEW r \in Dogs, Trips(r), mode = 0
        PROVE  mode' = 0 /\ \A q \in Dogs : dog'[q] = "tripped" => q = p
    <3>1. \A q \in Dogs : dog[q] # "tripped"
      BY <1>2, <2>3, Zenon DEF Trips
    <3> QED
      BY <1>2, <2>3, <3>1 DEF Trips
  <2>4. ASSUME NEW r \in Dogs, Enter(r)
        PROVE  mode' = 0 /\ \A q \in Dogs : dog'[q] = "tripped" => q = p
    BY <1>2, <2>4 DEF Alone, Enter
  <2>5. ASSUME NEW r \in Dogs, Work(r) \/ PutDown(r)
        PROVE  mode' = 0 /\ \A q \in Dogs : dog'[q] = "tripped" => q = p
    BY <1>2, <2>5 DEF Alone, Work, PutDown
  <2>6. CASE ClearReads \/ ClearRemoves \/ Metrics \/ UNCHANGED smVars
    BY <1>2, <2>6 DEF Alone, ClearReads, ClearRemoves, Metrics, smVars
  <2> QED
    BY <2>1, <2>2, <2>3, <2>4, <2>5, <2>6 DEF SmNext, DogStep
<1>3. Alone /\ ~raced' => Alone'
  BY <1>2 DEF Alone
<1> QED
  BY <1>1, <1>3 DEF EntersAlone

\* The record, the loops that watch it and the owner who clears it keep their types, and
\* who enters is alone or races (watchdog.enter looks at the file once more).
THEOREM SmInvHolds == SmSpec => []SmInv
<1>1. SmInit => SmInv
  BY SmStarts, SmTypeSplit DEF SmInv, EntersAlone
<1>2. SmInv /\ [SmNext]_smVars => SmInv'
  <2> SUFFICES ASSUME SmInv, [SmNext]_smVars PROVE SmInv'
    OBVIOUS
  <2>1. Flags /\ Numbered /\ EntersAlone
    BY SmTypeSplit DEF SmInv
  <2>2. Flags' /\ Numbered' /\ EntersAlone'
    BY <2>1, SmFlags, SmNumbers, SmAlone
  <2> QED
    BY <2>2 DEF SmInv, SmTypeOK, Flags, Numbered
<1> QED
  BY <1>1, <1>2, PTL DEF SmSpec

\* "The FIRST trip is the one to investigate": only a race of two entering loops
\* replaces a record of safe-mode.json by another.
THEOREM FirstTripIsKept == SmSpec => FirstTripKept
<1>1. SmInv /\ [SmNext]_smVars => [mode # 0 /\ mode' # mode => mode' = 0 \/ raced]_smVars
  <2> SUFFICES ASSUME SmInv, SmNext, mode # 0, mode' # mode
               PROVE  mode' = 0 \/ raced
    OBVIOUS
  <2>1. ASSUME NEW p \in Dogs, Enter(p)
        PROVE  raced
    BY <2>1 DEF SmInv, EntersAlone, Alone, Enter
  <2>2. CASE ClearRemoves
    BY <2>2 DEF ClearRemoves
  <2> QED
    BY <2>1, <2>2 DEF SmNext, DogStep, DogFails, SeesMode, SeesNone, Evaluates, Trips,
                      Work, PutDown, ClearReads, Metrics
<1> QED
  BY <1>1, SmInvHolds, PTL DEF SmSpec, FirstTripKept

-----------------------------------------------------------------------------
(* Reconcilers: while nobody was overtaken, the owner's order stands.      *)

\* What the lock says, and what a tick knows, as long as no live holder was overtaken.
RcBase ==
  /\ older \in Nat /\ age \in 0..2 /\ inside \subseteq Who
  /\ rlock \in Who \cup {NoTick, DeadTick}
  /\ mine \in [Who -> Files0] /\ recs \in Files0
  /\ todo \in [Who -> SUBSET Recs] /\ doing \in [Who -> Recs \cup {"none"}]

OneInside == \A p \in inside : rlock = p

\* Only a corpse's lock gets old.
OldIsDead == age # 0 => rlock = DeadTick

\* A tick works on its copy, and its copy says what the file says, but for what it halted.
CopyIsFile ==
  \A p \in inside \ Keepers : \A r \in Recs :
    /\ mine[p][r].status = recs[r].status \/ recs[r].status = "armed"
    /\ r \in todo[p] \/ (r = doing[p] /\ r # "none") => recs[r].status = "armed"

Outside == \A p \in Who \ inside : todo[p] = {} /\ doing[p] = "none"

RcInv == RcBase /\ Outside /\ (older = 0 => OneInside /\ OldIsDead /\ CopyIsFile)

LEMMA RcStarts == RcInit => RcInv
<1> SUFFICES ASSUME RcInit PROVE RcInv
  OBVIOUS
<1>1. RcBase
  BY DEF RcInit, RcBase, Files0, Statuses
<1>2. Outside /\ OneInside /\ OldIsDead /\ CopyIsFile
  BY DEF RcInit, Outside, OneInside, OldIsDead, CopyIsFile
<1> QED
  BY <1>1, <1>2 DEF RcInv

\* An item of a list keeps the form of an item.
LEMMA ItemSet ==
  ASSUME NEW f \in Files0, NEW r \in Recs, NEW s \in Statuses, NEW n \in Nat
  PROVE  [f EXCEPT ![r] = [status |-> s, failures |-> n]] \in Files0
BY DEF Files0

LEMMA ResetSet ==
  ASSUME NEW f \in Files0, NEW r \in Recs
  PROVE  [f EXCEPT ![r].failures = 0] \in Files0
<1> DEFINE it == [f[r] EXCEPT !.failures = 0]
<1>1. f[r] \in [status : Statuses, failures : Nat]
  BY DEF Files0
<1>2. it \in [status : Statuses, failures : Nat]
  BY <1>1
<1>3. [f EXCEPT ![r] = it] \in Files0
  BY <1>2 DEF Files0
<1> QED
  BY <1>3

LEMMA RcBaseStep == ASSUME RcBase, Outside, [RcNext]_rcVars PROVE RcBase' /\ Outside'
<1> USE ReconcilerAssumption DEF RcBase, Outside, Who
<1>1. ASSUME NEW p \in Keepers, Command(p) PROVE RcBase' /\ Outside'
  <2>1. PICK r \in Recs : \E it \in Commands(recs[r]) : mine' = [mine EXCEPT ![p] = [recs EXCEPT ![r] = it]]
    BY <1>1 DEF Command
  <2>5. PICK it \in Commands(recs[r]) : mine' = [mine EXCEPT ![p] = [recs EXCEPT ![r] = it]]
    BY <2>1
  <2>2. it \in [status : Statuses, failures : Nat]
    <3>1. recs[r] \in [status : Statuses, failures : Nat]
      BY DEF Files0
    <3> QED
      BY <3>1 DEF Commands, Statuses
  <2>3. [recs EXCEPT ![r] = it] \in Files0
    BY <2>2 DEF Files0
  <2>4. mine' \in [Who -> Files0]
    BY <2>5, <2>3
  <2> QED
    BY <1>1, <2>4 DEF Command, Enters
<1>2. ASSUME NEW p \in Tickers, TickStarts(p) PROVE RcBase' /\ Outside'
  BY <1>2 DEF TickStarts, Enters
<1>3. ASSUME NEW p \in Tickers, NotDue(p) PROVE RcBase' /\ Outside'
  BY <1>3 DEF NotDue
<1>4. ASSUME NEW p \in Tickers, NEW r \in Recs, mine' = [mine EXCEPT ![p][r].failures = 0]
      PROVE  mine' \in [Who -> Files0]
  <2>1. mine[p] \in Files0 /\ p \in Who
    OBVIOUS
  <2>2. [mine[p] EXCEPT ![r].failures = 0] \in Files0
    BY <2>1, ResetSet
  <2> QED
    BY <1>4, <2>1, <2>2
<1>5. ASSUME NEW p \in Tickers, Observe(p) PROVE RcBase' /\ Outside'
  <2>1. PICK r \in todo[p] :
          /\ todo' = [todo EXCEPT ![p] = @ \ {r}]
          /\ \/ mine' = [mine EXCEPT ![p][r].failures = 0] /\ UNCHANGED doing
             \/ UNCHANGED <<mine, doing>>
             \/ doing' = [doing EXCEPT ![p] = r] /\ UNCHANGED mine
    BY <1>5 DEF Observe
  <2>2. mine' \in [Who -> Files0]
    BY <2>1, <1>4
  <2>3. doing' \in [Who -> Recs \cup {"none"}] /\ todo' \in [Who -> SUBSET Recs]
    BY <2>1
  <2>4. p \in inside
    BY <2>1
  <2> QED
    BY <1>5, <2>1, <2>2, <2>3, <2>4 DEF Observe
<1>6. ASSUME NEW p \in Tickers, Repaired(p) PROVE RcBase' /\ Outside'
  <2>1. doing[p] \in Recs /\ p \in inside
    BY <1>6 DEF Repaired
  <2>2. mine' \in [Who -> Files0]
    BY <1>6, <2>1, <1>4 DEF Repaired
  <2> QED
    BY <1>6, <2>1, <2>2 DEF Repaired
<1>7. ASSUME NEW p \in Tickers, Failed(p) PROVE RcBase' /\ Outside'
  <2>1. doing[p] \in Recs /\ p \in inside
    BY <1>7 DEF Failed
  <2> DEFINE n == mine[p][doing[p]].failures + 1
             st == IF n >= MaxTries THEN "halted" ELSE mine[p][doing[p]].status
  <2>2. n \in Nat /\ st \in Statuses /\ mine[p] \in Files0
    BY <2>1 DEF Files0, Statuses
  <2>3. mine' = [mine EXCEPT ![p] = [mine[p] EXCEPT ![doing[p]] = [status |-> st, failures |-> n]]]
    BY <1>7 DEF Failed
  <2>4. mine' \in [Who -> Files0]
    BY <2>1, <2>2, <2>3, ItemSet
  <2> QED
    BY <1>7, <2>1, <2>4 DEF Failed
<1>8. ASSUME NEW p \in Who, Saves(p) PROVE RcBase' /\ Outside'
  BY <1>8 DEF Saves, Exits
<1>9. ASSUME NEW p \in Who, Lost(p) PROVE RcBase' /\ Outside'
  BY <1>9 DEF Lost, Exits
<1>10. CASE Older
  BY <1>10 DEF Older
<1>11. CASE BreakLock \/ Drift
  BY <1>11 DEF BreakLock, Drift
<1>12. CASE UNCHANGED rcVars
  BY <1>12 DEF rcVars
<1> QED
  BY <1>1, <1>2, <1>3, <1>5, <1>6, <1>7, <1>8, <1>9, <1>10, <1>11, <1>12 DEF RcNext, TickStep

\* Nobody was overtaken: older only grows.
LEMMA OlderGrows == ASSUME RcBase, [RcNext]_rcVars, older' = 0 PROVE older = 0
<1>1. CASE Older
  BY <1>1 DEF Older, RcBase
<1>2. CASE UNCHANGED older
  BY <1>2
<1> QED
  BY <1>1, <1>2 DEF RcNext, TickStep, Command, TickStarts, NotDue, Observe, Repaired, Failed,
     Saves, Lost, BreakLock, Drift, rcVars

LEMMA AloneStep ==
  ASSUME RcBase, Outside, OneInside, OldIsDead, [RcNext]_rcVars, older' = 0
  PROVE  OneInside' /\ OldIsDead'
<1> USE ReconcilerAssumption DEF RcBase, OneInside, OldIsDead, Who
<1>1. ASSUME NEW p \in Who, Enters(p) PROVE OneInside' /\ OldIsDead'
  BY <1>1 DEF Enters
<1>2. ASSUME NEW p \in Who, Exits(p) PROVE OneInside' /\ OldIsDead'
  BY <1>2 DEF Exits
<1>3. ASSUME NEW p \in Who, Lost(p) PROVE OneInside' /\ OldIsDead'
  BY <1>3, <1>2 DEF Lost
<1>4. CASE Older
  BY <1>4 DEF Older
<1>5. CASE BreakLock
  BY <1>5 DEF BreakLock
<1>6. CASE UNCHANGED <<rlock, age, inside>>
  BY <1>6
<1> QED
  BY <1>1, <1>2, <1>3, <1>4, <1>5, <1>6 DEF RcNext, TickStep, Command, TickStarts, NotDue,
     Observe, Repaired, Failed, Saves, Drift, rcVars

LEMMA CopyStep ==
  ASSUME RcBase, Outside, OneInside, OldIsDead, CopyIsFile, [RcNext]_rcVars
  PROVE  CopyIsFile'
<1> USE ReconcilerAssumption DEF RcBase, Outside, OneInside, CopyIsFile, Who
<1>1. ASSUME NEW p \in Keepers, Command(p) PROVE CopyIsFile'
  BY <1>1 DEF Command, Enters
<1>2. ASSUME NEW p \in Tickers, TickStarts(p) PROVE CopyIsFile'
  BY <1>2 DEF TickStarts, Enters
<1>3. ASSUME NEW p \in Tickers, NotDue(p) PROVE CopyIsFile'
  BY <1>3 DEF NotDue
<1>4. ASSUME NEW p \in Tickers, NEW s \in Recs, mine' = [mine EXCEPT ![p][s].failures = 0]
      PROVE  \A q \in Who : \A r \in Recs : mine'[q][r].status = mine[q][r].status
  BY <1>4 DEF Files0
<1>5. ASSUME NEW p \in Tickers, Observe(p) PROVE CopyIsFile'
  <2>1. PICK s \in todo[p] :
          /\ todo' = [todo EXCEPT ![p] = @ \ {s}]
          /\ \/ mine' = [mine EXCEPT ![p][s].failures = 0] /\ UNCHANGED doing
             \/ UNCHANGED <<mine, doing>>
             \/ doing' = [doing EXCEPT ![p] = s] /\ UNCHANGED mine
    BY <1>5 DEF Observe
  <2>2. \A q \in Who : \A r \in Recs : mine'[q][r].status = mine[q][r].status
    BY <2>1, <1>4
  <2>3. \A q \in Who : \A r \in Recs : r \in todo'[q] \/ r = doing'[q] => r \in todo[q] \/ r = doing[q] \/ r = "none"
    BY <2>1
  <2> QED
    BY <1>5, <2>2, <2>3 DEF Observe
<1>6. ASSUME NEW p \in Tickers, Repaired(p) PROVE CopyIsFile'
  <2>1. doing[p] \in Recs
    BY <1>6 DEF Repaired
  <2>2. \A q \in Who : \A r \in Recs : mine'[q][r].status = mine[q][r].status
    BY <1>6, <2>1, <1>4 DEF Repaired
  <2>3. \A q \in Who : \A r \in Recs : r = doing'[q] /\ r # "none" => r = doing[q]
    BY <1>6 DEF Repaired
  <2> QED
    BY <1>6, <2>2, <2>3 DEF Repaired
<1>7. ASSUME NEW p \in Tickers, Failed(p) PROVE CopyIsFile'
  <2>1. doing[p] \in Recs
    BY <1>7 DEF Failed
  <2>2. \A q \in Who : \A r \in Recs :
          mine'[q][r].status = mine[q][r].status \/ (q = p /\ r = doing[p])
    BY <1>7, <2>1 DEF Failed, Files0
  <2>3. \A q \in Who : \A r \in Recs : r = doing'[q] /\ r # "none" => r = doing[q]
    BY <1>7 DEF Failed
  <2> QED
    BY <1>7, <2>1, <2>2, <2>3 DEF Failed
<1>8. ASSUME NEW p \in Who, Saves(p) PROVE CopyIsFile'
  BY <1>8 DEF Saves, Exits
<1>9. ASSUME NEW p \in Who, Lost(p) PROVE CopyIsFile'
  BY <1>9 DEF Lost, Exits
<1>10. CASE Older \/ BreakLock \/ Drift
  BY <1>10 DEF Older, BreakLock, Drift
<1>11. CASE UNCHANGED rcVars
  BY <1>11 DEF rcVars
<1> QED
  BY <1>1, <1>2, <1>3, <1>5, <1>6, <1>7, <1>8, <1>9, <1>10, <1>11 DEF RcNext, TickStep

LEMMA RcInvStep == RcInv /\ [RcNext]_rcVars => RcInv'
<1> SUFFICES ASSUME RcInv, [RcNext]_rcVars PROVE RcInv'
  OBVIOUS
<1>1. RcBase' /\ Outside'
  BY RcBaseStep DEF RcInv
<1>2. ASSUME older' = 0 PROVE OneInside' /\ OldIsDead' /\ CopyIsFile'
  BY <1>2, OlderGrows, AloneStep, CopyStep DEF RcInv
<1> QED
  BY <1>1, <1>2 DEF RcInv

LEMMA RcInvHolds == RcSpec => []RcInv
BY RcStarts, RcInvStep, PTL DEF RcSpec

\* The order a step goes against is the order of a keeper who leaves the section.
LEMMA OrderStep ==
  ASSUME RcInv, [RcNext]_rcVars, older' = 0, NEW r \in Recs,
         recs'[r].status # recs[r].status, recs[r].status \in {"paused", "removed", "halted"}
  PROVE  \E p \in Keepers \cap inside : p \notin inside'
<1>1. older = 0
  BY OlderGrows DEF RcInv
<1>2. PICK p \in Who : Saves(p)
  BY DEF RcNext, TickStep, Who, Command, TickStarts, NotDue, Observe, Repaired, Failed, Lost,
         Older, BreakLock, Drift, rcVars
<1>3. p \in inside /\ p \notin inside' /\ recs' = mine[p]
  BY <1>2 DEF Saves, Exits
<1>4. p \in Keepers
  BY <1>1, <1>3 DEF RcInv, CopyIsFile
<1> QED
  BY <1>3, <1>4

\* While no live holder of the list was overtaken, what the owner paused or removed and
\* what was halted changes only by an owner's command (remove, resume, tick).
THEOREM OrdersStand == RcSpec => OrderHolds
<1>1. RcInv /\ [RcNext]_rcVars =>
        [older' = 0 =>
           \A r \in Recs :
             recs'[r].status # recs[r].status /\ recs[r].status \in {"paused", "removed", "halted"}
               => \E p \in Keepers \cap inside : p \notin inside']_rcVars
  BY OrderStep
<1> QED
  BY <1>1, RcInvHolds, PTL DEF RcSpec, OrderHolds

-----------------------------------------------------------------------------
(* Reconcilers: how often a restore is tried.                              *)

\* Live ticks and commands that somebody overtook, and whether the holder may be next.
Overtaken == inside \ {rlock}
Aged == IF rlock \in Who /\ age > 0 THEN 1 ELSE 0
Behind == Cardinality(Overtaken) + Aged

\* Whoever has counted a failure of r in its copy and not in the file.
CountedBy(r) == {p \in looked : r \notin todo[p] /\ doing[p] # r /\ mine[p][r].failures > 0}

\* What is left of the tries that overtaken copies may bring back.
Slack == MaxTries * (older - Behind)

\* A list whose counts were made by counting.
CountsOK(f) ==
  \A r \in Recs : f[r].failures <= MaxTries /\ (f[r].status = "armed" => f[r].failures < MaxTries)

RcTally ==
  /\ IsFiniteSet(inside) /\ looked \subseteq inside
  /\ tried \in [Recs -> Nat] /\ lost \in Nat
  /\ rlock \in Who => rlock \in inside
  /\ \A p \in Who : doing[p] # "none" => p \in looked /\ doing[p] \notin todo[p]
  /\ CountsOK(recs) /\ \A p \in inside : CountsOK(mine[p])
  /\ \A p \in inside, r \in Recs : r \in todo[p] \/ r = doing[p] => mine[p][r].status = "armed"

FileBound == \A r \in Recs : tried[r] <= recs[r].failures + lost + Slack + Cardinality(CountedBy(r))
CopyBound ==
  rlock \in Who =>
    \A r \in Recs : tried[r] <= mine[rlock][r].failures + lost + Slack + Cardinality(CountedBy(r) \ {rlock})
Bounds == Behind <= older /\ FileBound /\ CopyBound

LEMMA TimesGrows ==
  \A m, a, b \in Nat : /\ m * a \in Nat /\ (a <= b => m * a <= m * b)
                       /\ m * (a + 1) = m * a + m
OBVIOUS

LEMMA SlackIs ==
  ASSUME RcBase, RcTally, Behind <= older
  PROVE  /\ Cardinality(Overtaken) \in Nat /\ Behind \in Nat /\ Slack \in Nat
         /\ \A r \in Recs : CountedBy(r) \subseteq inside /\ IsFiniteSet(CountedBy(r))
<1>1. IsFiniteSet(Overtaken) BY FS_Subset DEF RcTally, Overtaken
<1>2. Cardinality(Overtaken) \in Nat /\ Behind \in Nat BY <1>1, FS_CardinalityType DEF Behind, Aged
<1>3. older - Behind \in Nat BY <1>2 DEF RcBase
<1>4. Slack \in Nat BY <1>3, TimesGrows, ReconcilerAssumption DEF Slack
<1>5. \A r \in Recs : CountedBy(r) \subseteq inside BY DEF CountedBy, RcTally
<1> QED BY <1>2, <1>4, <1>5, FS_Subset DEF RcTally

LEMMA TimesSlack ==
  \A m, o, b, q, c \in Nat :
    b <= o => /\ (c <= q /\ o - b <= q - c => m * (o - b) <= m * (q - c))
              /\ (c + 1 = b => m * (o - c) = m * (o - b) + m)
<1> SUFFICES ASSUME NEW m \in Nat, NEW o \in Nat, NEW b \in Nat, NEW q \in Nat, NEW c \in Nat, b <= o
             PROVE  /\ (c <= q /\ o - b <= q - c => m * (o - b) <= m * (q - c))
                    /\ (c + 1 = b => m * (o - c) = m * (o - b) + m)
  OBVIOUS
<1>1. o - b \in Nat /\ (c <= q => q - c \in Nat) OBVIOUS
<1>2. c + 1 = b => o - c = (o - b) + 1 OBVIOUS
<1> QED BY <1>1, <1>2, TimesGrows

LEMMA SlackKept ==
  ASSUME RcBase, older' \in Nat, Behind \in Nat, Behind' \in Nat, Behind <= older, Behind' <= older',
         older - Behind <= older' - Behind'
  PROVE  Slack <= Slack'
<1>1. older \in Nat /\ MaxTries \in Nat BY ReconcilerAssumption DEF RcBase
<1>2. \A q, c \in Nat : c <= q /\ older - Behind <= q - c => MaxTries * (older - Behind) <= MaxTries * (q - c)
  BY <1>1, TimesSlack
<1>3. MaxTries * (older - Behind) <= MaxTries * (older' - Behind') BY <1>2
<1> QED BY <1>3 DEF Slack

LEMMA SlackGains ==
  ASSUME RcBase, older' = older, Behind \in Nat, Behind' \in Nat, Behind <= older, Behind' + 1 = Behind
  PROVE  Slack' = Slack + MaxTries
<1>1. older \in Nat /\ MaxTries \in Nat BY ReconcilerAssumption DEF RcBase
<1>2. \A c \in Nat : c + 1 = Behind => MaxTries * (older - c) = MaxTries * (older - Behind) + MaxTries
  BY <1>1, TimesSlack
<1>3. MaxTries * (older - Behind') = MaxTries * (older - Behind) + MaxTries BY <1>2
<1> QED BY <1>3 DEF Slack

LEMMA TallyStarts == RcInit => RcTally /\ Bounds
<1> SUFFICES ASSUME RcInit PROVE RcTally /\ Bounds OBVIOUS
<1> USE ReconcilerAssumption DEF RcInit
<1>1. RcTally BY FS_EmptySet DEF RcTally, CountsOK, Who
<1>2. Overtaken = {} /\ Aged = 0 BY DEF Overtaken, Aged, Who
<1>3. Behind = 0 BY <1>2, FS_EmptySet DEF Behind
<1>4. Slack = 0 BY <1>3 DEF Slack
<1>5. \A r \in Recs : CountedBy(r) = {} BY DEF CountedBy
<1>6. FileBound
  <2>1. \A r \in Recs : Cardinality(CountedBy(r)) = 0 BY <1>5, FS_EmptySet
  <2> QED BY <1>4, <2>1 DEF FileBound
<1>7. CopyBound BY DEF CopyBound, Who
<1> QED BY <1>1, <1>3, <1>6, <1>7 DEF Bounds
\* A copy in which one count was reset.
LEMMA ResetFacts ==
  ASSUME mine \in [Who -> Files0], NEW p \in Who, NEW r \in Recs, mine' = [mine EXCEPT ![p][r].failures = 0]
  PROVE  /\ mine'[p][r].failures = 0 /\ mine'[p][r].status = mine[p][r].status
         /\ \A s \in Recs : s # r => mine'[p][s] = mine[p][s]
         /\ \A q \in Who : q # p => mine'[q] = mine[q]
<1>1. mine[p] \in Files0 OBVIOUS
<1>2. mine[p][r] \in [status : Statuses, failures : Nat] BY <1>1 DEF Files0
<1>3. mine' = [mine EXCEPT ![p] = [mine[p] EXCEPT ![r] = [mine[p][r] EXCEPT !.failures = 0]]] OBVIOUS
<1>4. mine'[p] = [mine[p] EXCEPT ![r] = [mine[p][r] EXCEPT !.failures = 0]] BY <1>3
<1>5. mine'[p][r] = [mine[p][r] EXCEPT !.failures = 0] BY <1>1, <1>4 DEF Files0
<1> QED BY <1>1, <1>2, <1>3, <1>4, <1>5 DEF Files0

\* A copy in which a failure was counted.
LEMMA FailedFacts ==
  ASSUME RcBase, RcTally, NEW p \in Who, Failed(p)
  PROVE  /\ doing[p] \in Recs /\ p \in looked /\ p \in inside /\ doing[p] \notin todo[p]
         /\ mine[p][doing[p]].status = "armed" /\ mine[p][doing[p]].failures < MaxTries
         /\ mine'[p][doing[p]].failures = mine[p][doing[p]].failures + 1
         /\ mine'[p][doing[p]].status = "armed" => mine'[p][doing[p]].failures < MaxTries
         /\ \A s \in Recs : s # doing[p] => mine'[p][s] = mine[p][s]
         /\ \A q \in Who : q # p => mine'[q] = mine[q]
<1>1. doing[p] \in Recs /\ p \in looked /\ p \in inside /\ doing[p] \notin todo[p]
  BY DEF Failed, RcBase, RcTally
<1>2. mine[p][doing[p]].status = "armed" /\ mine[p][doing[p]].failures < MaxTries
  BY <1>1 DEF RcTally, CountsOK
<1> DEFINE n == mine[p][doing[p]].failures + 1
           it == [status |-> IF n >= MaxTries THEN "halted" ELSE mine[p][doing[p]].status, failures |-> n]
<1>3. mine' = [mine EXCEPT ![p] = [mine[p] EXCEPT ![doing[p]] = it]] BY DEF Failed
<1>4. mine \in [Who -> Files0] /\ mine[p] \in Files0 BY DEF RcBase
<1>5. mine[p][doing[p]].failures \in Nat BY <1>1, <1>4 DEF Files0
<1>6. mine'[p] = [mine[p] EXCEPT ![doing[p]] = it] /\ \A q \in Who : q # p => mine'[q] = mine[q]
  BY <1>3, <1>4
<1>7. mine'[p][doing[p]] = it /\ \A s \in Recs : s # doing[p] => mine'[p][s] = mine[p][s]
  BY <1>1, <1>4, <1>6 DEF Files0
<1>8. it.status = "armed" => it.failures < MaxTries BY <1>5, ReconcilerAssumption
<1> QED BY <1>1, <1>2, <1>6, <1>7, <1>8

\* The owner's command starts a count afresh, or keeps the count and stops it.
LEMMA CommandFacts ==
  ASSUME RcBase, RcTally, NEW p \in Who, Command(p)
  PROVE  \E r \in Recs :
           /\ mine'[p] \in Files0 /\ CountsOK(mine'[p])
           /\ \A q \in Who : q # p => mine'[q] = mine[q]
           /\ \A s \in Recs : s # r => mine'[p][s] = recs[s] /\ tried'[s] = tried[s]
           /\ tried'[r] = 0 \/ (mine'[p][r].failures = recs[r].failures /\ tried'[r] = tried[r])
           /\ tried' \in [Recs -> Nat]
<1>1. PICK r \in Recs : \E it \in Commands(recs[r]) :
        /\ mine' = [mine EXCEPT ![p] = [recs EXCEPT ![r] = it]]
        /\ tried' = IF it.status = "armed" THEN [tried EXCEPT ![r] = 0] ELSE tried
  BY DEF Command
<1>2. PICK it \in Commands(recs[r]) :
        /\ mine' = [mine EXCEPT ![p] = [recs EXCEPT ![r] = it]]
        /\ tried' = IF it.status = "armed" THEN [tried EXCEPT ![r] = 0] ELSE tried
  BY <1>1
<1>3. recs \in Files0 /\ mine \in [Who -> Files0] /\ CountsOK(recs) /\ tried \in [Recs -> Nat]
  BY DEF RcBase, RcTally
<1>4. recs[r] \in [status : Statuses, failures : Nat] BY <1>3 DEF Files0
<1>5. /\ it \in [status : Statuses, failures : Nat] /\ it.failures <= MaxTries
      /\ it.status = "armed" => it.failures < MaxTries
      /\ it.status # "armed" => it.failures = recs[r].failures
  <2>1. recs[r].failures <= MaxTries BY <1>3 DEF CountsOK
  <2>2. it \in {[status |-> "armed", failures |-> 0], [recs[r] EXCEPT !.status = "paused"],
                [recs[r] EXCEPT !.status = "removed"]}
    BY DEF Commands
  <2> QED BY <1>4, <2>1, <2>2, ReconcilerAssumption DEF Statuses
<1>6. mine'[p] = [recs EXCEPT ![r] = it] /\ \A q \in Who : q # p => mine'[q] = mine[q] BY <1>2, <1>3
<1>7. mine'[p][r] = it /\ \A s \in Recs : s # r => mine'[p][s] = recs[s] BY <1>3, <1>6 DEF Files0
<1>8. mine'[p] \in Files0 BY <1>3, <1>5, <1>6 DEF Files0
<1>9. CountsOK(mine'[p]) BY <1>3, <1>5, <1>7 DEF CountsOK
<1>10. /\ tried' \in [Recs -> Nat] /\ \A s \in Recs : s # r => tried'[s] = tried[s]
       /\ tried'[r] = 0 \/ (it.status # "armed" /\ tried'[r] = tried[r])
  BY <1>2, <1>3
<1> QED BY <1>5, <1>6, <1>7, <1>8, <1>9, <1>10

LEMMA RcTallyStep == ASSUME RcBase, Outside, RcTally, [RcNext]_rcVars PROVE RcTally'
<1> USE ReconcilerAssumption DEF RcTally, Who
<1>0. /\ mine \in [Who -> Files0] /\ todo \in [Who -> SUBSET Recs] /\ doing \in [Who -> Recs \cup {"none"}]
      /\ \A r \in Recs : r # "none"
  BY DEF RcBase
<1>1. ASSUME NEW p \in Keepers, Command(p) PROVE RcTally'
  <2>1. /\ p \in Who /\ p \notin inside /\ inside' = inside \cup {p} /\ looked' = looked \cup {p} /\ rlock' = p
        /\ UNCHANGED <<recs, todo, doing, lost>>
    BY <1>1 DEF Command, Enters
  <2>2. IsFiniteSet(inside') BY <2>1, FS_AddElement
  <2>3. todo[p] = {} /\ doing[p] = "none" BY <2>1 DEF Outside
  <2>4. /\ CountsOK(mine'[p]) /\ \A q \in Who : q # p => mine'[q] = mine[q]
        /\ tried' \in [Recs -> Nat]
    BY <1>1, <2>1, CommandFacts
  <2>5. \A q \in inside' : CountsOK(mine'[q]) BY <2>1, <2>4 DEF RcBase
  <2>6. \A q \in inside', r \in Recs : r \in todo'[q] \/ r = doing'[q] => mine'[q][r].status = "armed"
    BY <1>0, <2>1, <2>3, <2>4 DEF RcBase
  <2>7. CountsOK(recs)' BY <2>1 DEF CountsOK
  <2> QED BY <1>0, <2>1, <2>2, <2>4, <2>5, <2>6, <2>7 DEF CountsOK
<1>2. ASSUME NEW p \in Tickers, TickStarts(p) PROVE RcTally'
  <2>1. /\ p \in Who /\ p \notin inside /\ inside' = inside \cup {p} /\ looked' \subseteq looked \cup {p}
        /\ looked \subseteq looked' /\ rlock' = p
        /\ mine' = [mine EXCEPT ![p] = recs]
        /\ todo' = [todo EXCEPT ![p] = {r \in Recs : recs[r].status = "armed"}]
        /\ UNCHANGED <<recs, doing, lost, tried>>
    BY <1>2 DEF TickStarts, Enters
  <2>2. IsFiniteSet(inside') BY <2>1, FS_AddElement
  <2>3. doing[p] = "none" BY <2>1 DEF Outside
  <2>4. mine'[p] = recs /\ \A q \in Who : q # p => mine'[q] = mine[q] BY <1>0, <2>1
  <2>5. todo'[p] = {r \in Recs : recs[r].status = "armed"} /\ \A q \in Who : q # p => todo'[q] = todo[q]
    BY <1>0, <2>1
  <2>6. \A q \in inside' : CountsOK(mine'[q]) BY <2>1, <2>4 DEF RcBase
  <2>7. \A q \in inside', r \in Recs : r \in todo'[q] \/ r = doing'[q] => mine'[q][r].status = "armed"
    BY <1>0, <2>1, <2>3, <2>4, <2>5 DEF RcBase
  <2>8. \A q \in Who : doing'[q] # "none" => q \in looked' /\ doing'[q] \notin todo'[q]
    BY <2>1, <2>3, <2>5
  <2> QED BY <2>1, <2>2, <2>6, <2>7, <2>8 DEF CountsOK
<1>3. ASSUME NEW p \in Tickers, NotDue(p) PROVE RcTally'
  <2>1. PICK r \in todo[p] : todo' = [todo EXCEPT ![p] = @ \ {r}] BY <1>3 DEF NotDue
  <2>2. \A q \in Who : todo'[q] \subseteq todo[q] BY <1>0, <2>1
  <2>3. UNCHANGED <<recs, rlock, doing, looked, inside, mine, tried, lost>> BY <1>3 DEF NotDue
  <2>4. \A q \in inside, s \in Recs : s \in todo'[q] \/ s = doing'[q] => mine'[q][s].status = "armed"
    BY <2>2, <2>3 DEF RcBase
  <2> QED BY <2>2, <2>3, <2>4 DEF CountsOK
<1>4. ASSUME NEW p \in Tickers, Observe(p) PROVE RcTally'
  <2>1. PICK r \in todo[p] :
          /\ todo' = [todo EXCEPT ![p] = @ \ {r}] /\ looked' = looked \cup {p}
          /\ \/ /\ mine' = [mine EXCEPT ![p][r].failures = 0] /\ tried' = [tried EXCEPT ![r] = 0] /\ doing' = doing
             \/ UNCHANGED <<mine, tried, doing>>
             \/ doing' = [doing EXCEPT ![p] = r] /\ UNCHANGED <<mine, tried>>
    BY <1>4 DEF Observe
  <2>2. p \in Who /\ p \in inside /\ r \in Recs /\ doing[p] = "none"
    BY <1>0, <1>4 DEF Observe, Outside
  <2>3. UNCHANGED <<recs, rlock, inside, lost>> BY <1>4 DEF Observe
  <2>4. \A q \in Who : todo'[q] = (IF q = p THEN todo[p] \ {r} ELSE todo[q]) BY <1>0, <2>1, <2>2
  <2>5. \A q \in Who : doing'[q] = doing[q] \/ (q = p /\ doing'[q] = r) BY <1>0, <2>1, <2>2
  <2>6. \A q \in Who, s \in Recs : /\ mine'[q][s].status = mine[q][s].status
                                   /\ mine'[q][s].failures = mine[q][s].failures \/ mine'[q][s].failures = 0
    <3>1. CASE mine' = [mine EXCEPT ![p][r].failures = 0] BY <1>0, <2>2, <3>1, ResetFacts
    <3>2. CASE mine' = mine BY <3>2
    <3> QED BY <2>1, <3>1, <3>2
  <2>7. tried' \in [Recs -> Nat] BY <2>1
  <2>8. \A q \in inside : CountsOK(mine'[q])
    BY <2>6 DEF CountsOK, RcBase
  <2>9. \A q \in inside, s \in Recs : s \in todo'[q] \/ s = doing'[q] => mine'[q][s].status = "armed"
    BY <2>2, <2>4, <2>5, <2>6 DEF RcBase
  <2>10. \A q \in Who : doing'[q] # "none" => q \in looked' /\ doing'[q] \notin todo'[q]
    BY <1>0, <2>1, <2>2, <2>4, <2>5
  <2> QED BY <2>1, <2>2, <2>3, <2>7, <2>8, <2>9, <2>10 DEF CountsOK
<1>5. ASSUME NEW p \in Tickers, Repaired(p) PROVE RcTally'
  <2>1. /\ p \in Who /\ doing[p] \in Recs /\ doing' = [doing EXCEPT ![p] = "none"]
        /\ mine' = [mine EXCEPT ![p][doing[p]].failures = 0] /\ tried' = [tried EXCEPT ![doing[p]] = 0]
        /\ UNCHANGED <<recs, rlock, inside, looked, lost, todo>>
    BY <1>0, <1>5 DEF Repaired
  <2>2. \A q \in Who, s \in Recs : /\ mine'[q][s].status = mine[q][s].status
                                   /\ mine'[q][s].failures = mine[q][s].failures \/ mine'[q][s].failures = 0
    BY <1>0, <2>1, ResetFacts
  <2>3. \A q \in Who : doing'[q] = doing[q] \/ doing'[q] = "none" BY <1>0, <2>1
  <2>4. \A q \in inside : CountsOK(mine'[q]) BY <2>2 DEF CountsOK, RcBase
  <2>5. \A q \in inside, s \in Recs : s \in todo'[q] \/ s = doing'[q] => mine'[q][s].status = "armed"
    BY <1>0, <2>1, <2>2, <2>3 DEF RcBase
  <2>6. tried' \in [Recs -> Nat] BY <2>1
  <2>7. \A q \in Who : doing'[q] # "none" => q \in looked' /\ doing'[q] \notin todo'[q] BY <2>1, <2>3
  <2> QED BY <2>1, <2>4, <2>5, <2>6, <2>7 DEF CountsOK
<1>6. ASSUME NEW p \in Tickers, Failed(p) PROVE RcTally'
  <2>1. /\ p \in Who /\ doing' = [doing EXCEPT ![p] = "none"] /\ tried' = [tried EXCEPT ![doing[p]] = @ + 1]
        /\ UNCHANGED <<recs, rlock, inside, looked, lost, todo>>
    BY <1>6 DEF Failed
  <2>2. /\ doing[p] \in Recs /\ p \in inside
        /\ mine[p][doing[p]].status = "armed" /\ mine[p][doing[p]].failures < MaxTries
        /\ mine'[p][doing[p]].failures = mine[p][doing[p]].failures + 1
        /\ mine'[p][doing[p]].status = "armed" => mine'[p][doing[p]].failures < MaxTries
        /\ \A s \in Recs : s # doing[p] => mine'[p][s] = mine[p][s]
        /\ \A q \in Who : q # p => mine'[q] = mine[q]
    BY <1>6, <2>1, FailedFacts
  <2>3. \A q \in Who : doing'[q] = (IF q = p THEN "none" ELSE doing[q]) BY <1>0, <2>1
  <2>4. mine[p][doing[p]].failures \in Nat BY <1>0, <2>1, <2>2 DEF Files0
  <2>5. CountsOK(mine'[p]) BY <2>2, <2>4 DEF CountsOK
  <2>6. \A q \in inside : CountsOK(mine'[q]) BY <2>2, <2>5 DEF RcBase
  <2>7. \A q \in inside, s \in Recs : s \in todo'[q] \/ s = doing'[q] => mine'[q][s].status = "armed"
    <3> SUFFICES ASSUME NEW q \in inside, NEW s \in Recs, s \in todo[q] \/ s = doing'[q] PROVE mine'[q][s].status = "armed"
      BY <2>1
    <3>1. q \in Who BY DEF RcBase
    <3>2. CASE q # p BY <2>2, <2>3, <3>1, <3>2
    <3>3. CASE q = p
      <4>1. s # doing[p] BY <1>0, <2>1, <2>2, <2>3, <3>3
      <4> QED BY <1>0, <2>2, <2>3, <3>3, <4>1
    <3> QED BY <3>2, <3>3
  <2>8. tried' \in [Recs -> Nat] BY <2>1, <2>2
  <2>9. \A q \in Who : doing'[q] # "none" => q \in looked' /\ doing'[q] \notin todo'[q] BY <2>1, <2>3
  <2> QED BY <2>1, <2>6, <2>7, <2>8, <2>9 DEF CountsOK
<1>7. ASSUME NEW p \in Who, Saves(p) PROVE RcTally'
  <2>1. /\ p \in inside /\ doing[p] = "none" /\ inside' = inside \ {p} /\ looked' = looked \ {p}
        /\ rlock' = (IF rlock = p THEN NoTick ELSE rlock)
        /\ UNCHANGED <<todo, doing, mine, tried, lost>> /\ recs' = (IF p \in looked THEN mine[p] ELSE recs)
    BY <1>7 DEF Saves, Exits
  <2>2. IsFiniteSet(inside') BY <2>1, FS_RemoveElement
  <2>3. CountsOK(recs') BY <2>1 DEF RcBase
  <2>4. \A q \in Who : doing'[q] # "none" => q \in looked' /\ doing'[q] \notin todo'[q] BY <2>1
  <2>5. /\ \A q \in inside' : CountsOK(mine'[q])
        /\ \A q \in inside', s \in Recs : s \in todo'[q] \/ s = doing'[q] => mine'[q][s].status = "armed"
    BY <2>1
  <2> QED BY <2>1, <2>2, <2>3, <2>4, <2>5 DEF CountsOK
<1>8. ASSUME NEW p \in Who, Lost(p) PROVE RcTally'
  <2>1. /\ p \in inside /\ inside' = inside \ {p} /\ looked' = looked \ {p} /\ lost' = lost + 1
        /\ rlock' \in {rlock, NoTick, DeadTick} /\ rlock' # p
        /\ todo' = [todo EXCEPT ![p] = {}] /\ doing' = [doing EXCEPT ![p] = "none"]
        /\ tried' = (IF doing[p] = "none" THEN tried ELSE [tried EXCEPT ![doing[p]] = @ + 1])
        /\ UNCHANGED <<recs, mine>>
    BY <1>8 DEF Lost, Exits
  <2>2. IsFiniteSet(inside') BY <2>1, FS_RemoveElement
  <2>3. tried' \in [Recs -> Nat] BY <1>0, <2>1
  <2>4. \A q \in Who : q # p => todo'[q] = todo[q] /\ doing'[q] = doing[q] BY <1>0, <2>1
  <2>5. doing'[p] = "none" BY <1>0, <2>1
  <2>6. \A q \in Who : doing'[q] # "none" => q \in looked' /\ doing'[q] \notin todo'[q] BY <2>1, <2>4, <2>5
  <2>7. /\ \A q \in inside' : CountsOK(mine'[q])
        /\ \A q \in inside', s \in Recs : s \in todo'[q] \/ s = doing'[q] => mine'[q][s].status = "armed"
    BY <2>1, <2>4 DEF RcBase
  <2>8. rlock' \in Who => rlock' \in inside' BY <2>1
  <2> QED BY <2>1, <2>2, <2>3, <2>6, <2>7, <2>8 DEF CountsOK
<1>9. CASE Older \/ Drift BY <1>9 DEF Older, Drift, CountsOK
<1>10. CASE BreakLock BY <1>10 DEF BreakLock, CountsOK
<1>11. CASE UNCHANGED rcVars BY <1>11 DEF rcVars, CountsOK
<1> QED BY <1>1, <1>2, <1>3, <1>4, <1>5, <1>6, <1>7, <1>8, <1>9, <1>10, <1>11 DEF RcNext, TickStep

\* The sums of the bounds.
LEMMA Minus ==
  \A o, b \in Nat :
    b <= o => /\ o - b \in Nat /\ o - b <= o - b
              /\ b <= o + 1 /\ b + 1 <= o + 1 /\ o - b <= (o + 1) - b /\ o - b <= (o + 1) - (b + 1)
OBVIOUS

LEMMA Less ==
  \A o, b, a \in Nat : b <= o => (a <= b => a <= o /\ o - b <= o - a) /\ (a + 1 = b => a <= o)
OBVIOUS

LEMMA MoreSlack == \A t, f, l, s, z, c \in Nat : t <= f + l + s + c /\ s <= z => t <= f + l + z + c
OBVIOUS

LEMMA Paid ==
  \A t, f, l, s, c, d, m \in Nat :
    t <= f + l + s + c /\ c <= d + 1 /\ m >= 1
      => t <= f + l + (s + m) + d /\ t + 1 <= f + (l + 1) + (s + m) + d
OBVIOUS

LEMMA SlackIsNext ==
  ASSUME RcBase', RcTally', Behind' <= older'
  PROVE  /\ Behind' \in Nat /\ Slack' \in Nat
         /\ \A r \in Recs : CountedBy(r)' \subseteq inside' /\ IsFiniteSet(CountedBy(r)')
<1>1. IsFiniteSet(Overtaken') BY FS_Subset DEF RcTally, Overtaken
<1>2. Behind' \in Nat BY <1>1, FS_CardinalityType DEF Behind, Aged
<1>6. older' \in Nat BY DEF RcBase
<1>3. older' - Behind' \in Nat BY <1>2, <1>6, Minus
<1>4. Slack' \in Nat BY <1>3, TimesGrows, ReconcilerAssumption DEF Slack
<1>5. \A r \in Recs : CountedBy(r)' \subseteq inside' BY DEF CountedBy, RcTally
<1> QED BY <1>2, <1>4, <1>5, FS_Subset DEF RcTally

\* The numbers the bounds are made of.
LEMMA AreNumbers ==
  ASSUME RcBase, RcTally, RcBase', RcTally'
  PROVE  /\ \A r \in Recs : /\ tried[r] \in Nat /\ tried'[r] \in Nat
                            /\ recs[r].failures \in Nat /\ recs'[r].failures \in Nat
         /\ \A p \in Who, r \in Recs : mine[p][r].failures \in Nat /\ mine'[p][r].failures \in Nat
         /\ lost \in Nat /\ lost' \in Nat /\ MaxTries \in Nat /\ MaxTries >= 1
<1>1. recs \in Files0 /\ recs' \in Files0 BY DEF RcBase
<1>2. \A p \in Who : mine[p] \in Files0 /\ mine'[p] \in Files0 BY DEF RcBase
<1> QED BY <1>1, <1>2, ReconcilerAssumption DEF RcTally, Files0

\* More who counted, or one who did not.
LEMMA Sizes ==
  ASSUME NEW C, NEW D, IsFiniteSet(D), C \subseteq D
  PROVE  /\ Cardinality(C) \in Nat /\ Cardinality(D) \in Nat /\ Cardinality(C) <= Cardinality(D)
         /\ \A x : x \in D \ C => Cardinality(C) + 1 <= Cardinality(D)
<1>1. IsFiniteSet(C) /\ Cardinality(C) <= Cardinality(D) BY FS_Subset
<1>2. Cardinality(C) \in Nat /\ Cardinality(D) \in Nat BY <1>1, FS_CardinalityType
<1>3. ASSUME NEW x, x \in D \ C PROVE Cardinality(C) + 1 <= Cardinality(D)
  <2>1. Cardinality(C \cup {x}) = Cardinality(C) + 1 BY <1>1, <1>3, FS_AddElement
  <2>2. Cardinality(C \cup {x}) <= Cardinality(D) BY <1>3, FS_Subset
  <2> QED BY <2>1, <2>2
<1> QED BY <1>1, <1>2, <1>3

LEMMA Without ==
  ASSUME NEW C, NEW x, IsFiniteSet(C)
  PROVE  /\ IsFiniteSet(C \ {x}) /\ Cardinality(C) \in Nat /\ Cardinality(C \ {x}) \in Nat
         /\ x \in C => Cardinality(C) = Cardinality(C \ {x}) + 1
         /\ x \notin C => C \ {x} = C
<1>1. IsFiniteSet(C \ {x}) BY FS_Subset
<1>2. Cardinality(C) \in Nat /\ Cardinality(C \ {x}) \in Nat BY <1>1, FS_CardinalityType
<1>3. x \in C => Cardinality(C \ {x}) = Cardinality(C) - 1 BY FS_RemoveElement
<1> QED BY <1>1, <1>2, <1>3

\* The clock and a broken lock: nobody counts, nothing is saved.
LEMMA QuietBounds ==
  ASSUME RcBase, RcTally, Bounds, RcBase', RcTally', Behind' <= older', Behind' \in Nat,
         older - Behind <= older' - Behind',
         UNCHANGED <<recs, tried, lost, mine, looked, todo, doing>>, rlock' \in Who => rlock' = rlock
  PROVE  Bounds'
<1>1. /\ Behind \in Nat /\ Behind <= older /\ Slack \in Nat /\ \A r \in Recs : IsFiniteSet(CountedBy(r))
  BY SlackIs DEF Bounds
<1>2. Slack <= Slack' /\ Slack' \in Nat BY <1>1, SlackKept, SlackIsNext DEF RcBase
<1>3. \A r \in Recs : CountedBy(r)' = CountedBy(r) BY DEF CountedBy
<1>4. \A r \in Recs : Cardinality(CountedBy(r)) \in Nat /\ Cardinality(CountedBy(r) \ {rlock}) \in Nat
  BY <1>1, Without
<1>5. FileBound'
  <2> SUFFICES ASSUME NEW r \in Recs
               PROVE tried'[r] <= recs'[r].failures + lost' + Slack' + Cardinality(CountedBy(r)')
    BY DEF FileBound
  <2>1. tried[r] <= recs[r].failures + lost + Slack + Cardinality(CountedBy(r)) BY DEF Bounds, FileBound
  <2>2. Cardinality(CountedBy(r)') = Cardinality(CountedBy(r)) BY <1>3
  <2>3. tried[r] \in Nat /\ recs[r].failures \in Nat /\ lost \in Nat BY AreNumbers
  <2>4. tried'[r] = tried[r] /\ recs'[r].failures = recs[r].failures /\ lost' = lost OBVIOUS
  <2>5. tried[r] <= recs[r].failures + lost + Slack' + Cardinality(CountedBy(r))
    BY <1>1, <1>2, <1>4, <2>1, <2>3, MoreSlack
  <2> QED BY <2>2, <2>4, <2>5
<1>6. CopyBound'
  <2> SUFFICES ASSUME rlock' \in Who, NEW r \in Recs
               PROVE tried'[r] <= mine'[rlock'][r].failures + lost' + Slack' + Cardinality(CountedBy(r)' \ {rlock'})
    BY DEF CopyBound
  <2>1. tried[r] <= mine[rlock][r].failures + lost + Slack + Cardinality(CountedBy(r) \ {rlock})
    BY DEF Bounds, CopyBound
  <2>2. Cardinality(CountedBy(r)' \ {rlock'}) = Cardinality(CountedBy(r) \ {rlock}) BY <1>3
  <2>3. tried[r] \in Nat /\ mine[rlock][r].failures \in Nat /\ lost \in Nat BY AreNumbers
  <2>4. tried'[r] = tried[r] /\ mine'[rlock'][r].failures = mine[rlock][r].failures /\ lost' = lost OBVIOUS
  <2>5. tried[r] <= mine[rlock][r].failures + lost + Slack' + Cardinality(CountedBy(r) \ {rlock})
    BY <1>1, <1>2, <1>4, <2>1, <2>3, MoreSlack
  <2> QED BY <2>2, <2>4, <2>5
<1> QED BY <1>5, <1>6 DEF Bounds

LEMMA OlderBounds == ASSUME RcBase, RcTally, Bounds, RcBase', RcTally', Older \/ BreakLock PROVE Bounds'
<1> USE ReconcilerAssumption
<1>1. /\ Cardinality(Overtaken) \in Nat /\ Behind \in Nat /\ Behind <= older /\ older \in Nat /\ older' \in Nat
  BY SlackIs DEF Bounds, RcBase
<1>2. CASE Older
  <2>1. rlock' = rlock /\ inside' = inside /\ age' = age + 1 /\ age \in 0..2 BY <1>2 DEF Older, RcBase
  <2>2. Overtaken' = Overtaken BY <2>1 DEF Overtaken
  <2>3. CASE rlock \in Who
    <3>1. older' = older + 1 BY <1>2, <2>3 DEF Older, Who
    <3>2. Aged' = 1 /\ Aged \in {0, 1} BY <2>1, <2>3 DEF Aged
    <3>3. Behind' \in {Behind, Behind + 1} BY <1>1, <2>2, <3>2 DEF Behind
    <3>4. Behind' \in Nat /\ Behind' <= older' /\ older - Behind <= older' - Behind'
      <4>1. CASE Behind' = Behind BY <1>1, <3>1, <4>1, Minus
      <4>2. CASE Behind' = Behind + 1 BY <1>1, <3>1, <4>2, Minus
      <4> QED BY <3>3, <4>1, <4>2
    <3>5. UNCHANGED <<recs, tried, lost, mine, looked, todo, doing>> BY <1>2 DEF Older
    <3> QED BY <2>1, <3>4, <3>5, QuietBounds
  <2>4. CASE rlock \notin Who
    <3>1. older' = older BY <1>2, <2>4 DEF Older, RcBase
    <3>2. Aged' = 0 /\ Aged = 0 BY <2>1, <2>4 DEF Aged
    <3>3. Behind' = Behind BY <2>2, <3>2 DEF Behind
    <3>4. Behind' \in Nat /\ Behind' <= older' /\ older - Behind <= older' - Behind' BY <1>1, <3>1, <3>3, Minus
    <3>5. UNCHANGED <<recs, tried, lost, mine, looked, todo, doing>> BY <1>2 DEF Older
    <3> QED BY <2>1, <3>4, <3>5, QuietBounds
  <2> QED BY <2>3, <2>4
<1>3. CASE BreakLock
  <2>1. /\ rlock' = NoTick /\ age' = 0 /\ inside' = inside /\ older' = older /\ NoTick \notin Who
        /\ inside \subseteq Who /\ age > 0
    BY <1>3 DEF BreakLock, RcBase, Who
  <2>2. Overtaken' = inside /\ Aged' = 0 BY <2>1 DEF Overtaken, Aged
  <2>3. Behind' = Cardinality(inside) /\ Cardinality(inside) \in Nat
    BY <2>2, FS_CardinalityType DEF Behind, RcTally
  <2>4. Behind' = Behind
    <3>1. CASE rlock \in Who
      <4>1. rlock \in inside /\ Aged = 1 BY <2>1, <3>1 DEF Aged, RcTally
      <4>2. Cardinality(inside) = Cardinality(inside \ {rlock}) + 1 BY <4>1, Without DEF RcTally
      <4> QED BY <2>3, <4>1, <4>2 DEF Behind, Overtaken
    <3>2. CASE rlock \notin Who
      <4>1. Overtaken = inside /\ Aged = 0 BY <2>1, <3>2 DEF Overtaken, Aged
      <4> QED BY <2>3, <4>1 DEF Behind
    <3> QED BY <3>1, <3>2
  <2>5. rlock' \notin Who /\ UNCHANGED <<recs, tried, lost, mine, looked, todo, doing>>
    BY <1>3, <2>1 DEF BreakLock
  <2> QED BY <1>1, <2>1, <2>4, <2>5, QuietBounds
<1> QED BY <1>2, <1>3

\* An order or a tick begins: its copy is the file.
LEMMA EntersBounds ==
  ASSUME RcBase, RcTally, Bounds, RcBase', RcTally', NEW p \in Who, Enters(p),
         UNCHANGED <<recs, older, lost>>,
         \A q \in Who : q # p => mine'[q] = mine[q] /\ todo'[q] = todo[q] /\ doing'[q] = doing[q],
         \A r \in Recs : tried'[r] = 0 \/ (mine'[p][r].failures = recs[r].failures /\ tried'[r] = tried[r])
  PROVE  Bounds'
<1> USE ReconcilerAssumption
<1>1. /\ Behind \in Nat /\ Behind <= older /\ Slack \in Nat
      /\ \A r \in Recs : CountedBy(r) \subseteq inside /\ IsFiniteSet(CountedBy(r))
  BY SlackIs DEF Bounds
<1>2. /\ rlock = NoTick /\ rlock' = p /\ inside' = inside \cup {p} /\ p \notin inside /\ age' = 0
      /\ looked \subseteq looked' /\ inside \subseteq Who /\ NoTick \notin Who /\ looked \subseteq inside
  BY DEF Enters, RcBase, RcTally, Who
<1>3. Overtaken = inside /\ Overtaken' = inside /\ Aged = 0 /\ Aged' = 0 BY <1>2 DEF Overtaken, Aged
<1>4. Behind' = Behind /\ Slack' = Slack BY <1>3 DEF Behind, Slack
<1>5. \A r \in Recs : IsFiniteSet(CountedBy(r)') BY <1>1, <1>4, SlackIsNext
<1>6. \A r \in Recs : CountedBy(r) \subseteq CountedBy(r)' \ {p}
  <2> SUFFICES ASSUME NEW r \in Recs, NEW q \in CountedBy(r) PROVE q \in CountedBy(r)' \ {p} OBVIOUS
  <2>1. q \in looked /\ q # p /\ q \in Who BY <1>2 DEF CountedBy
  <2> QED BY <1>2, <2>1 DEF CountedBy
<1>7. ASSUME NEW r \in Recs
      PROVE  /\ tried'[r] <= recs'[r].failures + lost' + Slack' + Cardinality(CountedBy(r)')
             /\ tried'[r] <= mine'[p][r].failures + lost' + Slack' + Cardinality(CountedBy(r)' \ {p})
  <2>1. tried[r] <= recs[r].failures + lost + Slack + Cardinality(CountedBy(r)) BY DEF Bounds, FileBound
  <2>2. IsFiniteSet(CountedBy(r)' \ {p}) BY <1>5, FS_Subset
  <2>3. /\ Cardinality(CountedBy(r)) \in Nat /\ Cardinality(CountedBy(r)' \ {p}) \in Nat
        /\ Cardinality(CountedBy(r)) <= Cardinality(CountedBy(r)' \ {p})
    BY <1>6, <2>2, Sizes
  <2>4. Cardinality(CountedBy(r)') \in Nat /\ Cardinality(CountedBy(r)' \ {p}) <= Cardinality(CountedBy(r)')
    BY <1>5, Sizes
  <2>5. /\ tried[r] \in Nat /\ tried'[r] \in Nat /\ recs[r].failures \in Nat /\ lost \in Nat
        /\ mine'[p][r].failures \in Nat
    BY AreNumbers
  <2> QED BY <1>1, <1>4, <2>1, <2>3, <2>4, <2>5
<1> QED BY <1>1, <1>2, <1>4, <1>7 DEF Bounds, FileBound, CopyBound

\* Inside the section: a tick forgets, passes over, or counts.
LEMMA StaysBounds ==
  ASSUME RcBase, RcTally, Bounds, RcBase', RcTally', NEW p \in Who,
         UNCHANGED <<recs, rlock, age, inside, older, lost>>,
         \A r \in Recs :
           \/ tried'[r] = 0
           \/ /\ tried'[r] = tried[r] /\ CountedBy(r) \subseteq CountedBy(r)'
              /\ \A q \in Who : mine'[q][r].failures = mine[q][r].failures
           \/ /\ tried'[r] = tried[r] + 1 /\ CountedBy(r) \subseteq CountedBy(r)'
              /\ p \in CountedBy(r)' \ CountedBy(r)
              /\ \A q \in Who : mine'[q][r].failures = mine[q][r].failures + (IF q = p THEN 1 ELSE 0)
  PROVE  Bounds'
<1>1. /\ Behind \in Nat /\ Behind <= older /\ Slack \in Nat
      /\ \A r \in Recs : CountedBy(r) \subseteq inside /\ IsFiniteSet(CountedBy(r))
  BY SlackIs DEF Bounds
<1>2. Behind' = Behind /\ Slack' = Slack BY DEF Behind, Slack, Overtaken, Aged
<1>3. \A r \in Recs : IsFiniteSet(CountedBy(r)') BY <1>1, <1>2, SlackIsNext
<1>4. FileBound'
  <2> SUFFICES ASSUME NEW r \in Recs
               PROVE tried'[r] <= recs[r].failures + lost + Slack + Cardinality(CountedBy(r)')
    BY <1>2 DEF FileBound
  <2>1. tried[r] <= recs[r].failures + lost + Slack + Cardinality(CountedBy(r)) BY DEF Bounds, FileBound
  <2>2. tried[r] \in Nat /\ tried'[r] \in Nat /\ recs[r].failures \in Nat /\ lost \in Nat BY AreNumbers
  <2>3. Cardinality(CountedBy(r)') \in Nat BY <1>3, FS_CardinalityType
  <2>4. CASE tried'[r] = 0 BY <1>1, <2>2, <2>3, <2>4
  <2>5. CASE tried'[r] # 0
    <3>1. CountedBy(r) \subseteq CountedBy(r)' BY <2>5
    <3>2. /\ Cardinality(CountedBy(r)) \in Nat /\ Cardinality(CountedBy(r)) <= Cardinality(CountedBy(r)')
          /\ p \in CountedBy(r)' \ CountedBy(r) => Cardinality(CountedBy(r)) + 1 <= Cardinality(CountedBy(r)')
      BY <1>3, <3>1, Sizes
    <3>3. \/ tried'[r] = tried[r]
          \/ tried'[r] = tried[r] + 1 /\ p \in CountedBy(r)' \ CountedBy(r)
      BY <2>5
    <3> QED BY <1>1, <2>1, <2>2, <2>3, <3>2, <3>3
  <2> QED BY <2>4, <2>5
<1>5. CopyBound'
  <2> SUFFICES ASSUME rlock \in Who, NEW r \in Recs
               PROVE tried'[r] <= mine'[rlock][r].failures + lost + Slack + Cardinality(CountedBy(r)' \ {rlock})
    BY <1>2 DEF CopyBound
  <2>1. tried[r] <= mine[rlock][r].failures + lost + Slack + Cardinality(CountedBy(r) \ {rlock})
    BY DEF Bounds, CopyBound
  <2>2. /\ tried[r] \in Nat /\ tried'[r] \in Nat /\ lost \in Nat
        /\ mine[rlock][r].failures \in Nat /\ mine'[rlock][r].failures \in Nat
    BY AreNumbers
  <2>3. IsFiniteSet(CountedBy(r)' \ {rlock}) /\ Cardinality(CountedBy(r)' \ {rlock}) \in Nat BY <1>3, Without
  <2>4. CASE tried'[r] = 0 BY <1>1, <2>2, <2>3, <2>4
  <2>5. CASE tried'[r] # 0
    <3>1. CountedBy(r) \ {rlock} \subseteq CountedBy(r)' \ {rlock} BY <2>5
    <3>2. /\ Cardinality(CountedBy(r) \ {rlock}) \in Nat
          /\ Cardinality(CountedBy(r) \ {rlock}) <= Cardinality(CountedBy(r)' \ {rlock})
          /\ p \in CountedBy(r)' \ CountedBy(r) /\ p # rlock
               => Cardinality(CountedBy(r) \ {rlock}) + 1 <= Cardinality(CountedBy(r)' \ {rlock})
      BY <2>3, <3>1, Sizes
    <3>3. \/ tried'[r] = tried[r] /\ mine'[rlock][r].failures = mine[rlock][r].failures
          \/ /\ tried'[r] = tried[r] + 1 /\ p \in CountedBy(r)' \ CountedBy(r)
             /\ mine'[rlock][r].failures = mine[rlock][r].failures + (IF rlock = p THEN 1 ELSE 0)
      BY <2>5
    <3>4. CASE p = rlock BY <1>1, <2>1, <2>2, <2>3, <3>2, <3>3, <3>4
    <3>5. CASE p # rlock BY <1>1, <2>1, <2>2, <2>3, <3>2, <3>3, <3>5
    <3> QED BY <3>4, <3>5
  <2> QED BY <2>4, <2>5
<1> QED BY <1>1, <1>2, <1>4, <1>5 DEF Bounds

\* Who leaves gives up its place among the overtaken, or the lock.
LEMMA ExitFrame ==
  ASSUME RcBase, RcTally, Behind <= older, older' = older, NEW p \in inside, inside' = inside \ {p},
         rlock = p => rlock' \notin Who, rlock # p => rlock' = rlock /\ age' = age
  PROVE  /\ Behind' \in Nat /\ Behind' <= older' /\ Slack' \in Nat
         /\ rlock = p => Slack <= Slack'
         /\ rlock # p => Slack' = Slack + MaxTries
<1>1. /\ Cardinality(Overtaken) \in Nat /\ Behind \in Nat /\ older \in Nat /\ older' \in Nat /\ MaxTries \in Nat
      /\ inside \subseteq Who /\ Slack \in Nat
  BY SlackIs, ReconcilerAssumption DEF RcBase
<1>2. IsFiniteSet(Overtaken) BY FS_Subset DEF Overtaken, RcTally
<1>3. CASE rlock = p
  <2>1. Overtaken' = Overtaken BY <1>1, <1>3 DEF Overtaken
  <2>2. Aged' = 0 /\ Aged \in {0, 1} BY <1>3 DEF Aged
  <2>3. Behind' \in Nat /\ Behind' <= Behind BY <1>1, <2>1, <2>2 DEF Behind
  <2>8. Behind' <= older /\ older - Behind <= older - Behind' BY <1>1, <2>3, Less
  <2>7. Behind' <= older' /\ older - Behind <= older' - Behind' BY <2>8
  <2>4. Slack <= Slack' BY <1>1, <2>3, <2>7, SlackKept
  <2>5. older' - Behind' \in Nat BY <1>1, <2>3, <2>7, Minus
  <2>6. Slack' \in Nat BY <1>1, <2>5, TimesGrows DEF Slack
  <2> QED BY <1>3, <2>3, <2>4, <2>6, <2>7
<1>4. CASE rlock # p
  <2>1. Overtaken' = Overtaken \ {p} /\ p \in Overtaken BY <1>4 DEF Overtaken
  <2>2. Aged' = Aged /\ Aged \in {0, 1} BY <1>4 DEF Aged
  <2>3. Cardinality(Overtaken) = Cardinality(Overtaken') + 1 /\ Cardinality(Overtaken') \in Nat
    BY <1>2, <2>1, Without
  <2>4. Behind' \in Nat /\ Behind' + 1 = Behind BY <2>2, <2>3 DEF Behind
  <2>5. Slack' = Slack + MaxTries BY <1>1, <2>4, SlackGains
  <2>8. Behind' <= older BY <1>1, <2>4, Less
  <2>6. Behind' <= older' BY <2>8
  <2>7. Slack' \in Nat BY <1>1, <2>5
  <2> QED BY <1>4, <2>4, <2>5, <2>6, <2>7
<1> QED BY <1>3, <1>4

LEMMA Fewer ==
  ASSUME NEW C, NEW x, IsFiniteSet(C)
  PROVE  /\ Cardinality(C) \in Nat /\ Cardinality(C \ {x}) \in Nat
         /\ x \in C => Cardinality(C) = Cardinality(C \ {x}) + 1
         /\ x \notin C => Cardinality(C \ {x}) = Cardinality(C)
         /\ Cardinality(C) <= Cardinality(C \ {x}) + 1
<1>0. /\ Cardinality(C) \in Nat /\ Cardinality(C \ {x}) \in Nat
      /\ x \in C => Cardinality(C) = Cardinality(C \ {x}) + 1
  BY Without
<1>1. CASE x \in C BY <1>0, <1>1
<1>2. CASE x \notin C
  <2>1. C \ {x} = C BY <1>2
  <2>2. Cardinality(C \ {x}) = Cardinality(C) BY <2>1
  <2> QED BY <1>0, <1>2, <2>2
<1> QED BY <1>1, <1>2

LEMMA SavesBounds ==
  ASSUME RcBase, RcTally, Bounds, RcBase', RcTally', NEW p \in Who, Saves(p)
  PROVE  Bounds'
<1> USE ReconcilerAssumption
<1>1. /\ Behind \in Nat /\ Behind <= older /\ Slack \in Nat
      /\ \A r \in Recs : CountedBy(r) \subseteq inside /\ IsFiniteSet(CountedBy(r))
  BY SlackIs DEF Bounds
<1>2. /\ p \in inside /\ inside' = inside \ {p} /\ looked' = looked \ {p} /\ older' = older
      /\ todo[p] = {} /\ doing[p] = "none"
      /\ rlock = p => rlock' = NoTick
      /\ rlock # p => rlock' = rlock /\ age' = age
      /\ recs' = (IF p \in looked THEN mine[p] ELSE recs) /\ UNCHANGED <<todo, doing, mine, tried, lost>>
  BY DEF Saves, Exits
<1>3. /\ Behind' <= older' /\ Slack' \in Nat /\ (rlock = p => Slack <= Slack')
      /\ (rlock # p => Slack' = Slack + MaxTries) /\ NoTick \notin Who
  BY <1>1, <1>2, ExitFrame DEF Who
<1>4. \A r \in Recs : CountedBy(r)' = CountedBy(r) \ {p} BY <1>2 DEF CountedBy
<1>5. FileBound'
  <2> SUFFICES ASSUME NEW r \in Recs
               PROVE tried[r] <= recs'[r].failures + lost + Slack' + Cardinality(CountedBy(r) \ {p})
    BY <1>2, <1>4 DEF FileBound
  <2>1. tried[r] <= recs[r].failures + lost + Slack + Cardinality(CountedBy(r)) BY DEF Bounds, FileBound
  <2>2. /\ tried[r] \in Nat /\ recs[r].failures \in Nat /\ lost \in Nat /\ mine[p][r].failures \in Nat
        /\ MaxTries \in Nat /\ MaxTries >= 1
    BY AreNumbers
  <2>3. /\ Cardinality(CountedBy(r)) \in Nat /\ Cardinality(CountedBy(r) \ {p}) \in Nat
        /\ p \in CountedBy(r) => Cardinality(CountedBy(r)) = Cardinality(CountedBy(r) \ {p}) + 1
        /\ p \notin CountedBy(r) => Cardinality(CountedBy(r) \ {p}) = Cardinality(CountedBy(r))
    BY <1>1, Fewer
  <2>4. CASE p \notin looked
    <3>1. p \notin CountedBy(r) /\ recs'[r].failures = recs[r].failures BY <1>2, <2>4 DEF CountedBy
    <3>2. Slack <= Slack' BY <1>1, <1>3, <2>2
    <3> QED BY <1>1, <1>3, <2>1, <2>2, <2>3, <3>1, <3>2
  <2>5. CASE p \in looked /\ rlock = p
    <3>1. recs'[r].failures = mine[p][r].failures BY <1>2, <2>5
    <3>2. tried[r] <= mine[p][r].failures + lost + Slack + Cardinality(CountedBy(r) \ {p})
      BY <2>5 DEF Bounds, CopyBound
    <3> QED BY <1>1, <1>3, <2>2, <2>3, <2>5, <3>1, <3>2
  <2>6. CASE p \in looked /\ rlock # p
    <3>1. recs'[r].failures = mine[p][r].failures BY <1>2, <2>6
    <3>2. recs[r].failures <= MaxTries BY DEF RcTally, CountsOK
    <3>3. p \in CountedBy(r) => mine[p][r].failures >= 1 BY <2>2 DEF CountedBy
    <3>4. CASE p \in CountedBy(r) BY <1>1, <1>3, <2>1, <2>2, <2>3, <2>6, <3>1, <3>2, <3>3, <3>4
    <3>5. CASE p \notin CountedBy(r) 
      <4>1. Cardinality(CountedBy(r) \ {p}) = Cardinality(CountedBy(r)) BY <2>3, <3>5
      <4> QED BY <1>1, <1>3, <2>1, <2>2, <2>3, <2>6, <3>1, <3>2, <4>1
    <3> QED BY <3>4, <3>5
  <2> QED BY <2>4, <2>5, <2>6
<1>6. CopyBound'
  <2> SUFFICES ASSUME rlock' \in Who, NEW r \in Recs
               PROVE tried[r] <= mine[rlock][r].failures + lost + Slack' + Cardinality((CountedBy(r) \ {p}) \ {rlock})
    BY <1>2, <1>3, <1>4 DEF CopyBound
  <2>1. rlock' = rlock /\ rlock # p /\ Slack' = Slack + MaxTries BY <1>2, <1>3
  <2>2. tried[r] <= mine[rlock][r].failures + lost + Slack + Cardinality(CountedBy(r) \ {rlock})
    BY <2>1 DEF Bounds, CopyBound
  <2>3. /\ tried[r] \in Nat /\ lost \in Nat /\ mine[rlock][r].failures \in Nat
        /\ MaxTries \in Nat /\ MaxTries >= 1
    BY <2>1, AreNumbers
  <2>4. (CountedBy(r) \ {p}) \ {rlock} = (CountedBy(r) \ {rlock}) \ {p} OBVIOUS
  <2>5. IsFiniteSet(CountedBy(r) \ {rlock}) BY <1>1, Without
  <2>6. /\ Cardinality(CountedBy(r) \ {rlock}) \in Nat /\ Cardinality((CountedBy(r) \ {rlock}) \ {p}) \in Nat
        /\ Cardinality(CountedBy(r) \ {rlock}) <= Cardinality((CountedBy(r) \ {rlock}) \ {p}) + 1
    BY <2>5, Fewer
  <2>7. tried[r] <= mine[rlock][r].failures + lost + (Slack + MaxTries) + Cardinality((CountedBy(r) \ {rlock}) \ {p})
    BY <1>1, <2>2, <2>3, <2>6, Paid
  <2> QED BY <2>1, <2>4, <2>7
<1> QED BY <1>3, <1>5, <1>6 DEF Bounds

LEMMA LostBounds ==
  ASSUME RcBase, RcTally, Bounds, RcBase', RcTally', NEW p \in Who, Lost(p)
  PROVE  Bounds'
<1> USE ReconcilerAssumption
<1>1. /\ Behind \in Nat /\ Behind <= older /\ Slack \in Nat
      /\ \A r \in Recs : CountedBy(r) \subseteq inside /\ IsFiniteSet(CountedBy(r))
  BY SlackIs DEF Bounds
<1>2. /\ p \in inside /\ inside' = inside \ {p} /\ looked' = looked \ {p} /\ older' = older
      /\ rlock = p => rlock' \in {NoTick, DeadTick}
      /\ rlock # p => rlock' = rlock /\ age' = age
      /\ UNCHANGED <<recs, mine>> /\ lost' = lost + 1
      /\ tried' = (IF doing[p] = "none" THEN tried ELSE [tried EXCEPT ![doing[p]] = @ + 1])
      /\ todo' = [todo EXCEPT ![p] = {}] /\ doing' = [doing EXCEPT ![p] = "none"]
  BY DEF Lost, Exits
<1>3. /\ Behind' <= older' /\ Slack' \in Nat /\ (rlock = p => Slack <= Slack')
      /\ (rlock # p => Slack' = Slack + MaxTries) /\ NoTick \notin Who /\ DeadTick \notin Who
  BY <1>1, <1>2, ExitFrame DEF Who
<1>4. \A r \in Recs : CountedBy(r)' = CountedBy(r) \ {p}
  <2>1. /\ todo \in [Who -> SUBSET Recs] /\ doing \in [Who -> Recs \cup {"none"}] /\ looked \subseteq Who
    BY DEF RcBase, RcTally
  <2>2. \A q \in Who : q # p => todo'[q] = todo[q] /\ doing'[q] = doing[q] BY <1>2, <2>1
  <2>3. \A r \in Recs, q \in looked : q # p => (q \in CountedBy(r)' <=> q \in CountedBy(r))
    BY <1>2, <2>1, <2>2 DEF CountedBy
  <2>4. \A r \in Recs : CountedBy(r) \subseteq looked /\ CountedBy(r)' \subseteq looked \ {p}
    BY <1>2 DEF CountedBy
  <2> QED BY <2>3, <2>4
<1>5. \A r \in Recs : tried'[r] = tried[r] \/ (tried'[r] = tried[r] + 1 /\ p \notin CountedBy(r))
  <2> SUFFICES ASSUME NEW r \in Recs
               PROVE  tried'[r] = tried[r] \/ (tried'[r] = tried[r] + 1 /\ p \notin CountedBy(r))
    OBVIOUS
  <2>1. tried \in [Recs -> Nat] BY DEF RcTally
  <2>2. CASE doing[p] = r
    <3>1. p \notin CountedBy(r) /\ doing[p] # "none" BY <2>2 DEF CountedBy
    <3> QED BY <1>2, <2>1, <2>2, <3>1
  <2>3. CASE doing[p] # r BY <1>2, <2>1, <2>3
  <2> QED BY <2>2, <2>3
<1>6. FileBound'
  <2> SUFFICES ASSUME NEW r \in Recs
               PROVE tried'[r] <= recs[r].failures + lost' + Slack' + Cardinality(CountedBy(r) \ {p})
    BY <1>2, <1>4 DEF FileBound
  <2>1. tried[r] <= recs[r].failures + lost + Slack + Cardinality(CountedBy(r)) BY DEF Bounds, FileBound
  <2>2. /\ tried[r] \in Nat /\ recs[r].failures \in Nat /\ lost \in Nat /\ MaxTries \in Nat
    BY AreNumbers
  <2>3. /\ Cardinality(CountedBy(r)) \in Nat /\ Cardinality(CountedBy(r) \ {p}) \in Nat
        /\ p \in CountedBy(r) => Cardinality(CountedBy(r)) = Cardinality(CountedBy(r) \ {p}) + 1
        /\ p \notin CountedBy(r) => Cardinality(CountedBy(r) \ {p}) = Cardinality(CountedBy(r))
    BY <1>1, Fewer
  <2>4. Slack <= Slack' BY <1>1, <1>3, <2>2
  <2>5. tried'[r] = tried[r] \/ (tried'[r] = tried[r] + 1 /\ p \notin CountedBy(r)) BY <1>5
  <2>6. lost' = lost + 1 BY <1>2
  <2> QED BY <1>1, <1>3, <2>1, <2>2, <2>3, <2>4, <2>5, <2>6
<1>7. CopyBound'
  <2> SUFFICES ASSUME rlock' \in Who, NEW r \in Recs
               PROVE tried'[r] <= mine[rlock][r].failures + lost' + Slack' + Cardinality((CountedBy(r) \ {p}) \ {rlock})
    BY <1>2, <1>3, <1>4 DEF CopyBound
  <2>1. rlock' = rlock /\ rlock # p /\ Slack' = Slack + MaxTries BY <1>2, <1>3
  <2>2. tried[r] <= mine[rlock][r].failures + lost + Slack + Cardinality(CountedBy(r) \ {rlock})
    BY <2>1 DEF Bounds, CopyBound
  <2>3. /\ tried[r] \in Nat /\ lost \in Nat /\ mine[rlock][r].failures \in Nat
        /\ MaxTries \in Nat /\ MaxTries >= 1
    BY <2>1, AreNumbers
  <2>4. (CountedBy(r) \ {p}) \ {rlock} = (CountedBy(r) \ {rlock}) \ {p} OBVIOUS
  <2>5. IsFiniteSet(CountedBy(r) \ {rlock}) BY <1>1, Without
  <2>6. /\ Cardinality(CountedBy(r) \ {rlock}) \in Nat /\ Cardinality((CountedBy(r) \ {rlock}) \ {p}) \in Nat
        /\ Cardinality(CountedBy(r) \ {rlock}) <= Cardinality((CountedBy(r) \ {rlock}) \ {p}) + 1
    BY <2>5, Fewer
  <2>7. tried'[r] = tried[r] \/ tried'[r] = tried[r] + 1 BY <1>5
  <2>8. lost' = lost + 1 BY <1>2
  <2>9. /\ tried[r] <= mine[rlock][r].failures + lost + (Slack + MaxTries) + Cardinality((CountedBy(r) \ {rlock}) \ {p})
        /\ tried[r] + 1 <= mine[rlock][r].failures + (lost + 1) + (Slack + MaxTries)
                             + Cardinality((CountedBy(r) \ {rlock}) \ {p})
    BY <1>1, <2>2, <2>3, <2>6, Paid
  <2>10. tried[r] <= mine[rlock][r].failures + (lost + 1) + (Slack + MaxTries)
                        + Cardinality((CountedBy(r) \ {rlock}) \ {p})
    BY <1>1, <2>3, <2>6, <2>9
  <2> QED BY <2>1, <2>4, <2>7, <2>8, <2>9, <2>10
<1> QED BY <1>3, <1>6, <1>7 DEF Bounds

LEMMA BoundsStep ==
  ASSUME RcBase, Outside, RcTally, Bounds, [RcNext]_rcVars, RcBase', RcTally'
  PROVE  Bounds'
<1> USE ReconcilerAssumption
<1>0. /\ mine \in [Who -> Files0] /\ todo \in [Who -> SUBSET Recs] /\ doing \in [Who -> Recs \cup {"none"}]
      /\ tried \in [Recs -> Nat] /\ looked \subseteq Who /\ inside \subseteq Who /\ \A r \in Recs : r # "none"
      /\ Tickers \subseteq Who /\ Keepers \subseteq Who
  BY DEF RcBase, RcTally, Who
<1>1. ASSUME NEW p \in Keepers, Command(p) PROVE Bounds'
  <2>1. p \in Who /\ Enters(p) /\ UNCHANGED <<recs, older, lost, todo, doing>> BY <1>0, <1>1 DEF Command
  <2>2. \A q \in Who : q # p => mine'[q] = mine[q] BY <1>1, <2>1, CommandFacts
  <2>3. \A r \in Recs : tried'[r] = 0 \/ (mine'[p][r].failures = recs[r].failures /\ tried'[r] = tried[r])
    BY <1>1, <2>1, CommandFacts
  <2> QED BY <2>1, <2>2, <2>3, EntersBounds
<1>2. ASSUME NEW p \in Tickers, TickStarts(p) PROVE Bounds'
  <2>1. p \in Who /\ Enters(p) /\ UNCHANGED <<recs, older, lost, doing, tried>> BY <1>0, <1>2 DEF TickStarts
  <2>2. mine'[p] = recs /\ \A q \in Who : q # p => mine'[q] = mine[q] /\ todo'[q] = todo[q]
    BY <1>0, <1>2 DEF TickStarts
  <2> QED BY <2>1, <2>2, EntersBounds
<1>3. ASSUME NEW p \in Tickers, NotDue(p) PROVE Bounds'
  <2>1. PICK r \in todo[p] : todo' = [todo EXCEPT ![p] = @ \ {r}] BY <1>3 DEF NotDue
  <2>2. UNCHANGED <<recs, rlock, age, inside, older, lost, mine, tried, doing, looked>> BY <1>3 DEF NotDue
  <2>3. \A q \in Who : todo'[q] \subseteq todo[q] BY <1>0, <2>1
  <2>4. \A s \in Recs : CountedBy(s) \subseteq CountedBy(s)' BY <1>0, <2>2, <2>3 DEF CountedBy
  <2> QED BY <1>0, <2>2, <2>4, StaysBounds
<1>4. ASSUME NEW p \in Tickers, Observe(p) PROVE Bounds'
  <2>1. PICK r \in todo[p] :
          /\ todo' = [todo EXCEPT ![p] = @ \ {r}] /\ looked' = looked \cup {p}
          /\ \/ /\ mine' = [mine EXCEPT ![p][r].failures = 0] /\ tried' = [tried EXCEPT ![r] = 0] /\ doing' = doing
             \/ UNCHANGED <<mine, tried, doing>>
             \/ doing' = [doing EXCEPT ![p] = r] /\ UNCHANGED <<mine, tried>>
    BY <1>4 DEF Observe
  <2>2. UNCHANGED <<recs, rlock, age, inside, older, lost>> /\ p \in Who /\ r \in Recs /\ doing[p] = "none"
    BY <1>0, <1>4 DEF Observe
  <2>3. /\ \A q \in Who : todo'[q] \subseteq todo[q]
        /\ \A q \in Who, s \in Recs : doing[q] # s => doing'[q] # s \/ (q = p /\ s = r)
        /\ r \in todo[p]
    BY <1>0, <2>1, <2>2
  <2>4. \A s \in Recs : \/ s = r /\ tried'[s] = 0
                        \/ tried'[s] = tried[s] /\ \A q \in Who : mine'[q][s].failures = mine[q][s].failures
    <3>1. CASE mine' = [mine EXCEPT ![p][r].failures = 0] /\ tried' = [tried EXCEPT ![r] = 0]
      <4>1. \A s \in Recs, q \in Who : s # r => mine'[q][s] = mine[q][s] BY <1>0, <2>2, <3>1, ResetFacts
      <4> QED BY <1>0, <2>2, <3>1, <4>1
    <3>2. CASE mine' = mine /\ tried' = tried BY <3>2
    <3> QED BY <2>1, <3>1, <3>2
  <2>5. \A s \in Recs : tried'[s] = 0 \/ CountedBy(s) \subseteq CountedBy(s)'
    <3> SUFFICES ASSUME NEW s \in Recs, tried'[s] # 0, NEW q \in CountedBy(s) PROVE q \in CountedBy(s)' OBVIOUS
    <3>1. q \in looked /\ q \in Who /\ s \notin todo[q] /\ doing[q] # s /\ mine[q][s].failures > 0
      BY <1>0 DEF CountedBy
    <3>2. mine'[q][s].failures > 0 BY <2>4, <3>1
    <3>3. doing'[q] # s BY <2>3, <3>1
    <3>4. q \in looked' /\ s \notin todo'[q] BY <2>1, <2>3, <3>1
    <3> QED BY <3>2, <3>3, <3>4 DEF CountedBy
  <2> QED BY <2>2, <2>4, <2>5, StaysBounds
<1>5. ASSUME NEW p \in Tickers, Repaired(p) PROVE Bounds'
  <2>1. /\ p \in Who /\ doing[p] \in Recs /\ doing' = [doing EXCEPT ![p] = "none"]
        /\ mine' = [mine EXCEPT ![p][doing[p]].failures = 0] /\ tried' = [tried EXCEPT ![doing[p]] = 0]
        /\ UNCHANGED <<recs, rlock, age, inside, looked, older, lost, todo>>
    BY <1>0, <1>5 DEF Repaired
  <2>2. \A q \in Who : doing'[q] = doing[q] \/ doing'[q] = "none" BY <1>0, <2>1
  <2>3. \A s \in Recs, q \in Who : s # doing[p] => mine'[q][s] = mine[q][s] BY <1>0, <2>1, ResetFacts
  <2>4. tried'[doing[p]] = 0 /\ \A s \in Recs : s # doing[p] => tried'[s] = tried[s] BY <1>0, <2>1
  <2>5. \A s \in Recs : s # doing[p] => CountedBy(s) \subseteq CountedBy(s)'
    BY <1>0, <2>1, <2>2, <2>3 DEF CountedBy
  <2> QED BY <2>1, <2>3, <2>4, <2>5, StaysBounds
<1>6. ASSUME NEW p \in Tickers, Failed(p) PROVE Bounds'
  <2>1. /\ p \in Who /\ doing' = [doing EXCEPT ![p] = "none"] /\ tried' = [tried EXCEPT ![doing[p]] = @ + 1]
        /\ UNCHANGED <<recs, rlock, age, inside, looked, older, lost, todo>> /\ doing[p] \in Recs
    BY <1>0, <1>6 DEF Failed
  <2>0. PICK d \in Recs : d = doing[p] BY <2>1
  <2>2. /\ d = doing[p] /\ p \in looked /\ d \notin todo[p]
        /\ mine'[p][d].failures = mine[p][d].failures + 1
        /\ \A s \in Recs : s # d => mine'[p][s] = mine[p][s]
        /\ \A q \in Who : q # p => mine'[q] = mine[q]
    BY <1>6, <2>0, <2>1, FailedFacts
  <2>3. \A q \in Who : doing'[q] = (IF q = p THEN "none" ELSE doing[q]) BY <1>0, <2>1
  <2>4. tried'[d] = tried[d] + 1 /\ \A s \in Recs : s # d => tried'[s] = tried[s]
    BY <1>0, <2>1, <2>2
  <2>5. \A q \in Who, s \in Recs : mine[q][s].failures \in Nat /\ mine'[q][s].failures \in Nat BY AreNumbers
  <2>6. \A s \in Recs : s # d => \A q \in Who : mine'[q][s].failures = mine[q][s].failures
    BY <2>2
  <2>7. \A q \in Who : mine'[q][d].failures = mine[q][d].failures + (IF q = p THEN 1 ELSE 0)
    BY <2>2, <2>5
  <2>8. \A s \in Recs, q \in Who : mine[q][s].failures > 0 => mine'[q][s].failures > 0
    BY <2>5, <2>6, <2>7
  <2>9. \A s \in Recs : CountedBy(s) \subseteq CountedBy(s)' BY <1>0, <2>1, <2>3, <2>8 DEF CountedBy
  <2>10. p \in CountedBy(d)' \ CountedBy(d)
    <3>1. mine'[p][d].failures > 0 BY <2>1, <2>2, <2>5
    <3>2. doing'[p] # d /\ p \notin CountedBy(d) BY <1>0, <2>1, <2>2, <2>3 DEF CountedBy
    <3> QED BY <2>1, <2>2, <3>1, <3>2 DEF CountedBy
  <2>11. \A s \in Recs :
           \/ tried'[s] = 0
           \/ /\ tried'[s] = tried[s] /\ CountedBy(s) \subseteq CountedBy(s)'
              /\ \A q \in Who : mine'[q][s].failures = mine[q][s].failures
           \/ /\ tried'[s] = tried[s] + 1 /\ CountedBy(s) \subseteq CountedBy(s)'
              /\ p \in CountedBy(s)' \ CountedBy(s)
              /\ \A q \in Who : mine'[q][s].failures = mine[q][s].failures + (IF q = p THEN 1 ELSE 0)
    <3> SUFFICES ASSUME NEW s \in Recs
                 PROVE \/ /\ tried'[s] = tried[s] /\ CountedBy(s) \subseteq CountedBy(s)'
                          /\ \A q \in Who : mine'[q][s].failures = mine[q][s].failures
                       \/ /\ tried'[s] = tried[s] + 1 /\ CountedBy(s) \subseteq CountedBy(s)'
                          /\ p \in CountedBy(s)' \ CountedBy(s)
                          /\ \A q \in Who : mine'[q][s].failures = mine[q][s].failures + (IF q = p THEN 1 ELSE 0)
      OBVIOUS
    <3>1. CASE s = d BY <2>4, <2>7, <2>9, <2>10, <3>1
    <3>2. CASE s # d BY <2>4, <2>6, <2>9, <3>2
    <3> QED BY <3>1, <3>2
  <2> QED BY <2>1, <2>11, StaysBounds
<1>7. ASSUME NEW p \in Who, Saves(p) PROVE Bounds' BY <1>7, SavesBounds
<1>8. ASSUME NEW p \in Who, Lost(p) PROVE Bounds' BY <1>8, LostBounds
<1>9. CASE Older \/ BreakLock BY <1>9, OlderBounds
<1>10. CASE Drift \/ UNCHANGED rcVars
  <2>1. UNCHANGED <<recs, rlock, age, inside, older, lost, mine, tried, doing, looked, todo>>
    BY <1>10 DEF Drift, rcVars
  <2>2. Behind' = Behind /\ Slack' = Slack BY <2>1 DEF Behind, Slack, Overtaken, Aged
  <2>3. \A r \in Recs : CountedBy(r)' = CountedBy(r) BY <2>1 DEF CountedBy
  <2>4. FileBound' BY <2>1, <2>2, <2>3 DEF Bounds, FileBound
  <2>5. CopyBound' BY <2>1, <2>2, <2>3 DEF Bounds, CopyBound
  <2> QED BY <2>1, <2>2, <2>4, <2>5 DEF Bounds
<1> QED BY <1>0, <1>1, <1>2, <1>3, <1>4, <1>5, <1>6, <1>7, <1>8, <1>9, <1>10 DEF RcNext, TickStep

\* A file or a copy never counts above the ceiling, and who is overtaken pays for what it counted.
LEMMA BoundsHalt == ASSUME RcBase, RcTally, Bounds PROVE HaltsAtCeiling
<1>1. /\ Cardinality(Overtaken) \in Nat /\ Behind \in Nat /\ Behind <= older /\ Slack \in Nat
      /\ \A r \in Recs : CountedBy(r) \subseteq inside /\ IsFiniteSet(CountedBy(r))
  BY SlackIs DEF Bounds
<1>2. MaxTries \in Nat /\ MaxTries >= 1 /\ older \in Nat /\ lost \in Nat /\ IsFiniteSet(Overtaken)
  BY ReconcilerAssumption, FS_Subset DEF RcBase, RcTally, Overtaken
<1>3. Slack + MaxTries * Behind = MaxTries * older
  <2>1. \A m, a, b \in Nat : m * (a + b) = m * a + m * b OBVIOUS
  <2>2. older - Behind \in Nat /\ older = (older - Behind) + Behind BY <1>1, <1>2
  <2> QED BY <1>1, <1>2, <2>1, <2>2 DEF Slack
<1>4. MaxTries * (1 + older) = MaxTries + MaxTries * older /\ MaxTries * older \in Nat
  BY <1>2, TimesGrows
<1>5. Behind <= MaxTries * Behind /\ MaxTries * Behind \in Nat
  <2>1. \A m, a \in Nat : m >= 1 => a <= m * a /\ m * a \in Nat OBVIOUS
  <2> QED BY <1>1, <1>2, <2>1
<1>6. Cardinality(Overtaken) <= Behind BY <1>1 DEF Behind, Aged
<1> SUFFICES ASSUME NEW r \in Recs PROVE tried[r] <= MaxTries * (1 + older) + lost
  BY DEF HaltsAtCeiling
<1>7. tried[r] \in Nat BY DEF RcTally
<1>8. CASE rlock \in Who
  <2>1. tried[r] <= mine[rlock][r].failures + lost + Slack + Cardinality(CountedBy(r) \ {rlock})
    BY <1>8 DEF Bounds, CopyBound
  <2>2. mine[rlock][r].failures <= MaxTries /\ mine[rlock][r].failures \in Nat
    <3>1. mine[rlock] \in Files0 BY <1>8 DEF RcBase
    <3> QED BY <1>8, <3>1 DEF RcTally, CountsOK, Files0
  <2>3. CountedBy(r) \ {rlock} \subseteq Overtaken BY <1>1 DEF Overtaken
  <2>4. /\ Cardinality(CountedBy(r) \ {rlock}) \in Nat
        /\ Cardinality(CountedBy(r) \ {rlock}) <= Cardinality(Overtaken)
    BY <1>2, <2>3, Sizes
  <2> QED BY <1>1, <1>2, <1>3, <1>4, <1>5, <1>6, <1>7, <2>1, <2>2, <2>4
<1>9. CASE rlock \notin Who
  <2>1. tried[r] <= recs[r].failures + lost + Slack + Cardinality(CountedBy(r)) BY DEF Bounds, FileBound
  <2>2. recs[r].failures <= MaxTries /\ recs[r].failures \in Nat
    BY DEF RcTally, CountsOK, Files0, RcBase
  <2>3. CountedBy(r) \subseteq Overtaken BY <1>1, <1>9 DEF Overtaken, RcBase
  <2>4. Cardinality(CountedBy(r)) \in Nat /\ Cardinality(CountedBy(r)) <= Cardinality(Overtaken)
    BY <1>2, <2>3, Sizes
  <2> QED BY <1>1, <1>2, <1>3, <1>4, <1>5, <1>6, <1>7, <2>1, <2>2, <2>4
<1> QED BY <1>8, <1>9

\* The inductive invariant of the reconcilers: the list, who edits it, and what was tried.
TInv == RcBase /\ Outside /\ RcTally /\ Bounds

LEMMA TInvHolds == RcSpec => []TInv
<1>1. RcInit => TInv BY RcStarts, TallyStarts DEF RcInv, TInv
<1>2. TInv /\ [RcNext]_rcVars => TInv'
  <2> SUFFICES ASSUME TInv, [RcNext]_rcVars PROVE TInv' OBVIOUS
  <2> USE DEF TInv
  <2>1. RcBase' /\ Outside' BY RcBaseStep
  <2>2. RcTally' BY RcTallyStep
  <2>3. Bounds' BY <2>1, <2>2, BoundsStep
  <2> QED BY <2>1, <2>2, <2>3
<1> QED BY <1>1, <1>2, PTL DEF RcSpec

\* "Stop and ask, never loop": with no overtaken tick and no lost one, a restore that
\* does not restore is tried max_failures times in a row and no more.
THEOREM HaltsAtCeilingHolds == RcSpec => []HaltsAtCeiling
<1>1. TInv => HaltsAtCeiling BY BoundsHalt DEF TInv
<1> QED BY <1>1, TInvHolds, PTL

\* The world of the reconcilers and the bound on it.
World == inSpec \in [Recs -> BOOLEAN] /\ proven \in [Recs -> BOOLEAN] /\ changes \in Nat

LEMMA WorldKept == ASSUME World, RcBase, [RcNext]_rcVars PROVE World'
<1> USE DEF World
<1>1. changes' \in {changes, changes + 1}
  BY Zenon DEF RcNext, Command, Saves, TickStarts, NotDue, TickStep, Observe, Repaired, Failed, Lost, Older,
     BreakLock, Drift, Changes, rcVars
<1>2. inSpec' \in [Recs -> BOOLEAN] /\ proven' \in [Recs -> BOOLEAN]
  <2>1. ASSUME NEW p \in Who, Repaired(p) PROVE inSpec' \in [Recs -> BOOLEAN] /\ UNCHANGED proven
    BY <2>1 DEF Repaired
  <2>2. CASE Drift
    <3>1. PICK r \in Recs : \/ inSpec' = [inSpec EXCEPT ![r] = ~@] /\ UNCHANGED proven
                            \/ proven' = [proven EXCEPT ![r] = ~@] /\ UNCHANGED inSpec
      BY <2>2 DEF Drift
    <3> QED BY <3>1
  <2>3. ASSUME ~Drift, \A p \in Who : ~Repaired(p) PROVE UNCHANGED <<inSpec, proven>>
    BY <2>3, Zenon DEF RcNext, Who, Command, Saves, TickStarts, NotDue, TickStep, Observe, Failed, Lost, Older,
       BreakLock, world, rcVars
  <2> QED BY <2>1, <2>2, <2>3
<1> QED BY <1>1, <1>2

\* The list of reconcilers and everything around it keep their types.
THEOREM RcTypeCorrect == RcSpec => []RcTypeOK
<1>1. RcInit => World BY DEF RcInit, World
<1>2. World /\ RcBase /\ [RcNext]_rcVars => World' BY WorldKept
<1>3. World /\ TInv => RcTypeOK BY DEF World, TInv, RcBase, RcTally, RcTypeOK
<1>4. TInv => RcBase BY DEF TInv
<1> QED BY <1>1, <1>2, <1>3, <1>4, TInvHolds, PTL DEF RcSpec

-----------------------------------------------------------------------------
(* Intentions (Prospective).                                               *)

LEMMA Smallest == ASSUME NEW T \in SUBSET Nat, T # {} PROVE \E j \in T : \A i \in T : j <= i
<1>1. PICK j \in T : \A i \in T : ~(<<i, j>> \in OpToRel(<, Nat))
  BY NatLessThanWellFounded, WFMin
<1>2. \A i \in T : ~(i < j) BY <1>1 DEF OpToRel
<1> QED BY <1>2

LEMMA NextOccurrence ==
  ASSUME PmTypeOK, NEW it \in Item, Unconsumed(it) # {}
  PROVE  Min(Unconsumed(it)) \in Unconsumed(it) /\ Unconsumed(it) \subseteq Nat
<1>1. occ[it.id] \in Nat BY DEF PmTypeOK, Item
<1>2. Unconsumed(it) \in SUBSET Nat BY <1>1 DEF Unconsumed
<1>3. PICK j \in Unconsumed(it) : \A i \in Unconsumed(it) : j <= i BY <1>2, Smallest
<1> QED BY <1>2, <1>3 DEF Min

\* What is consumed stays a list of numbers.
LEMMA ConsumedType ==
  ASSUME NEW s \in Seq(Nat), NEW n \in Nat
  PROVE  LET c == Append(s, n)
         IN  SubSeq(c, IF Len(c) > ConsumedCap THEN Len(c) - ConsumedCap + 1 ELSE 1, Len(c)) \in Seq(Nat)
<1>1. PICK c : c = Append(s, n) OBVIOUS
<1>2. c \in Seq(Nat) BY <1>1
<1>3. Len(c) \in Nat /\ \A i \in 1..Len(c) : c[i] \in Nat BY <1>2, LenProperties, ElementOfSeq
<1>4. PICK a : a = IF Len(c) > ConsumedCap THEN Len(c) - ConsumedCap + 1 ELSE 1 OBVIOUS
<1>5. a \in Int /\ a >= 1
  <2>1. ConsumedCap \in Nat /\ Len(c) \in Nat BY <1>3, ProspectiveAssumption
  <2> QED BY <1>4, <2>1
<1>6. \A i \in a..Len(c) : c[i] \in Nat
  <2>1. \A i \in a..Len(c) : i \in 1..Len(c) BY <1>3, <1>5
  <2> QED BY <1>3, <2>1
<1>7. SubSeq(c, a, Len(c)) \in Seq(Nat) BY <1>3, <1>5, <1>6, SubSeqProperties
<1> QED BY <1>1, <1>4, <1>7

LEMMA FiredType ==
  ASSUME PmTypeOK, NEW p \in Procs, NEW it \in Item, it.status = "armed", Due(p, it), NEW n \in Nat
  PROVE  FiredAs(it, n) \in Item /\ FiredAs(it, n).id = it.id
<1>1. it.id \in Intents /\ it.seen \in Seq(Nat) /\ occ[it.id] \in Nat BY DEF PmTypeOK, Item
<1> DEFINE c == Append(it.seen, Min(Unconsumed(it)))
           left == SubSeq(c, IF Len(c) > ConsumedCap THEN Len(c) - ConsumedCap + 1 ELSE 1, Len(c))
           seen == CASE kind[it.id] \in {"event", "repeat"} -> left
                     [] kind[it.id] \in {"change", "every"} -> <<occ[it.id]>>
                     [] OTHER -> it.seen
           status == IF kind[it.id] \in {"repeat", "change", "every"} THEN "armed" ELSE "fired"
<1>2. seen \in Seq(Nat)
  <2>1. CASE kind[it.id] \in {"event", "repeat"}
    <3>1. Unconsumed(it) # {} BY <2>1 DEF Due
    <3>2. Min(Unconsumed(it)) \in Nat BY <3>1, NextOccurrence
    <3>3. left \in Seq(Nat) BY <1>1, <3>2, ConsumedType
    <3> HIDE DEF left
    <3> QED BY <2>1, <3>3
  <2>2. CASE kind[it.id] \in {"change", "every"}
    <3>1. <<occ[it.id]>> \in Seq(Nat) BY <1>1
    <3> HIDE DEF left
    <3>2. seen = <<occ[it.id]>> BY <2>2
    <3> QED BY <3>1, <3>2
  <2>3. CASE kind[it.id] \notin {"event", "repeat", "change", "every"}
    <3> HIDE DEF left
    <3>1. seen = it.seen BY <2>3
    <3> QED BY <1>1, <3>1
  <2> QED BY <2>1, <2>2, <2>3
<1>3. FiredAs(it, n) = [it EXCEPT !.task = n, !.status = status, !.seen = seen]
  BY Zenon DEF FiredAs
<1>4. status \in {"armed", "fired", "cancelled"} OBVIOUS
<1> HIDE DEF seen, status
<1> QED BY <1>1, <1>2, <1>3, <1>4 DEF Item

\* An element of a ledger is replaced.
LEMMA ItemsBut ==
  ASSUME NEW l \in Seq(Item), NEW n \in 1..Len(l), NEW it \in Item
  PROVE  /\ [l EXCEPT ![n] = it] \in Seq(Item) /\ Len([l EXCEPT ![n] = it]) = Len(l)
         /\ \A i \in 1..Len(l) : [l EXCEPT ![n] = it][i] = IF i = n THEN it ELSE l[i]
BY ExceptSeq

\* A ledger read earlier is still told by the one at hand: nothing disappeared, and what was
\* fired or cancelled stayed so.
Extends(l, m) ==
  \A n \in 1..Len(l) : /\ n \in 1..Len(m) /\ m[n].id = l[n].id
                       /\ l[n].status # "armed" => m[n].status = l[n].status

\* What every step does to the ledger, the copies and the board, for the types and the history.
LEMMA EditsFacts ==
  ASSUME PmTypeOK, NEW p \in Procs, Edits(p)
  PROVE  /\ copy' \in [Procs -> Seq(Item)] /\ \A q \in Procs \ {p} : copy'[q] = copy[q]
         /\ Extends(ledger, copy'[p])
         /\ made' \in Nat /\ kind' \in [Intents -> Kinds \cup {"none"}]
         /\ at' \in [Procs -> Nat] /\ \A q \in Procs \ {p} : at'[q] = at[q]
         /\ dirty' \in [Procs -> BOOLEAN]
         /\ at[p] = 0
<1>1. /\ ledger \in Seq(Item) /\ Len(ledger) \in Nat /\ made \in Nat /\ copy \in [Procs -> Seq(Item)]
      /\ \A n \in 1..Len(ledger) : ledger[n] \in Item
      /\ DOMAIN ledger = 1..Len(ledger)
  BY LenProperties, ElementOfSeq DEF PmTypeOK
<1>2. \E l \in Seq(Item) : copy' = [copy EXCEPT ![p] = l] /\ Extends(ledger, l)
                           /\ made' \in Nat /\ kind' \in [Intents -> Kinds \cup {"none"}]
  <2>1. CASE Adds(p)
    <3>1. PICK k \in Kinds : /\ made' = made + 1 /\ made + 1 \in Intents
                             /\ kind' = [kind EXCEPT ![made + 1] = k]
                             /\ copy' = [copy EXCEPT ![p] = Append(ledger, New(made + 1, k))]
      BY <2>1 DEF Adds
    <3>2. PICK it : it = New(made + 1, k) OBVIOUS
    <3>3. it \in Item
      <4>1. occ[made + 1] \in Nat BY <3>1 DEF PmTypeOK
      <4>2. <<>> \in Seq(Nat) /\ <<occ[made + 1]>> \in Seq(Nat) BY <4>1
      <4>3. (IF k = "every" THEN <<occ[made + 1]>> ELSE <<>>) \in Seq(Nat) BY <4>2
      <4> QED BY <3>1, <3>2, <4>3 DEF New, Item
    <3>4. PICK l : l = Append(ledger, it) OBVIOUS
    <3>5. /\ l \in Seq(Item) /\ Len(l) = Len(ledger) + 1
          /\ \A n \in 1..Len(ledger) : l[n] = ledger[n]
      BY <1>1, <3>3, <3>4, AppendProperties
    <3>6. \A n \in 1..Len(ledger) : n \in 1..Len(l) BY <1>1, <3>5
    <3>7. Extends(ledger, l) BY <3>5, <3>6 DEF Extends
    <3>8. kind' \in [Intents -> Kinds \cup {"none"}] BY <3>1 DEF PmTypeOK
    <3>9. made' \in Nat BY <1>1, <3>1
    <3> QED BY <3>1, <3>2, <3>4, <3>5, <3>7, <3>8, <3>9
  <2>2. CASE Cancels(p)
    <3>1. PICK n \in 1..Len(ledger) :
            /\ ledger[n].status = "armed"
            /\ copy' = [copy EXCEPT ![p] = [ledger EXCEPT ![n].status = "cancelled"]]
            /\ UNCHANGED <<made, kind>>
      BY <1>1, <2>2 DEF Cancels
    <3>2. PICK it : it = [ledger[n] EXCEPT !.status = "cancelled"] OBVIOUS
    <3>3. it \in Item /\ it.id = ledger[n].id BY <1>1, <3>1, <3>2 DEF Item
    <3>4. PICK l : l = [ledger EXCEPT ![n] = it] OBVIOUS
    <3>5. /\ l \in Seq(Item) /\ Len(l) = Len(ledger)
          /\ \A i \in 1..Len(ledger) : l[i] = IF i = n THEN it ELSE ledger[i]
      BY <1>1, <3>1, <3>3, <3>4, ItemsBut
    <3>6. Extends(ledger, l) BY <3>1, <3>3, <3>5 DEF Extends
    <3>7. copy' = [copy EXCEPT ![p] = l] BY <3>1, <3>2, <3>4
    <3>8. made' \in Nat /\ kind' \in [Intents -> Kinds \cup {"none"}] BY <3>1 DEF PmTypeOK
    <3> QED BY <3>5, <3>6, <3>7, <3>8
  <2> QED BY <2>1, <2>2 DEF Edits
<1>3. PICK l \in Seq(Item) : copy' = [copy EXCEPT ![p] = l] /\ Extends(ledger, l)
                             /\ made' \in Nat /\ kind' \in [Intents -> Kinds \cup {"none"}]
  BY <1>2
<1>4. copy' \in [Procs -> Seq(Item)] /\ copy'[p] = l /\ \A q \in Procs \ {p} : copy'[q] = copy[q]
  BY <1>1, <1>3
<1>5. Len(l) \in Nat BY <1>3, LenProperties
<1>6. /\ at' = [at EXCEPT ![p] = Len(l) + 1] /\ dirty' = [dirty EXCEPT ![p] = TRUE] /\ at[p] = 0
  BY <1>4 DEF Edits
<1>7. /\ at' \in [Procs -> Nat] /\ \A q \in Procs \ {p} : at'[q] = at[q]
      /\ dirty' \in [Procs -> BOOLEAN]
  BY <1>5, <1>6 DEF PmTypeOK
<1> QED BY <1>3, <1>4, <1>6, <1>7

\* An item is looked at.
LEMMA StepsFacts ==
  ASSUME PmTypeOK, NEW p \in Procs, Looking(p), NEW it \in Item, it.id = Looked(p).id, Steps(p, it)
  PROVE  /\ copy' \in [Procs -> Seq(Item)] /\ \A q \in Procs \ {p} : copy'[q] = copy[q]
         /\ Len(copy'[p]) = Len(copy[p])
         /\ \A i \in 1..Len(copy[p]) : copy'[p][i] = IF i = at[p] THEN it ELSE copy[p][i]
         /\ at' \in [Procs -> Nat] /\ \A q \in Procs \ {p} : at'[q] = at[q]
         /\ at[p] \in 1..Len(copy[p])
<1>1. copy \in [Procs -> Seq(Item)] /\ copy[p] \in Seq(Item) /\ at \in [Procs -> Nat] /\ at[p] \in 1..Len(copy[p])
  BY DEF PmTypeOK, Looking
<1>2. PICK l : l = [copy[p] EXCEPT ![at[p]] = it] OBVIOUS
<1>3. /\ l \in Seq(Item) /\ Len(l) = Len(copy[p])
      /\ \A i \in 1..Len(copy[p]) : l[i] = IF i = at[p] THEN it ELSE copy[p][i]
  BY <1>1, <1>2, ItemsBut
<1>4. copy' = [copy EXCEPT ![p] = l] /\ at' = [at EXCEPT ![p] = @ + 1] BY <1>2 DEF Steps
<1>5. copy' \in [Procs -> Seq(Item)] /\ copy'[p] = l /\ \A q \in Procs \ {p} : copy'[q] = copy[q]
  BY <1>1, <1>3, <1>4
<1>6. at' \in [Procs -> Nat] /\ \A q \in Procs \ {p} : at'[q] = at[q] BY <1>1, <1>4
<1> QED BY <1>1, <1>3, <1>5, <1>6

LEMMA LookedFacts ==
  ASSUME PmTypeOK, NEW p \in Procs, Looking(p)
  PROVE  Looked(p) \in Item /\ at[p] \in 1..Len(copy[p]) /\ copy[p][at[p]] = Looked(p)
BY ElementOfSeq DEF PmTypeOK, Looking, Looked

\* A look replaces the item by one of the same intention, and only if it is still armed.
LEMMA LookFacts ==
  ASSUME PmTypeOK, NEW p \in Procs, Fire(p) \/ Pass(p)
  PROVE  /\ Looking(p)
         /\ \E it \in Item : /\ it.id = Looked(p).id /\ Steps(p, it)
                             /\ Looked(p).status # "armed" => it = Looked(p)
         /\ dirty' \in [Procs -> BOOLEAN]
         /\ board' \in Seq(Intents) /\ finished' \subseteq 1..Len(board')
         /\ UNCHANGED <<ledger, made, kind, lock, aged, occ, finished, overlaps, failures>>
<1>1. Looking(p) BY DEF Fire, Pass
<1>2. Looked(p) \in Item /\ Looked(p).id \in Intents BY <1>1, LookedFacts DEF Item
<1>3. board \in Seq(Intents) /\ Len(board) \in Nat /\ finished \subseteq 1..Len(board)
  BY LenProperties DEF PmTypeOK
<1>4. CASE Fire(p)
  <2>1. /\ Looked(p).status = "armed" /\ Due(p, Looked(p))
        /\ board' = Append(board, Looked(p).id)
        /\ Steps(p, FiredAs(Looked(p), Len(board) + 1))
        /\ dirty' = [dirty EXCEPT ![p] = TRUE]
        /\ UNCHANGED <<ledger, made, kind, lock, aged, occ, finished, overlaps, failures>>
    BY <1>4 DEF Fire
  <2>2. FiredAs(Looked(p), Len(board) + 1) \in Item /\ FiredAs(Looked(p), Len(board) + 1).id = Looked(p).id
    BY <1>2, <1>3, <2>1, FiredType
  <2>3. dirty' \in [Procs -> BOOLEAN] BY <2>1 DEF PmTypeOK
  <2>4. board' \in Seq(Intents) /\ Len(board') = Len(board) + 1 BY <1>2, <1>3, <2>1, AppendProperties
  <2>5. 1..Len(board) \subseteq 1..Len(board') BY <1>3, <2>4
  <2> QED BY <1>1, <1>3, <2>1, <2>2, <2>3, <2>4, <2>5
<1>5. CASE Pass(p)
  <2>1. UNCHANGED <<ledger, made, kind, lock, aged, occ, board, finished, overlaps, failures>>
    BY <1>5 DEF Pass
  <2>2. CASE Steps(p, Looked(p)) /\ UNCHANGED dirty
    <3>1. dirty' \in [Procs -> BOOLEAN] BY <2>2 DEF PmTypeOK
    <3> QED BY <1>1, <1>2, <1>3, <2>1, <2>2, <3>1
  <2>3. CASE /\ Looked(p).status = "armed"
             /\ Steps(p, [Looked(p) EXCEPT !.seen = <<occ[Looked(p).id]>>])
             /\ dirty' = [dirty EXCEPT ![p] = TRUE]
    <3>1. occ[Looked(p).id] \in Nat BY <1>2 DEF PmTypeOK
    <3>2. <<occ[Looked(p).id]>> \in Seq(Nat) BY <3>1
    <3>3. PICK it : it = [Looked(p) EXCEPT !.seen = <<occ[Looked(p).id]>>] OBVIOUS
    <3>4. it \in Item /\ it.id = Looked(p).id BY <1>2, <3>2, <3>3 DEF Item
    <3>5. dirty' \in [Procs -> BOOLEAN] BY <2>3 DEF PmTypeOK
    <3>6. Steps(p, it) BY <2>3, <3>3
    <3> QED BY <1>1, <1>3, <2>1, <2>3, <3>4, <3>5, <3>6
  <2> QED BY <1>5, <2>2, <2>3 DEF Pass
<1> QED BY <1>4, <1>5

LEMMA LeaveFacts ==
  ASSUME PmTypeOK, NEW p \in Procs, Leave(p)
  PROVE  /\ copy' \in [Procs -> Seq(Item)] /\ \A q \in Procs \ {p} : copy'[q] = copy[q]
         /\ at' \in [Procs -> Nat] /\ \A q \in Procs \ {p} : at'[q] = at[q]
         /\ at'[p] = 0 /\ dirty' \in [Procs -> BOOLEAN]
         /\ lock' = IF lock = p THEN NoProc ELSE lock
         /\ aged' = (aged /\ lock # p)
<1>1. <<>> \in Seq(Item) OBVIOUS
<1> QED BY <1>1 DEF PmTypeOK, Leave, Released

LEMMA PmTypesKept == ASSUME PmTypeOK, [PmNext]_pmVars PROVE PmTypeOK'
<1>1. /\ ledger \in Seq(Item) /\ board \in Seq(Intents) /\ Len(board) \in Nat
      /\ overlaps \in Nat /\ failures \in Nat /\ overlaps + 1 \in Nat /\ failures + 1 \in Nat
  BY LenProperties DEF PmTypeOK
<1>2. ASSUME NEW p \in Askers, Edit(p) \/ EditUnlocked(p) PROVE PmTypeOK'
  <2>1. p \in Procs /\ Edits(p) BY <1>2 DEF Procs, Edit, EditUnlocked
  <2>2. /\ copy' \in [Procs -> Seq(Item)] /\ made' \in Nat /\ kind' \in [Intents -> Kinds \cup {"none"}]
        /\ at' \in [Procs -> Nat] /\ dirty' \in [Procs -> BOOLEAN]
    BY <2>1, EditsFacts
  <2>3. UNCHANGED <<ledger, occ, board, finished, failures>> BY <2>1 DEF Edits
  <2>4. lock' \in Procs \cup {NoProc, Corpse} /\ aged' \in BOOLEAN /\ overlaps' \in Nat
    <3>1. CASE Edit(p) BY <2>1, <3>1 DEF Edit, Takes, PmTypeOK
    <3>2. CASE EditUnlocked(p)
      <4>1. overlaps' = overlaps + 1 /\ UNCHANGED <<lock, aged>> BY <3>2 DEF EditUnlocked
      <4> QED BY <1>1, <4>1 DEF PmTypeOK
    <3> QED BY <1>2, <3>1, <3>2
  <2> QED BY <2>2, <2>3, <2>4 DEF PmTypeOK
<1>3. ASSUME NEW p \in Procs, Save(p) PROVE PmTypeOK'
  <2>1. Leave(p) /\ UNCHANGED <<made, kind, occ, board, finished, overlaps, failures>>
        /\ ledger' = IF dirty[p] THEN copy[p] ELSE ledger
    BY <1>3 DEF Save
  <2>2. ledger' \in Seq(Item) BY <2>1 DEF PmTypeOK
  <2>3. lock' \in Procs \cup {NoProc, Corpse} /\ aged' \in BOOLEAN
    BY <2>1, LeaveFacts DEF PmTypeOK
  <2> QED BY <2>1, <2>2, <2>3, LeaveFacts DEF PmTypeOK
<1>4. ASSUME NEW p \in Checkers, Check(p) PROVE PmTypeOK'
  <2>1. p \in Procs BY DEF Procs
  <2>2. /\ at' = [at EXCEPT ![p] = 1] /\ copy' = [copy EXCEPT ![p] = ledger] /\ lock' = p /\ aged' = FALSE
        /\ UNCHANGED <<ledger, made, kind, dirty, occ, board, finished, overlaps, failures>>
    BY <1>4 DEF Check, Takes
  <2> QED BY <2>1, <2>2 DEF PmTypeOK
<1>5. ASSUME NEW p \in Checkers, Fire(p) \/ Pass(p) PROVE PmTypeOK'
  <2>1. p \in Procs BY DEF Procs
  <2>2. /\ dirty' \in [Procs -> BOOLEAN]
        /\ board' \in Seq(Intents) /\ finished' \subseteq 1..Len(board')
        /\ UNCHANGED <<ledger, made, kind, lock, aged, occ, finished, overlaps, failures>>
        /\ Looking(p)
    BY <1>5, <2>1, LookFacts
  <2>3. PICK it \in Item : it.id = Looked(p).id /\ Steps(p, it) BY <1>5, <2>1, LookFacts
  <2>4. copy' \in [Procs -> Seq(Item)] /\ at' \in [Procs -> Nat] BY <2>1, <2>2, <2>3, StepsFacts
  <2> QED BY <2>2, <2>4 DEF PmTypeOK
<1>6. ASSUME NEW p \in Checkers, FireRaises(p) PROVE PmTypeOK'
  <2>1. p \in Procs BY DEF Procs
  <2>2. /\ failures' = failures + 1 /\ Leave(p)
        /\ UNCHANGED <<ledger, made, kind, occ, board, finished, overlaps>>
    BY <1>6 DEF FireRaises
  <2>3. lock' \in Procs \cup {NoProc, Corpse} /\ aged' \in BOOLEAN
    BY <2>1, <2>2, LeaveFacts DEF PmTypeOK
  <2>4. copy' \in [Procs -> Seq(Item)] /\ at' \in [Procs -> Nat] /\ dirty' \in [Procs -> BOOLEAN]
    BY <2>1, <2>2, LeaveFacts
  <2> QED BY <1>1, <2>2, <2>3, <2>4 DEF PmTypeOK
<1>7. ASSUME NEW p \in Procs, PmCrash(p) PROVE PmTypeOK'
  <2>1. <<>> \in Seq(Item) OBVIOUS
  <2>2. /\ failures' = failures + 1 /\ lock' = IF lock = p THEN Corpse ELSE lock
        /\ at' = [at EXCEPT ![p] = 0] /\ copy' = [copy EXCEPT ![p] = <<>>]
        /\ dirty' = [dirty EXCEPT ![p] = FALSE]
        /\ UNCHANGED <<ledger, made, kind, aged, occ, board, finished, overlaps>>
    BY <1>7 DEF PmCrash
  <2>3. lock' \in Procs \cup {NoProc, Corpse} /\ copy' \in [Procs -> Seq(Item)] /\ at' \in [Procs -> Nat]
        /\ dirty' \in [Procs -> BOOLEAN]
    BY <2>1, <2>2 DEF PmTypeOK
  <2> QED BY <1>1, <2>2, <2>3 DEF PmTypeOK
<1>8. CASE Ages
  <2>1. /\ aged' = TRUE /\ overlaps' \in {overlaps, overlaps + 1}
        /\ UNCHANGED <<ledger, made, kind, lock, at, copy, dirty, occ, board, finished, failures>>
    BY <1>8 DEF Ages, procVars
  <2> QED BY <1>1, <2>1 DEF PmTypeOK
<1>9. CASE Break
  <2>1. /\ lock' = NoProc /\ aged' = FALSE
        /\ UNCHANGED <<ledger, made, kind, at, copy, dirty, occ, board, finished, overlaps, failures>>
    BY <1>9 DEF Break, procVars
  <2> QED BY <2>1 DEF PmTypeOK
<1>10. CASE Happens
  <2>1. PICK i \in 1..made : occ' = [occ EXCEPT ![i] = @ + 1] BY <1>10 DEF Happens
  <2>2. UNCHANGED <<ledger, made, kind, lock, aged, at, copy, dirty, board, finished, overlaps, failures>>
    BY <1>10 DEF Happens, procVars
  <2>3. occ' \in [Intents -> Nat]
    <3>1. occ \in [Intents -> Nat] BY DEF PmTypeOK
    <3>2. CASE i \in Intents BY <2>1, <3>1, <3>2
    <3>3. CASE i \notin Intents
      <4>1. occ' = occ BY <2>1, <3>1, <3>3
      <4> QED BY <3>1, <4>1
    <3> QED BY <3>2, <3>3
  <2> QED BY <2>2, <2>3 DEF PmTypeOK
<1>11. CASE TaskDone
  <2>1. PICK n \in DOMAIN board : finished' = finished \cup {n} BY <1>11 DEF TaskDone
  <2>2. UNCHANGED <<ledger, made, kind, lock, aged, at, copy, dirty, occ, board, overlaps, failures>>
    BY <1>11 DEF TaskDone, procVars
  <2>3. DOMAIN board = 1..Len(board) BY <1>1, LenProperties
  <2> QED BY <2>1, <2>2, <2>3 DEF PmTypeOK
<1>12. CASE UNCHANGED pmVars BY <1>12 DEF pmVars, PmTypeOK
<1>13. \A p \in Askers \cup Checkers : p \in Procs BY DEF Procs
<1> QED BY <1>2, <1>3, <1>4, <1>5, <1>6, <1>7, <1>8, <1>9, <1>10, <1>11, <1>12, <1>13
        DEF PmNext, Ticks

LEMMA PmStarts == PmInit => PmTypeOK
<1> SUFFICES ASSUME PmInit PROVE PmTypeOK OBVIOUS
<1>1. <<>> \in Seq(Item) /\ <<>> \in Seq(Intents) /\ {} \subseteq 1..Len(<<>>) OBVIOUS
<1> QED BY <1>1 DEF PmInit, PmTypeOK

\* The ledger of intentions, the copies and the board keep their types.
THEOREM PmTypeCorrect == PmSpec => []PmTypeOK
BY PmStarts, PmTypesKept, PTL DEF PmSpec

\* While no lock was broken under a live holder or done without, whoever is in the section
\* holds the lock, and its copy tells everything the ledger does.
OneEditor ==
  overlaps = 0 =>
    /\ \A p \in Procs : at[p] # 0 => lock = p /\ Extends(ledger, copy[p])
    /\ aged => lock = Corpse

LEMMA ExtendsItself == ASSUME NEW l \in Seq(Item) PROVE Extends(l, l)
BY DEF Extends

LEMMA EditorKept ==
  ASSUME PmTypeOK, OneEditor, [PmNext]_pmVars
  PROVE  OneEditor' /\ (overlaps' = 0 => Extends(ledger, ledger'))
<1>1. /\ ledger \in Seq(Item) /\ NoProc \notin Procs /\ Corpse \notin Procs /\ overlaps \in Nat
      /\ at \in [Procs -> Nat] /\ copy \in [Procs -> Seq(Item)]
  BY ProspectiveAssumption DEF PmTypeOK, Procs
<1>2. overlaps + 1 # 0 /\ Extends(ledger, ledger) BY <1>1, ExtendsItself
<1>3. ASSUME NEW p \in Askers, Edit(p) \/ EditUnlocked(p)
      PROVE  OneEditor' /\ (overlaps' = 0 => Extends(ledger, ledger'))
  <2>1. p \in Procs /\ Edits(p) BY <1>3 DEF Procs, Edit, EditUnlocked
  <2>2. ledger' = ledger BY <2>1 DEF Edits
  <2>3. CASE Edit(p)
    <3>1. lock = NoProc /\ lock' = p /\ ~aged' /\ overlaps' = overlaps BY <2>3 DEF Edit, Takes
    <3>2. Extends(ledger, copy'[p]) /\ \A q \in Procs \ {p} : at'[q] = at[q] BY <2>1, EditsFacts
    <3> QED BY <1>1, <1>2, <2>2, <3>1, <3>2 DEF OneEditor
  <2>4. CASE EditUnlocked(p)
    <3>1. overlaps' = overlaps + 1 BY <2>4 DEF EditUnlocked
    <3> QED BY <1>2, <3>1 DEF OneEditor
  <2> QED BY <1>3, <2>3, <2>4
<1>4. ASSUME NEW p \in Procs, Save(p)
      PROVE  OneEditor' /\ (overlaps' = 0 => Extends(ledger, ledger'))
  <2>1. Leave(p) /\ overlaps' = overlaps /\ ledger' \in {ledger, copy[p]} /\ at[p] > Len(copy[p])
    BY <1>4 DEF Save
  <2>2. /\ \A q \in Procs \ {p} : at'[q] = at[q] /\ copy'[q] = copy[q]
        /\ at'[p] = 0 /\ lock' = (IF lock = p THEN NoProc ELSE lock) /\ aged' = (aged /\ lock # p)
    BY <2>1, LeaveFacts
  <2>3. at[p] # 0
    <3>1. Len(copy[p]) \in Nat /\ at[p] \in Nat BY <1>1, LenProperties
    <3> QED BY <2>1, <3>1
  <2>4. overlaps = 0 => lock = p /\ Extends(ledger, copy[p]) /\ \A q \in Procs \ {p} : at[q] = 0
    BY <2>3 DEF OneEditor
  <2> QED BY <1>1, <1>2, <2>1, <2>2, <2>4 DEF OneEditor
<1>5. ASSUME NEW p \in Checkers, Check(p)
      PROVE  OneEditor' /\ (overlaps' = 0 => Extends(ledger, ledger'))
  <2>1. p \in Procs BY DEF Procs
  <2>2. /\ at' = [at EXCEPT ![p] = 1] /\ copy' = [copy EXCEPT ![p] = ledger]
        /\ lock = NoProc /\ lock' = p /\ aged' = FALSE /\ UNCHANGED <<ledger, overlaps>>
    BY <1>5 DEF Check, Takes
  <2>3. copy'[p] = ledger /\ \A q \in Procs \ {p} : at'[q] = at[q] BY <1>1, <2>1, <2>2
  <2> QED BY <1>1, <1>2, <2>1, <2>2, <2>3 DEF OneEditor
<1>6. ASSUME NEW p \in Checkers, Fire(p) \/ Pass(p)
      PROVE  OneEditor' /\ (overlaps' = 0 => Extends(ledger, ledger'))
  <2>1. p \in Procs BY DEF Procs
  <2>2. Looking(p) /\ UNCHANGED <<ledger, lock, aged, overlaps>> BY <1>6, <2>1, LookFacts
  <2>3. PICK it \in Item : /\ it.id = Looked(p).id /\ Steps(p, it)
                           /\ Looked(p).status # "armed" => it = Looked(p)
    BY <1>6, <2>1, LookFacts
  <2>4. /\ \A q \in Procs \ {p} : copy'[q] = copy[q] /\ at'[q] = at[q]
        /\ Len(copy'[p]) = Len(copy[p])
        /\ \A i \in 1..Len(copy[p]) : copy'[p][i] = IF i = at[p] THEN it ELSE copy[p][i]
        /\ at[p] \in 1..Len(copy[p])
    BY <2>1, <2>2, <2>3, StepsFacts
  <2>5. copy[p][at[p]] = Looked(p) BY DEF Looked
  <2>6. at[p] # 0 BY <2>4
  <2>7. Extends(ledger, copy[p]) => Extends(ledger, copy'[p]) BY <2>3, <2>4, <2>5 DEF Extends
  <2> QED BY <1>2, <2>1, <2>2, <2>4, <2>6, <2>7 DEF OneEditor
<1>7. ASSUME NEW p \in Procs, FireRaises(p)
      PROVE  OneEditor' /\ (overlaps' = 0 => Extends(ledger, ledger'))
  <2>1. Leave(p) /\ UNCHANGED <<ledger, overlaps>> BY <1>7 DEF FireRaises
  <2>2. /\ \A q \in Procs \ {p} : at'[q] = at[q] /\ copy'[q] = copy[q]
        /\ at'[p] = 0 /\ lock' = (IF lock = p THEN NoProc ELSE lock) /\ aged' = (aged /\ lock # p)
    BY <2>1, LeaveFacts
  <2>3. at[p] # 0
    <3>1. at[p] \in 1..Len(copy[p]) BY <1>7 DEF FireRaises, Looking
    <3> QED BY <3>1
  <2> QED BY <1>1, <1>2, <2>1, <2>2, <2>3 DEF OneEditor
<1>8. ASSUME NEW p \in Procs, PmCrash(p)
      PROVE  OneEditor' /\ (overlaps' = 0 => Extends(ledger, ledger'))
  <2>1. /\ at[p] # 0 /\ lock' = (IF lock = p THEN Corpse ELSE lock)
        /\ at' = [at EXCEPT ![p] = 0] /\ copy' = [copy EXCEPT ![p] = <<>>]
        /\ UNCHANGED <<ledger, aged, overlaps>>
    BY <1>8 DEF PmCrash
  <2>2. at'[p] = 0 /\ \A q \in Procs \ {p} : at'[q] = at[q] /\ copy'[q] = copy[q] BY <1>1, <2>1
  <2> QED BY <1>1, <1>2, <2>1, <2>2 DEF OneEditor
<1>9. CASE Ages
  <2>1. /\ (lock = Corpse /\ overlaps' = overlaps) \/ overlaps' = overlaps + 1
        /\ UNCHANGED <<ledger, lock, at, copy>>
    BY <1>9 DEF Ages, procVars
  <2> QED BY <1>2, <2>1 DEF OneEditor
<1>10. CASE Break
  <2>1. aged /\ lock' = NoProc /\ aged' = FALSE /\ UNCHANGED <<ledger, at, copy, overlaps>>
    BY <1>10 DEF Break, procVars
  <2> QED BY <1>1, <1>2, <2>1 DEF OneEditor
<1>11. CASE Happens \/ TaskDone \/ UNCHANGED pmVars
  <2>1. UNCHANGED <<ledger, lock, aged, at, copy, overlaps>>
    BY <1>11 DEF Happens, TaskDone, procVars, pmVars
  <2> QED BY <1>2, <2>1 DEF OneEditor
<1>12. \A p \in Askers \cup Checkers : p \in Procs BY DEF Procs
<1> QED BY <1>3, <1>4, <1>5, <1>6, <1>7, <1>8, <1>9, <1>10, <1>11, <1>12 DEF PmNext, Ticks

\* "Every writer of this ledger takes the lock": until a lock was broken under a live holder
\* or done without, no save of prospective.json loses an intention or arms one again.
THEOREM HistoryIsKept == PmSpec => HistoryKept
<1>1. PmInit => OneEditor BY DEF PmInit, OneEditor
<1>2. PmTypeOK /\ OneEditor /\ [PmNext]_pmVars => OneEditor' BY EditorKept
<1>3. PmTypeOK /\ PmTypeOK' /\ OneEditor /\ [PmNext]_pmVars =>
        [overlaps' = 0 =>
           \A n \in DOMAIN ledger :
             /\ n \in DOMAIN ledger' /\ ledger'[n].id = ledger[n].id
             /\ ledger[n].status # "armed" => ledger'[n].status = ledger[n].status]_pmVars
  <2> SUFFICES ASSUME PmTypeOK, PmTypeOK', OneEditor, [PmNext]_pmVars, overlaps' = 0
               PROVE  \A n \in DOMAIN ledger :
                        /\ n \in DOMAIN ledger' /\ ledger'[n].id = ledger[n].id
                        /\ ledger[n].status # "armed" => ledger'[n].status = ledger[n].status
    OBVIOUS
  <2>1. Extends(ledger, ledger') BY EditorKept
  <2>2. DOMAIN ledger = 1..Len(ledger) BY LenProperties DEF PmTypeOK
  <2>3. DOMAIN ledger' = 1..Len(ledger') BY LenProperties DEF PmTypeOK
  <2> QED BY <2>1, <2>2, <2>3 DEF Extends
<1> QED BY <1>1, <1>2, <1>3, PmTypeCorrect, PTL DEF PmSpec, HistoryKept
-----------------------------------------------------------------------------
\* Intentions: how often an intention may turn into a task (prospective.py, universal.py).
\* The occasions in 1..O that a copy of D does not tell; m[p] is what p's copy tells.
Untold(D, m, O) == {w \in D \X (1..O) : w[2] \notin m[w[1]]}

LEMMA UntoldSize ==
  ASSUME NEW D, IsFiniteSet(D), NEW m, NEW O \in Nat
  PROVE  /\ IsFiniteSet(Untold(D, m, O)) /\ Cardinality(Untold(D, m, O)) \in Nat
         /\ Cardinality(Untold(D, m, O)) <= Cardinality(D) * O
<1>1. IsFiniteSet(1..O) /\ Cardinality(1..O) = O BY FS_Interval
<1>2. IsFiniteSet(D \X (1..O)) /\ Cardinality(D \X (1..O)) = Cardinality(D) * O BY <1>1, FS_Product
<1>3. Untold(D, m, O) \subseteq D \X (1..O) BY DEF Untold
<1>4. IsFiniteSet(Untold(D, m, O)) /\ Cardinality(Untold(D, m, O)) <= Cardinality(D \X (1..O))
  BY <1>2, <1>3, FS_Subset
<1> QED BY <1>2, <1>4, FS_CardinalityType

LEMMA UntoldJoins ==
  ASSUME NEW D, IsFiniteSet(D), NEW p, p \notin D, NEW m, NEW O \in Nat, m[p] \subseteq 1..O
  PROVE  /\ Cardinality(m[p]) \in Nat /\ Cardinality(m[p]) <= O
         /\ Cardinality(Untold(D \cup {p}, m, O)) + Cardinality(m[p]) = Cardinality(Untold(D, m, O)) + O
<1>1. IsFiniteSet(1..O) /\ Cardinality(1..O) = O BY FS_Interval
<1>2. IsFiniteSet(m[p]) /\ Cardinality(m[p]) \in Nat /\ Cardinality(m[p]) <= O
  BY <1>1, FS_Subset, FS_CardinalityType
<1>3. PICK rest : rest = (1..O) \ m[p] OBVIOUS
<1>4. IsFiniteSet(rest) /\ Cardinality(rest) = O - Cardinality(m[p]) /\ Cardinality(rest) \in Nat
  <2>1. (1..O) \cap m[p] = m[p] OBVIOUS
  <2>2. IsFiniteSet(rest) /\ Cardinality(rest) = Cardinality(1..O) - Cardinality((1..O) \cap m[p])
    BY <1>1, <1>3, FS_Difference
  <2>3. Cardinality(rest) = O - Cardinality(m[p]) BY <1>1, <2>1, <2>2
  <2> QED BY <2>2, <2>3, FS_CardinalityType
<1>5. IsFiniteSet({p} \X rest) /\ Cardinality({p} \X rest) = Cardinality(rest)
  <2>1. IsFiniteSet({p}) /\ Cardinality({p}) = 1 BY FS_Singleton
  <2>2. IsFiniteSet({p} \X rest) /\ Cardinality({p} \X rest) = 1 * Cardinality(rest)
    BY <1>4, <2>1, FS_Product
  <2> QED BY <1>4, <2>2
<1>6. PICK told, own : told = Untold(D, m, O) /\ own = {p} \X rest OBVIOUS
<1>7. Untold(D \cup {p}, m, O) = told \cup own BY <1>3, <1>6 DEF Untold
<1>8. told \cap own = {} BY <1>3, <1>6 DEF Untold
<1>9. IsFiniteSet(told) /\ Cardinality(told) \in Nat BY <1>6, UntoldSize
<1>10. IsFiniteSet(own) /\ Cardinality(own) = Cardinality(rest) BY <1>5, <1>6
<1>11. Cardinality(told \cup own) = Cardinality(told) + Cardinality(own) - Cardinality(told \cap own)
  BY <1>9, <1>10, FS_Union
<1>12. Cardinality(told \cap own) = 0 BY <1>8, FS_EmptySet
<1>13. Cardinality(Untold(D \cup {p}, m, O)) = Cardinality(told) + (O - Cardinality(m[p]))
  <2>1. \A a, b, c, d \in Nat : a = b + c - d /\ d = 0 => a = b + c OBVIOUS
  <2>2. Cardinality(told \cup own) \in Nat BY <1>9, <1>10, FS_Union, FS_CardinalityType
  <2>3. Cardinality(told \cap own) \in Nat BY <1>12
  <2>4. Cardinality(own) \in Nat BY <1>4, <1>10
  <2>5. Cardinality(told \cup own) = Cardinality(told) + Cardinality(own)
    BY <1>9, <1>11, <1>12, <2>1, <2>2, <2>3, <2>4
  <2> QED BY <1>4, <1>7, <1>10, <2>5
<1> QED BY <1>2, <1>6, <1>9, <1>13

LEMMA UntoldSame ==
  ASSUME NEW D, NEW m, NEW k, NEW O, \A q \in D : m[q] = k[q]
  PROVE  Untold(D, m, O) = Untold(D, k, O)
BY DEF Untold

\* A copy tells more: one occasion x at least, or it may be nothing new.
LEMMA UntoldFewer ==
  ASSUME NEW D, IsFiniteSet(D), NEW m, NEW k, NEW O \in Nat, \A q \in D : m[q] \subseteq k[q]
  PROVE  /\ Cardinality(Untold(D, k, O)) \in Nat /\ Cardinality(Untold(D, m, O)) \in Nat
         /\ Cardinality(Untold(D, k, O)) <= Cardinality(Untold(D, m, O))
         /\ \A p \in D : \A x \in 1..O :
              x \in k[p] \ m[p] => Cardinality(Untold(D, k, O)) + 1 <= Cardinality(Untold(D, m, O))
<1>1. Untold(D, k, O) \subseteq Untold(D, m, O) BY DEF Untold
<1>2. IsFiniteSet(Untold(D, m, O)) BY UntoldSize
<1>3. ASSUME NEW p \in D, NEW x \in 1..O, x \in k[p] \ m[p]
      PROVE  <<p, x>> \in Untold(D, m, O) \ Untold(D, k, O)
  BY <1>3 DEF Untold
<1>4. /\ Cardinality(Untold(D, k, O)) \in Nat /\ Cardinality(Untold(D, m, O)) \in Nat
      /\ Cardinality(Untold(D, k, O)) <= Cardinality(Untold(D, m, O))
      /\ \A y : y \in Untold(D, m, O) \ Untold(D, k, O)
                  => Cardinality(Untold(D, k, O)) + 1 <= Cardinality(Untold(D, m, O))
  BY <1>1, <1>2, Sizes
<1> QED BY <1>3, <1>4

\* One more occasion, which each of D may have to learn of.
LEMMA UntoldMore ==
  ASSUME NEW D, IsFiniteSet(D), NEW m, NEW O \in Nat
  PROVE  /\ Cardinality(D) \in Nat
         /\ Cardinality(Untold(D, m, O + 1)) <= Cardinality(Untold(D, m, O)) + Cardinality(D)
<1>1. Untold(D, m, O + 1) \subseteq Untold(D, m, O) \cup (D \X {O + 1})
  <2>1. \A x \in 1..(O + 1) : x \in 1..O \/ x = O + 1 OBVIOUS
  <2> QED BY <2>1 DEF Untold
<1>2. IsFiniteSet(Untold(D, m, O)) /\ Cardinality(Untold(D, m, O)) \in Nat BY UntoldSize
<1>3. IsFiniteSet(D \X {O + 1}) /\ Cardinality(D \X {O + 1}) = Cardinality(D) /\ Cardinality(D) \in Nat
  <2>1. IsFiniteSet({O + 1}) /\ Cardinality({O + 1}) = 1 BY FS_Singleton
  <2>2. Cardinality(D) \in Nat BY FS_CardinalityType
  <2>3. IsFiniteSet(D \X {O + 1}) /\ Cardinality(D \X {O + 1}) = Cardinality(D) * 1 BY <2>1, FS_Product
  <2> QED BY <2>2, <2>3
<1>4. PICK a, b : a = Untold(D, m, O) /\ b = D \X {O + 1} OBVIOUS
<1>5. /\ IsFiniteSet(a \cup b) /\ Cardinality(a \cup b) = Cardinality(a) + Cardinality(b) - Cardinality(a \cap b)
      /\ IsFiniteSet(a \cap b)
  BY <1>2, <1>3, <1>4, FS_Union, FS_Subset
<1>6. Cardinality(a \cap b) \in Nat BY <1>5, FS_CardinalityType
<1>7. Cardinality(Untold(D, m, O + 1)) <= Cardinality(a \cup b) /\ Cardinality(a \cup b) \in Nat
      /\ Cardinality(Untold(D, m, O + 1)) \in Nat
  BY <1>1, <1>4, <1>5, FS_Subset, FS_CardinalityType
<1> QED BY <1>2, <1>3, <1>4, <1>5, <1>6, <1>7


\* The occasions an item tells it has served, by the kind of its condition.
Tells(k, it) ==
  IF k = "repeat" THEN ToSet(it.seen)
  ELSE IF k \in {"change", "every"} THEN {x \in Nat : it.seen # <<>> /\ 1 <= x /\ x <= Last(it.seen)}
  ELSE {x \in {1} : it.status = "fired"}

\* What the items of a ledger tell of intention i.
TellsOf(k, l, i) == UNION {Tells(k, l[n]) : n \in {m \in 1..Len(l) : l[m].id = i}}

\* An item is one of an intention made, its task is one of its own, and what it tells has happened.
TrueItem(it) ==
  /\ it.id <= made
  /\ it.task # 0 => it.task \in 1..Len(board) /\ board[it.task] = it.id
  /\ kind[it.id] = "every" => it.seen # <<>>
  /\ ~Forgets(it.id) =>
       /\ Tells(kind[it.id], it) \subseteq 1..Occasions(it.id)
       /\ kind[it.id] = "repeat" => \A m, n \in 1..Len(it.seen) : it.seen[m] = it.seen[n] => m = n

TrueList(l) ==
  /\ \A n \in 1..Len(l) : TrueItem(l[n])
  /\ \A m, n \in 1..Len(l) : l[m].id = l[n].id => m = n

\* Nothing happened to an intention before it was made.
InOrder ==
  /\ made <= MaxIntents /\ \A i \in 1..made : kind[i] \in Kinds
  /\ \A i \in Intents : i > made => occ[i] = 0
  /\ Len(board) <= MaxTasks /\ \A n \in 1..Len(board) : board[n] <= made
  /\ \A n \in finished : board[n] < made

Told == TrueList(ledger) /\ \A p \in Procs : TrueList(copy[p])

\* Whoever holds the lock and has not been overtaken, and those who are inside without it.
Holds(p) == lock = p /\ ~aged
Strays == {p \in Procs : at[p] # 0 /\ ~Holds(p)}
Watched == (lock \in Procs => at[lock] # 0) /\ IsFiniteSet(Strays) /\ Cardinality(Strays) <= overlaps

PmTally == InOrder /\ Told /\ Watched

LEMMA OccasionsOf ==
  ASSUME PmTypeOK, NEW i \in Intents, ~Forgets(i)
  PROVE  /\ Occasions(i) \in Nat /\ occ[i] \in Nat
         /\ kind[i] \in {"once", "event"} => Occasions(i) = IF occ[i] > 0 THEN 1 ELSE 0
         /\ kind[i] \in {"repeat", "change", "every"} => Occasions(i) = occ[i]
         /\ kind[i] \notin {"once", "event", "repeat", "change", "every"} =>
              Occasions(i) = IF \E k \in finished : board[k] = i - 1 THEN 1 ELSE 0
<1>1. occ[i] \in Nat BY DEF PmTypeOK
<1>2. kind[i] \in {"once", "event"} => Occasions(i) = IF occ[i] > 0 THEN 1 ELSE 0 BY DEF Occasions
<1>3. kind[i] \in {"repeat", "change", "every"} => Occasions(i) = occ[i] BY DEF Occasions
<1>4. kind[i] \notin {"once", "event", "repeat", "change", "every"} =>
        Occasions(i) = IF \E k \in finished : board[k] = i - 1 THEN 1 ELSE 0
  BY DEF Occasions
<1> QED BY <1>1, <1>2, <1>3, <1>4

\* What has happened, has.
Onward ==
  /\ made <= made' /\ made' \in Nat /\ \A i \in 1..made : kind'[i] = kind[i]
  /\ \A i \in Intents : occ'[i] \in Nat /\ occ[i] <= occ'[i]
  /\ Len(board') \in Nat /\ Len(board) <= Len(board')
  /\ \A n \in 1..Len(board) : board'[n] = board[n]
  /\ finished \subseteq finished'

LEMMA OnwardOccasions ==
  ASSUME PmTypeOK, PmTypeOK', InOrder, Onward, NEW i \in 1..made, ~Forgets(i)'
  PROVE  /\ i \in Intents /\ ~Forgets(i)
         /\ Occasions(i) \in Nat /\ Occasions(i)' \in Nat /\ Occasions(i) <= Occasions(i)'
         /\ occ'[i] = occ[i] /\ (\A k \in finished' : k \in finished) => Occasions(i)' = Occasions(i)
<1>1. made \in Nat /\ MaxIntents \in Nat /\ made <= MaxIntents BY ProspectiveAssumption DEF PmTypeOK, InOrder
<1>2. i \in Intents BY <1>1 DEF Intents
<1>3. kind'[i] = kind[i] /\ occ[i] <= occ'[i] /\ occ'[i] \in Nat /\ occ[i] \in Nat /\ ConsumedCap \in Nat
  BY <1>2, ProspectiveAssumption DEF Onward, PmTypeOK
<1>4. ~Forgets(i)
  <2>1. ~(kind[i] = "repeat" /\ occ'[i] > ConsumedCap) BY <1>3 DEF Forgets
  <2> QED BY <1>3, <2>1 DEF Forgets
<1>5. /\ Occasions(i) \in Nat
      /\ kind[i] \in {"once", "event"} => Occasions(i) = IF occ[i] > 0 THEN 1 ELSE 0
      /\ kind[i] \in {"repeat", "change", "every"} => Occasions(i) = occ[i]
      /\ kind[i] \notin {"once", "event", "repeat", "change", "every"} =>
           Occasions(i) = IF \E k \in finished : board[k] = i - 1 THEN 1 ELSE 0
  BY <1>2, <1>4, OccasionsOf
<1>6. /\ kind[i] \in {"once", "event"} => Occasions(i)' = IF occ'[i] > 0 THEN 1 ELSE 0
      /\ kind[i] \in {"repeat", "change", "every"} => Occasions(i)' = occ'[i]
      /\ kind[i] \notin {"once", "event", "repeat", "change", "every"} =>
           Occasions(i)' = IF \E k \in finished' : board'[k] = i - 1 THEN 1 ELSE 0
  <2>1. kind[i] \in {"once", "event"} => Occasions(i)' = IF occ'[i] > 0 THEN 1 ELSE 0 BY <1>3 DEF Occasions
  <2>2. kind[i] \in {"repeat", "change", "every"} => Occasions(i)' = occ'[i] BY <1>3 DEF Occasions
  <2>3. kind[i] \notin {"once", "event", "repeat", "change", "every"} =>
          Occasions(i)' = IF \E k \in finished' : board'[k] = i - 1 THEN 1 ELSE 0
    BY <1>3 DEF Occasions
  <2> QED BY <2>1, <2>2, <2>3
<1>7. \A k \in finished : k \in finished' /\ board'[k] = board[k]
  <2>1. finished \subseteq 1..Len(board) BY DEF PmTypeOK
  <2> QED BY <2>1 DEF Onward
<1>8. Occasions(i)' \in Nat /\ Occasions(i) <= Occasions(i)'
  <2>1. CASE kind[i] \in {"once", "event"} BY <1>3, <1>5, <1>6, <2>1
  <2>2. CASE kind[i] \in {"repeat", "change", "every"} BY <1>3, <1>5, <1>6, <2>2
  <2>3. CASE kind[i] \notin {"once", "event", "repeat", "change", "every"}
    <3>1. (\E k \in finished : board[k] = i - 1) => \E k \in finished' : board'[k] = i - 1 BY <1>7
    <3> QED BY <1>5, <1>6, <2>3, <3>1
  <2> QED BY <2>1, <2>2, <2>3
<1>9. ASSUME occ'[i] = occ[i], \A k \in finished' : k \in finished
      PROVE  Occasions(i)' = Occasions(i)
  <2>1. (\E k \in finished : board[k] = i - 1) <=> \E k \in finished' : board'[k] = i - 1 BY <1>7, <1>9
  <2> QED BY <1>5, <1>6, <1>9, <2>1
<1> QED BY <1>2, <1>4, <1>5, <1>8, <1>9

\* A list stays true, and more becomes true of it.
LEMMA StaysTrue ==
  ASSUME PmTypeOK, PmTypeOK', InOrder, Onward, NEW it \in Item, TrueItem(it)
  PROVE  TrueItem(it)'
<1>1. it.id \in 1..made /\ it.id <= made'
  <2>1. it.id \in Intents /\ it.id <= made /\ made \in Nat BY DEF Item, TrueItem, PmTypeOK
  <2>2. it.id \in Nat /\ it.id >= 1 BY <2>1, ProspectiveAssumption DEF Intents
  <2> QED BY <2>1, <2>2 DEF Onward
<1>2. kind'[it.id] = kind[it.id] BY <1>1 DEF Onward
<1>3. it.task # 0 => it.task \in 1..Len(board') /\ board'[it.task] = it.id
  <2>1. Len(board) \in Nat BY LenProperties DEF PmTypeOK
  <2> QED BY <2>1 DEF Onward, TrueItem
<1>4. ASSUME ~Forgets(it.id)'
      PROVE  /\ Tells(kind[it.id], it) \subseteq 1..(Occasions(it.id)')
             /\ kind[it.id] = "repeat" => \A m, n \in 1..Len(it.seen) : it.seen[m] = it.seen[n] => m = n
  <2>1. PICK i : i = it.id OBVIOUS
  <2>2. i \in 1..made /\ ~Forgets(i)' BY <1>1, <1>4, <2>1
  <2>3. /\ ~Forgets(i)
        /\ Occasions(i) \in Nat /\ Occasions(i)' \in Nat /\ Occasions(i) <= Occasions(i)'
    BY <2>2, OnwardOccasions
  <2>4. Tells(kind[it.id], it) \subseteq 1..Occasions(i) BY <2>1, <2>3 DEF TrueItem
  <2>5. Tells(kind[it.id], it) \subseteq 1..(Occasions(i)') BY <2>3, <2>4
  <2> QED BY <2>1, <2>3, <2>5 DEF TrueItem
<1> QED BY <1>1, <1>2, <1>3, <1>4 DEF TrueItem


LEMMA OnwardStep == ASSUME PmTypeOK, PmTypeOK', [PmNext]_pmVars PROVE Onward
<1>1. /\ made \in Nat /\ made <= made /\ board \in Seq(Intents) /\ Len(board) \in Nat
      /\ occ \in [Intents -> Nat] /\ made' \in Nat /\ Len(board') \in Nat /\ occ' \in [Intents -> Nat]
  BY LenProperties DEF PmTypeOK
<1>2. CASE UNCHANGED <<made, kind, occ, board>> /\ finished \subseteq finished'
  <2>1. /\ made' = made /\ kind' = kind /\ occ' = occ /\ board' = board /\ finished \subseteq finished' BY <1>2
  <2>2. \A i \in Intents : occ[i] \in Nat /\ occ[i] <= occ[i] BY <1>1
  <2> QED BY <1>1, <2>1, <2>2 DEF Onward
<1>3. ASSUME NEW p \in Procs, Edits(p) PROVE Onward
  <2>1. UNCHANGED <<occ, board, finished>> BY <1>3 DEF Edits
  <2>2. \A i \in Intents : occ'[i] \in Nat /\ occ[i] <= occ'[i] BY <1>1, <2>1
  <2>3. made <= made' /\ \A i \in 1..made : kind'[i] = kind[i]
    <3>1. CASE Cancels(p) BY <1>1, <3>1 DEF Cancels
    <3>2. CASE Adds(p)
      <4>1. made' = made + 1 /\ \E k \in Kinds : kind' = [kind EXCEPT ![made + 1] = k] BY <3>2 DEF Adds
      <4>2. \A i \in 1..made : i # made + 1 /\ i \in DOMAIN kind
        <5>1. made + 1 \in Intents /\ DOMAIN kind = Intents /\ MaxIntents \in Nat
          BY <3>2, ProspectiveAssumption DEF Adds, PmTypeOK
        <5> QED BY <1>1, <5>1 DEF Intents
      <4> QED BY <1>1, <4>1, <4>2
    <3> QED BY <1>3, <3>1, <3>2 DEF Edits
  <2> QED BY <1>1, <2>1, <2>2, <2>3 DEF Onward
<1>4. ASSUME NEW p \in Procs, Fire(p) PROVE Onward
  <2>1. Looking(p) /\ board' = Append(board, Looked(p).id) /\ UNCHANGED <<made, kind, occ, finished>>
    BY <1>4 DEF Fire
  <2>2. Looked(p).id \in Intents BY <2>1, LookedFacts DEF Item
  <2>3. Len(board') = Len(board) + 1 /\ \A n \in 1..Len(board) : board'[n] = board[n]
    BY <1>1, <2>1, <2>2, AppendProperties
  <2>4. \A i \in Intents : occ'[i] \in Nat /\ occ[i] <= occ'[i] BY <1>1, <2>1
  <2> QED BY <1>1, <2>1, <2>3, <2>4 DEF Onward
<1>5. CASE Happens
  <2>1. PICK i \in 1..made : occ' = [occ EXCEPT ![i] = @ + 1] BY <1>5 DEF Happens
  <2>2. UNCHANGED <<made, kind, board, finished>> BY <1>5 DEF Happens
  <2>3. \A j \in Intents : occ'[j] \in Nat /\ occ[j] <= occ'[j] BY <1>1, <2>1
  <2> QED BY <1>1, <2>2, <2>3 DEF Onward
<1>6. ASSUME NEW p \in Procs, Check(p) \/ Pass(p) \/ Save(p) \/ FireRaises(p) \/ PmCrash(p)
      PROVE  UNCHANGED <<made, kind, occ, board, finished>>
  BY <1>6 DEF Check, Pass, Save, FireRaises, PmCrash
<1>7. CASE Ages \/ Break \/ UNCHANGED pmVars BY <1>2, <1>7 DEF Ages, Break, pmVars
<1>8. CASE TaskDone BY <1>2, <1>8 DEF TaskDone
<1>9. \A p \in Askers \cup Checkers : p \in Procs BY DEF Procs
<1>10. CASE \E p \in Procs : Check(p) \/ Pass(p) \/ Save(p) \/ FireRaises(p) \/ PmCrash(p) BY <1>2, <1>6, <1>10
<1>11. CASE \E p \in Procs : Edits(p) \/ Fire(p) BY <1>3, <1>4, <1>11
<1> QED BY <1>5, <1>7, <1>8, <1>9, <1>10, <1>11 DEF PmNext, Ticks, Edit, EditUnlocked

\* The tasks of an intention on the board.
LEMMA TasksAre ==
  ASSUME PmTypeOK, NEW i \in Intents
  PROVE  /\ IsFiniteSet({n \in DOMAIN board : board[n] = i})
         /\ TasksOf(i) \in Nat /\ TasksOf(i) <= Len(board)
<1>1. Len(board) \in Nat /\ DOMAIN board = 1..Len(board) BY LenProperties DEF PmTypeOK
<1>2. IsFiniteSet(1..Len(board)) /\ Cardinality(1..Len(board)) = Len(board)
  <2>1. \A b \in Nat : IsFiniteSet(1..b) /\ Cardinality(1..b) = b BY FS_Interval
  <2> QED BY <1>1, <2>1
<1>3. {n \in DOMAIN board : board[n] = i} \subseteq 1..Len(board) BY <1>1
<1>4. /\ IsFiniteSet({n \in DOMAIN board : board[n] = i})
      /\ Cardinality({n \in DOMAIN board : board[n] = i}) <= Len(board)
  BY <1>2, <1>3, FS_Subset
<1> QED BY <1>4, FS_CardinalityType DEF TasksOf

LEMMA TaskQueued ==
  ASSUME PmTypeOK, NEW i \in Intents, NEW j \in Intents, board' = Append(board, j)
  PROVE  TasksOf(i)' = IF i = j THEN TasksOf(i) + 1 ELSE TasksOf(i)
<1>1. board \in Seq(Intents) /\ Len(board) \in Nat /\ DOMAIN board = 1..Len(board) BY LenProperties DEF PmTypeOK
<1>2. /\ board' \in Seq(Intents) /\ Len(board') = Len(board) + 1 /\ board'[Len(board) + 1] = j
      /\ \A n \in 1..Len(board) : board'[n] = board[n]
  BY <1>1, AppendProperties
<1>3. DOMAIN board' = 1..(Len(board) + 1) BY <1>2, LenProperties
<1>4. \A n \in 1..(Len(board) + 1) : n \in 1..Len(board) \/ n = Len(board) + 1 BY <1>1
<1>5. 1..Len(board) \subseteq 1..(Len(board) + 1) /\ Len(board) + 1 \in 1..(Len(board) + 1) BY <1>1
<1>6. PICK s : s = {n \in DOMAIN board : board[n] = i} OBVIOUS
<1>7. IsFiniteSet(s) /\ TasksOf(i) = Cardinality(s) BY <1>6, TasksAre DEF TasksOf
<1>8. Len(board) + 1 \notin s BY <1>1, <1>6
<1>9. TasksOf(i)' = Cardinality({n \in DOMAIN board' : board'[n] = i}) BY DEF TasksOf
<1>10. CASE i = j
  <2>1. {n \in DOMAIN board' : board'[n] = i} = s \cup {Len(board) + 1}
    BY <1>1, <1>2, <1>3, <1>4, <1>5, <1>6, <1>10
  <2>2. Cardinality(s \cup {Len(board) + 1}) = Cardinality(s) + 1 BY <1>7, <1>8, FS_AddElement
  <2> QED BY <1>7, <1>9, <1>10, <2>1, <2>2
<1>11. CASE i # j
  <2>1. {n \in DOMAIN board' : board'[n] = i} = s
    BY <1>1, <1>2, <1>3, <1>4, <1>5, <1>6, <1>11
  <2> QED BY <1>7, <1>9, <1>11, <2>1
<1> QED BY <1>10, <1>11


\* What an item tells is numbers.
LEMMA LastSeen ==
  ASSUME NEW it \in Item, it.seen # <<>>
  PROVE  Last(it.seen) \in Nat
<1>1. it.seen \in Seq(Nat) BY DEF Item
<1>2. Len(it.seen) \in Nat /\ Len(it.seen) # 0 /\ \A i \in 1..Len(it.seen) : it.seen[i] \in Nat
  BY <1>1, LenProperties, EmptySeq, ElementOfSeq
<1>3. Len(it.seen) \in 1..Len(it.seen) BY <1>2
<1> QED BY <1>2, <1>3 DEF Last

LEMMA TellsLast ==
  \A k \in {"change", "every"} : \A it, o : it.seen = <<o>> => Tells(k, it) = {x \in Nat : 1 <= x /\ x <= o}
<1> SUFFICES ASSUME NEW k \in {"change", "every"}, NEW it, NEW o, it.seen = <<o>>
             PROVE  Tells(k, it) = {x \in Nat : 1 <= x /\ x <= o}
  OBVIOUS
<1>1. <<o>> # <<>> /\ Last(<<o>>) = o BY DEF Last
<1> QED BY <1>1 DEF Tells

\* A list that has not forgotten: the occurrences it holds are fewer than what happened.
LEMMA RoomForMore ==
  ASSUME NEW s \in Seq(Nat), NEW o \in Nat, NEW x \in 1..o, x \notin ToSet(s), ToSet(s) \subseteq 1..o,
         \A m, n \in 1..Len(s) : s[m] = s[n] => m = n
  PROVE  Len(s) + 1 <= o
<1>1. Len(s) \in Nat /\ DOMAIN s = 1..Len(s) /\ s \in [1..Len(s) -> Nat] BY LenProperties
<1>2. IsFiniteSet(1..o) /\ Cardinality(1..o) = o BY FS_Interval
<1>3. IsFiniteSet((1..o) \ {x}) /\ Cardinality((1..o) \ {x}) = o - 1 BY <1>2, FS_RemoveElement
<1>4. \A n \in 1..Len(s) : s[n] \in ToSet(s) BY <1>1 DEF ToSet
<1>5. s \in [1..Len(s) -> (1..o) \ {x}] BY <1>1, <1>4
<1>6. s \in Injection(1..Len(s), (1..o) \ {x}) BY <1>5 DEF Injection, IsInjective
<1>7. Cardinality(1..Len(s)) <= o - 1 BY <1>3, <1>6, FS_Injection
<1>8. \A b \in Nat : Cardinality(1..b) = b BY FS_Interval
<1>9. Cardinality(1..Len(s)) = Len(s) BY <1>1, <1>8
<1> QED BY <1>1, <1>7, <1>9

\* What is consumed while nothing has to be forgotten.
Kept(c) == SubSeq(c, IF Len(c) > ConsumedCap THEN Len(c) - ConsumedCap + 1 ELSE 1, Len(c))

LEMMA KeptWhole ==
  ASSUME NEW c \in Seq(Nat), Len(c) <= ConsumedCap
  PROVE  Kept(c) = c
<1>1. Len(c) \in Nat BY LenProperties
<1>2. ~(Len(c) > ConsumedCap) BY <1>1, ProspectiveAssumption
<1>3. SubSeq(c, 1, Len(c)) = c
  <2>1. /\ Len(SubSeq(c, 1, Len(c))) = Len(c) /\ SubSeq(c, 1, Len(c)) \in Seq(Nat)
        /\ \A i \in 1..Len(c) : SubSeq(c, 1, Len(c))[i] = c[i]
    BY <1>1
  <2> QED BY <2>1, SeqEqual
<1> QED BY <1>2, <1>3 DEF Kept


LEMMA FiredIs ==
  ASSUME NEW it \in Item, NEW n
  PROVE  /\ FiredAs(it, n).id = it.id /\ FiredAs(it, n).task = n
         /\ kind[it.id] = "repeat" =>
              FiredAs(it, n).seen = Kept(Append(it.seen, Min(Unconsumed(it))))
         /\ kind[it.id] \in {"change", "every"} => FiredAs(it, n).seen = <<occ[it.id]>>
         /\ kind[it.id] \notin {"repeat", "change", "every"} => FiredAs(it, n).status = "fired"
<1> DEFINE c == Append(it.seen, Min(Unconsumed(it)))
           left == SubSeq(c, IF Len(c) > ConsumedCap THEN Len(c) - ConsumedCap + 1 ELSE 1, Len(c))
           seen == CASE kind[it.id] \in {"event", "repeat"} -> left
                     [] kind[it.id] \in {"change", "every"} -> <<occ[it.id]>>
                     [] OTHER -> it.seen
           status == IF kind[it.id] \in {"repeat", "change", "every"} THEN "armed" ELSE "fired"
<1>1. FiredAs(it, n) = [it EXCEPT !.task = n, !.status = status, !.seen = seen] BY Zenon DEF FiredAs
<1>2. kind[it.id] = "repeat" => seen = Kept(c) BY DEF Kept
<1>3. kind[it.id] \in {"change", "every"} => seen = <<occ[it.id]>>
  <2> HIDE DEF left
  <2> QED OBVIOUS
<1>4. kind[it.id] \notin {"repeat", "change", "every"} => status = "fired" OBVIOUS
<1>5. \A a, b, d : LET f == [it EXCEPT !.task = a, !.status = b, !.seen = d]
                   IN  f.id = it.id /\ f.task = a /\ f.status = b /\ f.seen = d
  BY DEF Item
<1> HIDE DEF seen, status
<1>6. /\ FiredAs(it, n).id = it.id /\ FiredAs(it, n).task = n /\ FiredAs(it, n).status = status
      /\ FiredAs(it, n).seen = seen
  BY <1>1, <1>5
<1>7. kind[it.id] = "repeat" => FiredAs(it, n).seen = Kept(c) BY <1>2, <1>6
<1> QED BY <1>3, <1>4, <1>6, <1>7

\* A due intention has an occasion it does not tell of yet, and tells it once fired.
LEMMA FiredTells ==
  ASSUME PmTypeOK, InOrder, NEW p \in Procs, TrueList(copy[p]), NEW it \in Item,
         Looking(p), it = Looked(p), it.status = "armed", Due(p, it), ~Forgets(it.id), NEW t
  PROVE  /\ \E x \in 1..Occasions(it.id) :
              x \notin Tells(kind[it.id], it) /\ x \in Tells(kind[it.id], FiredAs(it, t))
         /\ Tells(kind[it.id], it) \subseteq Tells(kind[it.id], FiredAs(it, t))
         /\ Tells(kind[it.id], FiredAs(it, t)) \subseteq 1..Occasions(it.id)
         /\ kind[it.id] = "repeat" =>
              LET s == FiredAs(it, t).seen IN \A m, n \in 1..Len(s) : s[m] = s[n] => m = n
         /\ kind[it.id] = "every" => FiredAs(it, t).seen # <<>>
<1>1. PICK i, k, o : i = it.id /\ k = kind[i] /\ o = Occasions(i) OBVIOUS
<1>2. i \in Intents /\ it.seen \in Seq(Nat) BY <1>1 DEF Item
<1>3. TrueItem(it) BY <1>1, LookedFacts DEF TrueList
<1>4. /\ i <= made /\ Tells(k, it) \subseteq 1..o /\ (k = "every" => it.seen # <<>>)
      /\ k = "repeat" => \A m, n \in 1..Len(it.seen) : it.seen[m] = it.seen[n] => m = n
  BY <1>1, <1>3 DEF TrueItem
<1>5. /\ o \in Nat /\ occ[i] \in Nat
      /\ k \in {"once", "event"} => o = IF occ[i] > 0 THEN 1 ELSE 0
      /\ k \in {"repeat", "change", "every"} => o = occ[i]
      /\ k \notin {"once", "event", "repeat", "change", "every"} =>
           o = IF \E n \in finished : board[n] = i - 1 THEN 1 ELSE 0
  BY <1>1, <1>2, OccasionsOf
<1>6. k \in {"once", "event", "repeat", "change", "every", "after"}
  <2>1. i \in 1..made BY <1>2, <1>4, ProspectiveAssumption DEF Intents, PmTypeOK
  <2> QED BY <1>1, <2>1, ProspectiveAssumption DEF InOrder
<1>7. PICK f : f = FiredAs(it, t) OBVIOUS
<1>8. CASE k = "repeat"
  <2>1. PICK x : x = Min(Unconsumed(it)) OBVIOUS
  <2>2. Unconsumed(it) # {} BY <1>1, <1>8 DEF Due
  <2>3. x \in Unconsumed(it) BY <2>1, <2>2, NextOccurrence
  <2>4. x \in 1..o /\ x \notin ToSet(it.seen) BY <1>1, <1>5, <1>8, <2>3 DEF Unconsumed
  <2>5. Tells(k, it) = ToSet(it.seen) BY <1>8 DEF Tells
  <2>6. Len(it.seen) + 1 <= o BY <1>2, <1>4, <1>5, <1>8, <2>4, <2>5, RoomForMore
  <2>7. o <= ConsumedCap BY <1>1, <1>5, <1>8, ProspectiveAssumption DEF Forgets
  <2>8. Len(it.seen) \in Nat BY <1>2, LenProperties
  <2>9. x \in Nat /\ Len(it.seen) + 1 <= ConsumedCap BY <1>5, <2>4, <2>6, <2>7, <2>8, ProspectiveAssumption
  <2>10. PICK c : c = Append(it.seen, x) OBVIOUS
  <2>20. c \in Seq(Nat) /\ Len(c) <= ConsumedCap BY <1>2, <2>9, <2>10, AppendProperties
  <2>11. f.seen = c
    <3>1. kind[it.id] = "repeat" BY <1>1, <1>8
    <3>2. FiredAs(it, t).seen = Kept(Append(it.seen, Min(Unconsumed(it)))) BY <3>1, FiredIs
    <3> QED BY <1>7, <2>1, <2>10, <2>20, <3>2, KeptWhole
  <2>12. /\ Len(c) = Len(it.seen) + 1 /\ c[Len(it.seen) + 1] = x /\ c \in Seq(Nat)
         /\ \A n \in 1..Len(it.seen) : c[n] = it.seen[n]
    BY <1>2, <2>9, <2>10, AppendProperties
  <2>13. DOMAIN c = 1..(Len(it.seen) + 1) /\ DOMAIN it.seen = 1..Len(it.seen) BY <1>2, <2>12, LenProperties
  <2>14. \A n \in 1..(Len(it.seen) + 1) : n \in 1..Len(it.seen) \/ n = Len(it.seen) + 1 BY <2>8
  <2>15. 1..Len(it.seen) \subseteq 1..(Len(it.seen) + 1) /\ Len(it.seen) + 1 \in 1..(Len(it.seen) + 1) BY <2>8
  <2>16. ToSet(c) = ToSet(it.seen) \cup {x} BY <2>12, <2>13, <2>14, <2>15 DEF ToSet
  <2>17. \A n \in 1..Len(it.seen) : it.seen[n] # x BY <2>4, <2>13 DEF ToSet
  <2>22. \A m, n \in 1..Len(it.seen) : it.seen[m] = it.seen[n] => m = n BY <1>4, <1>8
  <2>18. \A m, n \in 1..Len(c) : c[m] = c[n] => m = n
    <3> SUFFICES ASSUME NEW m \in 1..Len(c), NEW n \in 1..Len(c), c[m] = c[n] PROVE m = n OBVIOUS
    <3>1. m \in 1..Len(it.seen) \/ m = Len(it.seen) + 1 BY <2>12, <2>14
    <3>2. n \in 1..Len(it.seen) \/ n = Len(it.seen) + 1 BY <2>12, <2>14
    <3>3. CASE m \in 1..Len(it.seen) /\ n \in 1..Len(it.seen)
      <4>1. it.seen[m] = it.seen[n] BY <2>12, <3>3
      <4> QED BY <2>22, <3>3, <4>1
    <3>4. CASE m \in 1..Len(it.seen) /\ n = Len(it.seen) + 1
      <4>1. it.seen[m] = x BY <2>12, <3>4
      <4> QED BY <2>17, <3>4, <4>1
    <3>5. CASE m = Len(it.seen) + 1 /\ n \in 1..Len(it.seen)
      <4>1. it.seen[n] = x BY <2>12, <3>5
      <4> QED BY <2>17, <3>5, <4>1
    <3> QED BY <3>1, <3>2, <3>3, <3>4, <3>5
  <2>19. Tells(k, f) = ToSet(c) BY <1>8, <2>11 DEF Tells
  <2>21. ToSet(c) \subseteq 1..o BY <1>4, <2>4, <2>5, <2>16
  <2> QED BY <1>1, <1>7, <1>8, <2>4, <2>5, <2>11, <2>16, <2>18, <2>19, <2>21
<1>9. CASE k \in {"change", "every"}
  <2>1. f.seen = <<occ[i]>> BY <1>1, <1>7, <1>9, FiredIs
  <2>2. Tells(k, f) = {x \in Nat : 1 <= x /\ x <= o} BY <1>5, <1>9, <2>1, TellsLast
  <2>3. it.seen # <<>> BY <1>1, <1>4, <1>9 DEF Due
  <2>4. Last(it.seen) \in Nat BY <2>3, LastSeen
  <2>10. Last(it.seen) # o
    <3>1. k = "change" => Last(it.seen) # occ[i] BY <1>1 DEF Due
    <3>2. k = "every" => Last(it.seen) < occ[i] BY <1>1 DEF Due
    <3> QED BY <1>5, <1>9, <2>4, <3>1, <3>2
  <2>5. Tells(k, it) = {x \in Nat : 1 <= x /\ x <= Last(it.seen)} BY <1>9, <2>3 DEF Tells
  <2>6. Last(it.seen) < o
    <3>1. CASE Last(it.seen) = 0 BY <1>5, <2>10, <3>1
    <3>2. CASE Last(it.seen) # 0
      <4>1. Last(it.seen) \in Tells(k, it) BY <2>4, <2>5, <3>2
      <4>2. Last(it.seen) <= o BY <1>4, <1>5, <4>1
      <4> QED BY <1>5, <2>10, <2>4, <4>2
    <3> QED BY <3>1, <3>2
  <2>7. o \in 1..o /\ o \notin Tells(k, it) /\ o \in Tells(k, f) BY <1>5, <2>2, <2>4, <2>5, <2>6
  <2>8. Tells(k, it) \subseteq Tells(k, f) /\ Tells(k, f) \subseteq 1..o BY <1>5, <2>2, <2>4, <2>5, <2>6
  <2>9. f.seen # <<>> BY <2>1
  <2> QED BY <1>1, <1>7, <1>9, <2>7, <2>8, <2>9
<1>10. CASE k \in {"once", "event", "after"}
  <2>1. f.status = "fired" BY <1>1, <1>7, <1>10, FiredIs
  <2>2. Tells(k, f) = {1} /\ Tells(k, it) = {} BY <1>10, <2>1 DEF Tells
  <2>3. o = 1
    <3>1. CASE k = "once" BY <1>1, <1>5, <3>1 DEF Due
    <3>2. CASE k = "event"
      <4>1. Unconsumed(it) # {} BY <1>1, <3>2 DEF Due
      <4>2. 1..occ[i] # {} BY <1>1, <4>1 DEF Unconsumed
      <4> QED BY <1>5, <3>2, <4>2
    <3>3. CASE k = "after"
      <4>1. PICK n \in DOMAIN copy[p] : copy[p][n].id = i - 1 /\ copy[p][n].task \in finished
        BY <1>1, <3>3 DEF Due
      <4>2. copy[p] \in Seq(Item) /\ DOMAIN copy[p] = 1..Len(copy[p]) BY LenProperties DEF PmTypeOK
      <4>3. TrueItem(copy[p][n]) BY <4>1, <4>2 DEF TrueList
      <4>4. copy[p][n].task # 0 BY <4>1 DEF PmTypeOK
      <4>5. board[copy[p][n].task] = i - 1 BY <4>1, <4>3, <4>4 DEF TrueItem
      <4> QED BY <1>5, <3>3, <4>1, <4>5
    <3> QED BY <1>10, <3>1, <3>2, <3>3
  <2>4. 1 \in 1..o BY <2>3
  <2>5. {1} \subseteq 1..o BY <2>3
  <2> QED BY <1>1, <1>7, <1>10, <2>2, <2>4, <2>5
<1> QED BY <1>6, <1>8, <1>9, <1>10


\* Lists of the same intentions, of which one tells what the other does, or more.
LEMMA TellsSame ==
  ASSUME NEW k, NEW i, NEW l, NEW m, Len(l) \in Nat, Len(m) \in Nat, Len(l) <= Len(m),
         \A n \in 1..Len(l) : l[n].id = m[n].id /\ (l[n].id = i => Tells(k, l[n]) = Tells(k, m[n])),
         \A n \in 1..Len(m) : n > Len(l) => m[n].id # i
  PROVE  TellsOf(k, m, i) = TellsOf(k, l, i)
<1>1. \A x : x \in TellsOf(k, l, i) <=> \E n \in 1..Len(l) : l[n].id = i /\ x \in Tells(k, l[n])
  BY DEF TellsOf
<1>2. \A x : x \in TellsOf(k, m, i) <=> \E n \in 1..Len(m) : m[n].id = i /\ x \in Tells(k, m[n])
  BY DEF TellsOf
<1>3. \A n \in 1..Len(m) : n \in 1..Len(l) \/ n > Len(l) OBVIOUS
<1>4. \A n \in 1..Len(l) : n \in 1..Len(m) OBVIOUS
<1>5. \A x : x \in TellsOf(k, m, i) <=> x \in TellsOf(k, l, i) BY <1>1, <1>2, <1>3, <1>4
<1> QED BY <1>5

LEMMA TellsMore ==
  ASSUME NEW k, NEW i, NEW l, NEW m, Len(m) = Len(l),
         \A n \in 1..Len(l) : l[n].id = m[n].id /\ (l[n].id = i => Tells(k, l[n]) \subseteq Tells(k, m[n]))
  PROVE  TellsOf(k, l, i) \subseteq TellsOf(k, m, i)
BY DEF TellsOf

LEMMA TellsOne ==
  ASSUME NEW k, NEW l, TrueList(l), NEW n \in 1..Len(l)
  PROVE  TellsOf(k, l, l[n].id) = Tells(k, l[n])
<1>1. {m \in 1..Len(l) : l[m].id = l[n].id} = {n} BY DEF TrueList
<1> QED BY <1>1 DEF TellsOf

LEMMA TellsTrue ==
  ASSUME NEW l, TrueList(l), NEW i, ~Forgets(i)
  PROVE  TellsOf(kind[i], l, i) \subseteq 1..Occasions(i)
BY DEF TrueList, TrueItem, TellsOf

LEMMA ListStaysTrue ==
  ASSUME PmTypeOK, PmTypeOK', InOrder, Onward, NEW l \in Seq(Item), TrueList(l)
  PROVE  TrueList(l)'
<1>1. \A n \in 1..Len(l) : l[n] \in Item /\ TrueItem(l[n]) BY ElementOfSeq DEF TrueList
<1>2. ASSUME NEW n \in 1..Len(l) PROVE TrueItem(l[n])'
  <2>1. PICK it \in Item : it = l[n] /\ TrueItem(it) BY <1>1
  <2>2. TrueItem(it)' BY <2>1, StaysTrue
  <2> QED BY <2>1, <2>2
<1> QED BY <1>2 DEF TrueList

\* add and cancel.
LEMMA EditTells ==
  ASSUME PmTypeOK, PmTypeOK', InOrder, Onward, TrueList(ledger), NEW p \in Procs, Edits(p)
  PROVE  /\ TrueList(copy[p])'
         /\ \A i \in 1..made : TellsOf(kind[i], copy'[p], i) = TellsOf(kind[i], ledger, i)
<1>1. /\ ledger \in Seq(Item) /\ Len(ledger) \in Nat /\ made \in Nat /\ copy \in [Procs -> Seq(Item)]
      /\ DOMAIN ledger = 1..Len(ledger) /\ \A n \in 1..Len(ledger) : ledger[n] \in Item
  BY LenProperties, ElementOfSeq DEF PmTypeOK
<1>2. TrueList(ledger)'
  <2>1. PICK l \in Seq(Item) : l = ledger /\ TrueList(l) BY <1>1
  <2>2. TrueList(l)' BY <2>1, ListStaysTrue
  <2>3. ledger' = ledger BY DEF Edits
  <2> QED BY <2>1, <2>2, <2>3
<1>3. PICK l : l = copy'[p] OBVIOUS
<1>4. CASE Adds(p)
  <2>1. PICK k \in Kinds : /\ made' = made + 1 /\ made + 1 \in Intents
                           /\ kind' = [kind EXCEPT ![made + 1] = k]
                           /\ copy' = [copy EXCEPT ![p] = Append(ledger, New(made + 1, k))]
    BY <1>4 DEF Adds
  <2>2. PICK it : it = New(made + 1, k) OBVIOUS
  <2>3. it \in Item /\ it.id = made + 1 /\ it.task = 0 /\ it.status = "armed"
        /\ it.seen = IF k = "every" THEN <<occ[made + 1]>> ELSE <<>>
    <3>1. occ[made + 1] \in Nat BY <2>1 DEF PmTypeOK
    <3>2. <<>> \in Seq(Nat) /\ <<occ[made + 1]>> \in Seq(Nat) BY <3>1
    <3>3. (IF k = "every" THEN <<occ[made + 1]>> ELSE <<>>) \in Seq(Nat) BY <3>2
    <3> QED BY <2>1, <2>2, <3>3 DEF New, Item
  <2>4. l = Append(ledger, it) BY <1>1, <1>3, <2>1, <2>2
  <2>5. /\ l \in Seq(Item) /\ Len(l) = Len(ledger) + 1 /\ l[Len(ledger) + 1] = it
        /\ \A n \in 1..Len(ledger) : l[n] = ledger[n]
    BY <1>1, <2>3, <2>4, AppendProperties
  <2>6. \A n \in 1..Len(l) : n \in 1..Len(ledger) \/ n = Len(ledger) + 1 BY <1>1, <2>5
  <2>7. \A n \in 1..Len(ledger) : ledger[n].id <= made /\ ledger[n].id \in Nat /\ ledger[n].id # made + 1
    <3>1. \A n \in 1..Len(ledger) : ledger[n].id \in Intents BY <1>1 DEF Item
    <3>2. \A n \in 1..Len(ledger) : ledger[n].id <= made BY DEF TrueList, TrueItem
    <3>3. \A n \in Intents : n \in Nat BY ProspectiveAssumption DEF Intents
    <3> QED BY <1>1, <3>1, <3>2, <3>3
  <2>8. TrueItem(it)'
    <3>1. kind'[it.id] = k
      <4>1. kind \in [Intents -> Kinds \cup {"none"}] BY DEF PmTypeOK
      <4> QED BY <2>1, <2>3, <4>1
    <3>2. occ'[it.id] = 0 /\ occ[made + 1] = 0
      <4>1. occ' = occ BY DEF Edits
      <4>2. occ[made + 1] = 0 BY <1>1, <2>1 DEF InOrder
      <4> QED BY <2>3, <4>1, <4>2
    <3>3. Tells(k, it) = {}
      <4>1. CASE k = "every"
        <5>1. it.seen = <<0>> BY <2>3, <3>2, <4>1
        <5>2. Tells(k, it) = {x \in Nat : 1 <= x /\ x <= 0} BY <4>1, <5>1, TellsLast
        <5> QED BY <5>2
      <4>2. CASE k = "repeat"
        <5>1. it.seen = <<>> BY <2>3, <4>2
        <5> QED BY <4>2, <5>1 DEF Tells, ToSet
      <4>3. CASE k = "change"
        <5>1. it.seen = <<>> BY <2>3, <4>3
        <5> QED BY <4>3, <5>1 DEF Tells
      <4>4. CASE k \notin {"every", "repeat", "change"} BY <2>3, <4>4 DEF Tells
      <4> QED BY <4>1, <4>2, <4>3, <4>4
    <3>4. k = "every" => it.seen # <<>>
      <4>1. \A o : <<o>> # <<>> OBVIOUS
      <4> QED BY <2>3, <4>1
    <3>5. k = "repeat" => \A m, n \in 1..Len(it.seen) : it.seen[m] = it.seen[n] => m = n
      <4>1. CASE k = "repeat"
        <5>1. it.seen = <<>> BY <2>3, <4>1
        <5>2. 1..Len(it.seen) = {} BY <5>1
        <5> QED BY <5>2
      <4> QED BY <4>1
    <3>6. it.id <= made' BY <1>1, <2>1, <2>3
    <3> QED BY <2>3, <3>1, <3>3, <3>4, <3>5, <3>6 DEF TrueItem
  <2>9. \A n \in 1..Len(l) : TrueItem(l[n])'
    <3>1. \A n \in 1..Len(ledger) : TrueItem(l[n])'
      <4>1. ledger' = ledger BY DEF Edits
      <4>2. \A n \in 1..Len(ledger) : TrueItem(ledger[n])' BY <1>2, <4>1 DEF TrueList
      <4> SUFFICES ASSUME NEW n \in 1..Len(ledger) PROVE TrueItem(l[n])' OBVIOUS
      <4>3. PICK a : a = l[n] OBVIOUS
      <4>4. a = ledger[n] /\ a = ledger'[n] BY <2>5, <4>1, <4>3
      <4>5. TrueItem(a)' BY <4>2, <4>4
      <4> QED BY <4>3, <4>5
    <3> QED BY <2>5, <2>6, <2>8, <3>1
  <2>10. \A m, n \in 1..Len(l) : l[m].id = l[n].id => m = n
    <3>1. \A m, n \in 1..Len(ledger) : ledger[m].id = ledger[n].id => m = n BY DEF TrueList
    <3> QED BY <2>3, <2>5, <2>6, <2>7, <3>1
  <2>11. TrueList(l)' BY <2>9, <2>10 DEF TrueList
  <2>12. \A i \in 1..made : TellsOf(kind[i], l, i) = TellsOf(kind[i], ledger, i)
    <3> SUFFICES ASSUME NEW i \in 1..made PROVE TellsOf(kind[i], l, i) = TellsOf(kind[i], ledger, i)
      OBVIOUS
    <3>1. \A n \in 1..Len(l) : n > Len(ledger) => l[n].id # i BY <1>1, <2>3, <2>5, <2>6
    <3> QED BY <1>1, <2>5, <3>1, TellsSame
  <2> QED BY <1>3, <2>11, <2>12
<1>5. CASE Cancels(p)
  <2>1. PICK n \in 1..Len(ledger) :
          /\ ledger[n].status = "armed"
          /\ copy' = [copy EXCEPT ![p] = [ledger EXCEPT ![n].status = "cancelled"]]
          /\ UNCHANGED <<made, kind>>
    BY <1>1, <1>5 DEF Cancels
  <2>2. PICK it : it = [ledger[n] EXCEPT !.status = "cancelled"] OBVIOUS
  <2>3. /\ it \in Item /\ it.id = ledger[n].id /\ it.seen = ledger[n].seen /\ it.task = ledger[n].task
        /\ it.status = "cancelled"
    BY <1>1, <2>1, <2>2 DEF Item
  <2>4. l = [ledger EXCEPT ![n] = it] BY <1>1, <1>3, <2>1, <2>2
  <2>5. /\ l \in Seq(Item) /\ Len(l) = Len(ledger)
        /\ \A i \in 1..Len(ledger) : l[i] = IF i = n THEN it ELSE ledger[i]
    BY <1>1, <2>3, <2>4, ItemsBut
  <2>6. \A k : Tells(k, it) = Tells(k, ledger[n]) BY <2>1, <2>3 DEF Tells
  <2>7. TrueItem(it)'
    <3>1. ledger' = ledger BY DEF Edits
    <3>2. PICK a : a = ledger[n] OBVIOUS
    <3>3. TrueItem(a)' BY <1>2, <3>1, <3>2 DEF TrueList
    <3>4. /\ it.id = a.id /\ it.seen = a.seen /\ it.task = a.task
          /\ \A k : Tells(k, it) = Tells(k, a)
      BY <2>3, <2>6, <3>2
    <3> QED BY <3>3, <3>4 DEF TrueItem
  <2>8. ASSUME NEW j \in 1..Len(l) PROVE TrueItem(l[j])'
    <3>1. ledger' = ledger BY DEF Edits
    <3>2. PICK a : a = l[j] OBVIOUS
    <3>3. j # n => a = ledger'[j] BY <2>5, <3>1, <3>2
    <3>4. j \in 1..Len(ledger') BY <2>5, <3>1
    <3>5. j # n => TrueItem(a)' BY <1>2, <3>3, <3>4 DEF TrueList
    <3>6. j = n => a = it BY <2>5, <3>2
    <3> QED BY <2>7, <3>2, <3>5, <3>6
  <2>9. \A i, j \in 1..Len(l) : l[i].id = l[j].id => i = j
    <3>1. \A i, j \in 1..Len(ledger) : ledger[i].id = ledger[j].id => i = j BY DEF TrueList
    <3> QED BY <2>3, <2>5, <3>1
  <2>10. TrueList(l)' BY <2>8, <2>9 DEF TrueList
  <2>11. \A i \in 1..made : TellsOf(kind[i], l, i) = TellsOf(kind[i], ledger, i)
    <3> SUFFICES ASSUME NEW i \in 1..made PROVE TellsOf(kind[i], l, i) = TellsOf(kind[i], ledger, i)
      OBVIOUS
    <3>1. \A j \in 1..Len(l) : ~(j > Len(ledger)) BY <1>1, <2>5
    <3>2. \A j \in 1..Len(ledger) : /\ ledger[j].id = l[j].id
                                    /\ Tells(kind[i], ledger[j]) = Tells(kind[i], l[j])
      BY <2>3, <2>5, <2>6
    <3>3. Len(l) \in Nat /\ Len(ledger) <= Len(l) BY <1>1, <2>5
    <3> QED BY <1>1, <3>1, <3>2, <3>3, TellsSame
  <2> QED BY <1>3, <2>10, <2>11
<1> QED BY <1>4, <1>5 DEF Edits


\* A copy whose item at a check's hand is replaced.
LEMMA LookedTrue ==
  ASSUME PmTypeOK, PmTypeOK', InOrder, Onward, NEW p \in Procs, Looking(p), TrueList(copy[p]),
         NEW it \in Item, it.id = Looked(p).id, Steps(p, it), TrueItem(it)'
  PROVE  /\ TrueList(copy[p])'
         /\ \A i \in Intents : i # it.id => TellsOf(kind[i], copy'[p], i) = TellsOf(kind[i], copy[p], i)
         /\ TellsOf(kind[it.id], copy[p], it.id) = Tells(kind[it.id], Looked(p))
         /\ TellsOf(kind[it.id], copy'[p], it.id) = Tells(kind[it.id], it)
<1>1. PICK c, d, a : c = copy[p] /\ d = copy'[p] /\ a = at[p] OBVIOUS
<1>2. /\ c \in Seq(Item) /\ Len(c) \in Nat /\ a \in 1..Len(c) /\ c[a] = Looked(p)
      /\ Len(d) = Len(c) /\ \A n \in 1..Len(c) : d[n] = IF n = a THEN it ELSE c[n]
  BY <1>1, LookedFacts, StepsFacts, LenProperties DEF PmTypeOK
<1>3. TrueList(c) /\ TrueList(c)'
  <2>1. TrueList(c) BY <1>1
  <2> QED BY <1>2, <2>1, ListStaysTrue
<1>4. d[a] = it /\ c[a].id = it.id BY <1>2
<1>5. \A m, n \in 1..Len(d) : d[m].id = d[n].id => m = n
  <2>1. \A m, n \in 1..Len(c) : c[m].id = c[n].id => m = n BY <1>3 DEF TrueList
  <2>2. \A n \in 1..Len(c) : d[n].id = c[n].id BY <1>2, <1>4
  <2> QED BY <1>2, <2>1, <2>2
<1>6. TrueList(d)'
  <2>1. ASSUME NEW n \in 1..Len(d) PROVE TrueItem(d[n])'
    <3>1. PICK b : b = d[n] OBVIOUS
    <3>2. CASE n = a BY <1>2, <3>1, <3>2
    <3>3. CASE n # a
      <4>1. b = c[n] BY <1>2, <3>1, <3>3
      <4>2. TrueItem(c[n])' BY <1>2, <1>3 DEF TrueList
      <4> QED BY <3>1, <4>1, <4>2
    <3> QED BY <3>2, <3>3
  <2> QED BY <1>5, <2>1 DEF TrueList
<1>7. ASSUME NEW i \in Intents, i # it.id PROVE TellsOf(kind[i], d, i) = TellsOf(kind[i], c, i)
  <2>1. \A n \in 1..Len(c) : c[n].id = d[n].id /\ (c[n].id = i => Tells(kind[i], c[n]) = Tells(kind[i], d[n]))
    BY <1>2, <1>4, <1>7
  <2>2. Len(d) \in Nat /\ Len(c) <= Len(d) /\ \A n \in 1..Len(d) : ~(n > Len(c)) BY <1>2
  <2> QED BY <1>2, <2>1, <2>2, TellsSame
<1>8. TellsOf(kind[it.id], c, it.id) = Tells(kind[it.id], c[a]) BY <1>2, <1>3, <1>4, TellsOne
<1>9. TellsOf(kind[it.id], d, it.id) = Tells(kind[it.id], it)
  <2>1. {m \in 1..Len(d) : d[m].id = it.id} = {a} BY <1>2, <1>4, <1>5
  <2> QED BY <1>4, <2>1 DEF TellsOf
<1> QED BY <1>1, <1>2, <1>6, <1>7, <1>8, <1>9

\* A check queues a task: its copy tells of one occasion more.
LEMMA FireTells ==
  ASSUME PmTypeOK, PmTypeOK', InOrder, Onward, NEW p \in Procs, TrueList(copy[p]), Fire(p)
  PROVE  /\ TrueList(copy[p])' /\ Looked(p).id \in 1..made
         /\ \A i \in Intents : i # Looked(p).id =>
              TellsOf(kind[i], copy'[p], i) = TellsOf(kind[i], copy[p], i)
         /\ ~Forgets(Looked(p).id) =>
              LET i == Looked(p).id
              IN  /\ TellsOf(kind[i], copy[p], i) \subseteq TellsOf(kind[i], copy'[p], i)
                  /\ TellsOf(kind[i], copy'[p], i) \subseteq 1..Occasions(i)
                  /\ \E x \in 1..Occasions(i) : x \in TellsOf(kind[i], copy'[p], i) \ TellsOf(kind[i], copy[p], i)
<1>1. PICK it, t, f : it = Looked(p) /\ t = Len(board) + 1 /\ f = FiredAs(it, t) OBVIOUS
<1>2. /\ Looking(p) /\ it.status = "armed" /\ Due(p, it) /\ Steps(p, f)
      /\ board' = Append(board, it.id) /\ UNCHANGED <<made, kind, occ, finished>>
  BY <1>1 DEF Fire
<1>3. it \in Item /\ it.id \in Intents /\ t \in Nat /\ Len(board) \in Nat /\ board \in Seq(Intents)
  <2>1. Len(board) \in Nat /\ board \in Seq(Intents) BY LenProperties DEF PmTypeOK
  <2> QED BY <1>1, <1>2, <2>1, LookedFacts DEF Item
<1>4. f \in Item /\ f.id = it.id BY <1>1, <1>2, <1>3, FiredType
<1>5. f.task = t BY <1>1, <1>3, FiredIs
<1>6. TrueItem(it) /\ it.id \in 1..made
  <2>1. TrueItem(it) BY <1>1, <1>2, LookedFacts DEF TrueList
  <2>2. it.id <= made /\ made \in Nat BY <2>1 DEF TrueItem, PmTypeOK
  <2> QED BY <1>3, <2>1, <2>2, ProspectiveAssumption DEF Intents
<1>7. ~Forgets(it.id) =>
        /\ \E x \in 1..Occasions(it.id) : x \notin Tells(kind[it.id], it) /\ x \in Tells(kind[it.id], f)
        /\ Tells(kind[it.id], it) \subseteq Tells(kind[it.id], f)
        /\ Tells(kind[it.id], f) \subseteq 1..Occasions(it.id)
        /\ kind[it.id] = "repeat" => \A m, n \in 1..Len(f.seen) : f.seen[m] = f.seen[n] => m = n
        /\ kind[it.id] = "every" => f.seen # <<>>
  <2>1. /\ it \in Item /\ Looking(p) /\ it = Looked(p) /\ it.status = "armed" /\ Due(p, it)
        /\ f = FiredAs(it, t)
    BY <1>1, <1>2, <1>3
  <2> SUFFICES ASSUME ~Forgets(it.id)
      PROVE  /\ \E x \in 1..Occasions(it.id) :
                   x \notin Tells(kind[it.id], it) /\ x \in Tells(kind[it.id], FiredAs(it, t))
             /\ Tells(kind[it.id], it) \subseteq Tells(kind[it.id], FiredAs(it, t))
             /\ Tells(kind[it.id], FiredAs(it, t)) \subseteq 1..Occasions(it.id)
             /\ kind[it.id] = "repeat" =>
                  \A m, n \in 1..Len(FiredAs(it, t).seen) :
                    FiredAs(it, t).seen[m] = FiredAs(it, t).seen[n] => m = n
             /\ kind[it.id] = "every" => FiredAs(it, t).seen # <<>>
    BY <2>1
  <2> QED BY <2>1, FiredTells
<1>8. TrueItem(f)'
  <2>1. /\ Len(board') = Len(board) + 1 /\ board'[Len(board) + 1] = it.id
    BY <1>2, <1>3, AppendProperties
  <2>2. f.id <= made' /\ f.task \in 1..Len(board') /\ board'[f.task] = f.id
    BY <1>1, <1>2, <1>3, <1>4, <1>5, <1>6, <2>1 DEF TrueItem
  <2>3. kind' = kind /\ Forgets(f.id)' = Forgets(it.id) /\ (kind[it.id] = "every" => ~Forgets(it.id))
    BY <1>2, <1>4 DEF Forgets
  <2>4. ~Forgets(it.id) => Occasions(f.id)' = Occasions(it.id)
    <3>1. PICK i \in 1..made : i = it.id BY <1>6
    <3>2. Forgets(i)' = Forgets(i) BY <1>2 DEF Forgets
    <3>3. ~Forgets(i) => Occasions(i)' = Occasions(i)
      <4>1. occ'[i] = occ[i] /\ \A n \in finished' : n \in finished BY <1>2
      <4> QED BY <3>2, <4>1, OnwardOccasions
    <3> QED BY <1>4, <3>1, <3>3
  <2> QED BY <1>4, <1>7, <2>2, <2>3, <2>4 DEF TrueItem
<1>9. /\ TrueList(copy[p])'
      /\ \A i \in Intents : i # it.id => TellsOf(kind[i], copy'[p], i) = TellsOf(kind[i], copy[p], i)
      /\ TellsOf(kind[it.id], copy[p], it.id) = Tells(kind[it.id], it)
      /\ TellsOf(kind[it.id], copy'[p], it.id) = Tells(kind[it.id], f)
  <2>1. f.id = Looked(p).id BY <1>1, <1>4
  <2> QED BY <1>1, <1>2, <1>4, <1>8, <2>1, LookedTrue
<1>10. ~Forgets(it.id) =>
         /\ TellsOf(kind[it.id], copy[p], it.id) \subseteq TellsOf(kind[it.id], copy'[p], it.id)
         /\ TellsOf(kind[it.id], copy'[p], it.id) \subseteq 1..Occasions(it.id)
         /\ \E x \in 1..Occasions(it.id) :
              x \in TellsOf(kind[it.id], copy'[p], it.id) \ TellsOf(kind[it.id], copy[p], it.id)
  BY <1>7, <1>9
<1> QED BY <1>1, <1>6, <1>9, <1>10

\* A check queues nothing: its copy tells what it told, or of a baseline.
LEMMA PassTells ==
  ASSUME PmTypeOK, PmTypeOK', InOrder, Onward, NEW p \in Procs, TrueList(copy[p]), Pass(p)
  PROVE  /\ TrueList(copy[p])'
         /\ \A i \in 1..made : ~Forgets(i) =>
              /\ TellsOf(kind[i], copy[p], i) \subseteq TellsOf(kind[i], copy'[p], i)
              /\ TellsOf(kind[i], copy'[p], i) \subseteq 1..Occasions(i)
<1>1. PICK it : it = Looked(p) OBVIOUS
<1>2. Looking(p) /\ UNCHANGED <<made, kind, occ, board, finished>> BY DEF Pass
<1>3. it \in Item /\ it.id \in Intents BY <1>1, <1>2, LookedFacts DEF Item
<1>4. TrueItem(it) /\ it.id \in 1..made
  <2>1. TrueItem(it) BY <1>1, <1>2, LookedFacts DEF TrueList
  <2>2. it.id <= made /\ made \in Nat BY <2>1 DEF TrueItem, PmTypeOK
  <2> QED BY <1>3, <2>1, <2>2, ProspectiveAssumption DEF Intents
<1>5. \E f \in Item : /\ f.id = it.id /\ Steps(p, f) /\ TrueItem(f)'
                      /\ ~Forgets(it.id) => /\ Tells(kind[it.id], it) \subseteq Tells(kind[it.id], f)
                                            /\ Tells(kind[it.id], f) \subseteq 1..Occasions(it.id)
  <2>1. CASE Steps(p, it)
    <3>1. TrueItem(it)' BY <1>3, <1>4, StaysTrue
    <3> QED BY <1>3, <1>4, <2>1, <3>1 DEF TrueItem
  <2>2. CASE kind[it.id] = "change" /\ Steps(p, [it EXCEPT !.seen = <<occ[it.id]>>])
    <3>1. occ[it.id] \in Nat BY <1>3 DEF PmTypeOK
    <3>2. <<occ[it.id]>> \in Seq(Nat) BY <3>1
    <3>3. PICK f : f = [it EXCEPT !.seen = <<occ[it.id]>>] OBVIOUS
    <3>4. f \in Item /\ f.id = it.id /\ f.task = it.task /\ f.seen = <<occ[it.id]>>
      BY <1>3, <3>2, <3>3 DEF Item
    <3>5. Tells(kind[it.id], f) = {x \in Nat : 1 <= x /\ x <= occ[it.id]} BY <2>2, <3>4, TellsLast
    <3>6. ~Forgets(it.id) /\ Occasions(it.id) = occ[it.id]
      <4>1. ~Forgets(it.id) BY <2>2 DEF Forgets
      <4> QED BY <1>3, <2>2, <4>1, OccasionsOf
    <3>7. Tells(kind[it.id], it) \subseteq 1..occ[it.id] BY <1>4, <3>6 DEF TrueItem
    <3>8. /\ Tells(kind[it.id], it) \subseteq Tells(kind[it.id], f)
          /\ Tells(kind[it.id], f) \subseteq 1..Occasions(it.id)
      BY <3>1, <3>5, <3>6, <3>7
    <3>9. TrueItem(f)
      <4>1. f.id <= made /\ (f.task # 0 => f.task \in 1..Len(board) /\ board[f.task] = f.id)
        BY <1>4, <3>4 DEF TrueItem
      <4> QED BY <2>2, <3>4, <3>8, <4>1 DEF TrueItem
    <3>10. TrueItem(f)' BY <3>4, <3>9, StaysTrue
    <3> QED BY <2>2, <3>3, <3>4, <3>8, <3>10
  <2> QED BY <1>1, <2>1, <2>2 DEF Pass, Polled
<1>6. PICK f \in Item : /\ f.id = it.id /\ Steps(p, f) /\ TrueItem(f)'
                        /\ ~Forgets(it.id) => /\ Tells(kind[it.id], it) \subseteq Tells(kind[it.id], f)
                                              /\ Tells(kind[it.id], f) \subseteq 1..Occasions(it.id)
  BY <1>5
<1>7. /\ TrueList(copy[p])'
      /\ \A i \in Intents : i # it.id => TellsOf(kind[i], copy'[p], i) = TellsOf(kind[i], copy[p], i)
      /\ TellsOf(kind[it.id], copy[p], it.id) = Tells(kind[it.id], it)
      /\ TellsOf(kind[it.id], copy'[p], it.id) = Tells(kind[it.id], f)
  <2>1. f.id = Looked(p).id BY <1>1, <1>6
  <2> QED BY <1>1, <1>2, <1>6, <2>1, LookedTrue
<1>8. ASSUME NEW i \in 1..made, ~Forgets(i)
      PROVE  /\ TellsOf(kind[i], copy[p], i) \subseteq TellsOf(kind[i], copy'[p], i)
             /\ TellsOf(kind[i], copy'[p], i) \subseteq 1..Occasions(i)
  <2>1. CASE i = it.id BY <1>6, <1>7, <1>8, <2>1
  <2>2. CASE i # it.id
    <3>1. i \in Intents BY <1>4, <1>8, ProspectiveAssumption DEF InOrder, Intents, PmTypeOK
    <3>2. TellsOf(kind[i], copy[p], i) \subseteq 1..Occasions(i) BY <1>8, TellsTrue
    <3> QED BY <1>7, <2>2, <3>1, <3>2
  <2> QED BY <2>1, <2>2
<1> QED BY <1>7, <1>8


\* Who is inside without holding the lock, step by step.
LEMMA StraysTake ==
  ASSUME PmTypeOK, Watched, NEW p \in Procs, at[p] = 0, Takes(p), \A q \in Procs \ {p} : at'[q] = at[q]
  PROVE  Strays' = Strays /\ p \notin Strays /\ \A q \in Procs : ~Holds(q) /\ (Holds(q)' => q = p)
<1>1. NoProc \notin Procs BY ProspectiveAssumption DEF Procs
<1>2. lock = NoProc /\ lock' = p /\ aged' = FALSE BY DEF Takes
<1> QED BY <1>1, <1>2 DEF Strays, Holds

LEMMA StraysJoin ==
  ASSUME PmTypeOK, Watched, NEW p \in Procs, at[p] = 0, at'[p] # 0, UNCHANGED <<lock, aged>>,
         \A q \in Procs \ {p} : at'[q] = at[q]
  PROVE  /\ Strays' = Strays \cup {p} /\ p \notin Strays
         /\ \A q \in Procs : (Holds(q)' <=> Holds(q)) /\ (Holds(q) => q # p)
BY DEF Strays, Holds, Watched

LEMMA StraysLeave ==
  ASSUME PmTypeOK, NEW p \in Procs, at[p] # 0, at'[p] = 0, \A q \in Procs \ {p} : at'[q] = at[q],
         \/ lock' = lock /\ aged' = aged /\ lock # p
         \/ lock = p /\ lock' \notin Procs
  PROVE  /\ Strays' = Strays \ {p} /\ (p \in Strays <=> ~Holds(p))
         /\ \A q \in Procs \ {p} : Holds(q)' <=> Holds(q)
         /\ ~Holds(p)'
BY DEF Strays, Holds

LEMMA StraysStay ==
  ASSUME UNCHANGED <<lock, aged>>, \A q \in Procs : at[q] # 0 <=> at'[q] # 0
  PROVE  Strays' = Strays /\ \A q \in Procs : Holds(q)' <=> Holds(q)
BY DEF Strays, Holds

\* The lock file ages under its holder, if it has one, and is removed.
LEMMA StraysAge ==
  ASSUME PmTypeOK, Watched, Ages
  PROVE  /\ \A q \in Procs : ~Holds(q)'
         /\ \/ lock \notin Procs /\ Strays' = Strays /\ overlaps' = overlaps /\ \A q \in Procs : ~Holds(q)
            \/ /\ lock \in Procs /\ Holds(lock) /\ lock \notin Strays /\ Strays' = Strays \cup {lock}
               /\ overlaps' = overlaps + 1
<1>1. /\ lock # NoProc /\ ~aged /\ aged' = TRUE /\ lock' = lock /\ at' = at
      /\ IF lock = Corpse THEN overlaps' = overlaps ELSE overlaps' = overlaps + 1
  BY DEF Ages, procVars
<1>2. Corpse \notin Procs BY ProspectiveAssumption DEF Procs
<1>3. \A q \in Procs : ~Holds(q)' BY <1>1 DEF Holds
<1>4. CASE lock \in Procs
  <2>1. Holds(lock) /\ lock \notin Strays /\ overlaps' = overlaps + 1 BY <1>1, <1>2, <1>4 DEF Holds, Strays
  <2>2. Strays' = {q \in Procs : at[q] # 0} BY <1>1, <1>3 DEF Strays
  <2>3. \A q \in Procs : Holds(q) => q = lock BY DEF Holds
  <2>4. {q \in Procs : at[q] # 0} = Strays \cup {lock} BY <1>4, <2>3 DEF Strays, Watched
  <2> QED BY <1>3, <1>4, <2>1, <2>2, <2>4
<1>5. CASE lock \notin Procs
  <2>1. \A q \in Procs : ~Holds(q) BY <1>5 DEF Holds
  <2>2. Strays' = Strays BY <1>1, <1>3, <2>1 DEF Strays
  <2>3. overlaps' = overlaps BY <1>1, <1>5 DEF PmTypeOK
  <2> QED BY <1>3, <1>5, <2>1, <2>2, <2>3
<1> QED BY <1>4, <1>5

LEMMA StraysBreak ==
  ASSUME Break
  PROVE  Strays' = Strays /\ \A q \in Procs : ~Holds(q) /\ ~Holds(q)'
<1>1. aged /\ lock' = NoProc /\ aged' = FALSE /\ at' = at BY DEF Break, procVars
<1>2. NoProc \notin Procs BY ProspectiveAssumption DEF Procs
<1> QED BY <1>1, <1>2 DEF Strays, Holds

\* Leave and a kill.
LEMMA LeaveStrays ==
  ASSUME PmTypeOK, NEW p \in Procs, at[p] # 0, Leave(p) \/ PmCrash(p)
  PROVE  /\ Strays' = Strays \ {p} /\ (p \in Strays <=> ~Holds(p))
         /\ \A q \in Procs \ {p} : /\ Holds(q)' <=> Holds(q)
                                   /\ copy'[q] = copy[q] /\ dirty'[q] = dirty[q] /\ at'[q] = at[q]
         /\ ~Holds(p)' /\ copy'[p] = <<>> /\ (lock' \in Procs => lock' = lock /\ lock # p)
<1>1. NoProc \notin Procs /\ Corpse \notin Procs BY ProspectiveAssumption DEF Procs
<1>2. /\ at' = [at EXCEPT ![p] = 0] /\ copy' = [copy EXCEPT ![p] = <<>>]
      /\ dirty' = [dirty EXCEPT ![p] = FALSE]
      /\ \/ lock' = lock /\ aged' = aged /\ lock # p
         \/ lock = p /\ lock' \in {NoProc, Corpse}
  <2>1. CASE Leave(p)
    <3>1. aged \in BOOLEAN BY DEF PmTypeOK
    <3> QED BY <2>1, <3>1 DEF Leave, Released
  <2>2. CASE PmCrash(p) BY <2>2 DEF PmCrash
  <2> QED BY <2>1, <2>2
<1>3. /\ at'[p] = 0 /\ copy'[p] = <<>>
      /\ \A q \in Procs \ {p} : copy'[q] = copy[q] /\ dirty'[q] = dirty[q] /\ at'[q] = at[q]
  BY <1>2 DEF PmTypeOK
<1>4. /\ Strays' = Strays \ {p} /\ (p \in Strays <=> ~Holds(p)) /\ ~Holds(p)'
      /\ \A q \in Procs \ {p} : Holds(q)' <=> Holds(q)
  BY <1>1, <1>2, <1>3, StraysLeave
<1> QED BY <1>1, <1>2, <1>3, <1>4

LEMMA Inside ==
  ASSUME PmTypeOK, NEW p \in Procs, Save(p) \/ FireRaises(p) \/ PmCrash(p)
  PROVE  at[p] # 0 /\ (Leave(p) \/ PmCrash(p))
<1>1. copy[p] \in Seq(Item) /\ Len(copy[p]) \in Nat /\ at[p] \in Nat BY LenProperties DEF PmTypeOK
<1> QED BY <1>1 DEF Save, FireRaises, Looking, PmCrash

\* One more inside without the lock, or one less.
LEMMA StrayCount ==
  ASSUME NEW D, IsFiniteSet(D), NEW p
  PROVE  /\ Cardinality(D) \in Nat
         /\ IsFiniteSet(D \cup {p}) /\ Cardinality(D \cup {p}) <= Cardinality(D) + 1
         /\ IsFiniteSet(D \ {p}) /\ Cardinality(D \ {p}) <= Cardinality(D)
<1>1. Cardinality(D) \in Nat BY FS_CardinalityType
<1>2. IsFiniteSet(D \ {p}) /\ Cardinality(D \ {p}) <= Cardinality(D) BY FS_Subset
<1>3. IsFiniteSet(D \cup {p}) /\ Cardinality(D \cup {p}) <= Cardinality(D) + 1
  <2>1. CASE p \in D
    <3>1. D \cup {p} = D BY <2>1
    <3>2. \A a \in Nat : a <= a + 1 OBVIOUS
    <3>3. Cardinality(D) <= Cardinality(D) + 1 BY <1>1, <3>2
    <3> QED BY <3>1, <3>3
  <2>2. CASE p \notin D
    <3>1. IsFiniteSet(D \cup {p}) /\ Cardinality(D \cup {p}) = Cardinality(D) + 1 BY <2>2, FS_AddElement
    <3>2. \A a, b \in Nat : a = b + 1 => a <= b + 1 OBVIOUS
    <3>3. Cardinality(D \cup {p}) \in Nat BY <3>1, FS_CardinalityType
    <3> QED BY <1>1, <3>1, <3>2, <3>3
  <2> QED BY <2>1, <2>2
<1> QED BY <1>1, <1>2, <1>3

LEMMA WatchedKept == ASSUME PmTypeOK, PmTypeOK', Watched, [PmNext]_pmVars PROVE Watched'
<1>1. IsFiniteSet(Strays) /\ Cardinality(Strays) <= overlaps /\ overlaps \in Nat /\ Cardinality(Strays) \in Nat
      /\ (lock \in Procs => at[lock] # 0) /\ \A p \in Procs : at[p] \in Nat
  BY FS_CardinalityType DEF Watched, PmTypeOK
<1>2. ASSUME NEW p \in Procs, Edit(p) \/ Check(p) PROVE Watched'
  <2>1. /\ Takes(p) /\ at[p] = 0 /\ overlaps' = overlaps /\ lock' = p /\ at'[p] # 0
        /\ \A q \in Procs \ {p} : at'[q] = at[q]
    <3>1. CASE Edit(p)
      <4>1. Len(copy'[p]) \in Nat
        <5>1. copy'[p] \in Seq(Item) BY DEF PmTypeOK
        <5> QED BY <5>1, LenProperties
      <4>2. at' = [at EXCEPT ![p] = Len(copy'[p]) + 1] BY <3>1 DEF Edit, Edits
      <4>3. at'[p] = Len(copy'[p]) + 1 BY <4>2 DEF PmTypeOK
      <4> QED BY <3>1, <4>1, <4>2, <4>3 DEF Edit, Edits, Takes
    <3>2. CASE Check(p)
      <4>1. at' = [at EXCEPT ![p] = 1] BY <3>2 DEF Check
      <4>2. at'[p] = 1 BY <4>1 DEF PmTypeOK
      <4> QED BY <3>2, <4>1, <4>2 DEF Check, Takes
    <3> QED BY <1>2, <3>1, <3>2
  <2>2. Strays' = Strays BY <2>1, StraysTake
  <2> QED BY <1>1, <2>1, <2>2 DEF Watched
<1>3. ASSUME NEW p \in Procs, EditUnlocked(p) PROVE Watched'
  <2>1. Len(copy'[p]) \in Nat
    <3>1. copy'[p] \in Seq(Item) BY DEF PmTypeOK
    <3> QED BY <3>1, LenProperties
  <2>2. /\ at' = [at EXCEPT ![p] = Len(copy'[p]) + 1] /\ at[p] = 0 /\ UNCHANGED <<lock, aged>>
        /\ overlaps' = overlaps + 1
    BY <1>3 DEF EditUnlocked, Edits
  <2>3. at'[p] # 0 /\ \A q \in Procs \ {p} : at'[q] = at[q] BY <2>1, <2>2 DEF PmTypeOK
  <2>4. Strays' = Strays \cup {p} BY <2>2, <2>3, StraysJoin
  <2>5. IsFiniteSet(Strays \cup {p}) /\ Cardinality(Strays \cup {p}) <= Cardinality(Strays) + 1
    BY <1>1, StrayCount
  <2>6. Cardinality(Strays \cup {p}) \in Nat BY <2>5, FS_CardinalityType
  <2>7. Cardinality(Strays') <= overlaps' /\ IsFiniteSet(Strays') BY <1>1, <2>2, <2>4, <2>5, <2>6
  <2>8. lock' \in Procs => at'[lock'] # 0 BY <1>1, <2>2, <2>3
  <2> QED BY <2>7, <2>8 DEF Watched
<1>4. ASSUME NEW p \in Procs, Save(p) \/ FireRaises(p) \/ PmCrash(p) PROVE Watched'
  <2>1. at[p] # 0 /\ (Leave(p) \/ PmCrash(p)) BY <1>4, Inside
  <2>2. /\ Strays' = Strays \ {p} /\ \A q \in Procs \ {p} : at'[q] = at[q]
        /\ (lock' \in Procs => lock' = lock /\ lock # p)
    BY <2>1, LeaveStrays
  <2>3. IsFiniteSet(Strays \ {p}) /\ Cardinality(Strays \ {p}) <= Cardinality(Strays) BY <1>1, StrayCount
  <2>4. Cardinality(Strays \ {p}) \in Nat BY <2>3, FS_CardinalityType
  <2>5. overlaps' = overlaps BY <1>4 DEF Save, FireRaises, PmCrash
  <2>6. Cardinality(Strays') <= overlaps' /\ IsFiniteSet(Strays') BY <1>1, <2>2, <2>3, <2>4, <2>5
  <2>7. lock' \in Procs => at'[lock'] # 0 BY <1>1, <2>2
  <2> QED BY <2>6, <2>7 DEF Watched
<1>5. ASSUME NEW p \in Procs, Fire(p) \/ Pass(p) PROVE Watched'
  <2>1. Looking(p) /\ UNCHANGED <<lock, aged, overlaps>> /\ at' = [at EXCEPT ![p] = @ + 1]
    BY <1>5 DEF Fire, Pass, Steps
  <2>2. at[p] # 0 /\ at'[p] # 0 /\ \A q \in Procs \ {p} : at'[q] = at[q]
    <3>1. at[p] \in 1..Len(copy[p]) /\ at'[p] = at[p] + 1 BY <2>1 DEF Looking, PmTypeOK
    <3> QED BY <1>1, <2>1, <3>1 DEF PmTypeOK
  <2>3. Strays' = Strays BY <2>1, <2>2, StraysStay
  <2>4. lock' \in Procs => at'[lock'] # 0 BY <1>1, <2>1, <2>2
  <2> QED BY <1>1, <2>1, <2>3, <2>4 DEF Watched
<1>6. CASE Ages
  <2>1. lock' = lock /\ at' = at BY <1>6 DEF Ages, procVars
  <2>2. (Strays' = Strays /\ overlaps' = overlaps) \/ (Strays' = Strays \cup {lock} /\ overlaps' = overlaps + 1)
    BY <1>6, StraysAge
  <2>3. IsFiniteSet(Strays \cup {lock}) /\ Cardinality(Strays \cup {lock}) <= Cardinality(Strays) + 1
    BY <1>1, StrayCount
  <2>4. Cardinality(Strays \cup {lock}) \in Nat BY <2>3, FS_CardinalityType
  <2>5. Cardinality(Strays') <= overlaps' /\ IsFiniteSet(Strays') BY <1>1, <2>2, <2>3, <2>4
  <2> QED BY <1>1, <2>1, <2>5 DEF Watched
<1>7. CASE Break
  <2>1. lock' = NoProc /\ NoProc \notin Procs /\ overlaps' = overlaps
    BY <1>7, ProspectiveAssumption DEF Break, Procs
  <2> QED BY <1>1, <1>7, <2>1, StraysBreak DEF Watched
<1>8. CASE Happens \/ TaskDone \/ UNCHANGED pmVars
  <2>1. UNCHANGED <<lock, aged, at, overlaps>> BY <1>8 DEF Happens, TaskDone, pmVars, procVars
  <2>2. Strays' = Strays BY <2>1, StraysStay
  <2> QED BY <1>1, <2>1, <2>2 DEF Watched
<1>9. \A p \in Askers \cup Checkers : p \in Procs BY DEF Procs
<1> QED BY <1>2, <1>3, <1>4, <1>5, <1>6, <1>7, <1>8, <1>9 DEF PmNext, Ticks


LEMMA InOrderKept == ASSUME PmTypeOK, PmTypeOK', InOrder, Told, [PmNext]_pmVars PROVE InOrder'
<1>1. /\ made \in Nat /\ MaxIntents \in Nat /\ MaxTasks \in Nat /\ occ \in [Intents -> Nat]
      /\ board \in Seq(Intents) /\ Len(board) \in Nat /\ DOMAIN board = 1..Len(board)
      /\ kind \in [Intents -> Kinds \cup {"none"}] /\ Intents = 1..MaxIntents
  BY LenProperties, ProspectiveAssumption DEF PmTypeOK, Intents
<1>2. ASSUME NEW p \in Procs, Edits(p) PROVE InOrder'
  <2>1. UNCHANGED <<occ, board, finished>> BY <1>2 DEF Edits
  <2>2. CASE Cancels(p)
    <3>1. UNCHANGED <<made, kind>> BY <2>2 DEF Cancels
    <3> QED BY <2>1, <3>1 DEF InOrder
  <2>3. CASE Adds(p)
    <3>1. PICK k \in Kinds : /\ made' = made + 1 /\ made + 1 \in Intents
                             /\ kind' = [kind EXCEPT ![made + 1] = k]
      BY <2>3 DEF Adds
    <3>2. made' <= MaxIntents BY <1>1, <3>1
    <3>3. \A i \in 1..made' : kind'[i] \in Kinds
      <4> SUFFICES ASSUME NEW i \in 1..made' PROVE kind'[i] \in Kinds OBVIOUS
      <4>1. i \in 1..made \/ i = made + 1 BY <1>1, <3>1
      <4>2. i \in Intents BY <1>1, <3>2, <3>1
      <4>3. i \in 1..made => kind[i] \in Kinds BY DEF InOrder
      <4>4. kind'[i] = IF i = made + 1 THEN k ELSE kind[i] BY <1>1, <3>1, <4>2
      <4> QED BY <4>1, <4>3, <4>4
    <3>4. \A i \in Intents : i > made' => occ'[i] = 0
      <4>1. \A i \in Intents : i > made + 1 => i > made BY <1>1
      <4> QED BY <2>1, <3>1, <4>1 DEF InOrder
    <3>5. \A n \in 1..Len(board') : board'[n] <= made'
      <4>1. \A n \in 1..Len(board) : board[n] \in Nat BY <1>1, ElementOfSeq
      <4>2. \A n \in 1..Len(board) : board[n] <= made BY DEF InOrder
      <4> QED BY <1>1, <2>1, <3>1, <4>1, <4>2
    <3>6. \A n \in finished' : board'[n] < made'
      <4>1. \A n \in finished : n \in 1..Len(board) BY DEF PmTypeOK
      <4>2. \A n \in finished : board[n] \in Nat BY <1>1, <4>1, ElementOfSeq
      <4>3. \A n \in finished : board[n] < made BY DEF InOrder
      <4> QED BY <1>1, <2>1, <3>1, <4>2, <4>3
    <3>7. Len(board') <= MaxTasks BY <2>1 DEF InOrder
    <3> QED BY <3>2, <3>3, <3>4, <3>5, <3>6, <3>7 DEF InOrder
  <2> QED BY <1>2, <2>2, <2>3 DEF Edits
<1>3. ASSUME NEW p \in Procs, Fire(p) PROVE InOrder'
  <2>1. /\ Looking(p) /\ Len(board) < MaxTasks /\ board' = Append(board, Looked(p).id)
        /\ UNCHANGED <<made, kind, occ, finished>>
    BY <1>3 DEF Fire
  <2>2. Looked(p).id \in Intents /\ TrueItem(Looked(p))
    <3>1. /\ Looked(p) \in Item /\ at[p] \in 1..Len(copy[p]) /\ copy[p][at[p]] = Looked(p)
      BY <2>1, LookedFacts
    <3> QED BY <3>1 DEF Item, Told, TrueList
  <2>3. /\ Len(board') = Len(board) + 1 /\ board'[Len(board) + 1] = Looked(p).id
        /\ \A n \in 1..Len(board) : board'[n] = board[n]
    BY <1>1, <2>1, <2>2, AppendProperties
  <2>4. \A n \in 1..(Len(board) + 1) : n \in 1..Len(board) \/ n = Len(board) + 1 BY <1>1
  <2>5. Looked(p).id <= made BY <2>2 DEF TrueItem
  <2>6. \A n \in 1..Len(board') : board'[n] <= made BY <2>3, <2>4, <2>5 DEF InOrder
  <2>7. Len(board') <= MaxTasks BY <1>1, <2>1, <2>3
  <2>8. \A n \in finished : board'[n] < made
    <3>1. \A n \in finished : n \in 1..Len(board) BY DEF PmTypeOK
    <3> QED BY <2>3, <3>1 DEF InOrder
  <2> QED BY <2>1, <2>6, <2>7, <2>8 DEF InOrder
<1>4. CASE Happens
  <2>1. PICK i \in 1..made : occ' = [occ EXCEPT ![i] = @ + 1] BY <1>4 DEF Happens
  <2>2. UNCHANGED <<made, kind, board, finished>> BY <1>4 DEF Happens
  <2>3. \A j \in Intents : j > made => occ'[j] = occ[j] BY <1>1, <2>1
  <2> QED BY <2>2, <2>3 DEF InOrder
<1>5. CASE TaskDone
  <2>1. PICK n \in DOMAIN board : board[n] < made /\ finished' = finished \cup {n} BY <1>5 DEF TaskDone
  <2>2. UNCHANGED <<made, kind, occ, board>> BY <1>5 DEF TaskDone
  <2> QED BY <2>1, <2>2 DEF InOrder
<1>6. ASSUME NEW p \in Procs, Check(p) \/ Pass(p) \/ Save(p) \/ FireRaises(p) \/ PmCrash(p)
      PROVE  UNCHANGED <<made, kind, occ, board, finished>>
  BY <1>6 DEF Check, Pass, Save, FireRaises, PmCrash
<1>7. (Ages \/ Break \/ UNCHANGED pmVars) => UNCHANGED <<made, kind, occ, board, finished>>
  BY DEF Ages, Break, pmVars
<1>8. UNCHANGED <<made, kind, occ, board, finished>> => InOrder' BY DEF InOrder
<1>9. \A p \in Askers \cup Checkers : p \in Procs BY DEF Procs
<1>10. CASE \E p \in Procs : Check(p) \/ Pass(p) \/ Save(p) \/ FireRaises(p) \/ PmCrash(p) BY <1>6, <1>8, <1>10
<1>11. CASE \E p \in Procs : Edits(p) \/ Fire(p) BY <1>2, <1>3, <1>11
<1> QED BY <1>4, <1>5, <1>7, <1>8, <1>9, <1>10, <1>11 DEF PmNext, Ticks, Edit, EditUnlocked

LEMMA ToldKept == ASSUME PmTypeOK, PmTypeOK', InOrder, Told, Onward, [PmNext]_pmVars PROVE Told'
<1>1. ledger \in Seq(Item) /\ copy \in [Procs -> Seq(Item)] BY DEF PmTypeOK
<1>2. \A l \in Seq(Item) : TrueList(l) => TrueList(l)' BY ListStaysTrue
<1>3. ledger' = ledger => TrueList(ledger)'
  <2>1. PICK l \in Seq(Item) : l = ledger /\ TrueList(l) BY <1>1 DEF Told
  <2>2. TrueList(l)' BY <1>2, <2>1
  <2> QED BY <2>1, <2>2
<1>4. ASSUME NEW q \in Procs, copy'[q] = copy[q] PROVE TrueList(copy[q])'
  <2>1. PICK l \in Seq(Item) : l = copy[q] /\ TrueList(l) BY <1>1 DEF Told
  <2>2. TrueList(l)' BY <1>2, <2>1
  <2> QED BY <1>4, <2>1, <2>2
<1>5. ASSUME NEW q \in Procs, copy'[q] = <<>> PROVE TrueList(copy[q])'
  <2>1. TrueList(<<>>)'
    <3>1. 1..Len(<<>>) = {} OBVIOUS
    <3> QED BY <3>1 DEF TrueList
  <2> QED BY <1>5, <2>1
<1>6. ASSUME NEW p \in Procs, ledger' = ledger, \A q \in Procs \ {p} : copy'[q] = copy[q], TrueList(copy[p])'
      PROVE  Told'
  <2>1. \A q \in Procs : TrueList(copy[q])' BY <1>4, <1>6
  <2> QED BY <1>3, <1>6, <2>1 DEF Told
<1>7. ASSUME NEW p \in Procs, Edits(p) PROVE Told'
  <2>1. TrueList(copy[p])' BY <1>7, EditTells DEF Told
  <2>2. ledger' = ledger /\ \A q \in Procs \ {p} : copy'[q] = copy[q] BY <1>7, EditsFacts DEF Edits
  <2> QED BY <1>6, <2>1, <2>2
<1>8. ASSUME NEW p \in Procs, Fire(p) \/ Pass(p) PROVE Told'
  <2>1. TrueList(copy[p])' BY <1>8, FireTells, PassTells DEF Told
  <2>2. ledger' = ledger /\ \A q \in Procs \ {p} : copy'[q] = copy[q]
    BY <1>1, <1>8 DEF Fire, Pass, Steps
  <2> QED BY <1>6, <2>1, <2>2
<1>9. ASSUME NEW p \in Procs, Check(p) PROVE Told'
  <2>1. ledger' = ledger /\ copy'[p] = ledger /\ \A q \in Procs \ {p} : copy'[q] = copy[q]
    BY <1>1, <1>9 DEF Check
  <2>2. TrueList(copy[p])'
    <3>1. PICK l \in Seq(Item) : l = ledger /\ TrueList(l) BY <1>1 DEF Told
    <3>2. TrueList(l)' BY <1>2, <3>1
    <3> QED BY <2>1, <3>1, <3>2
  <2> QED BY <1>6, <2>1, <2>2
<1>10. ASSUME NEW p \in Procs, Save(p) \/ FireRaises(p) \/ PmCrash(p) PROVE Told'
  <2>1. at[p] # 0 /\ (Leave(p) \/ PmCrash(p)) BY <1>10, Inside
  <2>2. copy'[p] = <<>> /\ \A q \in Procs \ {p} : copy'[q] = copy[q] BY <2>1, LeaveStrays
  <2>3. \A q \in Procs : TrueList(copy[q])' BY <1>4, <1>5, <2>2
  <2>4. ledger' = ledger \/ ledger' = copy[p] BY <1>10 DEF Save, FireRaises, PmCrash
  <2>5. TrueList(ledger)'
    <3>1. CASE ledger' = copy[p]
      <4>1. PICK l \in Seq(Item) : l = copy[p] /\ TrueList(l) BY <1>1 DEF Told
      <4>2. TrueList(l)' BY <1>2, <4>1
      <4> QED BY <3>1, <4>1, <4>2
    <3> QED BY <1>3, <2>4, <3>1
  <2> QED BY <2>3, <2>5 DEF Told
<1>11. CASE Ages \/ Break \/ Happens \/ TaskDone \/ UNCHANGED pmVars
  <2>1. UNCHANGED <<ledger, copy>> BY <1>11 DEF Ages, Break, Happens, TaskDone, pmVars, procVars
  <2>2. \A q \in Procs : TrueList(copy[q])' BY <1>4, <2>1
  <2> QED BY <1>3, <2>1, <2>2 DEF Told
<1>12. \A p \in Askers \cup Checkers : p \in Procs BY DEF Procs
<1> QED BY <1>7, <1>8, <1>9, <1>10, <1>11, <1>12 DEF PmNext, Ticks, Edit, EditUnlocked


\* Tasks of i, with what copies of no holder may still fire or bring back ...
Tell(i) == [p \in Procs |-> TellsOf(kind[i], copy[p], i)]
Debt(i) == TasksOf(i) + Cardinality(Untold(Strays, Tell(i), Occasions(i)))

\* ... and the occasions the faults repeat: between them the ledger that counts tells the rest.
Means(i) == Occasions(i) * (overlaps + failures)
Covers(l, i) == Debt(i) <= Cardinality(TellsOf(kind[i], l, i)) + Means(i)
Covered(i) ==
  /\ \A p \in Procs : Holds(p) => Covers(copy[p], i)
  /\ (\A p \in Procs : Holds(p) => ~dirty[p]) => Covers(ledger, i)

PmBound == \A i \in 1..made : ~Forgets(i) => Covered(i)

LEMMA MadeIs == ASSUME PmTypeOK, InOrder, NEW i \in 1..made PROVE i \in Intents
BY ProspectiveAssumption DEF PmTypeOK, InOrder, Intents

LEMMA Sums ==
  ASSUME PmTypeOK, PmTally, NEW i \in 1..made, ~Forgets(i)
  PROVE  /\ i \in Intents /\ Occasions(i) \in Nat /\ TasksOf(i) \in Nat /\ overlaps + failures \in Nat
         /\ Means(i) \in Nat /\ Debt(i) \in Nat /\ IsFiniteSet(Strays)
         /\ \A l : TrueList(l) => /\ TellsOf(kind[i], l, i) \subseteq 1..Occasions(i)
                                  /\ Cardinality(TellsOf(kind[i], l, i)) \in Nat
                                  /\ Cardinality(TellsOf(kind[i], l, i)) <= Occasions(i)
<1>1. i \in Intents BY MadeIs DEF PmTally
<1>2. Occasions(i) \in Nat BY <1>1, OccasionsOf
<1>3. TasksOf(i) \in Nat BY <1>1, TasksAre
<1>4. overlaps + failures \in Nat BY DEF PmTypeOK
<1>5. Means(i) \in Nat BY <1>2, <1>4, TimesGrows DEF Means
<1>6. IsFiniteSet(Strays) BY DEF PmTally, Watched
<1>7. Cardinality(Untold(Strays, Tell(i), Occasions(i))) \in Nat BY <1>2, <1>6, UntoldSize
<1>8. ASSUME NEW l, TrueList(l)
      PROVE  /\ TellsOf(kind[i], l, i) \subseteq 1..Occasions(i)
             /\ Cardinality(TellsOf(kind[i], l, i)) \in Nat
             /\ Cardinality(TellsOf(kind[i], l, i)) <= Occasions(i)
  <2>1. TellsOf(kind[i], l, i) \subseteq 1..Occasions(i) BY <1>8, TellsTrue
  <2>2. PICK o \in Nat : o = Occasions(i) BY <1>2
  <2>3. IsFiniteSet(1..o) /\ Cardinality(1..o) = o BY FS_Interval
  <2>4. /\ Cardinality(TellsOf(kind[i], l, i)) \in Nat
        /\ Cardinality(TellsOf(kind[i], l, i)) <= Cardinality(1..o)
    BY <2>1, <2>2, <2>3, Sizes
  <2> QED BY <2>1, <2>2, <2>3, <2>4
<1>9. Debt(i) \in Nat BY <1>3, <1>7 DEF Debt
<1> QED BY <1>1, <1>2, <1>3, <1>4, <1>5, <1>6, <1>8, <1>9

\* Steps that queue no task and see no occasion: the debt moves with who is inside.
LEMMA SteadyDebt ==
  ASSUME PmTypeOK, PmTypeOK', PmTally, Onward, UNCHANGED <<occ, board, finished>>,
         IsFiniteSet(Strays'), NEW i \in 1..made, ~Forgets(i)'
  PROVE  /\ ~Forgets(i) /\ kind'[i] = kind[i] /\ Debt(i)' \in Nat /\ Means(i)' \in Nat
         /\ Strays' = Strays /\ (\A q \in Strays : TellsOf(kind[i], copy'[q], i) = TellsOf(kind[i], copy[q], i))
              => Debt(i)' = Debt(i)
         /\ Strays' = Strays /\ (\A q \in Strays : TellsOf(kind[i], copy[q], i) \subseteq TellsOf(kind[i], copy'[q], i))
              => Debt(i)' <= Debt(i)
         /\ \A p \in Procs :
              /\ p \notin Strays /\ Strays' = Strays \cup {p}
              /\ \A q \in Strays : TellsOf(kind[i], copy'[q], i) = TellsOf(kind[i], copy[q], i)
              /\ TellsOf(kind[i], copy'[p], i) \subseteq 1..Occasions(i)
              => Debt(i)' + Cardinality(TellsOf(kind[i], copy'[p], i)) = Debt(i) + Occasions(i)
         /\ \A p \in Strays :
              /\ Strays' = Strays \ {p}
              /\ \A q \in Strays \ {p} : TellsOf(kind[i], copy'[q], i) = TellsOf(kind[i], copy[q], i)
              => Debt(i)' + Occasions(i) = Debt(i) + Cardinality(TellsOf(kind[i], copy[p], i))
         /\ overlaps' + failures' = overlaps + failures => Means(i)' = Means(i)
         /\ overlaps' + failures' = overlaps + failures + 1 => Means(i)' = Means(i) + Occasions(i)
<1>1. /\ i \in Intents /\ ~Forgets(i) /\ Occasions(i)' = Occasions(i) /\ kind'[i] = kind[i]
  <2>1. occ'[i] = occ[i] /\ \A k \in finished' : k \in finished OBVIOUS
  <2> QED BY <2>1, OnwardOccasions DEF PmTally, Onward
<1>2. TasksOf(i)' = TasksOf(i) BY DEF TasksOf
<1>3. PICK O, T, D, E, m, k, F, G :
        /\ O = Occasions(i) /\ T = TasksOf(i) /\ D = Strays /\ E = Strays'
        /\ m = Tell(i) /\ k = Tell(i)' /\ F = overlaps + failures /\ G = overlaps' + failures'
  OBVIOUS
<1>4. Debt(i) = T + Cardinality(Untold(D, m, O)) /\ Means(i) = O * F BY <1>3 DEF Debt, Means
<1>5. Debt(i)' = T + Cardinality(Untold(E, k, O)) /\ Means(i)' = O * G BY <1>1, <1>2, <1>3 DEF Debt, Means
<1>6. /\ O \in Nat /\ T \in Nat /\ F \in Nat /\ G \in Nat /\ IsFiniteSet(D)
      /\ \A p \in Procs : m[p] \subseteq 1..O
  <2>1. \A p \in Procs : TrueList(copy[p]) BY DEF PmTally, Told
  <2>2. O \in Nat /\ T \in Nat /\ F \in Nat /\ IsFiniteSet(D)
        /\ \A l : TrueList(l) => TellsOf(kind[i], l, i) \subseteq 1..O
    BY <1>1, <1>3, Sums
  <2>3. overlaps' \in Nat /\ failures' \in Nat BY DEF PmTypeOK
  <2>4. \A p \in Procs : m[p] = TellsOf(kind[i], copy[p], i) BY <1>3 DEF Tell
  <2>5. G \in Nat
    <3>1. \A a, c \in Nat : a + c \in Nat OBVIOUS
    <3>2. G = overlaps' + failures' BY <1>3
    <3> QED BY <2>3, <3>1, <3>2
  <2>6. \A p \in Procs : m[p] \subseteq 1..O BY <2>1, <2>2, <2>4
  <2> QED BY <2>2, <2>5, <2>6
<1>7. \A p \in Procs : m[p] = TellsOf(kind[i], copy[p], i) /\ k[p] = TellsOf(kind[i], copy'[p], i)
  <2>1. k = [p \in Procs |-> TellsOf(kind'[i], copy'[p], i)] BY <1>3 DEF Tell
  <2> QED BY <1>1, <1>3, <2>1 DEF Tell
<1>8. D \subseteq Procs BY <1>3 DEF Strays
<1>9. IsFiniteSet(E) /\ Debt(i)' \in Nat /\ Means(i)' \in Nat
  <2>1. IsFiniteSet(E) BY <1>3
  <2>2. Cardinality(Untold(E, k, O)) \in Nat BY <1>6, <2>1, UntoldSize
  <2>3. O * G \in Nat BY <1>6, TimesGrows
  <2> QED BY <1>5, <1>6, <2>1, <2>2, <2>3
<1>10. E = D /\ (\A q \in D : k[q] = m[q]) => Debt(i)' = Debt(i)
  <2>1. CASE E = D /\ \A q \in D : k[q] = m[q]
    <3>1. Untold(D, m, O) = Untold(D, k, O) BY <2>1, UntoldSame
    <3> QED BY <1>4, <1>5, <2>1, <3>1
  <2> QED BY <2>1
<1>11. E = D /\ (\A q \in D : m[q] \subseteq k[q]) => Debt(i)' <= Debt(i)
  <2>1. CASE E = D /\ \A q \in D : m[q] \subseteq k[q]
    <3>1. /\ Cardinality(Untold(D, k, O)) \in Nat /\ Cardinality(Untold(D, m, O)) \in Nat
          /\ Cardinality(Untold(D, k, O)) <= Cardinality(Untold(D, m, O))
      BY <1>6, <2>1, UntoldFewer
    <3> QED BY <1>4, <1>5, <1>6, <2>1, <3>1
  <2> QED BY <2>1
<1>12. ASSUME NEW p \in Procs, p \notin D, E = D \cup {p}, \A q \in D : k[q] = m[q], k[p] \subseteq 1..O
       PROVE  Debt(i)' + Cardinality(k[p]) = Debt(i) + O
  <2>1. /\ Cardinality(k[p]) \in Nat
        /\ Cardinality(Untold(D \cup {p}, k, O)) + Cardinality(k[p]) = Cardinality(Untold(D, k, O)) + O
    BY <1>6, <1>12, UntoldJoins
  <2>2. Untold(D, m, O) = Untold(D, k, O) BY <1>12, UntoldSame
  <2>3. Cardinality(Untold(D, m, O)) \in Nat /\ Cardinality(Untold(E, k, O)) \in Nat
    BY <1>6, <1>9, UntoldSize
  <2> QED BY <1>4, <1>5, <1>6, <1>12, <2>1, <2>2, <2>3
<1>13. ASSUME NEW p \in D, E = D \ {p}, \A q \in D \ {p} : k[q] = m[q]
       PROVE  Debt(i)' + O = Debt(i) + Cardinality(m[p])
  <2>1. E \cup {p} = D /\ p \notin E /\ p \in Procs BY <1>8, <1>13
  <2>2. /\ Cardinality(m[p]) \in Nat
        /\ Cardinality(Untold(E \cup {p}, m, O)) + Cardinality(m[p]) = Cardinality(Untold(E, m, O)) + O
    BY <1>6, <1>9, <2>1, UntoldJoins
  <2>3. Untold(E, m, O) = Untold(E, k, O) BY <1>13, UntoldSame
  <2>4. Cardinality(Untold(D, m, O)) \in Nat /\ Cardinality(Untold(E, k, O)) \in Nat
    BY <1>6, <1>9, UntoldSize
  <2> QED BY <1>4, <1>5, <1>6, <2>1, <2>2, <2>3, <2>4
<1>14. (G = F => Means(i)' = Means(i)) /\ (G = F + 1 => Means(i)' = Means(i) + O)
  BY <1>4, <1>5, <1>6, TimesGrows
<1>15. Strays' = E /\ Strays = D /\ Occasions(i) = O /\ overlaps + failures = F /\ overlaps' + failures' = G
  BY <1>3
<1>16. Strays' = Strays /\ (\A q \in Strays : TellsOf(kind[i], copy'[q], i) = TellsOf(kind[i], copy[q], i))
         => Debt(i)' = Debt(i)
  BY <1>7, <1>8, <1>10, <1>15
<1>17. Strays' = Strays /\ (\A q \in Strays : TellsOf(kind[i], copy[q], i) \subseteq TellsOf(kind[i], copy'[q], i))
         => Debt(i)' <= Debt(i)
  BY <1>7, <1>8, <1>11, <1>15
<1>18. \A p \in Procs :
         /\ p \notin Strays /\ Strays' = Strays \cup {p}
         /\ \A q \in Strays : TellsOf(kind[i], copy'[q], i) = TellsOf(kind[i], copy[q], i)
         /\ TellsOf(kind[i], copy'[p], i) \subseteq 1..Occasions(i)
         => Debt(i)' + Cardinality(TellsOf(kind[i], copy'[p], i)) = Debt(i) + Occasions(i)
  BY <1>7, <1>8, <1>12, <1>15
<1>19. \A p \in Strays :
         /\ Strays' = Strays \ {p}
         /\ \A q \in Strays \ {p} : TellsOf(kind[i], copy'[q], i) = TellsOf(kind[i], copy[q], i)
         => Debt(i)' + Occasions(i) = Debt(i) + Cardinality(TellsOf(kind[i], copy[p], i))
  BY <1>7, <1>8, <1>13, <1>15
<1>20. /\ overlaps' + failures' = overlaps + failures => Means(i)' = Means(i)
       /\ overlaps' + failures' = overlaps + failures + 1 => Means(i)' = Means(i) + Occasions(i)
  BY <1>14, <1>15
<1> QED BY <1>1, <1>9, <1>16, <1>17, <1>18, <1>19, <1>20


\* The sums: who enters or leaves pays with the fault of it.
LEMMA Settles ==
  \A b, d, o, c, m, g \in Nat :
    /\ d + c = b + o /\ c <= o /\ b <= g + m => d <= g + (m + o)
    /\ d + c = b + o /\ b <= c + m => d <= g + (m + o)
    /\ d + o = b + c /\ c <= o /\ b <= g + m => d <= g + m /\ d <= g + (m + o)
    /\ d + o = b + c /\ g <= o /\ b <= g + m => d <= c + m
    /\ c <= o /\ b <= c + m => b <= g + (m + o)
OBVIOUS

\* The lock is taken: the copy that counts is the ledger.
LEMMA TakeCovered ==
  ASSUME PmTypeOK, PmTypeOK', PmTally, Watched', Onward, NEW i \in 1..made, ~Forgets(i)', Covered(i),
         NEW p \in Procs, Edit(p) \/ Check(p)
  PROVE  Covered(i)'
<1>1. ledger' = ledger /\ UNCHANGED <<occ, board, finished, overlaps, failures>>
  BY DEF Edit, Edits, Check
<1>2. Takes(p) /\ at[p] = 0 /\ \A q \in Procs \ {p} : at'[q] = at[q] /\ copy'[q] = copy[q]
  <2>1. CASE Edit(p) BY <2>1, EditsFacts DEF Edit, Edits
  <2>2. CASE Check(p) BY <2>2 DEF Check, PmTypeOK
  <2> QED BY <2>1, <2>2
<1>3. TellsOf(kind[i], copy'[p], i) = TellsOf(kind[i], ledger, i)
  <2>1. CASE Edit(p) BY <2>1, EditTells DEF Edit, PmTally, Told
  <2>2. CASE Check(p)
    <3>1. copy'[p] = ledger BY <2>2 DEF Check, PmTypeOK
    <3> QED BY <3>1
  <2> QED BY <2>1, <2>2
<1>4. Strays' = Strays /\ p \notin Strays /\ \A q \in Procs : ~Holds(q) /\ (Holds(q)' => q = p)
  BY <1>2, StraysTake DEF PmTally
<1>5. \A q \in Strays : TellsOf(kind[i], copy'[q], i) = TellsOf(kind[i], copy[q], i) BY <1>2, <1>4 DEF Strays
<1>6. kind'[i] = kind[i] /\ Debt(i)' = Debt(i) /\ Means(i)' = Means(i)
  <2>1. overlaps' + failures' = overlaps + failures BY <1>1
  <2>2. IsFiniteSet(Strays') BY DEF Watched
  <2> QED BY <1>1, <1>4, <1>5, <2>1, <2>2, SteadyDebt
<1>7. Debt(i) <= Cardinality(TellsOf(kind[i], ledger, i)) + Means(i) BY <1>4 DEF Covered, Covers
<1>8. Covers(ledger, i)' BY <1>1, <1>6, <1>7 DEF Covers
<1>9. \A q \in Procs : Holds(q)' => Covers(copy[q], i)'
  <2>1. Covers(copy[p], i)' BY <1>3, <1>6, <1>7 DEF Covers
  <2> QED BY <1>4, <2>1
<1> QED BY <1>8, <1>9 DEF Covered

\* An owner edits without the lock.
LEMMA JoinCovered ==
  ASSUME PmTypeOK, PmTypeOK', PmTally, Watched', Onward, NEW i \in 1..made, ~Forgets(i)', Covered(i),
         NEW p \in Procs, EditUnlocked(p)
  PROVE  Covered(i)'
<1>1. /\ Edits(p) /\ ledger' = ledger /\ UNCHANGED <<occ, board, finished, failures, lock, aged>>
      /\ overlaps' = overlaps + 1 /\ dirty' = [dirty EXCEPT ![p] = TRUE]
      /\ at' = [at EXCEPT ![p] = Len(copy'[p]) + 1]
  BY DEF EditUnlocked, Edits
<1>2. /\ at[p] = 0 /\ at'[p] # 0
      /\ \A q \in Procs \ {p} : at'[q] = at[q] /\ copy'[q] = copy[q] /\ dirty'[q] = dirty[q]
  <2>1. copy'[p] \in Seq(Item) BY DEF PmTypeOK
  <2>2. Len(copy'[p]) \in Nat BY <2>1, LenProperties
  <2> QED BY <1>1, <2>2, EditsFacts DEF PmTypeOK
<1>3. TellsOf(kind[i], copy'[p], i) = TellsOf(kind[i], ledger, i) BY <1>1, EditTells DEF PmTally, Told
<1>4. /\ Strays' = Strays \cup {p} /\ p \notin Strays
      /\ \A q \in Procs : (Holds(q)' <=> Holds(q)) /\ (Holds(q) => q # p)
  BY <1>1, <1>2, StraysJoin DEF PmTally
<1>5. \A q \in Strays : TellsOf(kind[i], copy'[q], i) = TellsOf(kind[i], copy[q], i) BY <1>2, <1>4 DEF Strays
<1>6. ~Forgets(i) /\ kind'[i] = kind[i] /\ Debt(i)' \in Nat /\ Means(i)' = Means(i) + Occasions(i)
  <2>1. overlaps' + failures' = overlaps + failures + 1 BY <1>1 DEF PmTypeOK
  <2>2. IsFiniteSet(Strays') BY DEF Watched
  <2> QED BY <1>1, <2>1, <2>2, SteadyDebt
<1>7. PICK O, b, m, c : /\ O = Occasions(i) /\ b = Debt(i) /\ m = Means(i)
                        /\ c = Cardinality(TellsOf(kind[i], copy'[p], i))
  OBVIOUS
<1>8. /\ O \in Nat /\ b \in Nat /\ m \in Nat /\ c \in Nat /\ c <= O
      /\ TellsOf(kind[i], copy'[p], i) \subseteq 1..Occasions(i)
      /\ \A l : TrueList(l) => Cardinality(TellsOf(kind[i], l, i)) \in Nat
  <2>1. TrueList(ledger) BY DEF PmTally, Told
  <2> QED BY <1>3, <1>6, <1>7, <2>1, Sums
<1>9. Debt(i)' + c = b + O
  <2>1. IsFiniteSet(Strays') BY DEF Watched
  <2> QED BY <1>1, <1>4, <1>5, <1>7, <1>8, <2>1, SteadyDebt
<1>10. ASSUME NEW l, TrueList(l), Covers(l, i)
       PROVE  Debt(i)' <= Cardinality(TellsOf(kind[i], l, i)) + Means(i)'
  <2>1. PICK g : g = Cardinality(TellsOf(kind[i], l, i)) OBVIOUS
  <2>2. g \in Nat /\ b <= g + m BY <1>7, <1>8, <1>10, <2>1 DEF Covers
  <2>3. Debt(i)' <= g + (m + O) BY <1>6, <1>8, <1>9, <2>2, Settles
  <2> QED BY <1>6, <1>7, <2>1, <2>3
<1>11. TrueList(ledger) /\ \A q \in Procs : TrueList(copy[q]) BY DEF PmTally, Told
<1>12. (\A q \in Procs : Holds(q)' => ~dirty'[q]) => Covers(ledger, i)'
  <2>1. CASE \A q \in Procs : Holds(q)' => ~dirty'[q]
    <3>1. \A q \in Procs : Holds(q) => ~dirty[q] BY <1>2, <1>4, <2>1
    <3>2. Covers(ledger, i) BY <3>1 DEF Covered
    <3>3. Debt(i)' <= Cardinality(TellsOf(kind[i], ledger, i)) + Means(i)' BY <1>10, <1>11, <3>2
    <3> QED BY <1>1, <1>6, <3>3 DEF Covers
  <2> QED BY <2>1
<1>13. ASSUME NEW q \in Procs, Holds(q)' PROVE Covers(copy[q], i)'
  <2>1. Holds(q) /\ copy'[q] = copy[q] BY <1>2, <1>4, <1>13
  <2>2. Covers(copy[q], i) BY <2>1 DEF Covered
  <2>3. Debt(i)' <= Cardinality(TellsOf(kind[i], copy[q], i)) + Means(i)' BY <1>10, <1>11, <2>2
  <2> QED BY <1>6, <2>1, <2>3 DEF Covers
<1> QED BY <1>12, <1>13 DEF Covered


\* A save, an add_task that raises, a kill.
LEMMA LeaveCovered ==
  ASSUME PmTypeOK, PmTypeOK', PmTally, Watched', Onward, NEW i \in 1..made, ~Forgets(i)', Covered(i),
         NEW p \in Procs, Save(p) \/ FireRaises(p) \/ PmCrash(p)
  PROVE  Covered(i)'
<1>1. at[p] # 0 /\ (Leave(p) \/ PmCrash(p)) BY Inside
<1>2. /\ Strays' = Strays \ {p} /\ (p \in Strays <=> ~Holds(p)) /\ ~Holds(p)'
      /\ \A q \in Procs \ {p} : (Holds(q)' <=> Holds(q)) /\ copy'[q] = copy[q] /\ dirty'[q] = dirty[q]
  BY <1>1, LeaveStrays
<1>3. UNCHANGED <<occ, board, finished>> BY DEF Save, FireRaises, PmCrash
<1>4. \/ Save(p) /\ ledger' = (IF dirty[p] THEN copy[p] ELSE ledger) /\ overlaps' + failures' = overlaps + failures
      \/ ledger' = ledger /\ overlaps' + failures' = overlaps + failures + 1
  <2>1. overlaps \in Nat /\ failures \in Nat BY DEF PmTypeOK
  <2>2. CASE Save(p)
    <3>1. UNCHANGED <<overlaps, failures>> /\ ledger' = IF dirty[p] THEN copy[p] ELSE ledger
      BY <2>2 DEF Save
    <3> QED BY <2>2, <3>1
  <2>3. CASE FireRaises(p) \/ PmCrash(p)
    <3>1. ledger' = ledger /\ overlaps' = overlaps /\ failures' = failures + 1
      BY <2>3 DEF FireRaises, PmCrash
    <3> QED BY <2>1, <3>1
  <2> QED BY <2>2, <2>3
<1>5. PICK O, b, m, c, d, M : /\ O = Occasions(i) /\ b = Debt(i) /\ m = Means(i)
                              /\ c = Cardinality(TellsOf(kind[i], copy[p], i))
                              /\ d = Debt(i)' /\ M = Means(i)'
  OBVIOUS
<1>6. IsFiniteSet(Strays') BY DEF Watched
<1>7. /\ ~Forgets(i) /\ kind'[i] = kind[i] /\ d \in Nat /\ M \in Nat
      /\ overlaps' + failures' = overlaps + failures => M = m
      /\ overlaps' + failures' = overlaps + failures + 1 => M = m + O
  BY <1>3, <1>5, <1>6, SteadyDebt
<1>8. TrueList(ledger) /\ \A q \in Procs : TrueList(copy[q]) BY DEF PmTally, Told
<1>9. /\ O \in Nat /\ b \in Nat /\ m \in Nat /\ c \in Nat /\ c <= O
      /\ \A l : TrueList(l) => /\ Cardinality(TellsOf(kind[i], l, i)) \in Nat
                               /\ Cardinality(TellsOf(kind[i], l, i)) <= O
  BY <1>5, <1>7, <1>8, Sums
<1>10. \A l : TrueList(l) /\ Covers(l, i) => b <= Cardinality(TellsOf(kind[i], l, i)) + m BY <1>5 DEF Covers
<1>11. CASE p \in Strays
  <2>1. \A q \in Strays \ {p} : TellsOf(kind[i], copy'[q], i) = TellsOf(kind[i], copy[q], i)
    BY <1>2 DEF Strays
  <2>2. d + O = b + c BY <1>2, <1>3, <1>5, <1>6, <1>11, <2>1, SteadyDebt
  <2>3. ASSUME NEW l, TrueList(l), Covers(l, i) PROVE d <= Cardinality(TellsOf(kind[i], l, i)) + M
    <3>1. PICK g : g = Cardinality(TellsOf(kind[i], l, i)) OBVIOUS
    <3>2. g \in Nat /\ b <= g + m BY <1>9, <1>10, <2>3, <3>1
    <3>3. d <= g + m /\ d <= g + (m + O) BY <1>7, <1>9, <2>2, <3>2, Settles
    <3> QED BY <1>4, <1>7, <3>1, <3>3
  <2>4. ASSUME NEW q \in Procs, Holds(q)' PROVE Covers(copy[q], i)'
    <3>1. q # p /\ Holds(q) /\ copy'[q] = copy[q] BY <1>2, <2>4
    <3>2. Covers(copy[q], i) BY <3>1 DEF Covered
    <3>3. d <= Cardinality(TellsOf(kind[i], copy[q], i)) + M BY <1>8, <2>3, <3>2
    <3> QED BY <1>5, <1>7, <3>1, <3>3 DEF Covers
  <2>5. (\A q \in Procs : Holds(q)' => ~dirty'[q]) => Covers(ledger, i)'
    <3>1. CASE ledger' = ledger /\ \A q \in Procs : Holds(q)' => ~dirty'[q]
      <4>1. \A q \in Procs : Holds(q) => ~dirty[q] BY <1>2, <1>11, <3>1
      <4>2. Covers(ledger, i) BY <4>1 DEF Covered
      <4>3. d <= Cardinality(TellsOf(kind[i], ledger, i)) + M BY <1>8, <2>3, <4>2
      <4> QED BY <1>5, <1>7, <3>1, <4>3 DEF Covers
    <3>2. CASE ledger' # ledger
      <4>1. ledger' = copy[p] /\ M = m BY <1>4, <1>7, <3>2
      <4>2. \E l : TrueList(l) /\ Covers(l, i)
        <5>1. CASE \E q \in Procs : Holds(q) BY <1>8, <5>1 DEF Covered
        <5>2. CASE \A q \in Procs : ~Holds(q) BY <1>8, <5>2 DEF Covered
        <5> QED BY <5>1, <5>2
      <4>3. PICK l : TrueList(l) /\ Covers(l, i) BY <4>2
      <4>4. PICK g : g = Cardinality(TellsOf(kind[i], l, i)) OBVIOUS
      <4>5. g \in Nat /\ g <= O /\ b <= g + m BY <1>9, <1>10, <4>3, <4>4
      <4>6. d <= c + m BY <1>7, <1>9, <2>2, <4>5, Settles
      <4> QED BY <1>5, <1>7, <4>1, <4>6 DEF Covers
    <3> QED BY <3>1, <3>2
  <2> QED BY <2>4, <2>5 DEF Covered
<1>12. CASE p \notin Strays
  <2>1. Holds(p) /\ Strays' = Strays /\ \A q \in Procs : Holds(q) => q = p BY <1>2, <1>12 DEF Holds
  <2>2. \A q \in Strays : TellsOf(kind[i], copy'[q], i) = TellsOf(kind[i], copy[q], i)
    BY <1>2, <1>12 DEF Strays
  <2>3. d = b BY <1>3, <1>5, <1>6, <2>1, <2>2, SteadyDebt
  <2>4. b <= c + m BY <1>5, <2>1 DEF Covered, Covers
  <2>5. \A q \in Procs : ~Holds(q)' BY <1>2, <2>1
  <2>6. Covers(ledger, i)'
    <3>1. CASE ledger' = ledger /\ M = m + O
      <4>1. PICK g : g = Cardinality(TellsOf(kind[i], ledger, i)) OBVIOUS
      <4>2. g \in Nat BY <1>8, <1>9, <4>1
      <4>3. b <= g + (m + O) BY <1>9, <2>4, <4>2, Settles
      <4> QED BY <1>5, <1>7, <2>3, <3>1, <4>1, <4>3 DEF Covers
    <3>2. CASE ledger' = (IF dirty[p] THEN copy[p] ELSE ledger) /\ M = m
      <4>1. CASE dirty[p]
        <5>1. ledger' = copy[p] BY <3>2, <4>1
        <5> QED BY <1>5, <1>7, <2>3, <2>4, <3>2, <5>1 DEF Covers
      <4>2. CASE ~dirty[p]
        <5>1. Covers(ledger, i) BY <2>1, <4>2 DEF Covered
        <5>2. ledger' = ledger BY <3>2, <4>2
        <5> QED BY <1>5, <1>7, <2>3, <3>2, <5>1, <5>2 DEF Covers
      <4> QED BY <4>1, <4>2
    <3> QED BY <1>4, <1>7, <3>1, <3>2
  <2> QED BY <2>5, <2>6 DEF Covered
<1> QED BY <1>11, <1>12

\* A look that queues nothing.
LEMMA PassCovered ==
  ASSUME PmTypeOK, PmTypeOK', PmTally, Watched', Onward, NEW i \in 1..made, ~Forgets(i)', Covered(i),
         NEW p \in Procs, Pass(p), Strays' = Strays, \A q \in Procs : Holds(q)' <=> Holds(q)
  PROVE  Covered(i)'
<1>1. /\ ledger' = ledger /\ UNCHANGED <<occ, board, finished, overlaps, failures>>
      /\ dirty' = dirty \/ dirty' = [dirty EXCEPT ![p] = TRUE]
      /\ \A q \in Procs \ {p} : copy'[q] = copy[q]
  BY DEF Pass, Steps, PmTypeOK
<1>2. IsFiniteSet(Strays') BY DEF Watched
<1>3. ~Forgets(i) /\ kind'[i] = kind[i] /\ Debt(i)' \in Nat /\ Means(i)' = Means(i)
  <2>1. overlaps' + failures' = overlaps + failures BY <1>1
  <2> QED BY <1>1, <1>2, <2>1, SteadyDebt
<1>4. /\ TellsOf(kind[i], copy[p], i) \subseteq TellsOf(kind[i], copy'[p], i)
      /\ TellsOf(kind[i], copy'[p], i) \subseteq 1..Occasions(i)
  BY <1>3, PassTells DEF PmTally, Told
<1>5. \A q \in Procs : TellsOf(kind[i], copy[q], i) \subseteq TellsOf(kind[i], copy'[q], i) BY <1>1, <1>4
<1>6. Debt(i)' <= Debt(i)
  <2>1. \A q \in Strays : TellsOf(kind[i], copy[q], i) \subseteq TellsOf(kind[i], copy'[q], i)
    BY <1>5 DEF Strays
  <2> QED BY <1>1, <1>2, <2>1, SteadyDebt
<1>7. Debt(i) \in Nat /\ Means(i) \in Nat /\ Occasions(i) \in Nat BY <1>3, Sums
<1>8. TrueList(ledger) /\ \A q \in Procs : TrueList(copy[q]) BY DEF PmTally, Told
<1>9. \A l : TrueList(l) => Cardinality(TellsOf(kind[i], l, i)) \in Nat BY <1>3, Sums
<1>10. ASSUME NEW q \in Procs, Holds(q)' PROVE Covers(copy[q], i)'
  <2>1. Covers(copy[q], i) BY <1>10 DEF Covered
  <2>2. PICK g, h : /\ g = Cardinality(TellsOf(kind[i], copy[q], i))
                    /\ h = Cardinality(TellsOf(kind[i], copy'[q], i))
    OBVIOUS
  <2>3. g \in Nat /\ h \in Nat /\ g <= h
    <3>1. CASE q = p
      <4>1. PICK o \in Nat : o = Occasions(i) BY <1>7
      <4>2. IsFiniteSet(1..o) BY FS_Interval
      <4>3. IsFiniteSet(TellsOf(kind[i], copy'[p], i)) BY <1>4, <4>1, <4>2, FS_Subset
      <4> QED BY <1>4, <2>2, <3>1, <4>3, Sizes
    <3>2. CASE q # p
      <4>1. copy'[q] = copy[q] BY <1>1, <3>2
      <4>2. g = h /\ g \in Nat BY <1>8, <1>9, <2>2, <4>1
      <4> QED BY <4>2
    <3> QED BY <3>1, <3>2
  <2>4. Debt(i) <= g + Means(i) BY <2>1, <2>2 DEF Covers
  <2>5. Debt(i)' <= h + Means(i) BY <1>3, <1>6, <1>7, <2>3, <2>4
  <2> QED BY <1>3, <2>2, <2>5 DEF Covers
<1>11. (\A q \in Procs : Holds(q)' => ~dirty'[q]) => Covers(ledger, i)'
  <2>1. CASE \A q \in Procs : Holds(q)' => ~dirty'[q]
    <3>1. \A q \in Procs : ~dirty'[q] => ~dirty[q] BY <1>1 DEF PmTypeOK
    <3>2. Covers(ledger, i) BY <2>1, <3>1 DEF Covered
    <3>3. PICK g : g = Cardinality(TellsOf(kind[i], ledger, i)) OBVIOUS
    <3>4. g \in Nat /\ Debt(i) <= g + Means(i) BY <1>8, <1>9, <3>2, <3>3 DEF Covers
    <3>5. Debt(i)' <= g + Means(i) BY <1>3, <1>6, <1>7, <3>4
    <3> QED BY <1>1, <1>3, <3>3, <3>5 DEF Covers
  <2> QED BY <2>1
<1> QED BY <1>10, <1>11 DEF Covered


\* A check queues a task of an intention: a fault repeats the occasion, or the copy that counts tells it.
LEMMA FireCovered ==
  ASSUME PmTypeOK, PmTypeOK', PmTally, Watched', Onward, NEW i \in 1..made, ~Forgets(i)', Covered(i),
         NEW p \in Procs, Fire(p), Strays' = Strays, \A q \in Procs : Holds(q)' <=> Holds(q)
  PROVE  Covered(i)'
<1>1. /\ Looking(p) /\ board' = Append(board, Looked(p).id)
      /\ UNCHANGED <<ledger, made, kind, occ, finished, overlaps, failures>>
      /\ dirty' = [dirty EXCEPT ![p] = TRUE] /\ \A q \in Procs \ {p} : copy'[q] = copy[q] /\ dirty'[q] = dirty[q]
      /\ dirty'[p] = TRUE
  BY DEF Fire, Steps, PmTypeOK
<1>2. IsFiniteSet(Strays') BY DEF Watched
<1>3. ~Forgets(i) /\ kind'[i] = kind[i] /\ Occasions(i)' = Occasions(i)
  <2>1. occ'[i] = occ[i] /\ \A k \in finished' : k \in finished BY <1>1
  <2> QED BY <1>1, <2>1, OnwardOccasions DEF PmTally
<1>4. PICK j : j = Looked(p).id OBVIOUS
<1>5. /\ j \in 1..made
      /\ i # j => TellsOf(kind[i], copy'[p], i) = TellsOf(kind[i], copy[p], i)
      /\ i = j => /\ TellsOf(kind[i], copy[p], i) \subseteq TellsOf(kind[i], copy'[p], i)
                  /\ TellsOf(kind[i], copy'[p], i) \subseteq 1..Occasions(i)
                  /\ \E x \in 1..Occasions(i) : x \in TellsOf(kind[i], copy'[p], i) \ TellsOf(kind[i], copy[p], i)
  <2>1. i \in Intents /\ TrueList(copy[p]) /\ InOrder BY MadeIs DEF PmTally, Told
  <2> QED BY <1>3, <1>4, <2>1, FireTells
<1>6. TasksOf(i)' = IF i = j THEN TasksOf(i) + 1 ELSE TasksOf(i)
  <2>1. i \in Intents /\ j \in Intents BY <1>5, MadeIs DEF PmTally
  <2> QED BY <1>1, <1>4, <2>1, TaskQueued
<1>7. PICK O, T, D, m, k, w, v : /\ O = Occasions(i) /\ T = TasksOf(i) /\ D = Strays
                                 /\ m = Tell(i) /\ k = Tell(i)'
                                 /\ w = Cardinality(Untold(D, m, O)) /\ v = Cardinality(Untold(D, k, O))
  OBVIOUS
<1>8. Debt(i) = T + w BY <1>7 DEF Debt
<1>9. Debt(i)' = (IF i = j THEN T + 1 ELSE T) + v BY <1>3, <1>6, <1>7 DEF Debt
<1>10. Means(i)' = Means(i) BY <1>1, <1>3 DEF Means
<1>11. /\ O \in Nat /\ T \in Nat /\ IsFiniteSet(D) /\ Means(i) \in Nat
       /\ \A l : TrueList(l) => Cardinality(TellsOf(kind[i], l, i)) \in Nat
  BY <1>3, <1>7, Sums
<1>12. \A q \in Procs : m[q] = TellsOf(kind[i], copy[q], i) /\ k[q] = TellsOf(kind[i], copy'[q], i)
  <2>1. k = [q \in Procs |-> TellsOf(kind'[i], copy'[q], i)] BY <1>7 DEF Tell
  <2> QED BY <1>3, <1>7, <2>1 DEF Tell
<1>13. D \subseteq Procs BY <1>7 DEF Strays
<1>14. \A q \in D : m[q] \subseteq k[q]
  <2> SUFFICES ASSUME NEW q \in D PROVE m[q] \subseteq k[q] OBVIOUS
  <2>1. q \in Procs BY <1>13
  <2>2. CASE q # p BY <1>1, <1>12, <2>1, <2>2
  <2>3. CASE q = p BY <1>5, <1>12, <2>1, <2>3
  <2> QED BY <2>2, <2>3
<1>15. /\ v \in Nat /\ w \in Nat /\ v <= w
       /\ \A q \in D : \A x \in 1..O : x \in k[q] \ m[q] => v + 1 <= w
  BY <1>7, <1>11, <1>14, UntoldFewer
<1>16. TrueList(ledger) /\ \A q \in Procs : TrueList(copy[q]) BY DEF PmTally, Told
<1>17. CASE i # j \/ p \in D
  <2>1. Debt(i)' <= Debt(i) /\ Debt(i)' \in Nat /\ Debt(i) \in Nat
    <3>1. CASE i # j BY <1>8, <1>9, <1>11, <1>15, <3>1
    <3>2. CASE i = j
      <4>1. PICK x \in 1..O : x \in TellsOf(kind[i], copy'[p], i) \ TellsOf(kind[i], copy[p], i)
        BY <1>5, <1>7, <3>2
      <4>2. v + 1 <= w BY <1>12, <1>15, <1>17, <3>2, <4>1
      <4> QED BY <1>8, <1>9, <1>11, <1>15, <3>2, <4>2
    <3> QED BY <3>1, <3>2
  <2>2. ASSUME NEW l, TrueList(l), Covers(l, i) PROVE Debt(i)' <= Cardinality(TellsOf(kind[i], l, i)) + Means(i)
    <3>1. PICK g : g = Cardinality(TellsOf(kind[i], l, i)) OBVIOUS
    <3>2. g \in Nat /\ Debt(i) <= g + Means(i) BY <1>11, <2>2, <3>1 DEF Covers
    <3> QED BY <1>11, <2>1, <3>1, <3>2
  <2>3. ASSUME NEW q \in Procs, Holds(q)' PROVE Covers(copy[q], i)'
    <3>1. Covers(copy[q], i) BY <2>3 DEF Covered
    <3>2. Debt(i)' <= Cardinality(TellsOf(kind[i], copy[q], i)) + Means(i) BY <1>16, <2>2, <3>1
    <3>3. TellsOf(kind[i], copy'[q], i) = TellsOf(kind[i], copy[q], i)
      <4>1. CASE q # p BY <1>1, <4>1
      <4>2. CASE q = p
        <5>1. p \notin D BY <1>7, <2>3, <4>2 DEF Strays
        <5> QED BY <1>5, <1>17, <4>2, <5>1
      <4> QED BY <4>1, <4>2
    <3> QED BY <1>3, <1>10, <3>2, <3>3 DEF Covers
  <2>4. (\A q \in Procs : Holds(q)' => ~dirty'[q]) => Covers(ledger, i)'
    <3>1. CASE \A q \in Procs : Holds(q)' => ~dirty'[q]
      <4>1. \A q \in Procs : Holds(q) => ~dirty[q] BY <1>1, <3>1
      <4>2. Covers(ledger, i) BY <4>1 DEF Covered
      <4>3. Debt(i)' <= Cardinality(TellsOf(kind[i], ledger, i)) + Means(i) BY <1>16, <2>2, <4>2
      <4> QED BY <1>1, <1>3, <1>10, <4>3 DEF Covers
    <3> QED BY <3>1
  <2> QED BY <2>3, <2>4 DEF Covered
<1>18. CASE i = j /\ p \notin D
  <2>1. Holds(p) /\ \A q \in Procs : Holds(q) => q = p
    <3>1. at[p] # 0
      <4>1. at[p] \in 1..Len(copy[p]) BY <1>1 DEF Looking
      <4> QED BY <4>1
    <3> QED BY <1>7, <1>18, <3>1 DEF Strays, Holds
  <2>2. PICK g, h : /\ g = Cardinality(TellsOf(kind[i], copy[p], i))
                    /\ h = Cardinality(TellsOf(kind[i], copy'[p], i))
    OBVIOUS
  <2>3. g \in Nat /\ h \in Nat /\ g + 1 <= h
    <3>1. IsFiniteSet(1..O) BY <1>11, FS_Interval
    <3>2. IsFiniteSet(TellsOf(kind[i], copy'[p], i)) BY <1>5, <1>7, <1>18, <3>1, FS_Subset
    <3>3. PICK x : x \in TellsOf(kind[i], copy'[p], i) \ TellsOf(kind[i], copy[p], i) BY <1>5, <1>18
    <3> QED BY <1>5, <1>18, <2>2, <3>2, <3>3, Sizes
  <2>4. Debt(i) <= g + Means(i) BY <2>1, <2>2 DEF Covered, Covers
  <2>5. Debt(i)' <= h + Means(i) BY <1>8, <1>9, <1>11, <1>15, <1>18, <2>3, <2>4
  <2>6. Covers(copy[p], i)' BY <1>3, <1>10, <2>2, <2>5 DEF Covers
  <2>7. Holds(p)' /\ dirty'[p] BY <1>1, <2>1
  <2> QED BY <2>1, <2>6, <2>7 DEF Covered
<1> QED BY <1>17, <1>18

\* The lock file ages or is removed.
LEMMA LockCovered ==
  ASSUME PmTypeOK, PmTypeOK', PmTally, Watched', Onward, NEW i \in 1..made, ~Forgets(i)', Covered(i),
         Ages \/ Break
  PROVE  Covered(i)'
<1>1. UNCHANGED <<ledger, copy, occ, board, finished, failures>>
      /\ overlaps \in Nat /\ failures \in Nat
  BY DEF Ages, Break, procVars, PmTypeOK
<1>2. IsFiniteSet(Strays') BY DEF Watched
<1>3. PICK O, b, m : O = Occasions(i) /\ b = Debt(i) /\ m = Means(i) OBVIOUS
<1>4. /\ ~Forgets(i) /\ kind'[i] = kind[i] /\ Debt(i)' \in Nat
      /\ overlaps' + failures' = overlaps + failures => Means(i)' = m
      /\ overlaps' + failures' = overlaps + failures + 1 => Means(i)' = m + O
  BY <1>1, <1>2, <1>3, SteadyDebt
<1>5. TrueList(ledger) /\ \A q \in Procs : TrueList(copy[q]) BY DEF PmTally, Told
<1>6. /\ O \in Nat /\ b \in Nat /\ m \in Nat
      /\ \A l : TrueList(l) => /\ TellsOf(kind[i], l, i) \subseteq 1..O
                               /\ Cardinality(TellsOf(kind[i], l, i)) \in Nat
                               /\ Cardinality(TellsOf(kind[i], l, i)) <= O
  BY <1>3, <1>4, Sums
<1>7. \A q \in Procs : ~Holds(q)'
  <2>1. CASE Ages BY <2>1, StraysAge DEF PmTally
  <2>2. CASE Break BY <2>2, StraysBreak
  <2> QED BY <2>1, <2>2
<1>8. CASE Strays' = Strays /\ overlaps' = overlaps /\ \A q \in Procs : ~Holds(q)
  <2>1. Debt(i)' = b BY <1>1, <1>2, <1>3, <1>8, SteadyDebt
  <2>2. Means(i)' = m BY <1>1, <1>4, <1>8
  <2>3. Covers(ledger, i) BY <1>8 DEF Covered
  <2>4. Covers(ledger, i)' BY <1>1, <1>3, <1>4, <2>1, <2>2, <2>3 DEF Covers
  <2> QED BY <1>7, <2>4 DEF Covered
<1>9. CASE /\ lock \in Procs /\ Holds(lock) /\ lock \notin Strays /\ Strays' = Strays \cup {lock}
           /\ overlaps' = overlaps + 1
  <2>1. PICK c, g : /\ c = Cardinality(TellsOf(kind[i], copy[lock], i))
                    /\ g = Cardinality(TellsOf(kind[i], ledger, i))
    OBVIOUS
  <2>2. c \in Nat /\ g \in Nat /\ TellsOf(kind[i], copy[lock], i) \subseteq 1..Occasions(i)
    BY <1>3, <1>5, <1>6, <1>9, <2>1
  <2>3. Debt(i)' + c = b + O
    <3>1. copy' = copy BY <1>1
    <3> QED BY <1>1, <1>2, <1>3, <1>9, <2>1, <2>2, <3>1, SteadyDebt
  <2>4. b <= c + m BY <1>3, <1>9, <2>1 DEF Covered, Covers
  <2>5. Means(i)' = m + O
    <3>1. overlaps' + failures' = overlaps + failures + 1 BY <1>1, <1>9
    <3> QED BY <1>4, <3>1
  <2>6. Debt(i)' <= g + (m + O) BY <1>4, <1>6, <2>2, <2>3, <2>4, Settles
  <2>7. Covers(ledger, i)' BY <1>1, <1>4, <2>1, <2>5, <2>6 DEF Covers
  <2> QED BY <1>7, <2>7 DEF Covered
<1> QED BY <1>8, <1>9, StraysAge, StraysBreak DEF Break, PmTally


\* The world goes on: one more occasion, and whoever is inside without the lock has not heard of it.
LEMMA WorldCovered ==
  ASSUME PmTypeOK, PmTypeOK', PmTally, Onward, NEW i \in 1..made, ~Forgets(i)', Covered(i),
         Happens \/ TaskDone
  PROVE  Covered(i)'
<1>1. UNCHANGED <<ledger, made, kind, lock, aged, at, copy, dirty, board, overlaps, failures>>
  BY DEF Happens, TaskDone, procVars
<1>2. /\ i \in Intents /\ ~Forgets(i) /\ kind'[i] = kind[i]
      /\ Occasions(i) \in Nat /\ Occasions(i)' \in Nat /\ Occasions(i) <= Occasions(i)'
  BY <1>1, OnwardOccasions DEF PmTally
<1>3. Occasions(i)' = Occasions(i) \/ Occasions(i)' = Occasions(i) + 1
  <2>1. /\ Occasions(i) \in Nat /\ occ[i] \in Nat
        /\ kind[i] \in {"once", "event"} => Occasions(i) = IF occ[i] > 0 THEN 1 ELSE 0
        /\ kind[i] \in {"repeat", "change", "every"} => Occasions(i) = occ[i]
        /\ kind[i] \notin {"once", "event", "repeat", "change", "every"} =>
             Occasions(i) = IF \E k \in finished : board[k] = i - 1 THEN 1 ELSE 0
    BY <1>2, OccasionsOf
  <2>2. /\ kind[i] \in {"once", "event"} => Occasions(i)' = IF occ'[i] > 0 THEN 1 ELSE 0
        /\ kind[i] \in {"repeat", "change", "every"} => Occasions(i)' = occ'[i]
        /\ kind[i] \notin {"once", "event", "repeat", "change", "every"} =>
             Occasions(i)' = IF \E k \in finished' : board'[k] = i - 1 THEN 1 ELSE 0
    <3>1. ~(kind[i] = "repeat" /\ occ'[i] > ConsumedCap) BY <1>2 DEF Forgets
    <3>2. kind[i] \in {"once", "event"} => Occasions(i)' = IF occ'[i] > 0 THEN 1 ELSE 0 BY <1>2 DEF Occasions
    <3>3. kind[i] \in {"repeat", "change", "every"} => Occasions(i)' = occ'[i]
      BY <1>2, <3>1 DEF Occasions
    <3>4. kind[i] \notin {"once", "event", "repeat", "change", "every"} =>
            Occasions(i)' = IF \E k \in finished' : board'[k] = i - 1 THEN 1 ELSE 0
      BY <1>2 DEF Occasions
    <3> QED BY <3>2, <3>3, <3>4
  <2>3. occ'[i] = occ[i] \/ occ'[i] = occ[i] + 1
    <3>1. CASE Happens
      <4>1. PICK j \in 1..made : occ' = [occ EXCEPT ![j] = @ + 1] BY <3>1 DEF Happens
      <4>2. occ \in [Intents -> Nat] BY DEF PmTypeOK
      <4> QED BY <1>2, <4>1, <4>2
    <3>2. CASE TaskDone BY <3>2 DEF TaskDone
    <3> QED BY <3>1, <3>2
  <2>4. CASE kind[i] \in {"once", "event"} BY <2>1, <2>2, <2>3, <2>4
  <2>5. CASE kind[i] \in {"repeat", "change", "every"} BY <2>1, <2>2, <2>3, <2>5
  <2>6. CASE kind[i] \notin {"once", "event", "repeat", "change", "every"}
    <3>1. Occasions(i) \in {0, 1} /\ Occasions(i)' \in {0, 1} BY <2>1, <2>2, <2>6
    <3> QED BY <1>2, <3>1
  <2> QED BY <2>4, <2>5, <2>6
<1>4. PICK O, P, T, D, m, F : /\ O = Occasions(i) /\ P = Occasions(i)' /\ T = TasksOf(i) /\ D = Strays
                              /\ m = Tell(i) /\ F = overlaps + failures
  OBVIOUS
<1>5. Strays' = D /\ (\A q \in Procs : Holds(q)' <=> Holds(q)) BY <1>1, <1>4, StraysStay
<1>6. Tell(i)' = m BY <1>1, <1>2, <1>4 DEF Tell
<1>7. TasksOf(i)' = T BY <1>1, <1>4 DEF TasksOf
<1>8. /\ Debt(i) = T + Cardinality(Untold(D, m, O)) /\ Means(i) = O * F
      /\ Debt(i)' = T + Cardinality(Untold(D, m, P)) /\ Means(i)' = P * F
  BY <1>1, <1>4, <1>5, <1>6, <1>7 DEF Debt, Means
<1>9. /\ O \in Nat /\ P \in Nat /\ T \in Nat /\ F \in Nat /\ IsFiniteSet(D) /\ Means(i) \in Nat
      /\ \A l : TrueList(l) => Cardinality(TellsOf(kind[i], l, i)) \in Nat
  BY <1>2, <1>4, Sums
<1>10. Cardinality(D) \in Nat /\ Cardinality(D) <= F
  <2>1. Cardinality(D) <= overlaps BY <1>4 DEF PmTally, Watched
  <2>2. Cardinality(D) \in Nat BY <1>9, FS_CardinalityType
  <2> QED BY <1>4, <2>1, <2>2 DEF PmTypeOK
<1>11. ASSUME NEW g \in Nat, Debt(i) <= g + Means(i) PROVE Debt(i)' <= g + Means(i)'
  <2>1. CASE P = O BY <1>8, <1>11, <2>1
  <2>2. CASE P = O + 1
    <3>1. PICK w, v : w = Cardinality(Untold(D, m, O)) /\ v = Cardinality(Untold(D, m, P)) OBVIOUS
    <3>2. w \in Nat /\ v \in Nat BY <1>9, <3>1, UntoldSize
    <3>3. v <= w + Cardinality(D) BY <1>9, <2>2, <3>1, UntoldMore
    <3>4. P * F = O * F + F
      <4>1. (O + 1) * F = O * F + F BY <1>9
      <4> QED BY <2>2, <4>1
    <3>5. O * F \in Nat BY <1>8, <1>9
    <3>6. \A t, a, b, c, d, e, f \in Nat : t + a <= c + d /\ b <= a + e /\ e <= f => t + b <= c + (d + f)
      OBVIOUS
    <3>7. T + w <= g + O * F BY <1>8, <1>11, <3>1
    <3>8. T + v <= g + (O * F + F) BY <1>9, <1>10, <1>11, <3>2, <3>3, <3>5, <3>6, <3>7
    <3> QED BY <1>8, <3>1, <3>4, <3>8
  <2> QED BY <1>3, <1>4, <2>1, <2>2
<1>12. TrueList(ledger) /\ \A q \in Procs : TrueList(copy[q]) BY DEF PmTally, Told
<1>13. \A l : TrueList(l) /\ Covers(l, i) => Debt(i)' <= Cardinality(TellsOf(kind[i], l, i)) + Means(i)'
  BY <1>9, <1>11 DEF Covers
<1>14. Covers(ledger, i) => Covers(ledger, i)' BY <1>1, <1>2, <1>12, <1>13 DEF Covers
<1>15. \A q \in Procs : Covers(copy[q], i) => Covers(copy[q], i)'
  BY <1>1, <1>2, <1>12, <1>13 DEF Covers
<1> QED BY <1>1, <1>5, <1>14, <1>15 DEF Covered

\* An intention just made has no task and no occasion.
LEMMA NewCovered ==
  ASSUME PmTypeOK, PmTypeOK', PmTally, PmTally', Onward, NEW p \in Procs, Adds(p), Edits(p),
         NEW i \in 1..made', i \notin 1..made, ~Forgets(i)'
  PROVE  Covered(i)'
<1>1. made' = made + 1 /\ made \in Nat /\ made + 1 \in Intents BY DEF Adds, PmTypeOK
<1>2. i = made + 1 BY <1>1
<1>3. UNCHANGED <<occ, board, finished>> BY DEF Edits
<1>4. occ'[i] = 0
  <2>1. occ[made + 1] = 0 BY <1>1 DEF PmTally, InOrder
  <2> QED BY <1>2, <1>3, <2>1
<1>5. /\ board \in Seq(Intents) /\ DOMAIN board = 1..Len(board) /\ Len(board) \in Nat
      /\ \A n \in 1..Len(board) : board[n] \in Nat /\ board[n] <= made
  <2>1. board \in Seq(Intents) /\ Len(board) \in Nat /\ DOMAIN board = 1..Len(board)
    BY LenProperties DEF PmTypeOK
  <2>2. \A n \in 1..Len(board) : board[n] \in Intents BY <2>1, ElementOfSeq
  <2>3. \A n \in Intents : n \in Nat BY ProspectiveAssumption DEF Intents
  <2> QED BY <2>1, <2>2, <2>3 DEF PmTally, InOrder
<1>6. TasksOf(i)' = 0
  <2>1. {n \in DOMAIN board : board[n] = i} = {} BY <1>1, <1>2, <1>5
  <2> QED BY <1>3, <2>1, FS_EmptySet DEF TasksOf
<1>7. Occasions(i)' = 0
  <2>1. ~\E k \in finished : board[k] = i - 1
    <3>1. \A k \in finished : k \in 1..Len(board) BY DEF PmTypeOK
    <3>2. \A k \in finished : board[k] < made BY DEF PmTally, InOrder
    <3>3. i - 1 = made BY <1>1, <1>2
    <3> QED BY <1>1, <1>5, <3>1, <3>2, <3>3
  <2>2. ~(kind'[i] = "repeat" /\ occ'[i] > ConsumedCap) BY <1>4, ProspectiveAssumption
  <2>3. kind'[i] \in {"once", "event"} => Occasions(i)' = 0 BY <1>4 DEF Occasions
  <2>4. kind'[i] \in {"repeat", "change", "every"} => Occasions(i)' = 0 BY <1>4, <2>2 DEF Occasions, Forgets
  <2>5. kind'[i] \notin {"once", "event", "repeat", "change", "every"} => Occasions(i)' = 0
    BY <1>3, <2>1 DEF Occasions, Forgets
  <2> QED BY <2>3, <2>4, <2>5
<1>8. Debt(i)' = 0
  <2>1. Untold(Strays', Tell(i)', 0) = {}
    <3>1. 1..0 = {} OBVIOUS
    <3> QED BY <3>1 DEF Untold
  <2>2. Debt(i)' = 0 + Cardinality({}) BY <1>6, <1>7, <2>1 DEF Debt
  <2> QED BY <2>2, FS_EmptySet
<1>9. Means(i)' = 0
  <2>1. overlaps' \in Nat /\ failures' \in Nat BY DEF PmTypeOK
  <2>2. \A a, b \in Nat : 0 * (a + b) = 0 OBVIOUS
  <2> QED BY <1>7, <2>1, <2>2 DEF Means
<1>10. \A l : TrueList(l)' => Cardinality(TellsOf(kind'[i], l, i)) \in Nat
  <2> SUFFICES ASSUME NEW l, TrueList(l)' PROVE Cardinality(TellsOf(kind'[i], l, i)) \in Nat OBVIOUS
  <2>1. TellsOf(kind'[i], l, i) \subseteq 1..(Occasions(i)') BY DEF TrueList, TrueItem, TellsOf
  <2>2. TellsOf(kind'[i], l, i) = {} BY <1>7, <2>1
  <2> QED BY <2>2, FS_EmptySet
<1>11. TrueList(ledger)' /\ \A q \in Procs : TrueList(copy[q])' BY DEF PmTally, Told
<1>12. Covers(ledger, i)'
  <2>1. PICK l : l = ledger' OBVIOUS
  <2>2. Cardinality(TellsOf(kind'[i], l, i)) \in Nat BY <1>10, <1>11, <2>1
  <2> QED BY <1>8, <1>9, <2>1, <2>2 DEF Covers
<1>13. ASSUME NEW q \in Procs PROVE Covers(copy[q], i)'
  <2>1. PICK l : l = copy'[q] OBVIOUS
  <2>2. Cardinality(TellsOf(kind'[i], l, i)) \in Nat BY <1>10, <1>11, <2>1
  <2> QED BY <1>8, <1>9, <2>1, <2>2 DEF Covers
<1> QED BY <1>12, <1>13 DEF Covered


LEMMA BoundKept ==
  ASSUME PmTypeOK, PmTypeOK', PmTally, PmTally', PmBound, Onward, [PmNext]_pmVars
  PROVE  PmBound'
<1> SUFFICES ASSUME NEW i \in 1..made', ~Forgets(i)' PROVE Covered(i)' BY DEF PmBound
<1>1. Watched' BY DEF PmTally
<1>2. CASE i \in 1..made
  <2>1. Covered(i)
    <3>1. ~Forgets(i) BY <1>2, OnwardOccasions DEF PmTally
    <3> QED BY <1>2, <3>1 DEF PmBound
  <2>2. ASSUME NEW p \in Procs, Edit(p) \/ Check(p) PROVE Covered(i)' BY <1>1, <1>2, <2>1, <2>2, TakeCovered
  <2>3. ASSUME NEW p \in Procs, EditUnlocked(p) PROVE Covered(i)' BY <1>1, <1>2, <2>1, <2>3, JoinCovered
  <2>4. ASSUME NEW p \in Procs, Save(p) \/ FireRaises(p) \/ PmCrash(p) PROVE Covered(i)'
    BY <1>1, <1>2, <2>1, <2>4, LeaveCovered
  <2>5. ASSUME NEW p \in Procs, Fire(p) \/ Pass(p) PROVE Covered(i)'
    <3>1. Looking(p) /\ UNCHANGED <<lock, aged>> /\ at' = [at EXCEPT ![p] = @ + 1]
      BY <2>5 DEF Fire, Pass, Steps
    <3>2. \A q \in Procs : at[q] # 0 <=> at'[q] # 0
      <4>1. at[p] \in 1..Len(copy[p]) /\ at[p] \in Nat /\ at'[p] = at[p] + 1 BY <3>1 DEF Looking, PmTypeOK
      <4>2. at[p] # 0 /\ at'[p] # 0 BY <4>1
      <4>3. \A q \in Procs \ {p} : at'[q] = at[q] BY <3>1 DEF PmTypeOK
      <4> QED BY <4>2, <4>3
    <3>3. Strays' = Strays /\ \A q \in Procs : Holds(q)' <=> Holds(q) BY <3>1, <3>2, StraysStay
    <3> QED BY <1>1, <1>2, <2>1, <2>5, <3>3, FireCovered, PassCovered
  <2>6. CASE Ages \/ Break BY <1>1, <1>2, <2>1, <2>6, LockCovered
  <2>7. CASE Happens \/ TaskDone BY <1>2, <2>1, <2>7, WorldCovered
  <2>8. CASE UNCHANGED pmVars
    <3>1. UNCHANGED <<ledger, made, kind, lock, aged, at, copy, dirty, occ, board, finished, overlaps, failures>>
      BY <2>8 DEF pmVars
    <3>2. Debt(i)' = Debt(i) /\ Means(i)' = Means(i)
      BY <3>1 DEF Debt, Means, Tell, TasksOf, Strays, Holds, Occasions, Forgets
    <3> QED BY <2>1, <3>1, <3>2 DEF Covered, Covers, Holds
  <2>9. \A p \in Askers \cup Checkers : p \in Procs BY DEF Procs
  <2> QED BY <2>2, <2>3, <2>4, <2>5, <2>6, <2>7, <2>8, <2>9 DEF PmNext, Ticks
<1>3. CASE i \notin 1..made
  <2>1. \E p \in Procs : Edits(p) /\ Adds(p)
    <3>1. made' # made BY <1>3
    <3>2. \A p \in Askers \cup Checkers : p \in Procs BY DEF Procs
    <3>3. ASSUME NEW p \in Procs, Check(p) \/ Fire(p) \/ Pass(p) \/ Save(p) \/ FireRaises(p) \/ PmCrash(p)
          PROVE  made' = made
      BY <3>3 DEF Check, Fire, Pass, Save, FireRaises, PmCrash
    <3>4. (Ages \/ Break \/ Happens \/ TaskDone \/ UNCHANGED pmVars) => made' = made
      BY DEF Ages, Break, Happens, TaskDone, pmVars
    <3>5. \E p \in Procs : Edits(p) BY <3>1, <3>2, <3>3, <3>4 DEF PmNext, Ticks, Edit, EditUnlocked
    <3>6. PICK p \in Procs : Edits(p) BY <3>5
    <3>7. Cancels(p) => made' = made BY DEF Cancels
    <3> QED BY <3>1, <3>6, <3>7 DEF Edits
  <2> QED BY <1>3, <2>1, NewCovered
<1> QED BY <1>2, <1>3

LEMMA TallyBegins == PmInit => PmTally /\ PmBound
<1> SUFFICES ASSUME PmInit PROVE PmTally /\ PmBound OBVIOUS
<1>1. /\ made = 0 /\ board = <<>> /\ ledger = <<>> /\ finished = {} /\ overlaps = 0 /\ lock = NoProc
      /\ \A p \in Procs : at[p] = 0 /\ copy[p] = <<>>
      /\ \A i \in Intents : occ[i] = 0
  BY DEF PmInit
<1>2. InOrder
  <2>1. Len(<<>>) = 0 /\ 1..0 = {} OBVIOUS
  <2> QED BY <1>1, <2>1, ProspectiveAssumption DEF InOrder
<1>3. TrueList(<<>>)
  <2>1. 1..Len(<<>>) = {} OBVIOUS
  <2> QED BY <2>1 DEF TrueList
<1>4. Told BY <1>1, <1>3 DEF Told
<1>5. Strays = {} BY <1>1 DEF Strays
<1>6. Watched
  <2>1. NoProc \notin Procs BY ProspectiveAssumption DEF Procs
  <2>2. IsFiniteSet({}) /\ Cardinality({}) = 0 BY FS_EmptySet
  <2> QED BY <1>1, <1>5, <2>1, <2>2 DEF Watched
<1>7. PmBound
  <2>1. 1..made = {} BY <1>1
  <2> QED BY <2>1 DEF PmBound
<1> QED BY <1>2, <1>4, <1>6, <1>7 DEF PmTally

\* The debt is within what one ledger can tell and the faults can repeat.
LEMMA BoundFires == ASSUME PmTypeOK, PmTally, PmBound PROVE FiredOncePerFault
<1> SUFFICES ASSUME NEW i \in 1..made PROVE TasksOf(i) <= Occasions(i) * (1 + overlaps + failures)
  BY DEF FiredOncePerFault
<1>1. i \in Intents /\ overlaps \in Nat /\ failures \in Nat BY MadeIs DEF PmTally, PmTypeOK
<1>2. \A a, x, y \in Nat : /\ a * (x + y) \in Nat
                           /\ a * (1 + x + y) = a + a * (x + y) /\ a <= a * (1 + x + y)
  <2> SUFFICES ASSUME NEW a \in Nat, NEW x \in Nat, NEW y \in Nat
               PROVE  /\ a * (x + y) \in Nat
                      /\ a * (1 + x + y) = a + a * (x + y) /\ a <= a * (1 + x + y)
    OBVIOUS
  <2>1. x + y \in Nat /\ 1 + x + y = (x + y) + 1 OBVIOUS
  <2>2. a * (x + y) \in Nat /\ a * ((x + y) + 1) = a * (x + y) + a BY <2>1, TimesGrows
  <2> QED BY <2>1, <2>2
<1>3. CASE Forgets(i)
  <2>1. Occasions(i) = MaxTasks BY <1>3 DEF Occasions, Forgets
  <2>2. Len(board) <= MaxTasks BY DEF PmTally, InOrder
  <2>3. TasksOf(i) \in Nat /\ TasksOf(i) <= Len(board) /\ Len(board) \in Nat
    BY <1>1, TasksAre, LenProperties DEF PmTypeOK
  <2>4. MaxTasks \in Nat /\ MaxTasks <= MaxTasks * (1 + overlaps + failures)
    BY <1>1, <1>2, ProspectiveAssumption
  <2>5. MaxTasks * (1 + overlaps + failures) \in Nat
    <3>1. MaxTasks * (overlaps + failures) \in Nat BY <1>1, <1>2, <2>4
    <3>2. MaxTasks * (1 + overlaps + failures) = MaxTasks + MaxTasks * (overlaps + failures)
      BY <1>1, <1>2, <2>4
    <3> QED BY <2>4, <3>1, <3>2
  <2>6. \A a, b, c, d \in Nat : a <= b /\ b <= c /\ c <= d => a <= d OBVIOUS
  <2> QED BY <2>1, <2>2, <2>3, <2>4, <2>5, <2>6
<1>4. CASE ~Forgets(i)
  <2>1. Covered(i) BY <1>4 DEF PmBound
  <2>2. TrueList(ledger) /\ \A q \in Procs : TrueList(copy[q]) BY DEF PmTally, Told
  <2>3. \E l : TrueList(l) /\ Covers(l, i)
    <3>1. CASE \E q \in Procs : Holds(q) BY <2>1, <2>2, <3>1 DEF Covered
    <3>2. CASE \A q \in Procs : ~Holds(q) BY <2>1, <2>2, <3>2 DEF Covered
    <3> QED BY <3>1, <3>2
  <2>4. PICK l : TrueList(l) /\ Covers(l, i) BY <2>3
  <2>5. PICK O, g, T, m : /\ O = Occasions(i) /\ g = Cardinality(TellsOf(kind[i], l, i))
                          /\ T = TasksOf(i) /\ m = Means(i)
    OBVIOUS
  <2>6. /\ O \in Nat /\ T \in Nat /\ m \in Nat /\ g \in Nat /\ g <= O /\ Debt(i) \in Nat
        /\ IsFiniteSet(Strays)
    BY <1>4, <2>4, <2>5, Sums
  <2>7. T <= Debt(i)
    <3>1. PICK w : w = Cardinality(Untold(Strays, Tell(i), Occasions(i))) OBVIOUS
    <3>2. w \in Nat BY <2>5, <2>6, <3>1, UntoldSize
    <3>3. Debt(i) = T + w BY <2>5, <3>1 DEF Debt
    <3> QED BY <2>6, <3>2, <3>3
  <2>8. Debt(i) <= g + m BY <2>4, <2>5 DEF Covers
  <2>9. O * (1 + overlaps + failures) = O + m BY <1>1, <1>2, <2>5, <2>6 DEF Means
  <2>10. T <= O + m BY <2>6, <2>7, <2>8
  <2> QED BY <2>5, <2>9, <2>10
<1> QED BY <1>3, <1>4

\* The double firing that was measured live needs a fault: an intention queues one task for each
\* occasion, and each broken or missing lock, kill or refused task repeats an occasion once.
THEOREM FiredOncePerFaultHolds == PmSpec => []FiredOncePerFault
<1>1. PmInit => PmTally /\ PmBound BY TallyBegins
<1>2. PmTypeOK /\ PmTypeOK' /\ PmTally /\ PmBound /\ [PmNext]_pmVars => PmTally' /\ PmBound'
  <2> SUFFICES ASSUME PmTypeOK, PmTypeOK', PmTally, PmBound, [PmNext]_pmVars PROVE PmTally' /\ PmBound'
    OBVIOUS
  <2>1. Onward BY OnwardStep
  <2>2. InOrder' BY InOrderKept DEF PmTally
  <2>3. Told' BY <2>1, ToldKept DEF PmTally
  <2>4. Watched' BY WatchedKept DEF PmTally
  <2>5. PmTally' BY <2>2, <2>3, <2>4 DEF PmTally
  <2> QED BY <2>1, <2>5, BoundKept
<1>3. PmTypeOK /\ PmTally /\ PmBound => FiredOncePerFault BY BoundFires
<1> QED BY <1>1, <1>2, <1>3, PmTypeCorrect, PTL DEF PmSpec

-----------------------------------------------------------------------------
(* The composition TLC explores (MCStanding). *)

\* What TLC explores are behaviours of the effects ledger, of the intentions, of the reconcilers
\* and of safe mode: no part relies on another, and the bound Narrow only leaves steps out.
THEOREM StandingPartsKeepTheirSpecs == MCStandingSpec => Spec /\ PmSpec /\ RcSpec /\ SmSpec
<1>1. MCStart => Init /\ PmInit /\ RcInit /\ SmInit BY DEF MCStart
<1>2. [MCSteps]_<<vars, pmVars, rcVars, smVars, part>> =>
        [Next]_vars /\ [PmNext]_pmVars /\ [RcNext]_rcVars /\ [SmNext]_smVars
  BY DEF MCSteps, Acting, Prospecting, Reconciling, Guarding
<1> QED BY <1>1, <1>2, PTL DEF MCStandingSpec, Spec, PmSpec, RcSpec, SmSpec

\* The ledgers, the records and the processes that edit them keep their types, all of them in
\* every part.
THEOREM StandingTypeCorrect == MCStandingSpec => []StandingTypeOK
<1>1. SmInv => SmTypeOK BY DEF SmInv
<1>2. TypeOK /\ PmTypeOK /\ RcTypeOK /\ SmTypeOK => StandingTypeOK BY DEF StandingTypeOK
<1> QED
  BY <1>1, <1>2, StandingPartsKeepTheirSpecs, TypeCorrect, PmTypeCorrect, RcTypeCorrect, SmInvHolds, PTL
=============================================================================
