------------------------------ MODULE Frontier ------------------------------
(***************************************************************************)
(* The capability frontier (frontier.py): how one capability is proposed,  *)
(* observed to be absent, acquired, observed to be present and adopted.    *)
(*                                                                         *)
(* Every command reads the capability's row, does something slow (a probe, *)
(* an installation) and writes the whole row back; only the write is       *)
(* locked.  Seals are appended to a ledger of their own.  A probe is named *)
(* by what it probes for, a package; the need and its quote are left out.  *)
(***************************************************************************)
EXTENDS Naturals, FiniteSets

CONSTANTS
  Agents, Owners,  \* processes that run the frontier's commands, and who is behind them
  Probes,      \* what a proposal may ask for: the probe and its package
  Hows,        \* the commands a proposal may publish
  NoProbe,     \* not in Probes: no seal, no hash, no file
  NoHow,       \* not in Hows: nothing echoed, nothing published
  MaxGen,      \* bound: generations
  MaxBegun,    \* bound: commands begun
  MaxRemoved   \* bound: packages taken away again

ASSUME FrontierAssumption ==
  /\ NoProbe \notin Probes /\ NoHow \notin Hows /\ Agents \cap Owners = {}
  /\ MaxGen \in Nat \ {0} /\ MaxBegun \in Nat /\ MaxRemoved \in Nat

VARIABLES
  cap,        \* its row in frontier.json
  firstSeal,  \* firstSeal[g]: the first probe sealed for generation g
  conflict,   \* generations with a second, different seal
  probeFile,  \* frontier/probes/<capability>.json
  there,      \* packages whose probe passes
  tested,     \* packages acquire.py has at stage "tested"
  adoption,   \* adoption[g]: the first adoption sealed for generation g
  asked, granted,  \* approval keys
  op,         \* op[p]: the command p runs
  begun, removed,
  absent,     \* history: probes seen to fail inside a sandbox
  present,    \* history: probes seen to pass after that
  slipped     \* history: a command read the row again, and it was another one by then

frVars == <<cap, firstSeal, conflict, probeFile, there, tested, adoption, asked, granted, op,
            begun, removed, absent, present, slipped>>
sealRows == <<firstSeal, conflict, adoption>>
files == <<probeFile, there, tested>>
decisions == <<asked, granted>>
seen == <<absent, present, slipped>>

Commanders == Agents \cup Owners
Gens == 1..MaxGen
Stages == {"none", "proposed", "unfalsifiable", "red", "acquiring", "proven", "owned", "refused",
           "impossible", "retired"}
SomeProbe == Probes \cup {NoProbe}
SomeHow == Hows \cup {NoHow}
Rows == [stage : Stages, gen : Gens, probe : SomeProbe, how : SomeHow, hash : SomeProbe,
         contained : BOOLEAN, acq : SomeProbe]   \* acq: the package it was acquired with
Keys == Gens \X SomeHow \X SomeProbe
OpPoints == {"idle", "propose", "seal", "probe", "falsified", "acquire", "install", "installed",
           "proven", "adopt", "gate", "promote", "publish", "retire", "reseal", "terms"}

\* The row a command read, what its probe answered and the command its owner typed.
Op(where, row, rc, echo) == [where |-> where, row |-> row, rc |-> rc, echo |-> echo]
NoRow == [stage |-> "none", gen |-> 1, probe |-> NoProbe, how |-> NoHow, hash |-> NoProbe,
          contained |-> FALSE, acq |-> NoProbe]
Idle == Op("idle", NoRow, 0, NoHow)

FrTypeOK ==
  /\ cap \in Rows
  /\ firstSeal \in [Gens -> SomeProbe] /\ conflict \subseteq Gens
  /\ probeFile \in SomeProbe /\ there \subseteq Probes /\ tested \subseteq Probes
  /\ adoption \in [Gens -> [how : SomeHow, hash : SomeProbe, sealed : BOOLEAN]]
  /\ asked \subseteq Keys /\ granted \subseteq Keys
  /\ op \in [Commanders -> [where : OpPoints, row : Rows, rc : 0..2, echo : SomeHow]]
  /\ begun \in Nat /\ removed \in Nat
  /\ absent \subseteq Probes /\ present \subseteq Probes
  /\ slipped \in BOOLEAN

Unsealed == [how |-> NoHow, hash |-> NoProbe, sealed |-> FALSE]

FrInit ==
  /\ cap = NoRow
  /\ firstSeal = [g \in Gens |-> NoProbe] /\ conflict = {}
  /\ adoption = [g \in Gens |-> Unsealed]
  /\ probeFile = NoProbe /\ there = {} /\ tested = {}
  /\ asked = {} /\ granted = {}
  /\ op = [p \in Commanders |-> Idle]
  /\ begun = 0 /\ removed = 0 /\ absent = {} /\ present = {} /\ slipped = FALSE

-----------------------------------------------------------------------------
Begins(p, o) ==
  /\ op[p].where = "idle" /\ begun < MaxBegun /\ begun' = begun + 1
  /\ op' = [op EXCEPT ![p] = o]
  /\ UNCHANGED <<cap, sealRows, files, decisions, removed, seen>>

GoesOn(p, from, o) == op[p].where = from /\ op' = [op EXCEPT ![p] = o] /\ UNCHANGED <<begun, removed>>

\* _put: the whole row, under the lock, whatever is there by now.
Puts(p, from, row) == GoesOn(p, from, Idle) /\ cap' = row

\* attemptable: a refused one only when its date has come.
Attemptable == cap.stage \notin {"impossible", "retired", "owned"}

\* _probe_hash, sealed_probe_hash and the package: what the probe of generation g answers.
Answers(g) ==
  IF probeFile = NoProbe \/ g \in conflict \/ firstSeal[g] # probeFile THEN 2
  ELSE IF probeFile \in there THEN 0 ELSE 1

-----------------------------------------------------------------------------
(* The agent's commands.                                                   *)

\* propose: it reads the row; it writes a fresh one of the same generation.
ProposeReads(p) == Attemptable /\ Begins(p, Op("propose", cap, 0, NoHow))

Propose(p) ==
  /\ \E s \in Probes, h \in Hows :
       Puts(p, "propose", [stage |-> "proposed", gen |-> op[p].row.gen, probe |-> s, how |-> h,
                           hash |-> NoProbe, contained |-> FALSE, acq |-> NoProbe])
  /\ UNCHANGED <<sealRows, files, decisions, seen>>

\* falsify: a fresh proposal whose probe is the sealed one, or the first.
FalsifyReads(p) ==
  /\ cap.stage = "proposed" /\ cap.gen \notin conflict
  /\ firstSeal[cap.gen] \in {NoProbe, cap.probe}
  /\ Begins(p, Op("seal", cap, IF firstSeal[cap.gen] = NoProbe THEN 1 ELSE 0, NoHow))

\* It found no seal: it appends one, the first or not.
FalsifySeals(p) ==
  LET g == op[p].row.gen
      s == op[p].row.probe
  IN  /\ GoesOn(p, "seal", Op("probe", op[p].row, 0, NoHow))
      /\ probeFile' = s
      /\ firstSeal' = IF op[p].rc = 1 /\ firstSeal[g] = NoProbe
                      THEN [firstSeal EXCEPT ![g] = s] ELSE firstSeal
      /\ conflict' = IF op[p].rc = 1 /\ firstSeal[g] \notin {NoProbe, s}
                     THEN conflict \cup {g} ELSE conflict
      /\ UNCHANGED <<cap, adoption, there, tested, decisions, seen>>

\* run_probe reads the row, the file and the seals for itself.
FalsifyProbes(p) ==
  /\ \E contained \in BOOLEAN :
       /\ GoesOn(p, "probe", Op("falsified", [op[p].row EXCEPT !.contained = contained],
                              Answers(cap.gen), NoHow))
       /\ absent' = IF contained /\ Answers(cap.gen) = 1
                    THEN absent \cup {probeFile} ELSE absent
  /\ slipped' = (slipped \/ cap.gen # op[p].row.gen)
  /\ UNCHANGED <<cap, sealRows, files, decisions, present>>

Falsify(p) ==
  LET o == op[p]
  IN  /\ Puts(p, "falsified",
              [o.row EXCEPT !.hash = o.row.probe, !.contained = o.rc = 1 /\ @,
                 !.stage = CASE o.rc = 0 -> "unfalsifiable" [] o.rc = 1 -> "red"
                             [] OTHER -> "impossible"])
      /\ UNCHANGED <<sealRows, files, decisions, seen>>

\* acquire --apply: only what was seen to fail in a sandbox ...
\* Mutant: or on the host.
AcquireReadsAnyRed(p) == cap.stage = "red" /\ Begins(p, Op("acquire", cap, 0, NoHow))

AcquireReads(p) ==
  /\ cap.stage = "red" /\ cap.contained
  /\ Begins(p, Op("acquire", cap, 0, NoHow))

\* ... and only along a route that needs no owner.
AcquireBegins(p) ==
  /\ \/ /\ GoesOn(p, "acquire", [op[p] EXCEPT !.where = "install"])
        /\ cap' = [op[p].row EXCEPT !.stage = "acquiring"]
     \/ Puts(p, "acquire", [op[p].row EXCEPT !.stage = "impossible"])
  /\ UNCHANGED <<sealRows, files, decisions, seen>>

\* acquire.request, install and capability_test: the package passes their own test and is
\* moved into place, where nothing may be.
Installs(p) ==
  LET s == op[p].row.probe
  IN  /\ GoesOn(p, "install", [op[p] EXCEPT !.where = "installed"])
      /\ s \notin there /\ there' = there \cup {s} /\ tested' = tested \cup {s}
      /\ UNCHANGED <<cap, sealRows, probeFile, decisions, seen>>

\* They refuse, perhaps after request has replaced the acquisition's row.
InstallFails(p) ==
  /\ Puts(p, "install", [cap EXCEPT !.stage = "refused"])
  /\ tested' \in {tested, tested \ {op[p].row.probe}}
  /\ UNCHANGED <<sealRows, probeFile, there, decisions, seen>>

\* The row as it is now, and the sealed probe against what was installed.
AcquireProbes(p) ==
  /\ GoesOn(p, "installed",
            Op("proven", [cap EXCEPT !.acq = IF Answers(cap.gen) = 0 THEN op[p].row.probe ELSE @],
               Answers(cap.gen), NoHow))
  /\ present' = IF Answers(cap.gen) = 0 THEN present \cup ({probeFile} \cap absent) ELSE present
  /\ slipped' = (slipped \/ cap # [op[p].row EXCEPT !.stage = "acquiring"])
  /\ UNCHANGED <<cap, sealRows, files, decisions, absent>>

Acquire(p) ==
  /\ Puts(p, "proven", [op[p].row EXCEPT !.stage = IF op[p].rc = 0 THEN "proven" ELSE "refused"])
  /\ UNCHANGED <<sealRows, files, decisions, seen>>

-----------------------------------------------------------------------------
(* The owner's commands.                                                   *)

Key(row) == <<row.gen, row.how, row.hash>>

\* _owner_gate: the command that is published now, echoed, and a grant for it.
Gate(p, granting) ==
  /\ op[p].echo = cap.how
  /\ IF granting THEN Key(cap) \in granted ELSE Key(cap) \notin granted

\* It asks for the grant, and the command ends.
GateAsks(p) ==
  /\ \/ Gate(p, FALSE) /\ asked' = asked \cup {Key(cap)}
     \/ op[p].echo # cap.how /\ UNCHANGED asked
  /\ op[p].where \in {"gate", "retire", "reseal", "terms"} /\ op' = [op EXCEPT ![p] = Idle]
  /\ UNCHANGED <<cap, sealRows, files, granted, begun, removed, seen>>

OwnerGrants ==
  /\ \E k \in asked \ granted : granted' = granted \cup {k}
  /\ UNCHANGED <<cap, sealRows, files, asked, op, begun, removed, seen>>

\* adopt: what is proven and passes its probe again ...
AdoptReads(p) ==
  \E h \in Hows : /\ cap.stage = "proven" /\ cap.gen \notin conflict
                  /\ Begins(p, Op("adopt", cap, 0, h))

AdoptProbes(p) ==
  /\ Answers(cap.gen) = 0
  /\ GoesOn(p, "adopt", [op[p] EXCEPT !.where = "gate"])
  /\ UNCHANGED <<cap, sealRows, files, decisions, seen>>

AdoptPasses(p) ==
  /\ Gate(p, TRUE)
  /\ GoesOn(p, "gate", [op[p] EXCEPT !.where = "promote"])
  /\ slipped' = (slipped \/ Key(cap) # Key(op[p].row))
  /\ UNCHANGED <<cap, sealRows, files, decisions, absent, present>>

\* ... is trusted, sealed with the command and the probe of the row it read first ...
AdoptPromotes(p) ==
  /\ op[p].row.acq \in tested /\ tested' = tested \ {op[p].row.acq}
  /\ GoesOn(p, "promote", [op[p] EXCEPT !.where = "publish"])
  /\ LET row == op[p].row
     IN  adoption' = IF adoption[row.gen].sealed THEN adoption
                     ELSE [adoption EXCEPT ![row.gen] = [how |-> row.how, hash |-> row.hash,
                                                         sealed |-> TRUE]]
  /\ UNCHANGED <<cap, firstSeal, conflict, probeFile, there, decisions, seen>>

\* ... and owned.
Adopt(p) ==
  /\ Puts(p, "publish", [op[p].row EXCEPT !.stage = "owned"])
  /\ UNCHANGED <<sealRows, files, decisions, seen>>

OwnerReads(p, what) ==
  \E h \in Hows : cap.stage # "none" /\ Begins(p, Op(what, cap, 0, h))

Retire(p) ==
  /\ Gate(p, TRUE) /\ Puts(p, "retire", [op[p].row EXCEPT !.stage = "retired"])
  /\ UNCHANGED <<sealRows, files, decisions, seen>>

Reseal(p) ==
  /\ Gate(p, TRUE) /\ op[p].row.gen < MaxGen
  /\ Puts(p, "reseal", [op[p].row EXCEPT !.stage = "proposed", !.gen = @ + 1, !.hash = NoProbe,
                                         !.contained = FALSE])
  /\ UNCHANGED <<sealRows, files, decisions, seen>>

\* accept_terms: the terms are left out, and the row it read is put back.
AcceptTerms(p) ==
  /\ Gate(p, TRUE) /\ Puts(p, "terms", op[p].row)
  /\ UNCHANGED <<sealRows, files, decisions, seen>>

-----------------------------------------------------------------------------
\* acquire.remove.
Removes ==
  /\ removed < MaxRemoved /\ removed' = removed + 1
  /\ \E s \in there : there' = there \ {s} /\ tested' = tested \ {s}
  /\ UNCHANGED <<cap, sealRows, probeFile, decisions, op, begun, seen>>

\* A kill, a lock that timed out, a refusal that is not written down.
Aborts(p) ==
  /\ op[p].where # "idle" /\ op' = [op EXCEPT ![p] = Idle]
  /\ UNCHANGED <<cap, sealRows, files, decisions, begun, removed, seen>>

AgentStep(p) ==
  \/ ProposeReads(p) \/ Propose(p)
  \/ FalsifyReads(p) \/ FalsifySeals(p) \/ FalsifyProbes(p) \/ Falsify(p)
  \/ AcquireReads(p) \/ AcquireBegins(p) \/ Installs(p) \/ InstallFails(p)
  \/ AcquireProbes(p) \/ Acquire(p)

OwnerStep(p) ==
  \/ AdoptReads(p) \/ AdoptProbes(p) \/ AdoptPasses(p) \/ AdoptPromotes(p) \/ Adopt(p)
  \/ OwnerReads(p, "retire") \/ OwnerReads(p, "reseal") \/ OwnerReads(p, "terms")
  \/ GateAsks(p) \/ Retire(p) \/ Reseal(p) \/ AcceptTerms(p)

FrNext ==
  \/ OwnerGrants \/ Removes
  \/ \E p \in Agents : AgentStep(p) \/ Aborts(p)
  \/ \E p \in Owners : OwnerStep(p) \/ Aborts(p)

FrSpec == FrInit /\ [][FrNext]_frVars

-----------------------------------------------------------------------------
\* capabilities: what is published to every agent as ready.
Ready ==
  /\ cap.stage = "owned" /\ cap.hash # NoProbe
  /\ adoption[cap.gen] = [how |-> cap.how, hash |-> cap.hash, sealed |-> TRUE]

\* The ladder cannot be skipped: what is published as ready was seen to fail in a sandbox
\* and then to pass, and an owner granted this very command, unless a command that was
\* under way read the row again after another command had rewritten it.
ReadyIsEarned ==
  Ready /\ ~slipped => cap.probe \in absent \cap present /\ Key(cap) \in granted
=============================================================================
