---------------------------- MODULE MCTaskQueue ----------------------------
(***************************************************************************)
(* TLC instances of TaskQueue: the constants of every run, and the         *)
(* symmetry of loops that differ in nothing but their names.               *)
(***************************************************************************)
EXTENDS TaskQueue, TLC

CONSTANTS a, b, d,       \* loops
          h1, h2,        \* answerers
          ml             \* the one course

None == {}
OnlyB == {b}
OneLoop == {a}
TwoLoops == {a, b}
ThreeLoops == {a, b, d}
OneAnswerer == {h1}
TwoAnswerers == {h1, h2}
OneCourse == {ml}

\* One host, and every process its own pid.
OneHost == [p \in Loops |-> "host"]
OwnPid == [p \in Loops |-> p]
\* A container: the same host name and the same pid at every start.
SamePid == [p \in Loops |-> "pid"]
\* Every loop on its own machine, sharing the storage.
OwnHost == [p \in Loops |-> p]

WorkerRoles == {"worker", "reflector"}
NoChain == [r \in WorkerRoles |-> NoRole]
PipelineRoles == {"ripper", "watcher", "reflector"}
Pipeline == [r \in PipelineRoles |-> IF r = "ripper" THEN "watcher" ELSE NoRole]
Workers == {"worker"}
Rippers == {"ripper"}
Watchers == {"watcher"}
NoLimit == {0}
SomeLimits == {0, 1}

LoopSymmetry == Permutations(Loops)
=============================================================================
