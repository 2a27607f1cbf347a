------------------------------- MODULE Mutex -------------------------------
(***************************************************************************)
(* What every lock of the repository promises its callers: the body of a   *)
(* with-block is executed by at most one process at a time.  FileMutex and *)
(* AdvisoryLock are the two ways the code keeps, or tries to keep, it.     *)
(***************************************************************************)
CONSTANT Procs          \* the processes that contend for one lock path

VARIABLE inside         \* the processes executing the with-block

Init == inside = {}

Enter(p) == inside = {} /\ inside' = {p}

\* A process leaves by reaching the end of the block, or by dying inside it.
Leave(p) == p \in inside /\ inside' = inside \ {p}

Next == \E p \in Procs : Enter(p) \/ Leave(p)

Spec == Init /\ [][Next]_inside
=============================================================================
