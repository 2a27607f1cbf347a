---------------------------- MODULE MCFileMutex ----------------------------
(* TLC instances of FileMutex: two or three interchangeable processes.     *)
EXTENDS FileMutex, TLC

CONSTANTS p1, p2, p3
TwoProcs == {p1, p2}
ThreeProcs == {p1, p2, p3}
ProcSymmetry == Permutations(Procs)
=============================================================================
