----------------------------- MODULE MCExecution -----------------------------
(* Small instances of Execution for TLC.                                   *)
EXTENDS Execution, TLC

CONSTANTS k1, k2, a, b

Symmetric == Permutations(Calls) \cup Permutations(Conns)

=============================================================================
