----------------------------- MODULE MCWebSession -----------------------------
(* Small instances of WebSession for TLC.                                  *)
EXTENDS WebSession, TLC

CONSTANTS s1, s2, q1, q2

Symmetric == Permutations(Sids) \cup Permutations(Reqs)

=============================================================================
