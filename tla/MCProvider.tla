----------------------------- MODULE MCProvider -----------------------------
(* Instances of Provider for TLC. *)
EXTENDS Provider, TLC

CONSTANTS p1, p2, s1, s2

\* Instances, and callbacks, are interchangeable.
MCSymmetry == Permutations(Instances) \cup Permutations(Sinks)
=============================================================================
