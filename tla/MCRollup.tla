------------------------------ MODULE MCRollup ------------------------------
(* Instances of Rollup for TLC.                                              *)
EXTENDS Rollup, TLC

\* Neither the repositories nor the workers are ordered or told apart.
Symmetry == Permutations(Repos) \cup Permutations(Workers)
=============================================================================
