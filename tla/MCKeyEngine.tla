------------------------------ MODULE MCKeyEngine ------------------------------
(* Instance of KeyEngine for TLC; requests and keys are interchangeable.       *)
EXTENDS KeyEngine, TLC

Symmetry == Permutations(Requests) \cup Permutations(Keys)
=============================================================================
