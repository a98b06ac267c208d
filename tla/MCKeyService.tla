------------------------------ MODULE MCKeyService ------------------------------
(* Instance of KeyService for TLC: calls, ids, names and keys are each           *)
(* interchangeable.                                                              *)
EXTENDS KeyService, TLC

Symmetry == Permutations(Calls) \cup Permutations(Ids)
              \cup Permutations(Names) \cup Permutations(Keys)
=============================================================================
