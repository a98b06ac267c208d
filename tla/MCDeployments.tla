----------------------------- MODULE MCDeployments -----------------------------
(* Instance of Deployments for TLC: model values for the calls, and the        *)
(* symmetry between them, which no safety property tells apart.                *)
EXTENDS Deployments, TLC

Symmetry == Permutations(Calls)
=============================================================================
