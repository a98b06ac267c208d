------------------------------- MODULE MCKeyring -------------------------------
(* Instance of Keyring for TLC: calls and uids are each                         *)
(* interchangeable; of the two keys one is exportable.                          *)
EXTENDS Keyring, TLC

Symmetry == Permutations(Calls) \cup Permutations(Uids)
=============================================================================
