------------------------------- MODULE MCOperator -------------------------------
(* Instance of Operator for TLC.                                                 *)
EXTENDS Operator
=============================================================================
