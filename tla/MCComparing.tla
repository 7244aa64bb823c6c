---------------------------- MODULE MCComparing ----------------------------
(* A small comparison for TLC: one plugin with a parameter to set, three   *)
(* without.                                                                 *)
EXTENDS Comparing

ParamsOfKind ==
    [Classification |-> {1, 2}, Regression |-> {1}, Dynamical |-> {1}, Maximization |-> {1}]
=============================================================================
