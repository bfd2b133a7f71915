----------------------------- MODULE MCDispatch -----------------------------
(***************************************************************************)
(* Instances of Dispatch for TLC.                                          *)
(***************************************************************************)
EXTENDS Dispatch

CONSTANTS root, child, b1, b2

NoParents == [s \in Sessions |-> {}]
RootOfChild == [s \in Sessions |-> IF s = child THEN {root} ELSE {}]
=============================================================================
