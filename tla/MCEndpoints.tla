---------------------------- MODULE MCEndpoints ----------------------------
(* Values of Endpoints' constants that a .cfg cannot express. *)
EXTENDS Endpoints

MCSessions == 1..2
MCAddress == [s \in MCSessions |-> IF s = 1 THEN "session:1" ELSE "session:2"]
=============================================================================
