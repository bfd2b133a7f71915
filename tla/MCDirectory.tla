---------------------------- MODULE MCDirectory ----------------------------
(* Values of Directory's constants that a .cfg cannot express. *)
EXTENDS Directory

MCHomeOf == [u \in {"bob", "root"} |-> IF u = "bob" THEN "account-bob" ELSE "account-root"]
=============================================================================
