--------------------------- MODULE MCAppointments ---------------------------
(* Values of Appointments' constants that a .cfg cannot express. *)
EXTENDS Appointments

(* A Worker that takes the provider of the profile. *)
MCNewServices == [a \in {"x"} |-> [provider |-> "", groups |-> {"WorkerAgent"}]]
MCRosters == {<<"claude">>, <<"codex", "claude">>, <<"x", "claude">>}
=============================================================================
