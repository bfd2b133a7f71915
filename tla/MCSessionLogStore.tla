------------------------ MODULE MCSessionLogStore ------------------------
(* SessionLogStore for TLC: Sessions as model values. *)
EXTENDS SessionLogStore, TLC

CONSTANTS s1, s2

(* Nothing tells one Session from another. *)
Symmetry == Permutations({s1, s2})

=============================================================================
