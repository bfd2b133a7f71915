----------------------------- MODULE DurableLog -----------------------------
(***************************************************************************)
(* What the SessionLog storage promises its writers: one total order of    *)
(* records per Session that only ever grows at its end, and no record      *)
(* acknowledged before it is in that order.  A record that was never       *)
(* acknowledged may be in it too: its writer died in between.              *)
(***************************************************************************)
EXTENDS Naturals, Sequences

CONSTANTS
  Sessions,   (* Session ids                                               *)
  Records,    (* the records a Session may be given                        *)
  MaxBatch    (* bound on the records of one transaction and Session       *)

VARIABLES
  order,   (* the durable records of each Session, in their order          *)
  known    (* the records of each Session that were acknowledged           *)

Init ==
  /\ order = [s \in Sessions |-> <<>>]
  /\ known = [s \in Sessions |-> {}]

Durable(s) == {order[s][n] : n \in DOMAIN order[s]}

(* Some records of one transaction become durable, each of them once. *)
Write(s) ==
  \E k \in 1..MaxBatch : \E new \in [1..k -> Records \ Durable(s)] :
    /\ \A m, n \in 1..k : new[m] = new[n] => m = n
    /\ order' = [order EXCEPT ![s] = @ \o new]
    /\ UNCHANGED known

(* A transaction returns: all its records are durable. *)
Acknowledge ==
  /\ \A s \in Sessions : known[s] \subseteq known'[s] /\ known'[s] \subseteq Durable(s)
  /\ UNCHANGED order

Next == (\E s \in Sessions : Write(s)) \/ Acknowledge

Spec == Init /\ [][Next]_<<order, known>>
=============================================================================
