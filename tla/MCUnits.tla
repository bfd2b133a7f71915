------------------------------ MODULE MCUnits ------------------------------
(* Units for TLC: a Unit that may have many Sessions and a singleton. *)
EXTENDS Units

CONSTANTS many, single

Scheduled0 == [triggers |-> Unspecified, enabled |-> TRUE, interval |-> 0, next |-> Start]
Scheduled1 == [Scheduled0 EXCEPT !.interval = 1]
Resident == [Scheduled1 EXCEPT !.triggers = Triggers]
OnCall == [Scheduled0 EXCEPT !.enabled = FALSE, !.next = NoTime]

SomeTemplates == [u \in Units |-> IF u = many THEN {Scheduled0, Scheduled1} ELSE {Resident}]
SingletonTemplates == [u \in Units |-> IF u = many THEN {OnCall} ELSE {Resident}]
=============================================================================
