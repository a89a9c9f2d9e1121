---------------------------- MODULE MC_ClockGraph ----------------------------
(* Three transmitters and a station that hears all of them. *)
EXTENDS ClockGraph, TLC
CONSTANTS a, b, c, rx
AllRelations == {[by |-> a, of |-> b], [by |-> b, of |-> a], [by |-> b, of |-> c]}
                    \cup [by : {rx}, of : {a, b, c}]
===============================================================================
