---------------------------- MODULE MC_NatsClient ----------------------------
(* Two requests, so that one can meet the late reply of the other; one ping   *)
(* and one publish, or two of each for what a ping proves.                    *)
EXTENDS NatsClient
==============================================================================
