----------------------------- MODULE MC_ApAgent -----------------------------
(* Three rounds, a record that holds two of them, two shots a round. *)
EXTENDS ApAgent
=============================================================================
