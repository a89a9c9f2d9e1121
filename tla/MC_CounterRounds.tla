-------------------------- MODULE MC_CounterRounds --------------------------
(* One run, one transmitter; the wire field folds after a few rounds. *)
EXTENDS CounterRounds
=============================================================================
