--------------------------- MODULE MC_FrameCounter ---------------------------
(* Two runs more than fit, one transmitter, keys enough to evict and to fold. *)
EXTENDS FrameCounter, TLC

MCSymmetry == Permutations(Runs)
=============================================================================
