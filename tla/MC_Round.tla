------------------------------ MODULE MC_Round ------------------------------
(* Instances of Round: few shots, at most two transmitters of which one sends *)
(* to the receiver, and a wire field that no run within the bounds folds.     *)
EXTENDS Round, TLC

MCSymmetry == Permutations(Runs)
=============================================================================
