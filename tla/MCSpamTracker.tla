--------------------------- MODULE MCSpamTracker ---------------------------
(* An instance of SpamTracker for TLC: the limits, scaled down. *)
EXTENDS SpamTracker, TLC

TextSymmetry == Permutations(Texts \ Offensive)
=============================================================================
