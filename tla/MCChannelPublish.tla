--------------------------- MODULE MCChannelPublish ---------------------------
(* Two publishers of a repository with one Skill. *)
EXTENDS ChannelPublish, TLC

CONSTANTS p1, p2, s1

Symmetry == Permutations(Publishers)
=============================================================================
