---------------------------- MODULE MCUpdateState ----------------------------
(* One Skill, checked by up to two refreshes and changed by one update. *)
EXTENDS UpdateState

CONSTANTS n1, patrol, window, u1
=============================================================================
