--------------------------- MODULE ExclusiveAccess ---------------------------
(***************************************************************************)
(* What the Skill mutation transaction promises its callers, whatever      *)
(* threads and processes they run in: at most one of them is inside, it    *)
(* comes in only when nobody is, and it leaves by itself (or dies).        *)
(* (crates/ss-skills/src/skill_update/transaction.rs:159-162)              *)
(***************************************************************************)
CONSTANT Threads

VARIABLE inside   \* the threads that hold at least one guard

Init == inside = {}

Enter(t) == /\ inside = {}
            /\ inside' = {t}

Leave(t) == /\ inside = {t}
            /\ inside' = {}

Next == \E t \in Threads : Enter(t) \/ Leave(t)

Spec == Init /\ [][Next]_inside
=============================================================================
