--------------------------- MODULE MCSharedChannel ---------------------------
(* A channel with two releases: one Skill under every operation and two      *)
(* faults, two Skills under updates and rollbacks with one.                  *)
EXTENDS SharedChannel, TLC

CONSTANTS s1, s2, e1

MCSkills == {s1, s2}
Edit1    == {e1}
Rel2     == 1 .. 2
AllOps   == {"update", "rollback", "resume", "remove", "install"}
Moves    == {"update", "rollback"}
NoHazard == {}

Alike == Permutations(MCSkills)

Reached == {n \in Skills : \/ {canon[n], lock[n], store.rows[n], store.pins[n]} # {Absent}
                           \/ \E c \in copies : c.skill = n
                           \/ \E l \in locals : l[1] = n}

\* Bound: beside a second Skill there are one fault and only updates and
\* rollbacks, which keep no edit as a local Skill: that concerns one Skill.
Narrow == Reached = MCSkills =>
    /\ faults <= 1 /\ op \in Moves \cup {"none"} /\ resets = {}
    /\ choice # "preserve"

MCSpec == Init /\ [][Next /\ Narrow']_vars
=============================================================================
