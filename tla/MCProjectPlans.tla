--------------------------- MODULE MCProjectPlans ---------------------------
(* Instances of ProjectPlans for TLC. *)
EXTENDS ProjectPlans, TLC

CONSTANTS s1, s2, c1, c2, i1, i2, k1, p1, p2

Skill2   == {s1, s2}
Both     == {{}, {s1, s2}}
Content2 == {c1, c2}
Plan2    == {i1, i2}
Key1     == {k1}
Threads  == {p1, p2}
Permuted == Permutations(Skills) \cup Permutations(Contents) \cup
            Permutations(Plans) \cup Permutations(Procs)
=============================================================================
