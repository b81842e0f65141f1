------------------------- MODULE MCSkillTransaction -------------------------
(* One Skill under every operation and two faults; two Skills in batches,    *)
(* with one fault. One repository has two versions, another has one.         *)
EXTENDS SkillTransaction, TLC

CONSTANTS s1, s2, v1, v2, w1, repoV, repoW

MCSkills   == {s1, s2}
MCVersions == {v1, v2, w1}
MCSources  == {repoV, repoW}
MCSourceOf == [v \in MCVersions |-> IF v = w1 THEN repoW ELSE repoV]

Alike == Permutations(MCSkills)

\* The Skills an operation has reached so far.
Reached == {n \in Skills : \/ n \in units \/ {canon[n], lock[n], baseline[n]} # {Absent}
                           \/ \E r \in residue : r.skill = n}

\* The version of the other repository is nowhere.
OneSource == /\ new # w1 /\ \A n \in Skills : w1 \notin {canon[n], lock[n], baseline[n]}
             /\ \A r \in residue : r.content # w1

\* Bound: beside a second Skill there are one version, one fault, and neither
\* fetched updates nor planned repairs.
TwoAreNarrow == Reached = MCSkills =>
    faults <= 1 /\ fetched = {} /\ plan = {} /\ OneSource

\* Bound: while a repair is planned no fetched update waits for its end, and
\* after the second fault it meets the versions of one repository only.
RepairsAreNarrow == plan # {} => fetched = {} /\ (faults <= 1 \/ OneSource)

Narrow == TwoAreNarrow /\ RepairsAreNarrow

MCSpec == Init /\ [][Next /\ Narrow']_vars
=============================================================================
