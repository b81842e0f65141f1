--------------------------- MODULE MCProjectWrites ---------------------------
(* A project: one Skill under every operation and a fault, two Skills under *)
(* the writers of lists.                                                    *)
EXTENDS ProjectWrites, TLC

CONSTANTS s1, s2, j1, p1, p2, c1, c2

MCSkills == {s1, s2}
Project1 == {j1}
Threads  == {p1, p2}
Content1 == {c1}
Content2 == {c1, c2}
Alike    == Permutations(MCSkills) \cup Permutations(Procs)

AllOps  == {"save", "add", "import", "rebuild", "register", "remove",
            "install", "update", "uninstall"}
ListOps == {"save", "add", "import"}

Reached == {n \in Skills : \/ hub[n] # Absent
                           \/ \E j \in Projects : n \in lists[j].names \/ tree[j][n] # Missing
                           \/ \E p \in Procs : n \in run[p].skills}

\* Bound: beside a second Skill there is no fault, nothing was lost or removed,
\* only lists are written, with links, and a folder has one content.
Narrow == Reached = MCSkills =>
    /\ calm /\ faults = 0
    /\ \A p \in Procs : Op(p) \in ListOps \cup {"none"} /\ run[p].mode = "link"
    /\ \A n \in Skills : hub[n] \in Content1 \cup {Absent}

MCInit == Init /\ Narrow

MCSpec == MCInit /\ [][Next /\ Narrow']_vars
=============================================================================
