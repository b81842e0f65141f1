--------------------------- MODULE ReleaseRecord ---------------------------
(***************************************************************************)
(* What a channel subscription promises about its records, whatever fails  *)
(* or dies on the way: a release is installed only over what the           *)
(* subscription describes, and the subscription changes only to what is    *)
(* installed, or lets go of a Skill.                                       *)
(* (docs/features/skills/README.md:160, channel_receipt.rs:1-5)            *)
(***************************************************************************)
CONSTANTS Skills,     \* the Skills a channel offers
          Releases,   \* its releases
          Absent      \* not installed, not tracked

VARIABLES published,  \* the release each Skill is subscribed at
          installed   \* the release the install lock describes

Record == [Skills -> Releases \cup {Absent}]

Init == /\ published \in Record
        /\ installed = published

\* A release goes in where the two agree, where nothing is installed, or
\* where nothing is tracked.
Move(n, r) == /\ \/ installed[n] \in {published[n], Absent}
                 \/ published[n] = Absent
              /\ installed' = [installed EXCEPT ![n] = r]
              /\ UNCHANGED published

\* What did not get published is taken back.
Back(n) == /\ installed' = [installed EXCEPT ![n] = published[n]]
           /\ UNCHANGED published

Uninstall(n) == /\ installed' = [installed EXCEPT ![n] = Absent]
                /\ UNCHANGED published

\* The subscription follows what is installed, for a batch at once.
Publish(S) == /\ published' = [n \in Skills |-> IF n \in S THEN installed[n]
                                                          ELSE published[n]]
              /\ UNCHANGED installed

\* It lets go of Skills before they are deleted.
Prune(S) == /\ published' = [n \in Skills |-> IF n \in S THEN Absent
                                                         ELSE published[n]]
            /\ UNCHANGED installed

Next == \/ \E n \in Skills, r \in Releases : Move(n, r)
        \/ \E n \in Skills : Back(n) \/ Uninstall(n)
        \/ \E S \in SUBSET Skills : Publish(S) \/ Prune(S)

Spec == Init /\ [][Next]_<<published, installed>>
=============================================================================
