----------------------------- MODULE SkillStore -----------------------------
(***************************************************************************)
(* What a Skill operation leaves on disk: the canonical folders, the       *)
(* hidden leftovers beside them (.skillstar-<kind>-<skill>-<uuid>), their  *)
(* born stamps, the install lock and the install baselines; and the        *)
(* decisions materialize.rs takes about leftovers.                         *)
(*                                                                         *)
(* A folder is its content: one of the upstream versions, or Edit once the *)
(* user changed it.  Content hashes compare contents, so a hash is the     *)
(* content it is taken of.  A leftover is known by its kind, Skill and     *)
(* content instead of its uuid.                                            *)
(***************************************************************************)
EXTENDS Naturals, FiniteSets

CONSTANTS Skills,      \* canonical folder names
          Versions,    \* contents an upstream ever had
          Sources,     \* repositories (URL and ref)
          SourceOf,    \* the repository a version comes from
          Edit,        \* content the user edited
          Absent       \* no folder, no entry, no record

ASSUME SourceOfAssumption == SourceOf \in [Versions -> Sources]
ASSUME EditAssumption     == Edit \notin Versions
ASSUME AbsentAssumption   == Absent \notin Versions \cup Sources \cup {Edit}

VARIABLES canon,      \* content of each canonical folder
          residue,    \* the leftovers beside the canonical folders
          stamped,    \* those with a born stamp
          stale,      \* those whose stamp is older than STALE_TRANSIENT_AGE
          lock,       \* the install lock: the version an entry describes
          baseline    \* install_baselines.json: the recorded content hash

leftovers == <<residue, stamped, stale>>
folders   == <<canon, leftovers>>
records   == <<lock, baseline>>

Contents == Versions \cup {Edit}

Kinds == {"stage", "backup", "remove"}

\* The kinds Doctor restores from: the entry was a canonical folder once.
Copies == {"backup", "remove"}

Leftover(k, n, c) == [kind |-> k, skill |-> n, content |-> c]

AllLeftovers == [kind : Kinds, skill : Skills, content : Contents]
-----------------------------------------------------------------------------
\* The entry appears and note_transient_born runs.  A stamp that cannot be
\* written makes a leftover that never ages; ageing is never obligatory.
Keep(r) == /\ residue' = residue \cup {r}
           /\ stamped' = stamped \cup {r}
           /\ stale'   = stale \ {r}

\* The entries of R are removed or renamed away, and their stamps with them.
Drop(R) == /\ residue' = residue \ R
           /\ stamped' = stamped \ R
           /\ stale'   = stale \ R

\* The entries of R lose their stamps only.
Unstamp(R) == /\ stamped' = stamped \ R
              /\ stale'   = stale \ R
              /\ UNCHANGED residue

\* transient_replacement_committed: the baseline is the content now in place.
ReplacementCommitted(n) == /\ baseline[n] # Absent
                           /\ baseline[n] = canon[n]

\* sweep_may_delete
SweepMayDelete(r) == /\ canon[r.skill] # Absent
                     /\ \/ r.kind = "stage"
                        \/ r.kind = "backup" /\ ReplacementCommitted(r.skill)

\* Mutant: a baseline is taken for an unedited folder.
HasBaseline(n) == baseline[n] # Absent

\* install_baseline::local_content is Unchanged
Unedited(n) == ReplacementCommitted(n)
-----------------------------------------------------------------------------
StoreInit == /\ canon    = [n \in Skills |-> Absent]
             /\ residue  = {}
             /\ stamped  = {}
             /\ stale    = {}
             /\ lock     = [n \in Skills |-> Absent]
             /\ baseline = [n \in Skills |-> Absent]

StoreTypeOK == /\ canon    \in [Skills -> Contents \cup {Absent}]
               /\ residue  \subseteq AllLeftovers
               /\ stamped  \subseteq residue
               /\ stale    \subseteq stamped
               /\ lock     \in [Skills -> Versions \cup {Absent}]
               /\ baseline \in [Skills -> Contents \cup {Absent}]
=============================================================================
