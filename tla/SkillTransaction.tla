-------------------------- MODULE SkillTransaction --------------------------
(***************************************************************************)
(* The operations that change installed Skills, each a sequence of file    *)
(* operations under the Skill mutation transaction (ReentrantLock: one at  *)
(* a time): installing or updating a batch and uninstalling (installer.rs, *)
(* update.rs), the sweep of old leftovers (materialize.rs) and Doctor's    *)
(* repair (health/).  Fetches, Doctor's scan, the clock and the user's     *)
(* editor run without the transaction.  A process may die between any two  *)
(* file operations, and each file operation may fail.                      *)
(***************************************************************************)
EXTENDS SkillStore

CONSTANTS Hazards,     \* what the environment does beyond the usual
          MaxFaults,   \* bound on crashes and failing file operations
          MaxFetched,  \* bound on fetched updates waiting to be applied
          MaxPlans     \* bound on repair plans waiting to be applied

ASSUME HazardsAssumption == Hazards \subseteq
    {"edit_during_install",   \* an edit lands inside a running install
     "reinstall_same"}        \* an install brings what the baseline records
ASSUME BoundsAssumption == /\ MaxFaults \in Nat /\ MaxFetched \in Nat
                           /\ MaxPlans \in {0, 1}

VARIABLES op,        \* the operation that holds the transaction
          phase,     \* the step it is in
          units,     \* the Skills it works on
          new,       \* the version an install puts in place
          todo,      \* the units its phase has not reached yet
          aside,     \* what it moved aside: StagedReplace.backup, `staging`
          swapped,   \* StagedReplace.swapped
          fetched,   \* updates fetched, not yet applied
          plan,      \* the repair steps Doctor has planned
          faults,    \* faults so far
          owed,      \* history: Skills whose user edit nobody gave up
          before,    \* history: the folders when the operation began
          intact     \* history: no step of a rollback failed

work    == <<op, phase, units, new, todo, aside, swapped>>
outside == <<fetched, plan>>
history == <<owed, before, intact>>
vars    == <<folders, records, work, outside, faults, history>>

Installs == {"install", "update", "auto", "reinstall"}

Fetches == [skill : Skills, source : Sources, version : Versions, auto : BOOLEAN]

RepairSteps == [act : {"restore", "discard", "reinstall", "prune"},
                skill : Skills, kind : Kinds \cup {"lock"},
                content : Contents \cup {Absent}]

Nothing == [n \in Skills |-> Absent]

Init == /\ StoreInit
        /\ op = "none" /\ phase = "none"
        /\ units = {} /\ new = Absent /\ todo = {}
        /\ aside = Nothing /\ swapped = {}
        /\ fetched = {} /\ plan = {}
        /\ faults = 0
        /\ owed = {} /\ before = Nothing /\ intact = TRUE
-----------------------------------------------------------------------------
\* k more file operations fail.
Faults(k) == faults + k <= MaxFaults /\ faults' = faults + k
Fault     == Faults(1)
NoFault   == UNCHANGED faults

\* The operation o starts in phase p on the Skills S, for version v.
Start(o, p, S, v) ==
    /\ op' = o /\ phase' = p
    /\ units' = S /\ todo' = S /\ new' = v
    /\ aside' = Nothing /\ swapped' = {}
    /\ before' = canon /\ intact' = TRUE

\* What the operation knew is gone.
Leave(o) == /\ op' = o /\ phase' = "none"
            /\ units' = {} /\ todo' = {} /\ new' = Absent
            /\ aside' = Nothing /\ swapped' = {}
            /\ before' = Nothing /\ intact' = TRUE

\* The transaction guard goes; a reinstall hands back to Doctor.
End == Leave(IF op = "reinstall" THEN "doctor" ELSE "none")

\* Unit n is done; after the last one the operation goes on to phase p with
\* all its units again.
Advance(n, p) ==
    /\ UNCHANGED <<op, units, new>>
    /\ IF todo = {n} THEN phase' = p /\ todo' = units
                     ELSE todo' = todo \ {n} /\ UNCHANGED phase

GoTo(p) == phase' = p /\ todo' = units /\ UNCHANGED <<op, units, new>>

Stage(n)  == Leftover("stage", n, new)
Backup(n) == Leftover("backup", n, aside[n])

\* A version an install over n may bring.  It is seldom the very content the
\* baseline already records: only the user asks for that again, or installs by
\* hand what the background update of the same moment has fetched.
Installable(n, v) == "reinstall_same" \in Hazards \/ v # baseline[n]

\* The leftover a repair step is about.
Of(s) == Leftover(s.kind, s.skill, s.content)

\* Bound: an operation does not start on Skill n when it would make a second
\* leftover equal to one that is there or planned for repair; their uuids would
\* tell them apart.
Unequalled(n, v) ==
    {Leftover("stage", n, v), Leftover("backup", n, canon[n]),
     Leftover("remove", n, canon[n])} \cap (residue \cup {Of(s) : s \in plan}) = {}
-----------------------------------------------------------------------------
\* install_units: the units of one checkout, all valid.
Install(S, v) ==
    /\ op = "none" /\ S # {}
    /\ \A n \in S : Installable(n, v) /\ Unequalled(n, v)
    /\ Start("install", "stage", S, v)
    /\ UNCHANGED <<folders, records, outside, faults, owed>>

\* An update is fetched outside the transaction: the newest content of the
\* entry's source, for a manual update or, when it differs from what the lock
\* records, for the background one.
Fetch(n, v, auto) ==
    /\ Cardinality(fetched) < MaxFetched
    /\ lock[n] # Absent /\ SourceOf[v] = SourceOf[lock[n]]
    /\ auto => v # lock[n]
    /\ fetched' = fetched \cup
         {[skill |-> n, source |-> SourceOf[v], version |-> v, auto |-> auto]}
    /\ UNCHANGED <<folders, records, work, plan, faults, history>>

\* Mutant: any entry will do.
EntryExists(f) == lock[f.skill] # Absent

\* apply_from_checkout: under the transaction the entry is read again; an
\* entry of another source, or gone, fails the update, and a background update
\* keeps content that is not provably as installed.
Revalidated(f) == /\ lock[f.skill] # Absent
                  /\ SourceOf[lock[f.skill]] = f.source

ApplyFetched(f) ==
    /\ op = "none" /\ f \in fetched
    /\ fetched' = fetched \ {f}
    /\ IF Revalidated(f) /\ (f.auto => Unedited(f.skill))
         THEN /\ Unequalled(f.skill, f.version) /\ Installable(f.skill, f.version)
              /\ Start(IF f.auto THEN "auto" ELSE "update", "stage",
                       {f.skill}, f.version)
              /\ UNCHANGED owed
         ELSE UNCHANGED <<work, history>>
    /\ UNCHANGED <<folders, records, plan, faults>>

\* StagedReplace::stage, one unit after the other.
StageUnit(n) ==
    /\ op \in Installs /\ phase = "stage" /\ n \in todo
    /\ Keep(Stage(n))
    /\ Advance(n, "swap")
    /\ UNCHANGED <<canon, records, aside, swapped, outside, history>> /\ NoFault

\* A unit cannot be staged: everything built so far is dropped.
StageFails ==
    /\ op \in Installs /\ phase = "stage"
    /\ Fault
    /\ GoTo("rollback")
    /\ UNCHANGED <<folders, records, aside, swapped, outside, history>>

\* StagedReplace::swap, first half: the previous folder goes aside.
SwapAside(n) ==
    /\ op \in Installs /\ phase = "swap" /\ n \in todo
    /\ canon[n] # Absent /\ aside[n] = Absent
    /\ aside' = [aside EXCEPT ![n] = canon[n]]
    /\ canon' = [canon EXCEPT ![n] = Absent]
    /\ Keep(Leftover("backup", n, canon[n]))
    /\ UNCHANGED <<records, op, phase, units, new, todo, swapped, outside,
                   history>> /\ NoFault

\* Second half: the staged folder goes into place.
SwapIn(n) ==
    /\ op \in Installs /\ phase = "swap" /\ n \in todo
    /\ canon[n] = Absent
    /\ canon' = [canon EXCEPT ![n] = new]
    /\ Drop({Stage(n)})
    /\ swapped' = swapped \cup {n}
    /\ Advance(n, "lock")
    /\ UNCHANGED <<records, aside, outside, history>> /\ NoFault

\* A rename of swap fails.  What went aside loses its stamp and is renamed
\* back, unless that fails too; the batch is rolled back.
SwapFails(n) ==
    /\ op \in Installs /\ phase = "swap" /\ n \in todo
    /\ aside' = [aside EXCEPT ![n] = Absent]
    /\ \/ /\ aside[n] = Absent
          /\ UNCHANGED <<folders, intact>> /\ Fault
       \/ /\ aside[n] # Absent /\ canon[n] = Absent
          /\ canon' = [canon EXCEPT ![n] = aside[n]]
          /\ Drop({Backup(n)})
          /\ UNCHANGED intact /\ Fault
       \/ /\ aside[n] # Absent
          /\ Unstamp({Backup(n)})
          /\ intact' = FALSE
          /\ UNCHANGED canon /\ Faults(2)
    /\ GoTo("rollback")
    /\ UNCHANGED <<records, swapped, outside, owed, before>>

\* skill_lock::mutate upserts every unit in one save.  From here on what the
\* user asked to overwrite is given up.
WriteLock ==
    /\ op \in Installs /\ phase = "lock"
    /\ lock' = [n \in Skills |-> IF n \in units THEN new ELSE lock[n]]
    /\ owed' = IF op \in {"install", "update"} THEN owed \ units ELSE owed
    /\ GoTo("commit")
    /\ UNCHANGED <<canon, residue, stamped, stale, baseline, aside, swapped,
                   outside, before, intact>> /\ NoFault

LockFails ==
    /\ op \in Installs /\ phase = "lock"
    /\ Fault
    /\ GoTo("rollback")
    /\ UNCHANGED <<folders, records, aside, swapped, outside, history>>

\* StagedReplace::commit: the backup is removed, or stays behind.
CommitUnit(n) ==
    /\ op \in Installs /\ phase = "commit" /\ n \in todo
    /\ \/ Drop({Backup(n)}) /\ NoFault
       \/ aside[n] # Absent /\ Fault /\ UNCHANGED leftovers
    /\ aside' = [aside EXCEPT ![n] = Absent]
    /\ Advance(n, "baseline")
    /\ UNCHANGED <<canon, records, swapped, outside, history>>

\* install_baseline::record hashes the folders as they are now; a failed save
\* is only logged.
RecordBaseline ==
    /\ op \in Installs /\ phase = "baseline"
    /\ \/ /\ baseline' = [n \in Skills |-> IF n \in units THEN canon[n]
                                                          ELSE baseline[n]]
          /\ NoFault
       \/ Fault /\ UNCHANGED baseline
    /\ End
    /\ UNCHANGED <<folders, lock, outside, owed>>

\* Unit n has been rolled back, and all went well so far if ok holds.
RolledBack(n, ok) ==
    IF todo = {n} THEN End
                  ELSE /\ todo' = todo \ {n}
                       /\ aside' = [aside EXCEPT ![n] = Absent]
                       /\ intact' = ok
                       /\ UNCHANGED <<op, phase, units, new, swapped, before>>

\* Mutant: what was put in place is left there.
UndoSwapLeaves(n) ==
    /\ op \in Installs /\ phase = "rollback" /\ n \in todo
    /\ n \in swapped
    /\ swapped' = swapped \ {n}
    /\ UNCHANGED <<folders, records, op, phase, units, new,
                   todo, aside, outside, history>> /\ NoFault

\* StagedReplace::rollback, when the batch is dropped: the stage of a unit is
\* removed and what it put in place is removed, if it can be ...
UndoSwap(n) ==
    /\ op \in Installs /\ phase = "rollback" /\ n \in todo
    /\ n \in swapped
    /\ swapped' = swapped \ {n}
    /\ \/ /\ canon' = [canon EXCEPT ![n] = Absent]
          /\ UNCHANGED intact
          /\ NoFault
       \/ /\ Fault
          /\ intact' = FALSE
          /\ UNCHANGED canon
    /\ UNCHANGED <<leftovers, records, op, phase, units, new,
                   todo, aside, outside, owed, before>>

\* Mutant: the backup is removed with the stage when it cannot be put back.
PutBackOrRemove(n) ==
    /\ op \in Installs /\ phase = "rollback" /\ n \in todo
    /\ n \notin swapped
    /\ canon' = IF canon[n] = Absent THEN [canon EXCEPT ![n] = aside[n]] ELSE canon
    /\ Drop({Stage(n), Backup(n)})
    /\ NoFault /\ RolledBack(n, intact)
    /\ UNCHANGED <<records, outside, owed>>

\* ... and its backup, without its stamp, is renamed back if it can be.
PutBack(n) ==
    /\ op \in Installs /\ phase = "rollback" /\ n \in todo
    /\ n \notin swapped
    /\ \/ /\ aside[n] = Absent
          /\ Drop({Stage(n)})
          /\ UNCHANGED canon /\ NoFault /\ RolledBack(n, intact)
       \/ /\ aside[n] # Absent /\ canon[n] = Absent
          /\ canon' = [canon EXCEPT ![n] = aside[n]]
          /\ Drop({Stage(n), Backup(n)})
          /\ NoFault /\ RolledBack(n, intact)
       \/ /\ aside[n] # Absent
          /\ IF canon[n] = Absent THEN Fault ELSE NoFault
          /\ residue' = residue \ {Stage(n)}
          /\ stamped' = stamped \ {Stage(n), Backup(n)}
          /\ stale'   = stale \ {Stage(n), Backup(n)}
          /\ UNCHANGED canon /\ RolledBack(n, FALSE)
    /\ UNCHANGED <<records, outside, owed>>
-----------------------------------------------------------------------------
\* uninstall_canonical, reached through remove_hub_skill.
Uninstall(n) ==
    /\ op = "none"
    /\ canon[n] # Absent \/ lock[n] # Absent
    /\ Unequalled(n, Absent)
    /\ Start("uninstall", "move", {n}, Absent)
    /\ UNCHANGED <<folders, records, outside, faults, owed>>

Aside(n) == Leftover("remove", n, aside[n])

MoveAside(n) ==
    /\ op = "uninstall" /\ phase = "move" /\ n \in units
    /\ IF canon[n] = Absent
         THEN UNCHANGED <<folders, aside>>
         ELSE /\ aside' = [aside EXCEPT ![n] = canon[n]]
              /\ canon' = [canon EXCEPT ![n] = Absent]
              /\ Keep(Leftover("remove", n, canon[n]))
    /\ GoTo("unlock")
    /\ UNCHANGED <<records, swapped, outside, history>> /\ NoFault

MoveFails ==
    /\ op = "uninstall" /\ phase = "move"
    /\ Fault
    /\ End
    /\ UNCHANGED <<folders, records, outside, owed>>

\* The entry goes, and with it what the user asked to remove.
RemoveLock(n) ==
    /\ op = "uninstall" /\ phase = "unlock" /\ n \in units
    /\ lock' = [lock EXCEPT ![n] = Absent]
    /\ owed' = owed \ {n}
    /\ GoTo("forget")
    /\ UNCHANGED <<folders, baseline, aside, swapped, outside, before, intact>>
    /\ NoFault

\* Renaming the folder back; without a fault it works.
MovedBack(n) ==
    \/ aside[n] = Absent /\ UNCHANGED folders
    \/ /\ aside[n] # Absent /\ canon[n] = Absent
       /\ canon' = [canon EXCEPT ![n] = aside[n]]
       /\ Drop({Aside(n)})

UnlockFails(n) ==
    /\ op = "uninstall" /\ phase = "unlock" /\ n \in units
    /\ \/ MovedBack(n) /\ Fault
       \/ aside[n] # Absent /\ UNCHANGED folders /\ Faults(2)
    /\ End
    /\ UNCHANGED <<records, outside, owed>>

ForgetBaseline(n) ==
    /\ op = "uninstall" /\ phase = "forget" /\ n \in units
    /\ \/ baseline' = [baseline EXCEPT ![n] = Absent] /\ NoFault
       \/ Fault /\ UNCHANGED baseline
    /\ GoTo("clean")
    /\ UNCHANGED <<folders, lock, aside, swapped, outside, history>>

\* The folder that went aside is deleted, or stays behind.
CleanAside(n) ==
    /\ op = "uninstall" /\ phase = "clean" /\ n \in units
    /\ \/ Drop({Aside(n)}) /\ NoFault
       \/ aside[n] # Absent /\ Fault /\ UNCHANGED leftovers
    /\ End
    /\ UNCHANGED <<canon, records, outside, owed>>
-----------------------------------------------------------------------------
\* Half an hour passes for a leftover.  Only a sweep reads the age, and a sweep
\* runs between operations.
Age(r) ==
    /\ op = "none" /\ r \in stamped
    /\ stale' = stale \cup {r}
    /\ UNCHANGED <<canon, residue, stamped, records, work, outside, faults,
                   history>>

\* sweep_stale_transients, when the transaction is taken from outside.
Sweep(r) ==
    /\ op = "none" /\ r \in stale
    /\ SweepMayDelete(r)
    /\ Drop({r})
    /\ UNCHANGED <<canon, records, work, outside, faults, history>>

Step(a, r) == [act |-> a, skill |-> r.skill, kind |-> r.kind, content |-> r.content]
LockStep(a, n) == [act |-> a, skill |-> n, kind |-> "lock", content |-> Absent]

\* Mutant: what stands beside an absent folder is discarded, too.
DiscardAnyway(r) == {Step("discard", r) : k \in {r.kind} \cap {"stage", "backup"}}

\* plan_transient
Repairs(r) ==
    IF canon[r.skill] = Absent
      THEN {Step("restore", r) : k \in {r.kind} \cap Copies}
      ELSE {Step("discard", r) : k \in {r.kind} \cap {"stage", "backup"}}

\* health::scan and plan read the disk without the transaction, in the middle
\* of whatever runs.  An entry without its folder is to be fetched again or
\* dropped, depending on its source and the options.
Scan ==
    /\ MaxPlans > 0
    /\ plan = {} /\ op \notin {"doctor", "reinstall"}
    /\ \E missing \in [{n \in Skills : canon[n] = Absent /\ lock[n] # Absent}
                          -> {"reinstall", "prune"}] :
         plan' = (UNION {Repairs(r) : r \in {x \in residue :
                            x.kind = "backup" /\ canon[x.skill] # Absent
                               => ReplacementCommitted(x.skill)}})
                 \cup {LockStep(missing[n], n) : n \in DOMAIN missing}
    /\ UNCHANGED <<folders, records, work, fetched, faults, history>>

\* health::apply takes the transaction and runs the steps in phase order.
Repair ==
    /\ op = "none" /\ plan # {}
    /\ Start("doctor", "none", {}, Absent)
    /\ UNCHANGED <<folders, records, outside, faults, owed>>

Rank(s) == CASE s.act = "restore" -> 0
             [] s.act = "discard" -> 1
             [] OTHER             -> 3

NextStep(s) == /\ op = "doctor" /\ s \in plan
               /\ \A other \in plan : Rank(s) <= Rank(other)
               /\ plan' = plan \ {s}

\* Every step looks again before it writes.  Of several leftovers the first one
\* is put back; when it is what the baseline records, the others count as
\* replaced by a committed install from then on, and an edit among them with
\* them.
RestoreBackup(s) ==
    /\ NextStep(s) /\ s.act = "restore"
    /\ IF Of(s) \in residue /\ canon[s.skill] = Absent
         THEN \/ /\ canon' = [canon EXCEPT ![s.skill] = s.content]
                 /\ Drop({Of(s)})
                 /\ owed' = IF s.content = baseline[s.skill] THEN owed \ {s.skill}
                                                             ELSE owed
                 /\ NoFault
              \/ Fault /\ UNCHANGED <<folders, owed>>
         ELSE UNCHANGED <<folders, owed, faults>>
    /\ UNCHANGED <<records, work, fetched, before, intact>>

\* remove_residue checks that the leftover is one of SkillStar's, no more.
RemoveResidue(s) ==
    /\ NextStep(s) /\ s.act = "discard"
    /\ \/ Drop({Of(s)}) /\ NoFault
       \/ Of(s) \in residue /\ Fault /\ UNCHANGED leftovers
    /\ UNCHANGED <<canon, records, work, fetched, history>>

PruneLockEntry(s) ==
    /\ NextStep(s) /\ s.act = "prune"
    /\ \/ /\ lock' = IF canon[s.skill] = Absent
                       THEN [lock EXCEPT ![s.skill] = Absent] ELSE lock
          /\ NoFault
       \/ canon[s.skill] = Absent /\ Fault /\ UNCHANGED lock
    /\ UNCHANGED <<folders, baseline, work, fetched, history>>

\* ReinstallFromLock runs the installer inside the repair's transaction; the
\* user asked for the fetched content.  Or the fetch fails, or nothing is
\* missing any more.
ReinstallFromLock(s) ==
    /\ NextStep(s) /\ s.act = "reinstall"
    /\ \/ /\ canon[s.skill] = Absent /\ lock[s.skill] # Absent
          /\ \E v \in Versions :
               /\ SourceOf[v] = SourceOf[lock[s.skill]]
               /\ Unequalled(s.skill, v)
               /\ Start("reinstall", "stage", {s.skill}, v)
          /\ owed' = owed \ {s.skill}
       \/ UNCHANGED <<work, history>>
    /\ UNCHANGED <<folders, records, fetched, faults>>

RepairDone ==
    /\ op = "doctor" /\ plan = {}
    /\ End
    /\ UNCHANGED <<folders, records, outside, faults, owed>>
-----------------------------------------------------------------------------
\* The user edits an installed Skill in place.
UserEdit(n) ==
    /\ canon[n] # Absent
    /\ op = "none" \/ "edit_during_install" \in Hazards
    /\ canon' = [canon EXCEPT ![n] = Edit]
    /\ owed' = owed \cup {n}
    /\ UNCHANGED <<leftovers, records, work, outside, faults, before, intact>>

\* The process that holds the transaction dies; what is on disk stays.
Crash ==
    /\ op # "none"
    /\ Fault
    /\ Leave("none")
    /\ plan' = IF op \in {"doctor", "reinstall"} THEN {} ELSE plan
    /\ UNCHANGED <<folders, records, fetched, owed>>

\* A fetched update is given up: its process ends or its run is over.
FetchLost(f) ==
    /\ f \in fetched
    /\ fetched' = fetched \ {f}
    /\ UNCHANGED <<folders, records, work, plan, faults, history>>

\* A planned repair is never applied.
PlanLost ==
    /\ plan # {} /\ op \notin {"doctor", "reinstall"}
    /\ plan' = {}
    /\ UNCHANGED <<folders, records, work, fetched, faults, history>>

InstallStep == \/ \E n \in Skills : \/ StageUnit(n) \/ SwapAside(n) \/ SwapIn(n)
                                    \/ SwapFails(n) \/ CommitUnit(n)
                                    \/ UndoSwap(n) \/ PutBack(n)
               \/ StageFails \/ WriteLock \/ LockFails \/ RecordBaseline

RemovalStep == \/ \E n \in Skills : \/ MoveAside(n) \/ RemoveLock(n)
                                    \/ UnlockFails(n) \/ ForgetBaseline(n)
                                    \/ CleanAside(n)
               \/ MoveFails

RepairStep == \/ \E s \in plan : \/ RestoreBackup(s) \/ RemoveResidue(s)
                                 \/ PruneLockEntry(s) \/ ReinstallFromLock(s)
              \/ RepairDone

Next == \/ \E S \in SUBSET Skills, v \in Versions : Install(S, v)
        \/ \E n \in Skills, v \in Versions, auto \in BOOLEAN : Fetch(n, v, auto)
        \/ \E f \in fetched : ApplyFetched(f) \/ FetchLost(f)
        \/ \E n \in Skills : Uninstall(n) \/ UserEdit(n)
        \/ InstallStep \/ RemovalStep
        \/ \E r \in residue : Age(r) \/ Sweep(r)
        \/ Scan \/ Repair \/ RepairStep \/ PlanLost
        \/ Crash

Spec == Init /\ [][Next]_vars
-----------------------------------------------------------------------------
TypeOK == /\ StoreTypeOK
          /\ op \in Installs \cup {"uninstall", "doctor", "none"}
          /\ phase \in {"none", "stage", "swap", "lock", "commit", "baseline",
                        "rollback", "move", "unlock", "forget", "clean"}
          /\ units \subseteq Skills /\ todo \subseteq Skills
          /\ new \in Versions \cup {Absent}
          /\ aside \in [Skills -> Contents \cup {Absent}]
          /\ swapped \subseteq Skills
          /\ fetched \subseteq Fetches
          /\ plan \subseteq RepairSteps
          /\ faults \in 0 .. MaxFaults
          /\ owed \subseteq Skills
          /\ before \in [Skills -> Contents \cup {Absent}]
          /\ intact \in BOOLEAN

\* A user's edit is never lost to anything the user did not ask for: while
\* nobody overwrote or removed the edited Skill on purpose, and Doctor did not
\* put back in its place what the baseline records, the edited content is in
\* the canonical folder or in a leftover Doctor restores from, through failed
\* and interrupted installs, background updates, sweeps and repairs.
EditSurvives ==
    \A n \in owed : \/ canon[n] = Edit
                     \/ \E k \in Copies : Leftover(k, n, Edit) \in residue

\* Between operations, a Skill the lock lists is in its folder or can be
\* restored from a leftover: no crash point of swap, rollback or removal and no
\* later sweep or repair loses the last copy of a locked Skill.
LockedIsRecoverable ==
    op = "none" => \A n \in Skills :
        lock[n] # Absent /\ canon[n] = Absent
            => \E r \in residue : r.skill = n /\ r.kind \in Copies

\* Content of Skill n that a record or the user vouches for.
Known(n) == {lock[n], baseline[n], Edit} \ {Absent}

\* Between operations, if the folder of a listed Skill holds a version neither
\* the lock nor the baseline knows, it came from an operation that did not end,
\* and what was there before was not simply discarded: a leftover with content
\* the lock describes, the baseline records or the user edited is still beside
\* it, for Doctor to report.
TornSwapIsVisible ==
    op = "none" => \A n \in Skills :
        lock[n] # Absent /\ canon[n] \notin Known(n) \cup {Absent}
            => \E r \in residue : /\ r.skill = n /\ r.kind \in Copies
                                 /\ r.content \in Known(n)

\* A failed batch leaves no unit behind: when the rollback ends and none of its
\* own renames failed, every folder is what it was when the batch began, for
\* whichever unit and step the failure came from.
FailedBatchIsUndone ==
    [][phase = "rollback" /\ phase' = "none" /\ intact /\ faults' = faults
         => canon' = before]_vars

\* An update or a repair never moves a Skill to another source and never
\* brings back one that was uninstalled, whatever happened while it fetched.
UpdateKeepsSource ==
    [][ \A n \in Skills :
          op \in {"update", "auto", "reinstall"} /\ lock'[n] # lock[n]
            => /\ lock[n] # Absent /\ lock'[n] # Absent
               /\ SourceOf[lock'[n]] = SourceOf[lock[n]] ]_vars

\* What a running operation moved aside is still there when it has to put it
\* back or may delete it: no sweep, repair or other step takes it away.
AsideIsKept ==
    \A n \in Skills : aside[n] # Absent =>
        Leftover(IF op = "uninstall" THEN "remove" ELSE "backup", n, aside[n])
            \in residue
=============================================================================
