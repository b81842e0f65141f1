---------------------------- MODULE SharedChannel ----------------------------
(***************************************************************************)
(* A subscription to a shared channel: its batch updates, rollbacks to an  *)
(* older release, installs and removals of single Skills, and what runs    *)
(* beside them: the user's editor, the force delete of all Skills, the     *)
(* sweep and Doctor.  (ss-skills/src/channels/shared_channels/,            *)
(* ss-app/src/storage_maintenance.rs)                                      *)
(*                                                                         *)
(* A channel operation holds the mutation gate and the subscription lease  *)
(* from its first read to its last write, so there is one at a time; the   *)
(* Skill transaction it takes only for the phases in Held.  Downloads and  *)
(* the checks before them run without it.  The editor takes no lock at     *)
(* all: Unguarded says where an edit may be lost.  A release stands for its*)
(* manifest, commit and content hashes: a subscription row, a lock entry   *)
(* and an unedited folder of one release are the same value.               *)
(***************************************************************************)
EXTENDS Naturals, FiniteSets

CONSTANTS Skills,      \* the Skills the channel offers
          Releases,    \* revisions of the channel
          Edits,       \* contents the user makes by editing
          Absent,      \* no folder, no entry, no row, no copy
          Operations,  \* the channel operations of an instance
          Hazards,     \* what the environment does beyond the usual
          MaxFaults    \* bound on crashes and failing calls

ASSUME ReleasesAssumption == Releases \subseteq Nat
ASSUME ContentAssumption  == /\ Edits \cap Releases = {}
                             /\ Absent \notin Releases \cup Edits \cup Skills
ASSUME OperationsAssumption == Operations \subseteq
    {"update", "rollback", "resume", "remove", "install"}
ASSUME HazardsAssumption  == Hazards \subseteq
    {"reset_race",          \* a force delete runs during a channel operation
     "edit_after_choice",   \* a Skill is edited again after the user has said
                            \* what becomes of its edit
     "retried_removal"}     \* a removal that keeps the content is asked for
                            \* again while an earlier one, cut short, has an
                            \* edit staged that no local Skill has
ASSUME FaultsAssumption   == MaxFaults \in Nat

VARIABLES canon,     \* content of each canonical folder
          lock,      \* the release the install lock entry describes
          store,     \* the subscription store: rows and pins
          copies,    \* hidden leftovers beside the canonical folders
          locals,    \* local Skills made from the content of a channel Skill
          op,        \* the running channel operation
          phase,     \* the step it is in
          draft,     \* the subscription store it has loaded
          target,    \* the release it brings
          choice,    \* what becomes of local edits
          resolved,  \* the divergent Skills the user gave that choice for
          todo,      \* the Skills the phase has not reached yet
          at,        \* the Skill it works on
          old,       \* content of that Skill before
          copied,    \* content of the local copy made for that Skill
          aside,     \* content the swap or a rollback moved aside
          after,     \* the phase a rollback of that Skill returns to
          receipts,  \* retained content of the Skills it has updated
          remote,    \* it ends with an error that freezes the subscription
          resets,    \* the Skills a force delete has still to delete
          faults,    \* faults so far
          owed,      \* history: contents of Skills nobody gave up
          waived,    \* history: those that go with the next commit
          clean      \* history: no crash, and no rollback left incomplete

disk    == <<canon, lock, copies, locals>>
request == <<draft, target, choice, resolved>>
unit    == <<at, old, copied, aside, after>>
work    == <<request, unit, todo, receipts, remote>>
history == <<owed, waived, clean>>
vars    == <<disk, store, op, phase, work, resets, faults, history>>

Contents == Releases \cup Edits
Nobody   == [n \in Skills |-> Absent]
NoStore  == [rows |-> Nobody, pins |-> Nobody]

Kinds == {"retain", "backup", "remove"}
Copy(k, n, c) == [kind |-> k, skill |-> n, content |-> c]
AllCopies == [kind : Kinds, skill : Skills, content : Contents]

\* The phases that run under the Skill transaction.
Held == {"retain", "swap", "place", "record", "check", "restore", "put_back",
         "relock", "stage", "unlock", "commit", "cleanup", "entry", "take_back"}

TransactionFree == phase \notin Held /\ resets = {}

Faults(k) == faults + k <= MaxFaults /\ faults' = faults + k
Fault     == Faults(1)
NoFault   == UNCHANGED faults

Tracked == {n \in Skills : store.rows[n] # Absent}
Updated == {n \in Skills : receipts[n] # Absent}

\* Content c of Skill n is somewhere the user or Doctor finds it.
Kept(n, c) == \/ canon[n] = c
              \/ \E k \in Kinds : Copy(k, n, c) \in copies
              \/ <<n, c>> \in locals

\* A subscription at one release, some of its Skills installed.
Init == /\ \E S \in SUBSET Skills, r \in Releases :
             LET at1 == [n \in Skills |-> IF n \in S THEN r ELSE Absent] IN
             /\ canon = at1 /\ lock = at1
             /\ store = [rows |-> at1, pins |-> Nobody]
        /\ copies = {} /\ locals = {}
        /\ op = "none" /\ phase = "none"
        /\ draft = NoStore /\ target = Absent
        /\ choice = "none" /\ resolved = {}
        /\ todo = {} /\ at = Absent /\ old = Absent
        /\ copied = Absent /\ aside = Absent /\ after = "none"
        /\ receipts = Nobody /\ remote = FALSE
        /\ resets = {}
        /\ faults = 0
        /\ owed = {} /\ waived = {} /\ clean = TRUE
-----------------------------------------------------------------------------
Go(p) == phase' = p

\* Skill n is the one worked on, its content before was c.
Take(n, c, p) == /\ at' = n /\ old' = c /\ after' = p
                 /\ copied' = Absent /\ aside' = Absent
Drop == Take(Absent, Absent, "none")

\* The contents of E are no longer owed to the user.
GiveUp(E) == owed' = owed \ E /\ waived' = waived \ E

OwedOf(n) == {e \in owed : e[1] = n}

\* What a commit for the Skills S settles: their old releases, and the edits
\* the user agreed to lose.
Settled(S) == {e \in owed : /\ e[1] \in S
                            /\ \/ e[2] \in Releases
                               \/ e \in waived /\ canon[e[1]] # e[2]}

\* The user's choice does not outlive the operation, but for edits it has
\* displaced and could not put back.
StillWaived == waived' = {e \in waived : canon[e[1]] # e[2]}

\* The operation is over: the leases and what it knew are gone.
Leave == /\ op' = "none" /\ phase' = "none"
         /\ draft' = NoStore /\ target' = Absent
         /\ choice' = "none" /\ resolved' = {}
         /\ todo' = {} /\ Drop
         /\ receipts' = Nobody /\ remote' = FALSE

\* load_mutable under the subscription lease; GitHub is asked next.  This
\* operation owes the user every edit that is in a folder by now.
Load(o) ==
    /\ op = "none"
    /\ op' = o /\ Go("remote")
    /\ draft' = store
    /\ owed' = owed \cup {<<n, canon[n]>> : n \in {m \in Skills \ resets : canon[m] \in Edits}}
    /\ UNCHANGED <<disk, store, target, choice, resolved, unit, todo,
                   receipts, remote, resets, faults, waived, clean>>

\* persist_remote_failure: the store loaded at the start is saved as a whole.
RemoteFails ==
    /\ phase = "remote"
    /\ store' = draft
    /\ Leave
    /\ UNCHANGED <<disk, resets, faults, history>>

\* The service refuses the request before it changes anything.
Refused ==
    /\ phase = "remote"
    /\ Leave
    /\ UNCHANGED <<disk, store, resets, faults, history>>

Diverges(n) == canon[n] # draft.rows[n]

\* The request: release r for the Skills S, c for the edits of R.
Plan(r, S, c, R) ==
    /\ target' = r /\ choice' = c /\ resolved' = R
    /\ todo' = S
    /\ draft' = store
    /\ waived' = IF c = "discard" THEN waived \cup UNION {OwedOf(n) : n \in R}
                                  ELSE waived
    /\ Go("apply")
    /\ UNCHANGED <<disk, store, op, unit, receipts, remote, resets, faults,
                   owed, clean>>

ChoicesFor(R) == IF R = {} THEN {"none"} ELSE {"preserve", "discard"}

\* Mutant: pinned Skills follow as well.
PlanUpdateIgnoresPins(r, c, R) ==
    LET behind == {n \in Skills : draft.rows[n] \notin {Absent, r}} IN
    /\ op = "update" /\ phase = "remote"
    /\ \A n \in Skills : draft.rows[n] # Absent => draft.rows[n] <= r
    /\ R \subseteq {n \in behind : Diverges(n)} /\ c \in ChoicesFor(R)
    /\ Plan(r, {n \in behind : Diverges(n) => n \in R}, c, R)

\* apply_update_selected up to its loop: the latest release r, a snapshot of
\* what can move, and the user's choice c for R, some of the blocked Skills.
PlanUpdate(r, c, R) ==
    LET behind == {n \in Skills : draft.rows[n] \notin {Absent, r}} IN
    /\ op = "update" /\ phase = "remote"
    /\ \A n \in Skills : draft.rows[n] # Absent => draft.rows[n] <= r
    /\ R \subseteq {n \in behind : Diverges(n)} /\ c \in ChoicesFor(R)
    /\ Plan(r, {n \in behind : /\ draft.pins[n] = Absent
                               /\ Diverges(n) => n \in R}, c, R)

\* rollback_skill up to its apply: one Skill, an older release.
PlanRollback(n, r, c, R) ==
    /\ op = "rollback" /\ phase = "remote"
    /\ store.rows[n] # Absent /\ r < store.rows[n]
    /\ R \subseteq {n} /\ c \in ChoicesFor(R)
    /\ Plan(r, {n}, c, R)
-----------------------------------------------------------------------------
\* The Skill at hand is done with, badly.  A batch goes on unless the error
\* freezes the subscription; a rollback is over.
ItemFails(rem) ==
    /\ remote' = rem
    /\ Drop
    /\ IF rem \/ op = "rollback" THEN Go("undo") /\ todo' = Updated
                                 ELSE Go("apply") /\ UNCHANGED todo

\* What replace_fetched_channel_update asks of lock and folder.
Replaceable(n) == /\ draft.rows[n] # Absent /\ lock[n] = draft.rows[n]
                  /\ canon[n] # Absent
                  /\ Diverges(n) => n \in resolved

\* ensure_installed_ready; then the release is fetched, without the
\* transaction.
Fetch(n) ==
    /\ phase = "apply" /\ n \in todo
    /\ IF Replaceable(n)
         THEN /\ Take(n, Absent, "apply") /\ Go("fetch")
              /\ todo' = todo \ {n} /\ UNCHANGED remote
         ELSE /\ Drop /\ UNCHANGED remote
              /\ IF op = "rollback" THEN Go("undo") /\ todo' = {}
                                    ELSE todo' = todo \ {n} /\ UNCHANGED phase
    /\ UNCHANGED <<disk, store, op, request, receipts, resets, faults, history>>

FetchFails ==
    /\ phase = "fetch"
    /\ \E rem \in BOOLEAN : ItemFails(rem)
    /\ UNCHANGED <<disk, store, op, request, receipts, resets, faults, history>>

\* A new local Skill with the content of n.
Preserve(n) ==
    /\ locals' = locals \cup {<<n, canon[n]>>}
    /\ copied' = IF <<n, canon[n]>> \in locals THEN Absent ELSE canon[n]

\* drop_preserved; an equal copy made earlier stays.
LocalsWithout(n) == locals \ {<<n, copied>>}

\* The transaction is taken; lock and folder are read again, and an edit the
\* user wants to keep becomes a local Skill.
KeepLocal ==
    /\ phase = "fetch" /\ TransactionFree
    /\ \/ /\ ~Replaceable(at)
          /\ ItemFails(FALSE) /\ UNCHANGED locals /\ NoFault
       \/ /\ Replaceable(at) /\ ~(Diverges(at) /\ choice = "preserve")
          /\ Go("retain") /\ UNCHANGED <<locals, unit, todo, remote>> /\ NoFault
       \/ /\ Replaceable(at) /\ Diverges(at) /\ choice = "preserve"
          /\ \/ /\ Preserve(at) /\ Go("retain")
                /\ UNCHANGED <<at, old, aside, after, todo, remote>> /\ NoFault
             \/ ItemFails(FALSE) /\ UNCHANGED locals /\ Fault
    /\ UNCHANGED <<canon, lock, copies, store, op, request, receipts, resets,
                   history>>

Retained == Copy("retain", at, old)
Backup   == Copy("backup", at, aside)

\* retain_canonical: a copy that outlives the replacement.
Retain ==
    /\ phase = "retain"
    /\ \/ /\ copies' = copies \cup {Copy("retain", at, canon[at])}
          /\ old' = canon[at] /\ Go("swap")
          /\ UNCHANGED <<locals, at, copied, aside, after, todo, remote>> /\ NoFault
       \/ /\ locals' = LocalsWithout(at)
          /\ ItemFails(FALSE) /\ UNCHANGED copies /\ Fault
    /\ UNCHANGED <<canon, lock, store, op, request, receipts, resets, history>>

\* install_verified_channel_checkout: StagedReplace moves the folder aside ...
SwapAside ==
    /\ phase = "swap"
    /\ canon' = [canon EXCEPT ![at] = Absent]
    /\ aside' = canon[at]
    /\ copies' = copies \cup {Copy("backup", at, canon[at])}
    /\ Go("place")
    /\ UNCHANGED <<lock, locals, store, op, request, at, old, copied, after, todo,
                   receipts, remote, resets, history>> /\ NoFault

\* ... and the release into place ...
Place ==
    /\ phase = "place"
    /\ canon' = [canon EXCEPT ![at] = target]
    /\ Go("record")
    /\ UNCHANGED <<lock, copies, locals, store, op, work, resets, history>>
    /\ NoFault

\* ... the lock entry is written, and the backup removed if it can be.
Record ==
    /\ phase = "record"
    /\ lock' = [lock EXCEPT ![at] = target]
    /\ \/ copies' = copies \ {Backup} /\ NoFault
       \/ Fault /\ UNCHANGED copies
    /\ Go("check")
    /\ UNCHANGED <<canon, locals, store, op, work, resets, history>>

\* The installer fails before the lock is written.  It removes what it put in
\* place and puts the folder back, or leaves the backup where Doctor finds it;
\* the retained copy and the new local copy go.
InstallFails ==
    /\ phase \in {"swap", "place", "record"}
    /\ locals' = LocalsWithout(at)
    /\ \/ /\ canon' = IF phase = "swap" THEN canon ELSE [canon EXCEPT ![at] = aside]
          /\ copies' = copies \ {Retained, Backup}
          /\ UNCHANGED clean /\ Fault
       \/ /\ phase # "swap"
          /\ canon' \in {canon, [canon EXCEPT ![at] = Absent]}
          /\ copies' = copies \ {Retained}
          /\ clean' = FALSE /\ Faults(2)
    /\ ItemFails(FALSE)
    /\ UNCHANGED <<lock, store, op, request, receipts, resets, owed, waived>>

\* subscribed_skill_from_lock and reconcile: an edited folder fails as well.  A
\* receipt owes what was there.
Check ==
    /\ phase = "check"
    /\ \/ /\ canon[at] = target
          /\ receipts' = [receipts EXCEPT ![at] = old]
          /\ owed' = owed \cup {<<at, old>>}
          /\ waived' = waived \cup ({<<at, old>>} \ owed)
          /\ Drop /\ Go("apply") /\ UNCHANGED remote /\ NoFault
       \/ /\ remote' \in BOOLEAN
          /\ Go("restore") /\ UNCHANGED <<receipts, unit, owed, waived>>
          /\ IF canon[at] = target THEN Fault ELSE NoFault
    /\ UNCHANGED <<disk, store, op, request, todo, resets, clean>>
-----------------------------------------------------------------------------
\* The rollback of the Skill at hand has ended: it came from a failed apply, a
\* failed verification or the restoring of a batch.
RollbackEnds(ok) ==
    CASE after = "apply"  -> ItemFails(ok /\ remote) /\ UNCHANGED receipts
      [] after = "verify" ->
           /\ Drop /\ UNCHANGED remote
           /\ IF ok THEN /\ receipts' = [receipts EXCEPT ![at] = Absent]
                         /\ Go("verify") /\ UNCHANGED todo
                    ELSE /\ Go("undo") /\ todo' = Updated /\ UNCHANGED receipts
      [] after = "undo"   -> Drop /\ Go("undo") /\ UNCHANGED <<todo, remote, receipts>>

\* restore_retained, first half: what is in the way goes aside.
RestoreAside ==
    /\ phase = "restore"
    /\ \/ /\ Retained \in copies
          /\ copies' = IF canon[at] = Absent THEN copies
                         ELSE copies \cup {Copy("backup", at, canon[at])}
          /\ canon' = [canon EXCEPT ![at] = Absent]
          /\ aside' = canon[at]
          /\ Go("put_back")
          /\ UNCHANGED <<todo, remote, receipts, at, old, copied, after, clean>>
          /\ NoFault
       \/ /\ clean' = FALSE
          /\ RollbackEnds(FALSE)
          /\ UNCHANGED <<canon, copies>>
          /\ IF Retained \in copies THEN Fault ELSE NoFault
    /\ UNCHANGED <<lock, locals, store, op, request, resets, owed, waived>>

\* Second half: the retained copy is renamed into place.  What went aside is
\* removed, or stays; if the rename fails it goes back, or stays as well.
PutBack ==
    /\ phase = "put_back"
    /\ \/ /\ canon' = [canon EXCEPT ![at] = old]
          /\ \/ copies' = copies \ {Retained, Copy("backup", at, aside)} /\ NoFault
             \/ copies' = copies \ {Retained} /\ Fault
          /\ Go("relock") /\ UNCHANGED <<todo, remote, receipts, unit, clean>>
       \/ /\ clean' = FALSE
          /\ RollbackEnds(FALSE)
          /\ \/ UNCHANGED <<canon, copies>> /\ Faults(2)
             \/ /\ canon' = [canon EXCEPT ![at] = aside]
                /\ copies' = copies \ {Copy("backup", at, aside)} /\ Fault
    /\ UNCHANGED <<lock, locals, store, op, request, resets, owed, waived>>

\* The rest of rollback_exact: the previous lock entry is written, the folder
\* compared once more, then Agents and projects are reconciled.  Only after all
\* of it does a failed apply drop the local copy it made.
Relock ==
    /\ phase = "relock"
    /\ \/ /\ canon[at] = old
          /\ lock' = [lock EXCEPT ![at] = draft.rows[at]]
          /\ locals' = IF after = "apply" THEN LocalsWithout(at) ELSE locals
          /\ RollbackEnds(TRUE) /\ UNCHANGED clean /\ NoFault
       \/ /\ lock' \in {lock, [lock EXCEPT ![at] = draft.rows[at]]}
          /\ clean' = (clean /\ lock'[at] = draft.rows[at])
          /\ RollbackEnds(FALSE) /\ UNCHANGED locals /\ Fault
       \/ /\ canon[at] # old
          /\ lock' = [lock EXCEPT ![at] = draft.rows[at]]
          /\ RollbackEnds(FALSE) /\ UNCHANGED <<locals, clean>> /\ NoFault
    /\ UNCHANGED <<canon, copies, store, op, request, resets, owed, waived>>

\* verify_exact_current
Exact(n) == canon[n] = target /\ lock[n] = target

\* Every item of the batch has been tried.
AllApplied ==
    /\ phase = "apply" /\ todo = {}
    /\ Go("verify") /\ todo' = Updated
    /\ UNCHANGED <<disk, store, op, request, unit, receipts, remote, resets,
                   faults, history>>

\* verify_applied_receipts, one receipt; the transaction is free before its
\* rollback takes it.
Verify(n) ==
    /\ phase = "verify" /\ n \in todo /\ resets = {}
    /\ todo' = todo \ {n}
    /\ IF Exact(n) THEN UNCHANGED <<phase, unit>>
                   ELSE Take(n, receipts[n], "verify") /\ Go("revert")
    /\ UNCHANGED <<disk, store, op, request, receipts, remote, resets, faults,
                   history>>

\* rollback_messages, one receipt.
Undo(n) ==
    /\ phase = "undo" /\ n \in todo
    /\ todo' = todo \ {n}
    /\ Take(n, receipts[n], "undo") /\ Go("revert")
    /\ UNCHANGED <<disk, store, op, request, receipts, remote, resets, faults,
                   history>>

\* rollback_preserving_current, under the transaction: content that is neither
\* the previous nor the new one is kept as a local Skill first.
Revert ==
    /\ phase = "revert" /\ TransactionFree
    /\ \/ /\ canon[at] \in {old, target}
          /\ Go("restore")
          /\ UNCHANGED <<locals, unit, todo, remote, receipts, clean>> /\ NoFault
       \/ /\ canon[at] \notin {old, target, Absent}
          /\ locals' = locals \cup {<<at, canon[at]>>}
          /\ Go("restore")
          /\ UNCHANGED <<unit, todo, remote, receipts, clean>> /\ NoFault
       \/ /\ canon[at] \notin {old, target}
          /\ clean' = FALSE
          /\ RollbackEnds(FALSE) /\ UNCHANGED locals
          /\ IF canon[at] = Absent THEN NoFault ELSE Fault
    /\ UNCHANGED <<canon, lock, copies, store, op, request, resets, owed, waived>>

\* Mutant: the rows the batch reached are saved with the frozen state.
UndoneKeepsRows ==
    /\ phase = "undo" /\ todo = {}
    /\ store' = [draft EXCEPT !.rows = [n \in Skills |->
                   IF n \in Updated THEN target ELSE draft.rows[n]]]
    /\ Leave
    /\ StillWaived
    /\ UNCHANGED <<disk, resets, faults, owed, clean>>

\* The batch is back: an error that freezes the subscription is saved with the
\* store from before the batch.
Undone ==
    /\ phase = "undo" /\ todo = {}
    /\ \/ store' = draft /\ remote
       \/ UNCHANGED store
    /\ Leave
    /\ StillWaived
    /\ UNCHANGED <<disk, resets, faults, owed, clean>>

\* The plan cannot be computed again, or the store cannot be saved; a rollback
\* verifies once more under the transaction.
CommitFails ==
    /\ phase = "verify" /\ todo = {}
    /\ \/ /\ Fault /\ remote' \in BOOLEAN
       \/ /\ op = "rollback" /\ TransactionFree
          /\ \E n \in Updated : ~Exact(n)
          /\ NoFault /\ UNCHANGED remote
    /\ Go("undo") /\ todo' = Updated
    /\ UNCHANGED <<disk, store, op, request, unit, receipts, resets, history>>

\* The store is saved as a whole, with the rows of the batch and the pin of a
\* rollback.  Edits the user gave up are gone from here on.
Commit ==
    /\ phase = "verify" /\ todo = {}
    /\ op = "rollback" => TransactionFree /\ \A n \in Updated : Exact(n)
    /\ store' =
         [rows |-> [n \in Skills |-> IF n \in Updated THEN target ELSE draft.rows[n]],
          pins |-> IF op = "rollback"
                     THEN [n \in Skills |-> IF n \in Updated THEN target
                                                           ELSE draft.pins[n]]
                     ELSE draft.pins]
    /\ GiveUp(Settled(Updated))
    /\ Go("finalize")
    /\ UNCHANGED <<disk, op, work, resets, clean>> /\ NoFault

\* release_retained of every receipt; a copy that cannot be removed stays.
Finalize ==
    /\ phase = "finalize"
    /\ \/ /\ copies' = {c \in copies : c # Copy("retain", c.skill, receipts[c.skill])}
          /\ NoFault
       \/ Fault /\ UNCHANGED copies
    /\ Leave
    /\ StillWaived
    /\ UNCHANGED <<canon, lock, locals, store, resets, owed, clean>>

\* resume_following_skill: the pin goes.
Resume(n) ==
    /\ op = "resume" /\ phase = "remote"
    /\ draft.pins[n] # Absent /\ store.rows[n] # Absent
    /\ store' = [store EXCEPT !.pins[n] = Absent]
    /\ Leave
    /\ UNCHANGED <<disk, resets, faults, history>>
-----------------------------------------------------------------------------
\* The row and the pin of Skill n in store s become r, and no pin.
WithRow(s, n, r) == [rows |-> [s.rows EXCEPT ![n] = r],
                     pins |-> [s.pins EXCEPT ![n] = Absent]]

Staged(n) == {c \in copies : c.kind = "remove" /\ c.skill = n}

\* What an earlier removal staged is still owed, and no local Skill has it.
Unsaved(n) == \E c \in Staged(n) : <<n, c.content>> \in owed \ locals

\* handle_removed_skill, handle_revoked_skill up to the installer: uninstall
\* the Skill, which gives its edits up, or convert it to a local one.
PlanRemoval(n, c) ==
    /\ op = "remove" /\ phase = "remote"
    /\ store.rows[n] # Absent
    /\ c = "preserve" /\ Unsaved(n) => "retried_removal" \in Hazards
    /\ draft' = store /\ choice' = c /\ resolved' = {n}
    /\ GiveUp(IF c = "discard" THEN OwedOf(n) ELSE {})
    /\ Take(n, Absent, "none") /\ Go("dismiss")
    /\ UNCHANGED <<disk, store, op, target, todo, receipts, remote, resets,
                   faults, clean>>

\* convert_to_local_and_commit takes the transaction and makes the local copy.
Dismiss ==
    /\ phase = "dismiss" /\ TransactionFree
    /\ \/ /\ choice = "preserve" => canon[at] # Absent
          /\ IF choice = "preserve" THEN Preserve(at)
                                    ELSE UNCHANGED <<locals, copied>>
          /\ Go("stage")
          /\ UNCHANGED <<op, request, at, old, aside, after, todo, receipts, remote>>
          /\ NoFault
       \/ /\ choice = "preserve"
          /\ Leave /\ UNCHANGED locals
          /\ IF canon[at] = Absent THEN NoFault ELSE Fault
    /\ UNCHANGED <<canon, lock, copies, store, resets, history>>

\* Mutant: the way back is read from the folder.
StageRemovalReadsFolder ==
    /\ phase = "stage"
    /\ copies' = (copies \ Staged(at)) \cup
           (IF canon[at] = Absent THEN {} ELSE {Copy("remove", at, canon[at])})
    /\ canon' = [canon EXCEPT ![at] = Absent]
    /\ old' = canon[at] /\ target' = canon[at]
    /\ Go("unlock")
    /\ UNCHANGED <<locals, op, draft, choice, resolved, at, copied, aside, after,
                   todo, receipts, remote, lock, store, resets, history>> /\ NoFault

\* uninstall_hub_skill_with_commit: a staging folder of an earlier removal is
\* deleted, the folder is renamed to that name.  `target` is the release of
\* the lock entry, read for the way back.
StageRemoval ==
    /\ phase = "stage"
    /\ \/ /\ copies' = (copies \ Staged(at)) \cup
                 (IF canon[at] = Absent THEN {} ELSE {Copy("remove", at, canon[at])})
          /\ canon' = [canon EXCEPT ![at] = Absent]
          /\ old' = canon[at] /\ target' = lock[at]
          /\ Go("unlock")
          /\ UNCHANGED <<locals, op, draft, choice, resolved, at, copied, aside,
                         after, todo, receipts, remote>> /\ NoFault
       \/ /\ copies' \in {copies, copies \ Staged(at)}
          /\ locals' = LocalsWithout(at)
          /\ Leave /\ UNCHANGED canon /\ Fault
    /\ UNCHANGED <<lock, store, resets, history>>

\* The staged folder is back, or nothing was staged.
Unstaged == /\ canon' = [canon EXCEPT ![at] = old]
            /\ copies' = copies \ Staged(at)

\* The lock entry goes.  If it cannot, the folder is renamed back; that this
\* may fail too is ignored (rollback_complete is true), so a conversion deletes
\* the local copy it made.
UnlockRemoval ==
    /\ phase = "unlock"
    /\ \/ /\ lock' = [lock EXCEPT ![at] = Absent]
          /\ Go("commit")
          /\ UNCHANGED <<canon, copies, locals, op, work, clean>> /\ NoFault
       \/ /\ locals' = LocalsWithout(at)
          /\ Leave
          /\ UNCHANGED lock
          /\ \/ Unstaged /\ UNCHANGED clean /\ Fault
             \/ /\ old # Absent /\ clean' = FALSE
                /\ UNCHANGED <<canon, copies>> /\ Faults(2)
    /\ UNCHANGED <<store, resets, owed, waived>>

\* Mutant: a commit that fails is only reported.
CommitRemovalReports ==
    /\ phase = "commit"
    /\ \/ /\ store' = WithRow(draft, at, Absent)
          /\ GiveUp(Settled({at}))
          /\ Go("cleanup")
          /\ UNCHANGED <<disk, op, work, clean>> /\ NoFault
       \/ /\ Leave /\ Fault
          /\ UNCHANGED <<disk, store, history>>
    /\ UNCHANGED resets

\* The store without the Skill is saved, or folder and lock entry are put back
\* and the local copy goes; it stays when one of the two cannot be.
CommitRemoval ==
    /\ phase = "commit"
    /\ \/ /\ store' = WithRow(draft, at, Absent)
          /\ GiveUp(Settled({at}))
          /\ Go("cleanup")
          /\ UNCHANGED <<disk, op, work, clean>> /\ NoFault
       \/ /\ Unstaged
          /\ lock' = [lock EXCEPT ![at] = target]
          /\ locals' = LocalsWithout(at)
          /\ Leave /\ UNCHANGED <<store, history>> /\ Fault
       \/ /\ \/ Unstaged /\ UNCHANGED lock
             \/ /\ lock' = [lock EXCEPT ![at] = target]
                /\ UNCHANGED <<canon, copies>>
          /\ clean' = FALSE
          /\ Leave /\ UNCHANGED <<store, locals, owed, waived>> /\ Faults(2)
    /\ UNCHANGED resets

\* The staged folder is deleted, or stays.
CleanRemoval ==
    /\ phase = "cleanup"
    /\ \/ copies' = copies \ Staged(at) /\ NoFault
       \/ Fault /\ UNCHANGED copies
    /\ Leave
    /\ UNCHANGED <<canon, lock, locals, store, resets, history>>
-----------------------------------------------------------------------------
\* install_channel_skill up to the installer: a Skill that is not tracked.
PlanInstall(n, r) ==
    /\ op = "install" /\ phase = "remote"
    /\ store.rows[n] = Absent
    /\ \A m \in Skills : store.rows[m] # Absent => store.rows[m] <= r
    /\ draft' = store /\ target' = r
    /\ Take(n, Absent, "none") /\ Go("adding")
    /\ UNCHANGED <<disk, store, op, choice, resolved, todo, receipts, remote,
                   resets, faults, history>>

\* commit_fetched_install: a folder that is there is adopted when lock and
\* content are of the release, and refused otherwise.
PlaceInstall ==
    /\ phase = "adding" /\ TransactionFree
    /\ \/ /\ canon[at] = Absent
          /\ canon' = [canon EXCEPT ![at] = target] /\ Go("entry")
          /\ UNCHANGED <<op, work>>
       \/ /\ canon[at] # Absent /\ Exact(at)
          /\ old' = canon[at] /\ Go("added")
          /\ UNCHANGED <<canon, op, request, at, copied, aside, after, todo,
                         receipts, remote>>
       \/ /\ canon[at] # Absent => ~Exact(at)   \* refused, or not fetched
          /\ Leave /\ UNCHANGED canon
    /\ UNCHANGED <<lock, copies, locals, store, resets, faults, history>>

Removed(n) == /\ canon' = [canon EXCEPT ![n] = Absent]
              /\ lock'  = [lock EXCEPT ![n] = Absent]

\* The lock entry, the check of what is in place, then the deployments; what
\* fails is uninstalled again.
EnterInstall ==
    /\ phase = "entry"
    /\ \/ /\ canon[at] = target
          /\ lock' = [lock EXCEPT ![at] = target] /\ Go("added")
          /\ UNCHANGED remote /\ NoFault
       \/ /\ lock' \in {lock, [lock EXCEPT ![at] = target]}
          /\ remote' \in BOOLEAN /\ Go("take_back")
          /\ IF canon[at] = target THEN Fault ELSE NoFault
    /\ UNCHANGED <<canon, copies, locals, store, op, request, unit, todo, receipts,
                   resets, history>>

\* uninstall_skill_locked_unchecked, whatever is in the folder by now.  An error
\* that freezes the subscription is saved with the store loaded before.
TakeBack ==
    /\ phase = "take_back"
    /\ \/ Removed(at) /\ UNCHANGED clean /\ NoFault
       \/ clean' = FALSE /\ UNCHANGED <<canon, lock>> /\ Fault
    /\ \/ store' = draft /\ remote
       \/ UNCHANGED store
    /\ Leave
    /\ UNCHANGED <<copies, locals, resets, owed, waived>>

\* The receipt is refused, or the snapshot cannot be made: rollback_install
\* takes the transaction and uninstalls what this operation installed, without
\* a look at the folder.  The user has lost an edit made meanwhile.
InstallAborts ==
    /\ phase = "added" /\ TransactionFree
    /\ \/ /\ old = Absent
          /\ remote' \in BOOLEAN /\ Go("take_back")
          /\ GiveUp({<<at, canon[at]>>})
          /\ UNCHANGED <<store, op, request, unit, todo, receipts>>
       \/ /\ old # Absent
          /\ store' \in {store, draft}
          /\ Leave /\ UNCHANGED <<owed, waived>>
    /\ Fault
    /\ UNCHANGED <<disk, resets, clean>>

\* verify_and_commit_install, under the transaction: a Skill this operation
\* installed is uninstalled when the store cannot be saved, and kept when its
\* content or entry changed.
CommitInstall ==
    /\ phase = "added" /\ TransactionFree
    /\ \/ /\ Exact(at)
          /\ store' = WithRow(draft, at, target)
          /\ GiveUp(Settled({at}))
          /\ Leave /\ UNCHANGED clean /\ NoFault
       \/ /\ Exact(at) /\ old = Absent
          /\ Go("take_back") /\ UNCHANGED <<store, op, work, history>> /\ Fault
       \/ /\ Exact(at) /\ old # Absent
          /\ Leave /\ UNCHANGED <<store, history>> /\ Fault
       \/ /\ ~Exact(at) /\ clean' = (clean /\ lock[at] = Absent)
          /\ Leave /\ UNCHANGED <<store, owed, waived>> /\ NoFault
    /\ UNCHANGED <<disk, resets>>
-----------------------------------------------------------------------------
\* An edit of Skill n is lost to what runs now: the folder was read, or is about
\* to be replaced or removed unread.
Unguarded(n) == \/ /\ n = at
                   /\ phase \in {"retain", "swap", "record", "check", "restore",
                                  "entry", "take_back"}
                \/ n \in resets

\* The user's editor; what it overwrites is the user's own business.
UserEdit(n, e) ==
    /\ canon[n] \notin {Absent, e}
    /\ n \in resolved => "edit_after_choice" \in Hazards
    /\ canon' = [canon EXCEPT ![n] = e]
    /\ owed'  = (owed \ {<<n, canon[n]>>, <<n, e>>}) \cup
                    (IF Unguarded(n) THEN {} ELSE {<<n, e>>})
    /\ waived' = waived \ {<<n, canon[n]>>, <<n, e>>}
    /\ UNCHANGED <<lock, copies, locals, store, op, phase, work, resets, faults,
                   clean>>

\* force_delete_installed_skills takes the transaction and prunes the
\* subscription store, without the lease channel operations hold ...
Prune ==
    LET S == {n \in Skills : lock[n] # Absent} IN
    /\ TransactionFree /\ S # {}
    /\ op # "none" => "reset_race" \in Hazards
    /\ store' = [rows |-> [n \in Skills |-> IF n \in S THEN Absent ELSE store.rows[n]],
                 pins |-> [n \in Skills |-> IF n \in S THEN Absent ELSE store.pins[n]]]
    /\ resets' = S
    /\ GiveUp(UNION {OwedOf(n) : n \in S})
    /\ UNCHANGED <<disk, op, phase, work, faults, clean>>

\* ... then it deletes one Skill after the other; one that cannot be stays.
ResetSkill(n) ==
    /\ n \in resets
    /\ resets' = resets \ {n}
    /\ \/ Removed(n) /\ UNCHANGED clean /\ NoFault
       \/ Fault /\ clean' = FALSE /\ UNCHANGED <<canon, lock>>
    /\ UNCHANGED <<copies, locals, store, op, phase, work, owed, waived>>

\* Mutant: a retained copy goes as soon as its folder is back.
SweepAny(c) ==
    /\ c \in copies /\ TransactionFree /\ c.kind = "retain"
    /\ canon[c.skill] # Absent
    /\ copies' = copies \ {c}
    /\ UNCHANGED <<canon, lock, locals, store, op, phase, work, resets, faults,
                   history>>

\* The sweep or Doctor deletes a retained copy that retain_replacement_committed
\* takes for superseded.
Sweep(c) ==
    LET n == c.skill IN
    /\ c \in copies /\ TransactionFree /\ c.kind = "retain"
    /\ store.rows[n] \notin {Absent, c.content}
    /\ lock[n] = store.rows[n] /\ canon[n] = store.rows[n]
    /\ copies' = copies \ {c}
    /\ UNCHANGED <<canon, lock, locals, store, op, phase, work, resets, faults,
                   history>>

\* Doctor's RestoreBackup: the folder is gone and a leftover is not.
Doctor(c) ==
    /\ c \in copies /\ TransactionFree
    /\ canon[c.skill] = Absent
    /\ canon' = [canon EXCEPT ![c.skill] = c.content]
    /\ copies' = copies \ {c}
    /\ UNCHANGED <<lock, locals, store, op, phase, work, resets, faults, history>>

\* The process dies, or the one that resets does.
Crash ==
    /\ op # "none" \/ resets # {}
    /\ Leave
    /\ resets' = {} /\ clean' = FALSE
    /\ Fault
    /\ UNCHANGED <<disk, store, owed, waived>>
-----------------------------------------------------------------------------
Working ==
    \/ RemoteFails \/ Refused
    \/ \E r \in Releases, R \in SUBSET Skills :
         \E c \in ChoicesFor(R) : \/ PlanUpdate(r, c, R)
                                  \/ \E n \in Skills : PlanRollback(n, r, c, R)
    \/ \E n \in Skills : Fetch(n) \/ Verify(n) \/ Undo(n) \/ Resume(n)
    \/ FetchFails \/ KeepLocal \/ Retain
    \/ SwapAside \/ Place \/ Record \/ InstallFails \/ Check
    \/ RestoreAside \/ PutBack \/ Relock \/ Revert \/ Undone
    \/ AllApplied \/ CommitFails \/ Commit \/ Finalize
    \/ \E n \in Skills, c \in {"preserve", "discard"} : PlanRemoval(n, c)
    \/ Dismiss \/ StageRemoval \/ UnlockRemoval \/ CommitRemoval \/ CleanRemoval
    \/ \E n \in Skills, r \in Releases : PlanInstall(n, r)
    \/ PlaceInstall \/ EnterInstall \/ TakeBack \/ InstallAborts \/ CommitInstall

Resetting == \E n \in Skills : ResetSkill(n)

Next ==
    \/ \E o \in Operations : Load(o)
    \/ Working
    \/ Resetting
    \/ \E n \in Skills, e \in Edits : UserEdit(n, e)
    \/ Prune
    \/ \E c \in AllCopies : Sweep(c) \/ Doctor(c)
    \/ Crash

Spec == Init /\ [][Next]_vars

-----------------------------------------------------------------------------
Phases == {"none", "remote", "apply", "fetch", "revert", "verify", "undo",
           "finalize", "dismiss", "adding", "added"} \cup Held

Stores == [rows : [Skills -> Releases \cup {Absent}],
           pins : [Skills -> Releases \cup {Absent}]]

TypeOK ==
    /\ canon \in [Skills -> Contents \cup {Absent}]
    /\ lock  \in [Skills -> Releases \cup {Absent}]
    /\ store \in Stores /\ draft \in Stores
    /\ copies \subseteq AllCopies
    /\ locals \subseteq Skills \X Contents
    /\ op \in Operations \cup {"none"}
    /\ phase \in Phases
    /\ target \in Releases \cup {Absent}
    /\ choice \in {"none", "preserve", "discard"}
    /\ resolved \subseteq Skills /\ todo \subseteq Skills
    /\ at \in Skills \cup {Absent}
    /\ old \in Contents \cup {Absent} /\ copied \in Contents \cup {Absent}
    /\ aside \in Contents \cup {Absent}
    /\ after \in {"none", "apply", "verify", "undo"}
    /\ receipts \in [Skills -> Contents \cup {Absent}]
    /\ remote \in BOOLEAN
    /\ resets \subseteq Skills
    /\ faults \in 0 .. MaxFaults
    /\ owed \subseteq Skills \X Contents /\ waived \subseteq owed
    /\ clean \in BOOLEAN

\* With no operation running, no crash and no rollback reported incomplete
\* behind it, the subscription, the lock and the folder agree: whatever failed,
\* a row describes the release in the lock, and the folder of a tracked Skill
\* holds that release or the user's edit of it (docs/features/skills/README.md:160).
Agreement ==
    clean /\ op = "none" /\ resets = {} => \A n \in Skills :
        /\ lock[n] = store.rows[n]
        /\ store.rows[n] # Absent => canon[n] \in {store.rows[n]} \cup Edits

\* An edit the user did not give up is in the folder, in a copy Doctor restores
\* or in a local Skill.  So is what a running batch has replaced, until it is
\* restored or its successor is in the subscription, and then still the release
\* the subscription describes: it can be restored without a fetch.  Until the
\* new release is in the subscription even a discarded edit is there.  Crashes,
\* failing rollbacks, edits between any two steps and the sweep included
\* (materialize.rs:270-274); edits Unguarded names are not owed.
OwedKept == \A e \in owed :
    e[2] \in Edits \cup {store.rows[e[1]], receipts[e[1]]} => Kept(e[1], e[2])

\* A pin says which release its Skill stays at.
PinHolds == \A n \in Skills :
    store.pins[n] # Absent => store.rows[n] = store.pins[n]

\* The subscription records releases the way ReleaseRecord says.
Records == INSTANCE ReleaseRecord WITH published <- store.rows, installed <- lock
RecordsReleases == Records!Spec
=============================================================================
