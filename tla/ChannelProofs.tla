------------------------------ MODULE ChannelProofs -------------------------
(***************************************************************************)
(* Proofs about a channel on its two sides.                                *)
(*                                                                         *)
(* SharedChannel, the subscriber: types and pins hold whatever fails and   *)
(* whoever resets; that subscription, install lock and folder agree, and   *)
(* that releases are recorded the way ReleaseRecord says, hold unless a    *)
(* force delete runs beside a channel operation.                           *)
(* That nothing owed to the user is lost holds in the usual environment:   *)
(* Saved says where each such content is, and why no step may delete it.   *)
(*                                                                         *)
(* ChannelPublish, the publishers: for any number of them, of commits and  *)
(* of scans, revisions follow the branch, a preview is published once, and *)
(* what was cancelled stays ended.                                         *)
(***************************************************************************)
EXTENDS SharedChannel, ChannelPublish, TLAPS

\* The phases of a batch that work on one Skill, by what comes after it; those
\* of a removal and of an install.
Applying   == {"fetch", "retain", "swap", "place", "record", "check"}
Restoring  == {"restore", "put_back", "relock"}
Removing   == {"dismiss", "stage", "unlock", "commit", "cleanup"}
Installing == {"adding", "entry", "added", "take_back"}
OnOne      == Applying \cup Restoring \cup {"revert"} \cup Removing \cup Installing
Batch      == Applying \cup Restoring \cup {"apply", "revert", "verify", "undo"}

\* The types, part by part: what is on the disk and in the store ...
WorldOK == /\ canon \in [Skills -> Contents \cup {Absent}]
           /\ lock  \in [Skills -> Releases \cup {Absent}]
           /\ store \in Stores
           /\ copies \subseteq AllCopies
           /\ locals \subseteq Skills \X Contents
           /\ resets \subseteq Skills

\* ... what an operation was asked for, and what it has done ...
RequestOK == /\ op \in Operations \cup {"none"}
             /\ phase \in Phases
             /\ draft \in Stores
             /\ target \in Releases \cup {Absent}
             /\ choice \in {"none", "preserve", "discard"}
             /\ resolved \subseteq Skills /\ todo \subseteq Skills
             /\ receipts \in [Skills -> Contents \cup {Absent}]
             /\ remote \in BOOLEAN

\* ... the Skill it works on ...
UnitOK == /\ at \in Skills \cup {Absent}
          /\ old \in Contents \cup {Absent} /\ copied \in Contents \cup {Absent}
          /\ aside \in Contents \cup {Absent}
          /\ after \in {"none", "apply", "verify", "undo"}

\* ... and the history.
HistoryOK == /\ faults \in 0 .. MaxFaults
             /\ owed \subseteq Skills \X Contents /\ waived \subseteq owed
             /\ clean \in BOOLEAN

\* Which of it is set in which phase; the transaction excludes a force delete.
InPhase ==
    /\ op = "none" <=> phase = "none"
    /\ IF phase \in OnOne THEN at \in Skills ELSE at = Absent
    /\ phase \notin Batch \cup {"finalize"} => todo = {} /\ receipts = Nobody
    /\ phase \in Batch \cup Installing => target \in Releases
    /\ phase \in {"retain", "swap"} => canon[at] # Absent
    /\ phase \in {"swap", "place", "record", "check"} => old # Absent
    /\ phase \in {"place", "record"} => aside # Absent
    /\ phase \in Applying => after = "apply"
    /\ phase \in Restoring => after \in {"apply", "verify", "undo"}
    /\ phase = "revert" => after \in {"verify", "undo"}
    /\ phase \notin Applying \cup Restoring \cup {"revert"} => after = "none"
    /\ phase \in Held => resets = {}

Typed == WorldOK /\ RequestOK /\ UnitOK /\ HistoryOK /\ InPhase

\* Skill n is of the batch.
InBatch(n) == n \in todo \/ receipts[n] # Absent \/ n = at

\* A pinned Skill is at the release of its pin.
PinsOK(s) == \A n \in Skills : s.pins[n] # Absent => s.rows[n] = s.pins[n]

\* What an update is still to move, moves or has moved is not pinned.
Pins ==
    /\ PinsOK(store) /\ PinsOK(draft)
    /\ phase = "remote" =>
         \A n \in Skills : store.pins[n] \in {draft.pins[n], Absent}
    /\ phase \in Batch /\ op # "rollback" =>
         \A n \in Skills : InBatch(n) => draft.pins[n] = Absent

\* The new release is in place, edited or not.
Brought(n) == lock[n] = target /\ canon[n] \in {target} \cup Edits

\* What the batch has to do it has not done, and a rollback has one Skill.
Unrepeated ==
    /\ phase = "apply" \/ after = "apply" => \A n \in todo : receipts[n] = Absent
    /\ after # "none" => at \notin todo
    /\ after = "apply" => receipts[at] = Absent
    /\ phase \in {"verify", "undo"} \/ after \in {"verify", "undo"} => todo \subseteq Updated
    /\ after \in {"verify", "undo"} => receipts[at] # Absent
    /\ phase \in Batch /\ op = "rollback" =>
         \A m, n \in Skills : InBatch(m) /\ InBatch(n) => m = n

\* What the store says while an operation runs.
Booked ==
    /\ op # "none" /\ phase \notin {"finalize", "cleanup"} => draft = store
    /\ \A n \in resets : store.rows[n] = Absent
    /\ phase \in Batch => \A n \in Skills : InBatch(n) => store.rows[n] # Absent
    /\ phase \in {"retain", "swap", "place", "record"} => lock[at] = store.rows[at]
    /\ phase \in {"record", "check"} => canon[at] \in {target} \cup Edits
    /\ phase = "check" => lock[at] = target
    /\ phase \in Batch \ {"undo"} /\ after # "undo" =>
         \A n \in Skills : receipts[n] # Absent /\ n # at => Brought(n)
    /\ phase = "commit" => lock[at] = Absent
    /\ phase \in Removing \ {"cleanup"} => store.rows[at] # Absent
    /\ phase \in Installing => store.rows[at] = Absent
    /\ phase \in {"entry", "added"} => resets = {}

\* Content c is what the row describes, or the user's edit of it.
Fits(n, c) == c \in {store.rows[n]} \cup Edits

\* Row, entry and folder of Skill n agree.
Agree(n) == /\ lock[n] = store.rows[n]
            /\ store.rows[n] # Absent => Fits(n, canon[n])

\* Skill n is between two states.
Busy(n) ==
    \/ /\ phase \in Batch /\ receipts[n] # Absent
       /\ phase = "undo" => n \in todo
       /\ after = "undo" => n \in todo \cup {at}
    \/ /\ phase \in Restoring \cup {"place", "record", "check"}
                     \cup {"unlock", "commit", "added", "take_back"}
       /\ n = at

\* Row, entry and folder agree, but for a Skill an operation works on, and what it
\* remembers of that one would make them agree again.
Agreed == clean =>
    /\ \A n \in Skills \ resets : Agree(n) \/ Busy(n)
    /\ phase \in Batch => \A n \in Skills : receipts[n] # Absent => Fits(n, receipts[n])
    /\ phase \in Restoring \cup {"swap", "place", "record", "check", "revert",
                                 "unlock", "commit"} => Fits(at, old)
    /\ phase \in {"place", "record"} => Fits(at, aside)
    /\ phase = "relock" => Fits(at, canon[at])
    /\ phase = "unlock" => lock[at] = store.rows[at]
    /\ phase \in {"unlock", "commit"} => target = store.rows[at]
    /\ phase \in Installing => old = Absent
-----------------------------------------------------------------------------
\* An operation that is over knows nothing.
LEMMA LeaveTyped ==
    ASSUME Leave
    PROVE  RequestOK' /\ UnitOK' /\ InPhase'
  BY DEF Leave, Drop, Take, NoStore, Nobody, Stores, RequestOK, UnitOK, InPhase,
         Phases, OnOne, Batch, Applying, Restoring, Removing, Installing, Held

\* Faults stay within their bound.
LEMMA FaultsTyped ==
    ASSUME faults \in 0 .. MaxFaults, NoFault \/ Fault \/ Faults(2)
    PROVE  faults' \in 0 .. MaxFaults
  BY FaultsAssumption DEF NoFault, Fault, Faults

\* A folder and a lock entry get another content, a copy is made.
LEMMA PutTyped ==
    ASSUME WorldOK, NEW n \in Skills, NEW c \in Contents \cup {Absent},
           NEW r \in Releases \cup {Absent}, NEW k \in Kinds
    PROVE  /\ [canon EXCEPT ![n] = c] \in [Skills -> Contents \cup {Absent}]
           /\ [lock EXCEPT ![n] = r] \in [Skills -> Releases \cup {Absent}]
           /\ c # Absent => Copy(k, n, c) \in AllCopies
           /\ canon[n] \in Contents \cup {Absent} /\ lock[n] \in Releases \cup {Absent}
           /\ store.rows[n] \in Releases \cup {Absent}
           /\ store.pins[n] \in Releases \cup {Absent}
  BY DEF WorldOK, Copy, AllCopies, Stores

\* A row and its pin in a store are replaced.
LEMMA RowTyped ==
    ASSUME NEW s \in Stores, NEW n \in Skills, NEW r \in Releases \cup {Absent}
    PROVE  WithRow(s, n, r) \in Stores /\ [s EXCEPT !.pins[n] = Absent] \in Stores
  BY DEF Stores, WithRow

\* A step that leaves the history alone.
LEMMA HistoryKept ==
    ASSUME HistoryOK, UNCHANGED history, UNCHANGED faults \/ NoFault \/ Fault \/ Faults(2)
    PROVE  HistoryOK'
  BY FaultsTyped DEF HistoryOK, history, NoFault

\* An item that fails leaves the operation well-formed.
LEMMA FailTyped ==
    ASSUME Typed, phase \in Batch, NEW rem \in BOOLEAN, ItemFails(rem)
    PROVE  /\ UnitOK' /\ todo' \subseteq Skills /\ remote' \in BOOLEAN
           /\ phase' \in {"apply", "undo"} /\ at' = Absent /\ after' = "none"
  BY DEF Typed, RequestOK, UnitOK, ItemFails, Drop, Take, Go, Updated

\* So does the end of a rollback.
LEMMA EndTyped ==
    ASSUME Typed, phase \in Restoring \cup {"revert"}, NEW ok \in BOOLEAN, RollbackEnds(ok)
    PROVE  /\ UnitOK' /\ todo' \subseteq Skills /\ remote' \in BOOLEAN
           /\ receipts' \in [Skills -> Contents \cup {Absent}]
           /\ phase' \in {"apply", "verify", "undo"} /\ at' = Absent /\ after' = "none"
  <1>1. after \in {"apply", "verify", "undo"} /\ phase \in Batch /\ (ok /\ remote) \in BOOLEAN
    BY DEF Typed, InPhase, RequestOK, Batch
  <1>2. CASE after = "apply"
    BY <1>1, <1>2, FailTyped DEF RollbackEnds, Typed, RequestOK
  <1>3. CASE after \in {"verify", "undo"}
    BY <1>3 DEF RollbackEnds, Drop, Take, Go, Updated, Typed, RequestOK, UnitOK
  <1> QED
    BY <1>1, <1>2, <1>3

\* A local copy is of what the folder holds.
LEMMA KeptLocally ==
    ASSUME Typed, KeepLocal
    PROVE  locals' \subseteq Skills \X Contents /\ resets' \subseteq Skills
  <1>1. at \in Skills /\ canon[at] \in Contents \cup {Absent}
    BY DEF KeepLocal, Typed, InPhase, OnOne, Applying, WorldOK
  <1>2. \/ locals' = locals
        \/ locals' = locals \cup {<<at, canon[at]>>} /\ canon[at] # Absent
    BY DEF KeepLocal, Preserve, Replaceable
  <1> QED
    BY <1>1, <1>2 DEF Typed, WorldOK, KeepLocal

\* The retained copy is of what the folder holds.
LEMMA CopyRetained ==
    ASSUME Typed, Retain
    PROVE  copies' \subseteq AllCopies
  <1>1. at \in Skills /\ canon[at] \in Contents /\ "retain" \in Kinds
    BY DEF Retain, Typed, InPhase, OnOne, Applying, WorldOK, Kinds
  <1>2. Copy("retain", at, canon[at]) \in AllCopies
    BY <1>1 DEF Copy, AllCopies
  <1> QED
    BY <1>2 DEF Typed, WorldOK, Retain

\* What goes aside is what the folder holds.
LEMMA CopyAside ==
    ASSUME Typed, RestoreAside
    PROVE  copies' \subseteq AllCopies
  <1>1. at \in Skills /\ canon[at] \in Contents \cup {Absent} /\ "backup" \in Kinds
    BY DEF RestoreAside, Typed, InPhase, OnOne, Restoring, WorldOK, Kinds
  <1>2. canon[at] # Absent => Copy("backup", at, canon[at]) \in AllCopies
    BY <1>1 DEF Copy, AllCopies
  <1> QED
    BY <1>2 DEF Typed, WorldOK, RestoreAside

\* What a revert keeps is what the folder holds.
LEMMA RevertKeeps ==
    ASSUME Typed, Revert
    PROVE  locals' \subseteq Skills \X Contents /\ resets' \subseteq Skills
  <1>1. at \in Skills /\ canon[at] \in Contents \cup {Absent}
    BY DEF Revert, Typed, InPhase, OnOne, WorldOK
  <1>2. \/ locals' = locals
        \/ locals' = locals \cup {<<at, canon[at]>>} /\ canon[at] # Absent
    BY DEF Revert
  <1> QED
    BY <1>1, <1>2 DEF Typed, WorldOK, Revert

\* A commit saves a store.
LEMMA StoreCommitted ==
    ASSUME Typed, Commit
    PROVE  store' \in Stores
  <1>1. target \in Releases
    BY DEF Commit, Typed, InPhase, Batch
  <1> DEFINE put(f) == [n \in Skills |-> IF n \in Updated THEN target ELSE f[n]]
  <1>2. /\ put(draft.rows) \in [Skills -> Releases \cup {Absent}]
        /\ put(draft.pins) \in [Skills -> Releases \cup {Absent}]
        /\ draft.pins \in [Skills -> Releases \cup {Absent}]
    BY <1>1 DEF Typed, RequestOK, Stores
  <1>3. \/ store' = [rows |-> put(draft.rows), pins |-> put(draft.pins)]
        \/ store' = [rows |-> put(draft.rows), pins |-> draft.pins]
    BY DEF Commit
  <1> HIDE DEF put
  <1> QED
    BY <1>2, <1>3 DEF Stores

\* So does a removal ...
LEMMA RowRemoved ==
    ASSUME Typed, CommitRemoval
    PROVE  store' \in Stores
  <1>1. at \in Skills /\ store \in Stores /\ draft \in Stores
    BY DEF CommitRemoval, Typed, InPhase, OnOne, Removing, WorldOK, RequestOK
  <1>2. store' = WithRow(draft, at, Absent) \/ store' = store
    BY DEF CommitRemoval, history
  <1> QED
    BY <1>1, <1>2, RowTyped

\* ... an install ...
LEMMA RowInstalled ==
    ASSUME Typed, CommitInstall
    PROVE  store' \in Stores
  <1>1. /\ at \in Skills /\ store \in Stores /\ draft \in Stores
        /\ target \in Releases \cup {Absent}
    BY DEF CommitInstall, Typed, InPhase, OnOne, Installing, WorldOK, RequestOK
  <1>2. store' = WithRow(draft, at, target) \/ store' = store
    BY DEF CommitInstall
  <1> QED
    BY <1>1, <1>2, RowTyped

\* ... and a force delete.
LEMMA StorePruned ==
    ASSUME Typed, Prune
    PROVE  store' \in Stores
  <1> DEFINE S == {n \in Skills : lock[n] # Absent}
             Cut(f) == [n \in Skills |-> IF n \in S THEN Absent ELSE f[n]]
  <1>2. /\ Cut(store.rows) \in [Skills -> Releases \cup {Absent}]
        /\ Cut(store.pins) \in [Skills -> Releases \cup {Absent}]
    BY DEF Typed, WorldOK, Stores
  <1>3. store' = [rows |-> Cut(store.rows), pins |-> Cut(store.pins)]
    BY DEF Prune
  <1> HIDE DEF Cut
  <1> QED
    BY <1>2, <1>3 DEF Stores

\* Doctor puts a copy back.
LEMMA DoctorPuts ==
    ASSUME Typed, NEW c \in AllCopies, Doctor(c)
    PROVE  canon' \in [Skills -> Contents \cup {Absent}]
  <1>1. c.skill \in Skills /\ c.content \in Contents
    BY DEF AllCopies
  <1>2. canon' = [canon EXCEPT ![c.skill] = c.content]
    BY DEF Doctor
  <1> QED
    BY <1>1, <1>2 DEF Typed, WorldOK

\* No step breaks what is on the disk and in the store.
LEMMA WorldStep ==
    ASSUME Typed, Next
    PROVE  WorldOK'
  <1>1. CASE Refused \/ FetchFails \/ Check \/ AllApplied \/ CommitFails \/ Crash
    BY <1>1 DEF Typed, WorldOK, Refused, FetchFails, Check, AllApplied, CommitFails,
       Crash, disk
  <1>2. ASSUME NEW o \in Operations, Load(o) PROVE WorldOK'
    BY <1>2 DEF Typed, WorldOK, Load, disk
  <1>3. ASSUME NEW r \in Releases, NEW R \in SUBSET Skills, NEW c \in ChoicesFor(R), PlanUpdate(r, c, R) PROVE WorldOK'
    BY <1>3 DEF Typed, WorldOK, PlanUpdate, Plan, disk
  <1>4. ASSUME NEW r \in Releases, NEW R \in SUBSET Skills, NEW c \in ChoicesFor(R), NEW n \in Skills, PlanRollback(n, r, c, R) PROVE WorldOK'
    BY <1>4 DEF Typed, WorldOK, PlanRollback, Plan, disk
  <1>5. ASSUME NEW n \in Skills, Fetch(n) \/ Verify(n) \/ Undo(n) PROVE WorldOK'
    BY <1>5 DEF Typed, WorldOK, Fetch, Verify, Undo, disk
  <1>6. ASSUME NEW n \in Skills, NEW c \in {"preserve", "discard"}, PlanRemoval(n, c) PROVE WorldOK'
    BY <1>6 DEF Typed, WorldOK, PlanRemoval, disk
  <1>7. ASSUME NEW n \in Skills, NEW r \in Releases, PlanInstall(n, r) PROVE WorldOK'
    BY <1>7 DEF Typed, WorldOK, PlanInstall, disk
  <1>8. CASE RemoteFails
    BY <1>8 DEF Typed, WorldOK, RequestOK, RemoteFails, disk
  <1>9. ASSUME NEW n \in Skills, Resume(n) PROVE WorldOK'
    <2>1. canon' \in [Skills -> Contents \cup {Absent}]
      BY <1>9 DEF Typed, WorldOK, Resume, disk
    <2>2. lock' \in [Skills -> Releases \cup {Absent}]
      BY <1>9 DEF Typed, WorldOK, Resume, disk
    <2>3. store' \in Stores
      BY <1>9, RowTyped DEF Typed, WorldOK, UnitOK, Resume
    <2>4. copies' \subseteq AllCopies
      BY <1>9 DEF Typed, WorldOK, Resume, disk
    <2>5. locals' \subseteq Skills \X Contents /\ resets' \subseteq Skills
      BY <1>9 DEF Typed, WorldOK, Resume, disk
    <2> QED
      BY <2>1, <2>2, <2>3, <2>4, <2>5 DEF WorldOK
  <1>10. CASE KeepLocal
    <2>1. canon' \in [Skills -> Contents \cup {Absent}]
      BY <1>10 DEF Typed, WorldOK, KeepLocal
    <2>2. lock' \in [Skills -> Releases \cup {Absent}]
      BY <1>10 DEF Typed, WorldOK, KeepLocal
    <2>3. store' \in Stores
      BY <1>10 DEF Typed, WorldOK, KeepLocal
    <2>4. copies' \subseteq AllCopies
      BY <1>10 DEF Typed, WorldOK, KeepLocal
    <2>5. locals' \subseteq Skills \X Contents /\ resets' \subseteq Skills
      BY <1>10, KeptLocally
    <2> QED
      BY <2>1, <2>2, <2>3, <2>4, <2>5 DEF WorldOK
  <1>11. CASE Retain
    <2>1. canon' \in [Skills -> Contents \cup {Absent}]
      BY <1>11 DEF Typed, WorldOK, Retain
    <2>2. lock' \in [Skills -> Releases \cup {Absent}]
      BY <1>11 DEF Typed, WorldOK, Retain
    <2>3. store' \in Stores
      BY <1>11 DEF Typed, WorldOK, Retain
    <2>4. copies' \subseteq AllCopies
      BY <1>11, CopyRetained
    <2>5. locals' \subseteq Skills \X Contents /\ resets' \subseteq Skills
      BY <1>11, PutTyped DEF Typed, WorldOK, RequestOK, UnitOK, InPhase, OnOne, Batch,
         Applying, Restoring, Removing, Installing, Retain, LocalsWithout, history,
         request, disk
    <2> QED
      BY <2>1, <2>2, <2>3, <2>4, <2>5 DEF WorldOK
  <1>12. CASE SwapAside
    <2>1. canon' \in [Skills -> Contents \cup {Absent}]
      BY <1>12 DEF Typed, WorldOK, InPhase, OnOne, Applying, SwapAside
    <2>2. lock' \in [Skills -> Releases \cup {Absent}]
      BY <1>12 DEF Typed, WorldOK, SwapAside
    <2>3. store' \in Stores
      BY <1>12 DEF Typed, WorldOK, SwapAside
    <2>4. copies' \subseteq AllCopies
      BY <1>12, PutTyped DEF Typed, WorldOK, InPhase, OnOne, Applying, Kinds, SwapAside
    <2>5. locals' \subseteq Skills \X Contents /\ resets' \subseteq Skills
      BY <1>12 DEF Typed, WorldOK, SwapAside
    <2> QED
      BY <2>1, <2>2, <2>3, <2>4, <2>5 DEF WorldOK
  <1>13. CASE Place
    <2>1. canon' \in [Skills -> Contents \cup {Absent}]
      BY <1>13 DEF Typed, WorldOK, InPhase, OnOne, Batch, Applying, Contents, Place
    <2>2. lock' \in [Skills -> Releases \cup {Absent}]
      BY <1>13 DEF Typed, WorldOK, Place
    <2>3. store' \in Stores
      BY <1>13 DEF Typed, WorldOK, Place
    <2>4. copies' \subseteq AllCopies
      BY <1>13 DEF Typed, WorldOK, Place
    <2>5. locals' \subseteq Skills \X Contents /\ resets' \subseteq Skills
      BY <1>13 DEF Typed, WorldOK, Place
    <2> QED
      BY <2>1, <2>2, <2>3, <2>4, <2>5 DEF WorldOK
  <1>14. CASE Record
    BY <1>14 DEF Typed, WorldOK, InPhase, OnOne, Batch, Applying, Record
  <1>15. CASE InstallFails
    BY <1>15 DEF Typed, WorldOK, UnitOK, InstallFails, LocalsWithout
  <1>16. CASE RestoreAside
    <2>1. canon' \in [Skills -> Contents \cup {Absent}]
      BY <1>16 DEF Typed, WorldOK, RequestOK, UnitOK, InPhase, OnOne, Batch, Applying,
         Restoring, Removing, Installing, Stores, Contents, RestoreAside, request, disk
    <2>2. lock' \in [Skills -> Releases \cup {Absent}]
      BY <1>16 DEF Typed, WorldOK, RestoreAside
    <2>3. store' \in Stores
      BY <1>16 DEF Typed, WorldOK, RestoreAside
    <2>4. copies' \subseteq AllCopies
      BY <1>16, CopyAside
    <2>5. locals' \subseteq Skills \X Contents /\ resets' \subseteq Skills
      BY <1>16 DEF Typed, WorldOK, RestoreAside
    <2> QED
      BY <2>1, <2>2, <2>3, <2>4, <2>5 DEF WorldOK
  <1>17. CASE PutBack
    BY <1>17 DEF Typed, WorldOK, RequestOK, UnitOK, InPhase, OnOne, Batch, Applying,
       Restoring, Removing, Installing, PutBack, Copy, Retained, request, unit, disk
  <1>18. CASE Relock
    <2>1. canon' \in [Skills -> Contents \cup {Absent}]
      BY <1>18 DEF Typed, WorldOK, Relock
    <2>2. lock' \in [Skills -> Releases \cup {Absent}]
      BY <1>18 DEF Typed, WorldOK, RequestOK, UnitOK, InPhase, OnOne, Batch, Applying,
         Restoring, Removing, Installing, Stores, Relock, request, disk
    <2>3. store' \in Stores
      BY <1>18 DEF Typed, WorldOK, Relock
    <2>4. copies' \subseteq AllCopies
      BY <1>18 DEF Typed, WorldOK, Relock
    <2>5. locals' \subseteq Skills \X Contents /\ resets' \subseteq Skills
      BY <1>18, PutTyped DEF Typed, WorldOK, RequestOK, UnitOK, InPhase, OnOne, Batch,
         Applying, Restoring, Removing, Installing, Relock, LocalsWithout, request, disk
    <2> QED
      BY <2>1, <2>2, <2>3, <2>4, <2>5 DEF WorldOK
  <1>19. CASE Revert
    <2>1. canon' \in [Skills -> Contents \cup {Absent}]
      BY <1>19 DEF Typed, WorldOK, Revert
    <2>2. lock' \in [Skills -> Releases \cup {Absent}]
      BY <1>19 DEF Typed, WorldOK, Revert
    <2>3. store' \in Stores
      BY <1>19 DEF Typed, WorldOK, Revert
    <2>4. copies' \subseteq AllCopies
      BY <1>19 DEF Typed, WorldOK, Revert
    <2>5. locals' \subseteq Skills \X Contents /\ resets' \subseteq Skills
      BY <1>19, RevertKeeps
    <2> QED
      BY <2>1, <2>2, <2>3, <2>4, <2>5 DEF WorldOK
  <1>20. CASE Undone
    BY <1>20 DEF Typed, WorldOK, RequestOK, Undone, disk
  <1>21. CASE Commit
    <2>1. canon' \in [Skills -> Contents \cup {Absent}]
      BY <1>21 DEF Typed, WorldOK, Commit, disk
    <2>2. lock' \in [Skills -> Releases \cup {Absent}]
      BY <1>21 DEF Typed, WorldOK, Commit, disk
    <2>3. store' \in Stores
      BY <1>21, StoreCommitted
    <2>4. copies' \subseteq AllCopies
      BY <1>21 DEF Typed, WorldOK, Commit, disk
    <2>5. locals' \subseteq Skills \X Contents /\ resets' \subseteq Skills
      BY <1>21 DEF Typed, WorldOK, Commit, disk
    <2> QED
      BY <2>1, <2>2, <2>3, <2>4, <2>5 DEF WorldOK
  <1>22. CASE Finalize
    BY <1>22 DEF Typed, WorldOK, Finalize
  <1>23. CASE Dismiss
    BY <1>23 DEF Typed, WorldOK, InPhase, OnOne, Removing, Dismiss, Preserve
  <1>24. CASE StageRemoval
    <2>1. canon' \in [Skills -> Contents \cup {Absent}]
      BY <1>24 DEF Typed, WorldOK, StageRemoval
    <2>2. lock' \in [Skills -> Releases \cup {Absent}]
      BY <1>24 DEF Typed, WorldOK, StageRemoval
    <2>3. store' \in Stores
      BY <1>24 DEF Typed, WorldOK, StageRemoval
    <2>4. copies' \subseteq AllCopies
      BY <1>24, PutTyped DEF Typed, WorldOK, InPhase, OnOne, Removing, Kinds,
         StageRemoval
    <2>5. locals' \subseteq Skills \X Contents /\ resets' \subseteq Skills
      BY <1>24 DEF Typed, WorldOK, StageRemoval, LocalsWithout
    <2> QED
      BY <2>1, <2>2, <2>3, <2>4, <2>5 DEF WorldOK
  <1>25. CASE UnlockRemoval
    BY <1>25 DEF Typed, WorldOK, UnitOK, UnlockRemoval, LocalsWithout, Unstaged
  <1>26. CASE CommitRemoval
    <2>1. canon' \in [Skills -> Contents \cup {Absent}]
      BY <1>26 DEF Typed, WorldOK, UnitOK, CommitRemoval, Unstaged, disk
    <2>2. lock' \in [Skills -> Releases \cup {Absent}]
      BY <1>26 DEF Typed, WorldOK, RequestOK, CommitRemoval, disk
    <2>3. store' \in Stores
      BY <1>26, RowRemoved
    <2>4. copies' \subseteq AllCopies
      BY <1>26 DEF Typed, WorldOK, CommitRemoval, Unstaged, disk
    <2>5. locals' \subseteq Skills \X Contents /\ resets' \subseteq Skills
      BY <1>26 DEF Typed, WorldOK, CommitRemoval, LocalsWithout, disk
    <2> QED
      BY <2>1, <2>2, <2>3, <2>4, <2>5 DEF WorldOK
  <1>27. CASE CleanRemoval
    BY <1>27 DEF Typed, WorldOK, CleanRemoval
  <1>28. CASE PlaceInstall
    <2>1. canon' \in [Skills -> Contents \cup {Absent}]
      BY <1>28 DEF Typed, WorldOK, InPhase, Installing, Contents, PlaceInstall
    <2>2. lock' \in [Skills -> Releases \cup {Absent}]
      BY <1>28 DEF Typed, WorldOK, PlaceInstall
    <2>3. store' \in Stores
      BY <1>28 DEF Typed, WorldOK, PlaceInstall
    <2>4. copies' \subseteq AllCopies
      BY <1>28 DEF Typed, WorldOK, PlaceInstall
    <2>5. locals' \subseteq Skills \X Contents /\ resets' \subseteq Skills
      BY <1>28 DEF Typed, WorldOK, PlaceInstall
    <2> QED
      BY <2>1, <2>2, <2>3, <2>4, <2>5 DEF WorldOK
  <1>29. CASE EnterInstall
    BY <1>29 DEF Typed, WorldOK, InPhase, OnOne, Installing, EnterInstall
  <1>30. CASE CommitInstall
    <2>1. canon' \in [Skills -> Contents \cup {Absent}]
      BY <1>30 DEF Typed, WorldOK, CommitInstall, disk
    <2>2. lock' \in [Skills -> Releases \cup {Absent}]
      BY <1>30 DEF Typed, WorldOK, CommitInstall, disk
    <2>3. store' \in Stores
      BY <1>30, RowInstalled
    <2>4. copies' \subseteq AllCopies
      BY <1>30 DEF Typed, WorldOK, CommitInstall, disk
    <2>5. locals' \subseteq Skills \X Contents /\ resets' \subseteq Skills
      BY <1>30 DEF Typed, WorldOK, CommitInstall, disk
    <2> QED
      BY <2>1, <2>2, <2>3, <2>4, <2>5 DEF WorldOK
  <1>31. ASSUME NEW n \in Skills, ResetSkill(n) PROVE WorldOK'
    BY <1>31 DEF Typed, WorldOK, ResetSkill, Removed
  <1>32. ASSUME NEW n \in Skills, NEW e \in Edits, UserEdit(n, e) PROVE WorldOK'
    <2>1. canon' \in [Skills -> Contents \cup {Absent}]
      BY <1>32 DEF Typed, WorldOK, Contents, UserEdit
    <2>2. lock' \in [Skills -> Releases \cup {Absent}]
      BY <1>32 DEF Typed, WorldOK, UserEdit
    <2>3. store' \in Stores
      BY <1>32 DEF Typed, WorldOK, UserEdit
    <2>4. copies' \subseteq AllCopies
      BY <1>32 DEF Typed, WorldOK, UserEdit
    <2>5. locals' \subseteq Skills \X Contents /\ resets' \subseteq Skills
      BY <1>32 DEF Typed, WorldOK, UserEdit
    <2> QED
      BY <2>1, <2>2, <2>3, <2>4, <2>5 DEF WorldOK
  <1>33. CASE Prune
    <2>1. canon' \in [Skills -> Contents \cup {Absent}]
      BY <1>33 DEF Typed, WorldOK, Prune, disk
    <2>2. lock' \in [Skills -> Releases \cup {Absent}]
      BY <1>33 DEF Typed, WorldOK, Prune, disk
    <2>3. store' \in Stores
      BY <1>33, StorePruned
    <2>4. copies' \subseteq AllCopies
      BY <1>33 DEF Typed, WorldOK, Prune, disk
    <2>5. locals' \subseteq Skills \X Contents /\ resets' \subseteq Skills
      BY <1>33 DEF Typed, WorldOK, Prune, disk
    <2> QED
      BY <2>1, <2>2, <2>3, <2>4, <2>5 DEF WorldOK
  <1>34. ASSUME NEW c \in AllCopies, Sweep(c) PROVE WorldOK'
    BY <1>34 DEF Typed, WorldOK, Sweep
  <1>35. ASSUME NEW c \in AllCopies, Doctor(c) PROVE WorldOK'
    <2>1. canon' \in [Skills -> Contents \cup {Absent}]
      BY <1>35, DoctorPuts
    <2>2. lock' \in [Skills -> Releases \cup {Absent}]
      BY <1>35 DEF Typed, WorldOK, Doctor
    <2>3. store' \in Stores
      BY <1>35 DEF Typed, WorldOK, Doctor
    <2>4. copies' \subseteq AllCopies
      BY <1>35 DEF Typed, WorldOK, Doctor
    <2>5. locals' \subseteq Skills \X Contents /\ resets' \subseteq Skills
      BY <1>35 DEF Typed, WorldOK, Doctor
    <2> QED
      BY <2>1, <2>2, <2>3, <2>4, <2>5 DEF WorldOK
  <1>36. CASE TakeBack
    BY <1>36 DEF Typed, WorldOK, RequestOK, TakeBack, Removed
  <1>37. CASE InstallAborts
    BY <1>37 DEF Typed, WorldOK, RequestOK, InstallAborts, disk
  <1> QED
    BY <1>1, <1>2, <1>3, <1>4, <1>5, <1>6, <1>7, <1>8, <1>9, <1>10, <1>11, <1>12,
       <1>13, <1>14, <1>15, <1>16, <1>17, <1>18, <1>19, <1>20, <1>21, <1>22, <1>23,
       <1>24, <1>25, <1>26, <1>27, <1>28, <1>29, <1>30, <1>31, <1>32, <1>33, <1>34,
       <1>35, <1>36, <1>37 DEF Next, Working, Resetting

\* Nor the history.
LEMMA HistoryStep ==
    ASSUME Typed, Next
    PROVE  HistoryOK'
  <1>1. CASE RemoteFails \/ Refused \/ FetchFails \/ KeepLocal \/ Retain \/
           SwapAside \/ Place \/ Record \/ AllApplied \/ CommitFails \/ Dismiss
           \/ StageRemoval \/ CleanRemoval \/ PlaceInstall \/ EnterInstall
    BY <1>1, HistoryKept DEF Typed, RemoteFails, Refused, FetchFails, KeepLocal, Retain,
       SwapAside, Place, Record, AllApplied, CommitFails, Dismiss, StageRemoval,
       CleanRemoval, PlaceInstall, EnterInstall, NoFault, history, vars
  <1>2. ASSUME NEW o \in Operations, Load(o) PROVE HistoryOK'
    <2>1. {<<n, canon[n]>> : n \in {m \in Skills \ resets : canon[m] \in Edits}}
            \subseteq Skills \X Contents
      BY DEF Contents
    <2> QED
      BY <1>2, <2>1 DEF Typed, HistoryOK, Load
  <1>3. ASSUME NEW n \in Skills, Fetch(n) \/ Verify(n) \/ Undo(n) \/ Resume(n) PROVE HistoryOK'
    BY <1>3, HistoryKept DEF Typed, Fetch, Verify, Undo, Resume
  <1>4. ASSUME NEW n \in Skills, NEW r \in Releases, PlanInstall(n, r) PROVE HistoryOK'
    BY <1>4, HistoryKept DEF Typed, PlanInstall
  <1>5. ASSUME NEW c \in AllCopies, Sweep(c) \/ Doctor(c) PROVE HistoryOK'
    BY <1>5, HistoryKept DEF Typed, Sweep, Doctor
  <1>6. ASSUME NEW r \in Releases, NEW R \in SUBSET Skills, NEW c \in ChoicesFor(R),
             PlanUpdate(r, c, R)
      PROVE  HistoryOK'
    <2>1. NoFault \/ Fault \/ Faults(2)
      BY <1>6 DEF PlanUpdate, Plan, NoFault
    <2>2. /\ owed' \subseteq Skills \X Contents /\ waived' \subseteq owed'
          /\ clean' \in BOOLEAN
      BY <1>6 DEF Typed, HistoryOK, PlanUpdate, Plan, OwedOf
    <2> QED
      BY <2>1, <2>2, FaultsTyped DEF Typed, HistoryOK
  <1>7. ASSUME NEW r \in Releases, NEW R \in SUBSET Skills, NEW c \in ChoicesFor(R), NEW n \in Skills,
             PlanRollback(n, r, c, R)
      PROVE  HistoryOK'
    <2>1. NoFault \/ Fault \/ Faults(2)
      BY <1>7 DEF PlanRollback, Plan, NoFault
    <2>2. /\ owed' \subseteq Skills \X Contents /\ waived' \subseteq owed'
          /\ clean' \in BOOLEAN
      BY <1>7 DEF Typed, HistoryOK, PlanRollback, Plan, OwedOf
    <2> QED
      BY <2>1, <2>2, FaultsTyped DEF Typed, HistoryOK
  <1>8. CASE InstallFails
    <2>1. NoFault \/ Fault \/ Faults(2)
      BY <1>8 DEF InstallFails
    <2>2. /\ owed' \subseteq Skills \X Contents /\ waived' \subseteq owed'
          /\ clean' \in BOOLEAN
      BY <1>8 DEF Typed, WorldOK, RequestOK, UnitOK, InPhase, OnOne, Batch, Applying,
         Restoring, Removing, Installing, HistoryOK, InstallFails, request, history,
         vars
    <2> QED
      BY <2>1, <2>2, FaultsTyped DEF Typed, HistoryOK
  <1>9. CASE Check
    <2>1. NoFault \/ Fault \/ Faults(2)
      BY <1>9 DEF Check
    <2>2. /\ owed' \subseteq Skills \X Contents /\ waived' \subseteq owed'
          /\ clean' \in BOOLEAN
      BY <1>9 DEF Typed, UnitOK, InPhase, OnOne, Applying, HistoryOK, Check
    <2> QED
      BY <2>1, <2>2, FaultsTyped DEF Typed, HistoryOK
  <1>10. CASE RestoreAside
    <2>1. NoFault \/ Fault \/ Faults(2)
      BY <1>10 DEF RestoreAside, request, NoFault, history, vars
    <2>2. /\ owed' \subseteq Skills \X Contents /\ waived' \subseteq owed'
          /\ clean' \in BOOLEAN
      BY <1>10 DEF Typed, WorldOK, RequestOK, UnitOK, InPhase, OnOne, Batch, Applying,
         Restoring, Removing, Installing, HistoryOK, RestoreAside, request, history,
         vars
    <2> QED
      BY <2>1, <2>2, FaultsTyped DEF Typed, HistoryOK
  <1>11. CASE PutBack
    <2>1. NoFault \/ Fault \/ Faults(2)
      BY <1>11 DEF PutBack, request, unit, NoFault, history, vars
    <2>2. /\ owed' \subseteq Skills \X Contents /\ waived' \subseteq owed'
          /\ clean' \in BOOLEAN
      BY <1>11 DEF Typed, WorldOK, RequestOK, UnitOK, InPhase, OnOne, Batch, Applying,
         Restoring, Removing, Installing, HistoryOK, PutBack, request, unit, history,
         vars
    <2> QED
      BY <2>1, <2>2, FaultsTyped DEF Typed, HistoryOK
  <1>12. CASE Relock
    <2>1. NoFault \/ Fault \/ Faults(2)
      BY <1>12 DEF Relock, request, NoFault, history, vars
    <2>2. /\ owed' \subseteq Skills \X Contents /\ waived' \subseteq owed'
          /\ clean' \in BOOLEAN
      BY <1>12 DEF Typed, WorldOK, RequestOK, UnitOK, InPhase, OnOne, Batch, Applying,
         Restoring, Removing, Installing, HistoryOK, Relock, request, history, vars
    <2> QED
      BY <2>1, <2>2, FaultsTyped DEF Typed, HistoryOK
  <1>13. CASE Revert
    <2>1. NoFault \/ Fault \/ Faults(2)
      BY <1>13 DEF Revert, request, unit, NoFault, history, vars
    <2>2. /\ owed' \subseteq Skills \X Contents /\ waived' \subseteq owed'
          /\ clean' \in BOOLEAN
      BY <1>13 DEF Typed, WorldOK, RequestOK, UnitOK, InPhase, OnOne, Batch, Applying,
         Restoring, Removing, Installing, HistoryOK, Revert, request, unit, history,
         vars
    <2> QED
      BY <2>1, <2>2, FaultsTyped DEF Typed, HistoryOK
  <1>14. CASE Undone
    <2>1. NoFault \/ Fault \/ Faults(2)
      BY <1>14 DEF Undone, NoFault
    <2>2. /\ owed' \subseteq Skills \X Contents /\ waived' \subseteq owed'
          /\ clean' \in BOOLEAN
      BY <1>14 DEF Typed, HistoryOK, Undone, StillWaived
    <2> QED
      BY <2>1, <2>2, FaultsTyped DEF Typed, HistoryOK
  <1>15. CASE Commit
    <2>1. NoFault \/ Fault \/ Faults(2)
      BY <1>15 DEF Commit
    <2>2. /\ owed' \subseteq Skills \X Contents /\ waived' \subseteq owed'
          /\ clean' \in BOOLEAN
      BY <1>15 DEF Typed, HistoryOK, Commit, GiveUp
    <2> QED
      BY <2>1, <2>2, FaultsTyped DEF Typed, HistoryOK
  <1>16. CASE Finalize
    <2>1. NoFault \/ Fault \/ Faults(2)
      BY <1>16 DEF Finalize
    <2>2. /\ owed' \subseteq Skills \X Contents /\ waived' \subseteq owed'
          /\ clean' \in BOOLEAN
      BY <1>16 DEF Typed, HistoryOK, Finalize, StillWaived
    <2> QED
      BY <2>1, <2>2, FaultsTyped DEF Typed, HistoryOK
  <1>17. ASSUME NEW n \in Skills, NEW c \in {"preserve", "discard"},
             PlanRemoval(n, c)
      PROVE  HistoryOK'
    <2>1. NoFault \/ Fault \/ Faults(2)
      BY <1>17 DEF PlanRemoval, NoFault
    <2>2. /\ owed' \subseteq Skills \X Contents /\ waived' \subseteq owed'
          /\ clean' \in BOOLEAN
      BY <1>17 DEF Typed, HistoryOK, PlanRemoval, GiveUp
    <2> QED
      BY <2>1, <2>2, FaultsTyped DEF Typed, HistoryOK
  <1>18. CASE UnlockRemoval
    <2>1. NoFault \/ Fault \/ Faults(2)
      BY <1>18 DEF UnlockRemoval
    <2>2. /\ owed' \subseteq Skills \X Contents /\ waived' \subseteq owed'
          /\ clean' \in BOOLEAN
      BY <1>18 DEF Typed, WorldOK, RequestOK, UnitOK, InPhase, OnOne, Batch, Applying,
         Restoring, Removing, Installing, HistoryOK, UnlockRemoval, request, unit, work,
         history, vars
    <2> QED
      BY <2>1, <2>2, FaultsTyped DEF Typed, HistoryOK
  <1>19. CASE CommitRemoval
    <2>1. NoFault \/ Fault \/ Faults(2)
      BY <1>19 DEF CommitRemoval
    <2>2. /\ owed' \subseteq Skills \X Contents /\ waived' \subseteq owed'
          /\ clean' \in BOOLEAN
      BY <1>19 DEF Typed, WorldOK, RequestOK, UnitOK, InPhase, OnOne, Batch, Applying,
         Restoring, Removing, Installing, HistoryOK, CommitRemoval, GiveUp, Settled,
         disk, history, request, unit, work, vars
    <2> QED
      BY <2>1, <2>2, FaultsTyped DEF Typed, HistoryOK
  <1>25. CASE TakeBack
    <2>1. NoFault \/ Fault \/ Faults(2)
      BY <1>25 DEF TakeBack
    <2>2. /\ owed' \subseteq Skills \X Contents /\ waived' \subseteq owed'
          /\ clean' \in BOOLEAN
      BY <1>25 DEF Typed, HistoryOK, TakeBack
    <2> QED
      BY <2>1, <2>2, FaultsTyped DEF Typed, HistoryOK
  <1>26. CASE InstallAborts
    <2>1. NoFault \/ Fault \/ Faults(2)
      BY <1>26 DEF InstallAborts
    <2>2. /\ owed' \subseteq Skills \X Contents /\ waived' \subseteq owed'
          /\ clean' \in BOOLEAN
      BY <1>26 DEF Typed, HistoryOK, InstallAborts, GiveUp
    <2> QED
      BY <2>1, <2>2, FaultsTyped DEF Typed, HistoryOK
  <1>20. CASE CommitInstall
    <2>1. NoFault \/ Fault \/ Faults(2)
      BY <1>20 DEF CommitInstall
    <2>2. /\ owed' \subseteq Skills \X Contents /\ waived' \subseteq owed'
          /\ clean' \in BOOLEAN
      BY <1>20 DEF Typed, WorldOK, RequestOK, UnitOK, InPhase, OnOne, Batch, Applying,
         Restoring, Removing, Installing, HistoryOK, CommitInstall, GiveUp, Settled,
         history, vars
    <2> QED
      BY <2>1, <2>2, FaultsTyped DEF Typed, HistoryOK
  <1>21. ASSUME NEW n \in Skills, ResetSkill(n) PROVE HistoryOK'
    <2>1. NoFault \/ Fault \/ Faults(2)
      BY <1>21 DEF ResetSkill
    <2>2. /\ owed' \subseteq Skills \X Contents /\ waived' \subseteq owed'
          /\ clean' \in BOOLEAN
      BY <1>21 DEF Typed, WorldOK, RequestOK, UnitOK, InPhase, OnOne, Batch, Applying,
         Restoring, Removing, Installing, HistoryOK, ResetSkill, request, unit, work,
         history, vars
    <2> QED
      BY <2>1, <2>2, FaultsTyped DEF Typed, HistoryOK
  <1>22. ASSUME NEW n \in Skills, NEW e \in Edits, UserEdit(n, e) PROVE HistoryOK'
    <2>1. NoFault \/ Fault \/ Faults(2)
      BY <1>22 DEF UserEdit, NoFault
    <2>2. /\ owed' \subseteq Skills \X Contents /\ waived' \subseteq owed'
          /\ clean' \in BOOLEAN
      BY <1>22 DEF Typed, HistoryOK, Contents, UserEdit
    <2> QED
      BY <2>1, <2>2, FaultsTyped DEF Typed, HistoryOK
  <1>23. CASE Prune
    <2>1. NoFault \/ Fault \/ Faults(2)
      BY <1>23 DEF Prune, NoFault
    <2>2. /\ owed' \subseteq Skills \X Contents /\ waived' \subseteq owed'
          /\ clean' \in BOOLEAN
      BY <1>23 DEF Typed, HistoryOK, Prune, GiveUp
    <2> QED
      BY <2>1, <2>2, FaultsTyped DEF Typed, HistoryOK
  <1>24. CASE Crash
    <2>1. NoFault \/ Fault \/ Faults(2)
      BY <1>24 DEF Crash
    <2>2. /\ owed' \subseteq Skills \X Contents /\ waived' \subseteq owed'
          /\ clean' \in BOOLEAN
      BY <1>24 DEF Typed, WorldOK, RequestOK, UnitOK, InPhase, OnOne, Batch, Applying,
         Restoring, Removing, Installing, HistoryOK, Crash, disk, history, vars
    <2> QED
      BY <2>1, <2>2, FaultsTyped DEF Typed, HistoryOK
  <1> QED
    BY <1>1, <1>2, <1>3, <1>4, <1>5, <1>6, <1>7, <1>8, <1>9, <1>10, <1>11, <1>12,
       <1>13, <1>14, <1>15, <1>16, <1>17, <1>18, <1>19, <1>20, <1>21, <1>22, <1>23,
       <1>24, <1>25, <1>26 DEF Next, Working, Resetting

\* Nor what an operation knows.
LEMMA WorkStep ==
    ASSUME Typed, Next
    PROVE  RequestOK' /\ UnitOK' /\ InPhase'
  <1>1. ASSUME NEW o \in Operations, Load(o) PROVE RequestOK' /\ UnitOK' /\ InPhase'
    BY <1>1, OperationsAssumption DEF Typed, WorldOK, RequestOK, UnitOK, InPhase, OnOne,
       Batch, Applying, Restoring, Removing, Installing, Held, Phases, Load, Go, unit
  <1>2. CASE RemoteFails
    BY <1>2, LeaveTyped DEF RemoteFails
  <1>3. CASE Refused
    BY <1>3, LeaveTyped DEF Refused
  <1>4. ASSUME NEW r \in Releases, NEW R \in SUBSET Skills, NEW c \in ChoicesFor(R),
             PlanUpdate(r, c, R)
      PROVE  RequestOK' /\ UnitOK' /\ InPhase'
    BY <1>4 DEF Typed, WorldOK, RequestOK, UnitOK, InPhase, OnOne, Batch, Applying,
       Restoring, Removing, Installing, Held, Phases, PlanUpdate, Plan, ChoicesFor, Go,
       unit
  <1>5. ASSUME NEW r \in Releases, NEW R \in SUBSET Skills, NEW c \in ChoicesFor(R), NEW n \in Skills,
             PlanRollback(n, r, c, R)
      PROVE  RequestOK' /\ UnitOK' /\ InPhase'
    BY <1>5 DEF Typed, WorldOK, RequestOK, UnitOK, InPhase, OnOne, Batch, Applying,
       Restoring, Removing, Installing, Held, Phases, PlanRollback, Plan, ChoicesFor, Go,
       unit
  <1>6. ASSUME NEW n \in Skills, Fetch(n) PROVE RequestOK' /\ UnitOK' /\ InPhase'
    BY <1>6 DEF Typed, RequestOK, UnitOK, InPhase, OnOne, Batch, Applying, Restoring,
       Removing, Installing, Held, Phases, Fetch, Drop, Go, Take, request
  <1>7. ASSUME NEW n \in Skills, Verify(n) PROVE RequestOK' /\ UnitOK' /\ InPhase'
    BY <1>7 DEF Typed, RequestOK, UnitOK, InPhase, OnOne, Batch, Applying, Phases,
       Verify, Go, Take, request, unit
  <1>8. ASSUME NEW n \in Skills, Undo(n) PROVE RequestOK' /\ UnitOK' /\ InPhase'
    BY <1>8 DEF Typed, RequestOK, UnitOK, InPhase, OnOne, Batch, Applying, Held, Phases,
       Undo, Go, Take, request
  <1>9. ASSUME NEW n \in Skills, Resume(n) PROVE RequestOK' /\ UnitOK' /\ InPhase'
    BY <1>9, LeaveTyped DEF Resume
  <1>10. CASE FetchFails
    BY <1>10 DEF Typed, RequestOK, UnitOK, InPhase, OnOne, Batch, Applying, Restoring,
       Removing, Installing, Held, Phases, FetchFails, Drop, Go, ItemFails, Take,
       Updated, request
  <1>11. CASE KeepLocal
    <2>1. RequestOK' /\ UnitOK'
      BY <1>11, FailTyped, EndTyped DEF Typed, WorldOK, RequestOK, UnitOK, InPhase,
         OnOne, Batch, Applying, Restoring, Removing, Installing, Held, Phases,
         KeepLocal, Go, Preserve, Replaceable, TransactionFree, Updated, history,
         request, unit
    <2>2. InPhase'
      BY <1>11, FailTyped, EndTyped, ContentAssumption DEF Typed, WorldOK, RequestOK,
         UnitOK, InPhase, OnOne, Batch, Applying, Restoring, Removing, Installing, Held,
         Nobody, KeepLocal, Go, Preserve, Replaceable, TransactionFree, Updated,
         history, request, unit
    <2> QED
      BY <2>1, <2>2
  <1>12. CASE Retain
    <2>1. RequestOK' /\ UnitOK'
      BY <1>12, FailTyped, EndTyped DEF Typed, WorldOK, RequestOK, UnitOK, InPhase,
         OnOne, Batch, Applying, Restoring, Removing, Installing, Held, Phases, Retain,
         Go, Updated, history, request, unit
    <2>2. InPhase'
      BY <1>12, FailTyped, EndTyped, ContentAssumption DEF Typed, WorldOK, RequestOK,
         UnitOK, InPhase, OnOne, Batch, Applying, Restoring, Removing, Installing, Held,
         Nobody, Retain, Go, Updated, history, request, unit
    <2> QED
      BY <2>1, <2>2
  <1>13. CASE SwapAside
    BY <1>13 DEF Typed, WorldOK, RequestOK, UnitOK, InPhase, OnOne, Batch, Applying,
       Held, Phases, SwapAside, Go, request
  <1>14. CASE Place
    BY <1>14 DEF Typed, RequestOK, UnitOK, InPhase, OnOne, Batch, Applying, Held,
       Phases, Place, Go, request, unit, work
  <1>15. CASE Record
    BY <1>15 DEF Typed, RequestOK, UnitOK, InPhase, OnOne, Batch, Applying, Held,
       Phases, Record, Go, request, unit, work
  <1>16. CASE InstallFails
    <2>1. /\ phase \in Batch /\ ItemFails(FALSE) /\ phase \notin {"none", "finalize"}
          /\ UNCHANGED <<op, request, receipts, resets>>
      BY <1>16 DEF InstallFails, Batch, Applying
    <2>2. RequestOK' /\ UnitOK'
      BY <2>1, FailTyped DEF Typed, RequestOK, Phases, request
    <2>3. InPhase'
      BY <2>1, FailTyped DEF Typed, InPhase, Batch, OnOne, Applying, Restoring, Removing,
         Installing, Held, request
    <2> QED
      BY <2>2, <2>3
  <1>17. CASE Check
    BY <1>17 DEF Typed, RequestOK, UnitOK, InPhase, OnOne, Batch, Applying, Restoring,
       Removing, Installing, Held, Phases, Check, Drop, Go, Take, request, unit
  <1>18. CASE RestoreAside
    <2>1. RequestOK' /\ UnitOK'
      BY <1>18, FailTyped, EndTyped DEF Typed, WorldOK, RequestOK, UnitOK, InPhase,
         OnOne, Batch, Applying, Restoring, Removing, Installing, Held, Phases,
         RestoreAside, Go, Updated, request, unit
    <2>2. InPhase'
      <3>1. \/ Go("put_back") /\ UNCHANGED <<todo, receipts, at, after>>
            \/ RollbackEnds(FALSE)
        BY <1>18 DEF RestoreAside, unit
      <3>2. ASSUME Go("put_back"), UNCHANGED <<todo, receipts, at, after>> PROVE InPhase'
        BY <1>18, <3>2 DEF Typed, InPhase, OnOne, Batch, Applying, Restoring, Held,
           RestoreAside, Go, request
      <3>3. ASSUME RollbackEnds(FALSE) PROVE InPhase'
        BY <1>18, <3>3, EndTyped DEF Typed, WorldOK, RequestOK, UnitOK, InPhase, OnOne,
           Batch, Applying, Restoring, Removing, Installing, Held, RestoreAside, request
      <3> QED
        BY <3>1, <3>2, <3>3
    <2> QED
      BY <2>1, <2>2
  <1>19. CASE PutBack
    <2>1. RequestOK' /\ UnitOK'
      BY <1>19, FailTyped, EndTyped DEF Typed, WorldOK, RequestOK, UnitOK, InPhase,
         OnOne, Batch, Applying, Restoring, Removing, Installing, Held, Phases, PutBack,
         Go, Updated, request, unit
    <2>2. InPhase'
      <3>1. \/ Go("relock") /\ UNCHANGED <<todo, receipts, at, after>>
            \/ RollbackEnds(FALSE)
        BY <1>19 DEF PutBack, unit
      <3>2. ASSUME Go("relock"), UNCHANGED <<todo, receipts, at, after>> PROVE InPhase'
        BY <1>19, <3>2 DEF Typed, InPhase, OnOne, Batch, Applying, Restoring, Held,
           PutBack, Go, request
      <3>3. ASSUME RollbackEnds(FALSE) PROVE InPhase'
        BY <1>19, <3>3, EndTyped DEF Typed, WorldOK, RequestOK, UnitOK, InPhase, OnOne,
           Batch, Applying, Restoring, Removing, Installing, Held, PutBack, request
      <3> QED
        BY <3>1, <3>2, <3>3
    <2> QED
      BY <2>1, <2>2
  <1>20. CASE Relock
    <2>1. RequestOK' /\ UnitOK'
      BY <1>20, FailTyped, EndTyped DEF Typed, WorldOK, RequestOK, UnitOK, InPhase,
         OnOne, Batch, Applying, Restoring, Removing, Installing, Held, Phases, Relock,
         Go, Updated, request, unit
    <2>2. InPhase'
      BY <1>20, FailTyped, EndTyped, ContentAssumption DEF Typed, WorldOK, RequestOK,
         UnitOK, InPhase, OnOne, Batch, Applying, Restoring, Removing, Installing, Held,
         Nobody, Relock, Go, Updated, request, unit
    <2> QED
      BY <2>1, <2>2
  <1>21. CASE Revert
    <2>1. RequestOK' /\ UnitOK'
      BY <1>21, FailTyped, EndTyped DEF Typed, WorldOK, RequestOK, UnitOK, InPhase,
         OnOne, Batch, Applying, Restoring, Removing, Installing, Held, Phases, Revert,
         Go, TransactionFree, Updated, request, unit
    <2>2. InPhase'
      <3>1. \/ Go("restore") /\ UNCHANGED <<todo, receipts, unit>>
            \/ RollbackEnds(FALSE)
        BY <1>21 DEF Revert
      <3>2. phase = "revert" /\ resets = {} /\ UNCHANGED <<op, request, resets>>
        BY <1>21 DEF Revert, TransactionFree
      <3>3. ASSUME Go("restore"), UNCHANGED <<todo, receipts, unit>> PROVE InPhase'
        BY <3>2, <3>3 DEF Typed, InPhase, OnOne, Batch, Applying, Restoring, Held, Go,
           request, unit
      <3>4. ASSUME RollbackEnds(FALSE) PROVE InPhase'
        BY <3>2, <3>4, EndTyped DEF Typed, InPhase, OnOne, Batch, Applying, Restoring,
           Removing, Installing, Held, request
      <3> QED
        BY <3>1, <3>3, <3>4
    <2> QED
      BY <2>1, <2>2
  <1>22. CASE Undone
    BY <1>22, LeaveTyped DEF Undone
  <1>23. CASE AllApplied
    BY <1>23 DEF Typed, RequestOK, UnitOK, InPhase, OnOne, Batch, Applying, Restoring,
       Removing, Installing, Held, Phases, AllApplied, Go, Updated, request, unit
  <1>24. CASE CommitFails
    BY <1>24 DEF Typed, RequestOK, UnitOK, InPhase, OnOne, Batch, Applying, Restoring,
       Removing, Installing, Held, Phases, CommitFails, Go, Updated, request, unit
  <1>25. CASE Commit
    BY <1>25 DEF Typed, RequestOK, UnitOK, InPhase, OnOne, Batch, Applying, Restoring,
       Removing, Installing, Held, Phases, Commit, Go, request, unit, work
  <1>26. CASE Finalize
    BY <1>26, LeaveTyped DEF Finalize
  <1>27. ASSUME NEW n \in Skills, NEW c \in {"preserve", "discard"},
             PlanRemoval(n, c)
      PROVE  RequestOK' /\ UnitOK' /\ InPhase'
    BY <1>27 DEF Typed, WorldOK, RequestOK, UnitOK, InPhase, OnOne, Batch, Applying,
       Restoring, Removing, Installing, Held, Phases, PlanRemoval, Go, Take
  <1>28. CASE Dismiss
    BY <1>28, LeaveTyped DEF Typed, WorldOK, RequestOK, UnitOK, InPhase, OnOne, Batch,
       Applying, Restoring, Removing, Installing, Held, Phases, Dismiss, Go, Preserve,
       TransactionFree, request
  <1>29. CASE StageRemoval
    BY <1>29, LeaveTyped DEF Typed, WorldOK, RequestOK, UnitOK, InPhase, OnOne, Batch,
       Applying, Restoring, Removing, Installing, Held, Phases, StageRemoval, Go
  <1>30. CASE UnlockRemoval
    BY <1>30, LeaveTyped DEF Typed, RequestOK, UnitOK, InPhase, OnOne, Batch, Applying,
       Restoring, Removing, Installing, Held, Phases, UnlockRemoval, Go, request, unit,
       work
  <1>31. CASE CommitRemoval
    BY <1>31, LeaveTyped DEF Typed, RequestOK, UnitOK, InPhase, OnOne, Batch, Applying,
       Restoring, Removing, Installing, Held, Phases, CommitRemoval, Go, request, unit,
       work
  <1>32. CASE CleanRemoval
    BY <1>32, LeaveTyped DEF CleanRemoval
  <1>33. ASSUME NEW n \in Skills, NEW r \in Releases,
             PlanInstall(n, r)
      PROVE  RequestOK' /\ UnitOK' /\ InPhase'
    BY <1>33 DEF Typed, WorldOK, RequestOK, UnitOK, InPhase, OnOne, Batch, Applying,
       Restoring, Installing, Held, Phases, PlanInstall, Go, Take
  <1>34. CASE PlaceInstall
    BY <1>34, LeaveTyped DEF Typed, WorldOK, RequestOK, UnitOK, InPhase, OnOne, Batch,
       Applying, Restoring, Installing, Held, Phases, PlaceInstall, Go, TransactionFree,
       request, unit, work
  <1>35. CASE EnterInstall
    BY <1>35 DEF Typed, RequestOK, UnitOK, InPhase, OnOne, Batch, Applying,
       Restoring, Removing, Installing, Held, Phases, EnterInstall, Go, request, unit
  <1>36. CASE CommitInstall
    <2>1. CASE Leave
      BY <2>1, LeaveTyped
    <2>2. CASE TransactionFree /\ phase = "added" /\ Go("take_back") /\ UNCHANGED <<disk, resets, op, work>>
      BY <2>2 DEF Typed, RequestOK, UnitOK, InPhase, OnOne, Batch, Applying, Restoring,
         Removing, Installing, Held, Phases, TransactionFree, Go, disk, work, request, unit
    <2> QED
      BY <1>36, <2>1, <2>2 DEF CommitInstall
  <1>43. CASE TakeBack
    BY <1>43, LeaveTyped DEF TakeBack
  <1>44. CASE InstallAborts
    <2>1. CASE Leave
      BY <2>1, LeaveTyped
    <2>2. CASE TransactionFree /\ phase = "added" /\ Go("take_back") /\ remote' \in BOOLEAN
               /\ UNCHANGED <<disk, resets, op, request, unit, todo, receipts>>
      BY <2>2 DEF Typed, RequestOK, UnitOK, InPhase, OnOne, Batch, Applying, Restoring,
         Removing, Installing, Held, Phases, TransactionFree, Go, disk, request, unit
    <2> QED
      BY <1>44, <2>1, <2>2 DEF InstallAborts
  <1>37. ASSUME NEW n \in Skills, ResetSkill(n) PROVE RequestOK' /\ UnitOK' /\ InPhase'
    BY <1>37 DEF Typed, RequestOK, UnitOK, InPhase, Phases, ResetSkill, request, unit,
       work
  <1>38. ASSUME NEW n \in Skills, NEW e \in Edits,
             UserEdit(n, e)
      PROVE  RequestOK' /\ UnitOK' /\ InPhase'
    BY <1>38, ContentAssumption DEF Typed, WorldOK, RequestOK, UnitOK, InPhase, OnOne,
       Applying, Phases, UserEdit, request, unit, work
  <1>39. CASE Prune
    BY <1>39 DEF Typed, RequestOK, UnitOK, InPhase, Prune, TransactionFree, disk,
       request, unit, work
  <1>40. ASSUME NEW c \in AllCopies, Sweep(c) PROVE RequestOK' /\ UnitOK' /\ InPhase'
    BY <1>40 DEF Typed, RequestOK, UnitOK, InPhase, Sweep, request, unit, work
  <1>41. ASSUME NEW c \in AllCopies, Doctor(c) PROVE RequestOK' /\ UnitOK' /\ InPhase'
    BY <1>41 DEF Typed, RequestOK, UnitOK, InPhase, Doctor, request, unit, work
  <1>42. CASE Crash
    BY <1>42, LeaveTyped DEF Crash
  <1> QED
    BY <1>1, <1>2, <1>3, <1>4, <1>5, <1>6, <1>7, <1>8, <1>9, <1>10, <1>11, <1>12,
       <1>13, <1>14, <1>15, <1>16, <1>17, <1>18, <1>19, <1>20, <1>21, <1>22, <1>23,
       <1>24, <1>25, <1>26, <1>27, <1>28, <1>29, <1>30, <1>31, <1>32, <1>33, <1>34,
       <1>35, <1>36, <1>37, <1>38, <1>39, <1>40, <1>41, <1>42, <1>43, <1>44
       DEF Next, Working, Resetting

\* At the start there is no operation.
LEMMA InitTyped == Init => Typed
  <1> SUFFICES ASSUME Init PROVE Typed
    OBVIOUS
  <1>1. PICK S \in SUBSET Skills, r \in Releases :
          LET at1 == [n \in Skills |-> IF n \in S THEN r ELSE Absent] IN
          /\ canon = at1 /\ lock = at1
          /\ store = [rows |-> at1, pins |-> Nobody]
    BY DEF Init
  <1>2. /\ canon \in [Skills -> Contents \cup {Absent}]
        /\ lock \in [Skills -> Releases \cup {Absent}]
        /\ store \in Stores
    BY <1>1 DEF Contents, Stores, Nobody
  <1>3. NoStore \in Stores /\ Nobody \in [Skills -> Contents \cup {Absent}]
    BY DEF NoStore, Nobody, Stores
  <1>4. WorldOK /\ HistoryOK /\ UnitOK
    BY <1>2, FaultsAssumption DEF Init, WorldOK, HistoryOK, UnitOK
  <1>5. RequestOK
    BY <1>3 DEF Init, RequestOK, Phases
  <1>6. InPhase
    BY DEF Init, InPhase, Batch, OnOne, Applying, Restoring, Removing, Installing, Held
  <1> QED
    BY <1>4, <1>5, <1>6 DEF Typed

\* No step leaves its types.
LEMMA StepTyped == Typed /\ [Next]_vars => Typed'
  <1> SUFFICES ASSUME Typed, [Next]_vars PROVE Typed'
    OBVIOUS
  <1>1. CASE Next
    BY <1>1, WorldStep, HistoryStep, WorkStep DEF Typed
  <1>2. CASE UNCHANGED vars
    BY <1>2 DEF vars, disk, work, request, unit, history, Typed, WorldOK, RequestOK, UnitOK,
       HistoryOK, InPhase
  <1> QED
    BY <1>1, <1>2
-----------------------------------------------------------------------------
\* An operation that is over has nothing pinned to move.
LEMMA PinsLeave ==
    ASSUME Leave, PinsOK(store)'
    PROVE  Pins'
  BY DEF Leave, Drop, Take, Pins, PinsOK, NoStore, Nobody, Batch, Applying, Restoring

\* An update leaves out what is pinned.
LEMMA PinsPlanned ==
    ASSUME Typed, Pins, NEW r \in Releases, NEW R \in SUBSET Skills, NEW c \in ChoicesFor(R),
           PlanUpdate(r, c, R)
    PROVE  Pins'
  <1>1. /\ phase = "remote" /\ phase' = "apply" /\ draft' = store /\ store' = store
        /\ receipts' = receipts /\ at' = at /\ op' = op
        /\ \A n \in todo' : draft.pins[n] = Absent
    BY DEF PlanUpdate, Plan, Go, unit, disk
  <1>2. receipts = Nobody /\ at = Absent
    BY <1>1 DEF Typed, InPhase, OnOne, Batch, Applying, Restoring, Removing, Installing
  <1>3. \A n \in Skills : InBatch(n)' => n \in todo'
    BY <1>1, <1>2, ContentAssumption DEF InBatch, Nobody
  <1> QED
    BY <1>1, <1>3 DEF Pins, PinsOK

\* What the end of a rollback does to the batch.
LEMMA RollbackLeaves ==
    ASSUME Typed, phase \in Restoring \cup {"revert"}, NEW ok \in BOOLEAN, RollbackEnds(ok)
    PROVE  /\ at' = Absent /\ after' = "none" /\ phase' \in {"apply", "verify", "undo"}
           /\ \A n \in Skills : n \in todo' \/ receipts'[n] # Absent => InBatch(n)
           /\ phase' = "undo" /\ after # "undo" => todo' = Updated /\ receipts' = receipts
           /\ phase' # "undo" \/ after = "undo" => todo' = todo
           /\ \/ receipts' = receipts
              \/ ok /\ after = "verify" /\ receipts' = [receipts EXCEPT ![at] = Absent]
           /\ after # "verify" => receipts' = receipts
           /\ phase' # "undo" => phase' = after
           /\ after = "undo" => phase' = "undo"
           /\ phase' = "verify" => ok /\ receipts' = [receipts EXCEPT ![at] = Absent]
  BY ContentAssumption DEF Typed, RequestOK, InPhase, RollbackEnds, ItemFails, Drop, Take, Go, InBatch, Updated, Restoring

\* A step of a batch stays in it, and draws no other Skill into it.
BatchMoves ==
    \/ \E n \in Skills : Fetch(n) \/ Verify(n) \/ Undo(n)
    \/ FetchFails \/ KeepLocal \/ Retain \/ SwapAside \/ Place \/ Record
    \/ InstallFails \/ Check \/ RestoreAside \/ PutBack \/ Relock \/ Revert
    \/ AllApplied \/ CommitFails

\* Whom a batch concerns is settled when it starts.
LEMMA BatchStays ==
    ASSUME Typed, BatchMoves
    PROVE  /\ UNCHANGED <<store, draft, op, target, resets>>
           /\ phase \in Batch /\ phase' \in Batch
           /\ \A n \in Skills : InBatch(n)' => InBatch(n)
  <1> DEFINE Stays == /\ UNCHANGED <<store, draft, op, target, resets>>
                      /\ phase \in Batch /\ phase' \in Batch
                      /\ \A n \in Skills : InBatch(n)' => InBatch(n)
  <1>1. ASSUME NEW n \in Skills, Fetch(n) PROVE Stays
    BY <1>1, ContentAssumption DEF Batch, Applying, InBatch, Fetch, Drop, Go, Take,
       request
  <1>2. ASSUME NEW n \in Skills, Verify(n) PROVE Stays
    BY <1>2 DEF Batch, InBatch, Verify, Go, Take, request, unit
  <1>3. ASSUME NEW n \in Skills, Undo(n) PROVE Stays
    BY <1>3 DEF Batch, InBatch, Undo, Go, Take, request
  <1>4. ASSUME FetchFails PROVE Stays
    BY <1>4, ContentAssumption DEF Batch, Applying, InBatch, Updated, FetchFails, Drop,
       Go, ItemFails, Take, request
  <1>5. ASSUME KeepLocal PROVE Stays
    BY <1>5, ContentAssumption DEF Batch, Applying, InBatch, Updated, KeepLocal, Drop,
       Go, ItemFails, Take, request, unit
  <1>6. ASSUME Retain PROVE Stays
    BY <1>6, ContentAssumption DEF Batch, Applying, InBatch, Updated, Retain, Drop, Go,
       ItemFails, Take, request
  <1>7. ASSUME SwapAside PROVE Stays
    BY <1>7 DEF Batch, Applying, InBatch, SwapAside, Go, request
  <1>8. ASSUME Place PROVE Stays
    BY <1>8 DEF Batch, Applying, InBatch, Place, Go, request, unit, work
  <1>9. ASSUME Record PROVE Stays
    BY <1>9 DEF Batch, Applying, InBatch, Record, Go, request, unit, work
  <1>10. ASSUME InstallFails PROVE Stays
    BY <1>10, ContentAssumption DEF Batch, Applying, InBatch, Updated, InstallFails,
       Drop, Go, ItemFails, Take, request
  <1>11. ASSUME Check PROVE Stays
    BY <1>11, ContentAssumption DEF Typed, RequestOK, Batch, Applying, Restoring,
       InBatch, Check, Drop, Go, Take, request, unit
  <1>12. ASSUME RestoreAside PROVE Stays
    BY <1>12, RollbackLeaves, ContentAssumption DEF Typed, RequestOK, UnitOK, InPhase, OnOne,
       Batch, Applying, Restoring, InBatch, Updated, RestoreAside, Go, request, unit,
       work, disk
  <1>13. ASSUME PutBack PROVE Stays
    BY <1>13, RollbackLeaves, ContentAssumption DEF Typed, RequestOK, UnitOK, InPhase, OnOne,
       Batch, Applying, Restoring, InBatch, Updated, PutBack, Go, request, unit, work,
       disk
  <1>14. ASSUME Relock PROVE Stays
    BY <1>14, RollbackLeaves, ContentAssumption DEF Typed, RequestOK, UnitOK, InPhase, OnOne,
       Batch, Applying, Restoring, InBatch, Updated, Relock, Go, request, unit, work,
       disk
  <1>15. ASSUME Revert PROVE Stays
    BY <1>15, RollbackLeaves, ContentAssumption DEF Typed, RequestOK, UnitOK, InPhase, OnOne,
       Batch, Applying, Restoring, InBatch, Updated, Revert, Go, request, unit, work,
       disk
  <1>16. ASSUME AllApplied PROVE Stays
    BY <1>16 DEF Batch, InBatch, Updated, AllApplied, Go, request, unit
  <1>17. ASSUME CommitFails PROVE Stays
    BY <1>17 DEF Batch, InBatch, Updated, CommitFails, Go, request, unit
  <1> HIDE DEF Stays
  <1>18. Stays
    BY <1>1, <1>2, <1>3, <1>4, <1>5, <1>6, <1>7, <1>8, <1>9, <1>10, <1>11, <1>12,
       <1>13, <1>14, <1>15, <1>16, <1>17 DEF BatchMoves
  <1> QED
    BY <1>18 DEF Stays

\* What is pinned stays where it is pinned.
LEMMA PinsStep ==
    ASSUME Typed, Pins, Next
    PROVE  Pins'
  <1>1. CASE BatchMoves
    BY <1>1, BatchStays DEF Pins, Batch, Applying, Restoring
  <1>2. ASSUME NEW o \in Operations, Load(o) PROVE Pins'
    BY <1>2 DEF Batch, Applying, Restoring, Pins, Load, Go
  <1>3. CASE RemoteFails
    BY <1>3, PinsLeave DEF Pins, RemoteFails
  <1>4. CASE Refused
    BY <1>4, PinsLeave DEF Pins, Refused
  <1>5. ASSUME NEW r \in Releases, NEW R \in SUBSET Skills, NEW c \in ChoicesFor(R),
             PlanUpdate(r, c, R)
      PROVE  Pins'
    BY <1>5, PinsPlanned
  <1>6. ASSUME NEW r \in Releases, NEW R \in SUBSET Skills, NEW c \in ChoicesFor(R), NEW n \in Skills,
             PlanRollback(n, r, c, R)
      PROVE  Pins'
    BY <1>6 DEF Pins, PlanRollback, Plan
  <1>7. ASSUME NEW n \in Skills, Resume(n) PROVE Pins'
    BY <1>7, PinsLeave DEF Pins, PinsOK, Resume
  <1>8. CASE Undone
    BY <1>8, PinsLeave DEF Pins, Undone
  <1>9. CASE Commit
    BY <1>9 DEF Batch, Pins, PinsOK, InBatch, Commit, Go, Updated, request, unit, work
  <1>10. CASE Finalize
    BY <1>10, PinsLeave DEF Pins, Finalize
  <1>11. ASSUME NEW n \in Skills, NEW c \in {"preserve", "discard"},
             PlanRemoval(n, c)
      PROVE  Pins'
    BY <1>11 DEF Batch, Applying, Restoring, Pins, PlanRemoval, Go
  <1>12. CASE Dismiss
    BY <1>12, PinsLeave DEF Batch, Applying, Restoring, Pins, Dismiss, Go, request
  <1>13. CASE StageRemoval
    BY <1>13, PinsLeave DEF Batch, Applying, Restoring, Pins, StageRemoval, Go
  <1>14. CASE UnlockRemoval
    BY <1>14, PinsLeave DEF Batch, Applying, Restoring, Pins, UnlockRemoval, Go,
       request, work
  <1>15. CASE CommitRemoval
    BY <1>15, PinsLeave DEF Typed, RequestOK, Batch, Applying, Restoring, Stores, Pins,
       PinsOK, CommitRemoval, Go, WithRow, request, work
  <1>16. CASE CleanRemoval
    BY <1>16, PinsLeave DEF Pins, CleanRemoval
  <1>17. ASSUME NEW n \in Skills, NEW r \in Releases, PlanInstall(n, r) PROVE Pins'
    BY <1>17 DEF Batch, Applying, Restoring, Pins, PlanInstall, Go
  <1>18. CASE PlaceInstall
    BY <1>18, PinsLeave DEF Batch, Applying, Restoring, Pins, PlaceInstall, Go, request,
       work
  <1>19. CASE EnterInstall
    BY <1>19 DEF Batch, Applying, Restoring, Pins, EnterInstall, Go, request
  <1>20. CASE CommitInstall
    BY <1>20, PinsLeave DEF Typed, RequestOK, Stores, Batch, Applying, Restoring, Pins,
       PinsOK, CommitInstall, WithRow, Go, request, work
  <1>21. ASSUME NEW n \in Skills, ResetSkill(n) PROVE Pins'
    BY <1>21 DEF Pins, InBatch, ResetSkill, request, unit, work
  <1>22. ASSUME NEW n \in Skills, NEW e \in Edits, UserEdit(n, e) PROVE Pins'
    BY <1>22 DEF Pins, InBatch, UserEdit, request, unit, work
  <1>23. CASE Prune
    BY <1>23 DEF Pins, PinsOK, InBatch, Prune, request, unit, work
  <1>24. ASSUME NEW c \in AllCopies, Sweep(c) PROVE Pins'
    BY <1>24 DEF Pins, InBatch, Sweep, request, unit, work
  <1>25. ASSUME NEW c \in AllCopies, Doctor(c) PROVE Pins'
    BY <1>25 DEF Pins, InBatch, Doctor, request, unit, work
  <1>26. CASE Crash
    BY <1>26, PinsLeave DEF Pins, Crash
  <1>27. CASE TakeBack
    BY <1>27, PinsLeave DEF Pins, TakeBack
  <1>28. CASE InstallAborts
    BY <1>28, PinsLeave DEF Batch, Applying, Restoring, Pins, InstallAborts, Go, request
  <1> QED
    BY <1>1, <1>2, <1>3, <1>4, <1>5, <1>6, <1>7, <1>8, <1>9, <1>10, <1>11, <1>12,
       <1>13, <1>14, <1>15, <1>16, <1>17, <1>18, <1>19, <1>20, <1>21, <1>22, <1>23,
       <1>24, <1>25, <1>26, <1>27, <1>28 DEF Next, Working, Resetting, BatchMoves
-----------------------------------------------------------------------------
\* An operation that is over does nothing twice ...
LEMMA UnrepeatedLeave ==
    ASSUME Leave
    PROVE  Unrepeated'
  BY DEF Leave, Drop, Take, Unrepeated, Batch, Applying, Restoring

\* ... and nobody reads its store.
LEMMA BookedLeave ==
    ASSUME Leave, \A n \in resets' : store'.rows[n] = Absent
    PROVE  Booked'
  BY DEF Leave, Drop, Take, Booked, Batch, Applying, Restoring, Removing, Installing

\* How the rollback of a Skill goes on, and how it ends.
Proceeds == /\ phase \in Restoring \cup {"revert"} /\ phase' \in Restoring
            /\ UNCHANGED <<op, target, draft, store, todo, receipts, at, old, after, resets, clean>>
Stops(ok) == /\ phase \in Restoring \cup {"revert"} /\ RollbackEnds(ok)
             /\ UNCHANGED <<op, target, draft, store, resets>>

\* A rollback that goes on to its next call repeats nothing ...
LEMMA UnrepeatedProceeds ==
    ASSUME Typed, Unrepeated, Proceeds
    PROVE  Unrepeated'
  BY DEF Unrepeated, Proceeds, InBatch, Updated, Batch, Applying, Restoring

\* ... and neither does one that ends, for the Skill or for the batch.
LEMMA UnrepeatedStops ==
    ASSUME Typed, Unrepeated, NEW ok \in BOOLEAN, Stops(ok)
    PROVE  Unrepeated'
  <1>1. CASE after = "apply"
    BY <1>1, ContentAssumption DEF Typed, InPhase, RequestOK, Unrepeated, Stops, RollbackEnds, ItemFails, Drop, Take, Go, InBatch, Batch, Restoring, Updated
  <1>2. CASE after = "verify"
    <2>1. /\ phase' \in {"verify", "undo"} /\ after' = "none" /\ at' = Absent /\ phase \in Batch
          /\ \A n \in Skills : InBatch(n)' => InBatch(n)
      BY <1>2, RollbackLeaves, ContentAssumption DEF Stops, InBatch, Batch, RollbackEnds, Drop, Take, Go
    <2>2. todo' \subseteq Updated'
      BY <1>2, RollbackLeaves DEF Unrepeated, Stops, Updated, Typed, RequestOK
    <2> QED
      BY <2>1, <2>2 DEF Unrepeated, Stops
  <1>3. CASE after = "undo"
    BY <1>3, ContentAssumption DEF Typed, InPhase, RequestOK, Unrepeated, Stops, RollbackEnds, Drop, Take, Go, InBatch, Batch, Restoring, Updated
  <1> QED
    BY <1>1, <1>2, <1>3 DEF Stops, Typed, InPhase

\* A rollback that goes on leaves the rows what the others were found with ...
LEMMA BookedProceeds ==
    ASSUME Typed, Booked, Proceeds, \A n \in Skills \ {at} : canon'[n] = canon[n], lock' = lock
    PROVE  Booked'
  BY DEF Booked, Proceeds, InBatch, Brought, Batch, Applying, Restoring, Removing, Installing

\* ... and so does one that ends.
LEMMA BookedStops ==
    ASSUME Typed, Unrepeated, Booked, NEW ok \in BOOLEAN, Stops(ok),
           \A n \in Skills \ {at} : canon'[n] = canon[n] /\ lock'[n] = lock[n]
    PROVE  Booked'
  <1>1. CASE after = "apply"
    BY <1>1, ContentAssumption DEF Typed, InPhase, RequestOK, Unrepeated, Booked, Brought, Stops, RollbackEnds, ItemFails, Drop, Take, Go, InBatch, Batch, Restoring, Applying, Removing, Installing, Updated
  <1>2. CASE after = "verify"
    <2>1. /\ phase' \in {"verify", "undo"} /\ after' = "none" /\ at' = Absent /\ phase \in Batch
          /\ \A n \in Skills : InBatch(n)' => InBatch(n)
      BY <1>2, RollbackLeaves, ContentAssumption DEF Stops, InBatch, Batch, RollbackEnds, Drop, Take, Go
    <2>2. phase' = "verify" => \A n \in Skills : receipts'[n] # Absent => receipts[n] # Absent /\ n # at
      BY <1>2, RollbackLeaves DEF Stops, Typed, RequestOK
    <2> QED
      BY <1>2, <2>1, <2>2 DEF Unrepeated, Booked, Brought, Stops, Batch, Applying, Restoring, Removing, Installing
  <1>3. CASE after = "undo"
    BY <1>3, ContentAssumption DEF Typed, InPhase, RequestOK, Unrepeated, Booked, Brought, Stops, RollbackEnds, Drop, Take, Go, InBatch, Batch, Restoring, Applying, Removing, Installing, Updated
  <1> QED
    BY <1>1, <1>2, <1>3 DEF Stops, Typed, InPhase

\* Putting the folder set aside back: either it is in place again, or the rollback ends incomplete ...
LEMMA AsideEffect ==
    ASSUME Typed, RestoreAside
    PROVE  /\ \/ Proceeds /\ (phase' = "relock" => canon'[at] = old)
              \/ Stops(FALSE) /\ clean' = FALSE
           /\ \A n \in Skills \ {at} : canon'[n] = canon[n]
           /\ lock' = lock
  BY DEF RestoreAside, Proceeds, Stops, Restoring, Go, request, Typed, WorldOK

\* ... the same of a folder copied back from the retained content ...
LEMMA BackEffect ==
    ASSUME Typed, PutBack
    PROVE  /\ \/ Proceeds /\ (phase' = "relock" => canon'[at] = old)
              \/ Stops(FALSE) /\ clean' = FALSE
           /\ \A n \in Skills \ {at} : canon'[n] = canon[n]
           /\ lock' = lock
  <1>1. /\ \A n \in Skills \ {at} : canon'[n] = canon[n]
        /\ lock' = lock
    BY DEF PutBack, Typed, WorldOK
  <1>2. \/ canon' = [canon EXCEPT ![at] = old] /\ Proceeds
        \/ Stops(FALSE) /\ clean' = FALSE
    BY DEF PutBack, Proceeds, Stops, Restoring, Go, request, unit
  <1>3. canon' = [canon EXCEPT ![at] = old] => canon'[at] = old
    BY DEF PutBack, Typed, WorldOK, InPhase, OnOne, Restoring
  <1> QED
    BY <1>1, <1>2, <1>3

\* ... the entry put back ends the rollback ...
LEMMA RelockEffect ==
    ASSUME Typed, Relock
    PROVE  /\ \E ok \in BOOLEAN : Stops(ok)
           /\ \A n \in Skills \ {at} : canon'[n] = canon[n] /\ lock'[n] = lock[n]
  <1>1. /\ Stops(TRUE) \/ Stops(FALSE)
        /\ \A n \in Skills \ {at} : canon'[n] = canon[n] /\ lock'[n] = lock[n]
    BY DEF Relock, Stops, Restoring, request, Typed, WorldOK
  <1> QED
    BY <1>1

\* ... and a Skill to be reverted is moved aside first.
LEMMA RevertEffect ==
    ASSUME Typed, Revert
    PROVE  /\ \/ Proceeds /\ phase' # "relock"
              \/ Stops(FALSE) /\ clean' = FALSE
           /\ canon' = canon /\ lock' = lock
  BY DEF Revert, Proceeds, Stops, Restoring, Go, request, unit, Typed, WorldOK

\* No Skill is done twice.
LEMMA UnrepeatedStep ==
    ASSUME Typed, Unrepeated, Next
    PROVE  Unrepeated'
  <1>1. ASSUME NEW o \in Operations, Load(o) PROVE Unrepeated'
    BY <1>1 DEF Batch, Applying, Restoring, Updated, Unrepeated, Load, Go, unit
  <1>2. CASE RemoteFails
    BY <1>2, UnrepeatedLeave DEF RemoteFails
  <1>3. CASE Refused
    BY <1>3, UnrepeatedLeave DEF Refused
  <1>4. ASSUME NEW r \in Releases, NEW R \in SUBSET Skills, NEW c \in ChoicesFor(R),
             PlanUpdate(r, c, R)
      PROVE  Unrepeated'
    BY <1>4 DEF Typed, InPhase, Batch, Applying, Restoring, Nobody, Unrepeated, PlanUpdate,
       Plan, Go, unit
  <1>5. ASSUME NEW r \in Releases, NEW R \in SUBSET Skills, NEW c \in ChoicesFor(R), NEW n \in Skills,
             PlanRollback(n, r, c, R)
      PROVE  Unrepeated'
    BY <1>5, ContentAssumption DEF Typed, InPhase, OnOne, Batch, Applying, Restoring,
       Removing, Installing, InBatch, Nobody, Unrepeated, PlanRollback, Plan, Go, unit
  <1>6. ASSUME NEW n \in Skills, Fetch(n) PROVE Unrepeated'
    BY <1>6 DEF Batch, InBatch, Unrepeated, Fetch, Drop, Go, Take
  <1>7. ASSUME NEW n \in Skills, Verify(n) PROVE Unrepeated'
    BY <1>7 DEF Batch, InBatch, Updated, Unrepeated, Verify, Go, Take, unit
  <1>8. ASSUME NEW n \in Skills, Undo(n) PROVE Unrepeated'
    BY <1>8 DEF Batch, InBatch, Updated, Unrepeated, Undo, Go, Take
  <1>9. ASSUME NEW n \in Skills, Resume(n) PROVE Unrepeated'
    BY <1>9, UnrepeatedLeave DEF Resume
  <1>10. CASE FetchFails
    BY <1>10 DEF Typed, InPhase, Applying, InBatch, Updated, Nobody, Unrepeated, FetchFails,
       Drop, Go, ItemFails, Take
  <1>11. CASE KeepLocal
    BY <1>11 DEF Typed, InPhase, Applying, InBatch, Updated, Nobody, Unrepeated, KeepLocal,
       Drop, Go, ItemFails, Take, unit
  <1>12. CASE Retain
    BY <1>12 DEF Typed, InPhase, Applying, InBatch, Updated, Nobody, Unrepeated, Retain, Drop,
       Go, ItemFails, Take
  <1>13. CASE SwapAside
    BY <1>13 DEF Batch, Applying, InBatch, Updated, Unrepeated, SwapAside, Go
  <1>14. CASE Place
    BY <1>14 DEF Batch, Applying, InBatch, Updated, Unrepeated, Place, Go, unit, work
  <1>15. CASE Record
    BY <1>15 DEF Batch, Applying, InBatch, Updated, Unrepeated, Record, Go, unit, work
  <1>16. CASE InstallFails
    BY <1>16 DEF Typed, InPhase, Applying, InBatch, Updated, Nobody, Unrepeated, InstallFails,
       Drop, Go, ItemFails, Take
  <1>17. CASE Check
    BY <1>17, ContentAssumption DEF Typed, RequestOK, InPhase, Applying, InBatch,
       Nobody, Unrepeated, Check, Drop, Go, Take, unit
  <1>18. CASE RestoreAside
    BY <1>18, AsideEffect, UnrepeatedProceeds, UnrepeatedStops
  <1>19. CASE PutBack
    BY <1>19, BackEffect, UnrepeatedProceeds, UnrepeatedStops
  <1>20. CASE Relock
    BY <1>20, RelockEffect, UnrepeatedProceeds, UnrepeatedStops
  <1>21. CASE Revert
    BY <1>21, RevertEffect, UnrepeatedProceeds, UnrepeatedStops
  <1>22. CASE Undone
    BY <1>22, UnrepeatedLeave DEF Undone
  <1>23. CASE AllApplied
    BY <1>23 DEF Typed, InPhase, Applying, Restoring, InBatch, Updated, Nobody, Unrepeated,
       AllApplied, Go, unit
  <1>24. CASE CommitFails
    BY <1>24 DEF Typed, InPhase, Applying, Restoring, InBatch, Updated, Nobody, Unrepeated,
       CommitFails, Go, unit
  <1>25. CASE Commit
    BY <1>25 DEF Batch, InBatch, Unrepeated, Commit, unit, work
  <1>26. CASE Finalize
    BY <1>26, UnrepeatedLeave DEF Finalize
  <1>27. ASSUME NEW n \in Skills, NEW c \in {"preserve", "discard"},
             PlanRemoval(n, c)
      PROVE  Unrepeated'
    BY <1>27 DEF Unrepeated, PlanRemoval, Go, Take
  <1>28. CASE Dismiss
    BY <1>28, UnrepeatedLeave DEF Batch, Applying, Restoring, Updated, Unrepeated, Dismiss, Go
  <1>29. CASE StageRemoval
    BY <1>29, UnrepeatedLeave DEF Batch, Applying, Restoring, Updated, Unrepeated, StageRemoval, Go
  <1>30. CASE UnlockRemoval
    BY <1>30, UnrepeatedLeave DEF Batch, Applying, Restoring, Updated, Unrepeated, UnlockRemoval,
       Go, unit, work
  <1>31. CASE CommitRemoval
    BY <1>31, UnrepeatedLeave DEF Batch, Applying, Restoring, Updated, Unrepeated, CommitRemoval,
       Go, unit, work
  <1>32. CASE CleanRemoval
    BY <1>32, UnrepeatedLeave DEF CleanRemoval
  <1>33. ASSUME NEW n \in Skills, NEW r \in Releases, PlanInstall(n, r) PROVE Unrepeated'
    BY <1>33 DEF Unrepeated, PlanInstall, Go, Take
  <1>34. CASE PlaceInstall
    BY <1>34, UnrepeatedLeave DEF Batch, Applying, Restoring, Updated, Unrepeated, PlaceInstall, Go,
       unit, work
  <1>35. CASE EnterInstall
    BY <1>35 DEF Batch, Applying, Restoring, Updated, Unrepeated, EnterInstall, Go, unit
  <1>36. CASE CommitInstall
    BY <1>36, UnrepeatedLeave DEF Batch, Applying, Restoring, Updated, Unrepeated,
       CommitInstall, Go, unit, work
  <1>37. ASSUME NEW n \in Skills, ResetSkill(n) PROVE Unrepeated'
    BY <1>37 DEF InBatch, Updated, Unrepeated, ResetSkill, unit, work
  <1>38. ASSUME NEW n \in Skills, NEW e \in Edits, UserEdit(n, e) PROVE Unrepeated'
    BY <1>38 DEF InBatch, Updated, Unrepeated, UserEdit, unit, work
  <1>39. CASE Prune
    BY <1>39 DEF InBatch, Updated, Unrepeated, Prune, unit, work
  <1>40. ASSUME NEW c \in AllCopies, Sweep(c) PROVE Unrepeated'
    BY <1>40 DEF InBatch, Updated, Unrepeated, Sweep, unit, work
  <1>41. ASSUME NEW c \in AllCopies, Doctor(c) PROVE Unrepeated'
    BY <1>41 DEF InBatch, Updated, Unrepeated, Doctor, unit, work
  <1>42. CASE Crash
    BY <1>42, UnrepeatedLeave DEF Crash
  <1>43. CASE TakeBack
    BY <1>43, UnrepeatedLeave DEF TakeBack
  <1>44. CASE InstallAborts
    BY <1>44, UnrepeatedLeave DEF Batch, Applying, Restoring, Updated, Unrepeated,
       InstallAborts, Go, unit
  <1> QED
    BY <1>1, <1>2, <1>3, <1>4, <1>5, <1>6, <1>7, <1>8, <1>9, <1>10, <1>11, <1>12,
       <1>13, <1>14, <1>15, <1>16, <1>17, <1>18, <1>19, <1>20, <1>21, <1>22, <1>23,
       <1>24, <1>25, <1>26, <1>27, <1>28, <1>29, <1>30, <1>31, <1>32, <1>33, <1>34,
       <1>35, <1>36, <1>37, <1>38, <1>39, <1>40, <1>41, <1>42, <1>43, <1>44
       DEF Next, Working, Resetting

\* The store keeps describing what the operation found.
LEMMA BookedStep ==
    ASSUME Typed, Unrepeated, Booked, "reset_race" \notin Hazards, Next
    PROVE  Booked'
  <1>1. ASSUME NEW o \in Operations, Load(o) PROVE Booked'
    BY <1>1 DEF Batch, Applying, Restoring, Removing, Installing, Booked, Load, Go
  <1>2. CASE RemoteFails
    BY <1>2, BookedLeave DEF Typed, InPhase, Booked, RemoteFails
  <1>3. CASE Refused
    BY <1>3, BookedLeave DEF Booked, Refused
  <1>4. ASSUME NEW r \in Releases, NEW R \in SUBSET Skills, NEW c \in ChoicesFor(R),
             PlanUpdate(r, c, R)
      PROVE  Booked'
    BY <1>4, ContentAssumption DEF Typed, InPhase, OnOne, Batch, Applying, Restoring,
       Removing, Installing, InBatch, Nobody, Booked, PlanUpdate, Plan, Go, unit
  <1>5. ASSUME NEW r \in Releases, NEW R \in SUBSET Skills, NEW c \in ChoicesFor(R), NEW n \in Skills,
             PlanRollback(n, r, c, R)
      PROVE  Booked'
    BY <1>5, ContentAssumption DEF Typed, InPhase, OnOne, Batch, Removing, Installing,
       InBatch, Nobody, Booked, Unrepeated, PlanRollback, Plan, Go, unit
  <1>6. ASSUME NEW n \in Skills, Fetch(n) PROVE Booked'
    BY <1>6, ContentAssumption DEF Typed, InPhase, OnOne, Removing, Installing, InBatch,
       Updated, Booked, Unrepeated, Brought, Fetch, Drop, Go, Take, disk, request
  <1>7. ASSUME NEW n \in Skills, Verify(n) PROVE Booked'
    BY <1>7, ContentAssumption DEF Typed, InPhase, OnOne, Restoring, Removing,
       Installing, InBatch, Booked, Unrepeated, Brought, Verify, Go, Take, disk, request, unit
  <1>8. ASSUME NEW n \in Skills, Undo(n) PROVE Booked'
    BY <1>8 DEF Batch, Installing, InBatch, Booked, Undo, Go, Take, request
  <1>9. ASSUME NEW n \in Skills, Resume(n) PROVE Booked'
    BY <1>9, BookedLeave DEF Booked, Resume
  <1>10. CASE FetchFails
    BY <1>10, ContentAssumption DEF Typed, InPhase, Applying, Removing, Installing,
       InBatch, Updated, Nobody, Booked, Unrepeated, Brought, FetchFails, Drop, Go, ItemFails,
       Take, disk, request
  <1>11. CASE KeepLocal
    BY <1>11, ContentAssumption DEF Typed, InPhase, Applying, Removing, Installing,
       InBatch, Updated, Nobody, Booked, Unrepeated, Brought, KeepLocal, Drop, Go, ItemFails,
       Replaceable, Take, request, unit
  <1>12. CASE Retain
    BY <1>12, ContentAssumption DEF Typed, InPhase, Batch, Applying, Removing,
       Installing, InBatch, Updated, Booked, Unrepeated, Brought, Retain, Drop, Go, ItemFails,
       Take, request
  <1>13. CASE SwapAside
    BY <1>13 DEF Batch, Applying, Removing, Installing, InBatch, Booked, Brought,
       SwapAside, Go, request
  <1>14. CASE Place
    BY <1>14 DEF Typed, WorldOK, InPhase, OnOne, Batch, Applying, Installing, InBatch,
       Booked, Brought, Place, Go, request, unit, work
  <1>15. CASE Record
    BY <1>15 DEF Typed, WorldOK, InPhase, OnOne, Batch, Applying, Installing, InBatch,
       Booked, Brought, Record, Go, request, unit, work
  <1>16. CASE InstallFails
    BY <1>16, ContentAssumption DEF Typed, WorldOK, InPhase, Applying, Removing,
       Installing, InBatch, Updated, Nobody, Booked, Unrepeated, Brought, InstallFails, Drop,
       Go, ItemFails, Take, request
  <1>17. CASE Check
    BY <1>17, ContentAssumption DEF Typed, RequestOK, InPhase, Batch, Applying,
       Removing, Installing, InBatch, Booked, Brought, Check, Drop, Go, Take, disk,
       request, unit
  <1>18. CASE RestoreAside
    BY <1>18, AsideEffect, BookedProceeds, BookedStops
  <1>19. CASE PutBack
    BY <1>19, BackEffect, BookedProceeds, BookedStops
  <1>20. CASE Relock
    BY <1>20, RelockEffect, BookedProceeds, BookedStops
  <1>21. CASE Revert
    BY <1>21, RevertEffect, BookedProceeds, BookedStops
  <1>22. CASE Undone
    BY <1>22, BookedLeave DEF Typed, InPhase, Booked, Undone
  <1>23. CASE AllApplied
    BY <1>23 DEF Batch, Removing, Installing, InBatch, Updated, Booked, Brought,
       AllApplied, Go, disk, request, unit
  <1>24. CASE CommitFails
    BY <1>24 DEF Batch, Removing, Installing, InBatch, Updated, Booked, CommitFails, Go,
       request, unit
  <1>25. CASE Commit
    BY <1>25 DEF Typed, WorldOK, InPhase, Batch, Applying, Restoring, Removing,
       Installing, InBatch, Updated, Booked, Commit, Go
  <1>26. CASE Finalize
    BY <1>26, BookedLeave DEF Booked, Finalize
  <1>27. ASSUME NEW n \in Skills, NEW c \in {"preserve", "discard"},
             PlanRemoval(n, c)
      PROVE  Booked'
    BY <1>27 DEF Batch, Applying, Restoring, Installing, Booked, PlanRemoval, Go, Take
  <1>28. CASE Dismiss
    BY <1>28, BookedLeave DEF Batch, Applying, Restoring, Removing, Installing, Booked,
       Dismiss, Go, request
  <1>29. CASE StageRemoval
    BY <1>29, BookedLeave DEF Batch, Applying, Restoring, Removing, Installing, Booked,
       StageRemoval, Go
  <1>30. CASE UnlockRemoval
    BY <1>30, BookedLeave DEF Typed, WorldOK, InPhase, OnOne, Removing, Installing,
       InBatch, Nobody, Booked, Brought, UnlockRemoval, Go, request, unit, work
  <1>31. CASE CommitRemoval
    BY <1>31, BookedLeave DEF Typed, InPhase, Batch, Applying, Restoring, Installing,
       Held, Booked, CommitRemoval, Go
  <1>32. CASE CleanRemoval
    BY <1>32, BookedLeave DEF Booked, CleanRemoval
  <1>33. ASSUME NEW n \in Skills, NEW r \in Releases, PlanInstall(n, r) PROVE Booked'
    BY <1>33 DEF Batch, Applying, Restoring, Removing, Booked, PlanInstall, Go, Take
  <1>34. CASE PlaceInstall
    BY <1>34, BookedLeave DEF Batch, Applying, Restoring, Removing, Installing, Booked,
       PlaceInstall, Go, TransactionFree, request, unit, work
  <1>35. CASE EnterInstall
    BY <1>35 DEF Batch, Applying, Restoring, Removing, Installing, Booked, EnterInstall,
       Go, request, unit
  <1>36. CASE CommitInstall
    <2>1. CASE Leave
      BY <1>36, <2>1, BookedLeave DEF CommitInstall, TransactionFree
    <2>2. CASE phase' = "take_back"
      BY <1>36, <2>2 DEF Batch, Applying, Restoring, Removing, Installing, Booked,
         CommitInstall, Leave, TransactionFree, disk, request, unit, work
    <2> QED
      BY <1>36, <2>1, <2>2 DEF CommitInstall, Go
  <1>37. ASSUME NEW n \in Skills, ResetSkill(n) PROVE Booked'
    BY <1>37 DEF Typed, WorldOK, InPhase, Held, InBatch, Booked, Brought, ResetSkill,
       Removed, request, unit, work
  <1>38. ASSUME NEW n \in Skills, NEW e \in Edits, UserEdit(n, e) PROVE Booked'
    BY <1>38 DEF Typed, WorldOK, InBatch, Booked, Brought, UserEdit, request, unit, work
  <1>39. CASE Prune
    BY <1>39 DEF Typed, InPhase, Batch, Applying, Restoring, Removing, Installing,
       Booked, Prune
  <1>40. ASSUME NEW c \in AllCopies, Sweep(c) PROVE Booked'
    BY <1>40 DEF InBatch, Booked, Brought, Sweep, request, unit, work
  <1>41. ASSUME NEW c \in AllCopies, Doctor(c) PROVE Booked'
    BY <1>41, ContentAssumption DEF Typed, InPhase, Held, InBatch, Booked, Brought,
       Doctor, TransactionFree, request, unit, work
  <1>42. CASE Crash
    BY <1>42, BookedLeave DEF Crash
  <1>43. CASE TakeBack
    BY <1>43, BookedLeave DEF Typed, InPhase, Held, Booked, TakeBack
  <1>44. CASE InstallAborts
    <2>1. CASE Leave
      BY <1>44, <2>1, BookedLeave DEF Booked, InstallAborts, TransactionFree
    <2>2. CASE phase' = "take_back"
      BY <1>44, <2>2 DEF Batch, Applying, Restoring, Removing, Installing, Booked,
         InstallAborts, Leave, TransactionFree, disk, request, unit
    <2> QED
      BY <1>44, <2>1, <2>2 DEF InstallAborts, Go
  <1> QED
    BY <1>1, <1>2, <1>3, <1>4, <1>5, <1>6, <1>7, <1>8, <1>9, <1>10, <1>11, <1>12,
       <1>13, <1>14, <1>15, <1>16, <1>17, <1>18, <1>19, <1>20, <1>21, <1>22, <1>23,
       <1>24, <1>25, <1>26, <1>27, <1>28, <1>29, <1>30, <1>31, <1>32, <1>33, <1>34,
       <1>35, <1>36, <1>37, <1>38, <1>39, <1>40, <1>41, <1>42, <1>43, <1>44
       DEF Next, Working, Resetting
-----------------------------------------------------------------------------
\* An install that fails and is put back in full leaves records and folder agreed.
LEMMA PutBackInFull ==
    ASSUME Typed, Unrepeated, Booked, Agreed, InstallFails
    PROVE  Agreed'
  <1>1. SUFFICES ASSUME clean' PROVE Agreed'
    BY DEF Agreed, Installing
  <1>2. /\ clean /\ at \in Skills /\ phase \in {"swap", "place", "record"}
        /\ canon' = IF phase = "swap" THEN canon ELSE [canon EXCEPT ![at] = aside]
        /\ ItemFails(FALSE)
        /\ UNCHANGED <<lock, store, op, target, receipts, resets>>
    BY <1>1 DEF InstallFails, Typed, InPhase, OnOne, Applying, HistoryOK, request
  <1>3. /\ lock[at] = store.rows[at] /\ receipts[at] = Absent /\ resets = {}
        /\ phase # "swap" => Fits(at, aside)
    BY <1>2 DEF Agreed, Booked, Unrepeated, Typed, InPhase, Applying, Held, Installing
  <1>4. \A n \in Skills : n # at => canon'[n] = canon[n]
    BY <1>2 DEF Typed, WorldOK
  <1>5. \A n \in Skills : n = at => Agree(n)'
    <2>1. CASE phase = "swap"
      BY <1>2, <1>3, <2>1 DEF Agreed, Busy, Agree, Fits, Restoring, Installing
    <2>2. CASE phase # "swap"
      BY <1>2, <1>3, <2>2 DEF Agree, Fits, Typed, WorldOK
    <2> QED
      BY <2>1, <2>2
  <1>6. /\ phase' \in {"apply", "undo"} /\ after' = "none" /\ at' = Absent
        /\ phase' = "undo" => todo' = Updated
    BY <1>2 DEF ItemFails, Drop, Take, Go
  <1>7. \A n \in Skills : Agree(n)' \/ Busy(n)'
    <2> SUFFICES ASSUME NEW n \in Skills PROVE Agree(n)' \/ Busy(n)'
      OBVIOUS
    <2>1. CASE n = at
      BY <1>5, <2>1 DEF Agree, Fits
    <2>2. CASE n # at /\ Agree(n)
      BY <1>2, <1>4, <2>2 DEF Agree, Fits
    <2>3. CASE n # at /\ Busy(n)
      BY <1>2, <1>6, <2>3 DEF Busy, Batch, Updated
    <2> QED
      BY <1>2, <1>3, <2>1, <2>2, <2>3 DEF Agreed, Installing
  <1> QED
    BY <1>2, <1>6, <1>7 DEF Agreed, Batch, Applying, Restoring, Fits, Installing

\* A rollback that goes on, or ends with the Skill as it was or unclean.
LEMMA AgreedProceeds ==
    ASSUME Typed, Booked, Agreed, Proceeds, lock' = lock,
           \A n \in Skills \ {at} : canon'[n] = canon[n],
           phase' = "relock" => canon'[at] = old
    PROVE  Agreed'
  BY DEF Typed, InPhase, Agreed, Proceeds, Agree, Busy, Fits, Batch, Applying, Restoring, Installing

\* A rollback that ends, in full or reported incomplete, leaves them so.
LEMMA AgreedStops ==
    ASSUME Typed, Unrepeated, Booked, Agreed, NEW ok \in BOOLEAN, Stops(ok),
           \A n \in Skills \ {at} : canon'[n] = canon[n] /\ lock'[n] = lock[n],
           clean' => clean /\ phase = "relock" /\ canon'[at] = canon[at] /\ lock'[at] = draft.rows[at]
    PROVE  Agreed'
  <1> SUFFICES ASSUME clean' PROVE Agreed'
    BY DEF Agreed, Installing
  <1>1. /\ clean /\ phase = "relock" /\ at \in Skills /\ op # "none"
        /\ Fits(at, canon'[at]) /\ lock'[at] = store.rows[at]
        /\ UNCHANGED <<store, resets>>
    BY DEF Agreed, Booked, Typed, InPhase, OnOne, Restoring, Stops, Installing
  <1>2. \A n \in Skills : n = at => Agree(n)'
    BY <1>1 DEF Agree, Fits
  <1>3. /\ at' = Absent /\ after' = "none" /\ phase' \in {"apply", "verify", "undo"}
        /\ phase' = "undo" /\ after # "undo" => todo' = Updated /\ receipts' = receipts
        /\ after = "undo" => phase' = "undo" /\ todo' = todo
        /\ \/ receipts' = receipts
           \/ receipts' = [receipts EXCEPT ![at] = Absent]
    BY RollbackLeaves DEF Stops
  <1>4. \A n \in Skills : receipts'[n] # Absent => receipts'[n] = receipts[n]
    BY <1>3 DEF Typed, RequestOK
  <1>5. \A n \in Skills : n # at => receipts'[n] = receipts[n]
    BY <1>3 DEF Typed, RequestOK
  <1>6. ASSUME NEW n \in Skills, n \notin resets PROVE Agree(n)' \/ Busy(n)'
    <2>1. CASE n = at
      BY <1>2, <2>1
    <2>2. CASE n # at /\ Agree(n)
      BY <1>1, <2>2 DEF Agree, Fits
    <2>3. CASE n # at /\ Busy(n)
      BY <1>1, <1>3, <1>5, <2>3 DEF Busy, Batch, Updated
    <2> QED
      BY <1>1, <1>6, <2>1, <2>2, <2>3 DEF Agreed, Installing
  <1> QED
    BY <1>1, <1>3, <1>4, <1>6 DEF Agreed, Batch, Applying, Restoring, Fits, Installing

\* So every step of a rollback does ...
LEMMA RollbackAgrees ==
    ASSUME Typed, Unrepeated, Booked, Agreed, RestoreAside \/ PutBack \/ Revert \/ Relock
    PROVE  Agreed'
  <1>1. CASE RestoreAside
    BY <1>1, AsideEffect, AgreedProceeds, AgreedStops
  <1>2. CASE PutBack
    BY <1>2, BackEffect, AgreedProceeds, AgreedStops
  <1>3. CASE Revert
    BY <1>3, RevertEffect, AgreedProceeds, AgreedStops
  <1>4. CASE Relock
    <2>1. PICK ok \in BOOLEAN : Stops(ok)
      BY <1>4, RelockEffect
    <2>2. at \in Skills /\ clean \in BOOLEAN
      BY <1>4 DEF Relock, Typed, InPhase, OnOne, Restoring, HistoryOK
    <2>3. clean' => clean /\ phase = "relock" /\ canon'[at] = canon[at] /\ lock'[at] = draft.rows[at]
      BY <1>4, <2>2 DEF Relock, Typed, WorldOK
    <2> QED
      BY <1>4, <2>1, <2>3, RelockEffect, AgreedStops
  <1> QED
    BY <1>1, <1>2, <1>3, <1>4

\* ... of a removal, whose row is the last to go ...
LEMMA RemovalAgrees ==
    ASSUME Typed, Unrepeated, Booked, Agreed, UnlockRemoval \/ CommitRemoval
    PROVE  Agreed'
  <1> SUFFICES ASSUME clean' PROVE Agreed'
    BY DEF Agreed, Installing
  <1>1. /\ at \in Skills /\ phase \in {"unlock", "commit"} /\ clean /\ Fits(at, old)
        /\ resets = {} /\ resets' = resets /\ receipts = Nobody /\ draft = store
        /\ phase = "unlock" => lock[at] = store.rows[at]
        /\ target = store.rows[at] /\ (phase = "commit" => lock[at] = Absent)
        /\ \A n \in Skills \ {at} : Agree(n)
    BY DEF UnlockRemoval, CommitRemoval, Typed, InPhase, OnOne, Removing, Held, Batch, Applying, Restoring, Agreed, Booked, HistoryOK, Busy, Nobody, history, Installing
  <1>2. CASE UnlockRemoval /\ phase' = "commit"
    <2>1. /\ lock' = [lock EXCEPT ![at] = Absent] /\ phase = "unlock"
          /\ UNCHANGED <<canon, store, op, work, clean>>
      BY <1>2 DEF UnlockRemoval, Leave
    <2>2. /\ lock'[at] = Absent /\ at' = at /\ old' = old /\ target' = target
          /\ receipts' = Nobody /\ canon' = canon /\ store' = store
          /\ \A n \in Skills \ {at} : lock'[n] = lock[n]
      BY <1>1, <2>1 DEF work, unit, request, Typed, WorldOK
    <2>3. \A n \in Skills : n = at => Busy(n)'
      BY <1>2, <2>2 DEF Busy
    <2>4. \A n \in Skills \ {at} : Agree(n)'
      BY <1>1, <2>2 DEF Agree, Fits
    <2> QED
      BY <1>1, <1>2, <2>2, <2>3, <2>4 DEF Agreed, Fits, Nobody, Batch, Applying, Restoring, Installing
  <1>3. CASE CommitRemoval /\ phase' = "cleanup"
    <2>1. /\ store' = WithRow(draft, at, Absent) /\ phase = "commit"
          /\ UNCHANGED <<canon, lock, op, work, clean>>
      BY <1>3 DEF CommitRemoval, Leave, disk
    <2> QED
      BY <1>1, <1>3, <2>1 DEF work, unit, request, Agreed, Agree, Fits, WithRow, Nobody, Typed, WorldOK, RequestOK, Stores, Batch, Applying, Restoring, Installing
  <1>4. CASE Leave
    <2>1. /\ canon' = [canon EXCEPT ![at] = old] /\ store' = store
          /\ \/ phase = "unlock" /\ lock' = lock
             \/ phase = "commit" /\ lock' = [lock EXCEPT ![at] = target]
      BY <1>1, <1>4 DEF UnlockRemoval, CommitRemoval, Unstaged, Leave, Go
    <2>2. \A n \in Skills : Agree(n)'
      BY <1>1, <2>1 DEF Agree, Fits, Typed, WorldOK
    <2> QED
      BY <1>1, <1>4, <2>1, <2>2 DEF Agreed, Leave, Nobody, Batch, Applying, Restoring, Installing
  <1> QED
    BY <1>2, <1>3, <1>4 DEF UnlockRemoval, CommitRemoval, Go

\* ... of an install that was interrupted and is taken up again ...
LEMMA InstallAgrees ==
    ASSUME Typed, Unrepeated, Booked, Agreed,
           EnterInstall \/ TakeBack \/ InstallAborts \/ CommitInstall
    PROVE  Agreed'
  <1> SUFFICES ASSUME clean' PROVE Agreed'
    BY DEF Agreed, Installing
  <1>1. /\ at \in Skills /\ phase \in {"entry", "added", "take_back"} /\ clean \in BOOLEAN
        /\ resets = {} /\ resets' = resets /\ receipts = Nobody /\ draft = store
        /\ store.rows[at] = Absent
    BY DEF EnterInstall, TakeBack, InstallAborts, CommitInstall, TransactionFree, Typed,
       InPhase, OnOne, Installing, Held, Batch, Applying, Restoring, Booked, HistoryOK, Nobody
  <1>2. clean
    BY <1>1 DEF EnterInstall, TakeBack, InstallAborts, CommitInstall, history
  <1>3. /\ \A n \in Skills \ {at} : Agree(n)
        /\ old = Absent
    BY <1>1, <1>2 DEF Agreed, Busy, Nobody, Restoring, Installing
  <1>4. CASE phase' \in {"added", "take_back"}
    <2>1. /\ lock' \in {lock, [lock EXCEPT ![at] = target]}
          /\ UNCHANGED <<canon, store, op, unit, receipts>>
      BY <1>4 DEF EnterInstall, TakeBack, InstallAborts, CommitInstall, Leave, disk, work
    <2> QED
      BY <1>1, <1>3, <1>4, <2>1 DEF unit, Agreed, Agree, Fits, Busy, Nobody, Typed,
         WorldOK, Batch, Applying, Restoring, Installing
  <1>5. CASE Leave
    <2>a. \/ Removed(at) /\ store' = store
          \/ Exact(at) /\ store' = WithRow(store, at, target) /\ UNCHANGED <<canon, lock>>
          \/ lock[at] = Absent /\ UNCHANGED <<canon, lock, store>>
      BY <1>1, <1>2, <1>3, <1>5 DEF EnterInstall, TakeBack, InstallAborts, CommitInstall,
         Go, Leave, disk
    <2>1. /\ \A n \in Skills \ {at} : canon'[n] = canon[n] /\ lock'[n] = lock[n]
                                      /\ store'.rows[n] = store.rows[n]
          /\ \/ lock'[at] = Absent /\ store'.rows[at] = Absent
             \/ lock'[at] = target /\ store'.rows[at] = target /\ canon'[at] = target
      BY <1>1, <2>a DEF Removed, Exact, WithRow, Typed, WorldOK, Stores
    <2>2. \A n \in Skills : Agree(n)'
      BY <1>1, <1>3, <2>1 DEF Agree, Fits
    <2> QED
      BY <1>1, <1>5, <2>1, <2>2 DEF Agreed, Leave, Nobody, Batch, Applying, Restoring, Installing
  <1> QED
    BY <1>4, <1>5 DEF EnterInstall, TakeBack, InstallAborts, CommitInstall, Go

\* ... and a force delete, which takes folder and entry of a Skill without a row.
LEMMA ResetAgrees ==
    ASSUME Typed, Booked, Agreed, NEW n \in Skills, ResetSkill(n)
    PROVE  Agreed'
  <1> SUFFICES ASSUME clean' PROVE Agreed'
    BY DEF Agreed, Installing
  <1>1. /\ clean /\ Removed(n) /\ n \in resets /\ store.rows[n] = Absent /\ phase \notin Held
        /\ resets' = resets \ {n} /\ UNCHANGED <<store, op, phase, work>>
        /\ phase \notin {"entry", "added"}
    BY DEF ResetSkill, Booked, Typed, HistoryOK, InPhase
  <1>2. /\ canon' = [canon EXCEPT ![n] = Absent] /\ lock' = [lock EXCEPT ![n] = Absent]
    BY <1>1 DEF Removed
  <1>3. \A m \in Skills \ resets' : Agree(m)' \/ Busy(m)'
    <2> SUFFICES ASSUME NEW m \in Skills, m \notin resets' PROVE Agree(m)' \/ Busy(m)'
      OBVIOUS
    <2>1. CASE m = n
      BY <1>1, <1>2, <2>1 DEF Agree, Typed, WorldOK
    <2>2. CASE m # n /\ Agree(m)
      BY <1>1, <1>2, <2>2 DEF Agree, Fits, Typed, WorldOK
    <2>3. CASE m # n /\ Busy(m)
      BY <1>1, <2>3 DEF Busy, work, unit
    <2> QED
      BY <1>1, <2>1, <2>2, <2>3 DEF Agreed, Installing
  <1> QED
    BY <1>1, <1>3 DEF Agreed, Fits, work, unit, request, Held, Restoring, Installing

\* What nobody works on keeps agreeing.
LEMMA AgreedStep ==
    ASSUME Typed, Unrepeated, Booked, Agreed, "reset_race" \notin Hazards, Next
    PROVE  Agreed'
  <1>1. ASSUME NEW o \in Operations, Load(o) PROVE Agreed'
    BY <1>1 DEF Typed, InPhase, Batch, Applying, Restoring, Installing, Agreed, Agree,
       Fits, Busy, Load, Go, disk, history
  <1>2. CASE RemoteFails
    BY <1>2 DEF Typed, InPhase, Batch, Applying, Restoring, Booked, Agreed, Agree, Fits,
       Busy, RemoteFails, Drop, Leave, Take, disk, history
  <1>3. CASE Refused
    BY <1>3 DEF Batch, Applying, Restoring, Agreed, Agree, Fits, Busy, Refused, Drop,
       Leave, Take, disk, history
  <1>4. ASSUME NEW r \in Releases, NEW R \in SUBSET Skills, NEW c \in ChoicesFor(R),
             PlanUpdate(r, c, R)
      PROVE  Agreed'
    BY <1>4 DEF Typed, InPhase, Batch, Restoring, Installing, Nobody, Agreed, Agree,
       Fits, Busy, PlanUpdate, Plan, Go, disk, unit
  <1>5. ASSUME NEW r \in Releases, NEW R \in SUBSET Skills, NEW c \in ChoicesFor(R), NEW n \in Skills,
             PlanRollback(n, r, c, R)
      PROVE  Agreed'
    BY <1>5 DEF Typed, InPhase, Batch, Restoring, Installing, Nobody, Agreed, Agree,
       Fits, Busy, PlanRollback, Plan, Go, disk, unit
  <1>6. ASSUME NEW n \in Skills, Fetch(n) PROVE Agreed'
    BY <1>6 DEF Batch, Applying, Restoring, InBatch, Unrepeated, Agreed, Agree, Fits, Busy,
       Fetch, Drop, Go, Take, disk, history
  <1>7. ASSUME NEW n \in Skills, Verify(n) PROVE Agreed'
    BY <1>7 DEF Typed, InPhase, Batch, Restoring, Installing, Updated, Unrepeated, Agreed,
       Agree, Fits, Busy, Verify, Go, Take, disk, history, unit
  <1>8. ASSUME NEW n \in Skills, Undo(n) PROVE Agreed'
    BY <1>8 DEF Batch, Restoring, Installing, Updated, Unrepeated, Agreed, Agree, Fits, Busy,
       Undo, Go, Take, disk, history
  <1>9. ASSUME NEW n \in Skills, Resume(n) PROVE Agreed'
    BY <1>9 DEF Batch, Applying, Restoring, Agreed, Agree, Fits, Busy, Resume, Drop,
       Leave, Take, disk, history
  <1>10. CASE FetchFails
    BY <1>10 DEF Batch, Applying, Restoring, Updated, Agreed, Agree, Fits, Busy,
       FetchFails, Drop, Go, ItemFails, Take, disk, history
  <1>11. CASE KeepLocal
    BY <1>11 DEF Batch, Applying, Restoring, Installing, Updated, Agreed, Agree, Fits,
       Busy, KeepLocal, Drop, Go, ItemFails, Take, history, unit
  <1>12. CASE Retain
    BY <1>12 DEF Typed, InPhase, OnOne, Batch, Applying, Restoring, Installing, InBatch,
       Booked, Unrepeated, Agreed, Agree, Fits, Busy, Retain, Drop, Go, ItemFails, Take,
       history
  <1>13. CASE SwapAside
    <2>1. /\ phase = "swap" /\ phase' = "place" /\ at \in Skills /\ resets = {}
          /\ lock[at] = store.rows[at] /\ receipts[at] = Absent /\ store.rows[at] # Absent
          /\ canon' = [canon EXCEPT ![at] = Absent] /\ aside' = canon[at]
          /\ UNCHANGED <<lock, store, op, target, at, old, after, todo, receipts, resets, clean>>
      BY <1>13 DEF Typed, InPhase, OnOne, Batch, Applying, Held, Unrepeated, Booked, InBatch,
         SwapAside, Go, request, history
    <2>2. ASSUME clean PROVE Fits(at, canon[at])
      BY <2>1, <2>2 DEF Agreed, Agree, Busy, Restoring, Installing
    <2>3. \A n \in Skills : n # at => canon'[n] = canon[n]
      BY <2>1 DEF Typed, WorldOK
    <2> QED
      BY <2>1, <2>2, <2>3 DEF Agreed, Agree, Busy, Fits, Batch, Applying, Restoring, Installing
  <1>14. CASE Place
    BY <1>14 DEF Batch, Applying, Installing, Agreed, Agree, Fits, Busy, Place, Go,
       history, unit, work
  <1>15. CASE Record
    BY <1>15 DEF Batch, Applying, Installing, Agreed, Agree, Fits, Busy, Record, Go,
       history, unit, work
  <1>16. CASE InstallFails
    BY <1>16, PutBackInFull
  <1>17. CASE Check
    BY <1>17 DEF Typed, RequestOK, InPhase, Batch, Restoring, Installing, Nobody,
       Agreed, Agree, Fits, Busy, Check, Drop, Go, Take, disk, unit
  <1>18. CASE RestoreAside
    BY <1>18, RollbackAgrees
  <1>19. CASE PutBack
    BY <1>19, RollbackAgrees
  <1>20. CASE Relock
    BY <1>20, RollbackAgrees
  <1>21. CASE Revert
    BY <1>21, RollbackAgrees
  <1>22. CASE Undone
    BY <1>22 DEF Typed, InPhase, Restoring, Nobody, Booked, Agreed, Agree, Fits, Busy,
       Undone, Drop, Leave, Take, disk
  <1>23. CASE AllApplied
    BY <1>23 DEF Batch, Restoring, Installing, Agreed, Agree, Fits, Busy, AllApplied,
       Go, disk, history, unit
  <1>24. CASE CommitFails
    BY <1>24 DEF Batch, Restoring, Installing, Updated, Agreed, Agree, Fits, Busy,
       CommitFails, Go, disk, history
  <1>25. CASE Commit
    BY <1>25, ContentAssumption DEF Typed, InPhase, OnOne, Batch, Applying, Restoring,
       Removing, Installing, Updated, Booked, Brought, Agreed, Agree, Fits, Busy,
       Commit, Go, disk
  <1>26. CASE Finalize
    BY <1>26 DEF Batch, Applying, Restoring, Agreed, Agree, Fits, Busy, Finalize, Drop,
       Leave, Take
  <1>27. ASSUME NEW n \in Skills, NEW c \in {"preserve", "discard"},
             PlanRemoval(n, c)
      PROVE  Agreed'
    BY <1>27 DEF Batch, Applying, Restoring, Agreed, Agree, Fits, Busy, PlanRemoval, Go,
       Take, disk
  <1>28. CASE Dismiss
    BY <1>28 DEF Batch, Applying, Restoring, Installing, Agreed, Agree, Fits, Busy,
       Dismiss, Go, Leave, history
  <1>29. CASE StageRemoval
    BY <1>29 DEF Typed, WorldOK, InPhase, OnOne, Batch, Applying, Restoring, Removing,
       Installing, Booked, Agreed, Agree, Fits, Busy, StageRemoval, Go, Leave, history
  <1>30. CASE UnlockRemoval
    BY <1>30, RemovalAgrees
  <1>31. CASE CommitRemoval
    BY <1>31, RemovalAgrees
  <1>32. CASE CleanRemoval
    BY <1>32 DEF Batch, Applying, Restoring, Agreed, Agree, Fits, Busy, CleanRemoval,
       Drop, Leave, Take, history
  <1>33. ASSUME NEW n \in Skills, NEW r \in Releases, PlanInstall(n, r) PROVE Agreed'
    BY <1>33 DEF Batch, Applying, Restoring, Agreed, Agree, Fits, Busy, PlanInstall, Go,
       Take, disk, history
  <1>34. CASE PlaceInstall
    BY <1>34 DEF Typed, WorldOK, Batch, Applying, Restoring, Installing, Booked, Agreed,
       Agree, Fits, Busy, Stores, PlaceInstall, Exact, Go, Leave, TransactionFree,
       history, unit, work
  <1>35. CASE EnterInstall
    BY <1>35, InstallAgrees
  <1>36. CASE CommitInstall
    BY <1>36, InstallAgrees
  <1>43. CASE TakeBack
    BY <1>43, InstallAgrees
  <1>44. CASE InstallAborts
    BY <1>44, InstallAgrees
  <1>37. ASSUME NEW n \in Skills, ResetSkill(n) PROVE Agreed'
    BY <1>37, ResetAgrees
  <1>38. ASSUME NEW n \in Skills, NEW e \in Edits, UserEdit(n, e) PROVE Agreed'
    <2>1. /\ UNCHANGED <<lock, store, phase, target, todo, receipts, at, old, aside, after,
                           resets, clean>>
          /\ \A m \in Skills : canon'[m] \in {canon[m]} \cup Edits
      BY <1>38 DEF Typed, WorldOK, UserEdit, request, unit, work
    <2>2. \A m \in Skills : (Agree(m) => Agree(m)') /\ (Busy(m) => Busy(m)')
      BY <2>1 DEF Agree, Busy, Fits
    <2>3. phase = "relock" => at \in Skills
      BY DEF Typed, InPhase, OnOne, Restoring
    <2> QED
      BY <2>1, <2>2, <2>3 DEF Agreed, Fits
  <1>39. CASE Prune
    BY <1>39 DEF Typed, InPhase, Batch, Applying, Restoring, Agreed, Agree, Busy, Prune,
       TransactionFree, disk, unit, work
  <1>40. ASSUME NEW c \in AllCopies, Sweep(c) PROVE Agreed'
    BY <1>40 DEF Agreed, Agree, Fits, Busy, Sweep, history, request, unit, work
  <1>41. ASSUME NEW c \in AllCopies, Doctor(c) PROVE Agreed'
    BY <1>41, ContentAssumption DEF Held, Agreed, Agree, Fits, Busy, Doctor,
       TransactionFree, history, unit, work
  <1>42. CASE Crash
    BY <1>42 DEF Agreed, Crash
  <1> QED
    BY <1>1, <1>2, <1>3, <1>4, <1>5, <1>6, <1>7, <1>8, <1>9, <1>10, <1>11, <1>12,
       <1>13, <1>14, <1>15, <1>16, <1>17, <1>18, <1>19, <1>20, <1>21, <1>22, <1>23,
       <1>24, <1>25, <1>26, <1>27, <1>28, <1>29, <1>30, <1>31, <1>32, <1>33, <1>34,
       <1>35, <1>36, <1>37, <1>38, <1>39, <1>40, <1>41, <1>42, <1>43, <1>44
       DEF Next, Working, Resetting
-----------------------------------------------------------------------------
\* A step on the disk and the store is a step of ReleaseRecord or none of its business.
LEMMA MapsStep ==
    ASSUME Typed, Unrepeated, Booked, "reset_race" \notin Hazards, [Next]_vars
    PROVE  [Records!Next]_<<store.rows, lock>>
  <1>1. ASSUME Record PROVE Records!Next
    <2>1. /\ at \in Skills /\ target \in Releases /\ lock[at] = store.rows[at]
          /\ lock' = [lock EXCEPT ![at] = target] /\ store' = store
      BY <1>1 DEF Record, Booked, Typed, InPhase, OnOne, Applying, Batch
    <2> QED
      BY <2>1 DEF Records!Next, Records!Move
  <1>2. ASSUME Relock PROVE [Records!Next]_<<store.rows, lock>>
    <2>1. /\ at \in Skills /\ draft = store /\ store' = store
          /\ lock' \in {lock, [lock EXCEPT ![at] = store.rows[at]]}
      BY <1>2 DEF Relock, Booked, Typed, InPhase, OnOne, Restoring
    <2> QED
      BY <2>1 DEF Records!Next, Records!Back
  <1>3. ASSUME UnlockRemoval PROVE [Records!Next]_<<store.rows, lock>>
    <2>1. /\ at \in Skills /\ store' = store
          /\ lock' \in {lock, [lock EXCEPT ![at] = Absent]}
      BY <1>3 DEF UnlockRemoval, Typed, InPhase, OnOne, Removing
    <2> QED
      BY <2>1 DEF Records!Next, Records!Uninstall
  <1>4. ASSUME CommitRemoval PROVE [Records!Next]_<<store.rows, lock>>
    <2>1. /\ at \in Skills /\ draft = store /\ lock[at] = Absent /\ target \in Releases \cup {Absent}
          /\ store.rows \in [Skills -> Releases \cup {Absent}]
          /\ lock \in [Skills -> Releases \cup {Absent}]
      BY <1>4 DEF CommitRemoval, Booked, Typed, InPhase, OnOne, Removing, WorldOK, RequestOK, Stores
    <2>2. \/ store' = WithRow(store, at, Absent) /\ lock' = lock
          \/ store' = store /\ lock' \in {lock, [lock EXCEPT ![at] = target]}
      BY <1>4, <2>1 DEF CommitRemoval, disk
    <2>3. CASE store' = WithRow(store, at, Absent) /\ lock' = lock
      <3>1. store'.rows = [n \in Skills |-> IF n \in {at} THEN Absent ELSE store.rows[n]]
        BY <2>1, <2>3 DEF WithRow
      <3> QED
        BY <2>1, <2>3, <3>1 DEF Records!Next, Records!Prune
    <2>4. CASE store' = store /\ lock' \in {lock, [lock EXCEPT ![at] = target]}
      <3>1. [lock EXCEPT ![at] = Absent] = lock
        BY <2>1
      <3> QED
        BY <2>1, <2>4, <3>1 DEF Records!Next, Records!Move
    <2> QED
      BY <2>2, <2>3, <2>4
  <1>5. ASSUME EnterInstall PROVE [Records!Next]_<<store.rows, lock>>
    <2>1. /\ at \in Skills /\ target \in Releases /\ store.rows[at] = Absent /\ store' = store
          /\ lock' \in {lock, [lock EXCEPT ![at] = target]}
      BY <1>5 DEF EnterInstall, Booked, Typed, InPhase, OnOne, Installing
    <2> QED
      BY <2>1 DEF Records!Next, Records!Move
  <1>6. ASSUME CommitInstall PROVE [Records!Next]_<<store.rows, lock>>
    <2>1. /\ at \in Skills /\ draft = store
          /\ store.rows \in [Skills -> Releases \cup {Absent}]
      BY <1>6 DEF CommitInstall, Booked, Typed, InPhase, OnOne, Installing, WorldOK, Stores
    <2>2. \/ store' = WithRow(store, at, target) /\ lock' = lock /\ lock[at] = target
          \/ store' = store /\ lock' = lock
      BY <1>6, <2>1 DEF CommitInstall, Exact, disk
    <2>3. CASE store' = WithRow(store, at, target) /\ lock' = lock /\ lock[at] = target
      <3>1. store'.rows = [n \in Skills |-> IF n \in {at} THEN lock[n] ELSE store.rows[n]]
        BY <2>1, <2>3 DEF WithRow
      <3> QED
        BY <2>1, <2>3, <3>1 DEF Records!Next, Records!Publish
    <2> QED
      BY <2>1, <2>2, <2>3
  <1>7. ASSUME Commit PROVE Records!Next
    <2>1. /\ draft = store /\ lock' = lock
          /\ store.rows \in [Skills -> Releases \cup {Absent}]
          /\ \A n \in Updated : lock[n] = target
      BY <1>7, ContentAssumption DEF Commit, disk, Booked, Brought, Updated, Typed, InPhase, OnOne, WorldOK, Stores, Batch, Applying, Restoring, Removing, Installing
    <2>2. store'.rows = [n \in Skills |-> IF n \in Updated THEN lock[n] ELSE store.rows[n]]
      BY <1>7, <2>1 DEF Commit
    <2>3. Updated \in SUBSET Skills
      BY DEF Updated
    <2> QED
      BY <2>1, <2>2, <2>3 DEF Records!Next, Records!Publish
  <1>8. ASSUME NEW n \in Skills, ResetSkill(n) PROVE [Records!Next]_<<store.rows, lock>>
    <2>1. store' = store /\ lock' \in {lock, [lock EXCEPT ![n] = Absent]}
      BY <1>8 DEF ResetSkill, Removed
    <2> QED
      BY <2>1 DEF Records!Next, Records!Uninstall
  <1>9. ASSUME Prune PROVE Records!Next
    <2> DEFINE S == {n \in Skills : lock[n] # Absent}
    <2>1. /\ S \in SUBSET Skills /\ lock' = lock
          /\ store'.rows = [n \in Skills |-> IF n \in S THEN Absent ELSE store.rows[n]]
      BY <1>9 DEF Prune, disk
    <2> QED
      BY <2>1 DEF Records!Next, Records!Prune
  <1>10. ASSUME RemoteFails \/ Undone PROVE UNCHANGED <<store, lock>>
    BY <1>10 DEF RemoteFails, Undone, Booked, Typed, InPhase, disk
  <1>11. ASSUME NEW n \in Skills, Resume(n) PROVE UNCHANGED <<store.rows, lock>>
    BY <1>11 DEF Resume, disk
  <1>12. ASSUME \/ \E o \in Operations : Load(o)
                \/ Refused \/ FetchFails \/ KeepLocal \/ Retain \/ SwapAside \/ Place \/ InstallFails
                \/ Check \/ RestoreAside \/ PutBack \/ Revert \/ AllApplied \/ CommitFails \/ Finalize
                \/ Dismiss \/ StageRemoval \/ CleanRemoval \/ PlaceInstall \/ Crash
         PROVE  UNCHANGED <<store, lock>>
    BY <1>12 DEF Load, Refused, FetchFails, KeepLocal, Retain, SwapAside, Place, InstallFails, Check, RestoreAside, PutBack, Revert, AllApplied, CommitFails, Finalize, Dismiss, StageRemoval, CleanRemoval, PlaceInstall, Crash, disk
  <1>13. ASSUME NEW n \in Skills,
                \/ Fetch(n) \/ Verify(n) \/ Undo(n)
                \/ \E c \in {"preserve", "discard"} : PlanRemoval(n, c)
                \/ \E r \in Releases : PlanInstall(n, r)
                \/ \E e \in Edits : UserEdit(n, e)
         PROVE  UNCHANGED <<store, lock>>
    BY <1>13 DEF Fetch, Verify, Undo, PlanRemoval, PlanInstall, UserEdit, disk
  <1>14. ASSUME NEW r \in Releases, NEW R \in SUBSET Skills, NEW c \in ChoicesFor(R),
                PlanUpdate(r, c, R) \/ \E n \in Skills : PlanRollback(n, r, c, R)
         PROVE  UNCHANGED <<store, lock>>
    BY <1>14 DEF PlanUpdate, PlanRollback, Plan, disk
  <1>15. ASSUME NEW c \in AllCopies, Sweep(c) \/ Doctor(c) PROVE UNCHANGED <<store, lock>>
    BY <1>15 DEF Sweep, Doctor
  <1>16. ASSUME UNCHANGED vars PROVE UNCHANGED <<store, lock>>
    BY <1>16 DEF vars, disk
  <1>17. ASSUME TakeBack PROVE [Records!Next]_<<store.rows, lock>>
    <2>1. /\ at \in Skills /\ store' = store
          /\ lock' \in {lock, [lock EXCEPT ![at] = Absent]}
      BY <1>17 DEF TakeBack, Removed, Booked, Typed, InPhase, OnOne, Installing
    <2> QED
      BY <2>1 DEF Records!Next, Records!Uninstall
  <1>18. ASSUME InstallAborts PROVE UNCHANGED <<store, lock>>
    BY <1>18 DEF InstallAborts, Booked, Typed, InPhase, disk
  <1> QED
    BY <1>1, <1>2, <1>3, <1>4, <1>5, <1>6, <1>7, <1>8, <1>9, <1>10, <1>11, <1>12, <1>13,
       <1>14, <1>15, <1>16, <1>17, <1>18 DEF Next, Working, Resetting

\* The first start is one of ReleaseRecord.
LEMMA MapsInit == Init => Records!Init
  BY DEF Init, Records!Init, Records!Record
-----------------------------------------------------------------------------
\* The types and the pins need no assumption.
LEMMA TypedInvariance == Spec => [](Typed /\ Pins)
  <1>1. Init => Typed /\ Pins
    <2> SUFFICES ASSUME Init PROVE Typed /\ Pins
      OBVIOUS
    <2>1. PinsOK(store) /\ PinsOK(draft)
      BY DEF Init, PinsOK, NoStore, Nobody
    <2> QED
      BY <2>1, InitTyped DEF Init, Pins, Batch, Applying, Restoring
  <1>2. Typed /\ Pins /\ [Next]_vars => (Typed /\ Pins)'
    <2>1. ASSUME Typed, Pins, UNCHANGED vars PROVE Pins'
      BY <2>1 DEF vars, disk, work, request, unit, Pins, PinsOK, InBatch
    <2> QED
      BY <2>1, StepTyped, PinsStep
  <1> QED
    BY <1>1, <1>2, PTL DEF Spec

\* What the records say needs that no force delete runs beside an operation.
LEMMA BookedInvariance ==
    ASSUME "reset_race" \notin Hazards
    PROVE  Spec => [](Typed /\ Unrepeated /\ Booked /\ Agreed)
  <1>1. Init => Unrepeated /\ Booked /\ Agreed
    <2> SUFFICES ASSUME Init PROVE Unrepeated /\ Booked /\ Agreed
      OBVIOUS
    <2>1. Unrepeated /\ Booked
      BY DEF Init, Unrepeated, Booked, Batch, Applying, Restoring, Removing, Installing
    <2>2. \A n \in Skills : Agree(n)
      BY DEF Init, Agree, Fits
    <2> QED
      BY <2>1, <2>2 DEF Init, Agreed, Batch, Applying, Restoring, Installing
  <1>2. Typed /\ Unrepeated /\ Booked /\ Agreed /\ [Next]_vars => (Unrepeated /\ Booked /\ Agreed)'
    <2>1. ASSUME Unrepeated, Booked, Agreed, UNCHANGED vars PROVE (Unrepeated /\ Booked /\ Agreed)'
      BY <2>1 DEF vars, disk, work, request, unit, history, Unrepeated, Booked, Agreed, InBatch, Updated,
         Brought, Agree, Fits, Busy
    <2> QED
      BY <2>1, UnrepeatedStep, BookedStep, AgreedStep
  <1> QED
    BY <1>1, <1>2, TypedInvariance, PTL DEF Spec

\* Every variable stays in its type, whatever the environment does.
THEOREM TypeCorrect == Spec => []TypeOK
  <1>1. Typed => TypeOK
    BY DEF Typed, WorldOK, RequestOK, UnitOK, HistoryOK, TypeOK
  <1> QED
    BY <1>1, TypedInvariance, PTL

\* A pin says which release its Skill stays at: no update moves a pinned Skill,
\* whatever fails and whoever resets (PinHolds).
THEOREM PinsHold == Spec => []PinHolds
  <1>1. Pins => PinHolds
    BY DEF Pins, PinsOK, PinHolds
  <1> QED
    BY <1>1, TypedInvariance, PTL

\* Unless a force delete runs beside an operation, the subscription, the lock
\* and the folder agree whenever no operation runs, after failures of every
\* kind but a crash or a rollback reported incomplete (Agreement).
THEOREM RecordsAgree ==
    ASSUME "reset_race" \notin Hazards
    PROVE  Spec => []Agreement
  <1>1. Typed /\ Agreed => Agreement
    BY DEF Typed, InPhase, Agreed, Agreement, Agree, Fits, Busy, Batch, Applying, Restoring, OnOne
  <1> QED
    BY <1>1, BookedInvariance, PTL

\* Under the same assumption, and crashes and incomplete rollbacks included,
\* releases are recorded the way ReleaseRecord says: one is installed only over
\* what the subscription describes, and the subscription follows what is
\* installed or lets go (RecordsReleases).
THEOREM ReleasesAreRecorded ==
    ASSUME "reset_race" \notin Hazards
    PROVE  Spec => RecordsReleases
  <1>1. Typed /\ Unrepeated /\ Booked /\ Agreed /\ [Next]_vars
            => [Records!Next]_<<store.rows, lock>>
    BY MapsStep
  <1> QED
    BY <1>1, MapsInit, BookedInvariance, PTL DEF Spec, RecordsReleases, Records!Spec

\* A copy is determined by what it was made of.
LEMMA CopyIs ==
    ASSUME NEW k, NEW n, NEW c
    PROVE  /\ Copy(k, n, c).kind = k /\ Copy(k, n, c).skill = n
           /\ Copy(k, n, c).content = c
           /\ \A j, m, b : Copy(k, n, c) = Copy(j, m, b) => k = j /\ n = m /\ c = b
  BY DEF Copy

\* Content c of Skill n is where it stays until Doctor, the user or an operation
\* that knows of it takes it up: no sweep deletes it.
Firm(n, c) == \/ canon[n] = c
              \/ Copy("backup", n, c) \in copies \/ Copy("remove", n, c) \in copies
              \/ <<n, c>> \in locals

\* A retained copy of it is not taken for superseded.
Retains(n, c) == /\ Copy("retain", n, c) \in copies
                 /\ lock[n] # store.rows[n] \/ store.rows[n] \in {Absent, c}

\* OwedKept is about it.
Promised(n, c) == c \in Edits \cup {store.rows[n], receipts[n]}

\* The local copy a failing step deletes is of content that is in the folder, or
\* gets back there.
Spare ==
    /\ copied # Absent => at \in resolved
    /\ at = Absent => copied = Absent
    /\ phase \in {"fetch", "dismiss", "revert"} \/ after \in {"verify", "undo"} => copied = Absent
    /\ phase \in {"retain", "stage"} => copied \in {Absent, canon[at]}
    /\ phase \in {"swap", "place", "record", "check", "unlock", "commit"} \cup Restoring =>
         copied \in {Absent, old}

\* Content c of the Skill at hand is not owed.
Unowed(c) == <<at, c>> \notin owed

\* Where the contents of the Skill at hand are, and that the batch brings
\* something else than the row describes.
Located ==
    /\ phase \in {"place", "put_back", "unlock", "commit"} => canon[at] = Absent
    /\ phase = "swap" => canon[at] = old \/ (Unowed(old) /\ Unowed(canon[at]))
    /\ phase \in {"place", "record"} => aside = old \/ (Unowed(old) /\ Unowed(aside))
    /\ phase \in {"record", "check"} => canon[at] = target \/ Unowed(canon[at])
    /\ phase \in {"entry", "take_back"} => canon[at] = target \/ Unowed(canon[at])
    /\ phase = "relock" => canon[at] = old \/ Unowed(old)
    /\ phase \in {"fetch", "retain", "swap"} => aside = Absent
    /\ phase \in {"place", "record"} => Backup \in copies
    /\ phase \in {"swap", "place", "record", "check"} => Retained \in copies
    /\ phase = "restore" => 
         canon[at] \in {Absent, old, target} \/ <<at, canon[at]>> \in locals \/ Unowed(canon[at])
    /\ phase = "put_back" => 
         aside \in {Absent, old, target} \/ <<at, aside>> \in locals \/ Unowed(aside)
    /\ phase = "put_back" /\ aside # Absent => Copy("backup", at, aside) \in copies
    /\ after \in {"verify", "undo"} => old = receipts[at]
    /\ phase = "unlock" => lock[at] = target
    /\ phase = "unlock" /\ old # Absent => Copy("remove", at, old) \in copies
    /\ phase \in {"unlock", "commit", "cleanup"} => Staged(at) \subseteq {Copy("remove", at, old)}
    /\ phase \in Batch => \A n \in Skills : InBatch(n) => store.rows[n] # target

\* An edit that is about to be replaced is waived or a local Skill.
Wanted(c) == c \in Edits /\ <<at, c>> \in owed => <<at, c>> \in waived \cup locals

\* What the user has chosen covers what the operation meets.
Chosen ==
    /\ resolved # {} => choice \in {"preserve", "discard"}
    /\ phase \in {"none", "remote"} => resolved = {}
    /\ choice = "discard" => \A n \in resolved : OwedOf(n) \subseteq waived
    /\ \A n \in resets : OwedOf(n) = {}
    /\ phase = "retain" => Wanted(canon[at])
    /\ phase \in {"swap", "place", "record", "check"} => Wanted(old)
    /\ phase \in Removing => /\ resolved = {at}
                             /\ choice = "discard" => OwedOf(at) = {}
    /\ phase \in {"dismiss", "stage"} =>
         \A d \in Staged(at) : <<at, d.content>> \in owed => <<at, d.content>> \in LocalsWithout(at)
    /\ phase = "stage" /\ choice = "preserve" => <<at, canon[at]>> \in locals
    /\ phase \in {"unlock", "commit", "cleanup"} /\ choice = "preserve" => <<at, old>> \in locals

\* What was in the way is aside ...
LEMMA AsideDone ==
    ASSUME Typed, RestoreAside, Proceeds
    PROVE  /\ phase = "restore" /\ phase' = "put_back" /\ Retained \in copies
           /\ canon' = [canon EXCEPT ![at] = Absent] /\ aside' = canon[at]
           /\ copies' = IF canon[at] = Absent THEN copies
                          ELSE copies \cup {Copy("backup", at, canon[at])}
           /\ UNCHANGED <<lock, locals, store, op, request, resets, owed, waived, todo,
                           remote, receipts, at, old, copied, after>>
  <1>1. ~RollbackEnds(FALSE)
    BY RollbackLeaves DEF Proceeds, Restoring
  <1> QED
    BY <1>1 DEF RestoreAside, Go, Proceeds

\* ... the retained copy is in place ...
LEMMA BackDone ==
    ASSUME Typed, PutBack, Proceeds
    PROVE  /\ phase = "put_back" /\ phase' = "relock"
           /\ canon' = [canon EXCEPT ![at] = old]
           /\ \/ copies' = copies \ {Retained, Copy("backup", at, aside)}
              \/ copies' = copies \ {Retained}
           /\ UNCHANGED <<lock, locals, store, op, request, resets, owed, waived, todo,
                           remote, receipts, unit>>
  <1>1. ~RollbackEnds(FALSE)
    BY RollbackLeaves DEF Proceeds, Restoring
  <1> QED
    BY <1>1 DEF PutBack, Go, Proceeds

\* ... and foreign content is a local Skill.
LEMMA RevertDone ==
    ASSUME Typed, Revert, Proceeds
    PROVE  /\ phase = "revert" /\ phase' = "restore"
           /\ \/ canon[at] \in {old, target} /\ locals' = locals
              \/ /\ canon[at] \notin {old, target, Absent}
                 /\ locals' = locals \cup {<<at, canon[at]>>}
           /\ UNCHANGED <<canon, lock, copies, store, op, request, resets, owed, waived,
                           todo, remote, receipts, unit>>
  <1>1. ~RollbackEnds(FALSE)
    BY RollbackLeaves DEF Proceeds, Restoring
  <1> QED
    BY <1>1 DEF Revert, Go, Proceeds

\* A rollback that ends here has moved nothing ...
LEMMA AsideStopped ==
    ASSUME Typed, RestoreAside, Stops(FALSE)
    PROVE  UNCHANGED <<canon, lock, copies, locals, owed, waived>>
  <1>1. phase' # "put_back"
    BY RollbackLeaves DEF Stops
  <1> QED
    BY <1>1 DEF RestoreAside, Go

\* ... or moved it back.
LEMMA BackStopped ==
    ASSUME Typed, PutBack, Stops(FALSE)
    PROVE  /\ phase = "put_back" /\ UNCHANGED <<lock, locals, owed, waived>>
           /\ \/ UNCHANGED <<canon, copies>>
              \/ /\ canon' = [canon EXCEPT ![at] = aside]
                 /\ copies' = copies \ {Copy("backup", at, aside)}
  <1>1. phase' # "relock"
    BY RollbackLeaves DEF Stops
  <1> QED
    BY <1>1 DEF PutBack, Go

\* One that does not begin has kept nothing.
LEMMA RevertStopped ==
    ASSUME Typed, Revert, Stops(FALSE)
    PROVE  UNCHANGED <<canon, lock, copies, locals, owed, waived>>
  <1>1. phase' # "restore"
    BY RollbackLeaves DEF Stops
  <1> QED
    BY <1>1 DEF Revert, Go

\* What is owed is safe: what is promised of it, edits first; until the batch is
\* committed the content each of its Skills had before; and once it is, no more
\* than edits the retained copies are not needed for.
Holds(n, c) ==
    /\ Promised(n, c) => Firm(n, c) \/ Retains(n, c)
    /\ c \in Edits /\ <<n, c>> \notin waived => Firm(n, c)
    /\ c \in Edits /\ phase \in Batch /\ receipts[n] # Absent => Firm(n, c) \/ c = receipts[n]
    /\ c \in Edits /\ phase \in Restoring \cup {"check"} /\ n = at => Firm(n, c) \/ c = old
    /\ c \in Edits /\ phase = "commit" /\ n = at /\ target = store.rows[n] => Firm(n, c)
    /\ phase = "finalize" /\ receipts[n] # Absent => c \in Edits /\ Firm(n, c)

Upheld == \A n \in Skills, c \in Contents : <<n, c>> \in owed => Holds(n, c)

\* A rollback that ends leaves nothing at hand.
LEMMA LocatedStops ==
    ASSUME Typed, Located, NEW ok \in BOOLEAN, Stops(ok)
    PROVE  Located'
  <1>1. /\ phase \in Restoring \cup {"revert"} /\ RollbackEnds(ok)
        /\ UNCHANGED <<target, store>>
    BY DEF Stops
  <1>2. phase \in Batch
    BY <1>1 DEF Batch
  <1>3. \A n \in Skills : InBatch(n)' => InBatch(n)
    BY <1>1, RollbackLeaves, ContentAssumption DEF InBatch
  <1> QED
    BY <1>1, <1>2, <1>3, RollbackLeaves DEF Located

\* A step moves contents where the next phase expects them: out of the way into
\* the retained and backup copies, back from there, or into the staging folder.
LEMMA LocatedStep ==
    ASSUME Typed, Unrepeated, Booked, Located, Hazards = {}, Next
    PROVE  Located'
  <1>1. ASSUME NEW o \in Operations, Load(o) PROVE Located'
    BY <1>1
       DEF Load, Located, InBatch, Booked, Unrepeated, Typed, Go, disk, unit, history,
           Backup, Retained, Staged, Batch, Brought, Applying, Restoring
  <1>2. CASE RemoteFails
    BY <1>2
       DEF RemoteFails, Located, InBatch, Booked, Unrepeated, Typed, Leave, disk,
           history, Backup, Retained, Staged, Batch, Brought, Removing, Installing,
           Updated, WorldOK, RequestOK, UnitOK, HistoryOK, NoStore, Drop, Nobody,
           Applying, Restoring, Take
  <1>3. CASE Refused
    BY <1>3
       DEF Refused, Located, InBatch, Booked, Unrepeated, Typed, Leave, disk, history,
           Backup, Retained, Staged, Batch, Brought, Removing, Installing, Updated,
           WorldOK, RequestOK, UnitOK, HistoryOK, NoStore, Drop, Nobody, Applying,
           Restoring, Take
  <1>4. ASSUME NEW r \in Releases, NEW R \in SUBSET Skills, NEW c0 \in ChoicesFor(R),
             PlanUpdate(r, c0, R)
      PROVE  Located'
    BY <1>4, ContentAssumption, CopyIs, ReleasesAssumption
       DEF PlanUpdate, Located, InBatch, Booked, Unrepeated, Typed, Diverges,
           ChoicesFor, Plan, Backup, Retained, Staged, Batch, Brought, Removing,
           Installing, Updated, WorldOK, RequestOK, UnitOK, HistoryOK, InPhase, OwedOf,
           Go, disk, unit, Applying, Restoring, Contents, OnOne, Nobody
  <1>5. ASSUME NEW r \in Releases, NEW R \in SUBSET Skills, NEW c0 \in ChoicesFor(R), NEW m \in Skills,
             PlanRollback(m, r, c0, R)
      PROVE  Located'
    BY <1>5, ContentAssumption, CopyIs, ReleasesAssumption
       DEF PlanRollback, Located, InBatch, Booked, Unrepeated, Typed, ChoicesFor, Plan,
           Backup, Retained, Staged, Batch, Brought, Removing, Installing, Updated,
           WorldOK, RequestOK, UnitOK, HistoryOK, InPhase, OwedOf, Go, disk, unit,
           Applying, Restoring, OnOne, Nobody, Held
  <1>6. ASSUME NEW m \in Skills, Fetch(m) PROVE Located'
    BY <1>6, ContentAssumption, CopyIs, ReleasesAssumption
       DEF Fetch, Located, InBatch, Booked, Unrepeated, Typed, Replaceable, Take, Go,
           Drop, request, history, Batch
  <1>7. ASSUME NEW m \in Skills, Verify(m) PROVE Located'
    BY <1>7, ContentAssumption, CopyIs, ReleasesAssumption
       DEF Verify, Located, InBatch, Booked, Unrepeated, Typed, Exact, unit, Take, Go,
           request, history, Batch
  <1>8. ASSUME NEW m \in Skills, Undo(m) PROVE Located'
    BY <1>8
       DEF Undo, Located, InBatch, Booked, Unrepeated, Typed, Take, Go, disk, request,
           history, Backup, Batch
  <1>9. ASSUME NEW m \in Skills, Resume(m) PROVE Located'
    BY <1>9
       DEF Resume, Located, InBatch, Booked, Unrepeated, Typed, Leave, disk, history,
           Backup, Retained, Staged, Batch, Brought, Removing, Installing, Updated,
           WorldOK, RequestOK, UnitOK, HistoryOK, NoStore, Drop, Nobody, Applying,
           Restoring, Take
  <1>10. CASE FetchFails
    BY <1>10, ContentAssumption, CopyIs, ReleasesAssumption
       DEF FetchFails, Located, InBatch, Booked, Unrepeated, Typed, ItemFails, disk,
           request, history, Backup, Retained, Staged, Batch, Brought, Removing,
           Installing, Updated, Drop, Go, Applying, Restoring, Take
  <1>11. CASE KeepLocal
    BY <1>11, ContentAssumption, CopyIs, ReleasesAssumption
       DEF KeepLocal, Located, InBatch, Booked, Unrepeated, Typed, TransactionFree,
           Replaceable, ItemFails, NoFault, Diverges, Go, unit, Preserve, Fault,
           request, history, Backup, Retained, Staged, Batch, Brought, Removing,
           Installing, Updated, WorldOK, RequestOK, UnitOK, HistoryOK, InPhase, Drop,
           Faults, OnOne, Nobody, Take
  <1>12. CASE Retain
    BY <1>12, ContentAssumption, CopyIs, ReleasesAssumption
       DEF Retain, Located, Unowed, InBatch, Booked, Unrepeated, Typed, Go, NoFault,
           LocalsWithout, ItemFails, Fault, request, history, Backup, Retained, Staged,
           Batch, Brought, Removing, Installing, Updated, InPhase, Drop, Applying, Take
  <1>13. CASE SwapAside
    BY <1>13
       DEF SwapAside, Located, Unowed, InBatch, Booked, Unrepeated, Typed, Backup, Go, work,
           history, NoFault, Retained, Staged, Batch, Brought, Removing, Installing,
           Updated, WorldOK, RequestOK, UnitOK, InPhase, request, unit, Applying, OnOne
  <1>14. CASE Place
    <2>1. at \in Skills
      BY <1>14 DEF Place, Typed, InPhase, OnOne, Applying
    <2>2. /\ phase = "place" /\ phase' = "record" /\ canon'[at] = target
          /\ UNCHANGED <<copies, locals, lock, store, target, todo, receipts, at, old, aside,
                         after, owed>>
      BY <1>14, <2>1 DEF Place, Go, work, request, unit, history, Typed, WorldOK
    <2> QED
      BY <2>2 DEF Located, Unowed, InBatch, Backup, Retained, Staged, Batch, Applying
  <1>15. CASE Record
    BY <1>15, ContentAssumption, CopyIs, ReleasesAssumption
       DEF Record, Located, Unowed, InBatch, Booked, Unrepeated, Typed, Backup, NoFault, Fault,
           Go, work, history, Retained, Staged, Batch, Brought, Removing, Installing,
           Updated, WorldOK, RequestOK, request, unit, Applying
  <1>16. CASE InstallFails
    BY <1>16, ContentAssumption, CopyIs, ReleasesAssumption
       DEF InstallFails, Located, Unowed, InBatch, Booked, Unrepeated, Typed, LocalsWithout,
           Retained, Backup, Fault, Faults, ItemFails, request, Staged, Batch, Brought,
           Removing, Installing, Updated, WorldOK, RequestOK, UnitOK, HistoryOK,
           InPhase, Drop, Go, Applying, Contents, Take
  <1>17. CASE Check
    BY <1>17, ContentAssumption, CopyIs, ReleasesAssumption
       DEF Check, Located, Unowed, InBatch, Booked, Unrepeated, Typed, Drop, Go, NoFault, unit,
           Fault, disk, request, Backup, Retained, Staged, Batch, Brought, Removing,
           Installing, Updated, RequestOK, Take, Faults, Applying
  <1>18. CASE RestoreAside
    <2>1. CASE Proceeds
      BY <1>18, <2>1, AsideDone, ContentAssumption, CopyIs
         DEF Retained, Restoring, unit, request, Located, Unowed, InBatch, Typed, Backup,
             Staged, Batch, WorldOK, RequestOK, UnitOK, InPhase, OnOne
    <2>2. CASE Stops(FALSE)
      BY <2>2, LocatedStops
    <2> QED
      BY <1>18, <2>1, <2>2, AsideEffect
  <1>19. CASE PutBack
    <2>1. CASE Proceeds
      BY <1>19, <2>1, BackDone, ContentAssumption, CopyIs
         DEF Retained, Restoring, unit, request, Located, Unowed, InBatch, Typed, Backup,
             Staged, Batch, WorldOK, RequestOK, UnitOK, InPhase, OnOne
    <2>2. CASE Stops(FALSE)
      BY <2>2, LocatedStops
    <2> QED
      BY <1>19, <2>1, <2>2, BackEffect
  <1>20. CASE Relock
    BY <1>20, RelockEffect, LocatedStops
  <1>21. CASE Revert
    <2>1. CASE Proceeds
      BY <1>21, <2>1, RevertDone, ContentAssumption, CopyIs
         DEF Retained, Restoring, unit, request, Located, Unowed, InBatch, Batch
    <2>2. CASE Stops(FALSE)
      BY <2>2, LocatedStops
    <2> QED
      BY <1>21, <2>1, <2>2, RevertEffect
  <1>22. CASE Undone
    BY <1>22
       DEF Undone, Located, InBatch, Booked, Unrepeated, Typed, Leave, StillWaived,
           disk, Backup, Retained, Staged, Batch, Brought, Removing, Installing,
           Updated, WorldOK, RequestOK, UnitOK, HistoryOK, NoStore, Drop, Nobody,
           Applying, Restoring, Take
  <1>23. CASE AllApplied
    BY <1>23
       DEF AllApplied, Located, InBatch, Booked, Unrepeated, Typed, Go, Updated, disk,
           request, unit, history, Batch
  <1>24. CASE CommitFails
    BY <1>24, ContentAssumption, CopyIs, ReleasesAssumption
       DEF CommitFails, Located, InBatch, Booked, Unrepeated, Typed, Fault,
           TransactionFree, Updated, Exact, NoFault, Go, request, unit, Retained,
           Staged, Batch
  <1>25. CASE Commit
    BY <1>25, ContentAssumption, CopyIs, ReleasesAssumption
       DEF Commit, Located, InBatch, Booked, Unrepeated, Typed, TransactionFree,
           Updated, Exact, GiveUp, Settled, Go, disk, work, NoFault, Batch, Brought,
           Removing, unit, Applying, Restoring
  <1>26. CASE Finalize
    BY <1>26, ContentAssumption, CopyIs, ReleasesAssumption
       DEF Finalize, Located, InBatch, Booked, Unrepeated, Typed, NoFault, Fault, Leave,
           StillWaived, Backup, Retained, Staged, Batch, Brought, Removing, Installing,
           Updated, WorldOK, RequestOK, UnitOK, Drop, Applying, Restoring, Take
  <1>27. ASSUME NEW m \in Skills, NEW c0 \in {"preserve", "discard"},
             PlanRemoval(m, c0)
      PROVE  Located'
    BY <1>27
       DEF PlanRemoval, Located, InBatch, Booked, Unrepeated, Typed, Unsaved, GiveUp,
           OwedOf, Take, Go, disk, Backup, Retained, Staged, Batch, Brought, Removing,
           Installing, Updated, Applying, Restoring
  <1>28. CASE Dismiss
    BY <1>28, ContentAssumption, CopyIs, ReleasesAssumption
       DEF Dismiss, Located, InBatch, Booked, Unrepeated, Typed, TransactionFree,
           Preserve, Go, request, NoFault, Leave, Fault, history, Backup, Retained,
           Staged, Batch, Brought, Removing, Installing, Updated, WorldOK, RequestOK,
           UnitOK, HistoryOK, InPhase, Held, NoStore, Drop, Applying, Restoring, Take
  <1>29. CASE StageRemoval
    BY <1>29, ContentAssumption, CopyIs, ReleasesAssumption
       DEF StageRemoval, Located, InBatch, Booked, Unrepeated, Typed, Staged, Go,
           NoFault, LocalsWithout, Leave, Fault, history, Backup, Retained, Batch,
           Brought, Removing, Installing, Updated, WorldOK, RequestOK, UnitOK,
           HistoryOK, InPhase, NoStore, Drop, Nobody, Faults, Applying, Restoring,
           OnOne, Held, Take
  <1>30. CASE UnlockRemoval
    BY <1>30, ContentAssumption, CopyIs, ReleasesAssumption
       DEF UnlockRemoval, Located, InBatch, Booked, Unrepeated, Typed, Go, work,
           NoFault, LocalsWithout, Leave, Unstaged, Fault, Faults, Backup, Retained,
           Staged, Batch, Brought, Removing, Installing, Updated, WorldOK, RequestOK,
           UnitOK, HistoryOK, InPhase, request, unit, Drop, Applying, Restoring, Take
  <1>31. CASE CommitRemoval
    BY <1>31, ContentAssumption, CopyIs, ReleasesAssumption
       DEF CommitRemoval, Located, InBatch, Booked, Unrepeated, Typed, WithRow, GiveUp,
           Settled, Go, disk, work, NoFault, Unstaged, LocalsWithout, Leave, history,
           Fault, Faults, Backup, Retained, Staged, Batch, Brought, Removing,
           Installing, Updated, WorldOK, RequestOK, UnitOK, HistoryOK, InPhase, request,
           unit, Drop, Nobody, Applying, Restoring, Held, Take
  <1>32. CASE CleanRemoval
    BY <1>32, ContentAssumption, CopyIs, ReleasesAssumption
       DEF CleanRemoval, Located, InBatch, Booked, Unrepeated, Typed, Staged, NoFault,
           Fault, Leave, history, Backup, Retained, Batch, Brought, Removing,
           Installing, Updated, WorldOK, RequestOK, UnitOK, Drop, Applying, Restoring,
           Take
  <1>33. ASSUME NEW m \in Skills, NEW r \in Releases, PlanInstall(m, r) PROVE Located'
    BY <1>33
       DEF PlanInstall, Located, InBatch, Booked, Unrepeated, Typed, Take, Go, disk,
           history, Backup, Retained, Staged, Batch, Brought, Applying, Restoring
  <1>34. CASE PlaceInstall
    BY <1>34, ContentAssumption, CopyIs, ReleasesAssumption
       DEF PlaceInstall, Located, Unowed, InBatch, Booked, Unrepeated, Typed, TransactionFree,
           Go, work, Exact, request, Leave, history, Backup, Retained, Staged, Batch,
           Brought, Removing, Installing, Updated, WorldOK, RequestOK, UnitOK,
           HistoryOK, InPhase, Held, unit, NoStore, Drop, Applying, Restoring, Contents,
           Stores, OnOne, Take
  <1>35. CASE EnterInstall
    BY <1>35, ContentAssumption
       DEF EnterInstall, Located, Unowed, InBatch, Typed, Go, history, request, unit, Batch,
           InPhase, Applying, Restoring, Installing, Retained, Backup, Staged
  <1>36. CASE CommitInstall
    <2>1. CASE Leave
      BY <2>1, ContentAssumption
         DEF Located, Leave, Drop, Take, Batch, Applying, Restoring
    <2>2. CASE phase' = "take_back"
      BY <1>36, <2>2, ContentAssumption
         DEF CommitInstall, Located, Unowed, Exact, Leave, Typed, InPhase, Batch, Applying,
             Restoring, disk, work, request, unit
    <2> QED
      BY <1>36, <2>1, <2>2 DEF CommitInstall, Go
  <1>37. ASSUME NEW m \in Skills, ResetSkill(m) PROVE Located'
    BY <1>37, ContentAssumption, CopyIs, ReleasesAssumption
       DEF ResetSkill, Located, InBatch, Booked, Unrepeated, Typed, Removed, NoFault,
           Fault, work, Backup, Retained, Staged, Batch, Brought, Removing, Installing,
           Updated, InPhase, Faults, request, unit, Held
  <1>38. ASSUME NEW m \in Skills, NEW e \in Edits, UserEdit(m, e) PROVE Located'
    <2>1. /\ canon[m] \notin {Absent, e} /\ canon' = [canon EXCEPT ![m] = e]
          /\ <<m, canon[m]>> \notin owed' /\ \A o \in owed' : o \in owed \/ o = <<m, e>>
          /\ Unguarded(m) => <<m, e>> \notin owed'
          /\ UNCHANGED <<lock, copies, locals, store, phase, target, todo, receipts, at, old,
                         aside, after>>
      BY <1>38 DEF UserEdit, request, unit, work
    <2>2. CASE m # at
      <3>1. at \in Skills => canon'[at] = canon[at]
        BY <2>1, <2>2 DEF Typed, WorldOK
      <3>2. phase \in OnOne => at \in Skills
        BY DEF Typed, InPhase
      <3>3. \A c : <<at, c>> \in owed' => <<at, c>> \in owed
        BY <2>1, <2>2
      <3> QED
        BY <2>1, <3>1, <3>2, <3>3
           DEF Located, Unowed, InBatch, Backup, Retained, Staged, OnOne, Applying,
               Restoring, Removing, Installing
    <2>3. CASE m = at
      <3>1. canon'[at] = e /\ canon[at] \notin {Absent, e}
        BY <2>1, <2>3 DEF Typed, WorldOK
      <3>2. \A c : <<at, c>> \in owed' => <<at, c>> \in owed \/ c = e
        BY <2>1, <2>3
      <3>3. /\ Unowed(canon[at])' \/ ~Unguarded(m)
            /\ <<at, canon[at]>> \notin owed'
        BY <2>1, <2>3, <3>1 DEF Unowed
      <3> QED
        BY <2>1, <2>3, <3>1, <3>2, <3>3
           DEF Located, Unowed, Unguarded, InBatch, Backup, Retained, Staged
    <2> QED
      BY <2>2, <2>3
  <1>39. CASE Prune
    BY <1>39, ContentAssumption, CopyIs, ReleasesAssumption
       DEF Prune, Located, InBatch, Booked, Unrepeated, Typed, TransactionFree, GiveUp,
           OwedOf, disk, work, Backup, Retained, Staged, Batch, Brought, Removing,
           Installing, Updated, WorldOK, RequestOK, InPhase, unit, Applying, Restoring
  <1>40. ASSUME NEW d \in AllCopies, Sweep(d) PROVE Located'
    BY <1>40
       DEF Sweep, Located, InBatch, Booked, Unrepeated, Typed, TransactionFree, work,
           history, Backup, Retained, Staged, Batch, Brought, Removing, Installing,
           Updated, WorldOK, Held, request, unit
  <1>41. ASSUME NEW d \in AllCopies, Doctor(d) PROVE Located'
    BY <1>41
       DEF Doctor, Located, InBatch, Booked, Unrepeated, Typed, TransactionFree, work,
           history, Backup, Retained, Staged, Batch, Brought, Removing, Installing,
           Updated, WorldOK, Held, request, unit
  <1>42. CASE Crash
    BY <1>42, ContentAssumption, CopyIs, ReleasesAssumption
       DEF Crash, Located, InBatch, Booked, Unrepeated, Typed, Leave, Fault, disk,
           Backup, Retained, Staged, Batch, Brought, Removing, Installing, Updated,
           WorldOK, Drop, Nobody, Faults, Applying, Take
  <1>43. CASE TakeBack
    BY <1>43, ContentAssumption
       DEF TakeBack, Located, Leave, Drop, Take, Batch, Applying, Restoring
  <1>44. CASE InstallAborts
    <2>1. CASE Leave
      BY <2>1, ContentAssumption
         DEF Located, Leave, Drop, Take, Batch, Applying, Restoring
    <2>2. CASE phase' = "take_back"
      BY <1>44, <2>2, ContentAssumption
         DEF InstallAborts, Located, Unowed, GiveUp, Leave, Typed, InPhase, Batch, Applying,
             Restoring, disk, request, unit
    <2> QED
      BY <1>44, <2>1, <2>2 DEF InstallAborts, Go
  <1> QED
    BY <1>1, <1>2, <1>3, <1>4, <1>5, <1>6, <1>7, <1>8, <1>9, <1>10, <1>11, <1>12, <1>13,
       <1>14, <1>15, <1>16, <1>17, <1>18, <1>19, <1>20, <1>21, <1>22, <1>23, <1>24,
       <1>25, <1>26, <1>27, <1>28, <1>29, <1>30, <1>31, <1>32, <1>33, <1>34, <1>35,
       <1>36, <1>37, <1>38, <1>39, <1>40, <1>41, <1>42, <1>43, <1>44
       DEF Next, Working, Resetting

\* Nor does it leave a local copy to delete.
LEMMA SpareStops ==
    ASSUME Typed, Spare, NEW ok \in BOOLEAN, Stops(ok)
    PROVE  Spare'
  <1>1. phase' \in {"apply", "verify", "undo"} /\ after' = "none"
    BY RollbackLeaves DEF Stops
  <1>2. copied' = Absent
    BY DEF Stops, RollbackEnds, ItemFails, Drop, Take, Typed, InPhase
  <1> QED
    BY <1>1, <1>2 DEF Spare, Restoring

\* A local copy is remembered only while the folder, or what is to go back
\* there, is of the same content.
LEMMA SpareStep ==
    ASSUME Typed, Spare, Chosen, Hazards = {}, Next
    PROVE  Spare'
  <1>1. ASSUME NEW o \in Operations, Load(o) PROVE Spare'
    BY <1>1, ReleasesAssumption DEF Load, request, Spare, Typed, Go, unit, Restoring
  <1>2. CASE RemoteFails
    BY <1>2
       DEF RemoteFails, request, Spare, Typed, Leave, disk, history, Restoring, WorldOK,
           RequestOK, Drop, Take
  <1>3. CASE Refused
    BY <1>3
       DEF Refused, request, Spare, Typed, Leave, disk, history, Restoring, WorldOK, RequestOK,
           Drop, Take
  <1>4. ASSUME NEW r \in Releases, NEW R \in SUBSET Skills, NEW c0 \in ChoicesFor(R),
             PlanUpdate(r, c0, R)
      PROVE  Spare'
    BY <1>4
       DEF PlanUpdate, Spare, Typed, InPhase, OnOne, Applying, Removing, Installing, Plan,
           Restoring, Go, unit
  <1>5. ASSUME NEW r \in Releases, NEW R \in SUBSET Skills, NEW c0 \in ChoicesFor(R), NEW m \in Skills,
             PlanRollback(m, r, c0, R)
      PROVE  Spare'
    BY <1>5
       DEF PlanRollback, Spare, Typed, InPhase, OnOne, Applying, Removing, Installing, Plan,
           Restoring, Go, unit
  <1>6. ASSUME NEW m \in Skills, Fetch(m) PROVE Spare'
    BY <1>6 DEF Fetch, request, Spare, Take, Drop
  <1>7. ASSUME NEW m \in Skills, Verify(m) PROVE Spare'
    BY <1>7 DEF Verify, request, Spare, unit, Take
  <1>8. ASSUME NEW m \in Skills, Undo(m) PROVE Spare'
    BY <1>8 DEF Undo, request, Spare, Take
  <1>9. ASSUME NEW m \in Skills, Resume(m) PROVE Spare'
    BY <1>9
       DEF Resume, request, Spare, Typed, Leave, disk, history, Restoring, WorldOK, RequestOK,
           Drop, Take
  <1>10. CASE FetchFails
    BY <1>10
       DEF FetchFails, Spare, Typed, ItemFails, disk, request, history, Restoring,
           WorldOK, RequestOK, UnitOK, HistoryOK, Drop, Updated, Contents, Take
  <1>11. CASE KeepLocal
    BY <1>11, ContentAssumption, CopyIs, ReleasesAssumption
       DEF KeepLocal, Spare, Typed, TransactionFree, Replaceable, ItemFails, NoFault,
           Diverges, Go, unit, Preserve, Fault, request, history, Restoring, WorldOK,
           RequestOK, UnitOK, HistoryOK, InPhase, Held, Drop, Updated, Faults, Contents,
           Take
  <1>12. CASE Retain
    BY <1>12
       DEF Retain, request, Spare, Typed, Go, NoFault, LocalsWithout, ItemFails, Fault, Drop,
           Take
  <1>13. CASE SwapAside
    BY <1>13 DEF SwapAside, request, Spare, Typed, Go, work, unit
  <1>14. CASE Place
    BY <1>14 DEF Place, request, Spare, Typed, Go, work, history, unit
  <1>15. CASE Record
    BY <1>15 DEF Record, request, Spare, Typed, Backup, NoFault, Fault, Go, work, unit
  <1>16. CASE InstallFails
    BY <1>16
       DEF InstallFails, Spare, Typed, LocalsWithout, Retained, Backup, Fault, Faults,
           ItemFails, request, Restoring, WorldOK, Drop, Take
  <1>17. CASE Check
    BY <1>17 DEF Check, request, Spare, Typed, Drop, Go, NoFault, unit, Take
  <1>18. CASE RestoreAside
    <2>1. CASE Proceeds
      BY <1>18, <2>1, AsideDone DEF Restoring, Spare, request
    <2>2. CASE Stops(FALSE)
      BY <2>2, SpareStops
    <2> QED
      BY <1>18, <2>1, <2>2, AsideEffect
  <1>19. CASE PutBack
    <2>1. CASE Proceeds
      BY <1>19, <2>1, BackDone, ContentAssumption, CopyIs
         DEF Retained, Restoring, unit, Spare, request
    <2>2. CASE Stops(FALSE)
      BY <2>2, SpareStops
    <2> QED
      BY <1>19, <2>1, <2>2, BackEffect
  <1>20. CASE Relock
    BY <1>20, RelockEffect, SpareStops
  <1>21. CASE Revert
    <2>1. CASE Proceeds
      BY <1>21, <2>1, RevertDone, ContentAssumption, CopyIs
         DEF Retained, unit, Spare, request
    <2>2. CASE Stops(FALSE)
      BY <2>2, SpareStops
    <2> QED
      BY <1>21, <2>1, <2>2, RevertEffect
  <1>22. CASE Undone
    BY <1>22
       DEF Undone, request, Spare, Typed, Leave, StillWaived, disk, Restoring, WorldOK,
           RequestOK, Drop, Take
  <1>23. CASE AllApplied
    BY <1>23 DEF AllApplied, request, Spare, Go, unit, Restoring
  <1>24. CASE CommitFails
    BY <1>24
       DEF CommitFails, request, Spare, Typed, Fault, TransactionFree, Updated, Exact, NoFault,
           Go, unit, Restoring
  <1>25. CASE Commit
    BY <1>25
       DEF Commit, request, Spare, Typed, TransactionFree, Updated, Exact, GiveUp, Settled, Go,
           disk, work, NoFault, Restoring, WorldOK, RequestOK, UnitOK, unit
  <1>26. CASE Finalize
    BY <1>26 DEF Finalize, request, Spare, Typed, Fault, Leave, Drop, Take
  <1>27. ASSUME NEW m \in Skills, NEW c0 \in {"preserve", "discard"},
             PlanRemoval(m, c0)
      PROVE  Spare'
    BY <1>27 DEF PlanRemoval, request, Spare, Take
  <1>28. CASE Dismiss
    <2>1. at \in Skills /\ at # Absent /\ at \in resolved /\ copied = Absent
      BY <1>28, ContentAssumption DEF Dismiss, Chosen, Removing, Spare, Typed, InPhase, OnOne
    <2>2. CASE Leave
      BY <2>2 DEF Spare, Leave, Drop, Take, Restoring
    <2>3. CASE phase' = "stage"
      BY <1>28, <2>1, <2>3
         DEF Dismiss, Preserve, Leave, Spare, Restoring, Removing, Applying, request, Typed,
             InPhase
    <2> QED
      BY <1>28, <2>2, <2>3 DEF Dismiss, Go
  <1>29. CASE StageRemoval
    BY <1>29
       DEF StageRemoval, request, Spare, Typed, Staged, Go, NoFault, LocalsWithout, Leave, Drop,
           Take
  <1>30. CASE UnlockRemoval
    BY <1>30
       DEF UnlockRemoval, Spare, Typed, Go, work, NoFault, LocalsWithout, Leave,
           Unstaged, Fault, Faults, Restoring, request, unit, Drop, Take
  <1>31. CASE CommitRemoval
    BY <1>31, ContentAssumption, CopyIs, ReleasesAssumption
       DEF CommitRemoval, Spare, Typed, WithRow, GiveUp, Settled, Go, disk, work,
           NoFault, Unstaged, LocalsWithout, Leave, history, Fault, Faults, Restoring,
           WorldOK, RequestOK, UnitOK, HistoryOK, InPhase, request, unit, Staged, Drop,
           Contents, Take
  <1>32. CASE CleanRemoval
    BY <1>32
       DEF CleanRemoval, request, Spare, Typed, Staged, NoFault, Fault, Leave, history,
           Restoring, WorldOK, RequestOK, UnitOK, Drop, Take
  <1>33. ASSUME NEW m \in Skills, NEW r \in Releases, PlanInstall(m, r) PROVE Spare'
    BY <1>33 DEF PlanInstall, request, Spare, Take
  <1>34. CASE PlaceInstall
    BY <1>34
       DEF PlaceInstall, Spare, Typed, TransactionFree, Go, work, Exact, request, Leave,
           history, Restoring, WorldOK, RequestOK, UnitOK, HistoryOK, InPhase, Held,
           unit, NoStore, Drop, Take
  <1>35. CASE EnterInstall
    BY <1>35
       DEF EnterInstall, request, Spare, Typed, Go, Restoring, unit
  <1>36. CASE CommitInstall
    <2>1. CASE Leave
      BY <2>1 DEF Spare, Leave, Drop, Take, Restoring
    <2>2. CASE phase' = "take_back" /\ UNCHANGED <<resolved, unit>>
      BY <2>2 DEF Spare, unit, Restoring
    <2> QED
      BY <1>36, <2>1, <2>2 DEF CommitInstall, Go, work, request
  <1>37. ASSUME NEW m \in Skills, ResetSkill(m) PROVE Spare'
    BY <1>37
       DEF ResetSkill, Spare, Typed, Removed, NoFault, Fault, work, Restoring, WorldOK,
           RequestOK, UnitOK, HistoryOK, InPhase, Faults, request, unit, Held
  <1>38. ASSUME NEW m \in Skills, NEW e \in Edits, UserEdit(m, e) PROVE Spare'
    BY <1>38, ContentAssumption
       DEF UserEdit, Spare, Typed, WorldOK, work, unit, request
  <1>39. CASE Prune
    BY <1>39
       DEF Prune, request, Spare, Typed, TransactionFree, GiveUp, OwedOf, disk, work, Restoring,
           unit
  <1>40. ASSUME NEW d \in AllCopies, Sweep(d) PROVE Spare'
    BY <1>40 DEF Sweep, request, Spare, Typed, work, history, unit
  <1>41. ASSUME NEW d \in AllCopies, Doctor(d) PROVE Spare'
    BY <1>41 DEF Doctor, request, Spare, Typed, work, history, unit
  <1>42. CASE Crash
    BY <1>42
       DEF Crash, request, Spare, Typed, Leave, Fault, disk, Restoring, WorldOK, RequestOK,
           UnitOK, HistoryOK, InPhase, Drop, Take
  <1>43. CASE TakeBack
    BY <1>43 DEF TakeBack, Spare, Leave, Restoring, Drop, Take
  <1>44. CASE InstallAborts
    BY <1>44
       DEF InstallAborts, Spare, Typed, InPhase, Applying, Go, Leave, Restoring, Drop, Take,
           request, unit
  <1> QED
    BY <1>1, <1>2, <1>3, <1>4, <1>5, <1>6, <1>7, <1>8, <1>9, <1>10, <1>11, <1>12, <1>13,
       <1>14, <1>15, <1>16, <1>17, <1>18, <1>19, <1>20, <1>21, <1>22, <1>23, <1>24,
       <1>25, <1>26, <1>27, <1>28, <1>29, <1>30, <1>31, <1>32, <1>33, <1>34, <1>35,
       <1>36, <1>37, <1>38, <1>39, <1>40, <1>41, <1>42, <1>43, <1>44
       DEF Next, Working, Resetting

\* Nor anything of what was chosen for it.
LEMMA ChosenStops ==
    ASSUME Typed, Chosen, NEW ok \in BOOLEAN, Stops(ok), UNCHANGED <<request, owed, waived>>
    PROVE  Chosen'
  <1>1. phase' \in {"apply", "verify", "undo"} /\ after' = "none"
    BY RollbackLeaves DEF Stops
  <1> QED
    BY <1>1 DEF Chosen, Removing, Stops, request, OwedOf

\* An edit is met only after it was preserved or waived: what lands after the
\* choice lands where nothing was chosen, and what lands in an unguarded window
\* is not owed.
LEMMA ChosenStep ==
    ASSUME Typed, Unrepeated, Booked, Located, Spare, Chosen, Hazards = {}, Next
    PROVE  Chosen'
  <1>1. ASSUME NEW o \in Operations, Load(o) PROVE Chosen'
    <2>1. /\ phase = "none" /\ phase' = "remote"
          /\ UNCHANGED <<choice, resolved, resets, waived>>
          /\ \A e \in owed' : e \in owed \/ e[1] \notin resets
      BY <1>1 DEF Load, Go, Typed, InPhase
    <2>2. resolved = {} /\ \A n \in resets : OwedOf(n) = {}
      BY <2>1 DEF Chosen
    <2>3. \A n \in resets : OwedOf(n)' = {}
      BY <2>1, <2>2 DEF OwedOf
    <2> QED
      BY <2>1, <2>2, <2>3 DEF Chosen, Removing
  <1>2. CASE RemoteFails
    BY <1>2, ContentAssumption, CopyIs, ReleasesAssumption
       DEF RemoteFails, Chosen, Located, Unowed, Booked, Spare, Leave, history, OwedOf, Removing
  <1>3. CASE Refused
    BY <1>3, ContentAssumption, CopyIs, ReleasesAssumption
       DEF Refused, Chosen, Located, Unowed, Booked, Spare, Leave, history, OwedOf, Removing
  <1>4. ASSUME NEW r \in Releases, NEW R \in SUBSET Skills, NEW c0 \in ChoicesFor(R),
             PlanUpdate(r, c0, R)
      PROVE  Chosen'
    BY <1>4, ContentAssumption, CopyIs, ReleasesAssumption
       DEF PlanUpdate, Chosen, Located, Unowed, Booked, Spare, Typed, Diverges, ChoicesFor,
           Plan, OwedOf, Removing, Staged, Go
  <1>5. ASSUME NEW r \in Releases, NEW R \in SUBSET Skills, NEW c0 \in ChoicesFor(R), NEW m \in Skills,
             PlanRollback(m, r, c0, R)
      PROVE  Chosen'
    BY <1>5, ContentAssumption, CopyIs, ReleasesAssumption
       DEF PlanRollback, Chosen, Located, Unowed, Booked, Spare, Typed, ChoicesFor, Plan,
           OwedOf, Removing, Go
  <1>6. ASSUME NEW m \in Skills, Fetch(m) PROVE Chosen'
    BY <1>6, ContentAssumption, CopyIs, ReleasesAssumption
       DEF Fetch, Chosen, Located, Unowed, Booked, Spare, Typed, Replaceable, Take, Go, Drop,
           disk, request, history, OwedOf, Removing, Staged, LocalsWithout
  <1>7. ASSUME NEW m \in Skills, Verify(m) PROVE Chosen'
    BY <1>7, ContentAssumption, CopyIs, ReleasesAssumption
       DEF Verify, Chosen, Located, Unowed, Booked, Spare, Typed, Exact, unit, Take, Go, disk,
           request, history, OwedOf, Removing, Staged, LocalsWithout
  <1>8. ASSUME NEW m \in Skills, Undo(m) PROVE Chosen'
    BY <1>8, ContentAssumption, CopyIs, ReleasesAssumption
       DEF Undo, Chosen, Located, Unowed, Booked, Spare, Typed, Take, Go, disk, request,
           history, OwedOf, Wanted, Removing
  <1>9. ASSUME NEW m \in Skills, Resume(m) PROVE Chosen'
    BY <1>9, ContentAssumption, CopyIs, ReleasesAssumption
       DEF Resume, Chosen, Located, Unowed, Booked, Spare, Leave, history, OwedOf, Removing
  <1>10. CASE FetchFails
    BY <1>10, ContentAssumption, CopyIs, ReleasesAssumption
       DEF FetchFails, Chosen, Located, Unowed, Booked, Spare, Typed, ItemFails, disk, request,
           history, OwedOf, Removing, Go
  <1>11. CASE KeepLocal
    BY <1>11, ContentAssumption, CopyIs, ReleasesAssumption
       DEF KeepLocal, Chosen, Located, Unowed, Booked, Spare, Typed, TransactionFree,
           Replaceable, ItemFails, NoFault, Diverges, Go, unit, Preserve, Fault,
           request, history, OwedOf, Wanted, Removing, Staged, WorldOK, HistoryOK
  <1>12. CASE Retain
    BY <1>12, ContentAssumption, CopyIs, ReleasesAssumption
       DEF Retain, Chosen, Located, Unowed, Booked, Spare, Typed, Go, NoFault, LocalsWithout,
           ItemFails, Fault, request, history, OwedOf, Wanted, Removing
  <1>13. CASE SwapAside
    BY <1>13, ContentAssumption, CopyIs, ReleasesAssumption
       DEF SwapAside, Chosen, Located, Unowed, Booked, Spare, Typed, Backup, Go, work, history,
           NoFault, OwedOf, Wanted, Removing, Staged, request, unit
  <1>14. CASE Place
    BY <1>14, ContentAssumption, CopyIs, ReleasesAssumption
       DEF Place, Chosen, Located, Unowed, Booked, Spare, Typed, Go, work, history, OwedOf,
           Wanted, Removing, request, unit
  <1>15. CASE Record
    BY <1>15, ContentAssumption, CopyIs, ReleasesAssumption
       DEF Record, Chosen, Located, Unowed, Booked, Spare, Typed, Backup, NoFault, Fault, Go,
           work, history, OwedOf, Wanted, Removing, request, unit
  <1>16. CASE InstallFails
    BY <1>16, ContentAssumption, CopyIs, ReleasesAssumption
       DEF InstallFails, Chosen, Located, Unowed, Booked, Spare, Typed, LocalsWithout, Retained,
           Backup, Fault, Faults, ItemFails, request, OwedOf, Wanted, Removing, Staged,
           Go
  <1>17. CASE Check
    BY <1>17, ContentAssumption, CopyIs, ReleasesAssumption
       DEF Check, Chosen, Located, Unowed, Booked, Spare, Typed, Drop, Go, NoFault, unit, Fault,
           disk, request, OwedOf, Wanted, Removing, Staged, LocalsWithout, Backup,
           Retained, Batch, InBatch, Brought, Installing, WorldOK, Applying
  <1>18. CASE RestoreAside
    <2>1. CASE Proceeds
      BY <1>18, <2>1, AsideDone, ContentAssumption, CopyIs
         DEF Retained, Restoring, unit, request, Chosen, OwedOf, Removing
    <2>2. CASE Stops(FALSE)
      BY <1>18, <2>2, ChosenStops DEF RestoreAside
    <2> QED
      BY <1>18, <2>1, <2>2, AsideEffect
  <1>19. CASE PutBack
    <2>1. CASE Proceeds
      BY <1>19, <2>1, BackDone, ContentAssumption, CopyIs
         DEF Retained, Restoring, unit, request, Chosen, OwedOf, Removing
    <2>2. CASE Stops(FALSE)
      BY <1>19, <2>2, ChosenStops DEF PutBack
    <2> QED
      BY <1>19, <2>1, <2>2, BackEffect
  <1>20. CASE Relock
    BY <1>20, RelockEffect, ChosenStops DEF Relock
  <1>21. CASE Revert
    <2>1. CASE Proceeds
      BY <1>21, <2>1, RevertDone, ContentAssumption, CopyIs
         DEF Retained, Restoring, unit, request, Chosen, OwedOf, Removing
    <2>2. CASE Stops(FALSE)
      BY <1>21, <2>2, ChosenStops DEF Revert
    <2> QED
      BY <1>21, <2>1, <2>2, RevertEffect
  <1>22. CASE Undone
    BY <1>22, ContentAssumption, CopyIs, ReleasesAssumption
       DEF Undone, Chosen, Located, Unowed, Booked, Spare, Leave, OwedOf, Removing
  <1>23. CASE AllApplied
    BY <1>23, ContentAssumption, CopyIs, ReleasesAssumption
       DEF AllApplied, Chosen, Located, Unowed, Booked, Spare, Typed, Go, Updated, disk,
           request, history, OwedOf, Removing
  <1>24. CASE CommitFails
    BY <1>24, ContentAssumption, CopyIs, ReleasesAssumption
       DEF CommitFails, Chosen, Located, Unowed, Booked, Spare, Typed, Fault, TransactionFree,
           Updated, Exact, NoFault, Go, disk, request, unit, history, OwedOf, Removing,
           Staged, LocalsWithout, Backup
  <1>25. CASE Commit
    BY <1>25, ContentAssumption, CopyIs, ReleasesAssumption
       DEF Commit, Chosen, Located, Unowed, Booked, Spare, Typed, TransactionFree, Updated,
           Exact, GiveUp, Settled, Go, disk, work, NoFault, OwedOf, Wanted, Removing,
           Staged, LocalsWithout, Backup, request
  <1>26. CASE Finalize
    BY <1>26, ContentAssumption, CopyIs, ReleasesAssumption
       DEF Finalize, Chosen, Located, Unowed, Booked, Spare, Leave, OwedOf, Removing
  <1>27. ASSUME NEW m \in Skills, NEW c0 \in {"preserve", "discard"},
             PlanRemoval(m, c0)
      PROVE  Chosen'
    <2>1. /\ phase' = "dismiss" /\ at' = m /\ copied' = Absent
          /\ choice' = c0 /\ resolved' = {m} /\ UNCHANGED <<copies, locals, resets>>
          /\ owed' \subseteq owed
          /\ c0 = "discard" => OwedOf(m)' = {}
          /\ c0 = "preserve" => ~Unsaved(m)
      BY <1>27 DEF PlanRemoval, Take, Go, disk, GiveUp, OwedOf
    <2>2. \A n \in resets : OwedOf(n)' = {}
      BY <2>1 DEF Chosen, OwedOf
    <2>3. \A d \in Staged(m) : <<m, d.content>> \in owed' => <<m, d.content>> \in locals
      BY <2>1 DEF Unsaved, OwedOf
    <2>4. \A d \in Staged(m) : <<m, d.content>> \in owed' => <<m, d.content>> \in LocalsWithout(at)'
      <3>1. \A d \in Staged(m) : d.content # Absent
        BY ContentAssumption DEF Staged, Typed, WorldOK, AllCopies, Contents
      <3> QED
        BY <2>1, <2>3, <3>1 DEF LocalsWithout
    <2> QED
      BY <2>1, <2>2, <2>4 DEF Chosen, Removing, Staged, OwedOf
  <1>28. CASE Dismiss
    BY <1>28, ContentAssumption, CopyIs, ReleasesAssumption
       DEF Dismiss, Chosen, Located, Unowed, Booked, Spare, Typed, TransactionFree, Preserve,
           Go, request, NoFault, Leave, Fault, history, OwedOf, Removing, Staged,
           LocalsWithout, Backup, Retained, Batch
  <1>29. CASE StageRemoval
    BY <1>29, ContentAssumption, CopyIs, ReleasesAssumption
       DEF StageRemoval, Chosen, Located, Unowed, Booked, Spare, Typed, Staged, Go, NoFault,
           LocalsWithout, Leave, Fault, history, OwedOf, Removing
  <1>30. CASE UnlockRemoval
    BY <1>30, ContentAssumption, CopyIs, ReleasesAssumption
       DEF UnlockRemoval, Chosen, Located, Unowed, Booked, Spare, Typed, Go, work, NoFault,
           LocalsWithout, Leave, Unstaged, Fault, Faults, OwedOf, Wanted, Removing,
           Staged, Backup, Retained, Batch, request, unit
  <1>31. CASE CommitRemoval
    BY <1>31, ContentAssumption, CopyIs, ReleasesAssumption
       DEF CommitRemoval, Chosen, Located, Unowed, Booked, Spare, Typed, WithRow, GiveUp,
           Settled, Go, disk, work, NoFault, Unstaged, LocalsWithout, Leave, history,
           Fault, Faults, OwedOf, Wanted, Removing, Staged, Backup, Retained, request,
           unit
  <1>32. CASE CleanRemoval
    BY <1>32, ContentAssumption, CopyIs, ReleasesAssumption
       DEF CleanRemoval, Chosen, Located, Unowed, Booked, Spare, Typed, Staged, NoFault, Fault,
           Leave, history, OwedOf, Wanted, Removing
  <1>33. ASSUME NEW m \in Skills, NEW r \in Releases, PlanInstall(m, r) PROVE Chosen'
    BY <1>33, ContentAssumption, CopyIs, ReleasesAssumption
       DEF PlanInstall, Chosen, Located, Unowed, Booked, Spare, Go, history, OwedOf, Removing
  <1>34. CASE PlaceInstall
    BY <1>34, ContentAssumption, CopyIs, ReleasesAssumption
       DEF PlaceInstall, Chosen, Located, Unowed, Booked, Spare, Typed, TransactionFree, Go,
           work, Exact, request, Leave, history, OwedOf, Removing
  <1>35. CASE EnterInstall
    BY <1>35
       DEF EnterInstall, Chosen, Go, request, unit, history, OwedOf, Wanted, Removing, Staged,
           LocalsWithout
  <1>36. CASE CommitInstall
    <2>1. CASE Leave
      BY <1>36, <2>1
         DEF CommitInstall, Chosen, GiveUp, Settled, Leave, history, OwedOf, Removing
    <2>2. CASE phase' = "take_back" /\ UNCHANGED <<work, history>>
      BY <1>36, <2>2
         DEF CommitInstall, Chosen, work, request, unit, history, OwedOf, Wanted, Removing
    <2> QED
      BY <1>36, <2>1, <2>2 DEF CommitInstall, Go
  <1>37. ASSUME NEW m \in Skills, ResetSkill(m) PROVE Chosen'
    BY <1>37, ContentAssumption, CopyIs, ReleasesAssumption
       DEF ResetSkill, Chosen, Located, Unowed, Booked, Spare, Typed, Removed, NoFault, Fault,
           work, OwedOf, Wanted, Removing, Staged, LocalsWithout, Backup, Retained,
           Batch, WorldOK, RequestOK, UnitOK, HistoryOK, request, unit
  <1>38. ASSUME NEW m \in Skills, NEW e \in Edits, UserEdit(m, e) PROVE Chosen'
    <2>1. /\ canon[m] \notin {Absent, e} /\ canon' = [canon EXCEPT ![m] = e]
          /\ m \notin resolved
          /\ owed' = (owed \ {<<m, canon[m]>>, <<m, e>>}) \cup
                        (IF Unguarded(m) THEN {} ELSE {<<m, e>>})
          /\ waived' = waived \ {<<m, canon[m]>>, <<m, e>>}
          /\ UNCHANGED <<copies, locals, phase, choice, resolved, at, old, copied, resets>>
      BY <1>38 DEF UserEdit, request, unit, work
    <2>2. \A n \in Skills \ {m} : OwedOf(n)' = OwedOf(n) /\ canon'[n] = canon[n]
      BY <2>1 DEF OwedOf, Typed, WorldOK
    <2>3. CASE m # at
      <3>1. \A b : /\ <<at, b>> \in owed' <=> <<at, b>> \in owed
                   /\ <<at, b>> \in waived' <=> <<at, b>> \in waived
        BY <2>1, <2>3
      <3>2. phase \in {"retain", "swap", "place", "record", "check"} \cup Removing => at \in Skills
        BY DEF Typed, InPhase, OnOne, Applying
      <3>3. \A n \in resolved : OwedOf(n) \subseteq waived => OwedOf(n)' \subseteq waived'
        BY <2>1, <2>2 DEF OwedOf, Typed, RequestOK
      <3>4. m \in resets => Unguarded(m)
        BY DEF Unguarded
      <3>5. \A n \in resets : OwedOf(n)' = {}
        <4> SUFFICES ASSUME NEW n \in resets PROVE OwedOf(n)' = {}
          OBVIOUS
        <4>1. OwedOf(n) = {}
          BY DEF Chosen
        <4> QED
          BY <2>1, <3>4, <4>1 DEF OwedOf
      <3> QED
        BY <2>1, <2>2, <2>3, <3>1, <3>2, <3>3, <3>5
           DEF Chosen, Wanted, Staged, LocalsWithout, Removing
    <2>4. CASE m = at
      <3>1. phase \notin Removing
        BY <2>1, <2>4 DEF Chosen
      <3>2. phase # "place"
        BY <2>1, <2>4 DEF Located
      <3>3. phase \in {"retain", "swap", "record", "check"} => Unguarded(m)
        BY <2>4 DEF Unguarded
      <3>4. \A n \in resolved : OwedOf(n) \subseteq waived => OwedOf(n)' \subseteq waived'
        BY <2>1, <2>2 DEF OwedOf, Typed, RequestOK
      <3>5. \A n \in resets : OwedOf(n)' = {}
        <4> SUFFICES ASSUME NEW n \in resets PROVE OwedOf(n)' = {}
          OBVIOUS
        <4>1. OwedOf(n) = {}
          BY DEF Chosen
        <4>2. m \in resets => Unguarded(m)
          BY DEF Unguarded
        <4> QED
          BY <2>1, <4>1, <4>2 DEF OwedOf
      <3>6. canon'[at] = e
        BY <2>1, <2>4 DEF Typed, WorldOK
      <3>7. phase \in {"retain", "swap", "record", "check"} =>
              \A b : <<at, b>> \in owed' => /\ <<at, b>> \in owed /\ b # e
                                            /\ <<at, b>> \in waived => <<at, b>> \in waived'
        BY <2>1, <2>4, <3>3
      <3> QED
        BY <2>1, <3>1, <3>2, <3>4, <3>5, <3>6, <3>7 DEF Chosen, Wanted, Removing
    <2> QED
      BY <2>3, <2>4
  <1>39. CASE Prune
    BY <1>39, ContentAssumption, CopyIs, ReleasesAssumption
       DEF Prune, Chosen, Located, Unowed, Booked, Spare, Typed, TransactionFree, GiveUp,
           OwedOf, work, Wanted, Removing, Staged, LocalsWithout, InPhase, request
  <1>40. ASSUME NEW d \in AllCopies, Sweep(d) PROVE Chosen'
    BY <1>40, ContentAssumption, CopyIs, ReleasesAssumption
       DEF Sweep, Chosen, Located, Unowed, Booked, Spare, Typed, TransactionFree, work, history,
           OwedOf, Wanted, Removing, Staged, LocalsWithout, Backup, request, unit
  <1>41. ASSUME NEW d \in AllCopies, Doctor(d) PROVE Chosen'
    BY <1>41, ContentAssumption, CopyIs, ReleasesAssumption
       DEF Doctor, Chosen, Located, Unowed, Booked, Spare, Typed, TransactionFree, work,
           history, OwedOf, Wanted, Removing, Staged, LocalsWithout, Backup, Held,
           request, unit
  <1>42. CASE Crash
    BY <1>42, ContentAssumption, CopyIs, ReleasesAssumption
       DEF Crash, Chosen, Located, Unowed, Booked, Spare, Leave, Removing
  <1>43. CASE TakeBack
    BY <1>43 DEF TakeBack, Chosen, Leave, OwedOf, Removing
  <1>44. CASE InstallAborts
    <2>1. CASE Leave
      BY <1>44, <2>1
         DEF InstallAborts, Chosen, GiveUp, Leave, OwedOf, Removing
    <2>2. CASE phase' = "take_back" /\ UNCHANGED <<request, unit>>
      BY <1>44, <2>2
         DEF InstallAborts, Chosen, GiveUp, request, unit, OwedOf, Wanted, Removing
    <2> QED
      BY <1>44, <2>1, <2>2 DEF InstallAborts, Go
  <1> QED
    BY <1>1, <1>2, <1>3, <1>4, <1>5, <1>6, <1>7, <1>8, <1>9, <1>10, <1>11, <1>12, <1>13,
       <1>14, <1>15, <1>16, <1>17, <1>18, <1>19, <1>20, <1>21, <1>22, <1>23, <1>24,
       <1>25, <1>26, <1>27, <1>28, <1>29, <1>30, <1>31, <1>32, <1>33, <1>34, <1>35,
       <1>36, <1>37, <1>38, <1>39, <1>40, <1>41, <1>42, <1>43, <1>44
       DEF Next, Working, Resetting

\* A rollback that ends leaves what is owed where it is, if its last call did.
LEMMA HoldsStops ==
    ASSUME Typed, NEW ok \in BOOLEAN, Stops(ok), UNCHANGED waived,
           NEW n \in Skills, NEW c \in Contents, Holds(n, c),
           Firm(n, c) => Firm(n, c)', Promised(n, c) /\ Retains(n, c) => Firm(n, c)' \/ Retains(n, c)'
    PROVE  Holds(n, c)'
  <1>1. /\ phase' \in {"apply", "verify", "undo"} /\ phase \in Batch
        /\ receipts'[n] # Absent => receipts'[n] = receipts[n]
        /\ UNCHANGED store
    BY RollbackLeaves DEF Stops, Batch, Typed, RequestOK
  <1>2. Promised(n, c)' => Promised(n, c)
    BY <1>1, ContentAssumption DEF Promised, Contents
  <1> QED
    BY <1>1, <1>2 DEF Holds, Restoring

\* Putting back what was aside takes a backup up into the folder, and nothing
\* that is there away: the folder was empty.
LEMMA BackStoppedKeeps ==
    ASSUME Typed, Located, PutBack, Stops(FALSE), NEW n \in Skills, NEW c \in Contents
    PROVE  /\ Firm(n, c) => Firm(n, c)'
           /\ Retains(n, c) => Retains(n, c)'
  <1>1. /\ UNCHANGED <<lock, store, locals>> /\ phase = "put_back" /\ canon[at] = Absent
        /\ at \in Skills /\ canon \in [Skills -> Contents \cup {Absent}]
    BY BackStopped DEF Stops, Located, Typed, InPhase, OnOne, Restoring, WorldOK
  <1>2. CASE UNCHANGED <<canon, copies>>
    BY <1>1, <1>2 DEF Firm, Retains
  <1>3. CASE /\ canon' = [canon EXCEPT ![at] = aside]
             /\ copies' = copies \ {Copy("backup", at, aside)}
    <2>1. canon'[at] = aside /\ \A m \in Skills \ {at} : canon'[m] = canon[m]
      BY <1>1, <1>3
    <2>2. \A k \in {"remove", "retain"} : Copy(k, n, c) \in copies => Copy(k, n, c) \in copies'
      BY <1>3, CopyIs
    <2>3. Copy("backup", n, c) \in copies => Copy("backup", n, c) \in copies' \/ (n = at /\ c = aside)
      BY <1>3 DEF Copy
    <2>4. canon[n] = c => canon'[n] = c
      BY <1>1, <2>1, ContentAssumption DEF Contents
    <2> QED
      BY <1>1, <2>1, <2>2, <2>3, <2>4 DEF Firm, Retains
  <1> QED
    BY <1>2, <1>3, BackStopped

\* Setting the lock back, and deleting the local copy that was made for the
\* failed step, leaves what the row describes and every edit.
LEMMA RelockKeeps ==
    ASSUME Typed, Unrepeated, Booked, Located, Spare, Relock, NEW n \in Skills, NEW c \in Contents,
           <<n, c>> \in owed
    PROVE  /\ Firm(n, c) => Firm(n, c)'
           /\ Holds(n, c) /\ Promised(n, c) /\ Retains(n, c) => Firm(n, c)' \/ Retains(n, c)'
  <1>1. /\ UNCHANGED <<canon, copies, store>> /\ phase = "relock"
        /\ canon[at] = old \/ <<at, old>> \notin owed
        /\ at \in Skills /\ lock \in [Skills -> Releases \cup {Absent}] /\ draft = store
        /\ copied \in {Absent, old}
    BY DEF Relock, Located, Unowed, Spare, Booked, Restoring, Typed, InPhase, OnOne, WorldOK
  <1>2. \/ locals' = locals
        \/ locals' = locals \ {<<at, copied>>} /\ canon[at] = old
    BY DEF Relock, LocalsWithout
  <1>3. Firm(n, c) => Firm(n, c)'
    BY <1>1, <1>2, ContentAssumption DEF Firm, Contents
  <1>4. lock' = lock \/ lock' = [lock EXCEPT ![at] = store.rows[at]]
    BY <1>1 DEF Relock
  <1>5. CASE n # at \/ lock' = lock
    <2>1. lock'[n] = lock[n]
      BY <1>1, <1>4, <1>5
    <2> QED
      BY <1>1, <1>3, <2>1 DEF Retains
  <1>6. CASE n = at /\ lock' = [lock EXCEPT ![at] = store.rows[at]]
    <2>1. after \in {"apply", "verify", "undo"} /\ (after = "apply" => receipts[at] = Absent)
          /\ (after # "apply" => old = receipts[at])
      BY <1>1 DEF Unrepeated, Located, Typed, InPhase, Restoring
    <2>2. Holds(n, c) /\ Promised(n, c) => Firm(n, c) \/ c = store.rows[n]
      BY <1>1, <1>6, <2>1, ContentAssumption
         DEF Holds, Promised, Restoring, Firm, Contents
    <2> QED
      BY <1>1, <1>3, <1>6, <2>2 DEF Retains
  <1> QED
    BY <1>3, <1>4, <1>5, <1>6

\* The step that matters: whatever runs, fails or sweeps next, a content that
\* is still owed is where Holds says.
LEMMA HoldsStep ==
    ASSUME Typed, Unrepeated, Booked, Located, Spare, Chosen, Hazards = {}, Next,
           NEW n \in Skills, NEW c \in Contents, <<n, c>> \in owed => Holds(n, c),
           <<n, c>> \in owed'
    PROVE  Holds(n, c)'
  <1>1. ASSUME NEW o \in Operations, Load(o) PROVE Holds(n, c)'
    <2>1. /\ phase = "none" /\ phase' = "remote" /\ receipts = Nobody
          /\ <<n, c>> \in owed \/ canon[n] = c
          /\ UNCHANGED <<canon, lock, copies, locals, store, receipts, waived>>
      BY <1>1 DEF Load, Go, disk, Typed, InPhase, Batch, Applying, Restoring
    <2> QED
      BY <2>1 DEF Holds, Promised, Firm, Retains, Batch, Applying, Restoring
  <1>2. CASE RemoteFails
    BY <1>2, ContentAssumption, CopyIs, ReleasesAssumption
       DEF RemoteFails, Holds, Chosen, Located, Unowed, Booked, Unrepeated, Spare, Typed, Leave,
           disk, history, Promised, Firm, Retains, Batch, Restoring, OwedOf, Wanted,
           Removing, Staged, LocalsWithout, Backup, Retained, InBatch, RequestOK,
           InPhase, Applying
  <1>3. CASE Refused
    BY <1>3, ContentAssumption, CopyIs, ReleasesAssumption
       DEF Refused, Holds, Chosen, Located, Unowed, Booked, Unrepeated, Spare, Typed, Leave,
           disk, history, Promised, Firm, Retains, Batch, Restoring, OwedOf, Wanted,
           Removing, Staged, LocalsWithout, Backup, Retained, InBatch, RequestOK,
           InPhase, Applying
  <1>4. ASSUME NEW r \in Releases, NEW R \in SUBSET Skills, NEW c0 \in ChoicesFor(R),
             PlanUpdate(r, c0, R)
      PROVE  Holds(n, c)'
    BY <1>4, ContentAssumption, CopyIs, ReleasesAssumption
       DEF PlanUpdate, Holds, Chosen, Located, Unowed, Booked, Unrepeated, Spare, Typed,
           Diverges, ChoicesFor, Plan, Promised, Firm, Retains, Batch, Restoring,
           OwedOf, Wanted, Removing, Staged, LocalsWithout, Backup, Retained, InBatch,
           Brought, Installing, Updated, WorldOK, RequestOK, InPhase, Go, disk, Nobody,
           Held
  <1>5. ASSUME NEW r \in Releases, NEW R \in SUBSET Skills, NEW c0 \in ChoicesFor(R), NEW m \in Skills,
             PlanRollback(m, r, c0, R)
      PROVE  Holds(n, c)'
    BY <1>5, ContentAssumption, CopyIs, ReleasesAssumption
       DEF PlanRollback, Holds, Chosen, Located, Unowed, Booked, Unrepeated, Spare, Typed,
           ChoicesFor, Plan, Promised, Firm, Retains, Batch, Restoring, OwedOf, Wanted,
           Removing, Staged, LocalsWithout, Backup, Retained, InBatch, Brought, UnitOK,
           InPhase, Go, disk, Nobody
  <1>6. ASSUME NEW m \in Skills, Fetch(m) PROVE Holds(n, c)'
    BY <1>6, ContentAssumption, CopyIs, ReleasesAssumption
       DEF Fetch, Holds, Chosen, Located, Unowed, Booked, Unrepeated, Spare, Typed, Replaceable,
           Take, Go, Drop, disk, request, history, Promised, Firm, Retains, Batch,
           Restoring, OwedOf
  <1>7. ASSUME NEW m \in Skills, Verify(m) PROVE Holds(n, c)'
    BY <1>7, ContentAssumption, CopyIs, ReleasesAssumption
       DEF Verify, Holds, Chosen, Located, Unowed, Booked, Unrepeated, Spare, Typed, Exact,
           unit, Take, Go, disk, request, history, Promised, Firm, Retains, Batch,
           Restoring, OwedOf
  <1>8. ASSUME NEW m \in Skills, Undo(m) PROVE Holds(n, c)'
    BY <1>8, ContentAssumption, CopyIs, ReleasesAssumption
       DEF Undo, Holds, Chosen, Located, Unowed, Booked, Unrepeated, Spare, Typed, Take, Go,
           disk, request, history, Promised, Firm, Retains, Batch, Restoring, OwedOf,
           Wanted, Removing
  <1>9. ASSUME NEW m \in Skills, Resume(m) PROVE Holds(n, c)'
    BY <1>9, ContentAssumption, CopyIs, ReleasesAssumption
       DEF Resume, Holds, Chosen, Located, Unowed, Booked, Unrepeated, Spare, Typed, Leave,
           disk, history, Promised, Firm, Retains, Batch, Restoring, OwedOf, Wanted,
           Removing, Staged, LocalsWithout, Backup, Retained, InBatch, RequestOK,
           InPhase, Applying
  <1>10. CASE FetchFails
    BY <1>10, ContentAssumption, CopyIs, ReleasesAssumption
       DEF FetchFails, Holds, Chosen, Located, Unowed, Booked, Unrepeated, Spare, Typed,
           ItemFails, disk, request, history, Promised, Firm, Retains, Batch, Restoring,
           OwedOf, Wanted, Removing, Staged, LocalsWithout, Backup, Retained, InBatch,
           Brought, Installing, Updated, WorldOK, InPhase, Go, Nobody, Held, Take
  <1>11. CASE KeepLocal
    BY <1>11, ContentAssumption, CopyIs, ReleasesAssumption
       DEF KeepLocal, Holds, Chosen, Located, Unowed, Booked, Unrepeated, Spare, Typed,
           TransactionFree, Replaceable, ItemFails, NoFault, Diverges, Go, unit,
           Preserve, Fault, request, history, Promised, Firm, Retains, Batch, Restoring,
           OwedOf, Wanted, Removing, Staged, LocalsWithout, InPhase, Held, Nobody
  <1>12. CASE Retain
    BY <1>12, ContentAssumption, CopyIs, ReleasesAssumption
       DEF Retain, Holds, Chosen, Located, Unowed, Booked, Unrepeated, Spare, Typed, Go,
           NoFault, LocalsWithout, ItemFails, Fault, request, history, Promised, Firm,
           Retains, Batch, Restoring, OwedOf, Wanted, Removing, Staged, Backup,
           Retained, InBatch, Brought, Installing, Updated, WorldOK, RequestOK, UnitOK,
           InPhase, Contents, Nobody, Held, Take
  <1>13. CASE SwapAside
    BY <1>13, ContentAssumption, CopyIs, ReleasesAssumption
       DEF SwapAside, Holds, Chosen, Located, Unowed, Booked, Unrepeated, Spare, Typed, Backup,
           Go, work, history, NoFault, Promised, Firm, Retains, Batch, Restoring,
           OwedOf, Wanted, Removing, Staged, LocalsWithout, Retained, WorldOK, InPhase,
           Nobody
  <1>14. CASE Place
    BY <1>14, ContentAssumption, CopyIs, ReleasesAssumption
       DEF Place, Holds, Chosen, Located, Unowed, Booked, Unrepeated, Spare, Typed, Go, work,
           history, NoFault, Promised, Firm, Retains, Batch, Restoring, OwedOf, Wanted,
           Removing, Staged, LocalsWithout, Backup, Retained, InBatch, Brought,
           Installing, Updated, WorldOK, InPhase, Contents, Nobody, Held
  <1>15. CASE Record
    BY <1>15, ContentAssumption, CopyIs, ReleasesAssumption
       DEF Record, Holds, Chosen, Located, Unowed, Booked, Unrepeated, Spare, Typed, Backup,
           NoFault, Fault, Go, work, history, Promised, Firm, Retains, Batch, Restoring,
           OwedOf, Wanted, Removing, Staged, LocalsWithout, Retained, InBatch, Brought,
           Installing, Updated, WorldOK, RequestOK, UnitOK, HistoryOK, InPhase, unit,
           OnOne, Nobody
  <1>16. CASE InstallFails
    <2>1. /\ phase \in {"swap", "place", "record"} /\ at \in Skills /\ phase \in Batch
          /\ canon \in [Skills -> Contents \cup {Absent}] /\ ItemFails(FALSE)
          /\ UNCHANGED <<lock, store, receipts, owed, waived>>
          /\ <<n, c>> \in owed /\ Holds(n, c)
      BY <1>16 DEF InstallFails, Typed, InPhase, OnOne, Applying, Batch, WorldOK
    <2>2. /\ phase' \in {"apply", "undo"} /\ receipts[at] = Absent
          /\ copied \in {Absent, old} /\ store.rows[at] # target /\ target \in Releases
      BY <2>1, FailTyped DEF Unrepeated, Spare, Located, InBatch, Typed, InPhase, Applying
    <2>3. /\ phase = "place" => canon[at] = Absent
          /\ phase = "swap" => canon[at] = old \/ (Unowed(old) /\ Unowed(canon[at]))
          /\ phase # "swap" => aside = old \/ (Unowed(old) /\ Unowed(aside))
          /\ phase = "record" => canon[at] = target \/ Unowed(canon[at])
          /\ phase # "swap" => Backup \in copies
          /\ phase = "swap" => aside = Absent
      BY <2>1 DEF Located
    <2>4. CASE n # at
      <3>1. Firm(n, c) <=> Firm(n, c)'
        <4>1. canon'[n] = canon[n] /\ (<<n, c>> \in locals' <=> <<n, c>> \in locals)
          BY <1>16, <2>1, <2>4 DEF InstallFails, LocalsWithout
        <4>2. \A j : Copy(j, n, c) # Retained /\ Copy(j, n, c) # Backup
          BY <2>4, CopyIs DEF Retained, Backup
        <4> QED
          BY <1>16, <4>1, <4>2 DEF InstallFails, Firm
      <3>2. Retains(n, c) <=> Retains(n, c)'
        BY <1>16, <2>1, <2>4, CopyIs DEF InstallFails, Retains, Retained, Backup
      <3> QED
        BY <2>1, <2>2, <3>1, <3>2 DEF Holds, Promised, Restoring, Batch
    <2>5. CASE n = at
      <3>1. CASE /\ canon' = IF phase = "swap" THEN canon ELSE [canon EXCEPT ![at] = aside]
                 /\ copies' = copies \ {Retained, Backup}
        <4>1. /\ phase = "swap" => canon'[n] = canon[n]
              /\ phase # "swap" => canon'[n] = aside
          BY <2>1, <2>5, <3>1
        <4>2. c = old => canon'[n] = c
          BY <2>1, <2>3, <2>5, <4>1 DEF Unowed
        <4>3. canon[n] = c /\ c # target => canon'[n] = c
          BY <2>1, <2>3, <2>5, <4>1, ContentAssumption DEF Unowed, Contents
        <4>4. \A j \in {"backup", "remove"} :
                Copy(j, n, c) \in copies => Copy(j, n, c) \in copies' \/ canon'[n] = c
          <5>1. phase = "swap" => \A j : Copy(j, n, c) # Backup
            BY <2>3, CopyIs, ContentAssumption DEF Backup, Contents
          <5> QED
            BY <2>1, <2>5, <3>1, <4>1, <5>1, CopyIs DEF Backup, Retained
        <4>5. Copy("retain", n, c) \in copies => Copy("retain", n, c) \in copies' \/ canon'[n] = c
          BY <2>5, <3>1, <4>2, CopyIs DEF Backup, Retained
        <4>6. <<n, c>> \in locals => <<n, c>> \in locals' \/ canon'[n] = c
          BY <1>16, <2>2, <4>2, ContentAssumption DEF InstallFails, LocalsWithout, Contents
        <4>7. c # target => (Firm(n, c) => Firm(n, c)')
          BY <4>3, <4>4, <4>6 DEF Firm
        <4>8. Retains(n, c) => Firm(n, c)' \/ Retains(n, c)'
          BY <2>1, <4>5 DEF Firm, Retains
        <4> QED
          BY <2>1, <2>2, <2>5, <4>7, <4>8, ContentAssumption DEF Holds, Promised, Restoring
      <3>2. CASE /\ phase # "swap"
                 /\ canon' \in {canon, [canon EXCEPT ![at] = Absent]}
                 /\ copies' = copies \ {Retained}
        <4>1. Backup \in copies'
          BY <2>3, <3>2, CopyIs DEF Backup, Retained
        <4>2. c = old => Firm(n, c)'
          BY <2>1, <2>3, <2>5, <3>2, <4>1 DEF Unowed, Firm, Backup
        <4>3. c # target => canon[n] # c
          BY <2>1, <2>3, <2>5, <3>2, ContentAssumption DEF Unowed, Contents
        <4>4. \A j \in {"backup", "remove"} : Copy(j, n, c) \in copies => Copy(j, n, c) \in copies'
          BY <3>2, CopyIs DEF Retained
        <4>5. Copy("retain", n, c) \in copies => Copy("retain", n, c) \in copies' \/ c = old
          BY <2>5, <3>2, CopyIs DEF Retained
        <4>6. <<n, c>> \in locals => <<n, c>> \in locals' \/ c = old
          BY <1>16, <2>2, ContentAssumption DEF InstallFails, LocalsWithout, Contents
        <4>7. c # target => (Firm(n, c) => Firm(n, c)')
          BY <4>2, <4>3, <4>4, <4>6 DEF Firm
        <4>8. Retains(n, c) => Firm(n, c)' \/ Retains(n, c)'
          BY <2>1, <4>2, <4>5 DEF Retains
        <4> QED
          BY <2>1, <2>2, <2>5, <4>7, <4>8, ContentAssumption DEF Holds, Promised, Restoring
      <3> QED
        BY <1>16, <3>1, <3>2 DEF InstallFails
    <2> QED
      BY <2>4, <2>5
  <1>17. CASE Check
    BY <1>17, ContentAssumption, CopyIs, ReleasesAssumption
       DEF Check, Holds, Chosen, Located, Unowed, Booked, Unrepeated, Spare, Typed, Drop, Go,
           NoFault, unit, Fault, disk, request, Promised, Firm, Retains, Batch,
           Restoring, OwedOf, Wanted, Removing, Staged, LocalsWithout, Backup, Retained,
           InBatch, Brought, Installing, Updated, WorldOK, RequestOK, InPhase, Take,
           OnOne, Nobody
  <1>18. CASE RestoreAside
    <2> <<n, c>> \in owed /\ Holds(n, c)
      BY <1>18 DEF RestoreAside
    <2>1. CASE Proceeds
      BY <1>18, <2>1, AsideDone, ContentAssumption, CopyIs
         DEF Retained, Restoring, unit, request, Holds, Chosen, Located, Unowed, Booked,
             Unrepeated, Spare, Typed, Promised, Firm, Retains, Batch, OwedOf, Wanted,
             WorldOK
    <2>2. CASE Stops(FALSE)
      <3>1. /\ UNCHANGED waived /\ (Firm(n, c) => Firm(n, c)')
            /\ Retains(n, c) => Firm(n, c)' \/ Retains(n, c)'
        BY <1>18, <2>2, AsideStopped, ContentAssumption, CopyIs
           DEF Firm, Retains, Located, WorldOK, UnitOK, InPhase, Backup, Retained,
               Staged, Batch, InBatch, Contents, Stores, OnOne, Nobody, Installing,
               Applying, Restoring, Held, Removing, Typed, Stops
      <3> QED
        BY <1>18, <2>2, <3>1, HoldsStops
    <2> QED
      BY <1>18, <2>1, <2>2, AsideEffect
  <1>19. CASE PutBack
    <2> <<n, c>> \in owed /\ Holds(n, c)
      BY <1>19 DEF PutBack
    <2>1. CASE Proceeds
      BY <1>19, <2>1, BackDone, ContentAssumption, CopyIs
         DEF Retained, Restoring, unit, request, Holds, Chosen, Located, Unowed, Booked,
             Unrepeated, Spare, Typed, Promised, Firm, Retains, Batch, OwedOf, Wanted,
             Removing, Staged, LocalsWithout, Backup, InBatch, Brought, Installing,
             Updated, WorldOK, InPhase, Contents
    <2>2. CASE Stops(FALSE)
      BY <1>19, <2>2, BackStopped, BackStoppedKeeps, HoldsStops
    <2> QED
      BY <1>19, <2>1, <2>2, BackEffect
  <1>20. CASE Relock
    <2> <<n, c>> \in owed /\ Holds(n, c)
      BY <1>20 DEF Relock
    <2>1. PICK ok \in BOOLEAN : Stops(ok)
      BY <1>20, RelockEffect
    <2> QED
      BY <1>20, <2>1, RelockKeeps, HoldsStops DEF Relock
  <1>21. CASE Revert
    <2> <<n, c>> \in owed /\ Holds(n, c)
      BY <1>21 DEF Revert
    <2>1. CASE Proceeds
      BY <1>21, <2>1, RevertDone, ContentAssumption, CopyIs
         DEF Retained, Restoring, unit, request, Holds, Chosen, Located, Unowed, Booked,
             Unrepeated, Spare, Typed, Promised, Firm, Retains, Batch, OwedOf, Wanted,
             InPhase
    <2>2. CASE Stops(FALSE)
      <3>1. /\ UNCHANGED waived /\ (Firm(n, c) => Firm(n, c)')
            /\ Retains(n, c) => Firm(n, c)' \/ Retains(n, c)'
        BY <1>21, <2>2, RevertStopped, ContentAssumption, CopyIs
           DEF Firm, Retains, Located, WorldOK, UnitOK, InPhase, Backup, Retained,
               Staged, Batch, InBatch, Contents, Stores, OnOne, Nobody, Installing,
               Applying, Restoring, Held, Removing, Typed, Stops
      <3> QED
        BY <1>21, <2>2, <3>1, HoldsStops
    <2> QED
      BY <1>21, <2>1, <2>2, RevertEffect
  <1>22. CASE Undone
    BY <1>22, ContentAssumption, CopyIs, ReleasesAssumption
       DEF Undone, Holds, Chosen, Located, Unowed, Booked, Unrepeated, Spare, Typed, Leave,
           StillWaived, disk, Promised, Firm, Retains, Batch, Restoring, OwedOf, Wanted,
           Removing, Staged, LocalsWithout, Backup, Retained, InBatch, Brought,
           Installing, Updated, WorldOK, RequestOK, InPhase, NoStore, Nobody, Contents
  <1>23. CASE AllApplied
    BY <1>23, ContentAssumption, CopyIs, ReleasesAssumption
       DEF AllApplied, Holds, Chosen, Located, Unowed, Booked, Unrepeated, Spare, Typed, Go,
           Updated, disk, request, unit, history, Promised, Firm, Retains, Batch,
           Restoring, OwedOf, Wanted
  <1>24. CASE CommitFails
    BY <1>24, ContentAssumption, CopyIs, ReleasesAssumption
       DEF CommitFails, Holds, Chosen, Located, Unowed, Booked, Unrepeated, Spare, Typed, Fault,
           TransactionFree, Updated, Exact, NoFault, Go, disk, request, unit, history,
           Promised, Firm, Retains, Batch, Restoring
  <1>25. CASE Commit
    BY <1>25, ContentAssumption, CopyIs, ReleasesAssumption
       DEF Commit, Holds, Chosen, Located, Unowed, Booked, Unrepeated, Spare, Typed,
           TransactionFree, Updated, Exact, GiveUp, Settled, Go, disk, work, NoFault,
           Promised, Firm, Retains, Batch, Restoring, OwedOf, Wanted, Removing, Staged,
           LocalsWithout, WorldOK, RequestOK, InPhase, Contents
  <1>26. CASE Finalize
    BY <1>26, ContentAssumption, CopyIs, ReleasesAssumption
       DEF Finalize, Holds, Chosen, Located, Unowed, Booked, Unrepeated, Spare, Typed, NoFault,
           Fault, Leave, StillWaived, Promised, Firm, Retains, Batch, Restoring, OwedOf,
           Wanted, Removing, Staged, Nobody, Contents
  <1>27. ASSUME NEW m \in Skills, NEW c0 \in {"preserve", "discard"},
             PlanRemoval(m, c0)
      PROVE  Holds(n, c)'
    BY <1>27, ContentAssumption, CopyIs, ReleasesAssumption
       DEF PlanRemoval, Holds, Chosen, Located, Unowed, Booked, Unrepeated, Spare, Typed,
           Unsaved, GiveUp, OwedOf, Take, Go, disk, Promised, Firm, Retains, Batch,
           Restoring, Wanted, Removing, Applying
  <1>28. CASE Dismiss
    BY <1>28, ContentAssumption, CopyIs, ReleasesAssumption
       DEF Dismiss, Holds, Chosen, Located, Unowed, Booked, Unrepeated, Spare, Typed,
           TransactionFree, Preserve, Go, request, NoFault, Leave, Fault, history,
           Promised, Firm, Retains, Batch, Restoring, InPhase, Applying
  <1>29. CASE StageRemoval
    BY <1>29, ContentAssumption, CopyIs, ReleasesAssumption
       DEF StageRemoval, Holds, Chosen, Located, Unowed, Booked, Unrepeated, Spare, Typed,
           Staged, Go, NoFault, LocalsWithout, Leave, Fault, history, Promised, Firm,
           Retains, Batch, Restoring, OwedOf, Wanted, Removing, Backup, Retained,
           InBatch, Brought, Installing, Updated, WorldOK, RequestOK, UnitOK, HistoryOK,
           InPhase, Nobody, Contents
  <1>30. CASE UnlockRemoval
    <2>1. CASE /\ lock' = [lock EXCEPT ![at] = Absent] /\ Go("commit")
               /\ UNCHANGED <<canon, copies, locals, op, work, clean>>
      BY <1>30, <2>1, ContentAssumption, CopyIs
         DEF UnlockRemoval, Holds, Chosen, Located, Unowed, Booked, Unrepeated, Spare, Typed,
             Go, work, NoFault, LocalsWithout, Leave, Unstaged, Fault, Faults, Promised,
             Firm, Retains, Batch, Restoring, OwedOf, Wanted, Removing, Staged, Backup,
             Retained, InBatch, Brought, Installing, Updated, WorldOK, RequestOK,
             UnitOK, request, unit, Applying
    <2>2. CASE /\ Leave /\ UNCHANGED lock /\ locals' = LocalsWithout(at)
               /\ Unstaged
      BY <1>30, <2>2, ContentAssumption, CopyIs
         DEF UnlockRemoval, Holds, Chosen, Located, Unowed, Booked, Unrepeated, Spare, Typed,
             Go, work, NoFault, LocalsWithout, Leave, Unstaged, Fault, Faults, Promised,
             Firm, Retains, Batch, Restoring, OwedOf, Wanted, Removing, Staged, Backup,
             Retained, InBatch, Brought, Installing, Updated, WorldOK, RequestOK,
             UnitOK, HistoryOK, InPhase, request, unit, Applying, Contents
    <2>3. CASE /\ Leave /\ UNCHANGED lock /\ locals' = LocalsWithout(at)
               /\ old # Absent /\ UNCHANGED <<canon, copies>>
      BY <1>30, <2>3, ContentAssumption, CopyIs
         DEF UnlockRemoval, Holds, Chosen, Located, Unowed, Booked, Unrepeated, Spare, Typed,
             Go, work, NoFault, LocalsWithout, Leave, Unstaged, Fault, Faults, Promised,
             Firm, Retains, Batch, Restoring, OwedOf, Wanted, Removing, Staged, Backup,
             Retained, InBatch, UnitOK, HistoryOK, InPhase, Applying
    <2> QED
      BY <1>30, <2>1, <2>2, <2>3 DEF UnlockRemoval
  <1>31. CASE CommitRemoval
    BY <1>31, ContentAssumption, CopyIs, ReleasesAssumption
       DEF CommitRemoval, Holds, Chosen, Located, Unowed, Booked, Unrepeated, Spare, Typed,
           WithRow, GiveUp, Settled, Go, disk, work, NoFault, Unstaged, LocalsWithout,
           Leave, history, Fault, Faults, Promised, Firm, Retains, Batch, Restoring,
           OwedOf, Wanted, Removing, Staged, Backup, Retained, InBatch, Brought,
           Installing, Updated, WorldOK, RequestOK, UnitOK, HistoryOK, InPhase, Nobody,
           Contents, Stores, OnOne, Held, Take
  <1>32. CASE CleanRemoval
    BY <1>32, ContentAssumption, CopyIs, ReleasesAssumption
       DEF CleanRemoval, Holds, Chosen, Located, Unowed, Booked, Unrepeated, Spare, Typed,
           Staged, NoFault, Fault, Leave, history, Promised, Firm, Retains, Batch,
           Restoring, OwedOf, Wanted, Removing, Brought, Installing, InPhase, Faults,
           Applying
  <1>33. ASSUME NEW m \in Skills, NEW r \in Releases,
             PlanInstall(m, r)
      PROVE  Holds(n, c)'
    BY <1>33, ContentAssumption, CopyIs, ReleasesAssumption
       DEF PlanInstall, Holds, Chosen, Located, Unowed, Booked, Unrepeated, Spare, Typed, Take,
           Go, disk, history, Promised, Firm, Retains, Batch, Restoring, OwedOf, Wanted,
           Removing, Staged, LocalsWithout, Backup, Retained, WorldOK, InPhase, Nobody
  <1>34. CASE PlaceInstall
    BY <1>34, ContentAssumption, CopyIs, ReleasesAssumption
       DEF PlaceInstall, Holds, Chosen, Located, Unowed, Booked, Unrepeated, Spare, Typed,
           TransactionFree, Go, work, Exact, request, Leave, history, Promised, Firm,
           Retains, Batch, Restoring, OwedOf, Wanted, Removing, Staged, LocalsWithout,
           Backup, Retained, InBatch, Brought, Installing, Updated, WorldOK, RequestOK,
           InPhase, Held, Applying, Contents
  <1>35. CASE EnterInstall
    <2>1. /\ n = at => store.rows[n] = Absent
          /\ \A m \in Skills \ {at} : lock'[m] = lock[m]
          /\ phase = "entry" /\ phase' \in {"added", "take_back"} /\ receipts = Nobody
          /\ UNCHANGED <<canon, copies, locals, store, receipts, owed, waived>>
      BY <1>35
         DEF EnterInstall, Go, history, Booked, Installing, Typed, InPhase, WorldOK, Batch,
             Applying, Restoring
    <2> QED
      BY <2>1 DEF Holds, Promised, Firm, Retains, Batch, Applying, Restoring
  <1>36. CASE CommitInstall
    <2>1. /\ phase = "added" /\ UNCHANGED disk /\ receipts = Nobody /\ receipts' = Nobody
          /\ phase' \in {"none", "take_back"} /\ at \in Skills
          /\ <<n, c>> \in owed /\ (<<n, c>> \in waived => <<n, c>> \in waived')
      BY <1>36
         DEF CommitInstall, Go, Leave, work, history, GiveUp, Typed, InPhase, OnOne, Installing,
             Batch, Applying, Restoring
    <2>2. CASE UNCHANGED store
      BY <2>1, <2>2 DEF Holds, Promised, Firm, Retains, Batch, Applying, Restoring, disk, Nobody
    <2>3. CASE store' = WithRow(draft, at, target) /\ Exact(at) /\ GiveUp(Settled({at}))
      <3>1. draft = store /\ store.rows[at] = Absent /\ store \in Stores
        BY <2>1 DEF Booked, Typed, InPhase, Installing, WorldOK
      <3>2. /\ store'.rows[at] = target /\ lock[at] = target
            /\ \A m \in Skills \ {at} : store'.rows[m] = store.rows[m]
        BY <2>1, <2>3, <3>1 DEF WithRow, Stores, Exact
      <3>3. CASE n = at
        <4>1. c \notin Releases /\ (<<n, c>> \in waived => canon[n] = c)
          BY <2>3, <3>3 DEF GiveUp, Settled
        <4>2. c \in Edits /\ (<<n, c>> \notin waived => Firm(n, c))
          BY <2>1, <4>1 DEF Holds, Contents
        <4> QED
          BY <2>1, <4>1, <4>2 DEF Holds, Firm, disk, Batch, Applying, Restoring, Nobody
      <3>4. CASE n # at
        BY <2>1, <3>2, <3>4
           DEF Holds, Promised, Firm, Retains, disk, Batch, Applying, Restoring, Nobody
      <3> QED
        BY <3>3, <3>4
    <2> QED
      BY <1>36, <2>2, <2>3 DEF CommitInstall
  <1>37. ASSUME NEW m \in Skills, ResetSkill(m) PROVE Holds(n, c)'
    BY <1>37, ContentAssumption, CopyIs, ReleasesAssumption
       DEF ResetSkill, Holds, Chosen, Located, Unowed, Booked, Unrepeated, Spare, Typed,
           Removed, NoFault, Fault, work, Promised, Firm, Retains, Batch, Restoring,
           OwedOf, Wanted, Removing, Staged, LocalsWithout, Backup, Retained, InBatch,
           Brought, Installing, Updated, WorldOK, InPhase, Held
  <1>38. ASSUME NEW m \in Skills, NEW e \in Edits, UserEdit(m, e) PROVE Holds(n, c)'
    <2>1. /\ canon[m] \notin {Absent, e} /\ canon' = [canon EXCEPT ![m] = e]
          /\ (<<n, c>> \in owed /\ <<n, c>> # <<m, canon[m]>>) \/ (n = m /\ c = e)
          /\ <<n, c>> \in waived' <=> <<n, c>> \in waived \ {<<m, canon[m]>>, <<m, e>>}
          /\ UNCHANGED <<lock, copies, locals, store, phase, target, receipts, at, old>>
      BY <1>38 DEF UserEdit, request, unit, work
    <2>2. CASE n = m /\ c = e
      <3>1. canon'[n] = c
        BY <2>1, <2>2 DEF Typed, WorldOK
      <3> QED
        BY <2>2, <3>1 DEF Holds, Firm
    <2>3. CASE ~(n = m /\ c = e)
      <3>1. Firm(n, c) => Firm(n, c)'
        BY <2>1, <2>3 DEF Firm, Typed, WorldOK
      <3>2. <<n, c>> \in owed /\ (<<n, c>> \in waived => <<n, c>> \in waived')
        BY <2>1, <2>3
      <3> QED
        BY <2>1, <3>1, <3>2 DEF Holds, Promised, Retains
    <2> QED
      BY <2>2, <2>3
  <1>39. CASE Prune
    BY <1>39, ContentAssumption, CopyIs, ReleasesAssumption
       DEF Prune, Holds, Chosen, Located, Unowed, Booked, Unrepeated, Spare, Typed,
           TransactionFree, GiveUp, OwedOf, disk, work, Promised, Firm, Retains, Batch,
           Restoring, Wanted, Removing, Staged, InPhase
  <1>40. ASSUME NEW d \in AllCopies, Sweep(d) PROVE Holds(n, c)'
    BY <1>40, ContentAssumption, CopyIs, ReleasesAssumption
       DEF Sweep, Holds, Chosen, Located, Unowed, Booked, Unrepeated, Spare, Typed,
           TransactionFree, work, history, Promised, Firm, Retains, Batch, Restoring,
           OwedOf, Wanted, Removing, Staged, LocalsWithout, Held
  <1>41. ASSUME NEW d \in AllCopies, Doctor(d) PROVE Holds(n, c)'
    BY <1>41, ContentAssumption, CopyIs, ReleasesAssumption
       DEF Doctor, Holds, Chosen, Located, Unowed, Booked, Unrepeated, Spare, Typed,
           TransactionFree, work, history, Promised, Firm, Retains, Batch, Restoring,
           OwedOf, Wanted, Removing, Staged, LocalsWithout, Backup, Retained, InBatch,
           Brought, Installing, Updated, WorldOK, RequestOK, Held, Contents
  <1>42. CASE Crash
    BY <1>42, ContentAssumption, CopyIs, ReleasesAssumption
       DEF Crash, Holds, Chosen, Located, Unowed, Booked, Unrepeated, Spare, Typed, Leave,
           Fault, disk, Promised, Firm, Retains, Batch, Restoring, OwedOf, Wanted,
           Removing, Staged, LocalsWithout, Backup, Retained, InBatch, Brought,
           Installing, Updated, WorldOK, RequestOK, UnitOK, HistoryOK, InPhase, NoStore,
           Nobody, Contents
  <1>43. CASE TakeBack
    <2>1. /\ phase = "take_back" /\ phase' = "none" /\ at \in Skills /\ target \in Releases
          /\ draft = store /\ store.rows[at] = Absent /\ receipts = Nobody /\ receipts' = Nobody
          /\ store' = store /\ UNCHANGED <<copies, locals, owed, waived>>
      BY <1>43
         DEF TakeBack, Leave, Booked, Installing, Typed, InPhase, OnOne, Batch, Applying,
             Restoring
    <2>2. /\ \A m \in Skills \ {at} : canon'[m] = canon[m] /\ lock'[m] = lock[m]
          /\ canon[at] = target \/ <<at, canon[at]>> \notin owed
      BY <1>43, <2>1 DEF TakeBack, Removed, Located, Unowed, Typed, WorldOK
    <2>3. n = at /\ canon[n] = c => c \notin Edits /\ ~Promised(n, c)'
      BY <2>1, <2>2, ContentAssumption DEF Promised, Nobody
    <2>4. n # at \/ canon[n] # c => (Firm(n, c) => Firm(n, c)') /\ (Retains(n, c) => Retains(n, c)')
      BY <2>1, <2>2 DEF Firm, Retains
    <2> QED
      BY <2>1, <2>3, <2>4 DEF Holds, Promised, Batch, Applying, Restoring, Nobody
  <1>44. CASE InstallAborts
    <2>1. /\ phase = "added" /\ phase' \in {"none", "take_back"} /\ receipts = Nobody
          /\ receipts' = Nobody /\ draft = store /\ store' = store
          /\ UNCHANGED <<canon, lock, copies, locals>>
          /\ <<n, c>> \in owed /\ (<<n, c>> \in waived => <<n, c>> \in waived')
      BY <1>44
         DEF InstallAborts, Go, Leave, GiveUp, disk, Booked, Typed, InPhase, Batch, Applying,
             Restoring
    <2> QED
      BY <1>44, <2>1
         DEF InstallAborts, GiveUp, Holds, Promised, Firm, Retains, Batch, Applying, Restoring,
             Nobody
  <1> QED
    BY <1>1, <1>2, <1>3, <1>4, <1>5, <1>6, <1>7, <1>8, <1>9, <1>10, <1>11, <1>12, <1>13,
       <1>14, <1>15, <1>16, <1>17, <1>18, <1>19, <1>20, <1>21, <1>22, <1>23, <1>24,
       <1>25, <1>26, <1>27, <1>28, <1>29, <1>30, <1>31, <1>32, <1>33, <1>34, <1>35,
       <1>36, <1>37, <1>38, <1>39, <1>40, <1>41, <1>42, <1>43, <1>44
       DEF Next, Working, Resetting

\* What OwedKept needs.
Saved == Located /\ Spare /\ Chosen /\ Upheld

\* Nothing is owed at first.
LEMMA SavedInit == Init => Saved
  <1>1. Init => Located /\ Spare /\ Chosen
    BY DEF Init, Located, Spare, Chosen, Batch, Applying, Restoring, Removing
  <1>2. Init => Upheld
    BY DEF Init, Upheld
  <1> QED
    BY <1>1, <1>2 DEF Saved

\* No step loses what is owed.
LEMMA SavedStep ==
    ASSUME Typed, Unrepeated, Booked, Saved, Hazards = {}, [Next]_vars
    PROVE  Saved'
  <1>1. CASE Next
    <2>1. Located' /\ Spare' /\ Chosen'
      BY <1>1, LocatedStep, SpareStep, ChosenStep DEF Saved
    <2>2. ASSUME NEW n \in Skills, NEW c \in Contents, <<n, c>> \in owed' PROVE Holds(n, c)'
      <3>1. <<n, c>> \in owed => Holds(n, c)
        BY DEF Saved, Upheld
      <3> QED
        BY <1>1, <2>2, <3>1, HoldsStep DEF Saved
    <2> QED
      BY <2>1, <2>2 DEF Saved, Upheld
  <1>2. CASE UNCHANGED vars
    BY <1>2
       DEF Saved, Located, Unowed, Spare, Chosen, Upheld, Holds, Promised, Firm, Retains,
           Wanted, InBatch, Staged, Retained, Backup, OwedOf, LocalsWithout, vars, disk,
           work, request, unit, history
  <1> QED
    BY <1>1, <1>2

\* What is safe is kept.
LEMMA SavedIsKept == Typed /\ Saved => OwedKept
  <1> SUFFICES ASSUME Typed, Saved, NEW n \in Skills, NEW c \in Contents, <<n, c>> \in owed,
                      Promised(n, c)
               PROVE  Kept(n, c)
    BY DEF OwedKept, Promised, Typed, HistoryOK
  <1>1. Firm(n, c) \/ Retains(n, c)
    BY DEF Saved, Upheld, Holds
  <1> QED
    BY <1>1 DEF Firm, Retains, Kept, Kinds

\* Nothing owed to the user is lost, whatever crashes, fails, is retried, rolled
\* back or swept, and edits made at any time included (materialize.rs:270-274) -
\* but for an edit in a window Unguarded names, or made to a Skill after its
\* edits were chosen about or just before its failed install is uninstalled; and
\* without a force delete beside an operation or a second removal over a staged
\* edit.
THEOREM OwedContentsAreKept ==
    ASSUME Hazards = {}
    PROVE  Spec => []OwedKept
  <1>1. Init => Saved
    BY SavedInit
  <1>2. Typed /\ Unrepeated /\ Booked /\ Saved /\ [Next]_vars => Saved'
    BY SavedStep
  <1>3. Typed /\ Saved => OwedKept
    BY SavedIsKept
  <1>4. Spec => [](Typed /\ Unrepeated /\ Booked /\ Agreed)
    BY BookedInvariance
  <1> QED
    BY <1>1, <1>2, <1>3, <1>4, PTL DEF Spec
-----------------------------------------------------------------------------
USE PublishersAssumption, BoundsAssumption

ScanPlaces    == {"idle", "reserved", "cloned", "checked", "compared", "scanned"}
PublishPlaces == {"idle", "claimed", "checked", "compared", "numbered", "tagged"}
SessionPlaces == {"none", "scanning", "cancelled", "preview", "publishing"}
Reviewed      == {"preview", "publishing"}

Manifests == [commit : DOMAIN branch, skills : [Offered -> Entries], gen : Generations]

\* A preview is of a commit of the branch, and all revisions before the one it
\* is to become have been taken: new tags never come below it.
Sound(preview) ==
   /\ preview.commit \in DOMAIN branch /\ preview.next \in Nat \ {0}
   /\ \A r \in 1 .. (preview.next - 1) : r \in DOMAIN tags

\* The revision that generation g took, if it took one, is the preview's.
Once(g, preview) == \A r \in DOMAIN tags : tags[r].gen = g => r = preview.next

ScanFits(g) ==
   scans[g].at # "idle" =>
      /\ owner[g] \in Publishers /\ publish[g].at = "idle"
      /\ \A r \in DOMAIN tags : tags[r].gen # g
      /\ scans[g].latest \in DOMAIN tags \cup {0}
      /\ scans[g].at # "reserved" => scans[g].preview.commit \in DOMAIN branch
      /\ scans[g].at = "scanned"  => Sound(scans[g].preview)

SessionFits(p) ==
   LET session == sessions[p]  g == sessions[p].gen IN
   session.is # "none" =>
      /\ g \in Generations /\ owner[g] = p
      /\ session.is # "cancelled" => g \notin ended
      /\ session.is \in Reviewed =>
            /\ Sound(session.preview) /\ Once(g, session.preview)
            /\ scans[g].at = "idle"
            /\ publish[g].at # "idle" => publish[g].preview.next = session.preview.next

\* Since the head was compared, no revision below the preview's is of a later
\* commit than the preview.
PublishFits(g) ==
   LET preview == publish[g].preview IN
   publish[g].at # "idle" =>
      /\ owner[g] \in Publishers /\ Sound(preview) /\ Once(g, preview)
      /\ publish[g].latest \in DOMAIN tags \cup {0}
      /\ publish[g].at # "claimed" =>
            \A r \in DOMAIN tags : r < preview.next => tags[r].commit <= preview.commit
      /\ publish[g].at = "tagged" => preview.next \in DOMAIN tags

TagsFit ==
   /\ \E k \in Nat : DOMAIN tags = 1 .. k
   /\ \A r \in DOMAIN tags : tags[r] \in Manifests /\ owner[tags[r].gen] \in Publishers
   /\ RevisionsFollowBranch /\ PublishedOnce

IInv ==
   /\ PublishTypeOK /\ TagsFit
   /\ \A g \in ended : owner[g] \in Publishers
   /\ \A g \in Generations : ScanFits(g) /\ PublishFits(g)
   /\ \A p \in Publishers : SessionFits(p)
-----------------------------------------------------------------------------
LEMMA HeadIs ==
   ASSUME NEW n \in Nat \ {0}, DOMAIN branch = 1 .. n PROVE Head = n
   BY DEF Head, Max

LEMMA Branch ==
   ASSUME IInv
   PROVE  /\ DOMAIN branch = 1 .. Head /\ Head \in 1 .. MaxCommits
          /\ branch \in [1 .. Head -> Trees]
   <1>1. PICK n \in 1 .. MaxCommits : branch \in [1 .. n -> Trees]
      BY DEF IInv, PublishTypeOK
   <1> QED
      BY <1>1, HeadIs

\* The next revision is the one after the last tag.
LEMMA NextIs ==
   ASSUME NEW k \in Nat, DOMAIN tags = 1 .. k, NEW latest \in DOMAIN tags \cup {0}
   PROVE  NextRevision(latest) = k + 1
   <1>1. CASE k = 0
      BY <1>1 DEF NextRevision, Max
   <1>2. CASE k > 0
      <2>1. k \in {latest} \cup DOMAIN tags /\ \A y \in {latest} \cup DOMAIN tags : k >= y
         BY <1>2
      <2> QED
         BY <2>1 DEF NextRevision, Max
   <1> QED
      BY <1>1, <1>2

LEMMA Fields ==
   ASSUME IInv, NEW g \in Generations
   PROVE  /\ scans[g] \in Tasks(ScanPlaces) /\ publish[g] \in Tasks(PublishPlaces)
          /\ scans \in [Generations -> Tasks(ScanPlaces)]
          /\ publish \in [Generations -> Tasks(PublishPlaces)]
          /\ ScanFits(g) /\ PublishFits(g) /\ owner[g] \in Publishers \cup {"nobody"}
   BY DEF IInv, PublishTypeOK, ScanPlaces, PublishPlaces

\* The tag a publication makes is the first free revision, and no other is of
\* its generation.
Grows(g) ==
   /\ DOMAIN tags \subseteq DOMAIN tags' /\ \A r \in DOMAIN tags : tags'[r] = tags[r]
   /\ \A r \in DOMAIN tags' \ DOMAIN tags :
         /\ r = publish[g].preview.next /\ tags'[r] = Manifest(g)
         /\ \A q \in DOMAIN tags : q < r

LEMMA TagMade ==
   ASSUME IInv, NEW g \in Generations, MakeTag(g), UNCHANGED <<branch, owner>>
   PROVE  /\ Grows(g) /\ TagsFit' /\ publish[g].preview.next \in DOMAIN tags'
          /\ publish[g].at = "numbered"
   <1> DEFINE next == publish[g].preview.next
   <1>1. /\ publish[g].at = "numbered" /\ next \notin DOMAIN tags
         /\ tags' = [r \in DOMAIN tags \cup {next} |->
                        IF r \in DOMAIN tags THEN tags[r] ELSE Manifest(g)]
      BY DEF MakeTag
   <1>2. PICK k \in Nat : DOMAIN tags = 1 .. k
      BY DEF IInv, TagsFit
   <1>3. /\ owner[g] \in Publishers /\ Sound(publish[g].preview)
         /\ Once(g, publish[g].preview)
         /\ \A r \in DOMAIN tags : r < next => tags[r].commit <= publish[g].preview.commit
      BY <1>1, Fields DEF PublishFits
   <1>4. next = k + 1
      <2>1. /\ next \in Nat \ {0} /\ next \notin 1 .. k
            /\ \A r \in 1 .. (next - 1) : r \in 1 .. k
         BY <1>1, <1>2, <1>3 DEF Sound
      <2> HIDE DEF next
      <2>2. next > k
         BY <2>1
      <2>3. CASE next > k + 1
         <3>1. k + 1 \in 1 .. (next - 1)
            BY <2>1, <2>3
         <3> QED
            BY <2>1, <3>1
      <2> QED
         BY <2>1, <2>2, <2>3
   <1>5. Manifest(g) \in Manifests /\ Manifest(g).gen = g
         /\ Manifest(g).commit = publish[g].preview.commit
      BY <1>3, Fields DEF Manifest, Manifests, Sound, Tasks, Previews
   <1> HIDE DEF next
   <1>6. /\ DOMAIN tags' = 1 .. (k + 1) /\ tags'[k + 1] = Manifest(g)
         /\ \A r \in 1 .. k : tags'[r] = tags[r]
      BY <1>1, <1>2, <1>4
   <1>7. Grows(g)
      BY <1>2, <1>4, <1>6 DEF Grows, next
   <1>8. \A r \in 1 .. k : tags[r].gen # g
      BY <1>1, <1>2, <1>3 DEF Once, next
   <1>9. \A r \in DOMAIN tags' : tags'[r] \in Manifests' /\ owner'[tags'[r].gen] \in Publishers
      BY <1>2, <1>3, <1>5, <1>6 DEF IInv, TagsFit, Manifests
   <1>10. RevisionsFollowBranch'
      <2> SUFFICES ASSUME NEW m \in DOMAIN tags', NEW n \in DOMAIN tags', m < n
                   PROVE  tags'[m].commit <= tags'[n].commit
         BY DEF RevisionsFollowBranch
      <2>1. CASE n = k + 1
         BY <1>2, <1>3, <1>4, <1>5, <1>6, <2>1 DEF next
      <2>2. CASE n # k + 1
         BY <1>2, <1>6, <2>2 DEF IInv, TagsFit, RevisionsFollowBranch
      <2> QED
         BY <2>1, <2>2
   <1>11. PublishedOnce'
      BY <1>2, <1>5, <1>6, <1>8 DEF IInv, TagsFit, PublishedOnce
   <1>12. \E j \in Nat : DOMAIN tags' = 1 .. j
      BY <1>6
   <1>13. next \in DOMAIN tags'
      BY <1>4, <1>6
   <1> QED
      BY <1>1, <1>7, <1>9, <1>10, <1>11, <1>12, <1>13 DEF TagsFit, next
-----------------------------------------------------------------------------
\* What a step of generation g that may make its tag leaves alone.
LEMMA ScanOfOther ==
   ASSUME IInv, NEW g \in Generations, Grows(g), publish[g].at # "idle", branch' = branch,
          owner' = owner,
          NEW h \in Generations, scans'[h] = scans[h], h # g => publish'[h] = publish[h]
   PROVE  ScanFits(h)'
   <1>1. ScanFits(h) /\ ScanFits(g)
      BY DEF IInv
   <1>2. CASE h = g
      BY <1>1, <1>2 DEF ScanFits
   <1>3. CASE h # g
      <2>1. \A r \in DOMAIN tags' : r \notin DOMAIN tags => tags'[r].gen = g
         BY DEF Grows, Manifest
      <2>2. scans[h].at = "scanned" /\ Sound(scans[h].preview) => Sound(scans[h].preview)'
         BY <1>3 DEF Sound, Grows
      <2> QED
         BY <1>1, <1>3, <2>1, <2>2 DEF ScanFits, Grows, Sound
   <1> QED
      BY <1>2, <1>3

LEMMA PublishOfOther ==
   ASSUME IInv, NEW g \in Generations, Grows(g), publish[g].at # "idle",
          DOMAIN branch \subseteq DOMAIN branch', owner' = owner,
          NEW h \in Generations, h # g, publish'[h] = publish[h]
   PROVE  PublishFits(h)'
   <1> SUFFICES ASSUME publish[h].at # "idle" PROVE PublishFits(h)'
      BY DEF PublishFits
   <1> DEFINE preview == publish[h].preview
   <1>1. /\ owner[h] \in Publishers /\ Sound(preview) /\ Once(h, preview)
         /\ publish[h].latest \in DOMAIN tags \cup {0}
         /\ publish[h].at # "claimed" =>
               \A r \in DOMAIN tags : r < preview.next => tags[r].commit <= preview.commit
         /\ publish[h].at = "tagged" => preview.next \in DOMAIN tags
      BY Fields DEF PublishFits
   <1>2. publish'[h].preview = preview
      OBVIOUS
   <1> HIDE DEF preview
   <1>3. \A r \in DOMAIN tags' \ DOMAIN tags : tags'[r].gen = g /\ ~(r < preview.next)
      <2>1. PICK k \in Nat : DOMAIN tags = 1 .. k
         BY DEF IInv, TagsFit
      <2>2. /\ publish[g].preview.next \in Nat \ {0}
            /\ \A r \in 1 .. (preview.next - 1) : r \in DOMAIN tags
            /\ preview.next \in Nat \ {0}
         BY <1>1, Fields DEF PublishFits, Sound
      <2> QED
         BY <2>1, <2>2 DEF Grows, Manifest
   <1>4. Sound(publish[h].preview)'
      BY <1>1, <1>2 DEF Sound, Grows
   <1>5. Once(h, publish[h].preview)'
      BY <1>1, <1>2, <1>3 DEF Once, Grows
   <1>6. publish[h].at # "claimed" =>
            \A r \in DOMAIN tags' : r < preview.next => tags'[r].commit <= preview.commit
      BY <1>1, <1>3 DEF Grows
   <1> QED
      BY <1>1, <1>2, <1>4, <1>5, <1>6 DEF PublishFits, Grows

LEMMA SessionStays ==
   ASSUME IInv, NEW g \in Generations, Grows(g), publish[g].at # "idle", branch' = branch,
          owner' = owner, ended' = ended, scans' = scans,
          \A h \in Generations \ {g} : publish'[h] = publish[h],
          publish'[g].at # "idle" => publish'[g].preview = publish[g].preview,
          NEW p \in Publishers, sessions'[p] = sessions[p]
   PROVE  SessionFits(p)'
   <1> SUFFICES ASSUME sessions[p].is # "none" PROVE SessionFits(p)'
      BY DEF SessionFits
   <1> DEFINE h == sessions[p].gen
              preview == sessions[p].preview
   <1>1. /\ h \in Generations /\ owner[h] = p
         /\ sessions[p].is # "cancelled" => h \notin ended
         /\ sessions[p].is \in Reviewed =>
               /\ Sound(preview) /\ Once(h, preview) /\ scans[h].at = "idle"
               /\ publish[h].at # "idle" => publish[h].preview.next = preview.next
      BY DEF IInv, SessionFits
   <1>2. sessions'[p].gen = h /\ sessions'[p].preview = preview
      OBVIOUS
   <1> HIDE DEF h, preview
   <1>3. Sound(preview) => Sound(sessions[p].preview)'
      BY <1>2 DEF Sound, Grows
   <1>4. sessions[p].is \in Reviewed => Once(sessions[p].gen, sessions[p].preview)'
      BY <1>1, <1>2 DEF Once, Grows, Manifest
   <1>5. publish'[h].at # "idle" /\ sessions[p].is \in Reviewed =>
            publish'[h].preview.next = preview.next
      BY <1>1
   <1> QED
      BY <1>1, <1>2, <1>3, <1>4, <1>5 DEF SessionFits
-----------------------------------------------------------------------------
\* The scans, which only read.
LEMMA RestingIs ==
   Resting.at = "idle" /\ Resting \in Tasks(ScanPlaces) /\ Resting \in Tasks(PublishPlaces)
   BY DEF Resting, Task, Tasks, ScanPlaces, PublishPlaces, NoPreview, Preview, NoEntries,
          Entry, Entries, Previews

LEMMA NoPreviewIs == NoPreview \in Previews
   BY DEF NoPreview, Preview, NoEntries, Entry, Entries, Previews

\* A step that changes the scan of g, and at most its publisher's session.
LEMMA ScanKeeps ==
   ASSUME IInv, NEW g \in Generations, NEW task \in Tasks(ScanPlaces), scans[g].at # "idle",
          ScanIs(g, task),
          UNCHANGED <<branch, tags, released, counter, owner, publish, ended>>,
          sessions' \in [Publishers -> [is : SessionPlaces, gen : 0 .. MaxScans,
                                        preview : Previews]],
          \A p \in Publishers : p # owner[g] => sessions'[p] = sessions[p],
          \/ UNCHANGED sessions
          \/ SessionFits(owner[g])',
          task.at # "idle" =>
             /\ task.latest \in DOMAIN tags \cup {0}
             /\ task.at # "reserved" => task.preview.commit \in DOMAIN branch
             /\ task.at = "scanned" => Sound(task.preview)
   PROVE  IInv'
   <1>1. /\ scans' \in [Generations -> Tasks(ScanPlaces)] /\ scans'[g] = task
         /\ \A h \in Generations \ {g} : scans'[h] = scans[h]
      BY Fields DEF ScanIs
   <1>2. owner[g] \in Publishers
      BY Fields DEF ScanFits
   <1>3. PublishTypeOK'
      BY <1>1, <1>2 DEF IInv, PublishTypeOK, ScanPlaces, SessionPlaces
   <1>4. TagsFit' /\ \A h \in ended' : owner'[h] \in Publishers
      BY DEF IInv, TagsFit, Manifests, RevisionsFollowBranch, PublishedOnce
   <1>5. ASSUME NEW h \in Generations PROVE PublishFits(h)'
      BY Fields DEF PublishFits, Sound, Once
   <1>6. ASSUME NEW h \in Generations PROVE ScanFits(h)'
      <2>1. CASE h = g
         BY <1>1, <2>1, Fields DEF ScanFits, Sound
      <2>2. CASE h # g
         BY <1>1, <2>2, Fields DEF ScanFits, Sound
      <2> QED
         BY <2>1, <2>2
   <1>7. ASSUME NEW p \in Publishers PROVE SessionFits(p)'
      <2>1. CASE sessions'[p] = sessions[p]
         <3>1. SessionFits(p)
            BY DEF IInv
         <3>2. sessions[p].is \in Reviewed => scans[sessions[p].gen].at = "idle"
            BY <3>1 DEF SessionFits, Reviewed
         <3>3. sessions[p].is # "none" /\ sessions[p].is \in Reviewed =>
                  scans'[sessions[p].gen].at = "idle"
            BY <1>1, <3>1, <3>2 DEF SessionFits
         <3>4. Sound(sessions[p].preview) => Sound(sessions[p].preview)'
            BY <2>1 DEF Sound
         <3>5. Once(sessions[p].gen, sessions[p].preview) =>
                  Once(sessions[p].gen, sessions[p].preview)'
            BY <2>1 DEF Once
         <3> QED
            BY <2>1, <3>1, <3>3, <3>4, <3>5 DEF SessionFits
      <2>2. CASE p = owner[g] /\ SessionFits(owner[g])'
         BY <2>2
      <2> QED
         BY <2>1, <2>2
   <1> QED
      BY <1>3, <1>4, <1>5, <1>6, <1>7 DEF IInv

\* One that changes nothing but the scan.
LEMMA ScanMovesKeeps ==
   ASSUME IInv, NEW g \in Generations, NEW place \in ScanPlaces \ {"idle"}, NEW latest,
          NEW preview \in Previews, scans[g].at # "idle", ScanMoves(g, place, latest, preview),
          latest \in DOMAIN tags \cup {0},
          place # "reserved" => preview.commit \in DOMAIN branch,
          place = "scanned"  => Sound(preview)
   PROVE  IInv'
   <1> DEFINE task == Task(place, latest, preview)
   <1>1. latest \in Nat
      BY DEF IInv, PublishTypeOK
   <1>2. /\ task \in Tasks(ScanPlaces) /\ task.at = place /\ task.latest = latest
         /\ task.preview = preview
      BY <1>1 DEF Task, Tasks
   <1>3. /\ ScanIs(g, task)
         /\ UNCHANGED <<branch, tags, released, counter, owner, publish, ended, sessions>>
      BY DEF ScanMoves
   <1>4. sessions' \in [Publishers -> [is : SessionPlaces, gen : 0 .. MaxScans,
                                       preview : Previews]]
      BY <1>3 DEF IInv, PublishTypeOK, SessionPlaces
   <1> HIDE DEF task
   <1> QED
      BY <1>2, <1>3, <1>4, ScanKeeps

LEMMA CloneKeeps == ASSUME IInv, NEW g \in Generations, Clone(g) PROVE IInv'
   <1> DEFINE preview == Preview(Head, 0, NoEntries)
   <1>1. preview \in Previews /\ preview.commit \in DOMAIN branch
      BY Branch DEF Preview, Previews, NoEntries, Entry, Entries
   <1>2. scans[g].at = "reserved" /\ ScanMoves(g, "cloned", 0, preview)
      BY DEF Clone
   <1> HIDE DEF preview
   <1> QED
      BY <1>1, <1>2, ScanMovesKeeps DEF ScanPlaces

LEMMA ScanChecksHeadKeeps ==
   ASSUME IInv, NEW g \in Generations, ScanChecksHead(g) PROVE IInv'
   <1>1. scans[g].preview \in Previews /\ scans[g].preview.commit \in DOMAIN branch
      BY Fields DEF ScanChecksHead, ScanFits, Tasks
   <1> QED
      BY <1>1, ScanMovesKeeps DEF ScanChecksHead, ScanPlaces

LEMMA ScanReadsReleasesKeeps ==
   ASSUME IInv, NEW g \in Generations, ScanReadsReleases(g) PROVE IInv'
   <1>1. scans[g].preview \in Previews /\ scans[g].preview.commit \in DOMAIN branch
      BY Fields DEF ScanReadsReleases, ScanFits, Tasks
   <1>2. PICK latest \in released \cup {0} : ScanMoves(g, "compared", latest, scans[g].preview)
      BY DEF ScanReadsReleases
   <1>3. latest \in DOMAIN tags \cup {0}
      BY DEF IInv, PublishTypeOK
   <1> QED
      BY <1>1, <1>2, <1>3, ScanMovesKeeps DEF ScanReadsReleases, ScanPlaces

\* The entries a preview shows are entries.
LEMMA ChangesAreEntries ==
   ASSUME IInv, NEW tree \in Trees, NEW latest \in DOMAIN tags \cup {0}
   PROVE  BuildChanges(tree, latest) \in [Offered -> Entries]
   <1> DEFINE previous == IF latest = 0 THEN NoEntries ELSE tags[latest].skills
   <1>1. previous \in [Offered -> Entries]
      <2>1. CASE latest = 0
         BY <2>1 DEF NoEntries, Entry, Entries
      <2>2. CASE latest # 0
         BY <2>2 DEF IInv, TagsFit, Manifests
      <2> QED
         BY <2>1, <2>2
   <1> HIDE DEF previous
   <1>2. ASSUME NEW s \in Offered PROVE Changed(tree[s], Inherited(previous[s])) \in Entries
      <2>1. tree[s] \in Payloads \cup {"none"} /\ Inherited(previous[s]) \in Payloads \cup {"none"}
         BY <1>1 DEF Trees, Inherited, Entries
      <2> QED
         BY <2>1 DEF Changed, Entry, Entries
   <1> QED
      BY <1>2 DEF BuildChanges, previous

LEMMA ScanReadsTagsKeeps ==
   ASSUME IInv, NEW g \in Generations, ScanReadsTags(g) PROVE IInv'
   <1> DEFINE commit == scans[g].preview.commit
              latest == scans[g].latest
              preview == Preview(commit, NextRevision(latest),
                                 BuildChanges(branch[commit], latest))
   <1>1. scans[g].at = "compared" /\ ScanMoves(g, "scanned", 0, preview)
      BY DEF ScanReadsTags
   <1>2. commit \in DOMAIN branch /\ latest \in DOMAIN tags \cup {0}
      BY <1>1, Fields DEF ScanFits
   <1>3. PICK k \in Nat : DOMAIN tags = 1 .. k
      BY DEF IInv, TagsFit
   <1>4. NextRevision(latest) = k + 1
      BY <1>2, <1>3, NextIs
   <1>5. commit \in 0 .. MaxCommits /\ branch[commit] \in Trees
      BY <1>2, Branch
   <1>6. BuildChanges(branch[commit], latest) \in [Offered -> Entries]
      BY <1>2, <1>5, ChangesAreEntries
   <1>7. preview \in Previews /\ preview.commit = commit /\ preview.next = k + 1
      BY <1>4, <1>5, <1>6 DEF Preview, Previews
   <1>8. Sound(preview)
      BY <1>2, <1>3, <1>7 DEF Sound
   <1> HIDE DEF preview, commit
   <1> QED
      BY <1>1, <1>2, <1>7, <1>8, ScanMovesKeeps DEF ScanPlaces

LEMMA SessionTyping ==
   ASSUME IInv
   PROVE  /\ sessions \in [Publishers -> [is : SessionPlaces, gen : 0 .. MaxScans,
                                          preview : Previews]]
          /\ \A p \in Publishers : SessionFits(p)
   BY DEF IInv, PublishTypeOK, SessionPlaces

LEMMA CompleteKeeps == ASSUME IInv, NEW g \in Generations, Complete(g) PROVE IInv'
   <1> DEFINE p == owner[g]
              session == Session("preview", g, scans[g].preview)
   <1>1. /\ scans[g].at = "scanned" /\ sessions[p].is = "scanning" /\ sessions[p].gen = g
         /\ sessions' = [sessions EXCEPT ![p] = session] /\ ScanIs(g, Resting)
         /\ UNCHANGED <<branch, tags, released, counter, owner, publish, ended>>
      BY DEF Complete, InSession, SessionIs
   <1>2. /\ p \in Publishers /\ publish[g].at = "idle" /\ Sound(scans[g].preview)
         /\ \A r \in DOMAIN tags : tags[r].gen # g
      BY <1>1, Fields DEF ScanFits
   <1>3. session \in [is : SessionPlaces, gen : 0 .. MaxScans, preview : Previews]
      BY Fields DEF Session, SessionPlaces, Tasks, Generations
   <1>4. /\ sessions' \in [Publishers -> [is : SessionPlaces, gen : 0 .. MaxScans,
                                          preview : Previews]]
         /\ \A q \in Publishers : q # p => sessions'[q] = sessions[q]
         /\ sessions'[p] = session
      BY <1>1, <1>2, <1>3, SessionTyping
   <1>5. session.is = "preview" /\ session.gen = g /\ session.preview = scans[g].preview
      BY DEF Session
   <1>6. g \notin ended
      BY <1>1, <1>2, SessionTyping DEF SessionFits
   <1>7. scans'[g].at = "idle"
      BY <1>1, Fields, RestingIs DEF ScanIs
   <1>8. SessionFits(owner[g])'
      BY <1>1, <1>2, <1>4, <1>5, <1>6, <1>7 DEF SessionFits, Sound, Once, Reviewed
   <1> HIDE DEF p, session
   <1> QED
      BY <1>1, <1>4, <1>8, RestingIs, ScanKeeps DEF p

\* A session that is dropped.
LEMMA DroppedIs ==
   ASSUME IInv, NEW p \in Publishers, SessionIs(p, NoSession)
   PROVE  /\ sessions' \in [Publishers -> [is : SessionPlaces, gen : 0 .. MaxScans,
                                           preview : Previews]]
          /\ \A q \in Publishers : q # p => sessions'[q] = sessions[q]
          /\ sessions'[p].is = "none"
   <1>1. /\ NoSession \in [is : SessionPlaces, gen : 0 .. MaxScans, preview : Previews]
         /\ NoSession.is = "none"
      BY NoPreviewIs DEF NoSession, Session, SessionPlaces
   <1> QED
      BY <1>1, SessionTyping DEF SessionIs

LEMMA ScanFailsKeeps == ASSUME IInv, NEW g \in Generations, ScanFails(g) PROVE IInv'
   <1>1. owner[g] \in Publishers
      BY Fields DEF ScanFails, ScanFits
   <1>2. CASE UNCHANGED sessions
      BY <1>2, SessionTyping, RestingIs, ScanKeeps DEF ScanFails
   <1>3. CASE SessionIs(owner[g], NoSession)
      <2>1. SessionFits(owner[g])'
         BY <1>1, <1>3, DroppedIs DEF SessionFits, ScanFails
      <2> QED
         BY <1>1, <1>3, <2>1, DroppedIs, RestingIs, ScanKeeps DEF ScanFails
   <1> QED
      BY <1>2, <1>3 DEF ScanFails

\* A fresh generation belongs to nobody, and nothing has been done under it.
LEMMA ReserveKeeps == ASSUME IInv, NEW p \in Publishers, Reserve(p) PROVE IInv'
   <1> DEFINE g == counter + 1
              session == Session("scanning", g, NoPreview)
              task == Task("reserved", 0, NoPreview)
   <1>1. /\ g \in Generations /\ counter' = g /\ sessions[p].is = "none"
         /\ owner' = [owner EXCEPT ![g] = p]
         /\ sessions' = [sessions EXCEPT ![p] = session]
         /\ scans' = [scans EXCEPT ![g] = task]
         /\ UNCHANGED <<branch, tags, released, publish, ended>>
      BY DEF Reserve, SessionIs, ScanIs, IInv, PublishTypeOK, Generations
   <1>2. counter' \in 0 .. MaxScans
      BY <1>1 DEF Generations
   <1>3. owner[g] = "nobody" /\ publish[g].at = "idle"
      BY <1>1, RestingIs DEF IInv, PublishTypeOK
   <1>4. /\ task \in Tasks(ScanPlaces) /\ task.at = "reserved" /\ task.latest = 0
         /\ session \in [is : SessionPlaces, gen : 0 .. MaxScans, preview : Previews]
         /\ session.is = "scanning" /\ session.gen = g
      BY <1>1, NoPreviewIs DEF Task, Tasks, ScanPlaces, Session, SessionPlaces, Generations
   <1> HIDE DEF task, session
   <1>5. /\ scans' \in [Generations -> Tasks(ScanPlaces)] /\ scans'[g] = task
         /\ \A h \in Generations \ {g} : scans'[h] = scans[h]
         /\ owner' \in [Generations -> Publishers \cup {"nobody"}] /\ owner'[g] = p
         /\ \A h \in Generations \ {g} : owner'[h] = owner[h]
         /\ \A h \in Generations : owner[h] \in Publishers => owner'[h] \in Publishers
      BY <1>1, <1>4, Fields DEF IInv, PublishTypeOK
   <1>6. /\ sessions' \in [Publishers -> [is : SessionPlaces, gen : 0 .. MaxScans,
                                          preview : Previews]]
         /\ \A q \in Publishers : q # p => sessions'[q] = sessions[q]
         /\ sessions'[p] = session
      BY <1>1, <1>4, SessionTyping
   <1>7. PublishTypeOK'
      <2>1. \A h \in Generations : owner'[h] = "nobody" =>
               h > counter' /\ scans'[h] = Resting /\ publish'[h] = Resting
         BY <1>1, <1>5 DEF IInv, PublishTypeOK, Generations
      <2>2. \A h \in Generations : owner'[h] # "nobody" => h <= counter'
         BY <1>1, <1>5 DEF IInv, PublishTypeOK, Generations
      <2> QED
         BY <1>1, <1>2, <1>5, <1>6, <2>1, <2>2 DEF IInv, PublishTypeOK, ScanPlaces, SessionPlaces
   <1>8. TagsFit' /\ \A h \in ended' : owner'[h] \in Publishers
      <2>1. \A r \in DOMAIN tags' : tags'[r] \in Manifests'
                                    /\ owner'[tags'[r].gen] \in Publishers
         BY <1>1, <1>5 DEF IInv, TagsFit, Manifests
      <2>2. RevisionsFollowBranch' /\ PublishedOnce'
         BY <1>1 DEF IInv, TagsFit, RevisionsFollowBranch, PublishedOnce
      <2>3. ended \subseteq Generations
         BY DEF IInv, PublishTypeOK
      <2> QED
         BY <1>1, <1>5, <2>1, <2>2, <2>3 DEF IInv, TagsFit
   <1>9. ASSUME NEW h \in Generations PROVE PublishFits(h)'
      BY <1>1, <1>5, Fields DEF PublishFits, Sound, Once
   <1>10. ASSUME NEW h \in Generations PROVE ScanFits(h)'
      <2>1. CASE h = g
         <3>1. \A r \in DOMAIN tags : tags[r].gen # g
            BY <1>3 DEF IInv, TagsFit
         <3> QED
            BY <1>1, <1>3, <1>4, <1>5, <2>1, <3>1 DEF ScanFits
      <2>2. CASE h # g
         BY <1>1, <1>5, <2>2, Fields DEF ScanFits, Sound
      <2> QED
         BY <2>1, <2>2
   <1>11. ASSUME NEW q \in Publishers PROVE SessionFits(q)'
      <2>1. CASE q = p
         <3>1. g \notin ended
            BY <1>3 DEF IInv
         <3> QED
            BY <1>1, <1>4, <1>5, <1>6, <2>1, <3>1 DEF SessionFits, Reviewed
      <2>2. CASE q # p
         <3>1. SessionFits(q)
            BY SessionTyping
         <3>2. sessions[q].is # "none" => sessions[q].gen # g
            BY <1>3, <3>1 DEF SessionFits
         <3> QED
            BY <1>1, <1>5, <1>6, <2>2, <3>1, <3>2 DEF SessionFits, Sound, Once
      <2> QED
         BY <2>1, <2>2
   <1> QED
      BY <1>7, <1>8, <1>9, <1>10, <1>11 DEF IInv
-----------------------------------------------------------------------------
\* The publications.

\* What was claimed is what was reviewed.
LEMMA ClaimKeeps == ASSUME IInv, NEW p \in Publishers, Claim(p) PROVE IInv'
   <1> DEFINE g == sessions[p].gen
              preview == sessions[p].preview
              session == Session("publishing", g, preview)
              task == Task("claimed", 0, preview)
   <1>1. /\ sessions[p].is = "preview"
         /\ sessions' = [sessions EXCEPT ![p] = session]
         /\ publish' = [publish EXCEPT ![g] = task]
         /\ UNCHANGED <<branch, tags, released, counter, owner, scans, ended>>
      BY DEF Claim, SessionIs, PublishIs
   <1>2. /\ g \in Generations /\ owner[g] = p /\ g \notin ended
         /\ Sound(preview) /\ Once(g, preview) /\ scans[g].at = "idle"
      BY <1>1, SessionTyping DEF SessionFits, Reviewed
   <1>3. preview \in Previews /\ g \in 0 .. MaxScans
      BY SessionTyping
   <1>4. /\ task \in Tasks(PublishPlaces) /\ task.at = "claimed" /\ task.latest = 0
         /\ task.preview = preview
         /\ session \in [is : SessionPlaces, gen : 0 .. MaxScans, preview : Previews]
         /\ session.is = "publishing" /\ session.gen = g /\ session.preview = preview
      BY <1>3 DEF Task, Tasks, PublishPlaces, Session, SessionPlaces
   <1> HIDE DEF task, session, preview, g
   <1>5. /\ publish' \in [Generations -> Tasks(PublishPlaces)] /\ publish'[g] = task
         /\ \A h \in Generations \ {g} : publish'[h] = publish[h]
      BY <1>1, <1>2, <1>4, Fields
   <1>6. /\ sessions' \in [Publishers -> [is : SessionPlaces, gen : 0 .. MaxScans,
                                          preview : Previews]]
         /\ \A q \in Publishers : q # p => sessions'[q] = sessions[q]
         /\ sessions'[p] = session
      BY <1>1, <1>4, SessionTyping
   <1>7. PublishTypeOK'
      BY <1>1, <1>2, <1>5, <1>6 DEF IInv, PublishTypeOK, PublishPlaces, SessionPlaces
   <1>8. TagsFit' /\ \A h \in ended' : owner'[h] \in Publishers
      BY <1>1 DEF IInv, TagsFit, Manifests, RevisionsFollowBranch, PublishedOnce
   <1>9. ASSUME NEW h \in Generations PROVE PublishFits(h)'
      <2>1. CASE h = g
         BY <1>1, <1>2, <1>4, <1>5, <2>1 DEF PublishFits, Sound, Once
      <2>2. CASE h # g
         BY <1>1, <1>5, <2>2, Fields DEF PublishFits, Sound, Once
      <2> QED
         BY <2>1, <2>2
   <1>10. ASSUME NEW h \in Generations PROVE ScanFits(h)'
      BY <1>1, <1>2, <1>5, Fields DEF ScanFits, Sound
   <1>11. ASSUME NEW q \in Publishers PROVE SessionFits(q)'
      <2>1. CASE q = p
         BY <1>1, <1>2, <1>4, <1>5, <1>6, <2>1 DEF SessionFits, Sound, Once, Reviewed
      <2>2. CASE q # p
         <3>1. SessionFits(q)
            BY SessionTyping
         <3>2. sessions[q].is # "none" => sessions[q].gen # g
            BY <1>2, <2>2, <3>1 DEF SessionFits
         <3> QED
            BY <1>1, <1>5, <1>6, <2>2, <3>1, <3>2 DEF SessionFits, Sound, Once
      <2> QED
         BY <2>1, <2>2
   <1> QED
      BY <1>7, <1>8, <1>9, <1>10, <1>11 DEF IInv

\* A step of the publication of g, which may make its tag, its release, and
\* change its publisher's session.
LEMMA PublishKeeps ==
   ASSUME IInv, NEW g \in Generations, NEW task \in Tasks(PublishPlaces),
          publish[g].at # "idle", PublishIs(g, task),
          UNCHANGED <<branch, counter, owner, scans, ended>>,
          Grows(g), TagsFit', released' \subseteq DOMAIN tags',
          sessions' \in [Publishers -> [is : SessionPlaces, gen : 0 .. MaxScans,
                                        preview : Previews]],
          \A p \in Publishers : p # owner[g] => sessions'[p] = sessions[p],
          \/ UNCHANGED sessions
          \/ SessionFits(owner[g])',
          task.at # "idle" =>
             /\ task.preview = publish[g].preview
             /\ task.latest \in DOMAIN tags' \cup {0}
             /\ task.at # "claimed" =>
                   \A r \in DOMAIN tags' : r < task.preview.next =>
                      tags'[r].commit <= task.preview.commit
             /\ task.at = "tagged" => task.preview.next \in DOMAIN tags'
   PROVE  IInv'
   <1>1. /\ publish' \in [Generations -> Tasks(PublishPlaces)] /\ publish'[g] = task
         /\ \A h \in Generations \ {g} : publish'[h] = publish[h]
      BY Fields DEF PublishIs
   <1>2. /\ owner[g] \in Publishers /\ Sound(publish[g].preview)
         /\ Once(g, publish[g].preview)
      BY Fields DEF PublishFits
   <1>3. PublishTypeOK'
      <2>1. \A r \in DOMAIN tags' : r \in Nat \ {0} /\ tags'[r] \in Manifests'
         BY DEF TagsFit
      <2>2. \A h \in Generations : owner[h] = "nobody" => publish'[h] = Resting
         BY <1>1, <1>2 DEF IInv, PublishTypeOK
      <2> QED
         BY <1>1, <2>1, <2>2
            DEF IInv, PublishTypeOK, PublishPlaces, SessionPlaces, Manifests
   <1>4. \A h \in ended' : owner'[h] \in Publishers
      BY DEF IInv
   <1>5. ASSUME NEW h \in Generations PROVE PublishFits(h)'
      <2>1. CASE h = g
         <3>1. task.at # "idle" => Sound(task.preview)'
            BY <1>2 DEF Sound, Grows
         <3>2. task.at # "idle" => Once(g, task.preview)'
            BY <1>2 DEF Once, Grows
         <3> QED
            BY <1>1, <1>2, <2>1, <3>1, <3>2 DEF PublishFits, Sound, Once
      <2>2. CASE h # g
         BY <1>1, <2>2, PublishOfOther
      <2> QED
         BY <2>1, <2>2
   <1>6. ASSUME NEW h \in Generations PROVE ScanFits(h)'
      <2>1. h # g => publish'[h] = publish[h]
         BY <1>1
      <2> QED
         BY <2>1, ScanOfOther
   <1>7. ASSUME NEW p \in Publishers PROVE SessionFits(p)'
      <2>1. CASE sessions'[p] = sessions[p]
         <3>1. publish'[g].at # "idle" => publish'[g].preview = publish[g].preview
            BY <1>1
         <3> QED
            BY <1>1, <2>1, <3>1, SessionStays
      <2>2. CASE p = owner[g] /\ SessionFits(owner[g])'
         BY <2>2
      <2> QED
         BY <2>1, <2>2
   <1> QED
      BY <1>3, <1>4, <1>5, <1>6, <1>7 DEF IInv

\* One that asks GitHub and goes on to the next question.
LEMMA MovesKeeps ==
   ASSUME IInv, NEW g \in Generations, NEW place \in PublishPlaces \ {"idle", "tagged"},
          NEW latest \in DOMAIN tags \cup {0}, publish[g].at # "idle",
          Moves(g, place, latest), UNCHANGED <<tags, released>>,
          \A r \in DOMAIN tags : r < publish[g].preview.next =>
             tags[r].commit <= publish[g].preview.commit
   PROVE  IInv'
   <1> DEFINE task == Task(place, latest, publish[g].preview)
   <1>1. latest \in Nat
      BY DEF IInv, PublishTypeOK
   <1>2. /\ task \in Tasks(PublishPlaces) /\ task.at = place /\ task.latest = latest
         /\ task.preview = publish[g].preview
      BY <1>1, Fields DEF Task, Tasks
   <1>3. PublishIs(g, task) /\ UNCHANGED <<branch, sessions, counter, owner, scans, ended>>
      BY DEF Moves
   <1>4. Grows(g)
      BY DEF Grows
   <1>5. TagsFit' /\ released' \subseteq DOMAIN tags'
      BY <1>3 DEF IInv, PublishTypeOK, TagsFit, Manifests, RevisionsFollowBranch, PublishedOnce
   <1>6. sessions' \in [Publishers -> [is : SessionPlaces, gen : 0 .. MaxScans,
                                       preview : Previews]]
      BY <1>3, SessionTyping
   <1> HIDE DEF task
   <1> QED
      BY <1>2, <1>3, <1>4, <1>5, <1>6, PublishKeeps

\* No tag is of a later commit than the head.
LEMMA PublishChecksHeadKeeps ==
   ASSUME IInv, NEW g \in Generations, PublishChecksHead(g) PROVE IInv'
   <1>1. \A r \in DOMAIN tags : tags[r].commit <= Head
      BY Branch DEF IInv, TagsFit, Manifests
   <1> QED
      BY <1>1, MovesKeeps DEF PublishChecksHead, PublishPlaces

LEMMA PublishReadsReleasesKeeps ==
   ASSUME IInv, NEW g \in Generations, PublishReadsReleases(g) PROVE IInv'
   <1>1. PICK latest \in released \cup {0} : Moves(g, "compared", latest)
      BY DEF PublishReadsReleases
   <1>2. latest \in DOMAIN tags \cup {0}
      BY DEF IInv, PublishTypeOK
   <1>3. \A r \in DOMAIN tags : r < publish[g].preview.next =>
            tags[r].commit <= publish[g].preview.commit
      BY Fields DEF PublishReadsReleases, PublishFits
   <1> QED
      BY <1>1, <1>2, <1>3, MovesKeeps DEF PublishReadsReleases, PublishPlaces

LEMMA PublishReadsTagsKeeps ==
   ASSUME IInv, NEW g \in Generations, PublishReadsTags(g) PROVE IInv'
   <1>1. \A r \in DOMAIN tags : r < publish[g].preview.next =>
            tags[r].commit <= publish[g].preview.commit
      BY Fields DEF PublishReadsTags, PublishFits
   <1> QED
      BY <1>1, MovesKeeps DEF PublishReadsTags, PublishPlaces

LEMMA CreateTagKeeps ==
   ASSUME IInv, NEW g \in Generations, CreateTag(g) PROVE IInv'
   <1> DEFINE task == Task("tagged", 0, publish[g].preview)
   <1>1. /\ MakeTag(g) /\ UNCHANGED <<branch, sessions, counter, owner, scans, ended>>
         /\ PublishIs(g, task) /\ released' = released
      BY DEF CreateTag, Moves, MakeTag
   <1>2. /\ task \in Tasks(PublishPlaces) /\ task.at = "tagged" /\ task.latest = 0
         /\ task.preview = publish[g].preview
      BY Fields DEF Task, Tasks, PublishPlaces
   <1>3. /\ Grows(g) /\ TagsFit' /\ publish[g].preview.next \in DOMAIN tags'
         /\ publish[g].at = "numbered"
      BY <1>1, TagMade
   <1>4. \A r \in DOMAIN tags : r < publish[g].preview.next =>
            tags[r].commit <= publish[g].preview.commit
      BY <1>3, Fields DEF PublishFits
   <1>5. publish[g].preview.next \in Nat
      BY Fields DEF Tasks, Previews
   <1>6. \A r \in DOMAIN tags' : r < publish[g].preview.next =>
            tags'[r].commit <= publish[g].preview.commit
      BY <1>3, <1>4, <1>5 DEF Grows
   <1>7. released' \subseteq DOMAIN tags'
      BY <1>1, <1>3 DEF IInv, PublishTypeOK, Grows
   <1>8. sessions' \in [Publishers -> [is : SessionPlaces, gen : 0 .. MaxScans,
                                       preview : Previews]]
      BY <1>1, SessionTyping
   <1> HIDE DEF task
   <1> QED
      BY <1>1, <1>2, <1>3, <1>6, <1>7, <1>8, PublishKeeps

\* A release is only ever made on a tag.
LEMMA ReleaseMade ==
   ASSUME IInv, NEW g \in Generations, MakeRelease(g), UNCHANGED <<branch, owner>>
   PROVE  Grows(g) /\ TagsFit' /\ released' \subseteq DOMAIN tags' /\ publish[g].at # "idle"
   <1>1. publish[g].preview.next \in DOMAIN tags
      BY Fields DEF MakeRelease, PublishFits
   <1>2. released' \subseteq DOMAIN tags'
      BY <1>1 DEF MakeRelease, IInv, PublishTypeOK
   <1> QED
      BY <1>2 DEF MakeRelease, IInv, Grows, TagsFit, Manifests, RevisionsFollowBranch,
                  PublishedOnce

LEMMA CreateReleaseKeeps ==
   ASSUME IInv, NEW g \in Generations, CreateRelease(g) PROVE IInv'
   <1>1. /\ MakeRelease(g) /\ PublishIs(g, Resting)
         /\ UNCHANGED <<branch, counter, owner, scans, ended>>
      BY DEF CreateRelease
   <1>2. /\ Grows(g) /\ TagsFit' /\ released' \subseteq DOMAIN tags'
         /\ publish[g].at # "idle"
      BY <1>1, ReleaseMade
   <1>3. CASE UNCHANGED sessions
      BY <1>1, <1>2, <1>3, SessionTyping, RestingIs, PublishKeeps
   <1>4. CASE SessionIs(owner[g], NoSession)
      <2>1. owner[g] \in Publishers
         BY <1>2, Fields DEF PublishFits
      <2>2. SessionFits(owner[g])'
         BY <1>1, <1>4, <2>1, DroppedIs DEF SessionFits
      <2> QED
         BY <1>1, <1>2, <1>4, <2>1, <2>2, DroppedIs, RestingIs, PublishKeeps
   <1> QED
      BY <1>3, <1>4 DEF CreateRelease

\* The preview that goes back to its session may have taken its revision.
LEMMA PublishFailsKeeps ==
   ASSUME IInv, NEW g \in Generations, PublishFails(g) PROVE IInv'
   <1> DEFINE p == owner[g]
              session == Session("preview", g, publish[g].preview)
   <1>1. /\ publish[g].at # "idle" /\ PublishIs(g, Resting) /\ Restored(g)
         /\ MakeTag(g) \/ MakeRelease(g) \/ UNCHANGED <<tags, released>>
         /\ UNCHANGED <<branch, counter, owner, scans, ended>>
      BY DEF PublishFails
   <1>2. Grows(g) /\ TagsFit' /\ released' \subseteq DOMAIN tags'
      <2>1. CASE MakeTag(g)
         <3>1. released' = released
            BY <2>1 DEF MakeTag
         <3> QED
            BY <1>1, <2>1, <3>1, TagMade DEF IInv, PublishTypeOK, Grows
      <2>2. CASE MakeRelease(g)
         BY <1>1, <2>2, ReleaseMade
      <2>3. CASE UNCHANGED <<tags, released>>
         BY <1>1, <2>3 DEF IInv, PublishTypeOK, Grows, TagsFit, Manifests, RevisionsFollowBranch,
                           PublishedOnce
      <2> QED
         BY <1>1, <2>1, <2>2, <2>3
   <1>3. CASE UNCHANGED sessions
      BY <1>1, <1>2, <1>3, SessionTyping, RestingIs, PublishKeeps
   <1>4. CASE InSession(g, {"publishing"}) /\ sessions' = [sessions EXCEPT ![p] = session]
      <2>1. p \in Publishers /\ Sound(publish[g].preview) /\ Once(g, publish[g].preview)
         BY <1>1, Fields DEF PublishFits
      <2>2. g \notin ended /\ scans[g].at = "idle"
         BY <1>4, <2>1, SessionTyping DEF InSession, SessionFits, Reviewed
      <2>3. /\ session \in [is : SessionPlaces, gen : 0 .. MaxScans, preview : Previews]
            /\ session.is = "preview" /\ session.gen = g
            /\ session.preview = publish[g].preview
         BY Fields DEF Session, SessionPlaces, Tasks, Generations
      <2> HIDE DEF session
      <2>4. /\ sessions' \in [Publishers -> [is : SessionPlaces, gen : 0 .. MaxScans,
                                             preview : Previews]]
            /\ \A q \in Publishers : q # p => sessions'[q] = sessions[q]
            /\ sessions'[p] = session
         BY <1>4, <2>1, <2>3, SessionTyping
      <2>5. publish'[g].at = "idle"
         BY <1>1, Fields, RestingIs DEF PublishIs
      <2>6. PICK preview : preview = publish[g].preview
         OBVIOUS
      <2>7. Sound(preview)' /\ Once(g, preview)'
         BY <1>1, <1>2, <2>1, <2>6 DEF Sound, Once, Grows
      <2>8. sessions'[p].gen = g /\ sessions'[p].preview = preview
            /\ sessions'[p].is = "preview"
         BY <2>3, <2>4, <2>6
      <2>9. SessionFits(owner[g])'
         BY <1>1, <2>1, <2>2, <2>5, <2>7, <2>8 DEF SessionFits, Sound, Once
      <2> QED
         BY <1>1, <1>2, <2>4, <2>9, RestingIs, PublishKeeps
   <1> QED
      BY <1>1, <1>3, <1>4 DEF Restored, SessionIs
-----------------------------------------------------------------------------
\* The user and the repository.

\* A session that ends or expires: nothing else changes, but that its
\* generation may be noted as ended.
LEMMA SessionKeeps ==
   ASSUME IInv, NEW p \in Publishers,
          UNCHANGED <<branch, tags, released, counter, owner, scans, publish>>,
          sessions' \in [Publishers -> [is : SessionPlaces, gen : 0 .. MaxScans,
                                        preview : Previews]],
          \A q \in Publishers : q # p => sessions'[q] = sessions[q],
          sessions[p].is # "none", ended \subseteq ended',
          ended' \subseteq ended \cup {sessions[p].gen},
          SessionFits(p)'
   PROVE  IInv'
   <1>1. sessions[p].gen \in Generations /\ owner[sessions[p].gen] = p
      BY SessionTyping DEF SessionFits
   <1>2. PublishTypeOK'
      BY <1>1 DEF IInv, PublishTypeOK, SessionPlaces
   <1>3. TagsFit' /\ \A h \in ended' : owner'[h] \in Publishers
      BY <1>1 DEF IInv, TagsFit, Manifests, RevisionsFollowBranch, PublishedOnce
   <1>4. ASSUME NEW h \in Generations PROVE ScanFits(h)' /\ PublishFits(h)'
      BY Fields DEF ScanFits, PublishFits, Sound, Once
   <1>5. ASSUME NEW q \in Publishers PROVE SessionFits(q)'
      <2>1. CASE q # p
         <3>1. SessionFits(q) /\ sessions'[q] = sessions[q]
            BY <2>1, SessionTyping
         <3>2. sessions[q].is # "none" => sessions[q].gen # sessions[p].gen
            BY <1>1, <2>1, <3>1 DEF SessionFits
         <3> QED
            BY <3>1, <3>2 DEF SessionFits, Sound, Once
      <2> QED
         BY <2>1
   <1> QED
      BY <1>2, <1>3, <1>4, <1>5 DEF IInv

LEMMA DropKeeps ==
   ASSUME IInv, NEW p \in Publishers, sessions[p].is # "none", SessionIs(p, NoSession),
          UNCHANGED <<branch, tags, released, counter, owner, scans, publish>>,
          ended \subseteq ended', ended' \subseteq ended \cup {sessions[p].gen}
   PROVE  IInv'
   <1>1. SessionFits(p)'
      BY DroppedIs DEF SessionFits
   <1> QED
      BY <1>1, DroppedIs, SessionKeeps

LEMMA CancelKeeps == ASSUME IInv, NEW p \in Publishers, Cancel(p) PROVE IInv'
   <1> DEFINE session == Session("cancelled", sessions[p].gen, NoPreview)
   <1>1. CASE Ends(p, NoSession) /\ sessions[p].is # "none"
      BY <1>1, DropKeeps DEF Ends
   <1>2. CASE Ends(p, session) /\ sessions[p].is # "none"
      <2>1. /\ sessions' = [sessions EXCEPT ![p] = session]
            /\ ended' = ended \cup {sessions[p].gen}
            /\ UNCHANGED <<branch, tags, released, counter, owner, scans, publish>>
         BY <1>2 DEF Ends, SessionIs
      <2>2. /\ session \in [is : SessionPlaces, gen : 0 .. MaxScans, preview : Previews]
            /\ session.is = "cancelled" /\ session.gen = sessions[p].gen
         BY SessionTyping, NoPreviewIs DEF Session, SessionPlaces
      <2> HIDE DEF session
      <2>3. /\ sessions' \in [Publishers -> [is : SessionPlaces, gen : 0 .. MaxScans,
                                             preview : Previews]]
            /\ \A q \in Publishers : q # p => sessions'[q] = sessions[q]
            /\ sessions'[p] = session
         BY <2>1, <2>2, SessionTyping
      <2>4. SessionFits(p)'
         BY <1>2, <2>1, <2>2, <2>3, SessionTyping DEF SessionFits, Reviewed
      <2> QED
         BY <1>2, <2>1, <2>3, <2>4, SessionKeeps
   <1> QED
      BY <1>1, <1>2 DEF Cancel

LEMMA ClearKeeps == ASSUME IInv, NEW p \in Publishers, Clear(p) PROVE IInv'
   BY DropKeeps DEF Clear, Ends

LEMMA ExpireKeeps == ASSUME IInv, NEW p \in Publishers, Expire(p) PROVE IInv'
   BY DropKeeps DEF Expire

\* The commits of the branch stay, and so does what is known of them.
LEMMA PushKeeps == ASSUME IInv, Push PROVE IInv'
   <1>1. PICK tree \in Trees : branch' = [c \in 1 .. Head + 1 |->
                                  IF c = Head + 1 THEN tree ELSE branch[c]]
      BY DEF Push
   <1>2. /\ Head < MaxCommits
         /\ UNCHANGED <<tags, released, sessions, counter, owner, scans, publish, ended>>
      BY DEF Push
   <1>3. /\ DOMAIN branch = 1 .. Head /\ Head \in 1 .. MaxCommits
         /\ branch \in [1 .. Head -> Trees]
      BY Branch
   <1>4. DOMAIN branch \subseteq DOMAIN branch'
      BY <1>1, <1>3
   <1>5. \E n \in 1 .. MaxCommits : branch' \in [1 .. n -> Trees]
      <2>1. branch' \in [1 .. Head + 1 -> Trees]
         BY <1>1, <1>3
      <2> QED
         BY <1>2, <1>3, <2>1
   <1>6. Manifests \subseteq Manifests'
      BY <1>4 DEF Manifests
   <1>7. PublishTypeOK'
      <2>1. \A r \in DOMAIN tags : r \in Nat \ {0} /\ tags[r] \in Manifests
         BY DEF IInv, TagsFit
      <2>2. \A r \in DOMAIN tags' : r \in Nat \ {0} /\ tags'[r] \in Manifests'
         BY <1>2, <1>6, <2>1
      <2> QED
         BY <1>2, <1>5, <2>2 DEF IInv, PublishTypeOK, Manifests
   <1>8. TagsFit' /\ \A h \in ended' : owner'[h] \in Publishers
      BY <1>2, <1>6 DEF IInv, TagsFit, RevisionsFollowBranch, PublishedOnce
   <1>9. ASSUME NEW h \in Generations PROVE ScanFits(h)' /\ PublishFits(h)'
      BY <1>2, <1>4, Fields DEF ScanFits, PublishFits, Sound, Once
   <1>10. ASSUME NEW q \in Publishers PROVE SessionFits(q)'
      BY <1>2, <1>4, SessionTyping DEF SessionFits, Sound, Once
   <1> QED
      BY <1>7, <1>8, <1>9, <1>10 DEF IInv
-----------------------------------------------------------------------------
LEMMA InitIInv == PublishInit => IInv
   <1> SUFFICES ASSUME PublishInit PROVE IInv
      OBVIOUS
   <1>1. DOMAIN tags = 1 .. 0
      BY DEF PublishInit
   <1>2. NoSession \in [is : SessionPlaces, gen : 0 .. MaxScans, preview : Previews]
         /\ NoSession.is = "none"
      BY NoPreviewIs DEF NoSession, Session, SessionPlaces
   <1>3. /\ sessions \in [Publishers -> [is : SessionPlaces, gen : 0 .. MaxScans,
                                         preview : Previews]]
         /\ scans \in [Generations -> Tasks(ScanPlaces)]
         /\ publish \in [Generations -> Tasks(PublishPlaces)]
      BY <1>2, RestingIs DEF PublishInit
   <1>4. PublishTypeOK
      <2>1. \E n \in 1 .. MaxCommits : branch \in [1 .. n -> Trees]
         <3>1. branch \in [1 .. 1 -> Trees]
            BY DEF PublishInit
         <3> QED
            BY <3>1
      <2>2. /\ \A r \in DOMAIN tags :
                  /\ r \in Nat \ {0}
                  /\ tags[r] \in [commit : DOMAIN branch, skills : [Offered -> Entries],
                                  gen : Generations]
            /\ released \subseteq DOMAIN tags /\ ended \subseteq Generations
         BY <1>1 DEF PublishInit
      <2>3. /\ counter \in 0 .. MaxScans
            /\ owner \in [Generations -> Publishers \cup {"nobody"}]
            /\ \A g \in Generations : /\ owner[g] = "nobody" /\ g > counter
                                      /\ scans[g] = Resting /\ publish[g] = Resting
         BY DEF PublishInit, Generations
      <2> QED
         BY <1>3, <2>1, <2>2, <2>3 DEF PublishTypeOK, ScanPlaces, PublishPlaces, SessionPlaces
   <1>5. TagsFit
      BY <1>1 DEF TagsFit, RevisionsFollowBranch, PublishedOnce
   <1>6. ASSUME NEW g \in Generations PROVE ScanFits(g) /\ PublishFits(g)
      BY RestingIs DEF PublishInit, ScanFits, PublishFits
   <1>7. ASSUME NEW p \in Publishers PROVE SessionFits(p)
      BY <1>2 DEF PublishInit, SessionFits
   <1> QED
      BY <1>4, <1>5, <1>6, <1>7 DEF IInv, PublishInit

LEMMA NextIInv == IInv /\ [PublishNext]_publishVars => IInv'
   <1> SUFFICES ASSUME IInv, [PublishNext]_publishVars PROVE IInv'
      OBVIOUS
   <1>1. CASE \E p \in Publishers : \/ Reserve(p) \/ Claim(p) \/ Cancel(p) \/ Clear(p)
                                    \/ Expire(p)
      BY <1>1, ReserveKeeps, ClaimKeeps, CancelKeeps, ClearKeeps, ExpireKeeps
   <1>2. CASE \E g \in Generations : Scan(g)
      BY <1>2, CloneKeeps, ScanChecksHeadKeeps, ScanReadsReleasesKeeps, ScanReadsTagsKeeps,
         CompleteKeeps, ScanFailsKeeps DEF Scan
   <1>3. CASE \E g \in Generations : Publish(g)
      BY <1>3, PublishChecksHeadKeeps, PublishReadsReleasesKeeps, PublishReadsTagsKeeps,
         CreateTagKeeps, CreateReleaseKeeps, PublishFailsKeeps DEF Publish
   <1>4. CASE Push
      BY <1>4, PushKeeps
   <1>5. CASE UNCHANGED publishVars
      <2>1. /\ PublishTypeOK' /\ TagsFit' /\ \A g \in ended' : owner'[g] \in Publishers
         BY <1>5 DEF IInv, publishVars, PublishTypeOK, TagsFit, Manifests, RevisionsFollowBranch,
                     PublishedOnce
      <2>2. ASSUME NEW g \in Generations PROVE ScanFits(g)' /\ PublishFits(g)'
         BY <1>5, Fields DEF publishVars, ScanFits, PublishFits, Sound, Once
      <2>3. ASSUME NEW p \in Publishers PROVE SessionFits(p)'
         BY <1>5, SessionTyping DEF publishVars, SessionFits, Sound, Once
      <2> QED
         BY <2>1, <2>2, <2>3 DEF IInv
   <1> QED
      BY <1>1, <1>2, <1>3, <1>4, <1>5 DEF PublishNext

LEMMA InvariantHolds == PublishSpec => []IInv
   BY InitIInv, NextIInv, PTL DEF PublishSpec

\* The type invariant of publishing holds in every reachable state.
THEOREM PublishTypeCorrect == PublishSpec => []PublishTypeOK
   <1>1. IInv => PublishTypeOK
      BY DEF IInv
   <1> QED
      BY <1>1, InvariantHolds, PTL

\* A later revision of a channel is never of an earlier commit, whatever is
\* pushed and published between the questions publish_claimed asks.
THEOREM RevisionsStayInOrder == PublishSpec => []RevisionsFollowBranch
   <1>1. IInv => RevisionsFollowBranch
      BY DEF IInv, TagsFit
   <1> QED
      BY <1>1, InvariantHolds, PTL

\* A preview takes at most one revision, however often publishing it is tried.
THEOREM OnePreviewOneRevision == PublishSpec => []PublishedOnce
   <1>1. IInv => PublishedOnce
      BY DEF IInv, TagsFit
   <1> QED
      BY <1>1, InvariantHolds, PTL

\* What the user cancelled, or logged out of, is not offered again.
THEOREM EndedStays == PublishSpec => []EndedStaysEnded
   <1>1. IInv => EndedStaysEnded
      BY DEF IInv, SessionFits, EndedStaysEnded
   <1> QED
      BY <1>1, InvariantHolds, PTL
=============================================================================
