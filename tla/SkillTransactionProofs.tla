----------------------- MODULE SkillTransactionProofs -----------------------
(***************************************************************************)
(* The properties of SkillTransaction, for every number of Skills,         *)
(* versions, faults, fetches and plans.  AsideIsKept and UpdateKeepsSource *)
(* need no assumption.  That no last copy of a locked Skill is lost needs  *)
(* no repair to be planned, or a quiet environment (Hazards = {}); that no *)
(* edit is lost and a failed batch is undone needs the quiet environment.  *)
(***************************************************************************)
EXTENDS SkillTransaction, ReentrantLock, TLAPS
(***************************************************************************)
(* Mutual exclusion of the re-entrant Skill lock, for any number of        *)
(* threads, processes and nested acquisitions, and that it implements      *)
(* ExclusiveAccess.  The inductive invariant says who owns what: a thread  *)
(* owns the mutex from TakeMutex to ReleaseMutex and the file from         *)
(* TakeFile to UnlockFile, and its depth counts its guards.                *)
(***************************************************************************)

\* The ownership of one thread, as the steps of acquire and drop keep it.
Owns(t) ==
    /\ guards[t] = depth[t]
    /\ t \in held <=> depth[t] > 0
    /\ t \in held => pc[t] = "idle"
    /\ file = t <=> (t \in held \/ pc[t] = "unlock")
    /\ mutex[ProcOf[t]] = t <=> (t \in held \/ pc[t] \in {"file", "unlock", "release"})

\* The inductive invariant.
LockInv == LockTypeOK /\ \A t \in Threads : Owns(t)

\* The initial state: nobody owns anything.
LEMMA LockInvInit == LockInit => LockInv
<1> SUFFICES ASSUME LockInit PROVE LockInv
  OBVIOUS
<1>1. LockTypeOK
  BY DepthAssumption DEF LockInit, LockTypeOK, Steps
<1>2. ASSUME NEW t \in Threads PROVE Owns(t)
  <2>1. ProcOf[t] \in Procs
    BY ProcOfAssumption
  <2>2. /\ mutex[ProcOf[t]] = Nobody
        /\ file = Nobody
        /\ depth[t] = 0 /\ guards[t] = 0
        /\ t \notin held
        /\ pc[t] = "idle"
    BY <2>1 DEF LockInit
  <2> QED BY <2>2, NobodyAssumption DEF Owns
<1> QED BY <1>1, <1>2 DEF LockInv

\* Every step of acquire, drop and crash keeps every thread's ownership.
LEMMA LockInvStep == LockInv /\ [LockNext]_lockVars => LockInv'
<1> SUFFICES ASSUME LockInv, [LockNext]_lockVars PROVE LockInv'
  OBVIOUS
<1> USE ProcOfAssumption, NobodyAssumption, DepthAssumption
<1>0. /\ LockTypeOK
      /\ \A t \in Threads : Owns(t)
  BY DEF LockInv
<1>1. ASSUME NEW t \in Threads, Reenter(t) PROVE LockInv'
  BY <1>0, <1>1 DEF Reenter, LockInv, LockTypeOK, Owns, Steps
<1>2. ASSUME NEW t \in Threads, Call(t) PROVE LockInv'
  BY <1>0, <1>2 DEF Call, LockInv, LockTypeOK, Owns, Steps
<1>3. ASSUME NEW t \in Threads, TakeMutex(t) PROVE LockInv'
  BY <1>0, <1>3 DEF TakeMutex, LockInv, LockTypeOK, Owns, Steps
<1>4. ASSUME NEW t \in Threads, MutexTimeout(t) PROVE LockInv'
  BY <1>0, <1>4 DEF MutexTimeout, LockInv, LockTypeOK, Owns, Steps
<1>5. ASSUME NEW t \in Threads, TakeFile(t) PROVE LockInv'
  BY <1>0, <1>5 DEF TakeFile, LockInv, LockTypeOK, Owns, Steps
<1>6. ASSUME NEW t \in Threads, FileFails(t) PROVE LockInv'
  BY <1>0, <1>6 DEF FileFails, FreeMutex, LockInv, LockTypeOK, Owns, Steps
<1>7. ASSUME NEW t \in Threads, DropGuard(t) PROVE LockInv'
  BY <1>0, <1>7 DEF DropGuard, LockInv, LockTypeOK, Owns, Steps
<1>8. ASSUME NEW t \in Threads, UnlockFile(t) PROVE LockInv'
  BY <1>0, <1>8 DEF UnlockFile, LockInv, LockTypeOK, Owns, Steps
<1>9. ASSUME NEW t \in Threads, ReleaseMutex(t) PROVE LockInv'
  BY <1>0, <1>9 DEF ReleaseMutex, FreeMutex, LockInv, LockTypeOK, Owns, Steps
<1>10. ASSUME NEW p \in Procs, ProcessDies(p) PROVE LockInv'
  BY <1>0, <1>10 DEF ProcessDies, LockInv, LockTypeOK, Owns, Steps
<1>11. CASE UNCHANGED lockVars
  BY <1>0, <1>11 DEF lockVars, LockInv, LockTypeOK, Owns
<1> QED BY <1>1, <1>2, <1>3, <1>4, <1>5, <1>6, <1>7, <1>8, <1>9, <1>10, <1>11
        DEF LockNext

\* The ownership facts hold throughout.
LEMMA LockInvariance == LockSpec => []LockInv
  BY LockInvInit, LockInvStep, PTL DEF LockSpec

\* What the ownership facts say together.
LEMMA OwnershipFacts == LockInv => MutualExclusion /\ GuardOwnsBoth /\ NothingLeaks
<1> SUFFICES ASSUME LockInv PROVE MutualExclusion /\ GuardOwnsBoth /\ NothingLeaks
  OBVIOUS
<1>1. ASSUME NEW t \in inside PROVE t \in Threads /\ t \in held
  BY <1>1 DEF LockInv, LockTypeOK, Owns, inside
<1>2. GuardOwnsBoth
  BY <1>1 DEF LockInv, Owns, GuardOwnsBoth
<1>3. MutualExclusion
  BY <1>2 DEF GuardOwnsBoth, MutualExclusion
<1>4. NothingLeaks
  BY DEF LockInv, LockTypeOK, Owns, NothingLeaks
<1> QED BY <1>2, <1>3, <1>4

\* The state of every lock slot stays well typed; depth never exceeds the
\* number of guards the callers were given.
THEOREM LockTypeCorrect == LockSpec => []LockTypeOK
  BY LockInvariance, PTL DEF LockInv

\* No two threads, of one process or of two, are ever inside a Skill
\* transaction together (transaction.rs, ReentrantFileGuard).
THEOREM LockExcludes == LockSpec => []MutualExclusion
  BY LockInvariance, OwnershipFacts, PTL

\* A thread that still holds a guard still owns the mutex and the file lock,
\* in whatever order its other guards were dropped.
THEOREM GuardKeepsLock == LockSpec => []GuardOwnsBoth
  BY LockInvariance, OwnershipFacts, PTL

\* Outside acquire and without guards a thread owns neither lock.
THEOREM NoLeak == LockSpec => []NothingLeaks
  BY LockInvariance, OwnershipFacts, PTL

\* Guards are handed out by TakeFile and given back by DropGuard; all the
\* other steps leave the set of threads inside as it is, except a crash, which
\* can only empty it.
LEMMA StepImplements == LockInv /\ LockInv' /\ [LockNext]_lockVars => [Exclusive!Next]_inside
<1> SUFFICES ASSUME LockInv, LockInv', [LockNext]_lockVars, inside' # inside
             PROVE  Exclusive!Next
  OBVIOUS
<1> USE DEF inside
<1>1. /\ LockTypeOK /\ LockTypeOK'
      /\ \A t \in Threads : Owns(t)
  BY DEF LockInv
<1>2. /\ \A s, t \in inside : s = t
      /\ \A s, t \in inside' : s = t
  BY OwnershipFacts DEF LockInv, LockTypeOK, Owns
<1>3. ASSUME NEW t \in Threads, inside = {t}, inside' = {}
      PROVE  Exclusive!Next
  BY <1>3 DEF Exclusive!Next, Exclusive!Leave
<1>4. ASSUME NEW t \in Threads, inside = {}, inside' = {t}
      PROVE  Exclusive!Next
  BY <1>4 DEF Exclusive!Next, Exclusive!Enter
<1>5. ASSUME NEW t \in Threads, TakeFile(t) PROVE Exclusive!Next
  <2>1. inside = {}
    <3> SUFFICES ASSUME NEW u \in Threads, guards[u] > 0 PROVE FALSE
      OBVIOUS
    <3>1. guards[u] = depth[u] /\ depth[u] \in Nat
      BY <1>1 DEF Owns, LockTypeOK
    <3>2. file = u
      BY <1>1, <3>1 DEF Owns
    <3> QED BY <1>5, <3>2, NobodyAssumption DEF TakeFile
  <2>2. t \in inside'
    BY <1>1, <1>5 DEF TakeFile, LockTypeOK
  <2>3. inside' = {t}
    BY <1>2, <2>2
  <2> QED BY <1>4, <2>1, <2>3
<1>6. ASSUME NEW S \in SUBSET Threads, inside' = inside \ S
      PROVE  Exclusive!Next
  <2>1. PICK t \in inside : t \notin inside'
    BY <1>6
  <2>2. t \in Threads
    BY <2>1
  <2> HIDE DEF inside
  <2>3. inside = {t} /\ inside' = {}
    BY <1>2, <1>6, <2>1
  <2> QED BY <1>3, <2>2, <2>3
<1>7. ASSUME NEW t \in Threads, DropGuard(t) PROVE Exclusive!Next
  <2>1. inside' = inside \/ inside' = inside \ {t}
    BY <1>1, <1>7 DEF DropGuard, LockTypeOK
  <2> QED BY <1>6, <2>1
<1>8. ASSUME NEW p \in Procs, ProcessDies(p) PROVE Exclusive!Next
  <2>1. inside' = inside \ {t \in Threads : ProcOf[t] = p}
    BY <1>1, <1>8 DEF ProcessDies, LockTypeOK
  <2> QED BY <1>6, <2>1
<1>9. ASSUME NEW t \in Threads, Reenter(t) PROVE FALSE
  <2>1. guards[t] > 0
    BY <1>1, <1>9 DEF Reenter, Owns, LockTypeOK
  <2>2. guards'[t] > 0 /\ \A u \in Threads \ {t} : guards'[u] = guards[u]
    BY <1>1, <1>9, <2>1 DEF Reenter, LockTypeOK
  <2> QED BY <2>1, <2>2
<1>10. ASSUME guards' = guards PROVE FALSE
  BY <1>10
<1> QED BY <1>5, <1>7, <1>8, <1>9, <1>10
        DEF LockNext, lockVars, Call, TakeMutex, MutexTimeout, FileFails, UnlockFile,
            ReleaseMutex

\* The lock implements exclusive access, for every number of threads and
\* processes.
THEOREM LockImplements == LockSpec => Implements
<1>1. LockInit => Exclusive!Init
  BY DEF LockInit, Exclusive!Init, inside
<1> QED BY <1>1, LockInvariance, StepImplements, PTL DEF LockSpec, Implements, Exclusive!Spec
-----------------------------------------------------------------------------
\* What an operation knows while it runs.
Working == /\ op \in Installs => new \in Versions
           /\ op \in {"none", "doctor"} => aside = Nothing /\ swapped = {}

\* The types, with it.
Typed == TypeOK /\ Working

\* The installation starts empty.
LEMMA InitTyped == Init => Typed
  BY BoundsAssumption
  DEF Init, StoreInit, Typed, TypeOK, StoreTypeOK, Working, Nothing, Installs

\* Dropping or unstamping leftovers keeps them well-formed.
LEMMA DropTyped ==
    ASSUME StoreTypeOK, NEW R, Drop(R) \/ Unstamp(R) \/ UNCHANGED leftovers
    PROVE  /\ residue' \subseteq AllLeftovers /\ stamped' \subseteq residue'
           /\ stale' \subseteq stamped'
  BY DEF StoreTypeOK, Drop, Unstamp, leftovers

\* So does keeping a new one of a known kind, Skill and content.
LEMMA KeepTyped ==
    ASSUME StoreTypeOK, NEW k \in Kinds, NEW n \in Skills, NEW c \in Contents,
           Keep(Leftover(k, n, c))
    PROVE  /\ residue' \subseteq AllLeftovers /\ stamped' \subseteq residue'
           /\ stale' \subseteq stamped'
  BY DEF StoreTypeOK, Keep, Leftover, AllLeftovers

\* Faults stay within their bound.
LEMMA FaultsTyped ==
    ASSUME faults \in 0 .. MaxFaults, NoFault \/ Fault \/ Faults(2)
    PROVE  faults' \in 0 .. MaxFaults
  BY BoundsAssumption DEF NoFault, Fault, Faults

\* Every step of an install keeps the types.
LEMMA InstallStepTyped == Typed /\ InstallStep => Typed'
  <1> SUFFICES ASSUME Typed, InstallStep PROVE Typed'
    OBVIOUS
  <1> USE DEF Typed, Working, TypeOK, Installs
  <1> DEFINE LeftoversOK == /\ residue' \subseteq AllLeftovers /\ stamped' \subseteq residue'
                            /\ stale' \subseteq stamped'
  <1>s. /\ canon \in [Skills -> Contents \cup {Absent}]
        /\ lock \in [Skills -> Versions \cup {Absent}]
        /\ baseline \in [Skills -> Contents \cup {Absent}]
        /\ StoreTypeOK
    BY DEF StoreTypeOK
  <1>1. ASSUME NEW n \in Skills, StageUnit(n) PROVE Typed'
    <2>1. new \in Contents
      BY <1>1 DEF StageUnit, Contents
    <2>2. LeftoversOK
      BY <1>1, <1>s, <2>1, KeepTyped DEF StageUnit, Stage, Kinds
    <2> QED
      BY <1>1, <1>s, <2>2, FaultsTyped
      DEF StageUnit, Advance, StoreTypeOK, records, outside, history
  <1>2. ASSUME NEW n \in Skills, SwapAside(n) PROVE Typed'
    <2>1. canon[n] \in Contents
      BY <1>2, <1>s DEF SwapAside
    <2>2. LeftoversOK
      BY <1>2, <1>s, <2>1, KeepTyped DEF SwapAside, Kinds
    <2> QED
      BY <1>2, <1>s, <2>2, FaultsTyped DEF SwapAside, StoreTypeOK, records, outside, history
  <1>3. ASSUME NEW n \in Skills, SwapIn(n) PROVE Typed'
    <2>2. LeftoversOK
      BY <1>3, <1>s, DropTyped DEF SwapIn
    <2> QED
      BY <1>3, <1>s, <2>2, FaultsTyped
      DEF SwapIn, Advance, StoreTypeOK, Contents, records, outside, history
  <1>4. ASSUME NEW n \in Skills, SwapFails(n) PROVE Typed'
    <2>1. LeftoversOK
      BY <1>4, <1>s, DropTyped DEF SwapFails, folders
    <2>2. faults' \in 0 .. MaxFaults
      BY <1>4, FaultsTyped DEF SwapFails
    <2>3. canon' \in [Skills -> Contents \cup {Absent}]
      BY <1>4, <1>s DEF SwapFails, folders
    <2>4. intact' \in BOOLEAN
      BY <1>4 DEF SwapFails
    <2> QED
      BY <1>4, <1>s, <2>1, <2>2, <2>3, <2>4 DEF SwapFails, GoTo, StoreTypeOK, records, outside
  <1>5. ASSUME NEW n \in Skills, CommitUnit(n) PROVE Typed'
    <2>1. LeftoversOK
      BY <1>5, <1>s, DropTyped DEF CommitUnit
    <2> QED
      BY <1>5, <1>s, <2>1, FaultsTyped
      DEF CommitUnit, Advance, StoreTypeOK, records, outside, history
  <1>6. ASSUME NEW n \in Skills, UndoSwap(n) PROVE Typed'
    <2>1. LeftoversOK
      BY <1>6, <1>s, DropTyped DEF UndoSwap
    <2>2. faults' \in 0 .. MaxFaults
      BY <1>6, FaultsTyped DEF UndoSwap
    <2>3. canon' \in [Skills -> Contents \cup {Absent}]
      BY <1>6, <1>s DEF UndoSwap
    <2>4. intact' \in BOOLEAN
      BY <1>6 DEF UndoSwap
    <2> QED
      BY <1>6, <1>s, <2>1, <2>2, <2>3, <2>4 DEF UndoSwap, StoreTypeOK, records, outside
  <1>7. ASSUME NEW n \in Skills, PutBack(n) PROVE Typed'
    <2>1. LeftoversOK
      <3>1. CASE Drop({Stage(n)}) \/ Drop({Stage(n), Backup(n)})
        BY <1>s, <3>1, DropTyped
      <3>2. CASE /\ residue' = residue \ {Stage(n)}
                 /\ stamped' = stamped \ {Stage(n), Backup(n)}
                 /\ stale'   = stale \ {Stage(n), Backup(n)}
        BY <1>s, <3>2 DEF StoreTypeOK
      <3> QED
        BY <1>7, <3>1, <3>2 DEF PutBack
    <2>2. faults' \in 0 .. MaxFaults
      BY <1>7, FaultsTyped DEF PutBack
    <2>3. canon' \in [Skills -> Contents \cup {Absent}]
      BY <1>7, <1>s DEF PutBack
    <2>4. \/ End
          \/ \E ok \in BOOLEAN :
               /\ todo' = todo \ {n}
               /\ aside' = [aside EXCEPT ![n] = Absent]
               /\ intact' = ok
               /\ UNCHANGED <<op, phase, units, new, swapped, before>>
      BY <1>7 DEF PutBack, RolledBack
    <2>5. /\ UNCHANGED <<records, outside, owed>>
          /\ op \in Installs
      BY <1>7 DEF PutBack
    <2>6. CASE End
      BY <1>s, <2>1, <2>2, <2>3, <2>5, <2>6 DEF End, Leave, Nothing, StoreTypeOK, records, outside
    <2>7. CASE ~End
      BY <1>s, <2>1, <2>2, <2>3, <2>4, <2>5, <2>7 DEF StoreTypeOK, records, outside
    <2> QED
      BY <2>6, <2>7
  <1>8. CASE StageFails
    BY <1>8, <1>s, FaultsTyped
    DEF StageFails, GoTo, StoreTypeOK, folders, leftovers, records, outside, history
  <1>9. CASE WriteLock
    BY <1>9, <1>s, FaultsTyped DEF WriteLock, GoTo, StoreTypeOK, outside
  <1>10. CASE LockFails
    BY <1>10, <1>s, FaultsTyped
    DEF LockFails, GoTo, StoreTypeOK, folders, leftovers, records, outside, history
  <1>11. CASE RecordBaseline
    <2>1. faults' \in 0 .. MaxFaults
      BY <1>11, FaultsTyped DEF RecordBaseline
    <2>2. baseline' \in [Skills -> Contents \cup {Absent}]
      BY <1>11, <1>s DEF RecordBaseline
    <2> QED
      BY <1>11, <1>s, <2>1, <2>2
      DEF RecordBaseline, End, Leave, Nothing, StoreTypeOK, folders, leftovers, outside
  <1> QED
    BY <1>1, <1>2, <1>3, <1>4, <1>5, <1>6, <1>7, <1>8, <1>9, <1>10, <1>11 DEF InstallStep

\* Every step of an uninstall keeps the types.
LEMMA RemovalStepTyped == Typed /\ RemovalStep => Typed'
  <1> SUFFICES ASSUME Typed, RemovalStep PROVE Typed'
    OBVIOUS
  <1> USE DEF Typed, Working, TypeOK, Installs
  <1> DEFINE LeftoversOK == /\ residue' \subseteq AllLeftovers /\ stamped' \subseteq residue'
                            /\ stale' \subseteq stamped'
  <1>s. /\ canon \in [Skills -> Contents \cup {Absent}]
        /\ lock \in [Skills -> Versions \cup {Absent}]
        /\ baseline \in [Skills -> Contents \cup {Absent}]
        /\ StoreTypeOK
    BY DEF StoreTypeOK
  <1>1. ASSUME NEW n \in Skills, MoveAside(n) PROVE Typed'
    <2>1. CASE canon[n] = Absent
      BY <1>1, <1>s, <2>1, FaultsTyped
      DEF MoveAside, GoTo, StoreTypeOK, folders, leftovers, records, outside, history
    <2>2. CASE canon[n] # Absent
      <3>1. LeftoversOK
        BY <1>1, <1>s, <2>2, KeepTyped DEF MoveAside, Kinds
      <3> QED
        BY <1>1, <1>s, <2>2, <3>1, FaultsTyped
        DEF MoveAside, GoTo, StoreTypeOK, records, outside, history
    <2> QED
      BY <2>1, <2>2
  <1>2. ASSUME NEW n \in Skills, RemoveLock(n) PROVE Typed'
    BY <1>2, <1>s, FaultsTyped
    DEF RemoveLock, GoTo, StoreTypeOK, folders, leftovers, outside
  <1>3. ASSUME NEW n \in Skills, UnlockFails(n) PROVE Typed'
    <2>1. LeftoversOK
      BY <1>3, <1>s, DropTyped DEF UnlockFails, MovedBack, folders
    <2>2. faults' \in 0 .. MaxFaults
      BY <1>3, FaultsTyped DEF UnlockFails
    <2>3. canon' \in [Skills -> Contents \cup {Absent}]
      BY <1>3, <1>s DEF UnlockFails, MovedBack, folders
    <2> QED
      BY <1>3, <1>s, <2>1, <2>2, <2>3
      DEF UnlockFails, End, Leave, Nothing, StoreTypeOK, records, outside
  <1>4. ASSUME NEW n \in Skills, ForgetBaseline(n) PROVE Typed'
    <2>1. faults' \in 0 .. MaxFaults
      BY <1>4, FaultsTyped DEF ForgetBaseline
    <2> QED
      BY <1>4, <1>s, <2>1
      DEF ForgetBaseline, GoTo, StoreTypeOK, folders, leftovers, outside, history
  <1>5. ASSUME NEW n \in Skills, CleanAside(n) PROVE Typed'
    <2>1. LeftoversOK
      BY <1>5, <1>s, DropTyped DEF CleanAside
    <2>2. faults' \in 0 .. MaxFaults
      BY <1>5, FaultsTyped DEF CleanAside
    <2> QED
      BY <1>5, <1>s, <2>1, <2>2
      DEF CleanAside, End, Leave, Nothing, StoreTypeOK, records, outside
  <1>6. CASE MoveFails
    BY <1>6, <1>s, FaultsTyped
    DEF MoveFails, End, Leave, Nothing, StoreTypeOK, folders, leftovers, records, outside
  <1> QED
    BY <1>1, <1>2, <1>3, <1>4, <1>5, <1>6 DEF RemovalStep

\* Every step of a repair keeps the types.
LEMMA RepairStepTyped == Typed /\ RepairStep => Typed'
  <1> SUFFICES ASSUME Typed, RepairStep PROVE Typed'
    OBVIOUS
  <1> USE DEF Typed, Working, TypeOK, Installs
  <1>s. /\ canon \in [Skills -> Contents \cup {Absent}]
        /\ lock \in [Skills -> Versions \cup {Absent}]
        /\ baseline \in [Skills -> Contents \cup {Absent}]
        /\ StoreTypeOK
    BY DEF StoreTypeOK
  <1> DEFINE LeftoversOK == /\ residue' \subseteq AllLeftovers /\ stamped' \subseteq residue'
                            /\ stale' \subseteq stamped'
  <1>p. \A s \in plan : s.skill \in Skills /\ s.content \in Contents \cup {Absent}
    BY DEF RepairSteps
  <1>1. ASSUME NEW s \in plan, RestoreBackup(s) PROVE Typed'
    <2>1. LeftoversOK
      BY <1>1, <1>s, DropTyped DEF RestoreBackup, folders
    <2>2. faults' \in 0 .. MaxFaults
      BY <1>1, FaultsTyped DEF RestoreBackup, NoFault
    <2>3. canon' \in [Skills -> Contents \cup {Absent}]
      BY <1>1, <1>s, <1>p DEF RestoreBackup, folders
    <2>4. owed' \subseteq Skills
      BY <1>1 DEF RestoreBackup
    <2> QED
      BY <1>1, <1>s, <2>1, <2>2, <2>3, <2>4
      DEF RestoreBackup, NextStep, StoreTypeOK, records, work
  <1>2. ASSUME NEW s \in plan, RemoveResidue(s) PROVE Typed'
    <2>1. LeftoversOK
      BY <1>2, <1>s, DropTyped DEF RemoveResidue
    <2>2. faults' \in 0 .. MaxFaults
      BY <1>2, FaultsTyped DEF RemoveResidue
    <2> QED
      BY <1>2, <1>s, <2>1, <2>2
      DEF RemoveResidue, NextStep, StoreTypeOK, records, work, history
  <1>3. ASSUME NEW s \in plan, PruneLockEntry(s) PROVE Typed'
    <2>1. lock' \in [Skills -> Versions \cup {Absent}]
      BY <1>3, <1>s DEF PruneLockEntry
    <2>2. faults' \in 0 .. MaxFaults
      BY <1>3, FaultsTyped DEF PruneLockEntry
    <2> QED
      BY <1>3, <1>s, <2>1, <2>2
      DEF PruneLockEntry, NextStep, StoreTypeOK, folders, leftovers, work, history
  <1>4. ASSUME NEW s \in plan, ReinstallFromLock(s) PROVE Typed'
    <2>1. UNCHANGED <<folders, records, fetched, faults>> /\ plan' = plan \ {s}
      BY <1>4 DEF ReinstallFromLock, NextStep
    <2>4. owed' \subseteq Skills
      BY <1>4, <1>s DEF ReinstallFromLock, history
    <2>2. CASE \E v \in Versions : Start("reinstall", "stage", {s.skill}, v)
      BY <1>s, <1>p, <2>1, <2>2, <2>4 DEF Start, Nothing, StoreTypeOK, folders, leftovers, records
    <2>3. CASE UNCHANGED <<work, before, intact>>
      BY <1>s, <2>1, <2>3, <2>4 DEF StoreTypeOK, folders, leftovers, records, work
    <2> QED
      BY <1>4, <2>2, <2>3 DEF ReinstallFromLock, history
  <1>5. CASE RepairDone
    BY <1>5, <1>s DEF RepairDone, End, Leave, Nothing, StoreTypeOK, folders, leftovers,
                      records, outside
  <1> QED
    BY <1>1, <1>2, <1>3, <1>4, <1>5 DEF RepairStep

\* What Doctor plans are repair steps.
LEMMA ScanTyped == Typed /\ Scan => plan' \subseteq RepairSteps
  <1> SUFFICES ASSUME Typed, Scan PROVE plan' \subseteq RepairSteps
    OBVIOUS
  <1>1. ASSUME NEW r \in residue, NEW s \in Repairs(r) PROVE s \in RepairSteps
    <2>1. r \in AllLeftovers
      BY DEF Typed, TypeOK, StoreTypeOK
    <2>2. s \in {Step("restore", r), Step("discard", r)}
      BY <1>1 DEF Repairs
    <2> QED
      BY <2>1, <2>2 DEF Step, RepairSteps, AllLeftovers
  <1>2. ASSUME NEW n \in Skills, NEW a \in {"reinstall", "prune"}
        PROVE  LockStep(a, n) \in RepairSteps
    BY DEF LockStep, RepairSteps
  <1> DEFINE Judged == {x \in residue : x.kind = "backup" /\ canon[x.skill] # Absent
                                          => ReplacementCommitted(x.skill)}
  <1>3. PICK missing \in [{n \in Skills : canon[n] = Absent /\ lock[n] # Absent}
                             -> {"reinstall", "prune"}] :
          plan' = (UNION {Repairs(r) : r \in Judged})
                  \cup {LockStep(missing[n], n) : n \in DOMAIN missing}
    BY DEF Scan
  <1> DEFINE OfLeftovers == UNION {Repairs(r) : r \in Judged}
             OfEntries   == {LockStep(missing[n], n) : n \in DOMAIN missing}
  <1>4. OfLeftovers \subseteq RepairSteps
    BY <1>1
  <1>5. ASSUME NEW s \in OfEntries PROVE s \in RepairSteps
    <2>1. PICK n \in DOMAIN missing : s = LockStep(missing[n], n)
      OBVIOUS
    <2>2. n \in Skills /\ missing[n] \in {"reinstall", "prune"}
      BY <1>3, <2>1
    <2> QED
      BY <1>2, <2>1, <2>2
  <1>6. plan' = OfLeftovers \cup OfEntries
    BY <1>3
  <1> HIDE DEF OfLeftovers, OfEntries
  <1> QED
    BY <1>4, <1>5, <1>6

\* Every step keeps the types.
LEMMA StepTyped == Typed /\ [Next]_vars => Typed'
  <1> SUFFICES ASSUME Typed, [Next]_vars PROVE Typed'
    OBVIOUS
  <1>s. /\ canon \in [Skills -> Contents \cup {Absent}]
        /\ lock \in [Skills -> Versions \cup {Absent}]
        /\ baseline \in [Skills -> Contents \cup {Absent}]
        /\ StoreTypeOK
    BY DEF Typed, TypeOK, StoreTypeOK
  \* The steps that leave the store alone, except for dropped leftovers.
  <1> USE DEF Typed, Working, TypeOK, Installs
  <1>1. ASSUME NEW S \in SUBSET Skills, NEW v \in Versions, Install(S, v) PROVE Typed'
    BY <1>1, <1>s DEF Install, Start, Nothing, StoreTypeOK, folders, leftovers, records, outside
  <1>2. ASSUME NEW n \in Skills, NEW v \in Versions, NEW auto \in BOOLEAN, Fetch(n, v, auto)
        PROVE Typed'
    <2>1. lock[n] \in Versions /\ SourceOf[v] \in Sources
      BY <1>2, <1>s, SourceOfAssumption DEF Fetch
    <2>2. [skill |-> n, source |-> SourceOf[v], version |-> v, auto |-> auto] \in Fetches
      BY <2>1 DEF Fetches
    <2>3. fetched' \subseteq Fetches
      BY <1>2, <2>2 DEF Fetch
    <2> QED
      BY <1>2, <1>s, <2>3
      DEF Fetch, StoreTypeOK, folders, leftovers, records, work, history
  <1>3. ASSUME NEW f \in fetched, ApplyFetched(f) PROVE Typed'
    <2>1. f.skill \in Skills /\ f.version \in Versions
      BY DEF Fetches
    <2>2. UNCHANGED <<folders, records, plan, faults>> /\ fetched' = fetched \ {f}
      BY <1>3 DEF ApplyFetched
    <2>3. CASE \E o \in {"auto", "update"} :
                  Start(o, "stage", {f.skill}, f.version) /\ UNCHANGED owed
      BY <1>s, <2>1, <2>2, <2>3 DEF Start, Nothing, StoreTypeOK, folders, leftovers, records
    <2>4. CASE UNCHANGED <<work, history>>
      BY <1>s, <2>2, <2>4 DEF StoreTypeOK, folders, leftovers, records, work, history
    <2> QED
      BY <1>3, <2>3, <2>4 DEF ApplyFetched
  <1>4. ASSUME NEW f \in fetched, FetchLost(f) PROVE Typed'
    BY <1>4, <1>s DEF FetchLost, StoreTypeOK, folders, leftovers, records, work, history
  <1>5. ASSUME NEW n \in Skills, Uninstall(n) PROVE Typed'
    BY <1>5, <1>s DEF Uninstall, Start, Nothing, StoreTypeOK, folders, leftovers, records, outside
  <1>6. ASSUME NEW n \in Skills, UserEdit(n) PROVE Typed'
    BY <1>6, <1>s DEF UserEdit, StoreTypeOK, Contents, leftovers, records, work, outside
  <1>7. ASSUME NEW r \in residue, Age(r) PROVE Typed'
    BY <1>7, <1>s DEF Age, StoreTypeOK, records, work, outside, history
  <1>8. ASSUME NEW r \in residue, Sweep(r) PROVE Typed'
    <2>1. /\ residue' \subseteq AllLeftovers /\ stamped' \subseteq residue'
          /\ stale' \subseteq stamped'
      BY <1>8, <1>s, DropTyped DEF Sweep
    <2> QED
      BY <1>8, <1>s, <2>1 DEF Sweep, StoreTypeOK, records, work, outside, history
  <1>9. CASE Scan
    BY <1>9, <1>s, ScanTyped DEF Scan, StoreTypeOK, folders, leftovers, records, work, history
  <1>10. CASE Repair
    BY <1>10, <1>s, AbsentAssumption
    DEF Repair, Start, Nothing, StoreTypeOK, folders, leftovers, records, outside
  <1>11. CASE PlanLost
    BY <1>11, <1>s DEF PlanLost, StoreTypeOK, folders, leftovers, records, work, history
  <1>12. CASE Crash
    BY <1>12, <1>s, FaultsTyped
    DEF Crash, Leave, Nothing, StoreTypeOK, folders, leftovers, records
  <1>13. CASE UNCHANGED vars
    BY <1>13, <1>s
    DEF vars, StoreTypeOK, folders, leftovers, records, work, outside, history
  <1> QED
    BY <1>1, <1>2, <1>3, <1>4, <1>5, <1>6, <1>7, <1>8, <1>9, <1>10, <1>11, <1>12, <1>13,
       InstallStepTyped, RemovalStepTyped, RepairStepTyped
    DEF Next
-----------------------------------------------------------------------------
\* No step takes away what the running operation moved aside.
LEMMA StepAside == Typed /\ AsideIsKept /\ [Next]_vars => AsideIsKept'
  <1> SUFFICES ASSUME Typed, AsideIsKept, [Next]_vars PROVE AsideIsKept'
    OBVIOUS
  <1>t. /\ aside \in [Skills -> Contents \cup {Absent}]
        /\ op \in {"none", "doctor"} => aside = Nothing
        /\ canon \in [Skills -> Contents \cup {Absent}]
    BY DEF Typed, TypeOK, StoreTypeOK, Working
  \* The operation starts or ends.
  <1>1. CASE aside' = Nothing
    BY <1>1 DEF AsideIsKept, Nothing
  \* The leftovers it does not name stay.
  <1>2. CASE UNCHANGED <<op, aside, residue>>
    BY <1>2 DEF AsideIsKept
  <1>3. ASSUME NEW n \in Skills, StageUnit(n) PROVE AsideIsKept'
    BY <1>3 DEF StageUnit, Keep, Advance, AsideIsKept
  <1>4. ASSUME NEW n \in Skills, SwapAside(n) PROVE AsideIsKept'
    <2>1. op # "uninstall"
      BY <1>4 DEF SwapAside, Installs
    <2> QED
      BY <1>t, <1>4, <2>1 DEF SwapAside, Keep, AsideIsKept
  <1>5. ASSUME NEW n \in Skills, SwapIn(n) PROVE AsideIsKept'
    <2>1. op # "uninstall" /\ op' = op /\ aside' = aside
      BY <1>5 DEF SwapIn, Installs, Advance
    <2>2. residue' = residue \ {Leftover("stage", n, new)}
      BY <1>5 DEF SwapIn, Drop, Stage
    <2> QED
      BY <2>1, <2>2 DEF AsideIsKept, Leftover
  <1>6. ASSUME NEW n \in Skills, SwapFails(n) PROVE AsideIsKept'
    <2>1. op # "uninstall" /\ op' = op /\ aside' = [aside EXCEPT ![n] = Absent]
      BY <1>6 DEF SwapFails, Installs, GoTo
    <2>2. residue \ {Leftover("backup", n, aside[n])} \subseteq residue'
      BY <1>6 DEF SwapFails, Drop, Unstamp, Backup, folders, leftovers
    <2> QED
      BY <1>t, <2>1, <2>2 DEF AsideIsKept, Leftover
  <1>7. ASSUME NEW n \in Skills, CommitUnit(n) PROVE AsideIsKept'
    <2>1. op # "uninstall" /\ op' = op /\ aside' = [aside EXCEPT ![n] = Absent]
      BY <1>7 DEF CommitUnit, Installs, Advance
    <2>2. residue \ {Leftover("backup", n, aside[n])} \subseteq residue'
      BY <1>7 DEF CommitUnit, Drop, Backup, leftovers
    <2> QED
      BY <1>t, <2>1, <2>2 DEF AsideIsKept, Leftover
  <1>8. ASSUME NEW n \in Skills, PutBack(n) PROVE AsideIsKept'
    <2>1. CASE End
      BY <1>1, <2>1 DEF End, Leave
    <2>2. CASE ~End
      <3>1. op # "uninstall" /\ op' = op /\ aside' = [aside EXCEPT ![n] = Absent]
        BY <1>8, <2>2 DEF PutBack, RolledBack, Installs
      <3>2. residue \ {Leftover("backup", n, aside[n]), Leftover("stage", n, new)}
              \subseteq residue'
        BY <1>8 DEF PutBack, Drop, Backup, Stage
      <3> QED
        BY <1>t, <3>1, <3>2 DEF AsideIsKept, Leftover
    <2> QED
      BY <2>1, <2>2
  <1>9. ASSUME NEW n \in Skills, MoveAside(n) PROVE AsideIsKept'
    BY <1>t, <1>9 DEF MoveAside, GoTo, Keep, folders, leftovers, AsideIsKept
  <1>10. CASE RepairStep
    <2>1. op = "doctor"
      BY <1>10 DEF RepairStep, RestoreBackup, RemoveResidue, PruneLockEntry,
                   ReinstallFromLock, NextStep, RepairDone
    <2>2. aside' = aside \/ aside' = Nothing
      BY <1>10 DEF RepairStep, RestoreBackup, RemoveResidue, PruneLockEntry,
                   ReinstallFromLock, RepairDone, End, Leave, Start, work
    <2> QED
      BY <1>t, <1>1, <2>1, <2>2
  <1>11. ASSUME NEW n \in Skills, UserEdit(n) PROVE AsideIsKept'
    BY <1>2, <1>11 DEF UserEdit, leftovers, work
  <1>12. ASSUME NEW r \in residue, Age(r) \/ Sweep(r) PROVE AsideIsKept'
    BY <1>t, <1>1, <1>12 DEF Age, Sweep, work
  <1>13. ASSUME NEW f \in fetched, ApplyFetched(f) \/ FetchLost(f) PROVE AsideIsKept'
    <2>1. aside' = Nothing \/ UNCHANGED <<op, aside, residue>>
      BY <1>13 DEF ApplyFetched, FetchLost, Start, folders, leftovers, work
    <2> QED
      BY <1>1, <1>2, <2>1
  <1>14. CASE \E n \in Skills : \/ UndoSwap(n) \/ RemoveLock(n) \/ ForgetBaseline(n)
    BY <1>2, <1>14 DEF UndoSwap, RemoveLock, ForgetBaseline, GoTo, folders, leftovers
  <1>15. CASE \E n \in Skills : UnlockFails(n) \/ CleanAside(n) \/ Uninstall(n)
    BY <1>1, <1>15 DEF UnlockFails, CleanAside, Uninstall, End, Leave, Start
  <1>16. CASE StageFails \/ WriteLock \/ LockFails
    BY <1>2, <1>16 DEF StageFails, WriteLock, LockFails, GoTo, folders, leftovers
  <1>17. CASE RecordBaseline \/ MoveFails \/ Repair \/ Crash
    BY <1>1, <1>17 DEF RecordBaseline, MoveFails, Repair, Crash, End, Leave, Start
  <1>18. CASE Scan \/ PlanLost \/ UNCHANGED vars
    BY <1>2, <1>18 DEF Scan, PlanLost, vars, folders, leftovers, work
  <1>19. CASE \E S \in SUBSET Skills, v \in Versions : Install(S, v)
    BY <1>1, <1>19 DEF Install, Start
  <1>20. CASE \E n \in Skills, v \in Versions, auto \in BOOLEAN : Fetch(n, v, auto)
    BY <1>2, <1>20 DEF Fetch, folders, leftovers, work
  <1> QED
    BY <1>3, <1>4, <1>5, <1>6, <1>7, <1>8, <1>9, <1>10, <1>11, <1>12, <1>13, <1>14,
       <1>15, <1>16, <1>17, <1>18, <1>19, <1>20
    DEF Next, InstallStep, RemovalStep

\* At the start nothing is aside.
LEMMA InitAside == Init => AsideIsKept
  BY DEF Init, Nothing, AsideIsKept

\* The types and what is aside, throughout.
LEMMA Invariance == Spec => [](Typed /\ AsideIsKept)
  BY InitTyped, InitAside, StepTyped, StepAside, PTL DEF Spec

\* The store, the running operation and everything waiting stay well-formed.
THEOREM TypeCorrect == Spec => []TypeOK
  <1>1. Typed => TypeOK
    BY DEF Typed
  <1> QED
    BY Invariance, <1>1, PTL

\* For any Skills, versions, sources, faults, fetches and repairs: what a running
\* operation moved aside is there when it has to put it back.
THEOREM AsideStays == Spec => []AsideIsKept
  BY Invariance, PTL
-----------------------------------------------------------------------------
\* No planned repair deletes the leftover r.
Undiscarded(r) == \A s \in plan : s.act = "discard" => Of(s) # r

\* Skill n has a leftover with content c that Doctor restores from.
SafeCopy(n, c) == \E k \in Copies : /\ Leftover(k, n, c) \in residue
                                    /\ Undiscarded(Leftover(k, n, c))

\* How far the running operation is, unit by unit.
Progress ==
    /\ op \in {"none", "doctor"} => phase = "none"
    /\ op \in {"none", "doctor", "uninstall"} => swapped = {}
    /\ op \in Installs => phase \in {"stage", "swap", "lock", "commit", "baseline", "rollback"}
    /\ op = "uninstall" => /\ phase \in {"move", "unlock", "forget", "clean"}
                           /\ \E n \in Skills : units = {n}
    /\ todo \subseteq units /\ swapped \subseteq units
    /\ phase = "stage" => swapped = {} /\ aside = Nothing
    /\ phase = "swap"  => units \ todo \subseteq swapped /\ todo \cap swapped = {}
    /\ phase \in {"lock", "commit", "baseline"} => units \subseteq swapped
    /\ phase \in {"commit", "baseline"} => \A n \in units : lock[n] = new
    /\ phase \in {"forget", "clean"} => \A n \in units : lock[n] = Absent
    /\ \A n \in swapped : canon[n] \in {new, Edit}

\* What the repairs planned so far may delete.
PlanOK == /\ MaxPlans = 0 => plan = {}
          /\ \A s \in plan : s.act = "discard" => s.kind # "remove"

\* When no edit lands inside an install and no install brings what the baseline
\* records already: nothing planned deletes what is yet to be moved aside, and
\* what is in place does not look committed before it is.
Undisturbed ==
    Hazards = {} =>
        /\ \A n \in swapped : canon[n] = new
        /\ op \in Installs \ {"reinstall"} => \A n \in units : baseline[n] # new
        /\ phase \in {"stage", "swap"} =>
             \A n \in units \ swapped : aside[n] = Absent /\ canon[n] # Absent =>
                 /\ Leftover("backup", n, canon[n]) \notin residue
                 /\ Undiscarded(Leftover("backup", n, canon[n]))

\* Skill n has content somebody vouches for: in a leftover, or in its folder.
Held(n) == \E c \in Known(n) : SafeCopy(n, c)
\* Known content of Skill n is in place or safe.
Firm(n) == canon[n] \in Known(n) \/ Held(n)

\* The strengthening of LockedIsRecoverable and TornSwapIsVisible: it holds in the
\* middle of an operation too, and until a batch has written the lock every unit
\* it has swapped has a leftover of what was there before.
Anchored ==
    /\ \A n \in Skills : lock[n] # Absent => Firm(n)
    /\ phase \in {"swap", "lock", "rollback"} =>
         \A n \in swapped : lock[n] # Absent => Held(n)

\* Every step but a scan leaves a plan as it is or shortens it.
LEMMA PlanShrinks == [Next]_vars /\ ~Scan => plan' \subseteq plan
  <1> SUFFICES ASSUME [Next]_vars, ~Scan PROVE plan' \subseteq plan
    OBVIOUS
  <1>1. CASE InstallStep
    BY <1>1 DEF InstallStep, StageUnit, SwapAside, SwapIn, SwapFails, CommitUnit, UndoSwap,
       PutBack, StageFails, WriteLock, LockFails, RecordBaseline, outside
  <1>2. CASE RemovalStep
    BY <1>2 DEF RemovalStep, MoveAside, RemoveLock, UnlockFails, ForgetBaseline, CleanAside,
       MoveFails, outside
  <1>3. CASE RepairStep
    BY <1>3 DEF RepairStep, RestoreBackup, RemoveResidue, PruneLockEntry, ReinstallFromLock,
       NextStep, RepairDone, outside
  <1>4. CASE Repair \/ PlanLost \/ Crash \/ UNCHANGED vars
    BY <1>4 DEF Repair, PlanLost, Crash, vars, outside
  <1>5. CASE \E r \in residue : Age(r) \/ Sweep(r)
    BY <1>5 DEF Age, Sweep, outside
  <1>6. CASE \E n \in Skills : Uninstall(n) \/ UserEdit(n)
    BY <1>6 DEF Uninstall, UserEdit, outside
  <1>7. CASE \E f \in fetched : ApplyFetched(f) \/ FetchLost(f)
    BY <1>7 DEF ApplyFetched, FetchLost
  <1>8. CASE \E S \in SUBSET Skills, v \in Versions : Install(S, v)
    BY <1>8 DEF Install, outside
  <1>9. CASE \E n \in Skills, v \in Versions, auto \in BOOLEAN : Fetch(n, v, auto)
    BY <1>9 DEF Fetch
  <1> QED
    BY <1>1, <1>2, <1>3, <1>4, <1>5, <1>6, <1>7, <1>8, <1>9 DEF Next

\* What a scan plans to discard stood beside its folder, and a backup among it
\* beside content the baseline records.
LEMMA ScanDiscards ==
    ASSUME Typed, Scan, NEW s \in plan', s.act = "discard"
    PROVE  /\ s.kind \in {"stage", "backup"} /\ Of(s) \in residue
           /\ canon[s.skill] # Absent
           /\ s.kind = "backup" => ReplacementCommitted(s.skill)
  <1> DEFINE Judged == {x \in residue : x.kind = "backup" /\ canon[x.skill] # Absent
                                          => ReplacementCommitted(x.skill)}
  <1>1. PICK missing \in [{n \in Skills : canon[n] = Absent /\ lock[n] # Absent}
                             -> {"reinstall", "prune"}] :
          plan' = (UNION {Repairs(r) : r \in Judged})
                  \cup {LockStep(missing[n], n) : n \in DOMAIN missing}
    BY DEF Scan
  <1>2. s \notin {LockStep(missing[n], n) : n \in DOMAIN missing}
    BY <1>1 DEF LockStep
  <1>3. PICK r \in Judged : s \in Repairs(r)
    BY <1>1, <1>2
  <1>4. r \in AllLeftovers
    BY DEF Typed, TypeOK, StoreTypeOK
  <1>5. canon[r.skill] # Absent /\ s = Step("discard", r) /\ r.kind \in {"stage", "backup"}
    BY <1>3 DEF Repairs, Step
  <1>6. Of(s) = r /\ s.skill = r.skill /\ s.kind = r.kind
    BY <1>4, <1>5 DEF Of, Step, Leftover, AllLeftovers
  <1> QED
    BY <1>5, <1>6

\* Every step keeps the plans so.
LEMMA StepPlanOK == Typed /\ PlanOK /\ [Next]_vars => PlanOK'
  <1> SUFFICES ASSUME Typed, PlanOK, [Next]_vars PROVE PlanOK'
    OBVIOUS
  <1>1. CASE ~Scan
    BY <1>1, PlanShrinks DEF PlanOK
  <1>2. CASE Scan
    <2>1. MaxPlans # 0
      BY <1>2 DEF Scan
    <2> QED
      BY <1>2, <2>1, ScanDiscards DEF PlanOK
  <1> QED
    BY <1>1, <1>2

\* Where an operation is follows from the step it takes.
LEMMA StepProgress == Typed /\ Progress /\ [Next]_vars => Progress'
  <1> SUFFICES ASSUME Typed, Progress, [Next]_vars PROVE Progress'
    OBVIOUS
  <1>t. /\ canon \in [Skills -> Contents \cup {Absent}]
        /\ lock \in [Skills -> Versions \cup {Absent}]
        /\ aside \in [Skills -> Contents \cup {Absent}]
        /\ units \subseteq Skills /\ todo \subseteq Skills /\ swapped \subseteq Skills
        /\ op \in Installs => new \in Versions
        /\ Absent \notin Versions /\ Absent # Edit
    BY AbsentAssumption DEF Typed, TypeOK, StoreTypeOK, Working
  <1> USE DEF Progress
  <1>1. CASE UNCHANGED <<canon, lock, work>>
    BY <1>1 DEF work
  \* The operation ends, or the next one starts.
  <1>e. ASSUME NEW o, Leave(o), o \in {"none", "doctor"} PROVE Progress'
    BY <1>e DEF Leave, Installs
  <1>16. ASSUME NEW o, NEW p, NEW S, NEW v, Start(o, p, S, v),
                \/ o \in Installs /\ p = "stage"
                \/ o = "uninstall" /\ p = "move" /\ \E n \in Skills : S = {n}
                \/ o = "doctor" /\ p = "none"
         PROVE  Progress'
    BY <1>16 DEF Start, Installs
  <1>2. ASSUME NEW n \in Skills, StageUnit(n) PROVE Progress'
    BY <1>2, <1>t DEF StageUnit, Advance, Installs, records
  <1>3. ASSUME NEW n \in Skills, SwapAside(n) PROVE Progress'
    BY <1>3, <1>t DEF SwapAside, Installs, records
  <1>4. ASSUME NEW n \in Skills, SwapIn(n) PROVE Progress'
    <2>1. /\ op \in Installs /\ phase = "swap" /\ n \in todo /\ UNCHANGED <<op, units, lock, new>>
          /\ swapped' = swapped \cup {n} /\ aside' = aside
      BY <1>4 DEF SwapIn, Advance, records
    <2>2. \A m \in swapped' : canon'[m] \in {new', Edit}
      BY <1>4, <1>t, <2>1 DEF SwapIn
    <2>3. CASE todo = {n}
      <3>1. phase' = "lock" /\ todo' = units
        BY <1>4, <2>3 DEF SwapIn, Advance
      <3> QED
        BY <2>1, <2>2, <2>3, <3>1 DEF Installs
    <2>4. CASE todo # {n}
      <3>1. phase' = "swap" /\ todo' = todo \ {n}
        BY <1>4, <2>1, <2>4 DEF SwapIn, Advance
      <3> QED
        BY <2>1, <2>2, <3>1 DEF Installs
    <2> QED
      BY <2>3, <2>4
  <1>5. ASSUME NEW n \in Skills, SwapFails(n) PROVE Progress'
    <2>1. /\ UNCHANGED <<op, units, new, lock, swapped>> /\ phase' = "rollback" /\ todo' = units
          /\ op \in Installs /\ n \notin swapped
      BY <1>5 DEF SwapFails, GoTo, records
    <2>2. \A m \in swapped' : canon'[m] \in {new', Edit}
      BY <1>5, <1>t, <2>1 DEF SwapFails, folders
    <2> QED
      BY <2>1, <2>2 DEF Installs
  <1>6. ASSUME NEW n \in Skills, CommitUnit(n) PROVE Progress'
    <2>1. /\ UNCHANGED <<op, units, new, canon, lock, swapped>> /\ op \in Installs
          /\ todo' \subseteq units /\ phase = "commit" /\ phase' \in {"commit", "baseline"}
      BY <1>6, <1>t DEF CommitUnit, Advance, records
    <2> QED
      BY <2>1 DEF Installs
  <1>7. ASSUME NEW n \in Skills, UndoSwap(n) PROVE Progress'
    BY <1>7, <1>t DEF UndoSwap, records, Installs
  <1>8. ASSUME NEW n \in Skills, PutBack(n) PROVE Progress'
    <2>1. CASE End
      BY <1>e, <1>8, <2>1 DEF End
    <2>2. CASE ~End
      <3>1. /\ UNCHANGED <<op, phase, units, new, swapped, lock>> /\ todo' = todo \ {n}
            /\ op \in Installs /\ phase = "rollback" /\ n \notin swapped
        BY <1>8, <2>2 DEF PutBack, RolledBack, records
      <3>2. \A m \in swapped' : canon'[m] \in {new', Edit}
        BY <1>8, <1>t, <3>1 DEF PutBack
      <3> QED
        BY <3>1, <3>2 DEF Installs
    <2> QED
      BY <2>1, <2>2
  <1>9. CASE StageFails \/ LockFails
    BY <1>9 DEF StageFails, LockFails, GoTo, Installs, folders, records
  <1>10. CASE WriteLock
    BY <1>10, <1>t DEF WriteLock, GoTo, Installs
  <1>11. CASE RecordBaseline
    BY <1>e, <1>11 DEF RecordBaseline, End
  <1>12. ASSUME NEW n \in Skills, MoveAside(n) PROVE Progress'
    <2>1. /\ op = "uninstall" /\ UNCHANGED <<op, units, swapped>> /\ todo' = units
          /\ phase' = "unlock"
      BY <1>12 DEF MoveAside, GoTo
    <2> QED
      BY <2>1 DEF Installs
  <1>13. ASSUME NEW n \in Skills, RemoveLock(n) \/ ForgetBaseline(n) PROVE Progress'
    <2>1. /\ UNCHANGED <<op, canon, swapped, units>> /\ todo' = units
          /\ op = "uninstall" /\ phase' \in {"forget", "clean"}
      BY <1>13 DEF RemoveLock, ForgetBaseline, GoTo, folders
    <2>2. CASE RemoveLock(n)
      <3>1. units = {n}
        BY <2>1, <2>2 DEF RemoveLock
      <3> QED
        BY <1>t, <2>1, <2>2, <3>1 DEF RemoveLock, Installs
    <2>3. CASE ForgetBaseline(n)
      BY <2>1, <2>3 DEF ForgetBaseline, Installs
    <2> QED
      BY <1>13, <2>2, <2>3
  <1>14. CASE MoveFails \/ \E n \in Skills : UnlockFails(n) \/ CleanAside(n)
    BY <1>e, <1>14 DEF MoveFails, UnlockFails, CleanAside, End
  <1>15. CASE Crash \/ RepairDone
    BY <1>e, <1>15 DEF Crash, RepairDone, End
  <1>17. CASE (\E S \in SUBSET Skills, v \in Versions : Install(S, v)) \/ Repair
                \/ \E n \in Skills : Uninstall(n)
    BY <1>16, <1>17 DEF Install, Uninstall, Repair, Installs
  <1>19. CASE \E f \in fetched : ApplyFetched(f)
    BY <1>1, <1>16, <1>19 DEF ApplyFetched, Installs, folders, records
  <1>20. ASSUME NEW n \in Skills, UserEdit(n) PROVE Progress'
    BY <1>20, <1>t DEF UserEdit, records, work
  <1>21. CASE \E r \in residue : Age(r) \/ Sweep(r)
    BY <1>1, <1>21 DEF Age, Sweep, records
  <1>22. CASE Scan \/ PlanLost \/ UNCHANGED vars \/ \E f \in fetched : FetchLost(f)
    BY <1>1, <1>22 DEF Scan, PlanLost, FetchLost, vars, folders, records
  <1>23. CASE \E n \in Skills, v \in Versions, auto \in BOOLEAN : Fetch(n, v, auto)
    BY <1>1, <1>23 DEF Fetch, folders, records
  <1>24. ASSUME NEW s \in plan, RestoreBackup(s) \/ RemoveResidue(s) \/ PruneLockEntry(s)
         PROVE  Progress'
    <2>1. UNCHANGED work /\ op = "doctor"
      BY <1>24 DEF RestoreBackup, RemoveResidue, PruneLockEntry, NextStep
    <2> QED
      BY <2>1 DEF work, Installs
  <1>25. ASSUME NEW s \in plan, ReinstallFromLock(s) PROVE Progress'
    BY <1>1, <1>16, <1>25 DEF ReinstallFromLock, Installs, folders, records
  <1> QED
    BY <1>2, <1>3, <1>4, <1>5, <1>6, <1>7, <1>8, <1>9, <1>10, <1>11, <1>12, <1>13, <1>14,
       <1>15, <1>17, <1>19, <1>20, <1>21, <1>22, <1>23, <1>24, <1>25
    DEF Next, InstallStep, RemovalStep, RepairStep

\* Nothing planned or recorded gets in the way of a running install.
LEMMA StepUndisturbed == Typed /\ Progress /\ Undisturbed /\ [Next]_vars => Undisturbed'
  <1> SUFFICES ASSUME Typed, Progress, Undisturbed, [Next]_vars, Hazards = {}
               PROVE  Undisturbed'
    BY DEF Undisturbed
  <1>t. /\ canon \in [Skills -> Contents \cup {Absent}]
        /\ baseline \in [Skills -> Contents \cup {Absent}]
        /\ aside \in [Skills -> Contents \cup {Absent}]
        /\ units \subseteq Skills /\ swapped \subseteq Skills
        /\ op \in Installs => new \in Versions
        /\ Absent \notin Versions
    BY AbsentAssumption DEF Typed, TypeOK, StoreTypeOK, Working
  <1> USE DEF Undisturbed
  <1>p. ASSUME NEW r, Undiscarded(r), plan' \subseteq plan PROVE Undiscarded(r)'
    BY <1>p DEF Undiscarded, Of
  \* The steps that leave the operation where it is, or end it.
  <1>1. CASE UNCHANGED <<canon, baseline, work>> /\ residue' \subseteq residue /\ plan' \subseteq plan
    BY <1>1, <1>p DEF work
  <1>e. ASSUME NEW o, Leave(o), o \in {"none", "doctor"} PROVE Undisturbed'
    BY <1>e DEF Leave, Installs
  \* It starts on Skills about which nothing is planned.
  <1>s. ASSUME NEW o, NEW S \in SUBSET Skills, NEW v, Start(o, "stage", S, v),
               UNCHANGED <<canon, residue, baseline>>, plan' \subseteq plan,
               \A n \in S : Unequalled(n, v) /\ (o # "reinstall" => v # baseline[n])
        PROVE  Undisturbed'
    <2>1. /\ phase' = "stage" /\ op' = o /\ new' = v /\ units' = S /\ swapped' = {}
      BY <1>s DEF Start
    <2>2. ASSUME NEW n \in S
          PROVE  /\ Leftover("backup", n, canon[n]) \notin residue
                 /\ Undiscarded(Leftover("backup", n, canon[n]))
      BY <1>s, <2>2 DEF Unequalled, Undiscarded
    <2>3. ASSUME NEW n \in S
          PROVE  /\ Leftover("backup", n, canon'[n]) \notin residue'
                 /\ Undiscarded(Leftover("backup", n, canon[n]))'
      BY <1>s, <1>p, <2>2
    <2> QED
      BY <1>s, <2>1, <2>3
  <1>2. ASSUME NEW n \in Skills, StageUnit(n) PROVE Undisturbed'
    <2>1. /\ UNCHANGED <<op, units, new, canon, baseline, aside, swapped, plan>> /\ phase = "stage"
          /\ residue' = residue \cup {Leftover("stage", n, new)}
      BY <1>2 DEF StageUnit, Advance, Keep, Stage, records, outside
    <2>2. \A m \in units : Leftover("backup", m, canon[m]) # Leftover("stage", n, new)
      BY DEF Leftover
    <2> QED
      BY <1>p, <2>1, <2>2
  <1>3. ASSUME NEW n \in Skills, SwapAside(n) PROVE Undisturbed'
    <2>1. /\ UNCHANGED <<op, phase, units, new, baseline, swapped, plan>> /\ phase = "swap"
          /\ residue' = residue \cup {Leftover("backup", n, canon[n])}
          /\ n \notin swapped
      BY <1>3 DEF SwapAside, Keep, records, outside, Progress
    <2>2. /\ aside'[n] # Absent
          /\ \A m \in Skills \ {n} : aside'[m] = aside[m] /\ canon'[m] = canon[m]
      BY <1>3, <1>t DEF SwapAside
    <2>3. \A m \in units \ {n} : Leftover("backup", m, canon[m]) # Leftover("backup", n, canon[n])
      BY DEF Leftover
    <2> QED
      BY <1>p, <1>t, <2>1, <2>2, <2>3
  <1>4. ASSUME NEW n \in Skills, SwapIn(n) PROVE Undisturbed'
    <2>1. /\ UNCHANGED <<op, units, new, baseline, aside, plan>> /\ swapped' = swapped \cup {n}
          /\ phase = "swap" /\ phase' \in {"swap", "lock"} /\ residue' \subseteq residue
      BY <1>4 DEF SwapIn, Advance, Drop, records, outside
    <2>2. canon'[n] = new /\ \A m \in Skills \ {n} : canon'[m] = canon[m]
      BY <1>4, <1>t DEF SwapIn
    <2> QED
      BY <1>p, <1>t, <2>1, <2>2
  <1>5. ASSUME NEW n \in Skills, SwapFails(n) PROVE Undisturbed'
    <2>1. /\ UNCHANGED <<op, units, new, baseline, swapped>> /\ phase' = "rollback" /\ n \notin swapped
      BY <1>5 DEF SwapFails, GoTo, records, Progress
    <2>2. \A m \in Skills \ {n} : canon'[m] = canon[m]
      BY <1>5, <1>t DEF SwapFails, folders
    <2> QED
      BY <1>t, <2>1, <2>2
  <1>6. ASSUME NEW n \in Skills, CommitUnit(n) PROVE Undisturbed'
    BY <1>6 DEF CommitUnit, Advance, records
  <1>7. ASSUME NEW n \in Skills, UndoSwap(n) PROVE Undisturbed'
    <2>1. /\ UNCHANGED <<op, units, new, baseline, phase>> /\ phase = "rollback"
          /\ swapped' = swapped \ {n}
      BY <1>7 DEF UndoSwap, records
    <2>2. \A m \in Skills \ {n} : canon'[m] = canon[m]
      BY <1>7, <1>t DEF UndoSwap
    <2> QED
      BY <1>t, <2>1, <2>2
  <1>8. ASSUME NEW n \in Skills, PutBack(n) PROVE Undisturbed'
    <2>1. CASE End
      BY <1>e, <2>1 DEF End
    <2>2. CASE ~End
      <3>1. /\ UNCHANGED <<op, phase, units, new, swapped, baseline>>
            /\ phase = "rollback" /\ n \notin swapped
        BY <1>8, <2>2 DEF PutBack, RolledBack, records
      <3>2. \A m \in Skills \ {n} : canon'[m] = canon[m]
        BY <1>8, <1>t DEF PutBack
      <3> QED
        BY <1>t, <3>1, <3>2
    <2> QED
      BY <2>1, <2>2
  <1>9. CASE StageFails \/ LockFails \/ WriteLock
    BY <1>9 DEF StageFails, LockFails, WriteLock, GoTo, folders, records
  <1>10. CASE RecordBaseline
    BY <1>e, <1>10 DEF RecordBaseline, End
  <1>11. ASSUME NEW n \in Skills, MoveAside(n) \/ RemoveLock(n) \/ ForgetBaseline(n)
         PROVE  Undisturbed'
    <2>1. op' = "uninstall" /\ phase' \notin {"stage", "swap"} /\ swapped' = swapped
      BY <1>11 DEF MoveAside, RemoveLock, ForgetBaseline, GoTo
    <2>2. swapped = {}
      BY <1>11 DEF MoveAside, RemoveLock, ForgetBaseline, Progress
    <2> QED
      BY <2>1, <2>2 DEF Installs
  <1>12. CASE MoveFails \/ \E n \in Skills : UnlockFails(n) \/ CleanAside(n)
    BY <1>e, <1>12 DEF MoveFails, UnlockFails, CleanAside, End
  <1>13. CASE Crash \/ RepairDone
    BY <1>e, <1>13 DEF Crash, RepairDone, End
  <1>14. ASSUME NEW S \in SUBSET Skills, NEW v \in Versions, Install(S, v) PROVE Undisturbed'
    BY <1>s, <1>14 DEF Install, Installable, folders, leftovers, records, outside
  <1>15. CASE Repair \/ \E n \in Skills : Uninstall(n)
    BY <1>15 DEF Repair, Uninstall, Start, Installs
  <1>16. ASSUME NEW f \in fetched, ApplyFetched(f) PROVE Undisturbed'
    <2>1. UNCHANGED <<folders, records, plan>>
      BY <1>16 DEF ApplyFetched
    <2>2. CASE UNCHANGED work
      BY <1>1, <2>1, <2>2 DEF folders, leftovers, records
    <2>3. CASE ~UNCHANGED work
      <3>1. f.skill \in Skills
        BY DEF Typed, TypeOK, Fetches
      <3>2. PICK o \in {"auto", "update"} : Start(o, "stage", {f.skill}, f.version)
        BY <1>16, <2>3 DEF ApplyFetched
      <3>3. Unequalled(f.skill, f.version) /\ f.version # baseline[f.skill]
        BY <1>16, <2>3 DEF ApplyFetched, Installable
      <3> QED
        BY <1>s, <2>1, <3>1, <3>2, <3>3 DEF folders, leftovers, records
    <2> QED
      BY <2>2, <2>3
  <1>17. ASSUME NEW n \in Skills, UserEdit(n) PROVE Undisturbed'
    <2>1. op = "none" /\ UNCHANGED work
      BY <1>17 DEF UserEdit
    <2> QED
      BY <2>1 DEF work, Progress, Installs
  <1>18. CASE \E r \in residue : Age(r) \/ Sweep(r)
    BY <1>1, <1>18 DEF Age, Sweep, Drop, records, outside
  <1>19. CASE PlanLost \/ UNCHANGED vars \/ \E f \in fetched : FetchLost(f)
    BY <1>1, <1>19 DEF PlanLost, FetchLost, vars, folders, leftovers, records, outside
  <1>20. CASE \E n \in Skills, v \in Versions, auto \in BOOLEAN : Fetch(n, v, auto)
    BY <1>1, <1>20 DEF Fetch, folders, leftovers, records
  <1>21. CASE Scan
    <2>1. UNCHANGED <<folders, records, work>>
      BY <1>21 DEF Scan
    <2>2. \A r : r \notin residue => Undiscarded(r)'
      BY <1>21, ScanDiscards DEF Undiscarded, Of
    <2> QED
      BY <2>1, <2>2 DEF folders, leftovers, records, work
  <1>22. ASSUME NEW s \in plan, RestoreBackup(s) \/ RemoveResidue(s) \/ PruneLockEntry(s)
         PROVE  Undisturbed'
    <2>1. UNCHANGED work /\ op = "doctor"
      BY <1>22 DEF RestoreBackup, RemoveResidue, PruneLockEntry, NextStep
    <2> QED
      BY <2>1 DEF work, Progress, Installs
  <1>23. ASSUME NEW s \in plan, ReinstallFromLock(s) PROVE Undisturbed'
    <2>1. UNCHANGED <<folders, records>> /\ plan' \subseteq plan /\ s.skill \in Skills
      BY <1>23 DEF ReinstallFromLock, NextStep, Typed, TypeOK, RepairSteps
    <2>2. CASE UNCHANGED work
      BY <1>1, <2>1, <2>2 DEF folders, leftovers, records
    <2>3. CASE ~UNCHANGED work
      <3>1. PICK v \in Versions : /\ Unequalled(s.skill, v)
                                  /\ Start("reinstall", "stage", {s.skill}, v)
        BY <1>23, <2>3 DEF ReinstallFromLock
      <3> QED
        BY <1>s, <2>1, <3>1 DEF folders, leftovers, records
    <2> QED
      BY <2>2, <2>3
  <1> QED
    BY <1>2, <1>3, <1>4, <1>5, <1>6, <1>7, <1>8, <1>9, <1>10, <1>11, <1>12, <1>13, <1>14,
       <1>15, <1>16, <1>17, <1>18, <1>19, <1>20, <1>21, <1>22, <1>23
    DEF Next, InstallStep, RemovalStep, RepairStep

\* A copy stays one while its leftovers stay and nothing more is planned.
LEMMA CopyStays ==
    ASSUME NEW n, NEW c, SafeCopy(n, c), plan' \subseteq plan,
           \A k \in Copies : Leftover(k, n, c) \in residue => Leftover(k, n, c) \in residue'
    PROVE  SafeCopy(n, c)'
  BY DEF SafeCopy, Undiscarded, Leftover, Of

\* A leftover just made of the folder is a copy of it.
LEMMA CopyIsMade ==
    ASSUME NEW k \in Copies, NEW n, NEW c, Leftover(k, n, c) \in residue',
           plan' \subseteq plan, Undiscarded(Leftover(k, n, c))
    PROVE  SafeCopy(n, c)'
  BY DEF SafeCopy, Undiscarded, Leftover, Of

\* What Skill n is vouched for by stays while its leftovers stay.
LEMMA HeldStays ==
    ASSUME NEW n \in Skills, lock'[n] = lock[n], baseline'[n] = baseline[n],
           plan' \subseteq plan,
           \A r \in residue : r.skill = n /\ r.kind \in Copies => r \in residue'
    PROVE  /\ Held(n) => Held(n)'
           /\ Firm(n) /\ canon'[n] = canon[n] => Firm(n)'
  <1>1. Known(n)' = Known(n)
    BY DEF Known
  <1>2. ASSUME NEW c, SafeCopy(n, c) PROVE SafeCopy(n, c)'
    BY <1>2, CopyStays DEF Leftover
  <1> QED
    BY <1>1, <1>2 DEF Held, Firm

\* Moving the folder aside keeps it among the copies.
LEMMA HeldMoves ==
    ASSUME NEW n \in Skills, Firm(n), lock'[n] = lock[n], baseline'[n] = baseline[n],
           plan' \subseteq plan, residue \subseteq residue',
           NEW k \in Copies, Leftover(k, n, canon[n]) \in residue',
           Undiscarded(Leftover(k, n, canon[n]))
    PROVE  Held(n)'
  <1>1. CASE Held(n)
    BY <1>1, HeldStays
  <1>2. CASE canon[n] \in Known(n)
    <2>1. PICK c \in Known(n) : c = canon[n]
      BY <1>2
    <2>2. SafeCopy(n, c)'
      BY <2>1, CopyIsMade
    <2>3. c \in Known(n)'
      BY <2>1 DEF Known
    <2> QED
      BY <2>2, <2>3 DEF Held
  <1> QED
    BY <1>1, <1>2 DEF Firm

\* So does putting content d back, whatever becomes of the leftovers of d.
LEMMA HeldReturns ==
    ASSUME NEW n \in Skills, Held(n), lock'[n] = lock[n], baseline'[n] = baseline[n],
           plan' \subseteq plan, NEW d, canon'[n] = d,
           \A r \in residue : r.skill = n /\ r.kind \in Copies /\ r.content # d => r \in residue'
    PROVE  Firm(n)'
  <1>1. PICK c \in Known(n) : SafeCopy(n, c)
    BY DEF Held
  <1>2. c \in Known(n)'
    BY DEF Known
  <1>3. CASE c = d
    BY <1>2, <1>3 DEF Firm
  <1>4. CASE c # d
    <2>1. SafeCopy(n, c)'
      BY <1>1, <1>4, CopyStays DEF Leftover
    <2> QED
      BY <1>2, <2>1 DEF Firm, Held
  <1> QED
    BY <1>3, <1>4

\* A scan plans to discard nothing of a Skill whose folder is missing or differs
\* from its baseline.
LEMMA ScanKeeps ==
    ASSUME Typed, Scan, NEW n \in Skills, canon[n] = Absent \/ canon[n] # baseline[n],
           NEW c, SafeCopy(n, c)
    PROVE  SafeCopy(n, c)'
  <1>1. PICK k \in Copies : Leftover(k, n, c) \in residue
    BY DEF SafeCopy
  <1>2. ASSUME NEW s \in plan', s.act = "discard", Of(s) = Leftover(k, n, c) PROVE FALSE
    <2>1. s.kind = k /\ s.skill = n
      BY <1>2 DEF Of, Leftover
    <2> QED
      BY <1>2, <2>1, ScanDiscards DEF ReplacementCommitted, Copies
  <1>3. Undiscarded(Leftover(k, n, c))'
    BY <1>2 DEF Undiscarded, Of, Leftover
  <1>4. residue' = residue
    BY DEF Scan, folders, leftovers
  <1> QED
    BY <1>1, <1>3, <1>4 DEF SafeCopy, Leftover

\* A repair deletes what was planned for it, and no copy.
LEMMA DiscardKeeps ==
    ASSUME NEW s \in plan, RemoveResidue(s), NEW n, NEW c, SafeCopy(n, c)
    PROVE  SafeCopy(n, c)'
  <1>1. PICK k \in Copies : Leftover(k, n, c) \in residue /\ Undiscarded(Leftover(k, n, c))
    BY DEF SafeCopy
  <1>2. residue \ {Of(s)} \subseteq residue' /\ s.act = "discard" /\ plan' \subseteq plan
    BY DEF RemoveResidue, NextStep, Drop, leftovers
  <1>3. Leftover(k, n, c) \in residue'
    BY <1>1, <1>2 DEF Undiscarded
  <1> QED
    BY <1>1, <1>2, <1>3, CopyIsMade

\* No step leaves a listed Skill without content somebody vouches for.
LEMMA StepAnchored ==
    ASSUME MaxPlans = 0 \/ Hazards = {}, Typed, Progress, PlanOK, Undisturbed, Anchored,
           [Next]_vars
    PROVE  Anchored'
  <1>t. /\ canon \in [Skills -> Contents \cup {Absent}]
        /\ lock \in [Skills -> Versions \cup {Absent}]
        /\ baseline \in [Skills -> Contents \cup {Absent}]
        /\ aside \in [Skills -> Contents \cup {Absent}]
        /\ units \subseteq Skills /\ swapped \subseteq Skills
        /\ op \in Installs => new \in Versions
        /\ Absent \notin Versions /\ Absent # Edit
    BY AbsentAssumption DEF Typed, TypeOK, StoreTypeOK, Working
  <1> DEFINE Undoing == phase \in {"swap", "lock", "rollback"}
  <1>a. /\ \A n \in Skills : lock[n] # Absent => Firm(n)
        /\ \A n \in swapped : Undoing /\ lock[n] # Absent => Held(n)
    BY DEF Anchored
  <1>b. \A n \in Skills : lock[n] # Absent /\ canon[n] = Absent => Held(n)
    BY <1>a DEF Firm, Known
  <1>m. \A n \in Skills : Leftover("remove", n, canon[n]) \in residue'
                            => Undiscarded(Leftover("remove", n, canon[n]))
    BY DEF PlanOK, Undiscarded, Of, Leftover
  \* It is enough to look at the Skill the step is about ...
  <1>f. ASSUME NEW n \in Skills, plan' \subseteq plan,
               \A m \in Skills \ {n} : /\ lock'[m] = lock[m] /\ baseline'[m] = baseline[m]
                                       /\ canon'[m] = canon[m],
               \A r \in residue : r.skill # n /\ r.kind \in Copies => r \in residue',
               swapped' \ {n} \subseteq swapped,
               swapped' = {} \/ phase' = phase \/ Undoing \/ phase' \notin {"swap", "lock", "rollback"},
               lock'[n] # Absent => Firm(n)',
               n \in swapped' /\ lock'[n] # Absent
                 /\ phase' \in {"swap", "lock", "rollback"} => Held(n)'
        PROVE  Anchored'
    <2>1. ASSUME NEW m \in Skills \ {n}
          PROVE  /\ lock'[m] # Absent => Firm(m)'
                 /\ m \in swapped' /\ lock'[m] # Absent
                      /\ phase' \in {"swap", "lock", "rollback"} => Held(m)'
      <3>1. /\ Held(m) => Held(m)'
            /\ Firm(m) => Firm(m)'
        BY <1>f, HeldStays
      <3> QED
        BY <1>a, <1>f, <3>1
    <2> QED
      BY <1>f, <1>t, <2>1 DEF Anchored
  \* ... or at none, when it changes no folder and no record.
  <1>q. ASSUME UNCHANGED <<canon, lock, baseline>>, plan' \subseteq plan,
               \A r \in residue : r.kind \in Copies => r \in residue',
               swapped' = {} \/ (swapped' = swapped /\ (phase' = phase \/ Undoing))
        PROVE  Anchored'
    <2>1. ASSUME NEW m \in Skills
          PROVE  /\ Held(m) => Held(m)'
                 /\ Firm(m) => Firm(m)'
      BY <1>q, HeldStays
    <2> QED
      BY <1>a, <1>q, <1>t, <2>1 DEF Anchored
  <1>2. ASSUME NEW n \in Skills, StageUnit(n) PROVE Anchored'
    <2>1. swapped' = {}
      BY <1>2 DEF StageUnit, Progress
    <2> QED
      BY <1>q, <1>2, <2>1 DEF StageUnit, Keep, records, outside
  <1>3. ASSUME NEW n \in Skills, SwapAside(n) PROVE Anchored'
    <2>1. /\ UNCHANGED <<lock, baseline, phase, swapped, plan>> /\ residue \subseteq residue'
          /\ Leftover("backup", n, canon[n]) \in residue'
          /\ phase = "swap" /\ n \in units \ swapped /\ aside[n] = Absent /\ canon[n] # Absent
      BY <1>3 DEF SwapAside, Keep, records, outside, Progress
    <2>2. Undiscarded(Leftover("backup", n, canon[n]))
      <3>1. CASE Hazards = {}
        BY <2>1, <3>1 DEF Undisturbed
      <3>2. CASE MaxPlans = 0
        BY <3>2 DEF PlanOK, Undiscarded
      <3> QED
        BY <3>1, <3>2
    <2>3. lock[n] # Absent => Held(n)'
      BY <1>a, <2>1, <2>2, HeldMoves DEF Copies
    <2>4. \A m \in Skills \ {n} : canon'[m] = canon[m]
      BY <1>3, <1>t DEF SwapAside
    <2> QED
      BY <1>f, <2>1, <2>3, <2>4 DEF Firm
  <1>4. ASSUME NEW n \in Skills, SwapIn(n) PROVE Anchored'
    <2>1. /\ UNCHANGED <<lock, baseline, plan>> /\ swapped' = swapped \cup {n}
          /\ phase = "swap" /\ canon[n] = Absent
          /\ \A m \in Skills \ {n} : canon'[m] = canon[m]
      BY <1>4, <1>t DEF SwapIn, records, outside
    <2>2. \A r \in residue : r.kind \in Copies => r \in residue'
      BY <1>4 DEF SwapIn, Drop, Stage, Leftover, Copies
    <2>3. lock[n] # Absent => Held(n)'
      BY <1>b, <2>1, <2>2, HeldStays
    <2> QED
      BY <1>f, <2>1, <2>2, <2>3 DEF Firm
  <1>5. ASSUME NEW n \in Skills, SwapFails(n) PROVE Anchored'
    <2>1. /\ UNCHANGED <<lock, baseline, swapped, plan>> /\ phase = "swap" /\ n \notin swapped
      BY <1>5 DEF SwapFails, records, outside, Progress
    <2>2. CASE UNCHANGED <<canon, residue>>
      BY <1>q, <2>1, <2>2
    <2>3. CASE /\ canon[n] = Absent /\ canon' = [canon EXCEPT ![n] = aside[n]]
               /\ Drop({Backup(n)})
      <3>1. PICK d : d = aside[n]
        OBVIOUS
      <3>2. canon'[n] = d /\ \A m \in Skills \ {n} : canon'[m] = canon[m]
        BY <1>t, <2>3, <3>1
      <3>3. \A r \in residue : (r.skill = n /\ r.content = d) \/ r \in residue'
        BY <2>3, <3>1 DEF Drop, Backup, Leftover
      <3>4. lock[n] # Absent => Firm(n)'
        BY <1>b, <2>1, <2>3, <3>2, <3>3, HeldReturns
      <3> QED
        BY <1>f, <2>1, <3>2, <3>3, <3>4
    <2> QED
      BY <1>5, <2>2, <2>3 DEF SwapFails, Unstamp, folders, leftovers
  <1>6. ASSUME NEW n \in Skills, CommitUnit(n) PROVE Anchored'
    <2>1. /\ UNCHANGED <<canon, lock, baseline, swapped, plan>>
          /\ phase = "commit" /\ phase' \in {"commit", "baseline"}
          /\ n \in swapped /\ lock[n] = new
      BY <1>6 DEF CommitUnit, Advance, records, outside, Progress
    <2>2. \A r \in residue : r.skill # n => r \in residue'
      BY <1>6 DEF CommitUnit, Drop, Backup, Leftover, leftovers
    <2>3. canon[n] \in Known(n)'
      BY <1>t, <1>6, <2>1 DEF CommitUnit, Progress, Known
    <2> QED
      BY <1>f, <2>1, <2>2, <2>3 DEF Firm
  <1>7. ASSUME NEW n \in Skills, UndoSwap(n) PROVE Anchored'
    <2>1. /\ UNCHANGED <<residue, lock, baseline, plan>> /\ phase = "rollback" /\ phase' = phase
          /\ n \in swapped /\ swapped' = swapped \ {n}
          /\ \A m \in Skills \ {n} : canon'[m] = canon[m]
      BY <1>7, <1>t DEF UndoSwap, leftovers, records, outside
    <2>2. lock[n] # Absent => Held(n)'
      BY <1>a, <2>1, HeldStays
    <2> QED
      BY <1>f, <2>1, <2>2 DEF Firm
  <1>8. ASSUME NEW n \in Skills, PutBack(n) PROVE Anchored'
    <2>1. /\ UNCHANGED <<lock, baseline, plan>> /\ n \notin swapped /\ phase = "rollback"
          /\ (phase' = phase /\ swapped' = swapped) \/ swapped' = {}
      BY <1>8 DEF PutBack, RolledBack, End, Leave, records, outside
    <2>2. CASE UNCHANGED canon /\ residue \ {Stage(n)} \subseteq residue'
      <3>1. \A r \in residue : r.kind \in Copies => r \in residue'
        BY <2>2 DEF Stage, Leftover, Copies
      <3> QED
        BY <1>q, <2>1, <2>2, <3>1
    <2>3. CASE /\ canon[n] = Absent /\ canon' = [canon EXCEPT ![n] = aside[n]]
               /\ Drop({Stage(n), Backup(n)})
      <3>1. PICK d : d = aside[n]
        OBVIOUS
      <3>2. canon'[n] = d /\ \A m \in Skills \ {n} : canon'[m] = canon[m]
        BY <1>t, <2>3, <3>1
      <3>3. \A r \in residue : r.kind \in Copies => (r.skill = n /\ r.content = d) \/ r \in residue'
        BY <2>3, <3>1 DEF Drop, Backup, Stage, Leftover, Copies
      <3>4. lock[n] # Absent => Firm(n)'
        BY <1>b, <2>1, <2>3, <3>2, <3>3, HeldReturns
      <3> QED
        BY <1>f, <2>1, <3>2, <3>3, <3>4
    <2> QED
      BY <1>8, <2>2, <2>3 DEF PutBack, Drop
  <1>9. CASE StageFails \/ LockFails
    <2>1. UNCHANGED <<folders, records, swapped, plan>>
      BY <1>9 DEF StageFails, LockFails, outside
    <2>2. Undoing \/ swapped = {}
      BY <1>9 DEF StageFails, LockFails, Progress
    <2> QED
      BY <1>q, <2>1, <2>2 DEF folders, leftovers, records
  <1>10. CASE WriteLock
    <2>1. /\ UNCHANGED <<canon, residue, baseline, plan>> /\ phase' = "commit"
          /\ \A n \in Skills : lock'[n] = IF n \in units THEN new ELSE lock[n]
          /\ \A n \in units : canon[n] \in {new, Edit} /\ new # Absent
      BY <1>10, <1>t DEF WriteLock, GoTo, Progress, outside
    <2>2. ASSUME NEW n \in Skills, lock'[n] # Absent PROVE Firm(n)'
      <3>1. CASE n \in units
        BY <1>t, <2>1, <3>1 DEF Firm, Known
      <3>2. CASE n \notin units
        BY <1>a, <2>1, <2>2, <3>2, HeldStays
      <3> QED
        BY <3>1, <3>2
    <2> QED
      BY <2>1, <2>2 DEF Anchored
  <1>11. CASE RecordBaseline
    <2>1. /\ UNCHANGED <<canon, residue, lock, plan>> /\ swapped' = {}
          /\ \A n \in Skills \ units : baseline'[n] = baseline[n]
          /\ \A n \in units : lock[n] = new /\ canon[n] \in {new, Edit} /\ new # Absent
      BY <1>11, <1>t DEF RecordBaseline, End, Leave, Progress, folders, leftovers, outside
    <2>2. ASSUME NEW n \in Skills, lock'[n] # Absent PROVE Firm(n)'
      <3>1. CASE n \in units
        BY <1>t, <2>1, <3>1 DEF Firm, Known
      <3>2. CASE n \notin units
        BY <1>a, <2>1, <2>2, <3>2, HeldStays
      <3> QED
        BY <3>1, <3>2
    <2> QED
      BY <2>1, <2>2 DEF Anchored
  <1>12. CASE MoveFails \/ Crash \/ RepairDone
    <2>1. UNCHANGED <<folders, records>> /\ swapped' = {} /\ plan' \subseteq plan
      BY <1>12 DEF MoveFails, Crash, RepairDone, End, Leave, outside
    <2> QED
      BY <1>q, <2>1 DEF folders, leftovers, records
  <1>13. ASSUME NEW n \in Skills, MoveAside(n) PROVE Anchored'
    <2>1. UNCHANGED <<lock, baseline, plan>> /\ swapped' = {}
      BY <1>13 DEF MoveAside, records, outside, Progress
    <2>2. CASE UNCHANGED folders
      BY <1>q, <2>1, <2>2 DEF folders, leftovers
    <2>3. CASE canon[n] # Absent
      <3>1. /\ residue \subseteq residue' /\ Leftover("remove", n, canon[n]) \in residue'
            /\ \A m \in Skills \ {n} : canon'[m] = canon[m]
        BY <1>13, <1>t, <2>3 DEF MoveAside, Keep
      <3>2. lock[n] # Absent => Held(n)'
        BY <1>a, <1>m, <2>1, <3>1, HeldMoves DEF Copies
      <3> QED
        BY <1>f, <2>1, <3>1, <3>2 DEF Firm
    <2> QED
      BY <1>13, <2>2, <2>3 DEF MoveAside
  <1>14. ASSUME NEW n \in Skills, RemoveLock(n) PROVE Anchored'
    BY <1>f, <1>14, <1>t DEF RemoveLock, folders, leftovers, outside, Progress
  <1>15. ASSUME NEW n \in Skills, UnlockFails(n) PROVE Anchored'
    <2>1. UNCHANGED <<lock, baseline, plan>> /\ swapped' = {}
      BY <1>15 DEF UnlockFails, End, Leave, records, outside
    <2>2. CASE UNCHANGED folders
      BY <1>q, <2>1, <2>2 DEF folders, leftovers
    <2>3. CASE /\ canon[n] = Absent /\ canon' = [canon EXCEPT ![n] = aside[n]]
               /\ Drop({Aside(n)})
      <3>1. PICK d : d = aside[n]
        OBVIOUS
      <3>2. canon'[n] = d /\ \A m \in Skills \ {n} : canon'[m] = canon[m]
        BY <1>t, <2>3, <3>1
      <3>3. \A r \in residue : (r.skill = n /\ r.content = d) \/ r \in residue'
        BY <2>3, <3>1 DEF Drop, Aside, Leftover
      <3>4. lock[n] # Absent => Firm(n)'
        BY <1>b, <2>1, <2>3, <3>2, <3>3, HeldReturns
      <3> QED
        BY <1>f, <2>1, <3>2, <3>3, <3>4
    <2> QED
      BY <1>15, <2>2, <2>3 DEF UnlockFails, MovedBack
  <1>16. ASSUME NEW n \in Skills, ForgetBaseline(n) PROVE Anchored'
    <2>1. /\ UNCHANGED <<folders, lock, plan>> /\ lock[n] = Absent /\ swapped' = {}
          /\ \A m \in Skills \ {n} : baseline'[m] = baseline[m]
      BY <1>16, <1>t DEF ForgetBaseline, outside, Progress
    <2> QED
      BY <1>f, <2>1 DEF folders, leftovers
  <1>17. ASSUME NEW n \in Skills, CleanAside(n) PROVE Anchored'
    <2>1. /\ UNCHANGED <<canon, lock, baseline, plan>> /\ lock[n] = Absent /\ swapped' = {}
      BY <1>17 DEF CleanAside, End, Leave, records, outside, Progress
    <2>2. \A r \in residue : r.skill # n => r \in residue'
      BY <1>17 DEF CleanAside, Drop, Aside, Leftover, leftovers
    <2> QED
      BY <1>f, <2>1, <2>2
  <1>18. CASE (\E S \in SUBSET Skills, v \in Versions : Install(S, v)) \/ Repair
                \/ \E n \in Skills : Uninstall(n)
    BY <1>q, <1>18 DEF Install, Uninstall, Repair, Start, folders, leftovers, records, outside
  <1>19. CASE \E f \in fetched : ApplyFetched(f)
    BY <1>q, <1>19 DEF ApplyFetched, Start, folders, leftovers, records, work
  <1>20. ASSUME NEW n \in Skills, UserEdit(n) PROVE Anchored'
    <2>1. /\ UNCHANGED <<lock, baseline, residue, plan, phase, swapped>>
          /\ canon'[n] = Edit /\ \A m \in Skills \ {n} : canon'[m] = canon[m]
      BY <1>t, <1>20 DEF UserEdit, leftovers, records, outside, work
    <2>2. Firm(n)'
      BY <1>t, <2>1 DEF Firm, Known
    <2>3. Held(n) => Held(n)'
      BY <2>1, HeldStays
    <2> QED
      BY <1>a, <1>f, <2>1, <2>2, <2>3
  <1>21. ASSUME NEW r \in residue, Sweep(r) PROVE Anchored'
    <2>1. /\ UNCHANGED <<canon, lock, baseline, plan>> /\ swapped' = {}
          /\ residue' = residue \ {r} /\ r \in AllLeftovers /\ SweepMayDelete(r)
      BY <1>21 DEF Sweep, Drop, Progress, records, outside, work, Typed, TypeOK, StoreTypeOK
    <2>2. CASE r.kind = "stage"
      <3>1. \A x \in residue : x.kind \in Copies => x \in residue'
        BY <2>1, <2>2 DEF Copies
      <3> QED
        BY <1>q, <2>1, <3>1
    <2>3. CASE r.kind = "backup" /\ ReplacementCommitted(r.skill)
      <3>1. r.skill \in Skills
        BY <2>1 DEF AllLeftovers
      <3>2. Firm(r.skill)'
        BY <2>1, <2>3 DEF ReplacementCommitted, Firm, Known
      <3>3. PICK n \in Skills : n = r.skill
        BY <3>1
      <3>4. Firm(n)' /\ \A x \in residue : x.skill # n => x \in residue'
        <4>1. canon[n] = baseline[n] /\ baseline[n] # Absent
          BY <2>3, <3>3 DEF ReplacementCommitted
        <4>2. Firm(n)'
          BY <2>1, <4>1 DEF Firm, Known
        <4> QED
          BY <2>1, <3>3, <4>2
      <3> QED
        BY <1>f, <2>1, <3>4
    <2> QED
      BY <2>1, <2>2, <2>3 DEF SweepMayDelete
  <1>22. ASSUME NEW r \in residue, Age(r) PROVE Anchored'
    BY <1>q, <1>22 DEF Age, records, outside, work
  <1>23. CASE PlanLost \/ UNCHANGED vars \/ \E f \in fetched : FetchLost(f)
    BY <1>q, <1>23 DEF PlanLost, FetchLost, vars, folders, leftovers, records, outside, work
  <1>24. CASE \E n \in Skills, v \in Versions, auto \in BOOLEAN : Fetch(n, v, auto)
    BY <1>q, <1>24 DEF Fetch, folders, leftovers, records, work
  <1>25. CASE Scan
    <2>1. UNCHANGED <<canon, lock, baseline, residue, phase, swapped>> /\ Hazards = {}
      BY <1>25 DEF Scan, folders, leftovers, records, work
    <2>3. ASSUME NEW n \in Skills, canon[n] = Absent \/ canon[n] # baseline[n], Held(n)
          PROVE  Held(n)'
      BY <1>25, <2>1, <2>3, ScanKeeps DEF Held, Known
    <2>4. ASSUME NEW n \in Skills, lock[n] # Absent PROVE Firm(n)'
      <3>1. CASE canon[n] \in Known(n)
        BY <2>1, <3>1 DEF Firm, Known
      <3>2. CASE canon[n] \notin Known(n)
        <4>1. canon[n] = Absent \/ canon[n] # baseline[n]
          BY <3>2 DEF Known
        <4> QED
          BY <1>a, <2>3, <2>4, <3>2, <4>1 DEF Firm
      <3> QED
        BY <3>1, <3>2
    <2>5. ASSUME NEW n \in swapped, Undoing, lock[n] # Absent PROVE Held(n)'
      <3>1. canon[n] = new /\ baseline[n] # new
        <4>1. op \in Installs \ {"reinstall"} /\ n \in units
          BY <2>5, <1>25 DEF Progress, Scan, Typed, TypeOK
        <4> QED
          BY <2>1, <2>5, <4>1 DEF Undisturbed
      <3> QED
        BY <1>a, <1>t, <2>3, <2>5, <3>1
    <2> QED
      BY <2>1, <2>4, <2>5 DEF Anchored
  <1>26. ASSUME NEW s \in plan, RestoreBackup(s) PROVE Anchored'
    <2>1. UNCHANGED <<lock, baseline>> /\ plan' \subseteq plan /\ swapped' = {}
      BY <1>26 DEF RestoreBackup, NextStep, records, work, Progress
    <2>2. CASE UNCHANGED folders
      BY <1>q, <2>1, <2>2 DEF folders, leftovers
    <2>3. CASE /\ canon[s.skill] = Absent /\ canon' = [canon EXCEPT ![s.skill] = s.content]
               /\ Drop({Of(s)})
      <3>1. PICK n \in Skills, d \in Contents \cup {Absent} : n = s.skill /\ d = s.content
        BY DEF Typed, TypeOK, RepairSteps
      <3>2. canon'[n] = d /\ \A m \in Skills \ {n} : canon'[m] = canon[m]
        BY <1>t, <2>3, <3>1
      <3>3. \A r \in residue : (r.skill = n /\ r.content = d) \/ r \in residue'
        BY <2>3, <3>1 DEF Drop, Of, Leftover
      <3>4. lock[n] # Absent => Firm(n)'
        BY <1>b, <2>1, <2>3, <3>1, <3>2, <3>3, HeldReturns
      <3> QED
        BY <1>f, <2>1, <3>2, <3>3, <3>4
    <2> QED
      BY <1>26, <2>2, <2>3 DEF RestoreBackup
  <1>27. ASSUME NEW s \in plan, RemoveResidue(s) PROVE Anchored'
    <2>1. UNCHANGED <<canon, lock, baseline>> /\ swapped' = {}
      BY <1>27 DEF RemoveResidue, NextStep, records, work, Progress
    <2>3. ASSUME NEW n \in Skills, lock[n] # Absent PROVE Firm(n)'
      BY <1>a, <1>27, <2>1, <2>3, DiscardKeeps DEF Firm, Held, Known
    <2> QED
      BY <2>1, <2>3 DEF Anchored
  <1>28. ASSUME NEW s \in plan, PruneLockEntry(s) PROVE Anchored'
    <2>1. /\ UNCHANGED <<folders, baseline>> /\ plan' \subseteq plan /\ swapped' = {}
      BY <1>28 DEF PruneLockEntry, NextStep, work, Progress
    <2>2. \A n \in Skills : lock'[n] # Absent => lock'[n] = lock[n]
      BY <1>28, <1>t DEF PruneLockEntry
    <2>3. ASSUME NEW n \in Skills, lock'[n] # Absent PROVE Firm(n)'
      BY <1>a, <2>1, <2>2, <2>3, HeldStays DEF folders, leftovers
    <2> QED
      BY <2>1, <2>3 DEF Anchored
  <1>29. ASSUME NEW s \in plan, ReinstallFromLock(s) PROVE Anchored'
    <2>1. /\ UNCHANGED <<folders, records>> /\ plan' \subseteq plan /\ swapped' = {}
      BY <1>29 DEF ReinstallFromLock, NextStep, Start, work, Progress
    <2> QED
      BY <1>q, <2>1 DEF folders, leftovers, records
  <1> QED
    BY <1>2, <1>3, <1>4, <1>5, <1>6, <1>7, <1>8, <1>9, <1>10, <1>11, <1>12, <1>13, <1>14,
       <1>15, <1>16, <1>17, <1>18, <1>19, <1>20, <1>21, <1>22, <1>23, <1>24, <1>25, <1>26,
       <1>27, <1>28, <1>29
    DEF Next, InstallStep, RemovalStep, RepairStep

\* The inductive invariant for what is recoverable.
RInv == Typed /\ Progress /\ PlanOK /\ Undisturbed /\ Anchored

\* At the start nothing is installed, so nothing can be lost.
LEMMA InitRInv == Init => RInv
  <1> SUFFICES ASSUME Init PROVE RInv
    OBVIOUS
  <1>1. Typed
    BY InitTyped
  <1>2. Progress /\ PlanOK /\ Undisturbed
    BY DEF Init, StoreInit, Progress, PlanOK, Undisturbed, Installs
  <1>3. Anchored
    BY DEF Init, StoreInit, Anchored
  <1> QED
    BY <1>1, <1>2, <1>3 DEF RInv

\* It holds throughout, without repairs or in a quiet environment.
LEMMA RInvariance == ASSUME MaxPlans = 0 \/ Hazards = {} PROVE Spec => []RInv
  <1>1. RInv /\ [Next]_vars => RInv'
    BY StepTyped, StepProgress, StepPlanOK, StepUndisturbed, StepAnchored DEF RInv
  <1> QED
    BY InitRInv, <1>1, PTL DEF Spec

\* For any Skills, versions, sources, faults and fetches: between operations a
\* Skill the lock lists is in its folder or in a leftover Doctor can restore.
\* Where repairs are planned from old scans, no edit may land inside an install,
\* and no install may bring what the baseline records already.
THEOREM LockedStaysRecoverable ==
    ASSUME MaxPlans = 0 \/ Hazards = {}
    PROVE  Spec => []LockedIsRecoverable
  <1>1. ASSUME RInv, NEW n \in Skills, lock[n] # Absent, canon[n] = Absent
        PROVE  \E r \in residue : r.skill = n /\ r.kind \in Copies
    <2>1. Held(n)
      BY <1>1 DEF RInv, Anchored, Firm, Known
    <2> QED
      BY <2>1 DEF Held, SafeCopy, Leftover
  <1>2. RInv => LockedIsRecoverable
    BY <1>1 DEF LockedIsRecoverable
  <1> QED
    BY RInvariance, <1>2, PTL

\* Under the same conditions: a folder with a version that neither the lock nor
\* the baseline knows has content they know, or the user edited, beside it.
THEOREM TornSwapsAreVisible ==
    ASSUME MaxPlans = 0 \/ Hazards = {}
    PROVE  Spec => []TornSwapIsVisible
  <1>1. ASSUME RInv, NEW n \in Skills, lock[n] # Absent, canon[n] \notin Known(n)
        PROVE  \E r \in residue : r.skill = n /\ r.kind \in Copies /\ r.content \in Known(n)
    <2>1. Held(n)
      BY <1>1 DEF RInv, Anchored, Firm
    <2> QED
      BY <2>1 DEF Held, SafeCopy, Leftover
  <1>2. RInv => TornSwapIsVisible
    BY <1>1 DEF TornSwapIsVisible
  <1> QED
    BY RInvariance, <1>2, PTL
-----------------------------------------------------------------------------
\* The edit of Skill n is in its folder or in a copy.
EditHeld(n) == canon[n] = Edit \/ SafeCopy(n, Edit)

\* The baseline describes neither the folder nor what was moved aside.
Unrecorded(n) == baseline[n] # Absent => baseline[n] \notin {canon[n], aside[n]}

\* No running operation has replaced or removed Skill n for good.
Spared(n) == n \in units => /\ op \notin {"auto", "reinstall"}
                            /\ phase \notin {"commit", "baseline", "forget", "clean"}

\* The strengthening of EditSurvives: what is owed never looks committed.
EditKept == /\ \A n \in Skills : baseline[n] # Edit
            /\ \A n \in owed : EditHeld(n) /\ Unrecorded(n) /\ Spared(n)

\* No step loses an edit.
LEMMA StepEditKept ==
    ASSUME Hazards = {}, RInv, EditKept, [Next]_vars
    PROVE  EditKept'
  <1>t. /\ canon \in [Skills -> Contents \cup {Absent}]
        /\ lock \in [Skills -> Versions \cup {Absent}]
        /\ baseline \in [Skills -> Contents \cup {Absent}]
        /\ aside \in [Skills -> Contents \cup {Absent}]
        /\ units \subseteq Skills /\ swapped \subseteq Skills /\ owed \subseteq Skills
        /\ op \in Installs => new \in Versions
        /\ op \in {"none", "doctor"} => aside = Nothing
        /\ Absent \notin Versions /\ Absent # Edit /\ Edit \notin Versions
    BY AbsentAssumption, EditAssumption DEF RInv, Typed, TypeOK, StoreTypeOK, Working
  <1>i. Typed /\ Progress /\ PlanOK /\ Undisturbed
    BY DEF RInv
  <1>n. \A n \in Skills : Nothing[n] = Absent
    BY DEF Nothing
  <1>a. /\ \A n \in Skills : baseline[n] # Edit
        /\ \A n \in owed : EditHeld(n) /\ Unrecorded(n) /\ Spared(n)
    BY DEF EditKept
  \* An edit that is only in a copy stays there while its leftovers stay.
  <1>k. ASSUME NEW n \in Skills, plan' \subseteq plan, SafeCopy(n, Edit),
               \A r \in residue : r.skill = n /\ r.kind \in Copies /\ r.content = Edit
                                    => r \in residue'
        PROVE  SafeCopy(n, Edit)'
    BY <1>k, CopyStays DEF Leftover
  \* It is enough to look at the Skill the step is about ...
  <1>f. ASSUME NEW n \in Skills, plan' \subseteq plan,
               \A m \in Skills \ {n} : /\ baseline'[m] = baseline[m] /\ canon'[m] = canon[m]
                                       /\ aside'[m] \in {aside[m], Absent},
               \A r \in residue : r.skill # n /\ r.kind \in Copies => r \in residue',
               owed' \subseteq owed \cup {n}, baseline'[n] # Edit,
               \A m \in owed' : Spared(m)',
               n \in owed' => EditHeld(n)' /\ Unrecorded(n)'
        PROVE  EditKept'
    <2>1. ASSUME NEW m \in owed' \ {n} PROVE EditHeld(m)' /\ Unrecorded(m)'
      <3>1. EditHeld(m)'
        BY <1>a, <1>f, <1>k, <1>t DEF EditHeld
      <3>2. Unrecorded(m)'
        BY <1>a, <1>f, <1>t DEF Unrecorded
      <3> QED
        BY <3>1, <3>2
    <2>2. \A m \in Skills : baseline'[m] # Edit
      BY <1>a, <1>f
    <2> QED
      BY <1>f, <2>1, <2>2 DEF EditKept
  \* ... or at none, when it changes no folder and no baseline.
  <1>q. ASSUME UNCHANGED <<canon, baseline>>, plan' \subseteq plan, owed' \subseteq owed,
               \A m \in Skills : aside'[m] \in {aside[m], Absent},
               \A r \in residue : r.kind \in Copies => r \in residue',
               \A m \in owed' : Spared(m)'
        PROVE  EditKept'
    <2>1. ASSUME NEW m \in owed' PROVE EditHeld(m)' /\ Unrecorded(m)'
      <3>1. EditHeld(m)'
        BY <1>a, <1>q, <1>k, <1>t DEF EditHeld
      <3>2. Unrecorded(m)'
        BY <1>a, <1>q, <1>t DEF Unrecorded
      <3> QED
        BY <3>1, <3>2
    <2> QED
      BY <1>a, <1>q, <2>1 DEF EditKept
  <1>w. ASSUME UNCHANGED <<op, units, phase>>, owed' \subseteq owed PROVE \A m \in owed' : Spared(m)'
    BY <1>a, <1>w DEF Spared
  <1>e. ASSUME NEW o, Leave(o)
        PROVE  /\ units' = {} /\ swapped' = {} /\ \A m \in Skills : aside'[m] = Absent
               /\ \A m \in owed' : Spared(m)'
    BY <1>e, <1>n DEF Leave, Spared
  <1>2. ASSUME NEW n \in Skills, StageUnit(n) PROVE EditKept'
    <2>1. /\ UNCHANGED <<canon, baseline, plan, owed, op, units, aside>> /\ phase = "stage"
          /\ phase' \in {"stage", "swap"} /\ residue \subseteq residue'
      BY <1>2 DEF StageUnit, Advance, Keep, records, outside, history
    <2>2. \A m \in owed' : Spared(m)'
      BY <1>a, <2>1 DEF Spared
    <2> QED
      BY <1>q, <2>1, <2>2
  <1>3. ASSUME NEW n \in Skills, SwapAside(n) PROVE EditKept'
    <2>1. /\ UNCHANGED <<baseline, plan, owed, op, units, phase>> /\ residue \subseteq residue'
          /\ Leftover("backup", n, canon[n]) \in residue'
          /\ phase = "swap" /\ n \in units \ swapped /\ aside[n] = Absent /\ canon[n] # Absent
      BY <1>3, <1>i DEF SwapAside, Keep, records, outside, history, Progress
    <2>2. Undiscarded(Leftover("backup", n, canon[n]))
      BY <1>i, <2>1 DEF Undisturbed
    <2>3. /\ aside'[n] = canon[n] /\ canon'[n] = Absent
          /\ \A m \in Skills \ {n} : canon'[m] = canon[m] /\ aside'[m] = aside[m]
      BY <1>3, <1>t DEF SwapAside
    <2>4. ASSUME n \in owed PROVE EditHeld(n)'
      <3>1. CASE canon[n] = Edit
        BY <2>1, <2>2, <3>1, CopyIsMade DEF EditHeld, Copies
      <3>2. CASE canon[n] # Edit
        BY <1>a, <1>k, <2>1, <2>4, <3>2 DEF EditHeld
      <3> QED
        BY <3>1, <3>2
    <2>5. n \in owed => Unrecorded(n)'
      BY <1>a, <2>1, <2>3 DEF Unrecorded
    <2> QED
      BY <1>a, <1>f, <1>w, <2>1, <2>3, <2>4, <2>5
  <1>4. ASSUME NEW n \in Skills, SwapIn(n) PROVE EditKept'
    <2>1. /\ UNCHANGED <<baseline, plan, owed, op, units, aside>>
          /\ phase = "swap" /\ phase' \in {"swap", "lock"} /\ canon[n] = Absent
          /\ op \in Installs /\ n \in units
          /\ canon'[n] = new /\ \A m \in Skills \ {n} : canon'[m] = canon[m]
      BY <1>4, <1>i, <1>t DEF SwapIn, Advance, records, outside, history, Progress
    <2>2. \A r \in residue : r.kind \in Copies => r \in residue'
      BY <1>4 DEF SwapIn, Drop, Stage, Leftover, Copies
    <2>3. \A m \in owed' : Spared(m)'
      BY <1>a, <2>1 DEF Spared
    <2>4. ASSUME n \in owed PROVE EditHeld(n)' /\ Unrecorded(n)'
      <3>1. SafeCopy(n, Edit)'
        BY <1>a, <1>k, <1>t, <2>1, <2>2, <2>4 DEF EditHeld
      <3>2. baseline[n] # new
        BY <1>a, <1>i, <2>1, <2>4 DEF Undisturbed, Spared
      <3>3. Unrecorded(n)'
        BY <1>a, <2>1, <2>4, <3>2 DEF Unrecorded
      <3> QED
        BY <3>1, <3>3 DEF EditHeld
    <2> QED
      BY <1>a, <1>f, <2>1, <2>2, <2>3, <2>4
  <1>5. ASSUME NEW n \in Skills, SwapFails(n) PROVE EditKept'
    <2>1. /\ UNCHANGED <<baseline, plan, owed, op, units>> /\ phase = "swap" /\ phase' = "rollback"
          /\ aside'[n] = Absent /\ \A m \in Skills \ {n} : aside'[m] = aside[m]
      BY <1>5, <1>t DEF SwapFails, GoTo, records, outside
    <2>2. \A m \in owed' : Spared(m)'
      BY <1>a, <2>1 DEF Spared
    <2>3. CASE UNCHANGED <<canon, residue>>
      BY <1>q, <2>1, <2>2, <2>3
    <2>4. CASE /\ canon[n] = Absent /\ canon' = [canon EXCEPT ![n] = aside[n]]
               /\ Drop({Backup(n)})
      <3>1. canon'[n] = aside[n] /\ \A m \in Skills \ {n} : canon'[m] = canon[m]
        BY <1>t, <2>4
      <3>2. \A r \in residue : (r.skill = n /\ r.content = aside[n]) \/ r \in residue'
        BY <2>4 DEF Drop, Backup, Leftover
      <3>3. n \in owed => EditHeld(n)'
        BY <1>a, <1>k, <1>t, <2>1, <2>4, <3>1, <3>2 DEF EditHeld
      <3>4. n \in owed => Unrecorded(n)'
        BY <1>a, <2>1, <3>1 DEF Unrecorded
      <3> QED
        BY <1>a, <1>f, <2>1, <2>2, <3>1, <3>2, <3>3, <3>4
    <2> QED
      BY <1>5, <2>3, <2>4 DEF SwapFails, Unstamp, folders, leftovers
  <1>6. ASSUME NEW n \in Skills, CommitUnit(n) PROVE EditKept'
    <2>1. /\ UNCHANGED <<canon, baseline, plan, owed, op, units>> /\ n \in units
          /\ phase = "commit" /\ \A m \in Skills : aside'[m] \in {aside[m], Absent}
      BY <1>6, <1>i, <1>t DEF CommitUnit, Advance, records, outside, history, Progress
    <2>2. \A r \in residue : r.skill # n => r \in residue'
      BY <1>6 DEF CommitUnit, Drop, Backup, Leftover, leftovers
    <2>3. owed \cap units = {}
      BY <1>a, <2>1 DEF Spared
    <2>4. \A m \in owed' : Spared(m)'
      BY <2>1, <2>3 DEF Spared
    <2> QED
      BY <1>a, <1>f, <2>1, <2>2, <2>3, <2>4
  <1>7. ASSUME NEW n \in Skills, UndoSwap(n) PROVE EditKept'
    <2>1. /\ UNCHANGED <<residue, baseline, plan, owed, op, units, phase, aside>>
          /\ n \in swapped /\ canon'[n] \in {canon[n], Absent}
          /\ \A m \in Skills \ {n} : canon'[m] = canon[m]
      BY <1>7, <1>t DEF UndoSwap, leftovers, records, outside
    <2>2. canon[n] # Edit
      BY <1>7, <1>i, <1>t DEF UndoSwap, Undisturbed
    <2>3. n \in owed => EditHeld(n)'
      BY <1>a, <1>k, <2>1, <2>2 DEF EditHeld
    <2>4. n \in owed => Unrecorded(n)'
      BY <1>a, <2>1 DEF Unrecorded
    <2> QED
      BY <1>a, <1>f, <1>w, <2>1, <2>3, <2>4
  <1>8. ASSUME NEW n \in Skills, PutBack(n) PROVE EditKept'
    <2>1. UNCHANGED <<baseline, plan, owed>>
      BY <1>8 DEF PutBack, records, outside
    <2>2. /\ \A m \in owed' : Spared(m)'
          /\ aside'[n] = Absent /\ \A m \in Skills \ {n} : aside'[m] \in {aside[m], Absent}
      <3>1. CASE End
        BY <1>e, <3>1 DEF End
      <3>2. CASE ~End
        BY <1>8, <1>t, <1>w, <2>1, <3>2 DEF PutBack, RolledBack
      <3> QED
        BY <3>1, <3>2
    <2>3. CASE UNCHANGED canon /\ residue \ {Stage(n)} \subseteq residue'
      <3>1. \A r \in residue : r.kind \in Copies => r \in residue'
        BY <2>3 DEF Stage, Leftover, Copies
      <3> QED
        BY <1>q, <2>1, <2>2, <2>3, <3>1
    <2>4. CASE /\ canon[n] = Absent /\ canon' = [canon EXCEPT ![n] = aside[n]]
               /\ Drop({Stage(n), Backup(n)})
      <3>1. canon'[n] = aside[n] /\ \A m \in Skills \ {n} : canon'[m] = canon[m]
        BY <1>t, <2>4
      <3>2. \A r \in residue : r.kind \in Copies
                                 => (r.skill = n /\ r.content = aside[n]) \/ r \in residue'
        BY <2>4 DEF Drop, Backup, Stage, Leftover, Copies
      <3>3. n \in owed => EditHeld(n)'
        BY <1>a, <1>k, <1>t, <2>1, <2>4, <3>1, <3>2 DEF EditHeld
      <3>4. n \in owed => Unrecorded(n)'
        BY <1>a, <2>1, <2>2, <3>1 DEF Unrecorded
      <3> QED
        BY <1>a, <1>f, <2>1, <2>2, <3>1, <3>2, <3>3, <3>4
    <2> QED
      BY <1>8, <2>3, <2>4 DEF PutBack, Drop
  <1>9. CASE StageFails \/ LockFails
    <2>1. UNCHANGED <<folders, records, aside, plan, owed, op, units>> /\ phase' = "rollback"
      BY <1>9 DEF StageFails, LockFails, GoTo, outside, history
    <2>2. \A m \in owed' : Spared(m)'
      BY <1>a, <2>1 DEF Spared
    <2> QED
      BY <1>q, <2>1, <2>2 DEF folders, leftovers, records
  <1>10. CASE WriteLock
    <2>1. /\ UNCHANGED <<canon, residue, baseline, aside, plan, op, units>>
          /\ op \in Installs /\ phase = "lock"
          /\ owed' = IF op \in {"install", "update"} THEN owed \ units ELSE owed
      BY <1>10 DEF WriteLock, GoTo, outside
    <2>2. owed' \cap units = {} /\ owed' \subseteq owed
      BY <1>a, <2>1 DEF Spared, Installs
    <2>3. \A m \in owed' : Spared(m)'
      BY <2>1, <2>2 DEF Spared
    <2> QED
      BY <1>q, <2>1, <2>2, <2>3
  <1>11. CASE RecordBaseline
    <2>1. /\ UNCHANGED <<canon, residue, plan, owed>>
          /\ \A m \in owed' : Spared(m)'
          /\ \A m \in Skills : aside'[m] = Absent
      BY <1>e, <1>11 DEF RecordBaseline, End, folders, leftovers, outside
    <2>2. /\ owed \cap units = {}
          /\ \A n \in units : canon[n] \in Versions
      BY <1>a, <1>i, <1>t, <1>11 DEF RecordBaseline, Spared, Progress, Undisturbed
    <2>3. /\ \A n \in Skills \ units : baseline'[n] = baseline[n]
          /\ \A n \in units : baseline'[n] \in {canon[n], baseline[n]}
      BY <1>11, <1>t DEF RecordBaseline
    <2>4. \A n \in Skills : baseline'[n] # Edit
      BY <1>a, <1>t, <2>2, <2>3
    <2>5. ASSUME NEW n \in owed PROVE EditHeld(n)' /\ Unrecorded(n)'
      <3>1. EditHeld(n)'
        BY <1>a, <1>k, <1>t, <2>1 DEF EditHeld
      <3>2. Unrecorded(n)'
        BY <1>a, <1>t, <2>1, <2>2, <2>3 DEF Unrecorded
      <3> QED
        BY <3>1, <3>2
    <2> QED
      BY <2>1, <2>4, <2>5 DEF EditKept
  <1>12. CASE MoveFails \/ Crash \/ RepairDone
    <2>1. UNCHANGED <<folders, records, owed>> /\ plan' \subseteq plan
      BY <1>12 DEF MoveFails, Crash, RepairDone, End, outside
    <2>2. \E o : Leave(o)
      BY <1>12 DEF MoveFails, Crash, RepairDone, End
    <2> QED
      BY <1>e, <1>q, <2>1, <2>2 DEF folders, leftovers, records
  <1>13. ASSUME NEW n \in Skills, MoveAside(n) PROVE EditKept'
    <2>1. UNCHANGED <<baseline, plan, owed, op, units>> /\ phase = "move" /\ phase' = "unlock"
      BY <1>13 DEF MoveAside, GoTo, records, outside, history
    <2>2. \A m \in owed' : Spared(m)'
      BY <1>a, <2>1 DEF Spared
    <2>3. CASE UNCHANGED <<folders, aside>>
      BY <1>q, <2>1, <2>2, <2>3 DEF folders, leftovers
    <2>4. CASE canon[n] # Absent
      <3>1. /\ residue \subseteq residue' /\ Leftover("remove", n, canon[n]) \in residue'
            /\ aside'[n] = canon[n] /\ canon'[n] = Absent
            /\ \A m \in Skills \ {n} : canon'[m] = canon[m] /\ aside'[m] = aside[m]
        BY <1>13, <1>t, <2>4 DEF MoveAside, Keep
      <3>2. Undiscarded(Leftover("remove", n, canon[n]))
        BY <1>i DEF PlanOK, Undiscarded, Of, Leftover
      <3>3. ASSUME n \in owed PROVE EditHeld(n)'
        <4>1. CASE canon[n] = Edit
          BY <2>1, <3>1, <3>2, <4>1, CopyIsMade DEF EditHeld, Copies
        <4>2. CASE canon[n] # Edit
          BY <1>a, <1>k, <2>1, <3>1, <3>3, <4>2 DEF EditHeld
        <4> QED
          BY <4>1, <4>2
      <3>4. n \in owed => Unrecorded(n)'
        BY <1>a, <2>1, <3>1 DEF Unrecorded
      <3> QED
        BY <1>a, <1>f, <2>1, <2>2, <3>1, <3>3, <3>4
    <2> QED
      BY <1>13, <2>3, <2>4 DEF MoveAside
  <1>14. ASSUME NEW n \in Skills, RemoveLock(n) PROVE EditKept'
    <2>1. /\ UNCHANGED <<canon, residue, baseline, plan, op, units, aside>>
          /\ owed' = owed \ {n} /\ units = {n}
      BY <1>14, <1>i DEF RemoveLock, GoTo, folders, leftovers, outside, Progress, Installs
    <2>2. \A m \in owed' : Spared(m)'
      BY <2>1 DEF Spared
    <2> QED
      BY <1>q, <2>1, <2>2
  <1>15. ASSUME NEW n \in Skills, UnlockFails(n) PROVE EditKept'
    <2>1. UNCHANGED <<baseline, plan, owed>>
      BY <1>15 DEF UnlockFails, records, outside
    <2>2. /\ \A m \in owed' : Spared(m)'
          /\ \A m \in Skills : aside'[m] = Absent
      BY <1>15, <1>e DEF UnlockFails, End
    <2>3. CASE UNCHANGED folders
      BY <1>q, <2>1, <2>2, <2>3 DEF folders, leftovers
    <2>4. CASE /\ canon[n] = Absent /\ canon' = [canon EXCEPT ![n] = aside[n]]
               /\ Drop({Aside(n)})
      <3>1. canon'[n] = aside[n] /\ \A m \in Skills \ {n} : canon'[m] = canon[m]
        BY <1>t, <2>4
      <3>2. \A r \in residue : (r.skill = n /\ r.content = aside[n]) \/ r \in residue'
        BY <2>4 DEF Drop, Aside, Leftover
      <3>3. n \in owed => EditHeld(n)'
        BY <1>a, <1>k, <1>t, <2>1, <2>4, <3>1, <3>2 DEF EditHeld
      <3>4. n \in owed => Unrecorded(n)'
        BY <1>a, <2>1, <2>2, <3>1 DEF Unrecorded
      <3> QED
        BY <1>a, <1>f, <2>1, <2>2, <3>1, <3>2, <3>3, <3>4
    <2> QED
      BY <1>15, <2>3, <2>4 DEF UnlockFails, MovedBack
  <1>16. ASSUME NEW n \in Skills, ForgetBaseline(n) PROVE EditKept'
    <2>1. /\ UNCHANGED <<canon, residue, plan, owed, op, units, aside>> /\ phase = "forget"
          /\ n \in units /\ baseline'[n] \in {Absent, baseline[n]}
          /\ \A m \in Skills \ {n} : baseline'[m] = baseline[m]
      BY <1>16, <1>t DEF ForgetBaseline, GoTo, folders, leftovers, outside, history
    <2>2. owed \cap units = {}
      BY <1>a, <2>1 DEF Spared
    <2>3. \A m \in owed' : Spared(m)'
      BY <2>1, <2>2 DEF Spared
    <2>4. baseline'[n] # Edit
      BY <1>a, <1>t, <2>1
    <2> QED
      BY <1>f, <2>1, <2>2, <2>3, <2>4
  <1>17. ASSUME NEW n \in Skills, CleanAside(n) PROVE EditKept'
    <2>1. /\ UNCHANGED <<canon, baseline, plan, owed>> /\ phase = "clean" /\ n \in units
      BY <1>17 DEF CleanAside, records, outside
    <2>2. /\ \A m \in owed' : Spared(m)'
          /\ \A m \in Skills : aside'[m] = Absent
      BY <1>17, <1>e DEF CleanAside, End
    <2>3. n \notin owed
      BY <1>a, <2>1 DEF Spared
    <2>4. \A r \in residue : r.skill # n => r \in residue'
      BY <1>17 DEF CleanAside, Drop, Aside, Leftover, leftovers
    <2> QED
      BY <1>a, <1>f, <2>1, <2>2, <2>3, <2>4
  <1>18. CASE (\E S \in SUBSET Skills, v \in Versions : Install(S, v)) \/ Repair
                \/ \E n \in Skills : Uninstall(n)
    <2>1. UNCHANGED <<folders, records, plan, owed>> /\ aside' = Nothing
      BY <1>18 DEF Install, Uninstall, Repair, Start, outside
    <2>2. op' \notin {"auto", "reinstall"} /\ phase' \in {"stage", "move", "none"}
      BY <1>18 DEF Install, Uninstall, Repair, Start
    <2>3. \A m \in owed' : Spared(m)'
      BY <2>2 DEF Spared
    <2> QED
      BY <1>n, <1>q, <2>1, <2>3 DEF folders, leftovers, records
  <1>19. ASSUME NEW f \in fetched, ApplyFetched(f) PROVE EditKept'
    <2>1. UNCHANGED <<folders, records, plan, owed>>
      BY <1>19 DEF ApplyFetched, history
    <2>2. CASE UNCHANGED work
      BY <1>q, <1>w, <2>1, <2>2 DEF folders, leftovers, records, work
    <2>3. CASE /\ f.auto => Unedited(f.skill)
               /\ Start(IF f.auto THEN "auto" ELSE "update", "stage", {f.skill}, f.version)
      <3>1. ASSUME NEW m \in owed', m \in units' PROVE ~f.auto
        BY <1>a, <2>1, <2>3, <3>1 DEF Start, Unedited, ReplacementCommitted, Unrecorded
      <3>2. \A m \in owed' : Spared(m)'
        BY <2>3, <3>1 DEF Start, Spared
      <3>3. aside' = Nothing
        BY <2>3 DEF Start
      <3> QED
        BY <1>n, <1>q, <2>1, <3>2, <3>3 DEF folders, leftovers, records
    <2> QED
      BY <1>19, <2>2, <2>3 DEF ApplyFetched
  <1>20. ASSUME NEW n \in Skills, UserEdit(n) PROVE EditKept'
    <2>1. /\ UNCHANGED <<baseline, residue, plan, work>> /\ op = "none"
          /\ canon'[n] = Edit /\ \A m \in Skills \ {n} : canon'[m] = canon[m]
          /\ owed' = owed \cup {n}
      BY <1>t, <1>20 DEF UserEdit, leftovers, records, outside
    <2>2. \A m \in owed' : Spared(m)'
      BY <1>i, <2>1 DEF Spared, Progress, work
    <2>3. EditHeld(n)' /\ Unrecorded(n)'
      BY <1>a, <1>n, <1>t, <2>1 DEF EditHeld, Unrecorded, work
    <2> QED
      BY <1>a, <1>f, <2>1, <2>2, <2>3 DEF work
  <1>21. ASSUME NEW r \in residue, Sweep(r) PROVE EditKept'
    <2>1. /\ UNCHANGED <<canon, baseline, plan, owed, work>>
          /\ residue' = residue \ {r} /\ r \in AllLeftovers /\ SweepMayDelete(r)
      BY <1>21, <1>i DEF Sweep, Drop, records, outside, history, Typed, TypeOK, StoreTypeOK
    <2>2. /\ \A m \in owed' : Spared(m)'
          /\ aside' = aside
      BY <1>w, <2>1 DEF work
    <2>3. CASE r.kind = "stage"
      <3>1. \A x \in residue : x.kind \in Copies => x \in residue'
        BY <2>1, <2>3 DEF Copies
      <3> QED
        BY <1>q, <2>1, <2>2, <3>1
    <2>4. CASE ReplacementCommitted(r.skill)
      <3>1. PICK n \in Skills : n = r.skill
        BY <2>1 DEF AllLeftovers
      <3>2. n \notin owed
        BY <1>a, <2>4, <3>1 DEF Unrecorded, ReplacementCommitted
      <3>3. \A x \in residue : x.skill # n => x \in residue'
        BY <2>1, <3>1
      <3> QED
        BY <1>a, <1>f, <2>1, <2>2, <3>2, <3>3
    <2> QED
      BY <2>1, <2>3, <2>4 DEF SweepMayDelete
  <1>22. ASSUME NEW r \in residue, Age(r) PROVE EditKept'
    BY <1>q, <1>w, <1>22 DEF Age, records, outside, work, history
  <1>23. CASE PlanLost \/ UNCHANGED vars \/ \E f \in fetched : FetchLost(f)
    <2>1. UNCHANGED <<folders, records, work, history>> /\ plan' \subseteq plan
      BY <1>23 DEF PlanLost, FetchLost, vars, outside
    <2> QED
      BY <1>q, <1>w, <2>1 DEF folders, leftovers, records, work, history
  <1>24. CASE \E n \in Skills, v \in Versions, auto \in BOOLEAN : Fetch(n, v, auto)
    BY <1>q, <1>w, <1>24 DEF Fetch, folders, leftovers, records, work, history
  <1>25. CASE Scan
    <2>1. UNCHANGED <<canon, baseline, residue, aside, owed, op, units, phase>>
      BY <1>25 DEF Scan, folders, leftovers, records, work, history
    <2>2. ASSUME NEW n \in owed PROVE EditHeld(n)'
      <3>1. canon[n] = Absent \/ canon[n] # baseline[n]
        BY <1>a DEF Unrecorded
      <3>2. n \in Skills
        BY <1>t
      <3>3. SafeCopy(n, Edit) => SafeCopy(n, Edit)'
        BY <1>25, <1>i, <3>1, <3>2, ScanKeeps
      <3> QED
        BY <1>a, <2>1, <3>3 DEF EditHeld
    <2>3. \A n \in owed : Unrecorded(n)' /\ Spared(n)'
      BY <1>a, <2>1 DEF Unrecorded, Spared
    <2> QED
      BY <1>a, <2>1, <2>2, <2>3 DEF EditKept
  <1>26. ASSUME NEW s \in plan, RestoreBackup(s) PROVE EditKept'
    <2>1. /\ UNCHANGED <<baseline, work>> /\ plan' \subseteq plan /\ owed' \subseteq owed
          /\ op = "doctor"
      BY <1>26 DEF RestoreBackup, NextStep, records
    <2>2. /\ \A m \in owed' : Spared(m)'
          /\ aside' = aside /\ \A m \in Skills : aside[m] = Absent
      BY <1>n, <1>t, <1>w, <2>1 DEF work
    <2>3. CASE UNCHANGED folders
      BY <1>q, <2>1, <2>2, <2>3 DEF folders, leftovers
    <2>4. CASE /\ canon[s.skill] = Absent /\ canon' = [canon EXCEPT ![s.skill] = s.content]
               /\ Drop({Of(s)})
               /\ owed' = IF s.content = baseline[s.skill] THEN owed \ {s.skill} ELSE owed
      <3>1. PICK n \in Skills, d \in Contents \cup {Absent} : n = s.skill /\ d = s.content
        BY <1>i DEF Typed, TypeOK, RepairSteps
      <3>2. canon'[n] = d /\ \A m \in Skills \ {n} : canon'[m] = canon[m]
        BY <1>t, <2>4, <3>1
      <3>3. \A r \in residue : (r.skill = n /\ r.content = d) \/ r \in residue'
        BY <2>4, <3>1 DEF Drop, Of, Leftover
      <3>4. n \in owed' => n \in owed /\ baseline[n] # d
        BY <2>1, <2>4, <3>1
      <3>5. n \in owed' => EditHeld(n)'
        BY <1>a, <1>k, <1>t, <2>1, <2>4, <3>1, <3>2, <3>3, <3>4 DEF EditHeld
      <3>6. n \in owed' => Unrecorded(n)'
        BY <2>1, <2>2, <3>2, <3>4 DEF Unrecorded
      <3> QED
        BY <1>a, <1>f, <2>1, <2>2, <3>2, <3>3, <3>5, <3>6
    <2> QED
      BY <1>26, <2>3, <2>4 DEF RestoreBackup
  <1>27. ASSUME NEW s \in plan, RemoveResidue(s) PROVE EditKept'
    <2>1. UNCHANGED <<canon, baseline, work, owed>>
      BY <1>27 DEF RemoveResidue, records, history
    <2>2. ASSUME NEW n \in owed PROVE EditHeld(n)' /\ Unrecorded(n)'
      <3>1. EditHeld(n)'
        BY <1>a, <1>27, <2>1, DiscardKeeps DEF EditHeld
      <3>2. Unrecorded(n)'
        BY <1>a, <2>1 DEF Unrecorded, work
      <3> QED
        BY <3>1, <3>2
    <2> QED
      BY <1>a, <1>w, <2>1, <2>2 DEF EditKept, work
  <1>28. ASSUME NEW s \in plan, PruneLockEntry(s) PROVE EditKept'
    BY <1>q, <1>w, <1>28 DEF PruneLockEntry, NextStep, folders, leftovers, work, history
  <1>29. ASSUME NEW s \in plan, ReinstallFromLock(s) PROVE EditKept'
    <2>1. UNCHANGED <<folders, records>> /\ plan' \subseteq plan
      BY <1>29 DEF ReinstallFromLock, NextStep
    <2>2. CASE UNCHANGED <<work, history>>
      BY <1>q, <1>w, <2>1, <2>2 DEF folders, leftovers, records, work, history
    <2>3. CASE /\ \E v \in Versions : Start("reinstall", "stage", {s.skill}, v)
               /\ owed' = owed \ {s.skill}
      <3>1. units' = {s.skill} /\ aside' = Nothing
        BY <2>3 DEF Start
      <3>2. \A m \in owed' : Spared(m)'
        BY <2>3, <3>1 DEF Spared
      <3> QED
        BY <1>n, <1>q, <2>1, <2>3, <3>1, <3>2 DEF folders, leftovers, records
    <2> QED
      BY <1>29, <2>2, <2>3 DEF ReinstallFromLock
  <1> QED
    BY <1>2, <1>3, <1>4, <1>5, <1>6, <1>7, <1>8, <1>9, <1>10, <1>11, <1>12, <1>13, <1>14,
       <1>15, <1>16, <1>17, <1>18, <1>19, <1>20, <1>21, <1>22, <1>23, <1>24, <1>25, <1>26,
       <1>27, <1>28, <1>29
    DEF Next, InstallStep, RemovalStep, RepairStep

\* For any Skills, versions, sources and faults: an edit nobody gave up is in its
\* folder or in a copy, through installs, updates, sweeps and repairs, as long as
\* no edit lands inside a running install and no install brings what the
\* baseline records.
THEOREM EditsSurvive == ASSUME Hazards = {} PROVE Spec => []EditSurvives
  <1>1. Init => EditKept
    BY AbsentAssumption DEF Init, StoreInit, EditKept
  <1>2. RInv /\ EditKept /\ [Next]_vars => EditKept'
    BY StepEditKept
  <1>3. EditKept => EditSurvives
    BY DEF EditKept, EditHeld, SafeCopy, EditSurvives
  <1> QED
    BY RInvariance, <1>1, <1>2, <1>3, PTL DEF Spec
-----------------------------------------------------------------------------
\* What was fetched comes from the source it names, and what an update or a
\* reinstall puts in place from the source the lock records.
SourcesAgree ==
    /\ \A f \in fetched : SourceOf[f.version] = f.source
    /\ op \in {"update", "auto", "reinstall"} =>
         \A n \in units : lock[n] # Absent /\ SourceOf[lock[n]] = SourceOf[new]

\* Only three steps write the lock.
LEMMA LockWriters ==
    [Next]_vars => \/ lock' = lock \/ WriteLock
                   \/ \E n \in Skills : RemoveLock(n)
                   \/ \E s \in plan : PruneLockEntry(s)
  <1> SUFFICES ASSUME [Next]_vars, ~WriteLock, ~ \E n \in Skills : RemoveLock(n),
                      ~ \E s \in plan : PruneLockEntry(s)
               PROVE  lock' = lock
    OBVIOUS
  <1>1. CASE InstallStep
    BY <1>1 DEF InstallStep, StageUnit, SwapAside, SwapIn, SwapFails, CommitUnit, UndoSwap,
       PutBack, StageFails, LockFails, RecordBaseline, records
  <1>2. CASE RemovalStep
    BY <1>2 DEF RemovalStep, MoveAside, UnlockFails, ForgetBaseline, CleanAside, MoveFails,
       records
  <1>3. CASE RepairStep
    BY <1>3 DEF RepairStep, RestoreBackup, RemoveResidue, ReinstallFromLock, RepairDone, records
  <1>4. CASE Repair \/ PlanLost \/ Crash \/ Scan \/ UNCHANGED vars
    BY <1>4 DEF Repair, PlanLost, Crash, Scan, vars, records
  <1>5. CASE \E r \in residue : Age(r) \/ Sweep(r)
    BY <1>5 DEF Age, Sweep, records
  <1>6. CASE \E n \in Skills : Uninstall(n) \/ UserEdit(n)
    BY <1>6 DEF Uninstall, UserEdit, records
  <1>7. CASE \E f \in fetched : ApplyFetched(f) \/ FetchLost(f)
    BY <1>7 DEF ApplyFetched, FetchLost, records
  <1>8. CASE \E S \in SUBSET Skills, v \in Versions : Install(S, v)
    BY <1>8 DEF Install, records
  <1>9. CASE \E n \in Skills, v \in Versions, auto \in BOOLEAN : Fetch(n, v, auto)
    BY <1>9 DEF Fetch, records
  <1> QED
    BY <1>1, <1>2, <1>3, <1>4, <1>5, <1>6, <1>7, <1>8, <1>9 DEF Next

\* No step parts an update from its source.
LEMMA StepSources == SourcesAgree /\ Typed /\ [Next]_vars => SourcesAgree'
  <1> SUFFICES ASSUME SourcesAgree, Typed, [Next]_vars PROVE SourcesAgree'
    OBVIOUS
  <1> USE DEF SourcesAgree
  <1>l. \/ lock' = lock \/ WriteLock
        \/ op = "uninstall" \/ op = "doctor"
    BY LockWriters DEF RemoveLock, PruneLockEntry, NextStep
  \* The operation goes on or ends.
  <1>1. ASSUME fetched' \subseteq fetched,
               UNCHANGED <<op, units, new>> \/ op' \notin {"update", "auto", "reinstall"},
               ~WriteLock
        PROVE  SourcesAgree'
    BY <1>1, <1>l
  <1>2. CASE WriteLock
    <2>1. /\ UNCHANGED <<op, units, new, fetched>> /\ new \in Versions
          /\ \A n \in units : lock'[n] = new
      BY <1>2 DEF WriteLock, GoTo, outside, Typed, Working, TypeOK
    <2> QED
      BY <2>1, AbsentAssumption
  <1>3. CASE InstallStep /\ ~WriteLock
    BY <1>1, <1>3 DEF InstallStep, StageUnit, SwapAside, SwapIn, SwapFails, CommitUnit, UndoSwap,
       PutBack, StageFails, LockFails, RecordBaseline, Advance, GoTo, RolledBack, End, Leave,
       outside
  <1>4. CASE RemovalStep
    <2>1. op = "uninstall" /\ UNCHANGED fetched /\ ~WriteLock
      BY <1>4 DEF RemovalStep, MoveAside, RemoveLock, UnlockFails, ForgetBaseline, CleanAside,
         MoveFails, WriteLock, outside, Installs
    <2>2. op' \in {"uninstall", "none"}
      BY <1>4, <2>1 DEF RemovalStep, MoveAside, RemoveLock, UnlockFails, ForgetBaseline,
         CleanAside, MoveFails, GoTo, End, Leave
    <2> QED
      BY <1>1, <2>1, <2>2
  <1>5. ASSUME NEW s \in plan, ReinstallFromLock(s) PROVE SourcesAgree'
    <2>1. UNCHANGED <<lock, fetched>> /\ ~WriteLock
      BY <1>5 DEF ReinstallFromLock, NextStep, records, WriteLock, Installs
    <2>2. CASE UNCHANGED work
      BY <1>1, <2>1, <2>2 DEF work
    <2>3. CASE /\ lock[s.skill] # Absent
               /\ \E v \in Versions : /\ SourceOf[v] = SourceOf[lock[s.skill]]
                                      /\ Start("reinstall", "stage", {s.skill}, v)
      <3>1. PICK v \in Versions : /\ SourceOf[v] = SourceOf[lock[s.skill]]
                                  /\ Start("reinstall", "stage", {s.skill}, v)
        BY <2>3
      <3>2. units' = {s.skill} /\ new' = v
        BY <3>1 DEF Start
      <3> QED
        BY <2>1, <2>3, <3>1, <3>2
    <2> QED
      BY <1>5, <2>2, <2>3 DEF ReinstallFromLock
  <1>6. CASE RepairStep /\ ~ \E s \in plan : ReinstallFromLock(s)
    BY <1>1, <1>6 DEF RepairStep, RestoreBackup, RemoveResidue, PruneLockEntry, NextStep,
       RepairDone, End, Leave, WriteLock, Installs, outside, work
  <1>7. ASSUME NEW f \in fetched, ApplyFetched(f) PROVE SourcesAgree'
    <2>1. UNCHANGED lock /\ fetched' \subseteq fetched /\ ~WriteLock
      BY <1>7 DEF ApplyFetched, records, WriteLock, Installs
    <2>2. CASE UNCHANGED work
      BY <1>1, <2>1, <2>2 DEF work
    <2>3. CASE Revalidated(f) /\ \E o : Start(o, "stage", {f.skill}, f.version)
      <3>1. units' = {f.skill} /\ new' = f.version
        BY <2>3 DEF Start
      <3>2. lock[f.skill] # Absent /\ SourceOf[lock[f.skill]] = SourceOf[f.version]
        BY <2>3 DEF Revalidated
      <3> QED
        BY <2>1, <3>1, <3>2
    <2> QED
      BY <1>7, <2>2, <2>3 DEF ApplyFetched
  <1>8. ASSUME NEW n \in Skills, NEW v \in Versions, NEW auto \in BOOLEAN, Fetch(n, v, auto)
        PROVE  SourcesAgree'
    BY <1>8 DEF Fetch, records, work
  <1>9. CASE Scan \/ PlanLost \/ UNCHANGED vars \/ \E f \in fetched : FetchLost(f)
    BY <1>9 DEF Scan, PlanLost, FetchLost, vars, records, work, outside
  <1>10. CASE \E n \in Skills : UserEdit(n)
    BY <1>10 DEF UserEdit, records, work, outside
  <1>11. CASE \E r \in residue : Age(r) \/ Sweep(r)
    BY <1>11 DEF Age, Sweep, records, work, outside
  <1>12. CASE Repair \/ Crash \/ \E n \in Skills : Uninstall(n)
    <2>1. op' \in {"doctor", "none", "uninstall"} /\ fetched' = fetched
      BY <1>12 DEF Repair, Crash, Uninstall, Start, Leave, outside
    <2> QED
      BY <2>1
  <1>13. CASE \E S \in SUBSET Skills, v \in Versions : Install(S, v)
    <2>1. op' = "install" /\ fetched' = fetched
      BY <1>13 DEF Install, Start, outside
    <2> QED
      BY <2>1
  <1> QED
    BY <1>2, <1>3, <1>4, <1>5, <1>6, <1>7, <1>8, <1>9, <1>10, <1>11, <1>12, <1>13 DEF Next

\* For any Skills, versions, sources, faults, fetches and repairs: an update or a
\* repair writes an entry only where one of the same source is.
THEOREM UpdatesKeepTheSource == Spec => UpdateKeepsSource
  <1>1. Init => Typed /\ SourcesAgree
    BY InitTyped DEF Init, SourcesAgree
  <1>2. Typed /\ SourcesAgree /\ [Next]_vars => (Typed /\ SourcesAgree)'
    BY StepTyped, StepSources
  <1>3. ASSUME Typed, SourcesAgree, [Next]_vars, NEW n \in Skills,
               op \in {"update", "auto", "reinstall"}, lock'[n] # lock[n]
        PROVE  /\ lock[n] # Absent /\ lock'[n] # Absent
               /\ SourceOf[lock'[n]] = SourceOf[lock[n]]
    <2>1. WriteLock
      BY <1>3, LockWriters DEF RemoveLock, PruneLockEntry, NextStep
    <2>2. n \in units /\ lock'[n] = new /\ new \in Versions
      BY <1>3, <2>1 DEF WriteLock, Typed, Working, TypeOK, StoreTypeOK
    <2> QED
      BY <1>3, <2>2, AbsentAssumption DEF SourcesAgree
  <1>4. Typed /\ SourcesAgree /\ [Next]_vars
          => [ \A n \in Skills :
                 op \in {"update", "auto", "reinstall"} /\ lock'[n] # lock[n]
                   => /\ lock[n] # Absent /\ lock'[n] # Absent
                      /\ SourceOf[lock'[n]] = SourceOf[lock[n]] ]_vars
    BY <1>3
  <1> QED
    BY <1>1, <1>2, <1>4, PTL DEF Spec, UpdateKeepsSource
-----------------------------------------------------------------------------
\* The folder a unit had when the operation began: still in place, moved aside,
\* or not there.
UnitKept(n) ==
    IF phase = "rollback" /\ n \notin todo THEN canon[n] = before[n]
    ELSE IF n \in swapped THEN aside[n] = before[n]
    ELSE IF aside[n] = Absent THEN canon[n] = before[n]
    ELSE aside[n] = before[n] /\ canon[n] = Absent

\* The strengthening of FailedBatchIsUndone: while a batch runs, what it began
\* with can be put together again.
BatchUndone ==
    op \in Installs /\ intact =>
        /\ \A n \in Skills \ units : canon[n] = before[n]
        /\ phase = "stage" => canon = before
        /\ phase \in {"swap", "lock", "rollback"} => \A n \in units : UnitKept(n)

\* No step of a batch, or beside it, loses what the batch began with.
LEMMA StepUndone ==
    ASSUME Hazards = {}, Typed, Progress, BatchUndone, [Next]_vars
    PROVE  BatchUndone'
  <1>t. /\ canon \in [Skills -> Contents \cup {Absent}]
        /\ aside \in [Skills -> Contents \cup {Absent}]
        /\ before \in [Skills -> Contents \cup {Absent}]
        /\ units \subseteq Skills
    BY DEF Typed, TypeOK, StoreTypeOK
  <1>p. /\ todo \subseteq units /\ swapped \subseteq units
        /\ phase = "stage" => swapped = {} /\ aside = Nothing
        /\ phase = "swap" => todo \cap swapped = {}
    BY DEF Progress
  <1>b. op \in Installs /\ intact =>
          /\ \A n \in Skills \ units : canon[n] = before[n]
          /\ phase = "stage" => canon = before
          /\ phase \in {"swap", "lock", "rollback"} => \A n \in units : UnitKept(n)
    BY DEF BatchUndone
  \* No install runs after the step, or none of what it knows changes.
  <1>1. ASSUME op' \notin Installs PROVE BatchUndone'
    BY <1>1 DEF BatchUndone, Installs
  <1>2. ASSUME UNCHANGED <<work, canon, before, intact>> PROVE BatchUndone'
    BY <1>2 DEF BatchUndone, UnitKept, work, Installs
  \* One unit's step, and where the phase is what it was.
  <1>u. ASSUME NEW n \in units, UNCHANGED <<op, units, before>>, intact' => intact,
               phase \in {"swap", "lock", "rollback"},
               phase' \in {phase, "rollback"} \/ (phase = "swap" /\ phase' = "lock"),
               \A m \in Skills \ {n} : canon'[m] = canon[m] /\ aside'[m] = aside[m],
               \A m \in units \ {n} : m \in swapped' <=> m \in swapped,
               phase' = "rollback" =>
                 \/ phase # "rollback" /\ todo' = units
                 \/ /\ phase = "rollback"
                    /\ \A m \in units \ {n} : m \in todo' <=> m \in todo,
               op \in Installs /\ intact' => UnitKept(n)'
        PROVE  BatchUndone'
    <2>1. ASSUME NEW m \in units \ {n}, UnitKept(m) PROVE UnitKept(m)'
      <3>1. UNCHANGED <<canon[m], aside[m], before[m]>> /\ (m \in swapped' <=> m \in swapped)
        BY <1>u, <1>t
      <3>2. phase' = "rollback" => m \in todo' \/ (phase = "rollback" /\ m \notin todo)
        BY <1>u
      <3>3. phase = "rollback" => phase' = "rollback" /\ (m \in todo' => m \in todo)
        BY <1>u, <1>p
      <3> QED
        BY <2>1, <3>1, <3>2, <3>3 DEF UnitKept
    <2> QED
      BY <1>b, <1>t, <1>u, <2>1 DEF BatchUndone, UnitKept
  <1>s. ASSUME NEW n \in Skills, StageUnit(n) PROVE BatchUndone'
    <2>1. /\ UNCHANGED <<op, units, canon, aside, swapped, before, intact>>
          /\ phase = "stage" /\ phase' \in {"stage", "swap"} /\ op \in Installs
      BY <1>s DEF StageUnit, Advance, history
    <2>2. \A m \in Skills : aside[m] = Absent
      BY <1>p, <2>1 DEF Nothing
    <2> QED
      BY <1>b, <1>p, <1>t, <2>1, <2>2 DEF BatchUndone, UnitKept
  <1>3. ASSUME NEW n \in Skills, SwapAside(n) PROVE BatchUndone'
    <2>1. /\ UNCHANGED <<op, phase, units, todo, swapped, before, intact>>
          /\ phase = "swap" /\ op \in Installs /\ n \in units \ swapped
          /\ canon[n] # Absent /\ aside[n] = Absent
      BY <1>3, <1>p DEF SwapAside, history
    <2>2. /\ aside'[n] = canon[n] /\ canon'[n] = Absent
          /\ \A m \in Skills \ {n} : canon'[m] = canon[m] /\ aside'[m] = aside[m]
      BY <1>3, <1>t DEF SwapAside
    <2>3. intact => UnitKept(n)'
      BY <1>b, <2>1, <2>2 DEF UnitKept
    <2> QED
      BY <1>u, <2>1, <2>2, <2>3
  <1>4. ASSUME NEW n \in Skills, SwapIn(n) PROVE BatchUndone'
    <2>1. /\ UNCHANGED <<op, units, aside, before, intact>> /\ swapped' = swapped \cup {n}
          /\ phase = "swap" /\ phase' \in {"swap", "lock"} /\ op \in Installs
          /\ n \in units \ swapped /\ canon[n] = Absent
      BY <1>4, <1>p DEF SwapIn, Advance, history
    <2>2. \A m \in Skills \ {n} : canon'[m] = canon[m]
      BY <1>4, <1>t DEF SwapIn
    <2>3. intact => UnitKept(n)'
      BY <1>b, <2>1 DEF UnitKept
    <2> QED
      BY <1>u, <2>1, <2>2, <2>3
  <1>5. ASSUME NEW n \in Skills, SwapFails(n) PROVE BatchUndone'
    <2>1. /\ UNCHANGED <<op, units, swapped, before>> /\ op \in Installs
          /\ phase = "swap" /\ phase' = "rollback" /\ todo' = units
          /\ n \in units \ swapped /\ n \in todo' /\ (intact' => intact)
          /\ aside'[n] = Absent
          /\ \A m \in Skills \ {n} : canon'[m] = canon[m] /\ aside'[m] = aside[m]
      BY <1>5, <1>p, <1>t DEF SwapFails, GoTo, folders
    <2>2. \/ ~intact'
          \/ aside[n] = Absent /\ canon'[n] = canon[n]
          \/ aside[n] # Absent /\ canon'[n] = aside[n]
      BY <1>5, <1>t DEF SwapFails, folders
    <2>3. ASSUME intact' PROVE UnitKept(n)'
      <3>1. UnitKept(n)
        BY <1>b, <2>1, <2>3
      <3>2. canon'[n] = before[n]
        BY <2>1, <2>2, <2>3, <3>1 DEF UnitKept
      <3> QED
        BY <2>1, <3>2 DEF UnitKept
    <2> QED
      BY <1>u, <2>1, <2>3
  <1>6. ASSUME NEW n \in Skills, CommitUnit(n) PROVE BatchUndone'
    BY <1>b, <1>6 DEF CommitUnit, Advance, history, BatchUndone
  <1>7. ASSUME NEW n \in Skills, UndoSwap(n) PROVE BatchUndone'
    <2>1. /\ UNCHANGED <<op, units, phase, todo, aside, before>> /\ swapped' = swapped \ {n}
          /\ phase = "rollback" /\ op \in Installs /\ n \in todo /\ n \in swapped /\ n \in units
          /\ \A m \in Skills \ {n} : canon'[m] = canon[m]
          /\ (canon'[n] = Absent /\ intact' = intact) \/ intact' = FALSE
      BY <1>7, <1>p, <1>t DEF UndoSwap
    <2>2. intact' => UnitKept(n)'
      BY <1>b, <2>1 DEF UnitKept
    <2> QED
      BY <1>u, <2>1, <2>2
  <1>8. ASSUME NEW n \in Skills, PutBack(n) PROVE BatchUndone'
    <2>1. CASE End
      <3>1. op \in Installs
        BY <1>8 DEF PutBack
      <3>2. op' \in {"doctor", "none"}
        BY <2>1, <3>1 DEF End, Leave
      <3> QED
        BY <1>1, <3>2 DEF Installs
    <2>2. CASE ~End
      <3>1. /\ UNCHANGED <<op, units, phase, swapped, before>> /\ todo' = todo \ {n}
            /\ aside' = [aside EXCEPT ![n] = Absent]
            /\ phase = "rollback" /\ op \in Installs /\ n \in units \ swapped /\ n \in todo
            /\ intact' => intact
        BY <1>8, <1>p, <2>2 DEF PutBack, RolledBack
      <3>2. \A m \in Skills \ {n} : canon'[m] = canon[m] /\ aside'[m] = aside[m]
        BY <1>8, <1>t, <3>1 DEF PutBack
      <3>3. intact' => \/ aside[n] = Absent /\ canon'[n] = canon[n]
                       \/ aside[n] # Absent /\ canon'[n] = aside[n]
        BY <1>8, <1>t, <2>2 DEF PutBack, RolledBack
      <3>4. intact' => UnitKept(n)'
        BY <1>b, <3>1, <3>3 DEF UnitKept
      <3> QED
        BY <1>u, <3>1, <3>2, <3>4
    <2> QED
      BY <2>1, <2>2
  <1>9. CASE StageFails \/ LockFails
    <2>1. /\ UNCHANGED <<op, units, canon, aside, swapped, before, intact>>
          /\ phase \in {"stage", "lock"} /\ phase' = "rollback" /\ todo' = units /\ op \in Installs
      BY <1>9 DEF StageFails, LockFails, GoTo, folders, history
    <2>2. phase = "stage" => \A m \in Skills : aside[m] = Absent
      BY <1>p DEF Nothing
    <2> QED
      BY <1>b, <1>p, <1>t, <2>1, <2>2 DEF BatchUndone, UnitKept
  <1>10. CASE WriteLock
    BY <1>b, <1>10 DEF WriteLock, GoTo, BatchUndone
  <1>11. CASE RecordBaseline
    <2>1. op' \in {"doctor", "none"}
      BY <1>11 DEF RecordBaseline, End, Leave
    <2> QED
      BY <1>1, <2>1 DEF Installs
  <1>12. CASE RemovalStep
    <2>1. op = "uninstall"
      BY <1>12 DEF RemovalStep, MoveAside, RemoveLock, UnlockFails, ForgetBaseline, CleanAside,
         MoveFails
    <2>2. op' \in {"uninstall", "none"}
      BY <1>12, <2>1 DEF RemovalStep, MoveAside, RemoveLock, UnlockFails, ForgetBaseline,
         CleanAside, MoveFails, GoTo, End, Leave
    <2> QED
      BY <1>1, <2>2 DEF Installs
  \* A batch begins.
  <1>13. ASSUME phase' = "stage", before' = canon, canon' = canon PROVE BatchUndone'
    BY <1>13 DEF BatchUndone
  <1>14. CASE RepairStep
    <2>1. op' \in {"doctor", "none"} \/ (phase' = "stage" /\ before' = canon /\ canon' = canon)
      <3>1. op = "doctor"
        BY <1>14 DEF RepairStep, RestoreBackup, RemoveResidue, PruneLockEntry,
           ReinstallFromLock, NextStep, RepairDone
      <3> QED
        BY <1>14, <3>1 DEF RepairStep, RestoreBackup, RemoveResidue, PruneLockEntry,
           ReinstallFromLock, RepairDone, Start, End, Leave, folders, work
    <2> QED
      BY <1>1, <1>13, <2>1 DEF Installs
  <1>15. CASE \E S \in SUBSET Skills, v \in Versions : Install(S, v)
    BY <1>13, <1>15 DEF Install, Start, folders
  <1>16. CASE \E f \in fetched : ApplyFetched(f)
    BY <1>2, <1>13, <1>16 DEF ApplyFetched, Start, folders, history
  <1>17. CASE Repair \/ Crash \/ \E n \in Skills : Uninstall(n)
    <2>1. op' \in {"doctor", "none", "uninstall"}
      BY <1>17 DEF Repair, Crash, Uninstall, Start, Leave
    <2> QED
      BY <1>1, <2>1 DEF Installs
  <1>18. CASE \E n \in Skills : UserEdit(n)
    <2>1. op' = "none"
      BY <1>18 DEF UserEdit, work
    <2> QED
      BY <1>1, <2>1 DEF Installs
  <1>19. CASE \E r \in residue : Age(r) \/ Sweep(r)
    BY <1>2, <1>19 DEF Age, Sweep, history
  <1>20. CASE Scan \/ PlanLost \/ UNCHANGED vars \/ \E f \in fetched : FetchLost(f)
    BY <1>2, <1>20 DEF Scan, PlanLost, FetchLost, vars, folders, history
  <1>21. CASE \E n \in Skills, v \in Versions, auto \in BOOLEAN : Fetch(n, v, auto)
    BY <1>2, <1>21 DEF Fetch, folders, history
  <1> QED
    BY <1>s, <1>3, <1>4, <1>5, <1>6, <1>7, <1>8, <1>9, <1>10, <1>11, <1>12, <1>14, <1>15,
       <1>16, <1>17, <1>18, <1>19, <1>20, <1>21 DEF Next, InstallStep

\* The step that ends a rollback without a failure leaves every folder as it was.
LEMMA LastPutBack ==
    ASSUME Typed, Progress, BatchUndone, [Next]_vars,
           phase = "rollback", phase' = "none", intact, faults' = faults
    PROVE  canon' = before
  <1>t. /\ canon \in [Skills -> Contents \cup {Absent}]
        /\ before \in [Skills -> Contents \cup {Absent}]
        /\ faults \in Nat /\ faults + 1 # faults
    BY DEF Typed, TypeOK, StoreTypeOK
  <1>1. op \in Installs
    BY DEF Progress, Typed, TypeOK
  <1>2. PICK n \in Skills : PutBack(n)
    <2>1. \/ InstallStep \/ Crash
          \/ UNCHANGED phase
      <3>1. ~RemovalStep /\ ~RepairStep
        BY <1>1 DEF RemovalStep, MoveAside, RemoveLock, UnlockFails, ForgetBaseline, CleanAside,
           MoveFails, RepairStep, RestoreBackup, RemoveResidue, PruneLockEntry,
           ReinstallFromLock, NextStep, RepairDone, Installs
      <3>2. ASSUME NEW f \in fetched, ApplyFetched(f) \/ FetchLost(f) PROVE UNCHANGED phase
        BY <1>1, <3>2 DEF ApplyFetched, FetchLost, work, Installs
      <3>3. ASSUME NEW m \in Skills, NEW v \in Versions, NEW auto \in BOOLEAN, Fetch(m, v, auto)
            PROVE  UNCHANGED phase
        BY <3>3 DEF Fetch, work
      <3>4. ASSUME NEW m \in Skills, Uninstall(m) \/ UserEdit(m) PROVE UNCHANGED phase
        BY <1>1, <3>4 DEF Uninstall, UserEdit, work, Installs
      <3>5. ASSUME NEW S \in SUBSET Skills, NEW v \in Versions PROVE ~Install(S, v)
        BY <1>1 DEF Install, Installs
      <3>6. ASSUME NEW r \in residue, Age(r) \/ Sweep(r) PROVE UNCHANGED phase
        BY <3>6 DEF Age, Sweep, work
      <3>7. CASE Scan \/ Repair \/ PlanLost \/ UNCHANGED vars
        BY <1>1, <3>7 DEF Scan, Repair, PlanLost, vars, work, Installs
      <3> QED
        BY <3>1, <3>2, <3>3, <3>4, <3>5, <3>6, <3>7 DEF Next
    <2>2. ~Crash
      BY <1>t DEF Crash, Fault, Faults
    <2>3. InstallStep
      BY <2>1, <2>2
    <2> QED
      BY <2>3 DEF InstallStep, StageUnit, SwapAside, SwapIn, SwapFails, CommitUnit, UndoSwap,
         StageFails, WriteLock, LockFails, RecordBaseline
  <1>3. n \in todo \ swapped /\ todo = {n} /\ todo \subseteq units
    BY <1>2 DEF PutBack, RolledBack, Progress
  <1>4. \A m \in Skills \ {n} : canon[m] = before[m]
    BY <1>1, <1>3 DEF BatchUndone, UnitKept
  <1>5. IF aside[n] = Absent THEN canon[n] = before[n]
                             ELSE aside[n] = before[n] /\ canon[n] = Absent
    BY <1>1, <1>3 DEF BatchUndone, UnitKept
  <1>6. \/ aside[n] = Absent /\ canon' = canon
        \/ aside[n] # Absent /\ canon' = [canon EXCEPT ![n] = aside[n]]
    BY <1>2, <1>5, <1>t DEF PutBack, Fault, Faults
  <1>7. canon' \in [Skills -> Contents \cup {Absent}]
    BY StepTyped DEF Typed, TypeOK, StoreTypeOK
  <1>8. \A m \in Skills : canon'[m] = before[m]
    BY <1>t, <1>4, <1>5, <1>6
  <1> QED
    BY <1>t, <1>7, <1>8

\* For any Skills, versions and faults, as long as no edit lands inside a running
\* install and no install brings what the baseline records: a rollback none of
\* whose renames failed puts every folder back.
THEOREM FailedBatchesAreUndone == ASSUME Hazards = {} PROVE Spec => FailedBatchIsUndone
  <1>1. Init => BatchUndone
    BY DEF Init, BatchUndone, Installs
  <1>2. RInv /\ BatchUndone /\ [Next]_vars => BatchUndone'
    BY StepUndone DEF RInv
  <1>3. RInv /\ BatchUndone /\ [Next]_vars
          => [phase = "rollback" /\ phase' = "none" /\ intact /\ faults' = faults
                => canon' = before]_vars
    BY LastPutBack DEF RInv
  <1> QED
    BY RInvariance, <1>1, <1>2, <1>3, PTL DEF Spec, FailedBatchIsUndone
=============================================================================
