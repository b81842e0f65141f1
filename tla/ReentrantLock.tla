---------------------------- MODULE ReentrantLock ----------------------------
(***************************************************************************)
(* The re-entrant lock under every Skill mutation: a process mutex, then   *)
(* an OS file lock, both owned by the thread's LockSlot and released when  *)
(* the last ReentrantFileGuard of that thread is dropped, in any order.    *)
(* (crates/ss-skills/src/skill_update/transaction.rs)                      *)
(*                                                                         *)
(* A step is one call that other threads can observe: taking the mutex,    *)
(* taking the file lock, giving up, dropping a guard, unlocking the file,  *)
(* releasing the mutex.  A process may die between any two of them; the    *)
(* operating system then closes its files, which drops its file lock.      *)
(***************************************************************************)
EXTENDS Naturals

CONSTANTS Threads,     \* threads of all SkillStar processes
          Procs,       \* processes (app, CLI, MCP server)
          ProcOf,      \* the process a thread runs in
          MaxDepth,    \* bound on nested acquisitions of one thread
          Nobody       \* no owner

ASSUME ProcOfAssumption == ProcOf \in [Threads -> Procs]
ASSUME DepthAssumption  == MaxDepth \in Nat \ {0}
ASSUME NobodyAssumption == Nobody \notin Threads

VARIABLES mutex,    \* UPDATE_TRANSACTION_MUTEX of each process: its owner
          file,     \* the thread whose file description holds the OS lock
          depth,    \* LockSlot.depth of each thread
          held,     \* the threads whose LockSlot.held is Some
          guards,   \* how many ReentrantFileGuard values its callers hold
          timed,    \* the threads whose current call has a wait budget
          pc        \* where the thread is in acquire or in the last drop

lockVars == <<mutex, file, depth, held, guards, timed, pc>>

Steps == {"idle", "mutex", "file", "unlock", "release"}

LockInit == /\ mutex  = [p \in Procs |-> Nobody]
            /\ file   = Nobody
            /\ depth  = [t \in Threads |-> 0]
            /\ held   = {}
            /\ guards = [t \in Threads |-> 0]
            /\ timed  = {}
            /\ pc     = [t \in Threads |-> "idle"]
-----------------------------------------------------------------------------
\* Releases the mutex of t's process: what dropping `process` does.
FreeMutex(t) == mutex' = [mutex EXCEPT ![ProcOf[t]] = Nobody]

\* A thread that already owns the lock only counts one level more.
Reenter(t) ==
    /\ pc[t] = "idle"
    /\ depth[t] \in 1 .. MaxDepth - 1
    /\ depth'  = [depth EXCEPT ![t] = @ + 1]
    /\ guards' = [guards EXCEPT ![t] = @ + 1]
    /\ UNCHANGED <<mutex, file, held, timed, pc>>

\* The outermost call starts waiting, with or without a budget.
Call(t) ==
    /\ pc[t] = "idle"
    /\ depth[t] = 0
    /\ pc' = [pc EXCEPT ![t] = "mutex"]
    /\ timed' \in {timed \cup {t}, timed \ {t}}
    /\ UNCHANGED <<mutex, file, depth, held, guards>>

TakeMutex(t) ==
    /\ pc[t] = "mutex"
    /\ mutex[ProcOf[t]] = Nobody
    /\ mutex' = [mutex EXCEPT ![ProcOf[t]] = t]
    /\ pc' = [pc EXCEPT ![t] = "file"]
    /\ UNCHANGED <<file, depth, held, guards, timed>>

\* Mutant: only the wait for the file has a budget.
MutexNeverTimesOut(t) == FALSE /\ UNCHANGED lockVars

\* The budget is over and another thread of the process owns the mutex.
MutexTimeout(t) ==
    /\ pc[t] = "mutex"
    /\ t \in timed
    /\ mutex[ProcOf[t]] # Nobody
    /\ pc' = [pc EXCEPT ![t] = "idle"]
    /\ UNCHANGED <<mutex, file, depth, held, guards, timed>>

TakeFile(t) ==
    /\ pc[t] = "file"
    /\ file = Nobody
    /\ file'   = t
    /\ held'   = held \cup {t}
    /\ depth'  = [depth EXCEPT ![t] = 1]
    /\ guards' = [guards EXCEPT ![t] = 1]
    /\ pc'     = [pc EXCEPT ![t] = "idle"]
    /\ UNCHANGED <<mutex, timed>>

\* Mutant: the failing call forgets the process mutex.
FileFailsKeepsMutex(t) ==
    /\ pc[t] = "file"
    /\ pc' = [pc EXCEPT ![t] = "idle"]
    /\ UNCHANGED <<mutex, file, depth, held, guards, timed>>

\* The call fails after the mutex was taken: the lock file cannot be opened
\* or locked, or the budget is over and another process owns it.  The guard
\* made at the top of the call is dropped as well: at depth 0 it finds
\* nothing to release.
FileFails(t) ==
    /\ pc[t] = "file"
    /\ FreeMutex(t)
    /\ depth' = [depth EXCEPT ![t] = 0]
    /\ held'  = held \ {t}
    /\ pc'    = [pc EXCEPT ![t] = "idle"]
    /\ UNCHANGED <<file, guards, timed>>

\* Mutant: the first guard that goes takes the lock with it.
DropGuardReleases(t) ==
    /\ pc[t] = "idle"
    /\ guards[t] > 0
    /\ guards' = [guards EXCEPT ![t] = @ - 1]
    /\ depth'  = [depth EXCEPT ![t] = IF @ > 0 THEN @ - 1 ELSE 0]
    /\ IF t \in held
         THEN /\ held' = held \ {t}
              /\ pc' = [pc EXCEPT ![t] = "unlock"]
         ELSE UNCHANGED <<held, pc>>
    /\ UNCHANGED <<mutex, file, timed>>

\* Dropping one guard, whichever of the nested ones it is.
DropGuard(t) ==
    /\ pc[t] = "idle"
    /\ guards[t] > 0
    /\ guards' = [guards EXCEPT ![t] = @ - 1]
    /\ LET next == IF depth[t] > 0 THEN depth[t] - 1 ELSE 0 IN
         /\ depth' = [depth EXCEPT ![t] = next]
         /\ IF next = 0 /\ t \in held
              THEN /\ held' = held \ {t}
                   /\ pc' = [pc EXCEPT ![t] = "unlock"]
              ELSE UNCHANGED <<held, pc>>
    /\ UNCHANGED <<mutex, file, timed>>

\* held.file.unlock(), then the rest of Held is dropped: the mutex.
UnlockFile(t) ==
    /\ pc[t] = "unlock"
    /\ file' = Nobody
    /\ pc' = [pc EXCEPT ![t] = "release"]
    /\ UNCHANGED <<mutex, depth, held, guards, timed>>

\* Mutant: only the file lock is released.
ReleaseMutexForgets(t) ==
    /\ pc[t] = "release"
    /\ pc' = [pc EXCEPT ![t] = "idle"]
    /\ UNCHANGED <<mutex, file, depth, held, guards, timed>>

ReleaseMutex(t) ==
    /\ pc[t] = "release"
    /\ FreeMutex(t)
    /\ pc' = [pc EXCEPT ![t] = "idle"]
    /\ UNCHANGED <<file, depth, held, guards, timed>>

\* A process dies; a new one starts with fresh statics.
ProcessDies(p) ==
    LET Fresh(f, v) == [t \in Threads |-> IF ProcOf[t] = p THEN v ELSE f[t]] IN
    /\ mutex'  = [mutex EXCEPT ![p] = Nobody]
    /\ file'   = IF file # Nobody /\ ProcOf[file] = p THEN Nobody ELSE file
    /\ depth'  = Fresh(depth, 0)
    /\ held'   = {t \in held : ProcOf[t] # p}
    /\ guards' = Fresh(guards, 0)
    /\ timed'  = {t \in timed : ProcOf[t] # p}
    /\ pc'     = Fresh(pc, "idle")
-----------------------------------------------------------------------------
LockNext == \/ \E t \in Threads : \/ Reenter(t) \/ Call(t)
                                  \/ TakeMutex(t) \/ MutexTimeout(t)
                                  \/ TakeFile(t) \/ FileFails(t)
                                  \/ DropGuard(t) \/ UnlockFile(t) \/ ReleaseMutex(t)
            \/ \E p \in Procs : ProcessDies(p)

LockSpec == LockInit /\ [][LockNext]_lockVars

(***************************************************************************)
(* Threads keep running and callers drop their guards.  One poll of a      *)
(* lock either takes it or, when the budget is over, gives up, so a call   *)
(* with a budget always has a next step.  Nothing is assumed of who wins a *)
(* contended lock: neither std::sync::Mutex nor flock is a queue.          *)
(***************************************************************************)
FairLockSpec == LockSpec /\ \A t \in Threads :
    /\ WF_lockVars(TakeMutex(t) \/ MutexTimeout(t))
    /\ WF_lockVars(TakeFile(t) \/ (t \in timed /\ FileFails(t)))
    /\ WF_lockVars(DropGuard(t) \/ UnlockFile(t) \/ ReleaseMutex(t))
-----------------------------------------------------------------------------
LockTypeOK == /\ mutex  \in [Procs -> Threads \cup {Nobody}]
              /\ file   \in Threads \cup {Nobody}
              /\ depth  \in [Threads -> 0 .. MaxDepth]
              /\ held   \subseteq Threads
              /\ guards \in [Threads -> 0 .. MaxDepth]
              /\ timed  \subseteq Threads
              /\ pc     \in [Threads -> Steps]

inside == {t \in Threads : guards[t] > 0}

\* At most one thread of all processes is inside a Skill transaction, however
\* deeply it re-entered and in whatever order its guards went (the doc comment
\* of LockSlot's Held and of UpdateTransactionGuard).
MutualExclusion == \A s, t \in inside : s = t

\* While a caller holds any guard, its thread still owns both the process
\* mutex and the file lock: no drop of another guard let them go.
GuardOwnsBoth == \A t \in inside : /\ file = t
                                   /\ mutex[ProcOf[t]] = t

\* A thread outside acquire that holds no guard owns nothing: no failed call
\* and no order of drops leaks the mutex or the file lock.
NothingLeaks == \A t \in Threads :
    pc[t] = "idle" /\ guards[t] = 0 => /\ file # t
                                       /\ mutex[ProcOf[t]] # t

\* The lock implements exclusive access: guards are handed out one thread at
\* a time, and a crash looks like leaving.
Exclusive == INSTANCE ExclusiveAccess WITH Threads <- Threads, inside <- inside
Implements == Exclusive!Spec

\* A call with a budget returns: try_acquire_update_transaction_lock never
\* waits for good, though a holder may keep the lock.
BudgetedCallsReturn ==
    \A t \in Threads : (t \in timed /\ pc[t] \in {"mutex", "file"}) ~> pc[t] = "idle"

Waiting == \E t \in Threads : pc[t] \in {"mutex", "file"}

\* A blocked caller is never stuck behind a lock nobody uses: if there are
\* waiters for good, threads keep getting in, or calls keep failing, or
\* processes keep dying.
NoLostWakeup ==
    <>[]Waiting => \/ []<>(inside # {})
                   \/ []<><<\E t \in Threads : FileFails(t)>>_lockVars
                   \/ []<><<\E p \in Procs : ProcessDies(p)>>_lockVars
=============================================================================
