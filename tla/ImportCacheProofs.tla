--------------------------- MODULE ImportCacheProofs ---------------------------
(***************************************************************************)
(* Proofs about ImportCache, for any number of threads and commits, and     *)
(* any number of crashes: whoever has a checkout in hand has the commit it *)
(* asked for, a preview installs what was shown, and tasks wait for each   *)
(* other only where Doctor's reinstall is one of them.                     *)
(***************************************************************************)
EXTENDS ImportCache, TLAPS

USE ThreadsAssumption, BoundsAssumption

Folders == [there : BOOLEAN, meta : Maybe, objects : SUBSET Commits,
            tree : Maybe, locks : SUBSET {"index", "shallow"}]

Jobs == [at : Places, kind : Fetches \cup Clears, hit : BOOLEAN,
         expected : Maybe, commit : Maybe, passes : 0 .. 2]

\* Where a task has the file lock, where it relies on the tree, and where it
\* may have the transaction.
Holding  == Places \ {"idle", "waiting", "trying"}
Reading  == {"out", "copying"}
Updating == {"copying", "trying", "removing"}

\* A task reads under the lock, and installs under the transaction.
Locked(t) ==
   /\ tasks[t].at \in Holding => holder = t
   /\ txn = t => \/ tasks[t].at \in Updating
                 \/ tasks[t].kind = "reinstall" /\ ~At(t, "idle")

\* git's own lock file covers the checkout: it is there while the task's git
\* works, so no dead program's git is at it, and gone when the tree stands.
Stands(t) ==
   /\ At(t, "applying") => "index" \in cache.locks /\ orphan = 0
   /\ At(t, "saving")   => "index" \notin cache.locks /\ cache.tree = Wanted(t)
   /\ tasks[t].at \in Reading => "index" \notin cache.locks /\ cache.tree = tasks[t].commit

\* What a task is after: a preview's task asks for the commit it was shown.
Meant(t) ==
   /\ At(t, "cloned") \/ tasks[t].at \in Reading => tasks[t].commit # 0
   /\ At(t, "saving") => Wanted(t) # 0
   /\ At(t, "copying") => tasks[t].kind \in Installs
   /\ tasks[t].kind = "preview" => /\ tasks[t].expected # 0
                                   /\ tasks[t].at \in Reading
                                      => tasks[t].commit = tasks[t].expected

Own(t) == Locked(t) /\ Stands(t) /\ Meant(t)

OrphanLocks == orphan # 0 => "index" \in cache.locks

IInv == TypeOK /\ (\A t \in Threads : Own(t)) /\ OrphanLocks /\ PreviewHolds
-----------------------------------------------------------------------------
\* A step of t that leaves the others' locks alone, and tree and git's lock
\* file too unless t has the file lock.
Undisturbed(t) ==
   /\ \A u \in Threads \ {t} : (holder = u => holder' = u) /\ (txn' = u => txn = u)
   /\ holder = t \/ /\ cache'.tree = cache.tree /\ cache'.locks = cache.locks
                    /\ orphan' = orphan

LEMMA OthersKeep ==
  ASSUME IInv, NEW t \in Threads, NEW task, TaskIs(t, task), Undisturbed(t),
         NEW u \in Threads, u # t
  PROVE  Own(u)'
  <1>1. tasks'[u] = tasks[u]
    BY DEF TaskIs, IInv, TypeOK
  <1>2. Own(u)
    BY DEF IInv
  <1>3. Locked(u)'
    BY <1>1, <1>2 DEF Own, Locked, At, Undisturbed
  <1>4. Stands(u)'
    <2>1. CASE holder = t
      BY <1>1, <1>2, <2>1 DEF Own, Locked, Stands, At, Holding, Places, Reading
    <2>2. CASE holder # t
      BY <1>1, <1>2, <2>2 DEF Own, Stands, At, Wanted, Undisturbed
    <2> QED
      BY <2>1, <2>2
  <1>5. Meant(u)'
    BY <1>1, <1>2 DEF Own, Meant, At, Wanted
  <1> QED
    BY <1>3, <1>4, <1>5 DEF Own

\* A step of t keeps the invariant if it types what it changes, keeps t's own
\* part and disturbs nobody.
LEMMA StepKeeps ==
  ASSUME IInv, NEW t \in Threads, NEW task \in Jobs, TaskIs(t, task), Undisturbed(t),
         cache' \in Folders, ~cache'.there => cache' = Absent,
         holder' \in Threads \cup {"nobody"}, txn' \in Threads \cup {"nobody"},
         orphan' \in Maybe, OrphanLocks', UNCHANGED head,
         previews' \subseteq Commits, started' \in 0 .. MaxTasks,
         faults' \in 0 .. MaxFaults,
         copies' \subseteq [kind : Installs, meant : Maybe, got : Maybe], PreviewHolds',
         tasks'[t] = task => Own(t)'
  PROVE  IInv'
  <1>1. tasks' \in [Threads -> Jobs] /\ tasks'[t] = task
    BY DEF IInv, TypeOK, TaskIs, Jobs
  <1>2. TypeOK'
    BY <1>1 DEF IInv, TypeOK, Folders, Jobs
  <1>3. \A u \in Threads : Own(u)'
    BY <1>1, OthersKeep
  <1> QED
    BY <1>2, <1>3 DEF IInv

\* The same for a step that changes only task, folder and file lock.
LEMMA QuietKeeps ==
  ASSUME IInv, NEW t \in Threads, NEW task \in Jobs, TaskIs(t, task), Quiet,
         cache' \in Folders, ~cache'.there => cache' = Absent, OrphanLocks',
         holder = t \/ UNCHANGED cache,
         holder' = holder \/ (holder = "nobody" /\ holder' = t),
         tasks'[t] = task => Own(t)'
  PROVE  IInv'
  <1>1. Undisturbed(t)
    BY DEF Undisturbed, Quiet
  <1>2. /\ previews' \subseteq Commits /\ started' \in 0 .. MaxTasks
        /\ faults' \in 0 .. MaxFaults /\ orphan' \in Maybe /\ UNCHANGED head
        /\ copies' \subseteq [kind : Installs, meant : Maybe, got : Maybe]
        /\ txn' \in Threads \cup {"nobody"} /\ holder' \in Threads \cup {"nobody"}
    BY DEF Quiet, IInv, TypeOK
  <1>3. PreviewHolds'
    BY DEF Quiet, IInv, PreviewHolds
  <1> QED
    BY <1>1, <1>2, <1>3, StepKeeps

\* What a task and the folder consist of.
LEMMA Fields ==
  ASSUME IInv, NEW t \in Threads
  PROVE  /\ tasks[t].at \in Places /\ tasks[t].kind \in Fetches \cup Clears
         /\ tasks[t].hit \in BOOLEAN /\ tasks[t].expected \in Maybe
         /\ tasks[t].commit \in Maybe /\ tasks[t].passes \in 0 .. 2
         /\ Wanted(t) \in Maybe /\ Own(t)
         /\ cache \in Folders /\ cache.meta \in Maybe /\ cache.objects \subseteq Commits
         /\ cache.tree \in Maybe /\ cache.locks \subseteq {"index", "shallow"}
         /\ ~cache.there => cache = Absent
  BY DEF IInv, TypeOK, Folders, Wanted

LEMMA AbsentShape == Absent \in Folders /\ Absent.locks = {} /\ Absent.tree = 0
  BY DEF Absent, Folder, Folders, Maybe

\* The idle task owes nothing.
LEMMA IdleOwes ==
  ASSUME NEW t \in Threads, tasks'[t] = Idle, txn' # t
  PROVE  Own(t)' /\ Idle \in Jobs
  BY DEF Idle, Task, Jobs, Places, Fetches, Maybe, Own, Locked, Stands, Meant, At, Holding,
         Reading

\* A task that leaves, after what it did under its lock.
LEMMA LeaveKeeps ==
  ASSUME IInv, NEW t \in Threads, Leaves(t),
         holder = t \/ UNCHANGED <<cache, orphan>>,
         cache' \in Folders, ~cache'.there => cache' = Absent, orphan' \in Maybe,
         OrphanLocks', UNCHANGED <<head, started>>, previews' \subseteq Commits,
         faults' \in 0 .. MaxFaults,
         copies' \subseteq [kind : Installs, meant : Maybe, got : Maybe], PreviewHolds'
  PROVE  IInv'
  <1>1. TaskIs(t, Idle) /\ holder' # t /\ txn' # t
    BY DEF Leaves, Release
  <1>2. Undisturbed(t)
    BY DEF Undisturbed, Leaves, Release
  <1>3. /\ holder' \in Threads \cup {"nobody"} /\ txn' \in Threads \cup {"nobody"}
        /\ started' \in 0 .. MaxTasks
    BY DEF Leaves, Release, IInv, TypeOK
  <1>4. tasks'[t] = Idle
    BY <1>1 DEF TaskIs, IInv, TypeOK
  <1> QED
    BY <1>1, <1>2, <1>3, <1>4, IdleOwes, StepKeeps
-----------------------------------------------------------------------------
LEMMA BeginKeeps == ASSUME IInv, NEW t \in Threads, Begin(t) PROVE IInv'
  <1>1. PICK kind \in Fetches, c \in Maybe, n \in 0 .. 2 :
           TaskIs(t, Task("waiting", kind, FALSE, c, 0, n)) /\ (kind = "preview" => c # 0)
    <2>1. \A kind \in Fetches : Passes(kind) \subseteq 0 .. 2
      BY DEF Passes
    <2>2. 0 \in Maybe /\ previews \subseteq Maybe \ {0} /\ "preview" \in Fetches
      BY DEF IInv, TypeOK, Maybe, Commits, Fetches
    <2>3. CASE \E kind \in Fetches \ {"preview"} : \E n \in Passes(kind) :
                  TaskIs(t, Task("waiting", kind, FALSE, 0, 0, n))
      <3>1. PICK kind \in Fetches \ {"preview"} : \E n \in Passes(kind) :
                  TaskIs(t, Task("waiting", kind, FALSE, 0, 0, n))
        BY <2>3
      <3> QED
        BY <2>1, <2>2, <3>1
    <2>4. CASE \E c \in previews : \E n \in Passes("preview") :
                  TaskIs(t, Task("waiting", "preview", FALSE, c, 0, n))
      <3>1. PICK c \in previews, n \in Passes("preview") :
                  TaskIs(t, Task("waiting", "preview", FALSE, c, 0, n))
        BY <2>4
      <3> QED
        BY <2>1, <2>2, <3>1
    <2> QED
      BY <2>3, <2>4 DEF Begin
  <1> DEFINE task == Task("waiting", kind, FALSE, c, 0, n)
  <1>2. task \in Jobs
    BY <1>1 DEF Task, Jobs, Places, Maybe
  <1>3. txn # t
    BY Fields DEF Begin, Own, Locked, At, Updating
  <1>4. tasks'[t] = task => Own(t)'
    BY <1>1, <1>3 DEF Begin, Task, Own, Locked, Stands, Meant, At, Holding, Places, Reading
  <1>5. TaskIs(t, task) /\ Undisturbed(t) /\ UNCHANGED <<cache, head>>
    BY <1>1 DEF Begin, Undisturbed
  <1>8. started' \in 0 .. MaxTasks
    BY DEF Begin, IInv, TypeOK
  <1>6. OrphanLocks' /\ PreviewHolds'
    BY DEF Begin, IInv, OrphanLocks, PreviewHolds
  <1>7. /\ holder' \in Threads \cup {"nobody"} /\ txn' \in Threads \cup {"nobody"}
        /\ orphan' \in Maybe /\ previews' \subseteq Commits /\ faults' \in 0 .. MaxFaults
        /\ copies' \subseteq [kind : Installs, meant : Maybe, got : Maybe]
    BY DEF Begin, IInv, TypeOK
  <1> HIDE DEF task
  <1> QED
    BY <1>2, <1>4, <1>5, <1>6, <1>7, <1>8, Fields, StepKeeps

LEMMA BeginReinstallKeeps == ASSUME IInv, NEW t \in Threads, BeginReinstall(t) PROVE IInv'
  <1>1. PICK n \in Passes("reinstall") :
           TaskIs(t, Task("waiting", "reinstall", FALSE, 0, 0, n))
    BY DEF BeginReinstall
  <1> DEFINE task == Task("waiting", "reinstall", FALSE, 0, 0, n)
  <1>2. task \in Jobs
    BY DEF Task, Jobs, Places, Fetches, Passes, Maybe
  <1>3. tasks'[t] = task => Own(t)'
    BY DEF Task, Own, Locked, Stands, Meant, At, Holding, Places, Reading
  <1>4. TaskIs(t, task) /\ Undisturbed(t)
        /\ UNCHANGED <<head, cache, holder, orphan, previews, faults, copies>>
    BY <1>1 DEF BeginReinstall, Undisturbed
  <1>5. OrphanLocks' /\ PreviewHolds'
    BY <1>4 DEF IInv, OrphanLocks, PreviewHolds
  <1>6. /\ txn' \in Threads \cup {"nobody"} /\ holder' \in Threads \cup {"nobody"}
        /\ started' \in 0 .. MaxTasks /\ orphan' \in Maybe
        /\ previews' \subseteq Commits /\ faults' \in 0 .. MaxFaults
        /\ copies' \subseteq [kind : Installs, meant : Maybe, got : Maybe]
    BY <1>4 DEF BeginReinstall, IInv, TypeOK
  <1> HIDE DEF task
  <1> QED
    BY <1>2, <1>3, <1>4, <1>5, <1>6, Fields, StepKeeps

LEMMA AcquireKeeps == ASSUME IInv, NEW t \in Threads, Acquire(t) PROVE IInv'
  <1> DEFINE task == Task("held", tasks[t].kind, tasks[t].hit, tasks[t].expected,
                          tasks[t].commit, tasks[t].passes)
  <1>1. task \in Jobs
    BY Fields DEF Task, Jobs, Places
  <1>2. tasks'[t] = task => Own(t)'
    BY Fields DEF Acquire, Quiet, Task, Own, Locked, Stands, Meant, At, Holding, Places,
                  Reading, Updating
  <1>3. Quiet /\ TaskIs(t, task) /\ UNCHANGED cache /\ OrphanLocks'
        /\ holder = "nobody" /\ holder' = t
    BY DEF Acquire, Goes, IInv, OrphanLocks, Quiet
  <1> HIDE DEF task
  <1> QED
    BY <1>1, <1>2, <1>3, Fields, QuietKeeps

LEMMA OpenKeeps == ASSUME IInv, NEW t \in Threads, Open(t) PROVE IInv'
  <1>1. PICK place \in {"fetching", "ready", "cloning"}, hit \in BOOLEAN, commit \in Maybe :
           TaskIs(t, Task(place, tasks[t].kind, hit, tasks[t].expected, commit,
                          tasks[t].passes))
    BY Fields DEF Open, Finds, Goes
  <1> DEFINE task == Task(place, tasks[t].kind, hit, tasks[t].expected, commit,
                          tasks[t].passes)
  <1>2. task \in Jobs
    BY Fields DEF Task, Jobs, Places
  <1>3. holder = t /\ Quiet /\ TaskIs(t, task) /\ UNCHANGED <<cache, holder>>
    BY <1>1, Fields DEF Open, Own, Locked, Holding, Places, At
  <1>4. tasks'[t] = task => Own(t)'
    BY <1>3, Fields DEF Open, Quiet, Task, Own, Locked, Stands, Meant, At, Reading, Updating
  <1>5. OrphanLocks'
    BY <1>3 DEF IInv, OrphanLocks, Quiet
  <1> HIDE DEF task
  <1> QED
    BY <1>2, <1>3, <1>4, <1>5, Fields, QuietKeeps

LEMMA CloneKeeps == ASSUME IInv, NEW t \in Threads, Clone(t) PROVE IInv'
  <1> DEFINE task == Task("cloned", tasks[t].kind, FALSE, tasks[t].expected, head,
                          tasks[t].passes)
  <1>1. task \in Jobs /\ head # 0
    BY Fields DEF Task, Jobs, Places, IInv, TypeOK, Commits, Maybe
  <1>2. holder = t /\ Quiet /\ TaskIs(t, task) /\ UNCHANGED <<cache, holder>>
    BY Fields DEF Clone, Finds, Own, Locked, Holding, Places, At
  <1>3. tasks'[t] = task => Own(t)'
    BY <1>1, <1>2, Fields DEF Clone, Quiet, Task, Own, Locked, Stands, Meant, At, Reading,
                              Updating
  <1>4. OrphanLocks'
    BY <1>2 DEF IInv, OrphanLocks, Quiet
  <1> HIDE DEF task
  <1> QED
    BY <1>1, <1>2, <1>3, <1>4, Fields, QuietKeeps

LEMMA PublishKeeps == ASSUME IInv, NEW t \in Threads, Publish(t) PROVE IInv'
  <1> DEFINE task == Task("ready", tasks[t].kind, tasks[t].hit, tasks[t].expected,
                          tasks[t].commit, tasks[t].passes)
  <1>1. task \in Jobs
    BY Fields DEF Task, Jobs, Places
  <1>2. holder = t /\ Quiet /\ TaskIs(t, task) /\ UNCHANGED holder
    BY Fields DEF Publish, Goes, Own, Locked, Holding, Places, At
  <1>3. tasks[t].commit \in Commits
    BY Fields DEF Publish, Own, Meant, Commits, Maybe
  <1>4. cache' \in Folders /\ cache'.there
    BY <1>3 DEF Publish, Folder, Folders, Commits, Maybe
  <1>5. OrphanLocks'
    BY <1>2, Fields, AbsentShape DEF Publish, IInv, OrphanLocks, Quiet
  <1>6. tasks'[t] = task => Own(t)'
    BY <1>2, Fields DEF Publish, Quiet, Task, Own, Locked, Stands, Meant, At, Reading, Updating
  <1> HIDE DEF task
  <1> QED
    BY <1>1, <1>2, <1>4, <1>5, <1>6, QuietKeeps

LEMMA FetchKeeps == ASSUME IInv, NEW t \in Threads, Fetch(t) PROVE IInv'
  <1> DEFINE task == Task("ready", tasks[t].kind, TRUE, tasks[t].expected, head,
                          tasks[t].passes)
  <1>1. task \in Jobs
    BY Fields DEF Task, Jobs, Places, IInv, TypeOK, Commits, Maybe
  <1>2. holder = t /\ Quiet /\ TaskIs(t, task) /\ UNCHANGED holder
    BY Fields DEF Fetch, Finds, Own, Locked, Holding, Places, At
  <1>3. cache' \in Folders /\ cache'.there /\ cache'.locks = cache.locks
    <2>1. head \in Commits
      BY DEF IInv, TypeOK
    <2> QED
      BY <2>1, Fields DEF Fetch, Folder, Folders
  <1>4. OrphanLocks'
    BY <1>2, <1>3 DEF IInv, OrphanLocks, Quiet
  <1>5. tasks'[t] = task => Own(t)'
    BY <1>2, Fields DEF Fetch, Quiet, Task, Own, Locked, Stands, Meant, At, Reading, Updating
  <1> HIDE DEF task
  <1> QED
    BY <1>1, <1>2, <1>3, <1>4, <1>5, QuietKeeps

\* The lock file is put where none was: no dead program's git is at work.
LEMMA StartCheckoutKeeps == ASSUME IInv, NEW t \in Threads, StartCheckout(t) PROVE IInv'
  <1> DEFINE task == Task("applying", tasks[t].kind, tasks[t].hit, tasks[t].expected,
                          tasks[t].commit, tasks[t].passes)
  <1>1. task \in Jobs
    BY Fields DEF Task, Jobs, Places
  <1>2. holder = t /\ Quiet /\ TaskIs(t, task) /\ UNCHANGED holder
    BY Fields DEF StartCheckout, Goes, Own, Locked, Holding, Places, At
  <1>3. cache' \in Folders /\ cache'.there /\ "index" \in cache'.locks
    BY Fields DEF StartCheckout, Folder, Folders, Maybe
  <1>4. orphan = 0 /\ orphan' = 0
    BY <1>2 DEF StartCheckout, IInv, OrphanLocks, Quiet
  <1>5. OrphanLocks'
    BY <1>4 DEF OrphanLocks
  <1>6. ASSUME tasks'[t] = task PROVE Own(t)'
    <2>1. tasks'[t].at = "applying" /\ tasks'[t].kind = tasks[t].kind
          /\ tasks'[t].expected = tasks[t].expected
      BY <1>6 DEF Task
    <2>2. Locked(t)'
      BY <1>2, <2>1, Fields DEF StartCheckout, Quiet, Own, Locked, At, Updating
    <2>3. Stands(t)'
      BY <1>3, <1>4, <2>1 DEF Stands, At, Reading
    <2>4. Meant(t)'
      BY <2>1, Fields DEF Own, Meant, At, Reading
    <2> QED
      BY <2>2, <2>3, <2>4 DEF Own
  <1> HIDE DEF task
  <1> QED
    BY <1>1, <1>2, <1>3, <1>5, <1>6, QuietKeeps

LEMMA EndCheckoutKeeps == ASSUME IInv, NEW t \in Threads, EndCheckout(t) PROVE IInv'
  <1> DEFINE task == Task("saving", tasks[t].kind, tasks[t].hit, tasks[t].expected,
                          tasks[t].commit, tasks[t].passes)
  <1>1. task \in Jobs
    BY Fields DEF Task, Jobs, Places
  <1>2. holder = t /\ Quiet /\ TaskIs(t, task) /\ UNCHANGED holder /\ orphan = 0
    BY Fields DEF EndCheckout, Goes, Own, Locked, Stands, Holding, Places, At
  <1>3. /\ cache' \in Folders /\ cache'.there /\ "index" \notin cache'.locks
        /\ cache'.tree = Wanted(t)
    BY Fields DEF EndCheckout, Folder, Folders
  <1>4. OrphanLocks'
    BY <1>2 DEF OrphanLocks, Quiet
  <1>5. Wanted(t) # 0
    BY Fields DEF EndCheckout, Commits
  <1>6. ASSUME tasks'[t] = task PROVE Own(t)'
    <2>1. /\ tasks'[t].at = "saving" /\ tasks'[t].kind = tasks[t].kind
          /\ tasks'[t].expected = tasks[t].expected /\ Wanted(t)' = Wanted(t)
      BY <1>6 DEF Task, Wanted
    <2>2. Locked(t)'
      BY <1>2, <2>1, Fields DEF EndCheckout, Quiet, Own, Locked, At, Updating
    <2>3. Stands(t)'
      BY <1>3, <2>1 DEF Stands, At, Reading
    <2>4. Meant(t)'
      BY <1>5, <2>1, Fields DEF Own, Meant, At, Reading
    <2> QED
      BY <2>2, <2>3, <2>4 DEF Own
  <1> HIDE DEF task
  <1> QED
    BY <1>1, <1>2, <1>3, <1>4, <1>6, QuietKeeps

LEMMA SaveKeeps == ASSUME IInv, NEW t \in Threads, Save(t) PROVE IInv'
  <1> DEFINE task == Task("out", tasks[t].kind, tasks[t].hit, tasks[t].expected,
                          Wanted(t), tasks[t].passes)
  <1>1. task \in Jobs
    BY Fields DEF Task, Jobs, Places
  <1>2. holder = t /\ Quiet /\ TaskIs(t, task) /\ UNCHANGED holder
    BY Fields DEF Save, Finds, Own, Locked, Holding, Places, At
  <1>3. /\ cache' \in Folders /\ (~cache'.there => cache' = Absent)
        /\ cache'.tree = cache.tree /\ cache'.locks = cache.locks
    BY Fields DEF Save, Folder, Folders
  <1>4. OrphanLocks'
    BY <1>2, <1>3 DEF IInv, OrphanLocks, Quiet
  <1>5. ASSUME tasks'[t] = task PROVE Own(t)'
    <2>1. /\ tasks'[t].at = "out" /\ tasks'[t].kind = tasks[t].kind
          /\ tasks'[t].expected = tasks[t].expected /\ tasks'[t].commit = Wanted(t)
      BY <1>5 DEF Task
    <2>2. Locked(t)'
      BY <1>2, <2>1, Fields DEF Save, Quiet, Own, Locked, At, Updating
    <2>3. Stands(t)'
      BY <1>3, <2>1, Fields DEF Save, Own, Stands, At, Reading
    <2>4. Meant(t)'
      BY <2>1, Fields DEF Save, Own, Meant, At, Reading, Wanted
    <2> QED
      BY <2>2, <2>3, <2>4 DEF Own
  <1> HIDE DEF task
  <1> QED
    BY <1>1, <1>2, <1>3, <1>4, <1>5, QuietKeeps

LEMMA WidenKeeps == ASSUME IInv, NEW t \in Threads, Widen(t) PROVE IInv'
  <1> DEFINE task == Task("ready", tasks[t].kind, FALSE, tasks[t].expected,
                          tasks[t].commit, tasks[t].passes - 1)
  <1>1. task \in Jobs
    BY Fields DEF Widen, Task, Jobs, Places
  <1>2. holder = t /\ Quiet /\ TaskIs(t, task) /\ UNCHANGED <<cache, holder>>
    BY Fields DEF Widen, Own, Locked, Holding, Places, At
  <1>3. OrphanLocks'
    BY <1>2 DEF IInv, OrphanLocks, Quiet
  <1>4. tasks'[t] = task => Own(t)'
    BY <1>2, Fields DEF Widen, Quiet, Task, Own, Locked, Stands, Meant, At, Reading, Updating
  <1> HIDE DEF task
  <1> QED
    BY <1>1, <1>2, <1>3, <1>4, Fields, QuietKeeps

LEMMA TakeTransactionKeeps == ASSUME IInv, NEW t \in Threads, TakeTransaction(t) PROVE IInv'
  <1> DEFINE task == Task("copying", tasks[t].kind, tasks[t].hit, tasks[t].expected,
                          tasks[t].commit, tasks[t].passes)
  <1>1. task \in Jobs
    BY Fields DEF Task, Jobs, Places
  <1>2. /\ holder = t /\ TaskIs(t, task) /\ Undisturbed(t) /\ txn' = t
        /\ UNCHANGED <<head, cache, holder, orphan, previews, started, faults, copies>>
    BY Fields DEF TakeTransaction, ReadyToCopy, Goes, Undisturbed, Own, Locked, Holding, Places, At
  <1>3. OrphanLocks' /\ PreviewHolds'
    BY <1>2 DEF IInv, OrphanLocks, PreviewHolds
  <1>4. ASSUME tasks'[t] = task PROVE Own(t)'
    <2>1. /\ tasks'[t].at = "copying" /\ tasks'[t].kind = tasks[t].kind
          /\ tasks'[t].expected = tasks[t].expected /\ tasks'[t].commit = tasks[t].commit
      BY <1>4 DEF Task
    <2>2. Locked(t)'
      BY <1>2, <2>1 DEF Locked, Updating
    <2>3. Stands(t)'
      BY <1>2, <2>1, Fields DEF TakeTransaction, ReadyToCopy, Own, Stands, At, Reading
    <2>4. Meant(t)'
      BY <2>1, Fields DEF TakeTransaction, ReadyToCopy, Own, Meant, At, Reading
    <2> QED
      BY <2>2, <2>3, <2>4 DEF Own
  <1>5. /\ holder' \in Threads \cup {"nobody"} /\ txn' \in Threads \cup {"nobody"}
        /\ orphan' \in Maybe /\ previews' \subseteq Commits /\ started' \in 0 .. MaxTasks
        /\ faults' \in 0 .. MaxFaults
        /\ copies' \subseteq [kind : Installs, meant : Maybe, got : Maybe]
    BY <1>2 DEF IInv, TypeOK
  <1> HIDE DEF task
  <1> QED
    BY <1>1, <1>2, <1>3, <1>4, <1>5, Fields, StepKeeps

\* What leaving tasks did not change.
LEMMA History ==
  ASSUME IInv
  PROVE  /\ previews \subseteq Commits /\ faults \in 0 .. MaxFaults /\ orphan \in Maybe
         /\ copies \subseteq [kind : Installs, meant : Maybe, got : Maybe]
         /\ faults < MaxFaults => faults + 1 \in 0 .. MaxFaults
  BY DEF IInv, TypeOK

LEMMA ScannedKeeps == ASSUME IInv, NEW t \in Threads, Scanned(t) PROVE IInv'
  <1>1. tasks[t].commit \in Commits
    BY Fields DEF Scanned, Own, Meant, At, Reading, Commits, Maybe
  <1>2. previews' \subseteq Commits
    BY <1>1, History DEF Scanned
  <1>3. OrphanLocks' /\ PreviewHolds'
    BY DEF Scanned, IInv, OrphanLocks, PreviewHolds
  <1> QED
    BY <1>2, <1>3, Fields, History, LeaveKeeps DEF Scanned

\* The copy is of the tree, the tree is at the task's commit, and that is the
\* one its preview showed.
LEMMA CopyKeeps == ASSUME IInv, NEW t \in Threads, Copy(t) PROVE IInv'
  <1> DEFINE copy == [kind |-> tasks[t].kind, meant |-> tasks[t].expected,
                      got |-> cache.tree]
  <1>1. /\ copies' = copies \cup {copy}
        /\ UNCHANGED <<head, cache, orphan, previews, started, faults>>
    BY DEF Copy
  <1>2. copy \in [kind : Installs, meant : Maybe, got : Maybe]
    BY Fields DEF Copy, Own, Meant, At
  <1>3. copy.kind = "preview" => copy.got = copy.meant
    BY Fields DEF Copy, Own, Stands, Meant, At, Reading
  <1> HIDE DEF copy
  <1>4. copies' \subseteq [kind : Installs, meant : Maybe, got : Maybe]
    BY <1>1, <1>2, History
  <1>5. PreviewHolds'
    BY <1>1, <1>3 DEF IInv, PreviewHolds
  <1>6. OrphanLocks'
    BY <1>1 DEF IInv, OrphanLocks
  <1> QED
    BY <1>1, <1>4, <1>5, <1>6, Fields, History, LeaveKeeps DEF Copy
-----------------------------------------------------------------------------
\* Whoever is past the waiting has the lock.
LEMMA HoldingLocked ==
  ASSUME IInv, NEW t \in Threads, tasks[t].at \in Holding
  PROVE  holder = t
  BY Fields DEF Own, Locked

\* A git that was killed while it fetched leaves its lock file.
LEMMA ShallowShape ==
  ASSUME IInv,
         cache' = Folder(TRUE, cache.meta, cache.objects, cache.tree,
                         cache.locks \cup {"shallow"})
  PROVE  cache' \in Folders /\ cache'.there /\ cache.locks \subseteq cache'.locks
  BY DEF IInv, TypeOK, Folder, Folders

LEMMA FailsKeeps == ASSUME IInv, NEW t \in Threads, Fails(t) PROVE IInv'
  <1>1. /\ Leaves(t) /\ UNCHANGED <<head, started, orphan, previews, copies>>
        /\ faults' \in 0 .. MaxFaults
    BY History DEF Fails
  <1>2. PreviewHolds'
    BY <1>1 DEF IInv, PreviewHolds
  <1>3. CASE At(t, "applying") /\ cache' = Folder(TRUE, cache.meta, cache.objects, 0,
                                                  cache.locks \ {"index"})
    <2>1. holder = t /\ orphan = 0
      BY <1>3, HoldingLocked, Fields DEF At, Holding, Places, Own, Stands
    <2>2. cache' \in Folders /\ cache'.there
      BY <1>3, Fields DEF Folder, Folders, Maybe
    <2>3. OrphanLocks'
      BY <1>1, <2>1 DEF OrphanLocks
    <2> QED
      BY <1>1, <1>2, <2>1, <2>2, <2>3, History, LeaveKeeps
  <1>4. CASE UNCHANGED cache
    <2>1. OrphanLocks'
      BY <1>1, <1>4 DEF IInv, OrphanLocks
    <2> QED
      BY <1>1, <1>2, <1>4, <2>1, Fields, History, LeaveKeeps
  <1>5. CASE /\ At(t, "fetching")
             /\ cache' = Folder(TRUE, cache.meta, cache.objects, cache.tree,
                                cache.locks \cup {"shallow"})
    <2>1. holder = t
      BY <1>5, HoldingLocked DEF At, Holding, Places
    <2>2. OrphanLocks'
      BY <1>1, <1>5, ShallowShape DEF IInv, OrphanLocks
    <2> QED
      BY <1>1, <1>2, <1>5, <2>1, <2>2, ShallowShape, History, LeaveKeeps
  <1> QED
    BY <1>3, <1>4, <1>5 DEF Fails

\* Whatever is left of the folder is a folder.
LEMMA RemainsShape ==
  ASSUME IInv, Remains
  PROVE  cache' \in Folders /\ cache'.there
  <1>1. PICK meta \in {0, cache.meta}, objects \in SUBSET cache.objects,
             locks \in {{}, cache.locks} : cache' = Folder(TRUE, meta, objects, 0, locks)
    BY DEF Remains
  <1>2. cache \in Folders /\ 0 \in Maybe
    BY DEF IInv, TypeOK, Folders, Maybe
  <1>3. /\ meta \in Maybe /\ objects \in SUBSET Commits
        /\ locks \in SUBSET {"index", "shallow"}
    BY <1>1, <1>2 DEF Folders
  <1> QED
    BY <1>1, <1>2, <1>3 DEF Folder, Folders

LEMMA RemoveKeeps == ASSUME IInv, NEW t \in Threads, Remove(t) PROVE IInv'
  <1>1. holder = t
    BY HoldingLocked DEF Remove, At, Holding, Places
  <1>2. cache' = Absent /\ orphan' = 0 /\ orphan' \in Maybe
    BY DEF Remove, Maybe
  <1>3. OrphanLocks' /\ PreviewHolds'
    BY <1>2 DEF Remove, IInv, OrphanLocks, PreviewHolds
  <1> QED
    BY <1>1, <1>2, <1>3, AbsentShape, History, LeaveKeeps DEF Remove

LEMMA RemovalStopsKeeps == ASSUME IInv, NEW t \in Threads, RemovalStops(t) PROVE IInv'
  <1>1. holder = t
    BY HoldingLocked DEF RemovalStops, At, Holding, Places
  <1>2. orphan' = 0 /\ orphan' \in Maybe /\ faults' \in 0 .. MaxFaults
    BY History DEF RemovalStops, Maybe
  <1>3. OrphanLocks' /\ PreviewHolds'
    BY <1>2 DEF RemovalStops, IInv, OrphanLocks, PreviewHolds
  <1> QED
    BY <1>1, <1>2, <1>3, RemainsShape, History, LeaveKeeps DEF RemovalStops

LEMMA CrashKeeps == ASSUME IInv, NEW t \in Threads, Crash(t) PROVE IInv'
  <1>1. /\ Leaves(t) /\ UNCHANGED <<head, started, previews, copies>>
        /\ faults' \in 0 .. MaxFaults
    BY History DEF Crash
  <1>2. PreviewHolds'
    BY <1>1 DEF IInv, PreviewHolds
  <1>3. CASE At(t, "applying") /\ orphan' = Wanted(t) /\ UNCHANGED cache
    <2>1. holder = t /\ "index" \in cache.locks
      BY <1>3, HoldingLocked, Fields DEF At, Holding, Places, Own, Stands
    <2>2. OrphanLocks' /\ orphan' \in Maybe
      BY <1>3, <2>1, Fields DEF OrphanLocks
    <2> QED
      BY <1>1, <1>2, <1>3, <2>1, <2>2, Fields, History, LeaveKeeps
  <1>4. CASE At(t, "removing") /\ Remains /\ orphan' = 0
    <2>1. holder = t
      BY <1>4, HoldingLocked DEF At, Holding, Places
    <2>2. OrphanLocks' /\ orphan' \in Maybe
      BY <1>4 DEF OrphanLocks, Maybe
    <2> QED
      BY <1>1, <1>2, <1>4, <2>1, <2>2, RemainsShape, History, LeaveKeeps
  <1>5. CASE /\ At(t, "fetching") /\ UNCHANGED orphan
             /\ cache' = Folder(TRUE, cache.meta, cache.objects, cache.tree,
                                cache.locks \cup {"shallow"})
    <2>1. holder = t
      BY <1>5, HoldingLocked DEF At, Holding, Places
    <2>2. OrphanLocks'
      BY <1>5, ShallowShape DEF IInv, OrphanLocks
    <2> QED
      BY <1>1, <1>2, <1>5, <2>1, <2>2, ShallowShape, History, LeaveKeeps
  <1>6. CASE UNCHANGED <<cache, orphan>>
    <2>1. OrphanLocks'
      BY <1>6 DEF IInv, OrphanLocks
    <2> QED
      BY <1>1, <1>2, <1>6, <2>1, Fields, History, LeaveKeeps
  <1> QED
    BY <1>3, <1>4, <1>5, <1>6 DEF Crash

LEMMA BeginClearKeeps == ASSUME IInv, NEW t \in Threads, BeginClear(t) PROVE IInv'
  <1>1. PICK kind \in Clears : /\ TaskIs(t, Task("trying", kind, FALSE, 0, 0, 0))
                               /\ txn' = txn \/ (txn = "nobody" /\ txn' = t)
    BY DEF BeginClear, Clears
  <1> DEFINE task == Task("trying", kind, FALSE, 0, 0, 0)
  <1>2. task \in Jobs
    BY DEF Task, Jobs, Places, Maybe, Clears
  <1>3. tasks'[t] = task => Own(t)'
    BY <1>1 DEF Task, Own, Locked, Stands, Meant, At, Holding, Places, Reading, Updating,
                Clears
  <1>4. Undisturbed(t) /\ TaskIs(t, task)
        /\ UNCHANGED <<head, cache, holder, orphan, previews, faults, copies>>
    BY <1>1 DEF BeginClear, Undisturbed
  <1>5. OrphanLocks' /\ PreviewHolds'
    BY <1>4 DEF IInv, OrphanLocks, PreviewHolds
  <1>6. /\ txn' \in Threads \cup {"nobody"} /\ holder' \in Threads \cup {"nobody"}
        /\ started' \in 0 .. MaxTasks
    BY <1>1 DEF BeginClear, IInv, TypeOK
  <1> HIDE DEF task
  <1> QED
    BY <1>2, <1>3, <1>4, <1>5, <1>6, Fields, History, StepKeeps

LEMMA TryKeeps == ASSUME IInv, NEW t \in Threads, Try(t) PROVE IInv'
  <1> DEFINE task == Task("removing", tasks[t].kind, tasks[t].hit, tasks[t].expected,
                          tasks[t].commit, tasks[t].passes)
  <1>1. task \in Jobs
    BY Fields DEF Task, Jobs, Places
  <1>2. tasks'[t] = task => Own(t)'
    BY Fields DEF Try, Quiet, Task, Own, Locked, Stands, Meant, At, Reading, Updating
  <1>3. Quiet /\ TaskIs(t, task) /\ UNCHANGED cache /\ OrphanLocks'
        /\ holder = "nobody" /\ holder' = t
    BY DEF Try, Goes, IInv, OrphanLocks, Quiet
  <1> HIDE DEF task
  <1> QED
    BY <1>1, <1>2, <1>3, Fields, QuietKeeps

LEMMA SkipKeeps == ASSUME IInv, NEW t \in Threads, Skip(t) PROVE IInv'
  <1>1. OrphanLocks' /\ PreviewHolds'
    BY DEF Skip, IInv, OrphanLocks, PreviewHolds
  <1> QED
    BY <1>1, Fields, History, LeaveKeeps DEF Skip
-----------------------------------------------------------------------------
\* A step outside the tasks that leaves the tree, or that no task relies on.
LEMMA AroundKeeps ==
  ASSUME IInv, UNCHANGED <<holder, txn, tasks, previews, started, faults, copies>>,
         head' \in Commits, cache' \in Folders, ~cache'.there => cache' = Absent,
         orphan' \in Maybe, OrphanLocks',
         \A t \in Threads : Stands(t)'
  PROVE  IInv'
  <1>1. TypeOK'
    BY DEF IInv, TypeOK, Folders
  <1>2. \A t \in Threads : Own(t)'
    BY DEF IInv, Own, Locked, Meant, At, Wanted
  <1>3. PreviewHolds'
    BY DEF IInv, PreviewHolds
  <1> QED
    BY <1>1, <1>2, <1>3 DEF IInv

\* While a dead program's git is at work, its lock file keeps every task from
\* checking anything out.
LEMMA OrphanEndsKeeps == ASSUME IInv, OrphanEnds PROVE IInv'
  <1>1. orphan # 0 /\ "index" \in cache.locks /\ orphan' = 0
    BY DEF OrphanEnds, IInv, OrphanLocks
  <1>2. cache.there
    BY <1>1, AbsentShape DEF IInv, TypeOK
  <1>3. cache' \in Folders /\ cache'.there
    BY <1>2 DEF OrphanEnds, Folder, Folders, IInv, TypeOK
  <1>4. \A t \in Threads : Stands(t)'
    BY <1>1 DEF OrphanEnds, IInv, Own, Stands, At
  <1>5. OrphanLocks' /\ orphan' \in Maybe /\ head' \in Commits
    BY <1>1 DEF OrphanLocks, Maybe, OrphanEnds, IInv, TypeOK
  <1> QED
    BY <1>3, <1>4, <1>5, AroundKeeps DEF OrphanEnds

LEMMA PruneKeeps == ASSUME IInv, Prune PROVE IInv'
  <1>1. cache.there
    BY DEF Prune, IInv, TypeOK, Absent, Folder
  <1>2. /\ cache' \in Folders /\ cache'.there
        /\ cache'.tree = cache.tree /\ cache'.locks = cache.locks
    BY <1>1 DEF Prune, Folder, Folders, IInv, TypeOK
  <1>3. \A t \in Threads : Stands(t)'
    BY <1>2 DEF Prune, IInv, Own, Stands, At, Wanted
  <1>4. OrphanLocks' /\ orphan' \in Maybe /\ head' \in Commits
    BY <1>2 DEF Prune, IInv, OrphanLocks, TypeOK
  <1> QED
    BY <1>2, <1>3, <1>4, AroundKeeps DEF Prune

LEMMA PushKeeps == ASSUME IInv, Push PROVE IInv'
  <1>1. head' \in Commits /\ orphan' \in Maybe /\ cache' \in Folders
        /\ (~cache'.there => cache' = Absent)
    BY DEF Push, IInv, TypeOK, Commits, Folders
  <1>2. \A t \in Threads : Stands(t)'
    BY DEF Push, IInv, Own, Stands, At, Wanted
  <1>3. OrphanLocks'
    BY DEF Push, IInv, OrphanLocks
  <1> QED
    BY <1>1, <1>2, <1>3, AroundKeeps DEF Push
-----------------------------------------------------------------------------
LEMMA InitHolds == ASSUME Init PROVE IInv
  <1>1. Absent \in Folders /\ Idle \in Jobs
    BY AbsentShape DEF Idle, Task, Jobs, Places, Fetches, Maybe
  <1>2. TypeOK
    BY <1>1 DEF Init, TypeOK, Folders, Jobs, Commits, Maybe
  <1>3. \A t \in Threads : Own(t)
    BY DEF Init, Idle, Task, Own, Locked, Stands, Meant, At, Holding, Reading
  <1> QED
    BY <1>2, <1>3 DEF Init, IInv, OrphanLocks, PreviewHolds

LEMMA NextKeeps == ASSUME IInv, [Next]_vars PROVE IInv'
  <1>1. ASSUME NEW t \in Threads, Step(t) PROVE IInv'
    BY <1>1, BeginKeeps, BeginReinstallKeeps, AcquireKeeps, OpenKeeps, CloneKeeps, PublishKeeps, FetchKeeps,
       StartCheckoutKeeps, EndCheckoutKeeps, SaveKeeps, WidenKeeps, FailsKeeps, ScannedKeeps,
       TakeTransactionKeeps, CopyKeeps, BeginClearKeeps, TryKeeps, SkipKeeps, RemoveKeeps,
       RemovalStopsKeeps, CrashKeeps DEF Step
  <1>2. CASE UNCHANGED vars
    BY <1>2 DEF vars, IInv, TypeOK, Own, Locked, Stands, Meant, At, Wanted, OrphanLocks,
                PreviewHolds
  <1> QED
    BY <1>1, <1>2, OrphanEndsKeeps, PruneKeeps, PushKeeps DEF Next

LEMMA InvariantHolds == Spec => []IInv
  BY InitHolds, NextKeeps, PTL DEF Spec
-----------------------------------------------------------------------------
\* Folder, locks and tasks keep their types.
THEOREM TypeCorrect == Spec => []TypeOK
  BY InvariantHolds, PTL DEF IInv

\* From the end of the fetch until it was read, a task's checkout is there and
\* stays, whatever other tasks, prunings and dead programs' children do.
THEOREM CheckoutStays == Spec => []CheckoutStands
  <1>1. IInv => CheckoutStands
    BY DEF IInv, Own, Stands, CheckoutStands, Reading
  <1> QED
    BY <1>1, InvariantHolds, PTL

\* An install from a preview copies the commit that was shown.
THEOREM PreviewIsInstalled == Spec => []PreviewHolds
  BY InvariantHolds, PTL DEF IInv

\* Who has the transaction waits for no cache lock, unless it is Doctor's
\* reinstall; so tasks wait for each other only where one of them is that.
THEOREM NoCycle == Spec => []NoLockCycle
  <1>1. ASSUME IInv PROVE NoLockCycle
    <2> SUFFICES ASSUME NEW t \in Threads, NEW u \in Threads, t # u,
                        WaitsFor(t, u), WaitsFor(u, t)
                 PROVE  "reinstall" \in {tasks[t].kind, tasks[u].kind}
      BY DEF NoLockCycle
    <2>1. ASSUME NEW v \in Threads, txn = v, At(v, "waiting") PROVE tasks[v].kind = "reinstall"
      BY <1>1, <2>1 DEF IInv, Own, Locked, At, Updating
    <2> QED
      BY <2>1 DEF WaitsFor
  <1> QED
    BY <1>1, InvariantHolds, PTL
=============================================================================
