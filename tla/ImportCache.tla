------------------------------ MODULE ImportCache ------------------------------
(***************************************************************************)
(* The cache of Git objects that scans, installs and updates of a          *)
(* repository share (fetch/cache.rs, fetch.rs).  Every repository and ref  *)
(* has a folder with a partial clone, a metadata file that names the       *)
(* commit to use, and a file lock elsewhere; folders do not affect each    *)
(* other, so the module follows one.  A task holds the file lock from the  *)
(* fetch until it has read the checkout; installing takes the Skill        *)
(* transaction while the lock is held.  Clearing the caches only tries the *)
(* lock, in one caller with the transaction already held; Doctor's         *)
(* reinstall waits for it with the transaction already held.               *)
(*                                                                         *)
(* The tasks are threads of one or several processes: each opens the lock  *)
(* file anew, so threads exclude each other as processes do.  A git child  *)
(* runs in a process group of its own and outlives a program that dies.    *)
(***************************************************************************)
EXTENDS Naturals

CONSTANTS Threads,
          MaxCommits,   \* bound on the commits upstream
          MaxTasks,     \* bound on the tasks of all threads together
          MaxFaults     \* bound on killed git children, crashes, failed removals

ASSUME ThreadsAssumption == "nobody" \notin Threads
ASSUME BoundsAssumption  == MaxCommits \in Nat \ {0} /\ MaxTasks \in Nat /\ MaxFaults \in Nat

VARIABLES head,      \* the newest commit upstream
          cache,     \* the cache folder
          holder,    \* who has the folder's file lock
          txn,       \* who has the Skill transaction
          tasks,     \* the task of each thread
          orphan,    \* the commit a dead program's git is checking out, 0 if none
          previews,  \* the commits that scans have shown the user
          started, faults,
          copies     \* history: the commits copied by installs, with those meant

vars == <<head, cache, holder, txn, tasks, orphan, previews, started, faults, copies>>

Commits == 1 .. MaxCommits
Maybe   == 0 .. MaxCommits   \* 0: no commit

(* meta: the revision in the metadata file, 0 without one; objects: the     *)
(* commits in the object store; tree: the commit in HEAD and the work tree, *)
(* 0 while that is incomplete; locks: git's own lock files.                 *)
Folder(there, meta, objects, tree, locks) ==
   [there |-> there, meta |-> meta, objects |-> objects, tree |-> tree, locks |-> locks]

Absent == Folder(FALSE, 0, {}, 0, {})

(* expected: the previewed commit an install asks for, 0 if none; commit:   *)
(* metadata.revision, then the revision of the Checkout; passes: how many   *)
(* times the folders wanted are still to be checked out.                    *)
Task(at, kind, hit, expected, commit, passes) ==
   [at |-> at, kind |-> kind, hit |-> hit, expected |-> expected,
    commit |-> commit, passes |-> passes]

Idle == Task("idle", "scan", FALSE, 0, 0, 0)

Fetches   == {"scan", "refresh", "install", "preview", "update", "reinstall"}
Installs  == {"install", "preview", "update", "reinstall"}
Refreshes == {"refresh", "update"}
Clears    == {"clear", "purge"}

Init == /\ head = 1 /\ cache = Absent
        /\ holder = "nobody" /\ txn = "nobody"
        /\ tasks = [t \in Threads |-> Idle]
        /\ orphan = 0 /\ previews = {}
        /\ started = 0 /\ faults = 0 /\ copies = {}

At(t, place) == tasks[t].at = place
TaskIs(t, task) == tasks' = [tasks EXCEPT ![t] = task]

Goes(t, place) == TaskIs(t, Task(place, tasks[t].kind, tasks[t].hit, tasks[t].expected,
                                 tasks[t].commit, tasks[t].passes))

Finds(t, place, hit, commit) ==
   TaskIs(t, Task(place, tasks[t].kind, hit, tasks[t].expected, commit, tasks[t].passes))

Release(t) == holder' = IF holder = t THEN "nobody" ELSE holder

Leaves(t) == /\ Release(t)
             /\ txn' = IF txn = t THEN "nobody" ELSE txn
             /\ TaskIs(t, Idle)
-----------------------------------------------------------------------------
(* Fetching a checkout.                                                    *)

(* A batch checks the folders out twice, first the manifests and then what *)
(* it installs; linked payloads need a whole checkout on top of the first. *)
Passes(kind) == IF kind \in {"scan", "refresh"} THEN {1}
                ELSE IF kind = "install" THEN {2} ELSE {1, 2}

Begin(t) ==
   /\ At(t, "idle") /\ started < MaxTasks
   /\ \/ \E kind \in Fetches \ {"preview", "reinstall"} : \E n \in Passes(kind) :
            TaskIs(t, Task("waiting", kind, FALSE, 0, 0, n))
      \/ \E c \in previews : \E n \in Passes("preview") :
            TaskIs(t, Task("waiting", "preview", FALSE, c, 0, n))
   /\ started' = started + 1
   /\ UNCHANGED <<head, cache, holder, txn, orphan, previews, faults, copies>>

(* A repair plan is applied with the Skill transaction held throughout, the *)
(* fetch of a reinstall included.                                           *)
BeginReinstall(t) ==
   /\ At(t, "idle") /\ started < MaxTasks
   /\ txn = "nobody" /\ txn' = t
   /\ \E n \in Passes("reinstall") : TaskIs(t, Task("waiting", "reinstall", FALSE, 0, 0, n))
   /\ started' = started + 1
   /\ UNCHANGED <<head, cache, holder, orphan, previews, faults, copies>>

Quiet == UNCHANGED <<head, txn, orphan, previews, started, faults, copies>>

Acquire(t) ==
   /\ At(t, "waiting") /\ holder = "nobody"
   /\ holder' = t /\ Goes(t, "held")
   /\ UNCHANGED cache /\ Quiet

Open(t) ==
   /\ At(t, "held")
   /\ \/ /\ cache.meta # 0
         /\ Finds(t, IF tasks[t].kind \in Refreshes THEN "fetching" ELSE "ready",
                  TRUE, cache.meta)
      \/ /\ cache.meta = 0 /\ tasks[t].expected = 0
         /\ Goes(t, "cloning")
   /\ UNCHANGED <<cache, holder>> /\ Quiet

(* The clone goes to a folder of its own, which nobody else sees. *)
Clone(t) ==
   /\ At(t, "cloning")
   /\ Finds(t, "cloned", FALSE, head)
   /\ UNCHANGED <<cache, holder>> /\ Quiet

Publish(t) ==
   /\ At(t, "cloned") /\ ~cache.there
   /\ cache' = Folder(TRUE, tasks[t].commit, {tasks[t].commit}, 0, {})
   /\ Goes(t, "ready")
   /\ UNCHANGED holder /\ Quiet

Fetch(t) ==
   /\ At(t, "fetching") /\ "shallow" \notin cache.locks
   /\ cache' = Folder(TRUE, cache.meta, cache.objects \cup {head}, cache.tree, cache.locks)
   /\ Finds(t, "ready", TRUE, head)
   /\ UNCHANGED holder /\ Quiet

(* The commit is looked for before git starts to check it out. *)
Wanted(t) == IF tasks[t].expected # 0 THEN tasks[t].expected ELSE tasks[t].commit

StartCheckout(t) ==
   /\ At(t, "ready") /\ Wanted(t) \in cache.objects /\ "index" \notin cache.locks
   /\ cache' = Folder(TRUE, cache.meta, cache.objects, 0, cache.locks \cup {"index"})
   /\ Goes(t, "applying")
   /\ UNCHANGED holder /\ Quiet

(* Mutant: metadata.revision is checked out, not the revision asked for. *)
EndCheckoutNewest(t) ==
   /\ At(t, "applying") /\ tasks[t].commit \in cache.objects
   /\ cache' = Folder(TRUE, cache.meta, cache.objects, tasks[t].commit, cache.locks \ {"index"})
   /\ Goes(t, "saving")
   /\ UNCHANGED holder /\ Quiet

EndCheckout(t) ==
   /\ At(t, "applying") /\ Wanted(t) \in cache.objects
   /\ cache' = Folder(TRUE, cache.meta, cache.objects, Wanted(t), cache.locks \ {"index"})
   /\ Goes(t, "saving")
   /\ UNCHANGED holder /\ Quiet

Save(t) ==
   /\ At(t, "saving")
   /\ cache' = IF tasks[t].hit /\ tasks[t].kind \in Refreshes
                  THEN Folder(TRUE, tasks[t].commit, cache.objects, cache.tree, cache.locks)
                  ELSE cache
   /\ Finds(t, "out", tasks[t].hit, Wanted(t))
   /\ UNCHANGED holder /\ Quiet

(* materialize, complete_linked_payloads: HEAD again, with other folders. *)
Widen(t) ==
   /\ At(t, "out") /\ tasks[t].passes > 1
   /\ TaskIs(t, Task("ready", tasks[t].kind, FALSE, tasks[t].expected,
                     tasks[t].commit, tasks[t].passes - 1))
   /\ UNCHANGED <<cache, holder>> /\ Quiet

(* A git command or a file operation fails, or the task is cancelled.  A    *)
(* killed git may leave the lock file it had.                               *)
Fails(t) ==
   /\ tasks[t].at \in {"waiting", "held", "cloning", "cloned", "fetching", "ready",
                       "applying", "saving", "out", "copying"}
   /\ \/ /\ cache' = IF At(t, "applying")
                       THEN Folder(TRUE, cache.meta, cache.objects, 0, cache.locks \ {"index"})
                       ELSE cache
         /\ UNCHANGED faults
      \/ /\ faults < MaxFaults /\ faults' = faults + 1
         /\ \/ At(t, "applying") /\ UNCHANGED cache
            \/ /\ At(t, "fetching")
               /\ cache' = Folder(TRUE, cache.meta, cache.objects, cache.tree,
                                  cache.locks \cup {"shallow"})
   /\ Leaves(t)
   /\ UNCHANGED <<head, orphan, previews, started, copies>>
-----------------------------------------------------------------------------
(* Using the checkout.                                                     *)

Scanned(t) ==
   /\ At(t, "out") /\ tasks[t].kind \in {"scan", "refresh"}
   /\ previews' = previews \cup {tasks[t].commit}
   /\ Leaves(t)
   /\ UNCHANGED <<head, cache, orphan, started, faults, copies>>

ReadyToCopy(t) == At(t, "out") /\ tasks[t].passes = 1 /\ tasks[t].kind \in Installs

(* The transaction is reentrant: a reinstall has it already. *)
TakeTransaction(t) ==
   /\ ReadyToCopy(t)
   /\ txn \in {"nobody", t} /\ txn' = t
   /\ Goes(t, "copying")
   /\ UNCHANGED <<head, cache, holder, orphan, previews, started, faults, copies>>

Copy(t) ==
   /\ At(t, "copying")
   /\ copies' = copies \cup {[kind |-> tasks[t].kind, meant |-> tasks[t].expected,
                              got |-> cache.tree]}
   /\ Leaves(t)
   /\ UNCHANGED <<head, cache, orphan, previews, started, faults>>
-----------------------------------------------------------------------------
(* Clearing the caches: alone, or with the transaction held.               *)

BeginClear(t) ==
   /\ At(t, "idle") /\ started < MaxTasks /\ started' = started + 1
   /\ \/ TaskIs(t, Task("trying", "clear", FALSE, 0, 0, 0)) /\ UNCHANGED txn
      \/ /\ txn = "nobody" /\ txn' = t
         /\ TaskIs(t, Task("trying", "purge", FALSE, 0, 0, 0))
   /\ UNCHANGED <<head, cache, holder, orphan, previews, faults, copies>>

(* Mutant: the folder is removed without its lock. *)
TryAnyway(t) ==
   /\ At(t, "trying") /\ cache.there
   /\ Goes(t, "removing")
   /\ UNCHANGED <<cache, holder>> /\ Quiet

(* Mutant: force_delete_repo_caches waits for the lock as fetches do. *)
TryWaits(t) ==
   /\ At(t, "trying") /\ cache.there
   /\ IF holder = "nobody" THEN holder' = t /\ Goes(t, "removing")
                           ELSE Goes(t, "waiting") /\ UNCHANGED holder
   /\ UNCHANGED cache /\ Quiet

Try(t) ==
   /\ At(t, "trying") /\ cache.there /\ holder = "nobody"
   /\ holder' = t /\ Goes(t, "removing")
   /\ UNCHANGED cache /\ Quiet

Skip(t) ==
   /\ At(t, "trying") /\ (~cache.there \/ holder # "nobody")
   /\ Leaves(t)
   /\ UNCHANGED <<head, cache, orphan, previews, started, faults, copies>>

Remove(t) ==
   /\ At(t, "removing")
   /\ cache' = Absent /\ orphan' = 0
   /\ Leaves(t)
   /\ UNCHANGED <<head, previews, started, faults, copies>>

(* What may be left of the folder when its removal stops halfway; a git     *)
(* that is still at work there finds its files gone and gives up.           *)
Remains ==
   \E meta \in {0, cache.meta}, objects \in SUBSET cache.objects,
      locks \in {{}, cache.locks} :
         cache' = Folder(TRUE, meta, objects, 0, locks)

RemovalStops(t) ==
   /\ At(t, "removing") /\ faults < MaxFaults /\ faults' = faults + 1
   /\ Remains /\ orphan' = 0
   /\ Leaves(t)
   /\ UNCHANGED <<head, previews, started, copies>>
-----------------------------------------------------------------------------
(* The program dies: its locks are released.  A git child in the middle of *)
(* a checkout goes on, or dies as well and may leave its lock file.        *)
Crash(t) ==
   /\ ~At(t, "idle") /\ faults < MaxFaults /\ faults' = faults + 1
   /\ \/ At(t, "applying") /\ orphan' = Wanted(t) /\ UNCHANGED cache
      \/ At(t, "removing") /\ Remains /\ orphan' = 0
      \/ /\ At(t, "fetching") /\ UNCHANGED orphan
         /\ cache' = Folder(TRUE, cache.meta, cache.objects, cache.tree,
                            cache.locks \cup {"shallow"})
      \/ UNCHANGED <<cache, orphan>>
   /\ Leaves(t)
   /\ UNCHANGED <<head, previews, started, copies>>

OrphanEnds ==
   /\ orphan # 0 /\ orphan' = 0
   /\ cache' = Folder(cache.there, cache.meta, cache.objects, orphan,
                      cache.locks \ {"index"})
   /\ UNCHANGED <<head, holder, txn, tasks, previews, started, faults, copies>>

(* git drops commits that are out of use when it tidies up. *)
Prune ==
   /\ cache.objects \ {cache.tree} # {}
   /\ cache' = Folder(cache.there, cache.meta, cache.objects \cap {cache.tree},
                      cache.tree, cache.locks)
   /\ UNCHANGED <<head, holder, txn, tasks, orphan, previews, started, faults, copies>>

Push ==
   /\ head < MaxCommits /\ head' = head + 1
   /\ UNCHANGED <<cache, holder, txn, tasks, orphan, previews, started, faults, copies>>

Step(t) == \/ Begin(t) \/ BeginReinstall(t)
           \/ Acquire(t) \/ Open(t) \/ Clone(t) \/ Publish(t) \/ Fetch(t)
           \/ StartCheckout(t) \/ EndCheckout(t) \/ Save(t) \/ Widen(t) \/ Fails(t)
           \/ Scanned(t) \/ TakeTransaction(t) \/ Copy(t)
           \/ BeginClear(t) \/ Try(t) \/ Skip(t) \/ Remove(t) \/ RemovalStops(t)
           \/ Crash(t)

Next == (\E t \in Threads : Step(t)) \/ OrphanEnds \/ Prune \/ Push

Spec == Init /\ [][Next]_vars
-----------------------------------------------------------------------------
(* Types: what each variable may hold; a folder that is not there is       *)
(* empty, and the previews were commits of the repository.                 *)
Places == {"idle", "waiting", "held", "cloning", "cloned", "fetching", "ready",
           "applying", "saving", "out", "copying", "trying", "removing"}

TypeOK ==
   /\ head \in Commits
   /\ cache \in [there : BOOLEAN, meta : Maybe, objects : SUBSET Commits,
                 tree : Maybe, locks : SUBSET {"index", "shallow"}]
   /\ ~cache.there => cache = Absent
   /\ holder \in Threads \cup {"nobody"} /\ txn \in Threads \cup {"nobody"}
   /\ tasks \in [Threads -> [at : Places, kind : Fetches \cup Clears, hit : BOOLEAN,
                             expected : Maybe, commit : Maybe, passes : 0 .. 2]]
   /\ orphan \in Maybe /\ previews \subseteq Commits
   /\ started \in 0 .. MaxTasks /\ faults \in 0 .. MaxFaults
   /\ copies \subseteq [kind : Installs, meant : Maybe, got : Maybe]

(* "The file lock covers checkout and its consumer" (cache.rs:1): from the *)
(* end of the fetch until the task has read it, the checkout is there and  *)
(* stays at the task's commit, whatever is fetched, previewed or cleared   *)
(* meanwhile and whatever a dead program's git is still doing.             *)
CheckoutStands ==
   \A t \in Threads : tasks[t].at \in {"out", "copying"} => cache.tree = tasks[t].commit

(* Installing a preview installs the commit that was shown, or nothing: not *)
(* the newest one when the cache was refreshed, cleared or pruned between   *)
(* (docs/features/skills/README.md:102).                                    *)
PreviewHolds ==
   \A copy \in copies : copy.kind = "preview" => copy.got = copy.meant

(* t cannot go on before u gives back the cache lock or the transaction. *)
WaitsFor(t, u) == \/ At(t, "waiting") /\ holder = u
                  \/ ReadyToCopy(t) /\ txn = u

(* Installs wait for the transaction with a cache lock held, for as long as *)
(* it takes (installer.rs:95); clearing the caches from inside the          *)
(* transaction must not wait for cache locks (storage_maintenance.rs:270).  *)
(* Two tasks wait for each other only if one of them is Doctor's reinstall, *)
(* which does wait (health/apply.rs:89, fetch/cache.rs:57-67).              *)
NoLockCycle ==
   \A t, u \in Threads :
      t # u /\ WaitsFor(t, u) /\ WaitsFor(u, t)
      => "reinstall" \in {tasks[t].kind, tasks[u].kind}
=============================================================================
