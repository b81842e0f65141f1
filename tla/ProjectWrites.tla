---------------------------- MODULE ProjectWrites ----------------------------
(***************************************************************************)
(* The projects Skills are deployed to: the index of projects, each        *)
(* project's list of Skills, and the entries of its skills directory, as   *)
(* written by the page, the CLI, imports, installs, updates and            *)
(* uninstalls, in several threads and processes at once.                   *)
(* (ss-skills/src/projects/, ss-skills/src/skill_install.rs,               *)
(* ss-skills/src/deployment/ownership.rs)                                  *)
(*                                                                         *)
(* Two locks order these writers: the Skill transaction, which guards the  *)
(* canonical folders, and the project write lock.  The index is also       *)
(* written by registrations and removals that take neither.  The user      *)
(* edits the skills directory of a project at any time: an operation looks *)
(* at an entry (Look) and then does what that entry allowed, to whatever   *)
(* is there by then.  A project has one physical skills path, an import    *)
(* one target.                                                             *)
(***************************************************************************)
EXTENDS Naturals, Sequences

CONSTANTS Skills,
          Projects,
          Procs,         \* threads and processes that run operations
          Contents,      \* contents of a Skill folder
          UserContents,  \* contents the user gives to a folder of their own
          Absent,
          Nobody,        \* no operation, no lock owner
          Operations,    \* the operations of an instance
          MaxFaults      \* bound on crashes and failing calls

ASSUME ContentsAssumption   == /\ Absent \notin Contents
                               /\ UserContents \subseteq Contents
ASSUME ProcsAssumption      == Nobody \notin Procs
ASSUME OperationsAssumption == Operations \subseteq
    {"save", "add", "import", "rebuild", "register", "remove",
     "install", "update", "uninstall"}
ASSUME FaultsAssumption     == MaxFaults \in Nat

VARIABLES hub,     \* content of each canonical folder
          index,   \* projects.json: the registered projects
          lists,   \* skills-list.json of each project: names and deploy mode
          tree,    \* the entries of each project's skills directory
          txn,     \* owner of the Skill transaction
          plock,   \* owner of the project write lock
          run,     \* what each thread is doing
          faults,  \* faults so far
          calm     \* history: no fault, no project removed or lost from the
                   \* index, and no folder deleted while it was deployed

disk  == <<hub, index, lists, tree>>
locks == <<txn, plock>>
vars  == <<disk, locks, run, faults, calm>>

\* An entry of a skills directory.  A copy whose content still has the hash
\* in its marker is SkillStar's; any other folder is the user's.
Entry(k, c) == [kind |-> k, content |-> c]
Missing == Entry("missing", Absent)
Link    == Entry("link", Absent)
Entries == {Missing, Link} \cup {Entry(k, c) : k \in {"copy", "user"}, c \in Contents}
Owned(e) == e.kind \in {"link", "copy"}

Modes == {"link", "copy"}
List(S, m) == [names |-> S, mode |-> m]
NoList     == List({}, "link")

\* A thread that runs nothing.
Idle == [op |-> "none", step |-> "none", project |-> Nobody, skills |-> {},
         mode |-> "link", index |-> {}, list |-> NoList, todo |-> {},
         at |-> {}, seen |-> Missing]   \* the entry it looked at, and what it saw

Init == /\ hub \in [Skills -> Contents \cup {Absent}]
        /\ index = {}
        /\ lists = [j \in Projects |-> NoList]
        /\ tree = [j \in Projects |-> [n \in Skills |-> Missing]]
        /\ txn = Nobody /\ plock = Nobody
        /\ run = [p \in Procs |-> Idle]
        /\ faults = 0 /\ calm = TRUE
-----------------------------------------------------------------------------
At(p, s)    == run[p].step = s
Op(p)       == run[p].op
Goes(p, s)  == run' = [run EXCEPT ![p].step = s]
Acted(r)    == [r EXCEPT !.at = {}, !.seen = Missing]
ActedTo(p, s) == run' = [run EXCEPT ![p] = [Acted(run[p]) EXCEPT !.step = s]]
Fault       == faults < MaxFaults /\ faults' = faults + 1 /\ calm' = FALSE
NoFault     == UNCHANGED <<faults, calm>>

Unlocked == {"register", "remove"}
Single   == {"add", "import", "install", "update", "uninstall"}

\* Mutant: the project lock first.
SwappedLocks(o) == CASE o = "import"               -> <<"projects", "txn">>
                     [] o = "uninstall"            -> <<"txn", "projects">>
                     [] o \in {"install", "update"} -> <<"txn">>
                     [] o \in Unlocked             -> <<>>
                     [] OTHER                      -> <<"projects">>

\* Mutant: an add does not take the project lock.
UnlockedAdds(o) == CASE o \in {"import", "uninstall"}  -> <<"txn", "projects">>
                     [] o \in {"install", "update"}    -> <<"txn">>
                     [] o \in Unlocked \cup {"add"}     -> <<>>
                     [] OTHER                         -> <<"projects">>

\* The locks an operation takes before its first write, in order.
Locks(o) == CASE o \in {"import", "uninstall"} -> <<"txn", "projects">>
              [] o \in {"install", "update"}   -> <<"txn">>
              [] o \in Unlocked               -> <<>>
              [] OTHER                        -> <<"projects">>

\* Where an operation goes once it has its locks, or the lock it takes again.
Body(o) == CASE o \in {"install", "update"} -> "folder"
             [] o = "uninstall"             -> "clear_all"
             [] OTHER                       -> "index"

FirstStep(o) == IF Locks(o) = <<>> THEN Body(o) ELSE Locks(o)[1]

\* What comes after lock l.
After(o, l) == CASE o = "update" /\ l = "projects"     -> "refresh"
                 [] Len(Locks(o)) = 2 /\ Locks(o)[1] = l -> Locks(o)[2]
                 [] OTHER                              -> Body(o)

\* Operation o is called for project j; single operations get one Skill.
Start(p, o, j, S, m) ==
    /\ run[p] = Idle
    /\ o \in Operations
    /\ o \in Single => \E n \in Skills : S = {n}
    /\ o \notin Single \cup {"save"} => S = {}
    /\ o \notin {"save", "add"} => m = "link"
    /\ run' = [run EXCEPT ![p] = [Idle EXCEPT !.op = o, !.step = FirstStep(o),
                                     !.project = j, !.skills = S, !.mode = m]]
    /\ calm' = (calm /\ o # "remove")
    /\ UNCHANGED <<disk, locks, faults>>

\* The operation returns; its lock guards are dropped.
Return(p) == /\ run' = [run EXCEPT ![p] = Idle]
             /\ txn' = IF txn = p THEN Nobody ELSE txn
             /\ plock' = IF plock = p THEN Nobody ELSE plock

TakeTransaction(p) ==
    /\ At(p, "txn") /\ txn = Nobody
    /\ txn' = p
    /\ Goes(p, After(Op(p), "txn"))
    /\ UNCHANGED <<disk, plock, faults, calm>>

\* lock_project_write
TakeProjects(p) ==
    /\ At(p, "projects") /\ plock = Nobody
    /\ plock' = p
    /\ run' = [run EXCEPT ![p].step = After(Op(p), "projects"),
                   ![p].todo = IF Op(p) = "uninstall" THEN index ELSE @]
    /\ UNCHANGED <<disk, txn, faults, calm>>
-----------------------------------------------------------------------------
\* An install or update puts a new folder in place and ends the transaction.
\* An update then goes through the projects without it.
WriteFolder(p, n, c) ==
    /\ At(p, "folder") /\ n \in run[p].skills
    /\ (hub[n] = Absent) = (Op(p) = "install")
    /\ c # hub[n]
    /\ hub' = [hub EXCEPT ![n] = c]
    /\ txn' = Nobody
    /\ run' = [run EXCEPT ![p] = IF Op(p) = "install" THEN Idle
                                 ELSE [@ EXCEPT !.step = "cascade", !.todo = index]]
    /\ NoFault
    /\ UNCHANGED <<index, lists, tree, plock>>

\* Nothing to install or update, or the installer failed.
WriteNothing(p) ==
    /\ At(p, "folder")
    /\ Return(p)
    /\ NoFault
    /\ UNCHANGED disk

\* cascade_skill_update_to_projects: a project is visited when its list, read
\* without the lock, names the Skill.
Cascade(p, j) ==
    /\ At(p, "cascade") /\ j \in run[p].todo
    /\ run' = [run EXCEPT ![p].todo = @ \ {j},
                   ![p].project = j,
                   ![p].step = IF run[p].skills \cap lists[j].names # {}
                               THEN "projects" ELSE @]
    /\ NoFault
    /\ UNCHANGED <<disk, locks>>

CascadeEnds(p) ==
    /\ At(p, "cascade") /\ run[p].todo = {}
    /\ Return(p)
    /\ NoFault
    /\ UNCHANGED disk

\* The entries an operation is to go through.
Due(r) == CASE r.step \in {"clear", "deploy"}           -> r.todo
            [] r.step \in {"adopt", "refresh", "forget"} -> r.skills
            [] OTHER                                    -> {}

\* owned_project_deployment, or the comparison of an import.  The user may put
\* something else there before the operation acts on what it saw.
Look(p, n) ==
    /\ run[p].at = {} /\ n \in Due(run[p])
    /\ run' = [run EXCEPT ![p].at = {n}, ![p].seen = tree[run[p].project][n]]
    /\ NoFault
    /\ UNCHANGED <<disk, locks>>

\* Mutant: the mode of the list decides, not the entry.
StaleByMode(j, n, e) == /\ j \in index /\ n \in lists[j].names
                        /\ lists[j].mode = "copy" /\ e.kind = "copy"
                        /\ hub[n] \notin {Absent, e.content}

Stale(j, n, e) == /\ j \in index /\ n \in lists[j].names
                  /\ e.kind = "copy"
                  /\ hub[n] \notin {Absent, e.content}

\* refresh_stale_copies_strict: a stale copy is removed and made again.
Refresh(p, n) ==
    /\ At(p, "refresh") /\ n \in run[p].at
    /\ LET j == run[p].project
           stale == Stale(j, n, run[p].seen)
           Becomes(e) == tree' = [tree EXCEPT ![j][n] = e] IN
       \/ stale  /\ Becomes(Entry("copy", hub[n])) /\ NoFault
       \/ stale  /\ Becomes(Missing) /\ Fault
       \/ ~stale /\ UNCHANGED tree /\ NoFault
    /\ plock' = Nobody
    /\ ActedTo(p, "cascade")
    /\ UNCHANGED <<hub, index, lists, txn>>
-----------------------------------------------------------------------------
\* remove_skill_from_all_projects: the name leaves the list ...
ClearProject(p, j, n) ==
    /\ At(p, "clear_all") /\ j \in run[p].todo /\ n \in run[p].skills
    /\ lists' = [lists EXCEPT ![j].names = @ \ {n}]
    /\ run' = [run EXCEPT ![p].step = "forget", ![p].project = j]
    /\ NoFault
    /\ UNCHANGED <<hub, index, tree, locks>>

\* ... then SkillStar's entry leaves the directory.  A failure there ends the
\* uninstall.
Forget(p, n) ==
    /\ At(p, "forget") /\ n \in run[p].at
    /\ LET j == run[p].project IN
       \/ /\ tree' = [tree EXCEPT ![j][n] = IF Owned(run[p].seen) THEN Missing ELSE @]
          /\ run' = [run EXCEPT ![p] = [Acted(run[p]) EXCEPT !.step = "clear_all",
                                                        !.todo = @ \ {j}]]
          /\ NoFault
          /\ UNCHANGED locks
       \/ /\ Fault
          /\ Return(p)
          /\ UNCHANGED tree
    /\ UNCHANGED <<hub, index, lists>>

\* The lock is given back before the folder is deleted.
ClearEnds(p) ==
    /\ At(p, "clear_all") /\ run[p].todo = {}
    /\ plock' = Nobody
    /\ Goes(p, "body")
    /\ NoFault
    /\ UNCHANGED <<disk, txn>>

\* uninstall_canonical
DeleteFolder(p, n) ==
    /\ At(p, "body") /\ n \in run[p].skills
    /\ \/ /\ hub' = [hub EXCEPT ![n] = Absent]
          /\ calm' = (calm /\ \A j \in Projects : ~Owned(tree[j][n]))
          /\ UNCHANGED faults
       \/ UNCHANGED hub /\ Fault
    /\ Return(p)
    /\ UNCHANGED <<index, lists, tree>>
-----------------------------------------------------------------------------
\* The asked-for Skills an add can deploy.
Present(p) == {n \in run[p].skills : hub[n] # Absent}

\* The operation ends before it writes anything.
NothingToDo(p) == \/ Op(p) = "add" /\ Present(p) = {}
                  \/ Op(p) = "register" /\ run[p].project \in index
                  \/ Op(p) = "remove" /\ run[p].project \notin index

\* register_project and remove_project read the whole index ...
LoadIndex(p) ==
    /\ At(p, "index")
    /\ IF NothingToDo(p) THEN Return(p)
       ELSE LET registered == run[p].project \in index /\ Op(p) # "remove" IN
            /\ run' = [run EXCEPT
                  ![p].step   = IF registered THEN "load" ELSE "save_index",
                  ![p].index  = IF registered THEN {} ELSE index,
                  ![p].skills = IF Op(p) = "add" THEN Present(p) ELSE @]
            /\ UNCHANGED locks
    /\ NoFault
    /\ UNCHANGED disk

\* ... and write the whole index: a project registered in between is lost.
SaveIndex(p) ==
    /\ At(p, "save_index")
    /\ LET j == run[p].project IN
       index' = IF Op(p) = "remove" THEN run[p].index \ {j} ELSE run[p].index \cup {j}
    /\ calm' = (calm /\ index \subseteq index')
    /\ \/ Op(p) = "register" /\ Return(p)
       \/ /\ Op(p) # "register"
          /\ run' = [run EXCEPT ![p].index = {},
                         ![p].step = IF Op(p) = "remove" THEN "drop_list" ELSE "load"]
          /\ UNCHANGED locks
    /\ UNCHANGED <<hub, lists, tree, faults>>

\* remove_project deletes the project's configuration folder.
DropList(p) ==
    /\ At(p, "drop_list")
    /\ lists' = [lists EXCEPT ![run[p].project] = NoList]
    /\ Return(p)
    /\ NoFault
    /\ UNCHANGED <<hub, index, tree>>

\* load_skills_list
LoadList(p) ==
    /\ At(p, "load")
    /\ run' = [run EXCEPT ![p].list = lists[run[p].project],
                   ![p].step = IF Op(p) = "import" THEN "adopt" ELSE "save"]
    /\ NoFault
    /\ UNCHANGED <<disk, locks>>

OnDisk(j) == {n \in Skills : tree[j][n] # Missing}

\* prune_deploy_modes_for_agents
Pruned(S, m) == List(S, IF S = {} THEN "link" ELSE m)

NewList(p) ==
    LET r == run[p] IN
    CASE r.op = "save"    -> Pruned(r.skills, r.mode)
      [] r.op = "add"     -> List(r.list.names \cup r.skills, r.mode)
      [] r.op = "rebuild" -> Pruned(OnDisk(r.project), r.list.mode)
      [] r.op = "import"  -> r.list

\* A directory that neither the old list nor the new one names is left alone.
Managed(p) == run[p].skills # {} \/ run[p].list.names # {}

\* save_skills_list: the list is written before the directory is touched.
SaveList(p) ==
    /\ At(p, "save")
    /\ \/ /\ lists' = [lists EXCEPT ![run[p].project] = NewList(p)]
          /\ \/ /\ Op(p) = "save"
                /\ run' = [run EXCEPT ![p].step = "clear",
                               ![p].todo = IF Managed(p) THEN Skills ELSE {}]
                /\ UNCHANGED locks
             \/ /\ Op(p) = "add"
                /\ run' = [run EXCEPT ![p].step = "deploy", ![p].todo = run[p].skills]
                /\ UNCHANGED locks
             \/ Op(p) \in {"rebuild", "import"} /\ Return(p)
          /\ NoFault
       \/ Fault /\ Return(p) /\ UNCHANGED lists
    /\ UNCHANGED <<hub, index, tree>>
-----------------------------------------------------------------------------
\* full_sync: what SkillStar owns in the directory goes, listed or not.
Clear(p, n) ==
    /\ At(p, "clear") /\ n \in run[p].at
    /\ \/ /\ tree' = [tree EXCEPT ![run[p].project][n] =
                        IF Owned(run[p].seen) THEN Missing ELSE @]
          /\ run' = [run EXCEPT ![p] = [Acted(run[p]) EXCEPT !.todo = @ \ {n}]]
          /\ NoFault
          /\ UNCHANGED locks
       \/ /\ Fault
          /\ Return(p)
          /\ UNCHANGED tree
    /\ UNCHANGED <<hub, index, lists>>

Cleared(p) ==
    /\ At(p, "clear") /\ run[p].todo = {}
    /\ run' = [run EXCEPT ![p].step = "deploy", ![p].todo = run[p].skills]
    /\ NoFault
    /\ UNCHANGED <<disk, locks>>

\* A sync deploys to free names only; an add also renews a link.
Deployable(p, n, e) ==
    IF Op(p) = "save" THEN e = Missing /\ hub[n] # Absent
                      ELSE e \in {Missing, Link}

\* deploy_skill_with_mode: a link needs no folder behind it, a copy does.
Deployed(p, n) == CASE run[p].mode = "link"  -> Link
                    [] hub[n] # Absent       -> Entry("copy", hub[n])
                    [] OTHER                 -> Missing

\* An add removes the link it saw, and whatever took its place.  A name taken
\* meanwhile is refused, but a staged copy may already be on its way into it.
Deploy(p, n) ==
    /\ At(p, "deploy") /\ n \in run[p].at
    /\ LET j == run[p].project
           e == run[p].seen
           free == e = Link \/ tree[j][n] = Missing
           Becomes(new) == tree' = [tree EXCEPT ![j][n] = new] IN
       \/ /\ Deployable(p, n, e)
          /\ free \/ Deployed(p, n).kind = "copy"
          /\ Becomes(Deployed(p, n)) /\ NoFault
       \/ Deployable(p, n, e) /\ free /\ Becomes(Missing) /\ Fault
       \/ ~(Deployable(p, n, e) /\ free) /\ UNCHANGED tree /\ NoFault
    /\ run' = [run EXCEPT ![p] = [Acted(run[p]) EXCEPT !.todo = @ \ {n}]]
    /\ UNCHANGED <<hub, index, lists, locks>>

DeployEnds(p) ==
    /\ At(p, "deploy") /\ run[p].todo = {}
    /\ Return(p)
    /\ NoFault
    /\ UNCHANGED disk
-----------------------------------------------------------------------------
\* Mutant: a project folder is replaced without comparing it.
AdoptedUnseen(n, e) == e.kind = "user"

\* A folder of the project is adopted when the hub has none of that name, or
\* the same.
Adopted(n, e) == e.kind = "user" /\ hub[n] \in {Absent, e.content}

\* import_scanned_skills: the folder moves to the hub (by a copy of what was seen,
\* when it cannot be renamed), or goes because the hub has it, unless the user
\* took it away; anything else is skipped.
Adopt(p, n) ==
    /\ At(p, "adopt") /\ n \in run[p].at
    /\ LET j == run[p].project
           seen == run[p].seen IN
       \/ /\ Adopted(n, seen) /\ tree[j][n] # Missing
          /\ \E e \in {seen, tree[j][n]} :
               hub' = [hub EXCEPT ![n] = IF @ = Absent THEN e.content ELSE @]
          /\ tree' = [tree EXCEPT ![j][n] = Missing]
          /\ ActedTo(p, "link")
          /\ UNCHANGED locks
       \/ /\ Adopted(n, seen) /\ tree[j][n] = Missing
          /\ Return(p)
          /\ UNCHANGED <<hub, tree>>
       \/ /\ ~Adopted(n, seen)
          /\ ActedTo(p, "save")
          /\ UNCHANGED <<hub, tree, locks>>
    /\ NoFault
    /\ UNCHANGED <<index, lists>>

\* deploy_link_or_copy refuses a name that is taken again.
LinkAdopted(p, n) ==
    /\ At(p, "link") /\ n \in run[p].skills
    /\ LET j == run[p].project IN
       \/ /\ tree[j][n] = Missing
          /\ tree' = [tree EXCEPT ![j][n] = Link]
          /\ run' = [run EXCEPT ![p].step = "save",
                         ![p].list.names = @ \cup {n}]
          /\ NoFault
          /\ UNCHANGED locks
       \/ /\ UNCHANGED tree
          /\ Return(p)
          /\ IF tree[j][n] = Missing THEN Fault ELSE NoFault
    /\ UNCHANGED <<hub, index, lists>>
-----------------------------------------------------------------------------
\* The user puts, edits or deletes an entry of the directory.
UserEdits(j, n) ==
    /\ \E e \in {Missing} \cup {Entry("user", c) : c \in UserContents} :
         /\ e # tree[j][n]
         /\ tree' = [tree EXCEPT ![j][n] = e]
    /\ UNCHANGED <<hub, index, lists, locks, run, faults, calm>>

\* The process of thread p dies; the system frees its locks.
Crash(p) ==
    /\ run[p] # Idle
    /\ Fault
    /\ Return(p)
    /\ UNCHANGED disk

\* What a thread does once it has started an operation, but for waiting.
Work(p) ==
    \/ \E n \in Skills, c \in Contents : WriteFolder(p, n, c)
    \/ WriteNothing(p)
    \/ \E j \in Projects : Cascade(p, j)
    \/ CascadeEnds(p)
    \/ \E n \in Skills : Look(p, n) \/ Refresh(p, n) \/ Forget(p, n)
    \/ \E j \in Projects, n \in Skills : ClearProject(p, j, n)
    \/ ClearEnds(p)
    \/ \E n \in Skills : DeleteFolder(p, n)
    \/ LoadIndex(p) \/ SaveIndex(p) \/ DropList(p)
    \/ LoadList(p) \/ SaveList(p)
    \/ \E n \in Skills : Clear(p, n) \/ Deploy(p, n)
    \/ Cleared(p) \/ DeployEnds(p)
    \/ \E n \in Skills : Adopt(p, n) \/ LinkAdopted(p, n)

Next ==
    \/ \E p \in Procs :
         \/ \E o \in Operations, j \in Projects, S \in SUBSET Skills, m \in Modes :
              Start(p, o, j, S, m)
         \/ TakeTransaction(p) \/ TakeProjects(p)
         \/ Work(p)
         \/ Crash(p)
    \/ \E j \in Projects, n \in Skills : UserEdits(j, n)

Spec == Init /\ [][Next]_vars
-----------------------------------------------------------------------------
\* Folders, lists, entries, locks and the state of every thread.
TypeOK ==
    /\ hub \in [Skills -> Contents \cup {Absent}]
    /\ index \subseteq Projects
    /\ lists \in [Projects -> [names : SUBSET Skills, mode : Modes]]
    /\ tree \in [Projects -> [Skills -> Entries]]
    /\ {txn, plock} \subseteq Procs \cup {Nobody}
    /\ \A p \in Procs : /\ Op(p) \in Operations \cup {"none"}
                        /\ run[p].skills \subseteq Skills
                        /\ run[p].index \subseteq Projects
                        /\ run[p].todo \subseteq Skills \cup Projects
                        /\ run[p].at \subseteq Skills /\ run[p].seen \in Entries
    /\ faults \in 0 .. MaxFaults
    /\ calm \in BOOLEAN

\* The transaction comes before the project lock: no thread holds one and
\* waits for the other while another does the reverse.  (import.rs, and every
\* uninstall; docs/architecture.md)
NoLockCycle == \A p, q \in Procs :
    ~(plock = p /\ At(p, "txn") /\ txn = q /\ At(q, "projects"))

\* No operation takes away or changes an entry that is the user's, but for an
\* import, after which the hub has its content; unless the user put it there after
\* the operation had looked.  (ownership.rs: Foreign is never touched)
UserEntriesStay ==
    [][\A j \in Projects, n \in Skills :
          (tree[j][n].kind = "user" /\ tree'[j][n] # tree[j][n] /\ run' # run) =>
            \/ hub'[n] = tree[j][n].content
            \/ \E p \in Procs : /\ run[p].project = j /\ n \in run[p].at
                               /\ run[p].seen # tree[j][n] /\ run'[p] # run[p]]_vars

\* A thread has written a new folder of Skill n and has not yet visited j.
Owing(j, n) == \E p \in Procs :
    /\ Op(p) = "update" /\ n \in run[p].skills
    /\ \/ run[p].step \in {"cascade", "projects", "refresh"} /\ j \in run[p].todo
       \/ run[p].step \in {"projects", "refresh"} /\ run[p].project = j

\* While nothing has failed and no project was lost from the index, a copy that
\* a project lists has the content of the hub, or an update is on its way to it:
\* whatever runs beside an update, and in whichever mode the project is saved,
\* no copy is forgotten.
\* (cascade_skill_update_to_projects reads the lists without the lock)
CopiesAreCurrent ==
    calm => \A j \in index, n \in Skills :
        (n \in lists[j].names /\ tree[j][n].kind = "copy" /\ hub[n] # Absent) =>
            tree[j][n].content = hub[n] \/ Owing(j, n)

\* The Skills each project lists, and what each thread was asked for.
Names  == [j \in Projects |-> lists[j].names]
Asking == [p \in Procs |->
    [op |-> Op(p), skills |-> run[p].skills,
     at |-> {run[p].project} \X run[p].at, seen |-> run[p].seen,
     projects |-> IF Op(p) \in {"save", "add", "import", "rebuild", "remove"}
                    THEN {run[p].project} ELSE Projects]]

\* Every step does what some request entitles it to, on the list and the entries
\* as they are then: an add or an import loses no name another writer saved, what
\* is deployed is listed, a copy is of the present folder, and no entry of the
\* user's goes anywhere but to the hub (ProjectRequests).
Requests == INSTANCE ProjectRequests WITH
    folder <- hub, names <- Names, entries <- tree, asked <- Asking
RequestsAreMet == Requests!Spec
=============================================================================
