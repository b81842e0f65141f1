---------------------- MODULE ProjectsAndBadgesProofs -----------------------
(***************************************************************************)
(* What an update leaves behind outside the Skill's folder: the copies in  *)
(* projects (ProjectWrites) and the badge (UpdateState), for any number of *)
(* Skills, projects, threads, refreshes and updates.                       *)
(*                                                                         *)
(* The first part is ProjectWrites.  Threaded says which operation may be  *)
(* at which step and that the step says which locks the thread owns: types *)
(* and the absence of a lock cycle follow.  While nothing has failed, Quiet*)
(* says what each writer knows of its project and who still owes a copy.   *)
(* Seeing says that what a thread saw under a name is still there, unless  *)
(* the user's hand was there since.  Whatever fails, Knows says what a     *)
(* thread knows of the list and folders it works on: every step is one     *)
(* that ProjectRequests allows.                                            *)
(***************************************************************************)
EXTENDS ProjectWrites, UpdateState, TLAPS

\* The steps of all operations.
StepNames == {"none", "txn", "folder", "cascade", "projects", "refresh", "clear_all",
              "forget", "body", "index", "save_index", "drop_list", "load", "adopt", "link",
              "save", "clear", "deploy"}

\* Those at which a thread looks at entries.
Looking == {"adopt", "refresh", "forget", "clear", "deploy"}

\* A project's list, as stored or loaded.
Lists == [names : SUBSET Skills, mode : Modes]

\* What a thread knows.
Runs == [op : Operations \cup {"none"}, step : StepNames, project : Projects \cup {Nobody},
         skills : SUBSET Skills, mode : Modes, index : SUBSET Projects, list : Lists,
         todo : SUBSET (Skills \cup Projects), at : SUBSET Skills, seen : Entries]

\* The steps of operation o.
Steps(o) ==
    CASE o = "none"      -> {"none"}
      [] o = "save"      -> {"projects", "index", "save_index", "load", "save", "clear",
                             "deploy"}
      [] o = "add"       -> {"projects", "index", "save_index", "load", "save", "deploy"}
      [] o = "import"    -> {"txn", "projects", "index", "save_index", "load", "adopt",
                             "link", "save"}
      [] o = "rebuild"   -> {"projects", "index", "save_index", "load", "save"}
      [] o = "register"  -> {"index", "save_index"}
      [] o = "remove"    -> {"index", "save_index", "drop_list"}
      [] o = "install"   -> {"txn", "folder"}
      [] o = "update"    -> {"txn", "folder", "cascade", "projects", "refresh"}
      [] o = "uninstall" -> {"txn", "projects", "clear_all", "forget", "body"}

\* A thread is at a step of its operation, and has looked where that has it look.
RecordOK(r) == /\ r \in Runs
               /\ r.step \in Steps(r.op)
               /\ r.op = "none" => r = Idle
               /\ r.op # "none" => r.project \in Projects
               /\ r.op \in Single \ {"add"} => \E n \in Skills : r.skills = {n}
               /\ r.at \subseteq Due(r)

\* A thread in this state owns the transaction ...
InTransaction(r) == \/ r.op \in {"install", "update"} /\ r.step = "folder"
                    \/ r.op \in {"import", "uninstall"} /\ r.step # "txn"

\* ... or the project lock.
InProjects(r) ==
    \/ r.step \in {"refresh", "clear_all", "forget", "load", "adopt", "link", "save", "clear",
                   "deploy"}
    \/ r.step \in {"index", "save_index"} /\ r.op \notin Unlocked

\* The types, and that a thread's step says which locks it owns.
Threaded == /\ TypeOK
            /\ run \in [Procs -> Runs]
            /\ \A p \in Procs : /\ RecordOK(run[p])
                                /\ txn = p <=> InTransaction(run[p])
                                /\ plock = p <=> InProjects(run[p])

\* Which operations have which step.
LEMMA OpsOfSteps ==
    ASSUME NEW r, RecordOK(r)
    PROVE  /\ r.step = "none" => r = Idle
           /\ r.step = "txn" => r.op \in {"import", "install", "update", "uninstall"}
           /\ r.step = "folder" => r.op \in {"install", "update"}
           /\ r.step \in {"cascade", "refresh"} => r.op = "update"
           /\ r.step = "projects" =>
                r.op \in {"save", "add", "import", "rebuild", "update", "uninstall"}
           /\ r.step \in {"clear_all", "forget", "body"} => r.op = "uninstall"
           /\ r.step \in {"index", "save_index"} =>
                r.op \in {"save", "add", "import", "rebuild", "register", "remove"}
           /\ r.step = "drop_list" => r.op = "remove"
           /\ r.step \in {"load", "save"} => r.op \in {"save", "add", "import", "rebuild"}
           /\ r.step \in {"adopt", "link"} => r.op = "import"
           /\ r.step = "clear" => r.op = "save"
           /\ r.step = "deploy" => r.op \in {"save", "add"}
  <1>1. r.op \in {"none", "save", "add", "import", "rebuild", "register", "remove",
                  "install", "update", "uninstall"}
    BY OperationsAssumption DEF RecordOK, Runs
  <1>2. r.step \in Steps(r.op) /\ (r.op = "none" => r = Idle)
    BY DEF RecordOK
  <1> QED
    BY <1>1, <1>2 DEF Steps

\* A thread that is not at an entry has not looked at any.
LEMMA NotLooking ==
    ASSUME NEW r, RecordOK(r)
    PROVE  /\ r.step \notin Looking => r.at = {}
           /\ r.step \in {"clear", "deploy"} /\ r.todo = {} => r.at = {}
  BY DEF RecordOK, Due, Looking

\* The locks of each kind of operation.
LEMMA LockOrder ==
    ASSUME NEW o
    PROVE  /\ o \in {"import", "uninstall"} => Locks(o) = <<"txn", "projects">>
           /\ o \in {"install", "update"} => Locks(o) = <<"txn">>
           /\ o \in Unlocked => Locks(o) = <<>>
           /\ o \notin {"import", "uninstall", "install", "update"} \cup Unlocked =>
                Locks(o) = <<"projects">>
  <1>1. ASSUME o \in {"import", "uninstall"} PROVE Locks(o) = <<"txn", "projects">>
    <2>1. o \notin {"install", "update"} /\ o \notin Unlocked
      BY <1>1 DEF Unlocked
    <2> QED
      BY <1>1, <2>1, Zenon DEF Locks
  <1>2. ASSUME o \in {"install", "update"} PROVE Locks(o) = <<"txn">>
    <2>1. o \notin {"import", "uninstall"} /\ o \notin Unlocked
      BY <1>2 DEF Unlocked
    <2> QED
      BY <1>2, <2>1, Zenon DEF Locks
  <1>3. ASSUME o \in Unlocked PROVE Locks(o) = <<>>
    <2>1. o \notin {"import", "uninstall"} /\ o \notin {"install", "update"}
      BY <1>3 DEF Unlocked
    <2> QED
      BY <1>3, <2>1, Zenon DEF Locks
  <1>4. ASSUME o \notin {"import", "uninstall", "install", "update"} \cup Unlocked
        PROVE  Locks(o) = <<"projects">>
    <2>1. o \notin {"import", "uninstall"} /\ o \notin {"install", "update"} /\ o \notin Unlocked
      BY <1>4
    <2> QED
      BY <2>1, Zenon DEF Locks
  <1> QED
    BY <1>1, <1>2, <1>3, <1>4

\* A thread at rest owns nothing.
LEMMA IdleRecord == RecordOK(Idle) /\ ~InTransaction(Idle) /\ ~InProjects(Idle)
  BY DEF RecordOK, Idle, Runs, Steps, StepNames, Lists, List, NoList, Modes, InTransaction,
         InProjects, Single, Entries

\* The first step of each operation.
LEMMA FirstSteps ==
    ASSUME NEW o \in Operations
    PROVE  /\ FirstStep(o) \in Steps(o) /\ FirstStep(o) \in StepNames
           /\ \/ FirstStep(o) \in {"txn", "projects"}
              \/ FirstStep(o) = "index" /\ o \in Unlocked
           /\ o \in {"import", "uninstall"} => FirstStep(o) = "txn"
  <1>0. o \in {"save", "add", "import", "rebuild", "register", "remove",
               "install", "update", "uninstall"}
    BY OperationsAssumption
  <1>1. CASE o \in {"import", "uninstall"}
    <2>1. Locks(o) = <<"txn", "projects">>
      BY <1>1, LockOrder
    <2>2. FirstStep(o) = "txn"
      BY <2>1 DEF FirstStep
    <2> QED
      BY <1>1, <2>2 DEF Steps, StepNames
  <1>2. CASE o \in {"install", "update"}
    <2>1. Locks(o) = <<"txn">>
      BY <1>2, LockOrder
    <2>2. FirstStep(o) = "txn"
      BY <2>1 DEF FirstStep
    <2> QED
      BY <1>2, <2>2 DEF Steps, StepNames
  <1>3. CASE o \in Unlocked
    <2>1. Locks(o) = <<>> /\ Body(o) = "index"
      BY <1>3, LockOrder DEF Body, Unlocked
    <2>2. FirstStep(o) = "index"
      BY <2>1 DEF FirstStep
    <2> QED
      BY <1>3, <2>2 DEF Steps, StepNames, Unlocked
  <1>4. CASE o \in {"save", "add", "rebuild"}
    <2>1. Locks(o) = <<"projects">>
      BY <1>4, LockOrder DEF Unlocked
    <2>2. FirstStep(o) = "projects"
      BY <2>1 DEF FirstStep
    <2> QED
      BY <1>4, <2>2 DEF Steps, StepNames
  <1> QED
    BY <1>0, <1>1, <1>2, <1>3, <1>4 DEF Unlocked

\* What the lock with owner l does when thread p, which had it if h, goes on to
\* where it has it if i.
Moves(l, m, p, h, i) == \/ m = l /\ (h <=> i)
                        \/ l = Nobody /\ m = p /\ i
                        \/ m = (IF l = p THEN Nobody ELSE l) /\ ~i

\* Thread p goes on to r, takes, keeps or gives back its locks.
LEMMA ThreadKeeps ==
    ASSUME Threaded, NEW p \in Procs, NEW r, RecordOK(r), run' = [run EXCEPT ![p] = r],
           Moves(txn, txn', p, InTransaction(run[p]), InTransaction(r)),
           Moves(plock, plock', p, InProjects(run[p]), InProjects(r))
    PROVE  /\ run' \in [Procs -> Runs]
           /\ {txn', plock'} \subseteq Procs \cup {Nobody}
           /\ \A q \in Procs : /\ RecordOK(run'[q])
                               /\ txn' = q <=> InTransaction(run'[q])
                               /\ plock' = q <=> InProjects(run'[q])
  <1>1. r \in Runs
    BY DEF RecordOK
  <1>2. run' \in [Procs -> Runs] /\ run'[p] = r
    BY <1>1 DEF Threaded
  <1>3. \A q \in Procs \ {p} : run'[q] = run[q]
    BY DEF Threaded
  <1>4. /\ {txn, plock} \subseteq Procs \cup {Nobody}
        /\ \A q \in Procs : /\ RecordOK(run[q])
                            /\ txn = q <=> InTransaction(run[q])
                            /\ plock = q <=> InProjects(run[q])
    BY DEF Threaded, TypeOK
  <1>5. {txn', plock'} \subseteq Procs \cup {Nobody}
    BY <1>4 DEF Moves
  <1>6. ASSUME NEW q \in Procs PROVE txn' = q <=> InTransaction(run'[q])
    <2>1. CASE q = p
      BY <1>2, <1>4, <2>1, ProcsAssumption DEF Moves
    <2>2. CASE q # p
      BY <1>3, <1>4, <2>2, ProcsAssumption DEF Moves
    <2> QED
      BY <2>1, <2>2
  <1>7. ASSUME NEW q \in Procs PROVE plock' = q <=> InProjects(run'[q])
    <2>1. CASE q = p
      BY <1>2, <1>4, <2>1, ProcsAssumption DEF Moves
    <2>2. CASE q # p
      BY <1>3, <1>4, <2>2, ProcsAssumption DEF Moves
    <2> QED
      BY <2>1, <2>2
  <1> QED
    BY <1>2, <1>3, <1>4, <1>5, <1>6, <1>7

\* A thread that returns.
LEMMA ReturnKeeps ==
    ASSUME Threaded, NEW p \in Procs, Return(p)
    PROVE  /\ run' \in [Procs -> Runs]
           /\ {txn', plock'} \subseteq Procs \cup {Nobody}
           /\ \A q \in Procs : /\ RecordOK(run'[q])
                               /\ txn' = q <=> InTransaction(run'[q])
                               /\ plock' = q <=> InProjects(run'[q])
  <1>1. /\ Moves(txn, txn', p, InTransaction(run[p]), InTransaction(Idle))
        /\ Moves(plock, plock', p, InProjects(run[p]), InProjects(Idle))
    BY IdleRecord DEF Return, Moves
  <1>2. run' = [run EXCEPT ![p] = Idle]
    BY DEF Return
  <1> QED
    BY <1>1, <1>2, IdleRecord, ThreadKeeps

\* So do all at the start.
LEMMA InitThreaded == Init => Threaded
  <1> SUFFICES ASSUME Init PROVE Threaded
    OBVIOUS
  <1>1. \A p \in Procs : run[p] = Idle /\ txn # p /\ plock # p
    BY ProcsAssumption DEF Init
  <1>2. Idle \in Runs
    BY IdleRecord DEF RecordOK
  <1>3. run \in [Procs -> Runs]
    BY <1>2 DEF Init
  <1>4. tree \in [Projects -> [Skills -> Entries]]
    BY DEF Init, Entries
  <1>5. lists \in [Projects -> [names : SUBSET Skills, mode : Modes]]
    BY DEF Init, NoList, List, Modes
  <1>6. ASSUME NEW p \in Procs
        PROVE  /\ Op(p) \in Operations \cup {"none"} /\ run[p].skills \subseteq Skills
               /\ run[p].index \subseteq Projects /\ run[p].todo \subseteq Skills \cup Projects
               /\ run[p].at \subseteq Skills /\ run[p].seen \in Entries
    BY <1>1 DEF Op, Idle, Entries
  <1>7. TypeOK
    BY <1>4, <1>5, <1>6, FaultsAssumption DEF Init, TypeOK
  <1> QED
    BY <1>1, <1>3, <1>7, IdleRecord DEF Threaded

\* A thread that goes on to another step of its operation, with the locks it has
\* there.
LEMMA GoesKeeps ==
    ASSUME Threaded, NEW p \in Procs, NEW r, r.op = Op(p), r.op # "none", r \in Runs,
           r.project = run[p].project, r.skills = run[p].skills \/ r.op = "add",
           r.step \in Steps(r.op), r.at = {},
           run' = [run EXCEPT ![p] = r],
           Moves(txn, txn', p, InTransaction(run[p]), InTransaction(r)),
           Moves(plock, plock', p, InProjects(run[p]), InProjects(r))
    PROVE  /\ run' \in [Procs -> Runs]
           /\ {txn', plock'} \subseteq Procs \cup {Nobody}
           /\ \A q \in Procs : /\ RecordOK(run'[q])
                               /\ txn' = q <=> InTransaction(run'[q])
                               /\ plock' = q <=> InProjects(run'[q])
  <1>1. RecordOK(run[p])
    BY DEF Threaded
  <1>2. RecordOK(r)
    BY <1>1 DEF RecordOK, Op
  <1> QED
    BY <1>2, ThreadKeeps

\* What an entry of a project can be.
LEMMA EntryKinds ==
    /\ Missing \in Entries /\ Link \in Entries
    /\ \A k \in {"copy", "user"}, c \in Contents : Entry(k, c) \in Entries
    /\ \A e \in Entries : e.kind \in {"copy", "user"} => e.content \in Contents
    /\ \A e \in Entries : e.content \in Contents \cup {Absent}
  <1>1. /\ Missing \in Entries /\ Link \in Entries
        /\ \A k \in {"copy", "user"}, c \in Contents : Entry(k, c) \in Entries
    BY DEF Entries
  <1>2. ASSUME NEW e \in Entries, e.kind \in {"copy", "user"} PROVE e.content \in Contents
    <2>1. e # Missing /\ e # Link
      BY <1>2 DEF Missing, Link, Entry
    <2>2. PICK k \in {"copy", "user"}, c \in Contents : e = Entry(k, c)
      BY <2>1 DEF Entries
    <2> QED
      BY <2>2 DEF Entry
  <1>3. ASSUME NEW e \in Entries PROVE e.content \in Contents \cup {Absent}
    <2>1. CASE e \in {Missing, Link}
      BY <2>1 DEF Missing, Link, Entry
    <2>2. CASE e \notin {Missing, Link}
      <3>1. PICK k \in {"copy", "user"}, c \in Contents : e = Entry(k, c)
        BY <2>2 DEF Entries
      <3> QED
        BY <3>1 DEF Entry
    <2> QED
      BY <2>1, <2>2
  <1> QED
    BY <1>1, <1>2, <1>3

\* Every step keeps the types, the steps of each operation and the locks.
LEMMA StepThreaded == Threaded /\ [Next]_vars => Threaded'
  <1> SUFFICES ASSUME Threaded, [Next]_vars PROVE Threaded'
    OBVIOUS
  <1> DEFINE FilesOK == /\ hub \in [Skills -> Contents \cup {Absent}]
                        /\ index \subseteq Projects
                        /\ lists \in [Projects -> Lists]
                        /\ tree \in [Projects -> [Skills -> Entries]]
                        /\ faults \in 0 .. MaxFaults
                        /\ calm \in BOOLEAN
             LocksOK == /\ run \in [Procs -> Runs]
                        /\ {txn, plock} \subseteq Procs \cup {Nobody}
                        /\ \A q \in Procs : /\ RecordOK(run[q])
                                            /\ txn = q <=> InTransaction(run[q])
                                            /\ plock = q <=> InProjects(run[q])
  <1>f. FilesOK /\ MaxFaults \in Nat
    BY FaultsAssumption DEF Threaded, TypeOK, Lists
  <1>e. LocksOK
    BY DEF Threaded, TypeOK
  <1>r. ASSUME NEW p \in Procs
        PROVE  /\ run[p] \in Runs /\ RecordOK(run[p])
               /\ Op(p) # "none" => run[p].project \in Projects
               /\ run[p].step \notin Looking => run[p].at = {}
    BY NotLooking DEF Threaded, RecordOK, Op
  <1>q. ASSUME FilesOK', LocksOK' PROVE Threaded'
    <2>1. ASSUME NEW q \in Procs
          PROVE  /\ Op(q)' \in Operations \cup {"none"} /\ run'[q].skills \subseteq Skills
                 /\ run'[q].index \subseteq Projects /\ run'[q].todo \subseteq Skills \cup Projects
                 /\ run'[q].at \subseteq Skills /\ run'[q].seen \in Entries
      <3>1. run'[q] \in Runs
        BY <1>q
      <3> QED
        BY <3>1 DEF Op, Runs
    <2>2. TypeOK'
      BY <1>q, <2>1 DEF TypeOK, Lists
    <2> QED
      BY <1>q, <2>2 DEF Threaded
  <1>b. ASSUME Fault \/ NoFault PROVE faults' \in 0 .. MaxFaults /\ calm' \in BOOLEAN
    <2>1. CASE Fault
      <3>1. faults \in 0 .. MaxFaults /\ faults < MaxFaults /\ faults' = faults + 1
        BY <1>f, <2>1 DEF Fault
      <3>2. faults' \in 0 .. MaxFaults
        BY <1>f, <3>1
      <3> QED
        BY <2>1, <3>2 DEF Fault
    <2>2. CASE NoFault
      BY <1>f, <2>2 DEF NoFault
    <2> QED
      BY <1>b, <2>1, <2>2
  <1>n. ASSUME NEW p \in Procs, NEW r \in Runs, r.op = Op(p), r.op # "none",
               r.project = run[p].project, r.skills = run[p].skills \/ r.op = "add",
               r.step \in Steps(r.op), r.at = {}, run' = [run EXCEPT ![p] = r],
               Moves(txn, txn', p, InTransaction(run[p]), InTransaction(r)),
               Moves(plock, plock', p, InProjects(run[p]), InProjects(r))
        PROVE  LocksOK'
    BY <1>n, GoesKeeps
  <1>z. ASSUME NEW p \in Procs, Return(p) PROVE LocksOK'
    BY <1>z, ReturnKeeps
  <1>w. ASSUME NEW j \in Projects, NEW n \in Skills, NEW e \in Entries,
               tree' = [tree EXCEPT ![j][n] = e]
        PROVE  tree' \in [Projects -> [Skills -> Entries]]
    BY <1>f, <1>w
  <1>v. ASSUME NEW j \in Projects, NEW n \in Skills, NEW b \in BOOLEAN,
               tree' = [tree EXCEPT ![j][n] = IF b THEN Missing ELSE @]
        PROVE  tree' \in [Projects -> [Skills -> Entries]]
    BY <1>f, <1>v, EntryKinds
  <1> HIDE DEF FilesOK, LocksOK
  <1>g. ASSUME NEW p \in Procs, NEW n \in Skills, run[p].step \in {"clear", "deploy"},
               run' = [run EXCEPT ![p] = [Acted(run[p]) EXCEPT !.todo = @ \ {n}]], UNCHANGED locks
        PROVE  LocksOK'
    <2> DEFINE r == [run[p] EXCEPT !.at = {}, !.seen = Missing, !.todo = @ \ {n}]
    <2>1. Op(p) \in {"save", "add"}
      BY <1>g, <1>r, OpsOfSteps DEF Op
    <2>2. r \in Runs /\ r.op = Op(p) /\ r.step = run[p].step
          /\ r.project = run[p].project /\ r.skills = run[p].skills /\ r.at = {}
      BY <1>r, EntryKinds DEF Runs, Op
    <2>3. run' = [run EXCEPT ![p] = r]
      BY <1>g DEF Acted
    <2> HIDE DEF r
    <2>4. /\ InTransaction(r) <=> InTransaction(run[p])
          /\ InProjects(r) <=> InProjects(run[p])
          /\ r.step \in Steps(r.op)
      BY <1>r, <2>2 DEF InTransaction, InProjects, Op, RecordOK
    <2> QED
      BY <1>g, <1>n, <2>1, <2>2, <2>3, <2>4 DEF Moves, locks
  <1>0. CASE UNCHANGED vars
    BY <1>0, <1>e, <1>f, <1>q DEF vars, disk, locks, FilesOK, LocksOK
  <1>1. ASSUME NEW p \in Procs, NEW o \in Operations, NEW j \in Projects,
               NEW S \in SUBSET Skills, NEW m \in Modes, Start(p, o, j, S, m)
        PROVE  Threaded'
    <2> DEFINE r == [Idle EXCEPT !.op = o, !.step = FirstStep(o), !.project = j, !.skills = S,
                                 !.mode = m]
    <2>1. o \in {"save", "add", "import", "rebuild", "register", "remove",
                 "install", "update", "uninstall"}
      BY OperationsAssumption
    <2>2. /\ FirstStep(o) \in Steps(o) /\ FirstStep(o) \in StepNames
          /\ \/ FirstStep(o) \in {"txn", "projects"}
             \/ FirstStep(o) = "index" /\ o \in Unlocked
          /\ o \in {"import", "uninstall"} => FirstStep(o) = "txn"
      BY FirstSteps
    <2>3. r \in Runs
      BY <2>2, IdleRecord DEF RecordOK, Runs
    <2>4. /\ r.op = o /\ r.step = FirstStep(o) /\ r.project = j /\ r.skills = S /\ r.at = {}
      BY DEF Idle
    <2>5. RecordOK(r)
      <3>1. o \in Single => \E n \in Skills : S = {n}
        BY <1>1 DEF Start
      <3> HIDE DEF r
      <3>2. r.op # "none" /\ r.project \in Projects
        BY <2>1, <2>4
      <3>3. r.op \in Single \ {"add"} => \E n \in Skills : r.skills = {n}
        BY <2>4, <3>1
      <3>4. r.step \in Steps(r.op) /\ r.at \subseteq Due(r)
        BY <2>2, <2>4
      <3> QED
        BY <2>3, <3>2, <3>3, <3>4 DEF RecordOK
    <2>6. ~InTransaction(r) /\ ~InProjects(r)
      <3> HIDE DEF r
      <3> QED
        BY <2>1, <2>2, <2>4 DEF InTransaction, InProjects, Unlocked
    <2>7. /\ Moves(txn, txn', p, InTransaction(run[p]), InTransaction(r))
          /\ Moves(plock, plock', p, InProjects(run[p]), InProjects(r))
      BY <1>1, <2>6, IdleRecord DEF Start, Moves, locks
    <2>8. run' = [run EXCEPT ![p] = r]
      BY <1>1 DEF Start
    <2>9. LocksOK'
      BY <2>5, <2>7, <2>8, ThreadKeeps DEF LocksOK
    <2> QED
      BY <1>1, <1>f, <1>q, <2>9 DEF Start, disk, FilesOK
  <1>2. ASSUME NEW p \in Procs, TakeTransaction(p) PROVE Threaded'
    <2> DEFINE r == [run[p] EXCEPT !.step = After(Op(p), "txn")]
    <2>1. Op(p) \in {"import", "install", "update", "uninstall"} /\ At(p, "txn")
      BY <1>2, <1>r, OpsOfSteps DEF TakeTransaction, At, Op
    <2>2. /\ After(Op(p), "txn") \in Steps(Op(p)) \cap StepNames
          /\ After(Op(p), "txn") \in {"projects", "folder"}
          /\ Op(p) \in {"install", "update"} => After(Op(p), "txn") = "folder"
      BY <2>1 DEF After, Steps, StepNames, Locks, Body, Unlocked
    <2>3. r \in Runs /\ r.op = Op(p) /\ r.step = After(Op(p), "txn")
          /\ r.project = run[p].project /\ r.skills = run[p].skills /\ r.at = {}
      BY <1>r, <2>1, <2>2 DEF Runs, Op, At, Looking
    <2>4. InTransaction(r) /\ ~InProjects(r) /\ ~InProjects(run[p])
      BY <2>1, <2>2, <2>3 DEF InTransaction, InProjects, At
    <2>5. run' = [run EXCEPT ![p] = r]
      BY <1>2 DEF TakeTransaction, Goes
    <2> HIDE DEF r
    <2>6. LocksOK'
      BY <1>2, <1>n, <2>1, <2>2, <2>3, <2>4, <2>5 DEF TakeTransaction, Moves
    <2> QED
      BY <1>2, <1>f, <1>q, <2>6 DEF TakeTransaction, disk, FilesOK
  <1>3. ASSUME NEW p \in Procs, TakeProjects(p) PROVE Threaded'
    <2> DEFINE r == [run[p] EXCEPT !.step = After(Op(p), "projects"),
                                   !.todo = IF Op(p) = "uninstall" THEN index ELSE @]
    <2>1. Op(p) \in {"save", "add", "import", "rebuild", "update", "uninstall"}
          /\ At(p, "projects")
      BY <1>3, <1>r, OpsOfSteps DEF TakeProjects, At, Op
    <2>2. /\ After(Op(p), "projects") \in Steps(Op(p)) \cap StepNames
          /\ After(Op(p), "projects") \in {"index", "clear_all", "refresh"}
          /\ Op(p) = "update" => After(Op(p), "projects") = "refresh"
      BY <2>1 DEF After, Steps, StepNames, Locks, Body, Unlocked
    <2>3. r \in Runs /\ r.op = Op(p) /\ r.step = After(Op(p), "projects")
          /\ r.project = run[p].project /\ r.skills = run[p].skills /\ r.at = {}
      BY <1>r, <1>f, <2>1, <2>2 DEF Runs, Op, FilesOK, At, Looking
    <2>4. InProjects(r) /\ (InTransaction(r) <=> InTransaction(run[p]))
      BY <2>1, <2>2, <2>3 DEF InTransaction, InProjects, At, Op, Unlocked
    <2>5. run' = [run EXCEPT ![p] = r]
      BY <1>3, <1>r DEF TakeProjects, Runs
    <2> HIDE DEF r
    <2>6. LocksOK'
      BY <1>3, <1>n, <2>1, <2>2, <2>3, <2>4, <2>5 DEF TakeProjects, Moves
    <2> QED
      BY <1>3, <1>f, <1>q, <2>6 DEF TakeProjects, disk, FilesOK
  <1>4. ASSUME NEW p \in Procs, NEW n \in Skills, NEW c \in Contents, WriteFolder(p, n, c)
        PROVE  Threaded'
    <2>1. Op(p) \in {"install", "update"} /\ At(p, "folder")
      BY <1>4, <1>r, OpsOfSteps DEF WriteFolder, At, Op
    <2>2. FilesOK'
      BY <1>4, <1>f DEF WriteFolder, NoFault, FilesOK
    <2>3. InTransaction(run[p]) /\ ~InProjects(run[p]) /\ txn = p /\ txn' = Nobody
      BY <1>4, <1>e, <2>1 DEF InTransaction, InProjects, Op, At, WriteFolder, LocksOK
    <2>4. CASE Op(p) = "install"
      <3>1. run' = [run EXCEPT ![p] = Idle]
        BY <1>4, <2>4 DEF WriteFolder
      <3>2. /\ Moves(txn, txn', p, InTransaction(run[p]), InTransaction(Idle))
            /\ Moves(plock, plock', p, InProjects(run[p]), InProjects(Idle))
        BY <1>4, <2>3, IdleRecord DEF WriteFolder, Moves
      <3>3. LocksOK'
        BY <3>1, <3>2, IdleRecord, ThreadKeeps DEF LocksOK
      <3> QED
        BY <1>q, <2>2, <3>3
    <2>5. CASE Op(p) # "install"
      <3> DEFINE r == [run[p] EXCEPT !.step = "cascade", !.todo = index]
      <3>1. r \in Runs /\ r.op = Op(p) /\ r.step = "cascade"
            /\ r.project = run[p].project /\ r.skills = run[p].skills /\ r.at = {}
        BY <1>r, <1>f, <2>1 DEF Runs, StepNames, Op, FilesOK, At, Looking
      <3>2. run' = [run EXCEPT ![p] = r]
        BY <1>4, <2>5 DEF WriteFolder
      <3> HIDE DEF r
      <3>3. ~InTransaction(r) /\ ~InProjects(r) /\ r.step \in Steps(r.op)
        BY <2>1, <2>5, <3>1 DEF InTransaction, InProjects, Steps
      <3>4. LocksOK'
        BY <1>4, <1>n, <2>1, <2>3, <3>1, <3>2, <3>3 DEF WriteFolder, Moves
      <3> QED
        BY <1>q, <2>2, <3>4
    <2> QED
      BY <2>4, <2>5
  <1>5. ASSUME NEW p \in Procs, WriteNothing(p) \/ CascadeEnds(p) \/ DropList(p) \/ DeployEnds(p)
        PROVE  Threaded'
    <2>1. Return(p)
      BY <1>5 DEF WriteNothing, CascadeEnds, DropList, DeployEnds
    <2>2. NoList \in Lists
      BY DEF NoList, List, Lists, Modes
    <2>3. FilesOK'
      BY <1>5, <1>f, <2>2 DEF WriteNothing, CascadeEnds, DropList, DeployEnds, NoFault, disk,
                              FilesOK
    <2> QED
      BY <1>q, <1>z, <2>1, <2>3
  <1>6. ASSUME NEW p \in Procs, NEW j \in Projects, Cascade(p, j) PROVE Threaded'
    <2> DEFINE s == IF run[p].skills \cap lists[j].names # {} THEN "projects" ELSE run[p].step
               r == [run[p] EXCEPT !.todo = @ \ {j}, !.project = j, !.step = s]
    <2>1. Op(p) = "update" /\ At(p, "cascade")
      BY <1>6, <1>r, OpsOfSteps DEF Cascade, At, Op
    <2>2. /\ run[p].todo \ {j} \subseteq Skills \cup Projects /\ s \in {"cascade", "projects"}
          /\ run[p].at = {}
      <3>1. run[p].todo \subseteq Skills \cup Projects
        BY <1>r DEF Runs
      <3>2. s \in {"cascade", "projects"}
        BY <2>1 DEF At
      <3>3. run[p].at = {}
        BY <1>r, <2>1 DEF At, Looking
      <3> QED
        BY <3>1, <3>2, <3>3
    <2>3. r \in Runs /\ r.op = Op(p) /\ r.step = s /\ r.project = j /\ r.skills = run[p].skills
          /\ r.at = {}
      BY <1>r, <2>2 DEF Runs, StepNames, Op
    <2>4. run' = [run EXCEPT ![p] = r]
      BY <1>6, <1>r DEF Cascade, Runs
    <2> HIDE DEF r, s
    <2>5. RecordOK(r)
      BY <1>r, <2>1, <2>2, <2>3 DEF RecordOK, Steps, Op
    <2>6. ~InTransaction(r) /\ ~InProjects(r) /\ ~InTransaction(run[p]) /\ ~InProjects(run[p])
      BY <2>1, <2>2, <2>3 DEF InTransaction, InProjects, Op, At
    <2>7. LocksOK'
      BY <1>6, <2>4, <2>5, <2>6, ThreadKeeps DEF LocksOK, Cascade, Moves, locks
    <2> QED
      BY <1>6, <1>f, <1>q, <2>7 DEF Cascade, NoFault, disk, FilesOK
  <1>7. ASSUME NEW p \in Procs, NEW n \in Skills, Refresh(p, n) PROVE Threaded'
    <2> DEFINE r == [run[p] EXCEPT !.at = {}, !.seen = Missing, !.step = "cascade"]
    <2>1. Op(p) = "update" /\ At(p, "refresh")
      BY <1>7, <1>r, OpsOfSteps DEF Refresh, At, Op
    <2>2. r \in Runs /\ r.op = Op(p) /\ r.step = "cascade"
          /\ r.project = run[p].project /\ r.skills = run[p].skills /\ r.at = {}
      BY <1>r, EntryKinds DEF Runs, StepNames, Op
    <2>3. run' = [run EXCEPT ![p] = r]
      BY <1>7 DEF Refresh, ActedTo, Acted
    <2> HIDE DEF r
    <2>4. /\ ~InTransaction(r) /\ ~InProjects(r) /\ ~InTransaction(run[p])
          /\ plock = p /\ r.step \in Steps(r.op)
      BY <1>e, <2>1, <2>2 DEF InTransaction, InProjects, Op, At, LocksOK, Steps
    <2>5. LocksOK'
      BY <1>7, <1>n, <2>1, <2>2, <2>3, <2>4 DEF Refresh, Moves
    <2>6. tree' \in [Projects -> [Skills -> Entries]]
      <3>1. run[p].project \in Projects /\ tree \in [Projects -> [Skills -> Entries]]
        BY <1>r, <1>f, <2>1 DEF FilesOK
      <3>2. CASE tree' = tree
        BY <3>1, <3>2
      <3>3. CASE tree' = [tree EXCEPT ![run[p].project][n] = Missing]
        BY <1>w, <3>1, <3>3, EntryKinds
      <3>4. CASE Stale(run[p].project, n, run[p].seen)
                   /\ tree' = [tree EXCEPT ![run[p].project][n] = Entry("copy", hub[n])]
        <4>1. hub[n] \in Contents
          BY <1>f, <3>4 DEF Stale, FilesOK
        <4>2. Entry("copy", hub[n]) \in Entries
          BY <4>1, EntryKinds
        <4> QED
          BY <1>w, <3>1, <3>4, <4>2
      <3> QED
        BY <1>7, <3>2, <3>3, <3>4 DEF Refresh
    <2>7. faults' \in 0 .. MaxFaults /\ calm' \in BOOLEAN
      BY <1>7, <1>b DEF Refresh
    <2> QED
      BY <1>7, <1>f, <1>q, <2>5, <2>6, <2>7 DEF Refresh, FilesOK
  <1>8. ASSUME NEW p \in Procs, NEW j \in Projects, NEW n \in Skills, ClearProject(p, j, n)
        PROVE  Threaded'
    <2> DEFINE r == [run[p] EXCEPT !.step = "forget", !.project = j]
    <2>1. Op(p) = "uninstall" /\ At(p, "clear_all")
      BY <1>8, <1>r, OpsOfSteps DEF ClearProject, At, Op
    <2>2. /\ lists' = [lists EXCEPT ![j].names = @ \ {n}] /\ UNCHANGED <<hub, index, tree, locks>>
          /\ run' = [run EXCEPT ![p].step = "forget", ![p].project = j] /\ NoFault
      BY <1>8 DEF ClearProject
    <2>3. lists[j] \in Lists /\ lists' \in [Projects -> Lists]
      BY <1>f, <2>2 DEF FilesOK, Lists
    <2>4. r \in Runs /\ r.op = Op(p) /\ r.step = "forget" /\ r.project = j
          /\ r.skills = run[p].skills /\ r.at = {}
      BY <1>r, <2>1 DEF Runs, StepNames, Op, At, Looking
    <2>5. run' = [run EXCEPT ![p] = r]
      BY <1>r, <2>2 DEF Runs
    <2> HIDE DEF r
    <2>6. RecordOK(r)
      BY <1>r, <2>1, <2>4 DEF RecordOK, Steps, Op
    <2>7. /\ InTransaction(r) <=> InTransaction(run[p])
          /\ InProjects(r) <=> InProjects(run[p])
      BY <2>1, <2>4 DEF InTransaction, InProjects, Op, At
    <2>8. LocksOK'
      BY <2>2, <2>5, <2>6, <2>7, ThreadKeeps DEF LocksOK, Moves, locks
    <2> QED
      BY <1>f, <1>q, <2>2, <2>3, <2>8 DEF NoFault, FilesOK
  <1>f1. ASSUME NEW p \in Procs, NEW n \in Skills, Forget(p, n) PROVE Threaded'
    <2> DEFINE j == run[p].project
    <2>1. /\ Op(p) = "uninstall" /\ At(p, "forget") /\ j \in Projects
          /\ UNCHANGED <<hub, index, lists>>
      BY <1>f1, <1>r, OpsOfSteps DEF Forget, At, Op
    <2>2. CASE Fault /\ Return(p) /\ UNCHANGED tree
      BY <1>b, <1>f, <1>q, <1>z, <2>1, <2>2 DEF FilesOK
    <2>3. CASE /\ tree' = [tree EXCEPT ![j][n] = IF Owned(run[p].seen) THEN Missing ELSE @]
               /\ run' = [run EXCEPT ![p] = [Acted(run[p]) EXCEPT !.step = "clear_all",
                                                             !.todo = @ \ {j}]]
               /\ NoFault
               /\ UNCHANGED locks
      <3> DEFINE r == [run[p] EXCEPT !.at = {}, !.seen = Missing, !.step = "clear_all",
                                     !.todo = @ \ {j}]
      <3>1. r \in Runs /\ r.op = Op(p) /\ r.step = "clear_all"
            /\ r.project = run[p].project /\ r.skills = run[p].skills /\ r.at = {}
        BY <1>r, EntryKinds DEF Runs, StepNames, Op
      <3>2. run' = [run EXCEPT ![p] = r]
        BY <2>3 DEF Acted
      <3> HIDE DEF r
      <3>3. /\ InTransaction(r) <=> InTransaction(run[p])
            /\ InProjects(r) <=> InProjects(run[p])
            /\ r.step \in Steps(r.op)
        BY <2>1, <3>1 DEF InTransaction, InProjects, Op, Steps, At
      <3>4. LocksOK'
        BY <1>n, <2>1, <2>3, <3>1, <3>2, <3>3 DEF Moves, locks
      <3>5. tree' \in [Projects -> [Skills -> Entries]]
        BY <1>v, <2>1, <2>3
      <3> QED
        BY <1>b, <1>f, <1>q, <2>1, <2>3, <3>4, <3>5 DEF FilesOK
    <2> QED
      BY <1>f1, <2>2, <2>3 DEF Forget
  <1>l. ASSUME NEW p \in Procs, NEW n \in Skills, Look(p, n) PROVE Threaded'
    <2> DEFINE r == [run[p] EXCEPT !.at = {n}, !.seen = tree[run[p].project][n]]
    <2>1. run[p].step \in Looking /\ Op(p) # "none" /\ UNCHANGED <<disk, locks>>
      BY <1>l, <1>r, OpsOfSteps DEF Look, Due, Looking, Idle, Op
    <2>2. tree[run[p].project][n] \in Entries
      BY <1>f, <1>r, <2>1 DEF FilesOK
    <2>3. r \in Runs /\ r.op = Op(p) /\ r.step = run[p].step /\ r.project = run[p].project
          /\ r.skills = run[p].skills /\ r.todo = run[p].todo /\ r.at = {n}
      BY <1>r, <2>2 DEF Runs, Op
    <2>4. run' = [run EXCEPT ![p] = r]
      BY <1>l, <1>r DEF Look, Runs
    <2> HIDE DEF r
    <2>5. Due(r) = Due(run[p])
      BY <2>3 DEF Due
    <2>6. RecordOK(r)
      BY <1>l, <1>r, <2>1, <2>3, <2>5 DEF RecordOK, Op, Look
    <2>7. /\ InTransaction(r) <=> InTransaction(run[p])
          /\ InProjects(r) <=> InProjects(run[p])
      BY <2>3 DEF InTransaction, InProjects, Op
    <2>8. LocksOK'
      BY <2>1, <2>4, <2>6, <2>7, ThreadKeeps DEF LocksOK, Moves, locks
    <2> QED
      BY <1>f, <1>l, <1>q, <2>1, <2>8 DEF Look, NoFault, disk, FilesOK
  <1>9. ASSUME NEW p \in Procs, ClearEnds(p) PROVE Threaded'
    <2> DEFINE r == [run[p] EXCEPT !.step = "body"]
    <2>1. Op(p) = "uninstall" /\ At(p, "clear_all")
      BY <1>9, <1>r, OpsOfSteps DEF ClearEnds, At, Op
    <2>2. r \in Runs /\ r.op = Op(p) /\ r.step = "body"
          /\ r.project = run[p].project /\ r.skills = run[p].skills /\ r.at = {}
      BY <1>r, <2>1 DEF Runs, StepNames, Op, At, Looking
    <2>3. run' = [run EXCEPT ![p] = r]
      BY <1>9 DEF ClearEnds, Goes
    <2> HIDE DEF r
    <2>4. /\ InTransaction(r) /\ ~InProjects(r) /\ InTransaction(run[p])
          /\ plock = p /\ r.step \in Steps(r.op)
      BY <1>e, <2>1, <2>2 DEF InTransaction, InProjects, Op, At, LocksOK, Steps
    <2>5. LocksOK'
      BY <1>9, <1>n, <2>1, <2>2, <2>3, <2>4 DEF ClearEnds, Moves
    <2> QED
      BY <1>9, <1>f, <1>q, <2>5 DEF ClearEnds, NoFault, disk, FilesOK
  <1>10. ASSUME NEW p \in Procs, NEW n \in Skills, DeleteFolder(p, n) PROVE Threaded'
    <2>1. Return(p) /\ UNCHANGED <<index, lists, tree>>
      BY <1>10 DEF DeleteFolder
    <2>2. CASE UNCHANGED hub /\ Fault
      BY <1>b, <1>f, <1>q, <1>z, <2>1, <2>2 DEF FilesOK
    <2>3. CASE ~(UNCHANGED hub /\ Fault)
      <3>1. /\ hub' = [hub EXCEPT ![n] = Absent]
            /\ calm' = (calm /\ \A j \in Projects : ~Owned(tree[j][n]))
            /\ UNCHANGED faults
        BY <1>10, <2>3 DEF DeleteFolder
      <3>2. calm' \in BOOLEAN
        BY <3>1
      <3>3. hub' \in [Skills -> Contents \cup {Absent}]
        BY <1>f, <3>1 DEF FilesOK
      <3> QED
        BY <1>f, <1>q, <1>z, <2>1, <3>1, <3>2, <3>3 DEF FilesOK
    <2> QED
      BY <2>2, <2>3
  <1>11. ASSUME NEW p \in Procs, LoadIndex(p) PROVE Threaded'
    <2>1. /\ Op(p) \in {"save", "add", "import", "rebuild", "register", "remove"}
          /\ run[p].step = "index"
      BY <1>11, <1>r, OpsOfSteps DEF LoadIndex, At, Op
    <2>2. FilesOK'
      BY <1>11, <1>f DEF LoadIndex, NoFault, disk, FilesOK
    <2>3. CASE NothingToDo(p)
      BY <1>11, <1>q, <1>z, <2>2, <2>3 DEF LoadIndex
    <2>4. CASE ~NothingToDo(p)
      <3> DEFINE g == run[p].project \in index /\ Op(p) # "remove"
                 s == IF g THEN "load" ELSE "save_index"
                 x == IF g THEN {} ELSE index
                 k == IF Op(p) = "add" THEN Present(p) ELSE run[p].skills
                 r == [run[p] EXCEPT !.step = s, !.index = x, !.skills = k]
      <3>1. run' = [run EXCEPT ![p] = r] /\ UNCHANGED locks
        BY <1>11, <1>r, <2>4 DEF LoadIndex, Runs
      <3>2. ~g => Op(p) \in {"save", "add", "import", "rebuild", "register", "remove"}
        BY <2>1
      <3>3. g => Op(p) \in {"save", "add", "import", "rebuild"}
        BY <1>11, <2>1, <2>4 DEF NothingToDo
      <3>4. s \in {"load", "save_index"} /\ (s = "load" <=> g)
        OBVIOUS
      <3>5. x \in SUBSET Projects /\ k \in SUBSET Skills /\ (k = run[p].skills \/ Op(p) = "add")
        BY <1>r, <1>f DEF Present, Runs, FilesOK
      <3> HIDE DEF g, s, x, k
      <3>6. r \in Runs /\ r.op = Op(p) /\ r.step = s
            /\ r.project = run[p].project /\ (r.skills = run[p].skills \/ r.op = "add")
            /\ r.at = {}
        BY <1>r, <2>1, <3>4, <3>5 DEF Runs, StepNames, Op, Looking
      <3> HIDE DEF r
      <3>7. r.step \in Steps(r.op)
        BY <3>2, <3>3, <3>4, <3>6 DEF Steps
      <3>8. /\ InTransaction(r) <=> InTransaction(run[p])
            /\ InProjects(r) <=> InProjects(run[p])
        BY <2>1, <3>2, <3>3, <3>4, <3>6 DEF InTransaction, InProjects, Op, Unlocked
      <3>9. LocksOK'
        BY <1>n, <2>1, <3>1, <3>6, <3>7, <3>8 DEF Moves, locks
      <3> QED
        BY <1>q, <2>2, <3>9
    <2> QED
      BY <2>3, <2>4
  <1>12. ASSUME NEW p \in Procs, SaveIndex(p) PROVE Threaded'
    <2>1. /\ Op(p) \in {"save", "add", "import", "rebuild", "register", "remove"}
          /\ run[p].step = "save_index" /\ run[p].index \subseteq Projects
          /\ run[p].project \in Projects
      BY <1>12, <1>r, OpsOfSteps DEF SaveIndex, At, Op, Runs
    <2>2. index' \subseteq Projects /\ calm' \in BOOLEAN
      BY <1>12, <2>1 DEF SaveIndex
    <2>3. FilesOK'
      BY <1>12, <1>f, <2>2 DEF SaveIndex, FilesOK
    <2>4. CASE Return(p)
      BY <1>q, <1>z, <2>3, <2>4
    <2>5. CASE ~Return(p)
      <3> DEFINE s == IF Op(p) = "remove" THEN "drop_list" ELSE "load"
                 r == [run[p] EXCEPT !.index = {}, !.step = s]
      <3>1. run' = [run EXCEPT ![p] = r] /\ UNCHANGED locks /\ Op(p) # "register"
        BY <1>12, <1>r, <2>5 DEF SaveIndex, Runs
      <3>2. s \in {"load", "drop_list"} /\ (s = "load" <=> Op(p) # "remove")
        OBVIOUS
      <3> HIDE DEF s
      <3>3. r \in Runs /\ r.op = Op(p) /\ r.step = s
            /\ r.project = run[p].project /\ r.skills = run[p].skills /\ r.at = {}
        BY <1>r, <2>1, <3>2 DEF Runs, StepNames, Op, Looking
      <3> HIDE DEF r
      <3>4. r.step \in Steps(r.op)
        BY <2>1, <3>1, <3>2, <3>3 DEF Steps
      <3>5. /\ InTransaction(r) <=> InTransaction(run[p])
            /\ InProjects(r) <=> InProjects(run[p])
        BY <2>1, <3>1, <3>2, <3>3 DEF InTransaction, InProjects, Op, Unlocked
      <3>6. LocksOK'
        BY <1>n, <2>1, <3>1, <3>3, <3>4, <3>5 DEF Moves, locks
      <3> QED
        BY <1>q, <2>3, <3>6
    <2> QED
      BY <2>4, <2>5
  <1>13. ASSUME NEW p \in Procs, LoadList(p) PROVE Threaded'
    <2> DEFINE s == IF Op(p) = "import" THEN "adopt" ELSE "save"
               l == lists[run[p].project]
               r == [run[p] EXCEPT !.list = l, !.step = s]
    <2>1. /\ Op(p) \in {"save", "add", "import", "rebuild"} /\ run[p].step = "load"
          /\ run[p].project \in Projects
      BY <1>13, <1>r, OpsOfSteps DEF LoadList, At, Op
    <2>2. run' = [run EXCEPT ![p] = r]
      BY <1>13, <1>r DEF LoadList, Runs
    <2>3. s \in {"adopt", "save"} /\ (s = "adopt" <=> Op(p) = "import") /\ l \in Lists
      BY <1>f, <2>1 DEF FilesOK
    <2> HIDE DEF s, l
    <2>4. r \in Runs /\ r.op = Op(p) /\ r.step = s
          /\ r.project = run[p].project /\ r.skills = run[p].skills /\ r.at = {}
      BY <1>r, <2>1, <2>3 DEF Runs, StepNames, Op, Looking
    <2> HIDE DEF r
    <2>5. r.step \in Steps(r.op)
      BY <2>1, <2>3, <2>4 DEF Steps
    <2>6. /\ InTransaction(r) <=> InTransaction(run[p])
          /\ InProjects(r) <=> InProjects(run[p])
      BY <2>1, <2>3, <2>4 DEF InTransaction, InProjects, Op
    <2>7. LocksOK'
      BY <1>13, <1>n, <2>1, <2>2, <2>4, <2>5, <2>6 DEF LoadList, Moves, locks
    <2> QED
      BY <1>13, <1>f, <1>q, <2>7 DEF LoadList, NoFault, disk, FilesOK
  <1>14. ASSUME NEW p \in Procs, SaveList(p) PROVE Threaded'
    <2>1. /\ Op(p) \in {"save", "add", "import", "rebuild"} /\ run[p].step = "save"
          /\ run[p].project \in Projects /\ run[p] \in Runs
      BY <1>14, <1>r, OpsOfSteps DEF SaveList, At, Op
    <2>2. NewList(p) \in Lists
      <3>1. \A S \in SUBSET Skills, m \in Modes : Pruned(S, m) \in Lists /\ List(S, m) \in Lists
        BY DEF Pruned, List, Lists, Modes
      <3>2. /\ run[p].skills \in SUBSET Skills /\ run[p].mode \in Modes
            /\ run[p].list \in Lists
        BY <2>1 DEF Runs
      <3>3. /\ run[p].list.names \cup run[p].skills \in SUBSET Skills
            /\ run[p].list.mode \in Modes
        BY <3>2 DEF Lists
      <3>4. OnDisk(run[p].project) \in SUBSET Skills
        BY DEF OnDisk
      <3>5. CASE Op(p) = "save"
        BY <3>1, <3>2, <3>5 DEF NewList, Op
      <3>6. CASE Op(p) = "add"
        BY <3>1, <3>2, <3>3, <3>6 DEF NewList, Op
      <3>7. CASE Op(p) = "rebuild"
        BY <3>1, <3>3, <3>4, <3>7 DEF NewList, Op
      <3>8. CASE Op(p) = "import"
        BY <3>2, <3>8 DEF NewList, Op
      <3> QED
        BY <2>1, <3>5, <3>6, <3>7, <3>8
    <2>3. CASE Fault /\ Return(p) /\ UNCHANGED lists
      BY <1>14, <1>b, <1>f, <1>q, <1>z, <2>3 DEF SaveList, FilesOK
    <2>4. CASE ~(Fault /\ Return(p) /\ UNCHANGED lists)
      <3>1. lists' = [lists EXCEPT ![run[p].project] = NewList(p)] /\ NoFault
            /\ UNCHANGED <<hub, index, tree>>
        BY <1>14, <2>4, Zenon DEF SaveList
      <3>2. FilesOK'
        BY <1>b, <1>f, <2>1, <2>2, <3>1 DEF FilesOK
      <3>3. CASE Return(p)
        BY <1>q, <1>z, <3>2, <3>3
      <3>4. CASE ~Return(p)
        <4>1. PICK s \in {"clear", "deploy"}, k \in SUBSET Skills :
                /\ run' = [run EXCEPT ![p].step = s, ![p].todo = k]
                /\ UNCHANGED locks
                /\ Op(p) \in {"save", "add"} /\ (s = "clear" <=> Op(p) = "save")
          <5>1. CASE Op(p) = "save"
            BY <1>14, <2>4, <3>4, <5>1 DEF SaveList
          <5>2. CASE Op(p) = "add"
            BY <1>14, <2>1, <2>4, <3>4, <5>2 DEF SaveList, Runs
          <5> QED
            BY <1>14, <2>1, <2>4, <3>4, <5>1, <5>2, Zenon DEF SaveList
        <4> DEFINE r == [run[p] EXCEPT !.step = s, !.todo = k]
        <4>2. run' = [run EXCEPT ![p] = r]
          BY <1>r, <2>1, <4>1 DEF Runs
        <4>4. r \in Runs /\ r.op = Op(p) /\ r.step = s
              /\ r.project = run[p].project /\ r.skills = run[p].skills /\ r.at = {}
          BY <1>r, <2>1, <4>1 DEF Runs, StepNames, Op, Looking
        <4> HIDE DEF r
        <4>5. r.step \in Steps(r.op)
          BY <4>1, <4>4 DEF Steps
        <4>6. /\ InTransaction(r) <=> InTransaction(run[p])
              /\ InProjects(r) <=> InProjects(run[p])
          BY <2>1, <4>1, <4>4 DEF InTransaction, InProjects, Op
        <4>7. LocksOK'
          BY <1>n, <2>1, <4>1, <4>2, <4>4, <4>5, <4>6 DEF Moves, locks
        <4> QED
          BY <1>q, <3>2, <4>7
      <3> QED
        BY <3>3, <3>4
    <2> QED
      BY <2>3, <2>4
  <1>15. ASSUME NEW p \in Procs, NEW n \in Skills, Clear(p, n) PROVE Threaded'
    <2>1. /\ Op(p) = "save" /\ run[p].step = "clear" /\ run[p].project \in Projects
          /\ UNCHANGED <<hub, index, lists>>
      BY <1>15, <1>r, OpsOfSteps DEF Clear, At, Op
    <2>2. CASE Fault /\ Return(p) /\ UNCHANGED tree
      BY <1>b, <1>f, <1>q, <1>z, <2>1, <2>2 DEF FilesOK
    <2>3. CASE /\ tree' = [tree EXCEPT ![run[p].project][n] =
                              IF Owned(run[p].seen) THEN Missing ELSE @]
               /\ run' = [run EXCEPT ![p] = [Acted(run[p]) EXCEPT !.todo = @ \ {n}]]
               /\ NoFault
               /\ UNCHANGED locks
      <3>1. LocksOK'
        BY <1>g, <2>1, <2>3
      <3>2. tree' \in [Projects -> [Skills -> Entries]]
        BY <1>v, <2>1, <2>3
      <3> QED
        BY <1>b, <1>f, <1>q, <2>1, <2>3, <3>1, <3>2 DEF FilesOK
    <2> QED
      BY <1>15, <2>2, <2>3 DEF Clear
  <1>c. ASSUME NEW p \in Procs, Cleared(p) PROVE Threaded'
    <2> DEFINE r == [run[p] EXCEPT !.step = "deploy", !.todo = run[p].skills]
    <2>1. /\ Op(p) = "save" /\ run[p].step = "clear" /\ run[p].project \in Projects
      BY <1>c, <1>r, OpsOfSteps DEF Cleared, At, Op
    <2>2. run[p].at = {}
      BY <1>c, <1>r, <2>1, NotLooking DEF Cleared
    <2>3. r \in Runs /\ r.op = Op(p) /\ r.step = "deploy"
          /\ r.project = run[p].project /\ r.skills = run[p].skills /\ r.at = {}
      BY <1>r, <2>2 DEF Runs, StepNames, Op
    <2>4. run' = [run EXCEPT ![p] = r]
      BY <1>c, <1>r DEF Cleared, Runs
    <2> HIDE DEF r
    <2>5. /\ InTransaction(r) <=> InTransaction(run[p])
          /\ InProjects(r) <=> InProjects(run[p])
          /\ r.step \in Steps(r.op)
      BY <2>1, <2>3 DEF InTransaction, InProjects, Op, Steps
    <2>6. LocksOK'
      BY <1>c, <1>n, <2>1, <2>3, <2>4, <2>5 DEF Cleared, Moves, locks
    <2> QED
      BY <1>c, <1>f, <1>q, <2>6 DEF Cleared, NoFault, disk, FilesOK
  <1>16. ASSUME NEW p \in Procs, NEW n \in Skills, Deploy(p, n) PROVE Threaded'
    <2>1. /\ Op(p) \in {"save", "add"} /\ run[p].step = "deploy" /\ run[p].project \in Projects
      BY <1>16, <1>r, OpsOfSteps DEF Deploy, At, Op
    <2>2. LocksOK'
      BY <1>16, <1>g, <2>1 DEF Deploy
    <2>3. tree' \in [Projects -> [Skills -> Entries]]
      <3>1. Deployed(p, n) \in Entries
        BY <1>f DEF Deployed, Entries, FilesOK
      <3>2. tree' \in {tree, [tree EXCEPT ![run[p].project][n] = Missing],
                       [tree EXCEPT ![run[p].project][n] = Deployed(p, n)]}
        BY <1>16 DEF Deploy
      <3> QED
        BY <1>f, <1>w, <2>1, <3>1, <3>2, EntryKinds DEF FilesOK
    <2>4. faults' \in 0 .. MaxFaults /\ calm' \in BOOLEAN
      BY <1>16, <1>b DEF Deploy
    <2> QED
      BY <1>16, <1>f, <1>q, <2>2, <2>3, <2>4 DEF Deploy, FilesOK
  <1>17. ASSUME NEW p \in Procs, NEW n \in Skills, Adopt(p, n) PROVE Threaded'
    <2> DEFINE j == run[p].project
               saw == run[p].seen
    <2>1. /\ Op(p) = "import" /\ run[p].step = "adopt" /\ j \in Projects
          /\ UNCHANGED <<index, lists>> /\ NoFault
      BY <1>17, <1>r, OpsOfSteps DEF Adopt, At, Op
    <2>2. ASSUME NEW s \in {"link", "save"}, ActedTo(p, s), UNCHANGED locks PROVE LocksOK'
      <3> DEFINE r == [run[p] EXCEPT !.at = {}, !.seen = Missing, !.step = s]
      <3>1. r \in Runs /\ r.op = Op(p) /\ r.step = s
            /\ r.project = run[p].project /\ r.skills = run[p].skills /\ r.at = {}
        BY <1>r, EntryKinds DEF Runs, StepNames, Op
      <3>2. run' = [run EXCEPT ![p] = r]
        BY <2>2 DEF ActedTo, Acted
      <3> HIDE DEF r
      <3>3. /\ InTransaction(r) <=> InTransaction(run[p])
            /\ InProjects(r) <=> InProjects(run[p])
            /\ r.step \in Steps(r.op)
        BY <2>1, <3>1 DEF InTransaction, InProjects, Op, Steps
      <3> QED
        BY <1>n, <2>1, <2>2, <3>1, <3>2, <3>3 DEF Moves, locks
    <2>3. CASE /\ \E e \in {saw, tree[j][n]} :
                    hub' = [hub EXCEPT ![n] = IF @ = Absent THEN e.content ELSE @]
               /\ tree' = [tree EXCEPT ![j][n] = Missing]
               /\ ActedTo(p, "link")
               /\ UNCHANGED locks
      <3>1. saw \in Entries /\ tree[j][n] \in Entries
        BY <1>f, <1>r, <2>1 DEF FilesOK, Runs
      <3>2. saw.content \in Contents \cup {Absent} /\ tree[j][n].content \in Contents \cup {Absent}
        BY <3>1, EntryKinds
      <3> HIDE DEF saw, j
      <3>4. hub' \in [Skills -> Contents \cup {Absent}]
        BY <1>f, <2>3, <3>2 DEF FilesOK
      <3>3. tree' \in [Projects -> [Skills -> Entries]]
        BY <1>w, <2>1, <2>3, EntryKinds
      <3> QED
        BY <1>b, <1>f, <1>q, <2>1, <2>2, <2>3, <3>3, <3>4 DEF FilesOK
    <2>4. CASE Return(p) /\ UNCHANGED <<hub, tree>>
      BY <1>b, <1>f, <1>q, <1>z, <2>1, <2>4 DEF FilesOK
    <2>5. CASE ActedTo(p, "save") /\ UNCHANGED <<hub, tree, locks>>
      BY <1>b, <1>f, <1>q, <2>1, <2>2, <2>5 DEF FilesOK
    <2> QED
      BY <1>17, <2>3, <2>4, <2>5 DEF Adopt
  <1>18. ASSUME NEW p \in Procs, NEW n \in Skills, LinkAdopted(p, n) PROVE Threaded'
    <2>1. /\ Op(p) = "import" /\ run[p].step = "link" /\ run[p].project \in Projects
          /\ run[p] \in Runs
      BY <1>18, <1>r, OpsOfSteps DEF LinkAdopted, At, Op
    <2>2. UNCHANGED <<hub, index, lists>>
      BY <1>18 DEF LinkAdopted
    <2>3. CASE /\ tree' = [tree EXCEPT ![run[p].project][n] = Link]
               /\ run' = [run EXCEPT ![p].step = "save", ![p].list.names = @ \cup {n}]
               /\ NoFault
               /\ UNCHANGED locks
      <3> DEFINE l == [run[p].list EXCEPT !.names = @ \cup {n}]
                 r == [run[p] EXCEPT !.step = "save", !.list = l]
      <3>1. l \in Lists
        BY <2>1 DEF Runs, Lists
      <3>2. r \in Runs /\ r.op = Op(p) /\ r.step = "save"
            /\ r.project = run[p].project /\ r.skills = run[p].skills /\ r.at = {}
        BY <1>r, <2>1, <3>1 DEF Runs, StepNames, Op, Looking
      <3>3. run' = [run EXCEPT ![p] = r]
        BY <1>r, <2>1, <2>3 DEF Runs, Lists
      <3> HIDE DEF r
      <3>4. /\ InTransaction(r) <=> InTransaction(run[p])
            /\ InProjects(r) <=> InProjects(run[p])
            /\ r.step \in Steps(r.op)
        BY <2>1, <3>2 DEF InTransaction, InProjects, Op, Steps
      <3>5. LocksOK'
        BY <1>n, <2>1, <2>3, <3>2, <3>3, <3>4 DEF Moves, locks
      <3>6. tree' \in [Projects -> [Skills -> Entries]]
        BY <1>w, <2>1, <2>3, EntryKinds
      <3> QED
        BY <1>b, <1>f, <1>q, <2>2, <2>3, <3>5, <3>6 DEF FilesOK
    <2>4. CASE UNCHANGED tree /\ Return(p) /\ (Fault \/ NoFault)
      BY <1>b, <1>f, <1>q, <1>z, <2>2, <2>4 DEF FilesOK
    <2> QED
      BY <1>18, <2>3, <2>4 DEF LinkAdopted
  <1>19. ASSUME NEW j \in Projects, NEW n \in Skills, UserEdits(j, n) PROVE Threaded'
    <2>1. PICK e \in {Missing} \cup {Entry("user", c) : c \in UserContents} :
            tree' = [tree EXCEPT ![j][n] = e]
      BY <1>19 DEF UserEdits
    <2>2. e \in Entries
      BY ContentsAssumption DEF Entries
    <2>3. tree' \in [Projects -> [Skills -> Entries]]
      BY <1>f, <2>1, <2>2 DEF FilesOK
    <2>4. LocksOK'
      BY <1>19, <1>e DEF UserEdits, locks, LocksOK
    <2> QED
      BY <1>19, <1>f, <1>q, <2>3, <2>4 DEF UserEdits, FilesOK
  <1>20. ASSUME NEW p \in Procs, Crash(p) PROVE Threaded'
    BY <1>20, <1>b, <1>f, <1>q, <1>z DEF Crash, disk, FilesOK
  <1>21. ASSUME NEW p \in Procs, Work(p) PROVE Threaded'
    BY <1>21, <1>4, <1>5, <1>6, <1>7, <1>8, <1>f1, <1>l, <1>9, <1>10, <1>11, <1>12, <1>13,
       <1>14, <1>15, <1>c, <1>16, <1>17, <1>18 DEF Work
  <1> QED
    BY <1>0, <1>1, <1>2, <1>3, <1>19, <1>20, <1>21 DEF Next

\* Every step keeps it.
LEMMA AlwaysThreaded == Spec => []Threaded
  BY InitThreaded, StepThreaded, PTL DEF Spec

\* Folders, lists, entries, locks and the state of every thread have their
\* types.
THEOREM TypeCorrect == Spec => []TypeOK
  <1>1. Threaded => TypeOK
    BY DEF Threaded
  <1> QED
    BY <1>1, AlwaysThreaded, PTL

\* No thread that has the project lock waits for the transaction while the
\* owner of the transaction waits for the project lock.
THEOREM LocksAreOrdered == Spec => []NoLockCycle
  <1>1. ASSUME Threaded PROVE NoLockCycle
    <2>1. ASSUME NEW p \in Procs, plock = p PROVE ~At(p, "txn")
      BY <1>1, <2>1 DEF Threaded, InProjects, At
    <2> QED
      BY <2>1 DEF NoLockCycle
  <1> QED
    BY <1>1, AlwaysThreaded, PTL
-----------------------------------------------------------------------------
\* The other threads are as they were.
Alone(p) == \A q \in Procs \ {p} : run'[q] = run[q]

\* What thread p saw under a name is still there, or the user's hand has been there.
Stays(p, n) == LET e == tree[run[p].project][n] IN
    e \in {run[p].seen, Missing} \/ e.kind = "user"

Seeing == \A p \in Procs : \A n \in run[p].at : Stays(p, n)

\* The thread returns.
LEMMA Returns ==
    ASSUME Threaded, NEW p \in Procs, Return(p)
    PROVE  Alone(p) /\ run'[p] = Idle
  BY DEF Return, Alone, Threaded

\* Only the owner of the project lock is at an entry.
LEMMA SeeingStays ==
    ASSUME Threaded, Seeing, NEW p \in Procs, Alone(p), tree' = tree \/ plock = p,
           \A n \in run'[p].at : Stays(p, n)'
    PROVE  Seeing'
  <1> SUFFICES ASSUME NEW q \in Procs \ {p}, NEW n \in run'[q].at PROVE Stays(q, n)'
    BY DEF Seeing
  <1>1. run'[q] = run[q] /\ n \in run[q].at /\ Stays(q, n)
    BY DEF Alone, Seeing
  <1>2. run[q].step \in Looking
    BY <1>1, NotLooking DEF Threaded
  <1>3. plock = q
    BY <1>2 DEF Threaded, InProjects, Looking
  <1> QED
    BY <1>1, <1>3 DEF Stays

\* Thread p has acted on an entry, and goes on with its operation.
LeavesEntry(p) == /\ run'[p].op = run[p].op /\ run'[p].skills = run[p].skills
                  /\ run'[p].project = run[p].project
                  /\ run'[p].at = {} /\ run'[p].seen = Missing

\* A thread that acts on an entry leaves it, and the others alone.
LEMMA ActsOnEntry ==
    ASSUME Threaded, NEW p \in Procs, NEW n \in Skills,
           \/ Refresh(p, n) \/ Forget(p, n) \/ Clear(p, n) \/ Deploy(p, n) \/ Adopt(p, n)
    PROVE  /\ Alone(p) /\ run'[p].at = {} /\ n \in run[p].at
           /\ Return(p) \/ LeavesEntry(p)
  <1>t. run \in [Procs -> Runs] /\ run[p] \in Runs
    BY DEF Threaded
  <1> DEFINE r == [run[p] EXCEPT !.at = {}, !.seen = Missing]
             Left(x) == /\ x.op = run[p].op /\ x.skills = run[p].skills
                        /\ x.project = run[p].project /\ x.at = {} /\ x.seen = Missing
  <1>1. \A s : Left([r EXCEPT !.step = s])
    BY <1>t DEF Runs
  <1>2. \A T : Left([r EXCEPT !.todo = T])
    BY <1>t DEF Runs
  <1>3. \A s, T : Left([r EXCEPT !.step = s, !.todo = T])
    BY <1>t DEF Runs
  <1>4. \/ Return(p)
        \/ \E s : run' = [run EXCEPT ![p] = [r EXCEPT !.step = s]]
        \/ \E T : run' = [run EXCEPT ![p] = [r EXCEPT !.todo = T]]
        \/ \E s, T : run' = [run EXCEPT ![p] = [r EXCEPT !.step = s, !.todo = T]]
    <2>1. CASE Refresh(p, n)
      BY <2>1 DEF Refresh, ActedTo, Acted
    <2>2. CASE Forget(p, n)
      BY <2>2 DEF Forget, Acted
    <2>3. CASE Clear(p, n)
      BY <2>3 DEF Clear, Acted
    <2>4. CASE Deploy(p, n)
      BY <2>4 DEF Deploy, Acted
    <2>5. CASE Adopt(p, n)
      BY <2>5 DEF Adopt, ActedTo, Acted
    <2> QED
      BY <2>1, <2>2, <2>3, <2>4, <2>5
  <1>5. n \in run[p].at
    BY DEF Refresh, Forget, Clear, Deploy, Adopt
  <1> HIDE DEF r
  <1>6. CASE Return(p)
    BY <1>5, <1>6, Returns DEF Idle
  <1>7. CASE ~Return(p)
    <2> HIDE DEF Left
    <2>1. PICK x : run' = [run EXCEPT ![p] = x] /\ Left(x)
      BY <1>1, <1>2, <1>3, <1>4, <1>7
    <2> QED
      BY <1>t, <1>5, <2>1 DEF Alone, Left, LeavesEntry
  <1> QED
    BY <1>6, <1>7

\* Nothing but the user's hand comes between a look and what follows it.
LEMMA StepSeeing ==
    ASSUME Threaded, Seeing, [Next]_vars
    PROVE  Seeing'
  <1>t. /\ tree \in [Projects -> [Skills -> Entries]] /\ run \in [Procs -> Runs]
        /\ \A p \in Procs : run[p] \in Runs /\ RecordOK(run[p])
    BY DEF Threaded, TypeOK
  <1>r. ASSUME NEW p \in Procs
        PROVE  /\ run[p].step \notin Looking => run[p].at = {}
               /\ run[p].step \in {"clear", "deploy"} /\ run[p].todo = {} => run[p].at = {}
               /\ InProjects(run[p]) => plock = p
    BY <1>t, NotLooking DEF Threaded
  <1>q. ASSUME NEW p \in Procs, Alone(p), tree' = tree \/ plock = p, run'[p].at = {}
        PROVE  Seeing'
    BY <1>q, SeeingStays
  <1>w. ASSUME NEW p \in Procs, Return(p), UNCHANGED tree PROVE Seeing'
    BY <1>w, <1>q, Returns DEF Idle
  <1>0. CASE UNCHANGED vars
    BY <1>0 DEF vars, disk, Seeing, Stays
  <1>1. ASSUME NEW p \in Procs, NEW o \in Operations, NEW j \in Projects,
               NEW S \in SUBSET Skills, NEW m \in Modes, Start(p, o, j, S, m)
        PROVE  Seeing'
    <2>1. Alone(p) /\ run'[p].at = {} /\ UNCHANGED tree
      BY <1>1, <1>t DEF Start, Alone, disk, Idle
    <2> QED
      BY <2>1, <1>q
  <1>2. ASSUME NEW p \in Procs, TakeTransaction(p) \/ TakeProjects(p) PROVE Seeing'
    <2>1. Alone(p) /\ run'[p].at = run[p].at /\ UNCHANGED tree
      BY <1>2, <1>t DEF TakeTransaction, TakeProjects, Goes, Alone, disk, Runs
    <2>2. run[p].at = {}
      BY <1>2, <1>r DEF TakeTransaction, TakeProjects, At, Looking
    <2> QED
      BY <2>1, <2>2, <1>q
  <1>3. ASSUME NEW p \in Procs, NEW n \in Skills, NEW c \in Contents, WriteFolder(p, n, c)
        PROVE  Seeing'
    <2>1. run[p].at = {}
      BY <1>3, <1>r DEF WriteFolder, At, Looking
    <2>2. Alone(p) /\ run'[p].at = {} /\ UNCHANGED tree
      BY <1>3, <1>t, <2>1 DEF WriteFolder, Alone, Runs, Idle
    <2> QED
      BY <2>2, <1>q
  <1>4. ASSUME NEW p \in Procs, \/ WriteNothing(p) \/ CascadeEnds(p) \/ DropList(p)
                                \/ DeployEnds(p) \/ Crash(p)
                                \/ \E n \in Skills : DeleteFolder(p, n)
        PROVE  Seeing'
    BY <1>4, <1>w DEF WriteNothing, CascadeEnds, DropList, DeployEnds, Crash, DeleteFolder, disk
  <1>5. ASSUME NEW p \in Procs, \/ \E j \in Projects : Cascade(p, j)
                                \/ \E j \in Projects, n \in Skills : ClearProject(p, j, n)
                                \/ ClearEnds(p) \/ LoadList(p) \/ Cleared(p)
        PROVE  Seeing'
    <2>1. Alone(p) /\ run'[p].at = run[p].at /\ UNCHANGED tree
      <3>1. ASSUME NEW j \in Projects, Cascade(p, j)
            PROVE  Alone(p) /\ run'[p].at = run[p].at /\ UNCHANGED tree
        BY <1>t, <3>1 DEF Cascade, Alone, disk, Runs
      <3>2. ASSUME NEW j \in Projects, NEW n \in Skills, ClearProject(p, j, n)
            PROVE  Alone(p) /\ run'[p].at = run[p].at /\ UNCHANGED tree
        BY <1>t, <3>2 DEF ClearProject, Alone, Runs
      <3>3. CASE ClearEnds(p)
        BY <1>t, <3>3 DEF ClearEnds, Goes, Alone, disk, Runs
      <3>4. CASE LoadList(p)
        BY <1>t, <3>4 DEF LoadList, Alone, disk, Runs
      <3>5. CASE Cleared(p)
        BY <1>t, <3>5 DEF Cleared, Alone, disk, Runs
      <3> QED
        BY <1>5, <3>1, <3>2, <3>3, <3>4, <3>5
    <2>2. run[p].at = {}
      BY <1>5, <1>r DEF Cascade, ClearProject, ClearEnds, LoadList, Cleared, At, Looking
    <2> QED
      BY <2>1, <2>2, <1>q
  <1>6. ASSUME NEW p \in Procs, LoadIndex(p) \/ SaveIndex(p) \/ SaveList(p) PROVE Seeing'
    <2>1. UNCHANGED tree
      BY <1>6 DEF LoadIndex, SaveIndex, SaveList, disk
    <2>2. run[p].at = {}
      BY <1>6, <1>r DEF LoadIndex, SaveIndex, SaveList, At, Looking
    <2>3. ASSUME ~Return(p) PROVE Alone(p) /\ run'[p].at = run[p].at
      <3>1. CASE LoadIndex(p)
        <4>1. \E x, y, z : run' = [run EXCEPT ![p].step = x, ![p].index = y, ![p].skills = z]
          BY <2>3, <3>1 DEF LoadIndex
        <4> QED
          BY <1>t, <4>1 DEF Alone, Runs
      <3>2. CASE SaveIndex(p)
        <4>1. \E x, y : run' = [run EXCEPT ![p].index = y, ![p].step = x]
          BY <2>3, <3>2 DEF SaveIndex
        <4> QED
          BY <1>t, <4>1 DEF Alone, Runs
      <3>3. CASE SaveList(p)
        <4>1. \E x, y : run' = [run EXCEPT ![p].step = x, ![p].todo = y]
          BY <2>3, <3>3 DEF SaveList
        <4> QED
          BY <1>t, <4>1 DEF Alone, Runs
      <3> QED
        BY <1>6, <3>1, <3>2, <3>3
    <2> QED
      BY <2>1, <2>2, <2>3, <1>q, <1>w
  <1>7. ASSUME NEW p \in Procs, NEW n \in Skills, Look(p, n) PROVE Seeing'
    <2>1. /\ Alone(p) /\ run'[p].at = {n} /\ UNCHANGED tree /\ run'[p].project = run[p].project
          /\ run'[p].seen = tree[run[p].project][n]
      BY <1>7, <1>t DEF Look, Alone, disk, Runs
    <2> QED
      BY <2>1, SeeingStays DEF Stays
  <1>8. ASSUME NEW p \in Procs, NEW n \in Skills,
               \/ Refresh(p, n) \/ Forget(p, n) \/ Clear(p, n) \/ Deploy(p, n) \/ Adopt(p, n)
        PROVE  Seeing'
    <2>1. plock = p
      BY <1>8, <1>r DEF Refresh, Forget, Clear, Deploy, Adopt, At, InProjects
    <2>2. Alone(p) /\ run'[p].at = {}
      BY <1>8, ActsOnEntry
    <2> QED
      BY <2>1, <2>2, <1>q
  <1>9. ASSUME NEW p \in Procs, NEW n \in Skills, LinkAdopted(p, n) PROVE Seeing'
    <2>1. plock = p /\ run[p].at = {}
      BY <1>9, <1>r DEF LinkAdopted, At, InProjects, Looking
    <2>2. Alone(p) /\ run'[p].at = {}
      <3>1. CASE Return(p)
        BY <3>1, Returns DEF Idle
      <3>2. CASE ~Return(p)
        BY <1>9, <1>t, <2>1, <3>2 DEF LinkAdopted, Alone, Runs
      <3> QED
        BY <3>1, <3>2
    <2> QED
      BY <2>1, <2>2, <1>q
  <1>10. ASSUME NEW j \in Projects, NEW n \in Skills, UserEdits(j, n) PROVE Seeing'
    <2>1. UNCHANGED run /\ \E e \in {Missing} \cup {Entry("user", c) : c \in UserContents} :
            tree' = [tree EXCEPT ![j][n] = e]
      BY <1>10 DEF UserEdits
    <2>2. \A i \in Projects, m \in Skills :
            tree'[i][m] \in {tree[i][m], Missing} \/ tree'[i][m].kind = "user"
      BY <1>t, <2>1 DEF Entry
    <2>3. ASSUME NEW p \in Procs, NEW m \in run[p].at PROVE Stays(p, m)'
      <3>1. Stays(p, m) /\ run[p].project \in Projects /\ m \in Skills
        BY <1>t DEF Seeing, RecordOK, Runs, Idle
      <3> QED
        BY <2>1, <2>2, <3>1 DEF Stays
    <2> QED
      BY <2>1, <2>3 DEF Seeing
  <1>11. ASSUME NEW p \in Procs, Work(p) PROVE Seeing'
    BY <1>11, <1>3, <1>4, <1>5, <1>6, <1>7, <1>8, <1>9 DEF Work
  <1> QED
    BY <1>0, <1>1, <1>2, <1>4, <1>10, <1>11 DEF Next
-----------------------------------------------------------------------------
\* The steps that work on the lists and entries of one project.
Writing == {"load", "adopt", "link", "save", "clear", "deploy"}

\* Project j has a marked copy under the name of Skill n.
Copied(j, n) == tree[j][n].kind = "copy"

\* SkillStar's entry of Skill n is about to leave project j.
Clearing == {"clear", "forget"}
Leaving(j, n) == \E p \in Procs :
    /\ run[p].project = j
    /\ \/ At(p, "clear") /\ n \in run[p].todo
       \/ At(p, "forget") /\ n \in run[p].skills

\* What a writer knows of its project while nothing has failed: the project is
\* registered; the list it loaded still has every name; a sync has saved what it is
\* about to deploy; what is to be deployed is listed.
Kept(p) ==
    LET r == run[p]
        j == run[p].project IN
    /\ r.op # "remove"
    /\ r.step \in Writing => j \in index
    /\ r.step \in {"save", "adopt", "link"} => lists[j].names \subseteq r.list.names
    /\ r.step = "clear" => r.skills = lists[j].names
    /\ r.step = "deploy" => r.todo \subseteq lists[j].names

\* A copy belongs to a registered project, has a folder behind it, and is listed,
\* unless it is about to leave.
Placed == \A j \in Projects, n \in Skills :
    Copied(j, n) => /\ j \in index /\ hub[n] # Absent
                    /\ n \in lists[j].names \/ Leaving(j, n)

\* An update in this state is yet to look at the copy of Skill n in project j.
Owes(r, j, n) ==
    /\ r.op = "update" /\ n \in r.skills
    /\ \/ r.step \in {"cascade", "projects", "refresh"} /\ j \in r.todo
       \/ r.step \in {"projects", "refresh"} /\ r.project = j

\* A listed copy is of what the folder holds, or an update owes it.
Current == \A j \in index, n \in Skills :
    (n \in lists[j].names /\ Copied(j, n) /\ hub[n] # Absent) =>
        tree[j][n].content = hub[n] \/ \E p \in Procs : Owes(run[p], j, n)

\* What holds while nothing has failed.
Quiet == (\A p \in Procs : Kept(p)) /\ Placed /\ Current

\* Thread p still owes what it owed, but for copies that are current.
OwesOn(p) == \A j \in index, n \in Skills :
    (Owes(run[p], j, n) /\ n \in lists[j].names /\ Copied(j, n) /\ hub[n] # Absent) =>
        Owes(run'[p], j, n) \/ tree[j][n].content = hub[n]

\* What the other writers know stays true: the step of p changes no list, or p owns
\* the project lock, so that nobody else writes.
LEMMA OthersKept ==
    ASSUME Threaded, Quiet, NEW p \in Procs, Alone(p), index \subseteq index',
           lists' = lists \/ plock = p
    PROVE  \A q \in Procs \ {p} : Kept(q)'
  <1> SUFFICES ASSUME NEW q \in Procs \ {p} PROVE Kept(q)'
    OBVIOUS
  <1>1. Kept(q) /\ run'[q] = run[q]
    BY DEF Quiet, Alone
  <1>2. CASE run[q].step \notin Writing
    BY <1>1, <1>2 DEF Kept, Writing
  <1>3. CASE run[q].step \in Writing
    <2>1. plock = q
      BY <1>3 DEF Threaded, InProjects, Writing
    <2>2. lists' = lists
      BY <2>1
    <2> QED
      BY <1>1, <2>2 DEF Kept
  <1> QED
    BY <1>2, <1>3

\* Beside the owner of the project lock no other thread takes entries away.
LEMMA OneClears ==
    ASSUME Threaded, NEW p \in Procs, plock = p, NEW j, NEW n, Leaving(j, n)
    PROVE  /\ run[p].project = j
           /\ \/ At(p, "clear") /\ n \in run[p].todo
              \/ At(p, "forget") /\ n \in run[p].skills
  BY DEF Threaded, InProjects, Leaving, At

\* A step of a thread that takes none away, or still has it to do.
LEMMA LeavingStays ==
    ASSUME NEW p \in Procs, Alone(p),
           \/ run[p].step \notin Clearing
           \/ /\ run'[p].project = run[p].project /\ run'[p].step = run[p].step
              /\ run'[p].skills = run[p].skills /\ run'[p].todo = run[p].todo
    PROVE  \A j, n : Leaving(j, n) => Leaving(j, n)'
  BY DEF Leaving, At, Alone, Clearing

\* A step that makes no copy and leaves the others listed as they were.
LEMMA CurrentStays ==
    ASSUME Threaded, Quiet, NEW p \in Procs, Alone(p), OwesOn(p),
           \A n \in Skills : hub'[n] = hub[n] \/ hub[n] = Absent \/ hub'[n] = Absent,
           \A j \in Projects, n \in Skills :
             Copied(j, n)' => /\ Copied(j, n) /\ tree'[j][n] = tree[j][n]
                              /\ n \in lists'[j].names => n \in lists[j].names,
           index' \subseteq Projects
    PROVE  Current'
  <1> SUFFICES ASSUME NEW j \in Projects, NEW n \in Skills, n \in lists'[j].names,
                      Copied(j, n)', hub'[n] # Absent
               PROVE  tree'[j][n].content = hub'[n] \/ \E q \in Procs : Owes(run'[q], j, n)
    BY DEF Current
  <1>1. /\ Copied(j, n) /\ tree'[j][n] = tree[j][n] /\ n \in lists[j].names
        /\ j \in index /\ hub[n] # Absent /\ hub'[n] = hub[n]
    BY DEF Quiet, Placed
  <1>2. tree[j][n].content = hub[n] \/ \E q \in Procs : Owes(run[q], j, n)
    BY <1>1 DEF Quiet, Current
  <1>3. CASE tree[j][n].content = hub[n]
    BY <1>1, <1>3
  <1>4. ASSUME NEW q \in Procs, Owes(run[q], j, n)
        PROVE  Owes(run'[q], j, n) \/ tree[j][n].content = hub[n]
    BY <1>1, <1>4 DEF Alone, OwesOn
  <1> QED
    BY <1>1, <1>2, <1>3, <1>4

\* A step that leaves the files alone.
LEMMA ElsewhereQuiet ==
    ASSUME Threaded, Quiet, NEW p \in Procs, Alone(p), Kept(p)', OwesOn(p),
           UNCHANGED disk, \A j, n : Leaving(j, n) => Leaving(j, n)'
    PROVE  Quiet'
  <1>1. \A q \in Procs \ {p} : Kept(q)'
    BY OthersKept DEF disk
  <1>3. Placed'
    BY DEF Quiet, Placed, Copied, disk
  <1>4. index' \subseteq Projects
    BY DEF Threaded, TypeOK, disk
  <1>5. Current'
    BY <1>4, CurrentStays DEF disk, Copied
  <1> QED
    BY <1>1, <1>3, <1>5 DEF Quiet

\* At the other steps a thread need know nothing of a project.
LEMMA KeptElsewhere ==
    ASSUME NEW p \in Procs, run'[p].op # "remove", run'[p].step \notin Writing
    PROVE  Kept(p)'
  BY DEF Kept, Writing

\* A thread that updates nothing, or not yet, owes no copy.
LEMMA NothingOwed ==
    ASSUME NEW p, Op(p) # "update" \/ run[p].step \notin {"cascade", "projects", "refresh"}
    PROVE  OwesOn(p)
  BY DEF OwesOn, Owes, Op

\* The thread returns.
LEMMA ReturnAlone ==
    ASSUME Threaded, NEW p \in Procs, Return(p)
    PROVE  Alone(p) /\ Kept(p)'
  <1>1. Alone(p) /\ run'[p] = Idle
    BY Returns
  <1>2. Kept(p)'
    BY <1>1, KeptElsewhere DEF Idle, Writing
  <1> QED
    BY <1>1, <1>2

\* While nothing has failed, every step keeps what writers know, where copies
\* are, and that they are current.
LEMMA StepQuiet ==
    ASSUME Threaded, Threaded', Seeing, [Next]_vars, calm => Quiet, calm'
    PROVE  Quiet'
  <1>t. /\ index' \subseteq Projects /\ index \subseteq Projects
        /\ hub \in [Skills -> Contents \cup {Absent}]
        /\ lists \in [Projects -> Lists]
        /\ tree \in [Projects -> [Skills -> Entries]]
    BY DEF Threaded, TypeOK, Lists
  <1>r. ASSUME NEW p \in Procs
        PROVE  /\ run[p] \in Runs /\ RecordOK(run[p]) /\ run \in [Procs -> Runs]
               /\ Op(p) # "none" => run[p].project \in Projects
               /\ plock = p <=> InProjects(run[p])
    BY DEF Threaded, RecordOK, Op
  <1>n. ASSUME Fault \/ NoFault PROVE calm /\ NoFault /\ Quiet
    BY <1>n DEF Fault, NoFault
  <1>k. ASSUME calm, NEW p \in Procs PROVE Kept(p) /\ Op(p) # "remove"
    BY <1>k DEF Quiet, Kept, Op
  <1>0. CASE UNCHANGED vars
    BY <1>0 DEF vars, disk, locks, Quiet, Kept, Placed, Current, Copied, Leaving, Owes, At
  <1>1. ASSUME NEW p \in Procs, NEW o \in Operations, NEW j \in Projects,
               NEW S \in SUBSET Skills, NEW m \in Modes, Start(p, o, j, S, m)
        PROVE  Quiet'
    <2>1. o \in {"save", "add", "import", "rebuild", "register",
                 "install", "update", "uninstall"} /\ calm
      BY <1>1, OperationsAssumption DEF Start
    <2>2. run'[p].op = o /\ run'[p].step = FirstStep(o) /\ Alone(p)
      BY <1>1, <1>r DEF Start, Alone, Idle
    <2>3. FirstStep(o) \in {"txn", "projects", "index"}
      BY <1>1, FirstSteps
    <2>4. run[p].op = "none" /\ run[p].step \notin Clearing /\ OwesOn(p) /\ UNCHANGED disk
      BY <1>1, NothingOwed DEF Clearing, Start, Idle, At, Op
    <2>5. Kept(p)'
      BY <2>1, <2>2, <2>3, KeptElsewhere DEF Writing
    <2> QED
      BY <2>1, <2>2, <2>4, <2>5, LeavingStays, ElsewhereQuiet
  <1>2. ASSUME NEW p \in Procs, TakeTransaction(p) PROVE Quiet'
    <2>1. Op(p) \in {"import", "install", "update", "uninstall"} /\ At(p, "txn") /\ calm
      BY <1>2, <1>r, OpsOfSteps DEF TakeTransaction, At, Op
    <2>2. run'[p].op = Op(p) /\ run'[p].step = After(Op(p), "txn") /\ Alone(p)
      BY <1>2, <1>r DEF TakeTransaction, Goes, Alone, Runs, Op
    <2>3. After(Op(p), "txn") \in {"projects", "folder"}
      BY <2>1 DEF After, Locks, Body, Unlocked
    <2>4. run[p].step \notin Clearing /\ OwesOn(p) /\ UNCHANGED disk
      BY <1>2, <2>1, NothingOwed DEF Clearing, TakeTransaction, At, disk
    <2>5. Kept(p)'
      BY <2>1, <2>2, <2>3, KeptElsewhere DEF Writing
    <2> QED
      BY <2>1, <2>2, <2>4, <2>5, LeavingStays, ElsewhereQuiet
  <1>3. ASSUME NEW p \in Procs, TakeProjects(p) PROVE Quiet'
    <2>1. Op(p) \in {"save", "add", "import", "rebuild", "update", "uninstall"}
          /\ At(p, "projects") /\ calm
      BY <1>3, <1>r, OpsOfSteps DEF TakeProjects, At, Op
    <2>2. /\ run'[p].op = Op(p) /\ run'[p].step = After(Op(p), "projects") /\ Alone(p)
          /\ run'[p].skills = run[p].skills /\ run'[p].project = run[p].project
          /\ Op(p) = "update" => run'[p].todo = run[p].todo
      BY <1>3, <1>r DEF TakeProjects, Alone, Runs, Op
    <2>3. /\ After(Op(p), "projects") \in {"index", "clear_all", "refresh"}
          /\ Op(p) = "update" => After(Op(p), "projects") = "refresh"
      BY <2>1 DEF After, Locks, Body, Unlocked
    <2>4. run[p].step \notin Clearing /\ UNCHANGED disk
      BY <1>3, <2>1 DEF Clearing, TakeProjects, At, disk
    <2>5. Kept(p)'
      BY <2>1, <2>2, <2>3, KeptElsewhere DEF Writing
    <2>6. OwesOn(p)
      BY <2>1, <2>2, <2>3 DEF OwesOn, Owes, Op, At
    <2> QED
      BY <2>1, <2>2, <2>4, <2>5, <2>6, LeavingStays, ElsewhereQuiet
  <1>4. ASSUME NEW p \in Procs, NEW n \in Skills, NEW c \in Contents, WriteFolder(p, n, c)
        PROVE  Quiet'
    <2>1. Op(p) \in {"install", "update"} /\ At(p, "folder") /\ calm /\ Quiet
      BY <1>4, <1>n, <1>r, OpsOfSteps DEF WriteFolder, At, Op
    <2>2. /\ hub' = [hub EXCEPT ![n] = c] /\ UNCHANGED <<index, lists, tree>> /\ c # Absent
          /\ (hub[n] = Absent) = (Op(p) = "install") /\ n \in run[p].skills
      BY <1>4, ContentsAssumption DEF WriteFolder
    <2>3. Alone(p)
      BY <1>4, <1>r DEF WriteFolder, Alone
    <2>4. Op(p) = "install" => run'[p] = Idle
      BY <1>4, <1>r DEF WriteFolder
    <2>5. Op(p) = "update" => /\ run'[p].op = "update" /\ run'[p].step = "cascade"
                              /\ run'[p].skills = run[p].skills /\ run'[p].todo = index
      BY <1>4, <1>r DEF WriteFolder, Op, Runs
    <2>6. Kept(p)'
      BY <2>1, <2>4, <2>5, KeptElsewhere DEF Idle, Writing
    <2>7. \A q \in Procs \ {p} : Kept(q)'
      BY <2>1, <2>2, <2>3, OthersKept DEF Copied
    <2>8. \A j, m : Leaving(j, m) => Leaving(j, m)'
      BY <2>1, <2>3, LeavingStays DEF Clearing, At
    <2>9. Placed'
      <3> SUFFICES ASSUME NEW j \in Projects, NEW m \in Skills, Copied(j, m)'
                   PROVE  j \in index' /\ hub'[m] # Absent
                          /\ (m \in lists'[j].names \/ Leaving(j, m)')
        BY DEF Placed
      <3>1. j \in index /\ hub[m] # Absent /\ (m \in lists[j].names \/ Leaving(j, m))
        BY <2>1, <2>2 DEF Copied, Quiet, Placed
      <3>2. hub'[m] # Absent
        BY <1>t, <2>2, <3>1
      <3> QED
        BY <2>2, <2>8, <3>1, <3>2
    <2>10. Current'
      <3> SUFFICES ASSUME NEW j \in index, NEW m \in Skills, m \in lists[j].names, Copied(j, m)
                   PROVE  tree[j][m].content = hub'[m] \/ \E q \in Procs : Owes(run'[q], j, m)
        BY <2>2 DEF Current, Copied
      <3>1. hub[m] # Absent
        BY <1>t, <2>1 DEF Quiet, Placed
      <3>2. CASE m = n
        <4>1. Op(p) = "update"
          BY <2>1, <2>2, <3>1, <3>2
        <4>2. Owes(run'[p], j, n)
          BY <2>2, <2>5, <4>1 DEF Owes
        <4> QED
          BY <3>2, <4>2
      <3>3. CASE m # n
        <4>1. hub'[m] = hub[m]
          BY <1>t, <2>2, <3>3
        <4>2. tree[j][m].content = hub[m] \/ \E q \in Procs : Owes(run[q], j, m)
          BY <2>1, <3>1 DEF Quiet, Current
        <4>3. ~Owes(run[p], j, m)
          BY <2>1 DEF Owes, At
        <4> QED
          BY <2>3, <4>1, <4>2, <4>3 DEF Alone
      <3> QED
        BY <3>2, <3>3
    <2> QED
      BY <2>6, <2>7, <2>9, <2>10 DEF Quiet
  <1>5. ASSUME NEW p \in Procs, WriteNothing(p) \/ CascadeEnds(p) \/ DropList(p) \/ DeployEnds(p)
        PROVE  Quiet'
    <2>1. Return(p) /\ calm /\ Quiet
      BY <1>5, <1>n DEF WriteNothing, CascadeEnds, DropList, DeployEnds
    <2>2. Op(p) # "remove"
      BY <1>k, <2>1
    <2>3. UNCHANGED disk /\ run[p].step \notin Clearing
      BY <1>5, <1>r, <2>2, OpsOfSteps DEF Clearing, WriteNothing, CascadeEnds, DropList, DeployEnds, At, Op
    <2>4. OwesOn(p)
      BY <1>5 DEF WriteNothing, CascadeEnds, DropList, DeployEnds, At, OwesOn, Owes
    <2> QED
      BY <2>1, <2>3, <2>4, ReturnAlone, LeavingStays, ElsewhereQuiet
  <1>6. ASSUME NEW p \in Procs, NEW j \in Projects, Cascade(p, j) PROVE Quiet'
    <2>1. Op(p) = "update" /\ At(p, "cascade") /\ calm /\ Quiet /\ UNCHANGED disk
      BY <1>6, <1>n, <1>r, OpsOfSteps DEF Cascade, At, Op
    <2>2. /\ run'[p].op = "update" /\ Alone(p)
          /\ run'[p].skills = run[p].skills /\ run'[p].project = j
          /\ run'[p].todo = run[p].todo \ {j}
          /\ run'[p].step = IF run[p].skills \cap lists[j].names # {} THEN "projects"
                            ELSE "cascade"
      BY <1>6, <1>r, <2>1 DEF Cascade, Alone, Runs, Op, At
    <2>3. Kept(p)'
      BY <2>2, KeptElsewhere DEF Writing
    <2>4. OwesOn(p)
      <3> SUFFICES ASSUME NEW i \in index, NEW m \in Skills, Owes(run[p], i, m),
                          m \in lists[i].names
                   PROVE  Owes(run'[p], i, m)
        BY DEF OwesOn
      <3>1. m \in run[p].skills /\ i \in run[p].todo
        BY <2>1 DEF Owes, At
      <3>2. CASE i = j
        BY <2>2, <3>1, <3>2 DEF Owes
      <3>3. CASE i # j
        BY <2>2, <3>1, <3>3 DEF Owes
      <3> QED
        BY <3>2, <3>3
    <2>5. run[p].step \notin Clearing
      BY <2>1 DEF Clearing, At
    <2> QED
      BY <2>1, <2>2, <2>3, <2>4, <2>5, LeavingStays, ElsewhereQuiet
  <1>7. ASSUME NEW p \in Procs, NEW n \in Skills, Refresh(p, n) PROVE Quiet'
    <2> DEFINE j == run[p].project
    <2>1. /\ Op(p) = "update" /\ At(p, "refresh") /\ j \in Projects /\ plock = p
          /\ UNCHANGED <<hub, index, lists>>
      BY <1>7, <1>r, OpsOfSteps DEF Refresh, At, Op, InProjects
    <2>2. run[p].skills = {n}
      <3>1. \E m \in Skills : run[p].skills = {m}
        BY <1>r, <2>1 DEF RecordOK, Single, Op
      <3>2. n \in Due(run[p])
        BY <1>7, <1>r DEF Refresh, RecordOK
      <3> QED
        BY <2>1, <3>1, <3>2 DEF Due, At
    <2>3. /\ run'[p].op = "update" /\ Alone(p) /\ run'[p].step = "cascade"
          /\ run'[p].skills = run[p].skills /\ run'[p].todo = run[p].todo
      BY <1>7, <1>r, <2>1 DEF Refresh, ActedTo, Acted, Alone, Runs, Op
    <2>4. Kept(p)' /\ run[p].step \notin Clearing
      BY <2>1, <2>3, KeptElsewhere DEF Clearing, Writing, At
    <2>s. Copied(j, n) => run[p].seen = tree[j][n]
      <3>1. Stays(p, n)
        BY <1>7 DEF Refresh, Seeing
      <3> QED
        BY <3>1 DEF Stays, Copied, Missing, Entry
    <2>5. CASE ~Stale(j, n, run[p].seen) /\ UNCHANGED tree /\ NoFault
      <3>1. OwesOn(p)
        <4> SUFFICES ASSUME NEW i \in index, NEW m \in Skills, Owes(run[p], i, m),
                            m \in lists[i].names, Copied(i, m), hub[m] # Absent
                     PROVE  Owes(run'[p], i, m) \/ tree[i][m].content = hub[m]
          BY DEF OwesOn
        <4>1. m = n /\ (i \in run[p].todo \/ i = j)
          BY <2>1, <2>2 DEF Owes, At
        <4>2. CASE i \in run[p].todo
          BY <2>2, <2>3, <4>1, <4>2 DEF Owes
        <4>3. CASE i = j
          BY <2>5, <2>s, <4>1, <4>3 DEF Stale, Copied
        <4> QED
          BY <4>1, <4>2, <4>3
      <3> QED
        BY <1>n, <2>1, <2>3, <2>4, <2>5, <3>1, LeavingStays, ElsewhereQuiet DEF disk
    <2>6. CASE /\ Stale(j, n, run[p].seen) /\ NoFault
               /\ tree' = [tree EXCEPT ![j][n] = Entry("copy", hub[n])]
      <3> HIDE DEF j
      <3>1. Quiet /\ index \in SUBSET Projects
        BY <1>n, <1>t, <2>6
      <3>2. /\ tree'[j][n].content = hub[n] /\ j \in index /\ n \in lists[j].names
            /\ hub[n] # Absent
        BY <1>t, <2>1, <2>6 DEF Entry, Stale
      <3>3. \A i \in Projects, m \in Skills : ~(i = j /\ m = n) => tree'[i][m] = tree[i][m]
        BY <1>t, <2>1, <2>6
      <3>4. \A q \in Procs \ {p} : Kept(q)'
        BY <2>1, <2>3, <3>1, OthersKept
      <3>5. \A i, m : Leaving(i, m) => Leaving(i, m)'
        BY <2>3, <2>4, LeavingStays
      <3>6. Placed'
        BY <2>1, <3>1, <3>2, <3>3, <3>5 DEF Quiet, Placed, Copied
      <3>7. Current'
        <4> SUFFICES ASSUME NEW i \in index, NEW m \in Skills, m \in lists[i].names,
                            Copied(i, m)', hub[m] # Absent
                     PROVE  tree'[i][m].content = hub[m] \/ \E q \in Procs : Owes(run'[q], i, m)
          BY <2>1 DEF Current
        <4>1. CASE i = j /\ m = n
          BY <3>2, <4>1
        <4>2. CASE ~(i = j /\ m = n)
          <5>1. tree'[i][m] = tree[i][m] /\ Copied(i, m)
            BY <3>1, <3>3, <4>2 DEF Copied
          <5>2. tree[i][m].content = hub[m] \/ \E q \in Procs : Owes(run[q], i, m)
            BY <3>1, <5>1 DEF Quiet, Current
          <5>3. Owes(run[p], i, m) => Owes(run'[p], i, m)
            BY <2>1, <2>2, <2>3, <4>2 DEF Owes, At, j
          <5> QED
            BY <2>3, <5>1, <5>2, <5>3 DEF Alone
        <4> QED
          BY <4>1, <4>2
      <3> QED
        BY <2>4, <3>4, <3>6, <3>7 DEF Quiet
    <2> QED
      BY <1>7, <1>n, <2>5, <2>6 DEF Refresh, Fault
  <1>8. ASSUME NEW p \in Procs, NEW j \in Projects, NEW n \in Skills, ClearProject(p, j, n)
        PROVE  Quiet'
    <2>1. /\ Op(p) = "uninstall" /\ At(p, "clear_all") /\ plock = p
          /\ UNCHANGED <<hub, index, tree>> /\ lists' = [lists EXCEPT ![j].names = @ \ {n}]
          /\ calm /\ Quiet /\ n \in run[p].skills
      BY <1>8, <1>n, <1>r, OpsOfSteps DEF ClearProject, At, Op, InProjects
    <2>2. /\ Alone(p) /\ run'[p].op = "uninstall" /\ run'[p].step = "forget"
          /\ run'[p].project = j /\ run'[p].skills = run[p].skills
      BY <1>8, <1>r, <2>1 DEF ClearProject, Alone, Runs, Op, At
    <2>3. \A i \in Projects, m \in Skills : ~(i = j /\ m = n) =>
            (m \in lists'[i].names <=> m \in lists[i].names)
      BY <1>t, <2>1 DEF Lists
    <2>4. \A m \in Skills : m \in lists'[j].names => m \in lists[j].names
      BY <1>t, <2>1 DEF Lists
    <2>5. \A q \in Procs : Kept(q)'
      BY <2>1, <2>2, OthersKept, KeptElsewhere DEF Writing
    <2>6. Leaving(j, n)' /\ \A i, m : ~Leaving(i, m)
      BY <2>1, <2>2, OneClears DEF Leaving, At
    <2>7. Placed'
      <3> SUFFICES ASSUME NEW i \in Projects, NEW m \in Skills, Copied(i, m)'
                   PROVE  i \in index /\ hub[m] # Absent
                          /\ (m \in lists'[i].names \/ Leaving(i, m)')
        BY <2>1 DEF Placed
      <3>1. i \in index /\ hub[m] # Absent /\ m \in lists[i].names
        BY <2>1, <2>6 DEF Quiet, Placed, Copied
      <3> QED
        BY <2>3, <2>6, <3>1
    <2>8. Current'
      BY <1>t, <2>1, <2>2, <2>3, <2>4, CurrentStays, NothingOwed DEF Copied
    <2> QED
      BY <2>5, <2>7, <2>8 DEF Quiet
  <1>f1. ASSUME NEW p \in Procs, NEW n \in Skills, Forget(p, n) PROVE Quiet'
    <2> DEFINE j == run[p].project
    <2>1. /\ Op(p) = "uninstall" /\ At(p, "forget") /\ j \in Projects /\ plock = p
          /\ UNCHANGED <<hub, index, lists>>
      BY <1>f1, <1>r, OpsOfSteps DEF Forget, At, Op, InProjects
    <2>2. /\ tree' = [tree EXCEPT ![j][n] = IF Owned(run[p].seen) THEN Missing ELSE @]
          /\ NoFault /\ calm /\ Quiet
          /\ Alone(p) /\ run'[p].op = "uninstall" /\ run'[p].step = "clear_all"
      <3>1. /\ tree' = [tree EXCEPT ![j][n] = IF Owned(run[p].seen) THEN Missing ELSE @]
            /\ run' = [run EXCEPT ![p] = [Acted(run[p]) EXCEPT !.step = "clear_all",
                                                               !.todo = @ \ {j}]]
            /\ NoFault
        BY <1>f1 DEF Forget, Fault
      <3>2. Alone(p) /\ run'[p].op = "uninstall" /\ run'[p].step = "clear_all"
        BY <1>r, <2>1, <3>1 DEF Acted, Alone, Runs, Op
      <3> QED
        BY <1>n, <3>1, <3>2
    <2>3. run[p].skills = {n}
      <3>1. \E m \in Skills : run[p].skills = {m}
        BY <1>r, <2>1 DEF RecordOK, Single, Op
      <3>2. n \in Due(run[p])
        BY <1>f1, <1>r DEF Forget, RecordOK
      <3> QED
        BY <2>1, <3>1, <3>2 DEF Due, At
    <2>4. Copied(j, n) => Owned(run[p].seen)
      <3>1. Stays(p, n)
        BY <1>f1 DEF Forget, Seeing
      <3> QED
        BY <3>1 DEF Stays, Copied, Missing, Entry, Owned
    <2>5. \A i \in Projects, m \in Skills : Copied(i, m)' =>
            ~(i = j /\ m = n) /\ tree'[i][m] = tree[i][m] /\ Copied(i, m)
      BY <1>t, <2>1, <2>2, <2>4 DEF Copied, Missing, Entry
    <2>6. \A i, m : Leaving(i, m) => i = j /\ m = n
      BY <2>1, <2>3, OneClears DEF At
    <2> HIDE DEF j
    <2>7. \A q \in Procs : Kept(q)'
      BY <2>1, <2>2, OthersKept, KeptElsewhere DEF Writing
    <2>8. Placed'
      BY <2>1, <2>2, <2>5, <2>6 DEF Quiet, Placed
    <2>9. Current'
      BY <1>t, <2>1, <2>2, <2>5, CurrentStays, NothingOwed
    <2> QED
      BY <2>7, <2>8, <2>9 DEF Quiet
  <1>l. ASSUME NEW p \in Procs, NEW n \in Skills, Look(p, n) PROVE Quiet'
    <2>1. calm /\ Quiet /\ UNCHANGED disk
      BY <1>l, <1>n DEF Look
    <2>2. /\ Alone(p) /\ run'[p].op = run[p].op /\ run'[p].step = run[p].step
          /\ run'[p].project = run[p].project /\ run'[p].skills = run[p].skills
          /\ run'[p].todo = run[p].todo /\ run'[p].list = run[p].list
      BY <1>l, <1>r DEF Look, Alone, Runs
    <2>3. Kept(p)'
      BY <2>1, <2>2 DEF Quiet, Kept, disk
    <2>4. OwesOn(p)
      BY <2>2 DEF OwesOn, Owes
    <2> QED
      BY <2>1, <2>2, <2>3, <2>4, LeavingStays, ElsewhereQuiet
  <1>9. ASSUME NEW p \in Procs, ClearEnds(p) PROVE Quiet'
    <2>1. Op(p) = "uninstall" /\ At(p, "clear_all") /\ calm /\ Quiet /\ UNCHANGED disk
      BY <1>9, <1>n, <1>r, OpsOfSteps DEF ClearEnds, At, Op
    <2>2. Alone(p) /\ run'[p].op = "uninstall" /\ run'[p].step = "body"
      BY <1>9, <1>r, <2>1 DEF ClearEnds, Goes, Alone, Runs, Op
    <2>3. Kept(p)' /\ run[p].step \notin Clearing
      BY <2>1, <2>2, KeptElsewhere DEF Clearing, Writing, At
    <2> QED
      BY <2>1, <2>2, <2>3, NothingOwed, LeavingStays, ElsewhereQuiet
  <1>10. ASSUME NEW p \in Procs, NEW n \in Skills, DeleteFolder(p, n) PROVE Quiet'
    <2>1. /\ Op(p) = "uninstall" /\ At(p, "body") /\ Return(p)
          /\ UNCHANGED <<index, lists, tree>>
      BY <1>10, <1>r, OpsOfSteps DEF DeleteFolder, At, Op
    <2>2. /\ hub' = [hub EXCEPT ![n] = Absent] /\ calm
          /\ \A j \in Projects : ~Owned(tree[j][n])
      BY <1>10 DEF DeleteFolder, Fault
    <2>3. Quiet /\ Alone(p) /\ Kept(p)' /\ OwesOn(p)
      BY <2>1, <2>2, ReturnAlone, NothingOwed
    <2>4. \A q \in Procs : Kept(q)'
      BY <2>1, <2>3, OthersKept DEF Copied
    <2>5. \A j, m : Leaving(j, m) => Leaving(j, m)'
      BY <2>1, <2>3, LeavingStays DEF Clearing, At
    <2>6. \A j \in Projects, m \in Skills : Copied(j, m)' =>
            Copied(j, m) /\ m # n /\ hub'[m] = hub[m] /\ tree'[j][m] = tree[j][m]
      BY <1>t, <2>1, <2>2 DEF Copied, Owned
    <2>7. Placed'
      BY <2>1, <2>3, <2>5, <2>6 DEF Quiet, Placed
    <2>8. \A m \in Skills : hub'[m] = hub[m] \/ hub'[m] = Absent
      BY <1>t, <2>2
    <2>9. Current'
      BY <1>t, <2>1, <2>3, <2>6, <2>8, CurrentStays
    <2> QED
      BY <2>4, <2>7, <2>9 DEF Quiet
  <1>11. ASSUME NEW p \in Procs, LoadIndex(p) PROVE Quiet'
    <2>1. /\ Op(p) \in {"save", "add", "import", "rebuild", "register"}
          /\ At(p, "index") /\ calm /\ Quiet /\ UNCHANGED disk
      BY <1>11, <1>k, <1>n, <1>r, OpsOfSteps DEF LoadIndex, At, Op
    <2>2. OwesOn(p) /\ run[p].step \notin Clearing
      BY <2>1, NothingOwed DEF Clearing, At
    <2>3. CASE NothingToDo(p)
      BY <1>11, <2>1, <2>2, <2>3, ReturnAlone, LeavingStays, ElsewhereQuiet DEF LoadIndex
    <2>4. CASE ~NothingToDo(p)
      <3> DEFINE g == run[p].project \in index /\ Op(p) # "remove"
      <3>1. /\ Alone(p) /\ run'[p].op = Op(p) /\ run'[p].project = run[p].project
            /\ run'[p].step = IF g THEN "load" ELSE "save_index"
        BY <1>11, <1>r, <2>4 DEF LoadIndex, Alone, Runs, Op
      <3>2. Kept(p)'
        <4>1. CASE g
          BY <2>1, <3>1, <4>1 DEF Kept, disk
        <4>2. CASE ~g
          BY <2>1, <3>1, <4>2, KeptElsewhere DEF Writing
        <4> QED
          BY <4>1, <4>2
      <3> QED
        BY <2>1, <2>2, <3>1, <3>2, LeavingStays, ElsewhereQuiet
    <2> QED
      BY <2>3, <2>4
  <1>12. ASSUME NEW p \in Procs, SaveIndex(p) PROVE Quiet'
    <2>1. calm /\ Quiet /\ index \subseteq index' /\ UNCHANGED <<hub, lists, tree>>
      BY <1>12 DEF SaveIndex
    <2>2. /\ Op(p) \in {"save", "add", "import", "rebuild", "register"}
          /\ At(p, "save_index")
      BY <1>12, <1>k, <1>r, <2>1, OpsOfSteps DEF SaveIndex, At, Op
    <2>3. OwesOn(p) /\ run[p].step \notin Clearing
      BY <2>2, NothingOwed DEF Clearing, At
    <2>4. Alone(p) /\ Kept(p)'
      <3>1. CASE Return(p)
        BY <3>1, ReturnAlone
      <3>2. CASE ~Return(p)
        <4>1. /\ Alone(p) /\ run'[p].op = Op(p) /\ run'[p].project = run[p].project
              /\ run'[p].step = "load"
          BY <1>12, <1>r, <2>2, <3>2 DEF SaveIndex, Alone, Runs, Op
        <4>2. run[p].project \in index'
          BY <1>12, <2>2 DEF SaveIndex
        <4> QED
          BY <2>2, <4>1, <4>2 DEF Kept
      <3> QED
        BY <3>1, <3>2
    <2>5. \A q \in Procs : Kept(q)'
      BY <2>1, <2>4, OthersKept DEF Copied
    <2>6. \A j, n : Leaving(j, n) => Leaving(j, n)'
      BY <2>3, <2>4, LeavingStays
    <2>7. Placed'
      BY <2>1, <2>6 DEF Quiet, Placed, Copied
    <2>8. Current'
      BY <1>t, <2>1, <2>3, <2>4, CurrentStays DEF Copied
    <2> QED
      BY <2>5, <2>7, <2>8 DEF Quiet
  <1>13. ASSUME NEW p \in Procs, LoadList(p) PROVE Quiet'
    <2>1. /\ Op(p) \in {"save", "add", "import", "rebuild"} /\ At(p, "load")
          /\ calm /\ Quiet /\ UNCHANGED disk /\ run[p].project \in Projects
      BY <1>13, <1>n, <1>r, OpsOfSteps DEF LoadList, At, Op
    <2>2. /\ Alone(p) /\ run'[p].op = Op(p) /\ run'[p].project = run[p].project
          /\ run'[p].step = IF Op(p) = "import" THEN "adopt" ELSE "save"
          /\ run'[p].list = lists[run[p].project]
      BY <1>13, <1>r DEF LoadList, Alone, Runs, Op
    <2>3. run[p].project \in index
      BY <1>k, <2>1 DEF Kept, Writing, At
    <2>4. Kept(p)'
      BY <2>1, <2>2, <2>3 DEF Kept, disk
    <2>5. OwesOn(p) /\ run[p].step \notin Clearing
      BY <2>1, NothingOwed DEF Clearing, At
    <2> QED
      BY <2>1, <2>2, <2>4, <2>5, LeavingStays, ElsewhereQuiet
  <1>14. ASSUME NEW p \in Procs, SaveList(p) PROVE Quiet'
    <2> DEFINE j == run[p].project
    <2>1. /\ Op(p) \in {"save", "add", "import", "rebuild"} /\ At(p, "save")
          /\ j \in Projects /\ UNCHANGED <<hub, index, tree>> /\ plock = p
      BY <1>14, <1>r, OpsOfSteps DEF SaveList, At, Op, InProjects
    <2>2. lists' = [lists EXCEPT ![j] = NewList(p)] /\ NoFault
      BY <1>14 DEF SaveList, Fault
    <2>3. calm /\ Quiet /\ j \in index /\ lists[j].names \subseteq run[p].list.names
      <3>1. calm /\ Quiet
        BY <1>n, <2>2
      <3> QED
        BY <1>k, <2>1, <3>1 DEF Kept, Writing, At
    <2>4. \A i, n : ~Leaving(i, n)
      BY <2>1, OneClears DEF At
    <2>5. CASE Op(p) = "save"
      <3>1. /\ Alone(p) /\ run'[p].op = "save" /\ run'[p].project = j
            /\ run'[p].step = "clear" /\ run'[p].todo = (IF Managed(p) THEN Skills ELSE {})
            /\ run'[p].skills = run[p].skills
        <4>1. run' = [run EXCEPT ![p].step = "clear",
                                 ![p].todo = IF Managed(p) THEN Skills ELSE {}]
          BY <1>14, <2>5 DEF SaveList, Fault
        <4> DEFINE k == IF Managed(p) THEN Skills ELSE {}
        <4>2. run' = [run EXCEPT ![p].step = "clear", ![p].todo = k]
          BY <4>1
        <4> HIDE DEF k
        <4>3. /\ Alone(p) /\ run'[p].op = "save" /\ run'[p].project = j
              /\ run'[p].step = "clear" /\ run'[p].todo = k /\ run'[p].skills = run[p].skills
          BY <1>r, <2>5, <4>2 DEF Alone, Runs, Op
        <4> QED
          BY <4>3 DEF k
      <3>2. lists'[j].names = run[p].skills
        BY <1>t, <2>1, <2>2, <2>5 DEF NewList, Pruned, List, Op
      <3>3. \A n \in Skills : Copied(j, n) => Managed(p)
        BY <2>1, <2>3, <2>4 DEF Quiet, Placed, Managed
      <3>4. Kept(p)'
        BY <2>1, <2>3, <3>1, <3>2 DEF Kept
      <3> HIDE DEF j
      <3>5. \A i \in Projects \ {j} : lists'[i] = lists[i]
        BY <1>t, <2>1, <2>2
      <3>6. Placed'
        <4> SUFFICES ASSUME NEW i \in Projects, NEW n \in Skills, Copied(i, n)'
                     PROVE  i \in index /\ hub[n] # Absent
                            /\ (n \in lists'[i].names \/ Leaving(i, n)')
          BY <2>1 DEF Placed
        <4>1. i \in index /\ hub[n] # Absent /\ n \in lists[i].names
          BY <2>1, <2>3, <2>4 DEF Quiet, Placed, Copied
        <4>2. CASE i = j
          <5>1. run'[p].todo = Skills
            BY <2>1, <3>1, <3>3, <4>2 DEF Copied
          <5>2. Leaving(i, n)'
            BY <3>1, <4>2, <5>1 DEF Leaving, At
          <5> QED
            BY <4>1, <5>2
        <4>3. CASE i # j
          BY <3>5, <4>1, <4>3
        <4> QED
          BY <4>2, <4>3
      <3>7. Alone(p) /\ Kept(p)' /\ Placed'
        BY <3>1, <3>4, <3>6
      <3> QED
        BY <1>t, <2>1, <2>2, <2>3, <2>4, <3>7, NothingOwed, OthersKept, CurrentStays
           DEF Quiet, Placed, Copied, At
    <2>6. CASE Op(p) # "save"
      <3>1. Alone(p) /\ Kept(p)'
        <4>1. CASE Op(p) = "add"
          <5>1. /\ Alone(p) /\ run'[p].op = "add" /\ run'[p].project = j
                /\ run'[p].step = "deploy" /\ run'[p].todo = run[p].skills
            BY <1>14, <1>r, <4>1 DEF SaveList, Fault, Alone, Runs, Op
          <5>2. lists'[j].names = run[p].list.names \cup run[p].skills
            BY <1>t, <2>1, <2>2, <4>1 DEF NewList, List, Op
          <5> QED
            BY <2>1, <2>3, <5>1, <5>2 DEF Kept
        <4>2. CASE Op(p) \in {"rebuild", "import"}
          <5>1. Return(p)
            BY <1>14, <4>2 DEF SaveList, Fault
          <5> QED
            BY <5>1, ReturnAlone
        <4> QED
          BY <2>1, <2>6, <4>1, <4>2
      <3>2. \A n \in Skills : Copied(j, n) => n \in lists'[j].names
        <4>1. \A n \in Skills : Copied(j, n) => n \in run[p].list.names
          BY <2>1, <2>3, <2>4 DEF Quiet, Placed
        <4>2. CASE Op(p) = "add"
          BY <1>t, <2>1, <2>2, <4>1, <4>2 DEF NewList, List, Op
        <4>3. CASE Op(p) = "import"
          BY <1>t, <2>1, <2>2, <4>1, <4>3 DEF NewList, Op
        <4>4. CASE Op(p) = "rebuild"
          <5>1. \A n \in Skills : Copied(j, n) => n \in OnDisk(j)
            BY DEF Copied, OnDisk, Missing, Entry
          <5>2. lists'[j].names = OnDisk(j)
            BY <1>t, <2>1, <2>2, <4>4 DEF NewList, Pruned, List, Op
          <5> QED
            BY <5>1, <5>2
        <4> QED
          BY <2>1, <2>6, <4>2, <4>3, <4>4
      <3>3. \A i \in Projects \ {j} : lists'[i] = lists[i]
        BY <1>t, <2>1, <2>2
      <3> HIDE DEF j
      <3>4. Placed'
        BY <2>1, <2>3, <2>4, <3>2, <3>3 DEF Quiet, Placed, Copied
      <3> QED
        BY <1>t, <2>1, <2>3, <2>4, <3>1, <3>4, NothingOwed, OthersKept, CurrentStays
           DEF Quiet, Placed, Copied, At
    <2> QED
      BY <2>5, <2>6
  <1>15. ASSUME NEW p \in Procs, NEW n \in Skills, Clear(p, n) PROVE Quiet'
    <2> DEFINE j == run[p].project
    <2>1. /\ Op(p) = "save" /\ At(p, "clear") /\ j \in Projects /\ plock = p
          /\ UNCHANGED <<hub, index, lists>>
      BY <1>15, <1>r, OpsOfSteps DEF Clear, At, Op, InProjects
    <2>2. /\ tree' = [tree EXCEPT ![j][n] = IF Owned(run[p].seen) THEN Missing ELSE @]
          /\ calm /\ Quiet
          /\ Alone(p) /\ run'[p].op = "save" /\ run'[p].step = "clear" /\ run'[p].project = j
          /\ run'[p].skills = run[p].skills /\ run'[p].todo = run[p].todo \ {n}
      <3>1. /\ tree' = [tree EXCEPT ![j][n] = IF Owned(run[p].seen) THEN Missing ELSE @]
            /\ run' = [run EXCEPT ![p] = [Acted(run[p]) EXCEPT !.todo = @ \ {n}]]
            /\ NoFault
        BY <1>15 DEF Clear, Fault
      <3>2. /\ Alone(p) /\ run'[p].op = "save" /\ run'[p].step = "clear" /\ run'[p].project = j
            /\ run'[p].skills = run[p].skills /\ run'[p].todo = run[p].todo \ {n}
        BY <1>r, <2>1, <3>1 DEF Acted, Alone, Runs, Op, At
      <3> QED
        BY <1>n, <3>1, <3>2
    <2>3. j \in index /\ run[p].skills = lists[j].names
      BY <1>k, <2>1, <2>2 DEF Kept, Writing, At
    <2>4. Copied(j, n) => Owned(run[p].seen)
      <3>1. Stays(p, n)
        BY <1>15 DEF Clear, Seeing
      <3> QED
        BY <3>1 DEF Stays, Copied, Missing, Entry, Owned
    <2>5. \A i \in Projects, m \in Skills : Copied(i, m)' =>
            ~(i = j /\ m = n) /\ tree'[i][m] = tree[i][m] /\ Copied(i, m)
      BY <1>t, <2>1, <2>2, <2>4 DEF Copied, Missing, Entry
    <2>6. Kept(p)'
      BY <2>1, <2>2, <2>3 DEF Kept
    <2> HIDE DEF j
    <2>7. \A q \in Procs : Kept(q)'
      BY <2>1, <2>2, <2>6, OthersKept
    <2>8. \A i, m : Leaving(i, m) /\ ~(i = j /\ m = n) => Leaving(i, m)'
      BY <2>1, <2>2, OneClears DEF Leaving, At, j
    <2>9. Placed'
      BY <2>1, <2>2, <2>5, <2>8 DEF Quiet, Placed
    <2>10. Current'
      BY <1>t, <2>1, <2>2, <2>5, CurrentStays, NothingOwed
    <2> QED
      BY <2>7, <2>9, <2>10 DEF Quiet
  <1>c. ASSUME NEW p \in Procs, Cleared(p) PROVE Quiet'
    <2>1. /\ Op(p) = "save" /\ At(p, "clear") /\ run[p].todo = {}
          /\ calm /\ Quiet /\ UNCHANGED disk
      BY <1>c, <1>n, <1>r, OpsOfSteps DEF Cleared, At, Op
    <2>2. /\ Alone(p) /\ run'[p].op = "save" /\ run'[p].step = "deploy"
          /\ run'[p].project = run[p].project /\ run'[p].todo = run[p].skills
      BY <1>c, <1>r, <2>1 DEF Cleared, Alone, Runs, Op
    <2>3. run[p].project \in index /\ run[p].skills = lists[run[p].project].names
      BY <1>k, <2>1 DEF Kept, Writing, At
    <2>4. Kept(p)'
      BY <2>1, <2>2, <2>3 DEF Kept, disk
    <2>5. \A j, n : Leaving(j, n) => Leaving(j, n)'
      BY <2>1, <2>2 DEF Leaving, Alone, At
    <2> QED
      BY <2>1, <2>2, <2>4, <2>5, NothingOwed, ElsewhereQuiet
  <1>16. ASSUME NEW p \in Procs, NEW n \in Skills, Deploy(p, n) PROVE Quiet'
    <2> DEFINE j == run[p].project
    <2>1. /\ Op(p) \in {"save", "add"} /\ At(p, "deploy") /\ j \in Projects /\ plock = p
          /\ n \in run[p].todo /\ UNCHANGED <<hub, index, lists>>
      BY <1>16, <1>r, OpsOfSteps DEF Deploy, At, Op, InProjects, RecordOK, Due
    <2>2. calm /\ Quiet
      BY <1>16, <1>n DEF Deploy, Fault
    <2>3. /\ Alone(p) /\ run'[p].op = Op(p) /\ run'[p].step = "deploy"
          /\ run'[p].project = j /\ run'[p].todo = run[p].todo \ {n}
      BY <1>16, <1>r, <2>1 DEF Deploy, Acted, Alone, Runs, Op, At
    <2>4. j \in index /\ run[p].todo \subseteq lists[j].names
      BY <1>k, <2>1, <2>2 DEF Kept, Writing, At
    <2>5. Kept(p)'
      BY <2>1, <2>3, <2>4 DEF Kept
    <2>6. \A i, m : ~Leaving(i, m)
      BY <2>1, OneClears DEF At
    <2> HIDE DEF j
    <2>7. \A q \in Procs : Kept(q)'
      BY <2>1, <2>2, <2>3, <2>5, OthersKept
    <2>8. /\ \A i \in Projects, m \in Skills : ~(i = j /\ m = n) => tree'[i][m] = tree[i][m]
          /\ \/ tree'[j][n] = tree[j][n] \/ tree'[j][n].kind # "copy"
             \/ hub[n] # Absent /\ tree'[j][n].content = hub[n]
      <3>1. CASE UNCHANGED tree
        BY <3>1
      <3>2. CASE tree' = [tree EXCEPT ![j][n] = Deployed(p, n)]
        BY <1>t, <2>1, <3>2 DEF Deployed, Copied, Entry, Missing, Link
      <3> QED
        BY <1>16, <2>2, <3>1, <3>2 DEF Deploy, Fault, j
    <2>9. Placed'
      <3> SUFFICES ASSUME NEW i \in Projects, NEW m \in Skills, Copied(i, m)'
                   PROVE  i \in index /\ hub[m] # Absent /\ m \in lists[i].names
        BY <2>1 DEF Placed
      <3>1. CASE tree'[i][m] = tree[i][m]
        BY <2>2, <2>6, <3>1 DEF Quiet, Placed, Copied
      <3>2. CASE tree'[i][m] # tree[i][m]
        <4>1. i = j /\ m = n /\ hub[n] # Absent
          BY <2>8, <3>2 DEF Copied
        <4> QED
          BY <2>1, <2>4, <4>1
      <3> QED
        BY <3>1, <3>2
    <2>10. Current'
      <3> SUFFICES ASSUME NEW i \in index, NEW m \in Skills, m \in lists[i].names,
                          Copied(i, m)', hub[m] # Absent
                   PROVE  tree'[i][m].content = hub[m] \/ \E q \in Procs : Owes(run'[q], i, m)
        BY <2>1 DEF Current
      <3>0. i \in Projects
        BY <1>t
      <3>1. CASE tree'[i][m] = tree[i][m]
        <4>1. tree[i][m].content = hub[m] \/ \E q \in Procs : Owes(run[q], i, m)
          BY <2>2, <3>1 DEF Quiet, Current, Copied
        <4>2. ~Owes(run[p], i, m)
          BY <2>1 DEF Owes, Op
        <4> QED
          BY <2>3, <3>1, <4>1, <4>2 DEF Alone
      <3>2. CASE tree'[i][m] # tree[i][m]
        BY <2>8, <3>0, <3>2 DEF Copied
      <3> QED
        BY <3>1, <3>2
    <2> QED
      BY <2>7, <2>9, <2>10 DEF Quiet
  <1>17. ASSUME NEW p \in Procs, NEW n \in Skills, Adopt(p, n) PROVE Quiet'
    <2> DEFINE j == run[p].project
    <2>1. /\ Op(p) = "import" /\ At(p, "adopt") /\ j \in Projects /\ plock = p
          /\ calm /\ Quiet /\ UNCHANGED <<index, lists>>
      BY <1>17, <1>n, <1>r, OpsOfSteps DEF Adopt, At, Op, InProjects
    <2>2. Alone(p) /\ Kept(p)'
      <3>1. CASE Return(p)
        BY <3>1, ReturnAlone
      <3>2. ASSUME NEW x \in {"link", "save"}, ActedTo(p, x) PROVE Alone(p) /\ Kept(p)'
        <4>1. /\ Alone(p) /\ run'[p].op = "import" /\ run'[p].step \in {"link", "save"}
              /\ run'[p].project = j /\ run'[p].list = run[p].list
          BY <1>r, <2>1, <3>2 DEF ActedTo, Acted, Alone, Runs, Op
        <4> QED
          BY <1>k, <2>1, <4>1 DEF Kept, Writing, At
      <3> QED
        BY <1>17, <3>1, <3>2 DEF Adopt
    <2>4. /\ \A m \in Skills : hub'[m] = hub[m] \/ hub[m] = Absent
          /\ \A i \in Projects, m \in Skills : Copied(i, m)' =>
               Copied(i, m) /\ tree'[i][m] = tree[i][m]
      <3>1. CASE UNCHANGED <<hub, tree>>
        BY <3>1 DEF Copied
      <3>2. CASE /\ \E e \in {run[p].seen, tree[j][n]} :
                      hub' = [hub EXCEPT ![n] = IF @ = Absent THEN e.content ELSE @]
                 /\ tree' = [tree EXCEPT ![j][n] = Missing]
        BY <1>t, <2>1, <3>2 DEF Copied, Missing, Entry
      <3> QED
        BY <1>17, <3>1, <3>2 DEF Adopt
    <2> HIDE DEF j
    <2>5. \A q \in Procs : Kept(q)'
      BY <2>1, <2>2, OthersKept
    <2>6. \A i, m : ~Leaving(i, m)
      BY <2>1, OneClears DEF At
    <2>7. Placed'
      BY <1>t, <2>1, <2>4, <2>6 DEF Quiet, Placed
    <2>8. Current'
      BY <1>t, <2>1, <2>2, <2>4, CurrentStays, NothingOwed
    <2> QED
      BY <2>5, <2>7, <2>8 DEF Quiet
  <1>18. ASSUME NEW p \in Procs, NEW n \in Skills, LinkAdopted(p, n) PROVE Quiet'
    <2> DEFINE j == run[p].project
    <2>1. /\ Op(p) = "import" /\ At(p, "link") /\ j \in Projects /\ plock = p
          /\ UNCHANGED <<hub, index, lists>>
      BY <1>18, <1>r, OpsOfSteps DEF LinkAdopted, At, Op, InProjects
    <2>2. calm /\ Quiet
      BY <1>18, <1>n DEF LinkAdopted
    <2>3. Alone(p) /\ Kept(p)'
      <3>1. CASE Return(p)
        BY <3>1, ReturnAlone
      <3>2. CASE ~Return(p)
        <4>1. /\ Alone(p) /\ run'[p].op = "import" /\ run'[p].step = "save"
              /\ run'[p].project = j /\ run'[p].list.names = run[p].list.names \cup {n}
          BY <1>18, <1>r, <2>1, <3>2 DEF LinkAdopted, Alone, Runs, Lists, Op
        <4> QED
          BY <1>k, <2>1, <2>2, <4>1 DEF Kept, Writing, At
      <3> QED
        BY <3>1, <3>2
    <2>4. \A i \in Projects, m \in Skills : Copied(i, m)' =>
            Copied(i, m) /\ tree'[i][m] = tree[i][m]
      <3>1. CASE UNCHANGED tree
        BY <3>1 DEF Copied
      <3>2. CASE tree' = [tree EXCEPT ![j][n] = Link]
        BY <1>t, <2>1, <3>2 DEF Copied, Link, Entry
      <3> QED
        BY <1>18, <3>1, <3>2 DEF LinkAdopted
    <2> HIDE DEF j
    <2>5. \A q \in Procs : Kept(q)'
      BY <2>1, <2>2, <2>3, OthersKept
    <2>6. \A i, m : ~Leaving(i, m)
      BY <2>1, OneClears DEF At
    <2>7. Placed'
      BY <2>1, <2>2, <2>4, <2>6 DEF Quiet, Placed
    <2>8. Current'
      BY <1>t, <2>1, <2>2, <2>3, <2>4, CurrentStays, NothingOwed
    <2> QED
      BY <2>5, <2>7, <2>8 DEF Quiet
  <1>19. ASSUME NEW j \in Projects, NEW n \in Skills, UserEdits(j, n) PROVE Quiet'
    <2>1. Quiet /\ UNCHANGED <<hub, index, lists, run>>
      BY <1>19 DEF UserEdits
    <2>2. \A i \in Projects, m \in Skills : Copied(i, m)' =>
            Copied(i, m) /\ tree'[i][m] = tree[i][m]
      <3>1. PICK e \in {Missing} \cup {Entry("user", c) : c \in UserContents} :
              tree' = [tree EXCEPT ![j][n] = e]
        BY <1>19 DEF UserEdits
      <3>2. e.kind # "copy"
        BY DEF Missing, Entry
      <3> QED
        BY <1>t, <3>1, <3>2 DEF Copied
    <2>3. ASSUME NEW q \in Procs PROVE Kept(q)'
      <3>1. Kept(q)
        BY <2>1 DEF Quiet
      <3> QED
        BY <2>1, <3>1 DEF Kept
    <2>4. Placed'
      BY <2>1, <2>2 DEF Quiet, Placed, Leaving, At
    <2>5. Current'
      BY <1>t, <2>1, <2>2 DEF Quiet, Current
    <2> QED
      BY <2>3, <2>4, <2>5 DEF Quiet
  <1>20. ASSUME NEW p \in Procs, Crash(p) PROVE Quiet'
    BY <1>20 DEF Crash, Fault
  <1>21. ASSUME NEW p \in Procs, Work(p) PROVE Quiet'
    BY <1>21, <1>4, <1>5, <1>6, <1>7, <1>8, <1>f1, <1>l, <1>9, <1>10, <1>11, <1>12, <1>13,
       <1>14, <1>15, <1>c, <1>16, <1>17, <1>18 DEF Work
  <1> QED
    BY <1>0, <1>1, <1>2, <1>3, <1>19, <1>20, <1>21 DEF Next

\* While nothing has failed and no project was lost from the index, no copy is
\* forgotten: it has the content of the hub, or an update is on its way to it.
THEOREM NoCopyIsForgotten == Spec => []CopiesAreCurrent
  <1> DEFINE IInv == Threaded /\ Seeing /\ (calm => Quiet)
  <1>1. Init => IInv
    <2> SUFFICES ASSUME Init PROVE IInv
      OBVIOUS
    <2>1. \A j \in Projects, n \in Skills : ~Copied(j, n)
      BY DEF Init, Copied, Missing, Entry
    <2>2. \A p \in Procs : Kept(p)
      BY DEF Init, Kept, Idle, Writing
    <2>3. Seeing
      BY DEF Init, Seeing, Idle
    <2> QED
      BY <2>1, <2>2, <2>3, InitThreaded DEF Init, Quiet, Placed, Current
  <1>2. IInv /\ [Next]_vars => IInv'
    BY StepThreaded, StepSeeing, StepQuiet
  <1>3. IInv => CopiesAreCurrent
    BY DEF Quiet, Current, Copied, CopiesAreCurrent, Owes, Owing, Op, At
  <1> QED
    BY <1>1, <1>2, <1>3, PTL DEF Spec

\* No operation takes away or changes what the user put in a project before it
\* looked, but for an import that has it in the hub afterwards.
THEOREM UserEntriesAreKept == Spec => UserEntriesStay
  <1> DEFINE Spared(j, n) ==
        \/ hub'[n] = tree[j][n].content
        \/ \E p \in Procs : /\ run[p].project = j /\ n \in run[p].at
                           /\ run[p].seen # tree[j][n] /\ run'[p] # run[p]
  <1>1. ASSUME Threaded, [Next]_vars
        PROVE  [\A j \in Projects, n \in Skills :
                  (tree[j][n].kind = "user" /\ tree'[j][n] # tree[j][n] /\ run' # run) =>
                    Spared(j, n)]_vars
    <2> SUFFICES ASSUME Next, NEW j \in Projects, NEW n \in Skills, tree[j][n].kind = "user",
                        tree'[j][n] # tree[j][n], run' # run
                 PROVE  Spared(j, n)
      BY <1>1
    <2>t. /\ tree \in [Projects -> [Skills -> Entries]]
          /\ hub \in [Skills -> Contents \cup {Absent}]
          /\ \A p \in Procs : RecordOK(run[p]) /\ run[p] \in Runs
          /\ run \in [Procs -> Runs]
      BY <1>1 DEF Threaded, TypeOK
    <2>u. ~Owned(tree[j][n]) /\ tree[j][n] \notin {Missing, Link} /\ tree[j][n].kind # "copy"
      BY DEF Owned, Missing, Link, Entry
    \* The thread that has acted on an entry is no longer at it.
    <2>s. ASSUME NEW p \in Procs, run[p].project = j, n \in run[p].at, run[p].seen # tree[j][n],
                 run'[p].at = {}
          PROVE  Spared(j, n)
      BY <2>s
    <2>a. ASSUME NEW p \in Procs, NEW m \in Skills,
                 \/ Refresh(p, m) \/ Forget(p, m) \/ Clear(p, m) \/ Deploy(p, m) \/ Adopt(p, m)
          PROVE  run[p].project = j /\ m = n /\ n \in run[p].at /\ run'[p].at = {}
      <3>1. run'[p].at = {} /\ m \in run[p].at
        BY <1>1, <2>a, ActsOnEntry
      <3>2. \/ UNCHANGED tree
            \/ \E e : tree' = [tree EXCEPT ![run[p].project][m] = e]
        BY <2>a DEF Refresh, Forget, Clear, Deploy, Adopt
      <3>3. run[p].project = j /\ m = n
        BY <2>t, <3>2
      <3> QED
        BY <3>1, <3>3
    <2>1. ASSUME NEW p \in Procs, NEW m \in Skills, Refresh(p, m) PROVE Spared(j, n)
      <3>1. run[p].seen.kind = "copy"
        BY <2>1 DEF Refresh, Stale
      <3> QED
        BY <2>1, <2>a, <2>s, <2>u, <3>1
    <2>2. ASSUME NEW p \in Procs, NEW m \in Skills, Forget(p, m) \/ Clear(p, m)
          PROVE  Spared(j, n)
      <3>1. Owned(run[p].seen)
        BY <2>2, <2>t DEF Forget, Clear
      <3> QED
        BY <2>2, <2>a, <2>s, <2>u, <3>1
    <2>3. ASSUME NEW p \in Procs, NEW m \in Skills, Deploy(p, m) PROVE Spared(j, n)
      <3>1. run[p].seen \in {Missing, Link}
        BY <2>3 DEF Deploy, Deployable
      <3> QED
        BY <2>3, <2>a, <2>s, <2>u, <3>1
    <2>4. ASSUME NEW p \in Procs, NEW m \in Skills, Adopt(p, m) PROVE Spared(j, n)
      <3>1. m = n /\ run[p].project = j /\ n \in run[p].at /\ run'[p].at = {}
        BY <2>4, <2>a
      <3>2. CASE run[p].seen # tree[j][n]
        BY <2>s, <3>1, <3>2
      <3>3. CASE run[p].seen = tree[j][n]
        <4>1. /\ Adopted(n, tree[j][n])
              /\ hub' = [hub EXCEPT ![n] = IF @ = Absent THEN tree[j][n].content ELSE @]
          BY <2>4, <3>1, <3>3 DEF Adopt
        <4> QED
          BY <2>t, <4>1 DEF Adopted
      <3> QED
        BY <3>2, <3>3
    <2>5. ASSUME NEW p \in Procs, NEW m \in Skills, LinkAdopted(p, m) PROVE FALSE
      BY <2>5, <2>t, <2>u DEF LinkAdopted
    <2> HIDE DEF Spared
    <2>7. ASSUME NEW p \in Procs, Work(p) PROVE Spared(j, n)
      BY <2>7, <2>1, <2>2, <2>3, <2>4, <2>5 DEF Work, WriteFolder, WriteNothing, Cascade, Look,
         ClearProject, CascadeEnds, ClearEnds, DeleteFolder, LoadIndex, SaveIndex, DropList,
         LoadList, SaveList, Cleared, DeployEnds, disk
    <2>8. ASSUME NEW p \in Procs, TakeTransaction(p) \/ TakeProjects(p) \/ Crash(p) PROVE FALSE
      BY <2>8 DEF TakeTransaction, TakeProjects, Crash, disk
    <2>9. ASSUME NEW p \in Procs, NEW o \in Operations, NEW i \in Projects,
                 NEW S \in SUBSET Skills, NEW m \in Modes, Start(p, o, i, S, m)
          PROVE  FALSE
      BY <2>9 DEF Start, disk
    <2>10. ASSUME NEW i \in Projects, NEW m \in Skills, UserEdits(i, m) PROVE FALSE
      BY <2>10 DEF UserEdits
    <2> QED
      BY <2>7, <2>8, <2>9, <2>10 DEF Next
  <1> QED
    BY <1>1, AlwaysThreaded, PTL DEF Spec, UserEntriesStay
-----------------------------------------------------------------------------
\* List j is as it was when it had the names S, or was deleted with its project.
Stands(j, S) == lists[j].names \in {S, {}}

\* What a thread knows of the list it works on and of the folder it links to,
\* whatever fails and whoever else is at work.
Knows(p) ==
    LET r == run[p]
        j == run[p].project IN
    /\ r.op = "add" /\ r.step = "save" => Stands(j, r.list.names)
    /\ r.step \in {"adopt", "link"} => Stands(j, r.list.names)
    /\ r.op = "import" /\ r.step = "save" =>
         \/ lists[j].names = {}
         \/ /\ lists[j].names \subseteq r.list.names
            /\ r.list.names \subseteq lists[j].names \cup r.skills
    /\ r.step = "link" => \A n \in r.skills : hub[n] # Absent
    /\ r.step = "clear" => Stands(j, r.skills)
    /\ r.step = "deploy" => r.todo \subseteq r.skills
    /\ r.step = "deploy" => r.skills \subseteq lists[j].names \/ lists[j].names = {}

\* The steps that know something.
Knowing == {"save", "adopt", "link", "clear", "deploy"}

\* At the others there is nothing to know.
LEMMA NothingKnown ==
    ASSUME NEW p \in Procs, run'[p].step \notin Knowing
    PROVE  Knows(p)'
  BY DEF Knows, Knowing

\* What the others know stays true: p deletes a list at most, or has the project
\* lock, and deletes no folder unless it has the transaction.
LEMMA OthersKnow ==
    ASSUME Threaded, \A q \in Procs : Knows(q), NEW p \in Procs, Alone(p),
           plock = p \/ \A j \in Projects : lists'[j].names \in {lists[j].names, {}},
           txn = p \/ \A n \in Skills : hub[n] # Absent => hub'[n] # Absent
    PROVE  \A q \in Procs \ {p} : Knows(q)'
  <1> SUFFICES ASSUME NEW q \in Procs \ {p}, run[q].step \in Knowing PROVE Knows(q)'
    BY NothingKnown DEF Alone
  <1>1. /\ run'[q] = run[q] /\ Knows(q) /\ run[q] \in Runs /\ RecordOK(run[q]) /\ plock = q
        /\ run[q].step = "link" => txn = q
    BY OpsOfSteps DEF Alone, Threaded, InProjects, InTransaction, Knowing
  <1>2. run[q].project \in Projects /\ run[q].skills \subseteq Skills
    BY <1>1 DEF RecordOK, Runs, Idle, Knowing
  <1>3. lists'[run[q].project].names \in {lists[run[q].project].names, {}}
    BY <1>1, <1>2
  <1>4. run[q].step = "link" => \A n \in run[q].skills : hub[n] # Absent => hub'[n] # Absent
    BY <1>1, <1>2
  <1> QED
    BY <1>1, <1>3, <1>4 DEF Knows, Stands

\* A step that leaves lists and folders alone.
LEMMA OthersStill ==
    ASSUME Threaded, \A q \in Procs : Knows(q), NEW p \in Procs, Alone(p), UNCHANGED <<lists, hub>>
    PROVE  \A q \in Procs \ {p} : Knows(q)'
  BY OthersKnow

\* A thread that returns knows nothing.
LEMMA ReturnKnows ==
    ASSUME Threaded, NEW p \in Procs, Return(p)
    PROVE  Alone(p) /\ Knows(p)' /\ run'[p] = Idle
  <1>1. Alone(p) /\ run'[p] = Idle
    BY DEF Return, Alone, Threaded
  <1> QED
    BY <1>1, NothingKnown DEF Idle, Knowing

\* The list an add, a rebuild or an import saves, and a sync.
LEMMA ListMade ==
    ASSUME NEW p \in Procs
    PROVE  /\ Op(p) = "save" => NewList(p).names = run[p].skills
           /\ Op(p) = "add" => NewList(p).names = run[p].list.names \cup run[p].skills
           /\ Op(p) = "rebuild" => NewList(p).names = OnDisk(run[p].project)
           /\ Op(p) = "import" => NewList(p) = run[p].list
  <1>1. Op(p) = "save" => NewList(p).names = run[p].skills
    BY DEF NewList, Op, Pruned, List
  <1>2. Op(p) = "add" => NewList(p).names = run[p].list.names \cup run[p].skills
    BY DEF NewList, Op, List
  <1>3. Op(p) = "rebuild" => NewList(p).names = OnDisk(run[p].project)
    BY DEF NewList, Op, Pruned, List
  <1>4. Op(p) = "import" => NewList(p) = run[p].list
    BY DEF NewList, Op
  <1> QED
    BY <1>1, <1>2, <1>3, <1>4

\* Where a lock leads, no list is known yet.
LEMMA AfterSteps ==
    ASSUME NEW o
    PROVE  /\ o \in {"import", "install", "update", "uninstall"} =>
                After(o, "txn") \in {"projects", "folder"}
           /\ o \in {"save", "add", "import", "rebuild", "update", "uninstall"} =>
                After(o, "projects") \in {"refresh", "index", "clear_all"}
  BY DEF After, Locks, Body, Unlocked

\* Every thread keeps what it knows ...
LEMMA StepKnows ==
    ASSUME Threaded, Seeing, \A q \in Procs : Knows(q), [Next]_vars
    PROVE  \A q \in Procs : Knows(q)'
  <1> DEFINE All == \A q \in Procs : Knows(q)
  <1>t. /\ lists \in [Projects -> Lists] /\ hub \in [Skills -> Contents \cup {Absent}]
        /\ tree \in [Projects -> [Skills -> Entries]] /\ run \in [Procs -> Runs]
        /\ \A p \in Procs : run[p] \in Runs /\ RecordOK(run[p])
    BY DEF Threaded, TypeOK, Lists
  <1>j. ASSUME NEW p \in Procs, Op(p) # "none"
        PROVE  run[p].project \in Projects /\ run[p].skills \subseteq Skills
    BY <1>t, <1>j DEF RecordOK, Runs, Op
  <1>o. ASSUME NEW p \in Procs, run[p].step # "none" PROVE Op(p) # "none"
    BY <1>t, <1>o DEF RecordOK, Idle, Op
  <1>1. ASSUME UNCHANGED vars PROVE All'
    BY <1>1 DEF vars, disk, Knows, Stands
  <1>2. ASSUME NEW j \in Projects, NEW n \in Skills, UserEdits(j, n) PROVE All'
    BY <1>2 DEF UserEdits, Knows, Stands
  \* A step of p alone that keeps lists and folders, to a step that knows nothing.
  <1>q. ASSUME NEW p \in Procs, UNCHANGED <<lists, hub>>, Alone(p), run'[p].step \notin Knowing
        PROVE  All'
    BY <1>q, OthersStill, NothingKnown
  <1>w. ASSUME NEW p \in Procs, UNCHANGED <<lists, hub>>, Return(p)
        PROVE  All'
    BY <1>w, OthersStill, ReturnKnows
  <1>3. ASSUME NEW p \in Procs, NEW o \in Operations, NEW i \in Projects,
               NEW S \in SUBSET Skills, NEW m \in Modes, Start(p, o, i, S, m)
        PROVE  All'
    <2>1. Alone(p) /\ run'[p].step = FirstStep(o) /\ UNCHANGED <<lists, hub>>
      BY <1>3, <1>t DEF Start, Alone, disk, Idle
    <2>2. FirstStep(o) \notin Knowing
      BY FirstSteps DEF Knowing
    <2> QED
      BY <2>1, <2>2, <1>q
  <1>4. ASSUME NEW p \in Procs, TakeTransaction(p) \/ TakeProjects(p) PROVE All'
    <2>1. Alone(p) /\ UNCHANGED <<lists, hub>>
      BY <1>4, <1>t DEF TakeTransaction, TakeProjects, Alone, disk, Goes
    <2>2. \/ run'[p].step = After(Op(p), "txn") /\ Op(p) \in {"import", "install", "update", "uninstall"}
          \/ run'[p].step = After(Op(p), "projects")
             /\ Op(p) \in {"save", "add", "import", "rebuild", "update", "uninstall"}
      BY <1>4, <1>t, OpsOfSteps DEF TakeTransaction, TakeProjects, At, Op, Goes, Runs
    <2>3. run'[p].step \notin Knowing
      BY <2>2, AfterSteps DEF Knowing
    <2> QED
      BY <2>1, <2>3, <1>q
  <1>5. ASSUME NEW p \in Procs, Crash(p) PROVE All'
    BY <1>5, <1>w DEF Crash, disk
  <1>6. ASSUME NEW p \in Procs, NEW n \in Skills, NEW c \in Contents, WriteFolder(p, n, c) PROVE All'
    <2>1. Alone(p) /\ run'[p].step \in {"none", "cascade"} /\ UNCHANGED lists
      BY <1>6, <1>t DEF WriteFolder, Alone, Idle, Runs
    <2>2. \A m \in Skills : hub[m] # Absent => hub'[m] # Absent
      BY <1>6, <1>t, ContentsAssumption DEF WriteFolder
    <2> QED
      BY <2>1, <2>2, OthersKnow, NothingKnown DEF Knowing
  <1>7. ASSUME NEW p \in Procs, WriteNothing(p) \/ CascadeEnds(p) \/ DeployEnds(p) PROVE All'
    BY <1>7, <1>w DEF WriteNothing, CascadeEnds, DeployEnds, disk
  <1>8. ASSUME NEW p \in Procs, NEW j \in Projects, Cascade(p, j) PROVE All'
    <2>1. Alone(p) /\ run'[p].step \in {"cascade", "projects"} /\ UNCHANGED <<lists, hub>>
      BY <1>8, <1>t DEF Cascade, Alone, disk, Runs, At
    <2> QED
      BY <2>1, <1>q DEF Knowing
  <1>9. ASSUME NEW p \in Procs, NEW n \in Skills, Refresh(p, n) PROVE All'
    <2>1. Alone(p) /\ run'[p].step = "cascade" /\ UNCHANGED <<lists, hub>>
      BY <1>9, <1>t DEF Refresh, Alone, ActedTo, Acted, Runs
    <2> QED
      BY <2>1, <1>q DEF Knowing
  <1>10. ASSUME NEW p \in Procs, NEW j \in Projects, NEW n \in Skills, ClearProject(p, j, n) PROVE All'
    <2>1. Alone(p) /\ run'[p].step = "forget" /\ UNCHANGED hub /\ plock = p
      BY <1>10, <1>t DEF ClearProject, Alone, Runs, At, Threaded, InProjects
    <2> QED
      BY <2>1, OthersKnow, NothingKnown DEF Knowing
  <1>f. ASSUME NEW p \in Procs, NEW n \in Skills, Forget(p, n) PROVE All'
    <2>1. CASE Return(p)
      BY <1>f, <2>1, <1>w DEF Forget
    <2>2. CASE ~Return(p)
      <3>1. /\ UNCHANGED <<lists, hub>>
            /\ run' = [run EXCEPT ![p] = [Acted(run[p]) EXCEPT !.step = "clear_all",
                                                          !.todo = @ \ {run[p].project}]]
        BY <1>f, <2>2 DEF Forget
      <3>2. Alone(p) /\ run'[p].step = "clear_all"
        BY <3>1, <1>t DEF Acted, Alone, Runs
      <3> QED
        BY <3>1, <3>2, <1>q DEF Knowing
    <2> QED
      BY <2>1, <2>2
  <1>l. ASSUME NEW p \in Procs, NEW n \in Skills, Look(p, n) PROVE All'
    <2>1. /\ Alone(p) /\ UNCHANGED <<lists, hub>> /\ run'[p].op = run[p].op
          /\ run'[p].step = run[p].step /\ run'[p].project = run[p].project
          /\ run'[p].skills = run[p].skills /\ run'[p].todo = run[p].todo
          /\ run'[p].list = run[p].list
      BY <1>l, <1>t DEF Look, Alone, disk, Runs
    <2>2. Knows(p)'
      BY <2>1 DEF Knows, Stands
    <2> QED
      BY <2>1, <2>2, OthersStill
  <1>11. ASSUME NEW p \in Procs, ClearEnds(p) PROVE All'
    <2>1. Alone(p) /\ run'[p].step = "body" /\ UNCHANGED <<lists, hub>>
      BY <1>11, <1>t DEF ClearEnds, Alone, disk, Goes, Runs
    <2> QED
      BY <2>1, <1>q DEF Knowing
  <1>12. ASSUME NEW p \in Procs, NEW n \in Skills, DeleteFolder(p, n) PROVE All'
    <2>1. txn = p /\ UNCHANGED lists /\ Return(p)
      BY <1>12, <1>t, OpsOfSteps DEF DeleteFolder, At, Threaded, InTransaction
    <2> QED
      BY <2>1, OthersKnow, ReturnKnows
  <1>13. ASSUME NEW p \in Procs, LoadIndex(p) PROVE All'
    <2>1. CASE Return(p)
      BY <1>13, <2>1, <1>w DEF LoadIndex, disk
    <2>2. CASE ~Return(p)
      <3>1. Alone(p) /\ run'[p].step \in {"load", "save_index"} /\ UNCHANGED <<lists, hub>>
        BY <1>13, <1>t, <2>2 DEF LoadIndex, Alone, disk, Runs
      <3> QED
        BY <3>1, <1>q DEF Knowing
    <2> QED
      BY <2>1, <2>2
  <1>14. ASSUME NEW p \in Procs, SaveIndex(p) PROVE All'
    <2>1. CASE Return(p)
      BY <1>14, <2>1, <1>w DEF SaveIndex
    <2>2. CASE ~Return(p)
      <3>1. Alone(p) /\ run'[p].step \in {"load", "drop_list"} /\ UNCHANGED <<lists, hub>>
        BY <1>14, <1>t, <2>2 DEF SaveIndex, Alone, Runs
      <3> QED
        BY <3>1, <1>q DEF Knowing
    <2> QED
      BY <2>1, <2>2
  <1>15. ASSUME NEW p \in Procs, DropList(p) PROVE All'
    <2>1. \A j \in Projects : lists'[j].names \in {lists[j].names, {}}
      BY <1>15, <1>t DEF DropList, NoList, List
    <2> QED
      BY <1>15, <2>1, OthersKnow, ReturnKnows DEF DropList
  <1>16. ASSUME NEW p \in Procs, LoadList(p) PROVE All'
    <2> DEFINE j == run[p].project
    <2>1. /\ Alone(p) /\ UNCHANGED <<lists, hub>> /\ run'[p].list = lists[j]
          /\ run'[p].step = (IF Op(p) = "import" THEN "adopt" ELSE "save")
          /\ run'[p].op = Op(p) /\ run'[p].project = j
      BY <1>16, <1>t DEF LoadList, Alone, disk, Runs, Op
    <2>2. Knows(p)'
      BY <2>1 DEF Knows, Stands
    <2> QED
      BY <2>1, <2>2, OthersStill
  <1>17. ASSUME NEW p \in Procs, SaveList(p) PROVE All'
    <2> DEFINE j == run[p].project
    <2>1. /\ plock = p /\ UNCHANGED hub /\ j \in Projects
          /\ Op(p) \in {"save", "add", "import", "rebuild"}
      BY <1>17, <1>t, <1>j, <1>o, OpsOfSteps DEF SaveList, At, Op, Threaded, InProjects
    <2>2. CASE Return(p)
      BY <2>1, <2>2, OthersKnow, ReturnKnows
    <2>3. CASE ~Return(p)
      <3>1. PICK k :
              /\ Op(p) \in {"save", "add"} /\ lists' = [lists EXCEPT ![j] = NewList(p)]
              /\ run' = [run EXCEPT ![p].step = IF Op(p) = "save" THEN "clear" ELSE "deploy",
                                    ![p].todo = k]
              /\ Op(p) = "add" => k = run[p].skills
        BY <1>17, <2>3 DEF SaveList
      <3>2. /\ Alone(p) /\ run'[p].project = j /\ run'[p].skills = run[p].skills
            /\ (Op(p) = "add" => run'[p].todo = run[p].skills) /\ run'[p].op = Op(p)
            /\ run'[p].step = (IF Op(p) = "save" THEN "clear" ELSE "deploy")
        BY <1>t, <3>1 DEF Alone, Runs, Op
      <3>3. lists'[j].names = IF Op(p) = "save" THEN run[p].skills
                                                ELSE run[p].list.names \cup run[p].skills
        BY <1>t, <2>1, <3>1, ListMade
      <3>4. Knows(p)'
        <4>1. CASE Op(p) = "save"
          BY <4>1, <3>2, <3>3 DEF Knows, Stands
        <4>2. CASE Op(p) = "add"
          BY <4>2, <3>2, <3>3 DEF Knows, Stands
        <4> QED
          BY <3>1, <4>1, <4>2
      <3> QED
        BY <2>1, <3>2, <3>4, OthersKnow
    <2> QED
      BY <2>2, <2>3
  <1>18. ASSUME NEW p \in Procs, NEW n \in Skills, Clear(p, n) PROVE All'
    <2>1. CASE Return(p)
      BY <1>18, <2>1, <1>w DEF Clear
    <2>2. CASE ~Return(p)
      <3>1. /\ UNCHANGED <<lists, hub>> /\ At(p, "clear")
            /\ run' = [run EXCEPT ![p] = [Acted(run[p]) EXCEPT !.todo = @ \ {n}]]
        BY <1>18, <2>2 DEF Clear
      <3>2. /\ Alone(p) /\ run'[p].op = run[p].op /\ run'[p].step = "clear"
            /\ run'[p].project = run[p].project /\ run'[p].skills = run[p].skills
        BY <1>t, <3>1 DEF Acted, Alone, Runs, At
      <3>3. Knows(p)'
        BY <3>1, <3>2 DEF Knows, Stands, At
      <3> QED
        BY <3>1, <3>2, <3>3, OthersStill
    <2> QED
      BY <2>1, <2>2
  <1>c. ASSUME NEW p \in Procs, Cleared(p) PROVE All'
    <2>1. /\ Alone(p) /\ UNCHANGED <<lists, hub>> /\ At(p, "clear")
          /\ run'[p].step = "deploy" /\ run'[p].project = run[p].project
          /\ run'[p].skills = run[p].skills /\ run'[p].todo = run[p].skills
      BY <1>c, <1>t DEF Cleared, Alone, disk, Runs, At
    <2>2. Knows(p)'
      BY <2>1 DEF Knows, Stands, At
    <2> QED
      BY <2>1, <2>2, OthersStill
  <1>19. ASSUME NEW p \in Procs, NEW n \in Skills, Deploy(p, n) PROVE All'
    <2>1. /\ UNCHANGED <<lists, hub>> /\ At(p, "deploy")
          /\ run' = [run EXCEPT ![p] = [Acted(run[p]) EXCEPT !.todo = @ \ {n}]]
      BY <1>19 DEF Deploy
    <2>2. /\ Alone(p) /\ run'[p].step = "deploy" /\ run'[p].project = run[p].project
          /\ run'[p].skills = run[p].skills /\ run'[p].todo = run[p].todo \ {n}
      BY <1>t, <2>1 DEF Acted, Alone, Runs, At
    <2>3. Knows(p)'
      BY <2>1, <2>2 DEF Knows, At
    <2> QED
      BY <2>1, <2>2, <2>3, OthersStill
  <1>20. ASSUME NEW p \in Procs, NEW n \in Skills, Adopt(p, n) PROVE All'
    <2> DEFINE j == run[p].project
               saw == run[p].seen
    <2>1. /\ UNCHANGED lists /\ At(p, "adopt") /\ Op(p) = "import" /\ n \in run[p].at
          /\ j \in Projects
      BY <1>20, <1>t, <1>j, OpsOfSteps DEF Adopt, At, Op
    <2>2. run[p].skills = {n}
      <3>1. n \in run[p].skills
        BY <2>1, <1>t DEF RecordOK, Due, At
      <3> QED
        BY <2>1, <3>1, <1>t DEF RecordOK, Single, Op
    <2>3. ASSUME NEW x \in {"link", "save"}, ActedTo(p, x), x = "link" => hub'[n] # Absent,
                 \A m \in Skills : hub[m] # Absent => hub'[m] # Absent
          PROVE  All'
      <3>1. /\ Alone(p) /\ run'[p].step = x /\ run'[p].op = "import" /\ run'[p].project = j
            /\ run'[p].skills = run[p].skills /\ run'[p].list = run[p].list
        BY <1>t, <2>1, <2>3 DEF ActedTo, Acted, Alone, Runs, Op
      <3>2. Knows(p)'
        BY <2>1, <2>2, <2>3, <3>1 DEF Knows, Stands, At, Op
      <3> QED
        BY <2>1, <2>3, <3>1, <3>2, OthersKnow
    <2>4. CASE /\ Adopted(n, saw) /\ tree[j][n] # Missing
               /\ \E e \in {saw, tree[j][n]} :
                    hub' = [hub EXCEPT ![n] = IF @ = Absent THEN e.content ELSE @]
               /\ ActedTo(p, "link")
      <3>1. saw \in Entries /\ tree[j][n] \in Entries
        BY <1>t, <2>1 DEF Runs
      <3>2. saw.kind = "user" /\ tree[j][n].kind = "user"
        <4>1. Stays(p, n)
          BY <2>1 DEF Seeing
        <4> QED
          BY <2>4, <4>1 DEF Stays, Adopted
      <3>3. saw.content # Absent /\ tree[j][n].content # Absent
        BY <3>1, <3>2, EntryKinds, ContentsAssumption
      <3> HIDE DEF saw
      <3>4. hub'[n] # Absent /\ \A m \in Skills : hub[m] # Absent => hub'[m] # Absent
        BY <1>t, <2>4, <3>3
      <3> QED
        BY <2>3, <2>4, <3>4
    <2>5. CASE ActedTo(p, "save") /\ UNCHANGED hub
      BY <2>3, <2>5
    <2>6. CASE Return(p) /\ UNCHANGED hub
      BY <2>1, <2>6, <1>w
    <2> QED
      BY <1>20, <2>4, <2>5, <2>6 DEF Adopt
  <1>21. ASSUME NEW p \in Procs, NEW n \in Skills, LinkAdopted(p, n) PROVE All'
    <2>1. CASE Return(p)
      BY <1>21, <2>1, <1>w DEF LinkAdopted
    <2>2. CASE ~Return(p)
      <3>1. /\ Alone(p) /\ UNCHANGED <<lists, hub>> /\ At(p, "link") /\ n \in run[p].skills
            /\ run' = [run EXCEPT ![p].step = "save", ![p].list.names = @ \cup {n}]
            /\ Op(p) = "import"
        BY <1>21, <2>2, <1>t, OpsOfSteps DEF LinkAdopted, Alone, At, Op
      <3>2. /\ run'[p].step = "save" /\ run'[p].op = "import" /\ run'[p].project = run[p].project
            /\ run'[p].skills = run[p].skills /\ run'[p].list.names = run[p].list.names \cup {n}
        BY <3>1, <1>t DEF Runs, Lists, Op
      <3>3. Knows(p)'
        BY <3>1, <3>2 DEF Knows, Stands, At
      <3> QED
        BY <3>1, <3>3, OthersStill
    <2> QED
      BY <2>1, <2>2
  <1>22. ASSUME NEW p \in Procs, Work(p) PROVE All'
    BY <1>22, <1>6, <1>7, <1>8, <1>9, <1>10, <1>f, <1>l, <1>11, <1>12, <1>13, <1>14, <1>15,
       <1>16, <1>17, <1>18, <1>c, <1>19, <1>20, <1>21 DEF Work
  <1> HIDE DEF All
  <1>23. All'
    BY <1>1, <1>2, <1>3, <1>4, <1>5, <1>22 DEF Next
  <1> QED
    BY <1>23 DEF All

\* The requests of ProjectRequests that are about one project.
OfOne == {"save", "add", "import", "rebuild", "remove"}

\* What thread p was asked for.
LEMMA AskedOf ==
    ASSUME NEW p \in Procs
    PROVE  /\ Requests!Op(p) = Op(p) /\ Asking[p].skills = run[p].skills
           /\ Op(p) \in OfOne => Asking[p].projects = {run[p].project}
           /\ Op(p) \notin OfOne => Asking[p].projects = Projects
           /\ Asking[p].at = {run[p].project} \X run[p].at /\ Asking[p].seen = run[p].seen
           /\ run[p] = Idle => Asking[p] = Requests!Nothing
  <1>1. {run[p].project} \X {} = {}
    OBVIOUS
  <1>2. run[p] = Idle => Asking[p] = Requests!Nothing
    BY <1>1 DEF Asking, Op, OfOne, Requests!Nothing, Requests!Request, Idle, Requests!Missing,
               Requests!Entry, Missing, Entry
  <1> QED
    BY <1>2 DEF Requests!Op, Asking, Op, OfOne

\* A request, field by field.
AskedFor(o, S, A, e, J) == [op |-> o, skills |-> S, at |-> A, seen |-> e, projects |-> J]
About(rec) == IF rec.op \in OfOne THEN {rec.project} ELSE Projects

LEMMA AskingIs ==
    ASSUME NEW p \in Procs, NEW A, A = {run[p].project} \X run[p].at
    PROVE  Asking[p] = AskedFor(run[p].op, run[p].skills, A, run[p].seen, About(run[p]))
  BY DEF Asking, Op, OfOne, AskedFor, About

LEMMA AskedFields ==
    ASSUME NEW p \in Procs, NEW T, NEW B, NEW f
    PROVE  /\ [Asking[p] EXCEPT !.at = B, !.seen = f]
                = AskedFor(run[p].op, run[p].skills, B, f, About(run[p]))
           /\ [Asking[p] EXCEPT !.skills = T]
                = AskedFor(run[p].op, T, Asking[p].at, run[p].seen, About(run[p]))
  <1> DEFINE o == run[p].op
             S == run[p].skills
             A == Asking[p].at
             e == run[p].seen
             J == About(run[p])
             r == Asking[p]
             q == [r EXCEPT !.at = B]
             R == [op : {o}, skills : {S, T}, at : {A, B}, seen : {e, f}, projects : {J}]
  <1>1. r = AskedFor(o, S, A, e, J)
    BY AskingIs, AskedOf
  <1> HIDE DEF o, S, A, e, J, r
  <1>2. r \in R /\ r = [op |-> o, skills |-> S, at |-> A, seen |-> e, projects |-> J]
    BY <1>1 DEF AskedFor
  <1>3. q \in R /\ q = [op |-> o, skills |-> S, at |-> B, seen |-> e, projects |-> J]
    BY <1>2
  <1>4. [r EXCEPT !.skills = T] = AskedFor(o, T, A, e, J)
    BY <1>2 DEF AskedFor
  <1> HIDE DEF q
  <1>5. [q EXCEPT !.seen = f] = AskedFor(o, S, B, f, J)
    BY <1>3 DEF AskedFor
  <1> QED
    BY <1>4, <1>5 DEF o, S, A, e, J, q, r

LEMMA AskingBecomes ==
    ASSUME NEW p \in Procs, NEW A, A = {run'[p].project} \X run'[p].at
    PROVE  Asking'[p] = AskedFor(run'[p].op, run'[p].skills, A, run'[p].seen, About(run'[p]))
  BY DEF Asking, Op, OfOne, AskedFor, About

\* A step of p changes what p was asked for at most.
LEMMA AskingChanges ==
    ASSUME NEW p \in Procs, Alone(p), NEW r,
           Asking'[p] = r
    PROVE  Asking' = [Asking EXCEPT ![p] = r]
  <1>1. /\ Asking' = [q \in Procs |-> Asking'[q]]
        /\ Asking = [q \in Procs |-> Asking[q]]
    BY DEF Asking
  <1>2. ASSUME NEW q \in Procs \ {p} PROVE Asking'[q] = Asking[q]
    BY DEF Alone, Asking, Op
  <1> QED
    BY <1>1, <1>2, Zenon

\* Thread p goes on with what it was asked for, at the same entry.
AsksOn(p) == /\ Alone(p) /\ run'[p].op = Op(p) /\ run'[p].skills = run[p].skills
             /\ run'[p].at = run[p].at /\ run'[p].seen = run[p].seen
             /\ \/ run'[p].project = run[p].project
                \/ Op(p) \notin OfOne /\ run[p].at = {}

LEMMA AskingStands ==
    ASSUME NEW p \in Procs, AsksOn(p)
    PROVE  Asking' = Asking
  <1>1. ASSUME NEW q \in Procs \ {p} PROVE Asking'[q] = Asking[q]
    BY DEF AsksOn, Alone, Asking, Op
  <1>2. {run'[p].project} \X run'[p].at = {run[p].project} \X run[p].at
    BY DEF AsksOn
  <1>3. Asking'[p] = Asking[p]
    BY <1>2 DEF AsksOn, Asking, Op, OfOne
  <1>4. \A q \in Procs : Asking'[q] = Asking[q]
    BY <1>1, <1>3
  <1>5. /\ Asking' = [q \in Procs |-> Asking'[q]]
        /\ Asking = [q \in Procs |-> Asking[q]]
    BY DEF Asking
  <1> QED
    BY <1>4, <1>5, Zenon

\* It has acted on the entry ...
LEMMA AskingActs ==
    ASSUME Threaded, NEW p \in Procs, Alone(p), LeavesEntry(p)
    PROVE  Requests!Acts(p)
  <1>1. {run'[p].project} \X run'[p].at = {}
    BY DEF LeavesEntry
  <1>2. Asking'[p] = [Asking[p] EXCEPT !.at = {}, !.seen = Missing]
    <2>1. Asking'[p] = AskedFor(run[p].op, run[p].skills, {}, Missing, About(run[p]))
      BY <1>1, AskingBecomes DEF LeavesEntry, About
    <2>2. [Asking[p] EXCEPT !.at = {}, !.seen = Missing]
            = AskedFor(run[p].op, run[p].skills, {}, Missing, About(run[p]))
      BY AskedFields, Zenon
    <2> QED
      BY <2>1, <2>2, Zenon
  <1>3. Asking' = [Asking EXCEPT ![p] = [Asking[p] EXCEPT !.at = {}, !.seen = Missing]]
    BY <1>2, AskingChanges
  <1>4. Requests!Missing = Missing
    BY DEF Requests!Missing, Missing, Requests!Entry, Entry
  <1> QED
    BY <1>3, <1>4 DEF Requests!Acts

\* ... or returns.
LEMMA AskingEnds ==
    ASSUME Threaded, NEW p \in Procs, Return(p)
    PROVE  Asking' = [Asking EXCEPT ![p] = Requests!Nothing]
  <1>1. Alone(p) /\ run'[p] = Idle
    BY ReturnKnows
  <1>2. Asking'[p] = Requests!Nothing
    <2>1. {run'[p].project} \X run'[p].at = {}
      BY <1>1 DEF Idle
    <2> QED
      BY <1>1, <2>1 DEF Asking, Op, Idle, Requests!Nothing, Requests!Request, Requests!Missing,
                        Missing, Requests!Entry, Entry
  <1> QED
    BY <1>1, <1>2, AskingChanges

\* The names of one list change.
LEMMA NamesChange ==
    ASSUME lists \in [Projects -> Lists], NEW j \in Projects, NEW l, lists' = [lists EXCEPT ![j] = l]
    PROVE  Names' = [Names EXCEPT ![j] = l.names]
  BY DEF Names

\* The two modules write entries the same way.
LEMMA SameEntries ==
    /\ Requests!Missing = Missing /\ Requests!Link = Link
    /\ \A k, c : Requests!Entry(k, c) = Entry(k, c)
    /\ \A e : Requests!Ours(e) = Owned(e)
  BY DEF Requests!Missing, Missing, Requests!Link, Link, Requests!Entry, Entry, Requests!Ours, Owned

\* Every step of a thread or of the user's is one its request allows.
LEMMA StepMeets ==
    ASSUME Threaded, Seeing, \A q \in Procs : Knows(q), [Next]_vars
    PROVE  [Requests!Next]_(Requests!vars)
  <1> DEFINE Met == Requests!Next \/ UNCHANGED Requests!vars
  <1>t. /\ lists \in [Projects -> Lists] /\ hub \in [Skills -> Contents \cup {Absent}]
        /\ tree \in [Projects -> [Skills -> Entries]] /\ run \in [Procs -> Runs]
        /\ \A p \in Procs : run[p] \in Runs /\ RecordOK(run[p])
    BY DEF Threaded, TypeOK, Lists
  <1>j. ASSUME NEW p \in Procs, Op(p) # "none"
        PROVE  run[p].project \in Projects /\ run[p].skills \subseteq Skills
    BY <1>t, <1>j DEF RecordOK, Runs, Op
  <1>a. ASSUME NEW p \in Procs, run[p].step # "none"
        PROVE  run[p].project \in Asking[p].projects /\ run[p].project \in Projects
               /\ run[p].skills \subseteq Skills
    <2>1. Op(p) # "none"
      BY <1>t, <1>a DEF RecordOK, Idle, Op
    <2> QED
      BY <2>1, <1>j, AskedOf
  <1>n. UNCHANGED lists => UNCHANGED Names
    BY DEF Names
  \* Nothing the requests are about changes.
  <1>q. ASSUME NEW p \in Procs, UNCHANGED <<lists, hub, tree>>, AsksOn(p)
        PROVE  Met
    BY <1>q, <1>n, AskingStands DEF Requests!vars
  \* An entry is left as it is.
  <1>p. ASSUME NEW p \in Procs, UNCHANGED <<lists, hub, tree>>, Alone(p), LeavesEntry(p)
        PROVE  Met
    <2>1. Requests!PassesBy(p)
      BY <1>p, <1>n, AskingActs DEF Requests!PassesBy
    <2> QED
      BY <2>1 DEF Requests!Next
  \* A thread at an entry.
  <1>e. ASSUME NEW p \in Procs, NEW n \in run[p].at
        PROVE  /\ <<run[p].project, n>> \in Asking[p].at /\ n \in Due(run[p])
               /\ Asking[p].seen = run[p].seen
    BY <1>t, <1>e, AskedOf DEF RecordOK
  \* A request ends.
  <1>w. ASSUME NEW p \in Procs, UNCHANGED <<lists, hub, tree>>, Return(p) PROVE Met
    BY <1>w, <1>n, AskingEnds DEF Requests!Ends, Requests!Next
  <1>1. ASSUME UNCHANGED vars PROVE Met
    <2>1. UNCHANGED Asking
      BY <1>1 DEF vars, Asking, Op
    <2> QED
      BY <1>1, <2>1, <1>n DEF vars, disk, Requests!vars
  <1>2. ASSUME NEW j \in Projects, NEW n \in Skills, UserEdits(j, n) PROVE Met
    <2>1. UNCHANGED <<hub, Names, Asking>>
      BY <1>2, <1>n DEF UserEdits, Asking, Op
    <2>2. Requests!UserPuts(j, n)
      BY <1>2, <2>1, SameEntries DEF UserEdits, Requests!UserPuts
    <2> QED
      BY <2>2 DEF Requests!Next
  <1>3. ASSUME NEW p \in Procs, NEW o \in Operations, NEW i \in Projects,
               NEW S \in SUBSET Skills, NEW m \in Modes, Start(p, o, i, S, m)
        PROVE  Met
    <2> DEFINE r == Requests!Request(o, S, IF o \in OfOne THEN {i} ELSE Projects)
    <2>1. /\ Alone(p) /\ UNCHANGED <<lists, hub, tree>> /\ run[p] = Idle
          /\ run'[p].op = o /\ run'[p].skills = S /\ run'[p].project = i
          /\ run'[p].at = {} /\ run'[p].seen = Missing
      BY <1>3, <1>t DEF Start, Alone, disk, Idle
    <2>2. Asking[p] = Requests!Nothing
      BY <2>1, AskedOf
    <2>3. Asking'[p] = r
      <3>1. {run'[p].project} \X run'[p].at = {}
        BY <2>1
      <3> QED
        BY <2>1, <3>1, SameEntries DEF Asking, Op, OfOne, Requests!Request
    <2>4. Asking' = [Asking EXCEPT ![p] = r]
      BY <2>1, <2>3, AskingChanges
    <2>5. Requests!Asks(p)
      <3>1. CASE o \in OfOne
        BY <2>1, <2>2, <2>4, <3>1, <1>n DEF Requests!Asks, Requests!OfOne, OfOne
      <3>2. CASE o \notin OfOne
        <4>1. o \in Requests!OfAll
          BY <3>2, OperationsAssumption DEF OfOne, Requests!OfAll
        <4> QED
          BY <2>1, <2>2, <2>4, <3>2, <4>1, <1>n DEF Requests!Asks
      <3> QED
        BY <3>1, <3>2
    <2> QED
      BY <2>5 DEF Requests!Next
  <1>4. ASSUME NEW p \in Procs, TakeTransaction(p) \/ TakeProjects(p) PROVE Met
    <2>1. UNCHANGED <<lists, hub, tree>> /\ AsksOn(p)
      BY <1>4, <1>t DEF TakeTransaction, TakeProjects, AsksOn, Alone, disk, Goes, Runs, Op
    <2> QED
      BY <2>1, <1>q
  <1>5. ASSUME NEW p \in Procs, Crash(p) PROVE Met
    BY <1>5, <1>w DEF Crash, disk
  <1>6. ASSUME NEW p \in Procs, NEW n \in Skills, NEW c \in Contents, WriteFolder(p, n, c) PROVE Met
    <2>1. /\ UNCHANGED <<lists, tree>> /\ n \in run[p].skills /\ hub' = [hub EXCEPT ![n] = c]
          /\ (hub[n] = Absent) = (Op(p) = "install") /\ c # Absent
          /\ Op(p) \in {"install", "update"}
      BY <1>6, <1>t, OpsOfSteps, ContentsAssumption DEF WriteFolder, At, Op
    <2>2. ASSUME Op(p) = "install" PROVE Requests!GoesOn(p)
      <3>1. Alone(p) /\ run'[p] = Idle
        BY <1>6, <1>t, <2>2 DEF WriteFolder, Alone
      <3>2. Asking'[p] = Requests!Nothing
        <4>1. {run'[p].project} \X run'[p].at = {}
          BY <3>1 DEF Idle
        <4> QED
          BY <3>1, <4>1, SameEntries DEF Asking, Op, Idle, Requests!Nothing, Requests!Request
      <3>3. Asking' = [Asking EXCEPT ![p] = Requests!Nothing]
        BY <3>1, <3>2, AskingChanges
      <3> QED
        BY <3>3 DEF Requests!GoesOn
    <2>3. ASSUME Op(p) = "update" PROVE Requests!GoesOn(p)
      <3>1. AsksOn(p)
        BY <1>6, <1>t, <2>3 DEF WriteFolder, AsksOn, Alone, Op, Runs
      <3>2. Asking' = Asking
        BY <3>1, AskingStands
      <3> QED
        BY <3>2 DEF Requests!GoesOn
    <2>4. Requests!GoesOn(p)
      BY <2>1, <2>2, <2>3
    <2>5. Requests!WritesFolder(p, n)
      BY <2>1, <2>4, <1>n, AskedOf DEF Requests!WritesFolder
    <2> QED
      BY <2>5 DEF Requests!Next
  <1>7. ASSUME NEW p \in Procs, WriteNothing(p) \/ CascadeEnds(p) \/ DeployEnds(p) PROVE Met
    BY <1>7, <1>w DEF WriteNothing, CascadeEnds, DeployEnds, disk
  <1>8. ASSUME NEW p \in Procs, NEW j \in Projects, Cascade(p, j) PROVE Met
    <2>1. /\ Alone(p) /\ UNCHANGED <<lists, hub, tree>> /\ run'[p].op = Op(p)
          /\ run'[p].skills = run[p].skills /\ Op(p) = "update" /\ run[p].at = {}
          /\ run'[p].at = run[p].at /\ run'[p].seen = run[p].seen
      BY <1>8, <1>t, OpsOfSteps, NotLooking DEF Cascade, Alone, disk, Runs, Op, At, Looking
    <2> QED
      BY <2>1, <1>q DEF AsksOn, OfOne
  <1>9. ASSUME NEW p \in Procs, NEW n \in Skills, Refresh(p, n) PROVE Met
    <2> DEFINE j == run[p].project
               saw == run[p].seen
    <2>1. /\ UNCHANGED <<lists, hub>> /\ j \in Projects /\ At(p, "refresh") /\ n \in run[p].at
          /\ Op(p) = "update"
      BY <1>9, <1>t, <1>a, OpsOfSteps DEF Refresh, At, Op
    <2>2. Alone(p) /\ LeavesEntry(p)
      <3>1. run' = [run EXCEPT ![p] = [Acted(run[p]) EXCEPT !.step = "cascade"]]
        BY <1>9 DEF Refresh, ActedTo
      <3> QED
        BY <1>t, <3>1 DEF Alone, LeavesEntry, Acted, Runs
    <2>3. CASE UNCHANGED tree
      BY <2>1, <2>2, <2>3, <1>p
    <2>4. CASE /\ Stale(j, n, saw)
               /\ tree' \in {[tree EXCEPT ![j][n] = Entry("copy", hub[n])],
                             [tree EXCEPT ![j][n] = Missing]}
      <3>1. n \in Names[j] /\ saw.kind = "copy" /\ hub[n] \notin {Absent, saw.content}
        BY <2>1, <2>4 DEF Stale, Names
      <3>2. <<j, n>> \in Asking[p].at /\ n \in Asking[p].skills /\ Asking[p].seen = saw
        BY <2>1, <1>e, AskedOf DEF Due, At
      <3>3. Requests!Acts(p) /\ Requests!Op(p) = "update"
        BY <2>1, <2>2, AskingActs, AskedOf
      <3>4. \E e \in {Requests!Missing, Requests!Entry("copy", hub[n])} :
              tree' = [tree EXCEPT ![j][n] = e]
        BY <2>4, SameEntries
      <3> HIDE DEF j, saw
      <3>5. Requests!Refreshes(p, j, n)
        BY <2>1, <3>1, <3>2, <3>3, <3>4, <1>n DEF Requests!Refreshes
      <3> QED
        BY <2>1, <3>5 DEF Requests!Next
    <2> QED
      BY <1>9, <2>3, <2>4 DEF Refresh
  <1>10. ASSUME NEW p \in Procs, NEW j \in Projects, NEW n \in Skills, ClearProject(p, j, n) PROVE Met
    <2>1. /\ UNCHANGED <<hub, tree>> /\ n \in run[p].skills /\ Op(p) = "uninstall"
          /\ lists' = [lists EXCEPT ![j].names = @ \ {n}] /\ run[p].at = {}
      BY <1>10, <1>t, OpsOfSteps, NotLooking DEF ClearProject, At, Op, Looking
    <2>2. Names' = [Names EXCEPT ![j] = @ \ {n}]
      <3>1. \A i \in Projects : lists'[i].names = IF i = j THEN lists[i].names \ {n} ELSE lists[i].names
        BY <2>1, <1>t DEF Lists
      <3> QED
        BY <3>1 DEF Names
    <2>3. Asking' = Asking
      <3>1. AsksOn(p)
        BY <1>10, <1>t, <2>1 DEF ClearProject, AsksOn, Alone, Runs, Op, OfOne
      <3> QED
        BY <3>1, AskingStands
    <2>4. j \in Asking[p].projects /\ n \in Asking[p].skills /\ Requests!Op(p) = "uninstall"
      BY <2>1, AskedOf DEF OfOne
    <2>5. Requests!Delists(p, j, n)
      BY <2>1, <2>2, <2>3, <2>4 DEF Requests!Delists
    <2> QED
      BY <2>5 DEF Requests!Next
  <1>f. ASSUME NEW p \in Procs, NEW n \in Skills, Forget(p, n) PROVE Met
    <2> DEFINE j == run[p].project
    <2>1. /\ UNCHANGED <<lists, hub>> /\ j \in Projects /\ At(p, "forget") /\ n \in run[p].at
          /\ Op(p) = "uninstall"
      BY <1>f, <1>t, <1>a, OpsOfSteps DEF Forget, At, Op
    <2>2. CASE Return(p) /\ UNCHANGED tree
      BY <2>1, <2>2, <1>w
    <2>3. CASE /\ tree' = [tree EXCEPT ![j][n] = IF Owned(run[p].seen) THEN Missing ELSE @]
               /\ run' = [run EXCEPT ![p] = [Acted(run[p]) EXCEPT !.step = "clear_all",
                                                            !.todo = @ \ {j}]]
      <3>1. Alone(p) /\ LeavesEntry(p)
        BY <1>t, <2>3 DEF Alone, LeavesEntry, Acted, Runs
      <3>2. <<j, n>> \in Asking[p].at /\ n \in Asking[p].skills /\ Asking[p].seen = run[p].seen
        BY <2>1, <1>e, AskedOf DEF Due, At
      <3>3. Requests!Acts(p) /\ Requests!Op(p) = "uninstall"
        BY <2>1, <3>1, AskingActs, AskedOf
      <3>4. tree' = [tree EXCEPT ![j][n] = IF Requests!Ours(Asking[p].seen) THEN Requests!Missing ELSE @]
        BY <2>3, <3>2, SameEntries
      <3> HIDE DEF j
      <3>5. Requests!Forgets(p, j, n)
        BY <2>1, <3>2, <3>3, <3>4, <1>n DEF Requests!Forgets
      <3> QED
        BY <2>1, <3>5 DEF Requests!Next
    <2> QED
      BY <1>f, <2>2, <2>3 DEF Forget
  <1>l. ASSUME NEW p \in Procs, NEW n \in Skills, Look(p, n) PROVE Met
    <2> DEFINE j == run[p].project
    <2>1. /\ UNCHANGED <<lists, hub, tree>> /\ Op(p) # "none"
          /\ j \in Projects /\ j \in Asking[p].projects
      <3>1. run[p].step # "none"
        BY <1>l DEF Look, Due
      <3> QED
        BY <1>l, <1>t, <1>a, <3>1 DEF Look, disk, RecordOK, Idle, Op
    <2>2. /\ Alone(p) /\ run'[p].op = run[p].op /\ run'[p].skills = run[p].skills
          /\ run'[p].project = j /\ run'[p].at = {n} /\ run'[p].seen = tree[j][n]
      BY <1>l, <1>t DEF Look, Alone, Runs
    <2>3. Asking'[p] = [Asking[p] EXCEPT !.at = {<<j, n>>}, !.seen = tree[j][n]]
      <3>1. {j} \X {n} = {<<j, n>>}
        OBVIOUS
      <3> HIDE DEF j
      <3>2. {run'[p].project} \X run'[p].at = {<<j, n>>}
        BY <2>2, <3>1
      <3> DEFINE e == tree[j][n]
      <3> HIDE DEF e
      <3>3. Asking'[p] = AskedFor(run[p].op, run[p].skills, {<<j, n>>}, e, About(run[p]))
        BY <2>2, <3>2, AskingBecomes DEF About, e, j
      <3>4. [Asking[p] EXCEPT !.at = {<<j, n>>}, !.seen = e]
              = AskedFor(run[p].op, run[p].skills, {<<j, n>>}, e, About(run[p]))
        BY AskedFields, Zenon
      <3> QED
        BY <3>3, <3>4, Zenon DEF e
    <2>4. Asking' = [Asking EXCEPT ![p] = [Asking[p] EXCEPT !.at = {<<j, n>>}, !.seen = tree[j][n]]]
      BY <2>2, <2>3, AskingChanges
    <2>5. Requests!Looks(p, j, n)
      BY <2>1, <2>4, <1>n, AskedOf DEF Requests!Looks
    <2> QED
      BY <2>1, <2>5 DEF Requests!Next
  <1>11. ASSUME NEW p \in Procs, ClearEnds(p) PROVE Met
    <2>1. UNCHANGED <<lists, hub, tree>> /\ AsksOn(p)
      BY <1>11, <1>t DEF ClearEnds, AsksOn, Alone, disk, Goes, Runs, Op
    <2> QED
      BY <2>1, <1>q
  <1>12. ASSUME NEW p \in Procs, NEW n \in Skills, DeleteFolder(p, n) PROVE Met
    <2>1. /\ UNCHANGED <<lists, tree>> /\ n \in run[p].skills /\ Op(p) = "uninstall" /\ Return(p)
      BY <1>12, <1>t, OpsOfSteps DEF DeleteFolder, At, Op
    <2>2. CASE UNCHANGED hub
      BY <2>1, <2>2, <1>w
    <2>3. CASE hub' = [hub EXCEPT ![n] = Absent]
      <3>1. Requests!GoesOn(p)
        <4>1. Asking' = [Asking EXCEPT ![p] = Requests!Nothing]
          BY <2>1, AskingEnds
        <4> QED
          BY <4>1 DEF Requests!GoesOn
      <3>2. Requests!WritesFolder(p, n)
        BY <2>1, <2>3, <3>1, <1>n, AskedOf DEF Requests!WritesFolder
      <3> QED
        BY <3>2 DEF Requests!Next
    <2> QED
      BY <1>12, <2>2, <2>3 DEF DeleteFolder
  <1>13. ASSUME NEW p \in Procs, LoadIndex(p) PROVE Met
    <2>1. CASE Return(p)
      BY <1>13, <2>1, <1>w DEF LoadIndex, disk
    <2>2. CASE ~Return(p)
      <3>1. /\ Alone(p) /\ UNCHANGED <<lists, hub, tree>> /\ run'[p].op = Op(p)
            /\ run'[p].skills = (IF Op(p) = "add" THEN Present(p) ELSE run[p].skills)
            /\ run'[p].project = run[p].project
            /\ run'[p].at = run[p].at /\ run'[p].seen = run[p].seen
        BY <1>13, <1>t, <2>2 DEF LoadIndex, Alone, disk, Runs, Op
      <3>2. CASE Op(p) # "add"
        BY <3>1, <3>2, <1>q DEF AsksOn
      <3>3. CASE Op(p) = "add"
        <4>1. Asking'[p] = [Asking[p] EXCEPT !.skills = {n \in @ : hub[n] # Absent}]
          <5> DEFINE S == Present(p)
          <5> HIDE DEF S
          <5>1. Asking'[p] = AskedFor(run[p].op, S, Asking[p].at, run[p].seen, About(run[p]))
            BY <3>1, <3>3, AskingBecomes, AskedOf DEF About, Op, S
          <5>2. [Asking[p] EXCEPT !.skills = S]
                  = AskedFor(run[p].op, S, Asking[p].at, run[p].seen, About(run[p]))
            BY AskedFields, Zenon
          <5>3. Asking'[p] = [Asking[p] EXCEPT !.skills = S]
            BY <5>1, <5>2, Zenon
          <5>4. S = {n \in Asking[p].skills : hub[n] # Absent}
            BY AskedOf DEF S, Present
          <5> QED
            BY <5>3, <5>4
        <4>2. Asking' = [Asking EXCEPT ![p] = [Asking[p] EXCEPT !.skills = {n \in @ : hub[n] # Absent}]]
          BY <3>1, <4>1, AskingChanges
        <4>3. Requests!Narrows(p)
          BY <3>1, <3>3, <4>2, <1>n, AskedOf DEF Requests!Narrows
        <4> QED
          BY <4>3 DEF Requests!Next
      <3> QED
        BY <3>2, <3>3
    <2> QED
      BY <2>1, <2>2
  <1>14. ASSUME NEW p \in Procs, SaveIndex(p) PROVE Met
    <2>1. CASE Return(p)
      BY <1>14, <2>1, <1>w DEF SaveIndex
    <2>2. CASE ~Return(p)
      <3>1. UNCHANGED <<lists, hub, tree>> /\ AsksOn(p)
        BY <1>14, <1>t, <2>2 DEF SaveIndex, AsksOn, Alone, Runs, Op
      <3> QED
        BY <3>1, <1>q
    <2> QED
      BY <2>1, <2>2
  <1>15. ASSUME NEW p \in Procs, DropList(p) PROVE Met
    <2> DEFINE j == run[p].project
    <2>1. /\ Op(p) = "remove" /\ j \in Asking[p].projects /\ j \in Projects
          /\ UNCHANGED <<hub, tree>> /\ lists' = [lists EXCEPT ![j] = NoList] /\ Return(p)
      BY <1>15, <1>t, <1>a, OpsOfSteps DEF DropList, At, Op
    <2>2. Names' = [Names EXCEPT ![j] = {}]
      <3>1. NoList.names = {}
        BY DEF NoList, List
      <3> QED
        BY <2>1, <3>1, <1>t, NamesChange
    <2>3. Requests!GoesOn(p)
      BY <2>1, AskingEnds DEF Requests!GoesOn
    <2>4. Requests!WritesList(p, j)
      BY <2>1, <2>2, <2>3, AskedOf DEF Requests!WritesList
    <2> QED
      BY <2>1, <2>4 DEF Requests!Next
  <1>16. ASSUME NEW p \in Procs, LoadList(p) PROVE Met
    <2>1. UNCHANGED <<lists, hub, tree>> /\ AsksOn(p)
      BY <1>16, <1>t DEF LoadList, AsksOn, Alone, disk, Runs, Op
    <2> QED
      BY <2>1, <1>q
  <1>17. ASSUME NEW p \in Procs, SaveList(p) PROVE Met
    <2> DEFINE j == run[p].project
               N == NewList(p).names
    <2>1. /\ UNCHANGED <<hub, tree>> /\ At(p, "save") /\ j \in Projects /\ j \in Asking[p].projects
          /\ Op(p) \in {"save", "add", "import", "rebuild"} /\ run[p].skills \subseteq Skills
      BY <1>17, <1>t, <1>a, OpsOfSteps DEF SaveList, At, Op
    <2>2. CASE Return(p) /\ UNCHANGED lists
      BY <2>1, <2>2, <1>w
    <2>3. CASE /\ lists' = [lists EXCEPT ![j] = NewList(p)]
               /\ \/ Return(p)
                  \/ \E s, k : run' = [run EXCEPT ![p].step = s, ![p].todo = k]
      <3>1. Names' = [Names EXCEPT ![j] = N]
        BY <2>1, <2>3, <1>t, NamesChange
      <3>2. Requests!GoesOn(p)
        <4>1. CASE Return(p)
          BY <4>1, AskingEnds DEF Requests!GoesOn
        <4>2. CASE ~Return(p)
          <5>1. PICK s, k : run' = [run EXCEPT ![p].step = s, ![p].todo = k]
            BY <2>3, <4>2
          <5>2. AsksOn(p)
            BY <5>1, <1>t DEF AsksOn, Alone, Runs, Op
          <5>3. Asking' = Asking
            BY <5>2, AskingStands
          <5> QED
            BY <5>3 DEF Requests!GoesOn
        <4> QED
          BY <4>1, <4>2
      <3>3. /\ Names[j] = lists[j].names /\ lists[j].names \subseteq Skills
            /\ run[p].list.names \subseteq Skills
        BY <1>t, <2>1 DEF Names, Lists, Runs
      <3>4. \/ Op(p) = "save" /\ N = run[p].skills
            \/ Op(p) = "rebuild" /\ N = {n \in Skills : tree[j][n] # Missing}
            \/ /\ Op(p) \in {"add", "import"}
               /\ lists[j].names \subseteq N
               /\ lists[j].names # {} => N \subseteq lists[j].names \cup run[p].skills
               /\ Op(p) = "add" => run[p].skills \subseteq N
        <4>1. CASE Op(p) \in {"save", "rebuild"}
          BY <4>1, ListMade DEF OnDisk
        <4>2. CASE Op(p) = "add"
          <5>1. N = run[p].list.names \cup run[p].skills /\ lists[j].names \in {run[p].list.names, {}}
            BY <2>1, <4>2, ListMade DEF Knows, Stands, At, Op
          <5> HIDE DEF N
          <5> QED
            BY <4>2, <5>1
        <4>3. CASE Op(p) = "import"
          <5>1. /\ N = run[p].list.names
                /\ \/ lists[j].names = {}
                   \/ lists[j].names \subseteq N /\ N \subseteq lists[j].names \cup run[p].skills
            BY <2>1, <4>3, ListMade DEF Knows, At, Op
          <5> HIDE DEF N
          <5> QED
            BY <4>3, <5>1
        <4> QED
          BY <2>1, <4>1, <4>2, <4>3
      <3>5. N \in SUBSET Skills
        BY <2>1, <3>3, <1>t, ListMade DEF OnDisk
      <3> HIDE DEF N
      <3>6. Requests!WritesList(p, j)
        BY <2>1, <3>1, <3>2, <3>3, <3>4, <3>5, AskedOf, SameEntries DEF Requests!WritesList
      <3> QED
        BY <2>1, <3>6 DEF Requests!Next
    <2>4. \/ Return(p) /\ UNCHANGED lists
          \/ /\ lists' = [lists EXCEPT ![j] = NewList(p)]
             /\ Return(p) \/ \E s, k : run' = [run EXCEPT ![p].step = s, ![p].todo = k]
      BY <1>17 DEF SaveList
    <2> QED
      BY <2>2, <2>3, <2>4
  <1>18. ASSUME NEW p \in Procs, NEW n \in Skills, Clear(p, n) PROVE Met
    <2> DEFINE j == run[p].project
    <2>1. /\ UNCHANGED <<lists, hub>> /\ j \in Projects /\ At(p, "clear") /\ n \in run[p].at
          /\ Op(p) = "save"
      BY <1>18, <1>t, <1>a, OpsOfSteps DEF Clear, At, Op
    <2>2. CASE Return(p) /\ UNCHANGED tree
      BY <2>1, <2>2, <1>w
    <2>3. CASE /\ tree' = [tree EXCEPT ![j][n] = IF Owned(run[p].seen) THEN Missing ELSE @]
               /\ run' = [run EXCEPT ![p] = [Acted(run[p]) EXCEPT !.todo = @ \ {n}]]
      <3>1. Alone(p) /\ LeavesEntry(p)
        BY <1>t, <2>3 DEF Alone, LeavesEntry, Acted, Runs
      <3>2. <<j, n>> \in Asking[p].at /\ Asking[p].seen = run[p].seen
        BY <2>1, <1>e
      <3>3. Requests!Acts(p) /\ Requests!Op(p) = "save"
        BY <2>1, <3>1, AskingActs, AskedOf
      <3>4. tree' = [tree EXCEPT ![j][n] = IF Requests!Ours(Asking[p].seen) THEN Requests!Missing ELSE @]
        BY <2>3, <3>2, SameEntries
      <3>5. Names[j] \in {Asking[p].skills, {}}
        BY <2>1, AskedOf DEF Knows, Stands, Names, At
      <3> HIDE DEF j
      <3>6. Requests!Clears(p, j, n)
        BY <2>1, <3>2, <3>3, <3>4, <3>5, <1>n DEF Requests!Clears
      <3> QED
        BY <2>1, <3>6 DEF Requests!Next
    <2> QED
      BY <1>18, <2>2, <2>3 DEF Clear
  <1>c. ASSUME NEW p \in Procs, Cleared(p) PROVE Met
    <2>1. UNCHANGED <<lists, hub, tree>> /\ AsksOn(p)
      BY <1>c, <1>t DEF Cleared, AsksOn, Alone, disk, Runs, Op
    <2> QED
      BY <2>1, <1>q
  <1>19. ASSUME NEW p \in Procs, NEW n \in Skills, Deploy(p, n) PROVE Met
    <2> DEFINE j == run[p].project
               saw == run[p].seen
    <2>1. /\ UNCHANGED <<lists, hub>> /\ j \in Projects /\ At(p, "deploy") /\ n \in run[p].at
          /\ Op(p) \in {"save", "add"}
      BY <1>19, <1>t, <1>a, OpsOfSteps DEF Deploy, At, Op
    <2>2. Alone(p) /\ LeavesEntry(p)
      <3>1. run' = [run EXCEPT ![p] = [Acted(run[p]) EXCEPT !.todo = @ \ {n}]]
        BY <1>19 DEF Deploy
      <3> QED
        BY <1>t, <3>1 DEF Alone, LeavesEntry, Acted, Runs
    <2>3. CASE UNCHANGED tree
      BY <2>1, <2>2, <2>3, <1>p
    <2>4. ASSUME NEW e, Deployable(p, n, saw), tree' = [tree EXCEPT ![j][n] = e],
                 e \in {Missing, Deployed(p, n)},
                 saw = Link \/ tree[j][n] = Missing \/ e.kind = "copy"
          PROVE  Met
      <3>1. /\ <<j, n>> \in Asking[p].at /\ Asking[p].seen = saw
            /\ n \in run[p].skills /\ n \in Asking[p].skills
        BY <2>1, <1>e, AskedOf DEF Due, At, Knows
      <3>2. {n} \subseteq lists[j].names \/ lists[j].names = {}
        BY <2>1, <3>1 DEF Knows, At
      <3>3. \/ Op(p) = "save" /\ saw = Missing /\ hub[n] # Absent
            \/ Op(p) = "add"  /\ saw \in {Missing, Link}
        BY <2>1, <2>4 DEF Deployable
      <3>4. e \in {Missing, Link} \cup {Entry("copy", c) : c \in {hub[n]} \ {Absent}}
        <4>1. CASE e = Missing
          BY <4>1
        <4>2. CASE e = Deployed(p, n)
          BY <4>2 DEF Deployed
        <4> QED
          BY <2>4, <4>1, <4>2
      <3>5. Requests!Listed(j, {n})
        BY <2>1, <3>2 DEF Requests!Listed, Names
      <3>6. Requests!Acts(p) /\ Requests!Op(p) = Op(p)
        BY <2>1, <2>2, AskingActs, AskedOf
      <3> HIDE DEF j, saw
      <3>7. Requests!Deploys(p, j, n)
        BY <2>1, <2>4, <3>1, <3>3, <3>4, <3>5, <3>6, <1>n, SameEntries DEF Requests!Deploys
      <3> QED
        BY <2>1, <3>7 DEF Requests!Next
    <2>5. \/ UNCHANGED tree
          \/ \E e \in {Missing, Deployed(p, n)} :
               /\ Deployable(p, n, saw) /\ tree' = [tree EXCEPT ![j][n] = e]
               /\ saw = Link \/ tree[j][n] = Missing \/ e.kind = "copy"
      BY <1>19 DEF Deploy
    <2> HIDE DEF j, saw, Met
    <2> QED
      BY <2>3, <2>4, <2>5
  <1>20. ASSUME NEW p \in Procs, NEW n \in Skills, Adopt(p, n) PROVE Met
    <2> DEFINE j == run[p].project
               saw == run[p].seen
    <2>1. /\ UNCHANGED lists /\ j \in Projects /\ At(p, "adopt") /\ n \in run[p].at
          /\ Op(p) = "import"
      BY <1>20, <1>t, <1>a, OpsOfSteps DEF Adopt, At, Op
    <2>2. CASE Return(p) /\ UNCHANGED <<hub, tree>>
      BY <2>1, <2>2, <1>w
    <2>3. ASSUME NEW x, ActedTo(p, x) PROVE Alone(p) /\ LeavesEntry(p)
      BY <1>t, <2>3 DEF ActedTo, Alone, LeavesEntry, Acted, Runs
    <2>4. CASE ActedTo(p, "save") /\ UNCHANGED <<hub, tree>>
      BY <2>1, <2>3, <2>4, <1>p
    <2>5. CASE /\ Adopted(n, saw) /\ ActedTo(p, "link") /\ tree' = [tree EXCEPT ![j][n] = Missing]
               /\ \E e \in {saw, tree[j][n]} :
                    hub' = [hub EXCEPT ![n] = IF @ = Absent THEN e.content ELSE @]
      <3>1. <<j, n>> \in Asking[p].at /\ n \in Asking[p].skills /\ Asking[p].seen = saw
        BY <2>1, <1>e, AskedOf DEF Due, At
      <3>2. saw.kind = "user" /\ hub[n] \in {Absent, saw.content}
        BY <2>5 DEF Adopted
      <3>3. Requests!Acts(p) /\ Requests!Op(p) = "import"
        BY <2>1, <2>3, <2>5, AskingActs, AskedOf
      <3> HIDE DEF j, saw
      <3>4. Requests!Adopts(p, j, n)
        BY <2>1, <2>5, <3>1, <3>2, <3>3, <1>n, SameEntries DEF Requests!Adopts
      <3> QED
        BY <2>1, <3>4 DEF Requests!Next
    <2> QED
      BY <1>20, <2>2, <2>4, <2>5 DEF Adopt
  <1>21. ASSUME NEW p \in Procs, NEW n \in Skills, LinkAdopted(p, n) PROVE Met
    <2> DEFINE j == run[p].project
    <2>1. /\ UNCHANGED <<lists, hub>> /\ j \in Projects /\ n \in run[p].skills
          /\ Op(p) = "import" /\ j \in Asking[p].projects /\ At(p, "link")
      BY <1>21, <1>t, <1>a, OpsOfSteps DEF LinkAdopted, At, Op
    <2>2. CASE UNCHANGED tree /\ Return(p)
      BY <2>1, <2>2, <1>w
    <2>3. CASE /\ tree[j][n] = Missing /\ tree' = [tree EXCEPT ![j][n] = Link]
               /\ run' = [run EXCEPT ![p].step = "save", ![p].list.names = @ \cup {n}]
      <3>1. AsksOn(p)
        BY <2>3, <1>t DEF AsksOn, Alone, Runs, Op
      <3>2. Asking' = Asking
        BY <3>1, AskingStands
      <3>3. hub[n] # Absent
        BY <2>1 DEF Knows, At
      <3>4. Requests!Links(p, j, n)
        BY <2>1, <2>3, <3>2, <3>3, <1>n, AskedOf, SameEntries DEF Requests!Links
      <3> QED
        BY <2>1, <3>4 DEF Requests!Next
    <2> QED
      BY <1>21, <2>2, <2>3 DEF LinkAdopted
  <1>22. ASSUME NEW p \in Procs, Work(p) PROVE Met
    BY <1>22, <1>6, <1>7, <1>8, <1>9, <1>10, <1>f, <1>l, <1>11, <1>12, <1>13, <1>14, <1>15,
       <1>16, <1>17, <1>18, <1>c, <1>19, <1>20, <1>21 DEF Work
  <1> HIDE DEF Met
  <1>23. Met
    BY <1>1, <1>2, <1>3, <1>4, <1>5, <1>22 DEF Next
  <1> QED
    BY <1>23 DEF Met

\* For any number of Skills, projects and threads: every step of every operation is
\* one that some request still going on is entitled to, on the lists, entries and
\* folders as they are at that moment.
THEOREM StepsMeetRequests == Spec => RequestsAreMet
  <1> DEFINE All == Seeing /\ \A p \in Procs : Knows(p)
  <1>1. Init => All /\ Requests!Init
    <2> SUFFICES ASSUME Init PROVE All /\ Requests!Init
      OBVIOUS
    <2>1. \A p \in Procs : run[p] = Idle
      BY DEF Init
    <2>2. All
      BY <2>1 DEF Knows, Idle, Seeing
    <2>3. Names = [j \in Projects |-> {}]
      BY DEF Init, Names, NoList, List
    <2>4. Asking = [p \in Procs |-> Requests!Nothing]
      <3>1. \A p \in Procs : Asking[p] = Requests!Nothing
        BY <2>1, AskedOf
      <3>2. Asking = [p \in Procs |-> Asking[p]]
        BY DEF Asking
      <3> QED
        BY <3>1, <3>2, Zenon
    <2> QED
      BY <2>2, <2>3, <2>4, SameEntries DEF Init, Requests!Init
  <1>2. Threaded /\ All /\ [Next]_vars => All' /\ [Requests!Next]_(Requests!vars)
    BY StepKnows, StepMeets, StepSeeing
  <1> HIDE DEF All
  <1> QED
    BY <1>1, <1>2, AlwaysThreaded, PTL DEF Spec, RequestsAreMet, Requests!Spec
-----------------------------------------------------------------------------
(***************************************************************************)
(* Why the revision guard of commit_scan is enough, for any number of      *)
(* Skills, refreshes and updates.  The invariant is not inductive alone:   *)
(* it needs that a Skill nobody wrote since a refresh began (written <=    *)
(* since) cannot have had a newer replacement recorded than the one the    *)
(* refresh saw when it loaded the lock, and that is so only because the    *)
(* stamp is taken before the lock is loaded.                               *)
(***************************************************************************)

\* No revision in use is newer than the store's.
RevisionsAreOld == /\ \A n \in Tracked : written[n] <= revision
                   /\ \A k \in Refreshes : since[k] <= revision

\* A recorded replacement has happened.
ClearedHappened == /\ \A n \in Tracked : cleared[n] <= gen[n]
                   /\ \A u \in Updates : stage[u] = "applied" => doneGen[u] <= gen[target[u]]

\* A refresh that may still write Skill n saw every replacement recorded for n.
SeenIsRecent == \A k \in Refreshes, n \in Tracked :
    stage[k] \in {"loaded", "measured"} /\ written[n] <= since[k]
        => cleared[n] <= seenGen[k][n]

BadgeInv == /\ BadgeTypeOK
            /\ RevisionsAreOld
            /\ ClearedHappened
            /\ SeenIsRecent
            /\ NoRevivedBadge

\* The name a task starts with is one of the Skills.
LEMMA AnySkillIsOne == AnySkill \in Tracked
  BY SkillsAssumption DEF AnySkill

\* The first process starts with an empty store: nothing is revived.
LEMMA BadgeInvInit == BadgeInit => BadgeInv
  BY AnySkillIsOne, BoundsAssumption
  DEF BadgeInit, BadgeInv, BadgeTypeOK, Natural, NoSkills, RevisionsAreOld, ClearedHappened,
      SeenIsRecent, NoRevivedBadge, Tasks

\* Every step keeps the types.
LEMMA StepTypeOK == BadgeTypeOK /\ [BadgeNext]_badgeVars => BadgeTypeOK'
  <1> SUFFICES ASSUME BadgeTypeOK, [BadgeNext]_badgeVars PROVE BadgeTypeOK'
    OBVIOUS
  <1> USE DEF BadgeTypeOK, Natural, Tasks, GoTo
  <1>1. ASSUME NEW n \in Tracked, Publish(n) PROVE BadgeTypeOK'
    BY <1>1 DEF Publish, Disturb, store, refresh, update
  <1>2. ASSUME NEW n \in Tracked, Install(n) PROVE BadgeTypeOK'
    BY <1>2 DEF Install, Replace, Disturb, store, refresh, update
  <1>3. ASSUME NEW k \in Refreshes, RefreshBegins(k) PROVE BadgeTypeOK'
    BY <1>3 DEF RefreshBegins, world, store, update
  <1>4. ASSUME NEW k \in Refreshes, LoadLock(k) PROVE BadgeTypeOK'
    BY <1>4 DEF LoadLock, world, store, update
  <1>5. ASSUME NEW k \in Refreshes, NEW answered \in SUBSET Tracked,
               CheckUpstream(k, answered) PROVE BadgeTypeOK'
    BY <1>5 DEF CheckUpstream, world, store, update
  <1>6. ASSUME NEW k \in Refreshes, Commit(k) PROVE BadgeTypeOK'
    BY <1>6 DEF Commit, Disturb, ForgetRefreshes, NoSkills, world, update
  <1>7. ASSUME NEW u \in Updates, NEW n \in Tracked, FetchUpdate(u, n) PROVE BadgeTypeOK'
    BY <1>7 DEF FetchUpdate, world, store, refresh
  <1>8. ASSUME NEW u \in Updates, ApplyUpdate(u) PROVE BadgeTypeOK'
    <2>1. UNCHANGED <<store, saved, refresh, snapshot>> /\ target[u] \in Tracked
      BY <1>8 DEF ApplyUpdate
    <2>2. CASE /\ Replace(target[u], version[u])
               /\ doneGen' = [doneGen EXCEPT ![u] = gen'[target[u]]]
               /\ GoTo(u, "applied")
               /\ UNCHANGED <<target, version>>
      <3>1. gen' \in Natural /\ installed' \in Natural /\ upstream' \in Natural
        BY <2>1, <2>2 DEF Replace
      <3>2. gen'[target[u]] \in Nat
        BY <2>1, <3>1
      <3>3. doneGen' \in [Updates -> Nat]
        BY <2>2, <3>2
      <3>4. disturbed' \in [Refreshes -> SUBSET Tracked]
        BY <2>1, <2>2 DEF Replace, Disturb
      <3> QED
        BY <2>1, <2>2, <3>1, <3>3, <3>4 DEF store, refresh
    <2>3. CASE GoTo(u, "idle") /\ ForgetUpdates({u}) /\ UNCHANGED <<world, disturbed>>
      BY <2>1, <2>3, AnySkillIsOne DEF ForgetUpdates, world, store, refresh
    <2> QED
      BY <1>8, <2>2, <2>3 DEF ApplyUpdate
  <1>9. ASSUME NEW u \in Updates, NEW available \in BOOLEAN, DeclineUpdate(u, available)
        PROVE BadgeTypeOK'
    BY <1>9, AnySkillIsOne DEF DeclineUpdate, Record, Disturb, ForgetUpdates, world, refresh
  <1>10. ASSUME NEW u \in Updates, NEW n \in Tracked, Remove(u, n) PROVE BadgeTypeOK'
    BY <1>10 DEF Remove, Replace, Disturb, store, refresh
  <1>11. ASSUME NEW u \in Updates, ClearBadge(u) PROVE BadgeTypeOK'
    BY <1>11, AnySkillIsOne DEF ClearBadge, Record, Disturb, ForgetUpdates, world, refresh
  <1>12. ASSUME NEW t \in Tasks, Persist(t) PROVE BadgeTypeOK'
    BY <1>12 DEF Persist, world, store, refresh, update
  <1>13. CASE Restart
    BY <1>13, AnySkillIsOne
    DEF Restart, Disturb, ForgetRefreshes, ForgetUpdates, NoSkills, world
  <1>14. CASE UNCHANGED badgeVars
    BY <1>14 DEF badgeVars, world, store, refresh, update
  <1> QED
    BY <1>1, <1>2, <1>3, <1>4, <1>5, <1>6, <1>7, <1>8, <1>9, <1>10, <1>11,
       <1>12, <1>13, <1>14 DEF BadgeNext

\* Every write takes the next revision, and a refresh begins at the current one.
LEMMA StepRevisions == BadgeTypeOK /\ RevisionsAreOld /\ [BadgeNext]_badgeVars => RevisionsAreOld'
  <1> SUFFICES ASSUME BadgeTypeOK, RevisionsAreOld, [BadgeNext]_badgeVars PROVE RevisionsAreOld'
    OBVIOUS
  <1> USE DEF BadgeTypeOK, Natural, RevisionsAreOld
  <1>1. CASE UNCHANGED <<written, revision, since>>
    BY <1>1
  <1>2. ASSUME NEW k \in Refreshes, RefreshBegins(k) PROVE RevisionsAreOld'
    BY <1>2 DEF RefreshBegins, store
  <1>3. ASSUME NEW k \in Refreshes, Commit(k) PROVE RevisionsAreOld'
    BY <1>3 DEF Commit, ForgetRefreshes
  <1>4. ASSUME NEW u \in Updates, NEW n \in Tracked, NEW b \in BOOLEAN, NEW g,
               Record(u, n, b, g), UNCHANGED refresh
        PROVE RevisionsAreOld'
    BY <1>4 DEF Record, refresh
  <1>5. CASE Restart
    BY <1>5 DEF Restart, ForgetRefreshes, NoSkills
  <1>6. ASSUME NEW u \in Updates, ApplyUpdate(u)
        PROVE UNCHANGED <<written, revision, since>>
    BY <1>6 DEF ApplyUpdate, store, refresh
  <1> QED
    BY <1>1, <1>2, <1>3, <1>4, <1>5, <1>6
    DEF BadgeNext, Publish, Install, LoadLock, CheckUpstream, FetchUpdate, DeclineUpdate,
        Remove, ClearBadge, Persist, badgeVars, store, refresh

\* Replacing a folder only ever counts up.
LEMMA ReplaceCounts ==
    ASSUME BadgeTypeOK, NEW n \in Tracked, NEW v, Replace(n, v)
    PROVE  /\ gen' \in [Tracked -> Nat]
           /\ \A m \in Tracked : gen[m] <= gen'[m]
  <1>1. gen \in [Tracked -> Nat] /\ gen' = [gen EXCEPT ![n] = gen[n] + 1]
    BY DEF BadgeTypeOK, Natural, Replace
  <1>2. gen[n] + 1 \in Nat
    BY <1>1
  <1> QED
    BY <1>1, <1>2

\* A replacement is counted before its result is recorded.
LEMMA StepCleared == BadgeTypeOK /\ ClearedHappened /\ [BadgeNext]_badgeVars => ClearedHappened'
  <1> SUFFICES ASSUME BadgeTypeOK, ClearedHappened, [BadgeNext]_badgeVars PROVE ClearedHappened'
    OBVIOUS
  <1>t. /\ gen \in [Tracked -> Nat] /\ cleared \in [Tracked -> Nat]
        /\ doneGen \in [Updates -> Nat] /\ target \in [Updates -> Tracked]
        /\ gen' \in [Tracked -> Nat] /\ cleared' \in [Tracked -> Nat]
        /\ doneGen' \in [Updates -> Nat] /\ target' \in [Updates -> Tracked]
    BY StepTypeOK DEF BadgeTypeOK, Natural
  <1>g. ASSUME NEW n \in Tracked, NEW v, Replace(n, v)
        PROVE  \A m \in Tracked : gen[m] <= gen'[m]
    BY <1>g, ReplaceCounts
  <1> USE DEF ClearedHappened
  \* Steps that record nothing and count nothing.
  <1>1. ASSUME UNCHANGED <<cleared, gen, doneGen, target>>,
               \A u \in Updates : stage'[u] = "applied" => stage[u] = "applied"
        PROVE ClearedHappened'
    BY <1>1
  <1>2. ASSUME NEW n \in Tracked, Install(n) PROVE ClearedHappened'
    BY <1>t, <1>2, <1>g DEF Install, store, update
  <1>3. ASSUME NEW u \in Updates, NEW n \in Tracked, FetchUpdate(u, n) PROVE ClearedHappened'
    BY <1>t, <1>3 DEF FetchUpdate, GoTo, world, store, BadgeTypeOK, Tasks
  <1>4. ASSUME NEW u \in Updates, ApplyUpdate(u) PROVE ClearedHappened'
    <2>1. CASE GoTo(u, "idle") /\ ForgetUpdates({u}) /\ UNCHANGED <<world, disturbed>>
      BY <1>t, <1>4, <2>1 DEF ApplyUpdate, ForgetUpdates, GoTo, world, store, BadgeTypeOK, Tasks
    <2>2. CASE /\ Replace(target[u], version[u])
               /\ doneGen' = [doneGen EXCEPT ![u] = gen'[target[u]]]
               /\ GoTo(u, "applied")
               /\ UNCHANGED <<target, version>>
      <3>1. \A m \in Tracked : gen[m] <= gen'[m]
        BY <1>t, <1>g, <2>2
      <3>2. cleared' = cleared
        BY <1>4 DEF ApplyUpdate, store
      <3>3. \A n \in Tracked : cleared'[n] <= gen'[n]
        BY <1>t, <3>1, <3>2
      <3>4. ASSUME NEW w \in Updates, stage'[w] = "applied"
            PROVE  doneGen'[w] <= gen'[target'[w]]
        <4>1. CASE w = u
          BY <1>t, <2>2, <4>1
        <4>2. CASE w # u
          <5>1. stage[w] = "applied" /\ doneGen'[w] = doneGen[w] /\ target'[w] = target[w]
            BY <2>2, <3>4, <4>2, <1>t DEF GoTo, BadgeTypeOK, Tasks
          <5> QED
            BY <1>t, <3>1, <5>1
        <4> QED
          BY <4>1, <4>2
      <3> QED
        BY <3>3, <3>4
    <2> QED
      BY <1>4, <2>1, <2>2 DEF ApplyUpdate
  <1>5. ASSUME NEW u \in Updates, NEW n \in Tracked, NEW b \in BOOLEAN, NEW g \in Nat,
               g <= gen[n], Record(u, n, b, g), UNCHANGED world
        PROVE ClearedHappened'
    <2>1. \A m \in Tracked : cleared'[m] <= gen'[m]
      BY <1>t, <1>5 DEF Record, world
    <2>2. ASSUME NEW w \in Updates, stage'[w] = "applied"
          PROVE  stage[w] = "applied" /\ doneGen'[w] = doneGen[w] /\ target'[w] = target[w]
      BY <1>t, <1>5, <2>2 DEF Record, ForgetUpdates, GoTo, BadgeTypeOK, Tasks
    <2> QED
      BY <1>t, <1>5, <2>1, <2>2 DEF world
  <1>6. ASSUME NEW u \in Updates, NEW n \in Tracked, Remove(u, n) PROVE ClearedHappened'
    <2>1. \A m \in Tracked : gen[m] <= gen'[m]
      BY <1>g, <1>6 DEF Remove
    <2>2. \A m \in Tracked : cleared'[m] <= gen'[m]
      BY <1>t, <1>6, <2>1 DEF Remove, store
    <2>3. ASSUME NEW w \in Updates, stage'[w] = "applied"
          PROVE  doneGen'[w] <= gen'[target'[w]]
      <3>1. CASE w = u
        BY <1>t, <1>6, <3>1 DEF Remove
      <3>2. CASE w # u
        <4>1. stage[w] = "applied" /\ doneGen'[w] = doneGen[w] /\ target'[w] = target[w]
          BY <1>t, <1>6, <2>3, <3>2 DEF Remove, GoTo, BadgeTypeOK, Tasks
        <4> QED
          BY <1>t, <2>1, <4>1
      <3> QED
        BY <3>1, <3>2
    <2> QED
      BY <2>2, <2>3
  <1>7. CASE Restart
    BY <1>t, <1>7 DEF Restart, NoSkills, Tasks
  <1>8. ASSUME NEW u \in Updates, NEW b \in BOOLEAN, DeclineUpdate(u, b)
        PROVE ClearedHappened'
    BY <1>t, <1>5, <1>8 DEF DeclineUpdate
  <1>9. ASSUME NEW u \in Updates, ClearBadge(u) PROVE ClearedHappened'
    BY <1>t, <1>5, <1>9 DEF ClearBadge
  <1>10. ASSUME NEW k \in Refreshes,
                RefreshBegins(k) \/ LoadLock(k) \/ Commit(k)
                  \/ \E answered \in SUBSET Tracked : CheckUpstream(k, answered)
         PROVE ClearedHappened'
    <2>1. UNCHANGED <<cleared, gen, doneGen, target>>
      BY <1>10 DEF RefreshBegins, LoadLock, Commit, CheckUpstream, world, store, update
    <2>2. \A u \in Updates : stage'[u] = "applied" => stage[u] = "applied"
      BY <1>10 DEF RefreshBegins, LoadLock, Commit, CheckUpstream, GoTo, BadgeTypeOK, Tasks
    <2> QED
      BY <1>1, <2>1, <2>2
  <1>11. ASSUME NEW t \in Tasks, Persist(t) PROVE ClearedHappened'
    BY <1>1, <1>11 DEF Persist, GoTo, BadgeTypeOK, Tasks, world, store, update
  <1>12. ASSUME NEW n \in Tracked, Publish(n) PROVE ClearedHappened'
    BY <1>1, <1>12 DEF Publish, store, update
  <1>13. CASE UNCHANGED badgeVars
    BY <1>1, <1>13 DEF badgeVars, world, store, update
  <1> QED
    BY <1>2, <1>3, <1>4, <1>6, <1>7, <1>8, <1>9, <1>10, <1>11, <1>12, <1>13 DEF BadgeNext

\* A write to a Skill a refresh may still write takes it away from the refresh;
\* a refresh whose stamp is not older than the last write loads the lock after it.
LEMMA StepSeen ==
    BadgeTypeOK /\ RevisionsAreOld /\ ClearedHappened /\ SeenIsRecent /\ [BadgeNext]_badgeVars
        => SeenIsRecent'
  <1> SUFFICES ASSUME BadgeTypeOK, RevisionsAreOld, ClearedHappened, SeenIsRecent, [BadgeNext]_badgeVars,
                      NEW k \in Refreshes, NEW n \in Tracked,
                      stage'[k] \in {"loaded", "measured"}, written'[n] <= since'[k]
               PROVE  cleared'[n] <= seenGen'[k][n]
    BY DEF SeenIsRecent
  <1>t. /\ written \in [Tracked -> Nat] /\ cleared \in [Tracked -> Nat]
        /\ gen \in [Tracked -> Nat] /\ revision \in Nat
        /\ since \in [Refreshes -> Nat]
        /\ seenGen \in [Refreshes -> [Tracked -> Nat]]
        /\ k \in Tasks
    BY DEF BadgeTypeOK, Natural, Tasks
  \* Steps that leave the refresh and what it looks at alone.
  <1>1. ASSUME UNCHANGED <<written, cleared, since, seenGen>>,
               stage[k] \in {"loaded", "measured"}
        PROVE  cleared'[n] <= seenGen'[k][n]
    BY <1>1 DEF SeenIsRecent
  <1>2. ASSUME NEW j \in Refreshes, RefreshBegins(j)
        PROVE  cleared'[n] <= seenGen'[k][n]
    <2>1. k # j
      BY <1>t, <1>2 DEF RefreshBegins, GoTo, BadgeTypeOK, Tasks
    <2>2. since'[k] = since[k] /\ stage'[k] = stage[k]
      BY <1>t, <1>2, <2>1 DEF RefreshBegins, GoTo, BadgeTypeOK, Tasks
    <2>3. UNCHANGED <<written, cleared, seenGen>>
      BY <1>2 DEF RefreshBegins, store
    <2> QED
      BY <2>2, <2>3 DEF SeenIsRecent
  <1>3. ASSUME NEW j \in Refreshes, LoadLock(j)
        PROVE  cleared'[n] <= seenGen'[k][n]
    <2>1. UNCHANGED <<written, cleared, since>>
      BY <1>3 DEF LoadLock, store
    <2>2. CASE k = j
      BY <1>t, <1>3, <2>1, <2>2 DEF LoadLock, ClearedHappened
    <2>3. CASE k # j
      <3>1. seenGen'[k] = seenGen[k] /\ stage'[k] = stage[k]
        BY <1>t, <1>3, <2>3 DEF LoadLock, GoTo, BadgeTypeOK, Tasks
      <3> QED
        BY <2>1, <3>1 DEF SeenIsRecent
    <2> QED
      BY <2>2, <2>3
  <1>4. ASSUME NEW j \in Refreshes, Commit(j)
        PROVE  cleared'[n] <= seenGen'[k][n]
    <2>1. k # j
      BY <1>t, <1>4 DEF Commit, GoTo, BadgeTypeOK, Tasks
    <2>2. since'[k] = since[k] /\ seenGen'[k] = seenGen[k] /\ stage'[k] = stage[k]
      BY <1>t, <1>4, <2>1 DEF Commit, ForgetRefreshes, GoTo, BadgeTypeOK, Tasks
    <2>3. written'[n] = written[n]
      BY <1>t, <1>4, <2>2 DEF Commit, RevisionsAreOld
    <2>4. cleared' = cleared
      BY <1>4 DEF Commit
    <2> QED
      BY <2>2, <2>3, <2>4 DEF SeenIsRecent
  <1>5. ASSUME NEW u \in Updates, NEW m \in Tracked, NEW b \in BOOLEAN, NEW g,
               Record(u, m, b, g), UNCHANGED refresh
        PROVE  cleared'[n] <= seenGen'[k][n]
    <2>1. since'[k] = since[k] /\ seenGen'[k] = seenGen[k]
      BY <1>5 DEF refresh
    <2>2. stage[k] \in {"loaded", "measured"}
      BY <1>t, <1>5 DEF Record, GoTo, BadgeTypeOK, Tasks
    <2>3. n # m
      BY <1>t, <1>5, <2>1 DEF Record, RevisionsAreOld
    <2>4. written'[n] = written[n] /\ cleared'[n] = cleared[n]
      BY <1>t, <1>5, <2>3 DEF Record
    <2> QED
      BY <2>1, <2>2, <2>4 DEF SeenIsRecent
  <1>6. ASSUME NEW j \in Refreshes, NEW answered \in SUBSET Tracked, CheckUpstream(j, answered)
        PROVE  cleared'[n] <= seenGen'[k][n]
    <2>1. stage[k] \in {"loaded", "measured"}
      BY <1>t, <1>6 DEF CheckUpstream, GoTo, BadgeTypeOK, Tasks
    <2> QED
      BY <1>1, <1>6, <2>1 DEF CheckUpstream, store
  <1>7. ASSUME NEW u \in Updates,
               ApplyUpdate(u) \/ \E m \in Tracked : FetchUpdate(u, m) \/ Remove(u, m)
        PROVE  cleared'[n] <= seenGen'[k][n]
    <2>1. stage[k] \in {"loaded", "measured"}
      BY <1>t, <1>7 DEF ApplyUpdate, FetchUpdate, Remove, GoTo, BadgeTypeOK, Tasks
    <2>2. UNCHANGED <<written, cleared, since, seenGen>>
      BY <1>7 DEF ApplyUpdate, FetchUpdate, Remove, store, refresh
    <2> QED
      BY <1>1, <2>1, <2>2
  <1>8. ASSUME NEW t \in Tasks, Persist(t)
        PROVE  cleared'[n] <= seenGen'[k][n]
    <2>1. stage[k] \in {"loaded", "measured"}
      BY <1>t, <1>8 DEF Persist, GoTo, BadgeTypeOK, Tasks
    <2> QED
      BY <1>1, <1>8, <2>1 DEF Persist, store, refresh
  <1>9. ASSUME NEW m \in Tracked, Publish(m) \/ Install(m)
        PROVE  cleared'[n] <= seenGen'[k][n]
    BY <1>1, <1>9 DEF Publish, Install, store, refresh
  <1>10. CASE Restart
    BY <1>t, <1>10 DEF Restart
  <1>11. CASE UNCHANGED badgeVars
    BY <1>1, <1>11 DEF badgeVars, store, refresh
  <1>12. ASSUME NEW u \in Updates, ClearBadge(u) \/ \E b \in BOOLEAN : DeclineUpdate(u, b)
         PROVE  cleared'[n] <= seenGen'[k][n]
    <2>1. target[u] \in Tracked
      BY DEF BadgeTypeOK
    <2> QED
      BY <1>5, <1>12, <2>1 DEF ClearBadge, DeclineUpdate
  <1> QED
    BY <1>2, <1>3, <1>4, <1>6, <1>7, <1>8, <1>9, <1>10, <1>11, <1>12 DEF BadgeNext

\* Only a commit raises a refresh's badge, and the guard lets it through only for
\* Skills whose newest recorded replacement the refresh saw.
LEMMA StepNoRevived == BadgeInv /\ [BadgeNext]_badgeVars => NoRevivedBadge'
  <1> SUFFICES ASSUME BadgeInv, [BadgeNext]_badgeVars,
                      NEW n \in badges', about'[n] # 0
               PROVE  about'[n] >= cleared'[n]
    BY DEF NoRevivedBadge
  <1>t. /\ badges \subseteq Tracked /\ badges' \subseteq Tracked
        /\ written \in [Tracked -> Nat] /\ cleared \in [Tracked -> Nat]
        /\ about \in [Tracked -> Nat] /\ since \in [Refreshes -> Nat]
        /\ seenGen \in [Refreshes -> [Tracked -> Nat]]
    BY StepTypeOK DEF BadgeInv, BadgeTypeOK, Natural
  <1>1. CASE UNCHANGED <<badges, about, cleared>>
    BY <1>1 DEF BadgeInv, NoRevivedBadge
  <1>2. ASSUME NEW k \in Refreshes, Commit(k) PROVE about'[n] >= cleared'[n]
    <2>1. cleared' = cleared /\ n \in Tracked
      BY <1>t, <1>2 DEF Commit
    <2>2. CASE n \in measured[k] /\ ~Overtaken(k, n)
      <3>1. about'[n] = seenGen[k][n] /\ stage[k] = "measured"
        BY <1>2, <2>1, <2>2 DEF Commit
      <3>2. written[n] <= since[k]
        BY <1>t, <2>1, <2>2 DEF Overtaken
      <3>3. cleared[n] <= seenGen[k][n]
        BY <2>1, <3>1, <3>2 DEF BadgeInv, SeenIsRecent
      <3> QED
        BY <1>t, <2>1, <3>1, <3>3
    <2>3. CASE ~(n \in measured[k] /\ ~Overtaken(k, n))
      <3>1. about'[n] = about[n] /\ n \in badges
        BY <1>2, <2>1, <2>3 DEF Commit
      <3> QED
        BY <2>1, <3>1 DEF BadgeInv, NoRevivedBadge
    <2> QED
      BY <2>2, <2>3
  <1>3. ASSUME NEW u \in Updates, NEW m \in Tracked, NEW b \in BOOLEAN, NEW g,
               Record(u, m, b, g)
        PROVE  about'[n] >= cleared'[n]
    <2>1. n # m
      BY <1>t, <1>3 DEF Record
    <2>2. about'[n] = about[n] /\ cleared'[n] = cleared[n] /\ n \in badges
      BY <1>t, <1>3, <2>1 DEF Record
    <2> QED
      BY <2>2 DEF BadgeInv, NoRevivedBadge
  <1>4. CASE Restart
    BY <1>t, <1>4 DEF Restart, NoSkills
  <1>5. ASSUME NEW u \in Updates, ClearBadge(u) \/ \E b \in BOOLEAN : DeclineUpdate(u, b)
        PROVE  about'[n] >= cleared'[n]
    <2>1. target[u] \in Tracked
      BY DEF BadgeInv, BadgeTypeOK
    <2> QED
      BY <1>3, <1>5, <2>1 DEF ClearBadge, DeclineUpdate
  <1>6. ASSUME NEW u \in Updates,
               ApplyUpdate(u) \/ \E m \in Tracked : FetchUpdate(u, m) \/ Remove(u, m)
        PROVE  UNCHANGED <<badges, about, cleared>>
    BY <1>6 DEF ApplyUpdate, FetchUpdate, Remove, store
  <1> QED
    BY <1>1, <1>2, <1>4, <1>5, <1>6
    DEF BadgeNext, Publish, Install, RefreshBegins, LoadLock, CheckUpstream, Persist, badgeVars, store

\* Every step keeps the inductive invariant.
LEMMA BadgeInvStep == BadgeInv /\ [BadgeNext]_badgeVars => BadgeInv'
  BY StepTypeOK, StepRevisions, StepCleared, StepSeen, StepNoRevived DEF BadgeInv

\* The inductive invariant holds throughout.
LEMMA BadgeInvariance == BadgeSpec => []BadgeInv
  BY BadgeInvInit, BadgeInvStep, PTL DEF BadgeSpec

\* The store, the snapshot and every task stay well-formed.
THEOREM BadgeTypeCorrect == BadgeSpec => []BadgeTypeOK
  <1>1. BadgeInv => BadgeTypeOK
    BY DEF BadgeInv
  <1> QED
    BY BadgeInvariance, <1>1, PTL

\* For any number of Skills, refreshes and updates: a refresh that began before an
\* update or a removal was recorded never re-asserts the badge it cleared.
THEOREM NoRefreshRevivesABadge == BadgeSpec => []NoRevivedBadge
  <1>1. BadgeInv => NoRevivedBadge
    BY DEF BadgeInv
  <1> QED
    BY BadgeInvariance, <1>1, PTL

\* As long as nothing happens to Skill n, what refresh k has learnt of it is so:
\* nobody wrote its state, its entry is the one loaded, and the verdict is right.
UpToDate(k, n) ==
    stage[k] \in {"begun", "loaded", "measured"} /\ n \notin disturbed[k] =>
        /\ written[n] <= since[k]
        /\ stage[k] # "begun" => seen[k][n] = installed[n]
        /\ stage[k] = "measured" /\ n \in measured[k] =>
             (n \in found[k] <=> installed[n] # upstream[n])

LearntIsSo == \A k \in Refreshes, n \in Tracked : UpToDate(k, n)

\* What the refresh knows is as it was, and so is the Skill, or it is disturbed.
LEMMA StaysUpToDate ==
    ASSUME NEW k \in Refreshes, NEW n \in Tracked, UpToDate(k, n),
           stage'[k] = stage[k],
           since'[k] = since[k], seen'[k] = seen[k],
           measured'[k] = measured[k], found'[k] = found[k],
           stage[k] \in {"idle", "saving"} \/ disturbed[k] \subseteq disturbed'[k],
           n \in disturbed'[k]
             \/ (written'[n] = written[n] /\ installed'[n] = installed[n]
                   /\ upstream'[n] = upstream[n])
    PROVE  UpToDate(k, n)'
  BY DEF UpToDate

\* Every step keeps what undisturbed refreshes have learnt.
LEMMA StepLearnt == BadgeInv /\ LearntIsSo /\ [BadgeNext]_badgeVars => LearntIsSo'
  <1> SUFFICES ASSUME BadgeInv, LearntIsSo, [BadgeNext]_badgeVars,
                      NEW k \in Refreshes, NEW n \in Tracked
               PROVE  UpToDate(k, n)'
    BY DEF LearntIsSo
  <1>t. /\ stage \in [Tasks -> {"idle", "begun", "loaded", "measured", "fetched", "applied",
                              "saving"}]
        /\ k \in Tasks /\ Refreshes \cap Updates = {}
        /\ since \in [Refreshes -> Nat] /\ seen \in [Refreshes -> [Tracked -> Nat]]
        /\ measured \in [Refreshes -> SUBSET Tracked]
        /\ found \in [Refreshes -> SUBSET Tracked]
        /\ disturbed \in [Refreshes -> SUBSET Tracked]
        /\ written \in [Tracked -> Nat] /\ installed \in [Tracked -> Nat]
        /\ upstream \in [Tracked -> Nat]
    BY TasksAssumption DEF BadgeInv, BadgeTypeOK, Natural, Tasks
  <1>u. UpToDate(k, n)
    BY DEF LearntIsSo
  <1>1. ASSUME NEW m \in Tracked, Publish(m) \/ Install(m) PROVE UpToDate(k, n)'
    <2>1. /\ UNCHANGED <<stage, store, refresh>>
          /\ disturbed'[k] = IF stage[k] \in {"idle", "saving"} THEN {}
                                                               ELSE disturbed[k] \cup {m}
      BY <1>1 DEF Publish, Install, Replace, Disturb
    <2>2. n # m => installed'[n] = installed[n] /\ upstream'[n] = upstream[n]
      BY <1>1, <1>t DEF Publish, Install, Replace
    <2>3. CASE stage[k] \in {"idle", "saving"}
      BY <2>1, <2>3 DEF UpToDate
    <2>4. CASE stage[k] \notin {"idle", "saving"}
      BY <1>u, <2>1, <2>2, <2>4, StaysUpToDate DEF store, refresh
    <2> QED
      BY <2>3, <2>4
  <1>2. ASSUME NEW j \in Refreshes, RefreshBegins(j) PROVE UpToDate(k, n)'
    <2>1. written[n] <= revision
      BY DEF BadgeInv, RevisionsAreOld
    <2> QED
      BY <1>2, <1>t, <1>u, <2>1, StaysUpToDate
      DEF RefreshBegins, GoTo, world, store, UpToDate
  <1>3. ASSUME NEW j \in Refreshes, LoadLock(j) PROVE UpToDate(k, n)'
    BY <1>3, <1>t, <1>u, StaysUpToDate DEF LoadLock, GoTo, world, store, UpToDate
  <1>4. ASSUME NEW j \in Refreshes, NEW answered \in SUBSET Tracked, CheckUpstream(j, answered)
        PROVE  UpToDate(k, n)'
    <2>1. CASE j # k
      BY <1>4, <1>t, <1>u, <2>1, StaysUpToDate DEF CheckUpstream, GoTo, world, store
    <2>2. CASE j = k
      <3>1. /\ stage'[k] = "measured" /\ stage[k] = "loaded" /\ since'[k] = since[k]
            /\ seen'[k] = seen[k] /\ measured'[k] = answered
            /\ found'[k] = {m \in answered : seen[k][m] # upstream[m]}
            /\ disturbed' = disturbed /\ written' = written
            /\ installed' = installed /\ upstream' = upstream
        BY <1>4, <1>t, <2>2 DEF CheckUpstream, GoTo, world, store
      <3> QED
        BY <1>u, <3>1 DEF UpToDate
    <2> QED
      BY <2>1, <2>2
  <1>5. ASSUME NEW j \in Refreshes, Commit(j) PROVE UpToDate(k, n)'
    <2>1. CASE j = k
      BY <1>5, <1>t, <2>1 DEF Commit, GoTo, UpToDate
    <2>2. CASE j # k
      <3> DEFINE kept == {m \in measured[j] : ~Overtaken(j, m)}
      <3>1. /\ written' = [m \in Tracked |-> IF m \in kept THEN revision + 1 ELSE written[m]]
            /\ Disturb(kept) /\ installed' = installed /\ upstream' = upstream
            /\ GoTo(j, "saving") /\ ForgetRefreshes({j})
        BY <1>5 DEF Commit, world
      <3> HIDE DEF kept
      <3>2. /\ stage'[k] = stage[k] /\ since'[k] = since[k] /\ seen'[k] = seen[k]
            /\ measured'[k] = measured[k] /\ found'[k] = found[k]
        BY <1>t, <2>2, <3>1 DEF GoTo, ForgetRefreshes
      <3>3. disturbed'[k] = IF stage[k] \in {"idle", "saving"} THEN {}
                                                              ELSE disturbed[k] \cup kept
        BY <3>1 DEF Disturb
      <3>4. n \notin kept => written'[n] = written[n]
        BY <3>1
      <3>5. CASE stage[k] \in {"idle", "saving"}
        BY <3>2, <3>5 DEF UpToDate
      <3>6. CASE stage[k] \notin {"idle", "saving"}
        BY <1>u, <3>1, <3>2, <3>3, <3>4, <3>6, StaysUpToDate
      <3> QED
        BY <3>5, <3>6
    <2> QED
      BY <2>1, <2>2
  <1>6. ASSUME NEW w \in Updates, NEW m \in Tracked, FetchUpdate(w, m) PROVE UpToDate(k, n)'
    BY <1>6, <1>t, <1>u, StaysUpToDate DEF FetchUpdate, GoTo, world, store, refresh
  <1>7. ASSUME NEW w \in Updates, NEW m \in Tracked, NEW v, NEW s,
               Replace(m, v) \/ UNCHANGED <<world, disturbed>>, GoTo(w, s),
               UNCHANGED <<store, refresh>>
        PROVE  UpToDate(k, n)'
    <2>1. stage'[k] = stage[k]
      BY <1>7, <1>t DEF GoTo
    <2>2. CASE UNCHANGED <<world, disturbed>>
      BY <1>7, <1>u, <2>1, <2>2, StaysUpToDate DEF world, store, refresh
    <2>3. CASE Replace(m, v)
      <3>1. disturbed'[k] = IF stage[k] \in {"idle", "saving"} THEN {}
                                                              ELSE disturbed[k] \cup {m}
        BY <2>3 DEF Replace, Disturb
      <3>2. upstream' = upstream /\ (n # m => installed'[n] = installed[n])
        BY <1>t, <2>3 DEF Replace
      <3>3. CASE stage[k] \in {"idle", "saving"}
        BY <2>1, <3>3 DEF UpToDate
      <3>4. CASE stage[k] \notin {"idle", "saving"}
        BY <1>7, <1>u, <2>1, <3>1, <3>2, <3>4, StaysUpToDate DEF store, refresh
      <3> QED
        BY <3>3, <3>4
    <2> QED
      BY <1>7, <2>2, <2>3
  <1>8. ASSUME NEW w \in Updates, NEW m \in Tracked, NEW b, NEW g, Record(w, m, b, g),
               UNCHANGED <<world, refresh>>
        PROVE  UpToDate(k, n)'
    <2>1. stage'[k] = stage[k]
      BY <1>8, <1>t DEF Record, GoTo
    <2>2. disturbed'[k] = IF stage[k] \in {"idle", "saving"} THEN {} ELSE disturbed[k] \cup {m}
      BY <1>8 DEF Record, Disturb
    <2>3. n # m => written'[n] = written[n]
      BY <1>8, <1>t DEF Record
    <2>4. CASE stage[k] \in {"idle", "saving"}
      BY <2>1, <2>4 DEF UpToDate
    <2>5. CASE stage[k] \notin {"idle", "saving"}
      BY <1>8, <1>u, <2>1, <2>2, <2>3, <2>5, StaysUpToDate DEF world, refresh
    <2> QED
      BY <2>4, <2>5
  <1>9. ASSUME NEW w \in Updates, ApplyUpdate(w) PROVE UpToDate(k, n)'
    <2>1. target[w] \in Tracked
      BY DEF BadgeInv, BadgeTypeOK
    <2> QED
      BY <1>7, <1>9, <2>1 DEF ApplyUpdate
  <1>10. ASSUME NEW w \in Updates, NEW m \in Tracked, Remove(w, m) PROVE UpToDate(k, n)'
    BY <1>7, <1>10 DEF Remove
  <1>11. ASSUME NEW w \in Updates, ClearBadge(w) \/ \E b \in BOOLEAN : DeclineUpdate(w, b)
         PROVE  UpToDate(k, n)'
    <2>1. target[w] \in Tracked
      BY DEF BadgeInv, BadgeTypeOK
    <2> QED
      BY <1>8, <1>11, <2>1 DEF ClearBadge, DeclineUpdate
  <1>12. ASSUME NEW t \in Tasks, Persist(t) PROVE UpToDate(k, n)'
    <2>1. CASE t = k
      BY <1>12, <1>t, <2>1 DEF Persist, GoTo, UpToDate
    <2>2. CASE t # k
      BY <1>12, <1>t, <1>u, <2>2, StaysUpToDate DEF Persist, GoTo, world, store, refresh
    <2> QED
      BY <2>1, <2>2
  <1>13. CASE Restart
    BY <1>13, <1>t DEF Restart, UpToDate
  <1>14. CASE UNCHANGED badgeVars
    BY <1>14, <1>u, StaysUpToDate DEF badgeVars, world, store, refresh
  <1> QED
    BY <1>1, <1>2, <1>3, <1>4, <1>5, <1>6, <1>9, <1>10, <1>11, <1>12, <1>13, <1>14
    DEF BadgeNext

\* For any number of Skills, refreshes and updates: a refresh leaves the right
\* badge on every Skill it measured to which nothing happened meanwhile.
THEOREM QuietRefreshesAreRight == BadgeSpec => UndisturbedRefreshIsRight
  <1> DEFINE Right == \A k \in Refreshes : stage[k] = "measured" /\ stage'[k] = "saving" =>
                        \A n \in measured[k] \ disturbed[k] :
                            n \in badges' <=> installed[n] # upstream[n]
  <1>1. BadgeInit => LearntIsSo
    BY DEF BadgeInit, LearntIsSo, UpToDate, Tasks
  <1>2. BadgeInv /\ LearntIsSo /\ [BadgeNext]_badgeVars => [Right]_badgeVars
    <2> SUFFICES ASSUME BadgeInv, LearntIsSo, BadgeNext, NEW k \in Refreshes,
                        stage[k] = "measured", stage'[k] = "saving",
                        NEW n \in measured[k] \ disturbed[k]
                 PROVE  n \in badges' <=> installed[n] # upstream[n]
      OBVIOUS
    <2>t. /\ stage \in [Tasks -> {"idle", "begun", "loaded", "measured", "fetched", "applied",
                                "saving"}]
          /\ k \in Tasks /\ Refreshes \cap Updates = {}
          /\ n \in Tracked /\ written \in [Tracked -> Nat] /\ since[k] \in Nat
          /\ found[k] \subseteq measured[k]
      BY TasksAssumption DEF BadgeInv, BadgeTypeOK, Natural, Tasks
    <2>1. Commit(k)
      <3>1. ASSUME NEW t \in Tasks, NEW s, GoTo(t, s), t # k \/ s # "saving" PROVE FALSE
        BY <2>t, <3>1 DEF GoTo
      <3>2. ~Restart
        BY <2>t DEF Restart
      <3>3. ASSUME NEW w \in Updates PROVE w \in Tasks /\ w # k
        BY <2>t DEF Tasks
      <3>4. ASSUME NEW j \in Refreshes PROVE j \in Tasks
        BY DEF Tasks
      <3>5. ~ \E m \in Tracked : Publish(m) \/ Install(m)
        BY DEF Publish, Install
      <3>6. ~ \E t \in Tasks : Persist(t)
        BY <3>1 DEF Persist
      <3>7. ~ \E j \in Refreshes : \/ RefreshBegins(j) \/ LoadLock(j)
                                   \/ \E a \in SUBSET Tracked : CheckUpstream(j, a)
        BY <3>1, <3>4 DEF RefreshBegins, LoadLock, CheckUpstream
      <3>8. ~ \E w \in Updates : \/ ApplyUpdate(w) \/ ClearBadge(w)
                                 \/ \E m \in Tracked : FetchUpdate(w, m) \/ Remove(w, m)
                                 \/ \E b \in BOOLEAN : DeclineUpdate(w, b)
        BY <3>1, <3>3 DEF ApplyUpdate, ClearBadge, FetchUpdate, Remove, DeclineUpdate, Record
      <3>9. ASSUME NEW j \in Refreshes, Commit(j) PROVE j = k
        BY <3>1, <3>4, <3>9 DEF Commit
      <3> QED
        BY <3>2, <3>5, <3>6, <3>7, <3>8, <3>9 DEF BadgeNext
    <2>2. /\ written[n] <= since[k]
          /\ n \in found[k] <=> installed[n] # upstream[n]
      BY <2>t DEF LearntIsSo, UpToDate
    <2>3. ~Overtaken(k, n)
      BY <2>t, <2>2 DEF Overtaken
    <2> QED
      BY <2>1, <2>2, <2>3 DEF Commit
  <1> HIDE DEF Right
  <1>3. [][Right]_badgeVars => UndisturbedRefreshIsRight
    BY DEF Right, UndisturbedRefreshIsRight
  <1> QED
    BY BadgeInvariance, <1>1, <1>2, <1>3, StepLearnt, PTL DEF BadgeSpec
=============================================================================
