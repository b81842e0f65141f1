----------------------------- MODULE ProjectPlans -----------------------------
(***************************************************************************)
(* Project Skills over MCP: an agent asks for a plan for one project, the  *)
(* user approves it in the client, the page or the CLI, and apply links    *)
(* the planned Skills and writes a receipt.                                *)
(* (ss-app/src/project_skills_mcp/, ss-skills/src/projects/strict.rs)      *)
(*                                                                         *)
(* Apply holds the project write lock from its first read to the receipt;  *)
(* approvals and plans are written without it, and so is a project removed.*)
(* Canonical folders change under the Skill transaction, which none of     *)
(* this takes, and the user edits the project at any time.  The page's and *)
(* the CLI's own writes to the project are ProjectWrites; here they are    *)
(* one step of whoever has the lock.                                       *)
(***************************************************************************)
EXTENDS Naturals, FiniteSets

CONSTANTS Skills, Contents,
          Selections, \* the sets of Skills a plan or a sync is asked for
          Plans,      \* plan ids
          Keys,       \* idempotency keys the clients use
          Procs,      \* threads and processes
          Absent,
          Nobody,
          MaxEvents   \* bound on crashes, failing calls and changes from outside

ASSUME AbsentAssumption == /\ Absent \notin Contents \cup Plans
                           /\ Nobody \notin Procs
ASSUME SelectionsAssumption == Selections \subseteq SUBSET Skills
ASSUME EventsAssumption == MaxEvents \in Nat

VARIABLES hub,         \* content of each canonical folder
          entry,       \* the project's skills directory
          listed,      \* the names in the project's list
          mode,        \* its deploy mode
          registered,  \* the project is in the index
          leaving,     \* it has been taken out, and its folder is next
          strays,      \* history: links left behind by what failed, died or removed
          plans,       \* plan files
          expired,     \* plans past their expiry
          approvals,   \* the source of each plan's approval record
          temp,        \* the temporary file of each approval record
          receipts,    \* the plan each key's receipt is for
          plock,       \* owner of the project write lock
          run,         \* what each thread is doing
          events

project == <<entry, listed, mode, registered, leaving, strays>>
files   == <<plans, expired, approvals, temp, receipts>>
vars    == <<hub, project, files, plock, run, events>>

Sources == {"elicitation", "skillstar"}
Free    == {"missing", "link", "folder"}   \* "folder": the user's

\* A plan: its Skills, the content of each, and those that are to be linked.
\* The content hash covers the rest of the plan, which nothing changes.
PlanOf(S, creates, r) == [skills |-> S, creates |-> creates, registers |-> r,
                          content |-> [n \in S |-> hub[n]]]

Idle == [step |-> "none", plan |-> Absent, key |-> Absent, source |-> "none",
         timely |-> FALSE, known |-> {}, todo |-> {}, made |-> {}, cut |-> FALSE]

\* Contents of different Skills are never compared, so all start alike.
Init == /\ \E c \in Contents : hub = [n \in Skills |-> c]
        /\ entry = [n \in Skills |-> "missing"]
        /\ listed = {} /\ mode = "link" /\ registered = FALSE
        /\ leaving = FALSE /\ strays = {}
        /\ plans = [i \in Plans |-> Absent] /\ expired = {}
        /\ approvals = [i \in Plans |-> "none"]
        /\ temp = [i \in Plans |-> "none"]
        /\ receipts = [k \in Keys |-> Absent]
        /\ plock = Nobody
        /\ run = [p \in Procs |-> Idle]
        /\ events = 0
-----------------------------------------------------------------------------
At(p, s)   == run[p].step = s
Goes(p, s) == run' = [run EXCEPT ![p].step = s]
Event      == events < MaxEvents /\ events' = events + 1
NoEvent    == UNCHANGED events

\* Mutant: the lock is left behind.
ReturnLocked(p) == run' = [run EXCEPT ![p] = Idle] /\ UNCHANGED plock

Return(p) == /\ run' = [run EXCEPT ![p] = Idle]
             /\ plock' = IF plock = p THEN Nobody ELSE plock

Live(i) == plans[i] # Absent /\ i \notin expired

\* After a change of entries or list: the links in S are nobody's now.
Strand(S) == strays' = {n \in strays \cup S : entry'[n] = "link" /\ n \notin listed'}

\* classify_project_skill, for the content that was asked for and the mode m.
Status(n, content, m) == CASE hub[n] = Absent       -> "missing"
                           [] hub[n] # content      -> "stale"
                           [] m = "copy"            -> "rejected"
                           [] entry[n] = "link"     -> "already"
                           [] entry[n] = "folder"   -> "conflict"
                           [] entry[n] = "missing"  -> "create"

\* The list is found by the project's name, which the index has.
SeenMode == IF registered THEN mode ELSE "link"

Enabling == {"already", "create"}

\* recommend_project_skills with a selection: a plan is written only when
\* every Skill can be enabled.
Recommend(i, S) ==
    /\ plans[i] = Absent /\ S # {}
    /\ \A n \in S : Status(n, hub[n], SeenMode) \in Enabling
    /\ plans' = [plans EXCEPT ![i] =
          PlanOf(S, {n \in S : Status(n, hub[n], SeenMode) = "create"}, ~registered)]
    /\ UNCHANGED <<hub, project, expired, approvals, temp, receipts, plock, run, events>>

Expire(i) ==
    /\ Live(i)
    /\ expired' = expired \cup {i}
    /\ Event
    /\ UNCHANGED <<hub, project, plans, approvals, temp, receipts, plock, run>>
-----------------------------------------------------------------------------
\* The user agrees to a plan: in the client, which goes on to apply it under
\* key k, or in the page or the CLI, which only record it.
Approve(p, i, k, source) ==
    /\ run[p] = Idle /\ Live(i)
    /\ (source = "elicitation") = (k # Absent)
    /\ run' = [run EXCEPT ![p] = [Idle EXCEPT !.step = "approval", !.plan = i,
                                     !.key = k, !.source = source]]
    /\ UNCHANGED <<hub, project, files, plock, events>>

\* A call of apply takes the time with it, however long it then waits.
AfterApproval(p) ==
    IF run[p].key = Absent
    THEN run' = [run EXCEPT ![p] = Idle]
    ELSE run' = [run EXCEPT ![p].step = "lock", ![p].timely = run[p].plan \notin expired]

\* record: a record of the same source stands, one of another is refused ...
LoadApproval(p) ==
    /\ At(p, "approval")
    /\ LET known == approvals[run[p].plan] IN
       \/ known = "none" /\ Goes(p, "temp")
       \/ known = run[p].source /\ AfterApproval(p)
       \/ known \notin {"none", run[p].source} /\ run' = [run EXCEPT ![p] = Idle]
    /\ UNCHANGED <<hub, project, files, plock, events>>

\* ... and a new one goes through a temporary file.
WriteTemp(p) ==
    /\ At(p, "temp")
    /\ temp' = [temp EXCEPT ![run[p].plan] = run[p].source]
    /\ Goes(p, "rename")
    /\ UNCHANGED <<hub, project, plans, expired, approvals, receipts, plock, events>>

RenameTemp(p) ==
    /\ At(p, "rename")
    /\ LET i == run[p].plan IN
       \/ /\ temp[i] # "none"
          /\ approvals' = [approvals EXCEPT ![i] = temp[i]]
          /\ temp' = [temp EXCEPT ![i] = "none"]
          /\ AfterApproval(p)
       \/ /\ temp[i] = "none"
          /\ run' = [run EXCEPT ![p] = Idle]
          /\ UNCHANGED <<approvals, temp>>
    /\ UNCHANGED <<hub, project, plans, expired, receipts, plock, events>>
-----------------------------------------------------------------------------
\* A client that cannot ask its user calls apply directly.
Apply(p, i, k) ==
    /\ run[p] = Idle /\ plans[i] # Absent
    /\ run' = [run EXCEPT ![p] = [Idle EXCEPT !.step = "lock", !.plan = i, !.key = k,
                                                !.timely = i \notin expired]]
    /\ UNCHANGED <<hub, project, files, plock, events>>

Lock(p) ==
    /\ At(p, "lock") /\ plock = Nobody
    /\ plock' = p
    /\ Goes(p, "check")
    /\ UNCHANGED <<hub, project, files, events>>

\* recheck_plan: every Skill is still as planned.
AsPlanned(i) == \A n \in plans[i].skills :
    Status(n, plans[i].content[n], SeenMode) = IF n \in plans[i].creates THEN "create" ELSE "already"

\* Mutant: the record is not looked for.
ApplicableUnseen(p) ==
    LET i == run[p].plan IN
    /\ plans[i] # Absent /\ run[p].timely
    /\ receipts[run[p].key] = Absent
    /\ AsPlanned(i)
    /\ registered \/ plans[i].registers

\* The plan was live at the call, is new under its key, approved, and still true.
Applicable(p) ==
    LET i == run[p].plan IN
    /\ plans[i] # Absent /\ run[p].timely
    /\ receipts[run[p].key] = Absent
    /\ approvals[i] # "none"
    /\ AsPlanned(i)
    /\ registered \/ plans[i].registers

\* apply_locked up to the registration.  A receipt under the key answers the
\* call, or refuses it when it is for another plan; nothing is written.
Check(p) ==
    /\ At(p, "check")
    /\ \/ /\ Applicable(p)
          /\ registered' = TRUE
          /\ Goes(p, "classify")
          /\ UNCHANGED plock
       \/ /\ ~Applicable(p)
          /\ Return(p)
          /\ UNCHANGED registered
    /\ UNCHANGED <<hub, entry, listed, mode, leaving, strays, files, events>>

\* enable_project_skills_strict loads the list, and looks at every Skill before
\* it links one.
Classify(p) ==
    /\ At(p, "classify")
    /\ LET i == run[p].plan
           status(n) == Status(n, plans[i].content[n], mode) IN
       \/ /\ \A n \in plans[i].skills : status(n) \in Enabling
          /\ run' = [run EXCEPT ![p].step = "link", ![p].known = listed,
                ![p].todo = {n \in plans[i].skills : status(n) = "create"}]
          /\ UNCHANGED plock
       \/ /\ \E n \in plans[i].skills : status(n) \notin Enabling
          /\ Return(p)
    /\ UNCHANGED <<hub, project, files, events>>

\* link_new
LinkNew(p, n) ==
    /\ At(p, "link") /\ n \in run[p].todo /\ entry[n] = "missing"
    /\ entry' = [entry EXCEPT ![n] = "link"]
    /\ run' = [run EXCEPT ![p].todo = @ \ {n}, ![p].made = @ \cup {n}]
    /\ UNCHANGED <<hub, listed, mode, registered, leaving, strays, files, plock, events>>

\* Mutant: the links made so far stay.
LinkFailsKeeps(p, n) ==
    /\ At(p, "link") /\ n \in run[p].todo
    /\ IF entry[n] = "missing" THEN Event ELSE NoEvent
    /\ Return(p)
    /\ UNCHANGED <<hub, project, files>>

\* The name was taken meanwhile, or the link cannot be made.
LinkFails(p, n) ==
    /\ At(p, "link") /\ n \in run[p].todo
    /\ IF entry[n] = "missing" THEN Event ELSE NoEvent
    /\ Goes(p, "undo")
    /\ UNCHANGED <<hub, project, files, plock>>

\* The links made so far are removed one by one; one that cannot be is passed over.
UndoLink(p, n) ==
    /\ At(p, "undo") /\ n \in run[p].made
    /\ run' = [run EXCEPT ![p].made = @ \ {n}]
    /\ \/ /\ entry' = [entry EXCEPT ![n] = IF @ = "link" THEN "missing" ELSE @]
          /\ NoEvent
       \/ entry[n] = "link" /\ UNCHANGED entry /\ Event
    /\ UNCHANGED <<hub, listed, mode, registered, leaving, files, plock>>
    /\ Strand({n})

Undone(p) ==
    /\ At(p, "undo") /\ run[p].made = {}
    /\ Return(p)
    /\ UNCHANGED <<hub, project, files, events>>

\* save_skills_list, of what was loaded and the new names; when it fails, the
\* links stay.
SaveNames(p) ==
    /\ At(p, "link") /\ run[p].todo = {}
    /\ UNCHANGED <<hub, entry, registered, leaving, files>>
    /\ \/ /\ listed' = run[p].known \cup plans[run[p].plan].skills
          /\ mode' = "link"
          /\ Goes(p, "receipt")
          /\ NoEvent
          /\ UNCHANGED plock
       \/ Event /\ Return(p) /\ UNCHANGED <<listed, mode>>
    /\ Strand(run[p].made)

\* The receipt is written only when every Skill is seen linked.
WriteReceipt(p) ==
    /\ At(p, "receipt")
    /\ LET i == run[p].plan
           linked == \A n \in plans[i].skills : entry[n] = "link" IN
       \/ /\ linked /\ NoEvent
          /\ receipts' = [receipts EXCEPT ![run[p].key] = i]
       \/ /\ IF linked THEN Event ELSE NoEvent
          /\ UNCHANGED receipts
    /\ Return(p)
    /\ UNCHANGED <<hub, project, plans, expired, approvals, temp>>
-----------------------------------------------------------------------------
\* A Skill is updated, uninstalled or installed again.
HubChanges(n) ==
    /\ \E c \in Contents \cup {Absent} : c # hub[n] /\ hub' = [hub EXCEPT ![n] = c]
    /\ Event
    /\ UNCHANGED <<project, files, plock, run>>

\* The user puts a folder or deletes what is there.
UserEdits(n) ==
    /\ \E e \in {"missing", "folder"} : e # entry[n] /\ entry' = [entry EXCEPT ![n] = e]
    /\ Event
    /\ UNCHANGED <<hub, listed, mode, registered, leaving, files, plock, run>>
    /\ Strand({})

\* The project is synced to a new list in the page, or added to by the CLI. A
\* directory that neither the old list nor the new one names is left alone.
ProjectSynced(S, m) ==
    /\ plock = Nobody
    /\ registered' = TRUE
    /\ listed' = S /\ mode' = m
    /\ entry' = IF S \cup listed = {} THEN entry ELSE
                [n \in Skills |-> CASE entry[n] = "folder"       -> "folder"
                                    [] n \in S /\ m = "link"
                                       /\ hub[n] # Absent        -> "link"
                                    [] OTHER                     -> "missing"]
    /\ Event
    /\ UNCHANGED <<hub, leaving, files, plock, run>>
    /\ Strand({})

\* remove_project, without a lock: the project leaves the index ...
RemoveProject ==
    /\ registered /\ ~leaving
    /\ registered' = FALSE /\ leaving' = TRUE
    /\ Event
    /\ UNCHANGED <<hub, entry, listed, mode, strays, files, plock, run>>

\* ... and its folder goes with the list; the links stay. An apply that has saved
\* the list does not notice. (Or the folder cannot be removed, or the program ends.)
RemoveList ==
    /\ leaving /\ leaving' = FALSE
    /\ UNCHANGED <<hub, entry, registered, files, plock>>
    /\ \/ /\ listed' = {} /\ mode' = "link"
          /\ run' = [p \in Procs |-> [run[p] EXCEPT !.cut = @ \/ At(p, "receipt")]]
          /\ NoEvent
       \/ Event /\ UNCHANGED <<listed, mode, run>>
    /\ Strand(listed \ listed')

\* A thread dies; what it has linked and not listed stays.
Crash(p) ==
    /\ run[p] # Idle
    /\ Event
    /\ Return(p)
    /\ UNCHANGED <<hub, entry, listed, mode, registered, leaving, files>>
    /\ Strand(run[p].made)

Next ==
    \/ \E i \in Plans : \/ \E S \in Selections : Recommend(i, S)
                        \/ Expire(i)
    \/ \E p \in Procs :
         \/ \E i \in Plans, k \in Keys \cup {Absent}, s \in Sources : Approve(p, i, k, s)
         \/ \E i \in Plans, k \in Keys : Apply(p, i, k)
         \/ LoadApproval(p) \/ WriteTemp(p) \/ RenameTemp(p)
         \/ Lock(p) \/ Check(p) \/ Classify(p)
         \/ \E n \in Skills : LinkNew(p, n) \/ LinkFails(p, n) \/ UndoLink(p, n)
         \/ Undone(p) \/ SaveNames(p) \/ WriteReceipt(p)
         \/ Crash(p)
    \/ \E n \in Skills : HubChanges(n) \/ UserEdits(n)
    \/ RemoveProject \/ RemoveList
    \/ \E S \in Selections, m \in {"link", "copy"} : ProjectSynced(S, m)

Spec == Init /\ [][Next]_vars
-----------------------------------------------------------------------------
Applying(p) == \E s \in {"check", "classify", "link", "undo", "receipt"} : At(p, s)

\* Files of the project and of the plans, and the state of every thread: one
\* holds the project lock exactly from the check to the receipt.
TypeOK ==
    /\ hub \in [Skills -> Contents \cup {Absent}]
    /\ entry \in [Skills -> Free]
    /\ listed \subseteq Skills
    /\ mode \in {"link", "copy"}
    /\ registered \in BOOLEAN /\ leaving \in BOOLEAN
    /\ strays \subseteq Skills
    /\ expired \subseteq Plans
    /\ approvals \in [Plans -> Sources \cup {"none"}]
    /\ temp \in [Plans -> Sources \cup {"none"}]
    /\ receipts \in [Keys -> Plans \cup {Absent}]
    /\ plock \in Procs \cup {Nobody}
    /\ \A p \in Procs : /\ run[p].todo \cup run[p].made \cup run[p].known \subseteq Skills
                        /\ (plock = p) <=> Applying(p)
    /\ events \in 0 .. MaxEvents

\* When a receipt says a plan is applied, the plan has been approved and the list
\* has every Skill of it, unless the project's folder was removed after the list
\* was saved. (apply.rs: only a committed enable under the project lock writes a
\* receipt; index.rs: a removal takes no lock)
ReceiptIsTrue ==
    [][\A k \in Keys : (receipts[k] = Absent /\ receipts'[k] # Absent) =>
          /\ approvals[receipts'[k]] # "none"
          /\ \A p \in Procs : (At(p, "receipt") /\ run[p].key = k /\ ~run[p].cut) =>
                plans[receipts'[k]].skills \subseteq listed]_vars

\* A link that the list does not name, which no later sync or uninstall would find,
\* is one an apply is about to list or to undo; or it was left by a link that could
\* not be removed, a list that could not be saved, a crash, or the removal of the
\* project. (strict.rs: "a failed link leaves the project tree ... unchanged")
LinksAreListed ==
    \A n \in Skills : entry[n] = "link" =>
        n \in listed \cup strays \cup UNION {run[p].made : p \in Procs}
=============================================================================
