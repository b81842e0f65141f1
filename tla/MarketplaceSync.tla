-------------------------- MODULE MarketplaceSync --------------------------
(***************************************************************************)
(* Refreshing one scope of the marketplace snapshot: the table rows of the *)
(* scope and its sync record, and refreshes that overlap (the start-up     *)
(* refresh, a page that seeds itself, the refresh button, another window). *)
(*                                                                         *)
(* A refresh reads the record, asks the hosts, reads the record again to   *)
(* plan, and writes rows and record in one transaction. Nothing keeps two  *)
(* refreshes of a scope apart. A payload stands for its bytes; whether the *)
(* program at hand can parse it, or only rescue part of it, depends on the *)
(* payload and on the program's version. The leaderboards' parsers say     *)
(* when they only rescued; that of the publishers' page falls back to a    *)
(* built-in list and says nothing.                                         *)
(***************************************************************************)
EXTENDS Integers

CONSTANTS Tasks,         \* the refreshes that may run at once
          Hosts,         \* skills.sh and the accelerators
          Nowhere,       \* a host no record names
          Signals,       \* the scope's parser says when it only rescued
          MaxPayload,    \* bound: different contents of the page
          MaxChanges,    \* bound: times a host's page changes
          MaxWipes       \* bound: times the scope's rows are lost

ASSUME NowhereIsNoHost == Nowhere \notin Hosts
ASSUME SignalsIsBoolean == Signals \in BOOLEAN
ASSUME BoundsAreNat == MaxPayload \in Nat \ {0} /\ MaxChanges \in Nat /\ MaxWipes \in Nat

Payloads == 1..MaxPayload
NoBody   == 0

\* The validator a host issues names the content it serves.
Tag(h, payload) == [host |-> h, payload |-> payload]
NoTag           == Tag(Nowhere, NoBody)

VARIABLES site,       \* what each host serves
          readable,   \* payloads this version parses completely
          row,        \* the scope's sync record
          held,       \* the scope's rows: the payload they came from, and how
          tasks,      \* the refreshes
          changes, wipes

vars == <<site, readable, row, held, tasks, changes, wipes>>

Rows(payload, lossy) == [payload |-> payload, lossy |-> lossy]
NoRows               == Rows(NoBody, FALSE)

Record(known, sha, host, tag, degraded, fresh) ==
    [known |-> known, sha |-> sha, host |-> host, tag |-> tag,
     degraded |-> degraded, fresh |-> fresh]

NothingStored == Record(FALSE, NoBody, Nowhere, NoTag, FALSE, FALSE)

Meta(payload, host, tag, lossy) ==
    [payload |-> payload, host |-> host, tag |-> tag, lossy |-> lossy]
NoMeta == Meta(NoBody, Nowhere, NoTag, FALSE)

\* sha and bad: what the task last read of the record; alone: history, no
\* other refresh has written since this one began.
Task(at, sha, tag, from, bad, meta, alone) ==
    [at |-> at, sha |-> sha, tag |-> tag, from |-> from, bad |-> bad,
     meta |-> meta, alone |-> alone]
Idle == Task("idle", NoBody, NoTag, Nowhere, FALSE, NoMeta, FALSE)

Init ==
    /\ site \in [Hosts -> Payloads]
    /\ readable \in SUBSET Payloads
    /\ row = NothingStored
    /\ held = NoRows
    /\ tasks = [t \in Tasks |-> Idle]
    /\ changes = 0
    /\ wipes = 0

At(t, stage)   == tasks[t].at = stage
Goes(t, task)  == tasks' = [tasks EXCEPT ![t] = task]
OutsideIsSame  == UNCHANGED <<site, readable, changes, wipes>>

\* t ends with a write the others have not seen.
Writes(t) ==
    tasks' = [u \in Tasks |-> IF u = t THEN Idle ELSE [tasks[u] EXCEPT !.alone = FALSE]]

-----------------------------------------------------------------------------
(* One refresh, up to its plan.                                            *)

\* mark_scope_attempt: the record exists from here on.
Begin(t) ==
    /\ At(t, "idle")
    /\ row' = [row EXCEPT !.known = TRUE]
    /\ Goes(t, Task("marked", NoBody, NoTag, Nowhere, FALSE, NoMeta, TRUE))
    /\ OutsideIsSame /\ UNCHANGED held

\* A record that cannot be read counts as nothing stored, rows that cannot
\* be counted as none.
RecordRead == {row, NothingStored}
RowsRead   == {held # NoRows, FALSE}

ReadRecord(t) ==
    /\ At(t, "marked")
    /\ \E seen \in RecordRead :
          Goes(t, Task("read", NoBody, seen.tag, seen.host, seen.degraded, NoMeta,
                       tasks[t].alone))
    /\ OutsideIsSame /\ UNCHANGED <<row, held>>

ConditionalTagAlways(tag, hasRows, bad) == IF hasRows THEN tag ELSE NoTag

\* conditional_etag: no validator without rows to keep, none over rows that
\* only a full body can repair.
ConditionalTag(tag, hasRows, bad) == IF hasRows /\ ~bad THEN tag ELSE NoTag

ReadRows(t) ==
    LET task == tasks[t] IN
    /\ At(t, "read")
    /\ \E hasRows \in RowsRead :
          Goes(t, Task("asking", NoBody, ConditionalTag(task.tag, hasRows, task.bad),
                       task.from, FALSE, NoMeta, task.alone))
    /\ OutsideIsSame /\ UNCHANGED <<row, held>>

Rescued(payload) == payload # NoBody /\ payload \notin readable

\* A host answers, the ones before it having failed. Only the host the record
\* names is sent the validator, and only its match is answered without a body.
Answer(t, h) ==
    LET task    == tasks[t]
        content == site[h]
        matches == task.tag # NoTag /\ task.from = h /\ task.tag = Tag(h, content)
    IN  /\ At(t, "asking")
        /\ \E tag \in {Tag(h, content), NoTag} :
              Goes(t, Task("got", NoBody, NoTag, Nowhere, FALSE,
                           IF matches THEN Meta(NoBody, h, task.tag, FALSE)
                           ELSE Meta(content, h, tag, Signals /\ Rescued(content)),
                           task.alone))
        /\ OutsideIsSame /\ UNCHANGED <<row, held>>

\* plan_scope_refresh reads the record again, then the rows.
Weigh(t) ==
    /\ At(t, "got")
    /\ \E seen \in RecordRead :
          Goes(t, Task("weighed", seen.sha, NoTag, Nowhere, seen.degraded,
                       tasks[t].meta, tasks[t].alone))
    /\ OutsideIsSame /\ UNCHANGED <<row, held>>

Unchanged(meta, sha) == meta.payload = NoBody \/ meta.payload = sha

PlanRefresh(meta, sha, hasRows, bad) ==
    CASE meta.lossy /\ hasRows /\ ~bad -> "reject"
      [] bad /\ ~meta.lossy /\ meta.payload # NoBody -> "rewrite"
      [] OTHER ->
            IF hasRows /\ Unchanged(meta, sha) THEN "skip" ELSE "rewrite"

Plan(t) ==
    LET task == tasks[t] IN
    /\ At(t, "weighed")
    /\ \E hasRows \in RowsRead :
          Goes(t, Task(PlanRefresh(task.meta, task.sha, hasRows, task.bad),
                       NoBody, NoTag, Nowhere, FALSE, task.meta, task.alone))
    /\ OutsideIsSame /\ UNCHANGED <<row, held>>

-----------------------------------------------------------------------------
(* Its end.                                                                *)

RecordOfSkipHashes(meta) ==
    Record(TRUE, IF meta.payload # NoBody THEN meta.payload ELSE row.sha, row.host,
           IF meta.tag # NoTag THEN meta.tag ELSE row.tag,
           row.degraded \/ meta.lossy, ~(row.degraded \/ meta.lossy))

\* commit_unchanged: rows, fingerprint and host stay; a validator that came
\* with the answer is taken. The record stays degraded, becomes so when this
\* answer was lossy, and has a new lifetime otherwise.
RecordOfSkip(meta) ==
    Record(TRUE, row.sha, row.host, IF meta.tag # NoTag THEN meta.tag ELSE row.tag,
           row.degraded \/ meta.lossy, ~(row.degraded \/ meta.lossy))

SkipRewrite(t) ==
    /\ At(t, "skip")
    /\ row' = RecordOfSkip(tasks[t].meta)
    /\ Writes(t)
    /\ OutsideIsSame /\ UNCHANGED held

RecordOfRewrite(meta) ==
    Record(TRUE, meta.payload, meta.host, meta.tag, meta.lossy, ~meta.lossy)

Rewrite(t) ==
    LET meta == tasks[t].meta IN
    /\ At(t, "rewrite")
    /\ row' = RecordOfRewrite(meta)
    /\ held' = Rows(meta.payload, Rescued(meta.payload))
    /\ Writes(t)
    /\ OutsideIsSame

\* No host answers, the payload is refused, or the transaction fails: the
\* error column is all that changes.
Fail(t) ==
    /\ tasks[t].at \in {"asking", "reject", "skip", "rewrite"}
    /\ Goes(t, Idle)
    /\ OutsideIsSame /\ UNCHANGED <<row, held>>

-----------------------------------------------------------------------------
(* Around it.                                                              *)

PageChanges(h, payload) ==
    /\ changes < MaxChanges /\ payload # site[h]
    /\ site' = [site EXCEPT ![h] = payload]
    /\ changes' = changes + 1
    /\ UNCHANGED <<readable, row, held, tasks, wipes>>

\* Another scope's refresh takes the rows (a repository that another
\* publisher's page lists as its own).
RowsLost ==
    /\ held # NoRows /\ wipes < MaxWipes
    /\ held' = NoRows
    /\ wipes' = wipes + 1
    /\ UNCHANGED <<site, readable, row, tasks, changes>>

\* The program ends; its next version may parse more.
Restart ==
    /\ tasks' = [t \in Tasks |-> Idle]
    /\ readable' \in {readable, Payloads}
    /\ UNCHANGED <<site, row, held, changes, wipes>>

RefreshStep(t) ==
    \/ Begin(t) \/ ReadRecord(t) \/ ReadRows(t) \/ (\E h \in Hosts : Answer(t, h))
    \/ Weigh(t) \/ Plan(t) \/ SkipRewrite(t) \/ Rewrite(t) \/ Fail(t)

Next ==
    \/ \E t \in Tasks : RefreshStep(t)
    \/ \E h \in Hosts, payload \in Payloads : PageChanges(h, payload)
    \/ RowsLost
    \/ Restart

Spec == Init /\ [][Next]_vars

-----------------------------------------------------------------------------
Tags   == [host : Hosts, payload : Payloads] \union {NoTag}
Stages == {"idle", "marked", "read", "asking", "got", "weighed", "reject", "skip", "rewrite"}
Metas  == [payload : Payloads \union {NoBody}, host : Hosts \union {Nowhere},
           tag : Tags, lossy : BOOLEAN]
Records == [known : BOOLEAN, sha : Payloads \union {NoBody}, host : Hosts \union {Nowhere},
            tag : Tags, degraded : BOOLEAN, fresh : BOOLEAN]
Refreshes == [at : Stages, sha : Payloads \union {NoBody}, tag : Tags,
              from : Hosts \union {Nowhere}, bad : BOOLEAN, meta : Metas, alone : BOOLEAN]

\* The fields have their types, and every refresh under way has its record.
TypeOK ==
    /\ site \in [Hosts -> Payloads] /\ readable \subseteq Payloads
    /\ row \in Records
    /\ held \in [payload : Payloads \union {NoBody}, lossy : BOOLEAN]
    /\ tasks \in [Tasks -> Refreshes]
    /\ changes \in 0..MaxChanges /\ wipes \in 0..MaxWipes
    /\ \A t \in Tasks : ~At(t, "idle") => row.known

\* Where the parser says that it only rescued, rows it rescued never read as
\* fresh, not even after a refresh that found nothing new
\* (sync_state.rs:125-136).
DegradedIsStale == (Signals /\ held.lossy) \/ row.degraded => ~row.fresh

\* The record's fingerprint is that of the rows in the tables, and rows that
\* were rescued, where the parser says so, are on record as degraded, however
\* refreshes overlap between plan and write (sync_state.rs:138-141).
RecordDescribesRows ==
    held # NoRows => /\ row.sha = held.payload
                     /\ Signals /\ held.lossy => row.degraded

\* A degraded scope has an exit: a refresh that no other refresh disturbs and
\* that ends well leaves it degraded only if its own payload would not parse
\* (sync.rs:185-190, 198-206).
NoSelfLock ==
    [][\A t \in Tasks :
          (SkipRewrite(t) \/ Rewrite(t)) /\ tasks[t].alone /\ row'.degraded
          => tasks[t].meta.lossy]_vars

=============================================================================
