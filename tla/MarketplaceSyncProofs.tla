----------------------- MODULE MarketplaceSyncProofs -----------------------
(***************************************************************************)
(* Proofs about MarketplaceSync, for any number of overlapping refreshes,  *)
(* hosts and contents, with a parser that says when it only rescued and    *)
(* one that does not: the record always describes the stored rows, rows    *)
(* known to be rescued never read as fresh, a degraded scope gets out.     *)
(***************************************************************************)
EXTENDS MarketplaceSync, TLAPS

USE NowhereIsNoHost, SignalsIsBoolean, BoundsAreNat

\* Nobody changed the record since refresh t began, so while the record is
\* degraded, t saw it so or saw nothing: it asks without a validator, gets a
\* body, and rewrites unless the body is lossy itself.
SeesTheDamage(t) ==
    /\ At(t, "read")    => tasks[t].bad \/ tasks[t].tag = NoTag
    /\ At(t, "asking")  => tasks[t].tag = NoTag
    /\ At(t, "got")     => tasks[t].meta.payload # NoBody
    /\ At(t, "weighed") => /\ tasks[t].meta.payload # NoBody
                           /\ tasks[t].bad \/ tasks[t].sha = NoBody
    /\ At(t, "skip")    => tasks[t].meta.lossy

ExitIsOpen == \A t \in Tasks : tasks[t].alone /\ row.degraded => SeesTheDamage(t)

Described == RecordDescribesRows /\ DegradedIsStale

\* A parser that says so has said so of every payload a refresh holds.
Flagged == \A t \in Tasks :
              Signals /\ Rescued(tasks[t].meta.payload) => tasks[t].meta.lossy

IInv == TypeOK /\ Described /\ ExitIsOpen /\ Flagged
-----------------------------------------------------------------------------
\* What the constructors build, for whoever types their parts.
LEMMA TagShape == NoTag \in Tags /\ NoTag.host = Nowhere
  BY DEF Tags, NoTag, Tag

LEMMA HostTag == ASSUME NEW h \in Hosts, NEW p \in Payloads PROVE Tag(h, p) \in Tags
  BY DEF Tags, Tag

LEMMA MetaShape ==
  ASSUME NEW p \in Payloads \union {NoBody}, NEW h \in Hosts \union {Nowhere},
         NEW tag \in Tags, NEW lossy \in BOOLEAN
  PROVE  /\ Meta(p, h, tag, lossy) \in Metas
         /\ Meta(p, h, tag, lossy).payload = p
         /\ Meta(p, h, tag, lossy).lossy = lossy
  BY DEF Metas, Meta

LEMMA NoMetaShape == NoMeta \in Metas /\ NoMeta.payload = NoBody
  BY TagShape DEF Metas, NoMeta, Meta

LEMMA NothingRescued == ~Rescued(NoBody)
  BY DEF Rescued

LEMMA IdleShape ==
  Idle \in Refreshes /\ Idle.at = "idle" /\ Idle.alone = FALSE /\ Idle.meta = NoMeta
  BY TagShape, NoMetaShape DEF Idle, Task, Refreshes, Stages

LEMMA RecordShape ==
  ASSUME NEW known \in BOOLEAN, NEW sha \in Payloads \union {NoBody},
         NEW host \in Hosts \union {Nowhere}, NEW tag \in Tags,
         NEW degraded \in BOOLEAN, NEW fresh \in BOOLEAN
  PROVE  LET record == Record(known, sha, host, tag, degraded, fresh)
         IN  /\ record \in Records
             /\ record.known = known /\ record.sha = sha /\ record.tag = tag
             /\ record.degraded = degraded /\ record.fresh = fresh
  BY DEF Records, Record

LEMMA NothingShape ==
  /\ NothingStored \in Records
  /\ NothingStored.sha = NoBody /\ NothingStored.tag = NoTag
  BY TagShape, RecordShape DEF NothingStored, Records, Record

LEMMA RowsShape ==
  ASSUME NEW p \in Payloads \union {NoBody}, NEW lossy \in BOOLEAN
  PROVE  /\ Rows(p, lossy) \in [payload : Payloads \union {NoBody}, lossy : BOOLEAN]
         /\ Rows(p, lossy).payload = p /\ Rows(p, lossy).lossy = lossy
  BY DEF Rows

\* The fields of a typed task, record, and of the record a refresh reads.
LEMMA TaskFields ==
  ASSUME NEW task \in Refreshes
  PROVE  /\ task.at \in Stages /\ task.sha \in Payloads \union {NoBody}
         /\ task.tag \in Tags /\ task.from \in Hosts \union {Nowhere}
         /\ task.bad \in BOOLEAN /\ task.meta \in Metas /\ task.alone \in BOOLEAN
         /\ task.meta.payload \in Payloads \union {NoBody}
         /\ task.meta.host \in Hosts \union {Nowhere}
         /\ task.meta.tag \in Tags /\ task.meta.lossy \in BOOLEAN
  BY DEF Refreshes, Metas

LEMMA RecordFields ==
  ASSUME NEW record \in Records
  PROVE  /\ record.known \in BOOLEAN /\ record.sha \in Payloads \union {NoBody}
         /\ record.host \in Hosts \union {Nowhere} /\ record.tag \in Tags
         /\ record.degraded \in BOOLEAN /\ record.fresh \in BOOLEAN
  BY DEF Records

\* A step of one refresh that leaves record and rows alone: its new task has
\* its type, and keeps the exit open, so the invariant stands.
LEMMA StepKeeps ==
  ASSUME IInv, NEW t \in Tasks, NEW task \in Refreshes, Goes(t, task),
         OutsideIsSame, UNCHANGED <<row, held>>, ~At(t, "idle"),
         task.alone /\ row.degraded =>
            /\ task.at = "read"    => task.bad \/ task.tag = NoTag
            /\ task.at = "asking"  => task.tag = NoTag
            /\ task.at = "got"     => task.meta.payload # NoBody
            /\ task.at = "weighed" => /\ task.meta.payload # NoBody
                                      /\ task.bad \/ task.sha = NoBody
            /\ task.at = "skip"    => task.meta.lossy,
         Signals /\ Rescued(task.meta.payload) => task.meta.lossy
  PROVE  IInv'
  <1>1. /\ tasks' \in [Tasks -> Refreshes] /\ tasks'[t] = task
        /\ \A u \in Tasks \ {t} : tasks'[u] = tasks[u]
    BY DEF IInv, TypeOK, Goes
  <1>2. TypeOK'
    BY <1>1 DEF IInv, TypeOK, OutsideIsSame, At
  <1>3. Described'
    BY DEF IInv, Described, RecordDescribesRows, DegradedIsStale, NoRows
  <1>4. ExitIsOpen'
    BY <1>1 DEF IInv, ExitIsOpen, SeesTheDamage, At
  <1>5. Flagged'
    BY <1>1 DEF IInv, Flagged, Rescued, OutsideIsSame
  <1> QED
    BY <1>2, <1>3, <1>4, <1>5 DEF IInv

\* The end of a refresh that writes: everyone else is no longer alone.
LEMMA WriteKeeps ==
  ASSUME IInv, NEW t \in Tasks, Writes(t), OutsideIsSame,
         row' \in Records, row'.known,
         held' \in [payload : Payloads \union {NoBody}, lossy : BOOLEAN],
         Described'
  PROVE  IInv'
  <1>1. \A u \in Tasks : tasks[u] \in Refreshes
    BY DEF IInv, TypeOK
  <1>2. \A u \in Tasks : /\ [tasks[u] EXCEPT !.alone = FALSE] \in Refreshes
                         /\ [tasks[u] EXCEPT !.alone = FALSE].alone = FALSE
    BY <1>1 DEF Refreshes
  <1>3. \A u \in Tasks : tasks'[u] \in Refreshes /\ tasks'[u].alone = FALSE
    BY <1>2, IdleShape DEF Writes
  <1>4. tasks' \in [Tasks -> Refreshes]
    BY <1>3 DEF Writes
  <1>5. TypeOK'
    BY <1>4 DEF IInv, TypeOK, OutsideIsSame
  <1>6. ExitIsOpen'
    BY <1>3 DEF ExitIsOpen
  <1>7. \A u \in Tasks : tasks'[u].meta = tasks[u].meta \/ tasks'[u].meta = NoMeta
    BY <1>1, IdleShape DEF Writes, Refreshes
  <1>8. Flagged'
    BY <1>7, NoMetaShape DEF IInv, Flagged, Rescued, OutsideIsSame
  <1> QED
    BY <1>5, <1>6, <1>8 DEF IInv
-----------------------------------------------------------------------------
LEMMA BeginKeeps == ASSUME IInv, NEW t \in Tasks, Begin(t) PROVE IInv'
  <1> DEFINE task == Task("marked", NoBody, NoTag, Nowhere, FALSE, NoMeta, TRUE)
  <1>1. task \in Refreshes /\ task.at = "marked" /\ task.meta = NoMeta
    BY TagShape, NoMetaShape DEF Task, Refreshes, Stages
  <1>2. /\ tasks' \in [Tasks -> Refreshes] /\ tasks'[t].at = "marked"
        /\ tasks'[t].meta = NoMeta
        /\ \A u \in Tasks \ {t} : tasks'[u] = tasks[u]
    BY <1>1 DEF IInv, TypeOK, Begin, Goes
  <1>3. /\ row' \in Records /\ row'.known = TRUE /\ row'.sha = row.sha
        /\ row'.degraded = row.degraded /\ row'.fresh = row.fresh
    BY DEF IInv, TypeOK, Begin, Records
  <1>4. TypeOK'
    BY <1>2, <1>3 DEF IInv, TypeOK, Begin, OutsideIsSame
  <1>5. Described'
    BY <1>3 DEF IInv, Described, RecordDescribesRows, DegradedIsStale, NoRows, Begin
  <1>6. ExitIsOpen'
    BY <1>2, <1>3 DEF IInv, ExitIsOpen, SeesTheDamage, At
  <1>7. Flagged'
    BY <1>2, NoMetaShape DEF IInv, Flagged, Rescued, Begin, OutsideIsSame
  <1> QED
    BY <1>4, <1>5, <1>6, <1>7 DEF IInv

LEMMA ReadRecordKeeps == ASSUME IInv, NEW t \in Tasks, ReadRecord(t) PROVE IInv'
  <1>1. tasks[t] \in Refreshes /\ row \in Records
    BY DEF IInv, TypeOK
  <1>2. PICK seen \in RecordRead :
           Goes(t, Task("read", NoBody, seen.tag, seen.host, seen.degraded, NoMeta,
                        tasks[t].alone))
    BY DEF ReadRecord
  <1>3. seen \in Records /\ (seen = row \/ seen.tag = NoTag)
    BY <1>1, <1>2, NothingShape DEF RecordRead
  <1> DEFINE task == Task("read", NoBody, seen.tag, seen.host, seen.degraded, NoMeta,
                          tasks[t].alone)
  <1>4. /\ task \in Refreshes /\ task.at = "read" /\ task.tag = seen.tag
        /\ task.bad = seen.degraded /\ task.meta = NoMeta
    BY <1>1, <1>3, TaskFields, RecordFields, NoMetaShape DEF Task, Refreshes, Stages
  <1> QED
    BY <1>2, <1>3, <1>4, StepKeeps, NoMetaShape, NothingRescued DEF ReadRecord, At

LEMMA ReadRowsKeeps == ASSUME IInv, NEW t \in Tasks, ReadRows(t) PROVE IInv'
  <1>1. tasks[t] \in Refreshes
    BY DEF IInv, TypeOK
  <1>2. PICK hasRows \in RowsRead :
           Goes(t, Task("asking", NoBody, ConditionalTag(tasks[t].tag, hasRows, tasks[t].bad),
                        tasks[t].from, FALSE, NoMeta, tasks[t].alone))
    BY DEF ReadRows
  <1> DEFINE tag  == ConditionalTag(tasks[t].tag, hasRows, tasks[t].bad)
             task == Task("asking", NoBody, tag, tasks[t].from, FALSE, NoMeta, tasks[t].alone)
  <1>3. tag \in Tags
    BY <1>1, TagShape, TaskFields DEF ConditionalTag
  <1>4. tasks[t].bad \/ tasks[t].tag = NoTag => tag = NoTag
    BY DEF ConditionalTag
  <1>5. /\ task \in Refreshes /\ task.at = "asking" /\ task.tag = tag
        /\ task.alone = tasks[t].alone /\ task.meta = NoMeta
    BY <1>1, <1>3, TaskFields, NoMetaShape DEF Task, Refreshes, Stages
  <1>6. tasks[t].alone /\ row.degraded => tasks[t].bad \/ tasks[t].tag = NoTag
    BY DEF IInv, ExitIsOpen, SeesTheDamage, ReadRows
  <1>7. OutsideIsSame /\ UNCHANGED <<row, held>> /\ ~At(t, "idle")
    BY DEF ReadRows, At
  <1> HIDE DEF task, tag
  <1>8. Goes(t, task)
    BY <1>2 DEF task, tag
  <1> QED
    BY <1>4, <1>5, <1>6, <1>7, <1>8, StepKeeps, NoMetaShape, NothingRescued

LEMMA AnswerKeeps ==
  ASSUME IInv, NEW t \in Tasks, NEW h \in Hosts, Answer(t, h) PROVE IInv'
  <1> DEFINE content == site[h]
             matches == tasks[t].tag # NoTag /\ tasks[t].from = h
                        /\ tasks[t].tag = Tag(h, content)
  <1>1. tasks[t] \in Refreshes /\ content \in Payloads
    BY DEF IInv, TypeOK
  <1>2. PICK tag \in {Tag(h, content), NoTag} :
           Goes(t, Task("got", NoBody, NoTag, Nowhere, FALSE,
                        IF matches THEN Meta(NoBody, h, tasks[t].tag, FALSE)
                        ELSE Meta(content, h, tag, Signals /\ Rescued(content)),
                        tasks[t].alone))
    BY DEF Answer
  <1> DEFINE meta == IF matches THEN Meta(NoBody, h, tasks[t].tag, FALSE)
                     ELSE Meta(content, h, tag, Signals /\ Rescued(content))
             task == Task("got", NoBody, NoTag, Nowhere, FALSE, meta, tasks[t].alone)
  <1>3. tag \in Tags
    BY <1>1, <1>2, TagShape, HostTag
  <1>4. Meta(NoBody, h, tasks[t].tag, FALSE) \in Metas
    BY <1>1, MetaShape, TaskFields
  <1>5. /\ Meta(content, h, tag, Signals /\ Rescued(content)) \in Metas
        /\ Meta(content, h, tag, Signals /\ Rescued(content)).payload = content
        /\ Meta(content, h, tag, Signals /\ Rescued(content)).lossy = (Signals /\ Rescued(content))
    <2>1. (Signals /\ Rescued(content)) \in BOOLEAN
      BY DEF Rescued
    <2> QED
      BY <1>1, <1>3, <2>1, MetaShape
  <1>6. meta \in Metas /\ (tasks[t].tag = NoTag => meta.payload = content)
    BY <1>4, <1>5
  <1>12. Signals /\ Rescued(meta.payload) => meta.lossy
    <2>1. CASE matches
      BY <2>1, NothingRescued DEF Meta
    <2>2. CASE ~matches
      BY <2>2, <1>5
    <2> QED
      BY <2>1, <2>2
  <1> HIDE DEF content, meta
  <1>7. /\ task \in Refreshes /\ task.at = "got" /\ task.meta = meta
        /\ task.alone = tasks[t].alone
    BY <1>1, <1>6, TaskFields, TagShape DEF Task, Refreshes, Stages
  <1>8. tasks[t].alone /\ row.degraded => tasks[t].tag = NoTag
    BY DEF IInv, ExitIsOpen, SeesTheDamage, Answer
  <1>9. OutsideIsSame /\ UNCHANGED <<row, held>> /\ ~At(t, "idle")
    BY DEF Answer, At
  <1>10. Goes(t, task)
    BY <1>2 DEF meta, content
  <1>11. content # NoBody
    BY <1>1 DEF Payloads, NoBody
  <1> HIDE DEF task
  <1> QED
    BY <1>6, <1>7, <1>8, <1>9, <1>10, <1>11, <1>12, StepKeeps

LEMMA WeighKeeps == ASSUME IInv, NEW t \in Tasks, Weigh(t) PROVE IInv'
  <1>1. tasks[t] \in Refreshes /\ row \in Records
    BY DEF IInv, TypeOK
  <1>2. PICK seen \in RecordRead :
           Goes(t, Task("weighed", seen.sha, NoTag, Nowhere, seen.degraded,
                        tasks[t].meta, tasks[t].alone))
    BY DEF Weigh
  <1> DEFINE task == Task("weighed", seen.sha, NoTag, Nowhere, seen.degraded,
                          tasks[t].meta, tasks[t].alone)
  <1>3. seen \in Records /\ (seen = row \/ seen.sha = NoBody)
    BY <1>1, <1>2, NothingShape DEF RecordRead
  <1>4. /\ task \in Refreshes /\ task.at = "weighed" /\ task.sha = seen.sha
        /\ task.bad = seen.degraded /\ task.meta = tasks[t].meta
        /\ task.alone = tasks[t].alone
    BY <1>1, <1>3, TaskFields, RecordFields, TagShape DEF Task, Refreshes, Stages
  <1>5. tasks[t].alone /\ row.degraded => tasks[t].meta.payload # NoBody
    BY DEF IInv, ExitIsOpen, SeesTheDamage, Weigh
  <1>6. OutsideIsSame /\ UNCHANGED <<row, held>> /\ ~At(t, "idle") /\ Goes(t, task)
    BY <1>2 DEF Weigh, At
  <1>7. Signals /\ Rescued(task.meta.payload) => task.meta.lossy
    BY <1>4 DEF IInv, Flagged
  <1> HIDE DEF task
  <1> QED
    BY <1>3, <1>4, <1>5, <1>6, <1>7, StepKeeps

LEMMA PlanKeeps == ASSUME IInv, NEW t \in Tasks, Plan(t) PROVE IInv'
  <1>1. tasks[t] \in Refreshes
    BY DEF IInv, TypeOK
  <1>2. PICK hasRows \in RowsRead :
           Goes(t, Task(PlanRefresh(tasks[t].meta, tasks[t].sha, hasRows, tasks[t].bad),
                        NoBody, NoTag, Nowhere, FALSE, tasks[t].meta, tasks[t].alone))
    BY DEF Plan
  <1> DEFINE plan == PlanRefresh(tasks[t].meta, tasks[t].sha, hasRows, tasks[t].bad)
             task == Task(plan, NoBody, NoTag, Nowhere, FALSE, tasks[t].meta,
                          tasks[t].alone)
  <1>3. plan \in {"reject", "rewrite", "skip"}
    BY DEF PlanRefresh
  <1>4. \* identical bytes, or none, do not excuse a record that was seen damaged
        /\ plan = "skip" /\ tasks[t].meta.payload # NoBody
        /\ tasks[t].bad \/ tasks[t].sha = NoBody
        => tasks[t].meta.lossy
    BY DEF PlanRefresh, Unchanged
  <1> HIDE DEF plan
  <1>5. /\ task \in Refreshes /\ task.at = plan /\ task.meta = tasks[t].meta
        /\ task.alone = tasks[t].alone
    BY <1>1, <1>3, TaskFields, TagShape DEF Task, Refreshes, Stages
  <1>6. tasks[t].alone /\ row.degraded => /\ tasks[t].meta.payload # NoBody
                                          /\ tasks[t].bad \/ tasks[t].sha = NoBody
    BY DEF IInv, ExitIsOpen, SeesTheDamage, Plan
  <1>7. OutsideIsSame /\ UNCHANGED <<row, held>> /\ ~At(t, "idle") /\ Goes(t, task)
    BY <1>2 DEF Plan, At, plan
  <1>8. Signals /\ Rescued(task.meta.payload) => task.meta.lossy
    BY <1>5 DEF IInv, Flagged
  <1> HIDE DEF task
  <1> QED
    BY <1>3, <1>4, <1>5, <1>6, <1>7, <1>8, StepKeeps

LEMMA SkipRewriteKeeps == ASSUME IInv, NEW t \in Tasks, SkipRewrite(t) PROVE IInv'
  <1> DEFINE bad == row.degraded \/ tasks[t].meta.lossy
  <1>1. tasks[t] \in Refreshes /\ row \in Records
    BY DEF IInv, TypeOK
  <1>2. /\ row' \in Records /\ row'.known /\ row'.sha = row.sha
        /\ row'.degraded = bad /\ row'.fresh = ~bad
    BY <1>1, TaskFields, RecordFields DEF SkipRewrite, RecordOfSkip, Record, Records
  <1>3. held' = held
    BY DEF SkipRewrite
  <1>4. RecordDescribesRows'
    BY <1>2, <1>3 DEF IInv, Described, RecordDescribesRows, NoRows, Rows
  <1>5. Signals /\ held.lossy => row.degraded
    BY RowsShape DEF IInv, Described, RecordDescribesRows, NoRows
  <1>6. DegradedIsStale'
    <2>1. row'.degraded => ~row'.fresh
      BY <1>2
    <2>2. Signals /\ held'.lossy => row'.degraded
      BY <1>2, <1>3, <1>5
    <2> QED
      BY <2>1, <2>2 DEF DegradedIsStale
  <1>7. held' \in [payload : Payloads \union {NoBody}, lossy : BOOLEAN]
    BY <1>3 DEF IInv, TypeOK
  <1> QED
    BY <1>2, <1>4, <1>6, <1>7, WriteKeeps DEF SkipRewrite, Described

LEMMA RewriteKeeps == ASSUME IInv, NEW t \in Tasks, Rewrite(t) PROVE IInv'
  <1>1. tasks[t] \in Refreshes
    BY DEF IInv, TypeOK
  <1> DEFINE meta == tasks[t].meta
  <1>2. /\ row' \in Records /\ row'.known /\ row'.sha = meta.payload
        /\ row'.degraded = meta.lossy /\ row'.fresh = ~meta.lossy
    BY <1>1, TaskFields DEF Rewrite, RecordOfRewrite, Record, Records
  <1>3. Rescued(meta.payload) \in BOOLEAN
    BY DEF Rescued
  <1>4. /\ held' \in [payload : Payloads \union {NoBody}, lossy : BOOLEAN]
        /\ held'.payload = meta.payload /\ held'.lossy = Rescued(meta.payload)
    BY <1>1, <1>3, TaskFields, RowsShape DEF Rewrite
  <1>5. Signals /\ Rescued(meta.payload) => meta.lossy
    BY DEF IInv, Flagged
  <1>6. RecordDescribesRows'
    BY <1>2, <1>4, <1>5 DEF RecordDescribesRows
  <1>7. DegradedIsStale'
    BY <1>2, <1>4, <1>5 DEF DegradedIsStale
  <1> QED
    BY <1>2, <1>4, <1>6, <1>7, WriteKeeps DEF Rewrite, Described

LEMMA FailKeeps == ASSUME IInv, NEW t \in Tasks, Fail(t) PROVE IInv'
  BY IdleShape, StepKeeps, NoMetaShape, NothingRescued DEF Fail, At
-----------------------------------------------------------------------------
LEMMA AroundKeeps ==
  ASSUME IInv, RowsLost \/ Restart \/ \E h \in Hosts, p \in Payloads : PageChanges(h, p)
  PROVE  IInv'
  <1>1. CASE \E h \in Hosts, p \in Payloads : PageChanges(h, p)
    <2>1. TypeOK'
      BY <1>1 DEF IInv, TypeOK, PageChanges, At
    <2> QED
      BY <1>1, <2>1 DEF IInv, Described, RecordDescribesRows, DegradedIsStale, NoRows,
                        ExitIsOpen, SeesTheDamage, Flagged, Rescued, At, PageChanges
  <1>2. CASE RowsLost
    <2>1. /\ held' \in [payload : Payloads \union {NoBody}, lossy : BOOLEAN]
          /\ held'.lossy = FALSE
      BY <1>2, RowsShape DEF RowsLost, NoRows
    <2>2. TypeOK'
      BY <1>2, <2>1 DEF IInv, TypeOK, RowsLost, At
    <2>3. Described'
      BY <1>2, <2>1 DEF IInv, Described, RecordDescribesRows, DegradedIsStale, RowsLost, NoRows
    <2> QED
      BY <1>2, <2>2, <2>3 DEF IInv, ExitIsOpen, SeesTheDamage, Flagged, Rescued, At, RowsLost
  <1>3. CASE Restart
    <2>1. tasks' \in [Tasks -> Refreshes] /\ \A t \in Tasks : tasks'[t] = Idle
      BY <1>3, IdleShape DEF Restart
    <2>2. TypeOK'
      BY <1>3, <2>1, IdleShape DEF IInv, TypeOK, Restart, At
    <2>3. Described'
      BY <1>3 DEF IInv, Described, RecordDescribesRows, DegradedIsStale, Restart, NoRows
    <2>4. ExitIsOpen'
      BY <2>1, IdleShape DEF ExitIsOpen
    <2>5. Flagged'
      BY <2>1, IdleShape, NoMetaShape DEF Flagged, Rescued
    <2> QED
      BY <2>2, <2>3, <2>4, <2>5 DEF IInv
  <1> QED
    BY <1>1, <1>2, <1>3

LEMMA InitHolds == ASSUME Init PROVE IInv
  <1>1. /\ held \in [payload : Payloads \union {NoBody}, lossy : BOOLEAN]
        /\ held.lossy = FALSE /\ held = NoRows
    BY RowsShape DEF Init, NoRows
  <1>2. row \in Records /\ row.degraded = FALSE
    BY TagShape DEF Init, NothingStored, Record, Records
  <1>3. TypeOK
    BY <1>1, <1>2, IdleShape DEF Init, TypeOK, At
  <1>4. Described
    BY <1>1, <1>2 DEF Described, RecordDescribesRows, DegradedIsStale
  <1>5. ExitIsOpen
    BY <1>2 DEF ExitIsOpen
  <1>6. Flagged
    BY IdleShape, NoMetaShape DEF Init, Flagged, Rescued
  <1> QED
    BY <1>3, <1>4, <1>5, <1>6 DEF IInv

LEMMA NextKeeps == ASSUME IInv, [Next]_vars PROVE IInv'
  <1>1. ASSUME NEW t \in Tasks, RefreshStep(t) PROVE IInv'
    BY <1>1, BeginKeeps, ReadRecordKeeps, ReadRowsKeeps, AnswerKeeps, WeighKeeps,
       PlanKeeps, SkipRewriteKeeps, RewriteKeeps, FailKeeps DEF RefreshStep
  <1>2. CASE UNCHANGED vars
    BY <1>2 DEF vars, IInv, TypeOK, Described, RecordDescribesRows, DegradedIsStale, NoRows,
                ExitIsOpen, SeesTheDamage, Flagged, Rescued, At
  <1> QED
    BY <1>1, <1>2, AroundKeeps DEF Next

LEMMA InvariantHolds == Spec => []IInv
  BY InitHolds, NextKeeps, PTL DEF Spec
-----------------------------------------------------------------------------
\* Record, rows and refreshes keep their types, and no refresh is under way
\* without a record.
THEOREM TypeCorrect == Spec => []TypeOK
  BY InvariantHolds, PTL DEF IInv

\* Whatever refreshes overlap, the record's fingerprint is that of the stored
\* rows, and rows its parser owned to have rescued are on record as degraded.
THEOREM RecordStaysTrue == Spec => []RecordDescribesRows
  BY InvariantHolds, PTL DEF IInv, Described

\* Rows on record as degraded, and rows a parser that says so has rescued,
\* never read as fresh.
THEOREM RescuedStaysStale == Spec => []DegradedIsStale
  BY InvariantHolds, PTL DEF IInv, Described

\* A refresh nobody disturbed leaves the scope degraded only if its own
\* payload would not parse.
THEOREM ExitStaysOpen == Spec => NoSelfLock
  <1> DEFINE Step == \A t \in Tasks :
                (SkipRewrite(t) \/ Rewrite(t)) /\ tasks[t].alone /\ row'.degraded
                => tasks[t].meta.lossy
  <1>1. ASSUME IInv, Next PROVE Step
    <2> SUFFICES ASSUME NEW t \in Tasks, SkipRewrite(t) \/ Rewrite(t), tasks[t].alone,
                        row'.degraded
                 PROVE  tasks[t].meta.lossy
      OBVIOUS
    <2>1. CASE SkipRewrite(t)
      <3>1. row'.degraded = (row.degraded \/ tasks[t].meta.lossy)
        BY <2>1 DEF SkipRewrite, RecordOfSkip, Record
      <3> QED
        BY <1>1, <2>1, <3>1 DEF IInv, ExitIsOpen, SeesTheDamage, SkipRewrite
    <2>2. CASE Rewrite(t)
      BY <2>2 DEF Rewrite, RecordOfRewrite, Record
    <2> QED
      BY <2>1, <2>2
  <1>2. IInv /\ [Next]_vars => [Step]_vars
    BY <1>1
  <1> QED
    BY <1>2, InvariantHolds, PTL DEF Spec, NoSelfLock
=============================================================================
