----------------------------- MODULE UpdateState -----------------------------
(***************************************************************************)
(* Who may say that a Skill has an update (update_state.rs, the refresh in *)
(* installed_skill.rs and the updates in git_skill.rs).  Refreshes of all  *)
(* Skills and updates of single Skills run as tasks of one process.  Every *)
(* write gets the next revision; a refresh commits with the revision it    *)
(* began at and loses to whatever was written since.  Each writer then     *)
(* saves the snapshot it took under the store's lock, after releasing it.  *)
(*                                                                         *)
(* What an operation does to a Skill's folder and lock entry is one step   *)
(* here: it runs under the transaction (SkillTransaction).                 *)
(***************************************************************************)
EXTENDS Naturals

CONSTANTS Tracked,       \* Skills of updatable sources that no channel manages
          Refreshes,    \* tasks that check all Skills: patrol, wake, window
          Updates,      \* tasks that update or remove one Skill
          MaxVersion,   \* bound on what an upstream publishes
          MaxInstalls,  \* bound on changes of one Skill's folder
          MaxRevision,  \* bound on writes to the store
          SavesFail     \* whether a snapshot may fail to be written

ASSUME SkillsAssumption == Tracked # {}
ASSUME TasksAssumption  == Refreshes \cap Updates = {}
ASSUME BoundsAssumption == /\ MaxVersion \in Nat \ {0}
                           /\ MaxInstalls \in Nat /\ MaxRevision \in Nat
                           /\ SavesFail \in BOOLEAN

VARIABLES installed,  \* the version the lock records; 0 when there is no entry
          upstream,   \* the newest version of the Skill's source
          badges,     \* Store.states: the Skills with update_available
          written,    \* Stamped.revision of each Skill; 0 when it has no entry
          revision,   \* Store.revision
          saved,      \* skill_update_states.json: the Skills with a badge
          stage,      \* where each task is
          since,      \* the revision a refresh began at
          seen,       \* the lock entries a refresh loaded
          measured,   \* the Skills a refresh got a verdict about
          found,      \* those of them it found an update for
          target,     \* the Skill an update works on ...
          version,    \* ... and the version it fetched
          snapshot,   \* what a task is about to save
          \* History variables:
          gen,        \* how often the Skill's folder has been replaced
          seenGen,    \* gen when the refresh loaded the lock
          doneGen,    \* gen after the update replaced the folder
          about,      \* the gen a refresh's badge is about; 0 for other writers
          cleared,    \* the newest gen whose update has been recorded
          disturbed   \* the Skills that changed in any way during a refresh

world   == <<installed, upstream, gen>>
store   == <<badges, written, revision, about, cleared>>
refresh == <<since, seen, measured, found, seenGen>>
update  == <<target, version, doneGen>>
badgeVars == <<world, store, saved, stage, refresh, update, snapshot, disturbed>>

Tasks    == Refreshes \cup Updates
Versions == 0 .. MaxVersion
AnySkill == CHOOSE n \in Tracked : TRUE
NoSkills == [n \in Tracked |-> 0]

BadgeInit == /\ installed = NoSkills
             /\ upstream  = [n \in Tracked |-> 1]
             /\ badges = {} /\ saved = {}
             /\ written = NoSkills
             /\ revision = 0
             /\ stage = [t \in Tasks |-> "idle"]
             /\ since = [k \in Refreshes |-> 0]
             /\ seen  = [k \in Refreshes |-> NoSkills]
             /\ measured = [k \in Refreshes |-> {}]
             /\ found    = [k \in Refreshes |-> {}]
             /\ target = [u \in Updates |-> AnySkill]
             /\ version = [u \in Updates |-> 0]
             /\ snapshot = [t \in Tasks |-> {}]
             /\ gen     = NoSkills
             /\ seenGen = [k \in Refreshes |-> NoSkills]
             /\ doneGen = [u \in Updates |-> 0]
             /\ about   = NoSkills
             /\ cleared = NoSkills
             /\ disturbed = [k \in Refreshes |-> {}]
-----------------------------------------------------------------------------
GoTo(t, s) == stage' = [stage EXCEPT ![t] = s]

\* Every refresh under way has lived through a change of the Skills of S.
Disturb(S) ==
    disturbed' = [k \in Refreshes |->
        IF stage[k] \in {"idle", "saving"} THEN {} ELSE disturbed[k] \cup S]

\* What a task remembered is gone.
ForgetRefreshes(K) ==
    /\ since' = [k \in Refreshes |-> IF k \in K THEN 0 ELSE since[k]]
    /\ seen'  = [k \in Refreshes |-> IF k \in K THEN NoSkills ELSE seen[k]]
    /\ seenGen'  = [k \in Refreshes |-> IF k \in K THEN NoSkills ELSE seenGen[k]]
    /\ measured' = [k \in Refreshes |-> IF k \in K THEN {} ELSE measured[k]]
    /\ found'    = [k \in Refreshes |-> IF k \in K THEN {} ELSE found[k]]

ForgetUpdates(U) ==
    /\ target'  = [u \in Updates |-> IF u \in U THEN AnySkill ELSE target[u]]
    /\ version' = [u \in Updates |-> IF u \in U THEN 0 ELSE version[u]]
    /\ doneGen' = [u \in Updates |-> IF u \in U THEN 0 ELSE doneGen[u]]

\* record and set_stamped: an authoritative answer of task u about Skill n, as
\* of the replacement numbered g (0: none).
Record(u, n, available, g) ==
    /\ revision < MaxRevision
    /\ revision' = revision + 1
    /\ badges'   = IF available THEN badges \cup {n} ELSE badges \ {n}
    /\ written'  = [written EXCEPT ![n] = revision + 1]
    /\ about'    = [about EXCEPT ![n] = 0]
    /\ cleared'  = [cleared EXCEPT ![n] = IF g > @ THEN g ELSE @]
    /\ snapshot' = [snapshot EXCEPT ![u] = badges']
    /\ GoTo(u, "saving")
    /\ ForgetUpdates({u})
    /\ Disturb({n})

\* The folder of Skill n is replaced or removed.
Replace(n, v) ==
    /\ gen[n] < MaxInstalls
    /\ gen'       = [gen EXCEPT ![n] = @ + 1]
    /\ installed' = [installed EXCEPT ![n] = v]
    /\ Disturb({n})
    /\ UNCHANGED upstream
-----------------------------------------------------------------------------
Publish(n) ==
    /\ upstream[n] < MaxVersion
    /\ upstream' = [upstream EXCEPT ![n] = @ + 1]
    /\ Disturb({n})
    /\ UNCHANGED <<installed, gen, store, saved, stage, refresh, update, snapshot>>

\* An install by the user or by Doctor; neither tells the store.
Install(n) ==
    /\ Replace(n, upstream[n])
    /\ UNCHANGED <<store, saved, stage, refresh, update, snapshot>>

\* refresh_skill_updates_in_session: stamp comes first ...
RefreshBegins(k) ==
    /\ stage[k] = "idle"
    /\ GoTo(k, "begun")
    /\ since' = [since EXCEPT ![k] = revision]
    /\ disturbed' = [disturbed EXCEPT ![k] = {}]
    /\ UNCHANGED <<world, store, saved, seen, measured, found, seenGen, update,
                   snapshot>>

\* ... then the lock is loaded ...
LoadLock(k) ==
    /\ stage[k] = "begun"
    /\ GoTo(k, "loaded")
    /\ seen'    = [seen EXCEPT ![k] = installed]
    /\ seenGen' = [seenGen EXCEPT ![k] = gen]
    /\ UNCHANGED <<world, store, saved, since, measured, found, update, snapshot,
                   disturbed>>

\* ... and the upstreams are asked; those that do not answer keep their state.
CheckUpstream(k, answered) ==
    /\ stage[k] = "loaded"
    /\ answered \subseteq {n \in Tracked : seen[k][n] # 0}
    /\ GoTo(k, "measured")
    /\ measured' = [measured EXCEPT ![k] = answered]
    /\ found'    = [found EXCEPT ![k] = {n \in answered : seen[k][n] # upstream[n]}]
    /\ UNCHANGED <<world, store, saved, since, seen, seenGen, update, snapshot,
                   disturbed>>

\* Mutants: one write too many, and one too few, may go unnoticed.
OvertakenTwice(k, n) == written[n] > since[k] + 1
OvertakenBefore(k, n) == written[n] >= since[k]

Overtaken(k, n) == written[n] > since[k]

\* commit_scan
Commit(k) ==
    /\ stage[k] = "measured"
    /\ revision < MaxRevision
    /\ LET kept == {n \in measured[k] : ~Overtaken(k, n)}
       IN  /\ badges'  = (badges \ kept) \cup (kept \cap found[k])
           /\ written' = [n \in Tracked |-> IF n \in kept THEN revision + 1
                                                         ELSE written[n]]
           /\ about'   = [n \in Tracked |-> IF n \in kept THEN seenGen[k][n]
                                                         ELSE about[n]]
           /\ Disturb(kept)
    /\ revision' = revision + 1
    /\ snapshot' = [snapshot EXCEPT ![k] = badges']
    /\ GoTo(k, "saving")
    /\ ForgetRefreshes({k})
    /\ UNCHANGED <<world, cleared, saved, update>>

\* update_skills: the new content is fetched without any lock ...
FetchUpdate(u, n) ==
    /\ stage[u] = "idle" /\ installed[n] # 0
    /\ GoTo(u, "fetched")
    /\ target'  = [target EXCEPT ![u] = n]
    /\ version' = [version EXCEPT ![u] = upstream[n]]
    /\ UNCHANGED <<world, store, saved, refresh, doneGen, snapshot, disturbed>>

\* ... put in place, if there is still an entry, or refused without a record ...
ApplyUpdate(u) ==
    /\ stage[u] = "fetched"
    /\ \/ /\ installed[target[u]] # 0
          /\ Replace(target[u], version[u])
          /\ doneGen' = [doneGen EXCEPT ![u] = gen'[target[u]]]
          /\ GoTo(u, "applied")
          /\ UNCHANGED <<target, version>>
       \/ /\ GoTo(u, "idle") /\ ForgetUpdates({u})
          /\ UNCHANGED <<world, disturbed>>
    /\ UNCHANGED <<store, saved, refresh, snapshot>>

\* ... or not: upstream removed it (no badge), renamed it, or the folder has
\* edits a background update must keep (badge).
DeclineUpdate(u, available) ==
    /\ stage[u] = "fetched"
    /\ Record(u, target[u], available, 0)
    /\ UNCHANGED <<world, saved, refresh>>

\* remove_hub_skill
Remove(u, n) ==
    /\ stage[u] = "idle" /\ installed[n] # 0
    /\ Replace(n, 0)
    /\ target'  = [target EXCEPT ![u] = n]
    /\ doneGen' = [doneGen EXCEPT ![u] = gen'[n]]
    /\ GoTo(u, "applied")
    /\ UNCHANGED <<store, saved, refresh, version, snapshot>>

\* The folder was replaced or removed, links were refreshed: set(name, false).
ClearBadge(u) ==
    /\ stage[u] = "applied"
    /\ Record(u, target[u], FALSE, doneGen[u])
    /\ UNCHANGED <<world, saved, refresh>>

\* persist; a failed write is only logged.
Persist(t) ==
    /\ stage[t] = "saving"
    /\ \/ saved' = snapshot[t]
       \/ SavesFail /\ UNCHANGED saved
    /\ GoTo(t, "idle")
    /\ snapshot' = [snapshot EXCEPT ![t] = {}]
    /\ UNCHANGED <<world, store, refresh, update, disturbed>>

\* The process ends; the next one hydrates from the snapshot, at revision 0.
Restart ==
    /\ badges' = saved
    /\ written' = NoSkills /\ revision' = 0
    /\ about' = NoSkills /\ cleared' = NoSkills
    /\ stage' = [t \in Tasks |-> "idle"]
    /\ snapshot' = [t \in Tasks |-> {}]
    /\ ForgetRefreshes(Refreshes) /\ ForgetUpdates(Updates)
    /\ Disturb({})
    /\ UNCHANGED <<world, saved>>

BadgeNext == \/ \E n \in Tracked : Publish(n) \/ Install(n)
             \/ \E k \in Refreshes :
                   \/ RefreshBegins(k) \/ LoadLock(k) \/ Commit(k)
                   \/ \E answered \in SUBSET Tracked : CheckUpstream(k, answered)
             \/ \E u \in Updates :
                   \/ ApplyUpdate(u) \/ ClearBadge(u)
                   \/ \E n \in Tracked : FetchUpdate(u, n) \/ Remove(u, n)
                   \/ \E available \in BOOLEAN : DeclineUpdate(u, available)
             \/ \E t \in Tasks : Persist(t)
             \/ Restart

BadgeSpec == BadgeInit /\ [][BadgeNext]_badgeVars
-----------------------------------------------------------------------------
Natural == [Tracked -> Nat]

BadgeTypeOK == /\ installed \in Natural /\ upstream \in Natural
               /\ badges \subseteq Tracked /\ saved \subseteq Tracked
               /\ written \in Natural /\ revision \in Nat
               /\ stage \in [Tasks -> {"idle", "begun", "loaded", "measured",
                                       "fetched", "applied", "saving"}]
               /\ \A k \in Refreshes : found[k] \subseteq measured[k]
               /\ since \in [Refreshes -> Nat]
               /\ seen \in [Refreshes -> Natural] /\ seenGen \in [Refreshes -> Natural]
               /\ measured \in [Refreshes -> SUBSET Tracked]
               /\ found \in [Refreshes -> SUBSET Tracked]
               /\ target \in [Updates -> Tracked]
               /\ version \in [Updates -> Nat] /\ doneGen \in [Updates -> Nat]
               /\ snapshot \in [Tasks -> SUBSET Tracked]
               /\ gen \in Natural /\ about \in Natural /\ cleared \in Natural
               /\ disturbed \in [Refreshes -> SUBSET Tracked]

\* Once an update or a removal has recorded its result, no refresh raises or
\* keeps a badge it measured against the folder that was replaced, however the
\* refresh, other refreshes and other updates interleave (update_state.rs:13, "a
\* refresh that began before a pull must not re-assert the update badge the pull
\* just cleared").
NoRevivedBadge == \A n \in badges : about[n] # 0 => about[n] >= cleared[n]

\* The guard of NoRevivedBadge costs no answer it need not cost: a refresh during
\* which nothing happened to a Skill it measured leaves exactly the right badge.
UndisturbedRefreshIsRight ==
    [][ \A k \in Refreshes : stage[k] = "measured" /\ stage'[k] = "saving" =>
          \A n \in measured[k] \ disturbed[k] :
              n \in badges' <=> installed[n] # upstream[n] ]_badgeVars
=============================================================================
