---------------------------- MODULE ChannelPublish ----------------------------
(***************************************************************************)
(* Publishing a release of a shared channel (shared_channels/release.rs    *)
(* and the publication half of shared_channels/github.rs).  A publisher    *)
(* scans the default branch into a preview, reviews it and publishes it.   *)
(* Revisions are numbered by the tags of the repository, which are never   *)
(* moved or deleted; what subscribers see are the GitHub releases made on  *)
(* them.  Several publishers work on one repository, and the only thing    *)
(* they share is GitHub: every question to it is a step of its own.        *)
(*                                                                         *)
(* A publisher here is one session ID of one process.  A process that dies *)
(* is a publisher none of whose tasks takes another step.                  *)
(***************************************************************************)
EXTENDS FiniteSetsExt

CONSTANTS Publishers,   \* sessions of people who may push to the repository
          Offered, Payloads,
          MaxCommits,   \* bound on the commits of the default branch
          MaxScans      \* bound on the scans of all sessions together

ASSUME PayloadsAssumption == "none" \notin Payloads
ASSUME PublishersAssumption == "nobody" \notin Publishers
ASSUME BoundsAssumption   == MaxCommits \in Nat \ {0} /\ MaxScans \in Nat

VARIABLES branch,    \* the trees of the default branch, by commit
          tags,      \* the manifests of the revision tags, by revision
          released,  \* the revisions that have a release
          sessions,  \* PublishSessionStore.sessions
          counter,   \* next_generation: only sessions compare generations, so
                     \* one counter serves the processes of all publishers
          owner,     \* the publisher each generation was reserved by
          scans,     \* the scan of each generation; one that was outdated runs on
          publish,   \* the publication of each generation
          ended      \* history: the generations that were cancelled or cleared

publishVars == <<branch, tags, released, sessions, counter, owner, scans, publish, ended>>

Generations == 1 .. MaxScans
Trees       == [Offered -> Payloads \cup {"none"}]

(* The newest of the revisions that have a release, 0 if there is none. *)
IsLatest(r) == r \in released \cup {0} /\ \A s \in released : s <= r

(* An entry of a manifest; a Skill the manifest does not name is absent. *)
Entry(content, status) == [content |-> content, status |-> status]

Entries == [content : Payloads \cup {"none"},
            status  : {"absent", "added", "updated", "unchanged", "removed"}]

NoEntries == [s \in Offered |-> Entry("none", "absent")]

(* What the user reviews and then publishes. *)
Preview(commit, next, skills) == [commit |-> commit, next |-> next, skills |-> skills]

NoPreview == Preview(0, 0, NoEntries)

Session(is, gen, preview) == [is |-> is, gen |-> gen, preview |-> preview]

NoSession == Session("none", 0, NoPreview)

(* Where a task is, the latest release it saw while that matters, and its *)
(* preview.                                                               *)
Task(at, latest, preview) == [at |-> at, latest |-> latest, preview |-> preview]

Resting == Task("idle", 0, NoPreview)
-----------------------------------------------------------------------------
PublishInit == /\ branch \in [{1} -> Trees]
               /\ tags = <<>> /\ released = {}
               /\ sessions = [p \in Publishers |-> NoSession]
               /\ counter = 0 /\ owner = [g \in Generations |-> "nobody"]
               /\ scans = [g \in Generations |-> Resting]
               /\ publish = [g \in Generations |-> Resting]
               /\ ended = {}

Head == Max(DOMAIN branch)

(* build_changes: the entries of a tree, given those of the previous release *)
Inherited(entry) == IF entry.status = "removed" THEN "none" ELSE entry.content

Changed(new, old) ==
   IF new = "none"
      THEN IF old = "none" THEN Entry("none", "absent") ELSE Entry(old, "removed")
      ELSE Entry(new, IF old = "none" THEN "added"
                                      ELSE IF old = new THEN "unchanged" ELSE "updated")

BuildChanges(tree, latest) ==
   LET previous == IF latest = 0 THEN NoEntries ELSE tags[latest].skills
   IN  [s \in Offered |-> Changed(tree[s], Inherited(previous[s]))]

(* next_revision, of what the releases and the tags show *)
NextRevision(latest) == Max({latest} \cup DOMAIN tags) + 1

(* The session is still the one that was reserved under this generation. *)
InSession(g, phases) ==
   sessions[owner[g]].is \in phases /\ sessions[owner[g]].gen = g

SessionIs(p, session) == sessions' = [sessions EXCEPT ![p] = session]
ScanIs(g, task)       == scans' = [scans EXCEPT ![g] = task]
PublishIs(g, task)    == publish' = [publish EXCEPT ![g] = task]
-----------------------------------------------------------------------------
(* Scanning a preview.                                                     *)

Reserve(p) ==
   /\ sessions[p].is = "none" /\ counter < MaxScans
   /\ counter' = counter + 1
   /\ SessionIs(p, Session("scanning", counter + 1, NoPreview))
   /\ owner' = [owner EXCEPT ![counter + 1] = p]
   /\ ScanIs(counter + 1, Task("reserved", 0, NoPreview))
   /\ UNCHANGED <<branch, tags, released, publish, ended>>

ScanMoves(g, at, latest, preview) ==
   /\ ScanIs(g, Task(at, latest, preview))
   /\ UNCHANGED <<branch, tags, released, sessions, counter, owner, publish, ended>>

(* The session is asked for once more, and the default branch is cloned. *)
Clone(g) ==
   /\ scans[g].at = "reserved" /\ InSession(g, {"scanning"})
   /\ ScanMoves(g, "cloned", 0, Preview(Head, 0, NoEntries))

ScanChecksHead(g) ==
   /\ scans[g].at = "cloned" /\ Head = scans[g].preview.commit
   /\ ScanMoves(g, "checked", 0, scans[g].preview)

ScanReadsReleases(g) ==
   /\ scans[g].at = "checked"
   /\ \E latest \in released \cup {0} :
         IsLatest(latest) /\ ScanMoves(g, "compared", latest, scans[g].preview)

ScanReadsTags(g) ==
   /\ scans[g].at = "compared"
   /\ LET commit == scans[g].preview.commit
      IN  ScanMoves(g, "scanned", 0,
                    Preview(commit, NextRevision(scans[g].latest),
                            BuildChanges(branch[commit], scans[g].latest)))

Complete(g) ==
   /\ scans[g].at = "scanned" /\ InSession(g, {"scanning"})
   /\ SessionIs(owner[g], Session("preview", g, scans[g].preview))
   /\ ScanIs(g, Resting)
   /\ UNCHANGED <<branch, tags, released, counter, owner, publish, ended>>

(* A question failed, the branch has moved on, or the session is no longer *)
(* this scan's; abandon then drops the session if it still is.             *)
ScanFails(g) ==
   /\ scans[g].at # "idle"
   /\ scans[g].at = "scanned" => ~InSession(g, {"scanning"})
   /\ IF InSession(g, {"scanning", "cancelled"}) THEN SessionIs(owner[g], NoSession)
                                                 ELSE UNCHANGED sessions
   /\ ScanIs(g, Resting)
   /\ UNCHANGED <<branch, tags, released, counter, owner, publish, ended>>
-----------------------------------------------------------------------------
(* Publishing what was reviewed.                                           *)

Claim(p) ==
   /\ sessions[p].is = "preview"
   /\ SessionIs(p, Session("publishing", sessions[p].gen, sessions[p].preview))
   /\ PublishIs(sessions[p].gen, Task("claimed", 0, sessions[p].preview))
   /\ UNCHANGED <<branch, tags, released, counter, owner, scans, ended>>

Moves(g, at, latest) ==
   /\ PublishIs(g, Task(at, latest, publish[g].preview))
   /\ UNCHANGED <<branch, sessions, counter, owner, scans, ended>>

(* Mutant: publish_claimed trusts the head the preview was made from. *)
PublishTrustsHead(g) ==
   /\ publish[g].at = "claimed"
   /\ Moves(g, "checked", 0)
   /\ UNCHANGED <<tags, released>>

PublishChecksHead(g) ==
   /\ publish[g].at = "claimed" /\ Head = publish[g].preview.commit
   /\ Moves(g, "checked", 0)
   /\ UNCHANGED <<tags, released>>

PublishReadsReleases(g) ==
   /\ publish[g].at = "checked"
   /\ \E latest \in released \cup {0} : IsLatest(latest) /\ Moves(g, "compared", latest)
   /\ UNCHANGED <<tags, released>>

(* Mutant: publish_claimed takes the next free revision instead of comparing. *)
PublishRenumbers(g) ==
   /\ publish[g].at = "compared"
   /\ PublishIs(g, Task("numbered", 0, Preview(publish[g].preview.commit,
                                               NextRevision(publish[g].latest),
                                               publish[g].preview.skills)))
   /\ UNCHANGED <<branch, tags, released, sessions, counter, owner, scans, ended>>

PublishReadsTags(g) ==
   /\ publish[g].at = "compared"
   /\ NextRevision(publish[g].latest) = publish[g].preview.next
   /\ Moves(g, "numbered", 0)
   /\ UNCHANGED <<tags, released>>

Manifest(g) == [commit |-> publish[g].preview.commit,
                skills |-> publish[g].preview.skills, gen |-> g]

MakeTag(g) ==
   /\ publish[g].at = "numbered" /\ publish[g].preview.next \notin DOMAIN tags
   /\ tags' = [r \in DOMAIN tags \cup {publish[g].preview.next} |->
                  IF r \in DOMAIN tags THEN tags[r] ELSE Manifest(g)]
   /\ UNCHANGED released

MakeRelease(g) ==
   /\ publish[g].at = "tagged"
   /\ released' = released \cup {publish[g].preview.next}
   /\ UNCHANGED tags

Restored(g) ==
   IF InSession(g, {"publishing"})
      THEN SessionIs(owner[g], Session("preview", g, publish[g].preview))
      ELSE UNCHANGED sessions

CreateTag(g) == MakeTag(g) /\ Moves(g, "tagged", 0)

CreateRelease(g) ==
   /\ MakeRelease(g)
   /\ IF InSession(g, {"publishing"}) THEN SessionIs(owner[g], NoSession)
                                     ELSE UNCHANGED sessions
   /\ PublishIs(g, Resting)
   /\ UNCHANGED <<branch, counter, owner, scans, ended>>

(* The answer says no or never comes: a tag or a release may be there all *)
(* the same.  The preview goes back to the session.                       *)
PublishFails(g) ==
   /\ publish[g].at # "idle"
   /\ \/ MakeTag(g)
      \/ MakeRelease(g)
      \/ UNCHANGED <<tags, released>>
   /\ Restored(g)
   /\ PublishIs(g, Resting)
   /\ UNCHANGED <<branch, counter, owner, scans, ended>>
-----------------------------------------------------------------------------
(* The user and the repository.                                            *)

Ends(p, session) ==
   /\ SessionIs(p, session)
   /\ ended' = ended \cup {sessions[p].gen}
   /\ UNCHANGED <<branch, tags, released, counter, owner, scans, publish>>

Cancel(p) ==
   \/ /\ sessions[p].is \in {"scanning", "cancelled"}
      /\ Ends(p, Session("cancelled", sessions[p].gen, NoPreview))
   \/ /\ sessions[p].is = "preview"
      /\ Ends(p, NoSession)

(* clear: the publisher logs out of GitHub *)
Clear(p) == sessions[p].is # "none" /\ Ends(p, NoSession)

(* A preview nobody touched for half an hour; reserve and claim drop it. *)
Expire(p) ==
   /\ sessions[p].is = "preview"
   /\ SessionIs(p, NoSession)
   /\ UNCHANGED <<branch, tags, released, counter, owner, scans, publish, ended>>

(* The default branch only moves forward. *)
Push ==
   /\ Head < MaxCommits
   /\ \E tree \in Trees : branch' = [c \in 1 .. Head + 1 |->
                                       IF c = Head + 1 THEN tree ELSE branch[c]]
   /\ UNCHANGED <<tags, released, sessions, counter, owner, scans, publish, ended>>

Scan(g) == \/ Clone(g) \/ ScanChecksHead(g) \/ ScanReadsReleases(g)
           \/ ScanReadsTags(g) \/ Complete(g) \/ ScanFails(g)

Publish(g) == \/ PublishChecksHead(g) \/ PublishReadsReleases(g)
              \/ PublishReadsTags(g) \/ CreateTag(g) \/ CreateRelease(g)
              \/ PublishFails(g)

PublishNext == \/ \E p \in Publishers :
                     Reserve(p) \/ Claim(p) \/ Cancel(p) \/ Clear(p) \/ Expire(p)
               \/ \E g \in Generations : Scan(g) \/ Publish(g)
               \/ Push

PublishSpec == PublishInit /\ [][PublishNext]_publishVars
-----------------------------------------------------------------------------
(* Types: what each variable may hold; every revision that has a release  *)
(* has a tag, and the generations reserved so far are 1 .. counter.       *)
Previews == [commit : 0 .. MaxCommits, next : Nat, skills : [Offered -> Entries]]

Tasks(places) == [at : places, latest : Nat, preview : Previews]

PublishTypeOK ==
   /\ \E n \in 1 .. MaxCommits : branch \in [1 .. n -> Trees]
   /\ \A r \in DOMAIN tags :
         /\ r \in Nat \ {0}
         /\ tags[r] \in [commit : DOMAIN branch, skills : [Offered -> Entries],
                         gen : Generations]
   /\ released \subseteq DOMAIN tags
   /\ counter \in 0 .. MaxScans /\ owner \in [Generations -> Publishers \cup {"nobody"}]
   /\ sessions \in [Publishers ->
         [is : {"none", "scanning", "cancelled", "preview", "publishing"},
          gen : 0 .. MaxScans, preview : Previews]]
   /\ scans \in [Generations ->
         Tasks({"idle", "reserved", "cloned", "checked", "compared", "scanned"})]
   /\ publish \in [Generations ->
         Tasks({"idle", "claimed", "checked", "compared", "numbered", "tagged"})]
   /\ \A g \in Generations : owner[g] = "nobody" => /\ g > counter
                                                   /\ scans[g] = Resting
                                                   /\ publish[g] = Resting
   /\ \A g \in Generations : owner[g] # "nobody" => g <= counter
   /\ ended \subseteq Generations

(* Revisions follow the branch: a later revision is never of an earlier   *)
(* commit, though a publisher compares the head, the releases and the     *)
(* tags one after the other, and pushes and other publishers come between.*)
(* This is what makes the highest revision the newest content.            *)
RevisionsFollowBranch ==
   \A m, n \in DOMAIN tags : m < n => tags[m].commit <= tags[n].commit

(* What was reviewed once is published once: a publication whose answer   *)
(* was lost and that the user tries again never takes a second revision.  *)
PublishedOnce ==
   \A m, n \in DOMAIN tags : tags[m].gen = tags[n].gen => m = n

(* A scan or preview that the user cancelled or logged out of never comes *)
(* back as something to publish, however late its scan or its failed      *)
(* publication ends, and whatever was started under the same session ID.  *)
EndedStaysEnded ==
   \A p \in Publishers :
      sessions[p].is \in {"preview", "publishing"} => sessions[p].gen \notin ended
=============================================================================
