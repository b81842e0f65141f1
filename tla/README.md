# Formal verification of SkillStar

TLA+ models of SkillStar's own core logic, the TLC configurations that check
them and TLAPS proofs of the properties that matter most. Sources are named
relative to `src/`; `ss-skills` means `src/crates/ss-skills/src`, likewise for the
other crates. `PROJECT.json` lists, for each definition, the lines it models.

SkillStar installs *Skills* (folders with a `SKILL.md`) from git repositories
into one canonical directory, deploys them from there to the directories of AI
agents and projects, keeps them up to date and repairs them; teams share Skills
through channels, and the program switches the accounts of AI CLIs. A desktop
app, a CLI and an MCP server may run at the same time, on the same files, and each
may be killed at any point. There is no database for Skills: the folders, a lock
file of installed Skills, a file of content hashes and hidden leftovers beside
the folders are the whole truth. So the questions are about order, interruption
and stale decisions, and that is what the models keep; what is inside a folder,
a URL or a message is one of a few values.

## Inventory

| Component | State | Operations | What makes it right |
|---|---|---|---|
| **Skill mutation transaction** `ss-skills/skill_update/transaction.rs` | a process mutex, an OS file lock, a slot per thread | acquire, acquire with a budget, drop a guard | exclusive over threads and processes; a guard means ownership; nothing leaks; a budget ends the wait |
| **Staged replace and sweep** `materialize.rs` | `.skillstar-<kind>-<skill>-<uuid>` folders, born stamps | stage, swap, commit, rollback, retain, sweep | the previous content is in place or recoverable at every instant; the sweep deletes only what is superseded |
| **Installer** `installer.rs`, `skill_install.rs` | canonical folders | install a batch, uninstall | a batch is all or nothing; folder and lock agree, or the difference is visible |
| **Updates** `update.rs`, `git_skill.rs` | fetched content not applied yet | fetch, revalidate, apply, keep local edits | an update never changes the source, revives a removed Skill or overwrites an edit in the background |
| **Install baselines** `install_baseline.rs` | hash of what was installed | record, forget, compare | a baseline is content SkillStar wrote |
| **Install lock** `skill_lock.rs` | entries of installed Skills | mutate (load, change, save) | changes only under the transaction |
| **Doctor** `health/` | a plan made from a scan | scan, plan, apply | a repair never loses the last copy of a Skill |
| **Update badges** `update_state.rs`, `installed_skill.rs` | badge and revision per Skill, snapshot file | stamp, commit_scan, set, persist, hydrate | an old scan never overrides a newer answer |
| **Projects** `projects/` | `projects.json`, Skill lists, project directories, write lock | register, save and sync, import, rebuild, cascade an update, clear on uninstall | one order of the two locks; a copy in a project is never forgotten when its Skill is updated |
| **Deployment and mirrors** `deployment/` | links and marked copies | deploy, remove, resync | never touches what the user owns |
| **Shared channels** `channels/shared_channels/` | subscriptions, pins, receipts, retained copies | subscribe, update, roll back, resume, remove | store, lock and folders move together; what the user wrote is kept or given up by choice |
| **Channel publishing** `shared_channels/release.rs`, `github.rs` | sessions, generations; tags and releases at GitHub | scan, preview, publish, cancel | revisions follow the branch; one review, one release |
| **Local Skills** `local_skill.rs` | the user's originals | create, adopt, convert | originals survive |
| **Fetching** `fetch/`, `ss-git` | import caches, their locks and metadata | fetch, check out, install from, clear | a checkout stands while it is read; a preview installs what it showed |
| **GitHub sign-in** `github_auth/`, `ss-gpui/my_skills/github_sign_in.rs` | generation, pending code, stored login | start, poll, cancel, status, refresh, logout | what was ended never becomes the login; a dialog ends |
| **Project Skills MCP** `ss-app/project_skills_mcp/` | plans, approvals, receipts | plan, approve, apply | an approved plan is applied as approved; a receipt is true |
| **Marketplace** `ss-marketplace/`, `claude-marketplace/` | cached rows, a sync record with hash, host and validator | refresh, read | the record describes the rows; a degraded scope has a way out |
| **Usage accounts and switching** `ss-usage/` | rows, snapshots, the CLI's live path, pin, lease | refresh, activate, reconcile, delete | no session is thrown away; a failed switch keeps the account usable |
| **Usage sign-in** `ss-usage/oauth/`, `fetchers/oauth/`, `ss-gpui/accounts/dialog.rs` | pending registry, three local ports, dialog | start, await, cancel, exchange | a cancelled sign-in adds no account (where its worker can notice); every sign-in ends |
| **GitHub mirror health, API cool-down** `ss-core` | two small files | record, read | – (not modelled) |
| **SSH sync, desktop UI, configuration, translation, start-up migration, discovery, bundles** | – | – | I/O, views and pure functions (not modelled) |

**How they interact.** Every change of installed Skills runs under the Skill
mutation transaction; taking it from outside also sweeps old leftovers. Doctor's
reinstall runs the installer inside its own transaction. Fetching, scanning and
planning run *without* it, on what they read before, and re-check under it. The
badge store is written after an operation, by whichever task did it, and by
refreshes that ran beside it. Project writers hold the project write lock, and
those that also need the transaction take it first. Channels hold a gate and a
subscription lease of their own around downloads, and the transaction for each
change of folders. An import cache is locked from the fetch to the end of the
copy, and the transaction is taken inside; clearing caches holds the transaction
and therefore only *tries* cache locks. Doctor's reinstall holds it as well, and waits. Usage operations share one catalog lock
and, with some CLIs, the CLI's own lock file. Sign-ins share nothing but a
registry and two ports.

**Hard behaviours.** Death between any two file operations; a file operation
that fails, also while undoing; decisions taken before a lock and applied under
it; guards dropped in any order; refreshes overlapping updates; tasks that outlive
the dialog that started them; answers that are lost; another program that writes
the same file. `PROJECT.json` `"hazards"` lists them line by line, with the
property that covers each.

## Modules

### The transaction: `ExclusiveAccess`, `ReentrantLock`

`ReentrantLock` is `acquire_reentrant_file_lock` and `Drop for
ReentrantFileGuard`. `mutex`, `file`, `depth` and `held` are the statics, the OS
lock and the two fields of `LockSlot`; `guards` counts what callers were given;
`pc` is where a thread is. A step is one call other threads can observe: take
the mutex, take the file lock, give up in either wait, drop a guard, unlock the
file, release the mutex. Guards carry no state, so dropping "a" guard is dropping
any of them. `ProcessDies` ends a process: its files close and the OS lock goes.

`ExclusiveAccess` is what callers rely on: enter when nobody is inside, leave.
`ReentrantLock` implements it with `inside` = the threads that hold a guard
(property `Implements`, proved as `LockImplements`). The modules below take the
exclusion from it and have one owner per lock.

### Files and operations: `SkillStore`, `SkillTransaction`

`SkillStore` has the disk: `canon`, `residue` (leftovers), `stamped` and `stale`
(their born stamps and age), `lock`, `baseline`, and the two decisions
`ReplacementCommitted` and `SweepMayDelete`. A folder *is* its content: an
upstream version, or `Edit`. A content hash is the content. A leftover has kind,
Skill and content instead of a uuid, and `Unequalled` keeps an operation from
making two that could not be told apart.

`SkillTransaction` is the operations, one action per file operation:

- *install, update, background update, Doctor's reinstall*: `StageUnit`,
  `SwapAside`, `SwapIn`, `WriteLock`, `CommitUnit`, `RecordBaseline`; failing in
  any of them leads to `UndoSwap` and `PutBack`, whose own renames may fail;
- *uninstall*: `MoveAside`, `RemoveLock`, `ForgetBaseline`, `CleanAside`, with
  `MoveFails` and `UnlockFails`;
- *without the transaction*: `Fetch` and `Scan`, and the user's `UserEdit`.
  `ApplyFetched` and the repair steps decide again on what is there then;
- *sweep*: `Age` and `Sweep`. The clock may or may not pass for a leftover;
- `Crash` between any two steps: `op` is one operation at a time, and after a
  crash `"none"`.

`owed`, `before` and `intact` are history: whose edits nobody gave up, the folders
when the operation began, whether a rollback itself failed. `MaxFaults` counts
crashes and failing file operations together. A Doctor reinstall counts as giving
the edit up: the user asked for the fetched content; so does a restore that puts the
baseline's content in place, because the leftovers beside it count as superseded from
then on. `Hazards` gates two situations the promises exclude: an edit that lands while
an install of the same Skill runs, and an install that brings what the baseline already
records (see 8 below), by hand or because a fetched update waited behind one by hand.

### Badges: `UpdateState`

Refreshes (patrol, wake, window) and updates are tasks of one process.
`RefreshBegins` / `LoadLock` / `CheckUpstream` / `Commit` are the steps of
`refresh_skill_updates_in_session`, where `stamp` comes before the lock is read;
`FetchUpdate` / `ApplyUpdate` or `DeclineUpdate` / `ClearBadge` an update,
`Remove` / `ClearBadge` a removal; every writer then does `Persist` with the
snapshot it took. `Restart` hydrates from the file at revision 0. What the
update does to the folder is one step here, because `SkillTransaction` has the
detail. `gen`, `about` and `cleared` are history: how often the folder was
replaced, which replacement a badge is about, which one was recorded last.

### Channels: `SharedChannel`, `ReleaseRecord`

A subscription's batch update, rollback to an older release, resumption of one cut
short, removal and single install, over the same disk: `canon`, `lock`, `copies`
(stages, backups, retained copies, what a removal moved aside), `locals` (local
Skills made from a channel's content), and the subscription `store` (rows and
pins). One operation runs at a time (the gate and the lease); it loads its `draft`
first, downloads without the transaction, and takes it for the phases in `Held`.
Its actions are those phases: `Load`, `PlanUpdate` or its rollback counterpart,
the swap, the lock, the receipt and the verification per Skill (`todo`, `at`), the
commit of the store, and the exact undo, which restores the retained copy and
then the lock. An install that fails late is uninstalled again (`TakeBack`, without a look
at the folder). Beside it run the user's editor, which takes no lock and may write between
any two steps, the force delete of all Skills
(`Resetting`), the pruning of subscriptions, the sweep, Doctor and crashes. A
release stands for its manifest, commit and hashes, so "row, lock entry and
unedited folder agree" is equality. `choice` and `resolved` say what the user
wants of local edits; `owed` and `waived` are history of contents nobody gave up: every
edit, and what an update has replaced. The code does lose some edits, and those are not
owed: `Unguarded` names the windows in which the folder was read, or is about to be
replaced or removed unread (`UserEdit`), and `InstallAborts` gives up the edit its uninstall
deletes. An edit that lands in such a window and survives it is owed from the next
operation's `Load` on.

`ReleaseRecord` is the promise about the records: a release is installed only over
what the subscription describes, and the subscription changes only to what is
installed, or lets go. `RecordsReleases` checks that every step of `SharedChannel`
is one of its steps, through a mapping of `store` and `lock`.

`Hazards` gates three things the code does not protect against: a force delete
beside an operation, an edit after the user's choice, and a second removal that keeps
edits while the staging folder of the first still has the only copy of one. The run
has none of them; what they lead to is under "Observed".

### Projects: `ProjectWrites`, `ProjectRequests`, `ProjectPlans`

`ProjectWrites`: threads run `save`, `add`, `import`, `rebuild`, `register`,
`remove`, `install`, `update` and `uninstall` on canonical folders (`hub`), the
index, each project's list and deploy mode, and the entries of its Skills
directory (a link, a marked copy of a content, the user's own folder). `Locks`
gives each operation its locks in order (`txn`, `plock`); `Work` is the step
between. Index updates of registrations and removals take neither lock. The user
edits entries at any time; as the code does, an operation looks at an entry (`Look`:
`owned_project_deployment`, or an import's comparison of hashes) and then removes or
replaces what is there by name, whatever it is by then (`at`, `seen`).
`UserEntriesStay` therefore speaks of what the user put there before the look; what a
change after it comes to is under "Observed". `calm` is history: no fault yet,
no project removed or lost from the index, no folder deleted while it was deployed.

`ProjectRequests` is what an operation is entitled to, without locks, steps or loaded
lists: a request (`asked`: the operation, its Skills, its projects) changes the lists,
entries and folders as they are at that moment. An add or an import keeps every name of
the list, a save brings exactly its own; only what is listed is deployed, and only to
names that were free when looked at (an add renews links); a refresh replaces a listed
copy; an import takes an entry of the user's only to the hub. `RequestsAreMet` checks that every step of `ProjectWrites` is
one of its steps: `Names` are the lists, `Asking` is read off each thread's record.

`ProjectPlans` is the MCP path: `Recommend` writes a plan with what it saw,
`Approve` writes an approval through a temporary file (load, write, rename; no
lock), `Apply` takes the time, waits and holds the project write lock from `Check` over
`Classify`, the links (`LinkNew`; after `LinkFails`, `UndoLink` takes them away one by one
and passes over one it cannot remove), `SaveNames` to `WriteReceipt`. Hub, project and
plans change outside at any time, a crash ends a thread anywhere, and `RemoveProject` and
`RemoveList` take the project out of the index and its list away without the lock. Two
parts are history: `strays`, the links a failed removal or save, a crash or a removal left
behind, and `cut`, that the list went after an apply had saved it.

### Accounts: `CliCustody`

The accounts of one CLI. A credential is an account and a *generation*: a refresh
token works once, spending the newest issues the next. SkillStar keeps a generation
in the account's `row` and one in its snapshot (`own`, or `orphan` for a session of
no known account), makes the CLI's `live` path a link to a snapshot and remembers
the `pin`. SkillStar's operations run one at a time (`app`, the catalog lock); the
CLI refreshes (`CliSpend`, then `CliSave`), logs in, logs out and dies on its own,
taking the lease only when it `shares` it. Operations are the steps of the code:
reconcile absorbs an orphan or a real file, mirrors the row, links again; activate
prepares, binds, reads back, pins, or undoes; refresh rotates, saves the row,
matches and projects; delete forgets, drops, erases, unpins.

### Sign-ins: `GitHubSignIn`, `OAuthLogin`

`GitHubSignIn`: one facade (`generation`, `pending`, `identity`, the file `stored`)
and the dialogs that use it one after the other. A dialog's `chain` starts, sleeps
and polls; closing the dialog cancels the code and detaches the chain, which runs
to the end of its request. Status tasks (`watch`) and refresh tasks (`renewal`) note
the generation, ask, and compare before they write. `Decide` and `Lapse` are the
user and GitHub's clock. The page's cached name is in it (`page`); the generation
does not wrap.

`OAuthLogin`: adding an AI account by signing in. `logins` holds, for each sign-in,
where its worker is (`at`), what the dialog has been told (`chain`), its registry
entry (`listed`, `sender`), the first request on its listener (`inbox`). The four
kinds of worker are Codex (a fixed port, a second one, and a poke of whoever
listens), Grok by device code ("xai": asks the registry before each poll and once more
before it saves), Grok by listener ("grok", what "xai" becomes when the platform
answers 404: the worker binds a third port itself, the registry does not know the
port, and the worker never asks it) and Cursor (polls without asking). The callback
in the browser, loaded again or not, and the pasted link are one action (`Approve`).

### Fetching and publishing: `ImportCache`, `ChannelPublish`

`ImportCache` follows the cache folder of one repository and ref: `cache` has the
folder, the metadata's commit, the objects, the working tree and git's own lock
files; `holder` is its file lock, `txn` the Skill transaction. Tasks are scans,
refreshes, installs of a preview, updates, Doctor's reinstall (which has the
transaction from the start), and the two clearings (the page's, and the reset that
holds the transaction). A git child may be killed, and outlives its
program (`orphan`). `copies` is the history of what installs copied.

`ChannelPublish`: sessions reserve a generation, `Scan` a commit of the default
branch into a preview, and `Publish` it: check the head, compare releases, read the
tags, create the tag, create the release, one request each, between which others
push and publish. An answer may be lost after GitHub did what was asked. A session
whose publication failed has its preview restored.

### Marketplace: `MarketplaceSync`

One scope: its sync record `row` (hash, host, validator, degraded, fresh), its rows
`held` (the payload they came from, whole or rescued) and refreshes that overlap: read
the record, ask the hosts in turn with a validator where the record allows, read
the record again to plan, then `SkipRewrite` or `Rewrite`. `readable` says which
payloads this version parses; `Restart` may bring a version that parses more.
`Signals` says whether the scope's parser reports a rescue (the leaderboards' does, the
publishers' page falls back to a built-in list in silence); the run has one that does.
`RowsLost` stands for another scope's refresh that claims the rows.

## What the runs check

States and depth are of the complete graph; every run finishes.

| Run | Instance | Shows |
|---|---|---|
| `reentrant_lock` | 2 app threads, 1 CLI thread, nested 3 deep; 1 280 states | a guard means ownership of both locks (`GuardOwnsBoth`), nothing leaks (`NothingLeaks`), exclusive access (`Implements`), and under fairness `BudgetedCallsReturn` and `NoLostWakeup` |
| `installs` | 1 Skill, 3 versions of 2 sources, 2 faults, 1 fetched update, 1 planned repair; 2 Skills in batches, 1 fault; 2.3 M states, depth 63 | an edit nobody gave up exists somewhere (`EditSurvives`); a listed folder with content nobody vouches for has vouched-for content in a leftover beside it (`TornSwapIsVisible`); a locked Skill is in place or restorable (`LockedIsRecoverable`); `UpdateKeepsSource`; a failed batch leaves the folders as they were (`FailedBatchIsUndone`) |
| `update_badges` | 1 Skill, 2 refreshes, 1 update; 1.3 M states | a refresh never brings back a badge an update cleared (`NoRevivedBadge`); one that nothing disturbs leaves the right badge (`UndisturbedRefreshIsRight`) |
| `channel` | 1 Skill under every operation, 2 faults; 2 Skills under updates and rollbacks that preserve nothing, 1 fault; 2.3 M states, depth 124 | folder, lock and store agree when an operation has ended (`Agreement`); contents of the user are kept (`OwedKept`); a pinned Skill is not moved (`PinHolds`); `RecordsReleases` |
| `project_writes` | 1 project, 2 threads: 1 Skill, 2 contents, 1 fault; 2 Skills under the writers of lists, links only, no fault; 966 k states, depth 60 | `NoLockCycle`; after an update no copy in a project is stale and forgotten (`CopiesAreCurrent`); entries the user had put there before an operation looked stay (`UserEntriesStay`); no name another writer saved is lost from a list (`RequestsAreMet`): it takes two Skills |
| `project_plans` | 2 Skills, 2 plans, 1 key, 2 threads, 2 events; 2.7 M states, depth 35 | what a receipt says is so when it is written, unless the project was removed under it (`ReceiptIsTrue`); a link no list names is one an apply is about to list or undo, or in `strays` (`LinksAreListed`) |
| `cli_custody` | 2 accounts, 4 generations together, 3 faults with one account in use; with both no fault, or one and 3 generations; CLIs that share the lease and CLIs that do not; 1.8 M states, depth 82 | the live path never dangles (`NeverDangling`); with a CLI that shares the lease, SkillStar never throws an account's newest session away (`SessionsKept`); a reconcile leaves card, snapshot and CLI with one credential, unless it found the CLI on an older session than the snapshot's (`CardsAgree`); a switch is done or undone (`SwitchIsWhole`) |
| `sign_in` | 2 dialogs in a row, or one beside a status and a refresh task, 2 codes; 679 k states, depth 38 | `EndedStays`; under fairness `DialogEnds` |
| `import_cache` | 2 threads, 2 commits, 5 tasks, 2 faults; 1.3 M states, depth 58 | `CheckoutStands`, `PreviewHolds`; tasks wait for each other only where Doctor's reinstall is one of them (`NoLockCycle`) |
| `publishing` | 2 publishers, 2 commits, 3 scans; 1.8 M states, depth 50 | `RevisionsFollowBranch`, `PublishedOnce` |
| `oauth_login` | 2 sign-ins in 2 dialogs, 4 kinds of worker; 683 k states, depth 32 | `CancelStands`; under fairness `EveryLoginEnds` |
| `marketplace` | 2 refreshes, 2 hosts, 2 payloads, 1 change, 1 loss; 1.8 M states, depth 57 | `RecordDescribesRows`, `NoSelfLock` |

A module's type invariant is proved (see below) or checked by its run.

**Why the bounds are enough.** Three threads are the least that have two in one
process and one in another; depth 3 has an outer, a middle and an inner guard.
Skills do not share state except within a batch, which has two. Three versions of
two sources are an update, a downgrade and a foreign source. Two faults are a
crash that leaves a backup and a failing undo, or a second crash over it. Two
refreshes, two threads, two dialogs or two publishers are the least that overlap,
and no code here treats a third one otherwise; three revisions are one write
before, one during and one after a refresh. Four generations let both accounts
rotate, and one of them twice; the faults matter most with one account, whose row,
snapshot and live file they leave apart. Every bound is a constant in a guard (`Max…`), or
`Narrow` of the MC module:

- `MCSkillTransaction`: beside a second Skill one fault, one source, and no fetched
  update or plan; a repair is not planned while a fetched update waits, and after the
  second fault only with one source. Skills share only the batch, and a plan and a
  fetched update meet only through the folder.
- `MCCliCustody`: four generations over all accounts; once the provider has issued any
  for both, three and one fault. The module's own bound, `MaxGen`, is per account.
- `MCSharedChannel`: beside a second Skill only updates and rollbacks, with one
  fault, and no edit kept as a local Skill, which concerns one Skill alone.
- `MCProjectWrites`: beside a second Skill no fault, nothing lost or removed, only saves,
  adds and imports, with links, one content. Skills of a project share its list and the locks.
- `MCGitHubSignIn`: the second dialog opens, and stays, without status and refresh
  tasks. What is late for a dialog comes from the chain before it.
- `MCOAuthLogin`: two sign-ins are both Codex's, or one is and the other Grok's device
  code, or both are Grok's with a listener (others share no port). Another program holds a
  port only beside sign-ins of that port's platform, Codex's second only beside one
  sign-in, which has nowhere to go then.

The step that leaves the bound is not taken. Of the steps fairness speaks of only
`BeginLogin` can be one, for a second sign-in at Grok: of its three outcomes the bound
drops one or two, and leaves the refusal, so no sign-in is stuck. Symmetry is used with invariants and action properties only. No property holds
because a bound stops the step that would break it, as the mutants show: every
property has a definition in the model, a plausible bug of that code, that breaks
it under the same bounds.

**Deadlock** is checked where the system cannot come to rest. `project_writes`,
`project_plans`, `cli_custody`, `sign_in`, `import_cache`, `publishing` and
`oauth_login` may: once the bounded events of their environment have been spent
and every task has ended, nothing is left to do.

**Fairness.** `ReentrantLock`: a thread that can take a lock, or whose budget is
over, does not stand still forever, since `acquire_reentrant_file_lock` polls in a
loop; a caller drops its guards; `Drop` runs to its end. Nobody is promised a
contended lock (neither `std::sync::Mutex` nor `flock` is a queue), so a call
without a budget may starve. `GitHubSignIn`: weak fairness of each chain's steps,
because the runtime polls every spawned task and a request is limited to 30 s
(`ss-skills/github_auth/gateway.rs:42-49`, `ss-core` `probe_http_client`), and of a code's
lapse, because GitHub's device codes expire. `OAuthLogin`: the same of start
request, worker and dialog task, with `usage_http_client`'s 30 s, and of `Expire`:
five minutes on the listener, 150 polls, a device code's `expires_in`. Nothing is
asked of the user, the browser or other programs. All other runs check safety
only; for `ImportCache` nothing more could be claimed, as git commands have no
time limit.

### What the documentation says otherwise

Places where the code, as modelled, does not do what a comment or a document says.
Each was found as a TLC counterexample of the statement in the module named; the
runs do not include these statements.

1. **An uninstall may delete a folder that is deployed** (`ProjectWrites`).
   `docs/architecture.md:122` has project writers hold the Skill transaction; `save`
   and `add` take the project write lock alone (`ss-skills/projects/sync.rs:95`, `272`, `367`), and
   an uninstall clears the projects, gives the project lock back
   (`ss-skills/skill_install.rs:266-267`) and deletes the folder afterwards (`274`). A deploy
   in between leaves a link to nothing.
2. **A sign-in may be undone by a reconcile** (`CliCustody`). `docs/features/usage/README.md:97`
   and `ss-usage/usage_switch.rs:204-207` let the account one has just signed in to again take the new
   credential; `custody.rs:343-351` mirrors the served, older session into the row
   without asking whether the row is newer. It may undo a refresh in the same way: its
   rotation is in the row, its projection failed, and the CLI still serves the session spent.
3. **A closed dialog's chain polls the next dialog's code** (`GitHubSignIn`).
   `ss-gpui/my_skills/github_sign_in.rs:5-7` says the first poll after closing ends it, and
   `docs/features/skills/README.md:164` that a success is written to the page's session and closes the dialog. A chain that
   wakes when the next dialog has its code polls that one (`github_auth/mod.rs:313-328` takes whatever is
   pending); if it was authorised, the login is saved for a view that is gone, and the new
   dialog's own poll fails although the user is signed in. `DialogEnds` holds.
4. **A release may list the wrong changes** (`ChannelPublish`).
   `docs/features/skills/README.md:133` says what changed since the release before;
   a preview compares with the latest release, publishing compares revision numbers only, and
   those count tags (`release.rs:448-454`, `525-535`). A preview made while another publisher has made the
   tag and not yet the release states the changes since an older release.
5. **A retry may not reuse the clone** (`ImportCache`). `fetch/cache.rs:111-112` says a
   retry reuses the successful clone; a git child killed in the middle of a checkout
   (`ss-git/transport.rs:839-847`) may leave its `index.lock`, and every retry fails until
   the cache is cleared.
6. **The paste box may be missing while a sign-in waits** (`OAuthLogin`).
   `docs/features/accounts/README.md:15` offers it; the answer or the time-out of an earlier, closed dialog's
   sign-in replaces or drops the pending one of the dialog open now (`ss-gpui/accounts/dialog.rs:110-124`, `175-193`), which then cannot be
   pasted into or cancelled.
7. **Marketplace records** (`MarketplaceSync`). A validator may be recorded beside rows of
   another payload (`ss-marketplace/snapshot/sync_state.rs:140-141`, `188`); identical bytes from another host bring that
   host's validator under the old host's name (`docs/features/marketplace/README.md:41`,
   `sync_state.rs:186-190`); a complete scope may be overwritten by a rescued payload when another
   refresh completes it between plan and write (`remote/mod.rs:117-118`, `sync.rs:285-296`);
   a refresh planned as unchanged over rescued rows, with a rescued payload of its own, marks
   the complete rows that another refresh has written since as degraded (`sync_state.rs:130-133`,
   which have the quality preserved, and `199-202`); the built-in list of publishers is stored as complete
   and fresh, and the same bytes keep it when a later version could parse them
   (`docs/features/marketplace/README.md:40`, `52-53`, `remote/publishers.rs:174-178`); and
   a 304 over rows that are gone or cannot be counted leaves the scope empty and fresh (`sync.rs:125-126`,
   `182-184`, `remote/publishers.rs:23`).
8. **"The replacement is known to have committed"** (`SkillTransaction`, `materialize.rs:563`) is inferred
   from a baseline equal to the folder in place, and a baseline outlives its install:
   install *v*, edit, install *v* again, die between the swap and the lock write. The
   folder is *v*, the old baseline is *v*, and after half an hour the backup with the edit
   is deleted, although that install never committed. `Installable` keeps the runs
   away from this case.
9. **Doctor may restore the older of two backups** (`SkillTransaction`, `health/apply.rs:139`): the order of
   the plan decides; if the baseline records the older content, the newer backup then
   counts as superseded.
10. **A baseline may be the user's content** (`SkillTransaction`): `install_baseline.rs:5` "records the content
    hash it just wrote", but it hashes the folder after swap, lock write and commits (`61`).
11. **The badge snapshot may be the older one** (`UpdateState`): `record` and `commit_scan` save after
    they released the store's lock (`update_state.rs:114`, `239`).
12. **The pin and the account in use may differ** (`CliCustody`): a pin that cannot be saved after the
    switch (`usage_switch.rs:306`) leaves the new account live under the old pin, against
    `docs/features/usage/README.md:106`; and a reconcile never rewrites the pin, though
    `docs/features/accounts/README.md:11` says so.

### Observed while modelling

- *Installs.* A plan made from an earlier scan, applied after the Skill was updated and
  edited and an install then crashed, reinstalls beside the backup that holds the edit,
  and a later sweep deletes that backup. The sweep's comment says "Restore or delete"
  (`skill_update/transaction.rs:199`); it only deletes. `set(false)` after an update also clears a badge raised for a
  still newer version; the app and the CLI overwrite each other's snapshot file.
- *Channels.* `uninstall_hub_skill_with_commit` reports `rollback_complete` though the rename
  back failed (`skill_install.rs:378-386`, read at `channel_removal_installer.rs:60-70`), and a removal's fixed staging folder
  is deleted by the next removal. That may hold the only copy of an edit (the hazard
  `retried_removal` of `SharedChannel`; it takes three faults): an update dies after it
  retained the edited folder; a removal that preserves edits fails to write the lock and to
  rename back, dropping its local copy; Doctor restores the retained, older copy; a second
  removal keeps that one and deletes the staging folder with the edit. A Skill whose folder is missing, or whose lock and row differ
  after a crash, is refused by every channel operation and skipped by Doctor
  (`health/plan.rs:189-193`) until it is reinstalled by hand. A force delete prunes subscriptions and
  deletes Skills without the channel's gate (`subscription_pruning.rs:41-86`,
  `storage_maintenance.rs:222-262`; `docs/features/skills/README.md:152`). An edit made after the
  user chose "overwrite" is overwritten too. An edit is lost, or left only in a retained copy
  that the next commit frees, when it lands between the comparison of a folder and its swap
  (`channel_update_installer.rs:248-285`, `materialize.rs:354-368`), on a release that was
  put in place and is not accepted (`git_skill.rs:220-249`), or before an exact rollback moves
  it aside (`channel_update_installer.rs:430`, `materialize.rs:288-320`). An install whose
  receipt or refresh fails is uninstalled with whatever the folder holds by then
  (`channel_removal.rs:214-264`, `subscription_installer.rs:60-76`, `463-488`), though the same
  failure a step later spares an edited folder (`subscription_installer.rs:363-390`).
- *Projects.* No lock keeps the user out of a project: an edit between the comparison and
  the removal is deleted (`projects/import.rs:104-120`, `deployment/ownership.rs:312-319`,
  `projects/sync.rs:465-468`, `projects/refresh.rs:84-151`), one made while an import copies across
  file systems too (`local_skill.rs:647-657`), and a copy that is staged when the user takes the
  name replaces what they put there. The index is written without a lock (`projects/index.rs:91`). The Projects page saves a
  list it loaded earlier (`ss-gpui/projects/mod.rs:115-205`). Imports, rebuilds and
  `refresh_stale_copies` have no caller in the interface.
- *Project plans.* Two approvals of one plan race (`approval.rs:48-69`), and either lets apply run.
  An elicitation approval of a client without a form is accepted, though
  `docs/features/project-skills-mcp/README.md:27` counts SkillStar's own only. After a crash between links and
  receipt a retry answers "no longer matches the plan"; a failed save leaves the links, and the undo
  of a failed link passes over one it cannot remove (`strict.rs:114-117`, against `strict.rs:3-5`).
  A plan is applied though it expired while apply waited for the lock (`protocol.rs:428`). `remove_project`
  takes no lock: under a running apply it makes the receipt untrue, or leaves a list that no index entry
  names and the project's next registration finds again; it leaves the links (`index.rs:91-108`).
- *Accounts.* A deletion decides by identity which snapshot the CLI uses and may write an old
  snapshot over a newer login of the terminal (`custody.rs:529-540`; exempted from
  `SessionsKept` by `undone`). When `read_dir` lists an orphan first, an imported account's read-back
  differs, and a died activation followed by a deletion leaves a dangling link (so `NeverDangling` is for the
  other order). When link repairs keep failing, a live file of a session older than the
  snapshot's may remain; a reconcile replaces it by a link to the snapshot without a look at
  the row (`custody.rs:343-364`), and if the projection of a refresh had failed too, the CLI
  is served a spent session while the row has the newest (the premise of `CardsAgree`). `reset_subscription_quota` rotates without lease or projection
  (`refresh.rs:142-211`, against `usage_switch.rs:219`).
- *GitHub sign-in.* `refresh` and `logout` have no caller in the product. A refresh that
  overlaps a login overwrites the new login; a status answer named for the old account may
  stay cached after a login (`github_auth/mod.rs:390-416`). `docs/features/skills/README.md:87` says closing
  the panel does not cancel; `:164` and the code say it does. A start that answers after the dialog closed
  leaves a pending code nobody polls. A crash between `prepare_path`'s empty file and the
  write leaves an unreadable `auth.json`.
- *Usage sign-in.* Neither Cursor's worker nor Grok's listener asks the registry, so a cancelled
  sign-in of theirs may still add its row (left out of `CancelStands`); Grok's listener
  keeps its port for up to five minutes. A cancel after the approval may come too late for
  the others. A Codex cancel asks both ports, whoever listens, with the registry's mutex held for up to two seconds.
- *Import cache.* Doctor and an install may wait for each other forever: `health/apply.rs:89`
  holds the Skill transaction for the whole plan, as `docs/architecture.md:51` has it, and its reinstall waits for the cache lock
  (`fetch/cache.rs:57-67`); an install holds the cache lock and waits for the transaction
  (`installer.rs:95`). Neither wait is bounded, and Doctor's has nobody to cancel it.
  `NoLockCycle` says that no other pair of tasks can. A removal that stops halfway keeps a folder without metadata, over which later
  clones cannot be renamed, or metadata without objects; "clear the cache" is the way out of both.
  `.fetch-` folders of a crashed clone are never cleared. `git gc` may drop a commit outside HEAD.
- *Publishing.* Releases may appear out of the order of their revisions. The facade is called by
  tests only.
- *Mirror health and cool-down.* `github_health.rs` loads, changes and saves without a lock: two
  failures at once may count as one (`docs/features/platform/README.md:26` counts two), and a failure
  saved late survives a reset. `github_api_cooldown::record` lets a later answer with an earlier deadline
  shorten the cool-down (`docs/decisions.md:927`).

## What is proved

`tlapm` checks these for every value of the constants that satisfies the named
assumptions of their modules, so for any number of threads, processes, Skills,
versions, faults, plans, tasks, dialogs and accounts.

- **`SkillTransactionProofs`**, the lock: `LockTypeCorrect`, `LockExcludes`,
  `GuardKeepsLock`, `NoLeak`, `LockImplements`. None of the three safety properties is
  inductive; `LockInv` is. It says of each thread (`Owns`) that it holds as many guards as
  its depth, that `held` is exactly depth > 0, and at which `pc` it owns the file lock
  and the mutex. `held` alone would not do: between unlocking and releasing, a
  thread owns the mutex with an empty slot. Exclusion then follows because
  `file` and `mutex` are single values, and each step of the lock changes `inside`
  by nothing, one thread in, or one thread out.
- **`SkillTransactionProofs`**, the operations: `TypeCorrect`, `AsideStays`
  (`AsideIsKept`: what a running operation moved aside is still there when it has to
  put it back) and `UpdatesKeepTheSource` (`UpdateKeepsSource`) for the whole model.
  `LockedStaysRecoverable` (`LockedIsRecoverable`) and `TornSwapsAreVisible`
  (`TornSwapIsVisible`) assume `MaxPlans = 0` or `Hazards = {}`, `EditsSurvive`
  (`EditSurvives`) and `FailedBatchesAreUndone` (`FailedBatchIsUndone`) `Hazards = {}`:
  the number of plans, fetches, faults, Skills and versions is free in all. Each
  hazard is a way the code really gives the promise up ("Observed", and 8 above), and
  with plans one of them is enough: a plan may discard the only copy.
  The invariant `RInv` has five parts. `Typed` knows when a version is set and which
  operations have one; `Progress` which Skills a phase has passed; `PlanOK` that no plan
  discards what an uninstall moved aside; `Undisturbed` that, in the usual environment, a
  Skill which a running install swapped in holds what the install brought, the baseline
  is of something else until it commits, and no plan discards what is yet to be moved
  aside; `Anchored` that a listed Skill has content the lock, the baseline or the user
  vouches for, in its folder or in a leftover no plan discards (`SafeCopy`), and in a
  leftover while it is swapped in. Sweeping keeps it because `SweepMayDelete` deletes a
  backup only beside a folder the baseline records. `EditKept` adds the same of an edit
  that is still `owed`; `SourcesAgree` that a fetched update is of the source its entry
  had when it was fetched; `BatchUndone` what a rollback has put back so far.
- **`ProjectsAndBadgesProofs`**, the projects: `TypeCorrect`, `LocksAreOrdered`
  (`NoLockCycle`), `NoCopyIsForgotten` (`CopiesAreCurrent`), `UserEntriesAreKept`
  (`UserEntriesStay`) and `StepsMeetRequests` (`RequestsAreMet`, the refinement of
  `ProjectRequests`), without assumptions. `Threaded` says which operation may be at which
  step, and that the step alone says which locks a thread owns; the order of the locks
  follows. `CopiesAreCurrent` needs `Quiet`: while `calm`, a writer inside the project lock
  works on a registered project with the names that are in its list (`Kept`), a copy is
  listed unless a sync is about to clear it (`Placed`), and a copy that is not of what the
  folder holds is owed by an update (`Current`). Two registrations that save the index
  over each other lose a project, whose copies nobody refreshes: found with two projects,
  and why `calm` ends there. The refinement holds whatever fails; it needs `Knows`: between
  loading a list and writing it back, and while it clears and deploys, a thread's list is
  the project's, unless the project was removed; the folder an import links to is there.
  Others keep it because a list changes only under the project lock or is deleted
  (`remove` takes no lock), and a folder goes only under the transaction, which an import
  holds (`OthersKnow`); then each action is mapped to its request (`StepMeets`). `Seeing`
  says that what a thread saw under a name is still there, unless the user put something
  else there since.
- **`ProjectsAndBadgesProofs`**, the badges: `BadgeTypeCorrect`, `NoRefreshRevivesABadge`
  (`NoRevivedBadge`) and `QuietRefreshesAreRight` (`UndisturbedRefreshIsRight`), for any
  number of refreshes and updates.
  The invariant ties revisions to replacements: what a refresh loaded is at least as new
  as every result recorded at or before its `since`, so if it is not overtaken, its badge
  is about a folder no older than the last recorded one. `LearntIsSo` is what the action
  property needs: while nothing happens to a Skill, its state is unwritten since the
  refresh began, the loaded entry is the present one, and the verdict is right.
- **`ProjectPlansProofs`**: `TypeCorrect`, `ReceiptsAreTrue` (`ReceiptIsTrue`) and
  `NoLinkIsForgotten` (`LinksAreListed`), for any number of plans, keys and threads.
  `Committed` says that an apply past its check works on a plan that is still there and
  approved, and past the save that the list has every Skill of it or was removed since:
  the project lock keeps the list from everyone but a removal, and nothing takes a plan
  or an approval away. `Batched` follows the links of a batch: while it links, they are
  the plan's and the list is within what was loaded, so that the save names them all.
- **`GitHubSignInProofs`**: `TypeCorrect` and `NothingEndedReturns` (`EndedStays`). What a
  task may still write depends on the code it holds, so `IInv` says of every task that
  the code is one it may hold (`PolledAreCodes`), that nothing has been noted before it
  happened (`NothingAhead`), and that as long as the generation a task noted is the
  current one, the code it polls or renews has not been ended (`PendingIsLive`,
  `HeldIsLive`): whoever ends a code moves the generation on.
- **`ImportCacheProofs`**: `TypeCorrect`, `CheckoutStays` (`CheckoutStands`),
  `PreviewIsInstalled` (`PreviewHolds`), `NoCycle` (`NoLockCycle`), for any number of
  threads, commits, crashes and killed git children. `CheckoutStands` is not
  inductive: that nobody else moves the tree rests on the file lock (`Locked`: who uses
  the checkout holds it) *and* on git's own `index.lock`, since the git of a dead
  program works without the file lock: it is there while a task's git works or an
  orphan does (`Stands`, `OrphanLocks`), so the two never meet. `Meant` says what a
  task is after, and `Locked` that who waits with the transaction in hand is Doctor's
  reinstall; `PreviewHolds` and `NoLockCycle` follow.
- **`ChannelProofs`**, the subscriber: `TypeCorrect` and `PinsHold` (`PinHolds`) for the
  whole model; `OwedContentsAreKept` (`OwedKept`) for `Hazards = {}`; `RecordsAgree`
  (`Agreement`) and `ReleasesAreRecorded` (`RecordsReleases`, the refinement of
  `ReleaseRecord`) assume `"reset_race" \notin Hazards`, that no force delete
  runs beside a channel operation: the code does not exclude it ("Observed") and loses
  the agreement then. Edits between any two steps, crashes and failures of every step are
  free. `Typed` says what is set in which phase; `Pins` that an update neither
  moves nor has still to move a pinned Skill. Whether a rollback ends well depends on what
  it was for, so `Unrepeated` says that a Skill is once in a batch, to do or done;
  `Booked` what the records say in each phase (the row stays what it was until the
  commit, and what has been brought is of the target); `Agreed`, as long as every
  rollback was complete (`clean`), that each Skill agrees or is being worked on, and that
  what is remembered of it would make it agree again. The refinement needs only the first
  two: a lock entry is written to the target from what the row says, or back to it.
  `OwedKept` is not inductive: whether a content may go depends on where its other copies
  are and on what the user chose. `Saved` adds `Located`, where the contents of the Skill
  at hand are in each phase, or that what an edit has put in their place is not owed
  (`Unowed`); `Spare`, that the local copy a failing step deletes again is of content in the
  folder, and made only for a Skill the user chose about; `Chosen`, that what an operation may overwrite is waived or a
  local Skill; and `Upheld`, for each content owed, where it is: in the folder, in a copy
  only Doctor takes up or in a local Skill (`Firm`), or, for what the row or a receipt
  describes, in a retained copy that does not count as superseded. An edit that is
  not waived is `Firm` always: `Retains` is too weak for it, since a later commit makes
  the sweep free to delete retained copies. TLC checked these parts as invariants of
  the run's instance before they were proved. The theorem is about what is owed: of the edits
  in the windows of `Unguarded` it says nothing.
- **`ChannelProofs`**, the publishers: `PublishTypeCorrect`, `RevisionsStayInOrder`
  (`RevisionsFollowBranch`), `OnePreviewOneRevision` (`PublishedOnce`), and `EndedStays`
  (`EndedStaysEnded`: what was cancelled is never offered for publication again), for any
  number of publishers, commits and scans. The heart is `Sound` and `PublishFits`: when
  a preview is made, every revision before its own is taken, so no tag can come in below it
  later; hence what the head check found, that no revision below is of a later
  commit, stays true until the tag is made. `Once` ties a tag to the generation that
  was reviewed, which one session owns (`SessionFits`).
- **`AccountProofs`**, custody: `TypeCorrect`, `LinksLead` (`NeverDangling`),
  `SessionsAreKept` (`SessionsKept`), `ReconcileAgrees` (`CardsAgree`) and `SwitchesAreWhole`
  (`SwitchIsWhole`), for any number of accounts, generations and faults. `Typed` adds to the
  types that nobody holds a generation which was not issued, and which step an operation
  of each kind may be at. `Linked` needs what a switch would put back (`prior`) and that a
  deletion has unlinked a snapshot before it drops it. `SessionsKept` is not inductive: a
  step is safe because of what an earlier one compared. `Covered` keeps those comparisons:
  what was absorbed is no newer than the snapshot, a file about to be replaced is no newer
  than a copy of it, the row is no newer than what a switch installs, and after a rotation
  the hand holds the newest. They stay true because a CLI that shares the lease and an
  operation take turns (`TakingTurns`). `Pinned` says the pin moves last.
- **`AccountProofs`**, sign-in: `LoginTypeCorrect` and `CancelIsFinal` (`CancelStands`), for
  any number of sign-ins, dialogs and bound. `IInv` says which kind of worker may be where,
  and that a port is held exactly by a Codex or Grok worker that waits for its browser
  (`Works`), that whatever leads to a row was approved (`Approved`), and that a cancelled
  sign-in of Codex or by device code is unlisted, Codex's with a stop request in its
  listener before any code (`Stopped`).
- **`MarketplaceSyncProofs`**: `TypeCorrect`, `RecordStaysTrue` (`RecordDescribesRows`),
  `RescuedStaysStale` (degraded records, and rows a parser reported as rescued, never read as
  fresh) and `ExitStaysOpen` (`NoSelfLock`), for any number of refreshes, hosts and payloads
  and either kind of parser. The two in the middle are inductive with `Flagged` (a payload a
  refresh holds has been reported); the third needs `SeesTheDamage`: while the scope is degraded, a
  refresh nobody disturbed asks without a validator, gets a body, and rewrites.

**Only model-checked**: liveness (`BudgetedCallsReturn`, `NoLostWakeup`, `DialogEnds`,
`EveryLoginEnds`), which is out of the prover's reach. Every invariant, action property
and refinement of a run has its theorem. The models use no RECURSIVE operator and need no
induction over data.

## What is not modelled, and why

- *Installs*: the copying of a folder's files and its partial deletion (each is one
  step); the sweep of Agent directories; Doctor's links, mirrors, legacy and adoption
  steps; the second lock mutation of `apply_from_checkout`, which changes no version.
  A stage whose process died while filling it has no stamp; the model's stamps need
  not age, which comes to the same. `UpdateState` has one process; two share only the
  file. `forget` and `restore_if_revision` of the badge store.
- *Channels*: creating and joining, membership, registration sessions; equal copies
  of one content are one; a `StagedReplace` backup of a finished swap is not discarded.
- *Projects*: the symlink-to-copy fallback, `update_project_path`,
  `save_skills_list_only`, paths shared by projects or Agents, Agent deployments.
  In `ProjectPlans` the content may change between the hash check and the link, as it
  may in the code; a crash between links and receipt leaves the links.
- *Accounts*: API keys, keychain and IDE adapters (other targets of the same
  interface), quotas; a CLI that saves another account's token in place without a
  lease; two rows of one identity. Generations older than a sign-in count as spent.
  `SessionsKept`, `CardsAgree` and `SwitchIsWhole` are claimed for CLIs that share the
  lease; the others may lose a race by design. The row mirrored after a crash between
  `SaveRow` and `Project`, and refreshes of an account that is served but not pinned, are in it.
- *GitHub sign-in*: `git_auth_material` and `api_credential`, which read; a generation
  that wraps. The page's "out" stands for a page shown once.
- *Usage sign-in*: other platforms, `SchemePaste`, the busy flag of a pasted code. A stop
  request is assumed to reach a listener of ours; another program's may or may not go.
- *Import cache*: which mirror or credential a git command uses, local sources, sparse
  folders; the head of the remote is read with the objects. Graduating a local import
  holds the checkout while it takes the transaction, as installs do.
- *Publishing*: paging, the limit of 64 sessions, the checks of a manifest's form, archives;
  force pushes, outside which `RevisionsFollowBranch` is claimed. One counter of
  generations serves all publishers; a process that dies is one whose tasks stop. The
  run has no contents, since its properties do not look at them.
- *Marketplace*: one scope; search, seeds, the error column, listings shared by
  leaderboards. That a record or the rows can or cannot be read is a free choice.
- *Mirror health, API cool-down, registration sessions*: small stores whose races only
  decide which mirror is asked, or when (see "Observed"). Discovery, bundles,
  start-up migration, SSH sync, configuration and views: parsing, I/O, pure functions.

## Plan

Modelled and checked, in this order: `ReentrantLock`, `SkillStore`,
`SkillTransaction`, `UpdateState`, `SharedChannel`, `ProjectWrites`, `ProjectRequests`,
`ProjectPlans`, `CliCustody`, `GitHubSignIn`, `ChannelPublish`, `ImportCache`,
`OAuthLogin`, `MarketplaceSync`. One run per component, on one Skill, cache, scope or
CLI and two actors; a second Skill within bounds where Skills share something.

Every invariant, action property and refinement of the runs is a theorem, under the
hypotheses named under "What is proved". What would come next are models, not proofs:
properties for the two hazards of `PROJECT.json` that have none, and the parts named
under "What is not modelled".
