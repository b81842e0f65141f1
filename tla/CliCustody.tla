----------------------------- MODULE CliCustody -----------------------------
(***************************************************************************)
(* The accounts of one CLI (Codex, Grok, ...) and the file that CLI reads  *)
(* its login from: src/crates/ss-usage/src/usage_switch.rs and             *)
(* usage_switch/custody.rs, with the quota refresh of                      *)
(* accounts/service/refresh.rs that spends refresh tokens, the deletion of *)
(* accounts/service/crud.rs and the sign-ins that replace a credential.    *)
(*                                                                         *)
(* A credential is an account and a generation.  A refresh token works     *)
(* once: spending the newest generation issues the next, spending an older *)
(* one is refused.  SkillStar keeps a generation in the account's row and  *)
(* one in its snapshot file, and makes the CLI's live path a link to the   *)
(* snapshot; the CLI refreshes and logs in on its own.  The catalog lock   *)
(* lets one SkillStar operation run at a time (refresh_guard.rs), so there *)
(* is one `app`; the lease is the lock file of the CLI, which some CLIs    *)
(* take too (`shares`) and others do not know of.                          *)
(***************************************************************************)
EXTENDS Naturals

CONSTANTS
    Accounts,       \* the accounts a person has with the provider
    None,
    Ops,            \* the operations SkillStar runs in this instance
    MaxGen,         \* bound: generations issued for an account
    MaxFaults       \* bound: crashes, failed links and lost answers

ASSUME CustodyAssumption ==
    /\ None \notin Accounts \cup {"app", "cli"}
    /\ Ops \subseteq {"reconcile", "activate", "refresh", "delete", "login",
                      "relogin", "import"}
    /\ MaxGen \in Nat \ {0} /\ MaxFaults \in Nat

VARIABLES
    issued,     \* the newest generation the provider issued; 0 before any
    row,        \* subscriptions file: the generation in an account's row; 0 no row
    own,        \* <id>.json: an account's snapshot; 0 when there is none
    orphan,     \* external-<hash>.json: a session no row could be named for
    live,       \* the CLI's credential path: missing, a link or a real file
    pin,        \* active_per_catalog: the account last switched to
    first,      \* which snapshot read_dir lists first when two hold one token
    shares,     \* whether this CLI takes the lease itself
    lease,      \* the lock file: who holds it
    app,        \* the SkillStar operation that holds the catalog lock
    cli,        \* the CLI's own refresh: what it was issued and has yet to save
    lost,       \* history: accounts whose newest generation was lost outside
    undone,     \* history: accounts SkillStar put back to an older generation
    faults      \* bound: faults so far

custodyVars == <<issued, row, own, orphan, live, pin>>
vars == <<issued, row, own, orphan, live, pin, first, shares, lease, app, cli,
          lost, undone, faults>>

NoLive == [kind |-> "none", of |-> None, gen |-> 0]
LinkTo(a) == [kind |-> "link", of |-> a, gen |-> 0]
FileOf(a, g) == [kind |-> "file", of |-> a, gen |-> g]

\* The operation: where it is, its account, the credential in its hand, the
\* row it has yet to mirror a session into, and what was live and pinned.
Idle == [op |-> "none", at |-> "none", acct |-> None, hand |-> 0,
         who |-> None, fold |-> 0, prior |-> NoLive, pinned |-> None]
NoCli == [of |-> None, gen |-> 0, was |-> NoLive]

-----------------------------------------------------------------------------
(* Who the live path serves.                                               *)

\* live_root: the account and generation the CLI would read; gen 0 for none.
Served ==
    IF live.kind = "link" THEN [of |-> live.of, gen |-> own[live.of]]
    ELSE [of |-> live.of, gen |-> live.gen]

HasLive == Served.gen # 0

\* attribute: token equality with a snapshot first, then the row whose
\* identity it is, else an orphan.
AttributedToRow(a, g) ==
    IF own[a] = g /\ orphan[a] = g THEN first = "own"
    ELSE own[a] = g \/ (orphan[a] # g /\ row[a] # 0)

\* probe: serving `a`, by a link or by a file of the same content.
Serves(a) == HasLive /\ Served.of = a /\ AttributedToRow(a, Served.gen)

-----------------------------------------------------------------------------
At(at) == app.at = at
Goto(at) == app' = [app EXCEPT !.at = at]

\* Mutant: the lease outlives the operation.
ReturnLocked == app' = Idle /\ UNCHANGED lease

\* The operation returns: the lease and the catalog lock are dropped.
Return == app' = Idle /\ lease' = None

\* Somewhere a copy of the account's newest generation is left.
Kept(a) ==
    \/ issued[a] \in {0, row[a], own[a], orphan[a]}
    \/ live.kind = "file" /\ live.of = a /\ live.gen = issued[a]
    \/ app.op = "refresh" /\ app.acct = a /\ app.hand = issued[a]
    \/ cli.of = a /\ cli.gen = issued[a]

\* History: what a person, the CLI, the network or a crash takes away is lost
\* outside SkillStar's own decisions.  A new sign-in ends the loss.
LosesOutside == lost' = {a \in Accounts : ~Kept(a)'}
KeepsHistory == lost' = {a \in lost : issued'[a] = issued[a]}

\* bound: the provider may issue another generation.
MayIssue(a) == issued[a] < MaxGen

Faulty == faults < MaxFaults /\ faults' = faults + 1

Init ==
    /\ live \in {NoLive} \cup {FileOf(a, 1) : a \in Accounts}
    /\ row \in [Accounts -> {0, 1}]
    /\ issued = [a \in Accounts |-> IF live.of = a THEN 1 ELSE row[a]]
    /\ own = [a \in Accounts |-> 0]
    /\ orphan = [a \in Accounts |-> 0]
    /\ pin = None
    /\ first \in {"own", "orphan"}
    /\ shares \in BOOLEAN
    /\ lease = None
    /\ app = Idle
    /\ cli = NoCli
    /\ lost = {}
    /\ undone = {}
    /\ faults = 0

-----------------------------------------------------------------------------
(* Starting an operation: the catalog lock, then the lease.                *)

\* with_catalog_lock / with_catalog_refresh: one operation at a time.  A CLI
\* without a credential is not reconciled at all.
Begin(op, a) ==
    /\ app = Idle
    /\ op \in Ops
    /\ IF op = "reconcile" THEN HasLive ELSE row[a] # 0
    /\ app' = [Idle EXCEPT !.op = op, !.at = "lease", !.acct = a]
    /\ UNCHANGED <<custodyVars, first, shares, lease, cli, lost, undone, faults>>

\* Custody::lock, then what each operation does first.  A refresh of the
\* pinned account reconciles; an activation captures what it will replace.
TakeLease ==
    /\ At("lease")
    /\ lease = None
    /\ lease' = "app"
    /\ app' = [app EXCEPT
          !.prior = IF app.op = "activate" THEN live ELSE NoLive,
          !.pinned = IF app.op = "activate" THEN pin ELSE None,
          !.at = CASE app.op = "reconcile" -> "absorb"
                   [] app.op = "refresh" -> IF pin = app.acct THEN "absorb"
                                            ELSE "spend"
                   [] app.op = "activate" -> IF live.kind = "file" THEN "absorb"
                                             ELSE "prepare"
                   [] app.op = "delete" -> "forget"]
    /\ UNCHANGED <<custodyVars, first, shares, cli, lost, undone, faults>>

-----------------------------------------------------------------------------
(* reconcile and capture_live: fold what the CLI holds back into SkillStar. *)

\* Where the operation goes once the session is absorbed.
AfterAbsorb == CASE app.op = "activate" -> "prepare"
                 [] app.op = "refresh" -> "spend"
                 [] OTHER -> "done"

\* The CLI logged out since, or holds a session no row can be named for:
\* that one is kept in an orphan file of its account.
AbsorbOrphan ==
    /\ At("absorb")
    /\ ~HasLive \/ ~Serves(Served.of)
    /\ orphan' = IF HasLive /\ Served.gen > orphan[Served.of]
                 THEN [orphan EXCEPT ![Served.of] = Served.gen] ELSE orphan
    /\ Goto(AfterAbsorb)
    /\ UNCHANGED <<issued, row, own, live, pin, first, shares, lease, cli, lost,
                   undone, faults>>

\* Mutant: the row half is skipped when the snapshot needed no write.
FoldWhenWritten(a, g) == IF g > own[a] THEN g ELSE 0

\* What the row is to mirror: the session, when it is at least as fresh as the
\* snapshot, whether or not the snapshot needed the write.
Fold(a, g) == IF g >= own[a] THEN g ELSE 0

\* absorb_into_snapshot, the file: written when the session outranks it.
AbsorbFile ==
    /\ At("absorb")
    /\ \E a \in Accounts :
           /\ Serves(a)
           /\ own' = IF Served.gen > own[a] THEN [own EXCEPT ![a] = Served.gen]
                     ELSE own
           /\ app' = [app EXCEPT !.at = "mirror", !.who = a,
                                 !.fold = Fold(a, Served.gen)]
    /\ UNCHANGED <<issued, row, orphan, live, pin, first, shares, lease, cli,
                   lost, undone, faults>>

\* absorb_into_snapshot, the row: patch_oauth_credentials with the session,
\* however new the credential in the row is.
MirrorRow ==
    /\ At("mirror")
    /\ row' = IF app.fold # 0 /\ row[app.who] # 0
              THEN [row EXCEPT ![app.who] = app.fold] ELSE row
    /\ undone' = undone \cup {a \in Accounts : row'[a] < row[a]}
    /\ app' = [app EXCEPT !.at = IF app.op = "activate" THEN "prepare" ELSE "relink",
                          !.fold = 0]
    /\ UNCHANGED <<issued, own, orphan, live, pin, first, shares, lease, cli,
                   lost, faults>>

\* bind: the live path becomes a link to the snapshot, or where links are
\* refused (a fault), a copy of it.
Bind(a) ==
    \/ live' = LinkTo(a) /\ UNCHANGED faults
    \/ Faulty /\ own[a] # 0 /\ live' = FileOf(a, own[a])

\* reconcile rebuilds a clobbered link; a repair that fails is only logged.
Relink ==
    /\ At("relink")
    /\ IF live = LinkTo(app.who) THEN UNCHANGED <<live, faults>>
       ELSE Bind(app.who) \/ (Faulty /\ UNCHANGED live)
    /\ app' = [app EXCEPT !.at = AfterAbsorb, !.who = None]
    /\ UNCHANGED <<issued, row, own, orphan, pin, first, shares, lease, cli,
                   lost, undone>>

Finish ==
    /\ At("done")
    /\ Return
    /\ UNCHANGED <<custodyVars, first, shares, cli, lost, undone, faults>>

-----------------------------------------------------------------------------
(* activate: prepare the snapshot, bind, read back, and only then the pin. *)

\* Mutant: the row is installed, whatever the CLI rotated meanwhile.
PreparedFromRow(a) == row[a]

\* prepare_snapshot: the captured session, unless the row holds a newer one.
Prepared(a) == IF row[a] > own[a] THEN row[a] ELSE own[a]

Prepare ==
    /\ At("prepare")
    /\ own' = [own EXCEPT ![app.acct] = Prepared(app.acct)]
    /\ app' = [app EXCEPT !.at = "bind", !.who = None,
                          !.hand = Prepared(app.acct)]
    /\ UNCHANGED <<issued, row, orphan, live, pin, first, shares, lease, cli,
                   lost, undone, faults>>

BindLive ==
    /\ At("bind")
    /\ \/ Bind(app.acct) /\ Goto("check")
       \/ Faulty /\ UNCHANGED live /\ Goto("undo")
    /\ UNCHANGED <<issued, row, own, orphan, pin, first, shares, lease, cli,
                   lost, undone>>

\* finish_activation: a read-back that names another account is undone.
ReadBack ==
    /\ At("check")
    /\ Goto(IF Serves(app.acct) THEN "pin" ELSE "undo")
    /\ UNCHANGED <<custodyVars, first, shares, lease, cli, lost, undone, faults>>

\* Mutant: a switch that fails after the bind is left as it is.
UndoNothing ==
    /\ At("undo")
    /\ Return
    /\ UNCHANGED <<custodyVars, first, shares, cli, lost, undone, faults>>

\* rollback: the link, the backup of the real file, or nothing.  That it fails
\* is only logged.
Undo ==
    /\ At("undo")
    /\ \/ IF app.prior.kind = "link" THEN Bind(app.prior.of)
          ELSE live' = app.prior /\ UNCHANGED faults
       \/ Faulty /\ UNCHANGED live
    /\ Return
    /\ UNCHANGED <<issued, row, own, orphan, pin, first, shares, cli, lost, undone>>

\* set_active_subscription; when the pin cannot be saved the operation ends
\* there, with the new account live under the old pin.
SetPin ==
    /\ At("pin")
    /\ \/ pin' = app.acct /\ Goto("patch") /\ UNCHANGED <<faults, lease>>
       \/ Faulty /\ UNCHANGED pin /\ Return
    /\ UNCHANGED <<issued, row, own, orphan, live, first, shares, cli, lost, undone>>

\* The installed credential is folded back into the row; a failed save is
\* ignored.
PatchRow ==
    /\ At("patch")
    /\ \/ row' = [row EXCEPT ![app.acct] = app.hand] /\ UNCHANGED faults
       \/ Faulty /\ UNCHANGED row
    /\ Return
    /\ UNCHANGED <<issued, own, orphan, live, pin, first, shares, cli, lost, undone>>

-----------------------------------------------------------------------------
(* A quota refresh that spends the refresh token.                          *)

\* fetchers::refresh with the reloaded row: the access token is still good or
\* the provider refuses a spent refresh token; or it answers with the next
\* generation, or the answer is lost on the way.
FetchWithoutRotation ==
    /\ At("spend")
    /\ Return
    /\ UNCHANGED <<custodyVars, first, shares, cli, lost, undone, faults>>

Rotate ==
    /\ At("spend")
    /\ row[app.acct] = issued[app.acct]
    /\ MayIssue(app.acct)
    /\ issued' = [issued EXCEPT ![app.acct] = @ + 1]
    /\ \/ /\ app' = [app EXCEPT !.at = "save", !.hand = issued[app.acct] + 1]
          /\ UNCHANGED <<lease, faults>>
       \/ Faulty /\ Return
    /\ UNCHANGED <<row, own, orphan, live, pin, first, shares, cli, undone>>
    /\ LosesOutside

\* patch_fetcher_state.  A dead-auth verdict of the quota request that follows
\* a rotation keeps the new generation from the CLI.
SaveRow ==
    /\ At("save")
    /\ row' = [row EXCEPT ![app.acct] = app.hand]
    /\ \/ Goto("match") /\ UNCHANGED <<lease, faults>>
       \/ Faulty /\ Return
    /\ UNCHANGED <<issued, own, orphan, live, pin, first, shares, cli, lost,
                   undone>>

\* sync_refreshed_active_subscription: only the pinned account, and only while
\* the CLI still holds the generation the request spent.
StillServed(a) == pin = a /\ Serves(a) /\ Served.gen = app.hand - 1

Match ==
    /\ At("match")
    /\ IF StillServed(app.acct) THEN Goto("project") /\ UNCHANGED lease
       ELSE Return
    /\ UNCHANGED <<custodyVars, first, shares, cli, lost, undone, faults>>

\* project_refreshed: the snapshot, then the link when the path is not one.
\* A failure of either is reported and ends the refresh.
Project ==
    /\ At("project")
    /\ \/ /\ own' = [own EXCEPT ![app.acct] = app.hand]
          /\ Goto("rebind")
          /\ UNCHANGED <<lease, faults>>
       \/ Faulty /\ Return /\ UNCHANGED own
    /\ UNCHANGED <<issued, row, orphan, live, pin, first, shares, cli, lost,
                   undone>>

Rebind ==
    /\ At("rebind")
    /\ IF live = LinkTo(app.acct) THEN UNCHANGED <<live, faults>>
       ELSE Bind(app.acct) \/ (Faulty /\ UNCHANGED live)
    /\ Return
    /\ UNCHANGED <<issued, row, own, orphan, pin, first, shares, cli, lost,
                   undone>>

-----------------------------------------------------------------------------
(* Deleting an account: crud.rs delete_subscription.                       *)

\* Mutant: the snapshot goes and the CLI is left with its link.
ForgetLeavesLink ==
    /\ At("forget")
    /\ Goto("drop")
    /\ UNCHANGED <<custodyVars, first, shares, lease, cli, lost, undone, faults>>

\* forget: a CLI served by the snapshot is first left a real file.  Who is
\* served is told by identity, so a newer login in the file is overwritten.
Forget ==
    /\ At("forget")
    /\ IF Serves(app.acct) /\ own[app.acct] # 0
       THEN \/ /\ live' = FileOf(app.acct, own[app.acct])
               /\ undone' = IF Served.gen > own[app.acct]
                            THEN undone \cup {app.acct} ELSE undone
               /\ Goto("drop")
               /\ UNCHANGED <<lease, faults>>
            \/ Faulty /\ Return /\ UNCHANGED <<live, undone>>
       ELSE Goto("drop") /\ UNCHANGED <<live, undone, lease, faults>>
    /\ UNCHANGED <<issued, row, own, orphan, pin, first, shares, cli, lost>>

\* The snapshot file is removed and the lease returned.
DropSnapshot ==
    /\ At("drop")
    /\ own' = [own EXCEPT ![app.acct] = 0]
    /\ Goto("erase")
    /\ lease' = None
    /\ UNCHANGED <<issued, row, orphan, live, pin, first, shares, cli, undone,
                   faults>>
    /\ LosesOutside

\* storage::delete_subscription: the row, then the pin.
EraseRow ==
    /\ At("erase")
    /\ row' = [row EXCEPT ![app.acct] = 0]
    /\ Goto("unpin")
    /\ UNCHANGED <<issued, own, orphan, live, pin, first, shares, lease, cli,
                   undone, faults>>
    /\ LosesOutside

Unpin ==
    /\ At("unpin")
    /\ pin' = IF pin = app.acct THEN None ELSE pin
    /\ app' = Idle
    /\ UNCHANGED <<issued, row, own, orphan, live, first, shares, lease, cli,
                   lost, undone, faults>>

-----------------------------------------------------------------------------
(* Sign-ins replace the row's credential under the catalog lock alone.     *)

\* OAuth finalize: a new card, or a card signed in again.  "login" keeps to
\* accounts the CLI is not serving; "relogin" is any account.
SignIn(a) ==
    /\ app = Idle
    /\ "relogin" \in Ops \/ ("login" \in Ops /\ Served.of # a)
    /\ MayIssue(a)
    /\ issued' = [issued EXCEPT ![a] = @ + 1]
    /\ row' = [row EXCEPT ![a] = issued'[a]]
    /\ undone' = undone \ {a}
    /\ KeepsHistory
    /\ UNCHANGED <<own, orphan, live, pin, first, shares, lease, app, cli,
                   faults>>

\* local_import: a card for the account the CLI is logged in to.
Import(a) ==
    /\ app = Idle
    /\ "import" \in Ops
    /\ HasLive /\ Served.of = a /\ row[a] = 0
    /\ row' = [row EXCEPT ![a] = Served.gen]
    /\ UNCHANGED <<issued, own, orphan, live, pin, first, shares, lease, app,
                   cli, lost, undone, faults>>

-----------------------------------------------------------------------------
(* The CLI, a program of its own.                                          *)

CliMay == shares => lease = None

\* It spends the session it is served, holding the lease if it shares it.
CliSpend ==
    /\ CliMay
    /\ cli = NoCli
    /\ HasLive
    /\ Served.gen = issued[Served.of]
    /\ MayIssue(Served.of)
    /\ issued' = [issued EXCEPT ![Served.of] = @ + 1]
    /\ cli' = [of |-> Served.of, gen |-> Served.gen + 1, was |-> live]
    /\ lease' = IF shares THEN "cli" ELSE lease
    /\ undone' = undone \ {Served.of}
    /\ KeepsHistory
    /\ UNCHANGED <<row, own, orphan, live, pin, first, shares, app, faults>>

CliReturns == cli' = NoCli /\ lease' = IF shares THEN None ELSE lease

\* It saves through the link, or by renaming a new file over the path.
CliSave ==
    /\ cli # NoCli
    /\ \/ /\ live = cli.was /\ live.kind = "link"
          /\ own' = [own EXCEPT ![cli.of] = cli.gen]
          /\ UNCHANGED live
       \/ live' = FileOf(cli.of, cli.gen) /\ UNCHANGED own
    /\ CliReturns
    /\ UNCHANGED <<issued, row, orphan, pin, first, shares, app, undone, faults>>
    /\ LosesOutside

CliDies ==
    /\ cli # NoCli
    /\ Faulty
    /\ CliReturns
    /\ UNCHANGED <<custodyVars, first, shares, app, undone>>
    /\ LosesOutside

\* A login or logout in the terminal.
CliLogin(a) ==
    /\ CliMay
    /\ cli = NoCli
    /\ MayIssue(a)
    /\ issued' = [issued EXCEPT ![a] = @ + 1]
    /\ live' = FileOf(a, issued'[a])
    /\ undone' = undone \ {a}
    /\ UNCHANGED <<row, own, orphan, pin, first, shares, lease, app, cli, faults>>
    /\ LosesOutside

CliLogout ==
    /\ CliMay
    /\ cli = NoCli
    /\ live # NoLive
    /\ live' = NoLive
    /\ UNCHANGED <<issued, row, own, orphan, pin, first, shares, lease, app, cli,
                   undone, faults>>
    /\ LosesOutside

\* SkillStar dies: both locks are the operating system's and are released.
Crash ==
    /\ app # Idle
    /\ Faulty
    /\ app' = Idle
    /\ lease' = IF lease = "app" THEN None ELSE lease
    /\ UNCHANGED <<custodyVars, first, shares, cli, undone>>
    /\ LosesOutside

-----------------------------------------------------------------------------
Next ==
    \/ \E a \in Accounts :
          \/ \E op \in {"activate", "refresh", "delete"} : Begin(op, a)
          \/ SignIn(a) \/ Import(a) \/ CliLogin(a)
    \/ Begin("reconcile", None)
    \/ TakeLease
    \/ AbsorbOrphan \/ AbsorbFile \/ MirrorRow \/ Relink \/ Finish
    \/ Prepare \/ BindLive \/ ReadBack \/ Undo \/ SetPin \/ PatchRow
    \/ FetchWithoutRotation \/ Rotate \/ SaveRow \/ Match \/ Project \/ Rebind
    \/ Forget \/ DropSnapshot \/ EraseRow \/ Unpin
    \/ CliSpend \/ CliSave \/ CliDies \/ CliLogout
    \/ Crash

Spec == Init /\ [][Next]_vars

-----------------------------------------------------------------------------
(* Properties.                                                             *)

Locked == {"absorb", "mirror", "relink", "done", "prepare", "bind", "check",
           "undo", "pin", "patch", "spend", "save", "match", "project",
           "rebind", "forget", "drop"}

\* Types; the lease is SkillStar's exactly while an operation works on the
\* credentials, and the CLI's only while it has a refresh under way.
TypeOK ==
    /\ \A gens \in {issued, row, own, orphan} : gens \in [Accounts -> 0..MaxGen]
    /\ \A a \in Accounts : {row[a], own[a], orphan[a]} \subseteq 0..issued[a]
    /\ live \in {NoLive} \cup {LinkTo(a) : a \in Accounts}
              \cup {FileOf(a, g) : a \in Accounts, g \in 1..MaxGen}
    /\ pin \in Accounts \cup {None}
    /\ lease \in {None, "app", "cli"}
    /\ lease = "app" <=> app.at \in Locked
    /\ lease = "cli" => shares /\ cli # NoCli
    /\ lost \subseteq Accounts /\ undone \subseteq Accounts
    /\ faults \in 0..MaxFaults

\* The CLI's path never links to a snapshot that is gone: it could not log in
\* at all.  (Where read_dir lists an orphan first, an activation that died
\* before its read-back leaves a link that probe does not see; see README.)
NeverDangling ==
    first = "own" => (live.kind = "link" => own[live.of] # 0)

\* SkillStar never throws away the one spendable credential of an account: the
\* newest generation is in a row, a snapshot, the live file or in a hand,
\* unless a person, the CLI, a crash or the network lost it, a reconcile put
\* the row back (MirrorRow) or a deletion the live file (Forget).
SessionsKept ==
    shares => \A a \in Accounts : Kept(a) \/ a \in lost \/ a \in undone

\* A reconcile leaves card, snapshot and CLI with one credential, unless the
\* CLI was found on a session older than the snapshot's: that one is replaced
\* without a look at the row (README, "Observed").
CardsAgree ==
    shares /\ At("relink") /\ Served.gen >= own[app.who] =>
        /\ own[app.who] = Served.gen
        /\ row[app.who] \in {0, Served.gen}

\* A switch that ends on its own is whole: the new account is served and
\* pinned, or the old pin stands and the CLI serves whom it served before.
SwitchIsWhole ==
    [][shares /\ app.op = "activate" /\ app' = Idle /\ faults' = faults =>
          \/ pin' = app.acct /\ Served'.of = app.acct /\ At("patch")
          \/ pin' = app.pinned /\ Served'.of = app.prior.of]_vars

=============================================================================
