------------------------------ MODULE AccountProofs -------------------------
(***************************************************************************)
(* Proofs about the accounts.                                              *)
(*                                                                         *)
(* CliCustody, for any number of accounts, generations and faults: nobody  *)
(* holds a credential that was not issued, the path of the CLI never links *)
(* to nothing, the newest session of an account is never thrown away, a    *)
(* reconcile leaves one credential, and a switch is whole or undone.       *)
(*                                                                         *)
(* OAuthLogin, for any number of sign-ins and dialogs: the types, and that *)
(* one cancelled before its approval adds no account row, for the two      *)
(* kinds whose worker looks at the registry or listens.                    *)
(***************************************************************************)
EXTENDS CliCustody, OAuthLogin, TLAPS

\* The steps of an operation, by operation.
Steps(op) == CASE op = "reconcile" -> {"lease", "absorb", "mirror", "relink", "done"}
               [] op = "activate"  -> {"lease", "absorb", "mirror", "prepare", "bind",
                                       "check", "undo", "pin", "patch"}
               [] op = "refresh"   -> {"lease", "absorb", "mirror", "relink", "spend",
                                       "save", "match", "project", "rebind"}
               [] op = "delete"    -> {"lease", "forget", "drop", "erase", "unpin"}
               [] op = "none"      -> {"none"}

Attributed == {"mirror", "relink"}
Switching  == {"bind", "check", "undo", "pin", "patch"}
Rotated    == {"save", "match", "project", "rebind"}

\* A live path, now or as an operation remembers it.
Paths == [kind : {"none", "link", "file"}, of : Accounts \cup {None}, gen : 0 .. MaxGen]

LiveOK(l) ==
    /\ l \in Paths
    /\ l.kind = "none" => l.of = None /\ l.gen = 0
    /\ l.kind = "link" => l.of \in Accounts /\ l.gen = 0
    /\ l.kind = "file" => l.of \in Accounts /\ l.gen \in 1 .. issued[l.of]

\* Nobody holds a generation the provider has not issued ...
CredentialsOK ==
    /\ issued \in [Accounts -> 0 .. MaxGen]
    /\ row \in [Accounts -> 0 .. MaxGen]
    /\ own \in [Accounts -> 0 .. MaxGen]
    /\ orphan \in [Accounts -> 0 .. MaxGen]
    /\ \A a \in Accounts : row[a] <= issued[a] /\ own[a] <= issued[a] /\ orphan[a] <= issued[a]
    /\ LiveOK(live)
    /\ pin \in Accounts \cup {None}

\* ... neither an operation ...
Places == Locked \cup {"none", "lease", "erase", "unpin"}

Tasks == [op : {"none", "reconcile", "activate", "refresh", "delete"}, at : Places,
          acct : Accounts \cup {None}, hand : 0 .. MaxGen, who : Accounts \cup {None},
          fold : 0 .. MaxGen, prior : Paths, pinned : Accounts \cup {None}]

OperationOK ==
    /\ app.op = "none" => app = Idle
    /\ app.at \in Steps(app.op)
    /\ app.op \in {"activate", "refresh", "delete"} => app.acct \in Accounts
    /\ app.op \in {"activate", "refresh"} => row[app.acct] # 0
    /\ app.at \in Attributed =>
         /\ app.who \in Accounts /\ own[app.who] # 0
         /\ app.fold <= issued[app.who]
    /\ app.at \in Switching =>
         /\ app.hand \in 1 .. issued[app.acct] /\ own[app.acct] # 0
    /\ app.at \in Rotated => app.hand \in 1 .. issued[app.acct]
    /\ app.op = "refresh" /\ app.at \notin Rotated => app.hand = 0
    /\ app.at = "rebind" => own[app.acct] # 0
    /\ LiveOK(app.prior)

\* ... nor the CLI; each holds the lease while it should.
CliOK ==
    /\ cli.of \in Accounts \cup {None}
    /\ cli.of = None => cli = NoCli
    /\ cli.of # None => /\ cli.gen \in 1 .. issued[cli.of]
                        /\ LiveOK(cli.was)
    /\ shares \in BOOLEAN /\ first \in {"own", "orphan"}
    /\ lease \in {None, "app", "cli"}
    /\ lease = "app" <=> app.at \in Locked
    /\ lease = "cli" <=> shares /\ cli.of # None
    /\ lost \subseteq Accounts /\ undone \subseteq Accounts
    /\ faults \in 0 .. MaxFaults

Typed == CredentialsOK /\ app \in Tasks /\ OperationOK /\ CliOK

\* Neither the live path nor what a switch would put back links to nothing, and a
\* deletion that removes a snapshot has left no link to it.
Linked ==
    first = "own" =>
        /\ live.kind = "link" => own[live.of] # 0
        /\ app.op = "activate" /\ app.prior.kind = "link" => own[app.prior.of] # 0
        /\ app.at = "drop" => ~(live.kind = "link" /\ live.of = app.acct)

\* What a copy on its way stands for: with the lease held, what is about to be
\* overwritten is no newer than what stays.
Covered ==
    shares =>
        /\ \A a \in Accounts : Kept(a) \/ a \in lost \/ a \in undone
        /\ app.at \in Attributed =>
             /\ live.of = app.who /\ Served.gen # 0 /\ Served.gen <= own[app.who]
        /\ app.at = "mirror" /\ Served.gen = own[app.who] => app.fold = own[app.who]
        /\ app.at = "relink" /\ Served.gen = own[app.who] =>
             row[app.who] \in {0, own[app.who]}
        /\ app.at \in {"prepare", "bind", "check", "undo"} /\ live.kind = "file" =>
             live.gen <= own[live.of] \/ live.gen <= orphan[live.of]
        /\ app.at \in Switching => row[app.acct] <= app.hand
        /\ app.at \in Rotated => app.hand = issued[app.acct]
        /\ app.at \in {"match", "project", "rebind"} => row[app.acct] = app.hand
        /\ app.at \in {"project", "rebind"} => live.of = app.acct

\* A switch leaves the pin alone until the new account is served.
Pinned ==
    app.op = "activate" =>
        /\ app.at \notin {"lease", "patch"} => pin = app.pinned
        /\ app.at = "patch" => pin = app.acct
        /\ shares /\ app.at \in {"pin", "patch"} => live.of = app.acct
-----------------------------------------------------------------------------
\* What the step an operation is at says of it.
LEMMA AtWork ==
    ASSUME Typed
    PROVE  /\ app.at \in {"prepare"} \cup Switching =>
                app.op = "activate" /\ app.acct \in Accounts /\ row[app.acct] # 0
           /\ app.at \in {"spend"} \cup Rotated =>
                app.op = "refresh" /\ app.acct \in Accounts /\ row[app.acct] # 0
           /\ app.at \in {"forget", "drop", "erase", "unpin"} =>
                app.op = "delete" /\ app.acct \in Accounts
           /\ app.at \in {"absorb"} \cup Attributed =>
                app.op \in {"reconcile", "activate", "refresh"}
           /\ app.at = "relink" => app.op \in {"reconcile", "refresh"}
           /\ app.at = "done" => app.op = "reconcile"
  BY DEF Typed, OperationOK, Tasks, Steps, Switching, Rotated, Attributed

\* What is served has been issued.
LEMMA ServedOK ==
    ASSUME Typed
    PROVE  /\ Served.of = live.of /\ Served.gen \in 0 .. MaxGen
           /\ HasLive => Served.of \in Accounts /\ Served.gen \in 1 .. issued[Served.of]
           /\ \A a \in Accounts : Serves(a) =>
                live.of = a /\ Served.gen \in 1 .. issued[a] /\ Served.gen <= MaxGen
           /\ 0 \in 0 .. MaxGen
  <1>1. Served.of = live.of
    BY DEF Served
  <1>2. CASE live.kind = "link"
    BY <1>1, <1>2, CustodyAssumption DEF Typed, CredentialsOK, LiveOK, Served, HasLive, Serves
  <1>3. CASE live.kind # "link"
    BY <1>1, <1>3, CustodyAssumption DEF Typed, CredentialsOK, LiveOK, Paths, Served, HasLive, Serves
  <1> QED
    BY <1>2, <1>3

\* No live path is one.
LEMMA NothingLive == LiveOK(NoLive) /\ LiveOK(NoLive)'
  BY CustodyAssumption DEF LiveOK, NoLive, Paths

\* With a CLI that shares the lease, it and an operation take turns.
LEMMA TakingTurns ==
    ASSUME Typed, shares, CliMay \/ cli # NoCli
    PROVE  app.at \notin Locked
  BY CustodyAssumption DEF Typed, CliOK, CliMay, NoCli

\* A fault more or none.
LEMMA FaultsBounded ==
    ASSUME Typed, Faulty \/ UNCHANGED faults
    PROVE  faults' \in 0 .. MaxFaults
  BY CustodyAssumption DEF Typed, CliOK, Faulty

\* A link or a copy in place of the live path.
LEMMA Binding ==
    ASSUME NEW a, Bind(a)
    PROVE  /\ live'.of = a /\ live'.kind \in {"link", "file"}
           /\ live'.kind = "link" => live'.gen = 0
           /\ live'.kind = "file" => live'.gen = own[a] /\ own[a] # 0
           /\ Faulty \/ UNCHANGED faults
  BY DEF Bind, LinkTo, FileOf

\* A rotation: the next generation is in the operation's hand, or its answer is
\* lost.
LEMMA RotateEffect ==
    ASSUME Typed, Rotate
    PROVE  /\ app.at = "spend" /\ app.op = "refresh" /\ app.acct \in Accounts /\ row[app.acct] # 0
           /\ issued'[app.acct] = issued[app.acct] + 1 /\ issued'[app.acct] \in 1 .. MaxGen
           /\ \A b \in Accounts :
                issued[b] <= issued'[b] /\ {issued[b], issued'[b]} \subseteq 0 .. MaxGen
           /\ \/ app' = Idle /\ lease' = None
              \/ /\ app'.op = app.op /\ app'.at = "save" /\ app'.acct = app.acct
                 /\ app'.hand = issued'[app.acct] /\ app'.prior = app.prior
                 /\ lease' = lease
  <1>1. app.at = "spend" /\ app.op = "refresh" /\ app.acct \in Accounts /\ row[app.acct] # 0
    BY AtWork DEF Rotate, At
  <1>2. /\ issued'[app.acct] = issued[app.acct] + 1 /\ issued'[app.acct] \in 1 .. MaxGen
        /\ \A b \in Accounts :
             issued[b] <= issued'[b] /\ {issued[b], issued'[b]} \subseteq 0 .. MaxGen
    BY <1>1, CustodyAssumption DEF Typed, CredentialsOK, Rotate, MayIssue
  <1>3. \/ app' = Idle /\ lease' = None
        \/ app' = [app EXCEPT !.at = "save", !.hand = issued[app.acct] + 1] /\ lease' = lease
    BY DEF Rotate, Return
  <1>4. ASSUME app' = [app EXCEPT !.at = "save", !.hand = issued[app.acct] + 1]
        PROVE  /\ app'.op = app.op /\ app'.at = "save" /\ app'.acct = app.acct
               /\ app'.hand = issued'[app.acct] /\ app'.prior = app.prior
    BY <1>2, <1>4 DEF Typed, Tasks
  <1> QED
    BY <1>1, <1>2, <1>3, <1>4

\* An operation that returns, one that goes on.
LEMMA TaskReturns == Idle \in Tasks
  BY CustodyAssumption DEF Idle, NoLive, Tasks, Places, Paths

\* An operation that goes on to its next step stays one.
LEMMA TaskGoes ==
    ASSUME app \in Tasks, NEW at \in Places
    PROVE  [app EXCEPT !.at = at] \in Tasks
  BY DEF Tasks

\* No step makes an operation something else.
LEMMA TaskStep ==
    ASSUME Typed, Next
    PROVE  app' \in Tasks
  <1>0. app \in Tasks
    BY DEF Typed
  <1>1. ASSUME NEW op \in {"reconcile", "activate", "refresh", "delete"},
               NEW a \in Accounts \cup {None}, Begin(op, a)
        PROVE  app' \in Tasks
    <2>1. app' = [Idle EXCEPT !.op = op, !.at = "lease", !.acct = a] /\ "lease" \in Places
      BY <1>1 DEF Begin, Places
    <2> QED
      BY <2>1, TaskReturns DEF Tasks
  <1>2. CASE TakeLease
    <2> DEFINE prior == IF app.op = "activate" THEN live ELSE NoLive
               pinned == IF app.op = "activate" THEN pin ELSE None
    <2>1. prior \in Paths /\ pinned \in Accounts \cup {None}
      BY CustodyAssumption DEF Typed, CredentialsOK, LiveOK, NoLive, Paths
    <2>2. app.op \in {"reconcile", "activate", "refresh", "delete"}
      BY <1>0, <1>2 DEF Typed, OperationOK, Tasks, Idle, TakeLease, At
    <2>3. PICK at \in Places : app' = [app EXCEPT !.prior = prior, !.pinned = pinned, !.at = at]
      BY <1>2, <2>2 DEF TakeLease, Places, Locked
    <2> HIDE DEF prior, pinned
    <2> QED
      BY <1>0, <2>1, <2>3 DEF Tasks
  <1>3. CASE AbsorbFile
    <2>1. PICK a \in Accounts :
             /\ Serves(a)
             /\ app' = [app EXCEPT !.at = "mirror", !.who = a, !.fold = Fold(a, Served.gen)]
      BY <1>3 DEF AbsorbFile
    <2>2. Fold(a, Served.gen) \in 0 .. MaxGen /\ "mirror" \in Places
      BY <2>1, ServedOK DEF Fold, Places, Locked
    <2> QED
      BY <1>0, <2>1, <2>2 DEF Tasks
  <1>4. CASE MirrorRow
    <2>1. PICK at \in Places : app' = [app EXCEPT !.at = at, !.fold = 0]
      BY <1>4 DEF MirrorRow, Places, Locked
    <2>2. 0 \in 0 .. MaxGen
      BY CustodyAssumption
    <2> QED
      BY <1>0, <2>1, <2>2 DEF Tasks
  <1>5. CASE Relink
    <2>1. PICK at \in Places : app' = [app EXCEPT !.at = at, !.who = None]
      BY <1>5 DEF Relink, AfterAbsorb, Places, Locked
    <2> QED
      BY <1>0, <2>1 DEF Tasks
  <1>6. CASE Prepare
    <2>1. Prepared(app.acct) \in 0 .. MaxGen /\ "bind" \in Places
      BY <1>6, AtWork DEF Prepare, At, Typed, CredentialsOK, Prepared, Places, Locked
    <2>2. app' = [app EXCEPT !.at = "bind", !.who = None, !.hand = Prepared(app.acct)]
      BY <1>6 DEF Prepare
    <2> HIDE DEF Prepared
    <2> QED
      BY <1>0, <2>1, <2>2 DEF Tasks
  <1>7. CASE Rotate
    <2>1. issued[app.acct] + 1 \in 0 .. MaxGen /\ "save" \in Places
      BY <1>7, AtWork, CustodyAssumption DEF Rotate, At, MayIssue, Typed, CredentialsOK, Places, Locked
    <2>2. app' \in {Idle, [app EXCEPT !.at = "save", !.hand = issued[app.acct] + 1]}
      BY <1>7 DEF Rotate, Return
    <2>3. [app EXCEPT !.at = "save", !.hand = issued[app.acct] + 1] \in Tasks
      BY <1>0, <2>1 DEF Tasks
    <2> QED
      BY <2>2, <2>3, TaskReturns
  <1>8. CASE AbsorbOrphan \/ BindLive \/ ReadBack \/ SetPin \/ SaveRow \/ Match \/ Project
             \/ Forget \/ DropSnapshot \/ EraseRow
    <2>1. app' = Idle \/ \E at \in Places : app' = [app EXCEPT !.at = at]
      BY <1>8 DEF AbsorbOrphan, AfterAbsorb, BindLive, ReadBack, SetPin, SaveRow, Match, Project,
         Forget, DropSnapshot, EraseRow, Goto, Return, Places, Locked
    <2> QED
      BY <1>0, <2>1, TaskReturns, TaskGoes
  <1>9. CASE Finish \/ Undo \/ PatchRow \/ FetchWithoutRotation \/ Rebind \/ Unpin \/ Crash
    BY <1>9, TaskReturns DEF Finish, Undo, PatchRow, FetchWithoutRotation, Rebind, Unpin, Crash,
       Return
  <1>10. ASSUME NEW a \in Accounts, SignIn(a) \/ Import(a) \/ CliLogin(a) PROVE app' \in Tasks
    BY <1>0, <1>10 DEF SignIn, Import, CliLogin
  <1>11. CASE CliSpend \/ CliSave \/ CliDies \/ CliLogout
    BY <1>0, <1>11 DEF CliSpend, CliSave, CliDies, CliLogout
  <1> QED
    BY <1>1, <1>2, <1>3, <1>4, <1>5, <1>6, <1>7, <1>8, <1>9, <1>10, <1>11 DEF Next

\* The row mirrors a session the provider issued.
LEMMA MirrorRowCredentials ==
    ASSUME Typed, MirrorRow PROVE CredentialsOK'
  <1>1. app.who \in Accounts /\ app.fold \in 0 .. issued[app.who] /\ app.fold \in 0 .. MaxGen
    BY DEF Typed, OperationOK, Tasks, MirrorRow, At, Attributed
  <1>2. row' \in {row, [row EXCEPT ![app.who] = app.fold]}
    BY DEF MirrorRow
  <1> QED
    BY <1>1, <1>2 DEF Typed, CredentialsOK, MirrorRow, LiveOK

\* A repaired link leads to a snapshot, or a copy of one is left.
LEMMA RelinkCredentials ==
    ASSUME Typed, Relink PROVE CredentialsOK'
  <1>1. app.who \in Accounts /\ own[app.who] \in 1 .. issued[app.who] /\ own[app.who] <= MaxGen
    BY DEF Typed, CredentialsOK, OperationOK, Relink, At, Attributed
  <1>2. live' \in {live, LinkTo(app.who), FileOf(app.who, own[app.who])}
    BY DEF Relink, Bind
  <1> QED
    BY <1>1, <1>2, CustodyAssumption DEF Typed, CredentialsOK, Relink, LiveOK, Paths, LinkTo, FileOf

\* So does what a switch binds.
LEMMA BindLiveCredentials ==
    ASSUME Typed, BindLive PROVE CredentialsOK'
  <1>1. app.acct \in Accounts /\ own[app.acct] \in 1 .. issued[app.acct] /\ own[app.acct] <= MaxGen
    BY AtWork DEF Typed, CredentialsOK, OperationOK, BindLive, At, Switching
  <1>2. live' \in {live, LinkTo(app.acct), FileOf(app.acct, own[app.acct])}
    BY DEF BindLive, Bind
  <1> QED
    BY <1>1, <1>2, CustodyAssumption DEF Typed, CredentialsOK, BindLive, LiveOK, Paths, LinkTo, FileOf

\* The pin names the account of the operation.
LEMMA SetPinCredentials ==
    ASSUME Typed, SetPin PROVE CredentialsOK'
  <1>1. app.acct \in Accounts
    BY AtWork DEF SetPin, At, Switching
  <1> QED
    BY <1>1 DEF Typed, CredentialsOK, SetPin, LiveOK, Paths

\* The row is folded to the credential installed, which was issued.
LEMMA PatchRowCredentials ==
    ASSUME Typed, PatchRow PROVE CredentialsOK'
  <1>1. app.acct \in Accounts /\ app.hand \in 1 .. issued[app.acct] /\ app.hand \in 0 .. MaxGen
    BY AtWork DEF Typed, OperationOK, Tasks, PatchRow, At, Switching
  <1>2. row' \in {row, [row EXCEPT ![app.acct] = app.hand]}
    BY DEF PatchRow
  <1> QED
    BY <1>1, <1>2 DEF Typed, CredentialsOK, PatchRow, LiveOK

\* A rotation only adds a generation.
LEMMA RotateCredentials ==
    ASSUME Typed, Rotate PROVE CredentialsOK'
  <1>1. issued' \in [Accounts -> 0 .. MaxGen]
    BY RotateEffect DEF Rotate, Typed, CredentialsOK
  <1> QED
    BY <1>1, RotateEffect DEF Typed, CredentialsOK, Rotate, LiveOK

\* The row takes the generation the provider answered with.
LEMMA SaveRowCredentials ==
    ASSUME Typed, SaveRow PROVE CredentialsOK'
  <1>1. app.acct \in Accounts /\ app.hand \in 1 .. issued[app.acct] /\ app.hand \in 0 .. MaxGen
    BY AtWork DEF Typed, OperationOK, Tasks, SaveRow, At, Rotated
  <1> QED
    BY <1>1 DEF Typed, CredentialsOK, SaveRow, LiveOK

\* So does the snapshot.
LEMMA ProjectCredentials ==
    ASSUME Typed, Project PROVE CredentialsOK'
  <1>1. app.acct \in Accounts /\ app.hand \in 1 .. issued[app.acct] /\ app.hand \in 0 .. MaxGen
    BY AtWork DEF Typed, OperationOK, Tasks, Project, At, Rotated
  <1>2. own' \in {own, [own EXCEPT ![app.acct] = app.hand]}
    BY DEF Project
  <1> QED
    BY <1>1, <1>2 DEF Typed, CredentialsOK, Project, LiveOK

\* The link that follows a projection leads to a snapshot.
LEMMA RebindCredentials ==
    ASSUME Typed, Rebind PROVE CredentialsOK'
  <1>1. app.acct \in Accounts /\ own[app.acct] \in 1 .. issued[app.acct] /\ own[app.acct] <= MaxGen
    BY AtWork DEF Typed, CredentialsOK, OperationOK, Rebind, At, Rotated
  <1>2. live' \in {live, LinkTo(app.acct), FileOf(app.acct, own[app.acct])}
    BY DEF Rebind, Bind
  <1> QED
    BY <1>1, <1>2, CustodyAssumption DEF Typed, CredentialsOK, Rebind, LiveOK, Paths, LinkTo, FileOf

\* A dropped snapshot is none.
LEMMA DropSnapshotCredentials ==
    ASSUME Typed, DropSnapshot PROVE CredentialsOK'
  <1>1. app.acct \in Accounts
    BY AtWork DEF DropSnapshot, At
  <1> QED
    BY <1>1, CustodyAssumption DEF Typed, CredentialsOK, DropSnapshot, LiveOK

\* An erased row is none.
LEMMA EraseRowCredentials ==
    ASSUME Typed, EraseRow PROVE CredentialsOK'
  <1>1. app.acct \in Accounts
    BY AtWork DEF EraseRow, At
  <1> QED
    BY <1>1, CustodyAssumption DEF Typed, CredentialsOK, EraseRow, LiveOK

\* The CLI saves what it was issued.
LEMMA CliSaveCredentials ==
    ASSUME Typed, CliSave PROVE CredentialsOK'
  <1>0. cli.of \in Accounts /\ cli.gen \in 1 .. issued[cli.of]
    BY DEF Typed, CliOK, CliSave
  <1>1. cli.of \in Accounts /\ cli.gen \in 1 .. issued[cli.of] /\ cli.gen \in 0 .. MaxGen
    <2>1. issued[cli.of] \in 0 .. MaxGen
      BY <1>0 DEF Typed, CredentialsOK
    <2> QED
      BY <1>0, <2>1, CustodyAssumption
  <1>2. UNCHANGED <<issued, row, orphan, pin>>
    BY DEF CliSave
  <1>3. CASE own' = [own EXCEPT ![cli.of] = cli.gen] /\ live' = live
    BY <1>1, <1>2, <1>3 DEF Typed, CredentialsOK, LiveOK
  <1>4. CASE own' = own /\ live' = FileOf(cli.of, cli.gen)
    <2>1. LiveOK(live)'
      BY <1>1, <1>2, <1>4, CustodyAssumption DEF LiveOK, Paths, FileOf
    <2> QED
      BY <1>2, <1>4, <2>1 DEF Typed, CredentialsOK
  <1> QED
    BY <1>3, <1>4 DEF CliSave

\* No step breaks the types of the credentials ...
LEMMA CredentialsStep ==
    ASSUME Typed, Next
    PROVE  CredentialsOK'
  <1>1. ASSUME NEW op \in {"reconcile", "activate", "refresh", "delete"},
               NEW a \in Accounts \cup {None}, op = "reconcile" \/ a \in Accounts,
               Begin(op, a)
        PROVE  CredentialsOK'
    BY <1>1 DEF Typed, CredentialsOK, Begin, custodyVars, LiveOK
  <1>2. CASE TakeLease \/ Finish \/ ReadBack \/ FetchWithoutRotation \/ Match \/
           CliDies \/ Crash
    BY <1>2 DEF Typed, CredentialsOK, TakeLease, custodyVars, Finish, ReadBack,
       FetchWithoutRotation, Match, CliDies, Crash, LiveOK
  <1>3. ASSUME NEW a \in Accounts, SignIn(a) PROVE CredentialsOK'
    BY <1>3, CustodyAssumption DEF Typed, CredentialsOK, SignIn, MayIssue, LiveOK
  <1>4. ASSUME NEW a \in Accounts, Import(a) PROVE CredentialsOK'
    BY <1>4 DEF Typed, CredentialsOK, Import, Served, LiveOK, Paths
  <1>5. ASSUME NEW a \in Accounts, CliLogin(a) PROVE CredentialsOK'
    BY <1>5, CustodyAssumption DEF Typed, CredentialsOK, CliLogin, FileOf, MayIssue,
       LiveOK, Paths
  <1>6. CASE AbsorbOrphan
    BY <1>6 DEF Typed, CredentialsOK, AbsorbOrphan, HasLive, Served, LiveOK, Paths
  <1>7. CASE AbsorbFile
    BY <1>7 DEF Typed, CredentialsOK, AbsorbFile, Served, Serves, LiveOK, Paths
  <1>8. CASE MirrorRow
    BY <1>8, MirrorRowCredentials
  <1>9. CASE Relink
    BY <1>9, RelinkCredentials
  <1>10. CASE Prepare
    BY <1>10, AtWork DEF Typed, CredentialsOK, Prepare, At, Prepared, LiveOK
  <1>11. CASE BindLive
    BY <1>11, BindLiveCredentials
  <1>12. CASE Undo
    BY <1>12 DEF Typed, CredentialsOK, OperationOK, Undo, Bind, FileOf, LinkTo, LiveOK,
       Paths
  <1>13. CASE SetPin
    BY <1>13, SetPinCredentials
  <1>14. CASE PatchRow
    BY <1>14, PatchRowCredentials
  <1>15. CASE Rotate
    BY <1>15, RotateCredentials
  <1>16. CASE SaveRow
    BY <1>16, SaveRowCredentials
  <1>17. CASE Project
    BY <1>17, ProjectCredentials
  <1>18. CASE Rebind
    BY <1>18, RebindCredentials
  <1>19. CASE Forget
    BY <1>19 DEF Typed, CredentialsOK, Forget, FileOf, HasLive, Served, Serves, LiveOK,
       Paths
  <1>20. CASE DropSnapshot
    BY <1>20, DropSnapshotCredentials
  <1>21. CASE EraseRow
    BY <1>21, EraseRowCredentials
  <1>22. CASE Unpin
    BY <1>22 DEF Typed, CredentialsOK, Unpin, LiveOK
  <1>23. CASE CliSpend
    BY <1>23, CustodyAssumption DEF Typed, CredentialsOK, CliSpend, HasLive, MayIssue,
       Served, LiveOK, Paths
  <1>24. CASE CliSave
    BY <1>24, CliSaveCredentials
  <1>25. CASE CliLogout
    BY <1>25, ServedOK DEF Typed, CredentialsOK, CliLogout, NoLive, LiveOK, Paths
  <1> QED
    BY <1>1, <1>2, <1>3, <1>4, <1>5, <1>6, <1>7, <1>8, <1>9, <1>10, <1>11, <1>12,
       <1>13, <1>14, <1>15, <1>16, <1>17, <1>18, <1>19, <1>20, <1>21, <1>22, <1>23,
       <1>24, <1>25 DEF Next

\* An operation that has the lease goes to the first step of its kind.
LEMMA TakeLeaseOperation ==
    ASSUME Typed, TakeLease PROVE OperationOK'
  <1>1. app.at = "lease" /\ app.op \in {"reconcile", "refresh", "activate", "delete"}
    BY DEF Typed, OperationOK, Tasks, Idle, TakeLease, At
  <1>2. /\ app'.op = app.op /\ app'.acct = app.acct /\ app'.hand = app.hand /\ app'.who = app.who
        /\ app'.fold = app.fold
        /\ app'.prior = (IF app.op = "activate" THEN live ELSE NoLive)
        /\ app'.at = (CASE app.op = "reconcile" -> "absorb"
                        [] app.op = "refresh" -> IF pin = app.acct THEN "absorb" ELSE "spend"
                        [] app.op = "activate" -> IF live.kind = "file" THEN "absorb" ELSE "prepare"
                        [] app.op = "delete" -> "forget")
        /\ row' = row /\ own' = own /\ issued' = issued
    BY DEF Typed, Tasks, TakeLease, custodyVars
  <1>3. LiveOK(app.prior)'
    BY <1>1, <1>2, NothingLive DEF Typed, CredentialsOK, LiveOK
  <1>4. app'.at \in Steps(app'.op) /\ app'.at \notin Attributed \cup Switching \cup Rotated
    BY <1>1, <1>2 DEF Steps, Attributed, Switching, Rotated
  <1> QED
    BY <1>1, <1>2, <1>3, <1>4 DEF Typed, OperationOK, Attributed, Switching, Rotated

\* What is absorbed has an account and was issued.
LEMMA AbsorbFileOperation ==
    ASSUME Typed, AbsorbFile PROVE OperationOK'
  <1>1. PICK a \in Accounts :
           /\ Serves(a)
           /\ own' = IF Served.gen > own[a] THEN [own EXCEPT ![a] = Served.gen] ELSE own
           /\ app' = [app EXCEPT !.at = "mirror", !.who = a, !.fold = Fold(a, Served.gen)]
    BY DEF AbsorbFile
  <1>2. Served.gen \in 1 .. issued[a] /\ Fold(a, Served.gen) \in 0 .. issued[a]
    BY <1>1, ServedOK DEF Fold, Typed, CredentialsOK
  <1>3. own'[a] # 0
    BY <1>1, <1>2 DEF Typed, CredentialsOK
  <1>4. app.op \in {"reconcile", "activate", "refresh"} /\ app.at = "absorb"
    BY AtWork DEF AbsorbFile, At
  <1>5. /\ app'.op = app.op /\ app'.acct = app.acct /\ app'.hand = app.hand /\ app'.who = a
        /\ app'.fold = Fold(a, Served.gen) /\ app'.prior = app.prior /\ app'.at = "mirror"
        /\ row' = row /\ issued' = issued
    BY <1>1 DEF Typed, Tasks, AbsorbFile
  <1> QED
    BY <1>2, <1>3, <1>4, <1>5 DEF Typed, OperationOK, Steps, Attributed, Switching, Rotated, LiveOK

\* The row of an operation is not lost in the mirror.
LEMMA MirrorRowOperation ==
    ASSUME Typed, MirrorRow PROVE OperationOK'
  <1>1. app.who \in Accounts /\ app.fold \in 0 .. MaxGen /\ app.at = "mirror"
        /\ app.op \in {"reconcile", "activate", "refresh"}
    BY AtWork DEF Typed, OperationOK, Tasks, MirrorRow, At, Attributed
  <1>2. \A a \in Accounts : row[a] # 0 => row'[a] # 0
    BY <1>1 DEF MirrorRow, Typed, CredentialsOK
  <1>3. /\ app'.op = app.op /\ app'.acct = app.acct /\ app'.hand = app.hand /\ app'.who = app.who
        /\ app'.fold = 0 /\ app'.prior = app.prior
        /\ app'.at = IF app.op = "activate" THEN "prepare" ELSE "relink"
        /\ own' = own /\ issued' = issued
    BY DEF Typed, Tasks, MirrorRow
  <1>4. issued[app.who] >= 0
    BY <1>1 DEF Typed, CredentialsOK
  <1> QED
    BY <1>1, <1>2, <1>3, <1>4 DEF Typed, OperationOK, Steps, Attributed, Switching, Rotated, LiveOK

\* A repaired link ends the reconcile, and a refresh goes on to spend.
LEMMA RelinkOperation ==
    ASSUME Typed, Relink PROVE OperationOK'
  <1>1. app.at = "relink" /\ app.op \in {"reconcile", "refresh"}
    BY AtWork DEF Relink, At
  <1>2. app' = [app EXCEPT !.at = IF app.op = "refresh" THEN "spend" ELSE "done", !.who = None]
    BY <1>1 DEF Relink, AfterAbsorb
  <1> QED
    BY <1>1, <1>2 DEF Typed, OperationOK, Relink, Steps, Attributed, Switching, Rotated, LiveOK, Tasks, Idle

\* A prepared snapshot holds what the operation will install.
LEMMA PrepareOperation ==
    ASSUME Typed, Prepare PROVE OperationOK'
  <1>1. app.at = "prepare" /\ app.op = "activate" /\ app.acct \in Accounts /\ row[app.acct] # 0
    BY AtWork DEF Prepare, At
  <1>2. Prepared(app.acct) \in 1 .. issued[app.acct]
    BY <1>1 DEF Typed, CredentialsOK, Prepared
  <1>3. own'[app.acct] # 0
    BY <1>1, <1>2 DEF Typed, CredentialsOK, Prepare
  <1> QED
    BY <1>1, <1>2, <1>3 DEF Typed, OperationOK, Prepare, Steps, Attributed, Switching, Rotated, LiveOK, Tasks, Idle

\* After a rotation the operation holds the newest generation.
LEMMA RotateOperation ==
    ASSUME Typed, Rotate PROVE OperationOK'
  <1>1. CASE app' = Idle
    BY <1>1, NothingLive DEF OperationOK, Idle, Steps, Attributed, Switching, Rotated
  <1>2. CASE app' # Idle
    <2>1. LiveOK(app.prior)'
      BY <1>2, RotateEffect DEF Typed, OperationOK, LiveOK
    <2> QED
      BY <1>2, <2>1, RotateEffect DEF Rotate, OperationOK, Steps, Attributed, Switching, Rotated
  <1> QED
    BY <1>1, <1>2

\* A CLI that saves takes no snapshot from an operation.
LEMMA CliSaveOperation ==
    ASSUME Typed, CliSave PROVE OperationOK'
  <1>1. cli.of \in Accounts /\ cli.gen \in 1 .. issued[cli.of] /\ issued[cli.of] \in 0 .. MaxGen
    BY DEF Typed, CliOK, CredentialsOK, CliSave
  <1>2. \A a \in Accounts : own[a] # 0 => own'[a] # 0
    BY <1>1 DEF Typed, CredentialsOK, CliSave
  <1>3. app' = app /\ row' = row /\ issued' = issued
    BY DEF CliSave
  <1>4. app.at \in Switching \cup {"rebind"} => app.acct \in Accounts
    BY AtWork DEF Rotated
  <1> QED
    BY <1>2, <1>3, <1>4 DEF Typed, OperationOK, LiveOK

\* ... of the operation ...
LEMMA OperationStep ==
    ASSUME Typed, Next
    PROVE  OperationOK'
  <1>1. ASSUME NEW op \in {"reconcile", "activate", "refresh", "delete"},
               NEW a \in Accounts \cup {None}, op = "reconcile" \/ a \in Accounts,
               Begin(op, a)
        PROVE  OperationOK'
    BY <1>1 DEF Typed, OperationOK, Begin, Idle, custodyVars, Attributed, LiveOK,
       Rotated, Steps, Switching
  <1>2. ASSUME NEW a \in Accounts, SignIn(a) \/ Import(a) \/ CliLogin(a) PROVE OperationOK'
    BY <1>2 DEF Typed, CredentialsOK, OperationOK, Tasks, SignIn, Import, CliLogin,
       LiveOK, Rotated, Steps, Switching
  <1>3. CASE TakeLease
    BY <1>3, TakeLeaseOperation
  <1>4. CASE AbsorbOrphan \/ ReadBack
    BY <1>4 DEF Typed, OperationOK, Tasks, AbsorbOrphan, AfterAbsorb, At, Goto,
       ReadBack, custodyVars, Attributed, LiveOK, Rotated, Steps, Switching
  <1>5. CASE AbsorbFile
    BY <1>5, AbsorbFileOperation
  <1>6. CASE MirrorRow
    BY <1>6, MirrorRowOperation
  <1>7. CASE Relink
    BY <1>7, RelinkOperation
  <1>8. CASE Finish \/ Undo \/ PatchRow \/ FetchWithoutRotation \/ Rebind \/ Unpin
           \/ Crash
    BY <1>8, NothingLive DEF OperationOK, Finish, Idle, Return, Undo, PatchRow,
       FetchWithoutRotation, Rebind, Unpin, Crash, Attributed, Rotated, Steps, Switching
  <1>9. CASE Prepare
    BY <1>9, PrepareOperation
  <1>10. CASE BindLive
    BY <1>10 DEF Typed, OperationOK, Tasks, BindLive, At, Goto, Attributed, LiveOK,
       Steps, Switching
  <1>11. CASE SetPin
    BY <1>11, NothingLive DEF Typed, OperationOK, Tasks, SetPin, At, Goto, Idle, Return,
       Attributed, LiveOK, Rotated, Steps, Switching
  <1>12. CASE Rotate
    BY <1>12, RotateOperation
  <1>13. CASE SaveRow
    BY <1>13, NothingLive DEF Typed, OperationOK, Tasks, SaveRow, At, Goto, Idle,
       Return, Attributed, LiveOK, Rotated, Steps, Switching
  <1>14. CASE Match
    BY <1>14, NothingLive DEF Typed, OperationOK, Tasks, Match, At, Goto, Idle, Return,
       custodyVars, Attributed, LiveOK, Rotated, Steps, Switching
  <1>15. CASE Project
    BY <1>15, NothingLive DEF Typed, CredentialsOK, OperationOK, Tasks, Project, At,
       Goto, Idle, Return, Attributed, LiveOK, Rotated, Steps, Switching
  <1>16. CASE Forget
    BY <1>16, NothingLive DEF Typed, OperationOK, Tasks, Forget, At, Goto, Idle, Return,
       Attributed, LiveOK, Rotated, Steps, Switching
  <1>17. CASE DropSnapshot
    BY <1>17 DEF Typed, OperationOK, Tasks, DropSnapshot, At, Goto, Attributed, LiveOK,
       Rotated, Steps, Switching
  <1>18. CASE EraseRow
    BY <1>18 DEF Typed, OperationOK, Tasks, EraseRow, At, Goto, Attributed, LiveOK,
       Rotated, Steps, Switching
  <1>19. CASE CliSpend
    BY <1>19 DEF Typed, CredentialsOK, OperationOK, Tasks, CliSpend, LiveOK
  <1>20. CASE CliSave
    BY <1>20, CliSaveOperation
  <1>21. CASE CliDies \/ CliLogout
    BY <1>21 DEF Typed, OperationOK, Tasks, CliDies, custodyVars, CliLogout, LiveOK
  <1> QED
    BY <1>1, <1>2, <1>3, <1>4, <1>5, <1>6, <1>7, <1>8, <1>9, <1>10, <1>11, <1>12,
       <1>13, <1>14, <1>15, <1>16, <1>17, <1>18, <1>19, <1>20, <1>21 DEF Next

\* The lease is taken by an operation whose steps are locked.
LEMMA TakeLeaseLocks ==
    ASSUME Typed, TakeLease PROVE CliOK'
  <1>1. app'.at \in Locked
    BY DEF Typed, OperationOK, Tasks, Idle, TakeLease, At, Locked
  <1>2. lease # "cli"
    BY CustodyAssumption DEF TakeLease
  <1> QED
    BY <1>1, <1>2 DEF Typed, CliOK, TakeLease, custodyVars, LiveOK

\* Keeping an orphan keeps the lease.
LEMMA AbsorbOrphanLocks ==
    ASSUME Typed, AbsorbOrphan PROVE CliOK'
  <1>1. app'.at \in Locked /\ app.at \in Locked
    BY DEF Typed, Tasks, AbsorbOrphan, At, Goto, AfterAbsorb, Locked
  <1> QED
    BY <1>1 DEF Typed, CliOK, AbsorbOrphan, LiveOK

\* A repair that fails is a fault, and keeps the lease.
LEMMA RelinkLocks ==
    ASSUME Typed, Relink PROVE CliOK'
  <1>1. app'.at \in Locked /\ app.at \in Locked
    BY DEF Typed, Tasks, Relink, At, AfterAbsorb, Locked
  <1>2. faults' \in 0 .. MaxFaults
    BY FaultsBounded, Binding DEF Relink
  <1> QED
    BY <1>1, <1>2 DEF Typed, CliOK, Relink, LiveOK

\* So is a bind that fails.
LEMMA BindLiveLocks ==
    ASSUME Typed, BindLive PROVE CliOK'
  <1>1. app'.at \in Locked /\ app.at \in Locked
    BY DEF Typed, Tasks, BindLive, At, Goto, Locked
  <1>2. faults' \in 0 .. MaxFaults
    BY FaultsBounded, Binding DEF BindLive
  <1> QED
    BY <1>1, <1>2 DEF Typed, CliOK, BindLive, LiveOK

\* A switch that is undone gives the lease back.
LEMMA UndoLocks ==
    ASSUME Typed, Undo PROVE CliOK'
  <1>1. app'.at \notin Locked /\ app.at \in Locked
    BY DEF Undo, At, Return, Idle, Locked
  <1>2. faults' \in 0 .. MaxFaults
    BY FaultsBounded, Binding DEF Undo
  <1>3. lease' = None
    BY DEF Undo, Return
  <1> QED
    BY <1>1, <1>2, <1>3, CustodyAssumption DEF Typed, CliOK, Undo, LiveOK

\* A rotation gives the lease back only with its answer lost.
LEMMA RotateLocks ==
    ASSUME Typed, Rotate PROVE CliOK'
  <1>1. app.at \in Locked /\ \/ app'.at \in Locked /\ lease' = lease
                             \/ app'.at \notin Locked /\ lease' = None
    BY RotateEffect DEF Idle, Locked
  <1>2. faults' \in 0 .. MaxFaults
    BY FaultsBounded DEF Rotate
  <1>3. lost' \subseteq Accounts /\ UNCHANGED <<first, shares, cli, undone>>
    BY DEF Rotate, LosesOutside
  <1>4. cli.of \in Accounts => LiveOK(cli.was)'
    BY <1>3, RotateEffect, CustodyAssumption DEF Typed, CliOK, LiveOK
  <1>5. cli.of \in Accounts => cli.gen \in 1 .. issued'[cli.of]
    BY RotateEffect, CustodyAssumption DEF Typed, CliOK
  <1> QED
    BY <1>1, <1>2, <1>3, <1>4, <1>5, CustodyAssumption DEF Typed, CliOK

\* A refresh gives the lease back when the link stands or failed.
LEMMA RebindLocks ==
    ASSUME Typed, Rebind PROVE CliOK'
  <1>1. app'.at \notin Locked /\ app.at \in Locked
    BY DEF Rebind, At, Return, Idle, Locked
  <1>2. faults' \in 0 .. MaxFaults
    BY FaultsBounded, Binding DEF Rebind
  <1>3. lease' = None
    BY DEF Rebind, Return
  <1> QED
    BY <1>1, <1>2, <1>3, CustodyAssumption DEF Typed, CliOK, Rebind, LiveOK

\* ... or of the CLI and the locks.
LEMMA LocksStep ==
    ASSUME Typed, Next
    PROVE  CliOK'
  <1>1. ASSUME NEW op \in {"reconcile", "activate", "refresh", "delete"},
               NEW a \in Accounts \cup {None}, op = "reconcile" \/ a \in Accounts,
               Begin(op, a)
        PROVE  CliOK'
    BY <1>1 DEF Typed, CliOK, Begin, Idle, custodyVars, LiveOK, Locked
  <1>2. ASSUME NEW a \in Accounts, SignIn(a) PROVE CliOK'
    BY <1>2 DEF Typed, CredentialsOK, CliOK, SignIn, KeepsHistory, LiveOK
  <1>3. ASSUME NEW a \in Accounts, Import(a) PROVE CliOK'
    BY <1>3 DEF Typed, CliOK, Import, LiveOK
  <1>4. ASSUME NEW a \in Accounts, CliLogin(a) PROVE CliOK'
    BY <1>4 DEF Typed, CliOK, CliLogin, LosesOutside, NoCli
  <1>5. CASE TakeLease
    BY <1>5, TakeLeaseLocks
  <1>6. CASE AbsorbOrphan
    BY <1>6, AbsorbOrphanLocks
  <1>7. CASE AbsorbFile
    BY <1>7 DEF Typed, CliOK, AbsorbFile, At, LiveOK, Locked
  <1>8. CASE MirrorRow
    BY <1>8 DEF Typed, CliOK, MirrorRow, At, LiveOK, Locked
  <1>9. CASE Relink
    BY <1>9, RelinkLocks
  <1>10. CASE Finish \/ PatchRow \/ FetchWithoutRotation
    BY <1>10, CustodyAssumption DEF Typed, CliOK, Finish, At, Idle, Return, custodyVars,
       PatchRow, Faulty, FetchWithoutRotation, LiveOK, Locked
  <1>11. CASE Prepare
    BY <1>11 DEF Typed, CliOK, Prepare, At, LiveOK, Locked
  <1>12. CASE BindLive
    BY <1>12, BindLiveLocks
  <1>13. CASE ReadBack
    BY <1>13 DEF Typed, CliOK, ReadBack, At, Goto, custodyVars, LiveOK, Locked
  <1>14. CASE Undo
    BY <1>14, UndoLocks
  <1>15. CASE SetPin
    BY <1>15, CustodyAssumption DEF Typed, CliOK, Tasks, SetPin, At, Faulty, Goto, Idle,
       Return, LiveOK, Locked
  <1>16. CASE Rotate
    BY <1>16, RotateLocks
  <1>17. CASE SaveRow
    BY <1>17, CustodyAssumption DEF Typed, CliOK, Tasks, SaveRow, At, Faulty, Goto,
       Idle, Return, LiveOK, Locked
  <1>18. CASE Match
    BY <1>18, CustodyAssumption DEF Typed, CliOK, Tasks, Match, At, Goto, Idle, Return,
       custodyVars, LiveOK, Locked
  <1>19. CASE Project
    BY <1>19, CustodyAssumption DEF Typed, CliOK, Tasks, Project, At, Faulty, Goto,
       Idle, Return, LiveOK, Locked
  <1>20. CASE Rebind
    BY <1>20, RebindLocks
  <1>21. CASE Forget
    BY <1>21, CustodyAssumption, AtWork DEF Typed, CliOK, Tasks, Forget, At, Faulty,
       Goto, Idle, Return, LiveOK, Locked
  <1>22. CASE DropSnapshot
    BY <1>22, CustodyAssumption DEF Typed, CliOK, DropSnapshot, At, Goto, LosesOutside,
       LiveOK, Locked
  <1>23. CASE EraseRow
    BY <1>23 DEF Typed, CliOK, EraseRow, At, Goto, LosesOutside, LiveOK, Locked
  <1>24. CASE Unpin
    BY <1>24 DEF Typed, CliOK, Unpin, At, Idle, LiveOK, Locked
  <1>25. CASE CliSpend
    BY <1>25, CustodyAssumption, ServedOK DEF Typed, CredentialsOK, CliOK, CliSpend,
       CliMay, KeepsHistory, LiveOK
  <1>26. CASE CliSave
    BY <1>26, CustodyAssumption DEF Typed, CliOK, CliSave, CliReturns, LosesOutside,
       NoCli
  <1>27. CASE CliDies
    BY <1>27, CustodyAssumption DEF Typed, CliOK, CliDies, CliReturns, Faulty,
       LosesOutside, NoCli
  <1>28. CASE CliLogout
    BY <1>28 DEF Typed, CliOK, CliLogout, LosesOutside, LiveOK
  <1>29. CASE Crash
    BY <1>29, CustodyAssumption DEF Typed, CliOK, Crash, Faulty, Idle, LosesOutside,
       custodyVars, LiveOK, Locked
  <1> QED
    BY <1>1, <1>2, <1>3, <1>4, <1>5, <1>6, <1>7, <1>8, <1>9, <1>10, <1>11, <1>12,
       <1>13, <1>14, <1>15, <1>16, <1>17, <1>18, <1>19, <1>20, <1>21, <1>22, <1>23,
       <1>24, <1>25, <1>26, <1>27, <1>28, <1>29 DEF Next

\* What a switch remembers leads where the live path does.
LEMMA TakeLeaseLinks ==
    ASSUME Typed, Linked, TakeLease PROVE Linked'
  <1>1. app.at = "lease" /\ app.op \in {"reconcile", "refresh", "activate", "delete"}
    BY DEF Typed, OperationOK, Tasks, Idle, TakeLease, At
  <1>2. /\ app'.op = app.op /\ app'.at # "drop"
        /\ app'.prior = (IF app.op = "activate" THEN live ELSE NoLive)
        /\ UNCHANGED <<first, live, own>>
    BY <1>1 DEF Typed, Tasks, TakeLease, custodyVars
  <1> QED
    BY <1>2 DEF Linked

\* A repaired link leads to the snapshot the session was absorbed into.
LEMMA RelinkLinks ==
    ASSUME Typed, Linked, Relink PROVE Linked'
  <1>1. app.who \in Accounts /\ own[app.who] # 0
    BY DEF Typed, OperationOK, Relink, At, Attributed
  <1>2. app'.op = app.op /\ app'.prior = app.prior /\ app'.at # "drop" /\ UNCHANGED <<first, own>>
    BY DEF Typed, Tasks, Relink, AfterAbsorb
  <1>3. live' = live \/ live'.of = app.who
    BY Binding DEF Relink
  <1> QED
    BY <1>1, <1>2, <1>3 DEF Linked

\* A switch links to the snapshot it prepared.
LEMMA BindLiveLinks ==
    ASSUME Typed, Linked, BindLive PROVE Linked'
  <1>1. own[app.acct] # 0
    BY DEF Typed, OperationOK, BindLive, At, Switching
  <1>2. app'.op = app.op /\ app'.prior = app.prior /\ app'.at # "drop" /\ UNCHANGED <<first, own>>
    BY DEF Typed, Tasks, BindLive, Goto
  <1>3. live' = live \/ live'.of = app.acct
    BY Binding DEF BindLive
  <1> QED
    BY <1>1, <1>2, <1>3 DEF Linked

\* What a switch puts back leads where it did.
LEMMA UndoLinks ==
    ASSUME Typed, Linked, Undo PROVE Linked'
  <1>1. app.op = "activate"
    BY AtWork DEF Undo, At, Switching
  <1>2. app' = Idle /\ UNCHANGED <<first, own>>
    BY DEF Undo, Return
  <1>3. live' \in {live, app.prior} \/ (app.prior.kind = "link" /\ live'.of = app.prior.of)
    BY Binding DEF Undo
  <1> QED
    BY <1>1, <1>2, <1>3 DEF Linked, Idle

\* A rotation touches no file.
LEMMA RotateLinks ==
    ASSUME Typed, Linked, Rotate PROVE Linked'
  BY RotateEffect DEF Rotate, Linked, Idle

\* A projection writes a snapshot and removes none.
LEMMA ProjectLinks ==
    ASSUME Typed, Linked, Project PROVE Linked'
  <1>1. app.op = "refresh" /\ app.acct \in Accounts /\ app.hand # 0
    BY AtWork DEF Project, At, Rotated, Typed, OperationOK, CredentialsOK
  <1>2. app'.op \in {"refresh", "none"} /\ app'.at \in {"rebind", "none"}
    BY <1>1 DEF Typed, Tasks, Project, Return, Goto, Idle
  <1>3. \A a \in Accounts : own[a] # 0 => own'[a] # 0
    BY <1>1 DEF Project, Typed, CredentialsOK
  <1>4. live.kind = "link" => live.of \in Accounts
    BY DEF Typed, CredentialsOK, LiveOK
  <1> QED
    BY <1>2, <1>3, <1>4 DEF Project, Linked

\* A CLI that saves through the link leaves a snapshot behind it.
LEMMA CliSaveLinks ==
    ASSUME Typed, Linked, CliSave PROVE Linked'
  <1>1. cli.of \in Accounts /\ cli.gen # 0
    BY DEF Typed, CliOK, CredentialsOK, CliSave
  <1>2. \A a \in Accounts : own[a] # 0 => own'[a] # 0
    BY <1>1 DEF Typed, CredentialsOK, CliSave
  <1>3. live' = live \/ live'.kind = "file"
    BY DEF CliSave, FileOf
  <1>4. /\ live.kind = "link" => live.of \in Accounts
        /\ app.prior.kind = "link" => app.prior.of \in Accounts
    BY DEF Typed, CredentialsOK, OperationOK, LiveOK
  <1> QED
    BY <1>2, <1>3, <1>4 DEF CliSave, Linked

\* No step leaves a link to nothing.
LEMMA LinksStep ==
    ASSUME Typed, Linked, Next
    PROVE  Linked'
  <1>1. ASSUME NEW op \in {"reconcile", "activate", "refresh", "delete"},
               NEW a \in Accounts \cup {None}, op = "reconcile" \/ a \in Accounts,
               Begin(op, a)
        PROVE  Linked'
    BY <1>1 DEF Begin, Idle, NoLive, custodyVars, Linked
  <1>2. CASE Finish \/ ReadBack \/ SetPin \/ PatchRow \/ FetchWithoutRotation \/
           SaveRow \/ Match \/ EraseRow \/ Unpin \/ CliDies \/ Crash
    BY <1>2 DEF Typed, Tasks, Finish, Idle, Return, custodyVars, ReadBack, Goto, SetPin,
       PatchRow, FetchWithoutRotation, SaveRow, Match, EraseRow, Unpin, CliDies, Crash,
       Linked
  <1>3. ASSUME NEW a \in Accounts, SignIn(a) \/ Import(a) PROVE Linked'
    BY <1>3 DEF SignIn, Import, Linked
  <1>4. ASSUME NEW a \in Accounts, CliLogin(a) PROVE Linked'
    BY <1>4 DEF CliLogin, FileOf, Linked
  <1>5. CASE TakeLease
    BY <1>5, TakeLeaseLinks
  <1>6. CASE AbsorbOrphan
    BY <1>6 DEF AbsorbOrphan, AttributedToRow, Goto, HasLive, Served, Serves, Linked
  <1>7. CASE AbsorbFile
    BY <1>7 DEF AbsorbFile, HasLive, Serves, Linked
  <1>8. CASE MirrorRow
    BY <1>8 DEF MirrorRow, Linked
  <1>9. CASE Relink
    BY <1>9, RelinkLinks
  <1>10. CASE Prepare
    BY <1>10 DEF Typed, CredentialsOK, Prepare, Prepared, Linked
  <1>11. CASE BindLive
    BY <1>11, BindLiveLinks
  <1>12. CASE Undo
    BY <1>12, UndoLinks
  <1>13. CASE Rotate
    BY <1>13, RotateLinks
  <1>14. CASE Project
    BY <1>14, ProjectLinks
  <1>15. CASE Rebind
    BY <1>15 DEF Typed, OperationOK, Rebind, At, Bind, FileOf, Idle, LinkTo, Return,
       Linked
  <1>16. CASE Forget
    BY <1>16 DEF Typed, Tasks, Forget, AttributedToRow, FileOf, Goto, HasLive, Idle,
       Return, Served, Serves, Linked
  <1>17. CASE DropSnapshot
    BY <1>17, AtWork DEF DropSnapshot, At, Goto, Linked
  <1>18. CASE CliSpend
    BY <1>18 DEF CliSpend, Linked
  <1>19. CASE CliSave
    BY <1>19, CliSaveLinks
  <1>20. CASE CliLogout
    BY <1>20 DEF CliLogout, NoLive, Linked
  <1> QED
    BY <1>1, <1>2, <1>3, <1>4, <1>5, <1>6, <1>7, <1>8, <1>9, <1>10, <1>11, <1>12,
       <1>13, <1>14, <1>15, <1>16, <1>17, <1>18, <1>19, <1>20 DEF Next

\* With the lease taken nothing is on its way yet.
LEMMA TakeLeaseCovers ==
    ASSUME Typed, Covered, TakeLease PROVE Covered'
  <1>1. app.at = "lease" /\ app.op \in {"reconcile", "refresh", "activate", "delete"}
    BY DEF Typed, OperationOK, Tasks, Idle, TakeLease, At
  <1>2. /\ app'.op = app.op /\ app'.acct = app.acct /\ app'.hand = app.hand
        /\ app'.at \in {"absorb", "spend", "prepare", "forget"}
        /\ app'.at = "prepare" => live.kind # "file"
    BY <1>1 DEF Typed, Tasks, TakeLease
  <1>3. \A a \in Accounts : Kept(a)' <=> Kept(a)
    BY <1>2 DEF TakeLease, custodyVars, Kept
  <1>4. UNCHANGED <<live, lost, undone, shares>>
    BY DEF TakeLease, custodyVars
  <1> QED
    BY <1>2, <1>3, <1>4 DEF Covered, Attributed, Switching, Rotated

\* A session no row is named for is kept in the orphan file.
LEMMA AbsorbOrphanCovers ==
    ASSUME Typed, Covered, AbsorbOrphan PROVE Covered'
  <1>1. app.at = "absorb" /\ app.op \in {"reconcile", "refresh", "activate"}
    BY AtWork DEF AbsorbOrphan, At
  <1>2. /\ app'.op = app.op /\ app'.acct = app.acct /\ app'.hand = app.hand
        /\ app'.at \in {"prepare", "spend", "done"}
        /\ UNCHANGED <<issued, row, own, live, cli, lost, undone, shares>>
    BY <1>1 DEF Typed, Tasks, AbsorbOrphan, Goto, AfterAbsorb
  <1>3. /\ \A a \in Accounts : orphan[a] <= orphan'[a] /\ {orphan[a], orphan'[a]} \subseteq Nat
        /\ \A a \in Accounts : orphan'[a] <= issued[a] /\ issued[a] \in Nat
        /\ HasLive => Served.gen <= orphan'[live.of]
    BY ServedOK DEF Typed, CredentialsOK, AbsorbOrphan
  <1>4. \A a \in Accounts : Kept(a) => Kept(a)'
    BY <1>2, <1>3 DEF Kept
  <1>5. live.kind = "file" => live.gen <= orphan'[live.of]
    BY <1>3 DEF Served, HasLive, Typed, CredentialsOK, LiveOK
  <1> QED
    BY <1>2, <1>4, <1>5 DEF Covered, Attributed, Switching, Rotated

\* The newest generation is in the hand of the operation, or lost on the way.
LEMMA RotateCovers ==
    ASSUME Typed, Covered, Rotate PROVE Covered'
  BY RotateEffect DEF Rotate, LosesOutside, Covered, Attributed, Switching, Rotated, Idle

\* The newest generation is in the hand of the CLI.
LEMMA CliSpendCovers ==
    ASSUME Typed, Covered, CliSpend PROVE Covered'
  <1> SUFFICES ASSUME shares PROVE Covered'
    BY DEF Covered, CliSpend
  <1>1. app.at \notin Locked
    BY TakingTurns DEF CliSpend
  <1>2. ASSUME NEW a \in Accounts PROVE (Kept(a) \/ a \in lost \/ a \in undone)'
    <2>1. CASE a = Served.of
      <3>1. cli'.of = a /\ cli'.gen = issued'[a]
        BY <2>1 DEF CliSpend, Typed, CredentialsOK
      <3> QED
        BY <3>1 DEF Kept
    <2>2. CASE a # Served.of
      <3>1. issued'[a] = issued[a] /\ UNCHANGED <<row, own, orphan, live, app>> /\ cli = NoCli
        BY <2>2 DEF CliSpend, Typed, CredentialsOK
      <3>2. Kept(a) => Kept(a)'
        BY <3>1, CustodyAssumption DEF Kept, NoCli
      <3>3. (a \in lost => a \in lost') /\ (a \in undone => a \in undone')
        BY <2>2, <3>1 DEF CliSpend, KeepsHistory
      <3> QED
        BY <3>2, <3>3 DEF Covered, CliSpend
    <2> QED
      BY <2>1, <2>2
  <1> QED
    BY <1>1, <1>2 DEF CliSpend, Covered, Attributed, Switching, Rotated, Locked

\* No step of SkillStar throws away what nobody else keeps.
LEMMA CoversStep ==
    ASSUME Typed, Covered, Next
    PROVE  Covered'
  <1>1. ASSUME NEW op \in {"reconcile", "activate", "refresh", "delete"},
               NEW a \in Accounts \cup {None}, op = "reconcile" \/ a \in Accounts,
               Begin(op, a)
        PROVE  Covered'
    BY <1>1 DEF Begin, Idle, custodyVars, Attributed, Kept, Rotated, Switching, Covered
  <1>2. ASSUME NEW a \in Accounts, SignIn(a) PROVE Covered'
    BY <1>2 DEF Typed, CredentialsOK, SignIn, Idle, KeepsHistory, Attributed, Kept,
       Rotated, Switching, Covered
  <1>3. ASSUME NEW a \in Accounts, Import(a) PROVE Covered'
    BY <1>3 DEF Import, Idle, Attributed, Kept, Switching, Covered
  <1>4. ASSUME NEW a \in Accounts, CliLogin(a) PROVE Covered'
    BY <1>4, TakingTurns DEF CliLogin, LosesOutside, Covered, Attributed, Rotated,
       Locked
  <1>5. CASE TakeLease
    BY <1>5, TakeLeaseCovers
  <1>6. CASE AbsorbOrphan
    BY <1>6, AbsorbOrphanCovers
  <1>7. CASE AbsorbFile
    BY <1>7, ServedOK DEF Typed, CredentialsOK, AbsorbFile, Fold, Served, Kept, Rotated,
       Switching, Covered
  <1>8. CASE MirrorRow
    BY <1>8 DEF Typed, CredentialsOK, OperationOK, Tasks, MirrorRow, At, Attributed,
       Kept, Rotated, Served, Switching, Covered
  <1>9. CASE Relink
    BY <1>9 DEF Typed, CredentialsOK, OperationOK, Relink, AfterAbsorb, At, Bind,
       FileOf, LinkTo, Attributed, Kept, Rotated, Served, Switching, Covered
  <1>10. CASE Finish
    BY <1>10 DEF Typed, OperationOK, Finish, At, Idle, Return, custodyVars, Attributed,
       Kept, Rotated, Switching, Covered
  <1>11. CASE Prepare
    BY <1>11, AtWork, ServedOK DEF Typed, CredentialsOK, Prepare, At, Prepared,
       Attributed, Kept, Rotated, Served, Covered
  <1>12. CASE BindLive
    BY <1>12, AtWork DEF Typed, CredentialsOK, Tasks, BindLive, At, Bind, FileOf, Goto,
       LinkTo, Attributed, Kept, Rotated, Switching, Covered
  <1>13. CASE ReadBack
    BY <1>13 DEF ReadBack, At, Goto, custodyVars, Attributed, Kept, Rotated, Switching,
       Covered
  <1>14. CASE Undo
    BY <1>14 DEF Typed, CredentialsOK, OperationOK, Undo, At, Idle, Return, Attributed,
       Kept, Rotated, Switching, Covered
  <1>15. CASE SetPin
    BY <1>15 DEF Typed, OperationOK, Tasks, SetPin, At, Goto, Idle, Return, Attributed,
       Kept, Rotated, Switching, Covered
  <1>16. CASE PatchRow
    BY <1>16 DEF Typed, CredentialsOK, OperationOK, PatchRow, At, Idle, Return,
       Attributed, Kept, Rotated, Switching, Covered
  <1>17. CASE FetchWithoutRotation
    BY <1>17 DEF Typed, OperationOK, FetchWithoutRotation, At, Idle, Return,
       custodyVars, Attributed, Kept, Rotated, Switching, Covered
  <1>18. CASE Rotate
    BY <1>18, RotateCovers
  <1>19. CASE SaveRow
    BY <1>19, AtWork DEF Typed, CredentialsOK, Tasks, SaveRow, At, Goto, Idle, Return,
       Attributed, Kept, Rotated, Switching, Covered
  <1>20. CASE Match
    BY <1>20 DEF Typed, Tasks, Match, At, Goto, Idle, Return, Served, Serves,
       StillServed, custodyVars, Attributed, Kept, Rotated, Switching, Covered
  <1>21. CASE Project
    BY <1>21 DEF Typed, CredentialsOK, Tasks, Project, At, Goto, Idle, Return,
       Attributed, Kept, Rotated, Switching, Covered
  <1>22. CASE Rebind
    BY <1>22 DEF Rebind, At, Idle, Return, Attributed, Kept, Rotated, Switching, Covered
  <1>23. CASE Forget
    BY <1>23 DEF Typed, CredentialsOK, OperationOK, Tasks, Forget, At, Goto, Idle,
       Return, Served, Serves, Attributed, Kept, Rotated, Switching, Covered
  <1>24. CASE DropSnapshot
    BY <1>24 DEF DropSnapshot, Goto, LosesOutside, Attributed, Rotated, Switching,
       Covered
  <1>25. CASE EraseRow
    BY <1>25 DEF EraseRow, Goto, LosesOutside, Attributed, Rotated, Switching, Covered
  <1>26. CASE Unpin
    BY <1>26 DEF Typed, OperationOK, Unpin, At, Idle, Attributed, Kept, Rotated,
       Switching, Covered
  <1>27. CASE CliSpend
    BY <1>27, CliSpendCovers
  <1>28. CASE CliSave
    BY <1>28, TakingTurns DEF CliSave, LosesOutside, Covered, Attributed, Locked
  <1>29. CASE CliDies
    BY <1>29 DEF CliDies, LosesOutside, custodyVars, Served, Covered
  <1>30. CASE CliLogout
    BY <1>30, TakingTurns DEF CliLogout, LosesOutside, Covered, Attributed, Locked
  <1>31. CASE Crash
    BY <1>31 DEF Crash, Idle, LosesOutside, Attributed, Rotated, Switching, Covered
  <1> QED
    BY <1>1, <1>2, <1>3, <1>4, <1>5, <1>6, <1>7, <1>8, <1>9, <1>10, <1>11, <1>12,
       <1>13, <1>14, <1>15, <1>16, <1>17, <1>18, <1>19, <1>20, <1>21, <1>22, <1>23,
       <1>24, <1>25, <1>26, <1>27, <1>28, <1>29, <1>30, <1>31 DEF Next

\* The pin moves with the account that is served.
LEMMA PinsStep ==
    ASSUME Typed, Pinned, Next
    PROVE  Pinned'
  <1>1. ASSUME NEW op \in {"reconcile", "activate", "refresh", "delete"},
               NEW a \in Accounts \cup {None}, op = "reconcile" \/ a \in Accounts,
               Begin(op, a)
        PROVE  Pinned'
    BY <1>1 DEF Begin, Pinned
  <1>2. ASSUME NEW a \in Accounts, SignIn(a) \/ Import(a) PROVE Pinned'
    BY <1>2 DEF SignIn, Import, Pinned
  <1>3. ASSUME NEW a \in Accounts, CliLogin(a) PROVE Pinned'
    BY <1>3, TakingTurns DEF CliLogin, Pinned, Locked
  <1>4. CASE TakeLease
    BY <1>4 DEF TakeLease, custodyVars, Pinned
  <1>5. CASE AbsorbOrphan
    BY <1>5 DEF AbsorbOrphan, AfterAbsorb, At, Goto, Pinned
  <1>6. CASE AbsorbFile
    BY <1>6 DEF AbsorbFile, At, Pinned
  <1>7. CASE MirrorRow
    BY <1>7 DEF MirrorRow, At, Pinned
  <1>8. CASE Relink
    BY <1>8 DEF Relink, AfterAbsorb, At, Pinned
  <1>9. CASE Finish \/ Undo \/ PatchRow \/ FetchWithoutRotation \/ Rebind \/ Unpin
           \/ Crash
    BY <1>9 DEF Finish, Idle, Return, Undo, PatchRow, FetchWithoutRotation, Rebind,
       Unpin, Crash, Pinned
  <1>10. CASE Prepare
    BY <1>10 DEF Prepare, At, Pinned
  <1>11. CASE BindLive
    BY <1>11 DEF Typed, Tasks, BindLive, At, Goto, Pinned
  <1>12. CASE ReadBack
    BY <1>12 DEF ReadBack, At, Goto, Served, Serves, custodyVars, Pinned
  <1>13. CASE SetPin
    BY <1>13 DEF Typed, Tasks, SetPin, At, Goto, Idle, Return, Pinned
  <1>14. CASE Rotate
    BY <1>14, RotateEffect DEF Idle, Pinned
  <1>15. CASE SaveRow \/ Match \/ Project
    BY <1>15 DEF Typed, Tasks, SaveRow, At, Goto, Idle, Return, Match, custodyVars,
       Project, Pinned
  <1>16. CASE Forget \/ DropSnapshot \/ EraseRow
    BY <1>16 DEF Typed, Tasks, Forget, At, Goto, Idle, Return, DropSnapshot, EraseRow,
       Pinned
  <1>17. CASE CliSpend
    BY <1>17 DEF CliSpend, Pinned
  <1>18. CASE CliSave
    BY <1>18, TakingTurns DEF CliSave, Pinned, Locked
  <1>19. CASE CliDies
    BY <1>19 DEF CliDies, custodyVars, Pinned
  <1>20. CASE CliLogout
    BY <1>20, TakingTurns DEF CliLogout, Pinned, Locked
  <1> QED
    BY <1>1, <1>2, <1>3, <1>4, <1>5, <1>6, <1>7, <1>8, <1>9, <1>10, <1>11, <1>12,
       <1>13, <1>14, <1>15, <1>16, <1>17, <1>18, <1>19, <1>20 DEF Next
-----------------------------------------------------------------------------
\* What the person brings along on the first start is kept.
LEMMA InitHolds == Init => Typed /\ Linked /\ Covered /\ Pinned
  <1> SUFFICES ASSUME Init PROVE Typed /\ Linked /\ Covered /\ Pinned
    OBVIOUS
  <1>1. 1 \in 0 .. MaxGen /\ 0 \in 0 .. MaxGen
    BY CustodyAssumption
  <1>2. live = NoLive \/ \E a \in Accounts : live = FileOf(a, 1)
    BY DEF Init
  <1>3. /\ live.kind \in {"none", "file"}
        /\ live.kind = "none" => live.of = None /\ live.gen = 0
        /\ live.kind = "file" => live.of \in Accounts /\ live.gen = 1 /\ issued[live.of] = 1
    BY <1>2 DEF Init, NoLive, FileOf
  <1>4. LiveOK(live)
    BY <1>1, <1>2, <1>3, CustodyAssumption DEF LiveOK, Paths, NoLive, FileOf
  <1>5. CredentialsOK
    BY <1>1, <1>4, CustodyAssumption DEF Init, CredentialsOK
  <1>6. Idle \in Tasks /\ app = Idle
    BY TaskReturns DEF Init
  <1>7. OperationOK
    BY <1>6, NothingLive DEF OperationOK, Idle, Steps, Attributed, Switching, Rotated
  <1>8. CliOK
    BY CustodyAssumption DEF Init, CliOK, NoCli, Idle, Locked
  <1>9. Linked /\ Pinned
    BY <1>3, <1>6 DEF Linked, Pinned, Idle
  <1>10. ASSUME NEW a \in Accounts PROVE Kept(a)
    <2>1. CASE live.of = a
      <3>1. live.kind = "file" /\ live.gen = 1 /\ issued[a] = 1
        BY <1>3, <2>1, CustodyAssumption
      <3> QED
        BY <2>1, <3>1 DEF Kept
    <2>2. CASE live.of # a
      <3>1. issued[a] = row[a]
        BY <2>2 DEF Init
      <3> QED
        BY <3>1 DEF Kept
    <2> QED
      BY <2>1, <2>2
  <1>11. Covered
    BY <1>6, <1>10 DEF Covered, Idle, Attributed, Switching, Rotated
  <1> QED
    BY <1>5, <1>6, <1>7, <1>8, <1>9, <1>11 DEF Typed

\* The inductive invariant.
LEMMA CustodyHolds == Spec => [](Typed /\ Linked /\ Covered /\ Pinned)
  <1>1. Typed /\ Linked /\ Covered /\ Pinned /\ [Next]_vars
            => (Typed /\ Linked /\ Covered /\ Pinned)'
    <2> SUFFICES ASSUME Typed, Linked, Covered, Pinned, [Next]_vars
                 PROVE  (Typed /\ Linked /\ Covered /\ Pinned)'
      OBVIOUS
    <2>1. CASE Next
      BY <2>1, TaskStep, CredentialsStep, OperationStep, LocksStep, LinksStep, CoversStep, PinsStep
         DEF Typed
    <2>2. CASE UNCHANGED vars
      <3>1. Typed'
        BY <2>2 DEF vars, Typed, CredentialsOK, OperationOK, CliOK, LiveOK
      <3>2. Linked' /\ Pinned'
        BY <2>2 DEF vars, Linked, Pinned
      <3>3. Covered'
        BY <2>2 DEF vars, Covered, Kept, Served
      <3> QED
        BY <3>1, <3>2, <3>3
    <2> QED
      BY <2>1, <2>2
  <1> QED
    BY InitHolds, <1>1, PTL DEF Spec

\* Types, and who holds the lease: for any number of accounts, generations and
\* faults (TypeOK).
THEOREM TypeCorrect == Spec => []TypeOK
  <1>1. Typed => TypeOK
    <2> SUFFICES ASSUME Typed PROVE TypeOK
      OBVIOUS
    <2>1. \/ live = NoLive
          \/ \E a \in Accounts : live = LinkTo(a)
          \/ \E a \in Accounts, g \in 1 .. MaxGen : live = FileOf(a, g)
      <3>1. live = [kind |-> live.kind, of |-> live.of, gen |-> live.gen]
        BY DEF Typed, CredentialsOK, LiveOK, Paths
      <3>2. CASE live.kind = "none"
        BY <3>1, <3>2 DEF Typed, CredentialsOK, LiveOK, NoLive
      <3>3. CASE live.kind = "link"
        BY <3>1, <3>3 DEF Typed, CredentialsOK, LiveOK, LinkTo
      <3>4. CASE live.kind = "file"
        <4>1. live.of \in Accounts /\ live.gen \in 1 .. MaxGen
          BY <3>4 DEF Typed, CredentialsOK, LiveOK, Paths
        <4> QED
          BY <3>1, <3>4, <4>1 DEF FileOf
      <3> QED
        BY <3>2, <3>3, <3>4 DEF Typed, CredentialsOK, LiveOK, Paths
    <2>2. \A a \in Accounts : {row[a], own[a], orphan[a]} \subseteq 0 .. issued[a]
      <3> SUFFICES ASSUME NEW a \in Accounts PROVE {row[a], own[a], orphan[a]} \subseteq 0 .. issued[a]
        OBVIOUS
      <3>1. {issued[a], row[a], own[a], orphan[a]} \subseteq 0 .. MaxGen
        BY DEF Typed, CredentialsOK
      <3>2. row[a] <= issued[a] /\ own[a] <= issued[a] /\ orphan[a] <= issued[a]
        BY DEF Typed, CredentialsOK
      <3> QED
        BY <3>1, <3>2, CustodyAssumption
    <2>3. cli.of # None => cli # NoCli
      BY DEF NoCli
    <2> QED
      BY <2>1, <2>2, <2>3 DEF Typed, CredentialsOK, CliOK, TypeOK
  <1> QED
    BY <1>1, CustodyHolds, PTL

\* Whatever dies or fails, the CLI's path never links to a snapshot that is
\* gone (NeverDangling).
THEOREM LinksLead == Spec => []NeverDangling
  <1>1. Typed /\ Linked => NeverDangling
    BY DEF Linked, NeverDangling
  <1> QED
    BY <1>1, CustodyHolds, PTL

\* With a CLI that shares the lease, SkillStar never throws away the newest
\* session of an account (SessionsKept).
THEOREM SessionsAreKept == Spec => []SessionsKept
  <1>1. Covered => SessionsKept
    BY DEF Covered, SessionsKept
  <1> QED
    BY <1>1, CustodyHolds, PTL

\* A reconcile leaves card, snapshot and CLI with one credential (CardsAgree).
THEOREM ReconcileAgrees == Spec => []CardsAgree
  <1>1. Typed /\ Covered => CardsAgree
    <2> SUFFICES ASSUME Typed, Covered, shares, At("relink"), Served.gen >= own[app.who]
                 PROVE  own[app.who] = Served.gen /\ row[app.who] \in {0, Served.gen}
      BY DEF CardsAgree
    <2>1. app.who \in Accounts /\ Served.gen \in 0 .. MaxGen /\ own[app.who] \in 0 .. MaxGen
      BY ServedOK DEF Typed, CredentialsOK, OperationOK, At, Attributed
    <2> QED
      BY <2>1 DEF Covered, At, Attributed
  <1> QED
    BY <1>1, CustodyHolds, PTL

\* A switch without a fault ends with the new account served and pinned, or
\* with the old pin and whom the CLI served before (SwitchIsWhole).
THEOREM SwitchesAreWhole == Spec => SwitchIsWhole
  <1> DEFINE Whole == shares /\ app.op = "activate" /\ app' = Idle /\ faults' = faults =>
                        \/ pin' = app.acct /\ Served'.of = app.acct /\ At("patch")
                        \/ pin' = app.pinned /\ Served'.of = app.prior.of
  <1>1. Typed /\ Linked /\ Covered /\ Pinned /\ [Next]_vars => [Whole]_vars
    <2> SUFFICES ASSUME Typed, Pinned, Next, shares, app.op = "activate", app' = Idle,
                        faults' = faults
                 PROVE  \/ pin' = app.acct /\ Served'.of = app.acct /\ At("patch")
                        \/ pin' = app.pinned /\ Served'.of = app.prior.of
      OBVIOUS
    <2>1. ~Faulty /\ Served'.of = live'.of
      BY DEF Faulty, Typed, CliOK, Served
    <2>0. app' # app /\ app'.op = "none" /\ app'.at = "none"
      BY DEF Idle
    <2>2. Undo \/ SetPin \/ PatchRow
      <3>1. app \in Tasks
        BY DEF Typed
      <3>2. ASSUME NEW a \in Accounts,
                   (\E op \in {"activate", "refresh", "delete"} : Begin(op, a))
                      \/ SignIn(a) \/ Import(a) \/ CliLogin(a)
            PROVE  FALSE
        BY <2>0, <3>2 DEF Begin, SignIn, Import, CliLogin, Idle
      <3>3. ~Begin("reconcile", None) /\ ~CliSpend /\ ~CliSave /\ ~CliDies /\ ~CliLogout /\ ~Crash
        BY <2>0, <2>1 DEF Begin, CliSpend, CliSave, CliDies, CliLogout, Crash, Idle
      <3>4. ~TakeLease /\ ~AbsorbOrphan /\ ~AbsorbFile /\ ~MirrorRow
        BY <2>0, <3>1 DEF TakeLease, AbsorbOrphan, AbsorbFile, MirrorRow, Goto, AfterAbsorb, Tasks
      <3>5. ~Prepare /\ ~BindLive /\ ~ReadBack
        BY <2>0, <3>1 DEF Prepare, BindLive, ReadBack, Goto, Tasks
      <3>6. ~Relink /\ ~Finish /\ ~FetchWithoutRotation /\ ~Rotate /\ ~SaveRow /\ ~Match
            /\ ~Project /\ ~Rebind /\ ~Forget /\ ~DropSnapshot /\ ~EraseRow /\ ~Unpin
        BY AtWork DEF Relink, Finish, FetchWithoutRotation, Rotate, SaveRow, Match, Project, Rebind,
           Forget, DropSnapshot, EraseRow, Unpin, At, Switching, Rotated, Attributed
      <3> QED
        BY <3>2, <3>3, <3>4, <3>5, <3>6 DEF Next
    <2>3. CASE Undo
      BY <2>1, <2>3, Binding DEF Undo, Pinned, At
    <2>4. CASE SetPin
      BY <2>1, <2>4 DEF SetPin, Goto, Idle
    <2>5. CASE PatchRow
      BY <2>1, <2>5 DEF PatchRow, Pinned, At
    <2> QED
      BY <2>2, <2>3, <2>4, <2>5
  <1> QED
    BY <1>1, CustodyHolds, PTL DEF Spec, SwitchIsWhole
-----------------------------------------------------------------------------
USE PlatformsAreKinds, BoundsAreNat

Records == [platform : Platforms \union {"none", "grok"}, dialog : 0..MaxDialogs,
            at : Stages, chain : Chains, listed : BOOLEAN, sender : BOOLEAN,
            answer : {"none", "saved", "failed"},
            inbox : {"none", "cancel", "code"}, late : BOOLEAN]

Dialogs == [platform : Platforms \union {"none"}, busy : BOOLEAN,
            pending : {Nobody} \union Logins]

\* The start request is still under way, or never was.
Starting == {"none", "binding", "poked", "second", "begin"}

Listens(l) == \E p \in Ports : ports[p] = l

\* The kinds that listen on a port, and those that notice a cancellation.
Loopback(l) == Is(l, "codex") \/ Is(l, "grok")
Heeds(l)    == Is(l, "codex") \/ Is(l, "xai")

\* What a worker of each kind does, and where it has got to.
Works(l) ==
    /\ Listens(l) <=> LoginAt(l, "waiting") /\ Loopback(l)
    /\ \A p \in Ports : ports[p] = l => (p = "third" <=> Is(l, "grok"))
    /\ logins[l].at \in {"binding", "poked"} => Loopback(l)
    /\ LoginAt(l, "second") => Is(l, "codex")
    /\ logins[l].at \in {"begin", "asking"} => Polls(l)
    /\ logins[l].sender => logins[l].listed
    /\ logins[l].listed => logins[l].at \notin Starting \/ Is(l, "grok")
    /\ Is(l, "none") <=> LoginAt(l, "none")

\* Nothing is had without the user's approval.
Approved(l) ==
    logins[l].at \in {"tokens", "saving"} \/ logins[l].inbox = "code" \/ l \in rows
    => l \in granted

\* A sign-in that was cancelled before its approval is out of the registry for
\* good; a listener of its own has been told to stop before any code came.
Stopped(l) ==
    /\ l \in early => logins[l].at \notin Starting \/ Is(l, "grok")
    /\ l \in early /\ Heeds(l) =>
          /\ l \notin rows /\ ~logins[l].listed /\ ~LoginAt(l, "saving")
          /\ Is(l, "codex") => /\ ~LoginAt(l, "tokens") /\ logins[l].inbox # "code"
                               /\ LoginAt(l, "waiting") => logins[l].inbox = "cancel"

Own(l) == Works(l) /\ Approved(l) /\ Stopped(l)

LoginTyped ==
    /\ dialog \in Dialogs /\ opened \in 0..MaxDialogs
    /\ logins \in [Logins -> Records]
    /\ ports \in [Ports -> {Nobody, Other} \union Logins]
    /\ granted \subseteq Logins /\ rows \subseteq Logins /\ early \subseteq Logins

IInv == LoginTyped /\ \A l \in Logins : Own(l)
-----------------------------------------------------------------------------
LEMMA Typing ==
    ASSUME IInv, NEW l \in Logins
    PROVE  /\ logins[l] \in Records /\ dialog \in Dialogs /\ Own(l)
           /\ logins \in [Logins -> Records] /\ (logins[l].sender => logins[l].listed)
    BY DEF IInv, LoginTyped, Own, Works

LEMMA PostShape ==
    ASSUME NEW r \in Records, NEW request \in {"cancel", "code"}
    PROVE  /\ Post(r, request) \in Records
           /\ Post(r, request).inbox = IF r.inbox = "none" THEN request ELSE r.inbox
           /\ Post(r, request).at = r.at /\ Post(r, request).platform = r.platform
           /\ Post(r, request).listed = r.listed /\ Post(r, request).sender = r.sender
    BY DEF Post, Records

\* Whoever a step only tells to stop, keeping its port, approval and row.
LEMMA OthersKeep ==
    ASSUME IInv, NEW k \in Logins,
           logins'[k] = logins[k] \/ logins'[k] = Post(logins[k], "cancel"),
           \A p \in Ports : ports'[p] = k <=> ports[p] = k,
           k \in granted => k \in granted',
           k \in rows' => k \in rows, k \in early' => k \in early
    PROVE  Own(k)'
    <1>1. logins[k] \in Records /\ Own(k)
        BY DEF IInv, LoginTyped
    <1>2. /\ logins'[k].at = logins[k].at /\ logins'[k].platform = logins[k].platform
          /\ logins'[k].listed = logins[k].listed /\ logins'[k].sender = logins[k].sender
          /\ logins'[k].inbox = logins[k].inbox
             \/ (logins[k].inbox = "none" /\ logins'[k].inbox = "cancel")
        BY <1>1, PostShape
    <1>3. Works(k)'
        BY <1>1, <1>2 DEF Own, Works, Listens, Loopback, Polls, Starting, LoginAt, Is
    <1>4. Approved(k)'
        BY <1>1, <1>2 DEF Own, Approved
    <1>5. Stopped(k)'
        BY <1>1, <1>2 DEF Own, Stopped, Heeds, LoginAt, Is
    <1> QED
        BY <1>3, <1>4, <1>5 DEF Own

\* A step that changes one sign-in and at most its own port, approval and row.
LEMMA StepKeeps ==
    ASSUME IInv, NEW l \in Logins, NEW login \in Records,
           logins' = [logins EXCEPT ![l] = login],
           dialog' \in Dialogs, opened' = opened, early' = early,
           ports' \in [Ports -> {Nobody, Other} \union Logins],
           \A p \in Ports : ports'[p] = ports[p] \/ {ports[p], ports'[p]} = {Nobody, l},
           granted' = granted \/ granted' = granted \union {l},
           rows' = rows \/ rows' = rows \union {l},
           logins'[l] = login => Own(l)'
    PROVE  IInv'
    <1>1. logins'[l] = login /\ \A k \in Logins \ {l} : logins'[k] = logins[k]
        BY DEF IInv, LoginTyped
    <1>2. LoginTyped'
        BY DEF IInv, LoginTyped
    <1>3. ASSUME NEW k \in Logins, k # l PROVE Own(k)'
        <2>1. \A p \in Ports : ports'[p] = k <=> ports[p] = k
            BY <1>3 DEF Logins, Nobody
        <2> QED
            BY <1>1, <1>3, <2>1, OthersKeep
    <1> QED
        BY <1>1, <1>2, <1>3 DEF IInv

\* The sign-in after a step that only moves its worker.
LEMMA AtShape ==
    ASSUME IInv, NEW l \in Logins, NEW stage \in Stages,
           logins' = [logins EXCEPT ![l].at = stage]
    PROVE  LET login == [logins[l] EXCEPT !.at = stage]
           IN  /\ login \in Records /\ logins' = [logins EXCEPT ![l] = login]
               /\ login.at = stage /\ login.platform = logins[l].platform
               /\ login.listed = logins[l].listed /\ login.sender = logins[l].sender
               /\ login.inbox = logins[l].inbox
    BY DEF IInv, LoginTyped, Records

\* A step of the worker or the start request that only moves it, away from a
\* port it may have had.
LEMMA MoveKeeps ==
    ASSUME IInv, NEW l \in Logins, NEW stage \in Stages,
           logins' = [logins EXCEPT ![l].at = stage],
           ~LoginAt(l, "none"),
           ports' = Released(l) \/ (UNCHANGED ports /\ ~(LoginAt(l, "waiting") /\ Loopback(l))),
           UNCHANGED <<dialog, opened, granted, early>>,
           rows' = rows \/ (rows' = rows \union {l} /\ l \in granted
                            /\ (l \in early => ~Heeds(l))),
           stage = "waiting" => ~Loopback(l),
           stage \in Starting => Is(l, "codex") /\ stage = "second" /\ ~logins[l].listed
                                 /\ l \notin early,
           stage = "asking" => Polls(l),
           stage \in {"tokens", "saving"} => l \in granted,
           stage = "saving" /\ l \in early => ~Heeds(l),
           stage = "tokens" /\ l \in early => ~Is(l, "codex")
    PROVE  IInv'
    <1> DEFINE login == [logins[l] EXCEPT !.at = stage]
    <1>1. /\ login \in Records /\ logins' = [logins EXCEPT ![l] = login]
          /\ login.at = stage /\ login.platform = logins[l].platform
          /\ login.listed = logins[l].listed /\ login.sender = logins[l].sender
          /\ login.inbox = logins[l].inbox
        BY AtShape
    <1> HIDE DEF login
    <1>2. /\ Own(l) /\ dialog' \in Dialogs
          /\ ports \in [Ports -> {Nobody, Other} \union Logins]
        BY DEF IInv, LoginTyped
    <1>3. /\ ports' \in [Ports -> {Nobody, Other} \union Logins]
          /\ \A p \in Ports : ports'[p] = ports[p] \/ {ports[p], ports'[p]} = {Nobody, l}
          /\ \A p \in Ports : ports'[p] # l
        BY <1>2 DEF Released, Own, Works, Listens, Nobody, Logins
    <1>4. ASSUME logins'[l] = login PROVE Own(l)'
        <2>1. Works(l)'
            BY <1>1, <1>2, <1>3, <1>4 DEF Own, Works, Listens, Loopback, Polls, LoginAt, Is, Starting
        <2>2. Approved(l)'
            BY <1>1, <1>2, <1>4 DEF Own, Approved
        <2>3. Stopped(l)'
            BY <1>1, <1>2, <1>4 DEF Own, Stopped, Heeds, Loopback, LoginAt, Is, Starting
        <2> QED
            BY <2>1, <2>2, <2>3 DEF Own
    <1> QED
        BY <1>1, <1>2, <1>3, <1>4, StepKeeps

\* A step that tells the dialog, or takes the entry out of the registry.
LEMMA TellKeeps ==
    ASSUME IInv, NEW l \in Logins, NEW login \in Records,
           logins' = [logins EXCEPT ![l] = login],
           login.at = logins[l].at, login.platform = logins[l].platform,
           login.inbox = logins[l].inbox, login.listed => logins[l].listed,
           login.sender => login.listed,
           dialog' \in Dialogs, UNCHANGED <<opened, ports, granted, rows, early>>
    PROVE  IInv'
    <1>1. Own(l) /\ ports \in [Ports -> {Nobody, Other} \union Logins]
        BY DEF IInv, LoginTyped
    <1>2. ASSUME logins'[l] = login PROVE Own(l)'
        <2>1. Works(l)'
            BY <1>1, <1>2 DEF Own, Works, Listens, Loopback, Polls, Starting, LoginAt, Is
        <2>2. Approved(l)'
            BY <1>1, <1>2 DEF Own, Approved
        <2>3. Stopped(l)'
            BY <1>1, <1>2 DEF Own, Stopped, Heeds, LoginAt, Is
        <2> QED
            BY <2>1, <2>2, <2>3 DEF Own
    <1> QED
        BY <1>1, <1>2, StepKeeps

\* A worker or start request that ends, with no port of its own.
LEMMA EndKeeps ==
    ASSUME IInv, NEW l \in Logins, NEW login \in Records,
           logins' = [logins EXCEPT ![l] = login],
           login.at = "ended", login.platform = logins[l].platform,
           login.inbox = logins[l].inbox, login.listed = logins[l].listed,
           login.sender => login.listed, ~LoginAt(l, "none"), ~LoginAt(l, "waiting"),
           UNCHANGED <<dialog, opened, ports, granted, rows, early>>
    PROVE  IInv'
    <1>1. /\ Own(l) /\ dialog \in Dialogs
          /\ ports \in [Ports -> {Nobody, Other} \union Logins]
        BY DEF IInv, LoginTyped
    <1>2. ASSUME logins'[l] = login PROVE Own(l)'
        <2>1. Works(l)'
            BY <1>1, <1>2 DEF Own, Works, Listens, Loopback, Polls, LoginAt, Is, Starting
        <2>2. Approved(l)'
            BY <1>1, <1>2 DEF Own, Approved
        <2>3. Stopped(l)'
            BY <1>1, <1>2 DEF Own, Stopped, Heeds, LoginAt, Is, Starting
        <2> QED
            BY <2>1, <2>2, <2>3 DEF Own
    <1> QED
        BY <1>1, <1>2, StepKeeps

\* A start request that is refused.
LEMMA RefusedKeeps ==
    ASSUME IInv, NEW l \in Logins, ~LoginAt(l, "none"), ~LoginAt(l, "waiting"),
           logins' = Refused(l),
           UNCHANGED <<dialog, opened, ports, granted, rows, early>>
    PROVE  IInv'
    <1> DEFINE login == [logins[l] EXCEPT !.at = "ended", !.chain = "refused"]
    <1>1. /\ login \in Records /\ logins' = [logins EXCEPT ![l] = login]
          /\ login.at = "ended" /\ login.platform = logins[l].platform
          /\ login.inbox = logins[l].inbox /\ login.listed = logins[l].listed
          /\ login.sender = logins[l].sender
        <2>1. "ended" \in Stages /\ "refused" \in Chains
            BY DEF Stages, Chains
        <2>2. logins' = [logins EXCEPT ![l] = login]
            BY Typing, Zenon DEF Refused
        <2>3. logins[l] \in Records
            BY Typing
        <2>4. login \in Records
            BY <2>1, <2>3 DEF Records
        <2> QED
            BY <2>2, <2>3, <2>4 DEF Records
    <1>2. logins[l].sender => logins[l].listed
        BY DEF IInv, Own, Works
    <1> HIDE DEF login
    <1> QED
        BY <1>1, <1>2, EndKeeps

\* One that succeeds: the sign-in is registered, with a port if it has a listener.
LEMMA RegisteredKeeps ==
    ASSUME IInv, NEW l \in Logins, logins[l].at \in Starting \ {"none"},
           logins' = Registered(l),
           ports' \in [Ports -> {Nobody, Other} \union Logins],
           \A p \in Ports : ports'[p] = ports[p] \/ (ports[p] = Nobody /\ ports'[p] = l),
           Loopback(l) <=> \E p \in Ports : ports'[p] = l,
           \A p \in Ports : ports'[p] = l => (p = "third" <=> Is(l, "grok")),
           l \notin early,
           UNCHANGED <<dialog, opened, granted, rows, early>>
    PROVE  IInv'
    <1> DEFINE login == [logins[l] EXCEPT !.at = "waiting", !.chain = "started",
                                          !.listed = TRUE, !.sender = TRUE]
    <1>1. /\ login \in Records /\ login.at = "waiting"
          /\ login.platform = logins[l].platform /\ login.inbox = logins[l].inbox
          /\ login.listed = TRUE /\ login.sender = TRUE
        <2> DEFINE waits == [logins[l] EXCEPT !.at = "waiting", !.chain = "started"]
        <2>1. logins[l] \in Records /\ "waiting" \in Stages /\ "started" \in Chains
            BY Typing DEF Stages, Chains
        <2>2. /\ waits \in Records /\ waits.at = "waiting"
              /\ waits.platform = logins[l].platform /\ waits.inbox = logins[l].inbox
            BY <2>1 DEF Records
        <2>3. login = [waits EXCEPT !.listed = TRUE, !.sender = TRUE]
            BY Zenon
        <2> HIDE DEF login, waits
        <2> QED
            BY <2>2, <2>3 DEF Records
    <1>5. logins' = [logins EXCEPT ![l] = login]
        BY Typing, Zenon DEF Registered, Enters
    <1> HIDE DEF login
    <1>2. Own(l) /\ dialog \in Dialogs
        BY DEF IInv, LoginTyped
    <1>3. ASSUME logins'[l] = login PROVE Own(l)'
        <2>1. Works(l)'
            BY <1>1, <1>2, <1>3 DEF Own, Works, Listens, Loopback, Polls, LoginAt, Is, Starting
        <2>2. Approved(l)'
            BY <1>1, <1>2, <1>3 DEF Own, Approved
        <2>3. Stopped(l)'
            BY <1>1, <1>2, <1>3 DEF Own, Stopped
        <2> QED
            BY <2>1, <2>2, <2>3 DEF Own
    <1>4. /\ \A p \in Ports : ports'[p] = ports[p] \/ {ports[p], ports'[p]} = {Nobody, l}
          /\ dialog' \in Dialogs /\ opened' = opened /\ early' = early
          /\ granted' = granted /\ rows' = rows
        BY <1>2
    <1> QED
        BY <1>1, <1>3, <1>4, <1>5, StepKeeps
-----------------------------------------------------------------------------
LEMMA AnsweredKeeps == ASSUME IInv, NEW l \in Logins, Answered(l) PROVE IInv'
    <1>1. PICK chain \in {"awaiting", "done"} : logins' = [logins EXCEPT ![l].chain = chain]
        BY DEF Answered
    <1> DEFINE login == [logins[l] EXCEPT !.chain = chain]
    <1>2. /\ login \in Records /\ logins' = [logins EXCEPT ![l] = login]
          /\ login.at = logins[l].at /\ login.platform = logins[l].platform
          /\ login.inbox = logins[l].inbox /\ login.listed = logins[l].listed
          /\ login.sender = logins[l].sender
        BY <1>1, Typing DEF Records, Chains
    <1>3. dialog' \in Dialogs
        BY Typing DEF Answered, Dialogs
    <1> HIDE DEF login
    <1> QED
        BY <1>2, <1>3, Typing, TellKeeps DEF Answered

LEMMA TakeReceiverKeeps == ASSUME IInv, NEW l \in Logins, TakeReceiver(l) PROVE IInv'
    <1>1. PICK chain \in {"receiving", "failed"} : logins' = [logins EXCEPT ![l].chain = chain]
        BY DEF TakeReceiver
    <1> DEFINE login == [logins[l] EXCEPT !.chain = chain]
    <1>2. /\ login \in Records /\ logins' = [logins EXCEPT ![l] = login]
          /\ login.at = logins[l].at /\ login.platform = logins[l].platform
          /\ login.inbox = logins[l].inbox /\ login.listed = logins[l].listed
          /\ login.sender = logins[l].sender
        BY <1>1, Typing DEF Records, Chains
    <1> HIDE DEF login
    <1>3. dialog' \in Dialogs /\ UNCHANGED <<opened, ports, granted, rows, early>>
        BY Typing DEF TakeReceiver
    <1>4. (login.listed => logins[l].listed) /\ (login.sender => login.listed)
        BY <1>2, Typing
    <1> QED
        BY <1>2, <1>3, <1>4, TellKeeps

LEMMA ReceiveKeeps == ASSUME IInv, NEW l \in Logins, Receive(l) PROVE IInv'
    <1> DEFINE login == [logins[l] EXCEPT !.chain = logins[l].answer, !.listed = FALSE,
                                          !.sender = FALSE]
    <1>1. /\ login \in Records /\ logins' = [logins EXCEPT ![l] = login]
          /\ login.at = logins[l].at /\ login.platform = logins[l].platform
          /\ login.inbox = logins[l].inbox /\ login.listed = FALSE /\ login.sender = FALSE
        <2>1. logins[l] \in Records /\ logins[l].answer \in Chains
            BY Typing DEF Records, Chains
        <2>2. logins' = [logins EXCEPT ![l] = login]
            BY Typing, Zenon DEF Receive
        <2>3. login \in Records
            BY <2>1 DEF Records
        <2> QED
            BY <2>1, <2>2, <2>3 DEF Records
    <1> HIDE DEF login
    <1>2. dialog' \in Dialogs /\ UNCHANGED <<opened, ports, granted, rows, early>>
        BY Typing DEF Receive
    <1> QED
        BY <1>1, <1>2, TellKeeps

LEMMA CompletedKeeps == ASSUME IInv, NEW l \in Logins, Completed(l) PROVE IInv'
    <1> DEFINE login == [logins[l] EXCEPT !.chain = "done"]
    <1>1. /\ login \in Records /\ logins' = [logins EXCEPT ![l] = login]
          /\ login.at = logins[l].at /\ login.platform = logins[l].platform
          /\ login.inbox = logins[l].inbox /\ login.listed = logins[l].listed
          /\ login.sender = logins[l].sender
        BY Typing DEF Completed, Records, Chains
    <1>2. dialog' \in Dialogs
        BY Typing DEF Completed, Dialogs
    <1> HIDE DEF login
    <1> QED
        BY <1>1, <1>2, Typing, TellKeeps DEF Completed

LEMMA ExpireKeeps == ASSUME IInv, NEW l \in Logins, Expire(l) PROVE IInv'
    <1> DEFINE login == [logins[l] EXCEPT !.late = TRUE]
    <1>1. /\ login \in Records /\ logins' = [logins EXCEPT ![l] = login]
          /\ login.at = logins[l].at /\ login.platform = logins[l].platform
          /\ login.inbox = logins[l].inbox /\ login.listed = logins[l].listed
          /\ login.sender = logins[l].sender
        BY Typing DEF Expire, Records
    <1> HIDE DEF login
    <1> QED
        BY <1>1, Typing, TellKeeps DEF Expire

LEMMA DeliverKeeps == ASSUME IInv, NEW l \in Logins, Deliver(l) PROVE IInv'
    <1>1. PICK answer \in {"none", "saved", "failed"} :
             logins' = [logins EXCEPT ![l].at = "ended", ![l].sender = FALSE,
                                      ![l].answer = answer]
        BY Typing DEF Deliver, Records
    <1> DEFINE login == [logins[l] EXCEPT !.at = "ended", !.sender = FALSE,
                                          !.answer = answer]
    <1>2. /\ login \in Records /\ logins' = [logins EXCEPT ![l] = login]
          /\ login.at = "ended" /\ login.platform = logins[l].platform
          /\ login.inbox = logins[l].inbox /\ login.listed = logins[l].listed
          /\ login.sender = FALSE
        <2>1. logins[l] \in Records /\ "ended" \in Stages
            BY Typing DEF Stages
        <2>2. logins' = [logins EXCEPT ![l] = login]
            BY <1>1, Typing, Zenon
        <2>3. login \in Records
            BY <2>1 DEF Records
        <2> QED
            BY <2>1, <2>2, <2>3 DEF Records
    <1> HIDE DEF login
    <1> QED
        BY <1>2, EndKeeps DEF Deliver, LoginAt
-----------------------------------------------------------------------------
LEMMA PokeKeeps == ASSUME IInv, NEW l \in Logins, Poke(l) PROVE IInv'
    <1> DEFINE moved == [logins EXCEPT ![l].at = "poked"]
    <1>1. /\ logins' = AskToStop(moved, {Wished(l)}) /\ LoginAt(l, "binding")
          /\ UNCHANGED <<dialog, opened, ports, granted, rows, early>>
        BY DEF Poke
    <1>2. /\ moved \in [Logins -> Records] /\ moved[l].at = "poked"
          /\ moved[l].platform = logins[l].platform /\ moved[l].listed = logins[l].listed
          /\ moved[l].sender = logins[l].sender /\ moved[l].inbox = logins[l].inbox
          /\ \A k \in Logins \ {l} : moved[k] = logins[k]
        BY Typing DEF Records, Stages
    <1> HIDE DEF moved
    <1>3. \A k \in Logins : logins'[k] = moved[k] \/ logins'[k] = Post(moved[k], "cancel")
        BY <1>1 DEF AskToStop
    <1>4. logins' \in [Logins -> Records]
        BY <1>1, <1>2, <1>3, PostShape DEF AskToStop
    <1>5. LoginTyped'
        BY <1>1, <1>4 DEF IInv, LoginTyped
    <1>6. ASSUME NEW k \in Logins, k # l PROVE Own(k)'
        BY <1>1, <1>2, <1>3, <1>6, OthersKeep
    <1>7. Own(l)'
        <2>1. ~Listens(l) /\ Loopback(l) /\ Wished(l) \in Ports
            BY <1>1, Typing DEF Own, Works, LoginAt, Is, Starting, Wished, Ports, CodexPorts
        <2>2. logins'[l] = moved[l]
            BY <1>1, <2>1 DEF AskToStop, Listens
        <2>3. Works(l)'
            BY <1>1, <1>2, <2>1, <2>2, Typing DEF Own, Works, Listens, Loopback, Polls, Starting, LoginAt, Is
        <2>4. Approved(l)'
            BY <1>1, <1>2, <2>2, Typing DEF Own, Approved
        <2>5. Stopped(l)'
            BY <1>1, <1>2, <2>1, <2>2, Typing
               DEF Own, Stopped, Heeds, Loopback, LoginAt, Is, Starting
        <2> QED
            BY <2>3, <2>4, <2>5 DEF Own
    <1> QED
        BY <1>5, <1>6, <1>7 DEF IInv

\* Without device codes the sign-in becomes one with a listener, still to be bound.
LEMMA BeginKeeps == ASSUME IInv, NEW l \in Logins, BeginLogin(l) PROVE IInv'
    <1>1. /\ LoginAt(l, "begin") /\ Polls(l) /\ ~Loopback(l) /\ ~Listens(l)
          /\ l \notin early
        BY Typing DEF BeginLogin, Own, Works, Stopped, LoginAt, Is, Polls, Loopback, Starting
    <1>2. CASE logins' = Registered(l)
        BY <1>1, <1>2, RegisteredKeeps
           DEF BeginLogin, LoginAt, Starting, Listens, IInv, LoginTyped
    <1>3. CASE logins' = Refused(l)
        BY <1>1, <1>3, RefusedKeeps DEF BeginLogin, LoginAt
    <1>4. CASE logins' = Enters(l, "grok", "binding")
        <2> DEFINE login == [logins[l] EXCEPT !.platform = "grok", !.at = "binding",
                                 !.chain = "started", !.listed = TRUE, !.sender = TRUE]
        <2>1. logins' = [logins EXCEPT ![l] = login]
            BY <1>4, Typing, Zenon DEF Enters
        <2>2. /\ login \in Records /\ login.at = "binding" /\ login.platform = "grok"
              /\ login.inbox = logins[l].inbox /\ login.listed = TRUE
            <3>1. logins[l] \in Records /\ "binding" \in Stages /\ "started" \in Chains
                BY Typing DEF Stages, Chains
            <3> QED
                BY <3>1 DEF Records
        <2> HIDE DEF login
        <2>3. /\ dialog' \in Dialogs
              /\ UNCHANGED <<opened, ports, granted, rows, early>>
              /\ ports \in [Ports -> {Nobody, Other} \union Logins]
            BY DEF BeginLogin, IInv, LoginTyped
        <2>4. ASSUME logins'[l] = login PROVE Own(l)'
            <3>1. Works(l)'
                BY <1>1, <2>2, <2>3, <2>4
                   DEF Works, Listens, Loopback, Polls, LoginAt, Is, Starting
            <3>2. Approved(l)'
                BY <2>2, <2>3, <2>4, Typing DEF Own, Approved
            <3>3. Stopped(l)'
                BY <1>1, <2>3 DEF Stopped
            <3> QED
                BY <3>1, <3>2, <3>3 DEF Own
        <2> QED
            BY <2>1, <2>2, <2>3, <2>4, StepKeeps
    <1> QED
        BY <1>2, <1>3, <1>4 DEF BeginLogin

LEMMA BindKeeps == ASSUME IInv, NEW l \in Logins, NEW p \in Ports, BindPort(l, p) PROVE IInv'
    <1>1. /\ logins[l].at \in {"binding", "poked", "second"} /\ Loopback(l) /\ ~Listens(l)
          /\ p = "third" <=> Is(l, "grok")
        BY Typing DEF BindPort, Wished, Ports, CodexPorts, LoginAt, Is, Loopback, Own, Works
    <1>2. /\ ports' \in [Ports -> {Nobody, Other} \union Logins] /\ ports'[p] = l
          /\ \A q \in Ports : ports'[q] = ports[q] \/ (ports[q] = Nobody /\ ports'[q] = l)
          /\ \A q \in Ports : ports'[q] = l => q = p
        BY <1>1 DEF BindPort, Listens, IInv, LoginTyped
    <1>3. CASE ~Is(l, "grok")
        <2>1. l \notin early
            BY <1>1, <1>3, Typing DEF Own, Stopped, Starting
        <2> QED
            BY <1>1, <1>2, <1>3, <2>1, RegisteredKeeps DEF BindPort, Starting
    <1>4. CASE Is(l, "grok")
        <2>1. logins' = [logins EXCEPT ![l].at = "waiting"] /\ "waiting" \in Stages
            BY <1>4 DEF BindPort, Stages
        <2> DEFINE login == [logins[l] EXCEPT !.at = "waiting"]
        <2>2. /\ login \in Records /\ logins' = [logins EXCEPT ![l] = login]
              /\ login.at = "waiting" /\ login.platform = "grok"
              /\ login.listed = logins[l].listed /\ login.sender = logins[l].sender
              /\ login.inbox = logins[l].inbox
            BY <1>4, <2>1, AtShape DEF Is
        <2> HIDE DEF login
        <2>3. dialog' \in Dialogs /\ UNCHANGED <<opened, granted, rows, early>>
            BY DEF BindPort, IInv, LoginTyped
        <2>4. ASSUME logins'[l] = login PROVE Own(l)'
            <3>1. Works(l)'
                BY <1>1, <1>2, <1>4, <2>2, <2>4, Typing
                   DEF Own, Works, Listens, Loopback, Polls, LoginAt, Is, Starting
            <3>2. Approved(l)'
                BY <2>2, <2>3, <2>4, Typing DEF Own, Approved
            <3>3. Stopped(l)'
                BY <2>2, <2>4 DEF Stopped, Heeds, Is, LoginAt
            <3> QED
                BY <3>1, <3>2, <3>3 DEF Own
        <2>5. \A q \in Ports : ports'[q] = ports[q] \/ {ports[q], ports'[q]} = {Nobody, l}
            BY <1>2
        <2> QED
            BY <1>2, <2>2, <2>3, <2>4, <2>5, StepKeeps
    <1> QED
        BY <1>3, <1>4

LEMMA FallBackKeeps == ASSUME IInv, NEW l \in Logins, FallBack(l) PROVE IInv'
    <1>1. /\ LoginAt(l, "poked") /\ Loopback(l)
          /\ Is(l, "codex") => ~logins[l].listed /\ l \notin early
        BY Typing DEF FallBack, LoginAt, Own, Works, Stopped, Starting, Is
    <1>2. PICK stage \in {"failed", "second"} :
             /\ logins' = [logins EXCEPT ![l].at = stage]
             /\ stage = "second" => Is(l, "codex")
        BY <1>1 DEF FallBack, Loopback
    <1> QED
        BY <1>1, <1>2, MoveKeeps DEF FallBack, LoginAt, Stages, Starting

LEMMA BindFailsKeeps == ASSUME IInv, NEW l \in Logins, BindFails(l) PROVE IInv'
    BY RefusedKeeps DEF BindFails, LoginAt

LEMMA GiveUpKeeps == ASSUME IInv, NEW l \in Logins, GiveUp(l) PROVE IInv'
    BY MoveKeeps DEF GiveUp, LoginAt, Stages, Starting

LEMMA ReadInboxKeeps == ASSUME IInv, NEW l \in Logins, ReadInbox(l) PROVE IInv'
    <1>1. logins[l].inbox = "code" => l \in granted /\ (l \in early => ~Is(l, "codex"))
        BY Typing DEF Own, Approved, Stopped, Heeds, ReadInbox, LoginAt, Is
    <1> QED
        BY <1>1, MoveKeeps DEF ReadInbox, LoginAt, Stages, Starting

LEMMA PollKeeps == ASSUME IInv, NEW l \in Logins, Poll(l) PROVE IInv'
    BY MoveKeeps DEF Poll, Polls, Loopback, Is, LoginAt, Stages, Starting

LEMMA PollAnsweredKeeps == ASSUME IInv, NEW l \in Logins, PollAnswered(l) PROVE IInv'
    <1>1. Polls(l) /\ ~Loopback(l) /\ ~Is(l, "codex")
        BY Typing DEF PollAnswered, Own, Works, LoginAt, Polls, Loopback, Is
    <1>2. PICK stage \in {"waiting", "failed", "tokens"} :
             /\ logins' = [logins EXCEPT ![l].at = stage]
             /\ stage = "tokens" => l \in granted
        BY DEF PollAnswered
    <1> QED
        BY <1>1, <1>2, MoveKeeps DEF PollAnswered, LoginAt, Stages, Starting

\* Codex's cancelled sign-ins never get here, those by device code are refused here.
LEMMA ExchangeKeeps == ASSUME IInv, NEW l \in Logins, Exchange(l) PROVE IInv'
    <1>1. ~(LoginAt(l, "waiting") /\ Loopback(l)) /\ l \in granted
        BY Typing DEF Exchange, Own, Approved, LoginAt
    <1>2. CASE logins' = [logins EXCEPT ![l].at = "failed"]
        BY <1>1, <1>2, MoveKeeps DEF Exchange, LoginAt, Stages, Starting
    <1>3. CASE /\ Is(l, "xai") => logins[l].listed
               /\ logins' = [logins EXCEPT ![l].at = "saving"]
        <2>1. l \in early => ~Heeds(l)
            BY <1>3, Typing DEF Exchange, Own, Stopped, Heeds, Is, LoginAt
        <2> QED
            BY <1>1, <1>3, <2>1, MoveKeeps DEF Exchange, LoginAt, Stages, Starting
    <1> QED
        BY <1>2, <1>3 DEF Exchange

LEMMA FinalizeKeeps == ASSUME IInv, NEW l \in Logins, Finalize(l) PROVE IInv'
    <1>1. /\ ~(LoginAt(l, "waiting") /\ Loopback(l)) /\ l \in granted
          /\ l \in early => ~Heeds(l)
        BY Typing DEF Finalize, Own, Approved, Stopped, LoginAt
    <1> QED
        BY <1>1, MoveKeeps DEF Finalize, LoginAt, Stages, Starting

LEMMA ApproveKeeps == ASSUME IInv, NEW l \in Logins, Approve(l) PROVE IInv'
    <1>1. PICK login \in {logins[l], Post(logins[l], "code")} :
             /\ logins' = [logins EXCEPT ![l] = login]
             /\ login # logins[l] => Listens(l)
        <2>1. CASE \E p \in Ports : ports[p] = l
            BY <2>1 DEF Approve, Listens
        <2>2. CASE ~\E p \in Ports : ports[p] = l
            <3>1. logins' = [logins EXCEPT ![l] = logins[l]]
                BY <2>2, Typing DEF Approve
            <3> QED
                BY <3>1
        <2> QED
            BY <2>1, <2>2
    <1>2. /\ login \in Records /\ login.at = logins[l].at
          /\ login.platform = logins[l].platform
          /\ login.listed = logins[l].listed /\ login.sender = logins[l].sender
          /\ login.inbox = logins[l].inbox
             \/ (Listens(l) /\ logins[l].inbox = "none" /\ login.inbox = "code")
        BY <1>1, Typing, PostShape
    <1>3. /\ ports \in [Ports -> {Nobody, Other} \union Logins] /\ dialog' \in Dialogs
          /\ UNCHANGED <<dialog, opened, ports, rows, early>>
          /\ granted' = granted \union {l}
        BY Typing DEF Approve, IInv, LoginTyped
    <1>4. ASSUME logins'[l] = login PROVE Own(l)'
        <2>1. Works(l)'
            BY <1>2, <1>3, <1>4, Typing DEF Own, Works, Listens, Loopback, Polls, Starting, LoginAt, Is
        <2>2. Approved(l)'
            BY <1>3 DEF Approved
        <2>3. Stopped(l)'
            BY <1>2, <1>3, <1>4, Typing DEF Own, Works, Stopped, Heeds, Loopback, LoginAt, Is
        <2> QED
            BY <2>1, <2>2, <2>3 DEF Own
    <1> QED
        BY <1>1, <1>2, <1>3, <1>4, StepKeeps

LEMMA StartLoginKeeps == ASSUME IInv, NEW l \in Logins, StartLogin(l) PROVE IInv'
    <1> DEFINE login == [Unused EXCEPT !.platform = dialog.platform, !.dialog = opened,
                             !.chain = "starting",
                             !.at = IF dialog.platform = "codex" THEN "binding" ELSE "begin"]
    <1>1. /\ logins' = [logins EXCEPT ![l] = login] /\ LoginAt(l, "none")
          /\ dialog.platform # "none" /\ dialog.platform \in Platforms
        BY Typing DEF StartLogin, Dialogs
    <1>2. opened \in 0..MaxDialogs
        BY DEF IInv, LoginTyped
    <1>3. /\ login \in Records /\ login.platform = dialog.platform
          /\ login.at = IF dialog.platform = "codex" THEN "binding" ELSE "begin"
          /\ login.listed = FALSE /\ login.sender = FALSE /\ login.inbox = "none"
        BY <1>1, <1>2 DEF Unused, Records, Stages, Chains
    <1> HIDE DEF login
    <1>4. /\ ports \in [Ports -> {Nobody, Other} \union Logins] /\ dialog' \in Dialogs
          /\ UNCHANGED <<opened, ports, granted, rows, early>>
        BY Typing DEF StartLogin, Dialogs, IInv, LoginTyped
    <1>5. l \notin early
        BY <1>1, Typing DEF Own, Works, Stopped, LoginAt, Is, Starting
    <1>6. ASSUME logins'[l] = login PROVE Own(l)'
        <2>1. Works(l)'
            <3>1. login.platform \in {"codex", "xai", "cursor"}
                BY <1>1, <1>3, PlatformsAreKinds
            <3>2. \A p \in Ports : ports'[p] # l
                BY <1>1, <1>4, Typing DEF Own, Works, Listens, LoginAt
            <3> QED
                BY <1>3, <1>6, <3>1, <3>2
                   DEF Works, Listens, Loopback, Polls, LoginAt, Is, Starting
        <2>2. Approved(l)'
            BY <1>1, <1>3, <1>4, <1>6, Typing DEF Own, Approved
        <2>3. Stopped(l)'
            BY <1>4, <1>5 DEF Stopped
        <2> QED
            BY <2>1, <2>2, <2>3 DEF Own
    <1> QED
        BY <1>1, <1>3, <1>4, <1>6, StepKeeps

LEMMA OpenAddKeeps ==
    ASSUME IInv, NEW platform \in Platforms, OpenAdd(platform) PROVE IInv'
    <1>1. dialog' \in Dialogs /\ opened' \in 0..MaxDialogs
        BY DEF OpenAdd, Dialogs, IInv, LoginTyped
    <1>2. LoginTyped'
        BY <1>1 DEF OpenAdd, IInv, LoginTyped
    <1>3. ASSUME NEW k \in Logins PROVE Own(k)'
        BY OthersKeep DEF OpenAdd
    <1> QED
        BY <1>2, <1>3 DEF IInv

LEMMA OtherLeavesKeeps == ASSUME IInv, OtherLeaves PROVE IInv'
    <1>1. PICK p \in Ports : ports[p] = Other /\ ports' = [ports EXCEPT ![p] = Nobody]
        BY DEF OtherLeaves
    <1>2. LoginTyped'
        BY <1>1 DEF OtherLeaves, IInv, LoginTyped
    <1>3. ASSUME NEW k \in Logins PROVE Own(k)'
        <2>1. \A q \in Ports : ports'[q] = k <=> ports[q] = k
            BY <1>1 DEF IInv, LoginTyped, Logins, Other, Nobody
        <2> QED
            BY <2>1, OthersKeep DEF OtherLeaves
    <1> QED
        BY <1>2, <1>3 DEF IInv

\* Closing the dialog: the one it waits for leaves the registry, and every
\* listener that may be in its way is told to stop.
LEMMA CloseAddKeeps == ASSUME IInv, CloseAdd PROVE IInv'
    <1>1. dialog' \in Dialogs /\ UNCHANGED <<opened, ports, granted, rows>>
        BY DEF CloseAdd, Closed, Dialogs
    <1>2. CASE UNCHANGED <<logins, early>>
        <2>1. LoginTyped'
            BY <1>1, <1>2 DEF IInv, LoginTyped
        <2>2. ASSUME NEW k \in Logins PROVE Own(k)'
            BY <1>1, <1>2, OthersKeep
        <2> QED
            BY <2>1, <2>2 DEF IInv
    <1>3. CASE ~UNCHANGED <<logins, early>>
        <2>1. PICK l \in Logins :
                 /\ logins[l].listed /\ logins' = Cancelled(l)
                 /\ early' = IF l \notin granted THEN early \union {l} ELSE early
            <3>1. dialog.pending \in {Nobody} \union Logins
                BY DEF IInv, LoginTyped, Dialogs
            <3>2. dialog.pending # Nobody /\ logins[dialog.pending].listed
                BY <1>3, Zenon DEF CloseAdd, Cancelled
            <3> QED
                BY <3>1, <3>2, Zenon DEF CloseAdd
        <2> DEFINE gone == [logins EXCEPT ![l].listed = FALSE, ![l].sender = FALSE,
                               ![l].answer = IF logins[l].sender THEN "failed" ELSE @]
        <2>2. logins' = IF Is(l, "codex") THEN AskToStop(gone, CodexPorts) ELSE gone
            BY <2>1 DEF Cancelled
        <2>3. /\ gone \in [Logins -> Records] /\ gone[l].at = logins[l].at
              /\ gone[l].platform = logins[l].platform /\ gone[l].inbox = logins[l].inbox
              /\ gone[l].listed = FALSE /\ gone[l].sender = FALSE
              /\ \A k \in Logins \ {l} : gone[k] = logins[k]
            <3> DEFINE answer == IF logins[l].sender THEN "failed" ELSE logins[l].answer
            <3>1. answer \in {"none", "saved", "failed"}
                BY Typing DEF Records
            <3>2. \A k \in Logins \ {l} : gone[k] = logins[k]
                BY <2>1, Typing
            <3>3. gone[l] = [logins[l] EXCEPT !.listed = FALSE, !.sender = FALSE,
                                              !.answer = answer]
                BY <2>1, Typing
            <3> HIDE DEF answer
            <3>4. /\ gone[l] \in Records /\ gone[l].at = logins[l].at
                  /\ gone[l].platform = logins[l].platform /\ gone[l].inbox = logins[l].inbox
                  /\ gone[l].listed = FALSE /\ gone[l].sender = FALSE
                <4> HIDE DEF gone
                <4>1. logins[l] \in Records
                    BY <2>1, Typing
                <4> QED
                    BY <3>1, <3>3, <4>1 DEF Records
            <3>5. gone \in [Logins -> Records]
                BY <3>2, <3>4, Typing
            <3> QED
                BY <3>2, <3>4, <3>5
        <2>4. Is(l, "codex") /\ Listens(l) => \E p \in CodexPorts : ports[p] = l
            BY Typing DEF Own, Works, Listens, Is, Ports
        <2> HIDE DEF gone
        <2>5. \A k \in Logins : logins'[k] = gone[k] \/ logins'[k] = Post(gone[k], "cancel")
            BY <2>2, <2>3 DEF AskToStop
        <2>6. logins' \in [Logins -> Records]
            BY <2>2, <2>3, <2>5, PostShape DEF AskToStop
        <2>7. LoginTyped'
            BY <1>1, <2>1, <2>6 DEF IInv, LoginTyped
        <2>8. ASSUME NEW k \in Logins, k # l PROVE Own(k)'
            BY <1>1, <2>1, <2>3, <2>5, <2>8, OthersKeep
        <2>9. /\ logins'[l].at = logins[l].at /\ logins'[l].platform = logins[l].platform
              /\ logins'[l].listed = FALSE /\ logins'[l].sender = FALSE
              /\ logins'[l].inbox = logins[l].inbox
                 \/ (logins[l].inbox = "none" /\ logins'[l].inbox = "cancel")
            BY <2>1, <2>3, <2>5, PostShape
        <2>10. Is(l, "codex") /\ Listens(l) => logins'[l].inbox # "none"
            <3> SUFFICES ASSUME Is(l, "codex"), Listens(l) PROVE logins'[l].inbox # "none"
                OBVIOUS
            <3>1. logins'[l] = Post(gone[l], "cancel")
                BY <2>1, <2>2, <2>4 DEF AskToStop
            <3> QED
                BY <2>1, <2>3, <3>1, PostShape
        <2>11. logins'[l].inbox \in {"none", "cancel", "code"}
            BY <2>1, <2>6 DEF Records
        <2>12. Own(l)'
            <3>1. Works(l)'
                BY <1>1, <2>1, <2>9, Typing DEF Own, Works, Listens, Loopback, Polls, Starting, LoginAt, Is
            <3>2. Approved(l)'
                BY <1>1, <2>1, <2>9, Typing DEF Own, Approved
            <3>3. Stopped(l)'
                BY <1>1, <2>1, <2>9, <2>10, <2>11, Typing
                   DEF Own, Works, Approved, Stopped, Heeds, Loopback, LoginAt, Is
            <3> QED
                BY <3>1, <3>2, <3>3 DEF Own
        <2> QED
            BY <2>7, <2>8, <2>12 DEF IInv
    <1> QED
        BY <1>2, <1>3
-----------------------------------------------------------------------------
LEMMA LoginInitHolds == ASSUME LoginInit PROVE IInv
    <1>1. /\ Unused \in Records /\ Unused.at = "none" /\ Unused.platform = "none"
          /\ Unused.listed = FALSE /\ Unused.sender = FALSE /\ Unused.inbox = "none"
        BY DEF Unused, Records, Stages, Chains
    <1>2. Closed \in Dialogs
        BY DEF Closed, Dialogs
    <1>3. LoginTyped
        BY <1>1, <1>2 DEF LoginInit, LoginTyped
    <1>4. ASSUME NEW l \in Logins PROVE Own(l)
        <2>1. logins[l] = Unused /\ ~Listens(l) /\ l \notin rows /\ l \notin early
            BY DEF LoginInit, Listens, Logins, Nobody, Other
        <2> QED
            BY <1>1, <2>1
               DEF Own, Works, Approved, Stopped, Listens, Loopback, LoginAt, Is, Starting
    <1> QED
        BY <1>3, <1>4 DEF IInv

LEMMA NextKeeps == ASSUME IInv, [LoginNext]_loginVars PROVE IInv'
    <1>1. ASSUME NEW l \in Logins, StartStep(l) PROVE IInv'
        BY <1>1, BeginKeeps, BindKeeps, PokeKeeps, FallBackKeeps, BindFailsKeeps DEF StartStep
    <1>2. ASSUME NEW l \in Logins, WorkerStep(l) PROVE IInv'
        BY <1>2, GiveUpKeeps, ReadInboxKeeps, PollKeeps, PollAnsweredKeeps, ExchangeKeeps,
           FinalizeKeeps, DeliverKeeps DEF WorkerStep
    <1>3. ASSUME NEW l \in Logins, DialogStep(l) PROVE IInv'
        BY <1>3, AnsweredKeeps, TakeReceiverKeeps, ReceiveKeeps, CompletedKeeps DEF DialogStep
    <1>4. CASE UNCHANGED loginVars
        <2>1. LoginTyped'
            BY <1>4 DEF loginVars, IInv, LoginTyped
        <2>2. ASSUME NEW k \in Logins PROVE Own(k)'
            BY <1>4, OthersKeep DEF loginVars
        <2> QED
            BY <2>1, <2>2 DEF IInv
    <1> QED
        BY <1>1, <1>2, <1>3, <1>4, OpenAddKeeps, CloseAddKeeps, OtherLeavesKeeps,
           StartLoginKeeps, ExpireKeeps, ApproveKeeps DEF LoginNext

LEMMA InvariantHolds == LoginSpec => []IInv
    BY LoginInitHolds, NextKeeps, PTL DEF LoginSpec
-----------------------------------------------------------------------------
\* The fields have their types, only a worker that waits for its browser has a
\* port, Codex one of its two and Grok the third, and a sender is only in a
\* listed entry.
THEOREM LoginTypeCorrect == LoginSpec => []LoginTypeOK
    <1>1. IInv => LoginTypeOK
        BY DEF IInv, LoginTyped, Own, Works, Listens, Loopback, Is, Records, Dialogs, LoginTypeOK
    <1> QED
        BY <1>1, InvariantHolds, PTL

\* A Codex sign-in, or a Grok sign-in by device code, that is cancelled before
\* the user approved it never adds an account row.
THEOREM CancelIsFinal == LoginSpec => []CancelStands
    <1>1. IInv => CancelStands
        BY DEF IInv, LoginTyped, Own, Stopped, Heeds, CancelStands
    <1> QED
        BY <1>1, InvariantHolds, PTL
=============================================================================
