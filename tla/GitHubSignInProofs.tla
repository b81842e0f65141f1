-------------------------- MODULE GitHubSignInProofs --------------------------
(***************************************************************************)
(* Why comparing the generation once more, under the lock, is enough for   *)
(* any number of dialogs, status tasks, refreshes, codes and accounts: a   *)
(* task that still holds the current generation holds a code that nobody   *)
(* has ended, because whatever ends codes also starts a generation that no *)
(* task holds yet.                                                         *)
(***************************************************************************)
EXTENDS GitHubSignIn, TLAPS

\* The codes that may have been in use so far.
Known == 0 .. issued \cup {MaxCodes + 1}

\* Nothing is of a generation still to come, and only known codes are in use.
NothingAhead ==
   /\ ended \subseteq Known
   /\ stored.code \in Known
   /\ pending.code \in Known
   /\ \A d \in Dialogs : chain[d].gen <= generation /\ chain[d].code \in Known
   /\ \A r \in Renewals : renewal[r].gen <= generation /\ renewal[r].code \in Known

\* The pending code is of the current generation and has not been ended.
PendingIsLive == pending.code # 0 => /\ pending.gen = generation
                                     /\ pending.code \notin ended

\* What a chain or a refresh of the current generation works on is not ended.
HeldIsLive ==
   /\ \A d \in Dialogs :
         (/\ chain[d].at \in {"polling", "answered", "naming"}
          /\ chain[d].gen = generation) => chain[d].code \notin ended
   /\ \A r \in Renewals :
         (renewal[r].at = "asking" /\ renewal[r].gen = generation)
            => renewal[r].code \notin ended

\* Who names an account names one of the accounts.
NamesAreAccounts ==
   /\ stored.code # 0 => stored.account \in Accounts
   /\ \A d \in Dialogs : chain[d].at = "naming" => chain[d].says \in Accounts
   /\ \A w \in Watchers :
         /\ watch[w].at \in {"loaded", "named"} => watch[w].says \in Accounts
         /\ watch[w].at = "done" => watch[w].says \in Accounts \cup {"out"}
   /\ \A r \in Renewals : renewal[r].at = "asking" => renewal[r].says \in Accounts

\* What a chain polls is a code.
PolledAreCodes == \A d \in Dialogs :
   chain[d].at = "polling" => chain[d].code \in Codes

Typed == TypeOK /\ NamesAreAccounts
IInv  == Typed /\ NothingAhead /\ PolledAreCodes /\ PendingIsLive /\ HeldIsLive /\ EndedStays

\* A task of the right shape.
LEMMA TaskShape ==
  ASSUME NEW at, NEW gen, NEW code, NEW says
  PROVE  /\ Task(at, gen, code, says).at = at
         /\ Task(at, gen, code, says).gen = gen
         /\ Task(at, gen, code, says).code = code
         /\ Task(at, gen, code, says).says = says
         /\ \A ats, sayings :
               /\ at \in ats /\ gen \in Nat /\ code \in 0 .. MaxCodes + 1
               /\ says \in sayings
               => Task(at, gen, code, says) \in Tasks(ats, sayings)
  BY DEF Task, Tasks

\* The process starts with what an earlier one stored and nothing ended.
LEMMA InitIInv == Init => IInv
  <1> SUFFICES ASSUME Init PROVE IInv
    OBVIOUS
  <1> USE BoundsAssumption
  <1>1. /\ stored \in [code : 0 .. MaxCodes + 1, account : Accounts \cup {"none"}, expired : BOOLEAN]
        /\ stored.code # 0 => stored.account \in Accounts
        /\ stored.code \in {0, MaxCodes + 1}
    <2>1. CASE stored = NoLogin
      BY <2>1 DEF NoLogin, Login
    <2>2. CASE \E a \in Accounts, e \in BOOLEAN : stored = Login(MaxCodes + 1, a, e)
      BY <2>2 DEF Login
    <2> QED
      BY <2>1, <2>2 DEF Init
  <1>2. /\ Resting.at = "idle" /\ Resting.gen = 0 /\ Resting.code = 0
        /\ Resting \in ChainTasks /\ Resting \in WatchTasks /\ Resting \in RenewalTasks
    BY DEF Resting, Task, Tasks, ChainTasks, WatchTasks, RenewalTasks
  <1>3. TypeOK
    BY <1>1, <1>2 DEF Init, TypeOK, NoPending, Codes, Dialogs
  <1>4. NamesAreAccounts
    BY <1>1, <1>2 DEF Init, NamesAreAccounts
  <1>5. NothingAhead
    BY <1>1, <1>2 DEF Init, NothingAhead, Known, NoPending
  <1>6. PolledAreCodes /\ PendingIsLive /\ HeldIsLive /\ EndedStays
    BY <1>1, <1>2 DEF Init, PolledAreCodes, PendingIsLive, HeldIsLive, EndedStays,
       NoPending
  <1> QED
    BY <1>3, <1>4, <1>5, <1>6 DEF IInv, Typed

\* A chain that goes on to another task leaves the others alone.
LEMMA ChainMoves ==
  ASSUME IInv, NEW d \in Dialogs, NEW at, NEW gen, NEW code, NEW says,
         Task(at, gen, code, says) \in ChainTasks,
         ChainIs(d, Task(at, gen, code, says))
  PROVE  /\ chain' \in [Dialogs -> ChainTasks]
         /\ chain'[d].at = at /\ chain'[d].gen = gen
         /\ chain'[d].code = code /\ chain'[d].says = says
         /\ \A e \in Dialogs : e # d => chain'[e] = chain[e]
  <1>1. chain \in [Dialogs -> ChainTasks]
    BY DEF IInv, Typed, TypeOK
  <1> QED
    BY <1>1, TaskShape DEF ChainIs

\* What the invariant says of the fields of one chain.
LEMMA ChainFields ==
  ASSUME IInv, NEW d \in Dialogs
  PROVE  /\ chain[d].gen \in Nat /\ chain[d].code \in 0 .. MaxCodes + 1
         /\ chain[d].code \in Known /\ chain[d].gen <= generation
         /\ chain[d].says \in Accounts \cup {"none", "open", "denied", "lapsed", "used",
                                             "again", "failed"}
  BY DEF IInv, Typed, TypeOK, NothingAhead, ChainTasks, Tasks

\* No task is of a generation to come.
LEMMA NobodyIsAhead ==
  ASSUME IInv
  PROVE  /\ generation \in Nat
         /\ \A d \in Dialogs : chain[d].gen \in Nat /\ chain[d].gen <= generation
         /\ \A r \in Renewals : renewal[r].gen \in Nat /\ renewal[r].gen <= generation
  BY DEF IInv, Typed, TypeOK, NothingAhead, ChainTasks, RenewalTasks, Tasks

\* What a cancel or a start ends is known.
LEMMA EndedAreKnown ==
  ASSUME IInv
  PROVE  /\ ended \cup (1 .. issued \ {stored.code}) \subseteq Known
         /\ ended \cup 1 .. issued \cup {stored.code} \subseteq Known
         /\ Known \subseteq 0 .. MaxCodes + 1
  <1>1. /\ issued \in Nat /\ issued <= MaxCodes /\ MaxCodes \in Nat
        /\ ended \subseteq Known /\ stored.code \in Known
    BY BoundsAssumption DEF IInv, Typed, TypeOK, NothingAhead
  <1>2. 1 .. issued \subseteq Known
    BY <1>1 DEF Known
  <1>3. Known \subseteq 0 .. MaxCodes + 1
    BY <1>1 DEF Known
  <1> QED
    BY <1>1, <1>2, <1>3

\* A status task that goes on leaves the others alone.
LEMMA WatchMoves ==
  ASSUME IInv, NEW w \in Watchers, NEW at, NEW gen, NEW code, NEW says,
         Task(at, gen, code, says) \in WatchTasks,
         WatchIs(w, Task(at, gen, code, says))
  PROVE  /\ watch' \in [Watchers -> WatchTasks]
         /\ watch'[w].at = at /\ watch'[w].says = says
         /\ \A v \in Watchers : v # w => watch'[v] = watch[v]
  <1>1. watch \in [Watchers -> WatchTasks]
    BY DEF IInv, Typed, TypeOK
  <1> QED
    BY <1>1, TaskShape DEF WatchIs

\* What the invariant says of the fields of a status task.
LEMMA WatchFields ==
  ASSUME IInv, NEW w \in Watchers
  PROVE  /\ watch[w].gen \in Nat
         /\ watch[w].says \in Accounts \cup {"none", "out"}
  BY DEF IInv, Typed, TypeOK, WatchTasks, Tasks

\* A chain that goes on to a task that holds no code.
LEMMA ChainLetsGo ==
  ASSUME IInv, NEW d \in Dialogs, NEW at, NEW says,
         Task(at, 0, 0, says) \in ChainTasks,
         at \notin {"polling", "answered", "naming"},
         ChainIs(d, Task(at, 0, 0, says))
  PROVE  /\ chain' \in [Dialogs -> ChainTasks]
         /\ \A e \in Dialogs : \/ chain'[e] = chain[e]
                               \/ /\ chain'[e].at \notin
                                        {"polling", "answered", "naming"}
                                  /\ chain'[e].gen = 0 /\ chain'[e].code = 0
  BY ChainMoves

\* Opening a dialog spawns its chain.
LEMMA OpenKeeps == ASSUME IInv, Open PROVE IInv'
  <1> USE BoundsAssumption
  <1>1. opened + 1 \in Dialogs /\ opened \in Nat
    BY DEF Open, IInv, Typed, TypeOK, Dialogs
  <1>2. Task("spawned", 0, 0, "none") \in ChainTasks
    BY TaskShape DEF ChainTasks
  <1>3. /\ chain' \in [Dialogs -> ChainTasks]
        /\ \A e \in Dialogs : \/ chain'[e] = chain[e]
                              \/ /\ chain'[e].at \notin
                                       {"polling", "answered", "naming"}
                                 /\ chain'[e].gen = 0 /\ chain'[e].code = 0
    BY <1>1, <1>2, ChainLetsGo DEF Open, Rests
  <1>4. opened' = opened + 1 /\ opened < MaxDialogs /\ open' = opened + 1 /\ phase' = "starting"
    BY DEF Open
  <1>5. UNCHANGED <<generation, pending, identity, stored, issued, verdict, page,
                    extras, watch, renewal, started, ended>>
    BY DEF Open, runtime, github, screen, history
  <1>6. TypeOK'
    BY <1>1, <1>2, <1>3, <1>4, <1>5 DEF IInv, Typed, TypeOK, Codes, Dialogs
  <1>7. NamesAreAccounts'
    BY <1>1, <1>2, <1>3, <1>4, <1>5 DEF IInv, Typed, NamesAreAccounts
  <1>8. NothingAhead'
    BY <1>1, <1>2, <1>3, <1>4, <1>5 DEF IInv, Typed, TypeOK, NothingAhead, Known
  <1>9. PolledAreCodes'
    BY <1>1, <1>2, <1>3, <1>4, <1>5 DEF IInv, Typed, TypeOK, NothingAhead,
       PolledAreCodes, Codes
  <1>10. PendingIsLive'
    BY <1>1, <1>2, <1>3, <1>4, <1>5 DEF IInv, Typed, TypeOK, NothingAhead,
       PendingIsLive, Known
  <1>11. HeldIsLive'
    BY <1>1, <1>2, <1>3, <1>4, <1>5 DEF IInv, Typed, TypeOK, NothingAhead, HeldIsLive,
       PendingIsLive, EndedStays, Known
  <1>12. EndedStays'
    BY <1>1, <1>2, <1>3, <1>4, <1>5 DEF IInv, Typed, TypeOK, NothingAhead, HeldIsLive,
       EndedStays, Known
  <1> QED
    BY <1>6, <1>7, <1>8, <1>9, <1>10, <1>11, <1>12 DEF IInv, Typed

\* A retry spawns the next chain of the dialog.
LEMMA RetryKeeps == ASSUME IInv, Retry PROVE IInv'
  <1> USE BoundsAssumption
  <1>1. Task("spawned", 0, 0, "none") \in ChainTasks
    BY TaskShape DEF ChainTasks
  <1>2. open \in Dialogs
    BY DEF Retry, Dialogs, IInv, Typed, TypeOK
  <1>3. /\ chain' \in [Dialogs -> ChainTasks]
        /\ \A e \in Dialogs : \/ chain'[e] = chain[e]
                              \/ /\ chain'[e].at \notin
                                       {"polling", "answered", "naming"}
                                 /\ chain'[e].gen = 0 /\ chain'[e].code = 0
    BY <1>1, <1>2, ChainLetsGo DEF Retry, Rests
  <1>4. extras' = extras + 1 /\ extras < MaxExtras /\ phase' = "starting"
    BY DEF Retry
  <1>5. UNCHANGED <<generation, pending, identity, stored, issued, verdict, page,
                    opened, open, watch, renewal, started, ended>>
    BY DEF Retry, runtime, github, screen, history
  <1>6. TypeOK'
    BY <1>1, <1>2, <1>3, <1>4, <1>5 DEF IInv, Typed, TypeOK, Codes, Dialogs
  <1>7. NamesAreAccounts'
    BY <1>1, <1>2, <1>3, <1>4, <1>5 DEF IInv, Typed, NamesAreAccounts
  <1>8. NothingAhead'
    BY <1>1, <1>2, <1>3, <1>4, <1>5 DEF IInv, Typed, TypeOK, NothingAhead, Known
  <1>9. PolledAreCodes'
    BY <1>1, <1>2, <1>3, <1>4, <1>5 DEF IInv, Typed, TypeOK, NothingAhead,
       PolledAreCodes, Codes
  <1>10. PendingIsLive'
    BY <1>1, <1>2, <1>3, <1>4, <1>5 DEF IInv, Typed, TypeOK, NothingAhead,
       PendingIsLive, Known
  <1>11. HeldIsLive'
    BY <1>1, <1>2, <1>3, <1>4, <1>5 DEF IInv, Typed, TypeOK, NothingAhead, HeldIsLive,
       PendingIsLive, EndedStays, Known
  <1>12. EndedStays'
    BY <1>1, <1>2, <1>3, <1>4, <1>5 DEF IInv, Typed, TypeOK, NothingAhead, HeldIsLive,
       EndedStays, Known
  <1> QED
    BY <1>6, <1>7, <1>8, <1>9, <1>10, <1>11, <1>12 DEF IInv, Typed

\* A closed dialog outdates what its chain holds.
LEMMA CloseKeeps == ASSUME IInv, Close PROVE IInv'
  <1> USE BoundsAssumption
  <1>1. /\ generation' = generation + 1 /\ generation \in Nat
        /\ pending' = NoPending /\ pending'.code = 0
        /\ pending' \in [gen : Nat, code : 0 .. MaxCodes]
    BY DEF Close, NextGeneration, NoPending, IInv, Typed, TypeOK
  <1>2. open' = 0 /\ phase' = "none" /\ ended' = ended \cup (1 .. issued \ {stored.code})
        /\ ended' \subseteq Known /\ ended' \subseteq 0 .. MaxCodes + 1
    BY EndedAreKnown DEF Close
  <1>3. UNCHANGED <<identity, stored, issued, verdict, page, opened, extras, chain,
                    watch, renewal, started>>
    BY DEF Close, runtime, github, screen, history
  <1>4. TypeOK'
    BY <1>1, <1>2, <1>3, NobodyIsAhead DEF IInv, Typed, TypeOK, Codes, Dialogs
  <1>5. NamesAreAccounts'
    BY <1>1, <1>2, <1>3, NobodyIsAhead DEF IInv, Typed, NamesAreAccounts
  <1>6. NothingAhead'
    BY <1>1, <1>2, <1>3, NobodyIsAhead DEF IInv, Typed, TypeOK, NothingAhead, Known
  <1>7. PolledAreCodes'
    BY <1>1, <1>2, <1>3, NobodyIsAhead DEF IInv, Typed, TypeOK, NothingAhead,
       PolledAreCodes, Codes
  <1>8. PendingIsLive'
    BY <1>1, <1>2, <1>3, NobodyIsAhead DEF IInv, Typed, TypeOK, NothingAhead,
       PendingIsLive, Known
  <1>9. HeldIsLive'
    BY <1>1, <1>2, <1>3, NobodyIsAhead DEF IInv, Typed, TypeOK, NothingAhead,
       HeldIsLive, PendingIsLive, EndedStays, Known
  <1>10. EndedStays'
    BY <1>1, <1>2, <1>3, NobodyIsAhead DEF IInv, Typed, TypeOK, NothingAhead,
       HeldIsLive, EndedStays, Known
  <1> QED
    BY <1>4, <1>5, <1>6, <1>7, <1>8, <1>9, <1>10 DEF IInv, Typed

\* A logout outdates every task and forgets the credential, if it can.
LEMMA LogoutKeeps == ASSUME IInv, Logout PROVE IInv'
  <1> USE BoundsAssumption
  <1>1. /\ generation' = generation + 1 /\ generation \in Nat
        /\ pending' = NoPending /\ pending'.code = 0
        /\ pending' \in [gen : Nat, code : 0 .. MaxCodes]
    BY DEF Logout, NextGeneration, NoPending, IInv, Typed, TypeOK
  <1>2. extras' = extras + 1 /\ extras < MaxExtras /\ identity' = "none"
    BY DEF Logout
  <1>3. NoLogin.code = 0 /\ NoLogin \in [code : 0 .. MaxCodes + 1,
    account : Accounts \cup {"none"}, expired : BOOLEAN]
    BY DEF NoLogin, Login
  <1>4. \/ /\ stored' = NoLogin /\ ended' = ended \cup 1 .. issued \cup {stored.code}
        \/ /\ stored' = stored /\ ended' = ended \cup (1 .. issued \ {stored.code})
    BY DEF Logout
  <1>5. ended' \subseteq Known /\ ended' \subseteq 0 .. MaxCodes + 1
    BY <1>4, EndedAreKnown
  <1>6. UNCHANGED <<issued, verdict, page, opened, open, phase, chain, watch, renewal,
                    started>>
    BY DEF Logout, runtime, github, screen, history
  <1>7. TypeOK'
    BY <1>1, <1>2, <1>3, <1>4, <1>5, <1>6, NobodyIsAhead DEF IInv, Typed, TypeOK,
       Codes, Dialogs
  <1>8. NamesAreAccounts'
    BY <1>1, <1>2, <1>3, <1>4, <1>5, <1>6, NobodyIsAhead DEF IInv, Typed,
       NamesAreAccounts
  <1>9. NothingAhead'
    BY <1>1, <1>2, <1>3, <1>4, <1>5, <1>6, NobodyIsAhead DEF IInv, Typed, TypeOK,
       NothingAhead, Known
  <1>10. PolledAreCodes'
    BY <1>1, <1>2, <1>3, <1>4, <1>5, <1>6, NobodyIsAhead DEF IInv, Typed, TypeOK,
       NothingAhead, PolledAreCodes, Codes
  <1>11. PendingIsLive'
    BY <1>1, <1>2, <1>3, <1>4, <1>5, <1>6, NobodyIsAhead DEF IInv, Typed, TypeOK,
       NothingAhead, PendingIsLive, Known
  <1>12. HeldIsLive'
    BY <1>1, <1>2, <1>3, <1>4, <1>5, <1>6, NobodyIsAhead DEF IInv, Typed, TypeOK,
       NothingAhead, HeldIsLive, PendingIsLive, EndedStays, Known
  <1>13. EndedStays'
    BY <1>1, <1>2, <1>3, <1>4, <1>5, <1>6, NobodyIsAhead DEF IInv, Typed, TypeOK,
       NothingAhead, HeldIsLive, EndedStays, Known
  <1> QED
    BY <1>7, <1>8, <1>9, <1>10, <1>11, <1>12, <1>13 DEF IInv, Typed

\* An access token expires.
LEMMA ExpireKeeps == ASSUME IInv, Expire PROVE IInv'
  <1> USE BoundsAssumption
  <1>1. /\ stored' \in [code : 0 .. MaxCodes + 1, account : Accounts \cup {"none"}, expired : BOOLEAN]
        /\ stored'.code = stored.code /\ stored'.account = stored.account
    BY DEF Expire, Login, IInv, Typed, TypeOK
  <1>2. UNCHANGED <<generation, pending, identity, issued, verdict, page, opened, open,
                    phase, extras, chain, watch, renewal, started, ended>>
    BY DEF Expire, runtime, github, screen, history
  <1>3. TypeOK'
    BY <1>1, <1>2 DEF IInv, Typed, TypeOK, Codes, Dialogs
  <1>4. NamesAreAccounts'
    BY <1>1, <1>2 DEF IInv, Typed, NamesAreAccounts
  <1>5. NothingAhead'
    BY <1>1, <1>2 DEF IInv, Typed, TypeOK, NothingAhead, Known
  <1>6. PolledAreCodes'
    BY <1>1, <1>2 DEF IInv, Typed, TypeOK, NothingAhead, PolledAreCodes, Codes
  <1>7. PendingIsLive'
    BY <1>1, <1>2 DEF IInv, Typed, TypeOK, NothingAhead, PendingIsLive, Known
  <1>8. HeldIsLive'
    BY <1>1, <1>2 DEF IInv, Typed, TypeOK, NothingAhead, HeldIsLive, PendingIsLive,
       EndedStays, Known
  <1>9. EndedStays'
    BY <1>1, <1>2 DEF IInv, Typed, TypeOK, NothingAhead, HeldIsLive, EndedStays, Known
  <1> QED
    BY <1>3, <1>4, <1>5, <1>6, <1>7, <1>8, <1>9 DEF IInv, Typed

\* A start outdates every other task and takes the generation it made.
LEMMA BeginStartKeeps == ASSUME IInv, NEW d \in Dialogs, BeginStart(d) PROVE IInv'
  <1> USE BoundsAssumption
  <1>1. /\ generation' = generation + 1 /\ generation \in Nat
        /\ pending' = NoPending /\ pending'.code = 0
        /\ pending' \in [gen : Nat, code : 0 .. MaxCodes]
    BY DEF BeginStart, NextGeneration, NoPending, IInv, Typed, TypeOK
  <1>2. Task("asking", generation + 1, 0, "none") \in ChainTasks
    BY <1>1, TaskShape DEF ChainTasks
  <1>3. /\ chain' \in [Dialogs -> ChainTasks]
        /\ chain'[d].at = "asking" /\ chain'[d].gen = generation + 1 /\ chain'[d].code = 0
        /\ chain'[d].says = "none"
        /\ \A e \in Dialogs : e # d => chain'[e] = chain[e]
    BY <1>2, ChainMoves DEF BeginStart
  <1>4. ended' = ended \cup (1 .. issued \ {stored.code}) /\ ended' \subseteq Known
        /\ ended' \subseteq 0 .. MaxCodes + 1
    BY EndedAreKnown DEF BeginStart
  <1>5. UNCHANGED <<identity, stored, issued, verdict, page, opened, open, phase,
                    extras, watch, renewal, started>>
    BY DEF BeginStart, runtime, github, screen, history
  <1>6. TypeOK'
    BY <1>1, <1>2, <1>3, <1>4, <1>5, NobodyIsAhead DEF IInv, Typed, TypeOK, Codes,
       Dialogs
  <1>7. NamesAreAccounts'
    BY <1>1, <1>2, <1>3, <1>4, <1>5, NobodyIsAhead DEF IInv, Typed, NamesAreAccounts
  <1>8. NothingAhead'
    BY <1>1, <1>2, <1>3, <1>4, <1>5, NobodyIsAhead DEF IInv, Typed, TypeOK,
       NothingAhead, Known
  <1>9. PolledAreCodes'
    BY <1>1, <1>2, <1>3, <1>4, <1>5, NobodyIsAhead DEF IInv, Typed, TypeOK,
       NothingAhead, PolledAreCodes, Codes
  <1>10. PendingIsLive'
    BY <1>1, <1>2, <1>3, <1>4, <1>5, NobodyIsAhead DEF IInv, Typed, TypeOK,
       NothingAhead, PendingIsLive, Known
  <1>11. HeldIsLive'
    BY <1>1, <1>2, <1>3, <1>4, <1>5, NobodyIsAhead DEF IInv, Typed, TypeOK,
       NothingAhead, HeldIsLive, PendingIsLive, EndedStays, Known
  <1>12. EndedStays'
    BY <1>1, <1>2, <1>3, <1>4, <1>5, NobodyIsAhead DEF IInv, Typed, TypeOK,
       NothingAhead, HeldIsLive, EndedStays, Known
  <1> QED
    BY <1>6, <1>7, <1>8, <1>9, <1>10, <1>11, <1>12 DEF IInv, Typed

\* The code of an answered start becomes pending unless it was outdated.
LEMMA StartAnsweredKeeps == ASSUME IInv, NEW d \in Dialogs, StartAnswered(d) PROVE IInv'
  <1> USE BoundsAssumption
  <1>1. \A a \in {"again", "failed"} : Task("done", 0, 0, a) \in ChainTasks
    BY TaskShape DEF ChainTasks
  <1>2. /\ chain' \in [Dialogs -> ChainTasks]
        /\ \A e \in Dialogs : \/ chain'[e] = chain[e]
                              \/ /\ chain'[e].at \notin
                                       {"polling", "answered", "naming"}
                                 /\ chain'[e].gen = 0 /\ chain'[e].code = 0
    BY <1>1, ChainLetsGo DEF StartAnswered, Answers
  <1>3. /\ issued \in 0 .. MaxCodes /\ issued < MaxCodes /\ issued' = issued + 1
        /\ issued + 1 \notin ended /\ issued + 1 \in Codes
    BY DEF StartAnswered, IInv, Typed, TypeOK, NothingAhead, Known, Codes
  <1>4. /\ verdict' \in [Codes -> Accounts \cup
          {"none", "open", "denied", "lapsed", "used"}]
        /\ started' \in [Dialogs -> SUBSET Codes]
    BY <1>3 DEF StartAnswered, IInv, Typed, TypeOK
  <1>5. \/ pending' = pending
        \/ /\ pending' \in [gen : Nat, code : 0 .. MaxCodes]
           /\ pending'.gen = generation /\ pending'.code = issued + 1
    BY <1>3 DEF StartAnswered, IInv, Typed, TypeOK, Codes
  <1>6. UNCHANGED <<generation, identity, stored, page, opened, open, phase, extras,
                    watch, renewal, ended>>
    BY DEF StartAnswered, runtime, github, screen, history
  <1>7. TypeOK'
    BY <1>1, <1>2, <1>3, <1>4, <1>5, <1>6 DEF IInv, Typed, TypeOK, Codes, Dialogs
  <1>8. NamesAreAccounts'
    BY <1>1, <1>2, <1>3, <1>4, <1>5, <1>6 DEF IInv, Typed, NamesAreAccounts
  <1>9. NothingAhead'
    BY <1>1, <1>2, <1>3, <1>4, <1>5, <1>6 DEF IInv, Typed, TypeOK, NothingAhead, Known
  <1>10. PolledAreCodes'
    BY <1>1, <1>2, <1>3, <1>4, <1>5, <1>6 DEF IInv, Typed, TypeOK, NothingAhead,
       PolledAreCodes, Codes
  <1>11. PendingIsLive'
    BY <1>1, <1>2, <1>3, <1>4, <1>5, <1>6 DEF IInv, Typed, TypeOK, NothingAhead,
       PendingIsLive, Known
  <1>12. HeldIsLive'
    BY <1>1, <1>2, <1>3, <1>4, <1>5, <1>6 DEF IInv, Typed, TypeOK, NothingAhead,
       HeldIsLive, PendingIsLive, EndedStays, Known
  <1>13. EndedStays'
    BY <1>1, <1>2, <1>3, <1>4, <1>5, <1>6 DEF IInv, Typed, TypeOK, NothingAhead,
       HeldIsLive, EndedStays, Known
  <1> QED
    BY <1>7, <1>8, <1>9, <1>10, <1>11, <1>12, <1>13 DEF IInv, Typed

\* A poll takes the pending code, or finds it lapsed or gone.
LEMMA BeginPollKeeps == ASSUME IInv, NEW d \in Dialogs, BeginPoll(d) PROVE IInv'
  <1> USE BoundsAssumption
  <1>1. /\ pending.gen \in Nat /\ pending.code \in 0 .. MaxCodes + 1
        /\ NoPending \in [gen : Nat, code : 0 .. MaxCodes] /\ NoPending.code = 0
    BY DEF IInv, Typed, TypeOK, NoPending
  <1>2. /\ Task("done", 0, 0, "failed") \in ChainTasks
        /\ Task("polling", pending.gen, pending.code, "none") \in ChainTasks
    BY <1>1, TaskShape DEF ChainTasks
  <1>3. \/ pending' = pending \/ pending' = NoPending
    BY DEF BeginPoll, ClearPending
  <1>4. /\ chain' \in [Dialogs -> ChainTasks]
        /\ \A e \in Dialogs : \/ chain'[e] = chain[e]
                              \/ /\ chain'[e].at = "done"
                                 /\ chain'[e].gen = 0 /\ chain'[e].code = 0
                              \/ /\ chain'[e].at = "polling" /\ pending.code # 0
                                 /\ chain'[e].gen = pending.gen
                                 /\ chain'[e].code = pending.code
    BY <1>2, ChainMoves DEF BeginPoll, Answers
  <1>5. UNCHANGED <<generation, identity, stored, issued, verdict, page, opened, open,
                    phase, extras, watch, renewal, started, ended>>
    BY DEF BeginPoll, runtime, github, screen, history
  <1>6. TypeOK'
    BY <1>1, <1>2, <1>3, <1>4, <1>5, NobodyIsAhead DEF IInv, Typed, TypeOK, Codes,
       Dialogs
  <1>7. NamesAreAccounts'
    BY <1>1, <1>2, <1>3, <1>4, <1>5, NobodyIsAhead DEF IInv, Typed, NamesAreAccounts
  <1>8. NothingAhead'
    BY <1>1, <1>2, <1>3, <1>4, <1>5, NobodyIsAhead DEF IInv, Typed, TypeOK,
       NothingAhead, Known, PendingIsLive
  <1>9. PolledAreCodes'
    BY <1>1, <1>2, <1>3, <1>4, <1>5, NobodyIsAhead DEF IInv, Typed, TypeOK,
       NothingAhead, PolledAreCodes, Codes
  <1>10. PendingIsLive'
    BY <1>1, <1>2, <1>3, <1>4, <1>5, NobodyIsAhead DEF IInv, Typed, TypeOK,
       NothingAhead, PendingIsLive, Known
  <1>11. HeldIsLive'
    BY <1>1, <1>2, <1>3, <1>4, <1>5, NobodyIsAhead DEF IInv, Typed, TypeOK,
       NothingAhead, HeldIsLive, PendingIsLive, EndedStays, Known
  <1>12. EndedStays'
    BY <1>1, <1>2, <1>3, <1>4, <1>5, NobodyIsAhead DEF IInv, Typed, TypeOK,
       NothingAhead, HeldIsLive, EndedStays, Known
  <1> QED
    BY <1>6, <1>7, <1>8, <1>9, <1>10, <1>11, <1>12 DEF IInv, Typed

\* GitHub's answer is on its way.
LEMMA PollAnsweredKeeps == ASSUME IInv, NEW d \in Dialogs, PollAnswered(d) PROVE IInv'
  <1> USE BoundsAssumption
  <1>1. chain[d].code \in Codes
    BY DEF PollAnswered, IInv, PolledAreCodes
  <1>2. verdict[chain[d].code] \in Accounts \cup
          {"none", "open", "denied", "lapsed", "used"}
    BY <1>1 DEF IInv, Typed, TypeOK
  <1>3. Task("answered", chain[d].gen, chain[d].code,
    verdict[chain[d].code]) \in ChainTasks
    BY <1>2, ChainFields, TaskShape DEF ChainTasks
  <1>4. /\ chain' \in [Dialogs -> ChainTasks]
        /\ \A e \in Dialogs : \/ chain'[e] = chain[e]
                              \/ /\ chain'[e].at = "done"
                                 /\ chain'[e].gen = 0 /\ chain'[e].code = 0
                              \/ /\ chain[e].at = "polling" /\ chain'[e].at = "answered"
                                 /\ chain'[e].gen = chain[e].gen
                                 /\ chain'[e].code = chain[e].code
    BY <1>3, ChainMoves DEF PollAnswered
  <1>5. verdict' \in [Codes -> Accounts \cup
          {"none", "open", "denied", "lapsed", "used"}]
    BY <1>1 DEF PollAnswered, IInv, Typed, TypeOK
  <1>6. UNCHANGED <<generation, pending, identity, stored, issued, page, opened, open,
                    phase, extras, watch, renewal, started, ended>>
    BY DEF PollAnswered, runtime, github, screen, history
  <1>7. TypeOK'
    BY <1>1, <1>2, <1>3, <1>4, <1>5, <1>6 DEF IInv, Typed, TypeOK, Codes, Dialogs
  <1>8. NamesAreAccounts'
    BY <1>1, <1>2, <1>3, <1>4, <1>5, <1>6 DEF IInv, Typed, NamesAreAccounts
  <1>9. NothingAhead'
    BY <1>1, <1>2, <1>3, <1>4, <1>5, <1>6 DEF IInv, Typed, TypeOK, NothingAhead, Known
  <1>10. PolledAreCodes'
    BY <1>1, <1>2, <1>3, <1>4, <1>5, <1>6 DEF IInv, Typed, TypeOK, NothingAhead,
       PolledAreCodes, Codes
  <1>11. PendingIsLive'
    BY <1>1, <1>2, <1>3, <1>4, <1>5, <1>6 DEF IInv, Typed, TypeOK, NothingAhead,
       PendingIsLive, Known
  <1>12. HeldIsLive'
    BY <1>1, <1>2, <1>3, <1>4, <1>5, <1>6 DEF IInv, Typed, TypeOK, NothingAhead,
       HeldIsLive, PendingIsLive, EndedStays, Known
  <1>13. EndedStays'
    BY <1>1, <1>2, <1>3, <1>4, <1>5, <1>6 DEF IInv, Typed, TypeOK, NothingAhead,
       HeldIsLive, EndedStays, Known
  <1> QED
    BY <1>7, <1>8, <1>9, <1>10, <1>11, <1>12, <1>13 DEF IInv, Typed

\* What the answer means is decided against the current generation.
LEMMA HandleAnswerKeeps == ASSUME IInv, NEW d \in Dialogs, HandleAnswer(d) PROVE IInv'
  <1> USE BoundsAssumption
  <1>1. /\ NoPending \in [gen : Nat, code : 0 .. MaxCodes] /\ NoPending.code = 0
    BY DEF NoPending
  <1>2. pending' = pending \/ pending' = NoPending
    BY DEF HandleAnswer, ClearPending
  <1>3. /\ \A a \in {"again", "failed"} : Task("done", 0, 0, a) \in ChainTasks
        /\ Task("naming", chain[d].gen, chain[d].code, chain[d].says) \in ChainTasks
    BY ChainFields, TaskShape DEF ChainTasks
  <1>4. /\ chain' \in [Dialogs -> ChainTasks]
        /\ \A e \in Dialogs : \/ chain'[e] = chain[e]
                              \/ /\ chain'[e].at = "done"
                                 /\ chain'[e].gen = 0 /\ chain'[e].code = 0
                              \/ /\ chain[e].at = "answered" /\ chain'[e].at = "naming"
                                 /\ chain'[e].gen = chain[e].gen
                                 /\ chain'[e].code = chain[e].code
                                 /\ chain'[e].says \in Accounts
    BY <1>3, ChainMoves DEF HandleAnswer, Answers
  <1>5. UNCHANGED <<generation, identity, stored, issued, verdict, page, opened, open,
                    phase, extras, watch, renewal, started, ended>>
    BY DEF HandleAnswer, runtime, github, screen, history
  <1>6. TypeOK'
    BY <1>1, <1>2, <1>3, <1>4, <1>5 DEF IInv, Typed, TypeOK, Codes, Dialogs
  <1>7. NamesAreAccounts'
    BY <1>1, <1>2, <1>3, <1>4, <1>5 DEF IInv, Typed, NamesAreAccounts
  <1>8. NothingAhead'
    BY <1>1, <1>2, <1>3, <1>4, <1>5 DEF IInv, Typed, TypeOK, NothingAhead, Known
  <1>9. PolledAreCodes'
    BY <1>1, <1>2, <1>3, <1>4, <1>5 DEF IInv, Typed, TypeOK, NothingAhead,
       PolledAreCodes, Codes
  <1>10. PendingIsLive'
    BY <1>1, <1>2, <1>3, <1>4, <1>5 DEF IInv, Typed, TypeOK, NothingAhead,
       PendingIsLive, Known
  <1>11. HeldIsLive'
    BY <1>1, <1>2, <1>3, <1>4, <1>5 DEF IInv, Typed, TypeOK, NothingAhead, HeldIsLive,
       PendingIsLive, EndedStays, Known
  <1>12. EndedStays'
    BY <1>1, <1>2, <1>3, <1>4, <1>5 DEF IInv, Typed, TypeOK, NothingAhead, HeldIsLive,
       EndedStays, Known
  <1> QED
    BY <1>6, <1>7, <1>8, <1>9, <1>10, <1>11, <1>12 DEF IInv, Typed

\* A login is saved only while its code is pending.
LEMMA SaveLoginKeeps == ASSUME IInv, NEW d \in Dialogs, SaveLogin(d) PROVE IInv'
  <1> USE BoundsAssumption
  <1>1. /\ NoPending \in [gen : Nat, code : 0 .. MaxCodes] /\ NoPending.code = 0
        /\ chain[d].says \in Accounts
    BY DEF SaveLogin, NoPending, IInv, Typed, NamesAreAccounts
  <1>2. \A a \in {chain[d].says, "failed"} : Task("done", 0, 0, a) \in ChainTasks
    BY ChainFields, TaskShape DEF ChainTasks
  <1>3. /\ chain' \in [Dialogs -> ChainTasks]
        /\ \A e \in Dialogs : \/ chain'[e] = chain[e]
                              \/ /\ chain'[e].at \notin
                                       {"polling", "answered", "naming"}
                                 /\ chain'[e].gen = 0 /\ chain'[e].code = 0
    BY <1>2, ChainLetsGo DEF SaveLogin, Answers
  <1>4. /\ Login(chain[d].code, chain[d].says, FALSE).code = chain[d].code
        /\ Login(chain[d].code, chain[d].says, FALSE).account = chain[d].says
        /\ Login(chain[d].code, chain[d].says, FALSE) \in
              [code : 0 .. MaxCodes + 1, account : Accounts \cup {"none"}, expired : BOOLEAN]
    BY <1>1, ChainFields DEF Login
  <1>5. \/ UNCHANGED <<stored, pending, identity>>
        \/ /\ stored' \in [code : 0 .. MaxCodes + 1, account : Accounts \cup {"none"}, expired : BOOLEAN]
           /\ stored'.code = chain[d].code /\ stored'.account = chain[d].says
           /\ chain[d].at = "naming" /\ chain[d].gen = generation
           /\ pending' = NoPending /\ identity' = chain[d].says
    BY <1>4 DEF SaveLogin, IsPending
  <1>6. UNCHANGED <<generation, issued, verdict, page, opened, open, phase, extras,
                    watch, renewal, started, ended>>
    BY DEF SaveLogin, runtime, github, screen, history
  <1>7. TypeOK'
    BY <1>1, <1>2, <1>3, <1>4, <1>5, <1>6 DEF IInv, Typed, TypeOK, Codes, Dialogs
  <1>8. NamesAreAccounts'
    BY <1>1, <1>2, <1>3, <1>4, <1>5, <1>6 DEF IInv, Typed, NamesAreAccounts
  <1>9. NothingAhead'
    BY <1>1, <1>2, <1>3, <1>4, <1>5, <1>6 DEF IInv, Typed, TypeOK, NothingAhead, Known
  <1>10. PolledAreCodes'
    BY <1>1, <1>2, <1>3, <1>4, <1>5, <1>6 DEF IInv, Typed, TypeOK, NothingAhead,
       PolledAreCodes, Codes
  <1>11. PendingIsLive'
    BY <1>1, <1>2, <1>3, <1>4, <1>5, <1>6 DEF IInv, Typed, TypeOK, NothingAhead,
       PendingIsLive, Known
  <1>12. HeldIsLive'
    BY <1>1, <1>2, <1>3, <1>4, <1>5, <1>6 DEF IInv, Typed, TypeOK, NothingAhead,
       HeldIsLive, PendingIsLive, EndedStays, Known
  <1>13. EndedStays'
    BY <1>1, <1>2, <1>3, <1>4, <1>5, <1>6 DEF IInv, Typed, TypeOK, NothingAhead,
       HeldIsLive, EndedStays, Known
  <1> QED
    BY <1>7, <1>8, <1>9, <1>10, <1>11, <1>12, <1>13 DEF IInv, Typed

\* A chain whose request fails lets go of its code.
LEMMA ChainFailsKeeps == ASSUME IInv, NEW d \in Dialogs, ChainFails(d) PROVE IInv'
  <1> USE BoundsAssumption
  <1>1. Task("done", 0, 0, "failed") \in ChainTasks
    BY TaskShape DEF ChainTasks
  <1>2. /\ chain' \in [Dialogs -> ChainTasks]
        /\ \A e \in Dialogs : \/ chain'[e] = chain[e]
                              \/ /\ chain'[e].at \notin
                                       {"polling", "answered", "naming"}
                                 /\ chain'[e].gen = 0 /\ chain'[e].code = 0
    BY <1>1, ChainLetsGo DEF ChainFails, Answers
  <1>3. UNCHANGED <<generation, pending, identity, stored, issued, verdict, page,
                    opened, open, phase, extras, watch, renewal, started, ended>>
    BY DEF ChainFails, runtime, github, screen, history
  <1>4. TypeOK'
    BY <1>1, <1>2, <1>3 DEF IInv, Typed, TypeOK, Codes, Dialogs
  <1>5. NamesAreAccounts'
    BY <1>1, <1>2, <1>3 DEF IInv, Typed, NamesAreAccounts
  <1>6. NothingAhead'
    BY <1>1, <1>2, <1>3 DEF IInv, Typed, TypeOK, NothingAhead, Known
  <1>7. PolledAreCodes'
    BY <1>1, <1>2, <1>3 DEF IInv, Typed, TypeOK, NothingAhead, PolledAreCodes, Codes
  <1>8. PendingIsLive'
    BY <1>1, <1>2, <1>3 DEF IInv, Typed, TypeOK, NothingAhead, PendingIsLive, Known
  <1>9. HeldIsLive'
    BY <1>1, <1>2, <1>3 DEF IInv, Typed, TypeOK, NothingAhead, HeldIsLive,
       PendingIsLive, EndedStays, Known
  <1>10. EndedStays'
    BY <1>1, <1>2, <1>3 DEF IInv, Typed, TypeOK, NothingAhead, HeldIsLive, EndedStays,
       Known
  <1> QED
    BY <1>4, <1>5, <1>6, <1>7, <1>8, <1>9, <1>10 DEF IInv, Typed

\* A result is shown if its dialog is still there.
LEMMA DeliverKeeps == ASSUME IInv, NEW d \in Dialogs, Deliver(d) PROVE IInv'
  <1> USE BoundsAssumption
  <1>1. \A a \in {"idle", "sleeping"} : Task(a, 0, 0, "none") \in ChainTasks
    BY TaskShape DEF ChainTasks
  <1>2. /\ chain' \in [Dialogs -> ChainTasks]
        /\ \A e \in Dialogs : \/ chain'[e] = chain[e]
                              \/ /\ chain'[e].at \notin
                                       {"polling", "answered", "naming"}
                                 /\ chain'[e].gen = 0 /\ chain'[e].code = 0
    BY <1>1, ChainLetsGo DEF Deliver, Rests
  <1>3. /\ page' \in Accounts \cup {"unknown", "out"}
        /\ phase' \in {"none", "starting", "waiting", "failed", "connected"}
    BY DEF Deliver, IInv, Typed, TypeOK
  <1>4. UNCHANGED <<generation, pending, identity, stored, issued, verdict, opened,
                    open, extras, watch, renewal, started, ended>>
    BY DEF Deliver, runtime, github, screen, history
  <1>5. TypeOK'
    BY <1>1, <1>2, <1>3, <1>4 DEF IInv, Typed, TypeOK, Codes, Dialogs
  <1>6. NamesAreAccounts'
    BY <1>1, <1>2, <1>3, <1>4 DEF IInv, Typed, NamesAreAccounts
  <1>7. NothingAhead'
    BY <1>1, <1>2, <1>3, <1>4 DEF IInv, Typed, TypeOK, NothingAhead, Known
  <1>8. PolledAreCodes'
    BY <1>1, <1>2, <1>3, <1>4 DEF IInv, Typed, TypeOK, NothingAhead, PolledAreCodes,
       Codes
  <1>9. PendingIsLive'
    BY <1>1, <1>2, <1>3, <1>4 DEF IInv, Typed, TypeOK, NothingAhead, PendingIsLive,
       Known
  <1>10. HeldIsLive'
    BY <1>1, <1>2, <1>3, <1>4 DEF IInv, Typed, TypeOK, NothingAhead, HeldIsLive,
       PendingIsLive, EndedStays, Known
  <1>11. EndedStays'
    BY <1>1, <1>2, <1>3, <1>4 DEF IInv, Typed, TypeOK, NothingAhead, HeldIsLive,
       EndedStays, Known
  <1> QED
    BY <1>5, <1>6, <1>7, <1>8, <1>9, <1>10, <1>11 DEF IInv, Typed

\* A status task notes the generation.
LEMMA WatchBeginsKeeps == ASSUME IInv, NEW w \in Watchers, WatchBegins(w) PROVE IInv'
  <1> USE BoundsAssumption
  <1>1. Task("begun", generation, 0, "none") \in WatchTasks
    BY NobodyIsAhead, TaskShape DEF WatchTasks
  <1>2. /\ watch' \in [Watchers -> WatchTasks]
        /\ watch'[w].at = "begun" /\ watch'[w].says = "none"
        /\ \A v \in Watchers : v # w => watch'[v] = watch[v]
    BY <1>1, WatchMoves DEF WatchBegins
  <1>3. UNCHANGED <<generation, pending, identity, stored, issued, verdict, page,
                    opened, open, phase, extras, chain, renewal, started, ended>>
    BY DEF WatchBegins, runtime, github, screen, history
  <1>4. TypeOK'
    BY <1>1, <1>2, <1>3 DEF IInv, Typed, TypeOK, Codes, Dialogs
  <1>5. NamesAreAccounts'
    BY <1>1, <1>2, <1>3 DEF IInv, Typed, NamesAreAccounts
  <1>6. NothingAhead'
    BY <1>1, <1>2, <1>3 DEF IInv, Typed, TypeOK, NothingAhead, Known
  <1>7. PolledAreCodes'
    BY <1>1, <1>2, <1>3 DEF IInv, Typed, TypeOK, NothingAhead, PolledAreCodes, Codes
  <1>8. PendingIsLive'
    BY <1>1, <1>2, <1>3 DEF IInv, Typed, TypeOK, NothingAhead, PendingIsLive, Known
  <1>9. HeldIsLive'
    BY <1>1, <1>2, <1>3 DEF IInv, Typed, TypeOK, NothingAhead, HeldIsLive,
       PendingIsLive, EndedStays, Known
  <1>10. EndedStays'
    BY <1>1, <1>2, <1>3 DEF IInv, Typed, TypeOK, NothingAhead, HeldIsLive, EndedStays,
       Known
  <1> QED
    BY <1>4, <1>5, <1>6, <1>7, <1>8, <1>9, <1>10 DEF IInv, Typed

\* It loads the credential, if there is one that can be read.
LEMMA WatchLoadsKeeps == ASSUME IInv, NEW w \in Watchers, WatchLoads(w) PROVE IInv'
  <1> USE BoundsAssumption
  <1>1. Resting = Task("idle", 0, 0, "none") /\ Resting \in WatchTasks
    BY TaskShape DEF Resting, WatchTasks
  <1>2. stored.code # 0 => stored.account \in Accounts
    BY DEF IInv, Typed, NamesAreAccounts
  <1>3. /\ Task("done", 0, 0, "out") \in WatchTasks
        /\ stored.code # 0 => \A a \in {"expired", "loaded"} :
              Task(a, watch[w].gen, 0, stored.account) \in WatchTasks
    BY <1>2, WatchFields, TaskShape DEF WatchTasks
  <1>4. /\ watch' \in [Watchers -> WatchTasks]
        /\ \A v \in Watchers : \/ watch'[v] = watch[v]
                               \/ watch'[v].at \in {"idle", "expired"}
                               \/ watch'[v].at = "done" /\ watch'[v].says \in Accounts \cup {"out"}
                               \/ /\ watch'[v].at \in {"loaded", "named"}
                                  /\ watch'[v].says \in Accounts
    BY <1>1, <1>2, <1>3, WatchMoves DEF WatchLoads, WatchAnswers
  <1>5. UNCHANGED <<generation, pending, identity, stored, issued, verdict, page,
                    opened, open, phase, extras, chain, renewal, started, ended>>
    BY DEF WatchLoads, runtime, github, screen, history
  <1>6. TypeOK'
    BY <1>1, <1>2, <1>3, <1>4, <1>5 DEF IInv, Typed, TypeOK, Codes, Dialogs
  <1>7. NamesAreAccounts'
    BY <1>1, <1>2, <1>3, <1>4, <1>5 DEF IInv, Typed, NamesAreAccounts
  <1>8. NothingAhead'
    BY <1>1, <1>2, <1>3, <1>4, <1>5 DEF IInv, Typed, TypeOK, NothingAhead, Known
  <1>9. PolledAreCodes'
    BY <1>1, <1>2, <1>3, <1>4, <1>5 DEF IInv, Typed, TypeOK, NothingAhead,
       PolledAreCodes, Codes
  <1>10. PendingIsLive'
    BY <1>1, <1>2, <1>3, <1>4, <1>5 DEF IInv, Typed, TypeOK, NothingAhead,
       PendingIsLive, Known
  <1>11. HeldIsLive'
    BY <1>1, <1>2, <1>3, <1>4, <1>5 DEF IInv, Typed, TypeOK, NothingAhead, HeldIsLive,
       PendingIsLive, EndedStays, Known
  <1>12. EndedStays'
    BY <1>1, <1>2, <1>3, <1>4, <1>5 DEF IInv, Typed, TypeOK, NothingAhead, HeldIsLive,
       EndedStays, Known
  <1> QED
    BY <1>6, <1>7, <1>8, <1>9, <1>10, <1>11, <1>12 DEF IInv, Typed

\* An expired credential shows the sign-in card.
LEMMA WatchFindsExpiredKeeps == ASSUME IInv, NEW w \in Watchers,
  WatchFindsExpired(w) PROVE IInv'
  <1> USE BoundsAssumption
  <1>1. Task("done", 0, 0, "out") \in WatchTasks
    BY TaskShape DEF WatchTasks
  <1>2. /\ watch' \in [Watchers -> WatchTasks]
        /\ \A v \in Watchers : \/ watch'[v] = watch[v]
                               \/ watch'[v].at \in {"idle", "expired"}
                               \/ watch'[v].at = "done" /\ watch'[v].says \in Accounts \cup {"out"}
                               \/ /\ watch'[v].at \in {"loaded", "named"}
                                  /\ watch'[v].says \in Accounts
    BY <1>1, WatchMoves DEF WatchFindsExpired, WatchAnswers
  <1>3. UNCHANGED <<generation, pending, identity, stored, issued, verdict, page,
                    opened, open, phase, extras, chain, renewal, started, ended>>
    BY DEF WatchFindsExpired, runtime, github, screen, history
  <1>4. TypeOK'
    BY <1>1, <1>2, <1>3 DEF IInv, Typed, TypeOK, Codes, Dialogs
  <1>5. NamesAreAccounts'
    BY <1>1, <1>2, <1>3 DEF IInv, Typed, NamesAreAccounts
  <1>6. NothingAhead'
    BY <1>1, <1>2, <1>3 DEF IInv, Typed, TypeOK, NothingAhead, Known
  <1>7. PolledAreCodes'
    BY <1>1, <1>2, <1>3 DEF IInv, Typed, TypeOK, NothingAhead, PolledAreCodes, Codes
  <1>8. PendingIsLive'
    BY <1>1, <1>2, <1>3 DEF IInv, Typed, TypeOK, NothingAhead, PendingIsLive, Known
  <1>9. HeldIsLive'
    BY <1>1, <1>2, <1>3 DEF IInv, Typed, TypeOK, NothingAhead, HeldIsLive,
       PendingIsLive, EndedStays, Known
  <1>10. EndedStays'
    BY <1>1, <1>2, <1>3 DEF IInv, Typed, TypeOK, NothingAhead, HeldIsLive, EndedStays,
       Known
  <1> QED
    BY <1>4, <1>5, <1>6, <1>7, <1>8, <1>9, <1>10 DEF IInv, Typed

\* The account is the cached one or the one GitHub names.
LEMMA WatchNamesKeeps == ASSUME IInv, NEW w \in Watchers, WatchNames(w) PROVE IInv'
  <1> USE BoundsAssumption
  <1>1. Resting = Task("idle", 0, 0, "none") /\ Resting \in WatchTasks
    BY TaskShape DEF Resting, WatchTasks
  <1>2. identity \in Accounts \cup {"none"} /\ watch[w].says \in Accounts
    BY DEF WatchNames, IInv, Typed, TypeOK, NamesAreAccounts
  <1>3. /\ identity # "none" => Task("named", watch[w].gen, 0, identity) \in WatchTasks
        /\ Task("named", watch[w].gen, 0, watch[w].says) \in WatchTasks
    BY <1>2, WatchFields, TaskShape DEF WatchTasks
  <1>4. /\ watch' \in [Watchers -> WatchTasks]
        /\ \A v \in Watchers : \/ watch'[v] = watch[v]
                               \/ watch'[v].at \in {"idle", "expired"}
                               \/ watch'[v].at = "done" /\ watch'[v].says \in Accounts \cup {"out"}
                               \/ /\ watch'[v].at \in {"loaded", "named"}
                                  /\ watch'[v].says \in Accounts
    BY <1>1, <1>2, <1>3, WatchMoves DEF WatchNames
  <1>5. UNCHANGED <<generation, pending, identity, stored, issued, verdict, page,
                    opened, open, phase, extras, chain, renewal, started, ended>>
    BY DEF WatchNames, runtime, github, screen, history
  <1>6. TypeOK'
    BY <1>1, <1>2, <1>3, <1>4, <1>5 DEF IInv, Typed, TypeOK, Codes, Dialogs
  <1>7. NamesAreAccounts'
    BY <1>1, <1>2, <1>3, <1>4, <1>5 DEF IInv, Typed, NamesAreAccounts
  <1>8. NothingAhead'
    BY <1>1, <1>2, <1>3, <1>4, <1>5 DEF IInv, Typed, TypeOK, NothingAhead, Known
  <1>9. PolledAreCodes'
    BY <1>1, <1>2, <1>3, <1>4, <1>5 DEF IInv, Typed, TypeOK, NothingAhead,
       PolledAreCodes, Codes
  <1>10. PendingIsLive'
    BY <1>1, <1>2, <1>3, <1>4, <1>5 DEF IInv, Typed, TypeOK, NothingAhead,
       PendingIsLive, Known
  <1>11. HeldIsLive'
    BY <1>1, <1>2, <1>3, <1>4, <1>5 DEF IInv, Typed, TypeOK, NothingAhead, HeldIsLive,
       PendingIsLive, EndedStays, Known
  <1>12. EndedStays'
    BY <1>1, <1>2, <1>3, <1>4, <1>5 DEF IInv, Typed, TypeOK, NothingAhead, HeldIsLive,
       EndedStays, Known
  <1> QED
    BY <1>6, <1>7, <1>8, <1>9, <1>10, <1>11, <1>12 DEF IInv, Typed

\* A status task of an earlier generation says that nobody is signed in.
LEMMA WatchConcludesKeeps == ASSUME IInv, NEW w \in Watchers,
  WatchConcludes(w) PROVE IInv'
  <1> USE BoundsAssumption
  <1>1. watch[w].says \in Accounts
    BY DEF WatchConcludes, IInv, Typed, NamesAreAccounts
  <1>2. \A a \in {"out", watch[w].says} : Task("done", 0, 0, a) \in WatchTasks
    BY <1>1, TaskShape DEF WatchTasks
  <1>3. /\ watch' \in [Watchers -> WatchTasks]
        /\ \A v \in Watchers : \/ watch'[v] = watch[v]
                               \/ watch'[v].at \in {"idle", "expired"}
                               \/ watch'[v].at = "done" /\ watch'[v].says \in Accounts \cup {"out"}
                               \/ /\ watch'[v].at \in {"loaded", "named"}
                                  /\ watch'[v].says \in Accounts
    BY <1>1, <1>2, WatchMoves DEF WatchConcludes, WatchAnswers
  <1>4. identity' \in Accounts \cup {"none"}
    BY <1>1 DEF WatchConcludes, IInv, Typed, TypeOK
  <1>5. UNCHANGED <<generation, pending, stored, issued, verdict, page, opened, open,
                    phase, extras, chain, renewal, started, ended>>
    BY DEF WatchConcludes, runtime, github, screen, history
  <1>6. TypeOK'
    BY <1>1, <1>2, <1>3, <1>4, <1>5 DEF IInv, Typed, TypeOK, Codes, Dialogs
  <1>7. NamesAreAccounts'
    BY <1>1, <1>2, <1>3, <1>4, <1>5 DEF IInv, Typed, NamesAreAccounts
  <1>8. NothingAhead'
    BY <1>1, <1>2, <1>3, <1>4, <1>5 DEF IInv, Typed, TypeOK, NothingAhead, Known
  <1>9. PolledAreCodes'
    BY <1>1, <1>2, <1>3, <1>4, <1>5 DEF IInv, Typed, TypeOK, NothingAhead,
       PolledAreCodes, Codes
  <1>10. PendingIsLive'
    BY <1>1, <1>2, <1>3, <1>4, <1>5 DEF IInv, Typed, TypeOK, NothingAhead,
       PendingIsLive, Known
  <1>11. HeldIsLive'
    BY <1>1, <1>2, <1>3, <1>4, <1>5 DEF IInv, Typed, TypeOK, NothingAhead, HeldIsLive,
       PendingIsLive, EndedStays, Known
  <1>12. EndedStays'
    BY <1>1, <1>2, <1>3, <1>4, <1>5 DEF IInv, Typed, TypeOK, NothingAhead, HeldIsLive,
       EndedStays, Known
  <1> QED
    BY <1>6, <1>7, <1>8, <1>9, <1>10, <1>11, <1>12 DEF IInv, Typed

\* The page shows what the status task found.
LEMMA WatchDeliversKeeps == ASSUME IInv, NEW w \in Watchers,
  WatchDelivers(w) PROVE IInv'
  <1> USE BoundsAssumption
  <1>1. Resting = Task("idle", 0, 0, "none") /\ Resting \in WatchTasks
    BY TaskShape DEF Resting, WatchTasks
  <1>2. /\ watch' \in [Watchers -> WatchTasks]
        /\ \A v \in Watchers : \/ watch'[v] = watch[v]
                               \/ watch'[v].at \in {"idle", "expired"}
                               \/ watch'[v].at = "done" /\ watch'[v].says \in Accounts \cup {"out"}
                               \/ /\ watch'[v].at \in {"loaded", "named"}
                                  /\ watch'[v].says \in Accounts
    BY <1>1, WatchMoves DEF WatchDelivers
  <1>3. page' \in Accounts \cup {"unknown", "out"}
    BY DEF WatchDelivers, IInv, Typed, NamesAreAccounts
  <1>4. UNCHANGED <<generation, pending, identity, stored, issued, verdict, opened,
                    open, phase, extras, chain, renewal, started, ended>>
    BY DEF WatchDelivers, runtime, github, screen, history
  <1>5. TypeOK'
    BY <1>1, <1>2, <1>3, <1>4 DEF IInv, Typed, TypeOK, Codes, Dialogs
  <1>6. NamesAreAccounts'
    BY <1>1, <1>2, <1>3, <1>4 DEF IInv, Typed, NamesAreAccounts
  <1>7. NothingAhead'
    BY <1>1, <1>2, <1>3, <1>4 DEF IInv, Typed, TypeOK, NothingAhead, Known
  <1>8. PolledAreCodes'
    BY <1>1, <1>2, <1>3, <1>4 DEF IInv, Typed, TypeOK, NothingAhead, PolledAreCodes,
       Codes
  <1>9. PendingIsLive'
    BY <1>1, <1>2, <1>3, <1>4 DEF IInv, Typed, TypeOK, NothingAhead, PendingIsLive,
       Known
  <1>10. HeldIsLive'
    BY <1>1, <1>2, <1>3, <1>4 DEF IInv, Typed, TypeOK, NothingAhead, HeldIsLive,
       PendingIsLive, EndedStays, Known
  <1>11. EndedStays'
    BY <1>1, <1>2, <1>3, <1>4 DEF IInv, Typed, TypeOK, NothingAhead, HeldIsLive,
       EndedStays, Known
  <1> QED
    BY <1>5, <1>6, <1>7, <1>8, <1>9, <1>10, <1>11 DEF IInv, Typed

\* What the invariant says of the refresh tasks.
LEMMA RenewalFields ==
  ASSUME IInv
  PROVE  /\ renewal \in [Renewals -> RenewalTasks]
         /\ \A r \in Renewals : /\ renewal[r].gen \in Nat
                                /\ renewal[r].code \in 0 .. MaxCodes + 1
         /\ Resting \in RenewalTasks /\ Resting.at = "idle" /\ Resting.gen = 0
         /\ Resting.code = 0
  <1>1. renewal \in [Renewals -> RenewalTasks]
    BY DEF IInv, Typed, TypeOK
  <1>2. \A t \in RenewalTasks : t.gen \in Nat /\ t.code \in 0 .. MaxCodes + 1
    BY DEF RenewalTasks, Tasks
  <1>3. Resting \in RenewalTasks
    BY BoundsAssumption, TaskShape DEF RenewalTasks, Resting
  <1>4. Resting.at = "idle" /\ Resting.gen = 0 /\ Resting.code = 0
    BY TaskShape DEF Resting
  <1> QED
    BY <1>1, <1>2, <1>3, <1>4

\* A refresh notes the generation.
LEMMA RenewalBeginsKeeps == ASSUME IInv, NEW r \in Renewals,
  RenewalBegins(r) PROVE IInv'
  <1> USE BoundsAssumption
  <1>1. Task("begun", generation, 0, "none") \in RenewalTasks
    BY NobodyIsAhead, TaskShape DEF RenewalTasks
  <1>2. /\ renewal' \in [Renewals -> RenewalTasks]
        /\ \A q \in Renewals : \/ renewal'[q] = renewal[q]
                               \/ /\ renewal'[q].at = "idle" /\ renewal'[q].gen = 0
                                  /\ renewal'[q].code = 0
                               \/ /\ renewal'[q].at = "begun" /\ renewal'[q].code = 0
                                  /\ renewal'[q].gen = generation
                               \/ /\ renewal'[q].at = "asking"
                                  /\ renewal'[q].gen = renewal[q].gen
                                  /\ renewal'[q].code = stored.code /\ stored.code # 0
                                  /\ renewal'[q].says = stored.account
    BY <1>1, RenewalFields, TaskShape DEF RenewalBegins
  <1>3. UNCHANGED <<generation, pending, identity, stored, issued, verdict, page,
                    opened, open, phase, extras, chain, watch, started, ended>>
    BY DEF RenewalBegins, runtime, github, screen, history
  <1>4. TypeOK'
    BY <1>1, <1>2, <1>3 DEF IInv, Typed, TypeOK, Codes, Dialogs
  <1>5. NamesAreAccounts'
    BY <1>1, <1>2, <1>3 DEF IInv, Typed, NamesAreAccounts
  <1>6. NothingAhead'
    BY <1>1, <1>2, <1>3 DEF IInv, Typed, TypeOK, NothingAhead, Known
  <1>7. PolledAreCodes'
    BY <1>1, <1>2, <1>3 DEF IInv, Typed, TypeOK, NothingAhead, PolledAreCodes, Codes
  <1>8. PendingIsLive'
    BY <1>1, <1>2, <1>3 DEF IInv, Typed, TypeOK, NothingAhead, PendingIsLive, Known
  <1>9. HeldIsLive'
    BY <1>1, <1>2, <1>3 DEF IInv, Typed, TypeOK, NothingAhead, HeldIsLive,
       PendingIsLive, EndedStays, Known
  <1>10. EndedStays'
    BY <1>1, <1>2, <1>3 DEF IInv, Typed, TypeOK, NothingAhead, HeldIsLive, EndedStays,
       Known
  <1> QED
    BY <1>4, <1>5, <1>6, <1>7, <1>8, <1>9, <1>10 DEF IInv, Typed

\* It loads the credential it will replace.
LEMMA RenewalLoadsKeeps == ASSUME IInv, NEW r \in Renewals, RenewalLoads(r) PROVE IInv'
  <1> USE BoundsAssumption
  <1>1. /\ stored.code \in 0 .. MaxCodes + 1
        /\ stored.code # 0 => stored.account \in Accounts
    BY DEF IInv, Typed, TypeOK, NamesAreAccounts
  <1>2. stored.code # 0 => Task("asking", renewal[r].gen, stored.code,
    stored.account) \in RenewalTasks
    BY <1>1, RenewalFields, TaskShape DEF RenewalTasks
  <1>3. /\ renewal' \in [Renewals -> RenewalTasks]
        /\ \A q \in Renewals : \/ renewal'[q] = renewal[q]
                               \/ /\ renewal'[q].at = "idle" /\ renewal'[q].gen = 0
                                  /\ renewal'[q].code = 0
                               \/ /\ renewal'[q].at = "begun" /\ renewal'[q].code = 0
                                  /\ renewal'[q].gen = generation
                               \/ /\ renewal'[q].at = "asking"
                                  /\ renewal'[q].gen = renewal[q].gen
                                  /\ renewal'[q].code = stored.code /\ stored.code # 0
                                  /\ renewal'[q].says = stored.account
    BY <1>2, RenewalFields, TaskShape DEF RenewalLoads
  <1>4. UNCHANGED <<generation, pending, identity, stored, issued, verdict, page,
                    opened, open, phase, extras, chain, watch, started, ended>>
    BY DEF RenewalLoads, runtime, github, screen, history
  <1>5. TypeOK'
    BY <1>1, <1>2, <1>3, <1>4 DEF IInv, Typed, TypeOK, Codes, Dialogs
  <1>6. NamesAreAccounts'
    BY <1>1, <1>2, <1>3, <1>4 DEF IInv, Typed, NamesAreAccounts
  <1>7. NothingAhead'
    BY <1>1, <1>2, <1>3, <1>4 DEF IInv, Typed, TypeOK, NothingAhead, Known
  <1>8. PolledAreCodes'
    BY <1>1, <1>2, <1>3, <1>4 DEF IInv, Typed, TypeOK, NothingAhead, PolledAreCodes,
       Codes
  <1>9. PendingIsLive'
    BY <1>1, <1>2, <1>3, <1>4 DEF IInv, Typed, TypeOK, NothingAhead, PendingIsLive,
       Known
  <1>10. HeldIsLive'
    BY <1>1, <1>2, <1>3, <1>4 DEF IInv, Typed, TypeOK, NothingAhead, HeldIsLive,
       PendingIsLive, EndedStays, Known
  <1>11. EndedStays'
    BY <1>1, <1>2, <1>3, <1>4 DEF IInv, Typed, TypeOK, NothingAhead, HeldIsLive,
       EndedStays, Known
  <1> QED
    BY <1>5, <1>6, <1>7, <1>8, <1>9, <1>10, <1>11 DEF IInv, Typed

\* It saves the new token only in the generation it began in.
LEMMA RenewalEndsKeeps == ASSUME IInv, NEW r \in Renewals, RenewalEnds(r) PROVE IInv'
  <1> USE BoundsAssumption
  <1>1. renewal[r].says \in Accounts /\ renewal[r].at = "asking"
    BY DEF RenewalEnds, IInv, Typed, NamesAreAccounts
  <1>2. /\ Login(renewal[r].code, renewal[r].says, FALSE).code = renewal[r].code
        /\ Login(renewal[r].code, renewal[r].says, FALSE).account = renewal[r].says
        /\ Login(renewal[r].code, renewal[r].says, FALSE) \in
              [code : 0 .. MaxCodes + 1, account : Accounts \cup {"none"}, expired : BOOLEAN]
    BY <1>1, RenewalFields DEF Login
  <1>3. /\ renewal' \in [Renewals -> RenewalTasks]
        /\ \A q \in Renewals : \/ renewal'[q] = renewal[q]
                               \/ /\ renewal'[q].at = "idle" /\ renewal'[q].gen = 0
                                  /\ renewal'[q].code = 0
                               \/ /\ renewal'[q].at = "begun" /\ renewal'[q].code = 0
                                  /\ renewal'[q].gen = generation
                               \/ /\ renewal'[q].at = "asking"
                                  /\ renewal'[q].gen = renewal[q].gen
                                  /\ renewal'[q].code = stored.code /\ stored.code # 0
                                  /\ renewal'[q].says = stored.account
    BY RenewalFields DEF RenewalEnds
  <1>4. \/ UNCHANGED <<stored, identity>>
        \/ /\ stored' \in [code : 0 .. MaxCodes + 1, account : Accounts \cup {"none"}, expired : BOOLEAN]
           /\ stored'.code = renewal[r].code /\ stored'.account = renewal[r].says
           /\ renewal[r].says \in Accounts /\ identity' = renewal[r].says
           /\ renewal[r].at = "asking" /\ renewal[r].gen = generation
    BY <1>1, <1>2 DEF RenewalEnds
  <1>5. UNCHANGED <<generation, pending, issued, verdict, page, opened, open, phase,
                    extras, chain, watch, started, ended>>
    BY DEF RenewalEnds, runtime, github, screen, history
  <1>6. TypeOK'
    BY <1>1, <1>2, <1>3, <1>4, <1>5 DEF IInv, Typed, TypeOK, Codes, Dialogs
  <1>7. NamesAreAccounts'
    BY <1>1, <1>2, <1>3, <1>4, <1>5 DEF IInv, Typed, NamesAreAccounts
  <1>8. NothingAhead'
    BY <1>1, <1>2, <1>3, <1>4, <1>5 DEF IInv, Typed, TypeOK, NothingAhead, Known
  <1>9. PolledAreCodes'
    BY <1>1, <1>2, <1>3, <1>4, <1>5 DEF IInv, Typed, TypeOK, NothingAhead,
       PolledAreCodes, Codes
  <1>10. PendingIsLive'
    BY <1>1, <1>2, <1>3, <1>4, <1>5 DEF IInv, Typed, TypeOK, NothingAhead,
       PendingIsLive, Known
  <1>11. HeldIsLive'
    BY <1>1, <1>2, <1>3, <1>4, <1>5 DEF IInv, Typed, TypeOK, NothingAhead, HeldIsLive,
       PendingIsLive, EndedStays, Known
  <1>12. EndedStays'
    BY <1>1, <1>2, <1>3, <1>4, <1>5 DEF IInv, Typed, TypeOK, NothingAhead, HeldIsLive,
       EndedStays, Known
  <1> QED
    BY <1>6, <1>7, <1>8, <1>9, <1>10, <1>11, <1>12 DEF IInv, Typed

\* The user decides about a code.
LEMMA DecideKeeps == ASSUME IInv, NEW c \in Codes, Decide(c) PROVE IInv'
  <1> USE BoundsAssumption
  <1>1. verdict' \in [Codes -> Accounts \cup
          {"none", "open", "denied", "lapsed", "used"}]
    BY DEF Decide, IInv, Typed, TypeOK
  <1>2. UNCHANGED <<generation, pending, identity, stored, issued, page, opened, open,
                    phase, extras, chain, watch, renewal, started, ended>>
    BY DEF Decide, runtime, github, screen, history
  <1>3. TypeOK'
    BY <1>1, <1>2 DEF IInv, Typed, TypeOK, Codes, Dialogs
  <1>4. NamesAreAccounts'
    BY <1>1, <1>2 DEF IInv, Typed, NamesAreAccounts
  <1>5. NothingAhead'
    BY <1>1, <1>2 DEF IInv, Typed, TypeOK, NothingAhead, Known
  <1>6. PolledAreCodes'
    BY <1>1, <1>2 DEF IInv, Typed, TypeOK, NothingAhead, PolledAreCodes, Codes
  <1>7. PendingIsLive'
    BY <1>1, <1>2 DEF IInv, Typed, TypeOK, NothingAhead, PendingIsLive, Known
  <1>8. HeldIsLive'
    BY <1>1, <1>2 DEF IInv, Typed, TypeOK, NothingAhead, HeldIsLive, PendingIsLive,
       EndedStays, Known
  <1>9. EndedStays'
    BY <1>1, <1>2 DEF IInv, Typed, TypeOK, NothingAhead, HeldIsLive, EndedStays, Known
  <1> QED
    BY <1>3, <1>4, <1>5, <1>6, <1>7, <1>8, <1>9 DEF IInv, Typed

\* A code lapses.
LEMMA LapseKeeps == ASSUME IInv, NEW c \in Codes, Lapse(c) PROVE IInv'
  <1> USE BoundsAssumption
  <1>1. verdict' \in [Codes -> Accounts \cup
          {"none", "open", "denied", "lapsed", "used"}]
    BY DEF Lapse, IInv, Typed, TypeOK
  <1>2. UNCHANGED <<generation, pending, identity, stored, issued, page, opened, open,
                    phase, extras, chain, watch, renewal, started, ended>>
    BY DEF Lapse, runtime, github, screen, history
  <1>3. TypeOK'
    BY <1>1, <1>2 DEF IInv, Typed, TypeOK, Codes, Dialogs
  <1>4. NamesAreAccounts'
    BY <1>1, <1>2 DEF IInv, Typed, NamesAreAccounts
  <1>5. NothingAhead'
    BY <1>1, <1>2 DEF IInv, Typed, TypeOK, NothingAhead, Known
  <1>6. PolledAreCodes'
    BY <1>1, <1>2 DEF IInv, Typed, TypeOK, NothingAhead, PolledAreCodes, Codes
  <1>7. PendingIsLive'
    BY <1>1, <1>2 DEF IInv, Typed, TypeOK, NothingAhead, PendingIsLive, Known
  <1>8. HeldIsLive'
    BY <1>1, <1>2 DEF IInv, Typed, TypeOK, NothingAhead, HeldIsLive, PendingIsLive,
       EndedStays, Known
  <1>9. EndedStays'
    BY <1>1, <1>2 DEF IInv, Typed, TypeOK, NothingAhead, HeldIsLive, EndedStays, Known
  <1> QED
    BY <1>3, <1>4, <1>5, <1>6, <1>7, <1>8, <1>9 DEF IInv, Typed

\* Every step keeps the invariant.
LEMMA StepIInv == IInv /\ [Next]_vars => IInv'
  <1> SUFFICES ASSUME IInv, [Next]_vars PROVE IInv'
    OBVIOUS
  <1>1. ASSUME NEW d \in Dialogs, ChainStep(d) PROVE IInv'
    BY <1>1, BeginStartKeeps, StartAnsweredKeeps, BeginPollKeeps, PollAnsweredKeeps,
       HandleAnswerKeeps, SaveLoginKeeps, ChainFailsKeeps, DeliverKeeps DEF ChainStep
  <1>2. ASSUME NEW w \in Watchers, WatchStep(w) PROVE IInv'
    BY <1>2, WatchBeginsKeeps, WatchLoadsKeeps, WatchFindsExpiredKeeps, WatchNamesKeeps,
       WatchConcludesKeeps, WatchDeliversKeeps DEF WatchStep
  <1>3. ASSUME NEW r \in Renewals, RenewalStep(r) PROVE IInv'
    BY <1>3, RenewalBeginsKeeps, RenewalLoadsKeeps, RenewalEndsKeeps DEF RenewalStep
  <1>4. ASSUME NEW c \in Codes, Decide(c) \/ Lapse(c) PROVE IInv'
    BY <1>4, DecideKeeps, LapseKeeps
  <1>5. CASE Open \/ Retry \/ Close \/ Logout \/ Expire
    BY <1>5, OpenKeeps, RetryKeeps, CloseKeeps, LogoutKeeps,
       ExpireKeeps
  <1>6. CASE UNCHANGED vars
    BY <1>6 DEF vars, runtime, github, screen, history, IInv, Typed, TypeOK,
                NamesAreAccounts, NothingAhead, Known, PolledAreCodes, PendingIsLive,
                HeldIsLive, EndedStays
  <1> QED
    BY <1>1, <1>2, <1>3, <1>4, <1>5, <1>6 DEF Next

\* The runtime, the tasks and the store keep their types.
THEOREM TypeCorrect == Spec => []TypeOK
  <1>1. IInv => TypeOK
    BY DEF IInv, Typed
  <1> QED
    BY InitIInv, StepIInv, <1>1, PTL DEF Spec

\* For any number of dialogs, refreshes and codes, what a cancel, a start or a
\* logout has ended is never stored again (github_auth/mod.rs).
THEOREM NothingEndedReturns == Spec => []EndedStays
  <1>1. IInv => EndedStays
    BY DEF IInv
  <1> QED
    BY InitIInv, StepIInv, <1>1, PTL DEF Spec
=============================================================================
