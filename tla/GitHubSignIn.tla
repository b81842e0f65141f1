----------------------------- MODULE GitHubSignIn -----------------------------
(***************************************************************************)
(* Signing in to GitHub with a device code (github_auth/mod.rs) from the   *)
(* dialog of the Skills page (my_skills/github_sign_in.rs).  One facade,   *)
(* shared by the whole window, keeps a generation, the pending code and    *)
(* the cached identity under a mutex that no task holds while it talks to  *)
(* GitHub: a task notes the generation first and compares it before it     *)
(* writes.                                                                 *)
(*                                                                         *)
(* A dialog has one task at a time, its chain: start, then sleep and poll  *)
(* until there is a verdict.  Closing the dialog cancels the pending code  *)
(* and drops the view; the chain is detached and runs to the end of the    *)
(* request it is in, whose answer then finds no view.                      *)
(***************************************************************************)
EXTENDS Naturals

CONSTANTS Accounts,       \* the GitHub accounts the user may authorise as
          Watchers,       \* tasks that ask for the status, one per page refresh
          Renewals,       \* tasks that call the facade's refresh
          MaxDialogs,     \* bound on the dialogs opened, one after the other
          MaxCodes,       \* bound on the device codes GitHub issues
          MaxExtras,      \* bound on retries and logouts together
          LogsOut         \* whether anybody calls logout

ASSUME AccountsAssumption == {"none", "open", "denied", "lapsed", "used",
                              "unknown", "out"} \cap Accounts = {}
ASSUME BoundsAssumption   == /\ MaxDialogs \in Nat /\ MaxCodes \in Nat
                             /\ MaxExtras \in Nat /\ LogsOut \in BOOLEAN

VARIABLES generation,  \* RuntimeState.generation
          pending,     \* RuntimeState.pending: its generation and code, 0 if none
          identity,    \* RuntimeState.identity: an account or "none"
          stored,      \* auth.json: the code it was granted for, 0 if none,
                       \* the account and whether the access token has expired
          issued,      \* the device codes GitHub has issued: 1 .. issued
          verdict,     \* what GitHub would answer a poll of a code
          page,        \* MySkillsPage.github: "unknown", "out" or an account
          opened,      \* the dialogs opened so far: 1 .. opened
          open,        \* the dialog on screen, 0 if none
          phase,       \* its phase; "none" without a dialog
          extras,      \* the retries and logouts so far
          chain,       \* the task of each dialog
          watch,       \* the status tasks
          renewal,     \* the refresh tasks
          \* History variables:
          started,     \* the codes each dialog asked for
          ended        \* the codes that a cancel, start or logout has ended

runtime == <<generation, pending, identity>>
github  == <<issued, verdict>>
screen  == <<page, opened, open, phase, extras>>
history == <<started, ended>>
vars    == <<runtime, stored, github, screen, chain, watch, renewal, history>>

Dialogs   == 1 .. MaxDialogs
Codes     == 1 .. MaxCodes
NoPending == [gen |-> 0, code |-> 0]
Login(code, account, expired) ==
   [code |-> code, account |-> account, expired |-> expired]

NoLogin == Login(0, "none", FALSE)

(* Where a task is, the generation and code it holds, and what it heard. *)
Task(at, gen, code, says) == [at |-> at, gen |-> gen, code |-> code, says |-> says]

Resting == Task("idle", 0, 0, "none")
-----------------------------------------------------------------------------
Init == /\ generation = 0 /\ pending = NoPending /\ identity = "none"
        /\ issued = 0 /\ verdict = [c \in Codes |-> "none"]
        /\ opened = 0 /\ open = 0 /\ phase = "none" /\ extras = 0
        /\ chain = [d \in Dialogs |-> Resting]
        /\ watch = [w \in Watchers |-> Resting]
        /\ renewal = [r \in Renewals |-> Resting]
        /\ started = [d \in Dialogs |-> {}] /\ ended = {}
        /\ \/ stored = NoLogin
           \/ \E a \in Accounts, e \in BOOLEAN :
                 stored = Login(MaxCodes + 1, a, e)
        /\ page \in IF stored.code = 0 \/ stored.expired THEN {"unknown", "out"}
                                                        ELSE {"unknown"}

(* pending_for_generation *)
IsPending(gen) == generation = gen /\ pending.code # 0 /\ pending.gen = gen

(* start_device_flow, cancel_device_flow and logout outdate every task that *)
(* noted an earlier generation; what they had asked for is over.           *)
NextGeneration == generation' = generation + 1 /\ pending' = NoPending

(* clear_pending *)
ClearPending(gen) == pending' = IF generation = gen THEN NoPending ELSE pending

ChainIs(d, task) == chain' = [chain EXCEPT ![d] = task]
Answers(d, a)    == ChainIs(d, Task("done", 0, 0, a))
Rests(d, at)     == ChainIs(d, Task(at, 0, 0, "none"))
-----------------------------------------------------------------------------
(* The dialog and its chain.                                               *)

Open == /\ open = 0 /\ page = "out" /\ opened < MaxDialogs
        /\ opened' = opened + 1 /\ open' = opened + 1 /\ phase' = "starting"
        /\ Rests(opened + 1, "spawned")
        /\ UNCHANGED <<runtime, stored, github, page, extras, watch, renewal, history>>

Retry == /\ open # 0 /\ phase = "failed" /\ extras < MaxExtras /\ extras' = extras + 1
         /\ phase' = "starting" /\ Rests(open, "spawned")
         /\ UNCHANGED <<runtime, stored, github, page, opened, open, watch,
                        renewal, history>>

(* on_close and Drop, or the first render after close_pending *)
Close == /\ open # 0
         /\ NextGeneration
         /\ ended' = ended \cup (1 .. issued \ {stored.code})
         /\ open' = 0 /\ phase' = "none"
         /\ UNCHANGED <<identity, stored, github, page, opened, extras, chain,
                        watch, renewal, started>>

BeginStart(d) ==
   /\ chain[d].at = "spawned"
   /\ NextGeneration
   /\ ended' = ended \cup (1 .. issued \ {stored.code})
   /\ ChainIs(d, Task("asking", generation + 1, 0, "none"))
   /\ UNCHANGED <<identity, stored, github, screen, watch, renewal, started>>

StartAnswered(d) ==
   /\ chain[d].at = "asking" /\ issued < MaxCodes
   /\ issued' = issued + 1 /\ verdict' = [verdict EXCEPT ![issued + 1] = "open"]
   /\ started' = [started EXCEPT ![d] = @ \cup {issued + 1}]
   /\ \/ /\ generation = chain[d].gen
         /\ pending' = [gen |-> generation, code |-> issued + 1]
         /\ Answers(d, "again")
      \/ /\ generation # chain[d].gen
         /\ Answers(d, "failed")
         /\ UNCHANGED pending
   /\ UNCHANGED <<generation, identity, stored, screen, watch, renewal, ended>>

BeginPoll(d) ==
   /\ chain[d].at = "sleeping"
   /\ \/ /\ pending.code = 0
         /\ Answers(d, "failed")
         /\ UNCHANGED pending
      \/ /\ pending.code # 0 /\ verdict[pending.code] = "lapsed"
         /\ ClearPending(pending.gen)
         /\ Answers(d, "failed")
      \/ /\ pending.code # 0 /\ verdict[pending.code] # "lapsed"
         /\ ChainIs(d, Task("polling", pending.gen, pending.code, "none"))
         /\ UNCHANGED pending
   /\ UNCHANGED <<generation, identity, stored, github, screen, watch, renewal,
                  history>>

(* GitHub gives the token of an authorised code to one poll. *)
PollAnswered(d) ==
   /\ chain[d].at = "polling"
   /\ ChainIs(d, Task("answered", chain[d].gen, chain[d].code, verdict[chain[d].code]))
   /\ verdict' = IF verdict[chain[d].code] \in Accounts
                 THEN [verdict EXCEPT ![chain[d].code] = "used"] ELSE verdict
   /\ UNCHANGED <<runtime, stored, issued, screen, watch, renewal, history>>

(* What poll_device_flow does with the answer, up to current_user. *)
HandleAnswer(d) ==
   /\ chain[d].at = "answered"
   /\ \/ /\ chain[d].says \in {"denied", "lapsed"}
         /\ ClearPending(chain[d].gen)
         /\ Answers(d, "failed")
      \/ /\ chain[d].says = "open"
         /\ Answers(d, IF IsPending(chain[d].gen) THEN "again" ELSE "failed")
         /\ UNCHANGED pending
      \/ /\ chain[d].says = "used"
         /\ Answers(d, "failed")
         /\ UNCHANGED pending
      \/ /\ chain[d].says \in Accounts
         /\ IF IsPending(chain[d].gen)
            THEN ChainIs(d, Task("naming", chain[d].gen, chain[d].code, chain[d].says))
            ELSE Answers(d, "failed")
         /\ UNCHANGED pending
   /\ UNCHANGED <<generation, identity, stored, github, screen, watch, renewal,
                  history>>

\* Mutant: a login is saved without comparing the generation again.
SaveLoginUnchecked(d) ==
   /\ chain[d].at = "naming"
   /\ stored' = Login(chain[d].code, chain[d].says, FALSE)
   /\ pending' = NoPending /\ identity' = chain[d].says
   /\ Answers(d, chain[d].says)
   /\ UNCHANGED <<generation, github, screen, watch, renewal, history>>

(* After current_user: compare, save and cache under one lock. *)
SaveLogin(d) ==
   /\ chain[d].at = "naming"
   /\ \/ /\ IsPending(chain[d].gen)
         /\ stored' = Login(chain[d].code, chain[d].says, FALSE)
         /\ pending' = NoPending /\ identity' = chain[d].says
         /\ Answers(d, chain[d].says)
      \/ /\ ~ IsPending(chain[d].gen)
         /\ Answers(d, "failed")
         /\ UNCHANGED <<stored, pending, identity>>
   /\ UNCHANGED <<generation, github, screen, watch, renewal, history>>

(* A request or the save fails; the pending code stays where it is. *)
ChainFails(d) ==
   /\ chain[d].at \in {"asking", "polling", "naming"}
   /\ Answers(d, "failed")
   /\ UNCHANGED <<runtime, stored, github, screen, watch, renewal, history>>

\* Mutant: an answer that says to wait does not schedule the next poll.
DeliverOnce(d) ==
   /\ chain[d].at = "done"
   /\ \/ /\ open # d \/ (chain[d].says = "again" /\ phase = "waiting")
         /\ Rests(d, "idle")
         /\ UNCHANGED <<page, phase>>
      \/ /\ open = d /\ chain[d].says = "again" /\ phase # "waiting"
         /\ phase' = "waiting" /\ Rests(d, "sleeping")
         /\ UNCHANGED page
      \/ /\ open = d /\ chain[d].says = "failed"
         /\ phase' = "failed" /\ Rests(d, "idle")
         /\ UNCHANGED page
      \/ /\ open = d /\ chain[d].says \in Accounts
         /\ phase' = "connected" /\ page' = chain[d].says /\ Rests(d, "idle")
   /\ UNCHANGED <<runtime, stored, github, opened, open, extras, watch, renewal,
                  history>>

(* spawn_domain hands the result to the view, if there still is one. *)
Deliver(d) ==
   /\ chain[d].at = "done"
   /\ \/ /\ open # d
         /\ Rests(d, "idle")
         /\ UNCHANGED <<page, phase>>
      \/ /\ open = d /\ chain[d].says = "again"
         /\ phase' = "waiting" /\ Rests(d, "sleeping")
         /\ UNCHANGED page
      \/ /\ open = d /\ chain[d].says = "failed"
         /\ phase' = "failed" /\ Rests(d, "idle")
         /\ UNCHANGED page
      \/ /\ open = d /\ chain[d].says \in Accounts
         /\ phase' = "connected" /\ page' = chain[d].says /\ Rests(d, "idle")
   /\ UNCHANGED <<runtime, stored, github, opened, open, extras, watch, renewal,
                  history>>
-----------------------------------------------------------------------------
(* The status of the connection, asked for by every refresh of the page.   *)

WatchIs(w, task)   == watch' = [watch EXCEPT ![w] = task]
WatchAnswers(w, a) == WatchIs(w, Task("done", 0, 0, a))

WatchBegins(w) ==
   /\ watch[w].at = "idle"
   /\ WatchIs(w, Task("begun", generation, 0, "none"))
   /\ UNCHANGED <<runtime, stored, github, screen, chain, renewal, history>>

(* Reads the credential; a store that cannot be read ends the task. *)
WatchLoads(w) ==
   /\ watch[w].at = "begun"
   /\ \/ WatchIs(w, Resting)
      \/ /\ stored.code = 0 /\ WatchAnswers(w, "out")
      \/ /\ stored.code # 0
         /\ WatchIs(w, Task(IF stored.expired THEN "expired" ELSE "loaded",
                            watch[w].gen, 0, stored.account))
   /\ UNCHANGED <<runtime, stored, github, screen, chain, renewal, history>>

(* An expired credential is shown as a sign-in card, like none at all. *)
WatchFindsExpired(w) ==
   /\ watch[w].at = "expired"
   /\ WatchAnswers(w, "out")
   /\ UNCHANGED <<runtime, stored, github, screen, chain, renewal, history>>

(* The cached identity, or else the one GitHub gives for the token loaded. *)
WatchNames(w) ==
   /\ watch[w].at = "loaded"
   /\ \/ /\ identity # "none"
         /\ WatchIs(w, Task("named", watch[w].gen, 0, identity))
      \/ /\ identity = "none"
         /\ WatchIs(w, Task("named", watch[w].gen, 0, watch[w].says))
      \/ /\ identity = "none" /\ WatchIs(w, Resting)
   /\ UNCHANGED <<runtime, stored, github, screen, chain, renewal, history>>

WatchConcludes(w) ==
   /\ watch[w].at = "named"
   /\ \/ /\ generation = watch[w].gen
         /\ identity' = watch[w].says /\ WatchAnswers(w, watch[w].says)
      \/ /\ generation # watch[w].gen
         /\ WatchAnswers(w, "out")
         /\ UNCHANGED identity
   /\ UNCHANGED <<generation, pending, stored, github, screen, chain, renewal,
                  history>>

WatchDelivers(w) ==
   /\ watch[w].at = "done"
   /\ page' = watch[w].says
   /\ WatchIs(w, Resting)
   /\ UNCHANGED <<runtime, stored, github, opened, open, phase, extras, chain,
                  renewal, history>>
-----------------------------------------------------------------------------
(* refresh and logout, which the facade offers and the window never calls. *)

RenewalBegins(r) ==
   /\ renewal[r].at = "idle"
   /\ renewal' = [renewal EXCEPT ![r] = Task("begun", generation, 0, "none")]
   /\ UNCHANGED <<runtime, stored, github, screen, chain, watch, history>>

RenewalLoads(r) ==
   /\ renewal[r].at = "begun"
   /\ renewal' = [renewal EXCEPT
         ![r] = IF stored.code = 0 THEN Resting
                ELSE Task("asking", renewal[r].gen, stored.code, stored.account)]
   /\ UNCHANGED <<runtime, stored, github, screen, chain, watch, history>>

(* After refresh_access_token and current_user. *)
RenewalEnds(r) ==
   /\ renewal[r].at = "asking"
   /\ renewal' = [renewal EXCEPT ![r] = Resting]
   /\ \/ /\ generation = renewal[r].gen
         /\ stored' = Login(renewal[r].code, renewal[r].says, FALSE)
         /\ identity' = renewal[r].says
      \/ UNCHANGED <<stored, identity>>
   /\ UNCHANGED <<generation, pending, github, screen, chain, watch, history>>

(* The file may not be removable; everything else is forgotten first. *)
Logout == /\ LogsOut /\ extras < MaxExtras /\ extras' = extras + 1
          /\ NextGeneration
          /\ identity' = "none"
          /\ \/ /\ stored' = NoLogin
                /\ ended' = ended \cup 1 .. issued \cup {stored.code}
             \/ /\ stored.code # 0
                /\ ended' = ended \cup (1 .. issued \ {stored.code})
                /\ UNCHANGED stored
          /\ UNCHANGED <<github, page, opened, open, phase, chain, watch, renewal,
                         started>>
-----------------------------------------------------------------------------
(* The user at GitHub, who knows the codes a dialog has shown, and time.   *)

Shown(c) == \E d \in 1 .. opened :
               c \in started[d] /\ \/ open # d
                                   \/ phase \in {"waiting", "failed", "connected"}

Decide(c) ==
   /\ c \in 1 .. issued /\ verdict[c] = "open" /\ Shown(c)
   /\ \E v \in Accounts \cup {"denied"} : verdict' = [verdict EXCEPT ![c] = v]
   /\ UNCHANGED <<runtime, stored, issued, screen, chain, watch, renewal, history>>

Lapse(c) ==
   /\ verdict[c] = "open"
   /\ verdict' = [verdict EXCEPT ![c] = "lapsed"]
   /\ UNCHANGED <<runtime, stored, issued, screen, chain, watch, renewal, history>>

Expire == /\ stored.code # 0 /\ ~ stored.expired
          /\ stored' = Login(stored.code, stored.account, TRUE)
          /\ UNCHANGED <<runtime, github, screen, chain, watch, renewal, history>>

ChainStep(d) == \/ BeginStart(d) \/ StartAnswered(d) \/ BeginPoll(d)
                \/ PollAnswered(d) \/ HandleAnswer(d) \/ SaveLogin(d)
                \/ ChainFails(d) \/ Deliver(d)

WatchStep(w) == \/ WatchBegins(w) \/ WatchLoads(w) \/ WatchFindsExpired(w)
                \/ WatchNames(w) \/ WatchConcludes(w) \/ WatchDelivers(w)

RenewalStep(r) == RenewalBegins(r) \/ RenewalLoads(r) \/ RenewalEnds(r)

Next == \/ Open \/ Retry \/ Close \/ Logout \/ Expire
        \/ \E d \in Dialogs : ChainStep(d)
        \/ \E w \in Watchers : WatchStep(w)
        \/ \E r \in Renewals : RenewalStep(r)
        \/ \E c \in Codes : Decide(c) \/ Lapse(c)

Spec == Init /\ [][Next]_vars

(* The runtime polls every task, requests end by their time limit, and a   *)
(* code nobody decides about lapses.                                       *)
FairSpec == /\ Spec
            /\ \A d \in Dialogs : WF_vars(ChainStep(d))
            /\ \A c \in Codes : WF_vars(Lapse(c))
-----------------------------------------------------------------------------
Tasks(ats, sayings) == [at : ats, gen : Nat, code : 0 .. MaxCodes + 1, says : sayings]

ChainTasks   == Tasks({"idle", "spawned", "asking", "sleeping", "polling", "answered",
                       "naming", "done"},
                      Accounts \cup {"none", "open", "denied", "lapsed", "used",
                                     "again", "failed"})
WatchTasks   == Tasks({"idle", "begun", "loaded", "expired", "named", "done"},
                      Accounts \cup {"none", "out"})
RenewalTasks == Tasks({"idle", "begun", "asking"}, Accounts \cup {"none"})

(* The shape of the state. *)
TypeOK ==
   /\ generation \in Nat
   /\ pending \in [gen : Nat, code : 0 .. MaxCodes]
   /\ identity \in Accounts \cup {"none"}
   /\ stored \in [code : 0 .. MaxCodes + 1, account : Accounts \cup {"none"},
                  expired : BOOLEAN]
   /\ issued \in 0 .. MaxCodes
   /\ verdict \in [Codes -> Accounts \cup {"none", "open", "denied", "lapsed", "used"}]
   /\ page \in Accounts \cup {"unknown", "out"}
   /\ extras \in 0 .. MaxExtras /\ opened \in 0 .. MaxDialogs /\ open \in 0 .. opened
   /\ phase \in {"none", "starting", "waiting", "failed", "connected"}
   /\ chain \in [Dialogs -> ChainTasks]
   /\ watch \in [Watchers -> WatchTasks]
   /\ renewal \in [Renewals -> RenewalTasks]
   /\ started \in [Dialogs -> SUBSET Codes]
   /\ ended \subseteq 0 .. MaxCodes + 1

(* What a cancel, a new start or a logout ended never becomes the stored   *)
(* credential again, whatever poll or refresh was on its way.              *)
EndedStays == stored.code # 0 => stored.code \notin ended

(* A dialog that asks GitHub or waits for the user gets out of that: it    *)
(* connects, fails or is closed.  No chain stops without telling its view. *)
DialogEnds == \A d \in Dialogs :
   (open = d /\ phase \in {"starting", "waiting"})
      ~> ~ (open = d /\ phase \in {"starting", "waiting"})
=============================================================================
