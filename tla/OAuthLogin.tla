----------------------------- MODULE OAuthLogin -----------------------------
(***************************************************************************)
(* Adding an account by signing in to its platform: the dialog of the      *)
(* accounts page, the registry of pending sign-ins it shares with the      *)
(* workers, and the four ways a worker learns of the user's approval.      *)
(*                                                                         *)
(*   "codex"   a listener on a fixed local port, or on a second one when   *)
(*             the first is taken; a newcomer asks the old listener to go  *)
(*   "xai"     a device code; the worker polls and looks at the registry   *)
(*   "grok"    what "xai" becomes when the platform has no device codes:   *)
(*             a listener on a third port, which the worker binds itself   *)
(*             and the registry does not know of                           *)
(*   "cursor"  a session the worker polls without looking at the registry  *)
(*                                                                         *)
(* The worker, the start request, the task that awaits the answer and the  *)
(* dialog run beside each other; only the registry and the ports join      *)
(* them. Answers reach whatever dialog is open when they arrive.           *)
(***************************************************************************)
EXTENDS Integers

CONSTANTS Platforms,    \* the platforms with a browser sign-in
          MaxLogins,    \* bound: sign-ins started
          MaxDialogs    \* bound: times the dialog is opened

ASSUME PlatformsAreKinds == Platforms \subseteq {"codex", "xai", "cursor"}
ASSUME BoundsAreNat == MaxLogins \in Nat /\ MaxDialogs \in Nat

Logins    == 1..MaxLogins
Nobody    == 0
Other     == MaxLogins + 1          \* another program's listener
CodexPorts == {"first", "second"}
Ports      == CodexPorts \union {"third"}

VARIABLES dialog,    \* the dialog: platform ("none": closed), busy, pending
          opened,    \* how often it was opened
          logins,    \* the sign-ins
          ports,     \* who listens on each port
          granted,   \* sign-ins the user has approved in the browser
          rows,      \* sign-ins saved as an account row
          early      \* history: cancelled before the user approved

loginVars == <<dialog, opened, logins, ports, granted, rows, early>>

Closed == [platform |-> "none", busy |-> FALSE, pending |-> Nobody]

\* at: the worker (and the start request before it); chain: what the dialog
\* has been told; inbox: the first request on the listener that ends its wait.
Unused == [platform |-> "none", dialog |-> 0, at |-> "none", chain |-> "none",
           listed |-> FALSE, sender |-> FALSE, answer |-> "none",
           inbox |-> "none", late |-> FALSE]

LoginInit ==
    /\ dialog = Closed
    /\ opened = 0
    /\ logins = [l \in Logins |-> Unused]
    /\ ports \in [Ports -> {Nobody, Other}]
    /\ granted = {}
    /\ rows = {}
    /\ early = {}

LoginAt(l, stage) == logins[l].at = stage
Is(l, kind)  == logins[l].platform = kind
Polls(l)     == Is(l, "xai") \/ Is(l, "cursor")

\* A request on the listener of sign-in l: the first one decides.
Post(login, request) ==
    [login EXCEPT !.inbox = IF @ = "none" THEN request ELSE @]

\* Everyone whose listener is on one of the ports ps is asked to stop.
AskToStop(table, ps) ==
    [l \in Logins |->
        IF \E p \in ps : ports[p] = l THEN Post(table[l], "cancel") ELSE table[l]]

Released(l) == [p \in Ports |-> IF ports[p] = l THEN Nobody ELSE ports[p]]

-----------------------------------------------------------------------------
(* The dialog.                                                             *)

OpenAdd(platform) ==
    /\ dialog.platform = "none" /\ opened < MaxDialogs
    /\ dialog' = [platform |-> platform, busy |-> FALSE, pending |-> Nobody]
    /\ opened' = opened + 1
    /\ UNCHANGED <<logins, ports, granted, rows, early>>

\* cancel: the entry leaves the registry and the awaiting task gets the error.
\* For Codex whoever holds either of its ports is asked to stop; Grok's entry
\* has no port, and its listener stays.
Cancelled(l) ==
    LET gone == [logins EXCEPT ![l].listed = FALSE, ![l].sender = FALSE,
                     ![l].answer = IF logins[l].sender THEN "failed" ELSE @]
    IN  IF ~logins[l].listed THEN logins
        ELSE IF Is(l, "codex") THEN AskToStop(gone, CodexPorts) ELSE gone

CloseAdd ==
    LET l == dialog.pending IN
    /\ dialog.platform # "none"
    /\ dialog' = Closed
    /\ IF l = Nobody
       THEN UNCHANGED <<logins, early>>
       ELSE /\ logins' = Cancelled(l)
            /\ early' = IF logins[l].listed /\ l \notin granted
                        THEN early \union {l} ELSE early
    /\ UNCHANGED <<opened, ports, granted, rows>>

\* The sign-in button shows while nothing is pending and nothing runs.
StartLogin(l) ==
    /\ dialog.platform # "none" /\ ~dialog.busy /\ dialog.pending = Nobody
    /\ LoginAt(l, "none") /\ \A k \in 1..(l - 1) : ~LoginAt(k, "none")
    /\ dialog' = [dialog EXCEPT !.busy = TRUE]
    /\ logins' = [logins EXCEPT ![l] =
          [Unused EXCEPT !.platform = dialog.platform, !.dialog = opened,
                         !.chain = "starting",
                         !.at = IF dialog.platform = "codex" THEN "binding" ELSE "begin"]]
    /\ UNCHANGED <<opened, ports, granted, rows, early>>

\* The start request comes back, to whatever dialog is there by then.
Answered(l) ==
    /\ \/ /\ logins[l].chain = "started"
          /\ dialog' = [dialog EXCEPT !.busy = FALSE, !.pending = l]
          /\ logins' = [logins EXCEPT ![l].chain = "awaiting"]
       \/ /\ logins[l].chain = "refused"
          /\ dialog' = [dialog EXCEPT !.busy = FALSE]
          /\ logins' = [logins EXCEPT ![l].chain = "done"]
    /\ UNCHANGED <<opened, ports, granted, rows, early>>

\* The awaiting task takes the receiver; a cancelled entry has none.
TakeReceiver(l) ==
    /\ logins[l].chain = "awaiting"
    /\ logins' = [logins EXCEPT ![l].chain =
                      IF logins[l].listed THEN "receiving" ELSE "failed"]
    /\ UNCHANGED <<dialog, opened, ports, granted, rows, early>>

Receive(l) ==
    /\ logins[l].chain = "receiving" /\ logins[l].answer # "none"
    /\ logins' = [logins EXCEPT ![l].chain = logins[l].answer,
                                ![l].listed = FALSE, ![l].sender = FALSE]
    /\ UNCHANGED <<dialog, opened, ports, granted, rows, early>>

\* The result reaches the page; it only asks whether a dialog is open.
Completed(l) ==
    /\ logins[l].chain \in {"saved", "failed"}
    /\ logins' = [logins EXCEPT ![l].chain = "done"]
    /\ dialog' = IF dialog.platform = "none" THEN dialog
                 ELSE [dialog EXCEPT !.pending = Nobody,
                           !.platform = IF logins[l].chain = "saved" THEN "none" ELSE @]
    /\ UNCHANGED <<opened, ports, granted, rows, early>>

-----------------------------------------------------------------------------
(* The start request.                                                      *)

Enters(l, kind, stage) ==
    [logins EXCEPT ![l].platform = kind, ![l].at = stage, ![l].chain = "started",
                   ![l].listed = TRUE, ![l].sender = TRUE]
Registered(l) == Enters(l, logins[l].platform, "waiting")
Refused(l) == [logins EXCEPT ![l].at = "ended", ![l].chain = "refused"]

BeginLogin(l) ==
    /\ LoginAt(l, "begin")
    /\ \/ logins' = Registered(l)
       \/ Is(l, "xai") /\ logins' \in {Enters(l, "grok", "binding"), Refused(l)}
    /\ UNCHANGED <<dialog, opened, ports, granted, rows, early>>

Wished(l) == IF Is(l, "grok") THEN "third" ELSE "first"

\* Codex binds in its start request, Grok's worker after it.
BindPort(l, p) ==
    /\ IF p = Wished(l) THEN logins[l].at \in {"binding", "poked"}
       ELSE p = "second" /\ LoginAt(l, "second")
    /\ ports[p] = Nobody
    /\ ports' = [ports EXCEPT ![p] = l]
    /\ logins' = IF Is(l, "grok") THEN [logins EXCEPT ![l].at = "waiting"] ELSE Registered(l)
    /\ UNCHANGED <<dialog, opened, granted, rows, early>>

\* The port is taken: ask its listener to go, once.
Poke(l) ==
    /\ LoginAt(l, "binding") /\ ports[Wished(l)] # Nobody
    /\ logins' = AskToStop([logins EXCEPT ![l].at = "poked"], {Wished(l)})
    /\ UNCHANGED <<dialog, opened, ports, granted, rows, early>>

\* Ten tries later it is still taken: Codex goes to the second port, with
\* nobody asked; Grok has none.
FallBack(l) ==
    /\ LoginAt(l, "poked") /\ ports[Wished(l)] # Nobody
    /\ logins' = [logins EXCEPT ![l].at = IF Is(l, "grok") THEN "failed" ELSE "second"]
    /\ UNCHANGED <<dialog, opened, ports, granted, rows, early>>

BindFails(l) ==
    /\ LoginAt(l, "second") /\ ports["second"] # Nobody
    /\ logins' = Refused(l)
    /\ UNCHANGED <<dialog, opened, ports, granted, rows, early>>

-----------------------------------------------------------------------------
(* The worker.                                                             *)

\* The five minutes, the 150 polls or the code's lifetime are over.
Expire(l) ==
    /\ logins[l].at \in {"waiting", "asking"} /\ ~logins[l].late
    /\ logins' = [logins EXCEPT ![l].late = TRUE]
    /\ UNCHANGED <<dialog, opened, ports, granted, rows, early>>

GiveUpOnCancel(l) ==
    /\ LoginAt(l, "waiting") /\ Is(l, "xai") /\ ~logins[l].listed
    /\ logins' = [logins EXCEPT ![l].at = "failed"]
    /\ ports' = Released(l)
    /\ UNCHANGED <<dialog, opened, granted, rows, early>>

GiveUp(l) ==
    /\ LoginAt(l, "waiting")
    /\ logins[l].late \/ (Is(l, "xai") /\ ~logins[l].listed)
    /\ logins' = [logins EXCEPT ![l].at = "failed"]
    /\ ports' = Released(l)
    /\ UNCHANGED <<dialog, opened, granted, rows, early>>

ReadInbox(l) ==
    /\ LoginAt(l, "waiting") /\ logins[l].inbox # "none"
    /\ logins' = [logins EXCEPT ![l].at =
                      IF logins[l].inbox = "code" THEN "tokens" ELSE "failed"]
    /\ ports' = Released(l)
    /\ UNCHANGED <<dialog, opened, granted, rows, early>>

Poll(l) ==
    /\ LoginAt(l, "waiting") /\ Polls(l) /\ ~logins[l].late
    /\ Is(l, "xai") => logins[l].listed
    /\ logins' = [logins EXCEPT ![l].at = "asking"]
    /\ UNCHANGED <<dialog, opened, ports, granted, rows, early>>

PollAnswered(l) ==
    /\ LoginAt(l, "asking")
    /\ \E stage \in {"waiting", "failed"} \union (IF l \in granted THEN {"tokens"} ELSE {}) :
          logins' = [logins EXCEPT ![l].at = stage]
    /\ UNCHANGED <<dialog, opened, ports, granted, rows, early>>

ExchangeUnchecked(l) ==
    /\ LoginAt(l, "tokens")
    /\ logins' = [logins EXCEPT ![l].at = "saving"]
    /\ UNCHANGED <<dialog, opened, ports, granted, rows, early>>

\* A code is exchanged; the device worker looks at the registry once more.
Exchange(l) ==
    /\ LoginAt(l, "tokens")
    /\ \/ /\ Is(l, "xai") => logins[l].listed
          /\ logins' = [logins EXCEPT ![l].at = "saving"]
       \/ /\ ~Polls(l) \/ (Is(l, "xai") /\ ~logins[l].listed)
          /\ logins' = [logins EXCEPT ![l].at = "failed"]
    /\ UNCHANGED <<dialog, opened, ports, granted, rows, early>>

Finalize(l) ==
    /\ LoginAt(l, "saving")
    /\ \/ logins' = [logins EXCEPT ![l].at = "saved"] /\ rows' = rows \union {l}
       \/ logins' = [logins EXCEPT ![l].at = "failed"] /\ UNCHANGED rows
    /\ UNCHANGED <<dialog, opened, ports, granted, early>>

Deliver(l) ==
    /\ logins[l].at \in {"saved", "failed"}
    /\ logins' = [logins EXCEPT ![l].at = "ended", ![l].sender = FALSE,
                      ![l].answer = IF logins[l].sender THEN logins[l].at ELSE @]
    /\ UNCHANGED <<dialog, opened, ports, granted, rows, early>>

-----------------------------------------------------------------------------
(* The user in the browser, and the other program.                         *)

\* Approval: the platform's page then calls the port the sign-in was started
\* with, where only the listener that expects its state takes the code. A
\* pasted link or code makes the same call, and so does the page, loaded again.
Approve(l) ==
    LET listens == \E p \in Ports : ports[p] = l IN
    /\ logins[l].chain \notin {"none", "starting", "started", "refused"}
    /\ l \notin granted \/ (listens /\ logins[l].inbox = "none")
    /\ granted' = granted \union {l}
    /\ logins' = IF listens THEN [logins EXCEPT ![l] = Post(@, "code")] ELSE logins
    /\ UNCHANGED <<dialog, opened, ports, rows, early>>

OtherLeaves ==
    /\ \E p \in Ports : ports[p] = Other /\ ports' = [ports EXCEPT ![p] = Nobody]
    /\ UNCHANGED <<dialog, opened, logins, granted, rows, early>>

StartStep(l)  == \/ BeginLogin(l) \/ \E p \in Ports : BindPort(l, p)
                 \/ Poke(l) \/ FallBack(l) \/ BindFails(l)
WorkerStep(l) == GiveUp(l) \/ ReadInbox(l) \/ Poll(l) \/ PollAnswered(l)
                 \/ Exchange(l) \/ Finalize(l) \/ Deliver(l)
DialogStep(l) == Answered(l) \/ TakeReceiver(l) \/ Receive(l) \/ Completed(l)

LoginNext ==
    \/ \E platform \in Platforms : OpenAdd(platform)
    \/ CloseAdd
    \/ OtherLeaves
    \/ \E l \in Logins : \/ StartLogin(l) \/ StartStep(l) \/ WorkerStep(l)
                         \/ DialogStep(l) \/ Expire(l) \/ Approve(l)

LoginSpec == LoginInit /\ [][LoginNext]_loginVars

\* Spawned tasks are polled (the worker is spawned when the start request ends),
\* requests time out, and time passes. Nothing is asked of the user, the browser
\* or the other program.
FairSpec ==
    /\ LoginSpec
    /\ \A l \in Logins : /\ WF_loginVars(StartStep(l) \/ WorkerStep(l))
                         /\ WF_loginVars(DialogStep(l)) /\ WF_loginVars(Expire(l))

-----------------------------------------------------------------------------
Stages == {"none", "binding", "poked", "second", "begin", "waiting", "asking",
           "tokens", "saving", "saved", "failed", "ended"}
Chains == {"none", "starting", "started", "refused", "awaiting", "receiving",
           "saved", "failed", "done"}

\* The fields have their types, a port of ours belongs to a worker that still
\* listens, and a sender is only in a listed entry.
LoginTypeOK ==
    /\ dialog \in [platform : Platforms \union {"none"}, busy : BOOLEAN,
                   pending : {Nobody} \union Logins]
    /\ opened \in 0..MaxDialogs
    /\ logins \in [Logins -> [platform : Platforms \union {"none", "grok"}, dialog : 0..MaxDialogs,
                              at : Stages, chain : Chains, listed : BOOLEAN,
                              sender : BOOLEAN, answer : {"none", "saved", "failed"},
                              inbox : {"none", "cancel", "code"}, late : BOOLEAN]]
    /\ ports \in [Ports -> {Nobody, Other} \union Logins]
    /\ granted \subseteq Logins /\ rows \subseteq Logins /\ early \subseteq Logins
    /\ \A p \in Ports :
          ports[p] \in Logins =>
             /\ LoginAt(ports[p], "waiting")
             /\ Is(ports[p], IF p = "third" THEN "grok" ELSE "codex")
    /\ \A l \in Logins : logins[l].sender => logins[l].listed

\* A Codex sign-in, or a Grok sign-in by device code, that the user cancelled
\* before approving it in the browser never adds an account, whatever its worker
\* had under way (pending_state.rs:207, xai_device.rs:157-160). The workers of
\* Cursor and of Grok's listener do not ask, nobody stops them, and they may.
CancelStands ==
    \A l \in early : Is(l, "codex") \/ Is(l, "xai") => l \notin rows

\* Every pending sign-in ends: its entry leaves the registry and its port is
\* free again, though the user may walk away from browser and dialog.
EveryLoginEnds ==
    \A l \in Logins :
        logins[l].listed ~> (~logins[l].listed /\ \A p \in Ports : ports[p] # l)

=============================================================================
