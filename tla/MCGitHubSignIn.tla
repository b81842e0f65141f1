---------------------------- MODULE MCGitHubSignIn ----------------------------
(* Two dialogs in a row, or one beside a status and a refresh task.          *)
EXTENDS GitHubSignIn

CONSTANTS a1, w1, r1

\* Bound: the second dialog opens, and stays, without the other tasks. Steps of
\* a dialog never depend on it.
Narrow == opened = 2 =>
    /\ \A w \in Watchers : watch[w].at = "idle"
    /\ \A r \in Renewals : renewal[r].at = "idle"

MCSpec ==
    /\ Init /\ [][Next /\ Narrow']_vars
    /\ \A d \in Dialogs : WF_vars(ChainStep(d))
    /\ \A c \in Codes : WF_vars(Lapse(c))
=============================================================================
