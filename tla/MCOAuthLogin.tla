---------------------------- MODULE MCOAuthLogin ----------------------------
(* Two sign-ins in two dialogs.                                            *)
EXTENDS OAuthLogin

Kinds(ls) == {logins[l].platform : l \in ls}

\* Whether two sign-ins may meet beyond the dialog they share.
Paired(k, l) ==
    \/ "none" \in Kinds({k, l})
    \/ Kinds({k, l}) \in {{"codex"}, {"codex", "xai"}}
    \/ \A m \in {k, l} : Is(m, "grok") \/ (Is(m, "xai") /\ logins[m].at \in {"begin", "ended"})

\* Bound: two sign-ins are both Codex's, or one is and the other Grok's device code,
\* or both are Grok's with a listener. Another program holds a port of Codex only while all are
\* Codex's, the second one only beside one sign-in; Grok's only beside one of Grok.
Narrow ==
    /\ \A k, l \in Logins : k # l => Paired(k, l)
    /\ (\E p \in CodexPorts : ports[p] = Other) => Kinds(Logins) \subseteq {"none", "codex"}
    /\ ports["third"] = Other => Kinds(Logins) \in {{"none"}, {"none", "xai"}, {"none", "grok"}}
    /\ ports["second"] = Other => "none" \in Kinds(Logins)

MCSpec ==
    /\ LoginInit /\ [][LoginNext /\ Narrow']_loginVars
    /\ \A l \in Logins : /\ WF_loginVars(StartStep(l) \/ WorkerStep(l))
                         /\ WF_loginVars(DialogStep(l)) /\ WF_loginVars(Expire(l))
=============================================================================
