--------------------------- MODULE MCReentrantLock ---------------------------
(* Two threads of the app and one of the CLI, nested up to three deep. *)
EXTENDS ReentrantLock

CONSTANTS a1, a2, c1, app, cli

MCThreads == {a1, a2, c1}
MCProcs   == {app, cli}
MCProcOf  == [t \in MCThreads |-> IF t = c1 THEN cli ELSE app]
=============================================================================
