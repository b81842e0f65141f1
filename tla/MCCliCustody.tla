---------------------------- MODULE MCCliCustody ----------------------------
(* CliCustody with two accounts of one provider: one of them with three    *)
(* faults, both with one.                                                  *)
EXTENDS CliCustody, FiniteSetsExt, TLC

CONSTANTS MaxIssued   \* bound: generations issued for all accounts together

AllOps == {"reconcile", "activate", "refresh", "delete", "login", "import"}
Symmetry == Permutations(Accounts)

Total == MapThenSumSet(LAMBDA a : issued[a], Accounts)
Both == \A a \in Accounts : issued[a] # 0

\* Bounds: generations of all accounts together; with both accounts in use one
\* fault, and a generation less beside it.
Narrow == Total <= MaxIssued /\ (Both => faults <= 1 /\ Total + faults <= MaxIssued)

MCSpec == Init /\ [][Next /\ Narrow']_vars
=============================================================================
