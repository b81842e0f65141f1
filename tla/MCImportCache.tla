----------------------------- MODULE MCImportCache -----------------------------
(* Two threads, or programs, around the cache of one repository.            *)
EXTENDS ImportCache, TLC

CONSTANTS t1, t2

TwoThreads == {t1, t2}

Symmetry == Permutations(TwoThreads)
=============================================================================
