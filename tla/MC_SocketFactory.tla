--------------------------- MODULE MC_SocketFactory ---------------------------
(* Three threads race in getDefault() against the runtime's shutdown.       *)
EXTENDS SocketFactory, TLC

CONSTANTS t1, t2, t3

MC_Threads == {t1, t2, t3}

\* The threads run the same code, so their permutations are a symmetry.
Perms == Permutations(MC_Threads)
=============================================================================
