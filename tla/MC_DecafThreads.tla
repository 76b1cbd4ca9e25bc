--------------------------- MODULE MC_DecafThreads ---------------------------
(***************************************************************************)
(* One TLC run for two independent decaf components that have to do with  *)
(* threads: the Thread object's lifecycle (ThreadLifecycle, with the       *)
(* constants of MC_ThreadLifecycle) and the lazy default of                *)
(* SocketFactory::getDefault() raced by three threads (SocketFactory).     *)
(* part is chosen in the initial state and never changes, so the state     *)
(* space is the union of the two components' state spaces, not their      *)
(* product; each component's properties are checked on its own part.      *)
(***************************************************************************)
EXTENDS MC_ThreadLifecycle, TLC

CONSTANTS t1, t2, t3, NoThread

VARIABLES pc, lock, defaultFactory, created, shutdownTasks, isShutdown, result, part

sfVars == <<pc, lock, defaultFactory, created, shutdownTasks, isShutdown, result>>

SF == INSTANCE SocketFactory WITH Threads <- {t1, t2, t3}

\* The getDefault() callers run the same code, so their permutations are a
\* symmetry; the Thread part does not mention them.
SFPerms == Permutations({t1, t2, t3})

DecafInit ==
    /\ part \in {"Thread", "SocketFactory"}
    /\ Init /\ SF!Init

DecafNext ==
    /\ \/ part = "Thread" /\ Next /\ UNCHANGED sfVars
       \/ part = "SocketFactory" /\ SF!Next /\ UNCHANGED vars
    /\ UNCHANGED part

DecafSpec == DecafInit /\ [][DecafNext]_<<vars, sfVars, part>>

\* The runtime lock makes the lazy creation of the default factory happen
\* once (SocketFactory!SingleDefaultFactory).
SingleDefaultFactory == SF!SingleDefaultFactory

====
