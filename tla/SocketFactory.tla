------------------------------ MODULE SocketFactory ------------------------------
(***************************************************************************)
(* decaf::net::SocketFactory::getDefault() (SocketFactory.cpp): the       *)
(* process-wide default factory is created lazily under the network        *)
(* runtime lock, registered as a runtime resource together with a shutdown *)
(* task that resets the static pointer to NULL, and returned by reading    *)
(* the static pointer after the lock is released.                          *)
(*                                                                         *)
(* Each thread runs getDefault() once; every line that touches shared      *)
(* state is its own step.  The runtime's shutdown (Network shutdown) runs  *)
(* the registered shutdown tasks and may come at any time; a call that     *)
(* starts after it fails in getNetworkRuntime().                           *)
(***************************************************************************)
EXTENDS Naturals, FiniteSets

CONSTANTS
    Threads,      \* threads calling getDefault()
    NoThread      \* model value: the lock is free

\* NULL, and the factories new DefaultSocketFactory() returns, numbered.
NULL == 0

VARIABLES
    pc,               \* per thread: where it is in getDefault()
    lock,             \* holder of the network runtime lock
    defaultFactory,   \* SocketFactory::defaultFactory
    created,          \* DefaultSocketFactory objects created so far
    shutdownTasks,    \* ShutdownTask objects registered with the runtime
    isShutdown,       \* the network runtime has shut down
    result            \* per thread: what getDefault() returned

vars == <<pc, lock, defaultFactory, created, shutdownTasks, isShutdown, result>>

Init ==
    /\ pc = [t \in Threads |-> "start"]
    /\ lock = NoThread
    /\ defaultFactory = NULL
    /\ created = 0
    /\ shutdownTasks = 0
    /\ isShutdown = FALSE
    /\ result = [t \in Threads |-> NULL]

\* Fault-injection variant of GetDefaultLock: the check and creation run
\* without the runtime lock.
GetDefaultNoLock(t) ==
    /\ pc[t] = "start"
    /\ ~isShutdown
    /\ pc' = [pc EXCEPT ![t] = "check"]
    /\ UNCHANGED <<lock, defaultFactory, created, shutdownTasks, isShutdown, result>>

\* getNetworkRuntime(), then synchronized(getRuntimeLock()).
GetDefaultLock(t) ==
    /\ pc[t] = "start"
    /\ ~isShutdown
    /\ lock = NoThread
    /\ lock' = t
    /\ pc' = [pc EXCEPT ![t] = "check"]
    /\ UNCHANGED <<defaultFactory, created, shutdownTasks, isShutdown, result>>

\* getNetworkRuntime() throws once the runtime has shut down.
GetDefaultNoRuntime(t) ==
    /\ pc[t] = "start"
    /\ isShutdown
    /\ pc' = [pc EXCEPT ![t] = "failed"]
    /\ UNCHANGED <<lock, defaultFactory, created, shutdownTasks, isShutdown, result>>

\* if (defaultFactory == NULL)
GetDefaultCheck(t) ==
    /\ pc[t] = "check"
    /\ pc' = [pc EXCEPT ![t] = IF defaultFactory = NULL THEN "create" ELSE "unlock"]
    /\ UNCHANGED <<lock, defaultFactory, created, shutdownTasks, isShutdown, result>>

\* defaultFactory = new DefaultSocketFactory(), registered as a runtime
\* resource, and its ShutdownTask registered.
GetDefaultCreate(t) ==
    /\ pc[t] = "create"
    /\ created' = created + 1
    /\ defaultFactory' = created + 1
    /\ shutdownTasks' = shutdownTasks + 1
    /\ pc' = [pc EXCEPT ![t] = "unlock"]
    /\ UNCHANGED <<lock, isShutdown, result>>

\* The end of the synchronized block.
GetDefaultUnlock(t) ==
    /\ pc[t] = "unlock"
    /\ lock' = IF lock = t THEN NoThread ELSE lock
    /\ pc' = [pc EXCEPT ![t] = "return"]
    /\ UNCHANGED <<defaultFactory, created, shutdownTasks, isShutdown, result>>

\* return defaultFactory: read outside the lock.
GetDefaultReturn(t) ==
    /\ pc[t] = "return"
    /\ result' = [result EXCEPT ![t] = defaultFactory]
    /\ pc' = [pc EXCEPT ![t] = "done"]
    /\ UNCHANGED <<lock, defaultFactory, created, shutdownTasks, isShutdown>>

\* The network runtime shuts down: its shutdown tasks run (ShutdownTask::run
\* sets *defaultRef = NULL) and its resources are destroyed.  Network.cpp is
\* not in the tree; the shutdown is given the runtime lock, the reading
\* most favourable to getDefault(): it cannot run inside the synchronized
\* block.
RuntimeShutdown ==
    /\ ~isShutdown
    /\ lock = NoThread
    /\ isShutdown' = TRUE
    /\ defaultFactory' = IF shutdownTasks > 0 THEN NULL ELSE defaultFactory
    /\ UNCHANGED <<pc, lock, created, shutdownTasks, result>>

Next ==
    \/ \E t \in Threads :
          \/ GetDefaultLock(t) \/ GetDefaultNoRuntime(t) \/ GetDefaultCheck(t)
          \/ GetDefaultCreate(t) \/ GetDefaultUnlock(t) \/ GetDefaultReturn(t)
    \/ RuntimeShutdown

Spec == Init /\ [][Next]_vars

-----------------------------------------------------------------------------
(* Properties                                                              *)

\* The runtime lock makes the lazy creation happen once: however the calls
\* of several threads interleave, while the runtime is up at most one
\* DefaultSocketFactory is created and every caller that has returned got
\* that one.
SingleDefaultFactory ==
    ~isShutdown =>
        /\ created <= 1
        /\ \A t \in Threads : pc[t] = "done" => result[t] = created

\* getDefault() never returns NULL: the factory it has just ensured exists
\* is the one the caller gets.
GetDefaultNeverNull ==
    \A t \in Threads : pc[t] = "done" => result[t] # NULL

=============================================================================
