--------------------------- MODULE CompositeTaskRunner ---------------------------
(***************************************************************************)
(* The composite task runner and the thread it runs on.                    *)
(*                                                                         *)
(* The runner (its .cpp is not in the tree; spec.md section 4.1 and 5)     *)
(* owns one decaf::lang::Thread.  Its run() loop, under the runner's       *)
(* mutex, exits if shutDown is set, else consumes the pending flag and     *)
(* scans the tasks, calling iterate() on each task with pending work until *)
(* none has any, else waits on the mutex.  wakeup(), callable from any     *)
(* thread, sets the pending flag and notifies.  shutdown() sets shutDown   *)
(* and the flag, notifies, and joins the thread.                           *)
(*                                                                         *)
(* The thread follows the contract of Thread.h: start() takes it from NEW  *)
(* to RUNNABLE, a monitor wait makes it WAITING until a notification (or a *)
(* spurious wakeup), the end of run() makes it TERMINATED, and join()      *)
(* returns once it is TERMINATED.                                          *)
(*                                                                         *)
(* Client threads (the failover transport's callers and callbacks) give a  *)
(* task work and then call wakeup(), again and again: two steps, so the    *)
(* runner may scan, finish and go to sleep between them.  The main thread  *)
(* starts the runner and may later shut it down.                           *)
(***************************************************************************)
EXTENDS Naturals

CONSTANTS
    Tasks,      \* the registered composite tasks
    Clients,    \* threads that give tasks work and call wakeup()
    MaxWork     \* bound on the units of work pending per task

VARIABLES
    thState,    \* the runner thread's Thread::State
    rpc,        \* where the runner thread is in run()
    pending,    \* the runner's pending (wakeup) flag
    shutDown,   \* the runner's shutDown flag
    work,       \* per task: units of work pending (isPending() is work > 0)
    unscanned,  \* tasks the current pass of the scan has still to visit
    busy,       \* some task had pending work in the current pass
    served,     \* history: per task, a bit flipped by each iterate() that does work
    cpc,        \* per client: idle, or added (work given, wakeup() not yet called)
    mpc         \* the main thread: init, started, joining (in shutdown()), done

vars == <<thState, rpc, pending, shutDown, work, unscanned, busy, served, cpc, mpc>>

-----------------------------------------------------------------------------
(* Thread.h                                                                *)

\* Thread::State, the states this thread can be in.
ThreadStates == {"NEW", "RUNNABLE", "WAITING", "TERMINATED"}

\* isAlive(): started and not yet died.
IsAlive(s) == s \notin {"NEW", "TERMINATED"}

\* A notification wakes the thread if it is waiting on the monitor.
Notify(s) == IF s = "WAITING" THEN "RUNNABLE" ELSE s

Init ==
    /\ thState = "NEW"
    /\ rpc = "top"
    /\ pending = FALSE
    /\ shutDown = FALSE
    /\ work = [t \in Tasks |-> 0]
    /\ unscanned = {}
    /\ busy = FALSE
    /\ served = [t \in Tasks |-> FALSE]
    /\ cpc = [c \in Clients |-> "idle"]
    /\ mpc = "init"

\* thread->start(): the runner's run() begins.
Start ==
    /\ mpc = "init"
    /\ thState = "NEW"
    /\ thState' = "RUNNABLE"
    /\ mpc' = "started"
    /\ UNCHANGED <<rpc, pending, shutDown, work, cpc, unscanned, busy, served>>

\* A waiting thread may wake without a notification.
SpuriousWakeup ==
    /\ thState = "WAITING"
    /\ thState' = "RUNNABLE"
    /\ UNCHANGED <<rpc, pending, shutDown, work, cpc, mpc, unscanned, busy, served>>

\* join() in shutdown() returns once the thread is TERMINATED.
JoinReturns ==
    /\ mpc = "joining"
    /\ thState = "TERMINATED"
    /\ mpc' = "done"
    /\ UNCHANGED <<thState, rpc, pending, shutDown, work, cpc, unscanned, busy, served>>

-----------------------------------------------------------------------------
(* The runner thread's run() loop                                          *)

\* Loop head, synchronized(mutex): shutDown set, run() returns and the
\* thread dies.  Also the check after an idle pass and after a wakeup.
RunnerExit ==
    /\ rpc \in {"top", "idle"} /\ thState = "RUNNABLE"
    /\ shutDown
    /\ rpc' = "exited"
    /\ thState' = "TERMINATED"
    /\ UNCHANGED <<pending, shutDown, work, unscanned, busy, served, cpc, mpc>>

\* Loop head, synchronized(mutex): the pending flag is consumed, then a
\* pass over the registered tasks begins.
RunnerPass ==
    /\ rpc = "top" /\ thState = "RUNNABLE"
    /\ ~shutDown
    /\ pending' = FALSE
    /\ rpc' = "scan"
    /\ unscanned' = Tasks
    /\ busy' = FALSE
    /\ UNCHANGED <<thState, shutDown, work, served, cpc, mpc>>

\* The pass visits the next task: if task->isPending(), task->iterate()
\* does one unit of its work.
RunnerIterate(t) ==
    /\ rpc = "scan"
    /\ t \in unscanned
    /\ unscanned' = unscanned \ {t}
    /\ work' = [work EXCEPT ![t] = IF @ > 0 THEN @ - 1 ELSE @]
    /\ busy' = (busy \/ work[t] > 0)
    /\ served' = [served EXCEPT ![t] = IF work[t] > 0 THEN ~@ ELSE @]
    /\ UNCHANGED <<thState, rpc, pending, shutDown, cpc, mpc>>

\* The pass ends: round the loop if some task had work, else go idle.
RunnerPassEnd ==
    /\ rpc = "scan"
    /\ unscanned = {}
    /\ rpc' = IF busy THEN "top" ELSE "idle"
    /\ UNCHANGED <<thState, pending, shutDown, work, unscanned, busy, served, cpc, mpc>>

\* Idle, synchronized(mutex): a wakeup came during the pass, so no wait.
RunnerRecheck ==
    /\ rpc = "idle" /\ thState = "RUNNABLE"
    /\ ~shutDown
    /\ pending
    /\ rpc' = "top"
    /\ UNCHANGED <<thState, pending, shutDown, work, unscanned, busy, served, cpc, mpc>>

\* Fault-injection variant of RunnerWait: the runner goes to sleep without
\* looking at the pending flag.
RunnerWaitUnchecked ==
    /\ rpc = "idle" /\ thState = "RUNNABLE"
    /\ ~shutDown
    /\ rpc' = "wait"
    /\ thState' = "WAITING"
    /\ UNCHANGED <<pending, shutDown, work, unscanned, busy, served, cpc, mpc>>

\* Idle, synchronized(mutex): while (!pending && !shutDown) mutex.wait().
RunnerWait ==
    /\ rpc = "idle" /\ thState = "RUNNABLE"
    /\ ~shutDown
    /\ ~pending
    /\ rpc' = "wait"
    /\ thState' = "WAITING"
    /\ UNCHANGED <<pending, shutDown, work, unscanned, busy, served, cpc, mpc>>

\* Back from mutex.wait(): the condition of the wait loop is tested again.
RunnerWoken ==
    /\ rpc = "wait" /\ thState = "RUNNABLE"
    /\ rpc' = "idle"
    /\ UNCHANGED <<thState, pending, shutDown, work, unscanned, busy, served, cpc, mpc>>

-----------------------------------------------------------------------------
(* wakeup() and shutdown(), called from other threads                      *)

\* Fault-injection variant of AddWork: the bound on pending work is not
\* respected.
AddWorkUnbounded(c, t) ==
    /\ cpc[c] = "idle"
    /\ work' = [work EXCEPT ![t] = @ + 1]
    /\ cpc' = [cpc EXCEPT ![c] = "added"]
    /\ UNCHANGED <<thState, rpc, pending, shutDown, mpc, unscanned, busy, served>>

\* A client gives a task work (a failed transport, a command to send).
AddWork(c, t) ==
    /\ cpc[c] = "idle"
    /\ work[t] < MaxWork
    /\ work' = [work EXCEPT ![t] = @ + 1]
    /\ cpc' = [cpc EXCEPT ![c] = "added"]
    /\ UNCHANGED <<thState, rpc, pending, shutDown, mpc, unscanned, busy, served>>

\* Fault-injection variant of ClientWakeup: wakeup() notifies without
\* setting the pending flag.
ClientWakeupNotifyOnly(c) ==
    /\ cpc[c] = "added"
    /\ thState' = Notify(thState)
    /\ cpc' = [cpc EXCEPT ![c] = "idle"]
    /\ UNCHANGED <<rpc, pending, shutDown, work, mpc, unscanned, busy, served>>

\* wakeup(): synchronized(mutex) { pending = true; mutex.notifyAll(); }
ClientWakeup(c) ==
    /\ cpc[c] = "added"
    /\ pending' = TRUE
    /\ thState' = Notify(thState)
    /\ cpc' = [cpc EXCEPT ![c] = "idle"]
    /\ UNCHANGED <<rpc, shutDown, work, mpc, unscanned, busy, served>>

\* Fault-injection variant of Shutdown: the flags are set but the waiting
\* thread is not notified.
ShutdownNoNotify ==
    /\ mpc = "started"
    /\ shutDown' = TRUE
    /\ pending' = TRUE
    /\ mpc' = "joining"
    /\ UNCHANGED <<thState, rpc, work, cpc, unscanned, busy, served>>

\* shutdown(): synchronized(mutex) { shutDown = true; pending = true;
\* mutex.notifyAll(); } then thread->join().
Shutdown ==
    /\ mpc = "started"
    /\ shutDown' = TRUE
    /\ pending' = TRUE
    /\ thState' = Notify(thState)
    /\ mpc' = "joining"
    /\ UNCHANGED <<rpc, work, cpc, unscanned, busy, served>>

Runner ==
    \/ RunnerExit \/ RunnerPass \/ RunnerPassEnd \/ RunnerRecheck \/ RunnerWait \/ RunnerWoken
    \/ \E t \in Tasks : RunnerIterate(t)

Next ==
    \/ Start \/ SpuriousWakeup \/ JoinReturns \/ Runner \/ Shutdown
    \/ \E c \in Clients : ClientWakeup(c) \/ \E t \in Tasks : AddWork(c, t)

\* The runner thread runs whenever it is runnable, a client that has given
\* work goes on to call wakeup(), and a joining main thread returns once
\* the thread is dead.  Whether work arrives, when shutdown() is called and
\* whether the wait wakes spuriously are not up to the runner.
Fairness ==
    /\ WF_vars(Start)
    /\ WF_vars(Runner)
    /\ WF_vars(JoinReturns)
    /\ \A c \in Clients : WF_vars(ClientWakeup(c))

Spec == Init /\ [][Next]_vars /\ Fairness

-----------------------------------------------------------------------------
(* Properties                                                              *)

TypeOK ==
    /\ thState \in ThreadStates
    /\ rpc \in {"top", "scan", "idle", "wait", "exited"}
    /\ unscanned \subseteq Tasks /\ busy \in BOOLEAN
    /\ served \in [Tasks -> BOOLEAN]
    /\ pending \in BOOLEAN /\ shutDown \in BOOLEAN
    /\ work \in [Tasks -> 0 .. MaxWork]
    /\ cpc \in [Clients -> {"idle", "added"}]
    /\ mpc \in {"init", "started", "joining", "done"}

\* No lost wakeup: the runner thread is never asleep on the mutex while a
\* task has work that no wakeup() is still to announce.  Work given to a
\* task while the runner scans, finishes and goes to sleep is announced by
\* the client's wakeup(), which must leave the flag set or wake the thread.
NoLostWakeup ==
    (thState = "WAITING" /\ ~shutDown) =>
        \A t \in Tasks : work[t] > 0 => \E c \in Clients : cpc[c] = "added"

\* Every task with pending work eventually has iterate() called on it,
\* however busy the clients keep the other tasks, unless the runner is shut
\* down (pending task state is abandoned, not drained).  This is the
\* fairness the failover transport's reconnect steps assume.
WorkEventuallyIterated ==
    \A t \in Tasks, b \in BOOLEAN :
        (work[t] > 0 /\ served[t] = b) ~> (served[t] # b \/ shutDown)

\* shutdown() returns: the runner thread sees the flag, leaves run(), and
\* the join returns with the thread no longer alive.
ShutdownJoins == mpc = "joining" ~> (mpc = "done" /\ ~IsAlive(thState))

=============================================================================
