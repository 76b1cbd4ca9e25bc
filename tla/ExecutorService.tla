----------------------------- MODULE ExecutorService -----------------------------
(***************************************************************************)
(* decaf::util::concurrent::ExecutorService (ExecutorService.h): the       *)
(* ownership protocol of submit() and the lifecycle the interface promises *)
(* (shutdown, shutdownNow, termination).                                   *)
(*                                                                         *)
(* submit() wraps the task in a FutureTask (newTask), clones it into the   *)
(* proxy returned to the caller (the clone shares the reference-counted    *)
(* inner state), hands newTask to doSubmit() and then releases it: from    *)
(* then on the executor owns newTask and deletes it once the task has run. *)
(* If doSubmit() throws RejectedExecutionException, the rejection policy   *)
(* deletes newTask, so submit() releases it without deleting, and the      *)
(* proxy is deleted by its Pointer when the exception leaves submit().     *)
(*                                                                         *)
(* Each task is submitted by its own caller thread, one statement a step.  *)
(* The executor's implementation is not in the tree; its workers follow    *)
(* the contract of the interface: a queue of accepted tasks, run by        *)
(* Workers threads; shutdown() lets queued tasks complete, shutdownNow()   *)
(* hands the queued tasks to its caller, who owns and deletes them.        *)
(* Memory faults (use after free, double delete) are recorded in fault.    *)
(***************************************************************************)
EXTENDS Naturals, Sequences, FiniteSets

CONSTANTS
    Tasks,      \* the tasks submitted, one caller thread each
    Workers     \* the executor's worker threads

ASSUME Workers \in Nat \ {0}

VARIABLES
    pc,         \* per task: the last statement of submit() its caller completed
    taskObj,    \* per task: the newTask FutureTask object
    proxyObj,   \* per task: the proxy FutureTask returned to the caller
    refs,       \* per task: references to the shared inner state
    outcome,    \* per task: the state of the future
    queue,      \* tasks accepted and waiting for a worker
    running,    \* tasks a worker is executing
    runState,   \* the executor: RUNNING, SHUTDOWN (after shutdown()), STOP (after shutdownNow())
    drained,    \* tasks shutdownNow() returned, owned by its caller until deleted
    fault       \* the first memory fault, if any

vars == <<pc, taskObj, proxyObj, refs, outcome, queue, running, runState, drained, fault>>

ObjStates == {"none", "alive", "freed"}

Init ==
    /\ pc = [t \in Tasks |-> "idle"]
    /\ taskObj = [t \in Tasks |-> "none"]
    /\ proxyObj = [t \in Tasks |-> "none"]
    /\ refs = [t \in Tasks |-> 0]
    /\ outcome = [t \in Tasks |-> "pending"]
    /\ queue = <<>>
    /\ running = {}
    /\ runState = "RUNNING"
    /\ drained = {}
    /\ fault = "none"

\* Record a fault unless an earlier one is already recorded.
Fault(kind) == fault' = IF fault = "none" THEN kind ELSE fault

\* delete of task t's FutureTask: a second delete of the object is a fault.
DeleteTask(t) ==
    /\ taskObj' = [taskObj EXCEPT ![t] = "freed"]
    /\ IF taskObj[t] = "freed" THEN Fault("doubleFree") ELSE UNCHANGED fault

-----------------------------------------------------------------------------
(* submit(): the order of its statements                                   *)

\* Fault-injection variant of SubmitOrder: doSubmit() before the clone.
SubmitOrderSubmitFirst == <<"new", "doSubmit", "clone", "return">>

\* new FutureTask, newTask->clone(), doSubmit(newTask), release and return.
SubmitOrder == <<"new", "clone", "doSubmit", "return">>

\* The statement a caller at step s may run next.
After(s) ==
    LET i == CHOOSE k \in 1 .. Len(SubmitOrder) : SubmitOrder[k] = s IN
    IF i = 1 THEN "idle" ELSE SubmitOrder[i - 1]

\* Pointer< FutureTask<E> > newTask(new FutureTask<E>(task, ...))
SubmitNew(t) ==
    /\ pc[t] = After("new")
    /\ pc' = [pc EXCEPT ![t] = "new"]
    /\ taskObj' = [taskObj EXCEPT ![t] = "alive"]
    /\ refs' = [refs EXCEPT ![t] = @ + 1]
    /\ UNCHANGED <<proxyObj, outcome, queue, running, runState, drained, fault>>

\* Pointer< FutureTask<E> > proxy(newTask->clone()): reads newTask, which
\* the executor may already have run and deleted.
SubmitClone(t) ==
    /\ pc[t] = After("clone")
    /\ pc' = [pc EXCEPT ![t] = "clone"]
    /\ proxyObj' = [proxyObj EXCEPT ![t] = "alive"]
    /\ refs' = [refs EXCEPT ![t] = @ + 1]
    /\ IF taskObj[t] = "freed" THEN Fault("useAfterFree") ELSE UNCHANGED fault
    /\ UNCHANGED <<taskObj, outcome, queue, running, runState, drained>>

\* Fault-injection variant of SubmitAccepted: doSubmit() queues the task
\* whatever the executor's state.
SubmitAcceptedAlways(t) ==
    /\ pc[t] = After("doSubmit")
    /\ pc' = [pc EXCEPT ![t] = "doSubmit"]
    /\ queue' = Append(queue, t)
    /\ UNCHANGED <<taskObj, proxyObj, refs, outcome, running, runState, drained, fault>>

\* this->doSubmit(newTask.get()) accepted: the task is queued.
SubmitAccepted(t) ==
    /\ pc[t] = After("doSubmit")
    /\ runState = "RUNNING"
    /\ pc' = [pc EXCEPT ![t] = "doSubmit"]
    /\ queue' = Append(queue, t)
    /\ UNCHANGED <<taskObj, proxyObj, refs, outcome, running, runState, drained, fault>>

\* doSubmit() throws RejectedExecutionException once the executor is shut
\* down: the policy deletes newTask, newTask.release() keeps the Pointer from
\* deleting it again, and the proxy's Pointer deletes the proxy on the way out.
SubmitRejected(t) ==
    /\ pc[t] = After("doSubmit")
    /\ runState # "RUNNING"
    /\ pc' = [pc EXCEPT ![t] = "rejected"]
    /\ DeleteTask(t)
    /\ proxyObj' = [proxyObj EXCEPT ![t] = IF @ = "alive" THEN "freed" ELSE @]
    /\ refs' = [refs EXCEPT ![t] = @ - (IF proxyObj[t] = "alive" THEN 2 ELSE 1)]
    /\ UNCHANGED <<outcome, queue, running, runState, drained>>

\* newTask.release(); return proxy.release(): the caller owns the proxy.
SubmitReturn(t) ==
    /\ pc[t] = After("return")
    /\ pc' = [pc EXCEPT ![t] = "owned"]
    /\ UNCHANGED <<taskObj, proxyObj, refs, outcome, queue, running, runState, drained, fault>>

-----------------------------------------------------------------------------
(* The executor, after the contract of ExecutorService.h                   *)

\* Fault-injection variant of WorkerTake: workers stop taking queued tasks
\* once the executor is shut down.
WorkerTakeWhileRunning ==
    /\ queue # <<>>
    /\ Cardinality(running) < Workers
    /\ runState = "RUNNING"
    /\ running' = running \cup {Head(queue)}
    /\ queue' = Tail(queue)
    /\ UNCHANGED <<pc, taskObj, proxyObj, refs, outcome, runState, drained, fault>>

\* Fault-injection variant of WorkerTake: a task is taken although every
\* worker is busy.
WorkerTakeUnbounded ==
    /\ queue # <<>>
    /\ runState # "STOP"
    /\ running' = running \cup {Head(queue)}
    /\ queue' = Tail(queue)
    /\ UNCHANGED <<pc, taskObj, proxyObj, refs, outcome, runState, drained, fault>>

\* A worker takes the next queued task; queued tasks still run after
\* shutdown(), not after shutdownNow().
WorkerTake ==
    /\ queue # <<>>
    /\ Cardinality(running) < Workers
    /\ runState # "STOP"
    /\ running' = running \cup {Head(queue)}
    /\ queue' = Tail(queue)
    /\ UNCHANGED <<pc, taskObj, proxyObj, refs, outcome, runState, drained, fault>>

\* Fault-injection variant of WorkerComplete: the executor never deletes
\* the FutureTask it owns.
WorkerCompleteKeepsTask(t) ==
    /\ t \in running
    /\ outcome' = [outcome EXCEPT ![t] = "done"]
    /\ running' = running \ {t}
    /\ UNCHANGED <<pc, taskObj, proxyObj, refs, queue, runState, drained, fault>>

\* The task runs to completion, its future becomes done, and the executor
\* deletes the FutureTask it was given by doSubmit().
WorkerComplete(t) ==
    /\ t \in running
    /\ outcome' = [outcome EXCEPT ![t] = "done"]
    /\ running' = running \ {t}
    /\ DeleteTask(t)
    /\ refs' = [refs EXCEPT ![t] = @ - 1]
    /\ UNCHANGED <<pc, proxyObj, queue, runState, drained>>

\* shutdown(): no new tasks are accepted; calling it again has no effect.
Shutdown ==
    /\ runState = "RUNNING"
    /\ runState' = "SHUTDOWN"
    /\ UNCHANGED <<pc, taskObj, proxyObj, refs, outcome, queue, running, drained, fault>>

\* Fault-injection variant of ShutdownNow: the tasks being executed are
\* handed to the caller too.
ShutdownNowDrainsRunning ==
    /\ runState # "STOP"
    /\ runState' = "STOP"
    /\ drained' = drained \cup running \cup {queue[i] : i \in 1 .. Len(queue)}
    /\ queue' = <<>>
    /\ UNCHANGED <<pc, taskObj, proxyObj, refs, outcome, running, fault>>

\* shutdownNow(): the queued tasks are removed and returned to the caller;
\* running tasks are not stopped.
ShutdownNow ==
    /\ runState # "STOP"
    /\ runState' = "STOP"
    /\ drained' = drained \cup {queue[i] : i \in 1 .. Len(queue)}
    /\ queue' = <<>>
    /\ UNCHANGED <<pc, taskObj, proxyObj, refs, outcome, running, fault>>

\* The caller of shutdownNow() deletes a task it now owns; its future never
\* completes.
DeleteDrained(t) ==
    /\ t \in drained
    /\ drained' = drained \ {t}
    /\ DeleteTask(t)
    /\ refs' = [refs EXCEPT ![t] = @ - 1]
    /\ UNCHANGED <<pc, proxyObj, outcome, queue, running, runState>>

-----------------------------------------------------------------------------
(* The caller of submit(), owning the proxy                                *)

\* future->get() returns once the task has completed.
CallerGet(t) ==
    /\ pc[t] = "owned"
    /\ outcome[t] = "done"
    /\ pc' = [pc EXCEPT ![t] = "got"]
    /\ UNCHANGED <<taskObj, proxyObj, refs, outcome, queue, running, runState, drained, fault>>

\* delete future: legal before the task has run.
CallerDelete(t) ==
    /\ pc[t] \in {"owned", "got"}
    /\ pc' = [pc EXCEPT ![t] = "deleted"]
    /\ proxyObj' = [proxyObj EXCEPT ![t] = "freed"]
    /\ refs' = [refs EXCEPT ![t] = @ - 1]
    /\ UNCHANGED <<taskObj, outcome, queue, running, runState, drained, fault>>

Submit(t) ==
    SubmitNew(t) \/ SubmitClone(t) \/ SubmitAccepted(t) \/ SubmitRejected(t) \/ SubmitReturn(t)

Next ==
    \/ \E t \in Tasks :
          \/ Submit(t) \/ WorkerComplete(t) \/ DeleteDrained(t)
          \/ CallerGet(t) \/ CallerDelete(t)
    \/ WorkerTake \/ Shutdown \/ ShutdownNow

\* The worker threads and the callers run; the callers meet the obligation
\* the header puts on them to delete what they own.  When the application
\* shuts the executor down is its choice: no fairness.
Fairness ==
    /\ WF_vars(WorkerTake)
    /\ \A t \in Tasks :
          /\ WF_vars(Submit(t)) /\ WF_vars(WorkerComplete(t)) /\ WF_vars(DeleteDrained(t))
          /\ WF_vars(CallerDelete(t))

Spec == Init /\ [][Next]_vars /\ Fairness

-----------------------------------------------------------------------------
(* Properties                                                              *)

\* isTerminated(): shut down, nothing queued and nothing executing.
Terminated == runState # "RUNNING" /\ queue = <<>> /\ running = {}

Steps == {"idle", "owned", "got", "deleted", "rejected"} \cup {SubmitOrder[i] : i \in 1 .. Len(SubmitOrder)}

TypeOK ==
    /\ pc \in [Tasks -> Steps]
    /\ taskObj \in [Tasks -> ObjStates] /\ proxyObj \in [Tasks -> ObjStates]
    /\ refs \in [Tasks -> 0 .. 2]
    /\ outcome \in [Tasks -> {"pending", "done"}]
    /\ running \subseteq Tasks /\ Cardinality(running) <= Workers
    /\ drained \subseteq Tasks
    /\ runState \in {"RUNNING", "SHUTDOWN", "STOP"}
    /\ fault \in {"none", "useAfterFree", "doubleFree"}

\* submit() clones newTask into the proxy before doSubmit() hands it to the
\* executor, so a worker that runs and deletes the task at once cannot
\* free it under the clone.
NoUseAfterFree == fault # "useAfterFree"

\* No FutureTask is deleted twice.  Three parties delete one: the
\* rejection policy (submit() then releases its Pointer instead of
\* deleting again), the executor after running it, and the caller of
\* shutdownNow() for the queued tasks it got back; a task must never be
\* both executing and handed back, whatever shutdownNow() races with.
NoDoubleFree == fault # "doubleFree"

\* Every FutureTask's shared state is eventually freed: the executor
\* deletes the tasks it ran, the shutdownNow() caller the tasks it got back,
\* the submitter its proxy, the rejection path both.
NoLeak == \A t \in Tasks : taskObj[t] = "alive" ~> refs[t] = 0

\* shutdown() lets the previously queued tasks complete: the executor
\* then terminates.
ShutdownTerminates == runState = "SHUTDOWN" ~> Terminated

=============================================================================
