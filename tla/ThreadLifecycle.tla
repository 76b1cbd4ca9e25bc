---------------------------- MODULE ThreadLifecycle ----------------------------
(***************************************************************************)
(* decaf::lang::Thread (Thread.h): one Thread object, whose run() is the   *)
(* worker, and the caller threads that start, join and interrupt it, set   *)
(* its priority and its uncaught-exception handlers, and notify the        *)
(* monitor it waits on.  Thread.cpp is not in the tree: every operation    *)
(* follows the contract of its doc comment in the header.                  *)
(*                                                                         *)
(* The interrupt contract: a thread blocked in join, sleep or a monitor    *)
(* wait has its flag cleared and gets an InterruptedException; any other  *)
(* live thread has its flag set, and an InterruptedException "may" be      *)
(* thrown later: the model lets a blocking call entered with the flag set  *)
(* either throw at once (clearing the flag) or block.  interrupted()       *)
(* returns the flag and clears it.  An interrupt of a thread that is not   *)
(* alive has no effect.                                                    *)
(*                                                                         *)
(* pending and spurious are history: pending[th] is an interrupt() of th   *)
(* not yet observed by th, spurious records an observation that answers    *)
(* none.                                                                   *)
(***************************************************************************)
EXTENDS Integers

CONSTANTS
    Worker,        \* the Thread object whose run() is modelled
    Callers,       \* the threads that call its methods
    Handler,       \* an UncaughtExceptionHandler
    NULL,          \* the NULL handler pointer
    JoinArgs,      \* arguments of join: <<>> for join(), <<ms, nanos>> otherwise
    PriorityArgs,  \* values given to setPriority
    MaxSteps       \* bound on the blocking and polling steps of run()

Threads == {Worker} \cup Callers

MIN_PRIORITY == 1
NORM_PRIORITY == 5
MAX_PRIORITY == 10

VARIABLES
    state,           \* getState() of the worker
    intr,            \* per thread: its interrupted flag
    tExc,            \* the worker's run() has an InterruptedException in flight
    steps,           \* blocking and polling steps run() has taken
    cpc,             \* per caller: idle, joining or timedJoining
    out,             \* per caller: the outcome of its last call
    priority,        \* getPriority() of the worker
    handler,         \* the worker's own uncaught-exception handler
    defaultHandler,  \* the default handler of all threads
    invoked,         \* the handler run() ended in, NULL if none, "none" before
    pending,         \* history: per thread, an interrupt() not yet observed
    spurious         \* history: an interruption observed with none pending

vars == <<state, intr, tExc, steps, cpc, out, priority, handler, defaultHandler,
          invoked, pending, spurious>>

Blocked == {"SLEEPING", "WAITING", "TIMED_WAITING"}

\* isAlive(): started and not yet dead.
IsAliveState(s) == s \notin {"NEW", "TERMINATED"}

Init ==
    /\ state = "NEW"
    /\ intr = [th \in Threads |-> FALSE]
    /\ tExc = FALSE /\ steps = 0
    /\ cpc = [c \in Callers |-> "idle"]
    /\ out = [c \in Callers |-> "none"]
    /\ priority = NORM_PRIORITY
    /\ handler = NULL /\ defaultHandler = NULL
    /\ invoked = "none"
    /\ pending = [th \in Threads |-> FALSE]
    /\ spurious = FALSE

\* Thread th observes an interruption: it answers every interrupt pending.
Observe(th) ==
    /\ spurious' = (spurious \/ ~pending[th])
    /\ pending' = [pending EXCEPT ![th] = FALSE]

Return(c, r) == out' = [out EXCEPT ![c] = r]

\* The arguments of a join call pass its checks: ms not negative, nanos in
\* 0..999999.
ValidJoinArgs(a) == IF a = <<>> THEN TRUE ELSE a[1] >= 0 /\ a[2] \in 0 .. 999999

-----------------------------------------------------------------------------
(* Calls of the caller threads                                             *)

\* start(): out of NEW; IllegalThreadStateException if already started.
Start(c) ==
    /\ cpc[c] = "idle"
    /\ IF state = "NEW"
       THEN state' = "RUNNABLE" /\ Return(c, "ok")
       ELSE Return(c, "IllegalThreadStateException") /\ UNCHANGED state
    /\ UNCHANGED <<intr, tExc, steps, cpc, priority, handler, defaultHandler, invoked,
                   pending, spurious>>

\* join(), join(ms), join(ms, nanos): IllegalArgumentException for a
\* negative ms or nanos outside 0..999999; with the caller's flag set an
\* InterruptedException that clears it, or else the call goes on.  It
\* returns at once when the thread is not alive, and otherwise blocks.
JoinCall(c, a) ==
    /\ cpc[c] = "idle"
    /\ \/ /\ ~ValidJoinArgs(a)
          /\ Return(c, "IllegalArgumentException")
          /\ UNCHANGED <<cpc, intr, pending, spurious>>
       \/ /\ ValidJoinArgs(a) /\ intr[c]
          /\ Return(c, "InterruptedException")
          /\ intr' = [intr EXCEPT ![c] = FALSE] /\ Observe(c)
          /\ UNCHANGED cpc
       \/ /\ ValidJoinArgs(a) /\ ~IsAliveState(state)
          /\ Return(c, "ok")
          /\ UNCHANGED <<cpc, intr, pending, spurious>>
       \/ /\ ValidJoinArgs(a) /\ IsAliveState(state)
          /\ cpc' = [cpc EXCEPT ![c] = IF a = <<>> THEN "joining" ELSE "timedJoining"]
          /\ UNCHANGED <<out, intr, pending, spurious>>
    /\ UNCHANGED <<state, tExc, steps, priority, handler, defaultHandler, invoked>>

\* A blocked join returns once the thread has died.
JoinReturn(c) ==
    /\ cpc[c] \in {"joining", "timedJoining"} /\ ~IsAliveState(state)
    /\ cpc' = [cpc EXCEPT ![c] = "idle"] /\ Return(c, "ok")
    /\ UNCHANGED <<state, intr, tExc, steps, priority, handler, defaultHandler, invoked,
                   pending, spurious>>

\* A timed join returns when its time is up, the thread alive or not.
JoinTimeout(c) ==
    /\ cpc[c] = "timedJoining"
    /\ cpc' = [cpc EXCEPT ![c] = "idle"] /\ Return(c, "ok")
    /\ UNCHANGED <<state, intr, tExc, steps, priority, handler, defaultHandler, invoked,
                   pending, spurious>>

\* Fault-injection variant of WokenFlag: the flag of a thread woken by an
\* interrupt is left set.
WokenFlagKept == TRUE

\* The flag of a thread that interrupt() wakes from join, sleep or wait:
\* cleared.
WokenFlag == FALSE

\* interrupt() of thread th by caller c: no effect on a thread not alive;
\* a thread blocked in join, sleep or wait has its flag cleared and gets an
\* InterruptedException; any other has its flag set.
Interrupt(c, th) ==
    /\ cpc[c] = "idle" /\ th # c
    /\ IF th = Worker
       THEN /\ CASE ~IsAliveState(state) ->
                       UNCHANGED <<state, tExc, intr, pending>>
                 [] state \in Blocked ->
                       /\ state' = "RUNNABLE" /\ tExc' = TRUE
                       /\ intr' = [intr EXCEPT ![Worker] = WokenFlag]
                       /\ pending' = [pending EXCEPT ![Worker] = FALSE]
                 [] OTHER ->
                       /\ intr' = [intr EXCEPT ![Worker] = TRUE]
                       /\ pending' = [pending EXCEPT ![Worker] = TRUE]
                       /\ UNCHANGED <<state, tExc>>
            /\ Return(c, "ok") /\ UNCHANGED cpc
       ELSE IF cpc[th] # "idle"
            THEN /\ cpc' = [cpc EXCEPT ![th] = "idle"]
                 /\ out' = [out EXCEPT ![c] = "ok", ![th] = "InterruptedException"]
                 /\ intr' = [intr EXCEPT ![th] = WokenFlag]
                 /\ pending' = [pending EXCEPT ![th] = FALSE]
                 /\ UNCHANGED <<state, tExc>>
            ELSE /\ intr' = [intr EXCEPT ![th] = TRUE]
                 /\ pending' = [pending EXCEPT ![th] = TRUE]
                 /\ Return(c, "ok")
                 /\ UNCHANGED <<state, tExc, cpc>>
    /\ UNCHANGED <<steps, priority, handler, defaultHandler, invoked, spurious>>

\* Fault-injection variant of SetPriority: the upper bound check is off by
\* one.
SetPriorityOffByOne(c, v) ==
    /\ cpc[c] = "idle"
    /\ IF v \in MIN_PRIORITY .. MAX_PRIORITY + 1
       THEN priority' = v /\ Return(c, "ok")
       ELSE Return(c, "IllegalArgumentException") /\ UNCHANGED priority
    /\ UNCHANGED <<state, intr, tExc, steps, cpc, handler, defaultHandler, invoked,
                   pending, spurious>>

\* setPriority(value): IllegalArgumentException outside
\* MIN_PRIORITY..MAX_PRIORITY.
SetPriority(c, v) ==
    /\ cpc[c] = "idle"
    /\ IF v \in MIN_PRIORITY .. MAX_PRIORITY
       THEN priority' = v /\ Return(c, "ok")
       ELSE Return(c, "IllegalArgumentException") /\ UNCHANGED priority
    /\ UNCHANGED <<state, intr, tExc, steps, cpc, handler, defaultHandler, invoked,
                   pending, spurious>>

\* setUncaughtExceptionHandler(h) and the static
\* setDefaultUncaughtExceptionHandler(h); NULL clears.
SetHandler(c, h) ==
    /\ cpc[c] = "idle"
    /\ handler' = h /\ Return(c, "ok")
    /\ UNCHANGED <<state, intr, tExc, steps, cpc, priority, defaultHandler, invoked,
                   pending, spurious>>
SetDefaultHandler(c, h) ==
    /\ cpc[c] = "idle"
    /\ defaultHandler' = h /\ Return(c, "ok")
    /\ UNCHANGED <<state, intr, tExc, steps, cpc, priority, handler, invoked,
                   pending, spurious>>

\* The caller notifies the monitor the worker waits on.
Notify(c) ==
    /\ cpc[c] = "idle"
    /\ state \in {"WAITING", "TIMED_WAITING"}
    /\ state' = "RUNNABLE" /\ Return(c, "ok")
    /\ UNCHANGED <<intr, tExc, steps, cpc, priority, handler, defaultHandler, invoked,
                   pending, spurious>>

-----------------------------------------------------------------------------
(* The worker's run()                                                      *)

\* A blocking call of run(): sleep(ms), a monitor wait or a timed wait.
\* With the flag set it may throw at once, clearing the flag.
Block(to) ==
    /\ state = "RUNNABLE" /\ ~tExc /\ steps < MaxSteps
    /\ steps' = steps + 1
    /\ \/ /\ intr[Worker]
          /\ tExc' = TRUE /\ intr' = [intr EXCEPT ![Worker] = FALSE] /\ Observe(Worker)
          /\ UNCHANGED state
       \/ state' = to /\ UNCHANGED <<tExc, intr, pending, spurious>>
    /\ UNCHANGED <<cpc, out, priority, handler, defaultHandler, invoked>>

\* The sleep or the timed wait is over.
TimeUp ==
    /\ state \in {"SLEEPING", "TIMED_WAITING"}
    /\ state' = "RUNNABLE"
    /\ UNCHANGED <<intr, tExc, steps, cpc, out, priority, handler, defaultHandler,
                   invoked, pending, spurious>>

\* Thread::interrupted(): returns the flag and clears it.
Interrupted ==
    /\ state = "RUNNABLE" /\ ~tExc /\ steps < MaxSteps
    /\ steps' = steps + 1
    /\ intr' = [intr EXCEPT ![Worker] = FALSE]
    /\ IF intr[Worker] THEN Observe(Worker) ELSE UNCHANGED <<pending, spurious>>
    /\ UNCHANGED <<state, tExc, cpc, out, priority, handler, defaultHandler, invoked>>

\* run() catches the InterruptedException and goes on.
Catch ==
    /\ state = "RUNNABLE" /\ tExc
    /\ tExc' = FALSE
    /\ UNCHANGED <<state, intr, steps, cpc, out, priority, handler, defaultHandler,
                   invoked, pending, spurious>>

\* The handler a death by an uncaught exception invokes: the thread's own,
\* else the default one, else none (NULL).
HandlerFor == IF handler # NULL THEN handler ELSE defaultHandler

\* run() returns, or ends by an uncaught exception (the InterruptedException
\* in flight, or any other): the handler is invoked and the thread dies.
Exit(thrown) ==
    /\ state = "RUNNABLE"
    /\ thrown \/ ~tExc
    /\ state' = "TERMINATED" /\ tExc' = FALSE
    /\ invoked' = IF thrown THEN HandlerFor ELSE NULL
    /\ UNCHANGED <<intr, steps, cpc, out, priority, handler, defaultHandler, pending, spurious>>

Worker_ ==
    \/ \E to \in Blocked : Block(to)
    \/ TimeUp \/ Interrupted \/ Catch
    \/ \E thrown \in BOOLEAN : Exit(thrown)

Next ==
    \/ Worker_
    \/ \E c \in Callers :
          \/ Start(c) \/ Notify(c) \/ JoinReturn(c) \/ JoinTimeout(c)
          \/ \E a \in JoinArgs : JoinCall(c, a)
          \/ \E th \in Threads : Interrupt(c, th)
          \/ \E v \in PriorityArgs : SetPriority(c, v)
          \/ \E h \in {Handler, NULL} : SetHandler(c, h) \/ SetDefaultHandler(c, h)

Spec == Init /\ [][Next]_vars

-----------------------------------------------------------------------------
(* Properties                                                              *)

TypeOK ==
    /\ state \in {"NEW", "RUNNABLE", "TERMINATED"} \cup Blocked
    /\ intr \in [Threads -> BOOLEAN] /\ tExc \in BOOLEAN
    /\ steps \in 0 .. MaxSteps
    /\ cpc \in [Callers -> {"idle", "joining", "timedJoining"}]
    /\ priority \in MIN_PRIORITY .. MAX_PRIORITY
    /\ invoked \in {"none", Handler, NULL}

\* Every interruption a thread observes (an InterruptedException out of
\* join, sleep or wait, or interrupted() returning true) answers an
\* interrupt() of it that no earlier observation answered: interrupt()
\* clearing the flag of the thread it wakes is what makes this hold.
NoSpuriousInterrupt == ~spurious

====
