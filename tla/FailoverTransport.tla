--------------------------- MODULE FailoverTransport ---------------------------
(***************************************************************************)
(* The failover transport (FailoverTransport.h, spec 4.5, 5, 7): one       *)
(* logical transport over a physical transport that is replaced whenever   *)
(* it fails.  The reconnect task (iterate(), run by the task runner while  *)
(* isPending()) takes candidates from the URI pool, connects, replays the  *)
(* connection state tracker onto the new transport and only then declares  *)
(* the transport CONNECTED.  Client threads call oneway(): forwarded when  *)
(* CONNECTED, otherwise blocked until connected, closed, failed for good   *)
(* or timed out.                                                           *)
(*                                                                         *)
(* The environment is the set of brokers (MockBrokerService in the tests): *)
(* each is up or down, and the connection this client has with it holds   *)
(* the resources created on it.  A broker rejects a create whose parent it *)
(* does not have or that it already has (a restore failure, spec 7).       *)
(***************************************************************************)
EXTENDS Naturals, Sequences, SequencesExt, FiniteSets

CONSTANTS
    URIList,                      \* the failover:(...) URIs, in configured order
    Clients,                      \* client threads calling oneway()
    Resources, Parent, NoParent,  \* connection-scoped resources (see tracker)
    MaxReconnectAttempts,         \* maxReconnectAttempts option
    StartupMaxReconnectAttempts,  \* startupMaxReconnectAttempts option
    Timeout,                      \* TRUE when a "timeout" option is configured
    InitiallyUp,                  \* the brokers running when the test starts
    MaxFailures,                  \* bound: broker stops and connection drops
    Backup,                       \* backup option: the backup pool is enabled
    BackupPoolSize,               \* backupPoolSize option
    NoURI                         \* model value: no transport

URIs == ToSet(URIList)

ASSUME /\ Cardinality(URIs) = Len(URIList)
       /\ MaxReconnectAttempts \in Nat /\ StartupMaxReconnectAttempts \in Nat
       /\ Timeout \in BOOLEAN /\ InitiallyUp \subseteq URIs
       /\ MaxFailures \in Nat /\ NoURI \notin URIs
       /\ Backup \in BOOLEAN /\ BackupPoolSize \in Nat

VARIABLES
    state,            \* DISCONNECTED, CONNECTING, CONNECTED, INTERRUPTED, CLOSED, FAILED
    uris,             \* the URI pool
    connectedURI,     \* URI of the active transport, NoURI if none
    attempting,       \* URI iterate() is connecting to and restoring, NoURI if none
    toReplay,         \* tracked resources doRestore() has still to replay
    connectFailures,  \* consecutive failed connection attempts
    firstConnection,  \* no connection has succeeded yet
    attempts,         \* history: connection attempts since the last success
    tracked,          \* the connection state tracker
    up,               \* which brokers are running
    brokerRes,        \* per broker: resources created on this client's connection
    rejected,         \* history: a broker has rejected a command
    failures,         \* broker stops and connection drops so far
    stale,            \* per broker: still holds a dropped connection of this client
    status,           \* per client: "idle" or "waiting" inside oneway()
    pending,          \* per client: the command it is blocked on
    backups,          \* URIs of the connected backups ready in the backup pool
    backupFailed      \* URIs of backups whose failure callback is still to run

vars == <<state, uris, connectedURI, attempting, toReplay, connectFailures,
          firstConnection, attempts, tracked, up, brokerRes, rejected, failures,
          stale, status, pending, backups, backupFailed>>

backupVars == <<backups, backupFailed>>

UP == INSTANCE URIPool WITH pool <- uris, Randomize <- FALSE
CST == INSTANCE ConnectionStateTracker

NoCmd == [op |-> "none", res |-> NoParent]

States == {"DISCONNECTED", "CONNECTING", "CONNECTED", "INTERRUPTED", "CLOSED", "FAILED"}

-----------------------------------------------------------------------------
(* Helpers                                                                 *)

\* The attempt limit in force: startupMaxReconnectAttempts until the first
\* connection succeeds, maxReconnectAttempts afterwards.
ReconnectLimit ==
    IF firstConnection THEN StartupMaxReconnectAttempts ELSE MaxReconnectAttempts

\* Fault-injection variant of IsPending: the task is not re-armed after an
\* interruption, only on start().
IsPendingOnStartOnly == state = "CONNECTING"

\* isPending(): the reconnect task has work while the transport is started,
\* not connected, not closed and not failed for good.
IsPending == state \in {"CONNECTING", "INTERRUPTED"}

\* Whether broker connection b accepts the command creating or removing r.
Accepts(b, op, r) ==
    IF op = "add" THEN r \notin b /\ (Parent[r] = NoParent \/ Parent[r] \in b)
                  ELSE r \in b

\* Broker connection b after it applied such a command.
Applied(b, op, r) == IF op = "add" THEN b \cup {r} ELSE b \ {r}

\* Fault-injection variant of CountFailure: fatal as soon as the count
\* reaches the limit (one attempt too few).
CountFailureAtLimit ==
    /\ connectFailures' = connectFailures + 1
    /\ state' = IF connectFailures + 1 >= ReconnectLimit THEN "FAILED" ELSE state

\* Fault-injection variant of CountFailure: the limit is never enforced.
CountFailureNeverFatal ==
    /\ connectFailures' = connectFailures + 1
    /\ UNCHANGED state

\* A failed attempt counts against the limit; exceeding it is fatal and no
\* further attempt is made.
CountFailure ==
    /\ connectFailures' = connectFailures + 1
    /\ state' = IF connectFailures + 1 > ReconnectLimit THEN "FAILED" ELSE state

\* The attempt on transport `attempting` is abandoned: the transport is
\* discarded (the broker drops what was replayed on it) and its URI goes back
\* to the pool.
DiscardAttempt ==
    /\ brokerRes' = [brokerRes EXCEPT ![attempting] = {}]
    /\ UP!AddURI(attempting)
    /\ attempting' = NoURI
    /\ toReplay' = {}
    /\ CountFailure

-----------------------------------------------------------------------------
(* The failover transport                                                  *)

Init ==
    /\ state = "DISCONNECTED"
    /\ uris = URIList
    /\ connectedURI = NoURI
    /\ attempting = NoURI
    /\ toReplay = {}
    /\ connectFailures = 0
    /\ firstConnection = TRUE
    /\ attempts = 0
    /\ tracked = {}
    /\ up = [u \in URIs |-> u \in InitiallyUp]
    /\ brokerRes = [u \in URIs |-> {}]
    /\ rejected = FALSE
    /\ failures = 0
    /\ stale = [u \in URIs |-> FALSE]
    /\ status = [c \in Clients |-> "idle"]
    /\ pending = [c \in Clients |-> NoCmd]
    /\ backups = {}
    /\ backupFailed = {}

\* start(): the reconnect task is registered and woken.
Start ==
    /\ state = "DISCONNECTED"
    /\ state' = "CONNECTING"
    /\ UNCHANGED <<uris, connectedURI, attempting, toReplay, connectFailures,
                   firstConnection, attempts, tracked, up, brokerRes, rejected,
                   failures, stale, status, pending>>
    /\ UNCHANGED backupVars

\* iterate(): with no ready backup, take the next candidate from the pool,
\* create and start a transport to it; doRestore() starts from the
\* tracker's current records.
ConnectAttempt ==
    /\ IsPending
    /\ attempting = NoURI
    /\ backups = {}
    /\ \E u \in UP!Candidates(uris) :
          /\ UP!GetURI(u)
          /\ attempting' = u
    /\ toReplay' = CST!RestoreSnapshot
    /\ attempts' = attempts + 1
    /\ UNCHANGED <<state, connectedURI, connectFailures, firstConnection,
                   tracked, up, brokerRes, rejected, failures, stale, status, pending>>
    /\ UNCHANGED backupVars

\* iterate() prefers a backup: getBackup() pops a ready, already connected
\* transport, which then goes through the same doRestore().
ConnectFromBackup ==
    /\ IsPending
    /\ attempting = NoURI
    /\ \E b \in backups :
          /\ backups' = backups \ {b}
          /\ attempting' = b
    /\ toReplay' = CST!RestoreSnapshot
    /\ attempts' = attempts + 1
    /\ UNCHANGED <<state, uris, connectedURI, connectFailures, firstConnection,
                   tracked, up, brokerRes, rejected, failures, stale, status, pending,
                   backupFailed>>

\* doRestore(): replay one tracked info command on the new transport.  A
\* broker that rejects it fails the attempt: a broker still holding the
\* dropped connection refuses the ConnectionInfo (client id in use), and any
\* broker refuses a command out of creation order.
RestoreStep ==
    /\ IsPending
    /\ attempting # NoURI
    /\ up[attempting]
    /\ \E r \in CST!NextToReplay(toReplay) :
          LET inOrder == Accepts(brokerRes[attempting], "add", r)
          IN IF inOrder /\ ~(stale[attempting] /\ Parent[r] = NoParent)
             THEN /\ brokerRes' = [brokerRes EXCEPT ![attempting] = @ \cup {r}]
                  /\ toReplay' = toReplay \ {r}
                  /\ UNCHANGED <<state, uris, attempting, connectFailures, rejected>>
             ELSE /\ rejected' = (rejected \/ ~inOrder)
                  /\ DiscardAttempt
    /\ UNCHANGED <<connectedURI, firstConnection, attempts, tracked, up,
                   failures, stale, status, pending>>
    /\ UNCHANGED backupVars

\* The broker is not there (failOnCreate, a stopped broker) or went away
\* during the restore: the attempt fails and the URI is returned.
AttemptFailed ==
    /\ IsPending
    /\ attempting # NoURI
    /\ ~up[attempting]
    /\ DiscardAttempt
    /\ UNCHANGED <<connectedURI, firstConnection, attempts, tracked, up,
                   rejected, failures, stale, status, pending>>
    /\ UNCHANGED backupVars

\* Fault-injection variant of RestoreComplete: the transport is declared
\* connected before the replay has finished.
RestoreCompleteEarly ==
    /\ IsPending
    /\ attempting # NoURI
    /\ up[attempting]
    /\ state' = "CONNECTED"
    /\ connectedURI' = attempting
    /\ attempting' = NoURI
    /\ connectFailures' = 0
    /\ firstConnection' = FALSE
    /\ attempts' = 0
    /\ UNCHANGED <<uris, toReplay, tracked, up, brokerRes, rejected, failures,
                   stale, status, pending>>
    /\ UNCHANGED backupVars

\* The restore is complete: the new transport becomes the active one, the
\* counters are reset and blocked callers may proceed; iterate() returns false.
RestoreComplete ==
    /\ IsPending
    /\ attempting # NoURI
    /\ up[attempting]
    /\ toReplay = {}
    /\ state' = "CONNECTED"
    /\ connectedURI' = attempting
    /\ attempting' = NoURI
    /\ connectFailures' = 0
    /\ firstConnection' = FALSE
    /\ attempts' = 0
    /\ UNCHANGED <<uris, toReplay, tracked, up, brokerRes, rejected, failures,
                   stale, status, pending>>
    /\ UNCHANGED backupVars

\* handleTransportFailure(): the active transport failed; it is dropped, its
\* URI goes back to the pool and the reconnect task is re-armed.
HandleTransportFailure ==
    /\ state = "CONNECTED"
    /\ state' = "INTERRUPTED"
    /\ brokerRes' = [brokerRes EXCEPT ![connectedURI] = {}]
    /\ UP!AddURI(connectedURI)
    /\ connectedURI' = NoURI

\* close(): from any state; the active and in-progress transports are closed
\* and every blocked caller is woken with a closed error.
Close ==
    /\ state # "CLOSED"
    /\ state' = "CLOSED"
    /\ brokerRes' = [u \in URIs |-> IF u \in {connectedURI, attempting} THEN {} ELSE brokerRes[u]]
    /\ connectedURI' = NoURI
    /\ attempting' = NoURI
    /\ toReplay' = {}
    /\ backups' = {}
    /\ UNCHANGED <<uris, connectFailures, firstConnection, attempts, tracked, up,
                   rejected, failures, stale, status, pending, backupFailed>>

-----------------------------------------------------------------------------
(* The backup transport pool, a second task on the same task runner        *)

\* isPending(): enabled, the transport open, and fewer connected backups
\* than backupPoolSize.
BackupPending ==
    /\ Backup
    /\ state \notin {"DISCONNECTED", "CLOSED", "FAILED"}
    /\ Cardinality(backups) < BackupPoolSize

\* iterate(): take the next candidate from the URI pool and connect a
\* backup to it; it joins the ready list with its failure listener attached.
BackupCreated ==
    /\ BackupPending
    /\ \E u \in UP!Candidates(uris) :
          /\ up[u]
          /\ UP!GetURI(u)
          /\ backups' = backups \cup {u}
    /\ UNCHANGED <<state, connectedURI, attempting, toReplay, connectFailures,
                   firstConnection, attempts, tracked, up, brokerRes, rejected,
                   failures, stale, status, pending, backupFailed>>

\* Fault-injection variant of BackupCreateFailed: the URI of the failed
\* connection is not handed back to the pool.
BackupCreateFailedKeepsURI ==
    /\ BackupPending
    /\ \E u \in UP!Candidates(uris) :
          /\ ~up[u]
          /\ uris' = UP!Taken(uris, u)
    /\ UNCHANGED <<state, connectedURI, attempting, toReplay, connectFailures,
                   firstConnection, attempts, tracked, up, brokerRes, rejected,
                   failures, stale, status, pending, backups, backupFailed>>

\* iterate(): the backup connection fails and the URI goes back to the pool,
\* to be tried again on a later cycle.
BackupCreateFailed ==
    /\ BackupPending
    /\ \E u \in UP!Candidates(uris) :
          /\ ~up[u]
          /\ uris' = UP!Returned(UP!Taken(uris, u), u)
    /\ UNCHANGED <<state, connectedURI, attempting, toReplay, connectFailures,
                   firstConnection, attempts, tracked, up, brokerRes, rejected,
                   failures, stale, status, pending, backups, backupFailed>>

\* onBackupTransportFailure(): the failure callback of a backup transport
\* runs after the failure itself.  It removes the backup from the ready
\* list (nothing to remove when getBackup() or close() took it first) and
\* returns its URI to the pool in either case (BackupTransportPool.h:147-149).
BackupTransportFailed(u) ==
    /\ u \in backupFailed
    /\ backupFailed' = backupFailed \ {u}
    /\ backups' = backups \ {u}
    /\ UP!AddURI(u)
    /\ UNCHANGED <<state, connectedURI, attempting, toReplay, connectFailures,
                   firstConnection, attempts, tracked, up, brokerRes, rejected,
                   failures, stale, status, pending>>

-----------------------------------------------------------------------------
(* Client threads                                                          *)

\* The commands the session layer may issue: it creates a resource only
\* under a live parent and disposes of children before their parent, and no
\* two threads work on the same resource (FailoverTransportTest disposeOf).
Issuable(c, cmd) ==
    LET busy == {pending[d].res : d \in Clients \ {c}}
    IN \/ cmd.op = "message"
       \/ /\ cmd.op = "add"
          /\ cmd.res \notin tracked \cup busy
          /\ Parent[cmd.res] \in (tracked \ busy) \cup {NoParent}
       \/ /\ cmd.op = "remove"
          /\ cmd.res \in tracked \ busy
          /\ CST!Children(cmd.res) \cap (tracked \cup busy) = {}

\* Forward cmd on the active transport: track() it, then the broker applies it.
Send(cmd) ==
    /\ CST!Track(cmd)
    /\ IF cmd.op = "message"
       THEN UNCHANGED <<brokerRes, rejected>>
       ELSE /\ brokerRes' = [brokerRes EXCEPT ![connectedURI] = Applied(@, cmd.op, cmd.res)]
            /\ rejected' = (rejected \/ ~Accepts(brokerRes[connectedURI], cmd.op, cmd.res))

\* oneway(cmd): forwarded at once when CONNECTED, fails at once after close()
\* or a fatal failure, otherwise the caller blocks.
Oneway(c) ==
    /\ status[c] = "idle"
    /\ \E cmd \in CST!Commands :
          /\ Issuable(c, cmd)
          /\ CASE state = "CONNECTED" ->
                    Send(cmd) /\ UNCHANGED <<status, pending>>
               [] state \in {"CLOSED", "FAILED"} ->
                    UNCHANGED <<tracked, brokerRes, rejected, status, pending>>
               [] OTHER ->
                    /\ status' = [status EXCEPT ![c] = "waiting"]
                    /\ pending' = [pending EXCEPT ![c] = cmd]
                    /\ UNCHANGED <<tracked, brokerRes, rejected>>
    /\ UNCHANGED <<state, uris, connectedURI, attempting, toReplay, connectFailures,
                   firstConnection, attempts, up, failures, stale>>
    /\ UNCHANGED backupVars

\* A blocked caller woken by the state change: it sends its command once
\* CONNECTED and fails once closed or failed for good.
Wake(c) ==
    /\ status[c] = "waiting"
    /\ state \in {"CONNECTED", "CLOSED", "FAILED"}
    /\ IF state = "CONNECTED" THEN Send(pending[c])
                              ELSE UNCHANGED <<tracked, brokerRes, rejected>>
    /\ status' = [status EXCEPT ![c] = "idle"]
    /\ pending' = [pending EXCEPT ![c] = NoCmd]
    /\ UNCHANGED <<state, uris, connectedURI, attempting, toReplay, connectFailures,
                   firstConnection, attempts, up, failures, stale>>
    /\ UNCHANGED backupVars

\* The configured timeout of a blocked caller elapses.
TimeoutExpires(c) ==
    /\ Timeout
    /\ status[c] = "waiting"
    /\ status' = [status EXCEPT ![c] = "idle"]
    /\ pending' = [pending EXCEPT ![c] = NoCmd]
    /\ UNCHANGED <<state, uris, connectedURI, attempting, toReplay, connectFailures,
                   firstConnection, attempts, tracked, up, brokerRes, rejected, failures, stale>>
    /\ UNCHANGED backupVars

-----------------------------------------------------------------------------
(* Brokers                                                                 *)

\* A broker is stopped; the client's connection to it, if active, fails,
\* and a backup connected to it reports its failure.
\* A restarted broker has forgotten every connection.
BrokerStop(u) ==
    /\ up[u]
    /\ failures < MaxFailures
    /\ up' = [up EXCEPT ![u] = FALSE]
    /\ failures' = failures + 1
    /\ stale' = [stale EXCEPT ![u] = FALSE]
    /\ IF connectedURI = u
       THEN HandleTransportFailure
       ELSE UNCHANGED <<state, uris, connectedURI, brokerRes>>
    /\ backupFailed' = IF u \in backups THEN backupFailed \cup {u} ELSE backupFailed
    /\ UNCHANGED <<attempting, toReplay, connectFailures, firstConnection, attempts,
                   tracked, rejected, status, pending, backups>>

\* A stopped broker is started again.
BrokerStart(u) ==
    /\ ~up[u]
    /\ up' = [up EXCEPT ![u] = TRUE]
    /\ UNCHANGED <<state, uris, connectedURI, attempting, toReplay, connectFailures,
                   firstConnection, attempts, tracked, brokerRes, rejected, failures,
                   stale, status, pending>>
    /\ UNCHANGED backupVars

\* The active connection drops while its broker keeps running; the broker
\* may not have noticed yet and go on holding the old connection.
ConnectionDrops ==
    /\ state = "CONNECTED"
    /\ failures < MaxFailures
    /\ failures' = failures + 1
    /\ \E noticed \in BOOLEAN : stale' = [stale EXCEPT ![connectedURI] = ~noticed]
    /\ HandleTransportFailure
    /\ UNCHANGED <<attempting, toReplay, connectFailures, firstConnection, attempts,
                   tracked, up, rejected, status, pending>>
    /\ UNCHANGED backupVars

\* The broker notices the dropped connection and discards it.
BrokerExpiresConnection(u) ==
    /\ stale[u]
    /\ stale' = [stale EXCEPT ![u] = FALSE]
    /\ UNCHANGED <<state, uris, connectedURI, attempting, toReplay, connectFailures,
                   firstConnection, attempts, tracked, up, brokerRes, rejected, failures,
                   status, pending>>
    /\ UNCHANGED backupVars

-----------------------------------------------------------------------------

ReconnectTask ==
    ConnectAttempt \/ ConnectFromBackup \/ RestoreStep \/ AttemptFailed \/ RestoreComplete

BackupTask == BackupCreated \/ BackupCreateFailed

Next ==
    \/ Start \/ Close \/ ReconnectTask \/ BackupTask
    \/ \E c \in Clients : Oneway(c) \/ Wake(c) \/ TimeoutExpires(c)
    \/ \E u \in URIs : BrokerStop(u) \/ BrokerStart(u) \/ BrokerExpiresConnection(u)
    \/ \E u \in URIs : BackupTransportFailed(u)
    \/ ConnectionDrops

\* The task runner's thread runs iterate() of each task whenever it is
\* pending, a failed backup's callback eventually runs, and a woken client
\* thread eventually runs; brokers, close() and timeouts are
\* the environment and get no fairness.
Fairness ==
    /\ WF_vars(ConnectAttempt) /\ WF_vars(RestoreStep)
    /\ WF_vars(AttemptFailed) /\ WF_vars(RestoreComplete)
    /\ WF_vars(ConnectFromBackup)
    /\ WF_vars(BackupCreated) /\ WF_vars(BackupCreateFailed)
    /\ \A u \in URIs : WF_vars(BackupTransportFailed(u))
    /\ \A c \in Clients : WF_vars(Wake(c))

Spec == Init /\ [][Next]_vars /\ Fairness

-----------------------------------------------------------------------------
(* Properties                                                              *)

TypeOK ==
    /\ state \in States
    /\ uris \in Seq(URIs)
    /\ connectedURI \in URIs \cup {NoURI}
    /\ attempting \in URIs \cup {NoURI}
    /\ toReplay \subseteq Resources
    /\ connectFailures \in 0 .. ReconnectLimit + 1 /\ attempts \in Nat
    /\ firstConnection \in BOOLEAN /\ rejected \in BOOLEAN
    /\ tracked \subseteq Resources
    /\ up \in [URIs -> BOOLEAN]
    /\ brokerRes \in [URIs -> SUBSET Resources]
    /\ failures \in 0 .. MaxFailures
    /\ stale \in [URIs -> BOOLEAN]
    /\ status \in [Clients -> {"idle", "waiting"}]
    /\ pending \in [Clients -> CST!Commands \cup {NoCmd}]
    /\ backups \subseteq URIs /\ Cardinality(backups) <= BackupPoolSize
    /\ backupFailed \subseteq URIs

\* No URI is lost while the transport is open: every configured URI is in
\* the pool, the active transport, the attempt in progress or the ready
\* backups, whichever of the reconnect task, the backup task, the failure
\* callbacks of the active and of the backup transports and the
\* restore-failure path last handed it on.  A lost URI is a broker never
\* tried again.
URINeverLost ==
    state # "CLOSED" => URIs \subseteq ToSet(uris) \cup {connectedURI, attempting} \cup backups

\* No URI is lost or duplicated while the transport is open: every configured
\* URI is exactly once in the pool, the active transport, the attempt in
\* progress or the ready backups.  A duplicate lets getURI() hand out the
\* URI of a broker this client is already connected to or connecting to.
URIConservation ==
    state # "CLOSED" =>
        LET held == {u \in {connectedURI, attempting} : u # NoURI}
        IN /\ ToSet(uris) \cup held \cup backups = URIs
           /\ Len(uris) + Cardinality(held) + Cardinality(backups) = Cardinality(URIs)
           /\ connectedURI # attempting \/ connectedURI = NoURI

\* Once CONNECTED, the broker holds exactly the resources the tracker
\* records: every resource created before the failure and not removed was
\* replayed, none that was removed came back (spec 8, third property).
TrackedStateRestored ==
    state = "CONNECTED" => brokerRes[connectedURI] = tracked

\* No broker ever rejects a command: replay respects creation order and a
\* client's command never reaches a broker that misses its parent or already
\* has the resource.
BrokerNeverRejects == ~rejected

\* maxReconnectAttempts = N means one attempt and N retries: there are never
\* more than N+1 attempts without a success, and the transport fails for good
\* exactly after the (N+1)th (startupMaxReconnectAttempts before the first
\* connection).
AttemptsHonorLimit ==
    /\ attempts <= ReconnectLimit + 1
    /\ state = "FAILED" => attempts = ReconnectLimit + 1

\* A caller blocked in oneway() on a started transport is eventually released:
\* its command is sent once connected, or it fails on close or exhaustion.
WaiterReleased ==
    \A c \in Clients :
        (status[c] = "waiting" /\ state # "DISCONNECTED") ~> status[c] = "idle"

=============================================================================
