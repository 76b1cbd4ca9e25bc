----------------------------- MODULE ConnectionContract -----------------------------
(***************************************************************************)
(* activemq::core::ActiveMQConnectionFactory and ActiveMQConnection as     *)
(* their headers document them (ActiveMQConnectionFactory.h,               *)
(* ActiveMQConnection.h; the .cpp files are not in the tree).              *)
(*                                                                         *)
(* Ownership of the prefetch and redelivery policies: a policy passed to   *)
(* setPrefetchPolicy/setRedeliveryPolicy "becomes the property of" its     *)
(* holder and is deleted when the holder is destroyed, and the factory     *)
(* gives each connection a clone of its own.  A policy the holder replaces *)
(* is its property too, so the setter deletes it.                          *)
(*                                                                         *)
(* The connection's lifecycle flags (started, closed), its sessions, the   *)
(* dispatchers of their consumers, and the temporary destinations it       *)
(* tracks: only sessions of the connection that created a temporary       *)
(* destination consume from it, deleteTempDestination throws if an active  *)
(* session uses the destination, and cleanUpTempDestinations deletes every *)
(* tracked one but those, whose exceptions it ignores.  Each call is one   *)
(* step.                                                                   *)
(***************************************************************************)
EXTENDS Naturals, FiniteSets

CONSTANTS
    Conns,      \* the connections the factory can create
    Sessions,   \* the sessions the connections can create
    Dests,      \* temporary destinations
    Users,      \* user names given to createConnection(username, password)
    Kinds,      \* the policy kinds: prefetch, redelivery
    MaxPols,    \* bound on the policy objects allocated
    NoUser,     \* model value: the parameterless createConnection()
    NoConn      \* model value: no connection

Pols == 1 .. MaxPols
NoPol == 0
Open == {"stopped", "started"}

VARIABLES
    factoryAlive,   \* the factory object exists
    fUser,          \* the factory's default user name
    fPolicy,        \* the factory's policies, kind -> policy
    cState,         \* per connection: none, stopped, started, closed, deleted
    cUser,          \* per connection: the user it authenticates as
    cPolicy,        \* per connection: its policies, kind -> policy
    polState,       \* per policy object: unused, client, held, freed
    sessState,      \* per session: none, active, closed
    sessConn,       \* per session: its connection
    dispatchers,    \* <<session, destination>> of the registered consumers
    tempState,      \* per temporary destination: none, live, deleted
    tempConn,       \* per temporary destination: the connection that created it
    tracked,        \* per connection: the temporary destinations it tracks
    out             \* the last call's outcome

vars == <<factoryAlive, fUser, fPolicy, cState, cUser, cPolicy, polState,
          sessState, sessConn, dispatchers, tempState, tempConn, tracked, out>>
polVars == <<factoryAlive, fUser, fPolicy, cUser, cPolicy, polState>>
tempVars == <<sessState, sessConn, dispatchers, tempState, tempConn, tracked>>

\* The factory's constructor makes one policy of each kind (1, 2, ...).
InitialPolicy == CHOOSE f \in [Kinds -> 1 .. Cardinality(Kinds)] :
                     \A k1, k2 \in Kinds : k1 # k2 => f[k1] # f[k2]

Init ==
    /\ factoryAlive = TRUE
    /\ fUser \in Users
    /\ fPolicy = InitialPolicy
    /\ cState = [c \in Conns |-> "none"]
    /\ cUser = [c \in Conns |-> fUser]
    /\ cPolicy = [c \in Conns |-> [k \in Kinds |-> NoPol]]
    /\ polState = [p \in Pols |-> IF p \in 1 .. Cardinality(Kinds) THEN "held" ELSE "unused"]
    /\ sessState = [s \in Sessions |-> "none"]
    /\ sessConn = [s \in Sessions |-> NoConn]
    /\ dispatchers = {}
    /\ tempState = [d \in Dests |-> "none"]
    /\ tempConn = [d \in Dests |-> NoConn]
    /\ tracked = [c \in Conns |-> {}]
    /\ out = "none"

\* Deleting policies: the new polState.
Freed(ps) == [p \in Pols |-> IF p \in ps THEN "freed" ELSE polState[p]]

Range(f) == {f[x] : x \in DOMAIN f}

-----------------------------------------------------------------------------
(* ActiveMQConnectionFactory.h                                             *)

\* The client allocates a policy object to pass to a setter.
NewPolicy ==
    /\ \E p \in Pols : polState[p] = "unused" /\ polState' = [polState EXCEPT ![p] = "client"]
    /\ out' = "none"
    /\ UNCHANGED <<factoryAlive, fUser, fPolicy, cState, cUser, cPolicy, tempVars>>

\* setUsername(username).
SetUsername(u) ==
    /\ factoryAlive
    /\ fUser' = u /\ out' = "none"
    /\ UNCHANGED <<factoryAlive, fPolicy, cState, cUser, cPolicy, polState, tempVars>>

\* setPrefetchPolicy(policy) / setRedeliveryPolicy(policy): the policy
\* becomes the factory's, and the one it replaces is deleted.
SetFactoryPolicy(k, p) ==
    /\ factoryAlive /\ polState[p] = "client"
    /\ fPolicy' = [fPolicy EXCEPT ![k] = p]
    /\ polState' = [Freed({fPolicy[k]}) EXCEPT ![p] = "held"]
    /\ out' = "none"
    /\ UNCHANGED <<factoryAlive, fUser, cState, cUser, cPolicy, tempVars>>

\* The policy objects a new connection's clones are made in.
Clones == CHOOSE f \in [Kinds -> {p \in Pols : polState[p] = "unused"}] :
              \A k1, k2 \in Kinds : k1 # k2 => f[k1] # f[k2]
CanClone == Cardinality({p \in Pols : polState[p] = "unused"}) >= Cardinality(Kinds)

\* Fault-injection variant of CreateConnection: the connection is given
\* the factory's own policies rather than clones.
CreateConnectionSharesPolicy(c, u) ==
    /\ factoryAlive /\ cState[c] = "none"
    /\ cState' = [cState EXCEPT ![c] = "stopped"]
    /\ cUser' = [cUser EXCEPT ![c] = IF u = NoUser THEN fUser ELSE u]
    /\ cPolicy' = [cPolicy EXCEPT ![c] = fPolicy]
    /\ out' = "none"
    /\ UNCHANGED <<factoryAlive, fUser, fPolicy, polState, tempVars>>

\* Fault-injection variant of CreateConnection: the parameterless form
\* does not fall back to the factory's default user name.
CreateConnectionNoDefaultUser(c, u) ==
    /\ factoryAlive /\ cState[c] = "none" /\ CanClone
    /\ cState' = [cState EXCEPT ![c] = "stopped"]
    /\ cUser' = [cUser EXCEPT ![c] = u]
    /\ cPolicy' = [cPolicy EXCEPT ![c] = Clones]
    /\ polState' = [p \in Pols |-> IF p \in Range(Clones) THEN "held" ELSE polState[p]]
    /\ out' = "none"
    /\ UNCHANGED <<factoryAlive, fUser, fPolicy, tempVars>>

\* createConnection() / createConnection(username, password[, clientId]):
\* a new connection in stopped mode, authenticating as the given user or,
\* for the parameterless form, the factory's default (which the other
\* forms leave unchanged); configureConnection gives it clones of the
\* factory's policies.
CreateConnection(c, u) ==
    /\ factoryAlive /\ cState[c] = "none" /\ CanClone
    /\ cState' = [cState EXCEPT ![c] = "stopped"]
    /\ cUser' = [cUser EXCEPT ![c] = IF u = NoUser THEN fUser ELSE u]
    /\ cPolicy' = [cPolicy EXCEPT ![c] = Clones]
    /\ polState' = [p \in Pols |-> IF p \in Range(Clones) THEN "held" ELSE polState[p]]
    /\ out' = "none"
    /\ UNCHANGED <<factoryAlive, fUser, fPolicy, tempVars>>

\* ~ActiveMQConnectionFactory(): its policies are deleted; the connections
\* it created live on.
DestroyFactory ==
    /\ factoryAlive
    /\ factoryAlive' = FALSE
    /\ polState' = Freed(Range(fPolicy))
    /\ out' = "none"
    /\ UNCHANGED <<fUser, fPolicy, cState, cUser, cPolicy, tempVars>>

-----------------------------------------------------------------------------
(* ActiveMQConnection.h: lifecycle and policies                            *)

\* The connection's setPrefetchPolicy / setRedeliveryPolicy.
SetConnectionPolicy(c, k, p) ==
    /\ cState[c] \in Open /\ polState[p] = "client"
    /\ cPolicy' = [cPolicy EXCEPT ![c][k] = p]
    /\ polState' = [Freed({cPolicy[c][k]}) EXCEPT ![p] = "held"]
    /\ out' = "none"
    /\ UNCHANGED <<factoryAlive, fUser, fPolicy, cState, cUser, tempVars>>

\* start() and stop(): the started flag.
Start(c) ==
    /\ cState[c] \in Open
    /\ cState' = [cState EXCEPT ![c] = "started"] /\ out' = "none"
    /\ UNCHANGED <<polVars, tempVars>>
Stop(c) ==
    /\ cState[c] \in Open
    /\ cState' = [cState EXCEPT ![c] = "stopped"] /\ out' = "none"
    /\ UNCHANGED <<polVars, tempVars>>

\* close(): closed is set, and the connection is no longer usable.
Close(c) ==
    /\ cState[c] \in Open
    /\ cState' = [cState EXCEPT ![c] = "closed"] /\ out' = "none"
    /\ UNCHANGED <<polVars, tempVars>>

\* delete connection: the destructor deletes the connection's policies.
DeleteConnection(c) ==
    /\ cState[c] \notin {"none", "deleted"}
    /\ cState' = [cState EXCEPT ![c] = "deleted"]
    /\ polState' = Freed(Range(cPolicy[c]))
    /\ out' = "none"
    /\ UNCHANGED <<factoryAlive, fUser, fPolicy, cUser, cPolicy, tempVars>>

-----------------------------------------------------------------------------
(* ActiveMQConnection.h: sessions, consumers, temporary destinations       *)

\* createSession() and addSession(): a session of an open connection; its
\* consumers are configured from the connection's policies.  On a closed
\* connection checkClosed() throws.
CreateSession(c, s) ==
    /\ sessState[s] = "none" /\ cState[c] \in Open \cup {"closed"}
    /\ IF cState[c] = "closed"
       THEN out' = "CMSException" /\ UNCHANGED <<polVars, tempVars>>
       ELSE /\ sessState' = [sessState EXCEPT ![s] = "active"]
            /\ sessConn' = [sessConn EXCEPT ![s] = c]
            /\ out' = "none"
            /\ UNCHANGED <<factoryAlive, fUser, fPolicy, cUser, cPolicy, polState,
                           dispatchers, tempState, tempConn, tracked>>
    /\ UNCHANGED cState

\* removeSession(): the session is no longer active.
CloseSession(s) ==
    /\ sessState[s] = "active"
    /\ sessState' = [sessState EXCEPT ![s] = "closed"] /\ out' = "none"
    /\ UNCHANGED <<polVars, cState, sessConn, dispatchers, tempState, tempConn, tracked>>

\* addDispatcher(): a consumer of session s on the live destination d;
\* a temporary destination is consumed only through the connection that
\* created it.
AddDispatcher(s, d) ==
    /\ sessState[s] = "active" /\ cState[sessConn[s]] \in Open /\ tempState[d] = "live"
    /\ tempConn[d] = sessConn[s]
    /\ dispatchers' = dispatchers \cup {<<s, d>>} /\ out' = "none"
    /\ UNCHANGED <<polVars, cState, sessState, sessConn, tempState, tempConn, tracked>>

\* removeDispatcher(): the consumer is closed.
RemoveDispatcher(s, d) ==
    /\ <<s, d>> \in dispatchers
    /\ dispatchers' = dispatchers \ {<<s, d>>} /\ out' = "none"
    /\ UNCHANGED <<polVars, cState, sessState, sessConn, tempState, tempConn, tracked>>

\* d is in use by an active session of connection c: one with a consumer
\* on it.
InUse(c, d) == \E s \in Sessions :
                  /\ <<s, d>> \in dispatchers /\ sessState[s] = "active"
                  /\ sessConn[s] = c

\* createTemporaryQueue/Topic and addTempDestination(): a new temporary
\* destination, tracked by the connection that made it.
CreateTempDestination(c, d) ==
    /\ cState[c] \in Open /\ tempState[d] = "none"
    /\ tempState' = [tempState EXCEPT ![d] = "live"]
    /\ tempConn' = [tempConn EXCEPT ![d] = c]
    /\ tracked' = [tracked EXCEPT ![c] = @ \cup {d}] /\ out' = "none"
    /\ UNCHANGED <<polVars, cState, sessState, sessConn, dispatchers>>

\* removeTempDestination(): the connection stops tracking d.
RemoveTempDestination(c, d) ==
    /\ d \in tracked[c]
    /\ tracked' = [tracked EXCEPT ![c] = @ \ {d}] /\ out' = "none"
    /\ UNCHANGED <<polVars, cState, sessState, sessConn, dispatchers, tempState, tempConn>>

\* deleteTempDestination(): CMSException if d is in use by an active
\* session; otherwise d is removed from the broker and no longer tracked.
DeleteTempDestination(c, d) ==
    /\ d \in tracked[c]
    /\ IF InUse(c, d)
       THEN out' = "CMSException" /\ UNCHANGED <<tempState, tracked>>
       ELSE /\ tempState' = [tempState EXCEPT ![d] = "deleted"]
            /\ tracked' = [tracked EXCEPT ![c] = @ \ {d}]
            /\ out' = "none"
    /\ UNCHANGED <<polVars, cState, sessState, sessConn, dispatchers, tempConn>>

\* cleanUpTempDestinations(): deleteTempDestination on every tracked
\* destination, ignoring the exceptions of those in use, which stay.
CleanUpTempDestinations(c) ==
    /\ tracked[c] # {}
    /\ LET gone == {d \in tracked[c] : ~InUse(c, d)} IN
       /\ tempState' = [d \in Dests |-> IF d \in gone THEN "deleted" ELSE tempState[d]]
       /\ tracked' = [tracked EXCEPT ![c] = @ \ gone]
    /\ out' = "none"
    /\ UNCHANGED <<polVars, cState, sessState, sessConn, dispatchers, tempConn>>

Next ==
    \/ NewPolicy \/ DestroyFactory
    \/ \E u \in Users : SetUsername(u)
    \/ \E k \in Kinds, p \in Pols : SetFactoryPolicy(k, p)
    \/ \E c \in Conns :
          \/ \E u \in Users \cup {NoUser} : CreateConnection(c, u)
          \/ \E k \in Kinds, p \in Pols : SetConnectionPolicy(c, k, p)
          \/ Start(c) \/ Stop(c) \/ Close(c) \/ DeleteConnection(c)
          \/ \E s \in Sessions : CreateSession(c, s)
          \/ \E d \in Dests : \/ CreateTempDestination(c, d) \/ RemoveTempDestination(c, d)
                              \/ DeleteTempDestination(c, d)
          \/ CleanUpTempDestinations(c)
    \/ \E s \in Sessions :
          \/ CloseSession(s)
          \/ \E d \in Dests : AddDispatcher(s, d) \/ RemoveDispatcher(s, d)

Spec == Init /\ [][Next]_vars

-----------------------------------------------------------------------------
(* Properties                                                              *)

TypeOK ==
    /\ fUser \in Users /\ cUser \in [Conns -> Users]
    /\ fPolicy \in [Kinds -> Pols]
    /\ cState \in [Conns -> {"none", "stopped", "started", "closed", "deleted"}]
    /\ cPolicy \in [Conns -> [Kinds -> Pols \cup {NoPol}]]
    /\ polState \in [Pols -> {"unused", "client", "held", "freed"}]
    /\ sessState \in [Sessions -> {"none", "active", "closed"}]
    /\ dispatchers \subseteq Sessions \X Dests
    /\ tempState \in [Dests -> {"none", "live", "deleted"}]
    /\ tempConn \in [Dests -> Conns \cup {NoConn}]
    /\ tracked \in [Conns -> SUBSET Dests]

\* The holders of a policy: the live factory, and the connections not yet
\* deleted, that have it as one of their policies.
HoldersOf(p) ==
    {h \in {"factory"} : factoryAlive /\ p \in Range(fPolicy)} \cup
    {c \in Conns : cState[c] \notin {"none", "deleted"} /\ p \in Range(cPolicy[c])}

\* Through every sequence of setters, connection creations and
\* deletions, and the factory's destruction, each policy object that is
\* held has exactly one holder, and one no holder has was deleted: no
\* policy is shared between the factory and a connection (which the
\* clones of configureConnection prevent), and none leaks.
PoliciesOwnedOnce ==
    \A p \in Pols :
        /\ polState[p] = "held" => Cardinality(HoldersOf(p)) = 1
        /\ polState[p] # "held" => HoldersOf(p) = {}

=============================================================================
