----------------------- MODULE ConnectionStateTracker -----------------------
(***************************************************************************)
(* The connection state tracker (spec 4.3, 3 "Tracked state record").      *)
(* Every outgoing command passes through track(): an info command that     *)
(* creates a connection-scoped resource (connection, session, consumer,    *)
(* producer) is recorded, a remove command for the same resource erases    *)
(* the record, and any other command (an application message) is not      *)
(* recorded.  doRestore() replays the records on a new transport so that   *)
(* a parent is always created before its children.                         *)
(*                                                                         *)
(* A resource is an opaque id; Parent gives the resource it is created     *)
(* under (a session under its connection, a consumer or producer under    *)
(* its session), NoParent for the connection itself.                       *)
(***************************************************************************)
EXTENDS FiniteSets

CONSTANTS
    Resources,  \* ids of the connection, sessions, consumers and producers
    Parent,     \* [Resources -> Resources \cup {NoParent}]
    NoParent    \* model value: the parent of the connection

ASSUME Parent \in [Resources -> Resources \cup {NoParent}]

VARIABLE
    tracked     \* the resources whose info command is recorded

\* The commands a client sends through the transport.
Commands ==
    [op : {"add", "remove"}, res : Resources] \cup [op : {"message"}, res : {NoParent}]

\* The children of resource r.
Children(r) == {x \in Resources : Parent[x] = r}

\* track(command): record an info command, erase the record on its remove
\* command, leave the records alone for anything else.
Track(cmd) ==
    tracked' = CASE cmd.op = "add"    -> tracked \cup {cmd.res}
                 [] cmd.op = "remove" -> tracked \ {cmd.res}
                 [] OTHER             -> tracked

\* doRestore() replays what is tracked when it starts.
RestoreSnapshot == tracked

\* Fault-injection variant of NextToReplay: records replayed in any order.
NextToReplayAnyOrder(remaining) == remaining

\* The records doRestore() may replay next out of those still to replay:
\* the ones whose parent is not itself still waiting to be replayed
\* (connection, then sessions, then consumers and producers).
NextToReplay(remaining) == {r \in remaining : Parent[r] \notin remaining}

=============================================================================
