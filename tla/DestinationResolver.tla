-------------------------- MODULE DestinationResolver --------------------------
(***************************************************************************)
(* activemq::cmsutil::DynamicDestinationResolver                           *)
(* (DynamicDestinationResolver.cpp): a cache of destinations per session.  *)
(*                                                                         *)
(* resolveDestinationName(session, name, pubSubDomain) finds the           *)
(* SessionResolver of the session (creating it on a miss), which finds the *)
(* topic or queue of that name in its topicMap or queueMap (creating it    *)
(* with session->createTopic/createQueue on a miss, registering it with    *)
(* the resource lifecycle manager and caching it).  destroy() deletes      *)
(* every SessionResolver and clears the map; the destructor calls          *)
(* destroy().                                                              *)
(*                                                                         *)
(* A destination is the record of its session, kind, name and the number  *)
(* of times one was created for that key (its generation).  Each call is   *)
(* one step: the code takes no lock, and its caller (CmsTemplate) uses it  *)
(* from one thread.                                                        *)
(***************************************************************************)
EXTENDS Naturals, FiniteSets

CONSTANTS
    Sessions,     \* the cms::Session pointers the resolver is given
    Names,        \* destination names, Empty among them
    Empty,        \* the empty name ""
    MaxDestroy,   \* bound on the explicit destroy() calls
    MaxRes,       \* the SessionResolver objects that can be allocated
    NoDest,       \* model value: not in the map
    NoOut,        \* model value: no call has returned yet
    CMSException  \* model value: the exception an invalid name raises

Kinds == {"topic", "queue"}
Rids == 1 .. MaxRes
NoRes == 0

VARIABLES
    resolverMap,  \* sessionResolverMap: session -> SessionResolver (or NoRes)
    resSession,   \* per resolver: the session it was created for
    resState,     \* per resolver: none, alive or freed
    cache,        \* per resolver: its topicMap and queueMap, kind -> name -> destination
    created,      \* per session, kind, name: destinations created and given to addDestination
    nextRes,      \* SessionResolver objects allocated so far
    alive,        \* the DynamicDestinationResolver object exists
    destroys,     \* explicit destroy() calls so far
    epoch,        \* history: destroy() calls so far, the destructor's included
    issued,       \* history: <<epoch, session, kind, name, generation>> returned
    out,          \* the last call's result
    fault         \* the first memory fault on a SessionResolver, if any

vars == <<resolverMap, resSession, resState, cache, created, nextRes,
          alive, destroys, epoch, issued, out, fault>>

Keys == Sessions \X Kinds \X Names

Init ==
    /\ resolverMap = [s \in Sessions |-> NoRes]
    /\ resSession = [r \in Rids |-> CHOOSE s \in Sessions : TRUE]
    /\ resState = [r \in Rids |-> "none"]
    /\ cache = [r \in Rids |-> [k \in Kinds |-> [n \in Names |-> NoDest]]]
    /\ created = [key \in Keys |-> 0]
    /\ nextRes = 0
    /\ alive = TRUE
    /\ destroys = 0
    /\ epoch = 0
    /\ issued = {}
    /\ out = NoOut
    /\ fault = "none"

Fault(kind) == IF fault = "none" THEN kind ELSE fault

-----------------------------------------------------------------------------
(* DynamicDestinationResolver.cpp                                          *)

\* The kind pubSubDomain selects.
KindOf(pubSubDomain) == IF pubSubDomain THEN "topic" ELSE "queue"

\* The destination session->createTopic/createQueue makes for a key.
NewDest(s, kind, n) == [session |-> s, kind |-> kind, name |-> n, gen |-> created[<<s, kind, n>>] + 1]

\* Fault-injection variant of GetDestination: the new destination is not
\* put in the map.
GetDestinationNoPut(r, s, kind, n) ==
    LET d == cache[r][kind][n] IN
    IF d # NoDest THEN <<d, cache, created>>
    ELSE <<NewDest(s, kind, n), cache,
           [created EXCEPT ![<<s, kind, n>>] = @ + 1]>>

\* SessionResolver::getTopic / getQueue: topicMap.get(name) (queueMap);
\* on NoSuchElementException the destination is created by the session,
\* given to resourceLifecycleManager->addDestination(), and put in the
\* map.  Gives <<destination, cache', created'>>.
GetDestination(r, s, kind, n) ==
    LET d == cache[r][kind][n] IN
    IF d # NoDest THEN <<d, cache, created>>
    ELSE <<NewDest(s, kind, n),
           [cache EXCEPT ![r][kind][n] = NewDest(s, kind, n)],
           [created EXCEPT ![<<s, kind, n>>] = @ + 1]>>

\* Fault-injection variant of ResolveDestinationName: the check of the
\* empty name is missing.
ResolveNoNameCheck(s, n, pubSub) ==
    /\ alive
    /\ LET new == resolverMap[s] = NoRes
           r == IF new THEN nextRes + 1 ELSE resolverMap[s]
           got == GetDestination(r, s, KindOf(pubSub), n)
       IN /\ resolverMap' = [resolverMap EXCEPT ![s] = r]
          /\ resSession' = IF new THEN [resSession EXCEPT ![r] = s] ELSE resSession
          /\ resState' = IF new THEN [resState EXCEPT ![r] = "alive"] ELSE resState
          /\ nextRes' = IF new THEN r ELSE nextRes
          /\ cache' = got[2] /\ created' = got[3]
          /\ out' = got[1]
          /\ issued' = issued \cup {<<epoch, s, KindOf(pubSub), n, got[1]>>}
          /\ fault' = IF resState[r] = "freed" THEN Fault("useAfterFree") ELSE fault
    /\ UNCHANGED <<alive, destroys, epoch>>

\* resolveDestinationName(session, destName, pubSubDomain) with a valid
\* name: sessionResolverMap.get(session), or on a miss a new
\* SessionResolver put in the map; then its getTopic or getQueue.  A
\* resolver already deleted is a use after free.
ResolveDestinationName(s, n, pubSub) ==
    /\ alive /\ n # Empty
    /\ LET new == resolverMap[s] = NoRes
           r == IF new THEN nextRes + 1 ELSE resolverMap[s]
           got == GetDestination(r, s, KindOf(pubSub), n)
       IN /\ resolverMap' = [resolverMap EXCEPT ![s] = r]
          /\ resSession' = IF new THEN [resSession EXCEPT ![r] = s] ELSE resSession
          /\ resState' = IF new THEN [resState EXCEPT ![r] = "alive"] ELSE resState
          /\ nextRes' = IF new THEN r ELSE nextRes
          /\ cache' = got[2] /\ created' = got[3]
          /\ out' = got[1]
          /\ issued' = issued \cup {<<epoch, s, KindOf(pubSub), n, got[1]>>}
          /\ fault' = IF resState[r] = "freed" THEN Fault("useAfterFree") ELSE fault
    /\ UNCHANGED <<alive, destroys, epoch>>

\* destName == "": CMSException, nothing changes.
ResolveInvalidName(s, pubSub) ==
    /\ alive
    /\ out' = CMSException
    /\ UNCHANGED <<resolverMap, resSession, resState, cache, created, nextRes,
                   alive, destroys, epoch, issued, fault>>

\* The resolvers destroy() deletes: every value of the map.
Deleted == {resolverMap[s] : s \in {x \in Sessions : resolverMap[x] # NoRes}}

\* Fault-injection variant of DestroyBody: the map is not cleared.
DestroyNoClear ==
    /\ resState' = [r \in Rids |-> IF r \in Deleted THEN "freed" ELSE resState[r]]
    /\ fault' = IF \E r \in Deleted : resState[r] = "freed" THEN Fault("doubleFree") ELSE fault
    /\ UNCHANGED resolverMap

\* destroy(): delete every SessionResolver of the map, then clear it.
DestroyBody ==
    /\ resState' = [r \in Rids |-> IF r \in Deleted THEN "freed" ELSE resState[r]]
    /\ fault' = IF \E r \in Deleted : resState[r] = "freed" THEN Fault("doubleFree") ELSE fault
    /\ resolverMap' = [s \in Sessions |-> NoRes]

\* An explicit destroy() call.
Destroy ==
    /\ alive /\ destroys < MaxDestroy
    /\ DestroyBody
    /\ destroys' = destroys + 1
    /\ epoch' = epoch + 1
    /\ out' = NoOut
    /\ UNCHANGED <<resSession, cache, created, nextRes, alive, issued>>

\* ~DynamicDestinationResolver(): destroy(), and the object is gone.
Destruct ==
    /\ alive
    /\ DestroyBody
    /\ alive' = FALSE
    /\ epoch' = epoch + 1
    /\ out' = NoOut
    /\ UNCHANGED <<resSession, cache, created, nextRes, destroys, issued>>

Next ==
    \/ \E s \in Sessions, p \in BOOLEAN :
          \/ ResolveInvalidName(s, p)
          \/ \E n \in Names : ResolveDestinationName(s, n, p)
    \/ Destroy \/ Destruct

Spec == Init /\ [][Next]_vars

-----------------------------------------------------------------------------
(* Properties                                                              *)

TypeOK ==
    /\ resolverMap \in [Sessions -> {NoRes} \cup Rids]
    /\ resState \in [Rids -> {"none", "alive", "freed"}]
    /\ nextRes \in 0 .. MaxRes
    /\ created \in [Keys -> Nat]
    /\ out \in {NoOut, CMSException} \cup
              [session : Sessions, kind : Kinds, name : Names \ {Empty}, gen : 1 .. MaxDestroy + 1]
    /\ fault \in {"none", "useAfterFree", "doubleFree"}

\* Between two destroy() calls, resolving the same name in the same domain
\* for the same session always yields the same destination, and it is a
\* destination of that session, domain and name.
ResolutionIsStable ==
    \A x, y \in issued :
        /\ x[5].session = x[2] /\ x[5].kind = x[3] /\ x[5].name = x[4]
        /\ (x[1] = y[1] /\ x[2] = y[2] /\ x[3] = y[3] /\ x[4] = y[4]) => x[5] = y[5]

\* destroy(), called explicitly and again by the destructor, never deletes
\* a SessionResolver twice, and no resolve uses a deleted one.
NoResolverFault == fault = "none"

=============================================================================
