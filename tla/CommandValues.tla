---------------------------- MODULE CommandValues ----------------------------
(***************************************************************************)
(* The value semantics of the OpenWire commands MessagePull and Response   *)
(* (MessagePull.cpp, Response.cpp, generated from the Java classes): the   *)
(* constructors, the setters, copyDataStructure(), cloneDataStructure()    *)
(* and equals().                                                           *)
(*                                                                         *)
(* A command is a record of its fields.  The Pointer fields (consumerId,   *)
(* destination, messageId) hold an id object or Null; copies share the     *)
(* object, and equals() compares the objects' values (IdValue).  The       *)
(* BaseCommand part is its commandId, which the creator sets when it makes *)
(* the command; BaseCommand::copyDataStructure copies it and               *)
(* BaseCommand::equals compares it.  The last call and its outcome are in  *)
(* call.                                                                   *)
(***************************************************************************)
EXTENDS Naturals, TLC

CONSTANTS
    Objs,         \* command objects
    IdObjs,       \* ConsumerId / ActiveMQDestination / MessageId objects
    IdValue,      \* the value each id object's equals() compares
    PtrFields,    \* the Pointer fields of MessagePull
    Timeouts,     \* timeout values
    CorrIds,      \* MessagePull correlation ids (strings, as model values)
    EmptyCorr,    \* the member of CorrIds that stands for ""
    RespCorrIds,  \* Response correlation ids (ints)
    CommandIds,   \* BaseCommand command ids
    MaxOps,       \* bound on the calls made
    Null          \* model value: a NULL Pointer

Kinds == {"MessagePull", "Response"}

\* The correlation id is a string in MessagePull and an int in Response.
CorrIdsOf(k) == IF k = "MessagePull" THEN CorrIds ELSE RespCorrIds

VARIABLES objs, call, ops

cmdVars == <<objs, call, ops>>

\* The object the constructors make: NULL pointers, timeout 0, "" or 0.
Fresh(k, cid) ==
    [kind |-> k, commandId |-> cid, timeout |-> 0,
     corr |-> IF k = "MessagePull" THEN EmptyCorr ELSE 0]
    @@ [f \in PtrFields |-> Null]

NoObj == [kind |-> "none"]

Init ==
    /\ objs = [o \in Objs |-> NoObj]
    /\ call = [fn |-> "none", exc |-> "none"]
    /\ ops = 0

Live == {o \in Objs : objs[o].kind # "none"}

\* A call recorded with its outcome.
Record(fn, a, b, exc) == call' = [fn |-> fn, a |-> a, b |-> b, exc |-> exc]

\* A call on existing commands: counted against MaxOps.  Constructing and
\* deleting are not counted, so some call is always possible.
Call(fn, a, b, exc) ==
    /\ ops < MaxOps /\ ops' = ops + 1
    /\ Record(fn, a, b, exc)

-----------------------------------------------------------------------------
(* equals()                                                                *)

\* A Pointer field of this against that of value: if this one is set, the
\* id's equals() (false for NULL); otherwise value's must be NULL too.
PtrEquals(p, q) ==
    IF p # Null THEN q # Null /\ IdValue[p] = IdValue[q] ELSE q = Null

\* Fault-injection variant of MessagePullEquals: the `else if` that
\* rejects a set pointer in value when this one is NULL is missing.
MessagePullEqualsNullLenient(x, y) ==
    /\ \A f \in PtrFields : x[f] # Null => (y[f] # Null /\ IdValue[x[f]] = IdValue[y[f]])
    /\ x.timeout = y.timeout /\ x.corr = y.corr
    /\ x.commandId = y.commandId

\* MessagePull::equals: each field in turn, then BaseCommand::equals.
MessagePullEquals(x, y) ==
    /\ \A f \in PtrFields : PtrEquals(x[f], y[f])
    /\ x.timeout = y.timeout /\ x.corr = y.corr
    /\ x.commandId = y.commandId

\* Response::equals.
ResponseEquals(x, y) == x.corr = y.corr /\ x.commandId = y.commandId

\* a->equals(b): true for the same object; false when b is not of a's
\* class (the dynamic_cast yields NULL).
EqualsIn(os, a, b) ==
    \/ a = b
    \/ /\ os[a].kind = os[b].kind
       /\ IF os[a].kind = "MessagePull"
          THEN MessagePullEquals(os[a], os[b])
          ELSE ResponseEquals(os[a], os[b])

Equals(a, b) == EqualsIn(objs, a, b)

-----------------------------------------------------------------------------
(* Constructors and setters                                                *)

\* new MessagePull() / new Response(), then setCommandId(cid).
New(o, k, cid) ==
    /\ objs[o].kind = "none"
    /\ objs' = [objs EXCEPT ![o] = Fresh(k, cid)]
    /\ Record("new", o, k, "none") /\ UNCHANGED ops

\* setConsumerId / setDestination / setMessageId.
SetPointer(o, f, i) ==
    /\ objs[o].kind = "MessagePull"
    /\ objs' = [objs EXCEPT ![o][f] = i]
    /\ Call("set", o, f, "none")

\* setTimeout.
SetTimeout(o, t) ==
    /\ objs[o].kind = "MessagePull"
    /\ objs' = [objs EXCEPT ![o].timeout = t]
    /\ Call("set", o, "timeout", "none")

\* MessagePull::setCorrelationId(string) / Response::setCorrelationId(int).
SetCorrelationId(o, c) ==
    /\ objs[o].kind \in Kinds /\ c \in CorrIdsOf(objs[o].kind)
    /\ objs' = [objs EXCEPT ![o].corr = c]
    /\ Call("set", o, "corr", "none")

\* equals() called: it changes nothing.
CallEquals(a, b) ==
    /\ {a, b} \subseteq Live
    /\ UNCHANGED objs
    /\ Call("equals", a, b, "none")

-----------------------------------------------------------------------------
(* copyDataStructure() and cloneDataStructure()                            *)

\* Fault-injection variant of CopiedFields: setMessageId is left out.
CopiedFieldsNoMessageId(dst, src) ==
    [f \in PtrFields |-> IF f = "messageId" THEN dst[f] ELSE src[f]]
    @@ [dst EXCEPT !.commandId = src.commandId, !.timeout = src.timeout,
                   !.corr = src.corr]

\* The fields of src that copyDataStructure() writes into dst.
CopiedFields(dst, src) ==
    [f \in PtrFields |-> src[f]]
    @@ [dst EXCEPT !.commandId = src.commandId, !.timeout = src.timeout,
                   !.corr = src.corr]

\* dst->copyDataStructure(src): nothing for self-assignment; a
\* NullPointerException, before anything is written, when src is not of
\* dst's class; otherwise BaseCommand's part and then each field.
CopyDataStructure(dst, src) ==
    /\ {dst, src} \subseteq Live
    /\ CASE dst = src ->
              UNCHANGED objs /\ Call("copy", dst, src, "none")
         [] objs[dst].kind # objs[src].kind ->
              UNCHANGED objs /\ Call("copy", dst, src, "NullPointerException")
         [] OTHER ->
              /\ objs' = [objs EXCEPT ![dst] = CopiedFields(objs[dst], objs[src])]
              /\ Call("copy", dst, src, "none")

\* src->cloneDataStructure(): a new object of src's class, copied from src.
CloneDataStructure(src, n) ==
    /\ src \in Live /\ objs[n].kind = "none"
    /\ objs' = [objs EXCEPT ![n] = CopiedFields(Fresh(objs[src].kind, 0), objs[src])]
    /\ Call("clone", n, src, "none")

\* delete: the object is gone; the id objects it pointed to live on in
\* the others that share them.
Delete(o) ==
    /\ o \in Live
    /\ objs' = [objs EXCEPT ![o] = NoObj]
    /\ Record("delete", o, o, "none") /\ UNCHANGED ops

Next ==
    \/ \E o \in Objs, k \in Kinds, cid \in CommandIds : New(o, k, cid)
    \/ \E o \in Objs, f \in PtrFields, i \in IdObjs \cup {Null} : SetPointer(o, f, i)
    \/ \E o \in Objs, t \in Timeouts : SetTimeout(o, t)
    \/ \E o \in Objs : \E c \in CorrIdsOf(objs[o].kind) : SetCorrelationId(o, c)
    \/ \E a, b \in Objs : CallEquals(a, b) \/ CopyDataStructure(a, b)
    \/ \E src, n \in Objs : CloneDataStructure(src, n)
    \/ \E o \in Objs : Delete(o)

Spec == Init /\ [][Next]_cmdVars

-----------------------------------------------------------------------------
(* Properties                                                              *)

\* equals() is an equivalence on the live commands, whatever mix of set
\* and NULL pointers, values and classes the setters, copies and clones
\* have left: reflexive, symmetric and transitive.  The NULL branches of
\* MessagePull::equals are what keep it symmetric.
EqualsIsEquivalence ==
    \A a, b, c \in Live :
        /\ Equals(a, a)
        /\ Equals(a, b) = Equals(b, a)
        /\ Equals(a, b) /\ Equals(b, c) => Equals(a, c)

\* A copyDataStructure() or cloneDataStructure() that returns leaves the
\* target equal to its source both ways, and the source unchanged.
CopyEstablishesEquality ==
    [][call'.fn \in {"copy", "clone"} /\ call'.exc = "none" =>
          /\ EqualsIn(objs', call'.a, call'.b) /\ EqualsIn(objs', call'.b, call'.a)
          /\ objs'[call'.b] = objs[call'.b]]_cmdVars

=============================================================================
