------------------------------ MODULE URIPool ------------------------------
(***************************************************************************)
(* The URI pool shared by the failover reconnect task and the backup       *)
(* transport pool (spec 4.2, 3 "URI entry").  A candidate handed out by    *)
(* getURI() leaves the pool while it is in use and is put back with        *)
(* addURI() when the connection to it fails ("its URI is returned to the   *)
(* pool", spec 4.4); this is what makes sequential selection round robin   *)
(* and keeps the pool free of duplicates.                                  *)
(*                                                                         *)
(* The operators are actions on the variable pool, so a module that        *)
(* composes the pool INSTANCEs it WITH pool <- its own variable.           *)
(***************************************************************************)
EXTENDS Sequences, SequencesExt

CONSTANTS
    Randomize   \* the "randomize" URI option: random instead of in-order selection

VARIABLE
    pool        \* the candidates, in the order sequential selection uses

\* The URIs currently in the pool.
Members == ToSet(pool)

\* The candidates getURI() may hand out of pool p: the head of the list
\* with randomize=false, otherwise any member.
Candidates(p) == IF p = <<>> THEN {} ELSE IF Randomize THEN ToSet(p) ELSE {Head(p)}

\* Pool p after getURI() handed out u, which is not a candidate while in use.
Taken(p, u) == Remove(p, u)

\* Pool p after addURI(u): a URI not already pooled joins at the end and a
\* duplicate is ignored.
Returned(p, u) == IF u \in ToSet(p) THEN p ELSE Append(p, u)

\* The three operations as actions on the pool.
GetURI(u) == u \in Candidates(pool) /\ pool' = Taken(pool, u)

AddURI(u) == pool' = Returned(pool, u)

RemoveURI(u) == pool' = Remove(pool, u)

=============================================================================
