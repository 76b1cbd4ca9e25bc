------------------------- MODULE MC_FailoverTransport -------------------------
(***************************************************************************)
(* Model-checking instance of FailoverTransport: two brokers, two client   *)
(* threads, and a connection with one session and one consumer under it    *)
(* (the ConnectionInfo / SessionInfo / ConsumerInfo chain of               *)
(* FailoverTransportTest::testWithOpewireCommands).                        *)
(***************************************************************************)
EXTENDS FailoverTransport

CONSTANTS u1, u2, c1, c2, conn, s1, k1

MC_URIList == <<u1, u2>>
MC_Clients == {c1, c2}
MC_Resources == {conn, s1, k1}
MC_Parent == (conn :> NoParent) @@ (s1 :> conn) @@ (k1 :> s1)

=============================================================================
