---------------------------- MODULE MCTestServer ----------------------------
(***************************************************************************)
(* A unary and a client-streaming handler under test.  The second may send *)
(* its response after the requests, or an error before.                    *)
(***************************************************************************)
EXTENDS TestServer

MCMethodType == <<"NORMAL_RPC", "CLIENT_STREAMING">>

MCRequestScripts ==
  [t \in RpcType |-> IF t = "NORMAL_RPC" THEN {<<"MSG">>, <<"ERROR">>}
                                         ELSE {<<>>, <<"ERROR">>}]

MCReadsDoneScripts ==
  [t \in RpcType |-> IF t = "NORMAL_RPC" THEN {<<>>} ELSE {<<"MSG">>}]
=============================================================================
