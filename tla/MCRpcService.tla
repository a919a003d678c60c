---------------------------- MODULE MCRpcService ----------------------------
(***************************************************************************)
(* Instances of RpcService for TLC.  The scripts are what the handlers of  *)
(* server_test.cc do: one response for unary responses, an error before a  *)
(* response (GetSquareHandler), several messages for a stream, and Finish  *)
(* when the requests are done.                                             *)
(***************************************************************************)
EXTENDS RpcService, TLC

AllTypes == <<"NORMAL_RPC", "CLIENT_STREAMING", "SERVER_STREAMING",
              "BIDI_STREAMING">>
OnlyBidi == <<"BIDI_STREAMING">>
TwoTypes == <<"NORMAL_RPC", "BIDI_STREAMING">>
OnlyUnary == <<"NORMAL_RPC">>
OnlyServerStreaming == <<"SERVER_STREAMING">>

TestRequestScripts ==
  [t \in RpcType |->
     CASE t = "NORMAL_RPC" -> {<<"MSG">>, <<"ERROR", "MSG">>}
       [] t = "CLIENT_STREAMING" -> {<<>>}
       [] t = "SERVER_STREAMING" -> {<<"MSG", "MSG", "OK">>}
       [] t = "BIDI_STREAMING" -> {<<"MSG", "MSG">>}]

TestReadsDoneScripts ==
  [t \in RpcType |->
     CASE t = "NORMAL_RPC" -> {<<>>}
       [] t = "CLIENT_STREAMING" -> {<<"MSG">>}
       [] t = "SERVER_STREAMING" -> {<<>>}
       [] t = "BIDI_STREAMING" -> {<<"OK">>}]

ASSUME TestHandlers == HandlersFinishLast

\* Writers are interchangeable: nothing tells one from the other.
WriterSymmetry == Permutations(Writers)

\* A handler that only hands out its Writer.
SilentScripts == [t \in RpcType |-> {<<>>}]
=============================================================================
