--------------------------- MODULE MCAsyncClient ----------------------------
(***************************************************************************)
(* Two queues and two clients: a stream that its user constructs, and a    *)
(* unary client that a callback of the stream constructs.                  *)
(***************************************************************************)
EXTENDS AsyncClient

CONSTANTS Stream, Inner

MCClients == {Stream, Inner}
MCKind == [c \in MCClients |-> IF c = Stream THEN "SERVER_STREAMING" ELSE "NORMAL_RPC"]
MCNested == {Inner}
=============================================================================
