---------------------------- MODULE MCRpcServer -----------------------------
(***************************************************************************)
(* Instances of RpcServer for TLC, with the handlers of MCRpcService.      *)
(***************************************************************************)
EXTENDS RpcServer, MCRpcService
=============================================================================
