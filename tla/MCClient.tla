------------------------------ MODULE MCClient ------------------------------
(***************************************************************************)
(* Clients without a timeout and with one that ends between two retries of *)
(* the limited strategy.                                                   *)
(***************************************************************************)
EXTENDS Client

MCCode == {"UNAVAILABLE", "INTERNAL", "DEADLINE_EXCEEDED"}
MCUnrecoverableCodes == {"INTERNAL"}
MCTimeouts == {{}, {3}}
=============================================================================
