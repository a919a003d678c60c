-------------------------- MODULE MCBlockingQueue ---------------------------
(***************************************************************************)
(* Instances of BlockingQueue for TLC: two producers and two consumers     *)
(* that between them call every operation on a queue of two places.        *)
(***************************************************************************)
EXTENDS BlockingQueue, TLC

CONSTANTS p1, p2, c1, c2

BoundedOps ==
  p1 :> {"PushWithTimeout"} @@ p2 :> {"Push"}
  @@ c1 :> {"PopWithTimeout", "Size"} @@ c2 :> {"Pop", "WaitUntilEmpty", "Peek"}
=============================================================================
