---------------------------- MODULE BoundedFifo -----------------------------
(***************************************************************************)
(* What common::BlockingQueue promises its callers: values leave in the    *)
(* order in which they came, one at a time, and a queue of limited size    *)
(* never holds more than its size (0 means no limit).                      *)
(***************************************************************************)
EXTENDS Naturals, Sequences

CONSTANTS Value, QueueSize

VARIABLE fifo

FifoInit == fifo = <<>>

Put(v) ==
  /\ QueueSize = 0 \/ Len(fifo) < QueueSize
  /\ fifo' = Append(fifo, v)

Take ==
  /\ fifo # <<>>
  /\ fifo' = Tail(fifo)

FifoNext == Take \/ \E v \in Value : Put(v)

FifoSpec == FifoInit /\ [][FifoNext]_fifo
=============================================================================
