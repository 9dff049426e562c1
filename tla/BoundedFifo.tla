----------------------------- MODULE BoundedFifo ------------------------------
(***************************************************************************)
(* What a RingBuffer<T> promises the client's threads: a first-in          *)
(* first-out queue of at most Capacity items.                              *)
(***************************************************************************)
EXTENDS Naturals, Sequences

CONSTANTS Items, Capacity

VARIABLES
  queue,  \* inserted and not yet extracted
  taken   \* extracted so far

fifoVars == <<queue, taken>>

FifoInit == queue = <<>> /\ taken = <<>>

Put(v) ==
  /\ Len(queue) < Capacity
  /\ queue' = Append(queue, v)
  /\ UNCHANGED taken

Take ==
  /\ queue # <<>>
  /\ taken' = Append(taken, Head(queue))
  /\ queue' = Tail(queue)

FifoNext == (\E v \in Items : Put(v)) \/ Take

FifoSpec == FifoInit /\ [][FifoNext]_fifoVars
===============================================================================
