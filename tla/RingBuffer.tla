------------------------------ MODULE RingBuffer ------------------------------
(***************************************************************************)
(* RingBuffer<T> of BasicRingBuffer.hh, which joins two threads of the     *)
(* client: every ring buffer has one thread that inserts and one that      *)
(* extracts.  Insert and Extract hold mAccess from beginning to end,       *)
(* except while they wait for a condition, so a call is one step, or two   *)
(* when it waits.  A thread that is woken does not test the condition      *)
(* again: the code waits in an "if".  All buffers are constructed with     *)
(* block = true, and nothing reads run, the flag of StopWhenEmptied.       *)
(***************************************************************************)
EXTENDS Integers, Sequences

CONSTANTS
  Items,
  Empty,             \* a slot that was never written
  Size,              \* the constructor's argument
  MaxInserts         \* bound: calls of Insert

ASSUME RingAssumption ==
  /\ Size \in Nat
  /\ MaxInserts \in Nat

\* The constructor's clamp.
max == IF Size < 2 THEN 2 ELSE Size

VARIABLES
  buffer,
  readIndex,
  writeIndex,
  count,
  producer,    \* "run", "wait" (in pthread_cond_wait on cvFull) or "woken"
  consumer,    \* likewise, on cvEmpty
  inserts,     \* calls of Insert that have stored their item
  data         \* what the calls of Extract have returned

vars == <<buffer, readIndex, writeIndex, count, producer, consumer, inserts, data>>

Init ==
  /\ buffer = [i \in 0 .. max - 1 |-> Empty]
  /\ readIndex = 0
  /\ writeIndex = 0
  /\ count = 0
  /\ producer = "run"
  /\ consumer = "run"
  /\ inserts = 0
  /\ data = <<>>

\* Variant: the index wraps one slot early.
nextValEarly(x) == IF x + 2 >= max THEN 0 ELSE x + 1

nextVal(x) == IF x + 1 >= max THEN 0 ELSE x + 1

\* Variant: the signal is forgotten.
NoSignal(other) == other

\* pthread_cond_signal: the other thread if it waits; lost otherwise.
Signalled(other) == IF other = "wait" THEN "woken" ELSE other

\* Insert, from the test of count on.
Insert ==
  /\ (producer = "run" /\ count # max) \/ producer = "woken"
  /\ inserts < MaxInserts
  /\ \E v \in Items : buffer' = [buffer EXCEPT ![writeIndex] = v]
  /\ writeIndex' = nextVal(writeIndex)
  /\ count' = count + 1
  /\ producer' = "run"
  /\ consumer' = Signalled(consumer)
  /\ inserts' = inserts + 1
  /\ UNCHANGED <<readIndex, data>>

InsertWaits ==
  /\ producer = "run"
  /\ inserts < MaxInserts
  /\ count = max
  /\ producer' = "wait"
  /\ UNCHANGED <<buffer, readIndex, writeIndex, count, consumer, inserts, data>>

\* Extract, from the test of count on.
Extract ==
  /\ (consumer = "run" /\ count # 0) \/ consumer = "woken"
  /\ data' = Append(data, buffer[readIndex])
  /\ readIndex' = nextVal(readIndex)
  /\ count' = count - 1
  /\ consumer' = "run"
  /\ producer' = Signalled(producer)
  /\ UNCHANGED <<buffer, writeIndex, inserts>>

ExtractWaits ==
  /\ consumer = "run"
  /\ count = 0
  /\ consumer' = "wait"
  /\ UNCHANGED <<buffer, readIndex, writeIndex, count, producer, inserts, data>>

\* The inserting thread is done, and the other waits for more.
Idle ==
  /\ inserts = MaxInserts
  /\ consumer = "wait"
  /\ UNCHANGED vars

Next == Insert \/ InsertWaits \/ Extract \/ ExtractWaits \/ Idle

Spec == Init /\ [][Next]_vars

\* Both threads run, and a waiting thread that was signalled gets mAccess.
FairSpec == Spec /\ WF_vars(Insert \/ InsertWaits) /\ WF_vars(Extract \/ ExtractWaits)

-----------------------------------------------------------------------------
\* The slot of the i-th item, from the one that is extracted next.
Slot(i) == IF readIndex + i - 1 < max THEN readIndex + i - 1 ELSE readIndex + i - 1 - max

Contents == [i \in 1 .. count |-> buffer[Slot(i)]]

Fifo == INSTANCE BoundedFifo WITH Capacity <- max, queue <- Contents, taken <- data

\* Types of the buffer's fields, with the occupied slots between the indexes.
TypeOK ==
  /\ buffer \in [0 .. max - 1 -> Items \cup {Empty}]
  /\ readIndex \in 0 .. max - 1
  /\ count \in 0 .. max
  /\ writeIndex = IF readIndex + count < max THEN readIndex + count
                  ELSE readIndex + count - max
  /\ producer \in {"run", "wait", "woken"}
  /\ consumer \in {"run", "wait", "woken"}
  /\ inserts \in 0 .. MaxInserts
  /\ data \in Seq(Items \cup {Empty})

\* Insert and Extract implement a bounded queue: nothing is lost, repeated or
\* reordered, and no unwritten slot is ever returned.
IsBoundedFifo == Fifo!FifoSpec

\* No wake-up is lost: the threads never wait for each other, and each of
\* them waits only while its condition holds.
WaitsForReason ==
  /\ producer = "wait" => count = max
  /\ consumer = "wait" => count = 0
  /\ producer = "woken" => count < max
  /\ consumer = "woken" => count > 0

\* All the items that are inserted come out of the buffer, to the last one.
AllExtracted == inserts > 0 ~> Len(data) = MaxInserts
===============================================================================
