---------------------------- MODULE EncodePipeline ----------------------------
(***************************************************************************)
(* The encoder's pipeline: the main thread adds the file header and the    *)
(* secrets to the input buffers in turn, each encoding thread moves items  *)
(* from its input buffer to its output buffer at its own speed, and the    *)
(* collect thread takes the items from the output buffers in turn.  Items  *)
(* are numbered in the order of their add; the file header is item 1.  A   *)
(* ring buffer is the bounded queue of BoundedFifo, which RingBuffer       *)
(* implements.                                                             *)
(*                                                                         *)
(* The codec of an encoding thread keeps the secret, its package and its   *)
(* key in buffers of its own object.  collect encodes the pathname of the  *)
(* file header with the codec of thread 0.  Two encodings in one codec at  *)
(* a time are a data race: each of them may yield anything.                *)
(***************************************************************************)
EXTENDS Naturals, Sequences, FiniteSets

CONSTANTS
  NumThreads,   \* NUM_THREADS
  EncodeRing,     \* RB_SIZE
  NumItems      \* bound: items that main adds

ASSUME PipelineAssumption ==
  /\ NumThreads \in Nat \ {0}
  /\ EncodeRing \in Nat \ {0, 1}
  /\ NumItems \in Nat

VARIABLES
  nextAddIndex,     \* nextAddIndex_
  inputbuffer,
  encoding,         \* the item each thread is encoding; 0 for none
  clashed,          \* another encoding has used the thread's codec meanwhile
  outputbuffer,
  nextBufferIndex,
  naming,           \* collect is encoding the pathname
  nameClashed,      \* likewise, for the encoding of the pathname
  added,            \* items that main has added
  collected         \* what collect has handed to the uploader

codecs == <<clashed, naming, nameClashed>>
encodeVars   == <<nextAddIndex, inputbuffer, encoding, outputbuffer, nextBufferIndex,
            added, collected, clashed, naming, nameClashed>>

Workers == 0 .. NumThreads - 1
Header  == 1

\* An item, and whether its shares are the shares of what was to be encoded.
Coded    == [id : 1 .. NumItems, whole : BOOLEAN]
Yields(id, clash) == {[id |-> id, whole |-> w] : w \in IF clash THEN BOOLEAN ELSE {TRUE}}

EncodeInit ==
  /\ nextAddIndex = 0
  /\ inputbuffer = [w \in Workers |-> <<>>]
  /\ encoding = [w \in Workers |-> 0]
  /\ outputbuffer = [w \in Workers |-> <<>>]
  /\ nextBufferIndex = 0
  /\ clashed = [w \in Workers |-> FALSE]
  /\ naming = FALSE
  /\ nameClashed = FALSE
  /\ added = 0
  /\ collected = <<>>

Following(i) == (i + 1) % NumThreads

\* Encoder::add, from the loop of main.
add ==
  /\ added < NumItems
  /\ Len(inputbuffer[nextAddIndex]) < EncodeRing
  /\ inputbuffer' = [inputbuffer EXCEPT ![nextAddIndex] = Append(@, added + 1)]
  /\ nextAddIndex' = Following(nextAddIndex)
  /\ added' = added + 1
  /\ UNCHANGED <<encoding, outputbuffer, nextBufferIndex, collected, codecs>>

\* thread_handler: an item is extracted; a secret is put into the codec.
extract(w) ==
  /\ encoding[w] = 0
  /\ inputbuffer[w] # <<>>
  /\ LET id   == Head(inputbuffer[w])
         both == w = 0 /\ naming /\ id # Header
     IN  /\ encoding' = [encoding EXCEPT ![w] = id]
         /\ clashed' = [clashed EXCEPT ![w] = both]
         /\ nameClashed' = (nameClashed \/ both)
  /\ inputbuffer' = [inputbuffer EXCEPT ![w] = Tail(@)]
  /\ UNCHANGED <<nextAddIndex, outputbuffer, nextBufferIndex, naming, added, collected>>

\* Variant: an item whose encoding fails is put back to be tried again.
insertOrRetry(w) ==
  /\ encoding[w] # 0
  /\ \/ /\ Len(outputbuffer[w]) < EncodeRing
        /\ \E y \in Yields(encoding[w], clashed[w]) :
             outputbuffer' = [outputbuffer EXCEPT ![w] = Append(@, y)]
        /\ UNCHANGED inputbuffer
     \/ /\ Len(inputbuffer[w]) < EncodeRing
        /\ inputbuffer' = [inputbuffer EXCEPT ![w] = <<encoding[w]>> \o @]
        /\ UNCHANGED outputbuffer
  /\ encoding' = [encoding EXCEPT ![w] = 0]
  /\ clashed' = [clashed EXCEPT ![w] = FALSE]
  /\ UNCHANGED <<nextAddIndex, nextBufferIndex, naming, nameClashed, added, collected>>

\* thread_handler: the encoded item is inserted.
insert(w) ==
  /\ encoding[w] # 0
  /\ Len(outputbuffer[w]) < EncodeRing
  /\ \E y \in Yields(encoding[w], clashed[w]) :
       outputbuffer' = [outputbuffer EXCEPT ![w] = Append(@, y)]
  /\ encoding' = [encoding EXCEPT ![w] = 0]
  /\ clashed' = [clashed EXCEPT ![w] = FALSE]
  /\ UNCHANGED <<nextAddIndex, inputbuffer, nextBufferIndex, naming, nameClashed, added, collected>>

\* Variant: collect takes from any output buffer that has an item.
collectAny ==
  \E w \in Workers :
    /\ ~naming
    /\ outputbuffer[w] # <<>>
    /\ outputbuffer' = [outputbuffer EXCEPT ![w] = Tail(@)]
    /\ nextBufferIndex' = Following(w)
    /\ collected' = Append(collected, Head(outputbuffer[w]))
    /\ UNCHANGED <<nextAddIndex, inputbuffer, encoding, added, codecs>>

\* collect: the next item from the next output buffer.  The pathname of the
\* header is put into the codec of thread 0; a secret's shares go to the
\* uploader.
collect ==
  LET it   == Head(outputbuffer[nextBufferIndex])
      both == encoding[0] \notin {0, Header}
  IN  /\ ~naming
      /\ outputbuffer[nextBufferIndex] # <<>>
      /\ outputbuffer' = [outputbuffer EXCEPT ![nextBufferIndex] = Tail(@)]
      /\ nextBufferIndex' = Following(nextBufferIndex)
      /\ IF it.id = Header
         THEN /\ naming' = TRUE
              /\ nameClashed' = both
              /\ clashed' = [clashed EXCEPT ![0] = @ \/ both]
              /\ UNCHANGED collected
         ELSE /\ collected' = Append(collected, it)
              /\ UNCHANGED codecs
      /\ UNCHANGED <<nextAddIndex, inputbuffer, encoding, added>>

\* collect: the shares of the pathname go to the uploader with the header.
collectHeader ==
  /\ naming
  /\ naming' = FALSE
  /\ nameClashed' = FALSE
  /\ \E y \in Yields(Header, nameClashed) : collected' = Append(collected, y)
  /\ UNCHANGED <<nextAddIndex, inputbuffer, encoding, outputbuffer, nextBufferIndex,
                 added, clashed>>

\* Every item has reached the uploader; the threads wait for more.
EncodeIdle ==
  /\ Len(collected) = NumItems
  /\ UNCHANGED encodeVars

thread_handler(w) == extract(w) \/ insert(w)

CollectThread == collect \/ collectHeader

EncodeNext == add \/ (\E w \in Workers : thread_handler(w)) \/ CollectThread \/ EncodeIdle

EncodeSpec == EncodeInit /\ [][EncodeNext]_encodeVars

\* Main, the encoding threads and collect are all scheduled.
FairEncodeSpec ==
  /\ EncodeSpec
  /\ WF_encodeVars(add) /\ WF_encodeVars(CollectThread)
  /\ \A w \in Workers : WF_encodeVars(thread_handler(w))

-----------------------------------------------------------------------------
\* Types of the pipeline's state; no buffer is fuller than it can be.
EncodeTypeOK ==
  /\ nextAddIndex \in Workers
  /\ nextBufferIndex \in Workers
  /\ encoding \in [Workers -> 0 .. NumItems]
  /\ inputbuffer \in [Workers -> Seq(1 .. NumItems)]
  /\ outputbuffer \in [Workers -> Seq(Coded)]
  /\ clashed \in [Workers -> BOOLEAN]
  /\ naming \in BOOLEAN
  /\ nameClashed \in BOOLEAN
  /\ \A w \in Workers : Len(inputbuffer[w]) <= EncodeRing /\ Len(outputbuffer[w]) <= EncodeRing
  /\ added \in 0 .. NumItems
  /\ collected \in Seq(Coded)

\* collect hands the items to the uploader in the order in which main added
\* them, the file header first, however the encoding threads are scheduled.
CollectedInOrder == \A i \in DOMAIN collected : collected[i].id = i

\* "encode pathname into shares for privacy", "encoding each secret into
\* shares": what goes to the uploader are the shares of the pathname and of
\* the secrets.
SharesWhole == \A i \in DOMAIN collected : collected[i].whole

\* Every item that main adds reaches the uploader: the threads never wait for
\* each other in a circle, and none is left waiting in a buffer.
AllCollected == added > 0 ~> Len(collected) = NumItems
===============================================================================
