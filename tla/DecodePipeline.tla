---------------------------- MODULE DecodePipeline ----------------------------
(***************************************************************************)
(* The decoder's pipeline: downloadFile tells the decoder how many secrets *)
(* there are and adds the shares of each of them to the input buffers in   *)
(* turn, each decoding thread moves secrets from its input buffer to its   *)
(* output buffer, and the collect thread takes them from the output        *)
(* buffers in turn and writes them to the file through a write buffer.     *)
(* Secrets are numbered in the order of the file.  A ring buffer is the    *)
(* bounded queue of BoundedFifo, which RingBuffer implements.              *)
(***************************************************************************)
EXTENDS Naturals, Sequences, Functions

CONSTANTS
  DecodeThreads,   \* DECODE_NUM_THREADS
  DecodeRing,      \* DECODE_RB_SIZE
  SecretSize,      \* the size of each secret of the file
  WriteBuffer      \* FWRITE_BUFFER_SIZE

ASSUME DecodeAssumption ==
  /\ DecodeThreads \in Nat \ {0}
  /\ DecodeRing \in Nat \ {0, 1}
  /\ SecretSize \in Seq(1 .. WriteBuffer)   \* a secret fits the write buffer
  /\ SecretSize # <<>>                      \* an empty file is never stored

Decoders == 0 .. DecodeThreads - 1
Unset    == 0   \* whatever an uninitialised totalSecrets_ holds, it is not read

VARIABLES
  totalSecrets,  \* totalSecrets_
  addedSecrets,         \* the secrets that downloadFile has added
  shares,        \* inputbuffer_
  decoding,      \* the secret that each thread is decoding; 0 for none
  decoded,       \* i of thread_handler; it ends at totalSecrets_
  secrets,       \* outputbuffer_
  turn,          \* i of collect
  written,       \* count of collect
  buf,           \* the secrets in the write buffer
  file,          \* fw_: the secrets that have been written
  collecting     \* collect has not returned

decodeVars == <<totalSecrets, addedSecrets, shares, decoding, decoded, secrets, turn,
                written, buf, file, collecting>>

DecodeInit ==
  /\ totalSecrets = Unset
  /\ addedSecrets = 0
  /\ shares = [w \in Decoders |-> <<>>]
  /\ decoding = [w \in Decoders |-> 0]
  /\ decoded = [w \in Decoders |-> 0]
  /\ secrets = [w \in Decoders |-> <<>>]
  /\ turn = 0
  /\ written = 0
  /\ buf = <<>>
  /\ file = <<>>
  /\ collecting = TRUE

\* downloadFile, before its loop.
setTotal ==
  /\ totalSecrets = Unset
  /\ totalSecrets' = Len(SecretSize)
  /\ UNCHANGED <<addedSecrets, shares, decoding, decoded, secrets, turn, written, buf, file, collecting>>

\* downloadFile: the shares of the next secret, for the thread whose turn it is.
addShares ==
  LET w == addedSecrets % DecodeThreads
  IN  /\ totalSecrets # Unset
      /\ addedSecrets < totalSecrets
      /\ Len(shares[w]) < DecodeRing
      /\ shares' = [shares EXCEPT ![w] = Append(@, addedSecrets + 1)]
      /\ addedSecrets' = addedSecrets + 1
      /\ UNCHANGED <<totalSecrets, decoding, decoded, secrets, turn, written, buf, file, collecting>>

\* thread_handler: a secret's shares are extracted and decoded.
extractShares(w) ==
  /\ decoding[w] = 0
  /\ decoded[w] < totalSecrets
  /\ shares[w] # <<>>
  /\ decoding' = [decoding EXCEPT ![w] = Head(shares[w])]
  /\ shares' = [shares EXCEPT ![w] = Tail(@)]
  /\ UNCHANGED <<totalSecrets, addedSecrets, decoded, secrets, turn, written, buf, file, collecting>>

\* Variant: a thread ends when its share of the secrets, rounded down, is done.
insertSecretStopsEarly(w) ==
  /\ decoding[w] # 0
  /\ Len(secrets[w]) < DecodeRing
  /\ secrets' = [secrets EXCEPT ![w] = Append(@, decoding[w])]
  /\ decoding' = [decoding EXCEPT ![w] = 0]
  /\ decoded' = [decoded EXCEPT ![w] =
                   IF @ + 1 = totalSecrets \div DecodeThreads THEN totalSecrets ELSE @ + 1]
  /\ UNCHANGED <<totalSecrets, addedSecrets, shares, turn, written, buf, file, collecting>>

\* thread_handler: the secret is inserted and counted.  A thread that has
\* decoded totalSecrets_ secrets by itself returns, the others wait for ever.
insertSecret(w) ==
  /\ decoding[w] # 0
  /\ Len(secrets[w]) < DecodeRing
  /\ secrets' = [secrets EXCEPT ![w] = Append(@, decoding[w])]
  /\ decoding' = [decoding EXCEPT ![w] = 0]
  /\ decoded' = [decoded EXCEPT ![w] = @ + 1]
  /\ UNCHANGED <<totalSecrets, addedSecrets, shares, turn, written, buf, file, collecting>>

Filled(ss) == SumFunction([i \in DOMAIN ss |-> SecretSize[ss[i]]])

\* Variant: a full buffer is emptied without being written.
collectSecretDrops ==
  LET s == Head(secrets[turn])
  IN  /\ collecting
      /\ secrets[turn] # <<>>
      /\ secrets' = [secrets EXCEPT ![turn] = Tail(@)]
      /\ turn' = (turn + 1) % DecodeThreads
      /\ written' = written + 1
      /\ collecting' = (written' # totalSecrets)
      /\ LET kept == IF Filled(buf) + SecretSize[s] > WriteBuffer THEN <<s>> ELSE Append(buf, s)
         IN  IF collecting' THEN buf' = kept /\ UNCHANGED file
             ELSE buf' = <<>> /\ file' = file \o kept
      /\ UNCHANGED <<totalSecrets, addedSecrets, shares, decoding, decoded>>

\* collect: the next secret from the next output buffer.  A buffer without
\* room for it is written first; after the last secret the rest is written.
collectSecret ==
  LET s    == Head(secrets[turn])
      full == Filled(buf) + SecretSize[s] > WriteBuffer
      kept == IF full THEN <<s>> ELSE Append(buf, s)
      out  == IF full THEN file \o buf ELSE file
  IN  /\ collecting
      /\ secrets[turn] # <<>>
      /\ secrets' = [secrets EXCEPT ![turn] = Tail(@)]
      /\ turn' = (turn + 1) % DecodeThreads
      /\ written' = written + 1
      /\ collecting' = (written' # totalSecrets)
      /\ IF collecting' THEN buf' = kept /\ file' = out
         ELSE buf' = <<>> /\ file' = out \o kept
      /\ UNCHANGED <<totalSecrets, addedSecrets, shares, decoding, decoded>>

DecodeThread(w) == extractShares(w) \/ insertSecret(w)

DecodeNext ==
  \/ setTotal \/ addShares \/ collectSecret
  \/ \E w \in Decoders : DecodeThread(w)

DecodeSpec == DecodeInit /\ [][DecodeNext]_decodeVars

\* Main, the decoding threads and collect are all scheduled.
DecodeFairness ==
  /\ WF_decodeVars(setTotal \/ addShares) /\ WF_decodeVars(collectSecret)
  /\ \A w \in Decoders : WF_decodeVars(DecodeThread(w))

-----------------------------------------------------------------------------
\* Types of the decoder's state; no ring or write buffer is overfull.
DecodeTypeOK ==
  /\ totalSecrets \in {Unset, Len(SecretSize)}
  /\ addedSecrets \in 0 .. Len(SecretSize)
  /\ decoding \in [Decoders -> 0 .. Len(SecretSize)]
  /\ turn \in Decoders
  /\ \A w \in Decoders : Len(shares[w]) <= DecodeRing /\ Len(secrets[w]) <= DecodeRing
  /\ Filled(buf) <= WriteBuffer

\* However the decoding threads are scheduled and wherever the write buffer is
\* flushed, the restored file followed by the write buffer is the beginning of
\* the original, secret by secret.
FileInOrder ==
  file \o buf = [i \in 1 .. written |-> i]

\* Once the number of secrets is known, collect returns with all of them in
\* the file, although most decoding threads never end.
FileWritten == totalSecrets # Unset ~> (~collecting /\ Len(file) = Len(SecretSize))
===============================================================================
