------------------------------- MODULE MCUpload -------------------------------
(* The client's side of an upload: the ring buffer, the encoder's pipeline *)
(* and the session of one cloud, each by itself, in one state space.  part *)
(* says which of them moves; the others stay in an initial state.  The     *)
(* fairness of each part is that of its own module.                        *)
EXTENDS RingBuffer, EncodePipeline, UploadSession

\* A file of three secrets, with shares of two sizes.
MCShareSize == <<1, 2, 1>>

VARIABLE part

uploadPartsVars == <<part, vars, encodeVars, uploadVars>>

UploadPartsInit ==
  /\ part \in {"ring", "encode", "upload"}
  /\ Init /\ EncodeInit /\ UploadInit
  /\ part # "upload" => keyFile = <<>>

UploadPartsNext ==
  \/ part = "ring" /\ Next /\ UNCHANGED <<part, encodeVars, uploadVars>>
  \/ part = "encode" /\ EncodeNext /\ UNCHANGED <<part, vars, uploadVars>>
  \/ part = "upload" /\ UploadNext /\ UNCHANGED <<part, vars, encodeVars>>

UploadPartsFairness ==
  /\ WF_vars(part = "ring" /\ (Insert \/ InsertWaits))
  /\ WF_vars(part = "ring" /\ (Extract \/ ExtractWaits))
  /\ WF_encodeVars(part = "encode" /\ add)
  /\ WF_encodeVars(part = "encode" /\ CollectThread)
  /\ \A w \in Workers : WF_encodeVars(part = "encode" /\ thread_handler(w))
  /\ WF_uploadVars(part = "upload" /\ Collect)
  /\ WF_uploadVars(part = "upload" /\ Upload("data"))
  /\ WF_uploadVars(part = "upload" /\ (Upload("meta") \/ KeyUpload))
  /\ WF_uploadVars(part = "upload" /\ indicateEnd)
  /\ WF_uploadVars(part = "upload" /\ Serve("data"))
  /\ WF_uploadVars(part = "upload" /\ (Serve("meta") \/ recvKeyRecipe))

UploadPartsSpec ==
  UploadPartsInit /\ [][UploadPartsNext]_uploadPartsVars /\ UploadPartsFairness
===============================================================================
