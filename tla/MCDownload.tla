------------------------------ MODULE MCDownload ------------------------------
(* The client's side of a download: the decoder's pipeline, and the        *)
(* session with two clouds, each by itself, in one state space.  side says *)
(* which of them moves; the other stays in an initial state.  The fairness *)
(* of each is that of its own module.                                      *)
EXTENDS DecodePipeline, DownloadSession

\* The write buffer holds one to three of these nine secrets at a time.
MCSecretSize == <<1, 2, 1, 3, 1, 1, 2, 1, 2>>
\* Two meta chunks, one of which lists two secrets and the other one.
MCSecrets == <<1, 2, 3>>
MCEnds    == <<2, 3>>

VARIABLE side

downloadPartsVars == <<side, decodeVars, downVars>>

DownloadPartsInit ==
  /\ side \in {"decode", "download"}
  /\ DecodeInit /\ DownloadInit
  /\ side # "download" => keyRecipe = [c \in Cloud |-> OwnKeys(NumMeta)]

DownloadPartsNext ==
  \/ side = "decode" /\ DecodeNext /\ UNCHANGED <<side, downVars>>
  \/ side = "download" /\ DownloadNext /\ UNCHANGED <<side, decodeVars>>

DownloadPartsFairness ==
  /\ WF_decodeVars(side = "decode" /\ (setTotal \/ addShares))
  /\ WF_decodeVars(side = "decode" /\ collectSecret)
  /\ \A w \in Decoders : WF_decodeVars(side = "decode" /\ DecodeThread(w))
  /\ WF_downVars(side = "download" /\ Main)
  /\ \A d \in Sides, c \in Cloud : WF_downVars(side = "download" /\ Thread(d, c))
  /\ \A i \in 1 .. MaxSessions, c \in Cloud : WF_downVars(side = "download" /\ Handler(i, c))

DownloadPartsSpec ==
  DownloadPartsInit /\ [][DownloadPartsNext]_downloadPartsVars /\ DownloadPartsFairness
===============================================================================
