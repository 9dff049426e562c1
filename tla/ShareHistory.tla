----------------------------- MODULE ShareHistory -----------------------------
(***************************************************************************)
(* ShareIndex with a history: how often each connection has stored each    *)
(* share.                                                                  *)
(***************************************************************************)
EXTENDS ShareIndex

VARIABLE
  made  \* how often each thread has copied each share into a buffer

historyVars == <<vars, made>>

HistoryInit ==
  /\ Init
  /\ made = [t \in Threads |-> [s \in Shares |-> 0]]

HistoryNext ==
  /\ Next
  /\ made' = [t \in Threads |-> [s \in Shares |->
                IF pc[t] = "copy" /\ pc'[t] # "copy" /\ Current(t) = s
                THEN made[t][s] + 1 ELSE made[t][s]]]

HistorySpec == HistoryInit /\ [][HistoryNext]_historyVars

Storers(s) == {t \in Threads : made[t][s] > 0}

\* Deduplication: a connection stores a share at most once in its life, also when
\* a package repeats the share (the note in interUserIndexUpdate_), when a later
\* package has it again, or when buffers were flushed, lost or given up in
\* between; and there are never more copies than connections that stored one.
StoredOncePerConnection ==
  \A s \in Shares :
    /\ \A t \in Threads : made[t][s] <= 1
    /\ Cardinality(Copies(s)) <= Cardinality(Storers(s))
===============================================================================
