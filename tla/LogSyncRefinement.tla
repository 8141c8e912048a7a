-------------------------- MODULE LogSyncRefinement --------------------------
(***************************************************************************)
(* With one master, whose requests come one at a time, LogSync implements  *)
(* ReplicaLog: Origin's log is what is published, the databases of the     *)
(* other servers are the replicas.                                         *)
(***************************************************************************)
EXTENDS LogSync

CONSTANT Origin

Replicas == INSTANCE ReplicaLog WITH
    Replica   <- Server \ {Origin},
    Statement <- Change,
    published <- {<<i, log[Origin][i]>> : i \in Rows(Origin)},
    held      <- [s \in Server \ {Origin} |-> {c \in data[s] : Author[c] = Origin}]

\* Each slave reflects a prefix of Origin's log, whatever crashes, lost
\* connections and busy databases do to the listeners (SyncByLog.go).
HoldsAPrefix == Replicas!Spec

\* And in the end it reflects all of it, where statements may be run twice and
\* no listener has been cancelled.
HoldsEverything == Replicas!FairSpec
=============================================================================
