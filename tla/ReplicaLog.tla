----------------------------- MODULE ReplicaLog -----------------------------
(***************************************************************************)
(* What replication by log promises a reader of a slave: the master        *)
(* publishes statements under rising ids, and each replica's database      *)
(* reflects a prefix of them, never one with an older one missing.         *)
(***************************************************************************)
EXTENDS Integers

CONSTANTS Replica, Statement, Id

VARIABLES
    published, \* the rows of the master's log, as <<id, statement>>
    held       \* held[r]: the statements replica r reflects

Init == published = {} /\ held = [r \in Replica |-> {}]

Publish(i, c) ==
    /\ \A row \in published : row[1] < i
    /\ published' = published \cup {<<i, c>>}
    /\ UNCHANGED held

Hold(r, i, c) ==
    /\ <<i, c>> \in published /\ c \notin held[r]
    /\ \A row \in published : row[1] < i => row[2] \in held[r]
    /\ held' = [held EXCEPT ![r] = @ \cup {c}]
    /\ UNCHANGED published

HoldNext(r) == \E i \in Id, c \in Statement : Hold(r, i, c)

Next ==
    \/ \E i \in Id, c \in Statement : Publish(i, c)
    \/ \E r \in Replica : HoldNext(r)

Spec == Init /\ [][Next]_<<published, held>>

\* A replica goes on until it holds everything.
FairSpec == Spec /\ \A r \in Replica : WF_<<published, held>>(HoldNext(r))
=============================================================================
