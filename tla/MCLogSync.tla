----------------------------- MODULE MCLogSync -----------------------------
(* Instances of LogSync for TLC. *)
EXTENDS LogSyncRefinement, TLC

CONSTANTS A, B, h1, h2, h3, c1, c2, c3

\* A is the master of B; B also of A.
OneWay == A :> {} @@ B :> {A}
TwoWay == A :> {B} @@ B :> {A}

OneHandler  == h1 :> A
TwoHandlers == h1 :> A @@ h2 :> A
BothHandle  == h1 :> A @@ h2 :> B
MasterAndSlave == h1 :> A @@ h2 :> A @@ h3 :> B

TwoByA == c1 :> A @@ c2 :> A
AandB  == c1 :> A @@ c2 :> B
AABy   == c1 :> A @@ c2 :> A @@ c3 :> B

\* The clocks of two servers: one after the other, interleaved, colliding.
SameIds   == [s \in Server |-> Id]
Apart     == [s \in Server |-> {i \in Id : (i % 2 = 1) <=> (s = A)}]

NoFaults     == [f \in Fault |-> 0]
NetOnce      == [f \in Fault |-> IF f = "net" THEN 1 ELSE 0]
OneOfEach    == [f \in Fault |-> 1]
CrashOnce    == [f \in Fault |-> IF f = "crash" THEN 1 ELSE 0]
BusyOnce     == [f \in Fault |-> IF f = "busy" THEN 1 ELSE 0]
CrashTwice   == [f \in Fault |-> IF f = "crash" THEN 2 ELSE 0]
=============================================================================
