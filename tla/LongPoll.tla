------------------------------ MODULE LongPoll ------------------------------
(***************************************************************************)
(* The long poll: a slave asks the master for the rows of its log that it  *)
(* lacks, then for news, and the request for news stays open until there   *)
(* are some, or until a newer request of the same slave has replaced it.   *)
(*                                                                         *)
(* The log is its newest id; what a row does is the matter of LogSync.  A  *)
(* goroutine of the master serves a request also after the connection to   *)
(* the slave has broken: it ignores the errors of its writes.              *)
(***************************************************************************)
EXTENDS Naturals, FiniteSets

CONSTANTS
    Slave,      \* the slaves, each with its clientToken
    Req,        \* the goroutines that may serve Listen
    NoReq,      \* none of them
    MaxId,      \* bound on the ids of the log
    MaxStamp,   \* bound on the requests made
    MaxFault    \* bound on lost connections, crashes and restarts of listeners

ASSUME ReqAssumption == NoReq \notin Req
ASSUME BoundAssumption == {MaxId, MaxStamp, MaxFault} \subseteq Nat

VARIABLES
    last,       \* LastID: the newest row of sql_log
    push,       \* rows are inserted whose Push has not come yet
    waiting,    \* waitingRequestMap: the stamp of the newest request, or 0
    clock,      \* the newest stamp
    req,        \* req[r]: what goroutine r does, for whom, its stamp and lastId
    slave,      \* slave[s]: what s does, its last id, and who serves it
    faults      \* so far

vars == <<last, push, waiting, clock, req, slave, faults>>

Idle   == [pc |-> "idle", for |-> NoReq, stamp |-> 0, lastId |-> 0]
Active(r) == req[r].pc # "idle"

Init ==
    /\ last = 0 /\ push = FALSE /\ clock = 0 /\ faults = 0
    /\ waiting = [s \in Slave |-> 0]
    /\ req = [r \in Req |-> Idle]
    /\ slave = [s \in Slave |-> [at |-> "sync", lastId |-> 0, by |-> NoReq]]

(***************************************************************************)
(* The log of the master: rows are inserted, then Push.  Push and the      *)
(* keep-alive wake whoever waits at that moment, and nobody else.          *)
(***************************************************************************)
Woken == [r \in Req |-> IF req[r].pc = "wait" THEN [req[r] EXCEPT !.pc = "woken"]
                                              ELSE req[r]]

InsertRow ==
    /\ last < MaxId
    /\ last' = last + 1 /\ push' = TRUE
    /\ UNCHANGED <<waiting, clock, req, slave, faults>>

\* A row from a master of this master, of which nobody is told.
StoreRow ==
    /\ last < MaxId
    /\ last' = last + 1
    /\ UNCHANGED <<push, waiting, clock, req, slave, faults>>

Push ==
    /\ push /\ push' = FALSE
    /\ req' = Woken
    /\ UNCHANGED <<last, waiting, clock, slave, faults>>

\* Mutant: a heartbeat that wakes nobody.
SilentKeepAlive == UNCHANGED vars

\* Every KEEP_ALIVE_TIME seconds.
KeepAlive ==
    /\ req' = Woken
    /\ UNCHANGED <<last, push, waiting, clock, slave, faults>>

(***************************************************************************)
(* The slave: callRequestSqlLog until nothing is new, then Listen.  After  *)
(* a push callRequestSqlLog is called once more, by the same loopListen.   *)
(***************************************************************************)
\* Before the long poll, or after a push.
Fetches(s) == slave[s].at \in {"sync", "pushed"}

\* Mutant: the id after the last row.
RequestBeyond(s) ==
    /\ Fetches(s)
    /\ slave' = [slave EXCEPT ![s].at = "listen", ![s].lastId = last + 1]
    /\ UNCHANGED <<last, push, waiting, clock, req, faults>>

\* One get_log: a page of rows, and the next; after an empty answer the
\* loopListen goes on to listen, or is over and begins again.
RequestSqlLog(s) ==
    /\ Fetches(s)
    /\ IF slave[s].lastId = last
       THEN slave' = [slave EXCEPT ![s].at = IF @ = "sync" THEN "listen" ELSE "sync"]
       ELSE \E n \in slave[s].lastId + 1..last :
               slave' = [slave EXCEPT ![s].lastId = n]
    /\ UNCHANGED <<last, push, waiting, clock, req, faults>>

\* Mutant: who is in the map stays in it.
ListenAgain(s, r) ==
    /\ slave[s].at = "listen" /\ ~Active(r) /\ clock < MaxStamp
    /\ clock' = clock + 1
    /\ waiting' = [waiting EXCEPT ![s] = IF @ = 0 THEN clock' ELSE @]
    /\ req' = [req EXCEPT ![r] = [pc |-> "announce", for |-> s, stamp |-> clock',
                                  lastId |-> slave[s].lastId]]
    /\ slave' = [slave EXCEPT ![s].at = "wait", ![s].by = r]
    /\ UNCHANGED <<last, push, faults>>

\* The request, and its entry in the map under the lock.
Listen(s, r) ==
    /\ slave[s].at = "listen" /\ ~Active(r) /\ clock < MaxStamp
    /\ clock' = clock + 1
    /\ waiting' = [waiting EXCEPT ![s] = clock']
    /\ req' = [req EXCEPT ![r] = [pc |-> "announce", for |-> s, stamp |-> clock',
                                  lastId |-> slave[s].lastId]]
    /\ slave' = [slave EXCEPT ![s].at = "wait", ![s].by = r]
    /\ UNCHANGED <<last, push, faults>>

(***************************************************************************)
(* The handler.                                                            *)
(***************************************************************************)
\* Broadcast, so that the request it replaces may leave.
Announce(r) ==
    /\ req[r].pc = "announce"
    /\ req' = [Woken EXCEPT ![r].pc = "test"]
    /\ UNCHANGED <<last, push, waiting, clock, slave, faults>>

\* The request r ends, and its slave, if it still waits, goes on at p.
End(r, p) ==
    /\ req' = [req EXCEPT ![r] = Idle]
    /\ slave' = [s \in Slave |-> IF slave[s].by = r
                                 THEN [slave[s] EXCEPT !.at = p, !.by = NoReq]
                                 ELSE slave[s]]

\* A 1, and the end, or a 0 and on to Cond.Wait.
Test(r) ==
    /\ req[r].pc = "test"
    /\ IF last > req[r].lastId
       THEN End(r, "pushed")
       ELSE /\ req' = [req EXCEPT ![r].pc = "block"]
            /\ UNCHANGED slave
    /\ UNCHANGED <<last, push, waiting, clock, faults>>

\* Only now a broadcast reaches it.
Wait(r) ==
    /\ req[r].pc = "block"
    /\ req' = [req EXCEPT ![r].pc = "wait"]
    /\ UNCHANGED <<last, push, waiting, clock, slave, faults>>

\* Mutant: a request that has been replaced tests again.
NeverLeave(r) ==
    /\ req[r].pc = "woken"
    /\ req' = [req EXCEPT ![r].pc = "test"]
    /\ UNCHANGED <<last, push, waiting, clock, slave, faults>>

\* The map is read without the lock; who is not in it any more ends, and its
\* connection with it.
CheckReplaced(r) ==
    /\ req[r].pc = "woken"
    /\ IF waiting[req[r].for] = req[r].stamp
       THEN /\ req' = [req EXCEPT ![r].pc = "test"]
            /\ UNCHANGED slave
       ELSE End(r, "sync")
    /\ UNCHANGED <<last, push, waiting, clock, faults>>

(***************************************************************************)
(* A connection breaks, or a request fails, which only the slave notices;  *)
(* the master stops, also because the runtime finds the map read while it  *)
(* is written, and starts again.                                           *)
(***************************************************************************)
\* loopListen ends.  It is called again, except after a request that failed
\* after a push: then the listener is cancelled.
Lost(sl) == [sl EXCEPT !.at = IF @ \in {"pushed", "dead"} THEN "dead" ELSE "sync",
                       !.by = NoReq]

Break(s) ==
    /\ faults < MaxFault /\ slave[s].at # "dead"
    /\ faults' = faults + 1
    /\ slave' = [slave EXCEPT ![s] = Lost(@)]
    /\ UNCHANGED <<last, push, waiting, clock, req>>

\* Who waits has lost the connection; of the others, those whose request was
\* under way.
Crash ==
    /\ faults < MaxFault
    /\ faults' = faults + 1
    /\ push' = FALSE
    /\ waiting' = [s \in Slave |-> 0]
    /\ req' = [r \in Req |-> Idle]
    /\ \E hit \in SUBSET Slave :
          slave' = [s \in Slave |-> IF s \in hit \/ slave[s].at = "wait"
                                   THEN Lost(slave[s]) ELSE slave[s]]
    /\ UNCHANGED <<last, clock>>

\* The process of the slave starts, or its administrator saves the settings
\* or has the log synchronised: a new listener in place of the old one.
ListenAll(s) ==
    /\ slave[s].at # "dead" => faults < MaxFault
    /\ faults' = IF slave[s].at = "dead" THEN faults ELSE faults + 1
    /\ slave' = [slave EXCEPT ![s].at = "sync", ![s].by = NoReq]
    /\ UNCHANGED <<last, push, waiting, clock, req>>

Serve(r) == Announce(r) \/ Test(r) \/ Wait(r) \/ CheckReplaced(r)
Ask(s)   == RequestSqlLog(s) \/ \E r \in Req : Listen(s, r)

Next ==
    \/ InsertRow \/ StoreRow \/ Push \/ KeepAlive
    \/ \E s \in Slave : Ask(s)
    \/ \E r \in Req : Serve(r)
    \/ \E s \in Slave : Break(s) \/ ListenAll(s)
    \/ Crash

Spec == Init /\ [][Next]_vars

\* Goroutines and slaves go on; the heartbeat comes again and again.
FairSpec == /\ Spec /\ WF_vars(Push) /\ WF_vars(KeepAlive)
            /\ \A s \in Slave : WF_vars(Ask(s))
            /\ \A r \in Req : WF_vars(Serve(r))

(***************************************************************************)
(* Properties.                                                             *)
(***************************************************************************)
ReqState   == [pc : {"idle", "announce", "test", "block", "wait", "woken"},
               for : Slave \cup {NoReq}, stamp : 0..MaxStamp, lastId : 0..MaxId]
SlaveState == [at : {"sync", "listen", "wait", "pushed", "dead"}, lastId : 0..MaxId,
               by : Req \cup {NoReq}]

TypeOK ==
    /\ last \in 0..MaxId /\ push \in BOOLEAN /\ clock \in 0..MaxStamp
    /\ faults \in 0..MaxFault
    /\ waiting \in [Slave -> 0..MaxStamp]
    /\ req \in [Req -> ReqState]
    /\ slave \in [Slave -> SlaveState]

\* A slave that waits is served by a request that is its own, that knows
\* its last id, and that nobody has told to leave: no other request of the
\* same slave, left over from before its connection broke, makes it leave,
\* and none holds the place of the one it waits for.
ServedByItsOwn ==
    \A s \in Slave : slave[s].at = "wait" =>
        LET r == slave[s].by
        IN  /\ r \in Req /\ Active(r)
            /\ req[r].for = s /\ req[r].lastId = slave[s].lastId
            /\ req[r].stamp = waiting[s]

\* Every row reaches every slave, also when it is inserted and pushed
\* between the test of the newest id and the wait, when the connection has
\* broken, and when the master has stopped in between; but not while the
\* listener is cancelled, after a request that failed after a push
\* (SyncByLog.go:129).  A listener that is started again gets it.
RowsArrive ==
    \A s \in Slave : \A n \in 1..MaxId :
        (last >= n) ~> (slave[s].lastId >= n \/ slave[s].at = "dead")

\* A request that a newer one of its slave has replaced ends, whether or
\* not there is ever a new row; requests of slaves that come and go do not
\* pile up.
ReplacedLeaves ==
    \A r \in Req :
        (Active(r) /\ req[r].stamp # waiting[req[r].for])
            ~> (~Active(r) \/ req[r].stamp = waiting[req[r].for])
=============================================================================
