--------------------------- MODULE LongPollProofs ---------------------------
(***************************************************************************)
(* For any slaves, goroutines, ids, requests and faults: every variable    *)
(* keeps its type, a slave that waits is served by the newest request of   *)
(* its own, and no other request of that slave holds its place.            *)
(***************************************************************************)
EXTENDS LongPoll, TLAPS

\* A slave that does not wait has no request.
NotServed == \A s \in Slave : slave[s].at # "wait" => slave[s].by = NoReq

\* Stamps are given once, and none is above the clock.
StampsDiffer ==
    \A r, q \in Req :
        Active(r) => /\ req[r].stamp <= clock
                     /\ Active(q) /\ req[q].stamp = req[r].stamp => r = q

IInv == TypeOK /\ ServedByItsOwn /\ NotServed /\ StampsDiffer

\* Of the requests of a slave, left over or not, one at most has the stamp
\* in the map: when all are woken, only that one goes on.
OneHasThePlace ==
    \A s \in Slave : \A r, q \in Req :
        /\ Active(r) /\ req[r].for = s /\ req[r].stamp = waiting[s]
        /\ Active(q) /\ req[q].for = s /\ req[q].stamp = waiting[s]
        => r = q

-----------------------------------------------------------------------------
(* The records that requests and slaves are.                               *)

LEMMA BoundsAreNat == MaxId \in Nat /\ MaxStamp \in Nat /\ MaxFault \in Nat
BY BoundAssumption

LEMMA IdleIs == Idle \in ReqState /\ Idle.pc = "idle"
BY BoundsAreNat DEF Idle, ReqState

LEMMA ReqGoes ==
    ASSUME NEW z \in ReqState,
           NEW p \in {"idle", "announce", "test", "block", "wait", "woken"}
    PROVE  LET y == [z EXCEPT !.pc = p]
           IN  /\ y \in ReqState
               /\ y.pc = p /\ y.for = z.for /\ y.stamp = z.stamp /\ y.lastId = z.lastId
BY DEF ReqState

LEMMA SlaveGoes ==
    ASSUME NEW z \in SlaveState, NEW a \in {"sync", "listen", "wait", "pushed", "dead"},
           NEW b \in Req \cup {NoReq}
    PROVE  LET y == [z EXCEPT !.at = a, !.by = b]
           IN  y \in SlaveState /\ y.at = a /\ y.by = b /\ y.lastId = z.lastId
BY DEF SlaveState

\* Requests are where they were or elsewhere, and are otherwise the same.
Moved(r) == /\ req'[r].pc = "idle" <=> req[r].pc = "idle"
            /\ req'[r].for = req[r].for
            /\ req'[r].stamp = req[r].stamp
            /\ req'[r].lastId = req[r].lastId
\* The slave waits no more.
Released(s) == slave'[s].at # "wait" /\ slave'[s].by = NoReq

LEMMA InitIInv == Init => IInv
<1> SUFFICES ASSUME Init PROVE IInv
  OBVIOUS
<1>1. req \in [Req -> ReqState] /\ \A r \in Req : ~Active(r)
  BY IdleIs DEF Init, Active
<1>2. [at |-> "sync", lastId |-> 0, by |-> NoReq] \in SlaveState
  BY BoundsAreNat DEF SlaveState
<1>3. slave \in [Slave -> SlaveState]
  BY <1>2 DEF Init
<1>4. push \in BOOLEAN
  BY DEF Init
<1>5. TypeOK
  BY <1>1, <1>3, <1>4, BoundsAreNat DEF Init, TypeOK
<1>6. ServedByItsOwn /\ NotServed
  BY DEF Init, ServedByItsOwn, NotServed
<1> QED
  BY <1>1, <1>5, <1>6 DEF IInv, StampsDiffer

\* A broadcast changes where requests are, and nothing else of them.
LEMMA WokenIs ==
    ASSUME TypeOK
    PROVE  /\ Woken \in [Req -> ReqState]
           /\ \A r \in Req : /\ Woken[r].pc = "idle" <=> req[r].pc = "idle"
                             /\ Woken[r].for = req[r].for
                             /\ Woken[r].stamp = req[r].stamp
                             /\ Woken[r].lastId = req[r].lastId
<1> SUFFICES ASSUME NEW r \in Req
             PROVE  /\ Woken[r] \in ReqState
                    /\ Woken[r].pc = "idle" <=> req[r].pc = "idle"
                    /\ Woken[r].for = req[r].for
                    /\ Woken[r].stamp = req[r].stamp
                    /\ Woken[r].lastId = req[r].lastId
  BY DEF Woken
<1>1. req[r] \in ReqState
  BY DEF TypeOK
<1>2. CASE req[r].pc = "wait"
  BY <1>1, <1>2, ReqGoes DEF Woken
<1>3. CASE req[r].pc # "wait"
  BY <1>1, <1>3 DEF Woken
<1> QED
  BY <1>2, <1>3

\* The steps that make no new request: requests keep whom they serve, or
\* end, and the slave of one that ends waits no more.
LEMMA RequestsGoOn ==
    ASSUME IInv, NEW e \in SUBSET Req, NEW f \in SUBSET Slave,
           UNCHANGED <<waiting, clock>>,
           \A r \in e : req'[r].pc = "idle",
           \A r \in Req \ e : Moved(r),
           \A s \in Slave : slave[s].by \in e => s \in f,
           \A s \in f : Released(s),
           \A s \in Slave \ f : slave'[s] = slave[s]
    PROVE  ServedByItsOwn' /\ NotServed' /\ StampsDiffer'
<1>1. ServedByItsOwn'
  <2> SUFFICES ASSUME NEW s \in Slave, slave'[s].at = "wait"
               PROVE  /\ slave'[s].by \in Req /\ req'[slave'[s].by].pc # "idle"
                      /\ req'[slave'[s].by].for = s
                      /\ req'[slave'[s].by].lastId = slave'[s].lastId
                      /\ req'[slave'[s].by].stamp = waiting'[s]
    BY DEF ServedByItsOwn, Active
  <2>1. slave[s].by \notin e /\ slave'[s] = slave[s]
    BY DEF Released
  <2>2. /\ slave[s].by \in Req \ e /\ Active(slave[s].by)
        /\ req[slave[s].by].for = s /\ req[slave[s].by].lastId = slave[s].lastId
        /\ req[slave[s].by].stamp = waiting[s]
    BY <2>1 DEF IInv, ServedByItsOwn
  <2>3. Moved(slave[s].by)
    BY <2>2
  <2> QED
    BY <2>1, <2>2, <2>3 DEF Active, Moved
<1>2. NotServed'
  BY DEF IInv, NotServed, Released
<1>3. StampsDiffer'
  BY DEF IInv, StampsDiffer, Active, Moved
<1> QED
  BY <1>1, <1>2, <1>3

-----------------------------------------------------------------------------
LEMMA RowStep ==
    ASSUME IInv, InsertRow \/ StoreRow
    PROVE  IInv'
<1>1. push' \in BOOLEAN
  BY DEF IInv, TypeOK, InsertRow, StoreRow
<1>2. TypeOK'
  BY <1>1, BoundsAreNat DEF IInv, TypeOK, InsertRow, StoreRow
<1>3. ServedByItsOwn' /\ NotServed' /\ StampsDiffer'
  BY DEF IInv, InsertRow, StoreRow, ServedByItsOwn, NotServed, StampsDiffer, Active
<1> QED
  BY <1>2, <1>3 DEF IInv

LEMMA BroadcastStep ==
    ASSUME IInv, Push \/ KeepAlive
    PROVE  IInv'
<1>1. /\ req' = Woken
      /\ UNCHANGED <<last, waiting, clock, slave, faults>> /\ push' \in BOOLEAN
  BY DEF Push, KeepAlive, IInv, TypeOK
<1>2. req' \in [Req -> ReqState] /\ \A r \in Req : Moved(r)
  BY <1>1, WokenIs DEF IInv, Moved
<1>3. TypeOK'
  BY <1>1, <1>2 DEF IInv, TypeOK
<1>4. ServedByItsOwn' /\ NotServed' /\ StampsDiffer'
  BY <1>1, <1>2 DEF IInv, ServedByItsOwn, NotServed, StampsDiffer, Active, Moved
<1> QED
  BY <1>3, <1>4 DEF IInv

LEMMA RequestSqlLogStep ==
    ASSUME IInv, NEW s \in Slave, RequestSqlLog(s)
    PROVE  IInv'
<1>1. /\ slave[s] \in SlaveState /\ slave[s].at \in {"sync", "pushed"}
      /\ last \in 0..MaxId /\ MaxId \in Nat
  BY BoundsAreNat DEF IInv, TypeOK, RequestSqlLog, Fetches
<1>2. PICK y \in SlaveState : /\ y.at # "wait" /\ y.by = slave[s].by
                              /\ slave' = [slave EXCEPT ![s] = y]
  <2>1. CASE slave[s].lastId = last
    <3> DEFINE a == IF slave[s].at = "sync" THEN "listen" ELSE "sync"
               y == [slave[s] EXCEPT !.at = a]
    <3>1. y \in SlaveState /\ y.at = a /\ y.by = slave[s].by /\ a # "wait"
      BY <1>1 DEF SlaveState
    <3>2. slave' = [slave EXCEPT ![s] = y]
      BY <2>1 DEF RequestSqlLog
    <3> QED
      BY <3>1, <3>2
  <2>2. CASE slave[s].lastId # last
    <3>1. PICK n \in slave[s].lastId + 1..last : slave' = [slave EXCEPT ![s].lastId = n]
      BY <2>2 DEF RequestSqlLog
    <3> DEFINE y == [slave[s] EXCEPT !.lastId = n]
    <3>2. n \in 0..MaxId
      BY <1>1 DEF SlaveState
    <3>3. y \in SlaveState /\ y.at = slave[s].at /\ y.by = slave[s].by
      BY <1>1, <3>2 DEF SlaveState
    <3>4. slave' = [slave EXCEPT ![s] = y]
      BY <3>1
    <3> QED
      BY <1>1, <3>3, <3>4
  <2> QED
    BY <2>1, <2>2
<1>3. /\ slave' \in [Slave -> SlaveState]
      /\ slave'[s].at # "wait" /\ slave'[s].by = slave[s].by
      /\ \A t \in Slave \ {s} : slave'[t] = slave[t]
  BY <1>2 DEF IInv, TypeOK
<1>4. TypeOK'
  BY <1>3 DEF IInv, TypeOK, RequestSqlLog
<1>5. ServedByItsOwn'
  BY <1>3 DEF IInv, RequestSqlLog, ServedByItsOwn, Active
<1>6. NotServed'
  BY <1>1, <1>3 DEF IInv, NotServed
<1>7. StampsDiffer'
  BY DEF IInv, RequestSqlLog, StampsDiffer, Active
<1> QED
  BY <1>4, <1>5, <1>6, <1>7 DEF IInv

\* The new request has the newest stamp, and the goroutine that serves it
\* serves nobody else.
LEMMA ListenStep ==
    ASSUME IInv, NEW s \in Slave, NEW r \in Req, Listen(s, r)
    PROVE  IInv'
<1> DEFINE y == [slave[s] EXCEPT !.at = "wait", !.by = r]
           z == [pc |-> "announce", for |-> s, stamp |-> clock',
                 lastId |-> slave[s].lastId]
<1>1. /\ clock \in Nat /\ clock' = clock + 1 /\ clock' \in 0..MaxStamp
      /\ slave[s] \in SlaveState
  BY BoundsAreNat DEF IInv, TypeOK, Listen
<1>2. y \in SlaveState /\ y.at = "wait" /\ y.by = r /\ y.lastId = slave[s].lastId
  BY <1>1 DEF SlaveState
<1>3. z \in ReqState
  <2>1. slave[s].lastId \in 0..MaxId
    BY <1>1 DEF SlaveState
  <2> QED
    BY <1>1, <2>1 DEF ReqState
<1>4. /\ slave' \in [Slave -> SlaveState] /\ slave'[s] = y
      /\ \A t \in Slave \ {s} : slave'[t] = slave[t]
  BY <1>2 DEF IInv, TypeOK, Listen
<1>5. /\ req' \in [Req -> ReqState] /\ req'[r] = z
      /\ \A q \in Req \ {r} : req'[q] = req[q]
  BY <1>3 DEF IInv, TypeOK, Listen
<1>6. /\ waiting' \in [Slave -> 0..MaxStamp] /\ waiting'[s] = clock'
      /\ \A t \in Slave \ {s} : waiting'[t] = waiting[t]
  BY <1>1 DEF IInv, TypeOK, Listen
<1>7. TypeOK'
  BY <1>1, <1>4, <1>5, <1>6 DEF IInv, TypeOK, Listen
<1>8. \A t \in Slave : slave[t].by # r
  BY ReqAssumption DEF IInv, ServedByItsOwn, NotServed, Active, Listen
<1>9. ServedByItsOwn'
  <2> SUFFICES ASSUME NEW t \in Slave, slave'[t].at = "wait"
               PROVE  /\ slave'[t].by \in Req /\ req'[slave'[t].by].pc # "idle"
                      /\ req'[slave'[t].by].for = t
                      /\ req'[slave'[t].by].lastId = slave'[t].lastId
                      /\ req'[slave'[t].by].stamp = waiting'[t]
    BY DEF ServedByItsOwn, Active
  <2>1. CASE t = s
    <3>1. z.pc # "idle" /\ z.for = s /\ z.lastId = slave[s].lastId /\ z.stamp = clock'
      OBVIOUS
    <3>2. slave'[s].by = r /\ slave'[s].lastId = slave[s].lastId
      BY <1>2, <1>4
    <3> QED
      BY <1>5, <1>6, <2>1, <3>1, <3>2
  <2>2. CASE t # s
    <3>1. /\ slave[t].at = "wait" /\ slave'[t] = slave[t] /\ slave[t].by # r
          /\ waiting'[t] = waiting[t]
      BY <1>4, <1>6, <1>8, <2>2
    <3>2. slave[t].by \in Req /\ Active(slave[t].by)
      BY <3>1 DEF IInv, ServedByItsOwn
    <3>3. req'[slave[t].by] = req[slave[t].by]
      BY <1>5, <3>1, <3>2
    <3> QED
      BY <3>1, <3>2, <3>3 DEF IInv, ServedByItsOwn, Active
  <2> QED
    BY <2>1, <2>2
<1>10. NotServed'
  BY <1>2, <1>4 DEF IInv, NotServed
<1>11. StampsDiffer'
  <2> SUFFICES ASSUME NEW p \in Req, NEW q \in Req, Active(p)'
               PROVE  /\ req'[p].stamp <= clock'
                      /\ Active(q)' /\ req'[q].stamp = req'[p].stamp => p = q
    BY DEF StampsDiffer
  <2>1. \A x \in Req : req[x].stamp \in Nat
    BY BoundsAreNat DEF IInv, TypeOK, ReqState
  <2>2. \A x \in Req \ {r} : Active(x)' => /\ Active(x) /\ req'[x].stamp = req[x].stamp
                                           /\ req[x].stamp <= clock
    BY <1>5 DEF IInv, StampsDiffer, Active
  <2>3. req'[r].stamp = clock + 1
    BY <1>1, <1>5
  <2>4. req'[p].stamp <= clock'
    BY <1>1, <2>1, <2>2, <2>3
  <2>5. ASSUME Active(q)', req'[q].stamp = req'[p].stamp PROVE p = q
    <3>1. CASE p = r \/ q = r
      BY <1>1, <2>1, <2>2, <2>3, <2>5, <3>1
    <3>2. CASE p # r /\ q # r
      BY <2>2, <2>5, <3>2 DEF IInv, StampsDiffer
    <3> QED
      BY <3>1, <3>2
  <2> QED
    BY <2>4, <2>5
<1> QED
  BY <1>7, <1>9, <1>10, <1>11 DEF IInv

LEMMA AnnounceStep ==
    ASSUME IInv, NEW r \in Req, Announce(r)
    PROVE  IInv'
<1>1. /\ req' = [Woken EXCEPT ![r].pc = "test"] /\ req[r].pc = "announce"
      /\ UNCHANGED <<last, push, waiting, clock, slave, faults>>
  BY DEF Announce
<1>2. /\ Woken \in [Req -> ReqState]
      /\ \A q \in Req : /\ Woken[q].pc = "idle" <=> req[q].pc = "idle"
                        /\ Woken[q].for = req[q].for
                        /\ Woken[q].stamp = req[q].stamp
                        /\ Woken[q].lastId = req[q].lastId
  BY WokenIs DEF IInv
<1>3. LET y == [Woken[r] EXCEPT !.pc = "test"]
      IN  /\ y \in ReqState /\ y.pc = "test" /\ y.for = Woken[r].for
          /\ y.stamp = Woken[r].stamp /\ y.lastId = Woken[r].lastId
  BY <1>2, ReqGoes
<1>4. req' \in [Req -> ReqState] /\ \A q \in Req : Moved(q)
  BY <1>1, <1>2, <1>3 DEF Moved
<1>5. TypeOK'
  BY <1>1, <1>4 DEF IInv, TypeOK
<1>6. ServedByItsOwn' /\ NotServed' /\ StampsDiffer'
  BY <1>1, <1>4 DEF IInv, ServedByItsOwn, NotServed, StampsDiffer, Active, Moved
<1> QED
  BY <1>5, <1>6 DEF IInv

\* A request goes on to its next step.
LEMMA GoesOnStep ==
    ASSUME IInv, NEW r \in Req, NEW p \in {"test", "block", "wait"},
           req[r].pc # "idle", req' = [req EXCEPT ![r].pc = p],
           UNCHANGED <<last, push, waiting, clock, slave, faults>>
    PROVE  IInv'
<1>1. req[r] \in ReqState
  BY DEF IInv, TypeOK
<1>2. LET y == [req[r] EXCEPT !.pc = p]
      IN  /\ y \in ReqState /\ y.pc = p /\ y.for = req[r].for
          /\ y.stamp = req[r].stamp /\ y.lastId = req[r].lastId
  BY <1>1, ReqGoes,
     p \in {"idle", "announce", "test", "block", "wait", "woken"}
<1>3. req' \in [Req -> ReqState] /\ \A q \in Req : Moved(q)
  BY <1>2 DEF IInv, TypeOK, Moved
<1>4. TypeOK'
  BY <1>3 DEF IInv, TypeOK
<1>5. ServedByItsOwn' /\ NotServed' /\ StampsDiffer'
  BY <1>3 DEF IInv, ServedByItsOwn, NotServed, StampsDiffer, Active, Moved
<1> QED
  BY <1>4, <1>5 DEF IInv

\* A request ends, and its connection with it.
LEMMA EndsStep ==
    ASSUME IInv, NEW r \in Req, NEW p \in {"sync", "pushed"}, End(r, p),
           UNCHANGED <<last, push, waiting, clock, faults>>
    PROVE  IInv'
<1> USE DEF End
<1> DEFINE f == {s \in Slave : slave[s].by = r}
<1>1. /\ req' \in [Req -> ReqState] /\ req'[r].pc = "idle"
      /\ \A q \in Req \ {r} : req'[q] = req[q]
  BY IdleIs DEF IInv, TypeOK
<1>2. \A s \in Slave : slave[s] \in SlaveState
  BY DEF IInv, TypeOK
<1>3. \A s \in Slave : slave'[s] \in SlaveState
  BY <1>2, SlaveGoes
<1>4. ASSUME NEW s \in f PROVE Released(s)
  <2>1. /\ slave'[s] = [slave[s] EXCEPT !.at = p, !.by = NoReq]
        /\ slave[s] \in SlaveState
    BY <1>2
  <2>2. LET y == [slave[s] EXCEPT !.at = p, !.by = NoReq]
        IN  y.at = p /\ y.by = NoReq
    BY <2>1 DEF SlaveState
  <2> QED
    BY <2>1, <2>2 DEF Released
<1>5. \A s \in Slave \ f : slave'[s] = slave[s]
  OBVIOUS
<1>6. slave' \in [Slave -> SlaveState]
  BY <1>3
<1>7. TypeOK'
  BY <1>1, <1>6 DEF IInv, TypeOK
<1>8. \A q \in Req \ {r} : Moved(q)
  BY <1>1 DEF Moved
<1>9. \A s \in Slave : slave[s].by \in {r} => s \in f
  OBVIOUS
<1>10. {r} \in SUBSET Req /\ f \in SUBSET Slave /\ \A q \in {r} : req'[q].pc = "idle"
  BY <1>1
<1> HIDE DEF f
<1>11. ServedByItsOwn' /\ NotServed' /\ StampsDiffer'
  BY <1>4, <1>5, <1>8, <1>9, <1>10, RequestsGoOn
<1> QED
  BY <1>7, <1>11 DEF IInv

\* A request tests, is answered, or is told to leave.
LEMMA ServeStep ==
    ASSUME IInv, NEW r \in Req, Test(r) \/ Wait(r) \/ CheckReplaced(r)
    PROVE  IInv'
<1>1. CASE Test(r)
  BY <1>1, EndsStep, GoesOnStep DEF Test
<1>2. CASE Wait(r)
  BY <1>2, GoesOnStep DEF Wait
<1>3. CASE CheckReplaced(r)
  BY <1>3, EndsStep, GoesOnStep DEF CheckReplaced
<1> QED
  BY <1>1, <1>2, <1>3

\* Whoever loses its connection waits no more.
LEMMA LostIs ==
    ASSUME NEW z \in SlaveState
    PROVE  Lost(z) \in SlaveState /\ Lost(z).at # "wait" /\ Lost(z).by = NoReq
<1> DEFINE a == IF z.at \in {"pushed", "dead"} THEN "dead" ELSE "sync"
<1>1. a \in {"sync", "listen", "wait", "pushed", "dead"} /\ a # "wait"
  OBVIOUS
<1>2. Lost(z) = [z EXCEPT !.at = a, !.by = NoReq]
  BY DEF Lost
<1>3. LET y == [z EXCEPT !.at = a, !.by = NoReq]
      IN  y \in SlaveState /\ y.at = a /\ y.by = NoReq
  <2> HIDE DEF a
  <2> QED
    BY <1>1 DEF SlaveState
<1> QED
  BY <1>1, <1>2, <1>3

\* Only the slave notices; the request goes on.
LEMMA BreakStep ==
    ASSUME IInv, NEW s \in Slave, Break(s) \/ ListenAll(s)
    PROVE  IInv'
<1>1. slave[s] \in SlaveState /\ faults' \in 0..MaxFault
  BY BoundsAreNat DEF IInv, TypeOK, Break, ListenAll
<1>2. PICK y \in SlaveState : /\ y.at # "wait" /\ y.by = NoReq
                              /\ slave' = [slave EXCEPT ![s] = y]
  <2>1. CASE Break(s)
    BY <1>1, <2>1, LostIs DEF Break, IInv, TypeOK
  <2>2. CASE ListenAll(s)
    <3> DEFINE y == [slave[s] EXCEPT !.at = "sync", !.by = NoReq]
    <3>1. y \in SlaveState /\ y.at # "wait" /\ y.by = NoReq
      BY <1>1, SlaveGoes
    <3>2. slave' = [slave EXCEPT ![s] = y]
      BY <2>2 DEF ListenAll
    <3> QED
      BY <3>1, <3>2
  <2> QED
    BY <2>1, <2>2
<1>3. /\ slave' \in [Slave -> SlaveState]
      /\ slave'[s].at # "wait" /\ slave'[s].by = NoReq
      /\ \A t \in Slave \ {s} : slave'[t] = slave[t]
  BY <1>2 DEF IInv, TypeOK
<1>4. TypeOK'
  BY <1>1, <1>3 DEF IInv, TypeOK, Break, ListenAll
<1>5. ServedByItsOwn' /\ NotServed' /\ StampsDiffer'
  BY <1>3 DEF IInv, Break, ListenAll, ServedByItsOwn, NotServed, StampsDiffer, Active
<1> QED
  BY <1>4, <1>5 DEF IInv

LEMMA CrashStep ==
    ASSUME IInv, Crash
    PROVE  IInv'
<1>1. \A s \in Slave : slave[s] \in SlaveState
  BY DEF IInv, TypeOK
<1>0. PICK hit \in SUBSET Slave :
        slave' = [s \in Slave |-> IF s \in hit \/ slave[s].at = "wait"
                                 THEN Lost(slave[s]) ELSE slave[s]]
  BY DEF Crash
<1>2. \A s \in Slave : /\ slave'[s] \in SlaveState /\ slave'[s].at # "wait"
                        /\ slave'[s].by = NoReq
  BY <1>0, <1>1, LostIs DEF IInv, NotServed
<1>3. slave' \in [Slave -> SlaveState]
  BY <1>0, <1>2
<1>4. /\ req' \in [Req -> ReqState] /\ \A r \in Req : req'[r].pc = "idle"
  BY IdleIs DEF Crash
<1>5. push' \in BOOLEAN
  BY DEF Crash
<1>6. /\ faults < MaxFault /\ faults' = faults + 1
      /\ waiting' = [s \in Slave |-> 0] /\ UNCHANGED <<last, clock>>
  BY DEF Crash
<1>7. waiting' \in [Slave -> 0..MaxStamp]
  BY <1>6, BoundsAreNat
<1>8. faults' \in 0..MaxFault
  BY <1>6, BoundsAreNat DEF IInv, TypeOK
<1>9. TypeOK'
  BY <1>3, <1>4, <1>5, <1>6, <1>7, <1>8 DEF IInv, TypeOK
<1>10. ServedByItsOwn' /\ NotServed' /\ StampsDiffer'
  BY <1>2, <1>4 DEF IInv, ServedByItsOwn, NotServed, StampsDiffer, Active
<1> QED
  BY <1>9, <1>10 DEF IInv

LEMMA NextIInv == IInv /\ [Next]_vars => IInv'
<1> SUFFICES ASSUME IInv, [Next]_vars PROVE IInv'
  OBVIOUS
<1>1. CASE InsertRow \/ StoreRow
  BY <1>1, RowStep
<1>2. CASE Push \/ KeepAlive
  BY <1>2, BroadcastStep
<1>3. ASSUME NEW s \in Slave, Ask(s) PROVE IInv'
  BY <1>3, RequestSqlLogStep, ListenStep DEF Ask
<1>4. ASSUME NEW r \in Req, Serve(r) PROVE IInv'
  BY <1>4, AnnounceStep, ServeStep DEF Serve
<1>5. ASSUME NEW s \in Slave, Break(s) \/ ListenAll(s) PROVE IInv'
  BY <1>5, BreakStep
<1>6. CASE Crash
  BY <1>6, CrashStep
<1>7. CASE UNCHANGED vars
  BY <1>7 DEF vars, IInv, TypeOK, ServedByItsOwn, NotServed, StampsDiffer, Active
<1> QED
  BY <1>1, <1>2, <1>3, <1>4, <1>5, <1>6, <1>7 DEF Next

-----------------------------------------------------------------------------
LEMMA Invariance == Spec => []IInv
BY InitIInv, NextIInv, PTL DEF Spec

\* Every variable keeps its type.
THEOREM TypeCorrect == Spec => []TypeOK
<1>1. IInv => TypeOK
  BY DEF IInv
<1> QED
  BY <1>1, Invariance, PTL

\* A slave that waits is served by the newest request of its own, whatever
\* requests are left over from before its connections broke, for any number
\* of slaves (DistributedController.Listen).
THEOREM ServedByItsOwnHolds == Spec => []ServedByItsOwn
<1>1. IInv => ServedByItsOwn
  BY DEF IInv
<1> QED
  BY <1>1, Invariance, PTL

\* Of all the requests of one slave, at most one goes on when it is woken:
\* every other finds another stamp in the map and ends.
THEOREM OneGoesOn == Spec => []OneHasThePlace
<1>1. IInv => OneHasThePlace
  BY DEF IInv, StampsDiffer, OneHasThePlace
<1> QED
  BY <1>1, Invariance, PTL
=============================================================================
