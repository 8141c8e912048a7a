------------------------- MODULE LogSyncOrderProofs -------------------------
(***************************************************************************)
(* The order of the rows: what ids stand for, what a saved id covers, in   *)
(* which order statements run, and that with one level of masters the      *)
(* detailed system implements ReplicaLog.                                  *)
(***************************************************************************)
EXTENDS LogSyncProofs, LogSyncRefinement

\* The clocks of two servers never yield one id (Number.ID: a millisecond).
Disjoint == \A s, t \in Server : s # t => IdsOf[s] \cap IdsOf[t] = {}

\* A server that logs logs one request at a time.
OneRequest == \A h, g \in Handler : HomeOf[h] = HomeOf[g] => h = g

\* Masters follow nobody: the servers form stars.
OneLevel == \A s \in Server : \A m \in Masters[s] : Masters[m] = {}

-----------------------------------------------------------------------------
(* The inductive invariants, in parts.                                     *)

\* An id that a goroutine took is not used yet, by it or by another.
TakenInv ==
    /\ \A h \in Handler : newId[h] # 0 =>
        /\ hpc[h] = "logging"
        /\ newId[h] \in IdsOf[HomeOf[h]] /\ newId[h] <= clock[HomeOf[h]]
        /\ newId[h] \notin Rows(HomeOf[h])
    /\ \A h, g \in Handler :
         newId[h] # 0 /\ newId[h] = newId[g] /\ HomeOf[h] = HomeOf[g] => h = g

\* A row has an id of its author's clock.
ClockInv ==
    \A s \in Server : \A i \in Rows(s) :
        /\ i \in IdsOf[Author[log[s][i]]]
        /\ Author[log[s][i]] = s => i <= clock[s]

\* A statement is at one place: not written yet, on one list, or logged.
OnceInv ==
    /\ \A h \in Handler : \A k \in DOMAIN pending[h] :
         /\ pending[h][k] \notin fresh
         /\ \A s \in Server : \A i \in Rows(s) : log[s][i] # pending[h][k]
         /\ \A g \in Handler : \A n \in DOMAIN pending[g] :
               pending[h][k] = pending[g][n] => h = g /\ k = n
    /\ \A s \in Server : \A i \in Rows(s) :
         /\ log[s][i] \notin fresh
         /\ \A j \in Rows(s) : Author[log[s][i]] = s /\ log[s][i] = log[s][j] => i = j

\* While no mark was lost, a row that is not marked is not reflected, but for
\* the one to be marked now; what a database reflects of others came by a row.
UnmarkedInv ==
    /\ \A f \in Fault : left[f] <= Budget[f]
    /\ \A s \in Server : \A c \in data[s] :
         Author[c] # s => \E i \in Rows(s) : log[s][i] = c
    /\ ~MarksLost => \A s \in Server : \A i \in NotRun(s) :
         log[s][i] \in data[s] => step[s] = "mark" /\ i = Current(s)

\* What is older than a row of the batch has run, or is in the batch.
OldestInv ==
    \A s \in Server : step[s] \in {"run", "mark"} =>
        \A i \in Rows(s) \ batch[s], b \in batch[s] : i < b => log[s][i] \in data[s]

\* Listeners run for configured masters only.
ListenInv ==
    \A s \in Server :
        /\ \A m \in Server : lpc[s][m] # "dead" => m \in Masters[s]
        /\ lock[s] \in Server => lock[s] \in Masters[s]

\* A server without masters has its own rows only, logged in the order of
\* their ids.
SourceInv ==
    \A m \in Server : Masters[m] = {} =>
        /\ \A i \in Rows(m) : i <= clock[m] /\ Author[log[m][i]] = m
        /\ \A h \in Handler : HomeOf[h] = m /\ newId[h] # 0 =>
              newId[h] = clock[m] /\ \A i \in Rows(m) : i < newId[h]

\* What a listener saved, or is about to save, is the id of a row of its
\* master, and what it is about to save covers what it has not stored yet.
PageInv ==
    \A s \in Server :
        /\ \A m \in Masters[s] : lastId[s][m] # 0 => lastId[s][m] \in Rows(m)
        /\ step[s] \in {"insert", "save"} =>
             /\ top[s] \in Rows(lock[s])
             /\ \A i \in Rows(lock[s]) : i <= top[s] => i \in Rows(s) \cup answer[s]
             /\ \A i \in answer[s] : i <= top[s]
        /\ step[s] = "save" => answer[s] = {}

\* A row of another server comes from one without masters, and with all that
\* server's older rows.
PrefixInv ==
    \A s \in Server : \A i \in Rows(s) :
        LET a == Author[log[s][i]] IN
        a # s => Masters[a] = {} /\ \A j \in Rows(a) : j < i => j \in Rows(s)

-----------------------------------------------------------------------------
(* What the steps do.                                                      *)

USE MaxIdAssumption, LimitAssumption, TopologyAssumption, ChangeAssumption,
    BudgetAssumption, NoneAssumption

\* The oldest rows of a set: with a row, all older ones.
LEMMA FirstOfCloses ==
    ASSUME NEW S \in SUBSET Id, NEW n \in Nat, NEW j \in FirstOf(S, n),
           NEW i \in S, i <= j
    PROVE  i \in FirstOf(S, n)
<1> DEFINE BelowI == {k \in S : k < i}
           BelowJ == {k \in S : k < j}
<1>1. j \in S /\ Cardinality(BelowJ) < n
  BY DEF FirstOf
<1>2. S \subseteq Nat /\ i \in Nat /\ j \in Nat
  BY <1>1 DEF Id
<1>3. IsFiniteSet(Id)
  BY FS_Interval DEF Id
<1>4. IsFiniteSet(BelowJ)
  BY <1>3, FS_Subset
<1>5. BelowI \subseteq BelowJ
  <2>1. \A k \in S : k < i => k < j
    BY <1>2, i <= j
  <2>2. QED BY <2>1
<1>6. /\ IsFiniteSet(BelowI) /\ Cardinality(BelowI) <= Cardinality(BelowJ)
      /\ Cardinality(BelowI) \in Nat /\ Cardinality(BelowJ) \in Nat
  <2> HIDE DEF BelowI, BelowJ
  <2>1. IsFiniteSet(BelowI) /\ Cardinality(BelowI) <= Cardinality(BelowJ)
    BY <1>4, <1>5, FS_Subset
  <2>2. QED BY <1>4, <2>1, FS_CardinalityType
<1>7. Cardinality(BelowI) < n
  <2> HIDE DEF BelowI, BelowJ
  <2>1. QED BY <1>1, <1>6
<1>8. QED BY <1>7 DEF FirstOf

\* A row that was not there is the first statement a request has to log, under
\* the id it took, or the oldest row of a master's answer.
NewRow(s, i) ==
    /\ log[s][i] = None
    /\ \/ \E h \in Handler :
             /\ InsertLog(h) /\ HomeOf[h] = s /\ newId[h] = i
             /\ 1 \in DOMAIN pending[h] /\ log'[s][i] = pending[h][1]
       \/ /\ InsertRow(s) /\ i = Least(answer[s]) /\ i \in answer[s]
          /\ lock[s] \in Server /\ i \in Rows(lock[s])
          /\ log'[s][i] = log[lock[s]][i]

LEMMA RowsComeFrom ==
    ASSUME BaseInv, [Next]_vars, NEW s \in Server, NEW i \in Rows(s)', i \notin Rows(s)
    PROVE  NewRow(s, i)
<1>t. log \in [Server -> [Id -> Change \cup {None}]]
  BY DEF BaseInv, TypeOK
<1>i. i \in Id /\ log[s][i] = None /\ log'[s][i] # None
  BY DEF Rows
<1>1. ASSUME UNCHANGED log PROVE FALSE
  BY ONLY <1>1, <1>i
<1>2. ASSUME NEW h \in Handler, InsertLog(h) PROVE NewRow(s, i)
  <2> DEFINE home == HomeOf[h]
             j == newId[h]
             c == Head(pending[h])
  <2>1. /\ hpc[h] = "logging" /\ newId[h] # 0
        /\ log' = log \/ log' = [log EXCEPT ![home] = [log[home] EXCEPT ![j] = c]]
    BY <1>2 DEF InsertLog
  <2>2. home \in Server /\ j \in Id
    <3>1. newId[h] \in 0..MaxId
      BY DEF BaseInv, TypeOK
    <3>2. QED BY <2>1, <3>1 DEF Id
  <2>3. 1 \in DOMAIN pending[h] /\ c = pending[h][1] /\ c \in Change
    BY <2>1, Facts DEF BaseInv
  <2>4. home = s /\ j = i /\ log'[s][i] = c
    <3> HIDE DEF home, j, c
    <3>1. QED BY ONLY <1>t, <1>i, <2>1, <2>2, s \in Server
  <2>5. QED BY <1>2, <1>i, <2>3, <2>4 DEF NewRow
<1>3. ASSUME NEW u \in Server, InsertRow(u) PROVE NewRow(s, i)
  <2> DEFINE j == Least(answer[u])
             c == log[lock[u]][j]
  <2>1. /\ step[u] = "insert"
        /\ log' = log \/ log' = [log EXCEPT ![u] = [log[u] EXCEPT ![j] = c]]
    BY <1>3 DEF InsertRow
  <2>2. j \in Id /\ j \in answer[u] /\ lock[u] \in Server /\ j \in Rows(lock[u])
    BY <2>1, Facts DEF BaseInv, StepInv, WorkInv
  <2>3. u = s /\ j = i /\ log'[s][i] = c
    <3> HIDE DEF j, c
    <3>1. QED BY ONLY <1>t, <1>i, <2>1, <2>2, s \in Server
  <2>4. QED BY <1>3, <1>i, <2>2, <2>3 DEF NewRow
<1>4. ASSUME NEW u \in Server, Run(u) \/ Mark(u) PROVE FALSE
  BY <1>1, <1>4 DEF Run, Mark
<1>5. ASSUME NEW h \in Handler, Commit(h) \/ \E c \in Change : AutoCommitWrite(h, c) PROVE FALSE
  BY <1>1, <1>5 DEF Commit, AutoCommitWrite
<1>6. QED BY <1>1, <1>2, <1>3, <1>4, <1>5, Kinds

\* The rows there were are there, and say what they said.
LEMMA RowsStay ==
    ASSUME BaseInv, [Next]_vars, NEW s \in Server, NEW i \in Rows(s)
    PROVE  i \in Rows(s)' /\ log'[s][i] = log[s][i] /\ log[s][i] \in Change
           /\ Author[log[s][i]] \in Server
<1>1. log'[s][i] = log[s][i]
  BY KeptStep DEF BaseInv, Kept
<1>2. log[s][i] \in Change
  BY DEF BaseInv, TypeOK, Rows
<1>3. QED BY <1>1, <1>2 DEF Rows

\* The steps that touch what requests work on.
LEMMA RequestKinds ==
    ASSUME [Next]_vars
    PROVE  \/ UNCHANGED request
           \/ \E h \in Handler :
                 \/ \E c \in Change : Write(h, c) \/ AutoCommitWrite(h, c)
                 \/ Rollback(h) \/ Commit(h) \/ TakeId(h) \/ InsertLog(h) \/ InsertLogBusy(h)
           \/ \E s \in Server : Crash(s)
<1>1. ASSUME NEW s \in Server, NEW m \in Server, Start(s, m) \/ Pushed(s, m) \/ ConnLost(s, m)
      PROVE  UNCHANGED request
  BY ONLY <1>1 DEF Start, Pushed, ConnLost
<1>2. ASSUME NEW s \in Server,
             \/ Fetch(s) \/ InsertRow(s) \/ SaveLastId(s) \/ Load(s) \/ Run(s) \/ RunRejected(s)
             \/ Mark(s) \/ FetchFails(s) \/ InsertRowBusy(s) \/ RunFails(s) \/ MarkBusy(s)
      PROVE  UNCHANGED request
  BY ONLY <1>2 DEF Fetch, InsertRow, SaveLastId, Load, Run, RunRejected, Mark, FetchFails,
                   InsertRowBusy, RunFails, MarkBusy, GiveUp, Panic
<1>3. CASE UNCHANGED vars
  BY ONLY <1>3 DEF vars
<1>4. QED BY <1>1, <1>2, <1>3 DEF Next, HandlerStep, SyncStep

\* The steps that touch what listeners work on.
LEMMA ListenerKinds ==
    ASSUME [Next]_vars
    PROVE  \/ UNCHANGED <<lastId, sync>>
           \/ \E s \in Server, m \in Server : Start(s, m) \/ Pushed(s, m) \/ ConnLost(s, m)
           \/ \E s \in Server :
                 \/ Fetch(s) \/ InsertRow(s) \/ SaveLastId(s) \/ Load(s) \/ Run(s)
                 \/ RunRejected(s) \/ Mark(s) \/ FetchFails(s) \/ InsertRowBusy(s)
                 \/ RunFails(s) \/ MarkBusy(s) \/ Crash(s)
<1>1. ASSUME NEW h \in Handler,
             \/ \E c \in Change : Write(h, c) \/ AutoCommitWrite(h, c)
             \/ Rollback(h) \/ Commit(h) \/ TakeId(h) \/ InsertLog(h) \/ InsertLogBusy(h)
      PROVE  UNCHANGED <<lastId, sync>>
  BY ONLY <1>1 DEF Write, AutoCommitWrite, Rollback, Commit, TakeId, InsertLog,
                   InsertLogBusy, durable
<1>2. CASE UNCHANGED vars
  BY ONLY <1>2 DEF vars, durable
<1>3. QED BY <1>1, <1>2 DEF Next, HandlerStep, SyncStep

\* Number.ID yields a later id of the server's clock.
LEMMA TakeIdIs ==
    ASSUME BaseInv, NEW h \in Handler, TakeId(h)
    PROVE  LET s == HomeOf[h] IN
           /\ newId[h] = 0 /\ newId'[h] \in IdsOf[s] /\ newId'[h] \in Id
           /\ newId'[h] > clock[s] /\ clock'[s] = newId'[h]
           /\ \A g \in Handler : g # h => newId'[g] = newId[g]
           /\ \A t \in Server : t # s => clock'[t] = clock[t]
           /\ UNCHANGED <<log, hpc, pending, fresh>>
<1> DEFINE s == HomeOf[h]
           later == {i \in IdsOf[s] : i > clock[s]}
<1>1. later \in SUBSET Id /\ later # {} /\ s \in Server
  BY DEF TakeId
<1>2. Least(later) \in later
  BY <1>1, LeastOfIds
<1>3. Least(later) \in IdsOf[s] /\ Least(later) > clock[s] /\ Least(later) \in Id
  BY <1>1, <1>2
<1>4. /\ newId' = [newId EXCEPT ![h] = Least(later)] /\ newId[h] = 0
      /\ clock' = [clock EXCEPT ![s] = Least(later)]
      /\ UNCHANGED <<log, hpc, pending, fresh>>
  BY DEF TakeId, durable
<1>5. newId \in [Handler -> 0..MaxId] /\ clock \in [Server -> 0..MaxId]
  BY DEF BaseInv, TypeOK
<1> HIDE DEF later
<1>6. QED BY ONLY <1>1, <1>3, <1>4, <1>5, h \in Handler

\* An id that a goroutine has it just took, or it keeps it while it logs.
LEMMA IdsComeFrom ==
    ASSUME BaseInv, [Next]_vars, NEW h \in Handler, newId'[h] # 0
    PROVE  \/ TakeId(h)
           \/ newId'[h] = newId[h] /\ (hpc[h] = "logging" => hpc'[h] = "logging")
<1>t. /\ newId \in [Handler -> 0..MaxId] /\ hpc \in [Handler -> {"idle", "open", "logging"}]
  BY DEF BaseInv, TypeOK
<1>1. CASE UNCHANGED request
  BY ONLY <1>1 DEF request
<1>2. ASSUME NEW g \in Handler, NEW c \in Change, Write(g, c) \/ AutoCommitWrite(g, c)
      PROVE  newId'[h] = newId[h] /\ (hpc[h] = "logging" => hpc'[h] = "logging")
  <2>1. newId' = newId /\ hpc[g] # "logging" /\ \E p : hpc' = [hpc EXCEPT ![g] = p]
    BY <1>2 DEF Write, AutoCommitWrite
  <2>2. QED BY ONLY <1>t, <2>1, h \in Handler
<1>3. ASSUME NEW g \in Handler, Rollback(g) \/ Commit(g)
      PROVE  newId'[h] = newId[h] /\ (hpc[h] = "logging" => hpc'[h] = "logging")
  <2>1. newId' = newId /\ hpc[g] = "open" /\ \E p : hpc' = [hpc EXCEPT ![g] = p]
    BY <1>3 DEF Rollback, Commit
  <2>2. QED BY ONLY <1>t, <2>1, h \in Handler
<1>4. ASSUME NEW g \in Handler, TakeId(g)
      PROVE  TakeId(h) \/ (newId'[h] = newId[h] /\ hpc' = hpc)
  <2>1. CASE g = h
    BY <1>4, <2>1
  <2>2. CASE g # h
    BY <1>4, <2>2, TakeIdIs
  <2>3. QED BY <2>1, <2>2
<1>5. ASSUME NEW g \in Handler, InsertLog(g) \/ InsertLogBusy(g)
      PROVE  newId'[h] = newId[h] /\ (hpc[h] = "logging" => hpc'[h] = "logging")
  <2>1. newId' = [newId EXCEPT ![g] = 0] /\ \E p : hpc' = [hpc EXCEPT ![g] = p]
    BY <1>5 DEF InsertLog, InsertLogBusy, LogNext
  <2>2. QED BY ONLY <1>t, <2>1, h \in Handler, newId'[h] # 0
<1>6. ASSUME NEW s \in Server, Crash(s)
      PROVE  newId'[h] = newId[h] /\ hpc'[h] = hpc[h]
  BY ONLY <1>6, h \in Handler, newId'[h] # 0 DEF Crash
<1>7. QED BY <1>1, <1>2, <1>3, <1>4, <1>5, <1>6, RequestKinds

LEMMA ClockMoves ==
    ASSUME BaseInv, [Next]_vars, NEW s \in Server
    PROVE  \/ clock'[s] = clock[s]
           \/ \E h \in Handler : TakeId(h) /\ HomeOf[h] = s
<1>1. CASE UNCHANGED request
  BY <1>1 DEF request
<1>2. ASSUME NEW h \in Handler, TakeId(h)
      PROVE  clock'[s] = clock[s] \/ HomeOf[h] = s
  BY <1>2, TakeIdIs
<1>3. ASSUME NEW h \in Handler,
             \/ \E c \in Change : Write(h, c) \/ AutoCommitWrite(h, c)
             \/ Rollback(h) \/ Commit(h) \/ InsertLog(h) \/ InsertLogBusy(h)
      PROVE  UNCHANGED clock
  BY ONLY <1>3 DEF Write, AutoCommitWrite, Rollback, Commit, InsertLog, InsertLogBusy
<1>4. ASSUME NEW u \in Server, Crash(u) PROVE UNCHANGED clock
  BY <1>4 DEF Crash
<1>5. QED BY <1>1, <1>2, <1>3, <1>4, RequestKinds

LEMMA ClockGrows ==
    ASSUME BaseInv, [Next]_vars, NEW s \in Server
    PROVE  /\ clock[s] \in Nat /\ clock'[s] \in Nat /\ clock[s] <= clock'[s]
<1>1. clock[s] \in Nat
  BY DEF BaseInv, TypeOK
<1>2. ASSUME NEW h \in Handler, TakeId(h), HomeOf[h] = s
      PROVE  clock'[s] \in Nat /\ clock[s] <= clock'[s]
  <2>1. clock'[s] \in Id /\ clock'[s] > clock[s]
    BY <1>2, TakeIdIs
  <2>2. QED BY ONLY <1>1, <2>1, MaxId \in Nat DEF Id
<1>3. QED BY <1>1, <1>2, ClockMoves
-----------------------------------------------------------------------------
(* An id stands for one statement.                                         *)

\* A copied row comes under an id of another server's clock.
LEMMA CopyIsForeign ==
    ASSUME BaseInv, RowInv, ClockInv, NEW s \in Server, NEW m \in Server,
           NEW i \in Rows(m), log[s][i] = None
    PROVE  /\ Author[log[m][i]] \in Server /\ Author[log[m][i]] # s
           /\ i \in IdsOf[Author[log[m][i]]] /\ log[m][i] \in Change
<1>1. log[m][i] \in Change /\ log[m][i] # None
  BY DEF BaseInv, TypeOK, Rows
<1>2. Author[log[m][i]] \in Server /\ i \in IdsOf[Author[log[m][i]]]
  BY <1>1 DEF ClockInv
<1>3. Author[log[m][i]] # s
  BY <1>1 DEF RowInv
<1>4. QED BY <1>1, <1>2, <1>3

LEMMA ClockStep ==
    BaseInv /\ RowInv /\ TakenInv /\ ClockInv /\ [Next]_vars => ClockInv'
<1> SUFFICES ASSUME BaseInv, RowInv, TakenInv, ClockInv, [Next]_vars,
                    NEW s \in Server, NEW i \in Rows(s)'
             PROVE  /\ i \in IdsOf[Author[log'[s][i]]]
                    /\ Author[log'[s][i]] = s => i <= clock'[s]
  BY DEF ClockInv
<1>1. clock[s] \in Nat /\ clock'[s] \in Nat /\ clock[s] <= clock'[s] /\ i \in Nat
  <2>1. i \in Id
    BY DEF Rows
  <2>2. QED BY <2>1, ClockGrows DEF Id
<1>2. CASE i \in Rows(s)
  <2>1. log'[s][i] = log[s][i]
    BY <1>2, RowsStay
  <2>2. i \in IdsOf[Author[log[s][i]]] /\ (Author[log[s][i]] = s => i <= clock[s])
    BY <1>2 DEF ClockInv
  <2>3. QED BY ONLY <1>1, <2>1, <2>2
<1>3. CASE i \notin Rows(s)
  <2>1. NewRow(s, i)
    BY <1>3, RowsComeFrom
  <2>2. ASSUME NEW h \in Handler, InsertLog(h), HomeOf[h] = s, newId[h] = i,
               1 \in DOMAIN pending[h], log'[s][i] = pending[h][1]
        PROVE  i \in IdsOf[s] /\ i <= clock[s] /\ Author[log'[s][i]] = s
    BY <2>2 DEF InsertLog, TakenInv, BaseInv, HandlerInv
  <2>3. ASSUME lock[s] \in Server, i \in Rows(lock[s]), log[s][i] = None,
               log'[s][i] = log[lock[s]][i]
        PROVE  i \in IdsOf[Author[log'[s][i]]] /\ Author[log'[s][i]] # s
    BY <2>3, CopyIsForeign
  <2>4. QED BY <1>1, <2>1, <2>2, <2>3 DEF NewRow
<1>4. QED BY <1>2, <1>3

LEMMA TakenStep ==
    ASSUME Disjoint
    PROVE  BaseInv /\ RowInv /\ TakenInv /\ ClockInv /\ [Next]_vars => TakenInv'
<1> SUFFICES ASSUME BaseInv, RowInv, TakenInv, ClockInv, [Next]_vars PROVE TakenInv'
  OBVIOUS
<1>1. ASSUME NEW h \in Handler, TakeId(h)
      PROVE  /\ hpc'[h] = "logging" /\ newId'[h] \in IdsOf[HomeOf[h]]
             /\ newId'[h] <= clock'[HomeOf[h]] /\ newId'[h] \notin Rows(HomeOf[h])'
             /\ \A g \in Handler : newId'[g] = newId'[h] /\ HomeOf[g] = HomeOf[h] => g = h
  <2> DEFINE s == HomeOf[h]
  <2>1. /\ newId'[h] \in IdsOf[s] /\ newId'[h] \in Nat /\ newId'[h] > clock[s]
        /\ clock'[s] = newId'[h] /\ UNCHANGED <<log, hpc>>
        /\ \A g \in Handler : g # h => newId'[g] = newId[g]
    BY <1>1, TakeIdIs DEF Id
  <2>2. hpc[h] = "logging" /\ s \in Server /\ clock[s] \in Nat
    BY <1>1 DEF TakeId, BaseInv, TypeOK
  <2>3. ASSUME newId'[h] \in Rows(s)' PROVE FALSE
    <3> DEFINE i == newId'[h]
               a == Author[log[s][i]]
    <3>1. i \in Rows(s)
      BY <2>1, <2>3 DEF Rows
    <3>2. a \in Server /\ i \in IdsOf[a] /\ (a = s => i <= clock[s])
      BY <2>2, <3>1, RowsStay DEF ClockInv
    <3>3. a = s
      BY <2>1, <2>2, <3>2, Disjoint DEF Disjoint
    <3> HIDE DEF i, a
    <3>4. QED BY <2>1, <2>2, <3>2, <3>3 DEF i
  <2>4. ASSUME NEW g \in Handler, newId'[g] = newId'[h], HomeOf[g] = s, g # h PROVE FALSE
    <3>1. newId[g] = newId'[h] /\ newId[g] # 0
      BY <2>1, <2>2, <2>4
    <3>2. newId[g] <= clock[s]
      BY <2>4, <3>1 DEF TakenInv
    <3>3. QED BY <2>1, <2>2, <3>1, <3>2
  <2>5. QED BY <2>1, <2>2, <2>3, <2>4
<1>2. ASSUME NEW h \in Handler, newId'[h] # 0, newId'[h] = newId[h],
             hpc[h] = "logging" => hpc'[h] = "logging"
      PROVE  /\ hpc'[h] = "logging" /\ newId'[h] \in IdsOf[HomeOf[h]]
             /\ newId'[h] <= clock'[HomeOf[h]] /\ newId'[h] \notin Rows(HomeOf[h])'
  <2> DEFINE s == HomeOf[h]
             i == newId[h]
  <2>1. /\ hpc[h] = "logging" /\ i \in IdsOf[s] /\ i <= clock[s] /\ i \notin Rows(s)
        /\ s \in Server
    BY <1>2 DEF TakenInv
  <2>2. clock[s] \in Nat /\ clock'[s] \in Nat /\ clock[s] <= clock'[s] /\ i \in Nat
    BY <2>1, ClockGrows DEF BaseInv, TypeOK
  <2>3. ASSUME i \in Rows(s)' PROVE FALSE
    <3>1. NewRow(s, i)
      BY <2>1, <2>3, RowsComeFrom
    <3>2. ASSUME NEW g \in Handler, InsertLog(g), HomeOf[g] = s, newId[g] = i PROVE FALSE
      <4>1. g = h
        BY <1>2, <3>2 DEF TakenInv
      <4>2. newId'[g] = 0
        BY <3>2 DEF InsertLog, LogNext, BaseInv, TypeOK
      <4>3. QED BY <1>2, <4>1, <4>2
    <3>3. ASSUME lock[s] \in Server, i \in Rows(lock[s]), log[s][i] = None PROVE FALSE
      <4>1. \E a \in Server : a # s /\ i \in IdsOf[a]
        BY <2>1, <3>3, CopyIsForeign
      <4>2. QED BY ONLY <2>1, <4>1, Disjoint DEF Disjoint
    <3>4. QED BY <3>1, <3>2, <3>3 DEF NewRow
  <2>4. QED BY <1>2, <2>1, <2>2, <2>3
<1>3. ASSUME NEW h \in Handler, newId'[h] # 0
      PROVE  /\ hpc'[h] = "logging" /\ newId'[h] \in IdsOf[HomeOf[h]]
             /\ newId'[h] <= clock'[HomeOf[h]] /\ newId'[h] \notin Rows(HomeOf[h])'
  BY <1>1, <1>2, <1>3, IdsComeFrom
<1>4. ASSUME NEW h \in Handler, NEW g \in Handler, newId'[h] # 0,
             newId'[h] = newId'[g], HomeOf[h] = HomeOf[g]
      PROVE  h = g
  <2>1. CASE TakeId(h)
    BY <1>1, <1>4, <2>1
  <2>2. CASE TakeId(g)
    BY <1>1, <1>4, <2>2
  <2>3. CASE newId'[h] = newId[h] /\ newId'[g] = newId[g]
    BY <1>4, <2>3 DEF TakenInv
  <2>4. QED BY <1>4, <2>1, <2>2, <2>3, IdsComeFrom
<1>5. QED BY <1>3, <1>4 DEF TakenInv
-----------------------------------------------------------------------------
(* A statement is logged once.                                             *)

\* The lists of two goroutines, and two places of a list, hold different
\* statements.
Distinct(lists) ==
    \A h, g \in Handler : \A k \in DOMAIN lists[h], n \in DOMAIN lists[g] :
        lists[h][k] = lists[g][n] => h = g /\ k = n

\* A statement is added to a list, or the lists only get shorter.
Adds(h, c) ==
    /\ c \in fresh /\ fresh' = fresh \ {c} /\ Author[c] = HomeOf[h]
    /\ pending' = [pending EXCEPT ![h] = Append(pending[h], c)]
Drops(h) ==
    /\ pending[h] # <<>> /\ pending' = [pending EXCEPT ![h] = Tail(pending[h])]
    /\ UNCHANGED fresh
Clears ==
    /\ \A h \in Handler : pending'[h] = pending[h] \/ pending'[h] = <<>>
    /\ UNCHANGED fresh

LEMMA ListKinds ==
    ASSUME BaseInv, [Next]_vars
    PROVE  \/ \E h \in Handler, c \in Change : Adds(h, c)
           \/ \E h \in Handler : Drops(h)
           \/ Clears
<1>t. pending \in [Handler -> Seq(Change)]
  BY DEF BaseInv, TypeOK
<1>1. CASE UNCHANGED request
  BY <1>1 DEF request, Clears
<1>2. ASSUME NEW h \in Handler, NEW c \in Change, Write(h, c) PROVE Adds(h, c)
  BY <1>2 DEF Write, Adds
<1>3. ASSUME NEW h \in Handler, NEW c \in Change, AutoCommitWrite(h, c) PROVE Adds(h, c)
  <2>1. pending[h] = <<>>
    BY <1>3 DEF AutoCommitWrite, BaseInv, HandlerInv
  <2>2. Append(pending[h], c) = <<c>>
    BY <2>1
  <2>3. QED BY <1>3, <2>2 DEF AutoCommitWrite, Adds
<1>4. ASSUME NEW h \in Handler, Rollback(h) PROVE Clears
  BY <1>4, <1>t DEF Rollback, Clears
<1>5. ASSUME NEW h \in Handler, Commit(h) \/ TakeId(h) PROVE Clears
  BY <1>5 DEF Commit, TakeId, Clears
<1>6. ASSUME NEW h \in Handler, InsertLog(h) \/ InsertLogBusy(h) PROVE Drops(h)
  BY <1>6 DEF InsertLog, InsertLogBusy, LogNext, Drops, BaseInv, HandlerInv
<1>7. ASSUME NEW s \in Server, Crash(s) PROVE Clears
  BY <1>7 DEF Crash, Clears
<1>8. QED BY <1>1, <1>2, <1>3, <1>4, <1>5, <1>6, <1>7, RequestKinds

\* Where Append and Tail put what was on the list.
LEMMA AppendAt ==
    ASSUME NEW q \in Seq(Change), NEW c \in Change, NEW k \in DOMAIN Append(q, c)
    PROVE  \/ k = Len(q) + 1 /\ Append(q, c)[k] = c
           \/ k \in DOMAIN q /\ Append(q, c)[k] = q[k]
<1>1. /\ Len(Append(q, c)) = Len(q) + 1 /\ Len(q) \in Nat
      /\ DOMAIN q = 1..Len(q) /\ DOMAIN Append(q, c) = 1..(Len(q) + 1)
  OBVIOUS
<1>2. Append(q, c)[k] = IF k = Len(q) + 1 THEN c ELSE q[k]
  BY <1>1
<1>3. QED BY <1>1, <1>2

\* What is on a list was there, or was not written yet; lists stay distinct.
LEMMA ListsStay ==
    ASSUME BaseInv, Distinct(pending), [Next]_vars,
           \A h \in Handler : \A k \in DOMAIN pending[h] : pending[h][k] \notin fresh
    PROVE  /\ fresh' \subseteq fresh
           /\ \A h \in Handler : \A k \in DOMAIN pending'[h] :
                 \/ pending'[h][k] \in fresh \ fresh'
                 \/ \E n \in DOMAIN pending[h] : pending'[h][k] = pending[h][n]
           /\ Distinct(pending')
<1>t. pending \in [Handler -> Seq(Change)]
  BY DEF BaseInv, TypeOK
<1>1. ASSUME NEW g \in Handler, NEW c \in Change, Adds(g, c)
      PROVE  /\ fresh' \subseteq fresh
             /\ \A h \in Handler : \A k \in DOMAIN pending'[h] :
                   \/ pending'[h][k] \in fresh \ fresh'
                   \/ \E n \in DOMAIN pending[h] : pending'[h][k] = pending[h][n]
             /\ Distinct(pending')
  <2> DEFINE at == Len(pending[g]) + 1
  <2>1. c \in fresh /\ fresh' = fresh \ {c}
        /\ pending' = [pending EXCEPT ![g] = Append(pending[g], c)]
    BY <1>1 DEF Adds
  <2>2. \A k \in DOMAIN Append(pending[g], c) :
           \/ k = at /\ Append(pending[g], c)[k] = c
           \/ k \in DOMAIN pending[g] /\ Append(pending[g], c)[k] = pending[g][k]
    BY <1>t, AppendAt
  <2> HIDE DEF at
  <2>3. \A h \in Handler : \A k \in DOMAIN pending'[h] :
           \/ h = g /\ k = at /\ pending'[h][k] = c
           \/ k \in DOMAIN pending[h] /\ pending'[h][k] = pending[h][k]
    BY ONLY <1>t, <2>1, <2>2
  <2>4. \A h \in Handler : \A k \in DOMAIN pending[h] : pending[h][k] # c
    BY <2>1
  <2>5. Distinct(pending')
    BY ONLY <2>3, <2>4, Distinct(pending) DEF Distinct
  <2>6. QED BY ONLY <2>1, <2>3, <2>5
<1>2. ASSUME NEW g \in Handler, Drops(g)
      PROVE  /\ fresh' \subseteq fresh
             /\ \A h \in Handler : \A k \in DOMAIN pending'[h] :
                   \E n \in DOMAIN pending[h] : pending'[h][k] = pending[h][n]
             /\ Distinct(pending')
  <2>1. \A k \in DOMAIN Tail(pending[g]) :
           k \in Int /\ k + 1 \in DOMAIN pending[g] /\ Tail(pending[g])[k] = pending[g][k + 1]
    BY <1>2, <1>t, TailIs DEF Drops
  <2>2. \A h \in Handler : \A k \in DOMAIN pending'[h] :
           IF h = g THEN /\ k \in Int /\ k + 1 \in DOMAIN pending[h]
                         /\ pending'[h][k] = pending[h][k + 1]
                    ELSE k \in DOMAIN pending[h] /\ pending'[h][k] = pending[h][k]
    BY <1>2, <1>t, <2>1 DEF Drops
  <2>3. Distinct(pending')
    BY ONLY <2>2, Distinct(pending) DEF Distinct
  <2>4. fresh' = fresh
    BY <1>2 DEF Drops
  <2>5. QED BY ONLY <2>2, <2>3, <2>4
<1>3. CASE Clears
  <2>1. \A h \in Handler : \A k \in DOMAIN pending'[h] :
           k \in DOMAIN pending[h] /\ pending'[h][k] = pending[h][k]
    BY <1>3 DEF Clears
  <2>2. Distinct(pending')
    BY ONLY <2>1, Distinct(pending) DEF Distinct
  <2>3. QED BY <1>3, <2>1, <2>2 DEF Clears
<1>4. QED BY <1>1, <1>2, <1>3, ListKinds

\* What a goroutine logs is off its list.
LEMMA LoggedIsDropped ==
    ASSUME BaseInv, Distinct(pending), NEW g \in Handler, InsertLog(g),
           NEW h \in Handler, NEW k \in DOMAIN pending'[h]
    PROVE  pending'[h][k] # pending[g][1]
<1>t. pending \in [Handler -> Seq(Change)] /\ pending[g] # <<>>
  BY DEF BaseInv, TypeOK, HandlerInv, InsertLog
<1>1. pending' = [pending EXCEPT ![g] = Tail(pending[g])]
  BY DEF InsertLog, LogNext
<1>2. 1 \in DOMAIN pending[g]
  BY <1>t
<1>3. CASE h = g
  <2>1. k \in DOMAIN Tail(pending[g]) /\ pending'[h][k] = Tail(pending[g])[k]
    BY <1>1, <1>3, <1>t
  <2>2. k \in Nat \ {0} /\ k + 1 \in DOMAIN pending[g] /\ Tail(pending[g])[k] = pending[g][k + 1]
    BY <1>t, <2>1, TailIs
  <2>3. k + 1 # 1
    BY <2>2
  <2>4. QED BY <1>2, <2>1, <2>2, <2>3 DEF Distinct
<1>4. CASE h # g
  <2>1. pending'[h] = pending[h]
    BY <1>1, <1>4, <1>t
  <2>2. QED BY <1>2, <1>4, <2>1 DEF Distinct
<1>5. QED BY <1>3, <1>4

LEMMA OnceStep ==
    BaseInv /\ RowInv /\ ClockInv /\ OnceInv /\ [Next]_vars => OnceInv'
<1> SUFFICES ASSUME BaseInv, RowInv, ClockInv, OnceInv, [Next]_vars PROVE OnceInv'
  OBVIOUS
<1>1. /\ \A h \in Handler : \A k \in DOMAIN pending[h] : pending[h][k] \notin fresh
      /\ Distinct(pending)
  BY DEF OnceInv, Distinct
<1>2. /\ fresh' \subseteq fresh
      /\ \A h \in Handler : \A k \in DOMAIN pending'[h] :
            \/ pending'[h][k] \in fresh \ fresh'
            \/ \E n \in DOMAIN pending[h] : pending'[h][k] = pending[h][n]
      /\ Distinct(pending')
  BY <1>1, ListsStay
<1>3. ASSUME NEW m \in Server, NEW i \in Rows(m)
      PROVE  /\ log[m][i] \notin fresh
             /\ \A h \in Handler : \A k \in DOMAIN pending'[h] : log[m][i] # pending'[h][k]
  BY <1>2 DEF OnceInv
<1>4. ASSUME NEW s \in Server, NEW i \in Rows(s)'
      PROVE  /\ log'[s][i] \notin fresh'
             /\ \A h \in Handler : \A k \in DOMAIN pending'[h] : log'[s][i] # pending'[h][k]
  <2>1. CASE i \in Rows(s)
    BY <1>2, <1>3, <2>1, RowsStay
  <2>2. CASE i \notin Rows(s)
    <3>1. NewRow(s, i)
      BY <2>2, RowsComeFrom
    <3>2. ASSUME NEW g \in Handler, InsertLog(g), 1 \in DOMAIN pending[g],
                 log'[s][i] = pending[g][1]
          PROVE  /\ log'[s][i] \notin fresh'
                 /\ \A h \in Handler : \A k \in DOMAIN pending'[h] : log'[s][i] # pending'[h][k]
      BY <1>1, <1>2, <3>2, LoggedIsDropped
    <3>3. QED BY <1>2, <1>3, <3>1, <3>2 DEF NewRow
  <2>3. QED BY <2>1, <2>2
<1>5. ASSUME NEW s \in Server, NEW i \in Rows(s)', NEW j \in Rows(s)',
             Author[log'[s][i]] = s, log'[s][i] = log'[s][j]
      PROVE  i = j
  <2>1. ASSUME NEW k \in Rows(s)', k \notin Rows(s), Author[log'[s][k]] = s
        PROVE  \E h \in Handler : /\ InsertLog(h) /\ newId[h] = k /\ 1 \in DOMAIN pending[h]
                                  /\ log'[s][k] = pending[h][1]
    BY <2>1, RowsComeFrom, CopyIsForeign DEF NewRow
  <2>2. CASE i \in Rows(s) /\ j \in Rows(s)
    BY <1>5, <2>2, RowsStay DEF OnceInv
  <2>3. CASE i \in Rows(s) /\ j \notin Rows(s)
    BY <1>5, <2>1, <2>3, RowsStay DEF OnceInv
  <2>4. CASE i \notin Rows(s) /\ j \in Rows(s)
    BY <1>5, <2>1, <2>4, RowsStay DEF OnceInv
  <2>5. CASE i \notin Rows(s) /\ j \notin Rows(s)
    BY <1>1, <1>5, <2>1, <2>5 DEF Distinct
  <2>6. QED BY <2>2, <2>3, <2>4, <2>5
<1>6. ASSUME NEW h \in Handler, NEW k \in DOMAIN pending'[h]
      PROVE  pending'[h][k] \notin fresh'
  BY <1>1, <1>2
<1>7. QED BY <1>2, <1>4, <1>5, <1>6 DEF OnceInv, Distinct

LEMMA IdsHold ==
    ASSUME Disjoint
    PROVE  Spec => [](BaseInv /\ RowInv /\ TakenInv /\ ClockInv /\ OnceInv)
<1>1. Init => TakenInv /\ ClockInv /\ OnceInv
  BY DEF Init, TakenInv, ClockInv, OnceInv, Rows
<1>2. BaseInv /\ RowInv /\ TakenInv /\ ClockInv /\ [Next]_vars => TakenInv'
  BY TakenStep, Disjoint
<1>3. QED BY <1>1, <1>2, ClockStep, OnceStep, RowHolds, PTL DEF Spec

LEMMA IdsAgreeIs ==
    ASSUME Disjoint
    PROVE  BaseInv /\ RowInv /\ ClockInv /\ OnceInv => IdsAgree
<1> SUFFICES ASSUME BaseInv, RowInv, ClockInv, OnceInv,
                    NEW s \in Server, NEW t \in Server, NEW i \in Rows(s), NEW j \in Rows(t)
             PROVE  log[s][i] = log[t][j] <=> i = j
  BY DEF IdsAgree
<1> DEFINE a == Author[log[s][i]]
           b == Author[log[t][j]]
<1>1. /\ a \in Server /\ i \in IdsOf[a] /\ log[a][i] = log[s][i] /\ i \in Rows(a)
      /\ b \in Server /\ j \in IdsOf[b] /\ log[b][j] = log[t][j] /\ j \in Rows(b)
  BY DEF BaseInv, TypeOK, RowInv, ClockInv, Rows
<1>2. ASSUME log[s][i] = log[t][j] PROVE i = j
  BY <1>1, <1>2 DEF OnceInv
<1>3. ASSUME i = j PROVE log[s][i] = log[t][j]
  <2>1. a = b
    BY ONLY <1>1, <1>3, Disjoint DEF Disjoint
  <2>2. QED BY <1>1, <1>3, <2>1
<1>4. QED BY <1>2, <1>3

\* When clocks yield different ids, an id stands for one statement on all
\* servers and a statement has one id: "the id is taken" means "this row is
\* stored already" (insertLog), after any crashes, faults and interleavings.
THEOREM IdsAgreeHolds ==
    ASSUME Disjoint
    PROVE  Spec => []IdsAgree
  BY IdsHold, IdsAgreeIs, Disjoint, PTL
-----------------------------------------------------------------------------
(* Once, unless a mark was lost.                                           *)

\* A row to be marked stays the one to be marked until it is, or a mark is lost.
LEMMA MarkStays ==
    ASSUME BaseInv, [Next]_vars, NEW s \in Server, step[s] = "mark"
    PROVE  \/ step'[s] = "mark" /\ batch'[s] = batch[s]
           \/ Mark(s) \/ MarkBusy(s) \/ Crash(s)
<1> DEFINE Stays == step'[s] = "mark" /\ batch'[s] = batch[s]
<1>t. /\ step \in [Server -> {"free", "fetch", "insert", "save", "load", "run", "mark"}]
      /\ batch \in [Server -> SUBSET Id]
      /\ lock[s] # None
  BY DEF BaseInv, TypeOK, StepInv, WorkInv
<1>1. ASSUME NEW u \in Server, u # s, NEW p, step' = [step EXCEPT ![u] = p],
             \A t \in Server \ {u} : batch'[t] = batch[t]
      PROVE  Stays
  BY ONLY <1>t, <1>1, step[s] = "mark", s \in Server
<1>2. ASSUME NEW u \in Server, u # s, Release(u) PROVE Stays
  <2>1. step' = [step EXCEPT ![u] = "free"] /\ batch' = [batch EXCEPT ![u] = {}]
    BY <1>2 DEF Release
  <2>2. \A t \in Server \ {u} : batch'[t] = batch[t]
    BY ONLY <1>t, <2>1
  <2>3. QED BY <1>1, <1>2, <2>1, <2>2
<1>3. ASSUME UNCHANGED <<lastId, sync>> PROVE Stays
  BY <1>3 DEF sync
<1>4. ASSUME NEW u \in Server, NEW m \in Server, Start(u, m) \/ Pushed(u, m) PROVE Stays
  <2>1. step' = [step EXCEPT ![u] = "fetch"] /\ UNCHANGED batch /\ u # s
    BY <1>4, <1>t DEF Start, Pushed, Goto
  <2>2. QED BY <1>1, <2>1
<1>5. ASSUME NEW u \in Server, NEW m \in Server, ConnLost(u, m) PROVE Stays
  BY <1>5 DEF ConnLost
<1>6. ASSUME NEW u \in Server, Fetch(u) \/ SaveLastId(u) \/ InsertRow(u) \/ Run(u) PROVE Stays
  <2>1. /\ UNCHANGED batch /\ u # s
        /\ \/ UNCHANGED step
           \/ \E p : step' = [step EXCEPT ![u] = p]
    BY <1>6 DEF Fetch, SaveLastId, InsertRow, Run, Goto
  <2>2. \A t \in Server \ {u} : batch'[t] = batch[t]
    BY ONLY <2>1
  <2>3. CASE UNCHANGED step
    BY <2>1, <2>3
  <2>4. CASE \E p : step' = [step EXCEPT ![u] = p]
    BY <1>1, <2>1, <2>2, <2>4
  <2>5. QED BY ONLY <2>1, <2>3, <2>4
<1>7. ASSUME NEW u \in Server, Load(u) PROVE Stays
  <2>1. u # s
    BY <1>7 DEF Load
  <2>2. CASE Release(u)
    BY <1>2, <2>1, <2>2
  <2>3. CASE ~Release(u)
    <3>1. /\ \E p : step' = [step EXCEPT ![u] = p]
          /\ batch' = batch \/ \E b : batch' = [batch EXCEPT ![u] = b]
      BY <1>7, <2>3 DEF Load, Goto
    <3>2. \A t \in Server \ {u} : batch'[t] = batch[t]
      BY ONLY <1>t, <3>1
    <3>3. QED BY <1>1, <2>1, <3>1, <3>2
  <2>4. QED BY <2>2, <2>3
<1>8. ASSUME NEW u \in Server, u # s, Mark(u) \/ MarkBusy(u) PROVE Stays
  <2>1. /\ \E p : step' = [step EXCEPT ![u] = p]
        /\ batch' = [batch EXCEPT ![u] = @ \ {Current(u)}]
    BY <1>8 DEF Mark, MarkBusy, Advance, Goto
  <2>2. \A t \in Server \ {u} : batch'[t] = batch[t]
    BY ONLY <1>t, <2>1
  <2>3. QED BY <1>1, <1>8, <2>1, <2>2
<1>9. ASSUME NEW u \in Server, RunRejected(u) \/ FetchFails(u) \/ InsertRowBusy(u) \/ RunFails(u)
      PROVE  Stays
  <2>1. Release(u) /\ u # s
    BY <1>9 DEF RunRejected, FetchFails, InsertRowBusy, RunFails, GiveUp, Panic
  <2>2. QED BY <1>2, <2>1
<1>10. ASSUME NEW u \in Server, u # s, Crash(u) PROVE Stays
  BY <1>2, <1>10 DEF Crash
<1> HIDE DEF Stays
<1>11. ASSUME NEW u \in Server, Mark(u) \/ MarkBusy(u) \/ Crash(u)
       PROVE  Stays \/ Mark(s) \/ MarkBusy(s) \/ Crash(s)
  <2>1. CASE u = s
    BY ONLY <1>11, <2>1
  <2>2. CASE u # s
    BY ONLY <1>8, <1>10, <1>11, <2>2
  <2>3. QED BY <2>1, <2>2
<1>12. Stays \/ Mark(s) \/ MarkBusy(s) \/ Crash(s)
  BY ONLY <1>3, <1>4, <1>5, <1>6, <1>7, <1>9, <1>11, [Next]_vars, ListenerKinds
<1>13. QED BY <1>12 DEF Stays

\* No fault is won back, and a lost mark costs one.
LEMMA BudgetKinds ==
    ASSUME BaseInv, [Next]_vars
    PROVE  left' = left \/ \E f \in Fault : Spend(f)
<1>1. ASSUME NEW h \in Handler,
             \/ \E c \in Change : Write(h, c) \/ AutoCommitWrite(h, c)
             \/ Rollback(h) \/ Commit(h) \/ TakeId(h) \/ InsertLog(h)
      PROVE  left' = left
  BY ONLY <1>1 DEF Write, AutoCommitWrite, Rollback, Commit, TakeId, InsertLog
<1>2. ASSUME NEW s \in Server, NEW m \in Server, Start(s, m) \/ Pushed(s, m) \/ ConnLost(s, m)
      PROVE  left' = left
  BY ONLY <1>2 DEF Start, Pushed, ConnLost
<1>3. ASSUME NEW s \in Server,
             \/ Fetch(s) \/ InsertRow(s) \/ SaveLastId(s) \/ Load(s) \/ Run(s)
             \/ RunRejected(s) \/ Mark(s)
      PROVE  left' = left
  BY ONLY <1>3 DEF Fetch, InsertRow, SaveLastId, Load, Run, RunRejected, Mark
<1>4. ASSUME NEW h \in Handler, InsertLogBusy(h) PROVE \E f \in Fault : Spend(f)
  BY <1>4 DEF InsertLogBusy, Fault
<1>5. ASSUME NEW s \in Server,
             FetchFails(s) \/ InsertRowBusy(s) \/ RunFails(s) \/ MarkBusy(s) \/ Crash(s)
      PROVE  \E f \in Fault : Spend(f)
  BY <1>5 DEF FetchFails, InsertRowBusy, RunFails, MarkBusy, Crash, Fault
<1>6. CASE UNCHANGED vars
  BY <1>6 DEF vars
<1>7. QED BY <1>1, <1>2, <1>3, <1>4, <1>5, <1>6 DEF Next, HandlerStep, SyncStep

LEMMA BudgetStep ==
    ASSUME BaseInv, UnmarkedInv, [Next]_vars
    PROVE  /\ \A f \in Fault : left'[f] <= Budget[f]
           /\ MarksLost => MarksLost'
           /\ \A s \in Server : MarkBusy(s) \/ Crash(s) => MarksLost'
<1>t. left \in [Fault -> Nat] /\ Budget \in [Fault -> Nat] /\ "crash" \in Fault /\ "busy" \in Fault
  BY DEF BaseInv, TypeOK, Fault
<1>i. \A f \in Fault : left[f] <= Budget[f]
  BY DEF UnmarkedInv
<1>1. ASSUME NEW f \in Fault, Spend(f)
      PROVE  /\ \A g \in Fault : left'[g] <= left[g]
             /\ left'[f] < Budget[f]
  BY ONLY <1>t, <1>i, <1>1 DEF Spend
<1>2. \A g \in Fault : left'[g] <= left[g]
  <2>1. CASE left' = left
    BY ONLY <1>t, <2>1
  <2>2. QED BY ONLY <1>1, <2>1, BaseInv, [Next]_vars, BudgetKinds
<1>3. left' \in [Fault -> Nat]
  BY BaseStep DEF BaseInv, TypeOK
<1>4. \A f \in Fault : left'[f] <= Budget[f]
  BY ONLY <1>t, <1>i, <1>2, <1>3
<1>5. MarksLost => MarksLost'
  BY ONLY <1>t, <1>2, <1>3 DEF MarksLost
<1>6. \A s \in Server : MarkBusy(s) \/ Crash(s) => Spend("busy") \/ Spend("crash")
  BY ONLY DEF MarkBusy, Crash
<1>7. \A s \in Server : MarkBusy(s) \/ Crash(s) => MarksLost'
  BY <1>1, <1>6, <1>t DEF MarksLost
<1>8. QED BY <1>4, <1>5, <1>7

\* What a database newly reflects a request wrote, or it is the statement that
\* runs.
LEMMA ReflectKinds ==
    ASSUME BaseInv, [Next]_vars, NEW s \in Server, NEW c \in data'[s], c \notin data[s]
    PROVE  \/ c \in fresh
           \/ \E h \in Handler : \E k \in DOMAIN pending[h] : c = pending[h][k]
           \/ Run(s) /\ c = log[s][Current(s)]
<1>t. data \in [Server -> SUBSET Change]
  BY DEF BaseInv, TypeOK
<1>1. CASE UNCHANGED data
  BY <1>1
<1>2. ASSUME NEW h \in Handler, NEW d \in Change, AutoCommitWrite(h, d) PROVE c \in fresh
  <2>1. d \in fresh /\ data' = [data EXCEPT ![HomeOf[h]] = @ \cup {d}]
    BY <1>2 DEF AutoCommitWrite
  <2>2. QED BY <1>t, <2>1
<1>3. ASSUME NEW h \in Handler, Commit(h)
      PROVE  \E k \in DOMAIN pending[h] : c = pending[h][k]
  <2> DEFINE new == {pending[h][k] : k \in DOMAIN pending[h]}
  <2>1. data' = data \/ data' = [data EXCEPT ![HomeOf[h]] = @ \cup new]
    BY <1>3 DEF Commit
  <2>2. c \in new
    <3> HIDE DEF new
    <3>1. QED BY ONLY <1>t, <2>1, s \in Server, c \in data'[s], c \notin data[s]
  <2>3. QED BY <2>2
<1>4. ASSUME NEW u \in Server, Run(u) PROVE Run(s) /\ c = log[s][Current(s)]
  <2>1. data' = [data EXCEPT ![u] = @ \cup {log[u][Current(u)]}]
    BY <1>4 DEF Run
  <2>2. u = s /\ c = log[u][Current(u)]
    BY ONLY <1>t, <2>1, u \in Server, s \in Server, c \in data'[s], c \notin data[s]
  <2>3. QED BY <1>4, <2>2
<1>5. ASSUME \/ \E h \in Handler : InsertLog(h)
             \/ \E u \in Server : InsertRow(u) \/ Mark(u)
      PROVE  UNCHANGED data
  BY ONLY <1>5 DEF InsertLog, InsertRow, Mark
<1>6. QED BY <1>1, <1>2, <1>3, <1>4, <1>5, Kinds

LEMMA UnmarkedStep ==
    ASSUME Disjoint
    PROVE  BaseInv /\ RowInv /\ ClockInv /\ OnceInv /\ UnmarkedInv /\ [Next]_vars => UnmarkedInv'
<1> SUFFICES ASSUME BaseInv, RowInv, ClockInv, OnceInv, UnmarkedInv, [Next]_vars
             PROVE  UnmarkedInv'
  OBVIOUS
<1>0. IdsAgree /\ Kept /\ Stored /\ Grown
  BY IdsAgreeIs, KeptStep, Origins, Disjoint DEF BaseInv
<1>1. /\ \A f \in Fault : left'[f] <= Budget[f]
      /\ MarksLost => MarksLost'
      /\ \A s \in Server : MarkBusy(s) \/ Crash(s) => MarksLost'
  BY BudgetStep
<1>2. ASSUME NEW s \in Server, NEW c \in data'[s], Author[c] # s
      PROVE  \E i \in Rows(s)' : log'[s][i] = c
  <2>1. \E i \in Rows(s) : log[s][i] = c
    <3>1. CASE c \in data[s]
      BY <1>2, <3>1 DEF UnmarkedInv
    <3>2. CASE c \notin data[s]
      <4>1. step[s] = "run" /\ c = log[s][Current(s)]
        BY <1>0, <1>2, <3>2 DEF Grown
      <4>2. Current(s) \in batch[s] /\ batch[s] \subseteq NotRun(s)
        BY <4>1, Facts DEF BaseInv, StepInv, WorkInv
      <4>3. QED BY <4>1, <4>2 DEF NotRun
    <3>3. QED BY <3>1, <3>2
  <2>2. QED BY <2>1, RowsStay
<1>3. ASSUME ~MarksLost', NEW s \in Server, NEW i \in NotRun(s)', log'[s][i] \in data'[s]
      PROVE  step'[s] = "mark" /\ i = Current(s)'
  <2>1. i \in Rows(s)' /\ i \notin ran'[s] /\ i \in Id
    BY DEF NotRun, Rows
  <2>2. i \in Rows(s)
    <3> SUFFICES ASSUME i \notin Rows(s) PROVE FALSE
      OBVIOUS
    <3>1. NewRow(s, i)
      BY <2>1, RowsComeFrom
    <3>2. ASSUME NEW h \in Handler, InsertLog(h), HomeOf[h] = s, newId[h] = i PROVE FALSE
      <4>1. ran' = [ran EXCEPT ![s] = @ \cup {i}]
        BY <3>1, <3>2 DEF InsertLog, NewRow
      <4>2. ran \in [Server -> SUBSET Id]
        BY DEF BaseInv, TypeOK
      <4>3. QED BY <2>1, <4>1, <4>2
    <3>3. ASSUME InsertRow(s), lock[s] \in Server, i \in Rows(lock[s]),
                 log'[s][i] = log[lock[s]][i]
          PROVE  FALSE
      <4> DEFINE c == log[lock[s]][i]
      <4>1. c \in data[s]
        BY <1>3, <3>3 DEF InsertRow
      <4>2. CASE Author[c] = s
        <5>1. log[s][i] = c /\ c # None
          BY <3>3, <4>2 DEF RowInv, Rows
        <5>2. QED BY <2>1, <5>1 DEF Rows
      <4>3. CASE Author[c] # s
        <5>1. PICK j \in Rows(s) : log[s][j] = c
          BY <4>1, <4>3 DEF UnmarkedInv
        <5>2. i = j
          BY <1>0, <3>3, <5>1 DEF IdsAgree
        <5>3. QED BY <5>1, <5>2
      <4>4. QED BY <4>2, <4>3
    <3>4. QED BY <3>1, <3>2, <3>3 DEF NewRow
  <2>3. log'[s][i] = log[s][i] /\ i \in NotRun(s)
    BY <1>0, <2>1, <2>2 DEF Kept, NotRun
  <2>4. CASE log[s][i] \in data[s]
    <3>1. step[s] = "mark" /\ i = Current(s)
      BY <1>1, <1>3, <2>3, <2>4 DEF UnmarkedInv
    <3>2. ~MarkBusy(s) /\ ~Crash(s)
      BY <1>1, <1>3
    <3>3. ~Mark(s)
      <4>1. ran \in [Server -> SUBSET Id]
        BY DEF BaseInv, TypeOK
      <4>2. QED BY <2>1, <3>1, <4>1 DEF Mark
    <3>4. step'[s] = "mark" /\ batch'[s] = batch[s]
      BY <3>1, <3>2, <3>3, MarkStays
    <3>5. QED BY <3>1, <3>4 DEF Current
  <2>5. CASE log[s][i] \notin data[s]
    <3>1. Run(s) /\ log[s][i] = log[s][Current(s)]
      <4>1. log[s][i] \notin fresh
        BY <2>2 DEF OnceInv
      <4>2. \A h \in Handler : \A k \in DOMAIN pending[h] : log[s][i] # pending[h][k]
        BY <2>2 DEF OnceInv
      <4>3. QED BY <1>3, <2>3, <2>5, <4>1, <4>2, ReflectKinds
    <3>2. step[s] = "run" /\ step' = [step EXCEPT ![s] = "mark"] /\ batch' = batch
      BY <3>1 DEF Run, Goto
    <3>3. Current(s) \in Rows(s)
      <4>1. Current(s) \in batch[s] /\ batch[s] \subseteq NotRun(s)
        BY <3>2, Facts DEF BaseInv, StepInv, WorkInv
      <4>2. QED BY <4>1 DEF NotRun
    <3>4. i = Current(s)
      BY <1>0, <2>2, <3>1, <3>3 DEF IdsAgree
    <3>5. step'[s] = "mark"
      BY <3>2 DEF BaseInv, TypeOK
    <3>6. QED BY <3>2, <3>4, <3>5 DEF Current
  <2>6. QED BY <2>4, <2>5
<1>4. QED BY <1>1, <1>2, <1>3 DEF UnmarkedInv

\* When clocks yield different ids, nothing that was stored, run or marked is
\* taken back, no marked row is run or marked again, after any crashes and
\* faults, and a statement runs twice only when a crash or a busy database may
\* have lost its mark.
THEOREM ProgressHolds ==
    ASSUME Disjoint
    PROVE  Spec => ProgressIsDurable
<1> DEFINE Durable ==
             \A s \in Server :
               /\ data[s] \subseteq data'[s] /\ ran[s] \subseteq ran'[s]
               /\ \A i \in Rows(s) : log'[s][i] = log[s][i]
               /\ step[s] = "run" /\ step'[s] = "mark" =>
                     /\ Current(s) \notin ran[s]
                     /\ log[s][Current(s)] \notin data[s] \/ MarksLost
               /\ step[s] = "mark" => Current(s) \notin ran[s]
<1>1. Init => UnmarkedInv
  <2> SUFFICES ASSUME Init PROVE UnmarkedInv
    OBVIOUS
  <2>1. \A f \in Fault : left[f] <= Budget[f]
    BY DEF Init
  <2>2. \A s \in Server : data[s] = {}
    BY DEF Init
  <2>3. QED BY <2>1, <2>2 DEF UnmarkedInv
<1>2. BaseInv /\ UnmarkedInv /\ [Next]_vars => Durable
  <2> SUFFICES ASSUME BaseInv, UnmarkedInv, [Next]_vars, NEW s \in Server
               PROVE  /\ data[s] \subseteq data'[s] /\ ran[s] \subseteq ran'[s]
                      /\ \A i \in Rows(s) : log'[s][i] = log[s][i]
                      /\ step[s] = "run" /\ step'[s] = "mark" =>
                            /\ Current(s) \notin ran[s]
                            /\ log[s][Current(s)] \notin data[s] \/ MarksLost
                      /\ step[s] = "mark" => Current(s) \notin ran[s]
    OBVIOUS
  <2>1. Kept
    BY KeptStep DEF BaseInv
  <2>2. step[s] \in {"run", "mark"} => Current(s) \in NotRun(s)
    BY Facts DEF BaseInv, StepInv, WorkInv
  <2>3. step[s] = "run" /\ log[s][Current(s)] \in data[s] => MarksLost
    BY <2>2 DEF UnmarkedInv
  <2>4. QED BY <2>1, <2>2, <2>3 DEF Kept, NotRun
<1>3. Spec => [](BaseInv /\ UnmarkedInv)
  BY <1>1, UnmarkedStep, IdsHold, Disjoint, PTL DEF Spec
<1>4. QED BY <1>2, <1>3, PTL DEF ProgressIsDurable, Spec
-----------------------------------------------------------------------------
(* Oldest first.                                                           *)

\* Where the rows that a listener runs come from.
BatchFrom(s) ==
    \/ step[s] \in {"run", "mark"} /\ batch'[s] = batch[s]
    \/ step[s] = "mark" /\ batch'[s] = batch[s] \ {Current(s)}
    \/ step[s] = "load" /\ batch'[s] = FirstOf(NotRun(s), RunLimit)

LEMMA BatchKinds ==
    ASSUME BaseInv, [Next]_vars, NEW s \in Server, step'[s] \in {"run", "mark"}
    PROVE  BatchFrom(s)
<1>t. /\ step \in [Server -> {"free", "fetch", "insert", "save", "load", "run", "mark"}]
      /\ batch \in [Server -> SUBSET Id]
  BY DEF BaseInv, TypeOK
<1>1. ASSUME step'[s] = step[s], batch'[s] = batch[s] PROVE BatchFrom(s)
  BY <1>1 DEF BatchFrom
<1>2. ASSUME NEW u \in Server, NEW p, p \notin {"run", "mark"}, step' = [step EXCEPT ![u] = p],
             \A t \in Server \ {u} : batch'[t] = batch[t]
      PROVE  BatchFrom(s)
  <2>1. u # s /\ step'[s] = step[s] /\ batch'[s] = batch[s]
    BY ONLY <1>t, <1>2, step'[s] \in {"run", "mark"}, s \in Server
  <2>2. QED BY <1>1, <2>1
<1>3. ASSUME NEW u \in Server, Release(u) PROVE BatchFrom(s)
  <2>1. step' = [step EXCEPT ![u] = "free"] /\ batch' = [batch EXCEPT ![u] = {}]
    BY <1>3 DEF Release
  <2>2. \A t \in Server \ {u} : batch'[t] = batch[t]
    BY ONLY <1>t, <2>1
  <2>3. QED BY <1>2, <2>1, <2>2
<1>4. CASE UNCHANGED <<lastId, sync>>
  BY <1>1, <1>4 DEF sync
<1>5. ASSUME NEW u \in Server, NEW m \in Server, Start(u, m) \/ Pushed(u, m) PROVE BatchFrom(s)
  <2>1. step' = [step EXCEPT ![u] = "fetch"] /\ UNCHANGED batch
    BY <1>5 DEF Start, Pushed, Goto
  <2>2. QED BY <1>2, <2>1
<1>6. ASSUME NEW u \in Server, NEW m \in Server, ConnLost(u, m) PROVE BatchFrom(s)
  BY <1>1, <1>6 DEF ConnLost
<1>7. ASSUME NEW u \in Server, Fetch(u) \/ SaveLastId(u) \/ InsertRow(u) PROVE BatchFrom(s)
  <2>1. /\ UNCHANGED batch
        /\ \/ UNCHANGED step
           \/ \E p \in {"load", "insert", "save"} : step' = [step EXCEPT ![u] = p]
    BY <1>7 DEF Fetch, SaveLastId, InsertRow, Goto
  <2>2. \A t \in Server : batch'[t] = batch[t]
    BY ONLY <2>1
  <2>3. CASE UNCHANGED step
    BY <1>1, <2>2, <2>3
  <2>4. CASE \E p \in {"load", "insert", "save"} : step' = [step EXCEPT ![u] = p]
    BY <1>2, <2>2, <2>4
  <2>5. QED BY ONLY <2>1, <2>3, <2>4
<1>8. ASSUME NEW u \in Server, Load(u) PROVE BatchFrom(s)
  <2>1. CASE Release(u)
    BY <1>3, <2>1
  <2>2. CASE step' = [step EXCEPT ![u] = "fetch"] /\ UNCHANGED batch
    BY <1>2, <2>2
  <2>3. CASE /\ step' = [step EXCEPT ![u] = "run"]
             /\ batch' = [batch EXCEPT ![u] = FirstOf(NotRun(u), RunLimit)]
    <3>1. step[u] = "load"
      BY <1>8 DEF Load
    <3>2. CASE u = s
      BY <1>t, <2>3, <3>1, <3>2 DEF BatchFrom
    <3>3. CASE u # s
      BY <1>t, <1>1, <2>3, <3>3
    <3>4. QED BY <3>2, <3>3
  <2>4. QED BY <1>8, <2>1, <2>2, <2>3 DEF Load, Goto
<1>9. ASSUME NEW u \in Server, Run(u) PROVE BatchFrom(s)
  <2>1. step[u] = "run" /\ step' = [step EXCEPT ![u] = "mark"] /\ UNCHANGED batch
    BY <1>9 DEF Run, Goto
  <2>2. step[s] \in {"run", "mark"} /\ batch'[s] = batch[s]
    BY ONLY <1>t, <2>1, step'[s] \in {"run", "mark"}, s \in Server
  <2>3. QED BY <2>2 DEF BatchFrom
<1>10. ASSUME NEW u \in Server, Mark(u) \/ MarkBusy(u) PROVE BatchFrom(s)
  <2>1. /\ step[u] = "mark" /\ \E p : step' = [step EXCEPT ![u] = p]
        /\ batch' = [batch EXCEPT ![u] = @ \ {Current(u)}]
    BY <1>10 DEF Mark, MarkBusy, Advance, Goto
  <2>2. CASE u = s
    BY <1>t, <2>1, <2>2 DEF BatchFrom
  <2>3. CASE u # s
    BY <1>t, <1>1, <2>1, <2>3
  <2>4. QED BY <2>2, <2>3
<1>11. ASSUME NEW u \in Server,
              \/ RunRejected(u) \/ FetchFails(u) \/ InsertRowBusy(u) \/ RunFails(u) \/ Crash(u)
       PROVE  BatchFrom(s)
  <2>1. Release(u)
    BY <1>11 DEF RunRejected, FetchFails, InsertRowBusy, RunFails, Crash, GiveUp, Panic
  <2>2. QED BY <1>3, <2>1
<1>12. QED
  BY ONLY <1>4, <1>5, <1>6, <1>7, <1>8, <1>9, <1>10, <1>11, [Next]_vars, ListenerKinds

LEMMA OldestStep ==
    BaseInv /\ CommitInv /\ AppliedInv /\ OldestInv /\ [Next]_vars => OldestInv'
<1> SUFFICES ASSUME BaseInv, CommitInv, AppliedInv, OldestInv, [Next]_vars,
                    NEW s \in Server, step'[s] \in {"run", "mark"},
                    NEW i \in Rows(s)' \ batch'[s], NEW b \in batch'[s], i < b
             PROVE  log'[s][i] \in data'[s]
  BY DEF OldestInv
<1>1. data[s] \subseteq data'[s]
  BY KeptStep DEF BaseInv, Kept
<1>2. CASE i \notin Rows(s)
  <2>1. NewRow(s, i)
    BY <1>2, RowsComeFrom
  <2>2. ASSUME NEW h \in Handler, InsertLog(h), HomeOf[h] = s, 1 \in DOMAIN pending[h],
               log'[s][i] = pending[h][1]
        PROVE  log'[s][i] \in data[s]
    BY <2>2 DEF InsertLog, CommitInv
  <2>3. ~InsertRow(s)
    <3>1. InsertRow(s) => step[s] = "insert"
      BY DEF InsertRow
    <3>2. step[s] # "insert"
      BY BatchKinds DEF BatchFrom
    <3>3. QED BY <3>1, <3>2
  <2>4. QED BY <1>1, <2>1, <2>2, <2>3 DEF NewRow
<1>3. CASE i \in Rows(s)
  <2> SUFFICES log[s][i] \in data[s]
    BY <1>1, <1>3, RowsStay
  <2>1. CASE step[s] \in {"run", "mark"} /\ batch'[s] = batch[s]
    BY <1>3, <2>1 DEF OldestInv
  <2>2. CASE step[s] = "mark" /\ batch'[s] = batch[s] \ {Current(s)}
    <3>1. CASE i = Current(s)
      BY <2>2, <3>1 DEF AppliedInv
    <3>2. CASE i # Current(s)
      BY <1>3, <2>2, <3>2 DEF OldestInv
    <3>3. QED BY <3>1, <3>2
  <2>3. CASE batch'[s] = FirstOf(NotRun(s), RunLimit)
    <3>1. i \in ran[s]
      <4> SUFFICES ASSUME i \notin ran[s] PROVE FALSE
        OBVIOUS
      <4>1. i \in NotRun(s) /\ NotRun(s) \in SUBSET Id
        BY <1>3, Facts DEF NotRun, BaseInv
      <4>2. b \in FirstOf(NotRun(s), RunLimit) /\ RunLimit \in Nat
        BY <2>3
      <4>3. i <= b
        BY <4>1, <4>2 DEF FirstOf, Id
      <4>4. i \in FirstOf(NotRun(s), RunLimit)
        BY <4>1, <4>2, <4>3, FirstOfCloses
      <4>5. QED BY <2>3, <4>4
    <3>2. QED BY <3>1 DEF AppliedInv
  <2>4. QED BY <2>1, <2>2, <2>3, BatchKinds DEF BatchFrom
<1>4. QED BY <1>2, <1>3

LEMMA OldestHolds ==
    ASSUME FaultyCommit = FALSE
    PROVE  Spec => [](BaseInv /\ RowInv /\ CommitInv /\ AppliedInv /\ OldestInv)
<1>1. Init => OldestInv
  BY DEF Init, OldestInv
<1>2. QED BY <1>1, OldestStep, AppliedHolds, FaultyCommit = FALSE, PTL DEF Spec

\* The row that is run is none that was marked, and all older ones are
\* reflected.
LEMMA RunsOldest ==
    ASSUME BaseInv, OldestInv, NEW s \in Server, step[s] = "run"
    PROVE  /\ Current(s) \in batch[s] /\ Current(s) \in Rows(s) /\ Current(s) \notin ran[s]
           /\ \A i \in Rows(s) : i < Current(s) => log[s][i] \in data[s]
<1>1. batch[s] # {} /\ batch[s] \in SUBSET Nat /\ batch[s] \subseteq NotRun(s)
  BY DEF BaseInv, TypeOK, StepInv, WorkInv, Id
<1>2. Current(s) \in batch[s] /\ \A b \in batch[s] : Current(s) <= b
  BY <1>1, LeastIs DEF Current
<1>3. Current(s) \in Rows(s) /\ Current(s) \notin ran[s]
  BY <1>1, <1>2 DEF NotRun
<1>4. ASSUME NEW i \in Rows(s), i < Current(s) PROVE log[s][i] \in data[s]
  <2>1. i \notin batch[s]
    BY <1>1, <1>2, <1>4
  <2>2. QED BY <1>2, <1>4, <2>1 DEF OldestInv
<1>5. QED BY <1>2, <1>3, <1>4

\* When commits do not fail, runSql runs a row only when all older rows are
\* reflected, however rows of several masters and of the server's own requests
\* are interleaved.
THEOREM RunsOldestFirstHolds ==
    ASSUME FaultyCommit = FALSE
    PROVE  Spec => RunsOldestFirst
<1>1. BaseInv /\ OldestInv =>
        \A s \in Server : step[s] = "run" /\ step'[s] = "mark" =>
          /\ Current(s) \notin ran[s]
          /\ \A i \in Rows(s) : i < Current(s) => log[s][i] \in data[s]
  BY RunsOldest
<1>2. QED BY <1>1, OldestHolds, FaultyCommit = FALSE, PTL DEF RunsOldestFirst
-----------------------------------------------------------------------------
(* What a saved id covers, when masters follow nobody and log one request   *)
(* at a time.                                                              *)

LEMMA ListenStep == BaseInv /\ ListenInv /\ [Next]_vars => ListenInv'
<1> SUFFICES ASSUME BaseInv, ListenInv, [Next]_vars, NEW s \in Server, NEW m \in Server,
                    lpc'[s][m] # "dead" \/ lock'[s] = m
             PROVE  m \in Masters[s]
  BY DEF ListenInv
<1>t. /\ lpc \in [Server -> [Server -> {"sleep", "first", "wait", "pushed", "dead"}]]
      /\ lock \in [Server -> Server \cup {None}]
  BY DEF BaseInv, TypeOK
<1>1. ASSUME lpc[s][m] # "dead" \/ lock[s] = m PROVE m \in Masters[s]
  BY <1>1 DEF ListenInv
<1>2. CASE UNCHANGED <<lastId, sync>>
  BY <1>1, <1>2 DEF sync
<1>3. ASSUME NEW u \in Server, NEW n \in Server, Start(u, n) \/ Pushed(u, n)
      PROVE  lpc[s][m] # "dead" \/ lock[s] = m
  <2>1. /\ lpc[u][n] # "dead" /\ lock' = [lock EXCEPT ![u] = n]
        /\ \E p : lpc' = [lpc EXCEPT ![u] = [lpc[u] EXCEPT ![n] = p]]
    BY <1>3 DEF Start, Pushed
  <2>2. QED BY ONLY <1>t, <2>1, lpc'[s][m] # "dead" \/ lock'[s] = m, s \in Server, m \in Server,
                    u \in Server, n \in Server
<1>4. ASSUME NEW u \in Server, NEW n \in Server, ConnLost(u, n)
      PROVE  lpc[s][m] # "dead" \/ lock[s] = m
  <2>1. /\ lpc[u][n] # "dead" /\ UNCHANGED lock
        /\ \E p : lpc' = [lpc EXCEPT ![u] = [lpc[u] EXCEPT ![n] = p]]
    BY <1>4 DEF ConnLost
  <2>2. QED BY ONLY <1>t, <2>1, lpc'[s][m] # "dead" \/ lock'[s] = m, s \in Server, m \in Server,
                    u \in Server, n \in Server
<1>5. ASSUME NEW u \in Server,
             \/ Fetch(u) \/ InsertRow(u) \/ SaveLastId(u) \/ Run(u) \/ Mark(u) \/ MarkBusy(u)
      PROVE  lpc[s][m] # "dead" \/ lock[s] = m
  <2>1. UNCHANGED <<lpc, lock>>
    BY ONLY <1>5 DEF Fetch, InsertRow, SaveLastId, Run, Mark, MarkBusy
  <2>2. QED BY <2>1
<1>6. ASSUME NEW u \in Server,
             \/ Load(u) \/ RunRejected(u) \/ FetchFails(u) \/ InsertRowBusy(u) \/ RunFails(u)
      PROVE  lpc[s][m] # "dead" \/ lock[s] = m
  <2>1. /\ lock' = lock \/ lock' = [lock EXCEPT ![u] = None]
        /\ lpc' = lpc \/ \E p : lpc' = [lpc EXCEPT ![u] = [lpc[u] EXCEPT ![lock[u]] = p]]
    BY ONLY <1>6 DEF Load, RunRejected, FetchFails, InsertRowBusy, RunFails, GiveUp, Panic, Release
  <2>2. None # m
    OBVIOUS
  <2>3. QED BY ONLY <1>t, <2>1, <2>2, lpc'[s][m] # "dead" \/ lock'[s] = m,
                    s \in Server, m \in Server, u \in Server
<1>7. ASSUME NEW u \in Server, Crash(u)
      PROVE  lpc[s][m] # "dead" \/ lock[s] = m \/ m \in Masters[s]
  <2>1. /\ lock' = [lock EXCEPT ![u] = None]
        /\ lpc' = [lpc EXCEPT ![u] =
                     [n \in Server |-> IF n \in Masters[u] THEN "sleep" ELSE "dead"]]
    BY <1>7 DEF Crash, Release
  <2>2. None # m
    OBVIOUS
  <2>3. QED BY ONLY <1>t, <2>1, <2>2, lpc'[s][m] # "dead" \/ lock'[s] = m,
                    s \in Server, m \in Server, u \in Server
<1>8. QED
  BY <1>1, <1>2, <1>3, <1>4, <1>5, <1>6, <1>7, ListenerKinds

\* A server without masters stores no row of another's.
LEMMA SourceLogs ==
    ASSUME BaseInv, ListenInv, [Next]_vars, NEW m \in Server, Masters[m] = {},
           NEW i \in Rows(m)', i \notin Rows(m)
    PROVE  \E h \in Handler :
              /\ InsertLog(h) /\ HomeOf[h] = m /\ newId[h] = i /\ newId[h] # 0
              /\ 1 \in DOMAIN pending[h] /\ log'[m][i] = pending[h][1]
              /\ Author[log'[m][i]] = m
<1>1. NewRow(m, i)
  BY RowsComeFrom
<1>2. lock[m] \notin Server
  BY DEF ListenInv
<1>3. \A h \in Handler : InsertLog(h) => newId[h] # 0
  BY DEF InsertLog
<1>4. \A h \in Handler : 1 \in DOMAIN pending[h] => Author[pending[h][1]] = HomeOf[h]
  BY DEF BaseInv, HandlerInv
<1>5. QED BY <1>1, <1>2, <1>3, <1>4 DEF NewRow

LEMMA SourceStep ==
    ASSUME OneRequest
    PROVE  BaseInv /\ ListenInv /\ SourceInv /\ [Next]_vars => SourceInv'
<1> SUFFICES ASSUME BaseInv, ListenInv, SourceInv, [Next]_vars,
                    NEW m \in Server, Masters[m] = {}
             PROVE  /\ \A i \in Rows(m)' : i <= clock'[m] /\ Author[log'[m][i]] = m
                    /\ \A h \in Handler : HomeOf[h] = m /\ newId'[h] # 0 =>
                          newId'[h] = clock'[m] /\ \A i \in Rows(m)' : i < newId'[h]
  BY DEF SourceInv
<1>1. /\ \A i \in Rows(m) : i <= clock[m] /\ Author[log[m][i]] = m
      /\ \A h \in Handler : HomeOf[h] = m /\ newId[h] # 0 =>
            newId[h] = clock[m] /\ \A i \in Rows(m) : i < newId[h]
  BY DEF SourceInv
<1>2. clock[m] \in Nat /\ clock'[m] \in Nat /\ clock[m] <= clock'[m]
  BY ClockGrows
<1>3. Rows(m) \subseteq Nat /\ Rows(m)' \subseteq Nat
  BY DEF Rows, Id
<1>4. ASSUME NEW i \in Rows(m)' PROVE i <= clock'[m] /\ Author[log'[m][i]] = m
  <2>1. CASE i \in Rows(m)
    <3>1. log'[m][i] = log[m][i]
      BY <2>1, RowsStay
    <3>2. QED BY <1>1, <1>2, <1>3, <2>1, <3>1
  <2>2. CASE i \notin Rows(m)
    <3>1. i <= clock[m] /\ Author[log'[m][i]] = m
      BY <1>1, <1>2, <2>2, SourceLogs
    <3>2. QED BY <1>2, <1>3, <3>1
  <2>3. QED BY <2>1, <2>2
<1>5. ASSUME NEW h \in Handler, HomeOf[h] = m, newId'[h] # 0
      PROVE  newId'[h] = clock'[m] /\ \A i \in Rows(m)' : i < newId'[h]
  <2>1. ASSUME TakeId(h) PROVE newId'[h] = clock'[m] /\ \A i \in Rows(m)' : i < newId'[h]
    <3>1. newId'[h] = clock'[m] /\ clock'[m] > clock[m] /\ Rows(m)' = Rows(m)
      BY <1>5, <2>1, TakeIdIs DEF Rows
    <3>2. QED BY <1>1, <1>2, <1>3, <3>1
  <2>2. ASSUME newId'[h] = newId[h], ~TakeId(h)
        PROVE  newId'[h] = clock'[m] /\ \A i \in Rows(m)' : i < newId'[h]
    <3>1. newId[h] = clock[m] /\ \A i \in Rows(m) : i < newId[h]
      BY <1>1, <1>5, <2>2
    <3>2. clock'[m] = clock[m]
      BY <1>5, <2>2, ClockMoves, OneRequest DEF OneRequest
    <3>3. \A i \in Rows(m)' : i \in Rows(m)
      <4> SUFFICES ASSUME NEW i \in Rows(m)', i \notin Rows(m) PROVE FALSE
        OBVIOUS
      <4>1. PICK g \in Handler : InsertLog(g) /\ HomeOf[g] = m
        BY SourceLogs
      <4>2. g = h
        BY <1>5, <4>1, OneRequest DEF OneRequest
      <4>3. newId'[h] = 0
        BY <4>1, <4>2 DEF InsertLog, LogNext, BaseInv, TypeOK
      <4>4. QED BY <1>5, <4>3
    <3>4. QED BY <2>2, <3>1, <3>2, <3>3
  <2>3. QED BY <1>5, <2>1, <2>2, IdsComeFrom
<1>6. QED BY <1>4, <1>5

\* A new row of a server without masters comes after all its rows.
LEMMA SourceGrows ==
    ASSUME BaseInv, ListenInv, SourceInv, [Next]_vars, NEW m \in Server, Masters[m] = {},
           NEW i \in Rows(m)', i \notin Rows(m), NEW j \in Rows(m)
    PROVE  j < i
  BY SourceLogs DEF SourceInv

\* What a step does to the work between the answer and the saved id.
PageFrom(s) ==
    \/ /\ step'[s] \notin {"insert", "save"}
       /\ \A m \in Server : lastId'[s][m] \in {0, lastId[s][m]}
    \/ /\ step'[s] = step[s] /\ lock'[s] = lock[s] /\ top'[s] = top[s]
       /\ answer'[s] = answer[s] /\ lastId'[s] = lastId[s]
    \/ Fetch(s) \/ InsertRow(s) \/ SaveLastId(s)

LEMMA PageKinds ==
    ASSUME BaseInv, [Next]_vars, NEW s \in Server
    PROVE  PageFrom(s)
<1>t. /\ step \in [Server -> {"free", "fetch", "insert", "save", "load", "run", "mark"}]
      /\ lock \in [Server -> Server \cup {None}] /\ top \in [Server -> 0..MaxId]
      /\ answer \in [Server -> SUBSET Id]
      /\ lastId \in [Server -> [Server -> 0..MaxId]]
  BY DEF BaseInv, TypeOK
<1>1. CASE UNCHANGED <<lastId, sync>>
  BY <1>1 DEF PageFrom, sync
<1>2. ASSUME NEW u \in Server, u # s,
             \/ step' = step \/ \E p : step' = [step EXCEPT ![u] = p],
             \/ lock' = lock \/ \E p : lock' = [lock EXCEPT ![u] = p],
             \/ top' = top \/ \E p : top' = [top EXCEPT ![u] = p],
             \/ answer' = answer \/ \E p : answer' = [answer EXCEPT ![u] = p],
             \/ lastId' = lastId \/ \E p : lastId' = [lastId EXCEPT ![u] = p]
      PROVE  PageFrom(s)
  <2>1. /\ step'[s] = step[s] /\ lock'[s] = lock[s] /\ top'[s] = top[s]
        /\ answer'[s] = answer[s] /\ lastId'[s] = lastId[s]
    BY ONLY <1>t, <1>2, s \in Server
  <2>2. QED BY <2>1 DEF PageFrom
<1>3. ASSUME NEW u \in Server, NEW p \in {"free", "fetch", "load", "run", "mark"},
             step' = [step EXCEPT ![u] = p],
             \/ lock' = lock \/ \E q : lock' = [lock EXCEPT ![u] = q],
             top' = top,
             \/ answer' = answer \/ \E q : answer' = [answer EXCEPT ![u] = q],
             lastId' = lastId
      PROVE  PageFrom(s)
  <2>1. CASE u = s
    <3>1. step'[s] = p
      BY ONLY <1>t, <1>3, <2>1
    <3>2. QED BY <1>3, <3>1 DEF PageFrom
  <2>2. CASE u # s
    BY <1>2, <1>3, <2>2
  <2>3. QED BY <2>1, <2>2
<1>4. ASSUME NEW u \in Server, Release(u), top' = top, lastId' = lastId PROVE PageFrom(s)
  BY <1>3, <1>4 DEF Release
<1>5. ASSUME NEW u \in Server, NEW m \in Server, Start(u, m) \/ Pushed(u, m) PROVE PageFrom(s)
  <2>1. /\ step' = [step EXCEPT ![u] = "fetch"] /\ lock' = [lock EXCEPT ![u] = m]
        /\ UNCHANGED <<top, answer, lastId>>
    BY <1>5 DEF Start, Pushed, Goto, durable
  <2>2. QED BY <1>3, <2>1
<1>6. ASSUME NEW u \in Server, NEW m \in Server, ConnLost(u, m) PROVE PageFrom(s)
  BY <1>6 DEF ConnLost, PageFrom, durable
<1>7. ASSUME NEW u \in Server, Fetch(u) \/ SaveLastId(u) \/ InsertRow(u) PROVE PageFrom(s)
  <2>1. CASE u = s
    BY <1>7, <2>1 DEF PageFrom
  <2>2. CASE u # s
    <3>1. /\ step' = step \/ \E p : step' = [step EXCEPT ![u] = p]
          /\ lock' = lock
          /\ top' = top \/ \E p : top' = [top EXCEPT ![u] = p]
          /\ answer' = answer \/ \E p : answer' = [answer EXCEPT ![u] = p]
          /\ lastId' = lastId \/ \E p : lastId' = [lastId EXCEPT ![u] = p]
      BY <1>7 DEF Fetch, SaveLastId, InsertRow, Goto, durable
    <3>2. QED BY <1>2, <2>2, <3>1
  <2>3. QED BY <2>1, <2>2
<1>8. ASSUME NEW u \in Server, Load(u) PROVE PageFrom(s)
  <2>1. UNCHANGED <<top, lastId>>
    BY <1>8 DEF Load, durable
  <2>2. CASE Release(u)
    BY <1>4, <2>1, <2>2
  <2>3. CASE ~Release(u)
    <3>1. /\ UNCHANGED <<lock, answer>>
          /\ \/ step' = [step EXCEPT ![u] = "run"]
             \/ step' = [step EXCEPT ![u] = "fetch"]
      BY <1>8, <2>3 DEF Load, Goto
    <3>2. QED BY <1>3, <2>1, <3>1
  <2>4. QED BY <2>2, <2>3
<1>9. ASSUME NEW u \in Server, Run(u) \/ Mark(u) \/ MarkBusy(u) PROVE PageFrom(s)
  <2>1. /\ UNCHANGED <<lock, answer, top, lastId>>
        /\ \E p \in {"mark", "load", "run"} : step' = [step EXCEPT ![u] = p]
    BY <1>9 DEF Run, Mark, MarkBusy, Advance, Goto, durable
  <2>2. QED BY <1>3, <2>1
<1>10. ASSUME NEW u \in Server,
              RunRejected(u) \/ FetchFails(u) \/ InsertRowBusy(u) \/ RunFails(u)
       PROVE  PageFrom(s)
  <2>1. Release(u) /\ UNCHANGED <<top, lastId>>
    BY <1>10 DEF RunRejected, FetchFails, InsertRowBusy, RunFails, GiveUp, Panic, durable
  <2>2. QED BY <1>4, <2>1
<1>11. ASSUME NEW u \in Server, Crash(u) PROVE PageFrom(s)
  <2>1. /\ step' = [step EXCEPT ![u] = "free"] /\ lock' = [lock EXCEPT ![u] = None]
        /\ answer' = [answer EXCEPT ![u] = {}] /\ UNCHANGED top
        /\ \/ UNCHANGED lastId
           \/ lastId' = [lastId EXCEPT ![u] = [lastId[u] EXCEPT ![lock[u]] = 0]]
    BY <1>11 DEF Crash, Release
  <2>2. CASE u = s
    <3>1. step'[s] = "free" /\ \A m \in Server : lastId'[s][m] \in {0, lastId[s][m]}
      BY ONLY <1>t, <2>1, <2>2
    <3>2. QED BY <3>1 DEF PageFrom
  <2>3. CASE u # s
    BY <1>2, <2>1, <2>3
  <2>4. QED BY <2>2, <2>3
<1>12. QED
  BY ONLY <1>1, <1>5, <1>6, <1>7, <1>8, <1>9, <1>10, <1>11, [Next]_vars, ListenerKinds

\* A page covers the master's log up to its last id.
LEMMA FetchCovers ==
    ASSUME BaseInv, ListenInv, PageInv, NoGap, NEW s \in Server, Fetch(s),
           step'[s] \in {"insert", "save"}
    PROVE  LET m == lock[s] IN
           /\ m \in Server /\ m \in Masters[s] /\ lock' = lock /\ log' = log /\ lastId' = lastId
           /\ step'[s] = "insert" /\ top'[s] \in Rows(m)
           /\ \A i \in Rows(m) : i <= top'[s] => i \in Rows(s) \cup answer'[s]
           /\ \A i \in answer'[s] : i <= top'[s]
<1> DEFINE m == lock[s]
           above == {i \in Rows(m) : i > lastId[s][m]}
           page == FirstOf(above, PageLimit)
<1>1. /\ m \in Server /\ m \in Masters[s] /\ lock' = lock /\ log' = log /\ lastId' = lastId
  BY DEF Fetch, BaseInv, StepInv, WorkInv, ListenInv, durable
<1>2. /\ page # {} /\ answer'[s] = page /\ top'[s] = Greatest(page) /\ step'[s] = "insert"
  <2>1. page # {}
    BY DEF Fetch, Goto, BaseInv, TypeOK
  <2>2. /\ answer' = [answer EXCEPT ![s] = page] /\ top' = [top EXCEPT ![s] = Greatest(page)]
        /\ step' = [step EXCEPT ![s] = "insert"]
    BY <2>1 DEF Fetch, Goto
  <2>3. /\ answer \in [Server -> SUBSET Id] /\ top \in [Server -> 0..MaxId]
        /\ step \in [Server -> {"free", "fetch", "insert", "save", "load", "run", "mark"}]
    BY DEF BaseInv, TypeOK
  <2> HIDE DEF page
  <2>4. QED BY ONLY <2>1, <2>2, <2>3, s \in Server
<1>3. above \in SUBSET Id /\ above \subseteq Rows(m)
  BY <1>1, Facts DEF BaseInv
<1>4. page \subseteq above
  BY <1>3, FirstOfIds
<1>5. Greatest(page) \in page /\ \A i \in page : i <= Greatest(page)
  <2>1. page \in SUBSET (1..MaxId)
    BY <1>3, <1>4 DEF Id
  <2> HIDE DEF page
  <2>2. QED BY <1>2, <2>1, GreatestIs
<1>6. ASSUME NEW i \in Rows(m), i <= Greatest(page) PROVE i \in Rows(s) \cup page
  <2>1. CASE i <= lastId[s][m]
    BY <1>1, <2>1 DEF NoGap
  <2>2. CASE ~(i <= lastId[s][m])
    <3>1. i \in Nat /\ lastId[s][m] \in Nat
      BY <1>1 DEF Rows, Id, BaseInv, TypeOK
    <3>2. i \in above
      BY <2>2, <3>1
    <3> HIDE DEF above
    <3>3. PageLimit \in Nat
      OBVIOUS
    <3>4. i \in page
      BY ONLY <1>3, <1>5, <1>6, <3>2, <3>3, FirstOfCloses DEF page
    <3>5. QED BY <3>4
  <2>3. QED BY <2>1, <2>2
<1> HIDE DEF page, above
<1>7. QED BY <1>1, <1>2, <1>3, <1>4, <1>5, <1>6

\* A stored row leaves the answer; the last one leaves it empty.
LEMMA StoreCovers ==
    ASSUME BaseInv, NEW s \in Server, InsertRow(s)
    PROVE  LET j == Least(answer[s]) IN
           /\ step[s] = "insert" /\ lock[s] \in Server /\ j \in Rows(lock[s]) /\ j \in answer[s]
           /\ \A b \in answer[s] : j <= b
           /\ lock' = lock /\ top' = top /\ lastId' = lastId
           /\ j \in Rows(s)' /\ answer'[s] = answer[s] \ {j}
           /\ step'[s] = "save" => answer'[s] = {}
<1> DEFINE j == Least(answer[s])
           c == log[lock[s]][j]
<1>t. /\ answer \in [Server -> SUBSET Id] /\ log \in [Server -> [Id -> Change \cup {None}]]
      /\ step \in [Server -> {"free", "fetch", "insert", "save", "load", "run", "mark"}]
  BY DEF BaseInv, TypeOK
<1>1. /\ step[s] = "insert" /\ lock' = lock /\ top' = top /\ lastId' = lastId
      /\ IF log[s][j] = None THEN log' = [log EXCEPT ![s] = [log[s] EXCEPT ![j] = c]]
                             ELSE log' = log
      /\ answer' = [answer EXCEPT ![s] = @ \ {j}]
      /\ \/ answer[s] = {j} /\ step' = [step EXCEPT ![s] = "save"]
         \/ step' = step
  BY DEF InsertRow, Goto
<1>2. /\ j \in answer[s] /\ j \in Id /\ lock[s] \in Server /\ j \in Rows(lock[s]) /\ c \in Change
  BY <1>1, Facts DEF BaseInv, StepInv, WorkInv
<1>3. \A b \in answer[s] : j <= b
  <2>1. answer[s] \in SUBSET Nat /\ answer[s] # {}
    BY <1>t, <1>2 DEF Id
  <2>2. QED BY <2>1, LeastIs
<1>4. c # None
  BY <1>2
<1> HIDE DEF j, c
<1>5. log'[s][j] # None
  BY ONLY <1>t, <1>1, <1>2, <1>4, s \in Server
<1>6. answer'[s] = answer[s] \ {j} /\ (step'[s] = "save" => answer'[s] = {})
  BY ONLY <1>t, <1>1, s \in Server
<1>7. j \in Rows(s)'
  BY <1>2, <1>5 DEF Rows
<1>8. QED BY <1>1, <1>2, <1>3, <1>6, <1>7 DEF j

LEMMA PageStep ==
    ASSUME OneLevel
    PROVE  /\ BaseInv /\ ListenInv /\ SourceInv /\ PageInv /\ NoGap /\ [Next]_vars => PageInv'
           /\ BaseInv /\ ListenInv /\ SourceInv /\ PageInv /\ NoGap /\ [Next]_vars => NoGap'
<1> SUFFICES ASSUME BaseInv, ListenInv, SourceInv, PageInv, NoGap, [Next]_vars
             PROVE  PageInv' /\ NoGap'
  OBVIOUS
<1> DEFINE Covers(s) ==
             /\ top[s] \in Rows(lock[s])
             /\ \A i \in Rows(lock[s]) : i <= top[s] => i \in Rows(s) \cup answer[s]
             /\ \A i \in answer[s] : i <= top[s]
<1>1. ASSUME NEW s \in Server, NEW m \in Masters[s]
      PROVE  /\ m \in Server /\ Masters[m] = {}
             /\ lastId[s][m] # 0 => lastId[s][m] \in Rows(m)
             /\ lastId[s][m] \in Nat
             /\ \A i \in Rows(m) : i <= lastId[s][m] => i \in Rows(s)
             /\ Rows(m) \subseteq Rows(m)' /\ Rows(s) \subseteq Rows(s)'
             /\ \A i \in Rows(m)' \ Rows(m), j \in Rows(m) : j < i
             /\ Rows(m)' \subseteq Nat \ {0}
  <2>1. m \in Server /\ Masters[m] = {}
    BY OneLevel DEF OneLevel
  <2>2. lastId[s][m] \in Nat
    BY <2>1 DEF BaseInv, TypeOK
  <2>3. Rows(m) \subseteq Rows(m)' /\ Rows(s) \subseteq Rows(s)'
    BY <2>1, RowsStay
  <2>4. Rows(m)' \subseteq Nat \ {0}
    BY DEF Rows, Id
  <2>5. \A i \in Rows(m)' \ Rows(m), j \in Rows(m) : j < i
    BY <2>1, SourceGrows
  <2>6. QED BY <2>1, <2>2, <2>3, <2>4, <2>5 DEF PageInv, NoGap
<1>2. ASSUME NEW s \in Server, step[s] \in {"insert", "save"}
      PROVE  lock[s] \in Masters[s] /\ Covers(s) /\ (step[s] = "save" => answer[s] = {})
  BY <1>2 DEF BaseInv, StepInv, WorkInv, ListenInv, PageInv
\* The master's new rows are above all it had.
<1>3. ASSUME NEW s \in Server, NEW m \in Masters[s], NEW t \in Rows(m),
             NEW i \in Rows(m)', i <= t
      PROVE  i \in Rows(m)
  BY <1>1, <1>3
<1>4. ASSUME NEW s \in Server, SaveLastId(s)
      PROVE  /\ step'[s] = "load" /\ lock[s] \in Masters[s] /\ top[s] \in Rows(lock[s])
             /\ \A i \in Rows(lock[s]) : i <= top[s] => i \in Rows(s)
             /\ \A m \in Server : lastId'[s][m] = IF m = lock[s] THEN top[s] ELSE lastId[s][m]
  <2>1. /\ step[s] = "save" /\ step' = [step EXCEPT ![s] = "load"]
        /\ lastId' = [lastId EXCEPT ![s] = [lastId[s] EXCEPT ![lock[s]] = top[s]]]
    BY <1>4 DEF SaveLastId, Goto
  <2>2. lock[s] \in Masters[s] /\ Covers(s) /\ answer[s] = {}
    BY <1>2, <2>1
  <2>3. /\ step \in [Server -> {"free", "fetch", "insert", "save", "load", "run", "mark"}]
        /\ lastId \in [Server -> [Server -> 0..MaxId]]
    BY DEF BaseInv, TypeOK
  <2>4. /\ step'[s] = "load"
        /\ \A m \in Server : lastId'[s][m] = IF m = lock[s] THEN top[s] ELSE lastId[s][m]
    BY ONLY <2>1, <2>3, s \in Server
  <2>5. QED BY <2>2, <2>4
<1>5. ASSUME NEW s \in Server, NEW m \in Masters[s]
      PROVE  /\ lastId'[s][m] # 0 => lastId'[s][m] \in Rows(m)
             /\ \A i \in Rows(m) : i <= lastId'[s][m] => i \in Rows(s)
  <2>1. CASE SaveLastId(s)
    BY <1>1, <1>4, <2>1
  <2>2. CASE lastId'[s][m] \in {0, lastId[s][m]}
    <3>1. \A i \in Rows(m) : ~(i <= 0)
      BY <1>1
    <3>2. QED BY <1>1, <2>2, <3>1
  <2>3. CASE Fetch(s) \/ InsertRow(s)
    <3>1. lastId' = lastId
      BY <2>3 DEF Fetch, InsertRow, durable
    <3>2. QED BY <2>2, <3>1
  <2>4. m \in Server
    BY <1>1
  <2>5. QED BY <2>1, <2>2, <2>3, <2>4, PageKinds DEF PageFrom
<1>6. NoGap'
  <2> SUFFICES ASSUME NEW s \in Server, NEW m \in Masters[s], NEW i \in Rows(m)',
                      i <= lastId'[s][m]
               PROVE  i \in Rows(s)'
    BY DEF NoGap
  <2>1. lastId'[s][m] # 0
    BY <1>1
  <2>2. i \in Rows(m)
    BY <1>3, <1>5, <2>1
  <2>3. QED BY <1>1, <1>5, <2>2
\* What was covered is covered, with the rows that are stored meanwhile.
<1> DEFINE Now(t) == {i \in Id : log'[t][i] # None}
<1>7. ASSUME NEW s \in Server, NEW m \in Masters[s], NEW t \in Rows(m), NEW left1, NEW left2,
             \A i \in Rows(m) : i <= t => i \in Rows(s) \cup left1,
             left1 \subseteq Now(s) \cup left2
      PROVE  t \in Now(m) /\ \A i \in Now(m) : i <= t => i \in Now(s) \cup left2
  <2>1. \A i \in Now(m) : i <= t => i \in Rows(m)
    BY <1>3 DEF Rows
  <2>2. Rows(s) \subseteq Now(s) /\ Rows(m) \subseteq Now(m)
    BY <1>1 DEF Rows
  <2> HIDE DEF Now
  <2>3. QED BY ONLY <1>7, <2>1, <2>2
<1> HIDE DEF Now
<1>8. ASSUME NEW s \in Server, step'[s] \in {"insert", "save"}
      PROVE  /\ top'[s] \in Now(lock'[s])
             /\ \A i \in Now(lock'[s]) : i <= top'[s] => i \in Now(s) \cup answer'[s]
             /\ \A i \in answer'[s] : i <= top'[s]
             /\ step'[s] = "save" => answer'[s] = {}
  <2>1. CASE /\ step'[s] = step[s] /\ lock'[s] = lock[s] /\ top'[s] = top[s]
             /\ answer'[s] = answer[s]
    <3>1. lock[s] \in Masters[s] /\ Covers(s) /\ (step[s] = "save" => answer[s] = {})
      BY <1>2, <1>8, <2>1
    <3>2. /\ top[s] \in Now(lock[s])
          /\ \A i \in Now(lock[s]) : i <= top[s] => i \in Now(s) \cup answer[s]
      <4> DEFINE rest == answer[s]
      <4>1. /\ lock[s] \in Masters[s] /\ top[s] \in Rows(lock[s])
            /\ \A i \in Rows(lock[s]) : i <= top[s] => i \in Rows(s) \cup rest
        BY <3>1
      <4> HIDE DEF rest
      <4>2. rest \subseteq Now(s) \cup rest
        OBVIOUS
      <4>3. /\ top[s] \in Now(lock[s])
            /\ \A i \in Now(lock[s]) : i <= top[s] => i \in Now(s) \cup rest
        BY ONLY <1>7, <4>1, <4>2, s \in Server
      <4>4. QED BY <4>3 DEF rest
    <3>3. QED BY <2>1, <3>1, <3>2
  <2>2. CASE Fetch(s)
    <3>1. /\ lock[s] \in Server /\ lock' = lock /\ log' = log
          /\ step'[s] = "insert" /\ top'[s] \in Rows(lock[s])
          /\ \A i \in Rows(lock[s]) : i <= top'[s] => i \in Rows(s) \cup answer'[s]
          /\ \A i \in answer'[s] : i <= top'[s]
      BY <1>8, <2>2, FetchCovers
    <3>2. \A u \in Server : Now(u) = Rows(u)
      BY <3>1 DEF Rows, Now
    <3>3. QED BY <3>1, <3>2
  <2>3. CASE InsertRow(s)
    <3> DEFINE j == Least(answer[s])
    <3>1. /\ step[s] = "insert" /\ lock' = lock /\ top' = top
          /\ j \in Now(s) /\ answer'[s] = answer[s] \ {j}
          /\ step'[s] = "save" => answer'[s] = {}
      <4>1. j \in Id /\ log'[s][j] # None
        BY <2>3, Facts, StoreCovers DEF BaseInv, InsertRow, Rows
      <4>2. QED BY <2>3, <4>1, StoreCovers DEF Now
    <3>2. lock[s] \in Masters[s] /\ Covers(s)
      BY <1>2, <3>1
    <3> HIDE DEF j
    <3>3. /\ top[s] \in Now(lock[s])
          /\ \A i \in Now(lock[s]) : i <= top[s] => i \in Now(s) \cup answer'[s]
      <4>1. answer[s] \subseteq Now(s) \cup answer'[s]
        BY <3>1
      <4>2. QED BY <1>7, <3>2, <4>1
    <3>4. QED BY <3>1, <3>2, <3>3
  <2>4. CASE SaveLastId(s)
    BY <1>4, <1>8, <2>4
  <2>5. QED BY <1>8, <2>1, <2>2, <2>3, <2>4, PageKinds DEF PageFrom
<1>9. PageInv'
  <2>1. ASSUME NEW s \in Server, NEW m \in Masters[s], lastId'[s][m] # 0
        PROVE  lastId'[s][m] \in Now(m)
    <3>1. lastId'[s][m] \in Rows(m) /\ Rows(m) \subseteq Now(m)
      BY <1>1, <1>5, <2>1 DEF Rows, Now
    <3>2. QED BY <3>1
  <2>2. QED BY <1>8, <2>1 DEF PageInv, Rows, Now
<1>10. QED BY <1>6, <1>9

LEMMA PageHolds ==
    ASSUME OneLevel, OneRequest
    PROVE  Spec => [](BaseInv /\ RowInv /\ ListenInv /\ SourceInv /\ PageInv /\ NoGap)
<1>1. Init => ListenInv /\ SourceInv /\ PageInv /\ NoGap
  BY DEF Init, ListenInv, SourceInv, PageInv, NoGap, Rows
<1>2. BaseInv /\ ListenInv /\ SourceInv /\ [Next]_vars => SourceInv'
  BY SourceStep, OneRequest
<1>3. BaseInv /\ ListenInv /\ SourceInv /\ PageInv /\ NoGap /\ [Next]_vars => PageInv' /\ NoGap'
  BY PageStep, OneLevel
<1>4. QED BY <1>1, <1>2, <1>3, ListenStep, RowHolds, PTL DEF Spec

\* When masters follow nobody and log one request at a time, the id a slave
\* saved covers its master's log, whatever breaks off the listener between the
\* pages, the rows of a page and the file of the saved id.
THEOREM NoGapHolds ==
    ASSUME OneLevel, OneRequest
    PROVE  Spec => []NoGap
  BY PageHolds, OneLevel, OneRequest, PTL
-----------------------------------------------------------------------------
(* The detailed system implements ReplicaLog.                              *)

LEMMA PrefixStep ==
    ASSUME OneLevel
    PROVE  BaseInv /\ RowInv /\ ListenInv /\ SourceInv /\ PageInv /\ PrefixInv /\ [Next]_vars
             => PrefixInv'
<1> DEFINE Now(t) == {i \in Id : log'[t][i] # None}
<1> SUFFICES ASSUME BaseInv, RowInv, ListenInv, SourceInv, PageInv, PrefixInv, [Next]_vars,
                    NEW s \in Server, NEW i \in Now(s), NEW a, a = Author[log'[s][i]], a # s
             PROVE  Masters[a] = {} /\ \A j \in Now(a) : j < i => j \in Now(s)
  BY DEF PrefixInv, Rows
<1>1. \A t \in Server : Rows(t) \subseteq Now(t) /\ Now(t) \subseteq Nat
  BY RowsStay DEF Rows, Id
<1>2. ASSUME NEW m \in Server, Masters[m] = {}, NEW t \in Rows(m), NEW j \in Now(m), j <= t
      PROVE  j \in Rows(m)
  <2> SUFFICES ASSUME j \notin Rows(m) PROVE FALSE
    OBVIOUS
  <2>1. t < j
    <3>1. \A k \in Rows(m)' : k \notin Rows(m) => t < k
      BY <1>2, SourceGrows
    <3>2. QED BY <3>1 DEF Rows
  <2>2. t \in Nat /\ j \in Nat
    BY <1>1 DEF Rows, Id
  <2>3. QED BY <1>2, <2>1, <2>2
<1>3. CASE i \in Rows(s)
  <2>1. a = Author[log[s][i]] /\ a \in Server
    BY <1>3, RowsStay
  <2>2. Masters[a] = {} /\ \A j \in Rows(a) : j < i => j \in Rows(s)
    BY <1>3, <2>1 DEF PrefixInv
  <2>3. i \in Rows(a)
    BY <1>3, <2>1 DEF RowInv, Rows
  <2>4. ASSUME NEW j \in Now(a), j < i PROVE j \in Now(s)
    <3>1. j \in Nat /\ i \in Nat
      BY <1>1, <2>1
    <3>2. j <= i
      BY <2>4, <3>1
    <3> HIDE DEF Now
    <3>3. j \in Rows(a)
      BY <1>2, <2>1, <2>2, <2>3, <3>2
    <3>4. QED BY <1>1, <2>2, <2>4, <3>3
  <2>5. QED BY <2>2, <2>4
<1>4. CASE i \notin Rows(s)
  <2> DEFINE m == lock[s]
  <2>1. InsertRow(s) /\ i = Least(answer[s]) /\ i \in answer[s] /\ m \in Server
        /\ i \in Rows(m) /\ log'[s][i] = log[m][i]
    <3>1. NewRow(s, i)
      BY <1>4, RowsComeFrom DEF Rows
    <3>2. \A h \in Handler : 1 \in DOMAIN pending[h] => Author[pending[h][1]] = HomeOf[h]
      BY DEF BaseInv, HandlerInv
    <3>3. QED BY <3>1, <3>2 DEF NewRow
  <2>2. m \in Masters[s] /\ Masters[m] = {} /\ a = m
    BY <2>1, OneLevel DEF ListenInv, OneLevel, SourceInv
  <2>3. step[s] = "insert" /\ \A b \in answer[s] : i <= b
    BY <2>1, StoreCovers
  <2>4. /\ top[s] \in Rows(m) /\ i <= top[s]
        /\ \A j \in Rows(m) : j <= top[s] => j \in Rows(s) \cup answer[s]
    BY <2>1, <2>3 DEF PageInv
  <2> HIDE DEF m
  <2>5. ASSUME NEW j \in Now(m), j < i PROVE j \in Now(s)
    <3>1. j \in Nat /\ i \in Nat /\ top[s] \in Nat
      BY <1>1, <2>1, <2>4
    <3>2. j <= top[s] /\ ~(i <= j)
      BY <2>4, <2>5, <3>1
    <3> HIDE DEF Now
    <3>3. j \in Rows(m)
      BY <1>2, <2>1, <2>2, <2>4, <3>2
    <3>4. QED BY <1>1, <2>3, <2>4, <3>2, <3>3
  <2>6. QED BY <2>2, <2>5
<1>5. QED BY <1>3, <1>4

\* Rows of Origin's log and statements of a replica, as ReplicaLog sees them.
Published == {<<i, log[Origin][i]>> : i \in Rows(Origin)}
Held      == [s \in Server \ {Origin} |-> {c \in data[s] : Author[c] = Origin}]

\* One master above all: the topology the refinement is about.
Star == Origin \in Server /\ Masters[Origin] = {} /\ OneLevel

\* The two steps of ReplicaLog, on what it sees.
LEMMA PublishIs ==
    ASSUME NEW i \in Id, NEW c \in Change, \A row \in Published : row[1] < i,
           Published' = Published \cup {<<i, c>>}, Held' = Held
    PROVE  Replicas!Next
  BY Zenon DEF Replicas!Next, Replicas!Publish, Published, Held

LEMMA HoldIs ==
    ASSUME NEW s \in Server \ {Origin}, NEW i \in Id, NEW c \in Change,
           <<i, c>> \in Published, c \notin Held[s],
           \A row \in Published : row[1] < i => row[2] \in Held[s],
           Held' = [Held EXCEPT ![s] = @ \cup {c}], Published' = Published
    PROVE  Replicas!Next
  BY Zenon DEF Replicas!Next, Replicas!HoldNext, Replicas!Hold, Published, Held

\* All that the refinement rests on.
RefineInv ==
    /\ BaseInv /\ RowInv /\ ClockInv /\ OnceInv
    /\ ListenInv /\ SourceInv /\ PrefixInv /\ OldestInv

\* A slave that runs a statement of Origin's reflects all that Origin logged
\* before it.
LEMMA RunHolds ==
    ASSUME Star, Disjoint, RefineInv, NEW s \in Server \ {Origin}, step[s] = "run",
           Author[log[s][Current(s)]] = Origin
    PROVE  LET i == Current(s)  c == log[s][i] IN
           /\ i \in Id /\ c \in Change /\ <<i, c>> \in Published
           /\ \A row \in Published : row[1] < i => row[2] \in Held[s]
<1> DEFINE i == Current(s)
           c == log[s][i]
<1>1. i \in Rows(s) /\ \A j \in Rows(s) : j < i => log[s][j] \in data[s]
  BY RunsOldest DEF RefineInv
<1>2. c \in Change /\ i \in Id
  BY <1>1 DEF RefineInv, BaseInv, TypeOK, Rows
<1>3. log[Origin][i] = c /\ i \in Rows(Origin)
  BY <1>1, <1>2 DEF RefineInv, RowInv, Rows
<1>4. ASSUME NEW j \in Rows(Origin), j < i PROVE log[Origin][j] \in Held[s]
  <2>1. j \in Rows(s)
    BY <1>1, <1>4 DEF RefineInv, PrefixInv
  <2>2. log[s][j] \in data[s]
    BY <1>1, <1>4, <2>1
  <2>3. Author[log[Origin][j]] = Origin
    BY Star DEF Star, RefineInv, SourceInv
  <2>4. log[Origin][j] = log[s][j]
    <3>1. IdsAgree
      BY IdsAgreeIs, Disjoint DEF RefineInv
    <3>2. Origin \in Server
      BY Star DEF Star
    <3>3. QED BY <2>1, <3>1, <3>2 DEF IdsAgree
  <2>5. QED BY <2>2, <2>3, <2>4 DEF Held
<1>5. QED BY <1>2, <1>3, <1>4 DEF Published

LEMMA RefineStep ==
    ASSUME Star, Disjoint, RefineInv, [Next]_vars
    PROVE  Replicas!Next \/ UNCHANGED <<Published, Held>>
<1>t. /\ Origin \in Server /\ Masters[Origin] = {} /\ data \in [Server -> SUBSET Change]
      /\ log \in [Server -> [Id -> Change \cup {None}]]
  BY Star DEF Star, RefineInv, BaseInv, TypeOK
<1>1. ASSUME log'[Origin] = log[Origin] PROVE Published' = Published
  BY <1>1 DEF Published, Rows
<1>2. ASSUME \A s \in Server \ {Origin} :
                {c \in data'[s] : Author[c] = Origin} = {c \in data[s] : Author[c] = Origin}
      PROVE  Held' = Held
  BY <1>2 DEF Held
<1>3. ASSUME UNCHANGED data PROVE Held' = Held
  BY <1>3 DEF Held
<1>4. CASE UNCHANGED <<data, log, ran>>
  BY <1>1, <1>3, <1>4
<1>5. ASSUME NEW h \in Handler, Commit(h) \/ \E c \in Change : AutoCommitWrite(h, c)
      PROVE  UNCHANGED <<Published, Held>>
  <2>1. UNCHANGED log
    BY <1>5 DEF Commit, AutoCommitWrite
  <2>2. \E new \in SUBSET Change :
           /\ \A c \in new : Author[c] = HomeOf[h]
           /\ data' = data \/ data' = [data EXCEPT ![HomeOf[h]] = @ \cup new]
    <3>1. CASE Commit(h)
      <4> DEFINE new == {pending[h][k] : k \in DOMAIN pending[h]}
      <4>1. new \in SUBSET Change /\ \A c \in new : Author[c] = HomeOf[h]
        <5>1. /\ \A k \in DOMAIN pending[h] : Author[pending[h][k]] = HomeOf[h]
              /\ pending[h] \in Seq(Change)
          BY DEF RefineInv, BaseInv, TypeOK, HandlerInv
        <5>2. QED BY ONLY <5>1
      <4>2. data' = data \/ data' = [data EXCEPT ![HomeOf[h]] = @ \cup new]
        BY <3>1 DEF Commit
      <4> HIDE DEF new
      <4>3. QED BY <4>1, <4>2
    <3>2. ASSUME NEW c \in Change, AutoCommitWrite(h, c)
          PROVE  /\ Author[c] = HomeOf[h] /\ {c} \in SUBSET Change
                 /\ data' = [data EXCEPT ![HomeOf[h]] = @ \cup {c}]
      BY <3>2 DEF AutoCommitWrite
    <3>3. ASSUME NEW c \in Change, AutoCommitWrite(h, c)
          PROVE  \E new \in SUBSET Change :
                    /\ \A d \in new : Author[d] = HomeOf[h]
                    /\ data' = data \/ data' = [data EXCEPT ![HomeOf[h]] = @ \cup new]
      BY <3>2, <3>3
    <3>4. QED BY <1>5, <3>1, <3>3
  <2>3. \A s \in Server \ {Origin} :
           {c \in data'[s] : Author[c] = Origin} = {c \in data[s] : Author[c] = Origin}
    <3>1. PICK new \in SUBSET Change :
             /\ \A c \in new : Author[c] = HomeOf[h]
             /\ data' = data \/ data' = [data EXCEPT ![HomeOf[h]] = @ \cup new]
      BY <2>2
    <3>2. HomeOf[h] \in Server
      OBVIOUS
    <3>3. QED BY ONLY <1>t, <3>1, <3>2
  <2>4. QED BY <1>1, <1>2, <2>1, <2>3
<1>6. ASSUME NEW h \in Handler, InsertLog(h) PROVE Replicas!Next \/ UNCHANGED <<Published, Held>>
  <2> DEFINE i == newId[h]
             c == Head(pending[h])
  <2>1. /\ UNCHANGED data
        /\ \/ log' = log
           \/ log[HomeOf[h]][i] = None
              /\ log' = [log EXCEPT ![HomeOf[h]] = [log[HomeOf[h]] EXCEPT ![i] = c]]
    BY <1>6 DEF InsertLog
  <2>2. HomeOf[h] \in Server /\ i \in Id /\ c \in Change
    <3>1. newId[h] # 0 /\ newId[h] \in 0..MaxId /\ hpc[h] = "logging"
      BY <1>6 DEF InsertLog, RefineInv, BaseInv, TypeOK
    <3>2. QED BY <3>1, Facts DEF Id, RefineInv, BaseInv
  <2> HIDE DEF i, c
  <2>3. CASE log'[Origin] = log[Origin]
    BY <1>1, <1>3, <2>1, <2>3
  <2>4. CASE log'[Origin] # log[Origin]
    <3>1. /\ log[Origin][i] = None /\ log'[Origin][i] = c
          /\ \A j \in Id : j # i => log'[Origin][j] = log[Origin][j]
      BY ONLY <1>t, <2>1, <2>2, <2>4
    <3>2. Rows(Origin)' = Rows(Origin) \cup {i} /\ i \notin Rows(Origin)
      BY <2>2, <3>1 DEF Rows
    <3>3. Published' = Published \cup {<<i, c>>}
      <4>1. Published' = {<<j, log'[Origin][j]>> : j \in Rows(Origin) \cup {i}}
        BY <3>2 DEF Published
      <4>2. \A j \in Rows(Origin) : log'[Origin][j] = log[Origin][j]
        BY <3>1, <3>2 DEF Rows
      <4>3. {<<j, log'[Origin][j]>> : j \in Rows(Origin) \cup {i}}
              = {<<j, log[Origin][j]>> : j \in Rows(Origin)} \cup {<<i, c>>}
        BY ONLY <3>1, <4>2
      <4>4. QED BY ONLY <4>1, <4>3 DEF Published
    <3>4. \A j \in Rows(Origin) : j < i
      BY <1>t, <3>2, SourceGrows DEF RefineInv
    <3>5. \A row \in Published : row[1] < i
      BY <3>4 DEF Published
    <3>6. Replicas!Next
      BY <1>3, <2>1, <2>2, <3>3, <3>5, PublishIs
    <3>7. QED BY <3>6
  <2>5. QED BY <2>3, <2>4
<1>7. ASSUME NEW s \in Server, InsertRow(s) PROVE UNCHANGED <<Published, Held>>
  <2>1. UNCHANGED data /\ s # Origin
    BY <1>7, <1>t, StoreCovers DEF InsertRow, RefineInv, ListenInv
  <2>2. log' = log \/ \E f : log' = [log EXCEPT ![s] = f]
    BY <1>7 DEF InsertRow
  <2>3. log'[Origin] = log[Origin]
    BY ONLY <1>t, <2>1, <2>2
  <2>4. QED BY <1>1, <1>3, <2>1, <2>3
<1>8. ASSUME NEW s \in Server, Run(s) PROVE Replicas!Next \/ UNCHANGED <<Published, Held>>
  <2> DEFINE i == Current(s)
             c == log[s][i]
  <2>1. step[s] = "run" /\ log' = log /\ data' = [data EXCEPT ![s] = @ \cup {c}]
    BY <1>8 DEF Run
  <2>2. Published' = Published
    BY <1>1, <2>1
  <2>3. CASE s = Origin \/ Author[c] # Origin \/ c \in data[s]
    <3> HIDE DEF c
    <3>1. \A t \in Server \ {Origin} :
             {d \in data'[t] : Author[d] = Origin} = {d \in data[t] : Author[d] = Origin}
      BY ONLY <1>t, <2>1, <2>3, s \in Server
    <3>2. QED BY <1>2, <2>2, <3>1
  <2>4. CASE s # Origin /\ Author[c] = Origin /\ c \notin data[s]
    <3>1. /\ i \in Id /\ c \in Change /\ <<i, c>> \in Published
          /\ \A row \in Published : row[1] < i => row[2] \in Held[s]
      BY <2>1, <2>4, RunHolds, Star, Disjoint
    <3> HIDE DEF i, c
    <3>2. c \notin Held[s]
      BY <2>4 DEF Held
    <3>3. Held' = [Held EXCEPT ![s] = @ \cup {c}]
      <4>1. \A t \in Server \ {Origin} :
               {d \in data'[t] : Author[d] = Origin}
                 = IF t = s THEN {d \in data[t] : Author[d] = Origin} \cup {c}
                            ELSE {d \in data[t] : Author[d] = Origin}
        BY ONLY <1>t, <2>1, <2>4, s \in Server
      <4>2. QED BY <2>4, <4>1 DEF Held
    <3>4. Replicas!Next
      BY <2>2, <2>4, <3>1, <3>2, <3>3, HoldIs
    <3>5. QED BY <3>4
  <2>5. QED BY <2>3, <2>4
<1>9. ASSUME NEW s \in Server, Mark(s) PROVE UNCHANGED <<Published, Held>>
  BY <1>1, <1>3, <1>9 DEF Mark
<1>10. QED BY <1>4, <1>5, <1>6, <1>7, <1>8, <1>9, Kinds

\* Where one master serves slaves, its clock and theirs yield different ids, its
\* requests come one at a time and commits do not fail, each slave reflects a
\* prefix of the master's log at any time, after any crashes and faults.
THEOREM HoldsAPrefixHolds ==
    ASSUME Star, OneRequest, Disjoint, FaultyCommit = FALSE
    PROVE  Spec => HoldsAPrefix
<1>1. Init => Replicas!Init
  <2> SUFFICES ASSUME Init PROVE Published = {} /\ Held = [s \in Server \ {Origin} |-> {}]
    BY DEF Replicas!Init, Published, Held
  <2>1. /\ data = [s \in Server |-> {}] /\ log = [s \in Server |-> [i \in Id |-> None]]
        /\ Origin \in Server
    BY Star DEF Init, Star
  <2>2. Rows(Origin) = {}
    BY ONLY <2>1 DEF Rows
  <2>3. Published = {}
    BY ONLY <2>2 DEF Published
  <2>4. Held = [s \in Server \ {Origin} |-> {}]
    <3>1. \A s \in Server \ {Origin} : {c \in data[s] : Author[c] = Origin} = {}
      BY ONLY <2>1
    <3>2. QED BY ONLY <3>1 DEF Held
  <2>5. QED BY <2>3, <2>4
<1>2. RefineInv /\ [Next]_vars => [Replicas!Next]_<<Published, Held>>
  BY RefineStep, Star, Disjoint
<1>3. Init => PrefixInv
  BY DEF Init, PrefixInv, Rows
<1>4. BaseInv /\ RowInv /\ ListenInv /\ SourceInv /\ PageInv /\ PrefixInv /\ [Next]_vars
        => PrefixInv'
  BY PrefixStep, Star DEF Star
<1>5. Spec => [](BaseInv /\ RowInv /\ ListenInv /\ SourceInv /\ PageInv /\ NoGap)
  BY PageHolds, Star, OneRequest DEF Star
<1>6. Spec => [](BaseInv /\ RowInv /\ TakenInv /\ ClockInv /\ OnceInv)
  BY IdsHold, Disjoint
<1>7. Spec => [](BaseInv /\ RowInv /\ CommitInv /\ AppliedInv /\ OldestInv)
  BY OldestHolds, FaultyCommit = FALSE
<1>8. Spec => []PrefixInv
  BY <1>3, <1>4, <1>5, PTL DEF Spec
<1>9. Spec => []RefineInv
  <2>1. BaseInv /\ RowInv /\ ClockInv /\ OnceInv /\ ListenInv /\ SourceInv /\ PrefixInv
          /\ OldestInv => RefineInv
    BY DEF RefineInv
  <2>2. QED BY <1>5, <1>6, <1>7, <1>8, <2>1, PTL
<1>10. QED BY <1>1, <1>2, <1>9, PTL DEF Spec, HoldsAPrefix, Replicas!Spec, Published, Held
=============================================================================
