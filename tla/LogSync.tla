------------------------------ MODULE LogSync ------------------------------
(***************************************************************************)
(* Replication by SQL log between DairoDFS servers.                        *)
(*                                                                         *)
(* Every server is at once a master and a slave.  As a master it runs      *)
(* requests: a request writes its rows in one SQLite transaction, commits  *)
(* it, and only then inserts one sql_log row per statement, outside the    *)
(* transaction (DBConnection.go, DBSqlLog.go).  As a slave it has one      *)
(* listener per configured master (SyncByLog.go): it pulls the rows above  *)
(* the last id it saved, stores them as not yet run, saves the last id in  *)
(* a file, runs the statements in id order, each in a transaction of its   *)
(* own, and marks each row as run in a second, separate write.             *)
(*                                                                         *)
(* A statement is a member of Change.  The row contents are abstracted to  *)
(* the set of the statements a database file reflects (data).              *)
(***************************************************************************)
EXTENDS Integers, Sequences, FiniteSets

CONSTANTS
    Server,       \* the servers
    Masters,      \* [Server -> SUBSET Server]: SystemConfig.SyncDomains
    Handler,      \* the goroutines that run requests
    HomeOf,       \* [Handler -> Server]: the server a goroutine belongs to
    Change,       \* the statements requests write, each written once
    Author,       \* [Change -> Server]: the server whose requests write it
    Inserts,      \* those of Change that fail when run a second time
    MaxId,        \* bound on the ids of log rows
    IdsOf,        \* [Server -> SUBSET Id]: what a server's clock yields
    PageLimit,    \* "limit 100" of GetLog
    RunLimit,     \* "limit 1000" of GetNotRunList
    Budget,       \* [Fault -> Nat]: bound on the faults of each kind
    FaultyCommit, \* whether tx.Commit may return an error
    None          \* no server, no handler, no row

Id == 1..MaxId

\* crash: the process dies; net: a request to a master or a download fails;
\* busy: SQLite gives up after busy_timeout because another connection of the
\* same server holds the write lock.
Fault == {"crash", "net", "busy"}

ASSUME MaxIdAssumption == MaxId \in Nat
ASSUME LimitAssumption == PageLimit \in Nat \ {0} /\ RunLimit \in Nat \ {0}
ASSUME TopologyAssumption ==
    /\ Masters \in [Server -> SUBSET Server]
    /\ HomeOf \in [Handler -> Server]
    /\ IdsOf \in [Server -> SUBSET Id]
ASSUME ChangeAssumption == Author \in [Change -> Server] /\ Inserts \subseteq Change
ASSUME BudgetAssumption == Budget \in [Fault -> Nat] /\ FaultyCommit \in BOOLEAN
ASSUME NoneAssumption == None \notin Server \cup Handler \cup Change

VARIABLES
    (* Durable, one per server *)
    data,    \* data[s]: the statements the database reflects
    log,     \* log[s][i]: the statement of sql_log row i, or None
    ran,     \* ran[s]: the ids of the rows whose state is 1
    lastId,  \* lastId[s][m]: the file sync_last_id.<md5 of m's url>
    (* Requests *)
    writer,  \* writer[s]: the request that holds SQLite's write lock
    hpc,     \* hpc[h]: where the goroutine stands
    pending, \* pending[h]: SQL_LOG, the goroutine local list of statements
    newId,   \* newId[h]: the id Number.ID returned, 0 for none
    clock,   \* clock[s]: preId, the last id Number.ID returned on s
    fresh,   \* the statements no request has written yet
    (* Listeners *)
    lpc,     \* lpc[s][m]: where the listener of s for master m stands
    lock,    \* lock[s]: SyncLock, the master whose listener holds it
    step,    \* step[s]: the step of the listener that holds SyncLock
    answer,  \* answer[s]: rows of the answer that are not stored yet
    top,     \* top[s]: the last id of the answer
    drained, \* drained[s]: the last answer was empty
    batch,   \* batch[s]: what remains of GetNotRunList's rows
    left     \* left[f]: faults of kind f that may still happen

durable == <<data, log, ran, lastId>>
request == <<writer, hpc, pending, newId, clock, fresh>>
sync    == <<lpc, lock, step, answer, top, drained, batch>>
vars    == <<durable, request, sync, left>>

\* The smallest and the largest member of a non-empty set of ids.
Least(S)    == CHOOSE i \in S : \A j \in S : i <= j
Greatest(S) == CHOOSE i \in S : \A j \in S : j <= i

\* Mutant: "order by id desc".
LastOf(S, n) == {i \in S : Cardinality({j \in S : j > i}) < n}

\* The n smallest ids of S: "order by id limit n".
FirstOf(S, n) == {i \in S : Cardinality({j \in S : j < i}) < n}

Rows(s)   == {i \in Id : log[s][i] # None}
NotRun(s) == Rows(s) \ ran[s]

Spend(f) == left[f] > 0 /\ left' = [left EXCEPT ![f] = @ - 1]

Init ==
    /\ data = [s \in Server |-> {}]
    /\ log = [s \in Server |-> [i \in Id |-> None]]
    /\ ran = [s \in Server |-> {}]
    /\ lastId = [s \in Server |-> [m \in Server |-> 0]]
    /\ writer = [s \in Server |-> None]
    /\ hpc = [h \in Handler |-> "idle"]
    /\ pending = [h \in Handler |-> <<>>]
    /\ newId = [h \in Handler |-> 0]
    /\ clock = [s \in Server |-> 0]
    /\ fresh = Change
    /\ lpc = [s \in Server |-> [m \in Server |->
                IF m \in Masters[s] THEN "sleep" ELSE "dead"]]
    /\ lock = [s \in Server |-> None]
    /\ step = [s \in Server |-> "free"]
    /\ answer = [s \in Server |-> {}]
    /\ top = [s \in Server |-> 0]
    /\ drained = [s \in Server |-> FALSE]
    /\ batch = [s \in Server |-> {}]
    /\ left = Budget

-----------------------------------------------------------------------------
(* Requests: DBConnection.Write, Commit and Rollback, DBSqlLog.Insert.     *)

\* The first Write of a request begins the transaction, and the first write
\* of a transaction takes SQLite's write lock; later writes find it theirs.
Write(h, c) ==
    LET s == HomeOf[h] IN
    /\ \/ hpc[h] = "idle" /\ writer[s] = None
       \/ hpc[h] = "open"
    /\ c \in fresh /\ Author[c] = s
    /\ fresh' = fresh \ {c}
    /\ hpc' = [hpc EXCEPT ![h] = "open"]
    /\ writer' = [writer EXCEPT ![s] = h]
    /\ pending' = [pending EXCEPT ![h] = Append(@, c)]
    /\ UNCHANGED <<durable, newId, clock, sync, left>>

\* Mutant: a rolled back request goes on to insert its log rows.
RollbackLogs(h) ==
    /\ hpc[h] = "open"
    /\ hpc' = [hpc EXCEPT ![h] = "logging"]
    /\ writer' = [writer EXCEPT ![HomeOf[h]] = None]
    /\ UNCHANGED <<durable, pending, newId, clock, fresh, sync, left>>

\* The error interceptor: the rows and the statements noted for the log go.
Rollback(h) ==
    /\ hpc[h] = "open"
    /\ hpc' = [hpc EXCEPT ![h] = "idle"]
    /\ writer' = [writer EXCEPT ![HomeOf[h]] = None]
    /\ pending' = [pending EXCEPT ![h] = <<>>]
    /\ UNCHANGED <<durable, newId, clock, fresh, sync, left>>

\* tx.Commit(): its error is ignored, the log rows are inserted either way.
Commit(h) ==
    LET s == HomeOf[h] IN
    /\ hpc[h] = "open"
    /\ \/ data' = [data EXCEPT ![s] = @ \cup {pending[h][k] : k \in DOMAIN pending[h]}]
       \/ FaultyCommit /\ UNCHANGED data
    /\ hpc' = [hpc EXCEPT ![h] = "logging"]
    /\ writer' = [writer EXCEPT ![s] = None]
    /\ UNCHANGED <<log, ran, lastId, pending, newId, clock, fresh, sync, left>>

\* A write outside a request (a timer, the file handling worker): the
\* statement is committed by itself and logged at once.
AutoCommitWrite(h, c) ==
    LET s == HomeOf[h] IN
    /\ hpc[h] = "idle" /\ writer[s] = None
    /\ c \in fresh /\ Author[c] = s
    /\ fresh' = fresh \ {c}
    /\ data' = [data EXCEPT ![s] = @ \cup {c}]
    /\ hpc' = [hpc EXCEPT ![h] = "logging"]
    /\ pending' = [pending EXCEPT ![h] = <<c>>]
    /\ UNCHANGED <<log, ran, lastId, writer, newId, clock, sync, left>>

\* Number.ID(): the current millisecond, never the previous one again.  The
\* clock is taken not to go back.
TakeId(h) ==
    LET s == HomeOf[h]
        later == {i \in IdsOf[s] : i > clock[s]} IN
    /\ hpc[h] = "logging" /\ newId[h] = 0
    /\ later # {}
    /\ newId' = [newId EXCEPT ![h] = Least(later)]
    /\ clock' = [clock EXCEPT ![s] = Least(later)]
    /\ UNCHANGED <<durable, writer, hpc, pending, fresh, sync, left>>

\* The loop of DBSqlLog.Insert goes to the next statement; after the last one
\* the list is cleared and the request is over.
LogNext(h) ==
    /\ newId' = [newId EXCEPT ![h] = 0]
    /\ pending' = [pending EXCEPT ![h] = Tail(@)]
    /\ hpc' = [hpc EXCEPT ![h] = IF Len(pending[h]) = 1 THEN "idle" ELSE "logging"]

\* insert into sql_log(...) values(...,1,'0.0.0.0'): an id that is taken is
\* an error, and the error is only written to the server's log file.
InsertLog(h) ==
    LET s == HomeOf[h]
        i == newId[h] IN
    /\ hpc[h] = "logging" /\ i # 0 /\ writer[s] = None
    /\ IF log[s][i] = None
         THEN /\ log' = [log EXCEPT ![s][i] = Head(pending[h])]
              /\ ran' = [ran EXCEPT ![s] = @ \cup {i}]
         ELSE UNCHANGED <<log, ran>>
    /\ LogNext(h)
    /\ UNCHANGED <<data, lastId, writer, clock, fresh, sync, left>>

\* Another request of the server keeps the write lock longer than the busy
\* timeout: the log row is lost.
InsertLogBusy(h) ==
    /\ hpc[h] = "logging" /\ newId[h] # 0 /\ writer[HomeOf[h]] # None
    /\ Spend("busy")
    /\ LogNext(h)
    /\ UNCHANGED <<durable, writer, clock, fresh, sync>>

HandlerStep(h) ==
    \/ Commit(h)
    \/ TakeId(h)
    \/ InsertLog(h)

-----------------------------------------------------------------------------
(* The listener of s for master m: listen, loopListen, callRequestSqlLog,  *)
(* requestSqlLog, insertLog, SaveLastId and runSql.                        *)

\* Mutant: without the deferred Unlock.
ReleaseKeepsLock(s) ==
    /\ step' = [step EXCEPT ![s] = "free"]
    /\ answer' = [answer EXCEPT ![s] = {}]
    /\ batch' = [batch EXCEPT ![s] = {}]
    /\ drained' = [drained EXCEPT ![s] = FALSE]
    /\ UNCHANGED lock

\* callRequestSqlLog gives SyncLock back and forgets the work in progress.
Release(s) ==
    /\ lock' = [lock EXCEPT ![s] = None]
    /\ step' = [step EXCEPT ![s] = "free"]
    /\ answer' = [answer EXCEPT ![s] = {}]
    /\ batch' = [batch EXCEPT ![s] = {}]
    /\ drained' = [drained EXCEPT ![s] = FALSE]

Goto(s, p) == step' = [step EXCEPT ![s] = p]

\* The call before the long poll: the retry of whatever failed last time.
Start(s, m) ==
    /\ lpc[s][m] = "sleep" /\ lock[s] = None
    /\ lpc' = [lpc EXCEPT ![s][m] = "first"]
    /\ lock' = [lock EXCEPT ![s] = m]
    /\ Goto(s, "fetch")
    /\ UNCHANGED <<durable, request, answer, top, drained, batch, left>>

\* Mutant: the master compares with one row too many.
PushedLate(s, m) ==
    /\ lpc[s][m] = "wait" /\ lock[s] = None
    /\ \E i \in Rows(m) : i > lastId[s][m] + 1
    /\ lpc' = [lpc EXCEPT ![s][m] = "pushed"]
    /\ lock' = [lock EXCEPT ![s] = m]
    /\ Goto(s, "fetch")
    /\ UNCHANGED <<durable, request, answer, top, drained, batch, left>>

\* The long poll: the master has a row above the id the listener named.
Pushed(s, m) ==
    /\ lpc[s][m] = "wait" /\ lock[s] = None
    /\ \E i \in Rows(m) : i > lastId[s][m]
    /\ lpc' = [lpc EXCEPT ![s][m] = "pushed"]
    /\ lock' = [lock EXCEPT ![s] = m]
    /\ Goto(s, "fetch")
    /\ UNCHANGED <<durable, request, answer, top, drained, batch, left>>

\* The long poll ends without news: a lost connection, a read timeout, the
\* master restarts.  The listener sleeps and starts over.
ConnLost(s, m) ==
    /\ lpc[s][m] = "wait"
    /\ lpc' = [lpc EXCEPT ![s][m] = "sleep"]
    /\ UNCHANGED <<durable, request, lock, step, answer, top, drained, batch, left>>

\* Mutants: the saved id is one too high, is that of the master's newest row
\* instead of the page's, or is saved before the rows are.
FetchAnswer(s, page, last) ==
    /\ step[s] = "fetch"
    /\ drained' = [drained EXCEPT ![s] = (page = {})]
    /\ answer' = [answer EXCEPT ![s] = page]
    /\ top' = [top EXCEPT ![s] = IF page = {} THEN @ ELSE last]
    /\ Goto(s, IF page = {} THEN "load" ELSE "insert")
    /\ UNCHANGED <<data, log, ran, request, lpc, lock, batch, left>>

NextPage(s) ==
    FirstOf({i \in Rows(lock[s]) : i > lastId[s][lock[s]]}, PageLimit)

FetchTopPlusOne(s) ==
    /\ step[s] = "fetch" /\ FetchAnswer(s, NextPage(s), Greatest(NextPage(s)) + 1)
    /\ UNCHANGED lastId

FetchTopOfLog(s) ==
    /\ step[s] = "fetch" /\ FetchAnswer(s, NextPage(s), Greatest(Rows(lock[s])))
    /\ UNCHANGED lastId

FetchSaves(s) ==
    /\ step[s] = "fetch" /\ FetchAnswer(s, NextPage(s), Greatest(NextPage(s)))
    /\ lastId' = [lastId EXCEPT ![s][lock[s]] = top'[s]]

\* GET /get_log?lastId=: the rows above lastId in id order, one page of them.
Fetch(s) ==
    LET m == lock[s]
        page == FirstOf({i \in Rows(m) : i > lastId[s][m]}, PageLimit) IN
    /\ step[s] = "fetch"
    /\ IF page = {}
         THEN /\ drained' = [drained EXCEPT ![s] = TRUE]
              /\ Goto(s, "load")
              /\ UNCHANGED <<answer, top>>
         ELSE /\ answer' = [answer EXCEPT ![s] = page]
              /\ top' = [top EXCEPT ![s] = Greatest(page)]
              /\ Goto(s, "insert")
              /\ UNCHANGED drained
    /\ UNCHANGED <<durable, request, lpc, lock, batch, left>>

\* State becomes 2 without a panic.  Before the long poll the listener sleeps
\* and retries; after a push loopListen ends in info.Cancel(), for good.
GiveUp(s) ==
    /\ lpc' = [lpc EXCEPT ![s][lock[s]] = IF @ = "pushed" THEN "dead" ELSE "sleep"]
    /\ Release(s)
    /\ UNCHANGED <<durable, request, top>>

FetchFails(s) == step[s] = "fetch" /\ Spend("net") /\ GiveUp(s)

\* Mutants: "insert or replace" instead of "insert", a row stored in state 1,
\* a row stored under an id of this server.
StoreRow(s, i, c, state) ==
    /\ step[s] = "insert" /\ writer[s] = None
    /\ log' = [log EXCEPT ![s][i] = c]
    /\ ran' = [ran EXCEPT ![s] = IF state = 1 THEN @ \cup {i} ELSE @ \ {i}]
    /\ answer' = [answer EXCEPT ![s] = @ \ {Least(answer[s])}]
    /\ IF answer[s] = {Least(answer[s])} THEN Goto(s, "save") ELSE UNCHANGED step
    /\ UNCHANGED <<data, lastId, request, lpc, lock, top, drained, batch, left>>

InsertRowReplaces(s) ==
    step[s] = "insert" /\ StoreRow(s, Least(answer[s]), log[lock[s]][Least(answer[s])], 0)

InsertRowAsRun(s) ==
    step[s] = "insert" /\ StoreRow(s, Least(answer[s]), log[lock[s]][Least(answer[s])], 1)

InsertRowOwnId(s) ==
    step[s] = "insert" /\ StoreRow(s, Least(Id \ Rows(s)), log[lock[s]][Least(answer[s])], 0)

\* insertLog: a row whose id is taken counts as already stored.
InsertRow(s) ==
    LET i == Least(answer[s]) IN
    /\ step[s] = "insert" /\ writer[s] = None
    /\ IF log[s][i] = None
         THEN log' = [log EXCEPT ![s][i] = log[lock[s]][i]]
         ELSE UNCHANGED log
    /\ answer' = [answer EXCEPT ![s] = @ \ {i}]
    /\ IF answer[s] = {i} THEN Goto(s, "save") ELSE UNCHANGED step
    /\ UNCHANGED <<data, ran, lastId, request, lpc, lock, top, drained, batch, left>>

InsertRowBusy(s) ==
    /\ step[s] = "insert" /\ writer[s] # None
    /\ Spend("busy")
    /\ GiveUp(s)

SaveLastId(s) ==
    /\ step[s] = "save"
    /\ lastId' = [lastId EXCEPT ![s][lock[s]] = top[s]]
    /\ Goto(s, "load")
    /\ UNCHANGED <<data, log, ran, request, lpc, lock, answer, top, drained, batch, left>>

\* runSql: the rows not run yet, whichever master they came from.  When none
\* is left, requestSqlLog asks the master again, or returns with state 0 if
\* the master's last answer was empty.
Load(s) ==
    LET m == lock[s] IN
    /\ step[s] = "load"
    /\ \/ /\ NotRun(s) # {}
          /\ batch' = [batch EXCEPT ![s] = FirstOf(NotRun(s), RunLimit)]
          /\ Goto(s, "run")
          /\ UNCHANGED <<lpc, lock, answer, drained>>
       \/ /\ NotRun(s) = {} /\ ~drained[s]
          /\ Goto(s, "fetch")
          /\ UNCHANGED <<lpc, lock, answer, drained, batch>>
       \/ /\ NotRun(s) = {} /\ drained[s]
          /\ lpc' = [lpc EXCEPT ![s][m] = IF @ = "first" THEN "wait" ELSE "sleep"]
          /\ Release(s)
    /\ UNCHANGED <<durable, request, top, left>>

\* Mutant: newest first.
CurrentNewest(s) == Greatest(batch[s])

Current(s) == Least(batch[s])

\* The statement runs and commits in a transaction of its own.
Run(s) ==
    LET c == log[s][Current(s)] IN
    /\ step[s] = "run" /\ writer[s] = None
    /\ ~(c \in Inserts /\ c \in data[s])
    /\ data' = [data EXCEPT ![s] = @ \cup {c}]
    /\ Goto(s, "mark")
    /\ UNCHANGED <<log, ran, lastId, request, lpc, lock, answer, top, drained, batch, left>>

\* A panic inside runSql: loopListen recovers, rolls back and ends.  Cancel is
\* not reached, so listen calls loopListen again.
Panic(s) ==
    /\ lpc' = [lpc EXCEPT ![s][lock[s]] = "sleep"]
    /\ Release(s)
    /\ UNCHANGED <<durable, request, top>>

\* The primary key rejects a row that is there.
RunRejected(s) ==
    LET c == log[s][Current(s)] IN
    /\ step[s] = "run" /\ writer[s] = None
    /\ c \in Inserts /\ c \in data[s]
    /\ Panic(s)
    /\ UNCHANGED left

\* The file a row names cannot be downloaded, or the database is busy.
RunFails(s) ==
    /\ step[s] = "run"
    /\ \/ Spend("net")
       \/ writer[s] # None /\ Spend("busy")
    /\ Panic(s)

Advance(s) ==
    /\ batch' = [batch EXCEPT ![s] = @ \ {Current(s)}]
    /\ Goto(s, IF batch[s] = {Current(s)} THEN "load" ELSE "run")

\* Mutant: the update is left out.
MarkForgotten(s) ==
    /\ step[s] = "mark" /\ writer[s] = None
    /\ Advance(s)
    /\ UNCHANGED <<durable, request, lpc, lock, answer, top, drained, left>>

\* update sql_log set state = 1, outside the statement's transaction.
Mark(s) ==
    /\ step[s] = "mark" /\ writer[s] = None
    /\ ran' = [ran EXCEPT ![s] = @ \cup {Current(s)}]
    /\ Advance(s)
    /\ UNCHANGED <<data, log, lastId, request, lpc, lock, answer, top, drained, left>>

\* The error of that update is ignored: the row stays not run.
MarkBusy(s) ==
    /\ step[s] = "mark" /\ writer[s] # None
    /\ Spend("busy")
    /\ Advance(s)
    /\ UNCHANGED <<durable, request, lpc, lock, answer, top, drained>>

-----------------------------------------------------------------------------
\* The process dies and is started again.  A transaction that is not committed
\* and the statements not logged yet are gone.  SaveLastId truncates the file
\* before it writes it: a crash in between leaves an empty file, read as 0.
Crash(s) ==
    LET mine == {h \in Handler : HomeOf[h] = s} IN
    /\ Spend("crash")
    /\ writer' = [writer EXCEPT ![s] = None]
    /\ hpc' = [h \in Handler |-> IF h \in mine THEN "idle" ELSE hpc[h]]
    /\ pending' = [h \in Handler |-> IF h \in mine THEN <<>> ELSE pending[h]]
    /\ newId' = [h \in Handler |-> IF h \in mine THEN 0 ELSE newId[h]]
    /\ lpc' = [lpc EXCEPT ![s] = [m \in Server |->
                IF m \in Masters[s] THEN "sleep" ELSE "dead"]]
    /\ \/ UNCHANGED lastId
       \/ step[s] = "save" /\ lastId' = [lastId EXCEPT ![s][lock[s]] = 0]
    /\ Release(s)
    /\ UNCHANGED <<data, log, ran, clock, fresh, top>>

SyncStep(s) ==
    \/ \E m \in Server : Start(s, m) \/ Pushed(s, m)
    \/ Fetch(s)
    \/ InsertRow(s)
    \/ SaveLastId(s)
    \/ Load(s)
    \/ Run(s)
    \/ RunRejected(s)
    \/ Mark(s)

Next ==
    \/ \E h \in Handler :
          \/ \E c \in Change : Write(h, c) \/ AutoCommitWrite(h, c)
          \/ Rollback(h)
          \/ InsertLogBusy(h)
          \/ HandlerStep(h)
    \/ \E s \in Server :
          \/ SyncStep(s)
          \/ \E m \in Server : ConnLost(s, m)
          \/ FetchFails(s)
          \/ InsertRowBusy(s)
          \/ RunFails(s)
          \/ MarkBusy(s)
          \/ Crash(s)

Spec == Init /\ [][Next]_vars

\* Goroutines that can run do run; requests that begin are ended.  No fairness
\* for new requests, faults and connection losses.
Fairness ==
    /\ \A h \in Handler : WF_vars(HandlerStep(h))
    /\ \A s \in Server : WF_vars(SyncStep(s))

FairSpec == Spec /\ Fairness
-----------------------------------------------------------------------------
(* Type invariant.                                                         *)

\* Every variable has its type: rows have statements, a saved id is an id.
TypeOK ==
    /\ data \in [Server -> SUBSET Change]
    /\ log \in [Server -> [Id -> Change \cup {None}]]
    /\ ran \in [Server -> SUBSET Id]
    /\ lastId \in [Server -> [Server -> 0..MaxId]]
    /\ writer \in [Server -> Handler \cup {None}]
    /\ hpc \in [Handler -> {"idle", "open", "logging"}]
    /\ pending \in [Handler -> Seq(Change)]
    /\ newId \in [Handler -> 0..MaxId]
    /\ clock \in [Server -> 0..MaxId]
    /\ fresh \in SUBSET Change
    /\ lpc \in [Server -> [Server -> {"sleep", "first", "wait", "pushed", "dead"}]]
    /\ lock \in [Server -> Server \cup {None}]
    /\ step \in [Server -> {"free", "fetch", "insert", "save", "load", "run", "mark"}]
    /\ answer \in [Server -> SUBSET Id]
    /\ top \in [Server -> 0..MaxId]
    /\ drained \in [Server -> BOOLEAN]
    /\ batch \in [Server -> SUBSET Id]
    /\ left \in [Fault -> Nat]

-----------------------------------------------------------------------------
(* Safety.                                                                 *)

\* A sql_log row in state 1 stands for a statement the server's database
\* reflects: a request's row is written after the commit, a master's row is
\* marked after it ran (DBConnection.Commit, runSql).
RanIsApplied ==
    \A s \in Server : \A i \in ran[s] : log[s][i] \in data[s]

\* Nothing reaches a database that its author did not commit: no statement of
\* a request that was rolled back or that died is ever replicated.
NoPhantom ==
    \A s \in Server : \A c \in data[s] : c \in data[Author[c]]

\* With two-way and relayed topologies a server gets its own rows back from
\* its masters.  It never runs one of them again: insertLog finds the id taken.
NoEcho ==
    \A s \in Server : step[s] \in {"run", "mark"} => Author[log[s][Current(s)]] # s

\* A statement is logged under one id everywhere, whatever way the row took, and
\* an id stands for one statement on all servers, so that "the id is taken" does
\* mean "this row is stored already" (insertLog).
IdsAgree ==
    \A s, t \in Server : \A i \in Rows(s), j \in Rows(t) :
        log[s][i] = log[t][j] <=> i = j

\* runSql takes the rows oldest first: when it runs one, every older row is
\* reflected in the database, and the row itself was not marked as run.
RunsOldestFirst ==
    [][\A s \in Server : step[s] = "run" /\ step'[s] = "mark" =>
          /\ Current(s) \notin ran[s]
          /\ \A i \in Rows(s) : i < Current(s) => log[s][i] \in data[s]]_vars

\* Marks may have been lost: a server died, or its database was busy.
MarksLost == left["crash"] < Budget["crash"] \/ left["busy"] < Budget["busy"]

\* What was stored or run is not stored, run or marked again, crashes included:
\* the rows, their marks and what the databases reflect stay; a marked row is
\* neither run nor marked; and while no server has died and no database was
\* busy, a statement that is reflected is not run, by whatever way and however
\* often its row comes (insertLog, GetNotRunList, runSql).
ProgressIsDurable ==
    [][\A s \in Server :
          /\ data[s] \subseteq data'[s] /\ ran[s] \subseteq ran'[s]
          /\ \A i \in Rows(s) : log'[s][i] = log[s][i]
          /\ step[s] = "run" /\ step'[s] = "mark" =>
                /\ Current(s) \notin ran[s]
                /\ log[s][Current(s)] \notin data[s] \/ MarksLost
          /\ step[s] = "mark" => Current(s) \notin ran[s]]_vars

\* The id a slave saved covers its master's log: no row of the master at or
\* below it is missing on the slave.  Rows missing there are never asked for
\* again (get_log: id > lastId).
NoGap ==
    \A s \in Server : \A m \in Masters[s] : \A i \in Rows(m) :
        i <= lastId[s][m] => i \in Rows(s)

-----------------------------------------------------------------------------
(* Liveness.                                                               *)

Stopped(s, m) == lpc[s][m] = "dead"

\* A row of a master's log is run on its slave, unless the slave's listener
\* for that master has ended.
RowsReachSlaves ==
    \A s \in Server : \A m \in Masters[s] : \A i \in Id :
        (i \in Rows(m)) ~> (i \in ran[s] \/ Stopped(s, m))

\* A statement committed on a master is logged there: sooner or later a row of
\* its log stands for it.
CommittedGetsLogged ==
    \A c \in Change :
        (c \in data[Author[c]]) ~> (\E i \in Id : log[Author[c]][i] = c)

\* A row that was stored is run, by a retry if need be.
StoredRowsGetRun ==
    \A s \in Server : \A i \in Id : (i \in NotRun(s)) ~> (i \in ran[s])

\* A listener goes on for as long as nobody cancels it.
ListenersSurvive == \A s \in Server : \A m \in Masters[s] : ~Stopped(s, m)
=============================================================================
