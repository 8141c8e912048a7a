# DairoDFS: specifications, model checking and proofs

DairoDFS is a file store: users, folders and files in an SQLite database, file
contents in storage folders, and optional synchronisation between servers. This
directory holds TLA+ modules of its core logic, the TLC configurations that
check them, and theorems about them checked by TLAPS. `PROJECT.json` is the
index: components, runs, mutants, the source lines each definition stands for,
findings, hazards and theorems.

## 1. The system

| Component | State | Operations | Works with |
|---|---|---|---|
| Transactions and the SQL log (`DBConnection`, `DBSqlLog`, interceptors, `Number.ID`) | the open transaction and the list of statements of each goroutine, `sql_log`, the last id given out | write, commit, roll back, insert log rows | every request; read by slaves |
| Log synchronisation (`SyncByLog`, `SyncHttp`, `SyncServerInfo`) | `sql_log` rows with state 0 or 1, the file `sync_last_id.<md5>`, a state per master, `SyncLock` | listen, ask for a page, store, save the last id, run, mark | the masters' `get_log` and `listen` |
| Long poll (`DistributedController.Listen`, `DistributedPush`) | the newest request of each slave, a condition variable | wait, push, keep-alive, replace | log rows that are inserted; the listeners of slaves |
| Synchronisation by table (`SyncByTable`, `DfsFileSyncHandle`, `StorageFileSyncHandle`, `SyncDownloadUtil`) | the section id, progress, temporary downloads | copy six tables, resolve conflicts, download contents | shares `SyncLock` and the databases with the log synchronisation |
| File tree (`DfsFileService`, `DfsFileDao`, `DfsFileDeleteService`) | `dfs_file`: parent, name, owner, history flag, deletion date; `dfs_file_delete` | add, rename, move, copy, put in the bin, restore, purge | every file page; the timer; slaves replay its statements |
| Storage (`SaveToStorage...`, `RecycleStorageTimer`) | `storage_file`, files on disk | store or find by md5, reclaim | uploads, synchronisation, purge |
| Upload sessions (`FileUploadAppController`) | the map of uploads in progress, partial files | upload, resume, finish by md5 | storage, file tree |
| File handling worker (`DfsFileHandleUtil`) | entries with state 0, a wake-up signal | handle the next entry, add thumbnails and properties | file tree, external tools |
| Routing and request wrappers (`AutoWeb`, `inerceptor`, `GoroutineLocal`) | per goroutine: start key, transaction, statements, user | validate, check the form, call, commit or roll back, clear | every request |
| Users, login tokens, shares | `user`, `user_token`, `share` | create, edit, log in and out, change a password; validate and save a share | every request |
| Configuration, backup, verification | `system.json`, the database handle, a verifying goroutine | read, save; back up, restore; start, stop, watch | every request |

Hard behaviours, by kind: requests, the timer, the worker and one listener per
master run at the same time over one SQLite database with one writer; a change
and its log row are two transactions; a replayed statement and its mark are two
transactions; the process may die between any two; rows travel by several ways
and come back to their author; requests between servers fail and are retried on
two different ways out; ids are clock values; checks and the writes that rely on
them are separate statements outside a transaction.

What makes each component correct:

- *SQL log*: a row stands for exactly one committed statement, under one id.
- *Log synchronisation*: a slave reflects a prefix of its master's log; nothing
  twice, nothing left out, nothing of its own; in the end all of it.
- *Long poll*: a slave that lacks a row is told so in the end; the request it waits
  for is its own, and replaced requests end.
- *Table copy*: what is copied and what is replayed from the log make what the
  master has; the slave keeps its own files.
- *File tree*: live names are unique, every entry reaches its owner's root, no
  cycles, a purge removes exactly the subtree it was asked to remove.
- *Storage*: an entry's contents exist for as long as the entry does.
- *Uploads, worker*: what is stored under an md5 is that file; every upload ends;
  every entry is handled.
- *Requests, users, tokens*: a controller runs only after its validations, others
  see whole operations only, nothing of a request is left for the next one.

## 2. Modules

| Module | Contents |
|---|---|
| `ReplicaLog` | abstract: published rows, replicas that hold a prefix of them |
| `LogSync` | requests and their log rows, the listeners, the faults; properties |
| `LogSyncRefinement` | the mapping from `LogSync` to `ReplicaLog` |
| `LogSyncProofs` | the inductive invariants and theorems on what is never taken back, never echoed, never a phantom |
| `LogSyncOrderProofs` | those on ids and order, up to the refinement of `ReplicaLog` |
| `MCLogSync` | topologies, clocks and fault budgets for TLC |
| `DfsFile` | the table `dfs_file`, its queries, and what each operation on the tree does to a transaction |
| `FileTree` | requests in two steps, the timer, the worker, crashes; properties, and the mapping from rows to paths |
| `NameSpace` | abstract: a tree of paths and the six ways in which a request may change it |
| `FileTreeProofs` | folds, one lemma per statement and per operation, the inductive invariant and theorems |
| `MCFileTree` | what the clients of each run ask for |
| `Storage` | stored files, the entries that refer to them, the steps of the timer and of RecycleNow; properties |
| `StorageProofs` | the inductive invariant and theorems |
| `Uploads` | uploads in pieces, by md5 and by form, the temporary file, the copy to the storage folder, the notifications and the loop of the worker; properties |
| `UploadsProofs` | the inductive invariant and theorems |
| `TableSync` | a copy of tables, its conflicts and downloads, and the log after it; properties |
| `TableSyncProofs` | folds of statements, the inductive invariant and theorems |
| `MCTableSync` | the tables of master and slave at first |
| `LongPoll` | the requests for news, the map and the condition variable, the slaves; properties |
| `LongPollProofs` | the inductive invariant and theorems |
| `Routes` | every route of `AutoWeb.go`: its interceptors, its form, and what the annotations demand |
| `Requests` | the way of a request through interceptors, controller and transaction, and the controllers of users and tokens; properties |
| `RequestsProofs` | the shape of the routes, the inductive invariant and theorems; the refinement of `Accounts`: statements, programs, what the holder of the lock has run |
| `Accounts` | abstract: users with their folders, sessions per device within the limit |
| `MCRequests` | routes and tables for TLC |

`FileTree` and `Storage` look at `dfs_file` from two sides: the first knows where
an entry is and treats a stored file as a value, the second knows which file an
entry refers to and lets entries come, move to the trash and to
`dfs_file_delete`, and go, in any order.

### `LogSync`

Every server plays both parts, as every DairoDFS process does. State and code:

| Variable | Code |
|---|---|
| `data[s]` | the contents of the database, as the set of statements it reflects |
| `log[s][i]`, `ran[s]` | row `i` of `sql_log` and whether its `state` is 1 |
| `lastId[s][m]` | the file `sync_last_id.<md5 of m's url>`; 0 when absent or empty |
| `writer[s]` | SQLite's write lock, when a request holds it |
| `hpc`, `pending`, `newId` | a request goroutine: its phase, the list `SQL_LOG` in its goroutine local storage, the id it just drew |
| `clock[s]`, `fresh` | `preId` of `Number.ID`; the statements nobody has written yet |
| `lpc[s][m]` | a listener: asleep, in the call before the poll, polling, in the call after a push, ended |
| `lock[s]`, `step[s]` | who holds `SyncLock`, and its place in `requestSqlLog` and `runSql` |
| `answer`, `top`, `drained`, `batch` | rows of the last answer not yet stored, its last id, whether it was empty, rows loaded by `GetNotRunList` |
| `left` | how many faults of each kind may still happen |

One action is one step that another goroutine can see: a write to the database
or to a file, taking or giving back a lock, a request to the master. The reads
that precede such a write in the same goroutine belong to it. `Write`,
`Rollback`, `Commit` and `AutoCommitWrite` are `DBConnection`; `TakeId`,
`InsertLog` and `InsertLogBusy` are the loop of `DBSqlLog.Insert`; `Start` to
`MarkBusy` follow `SyncByLog` function by function; `Crash` is the death and
restart of a process at any point. Each way out of `loopListen` is kept: a
failure before the poll retries after a sleep (`GiveUp` from `first`), a failure
after a push ends the listener (`GiveUp` from `pushed`), a panic while rows run
is recovered and retried (`Panic`).

Abstractions: a statement is a model value that is either idempotent or, if in
`Inserts`, fails when run again (an `insert` with a primary key); two statements
do not otherwise depend on each other. An interrupted transaction is rolled
back by SQLite. `SQLITE_BUSY` is possible only while another request holds the
write lock. A download that a replayed statement needs is part of `Run` and
fails as `RunFails`. The wall clock does not go back.

### `DfsFile` and `FileTree`

A table is a function from row ids to rows; a row keeps the columns that the
code decides by. `DfsFile` translates the queries of `DfsFileDao` and, function
by function, `DfsFileService`, `DfsFileDeleteService` and the controllers: each
takes a transaction `t` and yields the transaction afterwards, or a set of them
where Go ranges over a map.

`DBConnection.getConnection` opens the SQLite transaction of a request only when
`Write` has set its start key, at the first write. A request therefore reads the
committed table (`t.seen`) until it writes, and its own table under the write
lock (`t.db`) from then on. This is the whole of the concurrency of requests, and
why one is exactly two steps: `BeginCall` (its reads before the first write),
`EndCall` (everything after, to the commit or the rollback). A panic, from an
early return or from the unique index, rolls back. The form upload inserts its
storage row first, so its reads are all in the transaction.

The recursion of `deleteFolder` is a stack of frames (`Frame`): the row to delete,
the rows below it as they were listed and not yet visited, and whether the row is
in `dfs_file_delete` already. `Descend` goes down to a listed row, `Binned` and
the removal are the two halves of `addDelete`. A request takes all these steps in
its transaction (`DeleteOne`, a fold of `DeleteStep`; each row takes three, so
that `6 * next` are enough, and what has not ended by then never does, like the
code's recursion on a row below itself). The timer and the worker run without a
transaction: every write of theirs is an action, and the timer's frames (`work`)
live between its actions. `WorkerSetState` sets 2 after a panic, as `handle` does.

`RequestAssumption` is one on clients: nobody asks for a root, whose path is empty;
the code itself does not refuse that. `NoCallAssumption` says that `None` is no request.

| Variable | Code |
|---|---|
| `file`, `bin` | the tables `dfs_file` and `dfs_file_delete` (its ids) |
| `next` | the next value of `Number.ID` |
| `clock` | the time of the last deletion; every deletion has its own |
| `call[c]`, `seen[c]` | the request of a goroutine, and the table when it read it |
| `batch`, `work` | `deleteIdsList` and the Go stack of the timer |
| `job` | the row the worker handles |

Abstractions: a storage file is a model value, `None` for a folder; extra files
are thumbnails alone (previews and videos are added in the same way); names are
compared as they are, the case being folded away; a name that `makeNameNo` forms
is the first free one of a given list. All reads before the first write are of
one moment. The bound `Sensible` lets clients ask only for what would succeed and
change something if they were alone; it may still fail when others are at work.

### `Storage`

| Variable | Code |
|---|---|
| `disk`, `row` | the files in the storage folders, the table `storage_file` |
| `entry`, `bin`, `of` | the ids in `dfs_file` and `dfs_file_delete`, and their `storageId` |
| `trash`, `recent` | the entries with a `deleteDate`; those whose date has not timed out, per table |
| `young` | the files whose id is above the `deleteTime` of `recycleNotUseStorage` |
| `pc`, `hold` | a request or the worker: has created a file, has found one, and which |
| `step`, `at`, `todo`, `then` | the timer, or a goroutine of `RecycleNow`: its place in `DeleteNotUseStorage`, the id it is called with, the ids left in the loop around it, and what follows the loop |
| `purging` | the entry between the three statements of `addDelete` |
| `faults` | crashes and failed statements so far |
| `safe`, `sound` | history: who holds a file, and which entry was added, in good faith |

A request finds a row (`Find`, `ReadEntry`) before its transaction begins and
commits its entry later (`CommitEntry`); an upload creates a file and commits the
row with the entry (`CommitUpload`) or alone (`CommitStream`, whose client asks
by md5 afterwards). The worker has no transaction, so its row and its entry are
two steps. Each statement and each file operation of a collector is a step. A
panic ends the timer's run, which cron's goroutine recovers from; `RecycleNow`
runs in a goroutine of its own in which nothing recovers, so a panic there is the
end of the process (`Restart`).

Good faith. Nothing in the code keeps a request that has found a row from
committing after the timer or `RecycleNow` has found the row unused; the
configuration `Storage_upload` shows it. `ReferencedIsStored` therefore speaks of the entries
whose file something kept when it was found: another such entry, in `dfs_file` or
dated recently in `dfs_file_delete`, or the age of the row itself while no
`RecycleNow`, which ignores ages, is under way. These are the files the code
means to protect, and what the property says of them is that no interleaving of
the collectors' checks with the moves between the two tables loses one.

Abstractions: contents and md5s are left out, so a look-up may find any row;
each file has a path of its own (`LocalPath` draws it from the clock in
microseconds). A collector takes its ids in any order, and the timer reads the
trash again for each entry rather than in one list. `recycleDeletedFile` takes
all that has timed out instead of 1000 rows at a time. The timeouts are days:
days pass only when nobody is at work (`DaysPass`), which a timeout of 0 in the
configuration would not justify. `StartTimer` is possible at any time. Queries do
not fail: in WAL mode readers do not wait for writers. A row inserted by a
rolled back request never existed; the file it created stays on disk, and no row
ever leads a collector to it.

### `Uploads`

| Variable | Code |
|---|---|
| `file`, `temp` | inodes and their blocks; the inode at `TEMP_PATH/<md5>` |
| `marked` | the md5 is a key of `uploadingFileMap` |
| `rows`, `entry`, `handled` | the rows of `storage_file` with the md5, the entries of `dfs_file` made from them, those with `state` other than 0 |
| `client[c]` | an uploader: where it is, from which size it sends, and the goroutine it waits for |
| `req[g]` | a request: its place in `ByStream`, `ByMd5` or `Upload`, its open file, its next block, the stored file it found or made |
| `hasData`, `worker` | the worker: its flag, its place in the loop of `start`, its list |

The module follows one file through `FileUploadAppController`: the size that is
asked for, the mark, the appending `io.Copy`, the md5 of what the path leads to,
the second `os.Open`, the copy to the storage folder, the removal, the deferred
removal of the mark, the commit. Names and open files are kept apart, since a
goroutine writes on to what it has opened after another has removed the name.
A broken connection ends nothing in the server: its goroutine goes on
(`Cut`) until a read fails, while its client starts again. The program that
uploads in pieces is not in the repository; the model of it (`Ask`) is the
protocol the three routes are made for.

Abstractions: one md5; a browser's form upload is read whole before the
transaction; a client does not break off before the server has begun with its
request. The flag of the worker is as in the code: set by `NotifyWorker`, not set
at the start of the process, reset after an empty query, so that a notification
between the two is lost until the next one (`DfsFileHandleUtil.go:50` accepts it).
`CommittedIsHandled` is therefore about entries that are committed while the
worker is awake or about to wake.

### `TableSync`

| Variable | Code |
|---|---|
| `master`, `slave` | `dfs_file`, `dfs_file_delete` and `storage_file` of each, as sets of rows |
| `log`, `req` | the master's `sql_log`; its request: statements to do, and done but not yet logged |
| `pc`, `aop`, `at`, `page` | the slave: copying, listening or in error; the section id of `get_aop_id`, the table and the last id of `getTableData`, the rows not yet inserted |
| `lastId`, `queue` | `sync_last_id`, and the rows of `sql_log` not yet run |
| `load` | `SyncDownloadUtil`: blocks at the temporary path, tries, the md5 whose file is in place |
| `count`, `whole` | bounds; whether the last copy begun is finished |

`FileByTable`, `FileByLog` and `Repoint` are the three handlers
`DfsFileSyncHandle.ByTable`, `.ByLog` and `StorageFileSyncHandle.download` row by row:
folders of one name merge, the newer of two files is current, a stored file that
is here under another id takes the master's. `FileByLog` has no outcome where the
master's file is the older one: the statement of line 109 compares with the text
`$id` and fails. `Repoint` leaves `dfs_file_delete` as it is, as the code does.
Rows that come by table are not logged, so that servers further down do not get
them.

A copy and the log after it agree only under the conditions that `Calm` lists (`Conditions`):

- `section`: no request of the master is between a statement and its log row when the
  section id is taken;
- `purge`, `deletes`: nothing is purged while the tables are copied, and no deletion
  that is still to be replayed is left when a copy begins again;
- `names`: `Rename` gives a name that no other file has had. A row that is copied late
  is ahead of the log that is replayed, and `SetDelete` takes all that has the name *now*; and
  `ByTable` does not look at `deleteDate` of the row that comes: a deleted file that is newer
  makes the current file of its name history, even when the master is at rest.

The code has no guard for any of them; `TableSync_section`, `TableSync_deletes` and
`TableSync_names` show what happens without. `TableSync_calm` asks whether
the design is right apart from that.

Abstractions: one user; the slave's own writes precede the copy; ids are
milliseconds of clocks that agree; `user`, `user_token` and `share` are copied like the
other tables without a handler, and are left out. A copy that is cancelled by a second one
is one that fails (`NoAnswer`), and then a new one.

### `LongPoll`

| Variable | Code |
|---|---|
| `last` | `SqlLogDao.LastID`, the newest row of `sql_log` |
| `push` | rows are inserted whose `DistributedPush.Push` has not come yet |
| `waiting[s]`, `clock` | `waitingRequestMap`, and the stamps it holds |
| `req[r]` | a goroutine in `Listen`: about to broadcast, to test, to call `Cond.Wait`, waiting, or woken |
| `slave[s]` | a slave: in `callRequestSqlLog` before the poll (`sync`) or after a push (`pushed`), about to listen, waiting for `r`, or cancelled (`dead`) |

The gap between the test of the newest id and `Cond.Wait` is a state of its own
(`block`), in which a broadcast is missed; the map is read without its lock after
a wake-up. Rows that come from a master of this master are stored without a `Push` (`StoreRow`).
A broken connection is noticed only by the slave. A request puts its stamp into the
map before its slave can ask again: the slave sleeps three seconds in between.
`RequestSqlLog` is one `get_log` and its page; an empty answer is the end of the recursion.
It fails when its connection breaks or the master dies under it (`Break`, `Crash` with any set of
requests under way). `Lost` keeps the two ways out of `loopListen`: before the poll
`listen` calls it again, after a push the failure cancels the listener for good
(`SyncByLog.go:112, 128`). `ListenAll` starts a new one: the process of the slave starts, or its
administrator saves the settings or has the log synchronised; nobody promises that. `RowsArrive`
says so: a row arrives, or the listener has been cancelled, and then again for each listener that
is started.
This is where `LogSync.Pushed` gets its licence from: there, a slave that lacks a
row is told so in the end, or loses its connection.

### `Routes`, `Requests` and `Accounts`

`Routes` is `AutoWeb.go` as data: each route with its methods, the interceptors
before and after, whether its form is checked, and in `Annotated` what the
comments of the interceptors ask for. The generated file is compiled as it is, so
the two can differ.

| Variable of `Requests` | Code |
|---|---|
| `pc`, `req`, `at`, `body` | a connection's goroutine: its request, the interceptor it is at, the result that the deferred call sees |
| `local[g]` | its part of `goroutineLocalStore`: manual commit, the start key, the transaction, the user |
| `todo[g]` | the statements its controller has still to run |
| `db`, `work`, `lock` | what is committed, what the holder of SQLite's lock sees, and who that is |
| `handle` | whether `DBConn` is open: `Backup` closes it under other requests |
| `readOnly`, `adminId` | of the configuration, and the cached id of the administrator |

The controllers of users and sessions are modelled statement by statement
(`DoLogin`, `Logout`, `Modify`, `AddAdmin`, `Edit`, `MakeApiToken`, `ResetData`), all others as
some statement that does not touch these tables. Reads before the first write are of what is
committed. `Accounts` is what others are promised: each operation whole, in one step.
A reset is several transactions of its own in the code, and is three steps there too.

Sessions are a set of rows with dates: the date is read after the `DELETE` of the
same login has taken the lock, so dates grow in the order of the logins, and
`ListByUserId` orders by them to find the oldest. Two logins in one
millisecond, whose order the query leaves open, are left out.

Abstractions: tokens are numbers that never repeat (in the code, md5s of
microseconds); a password is compared as it is; a user that is disabled keeps its
sessions, so the field plays no part here. `TypeOK` of `Requests` and of `Uploads`
documents their variables; the runs do not list it, and `UploadsProofs` proves that of
`Uploads`.

### Bounds and why they are enough

Two servers show every interaction of a master and a slave, and in `LogSync_mutual` each
is both. A third in between adds rows that are passed on; `NoEcho` and `IdsAgree`
are proved for any number of servers and any topology.
Three statements in at most four ids give a page limit of 1 and a run limit of 2
both a full and a rest page. `LogSync_serial` has two crashes, since a second one
may hit the recovery from the first; `LogSync_mutual` has one fault of each kind. `MaxId` bounds the clock: requests stop when
it runs out, so runs turn deadlock checking off (the system may also simply be
at rest; the same holds of all other runs).

`FileTree`: two clients show every way in which one request runs between the
reads and the writes of another; a third would find the same tables. Five
rows hold a root, a folder, a file in it, and a second folder or a second version
of the file. Two deletions tell what was deleted together from what was not; with them,
`FileTree_race` holds as well (285556 states).
`Depth` is 2, and 3 where folders are moved into folders. Each run's requests
(`MCFileTree`) are those that can disturb its properties.

`Storage`: two stored files are one of a request and one of the worker, and two
entries share a file or have one each; a crash or a failing statement (`MaxFault`) comes at
any point. `Storage_live` checks liveness with one file and three entries (one
purged, one in the trash, one being added). The theorems have no bound.

`Uploads`: two blocks tell a file from its first part, its double and its overlap; one
client that breaks off once leaves a goroutine behind that is active with the next
one; five inodes are all that two goroutines, the temporary name and two rows can lead to.

`TableSync`: the master has a folder and two files; one has the name of the slave's file, and is
older or newer. Four ids of the clock are two new statements during the copy and one before
or after; a page of 1 lets the master write between any two rows; two copies and a
fault show a copy after an unfinished one. With six ids and one copy, and with five
ids, two copies and a fault, TLC finds the same in some 10 and 50 million states.

`LongPoll`: two rows are one before and one after the test; three goroutines and
six stamps leave room for two abandoned requests beside the one that serves, and `MaxFault` for
a failure after a push and another after the listener is started again. Another slave
would only add broadcasts, which the keep-alive makes at any time.

`Requests`: two requests at once and one limit of 1 session per user make logins
compete; `Requests_routes` sends every route, one at a time, two after each other on
one connection, with a crash.

### Fairness

`LogSync`: `WF(HandlerStep(h))`: a goroutine that can go on does, and a request that has
begun ends (the interceptors commit or roll back in every case).
`WF(SyncStep(s))`: the listeners of a server loop for ever with short sleeps,
and the Go mutex `SyncLock` hands over to waiters. Nothing is assumed of new
requests, faults or lost connections. `LogSync_serial` has one master per slave,
for which weak fairness of the server's listeners as a whole is that of the one
listener.

`FairSpec` of `FileTree`: `WF(TimerNext)`, the timer's goroutine goes on once it
has started; `SF(TimerSelect)`, cron starts it every night for ever, whatever is
in the recycle bin by then. Nothing is assumed of requests or of the worker.

`FairSpec` of `Storage` (for `Storage_live`): `WF(Finish(a))`, a request that has begun ends;
`WF(TimerNext)`, cron starts the timer every night and its goroutine goes on;
`WF(DeleteNotUseStorage(k))`, so does that of `RecycleNow`; `SF(DaysPass)`, there
are always days on which nobody is at work. Nothing makes new requests come.

`FairSpec` of `Uploads`: weak fairness of each goroutine that serves, of the worker's
loop, and of each uploader, which is what it means that it starts again; without it nobody
promises that an upload ends. Breaks and crashes are not fair.

`FairSpec` of `LongPoll`: weak fairness of the goroutines and of each slave's
loop, of `Push`, which follows the insertion in the same goroutine, and of
`KeepAlive`, a goroutine with a sleep. Not of new rows, nor of `ListenAll`.

`FairSpec` of `Requests`: `WF(Step(g))`, a goroutine that serves a request runs on; SQLite
gives the lock, or an error after its time-out (`Panic`), so that no request waits
for another for ever. Not of new requests.

## 3. Runs

| Run | Question | Result |
|---|---|---|
| `LogSync_mutual` | two servers that follow each other, several requests at a time, a crash, a busy database, a failing request: no echo, one id per row everywhere, nothing lost or done again, but a statement run when a crash or a busy database may have lost its mark, when clocks do not collide | holds |
| `LogSync_serial` | one request at a time, two crashes anywhere, idempotent statements: slaves hold a prefix (implements `ReplicaLog`), only committed statements, in order, and everything in the end | holds |
| `LogSync_gap` | two concurrent requests and no fault | a row is never replicated |
| `FileTree_serial` | everything but Move and Rename, one request after the other: steps of a name space; rows stay in folders; versions stay with their file | holds |
| `FileTree_race` | two clients whose look-ups and commits interleave, and a crash: each request is one step of a name space, at its commit; rows stay in folders, as long as nothing is moved, renamed or purged | holds |
| `FileTree_timer` | timer and worker against requests, folders moved as a whole in any order of the map: steps of a name space; what is deleted is purged in the end, also after a crash, unless the crash has left a row half deleted; nothing else is | holds |
| `Storage_reclaim` | requests, worker, timer and RecycleNow, a crash or a failing statement: a reference in good faith keeps its file; a night's run that gets to its end leaves no old file without a use | holds |
| `Uploads_resume` | a client that resumes after a break or a crash, a browser with the same file, and the worker: what is stored is whole, uploads end, entries are handled | holds |
| `TableSync_calm` | a master that writes while its tables are copied, conflicts, failing downloads, a second copy: both agree in the end, rows of the log can run, the slave keeps its files | holds |
| `LongPoll_break` | rows pushed at any moment, failing requests, broken connections, a crash, listeners that are started again: every row arrives while the listener is not cancelled, a slave is served by its own request, replaced requests end | holds |
| `Requests_accounts` | concurrent logins, password changes, edits and a backup: others see whole operations (implements `Accounts`), nothing stays with the goroutine, requests end | holds |
| `Requests_routes` | every route with every token: no controller before its validations | holds |

The violation is a behaviour of the code as it is, reached in a few steps; it is
a finding in `PROJECT.json` with the line that says otherwise. The runs
that hold say under which circumstances the design works: one request at a time,
no crash between run and mark of an insert, distinct clocks; nothing moved or renamed while another request
works on it, no file deleted before its folder, nothing restored while the
timer works; no old, unused file found while a collector works; one client per
file that is uploaded in pieces; a quiet master at the
section of a copy, and names that do not pass from one file to another.

### Further configurations

These are not part of the list of runs (`tlc -config X.cfg M`, M being the MC module of
that name where there is one). They hold, and were left out for their time or since a run has them in part:

| Configuration | Question |
|---|---|
| `FileTree_move` | Move and Rename, whole folders: each is one relocation (implements `NameSpace`) |
| `Storage_live` | what is unused is reclaimed in the end, unless a crash has left an entry half purged (`UnusedIsReclaimed`) |

TLC finds a counterexample with each of these:

| Configuration | Counterexample |
|---|---|
| `LogSync_wedge` | a crash between running an insert and marking its row: every retry fails on the primary key (`StoredRowsGetRun`; `SyncByLog.go:69` has the retry in mind) |
| `LogSync_busy` | the database is busy between commit and log row: the change is never logged (`CommittedGetsLogged`) |
| `LogSync_cancel` | one failed request after a push ends the listener (`ListenersSurvive`) |
| `LogSync_collision` | two clocks yield one id: two servers disagree on a row, silently (`IdsAgree`) |
| `LogSync_phantom` | a commit that fails is logged and replicated (`NoPhantom`) |
| `FileTree_nested` | a file and its folder deleted for good together: the files of every user are deleted (`OwnRowsOnly`); the timer does the same when both expire in one night |
| `FileTree_restore` | a file is restored after the timer listed it, and purged (`PurgedWasTrashed`) |
| `FileTree_moved_folder` | a file is put into a folder that is being moved (`ParentIsFolder`) |
| `FileTree_save_to` | saving a share makes rows of the sharer in folders of another user (`ParentIsFolder`) |
| `FileTree_versions` | a move or rename leaves the versions of the file behind (`HistoryHasCurrent`) |
| `FileTree_orphan` | a thumbnail is added to a file that was purged meanwhile (`ExtraHasOwner`) |
| `Storage_upload` | an old, unused file is found by its md5 and loses its contents to the timer between its checks and the commit (`UploadsAreKept`); the comment of `RecycleStorageTimer.go:124` has this in mind |
| `Uploads_two` | two clients of one file: who was refused takes the mark away, the other's bytes and those of its next request meet in one file, and a stored file is not whole (`StoredIsWhole`) |
| `Uploads_notify` | `ByMd5` tells the worker of an entry before it is committed (`ToldWhenVisible`) |
| `TableSync_section` | a statement done before the section id is taken and logged after it comes by table and by log, and its log row can never run (`LogCanRun`) |
| `TableSync_names` | a file is deleted and another renamed to its name while the tables are copied: the replayed deletion takes the other as well (`Converged`) |
| `TableSync_deletes` | a row that was copied and then purged stays when the purge is logged before the copy ends or is repeated (`Converged`) |
| `Requests_admin` | two requests each find no administrator, and both create one (`AdminCreatedOnce`) |
| `Requests_leak` | a commit on a database that a backup has closed panics in the deferred call, and what the goroutine keeps is not cleared (`ClearedAfterEachRequest`) |

More behaviours the models have, in no configuration: `Move` with `isOverWrite`
onto a file that exists always fails, since it moves the row before it marks the
other as history and the unique index forbids two current rows of one name; a
folder moved below itself leaves its contents without it; an upload to a path
below a file makes that file a folder of it; a file renamed while its old name is
overwritten becomes a version of nothing; a deleted file that an overwrite has
made a history row, from a list read before the deletion, is a version of nothing
as well when its restoration begins before the new file is deleted and ends after; a file that is
moved away while an overwrite has read it becomes a version of nothing at its new place, so that `FileTree_race` with
`Move` breaks `ImplementsNameSpace`; a crash between `Insert` and `Delete`
of the purge (`HalfDeleted`) ends all later runs of the timer at that row, and what is listed after it is never purged. When a folder of the master was deleted,
another of its name made and deleted, and the first restored, `ByTable` merges the
first, which is current on the slave, into the deleted one, whose id is greater
(it does not look at `deleteDate`): the slave has lost the folder, and what is copied into it later
lies in no folder, even when the master is at rest.

## 4. Proofs

`LogSyncProofs` proves for any set of servers, any topology (cycles and relays
included), any number of goroutines, statements, ids and faults:

| Theorem | Says | Assumes |
|---|---|---|
| `TypeCorrect` | `TypeOK` always | - |
| `NothingTakenBack` | no step takes back what a database reflects, or loses, changes or unmarks a row | - |
| `NoEchoHolds` | `NoEcho` always | - |
| `RanIsAppliedHolds` | `RanIsApplied` always | `FaultyCommit = FALSE` |
| `NoPhantomHolds` | `NoPhantom` always | `FaultyCommit = FALSE` |

All rest on the named assumptions on the constants, which TLC evaluates in each
run. The argument:

1. `TypeOK` is not inductive: `Fetch` needs a lock holder, `Run` a current row.
   `StepInv` says that the listener that works has what it works on (rows of an
   answer are rows of the master, the batch consists of rows not yet run), and
   `HandlerInv` that a goroutine holds statements exactly while it has something
   to log, all of its own server. `BaseInv` is the three together.
2. `KeptStep`: a step keeps the databases, the rows and the marks, and only
   `Mark` marks a row that was there. `Kinds` reduces the 22 actions to the six
   that touch them.
3. `Origins`: a new row is a request's own or a copy, a new mark belongs to such a
   row or to the one that ran, a newly reflected statement is a request's own or
   that of the row that runs.
4. `RowInv`, from 2 and 3: a row is a copy of its author's, which the author has
   marked. Hence a row a server is about to run, which is not marked, is not its
   own (`NoEcho`).
5. `CommitInv` and `AppliedInv`, when commits do not fail: what is logged was
   committed, so what is marked is reflected (`RanIsApplied`); a statement that
   runs has a marked row at its author, so its author reflects it (`NoPhantom`).

The lemmas `LeastIs`, `GreatestIs` and `FirstOfIs` (the smallest and largest id of
a set exist, a first page of a non-empty set is not empty) rest on the
well-foundedness of finite subsets.

`StorageProofs` proves, for any number of requests, goroutines of `RecycleNow`,
files, entries, crashes and failures:

| Theorem | Says |
|---|---|
| `TypeCorrect` | `TypeOK` always |
| `ReferencedNeverReclaimed` | `ReferencedIsStored` always |
| `NightReclaimsHolds` | `NightReclaims` always |

The assumptions are that the worker is not a request and the timer not a
goroutine of `RecycleNow`, and that the bounds are numbers. `ReferencedIsStored`
says nothing of a collector that is about to remove a file, nor of a request
that is about to refer to one; `IInv` does, in parts:

1. `MadeInv`, `SavingInv`: numbers are given out once, and nobody knows of a file
   that is being saved. So a new row or entry cannot meet an old collector.
2. `SafeInv`, `SoundInv`: what a request holds in good faith is there and is kept
   by something; what a sound entry refers to is there, and stays so while its
   copy in `dfs_file_delete` is recent.
3. `DoomedInv`, the heart: a collector reads `dfs_file` first and
   `dfs_file_delete` second. After the first check the file has no sound entry,
   or a recent one in `dfs_file_delete`; after the second nothing keeps it. This
   is stable because entries move only from the first table to the second,
   `addDelete` inserts before it deletes (`PurgingInv`), and a file that nothing
   keeps can gain a sound entry only by its youth.
4. `AgedInv`: the timer never looks at a young file, as what has timed out is
   older than the timeout of a row; `RecycleNow` does, and for that reason takes
   good faith away from those who rely on youth.

There is one lemma per action and one step in it per part. `NightReclaims` needs
less: while the timer goes through the old rows, each is used, still to be looked
at, or the one it looks at (`NightInv`). Nothing gets old while it does, and what
is used stays so, since an entry leaves `dfs_file` for `dfs_file_delete` and
`dfs_file_delete` only before.

`LongPollProofs` proves, for any slaves, goroutines, ids, requests and faults:

| Theorem | Says |
|---|---|
| `TypeCorrect` | `TypeOK` always |
| `ServedByItsOwnHolds` | `ServedByItsOwn` always |
| `OneGoesOn` | of two requests of one slave at most one finds its stamp in the map |

`IInv` adds to `TypeOK` and `ServedByItsOwn` that a slave that does not wait has
no request (`NotServed`) and that stamps are given out once (`StampsDiffer`), so that
only the newest request of a slave has the place in the map. In the code a stamp is
the time in microseconds, read after a sleep of one (`DistributedController.go:38`).

`RequestsProofs` proves, for any connections, forms, tables, requests and crashes:

| Theorem | Says |
|---|---|
| `GuardedHolds` | `GuardedAsAnnotated` always |
| `LocalsAreOwnHolds` | `LocalsAreOwn` always |

The first half is about data: `RoutesAreShaped` says that each of the 112 routes
runs one of four chains of interceptors before its controller, and that its
annotations ask for no more than its chain has (`Guarded`). The second half is that a
goroutine has passed every interceptor before the one it is at, and that in each
phase the user, the transaction and the lock are its own (`Own`, one conjunct
per goroutine). `Frame` reduces a step to the goroutine that makes it; one
lemma per group of actions does the rest. `EndsLocal` is why a transaction is over
before the values are cleared, with or without a panic.

The second half of `RequestsProofs` proves, for any connections, routes, forms, tables at the start
(`StartAssumption`), requests, panics, backups, resets and crashes:

| Theorem | Says |
|---|---|
| `ImplementsAccountsHolds` | `Requests` implements `Accounts` |

1. The statements of a controller are a *program*: `IsProgram` lists the eight there are,
   and for each a lemma shows that all its statements together are one operation of `Accounts`,
   or change nothing (`ProgramRefines`).
2. `StoreInv`, the heart: what the holder of the lock sees is what the statements it has run
   make of what is committed (`Stage`), which nobody else changes meanwhile. The
   tables that are reset round the transaction are so only while nobody holds the lock.
   So a commit is a whole program in one step; a rollback, a panic and a crash are none.
3. Names: the first statement of a program has not violated the unique index on the
   committed table (`Runs1`), so the operation's condition held. Ids: that of
   a user to be added is in no table, and no other goroutine has it (`PendingInv`). Those bounds
   of the model never run out: who has not drawn an id still may (`CountInv`).
4. `UserInv`: behind `LoginValidate` the user is known, `FormInv`: forms are what was asked.

`LogSyncOrderProofs` proves, for any number of servers, goroutines, statements, ids
and faults:

| Theorem | Says | Assumes |
|---|---|---|
| `IdsAgreeHolds` | `IdsAgree` always | no two clocks yield one id (`Disjoint`) |
| `ProgressHolds` | `ProgressIsDurable`: moreover nothing marked is run or marked again, and a statement runs twice only if a crash or a busy database may have lost its mark | `Disjoint` |
| `RunsOldestFirstHolds` | `RunsOldestFirst` | `FaultyCommit = FALSE` |
| `NoGapHolds` | `NoGap` always | masters follow nobody (`OneLevel`); one goroutine per master (`OneRequest`) |
| `HoldsAPrefixHolds` | `LogSync` implements `ReplicaLog` | one master of all (`Star`), `OneRequest`, `Disjoint`, `FaultyCommit = FALSE` |

`LogSync_serial` satisfies all of these hypotheses, `LogSync_mutual` the first. Without
them the code does not do it: `LogSync_collision` is the counterexample to `IdsAgree`
with clocks that collide, `LogSync_gap` the one to `NoGap` with two requests at a
time, `LogSync_phantom` that with a commit that fails. The argument, in the order of the invariants:

1. `TakenInv`: an id that a goroutine has drawn and a row that is logged are of the
   server's own clock and below its next value; a goroutine's id is in no row yet. With
   `Disjoint`, a row has one author (`ClockInv`), hence one statement everywhere.
2. `OnceInv`: a statement is not written yet, on one list, or logged under one id. `UnmarkedInv`, the
   strengthening of `ProgressIsDurable`: while no mark was lost, a row that is not marked is not
   reflected, but for the one that is being marked. A row that is stored cannot be that of a reflected statement,
   since the server would have it already (`RowInv` for its own, `ReflectKinds` for the
   others'); `MarkStays` says that only `Mark`, a busy database and a crash leave the state after `Run`.
3. `OldestInv`: a batch of `GetNotRunList` is in the order of ids and holds the
   oldest rows that have not been run; what is stored while it runs comes behind
   it, since the listener that stores is the one that runs (`SyncLock`).
4. `ListenInv`, `SourceInv`: with one request at a time the next id of a master is above all its
   rows, so a page is the rows next to the last id that is saved (`PageInv`),
   and a crash between storing and saving leads to the same page again.
5. `PrefixInv`: so the rows of a slave are the first rows of its master, and, with 3, those it
   has run the first of those.
6. `RefineInv` relates the statements: what a slave reflects of the master's is
   what the rows it has run hold, and at most the one that is being marked. `Run` is the step
   of `ReplicaLog`, `InsertLog` publishes, every other action stutters.

`UploadsProofs` proves, for any number of browsers, goroutines, blocks, inodes, breaks
and crashes:

| Theorem | Says | Assumes |
|---|---|---|
| `TypesHold` | `TypeOK` always | - |
| `StoredAreWhole` | `StoredIsWhole` always | one uploader in pieces (`OneClient`) |
| `EntriesAreWhole` | each entry leads to a stored file that is whole | `OneClient` |

`Uploads_resume` satisfies `OneClient`; `Uploads_two` is the counterexample without.
`StoredIsWhole` says nothing of files that are not stored yet. The strengthening does:

1. `TurnInv`: one goroutine at a time is between the request for a stream and the removal of
   the mark, and the mark tells that one is; nobody is while the client is about to send.
2. `ApartInv`: what is being written, the inode of the temporary name or that of an open stream,
   is neither stored nor about to be, under whatever name it was opened.
3. `ContentInv`: whatever passed the comparison with the md5, or is in a goroutine's hands after
   it, is the whole file, and each entry leads to a row of `storage_file`.

2 needs 1: a second stream, of a request that its client has given up, could write to the
inode that the first has compared. `OneClient` gives 1: a client sends only after it
has found no mark, and nobody else can set one in between.

`TableSyncProofs` proves, for any tables at first on either server, any page, retries, copies and
faults:

| Theorem | Says | Assumes |
|---|---|---|
| `TypesHold` | `TypeOK` always; with it, no two rows of `dfs_file` have one id | - |
| `OwnFilesKeptHolds` | `OwnFilesKept` | - |
| `ParentsExistHolds` | `ParentsExist` always | `"section" \in Calm`, `Tidy` |

`InitAssumption` says of the tables at first that no id was drawn twice, on one server
or on both, and that what the slave has of its own refers to stored files it has;
`TableSync_calm` satisfies it. The argument:

1. There is one `content`, which tells for each id of `storage_file` what the file holds
   (`Inv`): both servers, the log, the request under way and the page agree with it, as an id is drawn once.
   So a stored file that takes the place of another under `Repoint` has the same contents.
2. What comes from the master, by table or by log, is never about a row of the slave's own
   (`Made`): those ids were drawn by the slave.
3. Hence each handler only rewrites rows and leaves `id` and contents of the slave's own
   alone (`Rewritten`), or puts in a row with another id (`RowPut`, `StorageCame`);
   `InsertKeeps` and `ReplayKeeps` say so of a whole row of a table or of the log.
4. `FoldExists` and `FoldSteps`: a commit of several statements is one after the other, so what
   each statement keeps (`EffectIsSound`), the commit keeps.

`Tidy` says of the tables at first that rows lie in folders, on the master in older ones, and that
of the master's folders of one name only the newest is not deleted; `MCTableSync` assumes it
of its tables. Without it `ParentsExist` does not hold, see the end of section 3. `section` is a
hypothesis of the proof: TLC finds no violation of `ParentsExist` without it in the instance of
`TableSync_calm` (without the fault), but a folder may then be copied and announced by the log as well, and the row of
the log can never run (`TableSync_section`). The other conditions of `Calm` are not needed. A master
of the model moves and restores nothing, which could lead out of `Tidy`, and renames files only.
The invariant is `Family`, with the `Inv` above:

1. `Tree`, `TodoTree`, `DoneTree`, `LogTree`: `Tidy` goes on to hold of the master; a folder is
   deleted, and its deletion logged, before the next of its name is made.
2. `SlaveFits`: a row of the slave lies in a folder of the slave, or in one of the master (`Hangs`).
   This holds all the time: the folder may not have come yet.
3. While tables are copied (`CopyTree`): folders of the master that the copy has passed are on the slave, where the
   master has them; those above the section id are announced by the log; a deletion is known to the
   copy or comes by the log. `FirstRows` shows that a page leaves no row out below its last id.
4. Afterwards (`WholeTree`): a folder of the master is on the slave, or the row that makes it is still to run
   (`Followed`). When nothing is to run, all folders of 2 are there.
5. The heart of 3 and 4: what a folder that comes merges with is the slave's own. A
   folder of the master beside it would be an older one, hence deleted (1), and its
   deletion is on the slave before the new one comes, so it is not found. `Moved`, `Carries` and
   `Arrives` say what a handler does to the other rows.

`FileTreeProofs` proves, for any users, clients, requests, names, contents, bounds and crashes:

| Theorem | Says | Assumes |
|---|---|---|
| `TreeStaysWhole` | the inductive invariant `IInv` always | - |
| `TypesHold` | `TypeOK` always | - |
| `RowsKeepContent` | an id is never given to another row; a row keeps its user, its storage file and its kind, and under `Calm` its folder and its name | - |
| `OneCurrentPerGraveHolds` | `OneCurrentPerGrave` always | `Calm` |
| `HistoryHasCurrentHolds` | `HistoryHasCurrent` always | `Still` |
| `ParentIsFolderHolds` | `ParentIsFolder` always | `Orderly` |
| `RowsStay` | no row leaves the table | `Orderly` |

| Hypothesis | Says | Without it |
|---|---|---|
| `Safe` | the timer does not run, and rows are deleted for good one at a time | a row that is gone is taken for the folder 0, and all roots are deleted (`FileTree_nested`) |
| `Calm` | `Safe`, and nothing is moved or renamed | rows of two files come together under one name in one deletion |
| `Still` | `Calm`, and nothing is restored or deleted for good | `FileTree_versions`; a restored version without a file (end of section 3) |
| `Plain` | folders and files have names of their own (`FolderName`), files are copied and moved one by one, nothing is deleted for good or saved from another user | `FileTree_moved_folder`, `FileTree_save_to`; an upload to a path below a file |
| `Orderly` | `Safe` and `Plain` | |

`RowsKeepContent` is what lets the collectors of `Storage` count references by rows and
`makeThumb` use what it has read of a row after any wait. The argument:

1. `FoldIn`, `PositionsStay`: a fold over a sequence is one step after the other, so what each
   step keeps, the fold keeps. `PathStays` is that for `SelectIdByPath`. They rest on the
   well-foundedness of finite subsets (`NatHasLeast`), since induction over data is out of reach.
2. `Sane`: a transaction has failed, or its table can be committed: `Sound` (ids and parents below
   `next`), `Agree` (what it read before its first write has the users, contents and
   kinds of what is there now), `NamesAreUnique`, and under the hypotheses `Rooted`,
   `OneInGrave`, `Placed`. What a transaction does after it has failed is rolled back and need
   not be good; this is what makes the folds easy. `After(b)` is what may become of `b`.
3. One lemma per statement of `DfsFileDao` (`AddAfter`, `SetDeleteAfter`, `MoveRowAfter`, ...) says that
   it leads from `Sane` to `After`. `Write` fails where the unique index would be violated, so only
   the other parts are left to show.
4. One lemma per operation (`MkdirsAfter`, `CopyAfter`, `MoveAfter`, `TrashRecoverAfter`,
   `LogicDeleteAfter`, ...), up to `ResultsAfter`: whatever is asked, the result is in `After`. `MapIs`
   says what the map of sources to targets holds, in whatever order Go ranges over it
   (`OrderIs`); `DeleteStepAfter` is the step of `deleteFolder`.
5. `HistoryHasCurrent` takes more than one statement: `insert` marks the current row as history, after
   which its versions have none (`Historic`), and the row added next is the new one (`OverwriteAfter`). So `Good` says `Kin` of
   whole operations, and in between only what of `Passes` is left without it. A snapshot may be out of date: the
   row it shows as current may lie in the recycle bin (what is marked is then trashed history, about
   which the property says nothing), or have been overwritten, when the unique index makes the commit fail.
6. `IInv`: the committed table is `Whole`, and *every snapshot* that a request has read (`CallInv`) is
   still `Good` with it. Without the second part nothing is inductive: a request looks up ids in
   its snapshot and writes to what the others have made of the table since. `SnapshotsStay` says
   that a commit of somebody else (`Kept`: old ids keep their rows) leaves them so.
7. One lemma per action, `NextHolds`, and the theorems from `IInv`.

Only model-checked: all liveness and `HoldsEverything`, which rest on fairness;
of `FileTree`, `PurgedWasTrashed` and the refinement of `NameSpace`, whose
paths are recursive over the table; of `TableSync`, `Converged`, `LogCanRun` and `NewestIsCurrent`, which
need more of `Calm` and an account of how the name of a file passes from row to row; `AdminCreatedOnce`,
`ClearedAfterEachRequest` and the other properties that the code violates.

## 5. Not modelled, and why

`PROJECT.json` lists every component with what is left out of it. Nothing is
modelled of: image, video and shell tools, helpers, AES, dates and logging
(conversions without state, or I/O on external programs); the pages that install
those tools; the generated query mapping; the verification of files and the
upgrade of the database schema (maintenance that changes no other state). Left out of components that are
modelled:

- routing: the text of answers and pages, the parsing of forms;
- downloads: ranges and formats; which storage folder a new file goes to;
- configuration: the singleton and its reload, which starts new listeners
  while old ones end at their next test of `IsStop`;
- table copy: the tables `user`, `user_token` and `share`, which have no handler,
  and the cancellation of one copy by the next;
- shares: that a share has a password and an end.

## 6. Plan

Done: `LogSync`, `FileTree`, `Storage`, `LongPoll`, `Uploads` with the worker's loop,
`TableSync` with the log and the conflict handlers, `Routes`, `Requests` with
users, tokens and the backup. Left, in this order:

1. the proofs of `LogCanRun` and `NewestIsCurrent` for `TableSync`;
2. the composition of `LongPoll` with `LogSync` in place of `Pushed`;
3. an abstract store (files appear, are referred to and vanish when unused) that
   `Storage` implements, and the stored files that synchronisation adds;
4. the reload of the configuration under listeners and a table copy;
5. the verification of files.
