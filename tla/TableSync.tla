------------------------------ MODULE TableSync ------------------------------
(***************************************************************************)
(* Synchronisation by table: a server that already has files of its own    *)
(* copies the tables of a master, row by row up to a section id, and goes  *)
(* on with the master's log from there.                                    *)
(*                                                                         *)
(* One user, one master, one slave; of the tables, dfs_file,               *)
(* dfs_file_delete and storage_file, as sets of rows (a folder has st 0).  *)
(* Ids are milliseconds of clocks that agree.  What the slave writes of    *)
(* its own it has written before.  A stored file is a number of blocks to  *)
(* download.                                                               *)
(***************************************************************************)
EXTENDS Naturals, Sequences, FiniteSets, SequencesExt

CONSTANTS
    Md5,              \* what files may contain
    FileName,         \* names of files
    FolderName,       \* names of folders
    NewName,          \* names that Rename gives
    MasterInit,       \* what the master may have at first: [df, st]
    LocalInit,        \* what the slave may have at first
    FirstId,          \* above every id of both
    Page,             \* _MAX_SYNC_DATA_LIMIT, and the limit of GetLog
    MaxRetry,         \* retries of a download
    Blocks,           \* blocks of a stored file
    Calm,             \* the Conditions that users of the master keep
    IgnoreSyncError,  \* SystemConfig
    MaxId,            \* bound on the ids
    MaxSync,          \* bound on the copies begun
    MaxFault          \* bound on the faults

ASSUME NumberAssumption ==
    /\ {FirstId, Page, MaxRetry, Blocks, MaxId, MaxSync, MaxFault} \subseteq Nat
    /\ FirstId <= MaxId
ASSUME PageAssumption == Page > 0
ASSUME FlagAssumption == IgnoreSyncError \in BOOLEAN
\* A copy begins when no request of the master is under way, and when no row
\* to delete is left in the log; the master purges nothing while it is
\* copied; Rename gives a name that no other file has had.
Conditions == {"section", "deletes", "purge", "names"}
ASSUME CalmAssumption == Calm \subseteq Conditions
ASSUME NameAssumption == FolderName \cap (FileName \cup NewName) = {}
\* Both servers drew their ids from one clock, none twice; what the slave has
\* of its own refers to stored files that it has.
ASSUME InitAssumption ==
    \A m \in MasterInit, l \in LocalInit :
        /\ \A T \in {m, l} :
              /\ T.df \subseteq [id : 1..FirstId, parent : 0..FirstId,
                                 name : FileName \cup FolderName \cup NewName,
                                 st : 0..FirstId, hist : BOOLEAN, trash : BOOLEAN]
              /\ T.st \subseteq [id : 1..FirstId, md5 : Md5]
              /\ \A r, s \in T.df : r.id = s.id => r = s
        /\ \A r, s \in m.st \cup l.st : r.id = s.id => r = s
        /\ \A k \in LocalInit : {r.id : r \in m.df} \cap {r.id : r \in k.df} = {}
        /\ \A r \in l.df : r.st = 0 \/ r.st \in {s.id : s \in l.st}

Tables == <<"df", "bin", "st">>     \* in the order of tbNames

VARIABLES
    now,        \* the newest id
    master,     \* its tables
    log,        \* its sql_log, a set of rows
    req,        \* its request: statements to do, and done but not logged
    slave,      \* its tables
    pc,         \* off, copy, listen, error
    aop,        \* the section id
    at,         \* the table that is copied, and the last id of it
    page,       \* its rows that were fetched and are not yet inserted
    whole,      \* the last copy begun is finished
    lastId,     \* the last id of the log
    queue,      \* rows of sql_log that have not run
    load,       \* downloads: blocks at the temporary path, tries, and the md5
                \* whose file is in place
    count       \* copies begun and faults so far

masters == <<master, log, req>>
vars == <<now, masters, slave, pc, aop, at, page, whole, lastId, queue, load, count>>

NoRequest == [todo |-> <<>>, done |-> <<>>, auto |-> FALSE]
NoLoad    == [part |-> [x \in Md5 |-> 0], tries |-> 0, ready |-> {}]
Ids(rows) == {r.id : r \in rows}
Own       == Ids(UNION {l.df : l \in LocalInit})

Init ==
    /\ now = FirstId
    /\ \E m \in MasterInit, l \in LocalInit :
          /\ master = [df |-> m.df, bin |-> {}, st |-> m.st]
          /\ slave  = [df |-> l.df, bin |-> {}, st |-> l.st]
    /\ log = {} /\ req = NoRequest
    /\ pc = "off" /\ aop = 0 /\ at = [table |-> 1, last |-> 0] /\ page = {}
    /\ whole = FALSE /\ lastId = 0 /\ queue = {} /\ load = NoLoad
    /\ count = [sync |-> 0, fault |-> 0]

(***************************************************************************)
(* Tables and statements.                                                  *)
(***************************************************************************)
Current(T, parent, name) ==
    {r \in T.df : r.parent = parent /\ r.name = name /\ ~r.hist /\ ~r.trash}

\* The index idx_name.
NamesUnique(T) ==
    \A r \in T.df : r.parent # 0 => Cardinality(Current(T, r.parent, r.name)) <= 1

\* update dfs_file set ... where ...
Update(T, which, change(_)) ==
    [T EXCEPT !.df = {IF r \in which THEN change(r) ELSE r : r \in @}]

ById(T, id) == {r \in T.df : r.id = id}
SetHistory(T, which) == Update(T, which, LAMBDA r : [r EXCEPT !.hist = TRUE])

Effect(T, s) ==
    CASE s.op = "storage" -> [T EXCEPT !.st = @ \cup {s.row}]
      [] s.op = "file"    -> [T EXCEPT !.df = @ \cup {s.row}]
      [] s.op = "history" -> SetHistory(T, ById(T, s.on))
      [] s.op = "rename"  -> Update(T, ById(T, s.on), LAMBDA r : [r EXCEPT !.name = s.name])
      [] s.op = "trash"   -> Update(T, {r \in T.df : ~r.trash /\ \E x \in ById(T, s.on) :
                                           r.parent = x.parent /\ r.name = x.name},
                                    LAMBDA r : [r EXCEPT !.trash = TRUE])
      [] s.op = "bin"     -> [T EXCEPT !.bin = @ \cup ById(T, s.on)]
      [] s.op = "delete"  -> [T EXCEPT !.df = @ \ ById(T, s.on)]

Effects(T, batch) == FoldLeft(Effect, T, batch)

\* The keys and the index allow it.
Allowed(T, s) ==
    /\ s.op = "storage" => s.row.id \notin Ids(T.st)
    /\ s.op = "file"    => s.row.id \notin Ids(T.df)
    /\ s.op = "bin"     => ById(T, s.on) = {} \/ s.on \notin Ids(T.bin)
    /\ NamesUnique(Effect(T, s))

(***************************************************************************)
(* Requests of the master, one at a time: AddFolder, AddFile, Rename and   *)
(* SetDelete in a transaction, the purge by the timer statement by         *)
(* statement.  The rows of the log follow the commit.                      *)
(***************************************************************************)
Begin(statements, auto, ids) ==
    /\ req = NoRequest /\ now + ids <= MaxId
    /\ now' = now + ids
    /\ req' = [todo |-> statements, done |-> <<>>, auto |-> auto]
    /\ UNCHANGED <<master, log, slave, pc, aop, at, page, whole, lastId, queue, load, count>>

Row(id, parent, name, st) ==
    [id |-> id, parent |-> parent, name |-> name, st |-> st, hist |-> FALSE, trash |-> FALSE]
Folders == {0} \cup Ids({r \in master.df : r.st = 0 /\ ~r.trash})

AddFolder(p, n) ==
    /\ p \in Folders /\ Current(master, p, n) = {}
    /\ Begin(<<[op |-> "file", row |-> Row(now + 1, p, n, 0)]>>, FALSE, 1)

AddFile(p, n, x) ==
    LET old   == Current(master, p, n)
        known == {s \in master.st : s.md5 = x}
        st    == IF known = {} THEN now + 1 ELSE (CHOOSE s \in known : TRUE).id
    IN  /\ p \in Folders /\ \A r \in old : r.st # st
        /\ Begin((IF known = {} THEN <<[op |-> "storage", row |-> [id |-> st, md5 |-> x]]>>
                                ELSE <<>>)
                 \o (IF old = {} THEN <<>>
                     ELSE <<[op |-> "history", on |-> (CHOOSE r \in old : TRUE).id]>>)
                 \o <<[op |-> "file", row |-> Row(now + 2, p, n, st)]>>, FALSE, 2)

\* The names that files have had.
Given == {r.name : r \in UNION {m.df : m \in MasterInit}}
         \cup {s.sql.row.name : s \in {s \in log : s.sql.op = "file"}}
         \cup {s.sql.name : s \in {s \in log : s.sql.op = "rename"}}

Rename(r, n) ==
    /\ r \in Current(master, r.parent, r.name) /\ Current(master, r.parent, n) = {}
    /\ "names" \in Calm => n \notin Given
    /\ Begin(<<[op |-> "rename", on |-> r.id, name |-> n]>>, FALSE, 0)

SetDelete(r) ==
    /\ r \in Current(master, r.parent, r.name)
    /\ Begin(<<[op |-> "trash", on |-> r.id]>>, FALSE, 0)

Purge(r) ==
    /\ r.trash /\ r.st # 0 /\ ("purge" \in Calm => pc # "copy")
    /\ Begin(<<[op |-> "bin", on |-> r.id], [op |-> "delete", on |-> r.id]>>, TRUE, 0)

\* A commit: of all statements, or of the next one.
Commit ==
    /\ req.todo # <<>> /\ req.done = <<>>
    /\ LET n == IF req.auto THEN 1 ELSE Len(req.todo)
           batch == SubSeq(req.todo, 1, n)
       IN  /\ master' = Effects(master, batch)
           /\ req' = [req EXCEPT !.todo = SubSeq(@, n + 1, Len(@)), !.done = batch]
    /\ UNCHANGED <<now, log, slave, pc, aop, at, page, whole, lastId, queue, load, count>>

LogNext ==
    /\ req.done # <<>> /\ now < MaxId
    /\ now' = now + 1
    /\ log' = log \cup {[id |-> now', sql |-> Head(req.done)]}
    /\ req' = IF req.todo = <<>> /\ Len(req.done) = 1 THEN NoRequest
              ELSE [req EXCEPT !.done = Tail(@)]
    /\ UNCHANGED <<master, slave, pc, aop, at, page, whole, lastId, queue, load, count>>

(***************************************************************************)
(* What the slave does to a row before it is inserted.  Each operator      *)
(* gives the set of outcomes: the tables, and the row; none is a panic.    *)
(***************************************************************************)
Outcome(T, r) == [T |-> T, r |-> r]

\* Mutant: the folder goes, and what is in it stays.
MergeNothing(T, r, e) == [T EXCEPT !.df = @ \ {e}]

\* Two folders of one name: what is in the local one moves to the master's.
Merge(T, r, e) ==
    [T EXCEPT !.df = {IF x.parent = e.id THEN [x EXCEPT !.parent = r.id] ELSE x : x \in @ \ {e}}]

\* Mutant: the local file is always the older one.
AlwaysOlder(T, r) ==
    UNION {CASE r.st = 0 /\ e.st = 0 -> {Outcome(Merge(T, r, e), r)}
             [] r.st # 0 /\ e.st # 0 -> {Outcome(SetHistory(T, {e}), r)}
             [] OTHER -> {}
           : e \in {x \in Current(T, r.parent, r.name) : x.id # r.id}}

\* DfsFileSyncHandle.ByTable, where another row has the name.
FileByTable(T, r) ==
    UNION {CASE r.st = 0 /\ e.st = 0 -> {Outcome(Merge(T, r, e), r)}
             [] r.st # 0 /\ e.st # 0 ->
                   {IF r.id > e.id THEN Outcome(SetHistory(T, {e}), r)
                                   ELSE Outcome(T, [r EXCEPT !.hist = TRUE])}
             [] OTHER -> {}
           : e \in {x \in Current(T, r.parent, r.name) : x.id # r.id}}

\* DfsFileSyncHandle.ByLog: no row has the id yet; the statement that should
\* make the older row of the master history cannot run.
FileByLog(T, r) ==
    UNION {CASE r.st = 0 /\ e.st = 0 -> {Outcome(Merge(T, r, e), r)}
             [] r.st # 0 /\ e.st # 0 /\ r.id > e.id -> {Outcome(SetHistory(T, {e}), r)}
             [] OTHER -> {}
           : e \in Current(T, r.parent, r.name)}

\* Mutant: what refers to the stored file keeps its id.
NotRepointed(T, r) ==
    [T EXCEPT !.st = {s \in @ : s.md5 # r.md5 \/ s.id = r.id}]

\* StorageFileSyncHandle.download: the slave has the file under another id.
Repoint(T, r) ==
    LET old == {s \in T.st : s.md5 = r.md5 /\ s.id # r.id}
    IN  [T EXCEPT !.st = @ \ old,
                  !.df = {IF x.st \in Ids(old) THEN [x EXCEPT !.st = r.id] ELSE x : x \in @}]

\* Mutant: the row that is there is left beside the new one.
PutBeside(before, o, tb) ==
    IF IgnoreSyncError THEN {[o.T EXCEPT ![tb] = @ \cup {o.r}]} ELSE {}

\* insertData: the row that is there is compared, and replaced only when
\* errors are to be ignored.
Put(before, o, tb) ==
    LET there == {x \in before[tb] : x.id = o.r.id}
        kept  == {x \in o.T[tb] : x.id # o.r.id}
    IN  CASE o.r \in there -> {o.T}
          [] o.r \notin there /\ there # {} /\ ~IgnoreSyncError -> {}
          [] OTHER -> {[o.T EXCEPT ![tb] = kept \cup {o.r}]}

Insert(T, tb, r) ==
    LET handled == CASE tb = "df" /\ \E e \in Current(T, r.parent, r.name) : e.id # r.id
                          -> FileByTable(T, r)
                     [] tb = "st" -> {Outcome(Repoint(T, r), r)}
                     [] OTHER -> {Outcome(T, r)}
    IN  {U \in UNION {Put(T, o, tb) : o \in handled} : NamesUnique(U)}

\* One row of the log: ByLog, then its statement.
Replay(T, s) ==
    LET handled == CASE s.op = "file" /\ Current(T, s.row.parent, s.row.name) # {}
                          -> {o.T : o \in FileByLog(T, s.row)}
                     [] s.op = "storage" -> {Repoint(T, s.row)}
                     [] OTHER -> {T}
    IN  {Effect(U, s) : U \in {U \in handled : Allowed(U, s)}}

(***************************************************************************)
(* SyncAll.                                                                *)
(***************************************************************************)
Fail ==
    /\ pc' = "error" /\ page' = {}
    /\ load' = [load EXCEPT !.tries = 0, !.ready = {}]

\* order by id limit Page, and the row whose turn it is.
FirstOf(rows) == {r \in rows : Cardinality({s \in rows : s.id < r.id}) < Page}
Oldest(rows)  == {r \in rows : \A s \in rows : r.id <= s.id}

News == {s \in log : s.id > lastId}
DeletesLeft == \E s \in queue \cup News : s.sql.op = "delete"

\* The section id is taken from the master before anything is copied.
SyncAll ==
    /\ pc # "copy" /\ count.sync < MaxSync /\ now < MaxId
    /\ "section" \in Calm => req = NoRequest
    /\ "deletes" \in Calm => ~DeletesLeft
    /\ now' = now + 1 /\ aop' = now'
    /\ pc' = "copy" /\ at' = [table |-> 1, last |-> 0] /\ page' = {}
    /\ whole' = FALSE
    /\ count' = [count EXCEPT !.sync = @ + 1]
    /\ UNCHANGED <<masters, slave, lastId, queue, load>>

TableName == Tables[at.table]
Rest      == {r \in master[TableName] : r.id > at.last /\ r.id < aop}

\* getTableData: a page of rows by id.
GetTableData ==
    /\ pc = "copy" /\ page = {} /\ Rest # {}
    /\ page' = FirstOf(Rest)
    /\ at' = [at EXCEPT !.last = Max(Ids(page'))]
    /\ UNCHANGED <<now, masters, slave, pc, aop, whole, lastId, queue, load, count>>

\* Mutant: the next table is read from the last id of this one.
NextKeepsLast ==
    /\ pc = "copy" /\ page = {} /\ Rest = {} /\ at.table < Len(Tables)
    /\ at' = [at EXCEPT !.table = @ + 1]
    /\ UNCHANGED <<now, masters, slave, pc, aop, page, whole, lastId, queue, load, count>>

NextTable ==
    /\ pc = "copy" /\ page = {} /\ Rest = {} /\ at.table < Len(Tables)
    /\ at' = [table |-> at.table + 1, last |-> 0]
    /\ UNCHANGED <<now, masters, slave, pc, aop, page, whole, lastId, queue, load, count>>

\* The md5 of the storage row whose turn it is, when its file is not here.
StorageTurn ==
    CASE pc = "copy" /\ TableName = "st" -> Oldest(page)
      [] pc = "listen" -> {s.sql.row : s \in {s \in Oldest(queue) : s.sql.op = "storage"}}
      [] OTHER -> {}
Wanted == {r.md5 : r \in StorageTurn} \ (load.ready \cup {s.md5 : s \in slave.st})

InsertRow ==
    /\ pc = "copy" /\ Wanted = {}
    /\ \E r \in Oldest(page) :
          LET after == Insert(slave, TableName, r)
          IN  IF after = {} THEN Fail /\ UNCHANGED slave
              ELSE /\ slave' \in after
                   /\ page' = page \ {r}
                   /\ load' = [load EXCEPT !.ready = {}]
                   /\ UNCHANGED pc
    /\ UNCHANGED <<now, masters, aop, at, whole, lastId, queue, count>>

\* Mutant: the log goes on from where it was.
FinishOnly ==
    /\ pc = "copy" /\ page = {} /\ Rest = {} /\ at.table = Len(Tables)
    /\ whole' = TRUE /\ pc' = "listen"
    /\ UNCHANGED <<now, masters, slave, aop, at, page, lastId, queue, load, count>>

\* The rows of the log up to the section are dropped, the rest is asked for.
Finish ==
    /\ pc = "copy" /\ page = {} /\ Rest = {} /\ at.table = Len(Tables)
    /\ queue' = {s \in queue : s.id >= aop}
    /\ lastId' = aop
    /\ whole' = TRUE /\ pc' = "listen"
    /\ UNCHANGED <<now, masters, slave, aop, at, page, load, count>>

(***************************************************************************)
(* SyncDownloadUtil.Download: the file grows at the temporary path, from   *)
(* where the last attempt left it, and is moved when it is complete.       *)
(***************************************************************************)
Receive ==
    \E x \in Wanted :
        /\ load.part[x] < Blocks
        /\ load' = [load EXCEPT !.part[x] = @ + 1]
        /\ UNCHANGED <<now, masters, slave, pc, aop, at, page, whole, lastId, queue, count>>

\* The end of the body, or 416 where nothing is missing.
Received ==
    \E x \in Wanted :
        /\ load.part[x] = Blocks
        /\ load' = [part |-> [load.part EXCEPT ![x] = 0], tries |-> 0, ready |-> {x}]
        /\ UNCHANGED <<now, masters, slave, pc, aop, at, page, whole, lastId, queue, count>>

Faulty == count.fault < MaxFault /\ count' = [count EXCEPT !.fault = @ + 1]

ReadError ==
    /\ Wanted # {} /\ Faulty
    /\ IF load.tries < MaxRetry
       THEN load' = [load EXCEPT !.tries = @ + 1] /\ UNCHANGED <<pc, page>>
       ELSE Fail
    /\ UNCHANGED <<now, masters, slave, aop, at, whole, lastId, queue>>

(***************************************************************************)
(* The log: GetLog from lastId, and runSql.                                *)
(***************************************************************************)
RequestLog ==
    /\ pc = "listen" /\ News # {}
    /\ queue' = queue \cup FirstOf(News)
    /\ lastId' = Max(Ids(FirstOf(News)))
    /\ UNCHANGED <<now, masters, slave, pc, aop, at, page, whole, load, count>>

RunSql ==
    /\ pc = "listen" /\ Wanted = {}
    /\ \E s \in Oldest(queue) :
          LET after == Replay(slave, s.sql)
          IN  IF after = {} THEN Fail /\ UNCHANGED <<slave, queue>>
              ELSE /\ slave' \in after
                   /\ queue' = queue \ {s}
                   /\ load' = [load EXCEPT !.ready = {}]
                   /\ UNCHANGED <<pc, page>>
    /\ UNCHANGED <<now, masters, aop, at, whole, lastId, count>>

\* The operator starts the listener again.
ListenAll ==
    /\ pc = "error" /\ pc' = "listen"
    /\ UNCHANGED <<now, masters, slave, aop, at, page, whole, lastId, queue, load, count>>

(***************************************************************************)
(* Faults: the master does not answer, or is synchronising itself; the     *)
(* slave stops, and listens when it starts again.                          *)
(***************************************************************************)
NoAnswer ==
    /\ pc = "copy" /\ page = {} /\ Faulty
    /\ Fail
    /\ UNCHANGED <<now, masters, slave, aop, at, whole, lastId, queue>>

Crash ==
    /\ pc # "off" /\ Faulty
    /\ pc' = "listen" /\ page' = {}
    /\ load' = [load EXCEPT !.tries = 0, !.ready = {}]
    /\ UNCHANGED <<now, masters, slave, aop, at, whole, lastId, queue>>

Next ==
    \/ \E p \in Folders, n \in FolderName : AddFolder(p, n)
    \/ \E p \in Folders, n \in FileName, x \in Md5 : AddFile(p, n, x)
    \/ \E r \in master.df : SetDelete(r) \/ Purge(r)
    \/ \E r \in master.df, n \in NewName : r.st # 0 /\ Rename(r, n)
    \/ Commit \/ LogNext
    \/ SyncAll \/ GetTableData \/ NextTable \/ InsertRow \/ Finish
    \/ Receive \/ Received \/ ReadError
    \/ RequestLog \/ RunSql \/ ListenAll
    \/ NoAnswer \/ Crash

Spec == Init /\ [][Next]_vars

(***************************************************************************)
(* Properties.                                                             *)
(***************************************************************************)
RowType == [id : 1..MaxId, parent : 0..MaxId, name : FileName \cup FolderName \cup NewName,
            st : 0..MaxId, hist : BOOLEAN, trash : BOOLEAN]

TypeOK ==
    /\ \A T \in {master, slave} :
          /\ T.df \subseteq RowType /\ T.bin \subseteq RowType
          /\ T.st \subseteq [id : 1..MaxId, md5 : Md5]
          /\ Cardinality(Ids(T.df)) = Cardinality(T.df)
    /\ pc \in {"off", "copy", "listen", "error"}
    /\ load.part \in [Md5 -> 0..Blocks] /\ load.tries \in 0..MaxRetry
    /\ load.ready \subseteq Md5

\* Nothing is left to fetch or to run, and the master is at rest.
Settled ==
    /\ pc = "listen" /\ whole /\ queue = {} /\ News = {} /\ req = NoRequest

Md5Of(T, r) == {s.md5 : s \in {s \in T.st : s.id = r.st}}

\* A row of the master and what the slave makes of it: a file that is older
\* than one of the slave's own may be history there.
Mirrors(r, s) ==
    /\ <<s.id, s.parent, s.name, s.trash>> = <<r.id, r.parent, r.name, r.trash>>
    /\ Md5Of(slave, s) = Md5Of(master, r)
    /\ r.hist => s.hist
    /\ (s.hist /\ ~r.hist) => \E o \in slave.df : o.id \in Own /\ o.id > s.id

\* The copy and the rows of the log after the section together make what the
\* master has, although the master went on writing while it was copied: no
\* row is missed, none is there that the master has deleted.
Converged ==
    Settled =>
        /\ \A r \in master.df : \E s \in slave.df : Mirrors(r, s)
        /\ Ids(slave.df) \subseteq Ids(master.df) \cup Own
        /\ Ids(slave.bin) = Ids(master.bin)

\* After a finished copy no row of the log is one that can never run: the
\* section id tells what was copied from what is still to be replayed
\* (SyncByTable.go:68).
LogCanRun == (pc = "listen" /\ whole /\ Wanted = {})
                => \A s \in Oldest(queue) : Replay(slave, s.sql) # {}

\* What is in the folders of the slave is still in a folder when its own
\* folders have been merged with those of the master.
ParentsExist ==
    Settled => \A s \in slave.df : s.parent # 0 => s.parent \in Ids(slave.df)

FoldersOf(T) == {r \in T.df : r.st = 0}
Beside(e, r) == e.parent = r.parent /\ e.name = r.name

\* Every row lies in a folder that is older, and of the folders of one name
\* all but the newest are deleted.
Tree(T) ==
    /\ \A r \in T.df : /\ r.st = 0 <=> r.name \in FolderName
                       /\ r.parent = 0 \/ r.parent \in Ids(FoldersOf(T))
                       /\ r.parent < r.id
                       /\ r.st = 0 => ~r.hist
    /\ \A e, r \in FoldersOf(T) : Beside(e, r) /\ e.id < r.id => e.trash

\* What the tables are at first, for the proof that ParentsExist holds.  Where
\* a deleted folder of the master is newer than the current one of its name,
\* ByTable merges the current one into it (DfsFileSyncHandle.go:47 reads no
\* deleteDate), and what comes later lies in no folder.
Tidy ==
    \A m \in MasterInit, l \in LocalInit :
        /\ Tree(m)
        /\ \A r \in l.df : r.parent = 0 \/ r.parent \in Ids(FoldersOf(l))

\* Of two files of one name the newer one is current, whichever server it
\* is from, and whatever the order of their rows (DfsFileSyncHandle.go:45).
NewestIsCurrent ==
    \A r, s \in slave.df :
        (/\ <<r.parent, r.name>> = <<s.parent, s.name>>
         /\ r.st # 0 /\ s.st # 0 /\ r.parent # 0
         /\ ~r.trash /\ ~s.trash /\ ~r.hist) => s.id <= r.id

\* No step of a synchronisation takes a file of the slave's own away, or
\* gives it other contents, when folders are merged, rows replaced and
\* stored files brought under the ids of the master.
OwnFilesKept ==
    [][\A s \in slave.df : (s.id \in Own /\ s.st # 0) =>
          \E t \in slave'.df : /\ t.id = s.id
                               /\ Md5Of(slave', t) = Md5Of(slave, s)]_vars
=============================================================================
