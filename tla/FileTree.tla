------------------------------ MODULE FileTree ------------------------------
(***************************************************************************)
(* The users' trees of files under concurrent requests, the timer that     *)
(* empties the recycle bin, the worker that adds extra files, and crashes. *)
(*                                                                         *)
(* A request is two steps.  BeginCall is the moment of its reads before    *)
(* the first write; EndCall is everything from the first write to the      *)
(* commit, under SQLite's write lock.  The timer and the worker run        *)
(* without a transaction: each of their writes is a step of its own.       *)
(***************************************************************************)
EXTENDS DfsFile

CONSTANTS
    Users,      \* users are 1..Users; the root of user u is row u
    Client,     \* the goroutines that serve requests
    Request,    \* what the clients may ask for
    Depth,      \* bound on the length of a path
    MaxRow,     \* bound on row ids
    MaxClock,   \* bound on the number of deletions
    HasTimer,   \* whether the timer runs
    MaxHandled, \* bound on the files that the worker has handled
    MaxCrash    \* bound on the crashes

ASSUME UsersAssumption == Users \in Nat \ {0} /\ Users <= MaxRow
ASSUME BoundAssumption == {Depth, MaxRow, MaxClock, MaxHandled, MaxCrash} \subseteq Nat
ASSUME FlagAssumption == HasTimer \in BOOLEAN
\* What a client may ask for: nothing about a root itself, whose path is empty.
Path == Seq(Name) \ {<<>>}
ASSUME RequestAssumption ==
    \A r \in Request :
        /\ r.user \in 1..Users
        /\ \/ r.op \in {"ByMd5", "Upload"} /\ r.path \in Path /\ r.content \in Content
           \/ r.op = "CreateFolder" /\ r.path \in Path
           \/ r.op = "Rename" /\ r.path \in Path /\ r.name \in Name
           \/ r.op \in {"Copy", "Move"} /\ r.paths \in Seq(Path) /\ r.folder \in Seq(Name)
              /\ r.over \in BOOLEAN
           \/ r.op = "SaveTo" /\ r.sharer \in 1..Users /\ r.paths \in Seq(Path)
              /\ r.folder \in Seq(Name)
           \/ r.op = "Delete" /\ r.paths \in Seq(Path)
           \/ r.op \in {"DeleteByIds", "TrashRecover", "LogicDelete"} /\ r.count \in Nat
\* Nothing that is asked for is taken for no call.
ASSUME NoCallAssumption ==
    None \notin Request \cup [op: {"DeleteByIds", "TrashRecover", "LogicDelete"},
                              user: 1..Users, ids: Seq(Nat)]

VARIABLES
    file,    \* the table dfs_file
    bin,     \* the ids in the table dfs_file_delete
    next,    \* the next id of Number.ID
    clock,   \* the time of the last deletion
    call,    \* call[c]: the request client c's goroutine works on, or None
    seen,    \* seen[c]: the table as it read it before its first write
    batch,   \* deleteIdsList: what the timer still has to delete
    work,    \* the frames of deleteFolder, innermost first
    job,     \* the id and the user of the row the worker handles, or None
    crashes  \* the crashes so far

durable == <<file, bin, next, clock>>
calls   == <<call, seen>>
timer   == <<batch, work>>
vars    == <<durable, calls, timer, job, crashes>>

Init ==
    /\ file = [u \in 1..Users |-> FolderRow(u, 0, None)]
    /\ bin = {}
    /\ next = Users + 1
    /\ clock = 0
    /\ call = [c \in Client |-> None]
    /\ seen = [c \in Client |-> <<>>]
    /\ batch = {} /\ work = <<>>
    /\ job = None
    /\ crashes = 0

(***************************************************************************)
(* Requests.                                                               *)
(***************************************************************************)
\* The results the request r may have in transaction t.
Results(t, r) ==
    CASE r.op = "ByMd5"        -> {AddAtPath(t, r.user, r.user, r.path, r.content, TRUE)}
      \* The row of a new storage file is written first.
      [] r.op = "Upload"       -> {AddAtPath([t EXCEPT !.wrote = TRUE], r.user, r.user, r.path, r.content, TRUE)}
      [] r.op = "CreateFolder" -> {CreateFolder(t, r.user, r.path)}
      [] r.op = "Rename"       -> {Rename(t, r.user, r.path, r.name)}
      [] r.op = "Copy"         -> Copy(t, r.user, r.paths, r.folder, r.over, Depth)
      [] r.op = "Move"         -> Move(t, r.user, r.paths, r.folder, r.over, Depth)
      [] r.op = "SaveTo"       -> ShareSaveTo(t, r.sharer, r.user, r.paths, r.folder, Depth)
      [] r.op = "Delete"       -> {DeleteByPath(t, r.user, r.paths)}
      [] r.op = "DeleteByIds"  -> {DeleteById(t, r.user, r.ids)}
      [] r.op = "TrashRecover" -> {TrashRecover(t, r.user, r.ids)}
      [] r.op = "LogicDelete"  -> {LogicDelete(t, r.user, r.ids)}

\* The ids a client picks from the list it was shown, at most r.count.
Picks(r) ==
    LET shown == IF r.op = "DeleteByIds"
                 THEN {i \in DOMAIN file : /\ Current(file[i]) /\ file[i].user = r.user
                                           /\ ~IsFolder(file[i]) /\ ~file[i].extra}
                 ELSE SelectDelete(file, r.user)
    IN  UNION {SetToSeqs(some) : some \in {s \in SUBSET shown : Cardinality(s) \in 1..r.count}}

Filled(r) ==
    IF r.op \in {"DeleteByIds", "TrashRecover", "LogicDelete"}
    THEN {[op |-> r.op, user |-> r.user, ids |-> ids] : ids \in Picks(r)}
    ELSE {r}

\* The rows from row i up to its root, as far as there are rows.
Above(db, i) ==
    LET up[k \in Nat] == IF k = 0 THEN i ELSE Row(db, up[k - 1]).parent
    IN  {up[k] : k \in 0..Depth + 2} \cap DOMAIN db

\* The bounds on what requests may build.
Bounded(t) ==
    /\ t.next <= MaxRow + 1
    /\ \A i \in DOMAIN t.db : t.db[i].extra \/ Cardinality(Above(t.db, i)) <= Depth + 1

\* Clients ask for what would succeed, and change something, if nobody else
\* were at work.
Sensible(r) ==
    \E t \in Results(Transaction(file, file, bin, next, clock + 1), r) :
        /\ ~t.failed
        /\ t.db # file
        /\ Bounded(t)

BeginCall(c) ==
    /\ call[c] = None
    /\ \E r \in Request : \E filled \in Filled(r) :
          /\ Sensible(filled)
          /\ call' = [call EXCEPT ![c] = filled]
    /\ seen' = [seen EXCEPT ![c] = file]
    /\ UNCHANGED <<durable, timer, job, crashes>>

\* Commit, or roll back after a panic.
EndCall(c) ==
    /\ call[c] # None
    /\ \E t \in Results(Transaction(seen[c], file, bin, next, clock + 1), call[c]) :
          /\ Bounded(t)
          /\ next' = t.next
          /\ IF t.failed THEN UNCHANGED <<file, bin>> ELSE file' = t.db /\ bin' = t.bin
    /\ clock' = IF \E i \in DOMAIN file' : file'[i].trashed > clock THEN clock + 1 ELSE clock
    /\ clock' <= MaxClock
    /\ call' = [call EXCEPT ![c] = None]
    /\ seen' = [seen EXCEPT ![c] = <<>>]
    /\ UNCHANGED <<timer, job, crashes>>

(***************************************************************************)
(* The timer: deleteTrashTimeout.                                          *)
(***************************************************************************)
Idle == batch = {} /\ work = <<>>

\* Time passes unseen: anything deleted before some moment has expired.
TimerSelect ==
    /\ HasTimer /\ Idle
    /\ \E time \in 2..clock + 1 :
          /\ SelectIdsByDeleteAndTimeout(file, time) # {}
          /\ batch' = SelectIdsByDeleteAndTimeout(file, time)
    /\ UNCHANGED <<durable, calls, work, job, crashes>>

\* AddDelete takes the next id.
TimerTake ==
    /\ batch # {} /\ work = <<>>
    /\ work' = <<FirstFrame(file, Min(batch))>>
    /\ batch' = batch \ {Min(batch)}
    /\ UNCHANGED <<durable, calls, job, crashes>>

TimerDescend ==
    /\ Descends(work)
    /\ work' = Descend(file, work)
    /\ UNCHANGED <<durable, calls, batch, job, crashes>>

\* DfsFileDeleteDao.Insert; when it fails the whole run of the timer ends.
TimerInsert ==
    /\ Inserts(work)
    /\ LET i == Head(work).id
       IN  IF i \in DOMAIN file /\ i \in bin
           THEN batch' = {} /\ work' = <<>> /\ UNCHANGED bin
           ELSE /\ bin' = bin \cup ({i} \cap DOMAIN file)
                /\ work' = Binned(work)
                /\ UNCHANGED batch
    /\ UNCHANGED <<file, next, clock, calls, job, crashes>>

TimerRemove ==
    /\ Removes(work)
    /\ file' = [j \in DOMAIN file \ {Head(work).id} |-> file[j]]
    /\ work' = Tail(work)
    /\ UNCHANGED <<bin, next, clock, calls, batch, job, crashes>>

(***************************************************************************)
(* The worker: handle.                                                     *)
(***************************************************************************)
WorkerSelect ==
    /\ job = None
    /\ Cardinality({i \in DOMAIN file : ~file[i].extra /\ file[i].state # 0}) < MaxHandled
    /\ \E i \in SelectNoHandle(file) : job' = [id |-> i, user |-> file[i].user]
    /\ UNCHANGED <<durable, calls, timer, crashes>>

\* makeThumb: a thumb that exists is kept, but the file is not read again.
WorkerAddExtra ==
    /\ job # None
    /\ next <= MaxRow
    /\ \A i \in SelectExtraListById(file, job.id) : file[i].name # ExtraName
    /\ LET row == [FileRow(job.user, job.id, ExtraName, ExtraData) EXCEPT !.extra = TRUE,
                                                                         !.state = 1]
       IN  /\ NamesAreUnique(With(file, next, row))
           /\ file' = With(file, next, row)
    /\ next' = next + 1
    /\ UNCHANGED <<bin, clock, calls, timer, job, crashes>>

\* SetState, whether or not there was something to add: 2 after a panic, of
\* a program that makes the extra file or of the index.
WorkerSetState ==
    /\ job # None
    /\ \E s \in {1, 2} :
          file' = [i \in DOMAIN file |-> IF i = job.id THEN [file[i] EXCEPT !.state = s] ELSE file[i]]
    /\ job' = None
    /\ UNCHANGED <<bin, next, clock, calls, timer, crashes>>

Crash ==
    /\ crashes < MaxCrash
    /\ crashes' = crashes + 1
    /\ call' = [c \in Client |-> None]
    /\ seen' = [c \in Client |-> <<>>]
    /\ batch' = {} /\ work' = <<>> /\ job' = None
    /\ UNCHANGED durable

Next ==
    \/ \E c \in Client : BeginCall(c) \/ EndCall(c)
    \/ TimerSelect \/ TimerTake \/ TimerDescend \/ TimerInsert \/ TimerRemove
    \/ WorkerSelect \/ WorkerAddExtra \/ WorkerSetState
    \/ Crash

Spec == Init /\ [][Next]_vars

(***************************************************************************)
(* Properties.                                                             *)
(***************************************************************************)
\* Types: tables have rows of users below MaxRow, requests have a snapshot,
\* the timer's frames are closed inside out (RecycleStorageTimer.go:76).
TypeOK ==
    /\ DOMAIN file \subseteq 1..MaxRow /\ bin \subseteq 1..MaxRow
    /\ next \in Users + 1..MaxRow + 1 /\ clock \in 0..MaxClock
    /\ \A i \in DOMAIN file :
          /\ i < next
          /\ file[i].user \in 1..Users
          /\ file[i].parent \in 0..next - 1
          /\ file[i].trashed \in 0..clock
          /\ (IsFolder(file[i]) => ~file[i].history /\ ~file[i].extra)
    /\ \A c \in Client : call[c] = None => seen[c] = <<>>
    /\ work # <<>> => HasTimer
    /\ crashes \in 0..MaxCrash

\* Every row lies in a folder of its own user, whether or not it is current,
\* and only roots and extra files do not: "parent directory id" of
\* dfs_file.sql.  A row without one can never be found again.
ParentIsFolder ==
    \A i \in DOMAIN file :
        \/ file[i].extra
        \/ file[i].parent = 0 /\ file[i].name = None
        \/ /\ file[i].parent \in DOMAIN file
           /\ IsFolder(file[file[i].parent])
           /\ file[file[i].parent].user = file[i].user

\* An extra file belongs to a file that is there: otherwise no purge ever
\* reaches it and its storage stays in use.
ExtraHasOwner ==
    \A i \in DOMAIN file :
        file[i].extra => /\ file[i].parent \in DOMAIN file
                         /\ ~IsFolder(file[file[i].parent])

\* The versions of a file that an overwrite keeps stay with it: a history
\* row that is not in the recycle bin has a current row beside it.
HistoryHasCurrent ==
    \A h \in DOMAIN file :
        file[h].history /\ file[h].trashed = 0 =>
            \E i \in Versions(file, h) : Current(file[i])

\* What one deletion put into the recycle bin can be restored as one: it
\* holds at most one row that becomes current again.
OneCurrentPerGrave ==
    \A i, j \in DOMAIN file :
        /\ j \in Versions(file, i)
        /\ file[i].trashed # 0 /\ file[j].trashed = file[i].trashed
        /\ ~file[i].history /\ ~file[j].history
        => i = j

\* Only what lies in the recycle bin, or below a folder that does, is ever
\* deleted for good.
PurgedWasTrashed ==
    [][\A i \in bin' \ bin : \E k \in Above(file, i) : file[k].trashed # 0]_vars

\* Without the timer, a user's rows leave the table by that user's requests.
OwnRowsOnly ==
    [][\A i \in DOMAIN file \ DOMAIN file' :
          \E c \in Client : call[c] # None /\ call[c].user = file[i].user]_vars

\* The timer has left a row in both tables: a crash came between the two
\* halves of addDelete, and every later run of the timer fails at that row.
HalfDeleted == work = <<>> /\ bin \cap DOMAIN file # {}

\* What lies in the recycle bin is gone in the end, whatever requests, the
\* worker and crashes do in between, unless a crash has left a row half
\* deleted (DfsFileDeleteService.go:64).
\* Weak fairness of the timer's steps: nothing else disables them for good.
TimerNext == TimerTake \/ TimerDescend \/ TimerInsert \/ TimerRemove
FairSpec ==
    /\ Spec
    /\ WF_vars(TimerNext)
    /\ SF_vars(TimerSelect)
ExpiredGetsPurged ==
    \A i \in 1..MaxRow :
        (i \in DOMAIN file /\ file[i].trashed # 0)
            ~> (i \notin DOMAIN file \/ HalfDeleted)

(***************************************************************************)
(* The rows as a name space: what the paths of a user find.                *)
(***************************************************************************)
\* The names from the root down to row i: whatever path finds it is this one.
PathOf(i) ==
    LET path[k \in DOMAIN file] ==
            IF file[k].parent \notin DOMAIN file THEN <<>>
            ELSE Append(path[file[k].parent], file[k].name)
    IN  path[i]

PathsOf(u) ==
    {p \in {PathOf(i) : i \in {j \in DOMAIN file : ~file[j].extra}} :
        p # <<>> /\ SelectIdByPath(file, u, p) # 0}

treeOfPaths ==
    [u \in 1..Users |-> [p \in PathsOf(u) |-> file[SelectIdByPath(file, u, p)].content]]

Names == INSTANCE NameSpace WITH tree <- treeOfPaths

\* Requests change what the paths find as the name space allows: a request
\* that takes many writes, in the order in which Go happens to range over a map
\* (DfsFileService.go:99, 196), has the effect of one step, and nothing but its
\* own subject changes.  So has a request whose look-ups (DfsFileService.go:50)
\* are older than another's commit, if no request moves or renames: it changes
\* what its path finds at its own commit, or fails at idx_name.
ImplementsNameSpace == Names!Spec
=============================================================================
