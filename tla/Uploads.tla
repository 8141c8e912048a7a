------------------------------- MODULE Uploads -------------------------------
(***************************************************************************)
(* The upload of one file, known by its md5: in pieces that can be resumed *)
(* (GetUploadedSize, ByStream, then ByMd5), or whole by a browser          *)
(* (Upload), and the worker that is told of the new entries.               *)
(*                                                                         *)
(* The file is the sequence of its blocks.  A file on disk is an inode:    *)
(* who has opened the temporary file keeps on writing to it after somebody *)
(* else has removed its name.  The program that uploads in pieces is not   *)
(* part of the repository; it asks for the size, sends what is missing,    *)
(* and starts again when it was cut off.                                   *)
(***************************************************************************)
EXTENDS Naturals, Sequences, FiniteSets

CONSTANTS
    Client,     \* those that upload in pieces
    Browser,    \* those that upload with the page
    Go,         \* the goroutines that serve requests
    NoOne,      \* not a goroutine, nor an uploader
    Blocks,     \* the blocks of the file
    MaxInode,   \* bound on the files that something leads to
    MaxBreak,   \* bound on the connections that break
    MaxCrash    \* bound on the crashes

ASSUME UploadersAssumption ==
    Client \cap Browser = {} /\ NoOne \notin Go \cup Client \cup Browser
ASSUME SizeAssumption ==
    /\ Blocks \in Nat \ {0}
    /\ {MaxInode, MaxBreak, MaxCrash} \subseteq Nat

Uploader == Client \cup Browser
Inode    == 1..MaxInode
Whole    == [i \in 1..Blocks |-> i]     \* what has the md5

VARIABLES
    file,       \* file[i]: what is in inode i
    temp,       \* the inode at TEMP_PATH/md5, or 0
    marked,     \* the md5 is a key of uploadingFileMap
    rows,       \* the inodes of the rows of storage_file with the md5, in order
    entry,      \* the rows of dfs_file: whose, and which inode
    handled,    \* those of them with state # 0
    client,     \* client[c]: what c does, from which size, and served by whom
    req,        \* req[g]: the request g serves
    hasData,    \* of the worker
    worker,     \* what it does, and the list it works through
    faults      \* breaks and crashes so far

disk == <<file, temp>>
db   == <<rows, entry, handled>>
vars == <<disk, marked, db, client, req, hasData, worker, faults>>

Idle == [pc |-> "idle", for |-> NoOne, fd |-> 0, next |-> 0, got |-> 0]

Init ==
    /\ file = [i \in Inode |-> <<>>] /\ temp = 0 /\ marked = FALSE
    /\ rows = <<>> /\ entry = {} /\ handled = {}
    /\ client \in [Uploader -> [at : {"ask", "link"}, from : {0}, by : {NoOne}]]
    /\ \A c \in Browser : client[c].at = "ask"
    /\ req = [g \in Go |-> Idle]
    /\ hasData = FALSE
    /\ worker = [pc |-> "wait", list |-> {}]
    /\ faults = [break |-> 0, crash |-> 0]

(***************************************************************************)
(* The uploaders, and what a request does to them.                         *)
(***************************************************************************)
Move(g, p) == req' = [req EXCEPT ![g].pc = p]

\* A request of c at its first step, in a goroutine that is free: they are
\* all alike.
Request(c, p, first) ==
    /\ \E g \in Go : req[g] = Idle
    /\ LET g == CHOOSE g \in Go : req[g] = Idle
       IN  /\ req' = [req EXCEPT ![g] = [Idle EXCEPT !.pc = p, !.for = c, !.next = first]]
           /\ client' = [client EXCEPT ![c].at = "wait", ![c].by = g]

\* The client no longer waits for what g does.
Cut(g) == client[req[g].for].by # g

\* The answer; nobody hears it after a break.
Answer(g, a) ==
    /\ req' = [req EXCEPT ![g] = Idle]
    /\ client' = IF Cut(g) THEN client
                 ELSE [client EXCEPT ![req[g].for] = [at |-> a, from |-> 0, by |-> NoOne]]

Removed == temp' = 0 /\ file' = file

\* An inode that nothing leads to may be taken again.
Used == {temp} \cup {rows[k] : k \in DOMAIN rows}
               \cup {req[g].fd : g \in Go} \cup {req[g].got : g \in Go}
NewInode == CHOOSE i \in Inode \ Used : \A j \in Inode \ Used : i <= j
NewFile(seq) == Inode \ Used # {} /\ file' = [file EXCEPT ![NewInode] = seq]

(***************************************************************************)
(* GetUploadedSize: the map is read without the lock.                      *)
(***************************************************************************)
\* Mutant: no look at the map.
GetUnguarded(c) ==
    /\ client[c].at = "ask" /\ c \in Client
    /\ client' = [client EXCEPT ![c].at = "send",
                                ![c].from = IF temp = 0 THEN 0 ELSE Len(file[temp])]
    /\ UNCHANGED <<disk, marked, db, req, hasData, worker, faults>>

GetUploadedSize(c) ==
    /\ client[c].at = "ask" /\ c \in Client /\ ~marked
    /\ client' = [client EXCEPT ![c].at = "send",
                                ![c].from = IF temp = 0 THEN 0 ELSE Len(file[temp])]
    /\ UNCHANGED <<disk, marked, db, req, hasData, worker, faults>>

(***************************************************************************)
(* ByStream.                                                               *)
(***************************************************************************)
SendStream(c) ==
    /\ client[c].at = "send"
    /\ Request(c, "enter", client[c].from + 1)
    /\ UNCHANGED <<disk, marked, db, hasData, worker, faults>>

\* The test and the mark; who is refused leaves by the same deferred call.
Enter(g) ==
    /\ req[g].pc = "enter"
    /\ marked' = TRUE
    /\ Move(g, IF marked THEN "failed" ELSE "open")
    /\ UNCHANGED <<disk, db, client, hasData, worker, faults>>

OpenTemp(g) ==
    /\ req[g].pc = "open"
    /\ IF temp = 0
       THEN NewFile(<<>>) /\ temp' = NewInode
       ELSE UNCHANGED disk
    /\ req' = [req EXCEPT ![g].pc = "stream", ![g].fd = temp']
    /\ UNCHANGED <<marked, db, client, hasData, worker, faults>>

\* io.Copy appends, also what was under way when the connection broke.
Write(g) ==
    /\ req[g].pc = "stream" /\ req[g].next <= Blocks
    /\ file' = [file EXCEPT ![req[g].fd] = Append(@, req[g].next)]
    /\ req' = [req EXCEPT ![g].next = @ + 1]
    /\ UNCHANGED <<temp, marked, db, client, hasData, worker, faults>>

EndOfBody(g) ==
    /\ req[g].pc = "stream" /\ req[g].next > Blocks
    /\ Move(g, "check")
    /\ UNCHANGED <<disk, marked, db, client, hasData, worker, faults>>

CopyError(g) ==
    /\ req[g].pc = "stream" /\ Cut(g)
    /\ Move(g, "failed")
    /\ UNCHANGED <<disk, marked, db, client, hasData, worker, faults>>

\* File.ToMd5 of what the path leads to now; nothing has no md5.
CheckMd5(g) ==
    /\ req[g].pc = "check"
    /\ IF temp # 0 /\ file[temp] = Whole
       THEN Move(g, "save") /\ UNCHANGED disk
       ELSE Move(g, "failed") /\ Removed
    /\ UNCHANGED <<marked, db, client, hasData, worker, faults>>

\* SaveToStorageByFile: os.Open, then the look-up by md5.
OpenAgain(g) ==
    /\ req[g].pc = "save"
    /\ req' = [req EXCEPT ![g] =
                 IF temp = 0 THEN [@ EXCEPT !.pc = "failed"]
                 ELSE IF rows # <<>>
                 THEN [@ EXCEPT !.pc = "remove", !.got = Head(rows)]
                 ELSE [@ EXCEPT !.pc = "copy", !.fd = temp]]
    /\ UNCHANGED <<disk, marked, db, client, hasData, worker, faults>>

\* SaveToStorageReader: a file of its own in the storage folder, and its
\* row, which the transaction holds back.
Store(g, content, p) ==
    /\ NewFile(content)
    /\ req' = [req EXCEPT ![g].pc = p, ![g].got = NewInode]

CopyToStorage(g) ==
    /\ req[g].pc = "copy"
    /\ Store(g, file[req[g].fd], "remove")
    /\ UNCHANGED <<temp, marked, db, client, hasData, worker, faults>>

RemoveTemp(g) ==
    /\ req[g].pc = "remove"
    /\ Removed
    /\ Move(g, "leave")
    /\ UNCHANGED <<marked, db, client, hasData, worker, faults>>

\* Mutant: the mark is taken away only where nothing failed.
LeaveWhenDone(g) ==
    /\ req[g].pc \in {"leave", "failed"}
    /\ marked' = (marked /\ req[g].pc = "failed")
    /\ IF req[g].pc = "leave"
       THEN Move(g, "commit row") /\ UNCHANGED client
       ELSE Answer(g, "ask")
    /\ UNCHANGED <<disk, db, hasData, worker, faults>>

\* The deferred call, whoever's mark it is; then the interceptor commits or
\* rolls back.
Leave(g) ==
    /\ req[g].pc \in {"leave", "failed"}
    /\ marked' = FALSE
    /\ IF req[g].pc = "leave"
       THEN Move(g, "commit row") /\ UNCHANGED client
       ELSE Answer(g, "ask")
    /\ UNCHANGED <<disk, db, hasData, worker, faults>>

AddRow(i) == rows' = IF i \in {rows[k] : k \in DOMAIN rows} THEN rows
                     ELSE Append(rows, i)

CommitRow(g) ==
    /\ req[g].pc = "commit row"
    /\ AddRow(req[g].got)
    /\ Answer(g, "link")
    /\ UNCHANGED <<disk, marked, entry, handled, hasData, worker, faults>>

(***************************************************************************)
(* ByMd5 and Upload make the entry.  AddFile leaves an entry for the same  *)
(* stored file as it is.                                                   *)
(***************************************************************************)
SendLink(c) ==
    /\ client[c].at = "link"
    /\ Request(c, "look up", 0)
    /\ UNCHANGED <<disk, marked, db, hasData, worker, faults>>

\* Without a row the temporary file must be in the way.
LookUp(g) ==
    /\ req[g].pc = "look up"
    /\ Removed
    /\ IF rows = <<>>
       THEN Answer(g, "ask")
       ELSE /\ req' = [req EXCEPT ![g].pc = "notify", ![g].got = Head(rows)]
            /\ UNCHANGED client
    /\ UNCHANGED <<marked, db, hasData, worker, faults>>

SendUpload(c) ==
    /\ client[c].at = "ask" /\ c \in Browser
    /\ Request(c, "upload", 0)
    /\ UNCHANGED <<disk, marked, db, hasData, worker, faults>>

SaveUpload(g) ==
    /\ req[g].pc = "upload"
    /\ IF rows # <<>>
       THEN /\ req' = [req EXCEPT ![g].pc = "commit entry", ![g].got = Head(rows)]
            /\ UNCHANGED file
       ELSE Store(g, Whole, "commit entry")
    /\ UNCHANGED <<temp, marked, db, client, hasData, worker, faults>>

\* NotifyWorker: ByMd5 before its commit, Upload after.
NotifyWorker(g) ==
    /\ req[g].pc = "notify"
    /\ hasData' = TRUE
    /\ IF req[g].for \in Browser
       THEN Answer(g, "done")
       ELSE Move(g, "commit entry") /\ UNCHANGED client
    /\ UNCHANGED <<disk, marked, db, worker, faults>>

Commit(g) ==
    /\ req[g].pc = "commit entry"
    /\ AddRow(req[g].got)
    /\ entry' = entry \cup {<<req[g].for, req[g].got>>}
    /\ IF req[g].for \in Browser
       THEN Move(g, "notify") /\ UNCHANGED client
       ELSE Answer(g, "done")
    /\ UNCHANGED <<disk, marked, handled, hasData, worker, faults>>

(***************************************************************************)
(* The worker: start, SelectNoHandle, handle, SetState.                    *)
(***************************************************************************)
WakeUp ==
    /\ worker.pc = "wait" /\ hasData
    /\ worker' = [worker EXCEPT !.pc = "query"]
    /\ UNCHANGED <<disk, marked, db, client, req, hasData, faults>>

SelectNoHandle ==
    /\ worker.pc = "query"
    /\ worker' = IF entry = handled THEN [worker EXCEPT !.pc = "reset"]
                 ELSE [pc |-> "handle", list |-> entry \ handled]
    /\ UNCHANGED <<disk, marked, db, client, req, hasData, faults>>

\* Mutant: one list, and back to the wait.
HandleOnce ==
    /\ worker.pc = "handle"
    /\ \E e \in worker.list :
          /\ handled' = handled \cup {e}
          /\ worker' = [pc |-> IF worker.list = {e} THEN "reset" ELSE "handle",
                        list |-> worker.list \ {e}]
    /\ UNCHANGED <<disk, marked, rows, entry, client, req, hasData, faults>>

Handle ==
    /\ worker.pc = "handle"
    /\ \E e \in worker.list :
          /\ handled' = handled \cup {e}
          /\ worker' = [pc |-> IF worker.list = {e} THEN "query" ELSE "handle",
                        list |-> worker.list \ {e}]
    /\ UNCHANGED <<disk, marked, rows, entry, client, req, hasData, faults>>

\* A notification since the empty answer is lost.
ResetHasData ==
    /\ worker.pc = "reset"
    /\ hasData' = FALSE
    /\ worker' = [worker EXCEPT !.pc = "wait"]
    /\ UNCHANGED <<disk, marked, db, client, req, faults>>

(***************************************************************************)
(* Faults.  A client that is cut off starts again; its request goes on in  *)
(* the server until it notices.  A client does not break off before the    *)
(* server has begun with its request.                                      *)
(***************************************************************************)
Break(c) ==
    /\ client[c].at = "wait" /\ faults.break < MaxBreak
    /\ req[client[c].by].pc # "enter"
    /\ client' = [client EXCEPT ![c] = [at |-> "ask", from |-> 0, by |-> NoOne]]
    /\ faults' = [faults EXCEPT !.break = @ + 1]
    /\ UNCHANGED <<disk, marked, db, req, hasData, worker>>

Crash ==
    /\ faults.crash < MaxCrash
    /\ faults' = [faults EXCEPT !.crash = @ + 1]
    /\ marked' = FALSE /\ hasData' = FALSE
    /\ req' = [g \in Go |-> Idle]
    /\ client' = [c \in Uploader |->
                    IF client[c].at = "wait"
                    THEN [at |-> "ask", from |-> 0, by |-> NoOne] ELSE client[c]]
    /\ worker' = [pc |-> "wait", list |-> {}]
    /\ UNCHANGED <<disk, db>>

Serve(g) ==
    \/ Enter(g) \/ OpenTemp(g) \/ Write(g) \/ EndOfBody(g) \/ CopyError(g)
    \/ CheckMd5(g) \/ OpenAgain(g) \/ CopyToStorage(g) \/ RemoveTemp(g)
    \/ Leave(g) \/ CommitRow(g)
    \/ LookUp(g) \/ SaveUpload(g) \/ NotifyWorker(g) \/ Commit(g)
Ask(c) ==
    GetUploadedSize(c) \/ SendStream(c) \/ SendLink(c) \/ SendUpload(c)
Work == WakeUp \/ SelectNoHandle \/ Handle \/ ResetHasData
Fault == Crash \/ \E c \in Uploader : Break(c)

Next == \/ \E g \in Go : Serve(g)
        \/ \E c \in Uploader : Ask(c)
        \/ Work \/ Fault

Spec == Init /\ [][Next]_vars

\* Goroutines and the uploaders go on while they can.
FairSpec == /\ Spec
            /\ \A g \in Go : WF_vars(Serve(g))
            /\ \A c \in Uploader : WF_vars(Ask(c))
            /\ WF_vars(Work)

(***************************************************************************)
(* Properties.                                                             *)
(***************************************************************************)

\* Type invariant.
TypeOK ==
    /\ file \in [Inode -> Seq(1..Blocks)]
    /\ temp \in 0..MaxInode /\ marked \in BOOLEAN /\ hasData \in BOOLEAN
    /\ \A k \in DOMAIN rows : rows[k] \in Inode
    /\ handled \subseteq entry /\ entry \subseteq Uploader \X Inode
    /\ worker.list \subseteq entry

\* What a row of storage_file leads to is the file with that md5, whole and
\* nothing after it, although its bytes came in several requests that went
\* on in the server after their client had started the next one.  It is what
\* the deduplication relies on: nobody uploads these bytes again.
StoredIsWhole == \A k \in DOMAIN rows : file[rows[k]] = Whole

\* Whoever starts again after each break or crash has its entry in the end,
\* and so the mark does not outlive the request that set it, and no
\* temporary file is left that no upload can complete.
UploadEnds == \A c \in Uploader : <>(\E i \in Inode : <<c, i>> \in entry)

\* An entry that is committed while the worker is awake, or is about to
\* wake, is handled by it unless the process ends, also when it comes while
\* the worker is busy with those before it.
CommittedIsHandled ==
    (/\ entry # handled
     /\ worker.pc \in {"query", "handle"} \/ (worker.pc = "wait" /\ hasData))
        ~> (entry = handled \/ faults.crash > 0)

\* The worker is told of an entry only when it can see it: "commit at once,
\* or the worker may find nothing" (FileUploadAppController.go:64).
ToldWhenVisible ==
    \A g \in Go : req[g].pc = "notify" => <<req[g].for, req[g].got>> \in entry
=============================================================================
