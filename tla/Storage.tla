------------------------------ MODULE Storage ------------------------------
(***************************************************************************)
(* The stored files: how requests and the worker make them and refer to    *)
(* them, and how the nightly timer and RecycleNow reclaim those that       *)
(* nothing refers to.                                                      *)
(*                                                                         *)
(* A stored file is a number: its path on disk and the id of its row in    *)
(* storage_file.  An entry is a row of dfs_file or dfs_file_delete; which  *)
(* file it refers to never changes.  What a file contains is left out: a   *)
(* look-up by md5 may find any row, or none.                               *)
(***************************************************************************)
EXTENDS Naturals, FiniteSets

CONSTANTS
    Handler,    \* the goroutines that serve requests
    Worker,     \* the goroutine that makes thumbnails and previews
    Timer,      \* the goroutine of the cron job
    Manual,     \* the goroutines that RecycleNow starts
    MaxFile,    \* bound on the files ever stored
    MaxEntry,   \* bound on the entries ever made
    MaxCrash,   \* bound on the crashes
    MaxBusy,    \* bound on the requests and statements that fail
    MaxFault    \* bound on both together

ASSUME ActorAssumption ==
    /\ Worker \notin Handler
    /\ Timer \notin Manual
ASSUME BoundAssumption == {MaxFile, MaxEntry, MaxCrash, MaxBusy, MaxFault} \subseteq Nat

File      == 1..MaxFile
Entry     == 1..MaxEntry
Adder     == Handler \cup {Worker}
Collector == Manual \cup {Timer}

VARIABLES
    disk,     \* the files in the storage folders
    row,      \* the files with a row in storage_file
    entry,    \* the rows of dfs_file
    bin,      \* the rows of dfs_file_delete
    of,       \* of[e]: the storageId of entry e, 0 before it is made
    trash,    \* the entries of dfs_file with a deleteDate
    recent,   \* recent.trash, recent.bin: the entries of each table whose
              \* deleteDate has not timed out
    young,    \* the files whose id is above the deleteTime of the timer
    fresh,    \* the next file and the next entry
    pc,       \* pc[a]: what a has done so far
    hold,     \* hold[a]: the storage file a works with, or 0
    step,     \* step[k]: what collector k does next
    todo,     \* todo[k]: the ids k has selected and not yet looked at
    at,       \* at[k]: the id DeleteNotUseStorage works on, or 0
    then,     \* then[k]: what k does when todo[k] is empty
    purging,  \* the entry the timer moves to dfs_file_delete, or 0
    faults,   \* the crashes and failed statements so far
    safe,     \* history: the adders that hold their file in good faith
    sound     \* history: the entries made in good faith

tables     == <<entry, bin, of, trash, recent>>
adders     == <<pc, hold, safe>>
collectors == <<step, todo, at, then, purging>>
vars == <<disk, row, tables, young, fresh, adders, collectors, faults, sound>>

Init ==
    /\ disk = {} /\ row = {} /\ entry = {} /\ bin = {}
    /\ of = [e \in Entry |-> 0]
    /\ trash = {} /\ recent = [trash |-> {}, bin |-> {}] /\ young = {}
    /\ fresh = [file |-> 1, entry |-> 1]
    /\ pc = [a \in Adder |-> "idle"]
    /\ hold = [a \in Adder |-> 0]
    /\ step = [k \in Collector |-> "idle"]
    /\ todo = [k \in Collector |-> {}]
    /\ at = [k \in Collector |-> 0]
    /\ then = [k \in Collector |-> "idle"]
    /\ purging = 0
    /\ faults = [crash |-> 0, busy |-> 0]
    /\ safe = {} /\ sound = {}

IsFileUsing(table, f) == \E e \in table : of[e] = f
InFlight == \E k \in Manual : step[k] # "idle"

Busy == /\ faults.crash + faults.busy < MaxFault /\ faults.busy < MaxBusy
        /\ faults' = [faults EXCEPT !.busy = @ + 1]

(***************************************************************************)
(* Good faith.  A file may be relied on when it is there and something     *)
(* keeps it: another reference made in good faith, in dfs_file or in       *)
(* dfs_file_delete for less than the timeout, or else its own youth, as    *)
(* long as no RecycleNow is under way, which does not look at ages.        *)
(***************************************************************************)
Kept(f) == \/ IsFileUsing(entry \cap sound, f)
           \/ IsFileUsing(recent.bin \cap sound, f)
Reliable(f) == f \in row \cap disk /\ (Kept(f) \/ (f \in young /\ ~InFlight))

(***************************************************************************)
(* Requests and the worker.                                                *)
(***************************************************************************)
Enter(a, p, f) ==
    /\ pc' = [pc EXCEPT ![a] = p]
    /\ hold' = [hold EXCEPT ![a] = f]
    /\ safe' = IF Reliable(f) THEN safe \cup {a} ELSE safe \ {a}

Leave(a) ==
    /\ pc' = [pc EXCEPT ![a] = "idle"]
    /\ hold' = [hold EXCEPT ![a] = 0]
    /\ safe' = safe \ {a}

\* ByMd5 and Upload: a row with the md5 exists, and so does its file (or
\* fileInfo.Size() panics).
Find(h) ==
    /\ pc[h] = "idle" /\ fresh.entry <= MaxEntry
    /\ \E f \in row \cap disk : Enter(h, "found", f)
    /\ UNCHANGED <<disk, row, tables, young, fresh, collectors, faults, sound>>

\* SaveToStorageByData: nobody asks whether the file of the row exists.
FindUnseen ==
    /\ pc[Worker] = "idle" /\ fresh.entry <= MaxEntry /\ entry # {}
    /\ \E f \in row : Enter(Worker, "found", f)
    /\ UNCHANGED <<disk, row, tables, young, fresh, collectors, faults, sound>>

\* Copy, Move, ShareSaveTo, and the extra files the worker takes over: the
\* storageId is read from another entry.
ReadEntry(a) ==
    /\ pc[a] = "idle" /\ fresh.entry <= MaxEntry
    /\ \E e \in entry : Enter(a, "found", of[e])
    /\ UNCHANGED <<disk, row, tables, young, fresh, collectors, faults, sound>>

\* SaveToStorageReader: no row with the md5; LocalPath and os.Create.
CreateFile(a) ==
    /\ pc[a] = "idle" /\ fresh.file <= MaxFile
    /\ a = Worker => entry # {}
    /\ pc' = [pc EXCEPT ![a] = "saving"]
    /\ hold' = [hold EXCEPT ![a] = fresh.file]
    /\ disk' = disk \cup {fresh.file}
    /\ fresh' = [fresh EXCEPT !.file = @ + 1]
    /\ UNCHANGED <<row, tables, young, safe, collectors, faults, sound>>

\* Mutant: the row gets another id than the one that is returned.
AddOtherId(f) ==
    /\ row' = row \cup {fresh.file}
    /\ young' = young \cup {fresh.file}

AddStorage(f) ==
    /\ row' = row \cup {f}
    /\ young' = young \cup {f}

AddEntry(f, good) ==
    /\ fresh.entry <= MaxEntry
    /\ entry' = entry \cup {fresh.entry}
    /\ of' = [of EXCEPT ![fresh.entry] = f]
    /\ fresh' = [fresh EXCEPT !.entry = @ + 1]
    /\ sound' = IF good THEN sound \cup {fresh.entry} ELSE sound

\* ByStream: the row is all there is to commit.
CommitStream(h) ==
    /\ pc[h] = "saving"
    /\ AddStorage(hold[h])
    /\ Leave(h)
    /\ UNCHANGED <<disk, tables, fresh, collectors, faults, sound>>

\* Upload: the row and the entry are one transaction.
CommitUpload(h) ==
    /\ pc[h] = "saving"
    /\ AddStorage(hold[h])
    /\ AddEntry(hold[h], TRUE)
    /\ Leave(h)
    /\ UNCHANGED <<disk, bin, trash, recent, collectors, faults>>

\* The worker has no transaction: the row, and later the entry.
InsertStorage ==
    /\ pc[Worker] = "saving"
    /\ AddStorage(hold[Worker])
    /\ pc' = [pc EXCEPT ![Worker] = "found"]
    /\ safe' = IF InFlight THEN safe ELSE safe \cup {Worker}
    /\ UNCHANGED <<disk, tables, fresh, hold, collectors, faults, sound>>

\* The entry of a file whose row was found.
CommitEntry(a) ==
    /\ pc[a] = "found"
    /\ AddEntry(hold[a], a \in safe)
    /\ Leave(a)
    /\ UNCHANGED <<disk, row, bin, trash, recent, young, collectors, faults>>

\* The client goes away, a name exists, the database is locked: roll back.
\* A file that was created stays where it is.  (Within the bounds there may
\* be no entry left to add.)
Fail(a) ==
    /\ pc[a] # "idle"
    /\ Busy \/ (fresh.entry > MaxEntry /\ UNCHANGED faults)
    /\ Leave(a)
    /\ UNCHANGED <<disk, row, tables, young, fresh, collectors, sound>>

\* Delete and TrashRecover.
Trash(e) ==
    /\ e \in entry \ trash
    /\ trash' = trash \cup {e}
    /\ recent' = [recent EXCEPT !.trash = @ \cup {e}]
    /\ UNCHANGED <<disk, row, entry, bin, of, young, fresh, adders, collectors, faults, sound>>

Recover(e) ==
    /\ e \in trash
    /\ trash' = trash \ {e}
    /\ recent' = [recent EXCEPT !.trash = @ \ {e}]
    /\ UNCHANGED <<disk, row, entry, bin, of, young, fresh, adders, collectors, faults, sound>>

\* LogicDelete: one transaction; the insertion fails when the id is there.
LogicDelete(e) ==
    /\ e \in trash \ bin
    /\ bin' = bin \cup {e}
    /\ entry' = entry \ {e}
    /\ trash' = trash \ {e}
    /\ recent' = [trash |-> recent.trash \ {e}, bin |-> recent.bin \cup {e}]
    /\ UNCHANGED <<disk, row, of, young, fresh, adders, collectors, faults, sound>>

(***************************************************************************)
(* The collectors.                                                         *)
(***************************************************************************)
Go(k, s) == step' = [step EXCEPT ![k] = s]

Done(k) == Go(k, "next") /\ at' = [at EXCEPT ![k] = 0]

Look(k, files, after) ==
    /\ todo' = [todo EXCEPT ![k] = files]
    /\ then' = [then EXCEPT ![k] = after]
    /\ Go(k, "next")

\* The server is gone and comes back, or, in a panic of the timer, only
\* the timer's run is.
EndRun(k) ==
    /\ Go(k, "idle")
    /\ todo' = [todo EXCEPT ![k] = {}]
    /\ at' = [at EXCEPT ![k] = 0]
    /\ then' = [then EXCEPT ![k] = "idle"]
    /\ purging' = IF k = Timer THEN 0 ELSE purging

Restart ==
    /\ pc' = [a \in Adder |-> "idle"]
    /\ hold' = [a \in Adder |-> 0]
    /\ safe' = {}
    /\ step' = [k \in Collector |-> "idle"]
    /\ todo' = [k \in Collector |-> {}]
    /\ at' = [k \in Collector |-> 0]
    /\ then' = [k \in Collector |-> "idle"]
    /\ purging' = 0

\* start, in the night.
StartTimer ==
    /\ step[Timer] = "idle"
    /\ Go(Timer, "trash")
    /\ UNCHANGED <<disk, row, tables, young, fresh, adders, todo, at, then, purging, faults, sound>>

\* deleteTrashTimeout and addDelete: three statements without a transaction
\* for each entry.  An id that is in dfs_file_delete already ends the run.
Expired == trash \ recent.trash

TimerInsert ==
    /\ step[Timer] = "trash"
    /\ \E e \in Expired :
          IF e \in bin
          THEN EndRun(Timer) /\ UNCHANGED bin
          ELSE /\ bin' = bin \cup {e}
               /\ purging' = e
               /\ Go(Timer, "date")
               /\ UNCHANGED <<todo, at, then>>
    /\ UNCHANGED <<disk, row, entry, of, trash, recent, young, fresh, adders, faults, sound>>

TimerSetDate ==
    /\ step[Timer] = "date"
    /\ recent' = [recent EXCEPT !.bin = @ \cup {purging}]
    /\ Go(Timer, "delete")
    /\ UNCHANGED <<disk, row, entry, bin, of, trash, young, fresh, adders, todo, at, then, purging, faults, sound>>

TimerDelete ==
    /\ step[Timer] = "delete"
    /\ entry' = entry \ {purging}
    /\ trash' = trash \ {purging}
    /\ recent' = [recent EXCEPT !.trash = @ \ {purging}]
    /\ purging' = 0
    /\ Go(Timer, "trash")
    /\ UNCHANGED <<disk, row, bin, of, young, fresh, adders, todo, at, then, faults, sound>>

TimerTrashEmpty ==
    /\ step[Timer] = "trash" /\ Expired = {}
    /\ Go(Timer, "recycle")
    /\ UNCHANGED <<disk, row, tables, young, fresh, adders, todo, at, then, purging, faults, sound>>

\* recycleDeletedFile: what has been in dfs_file_delete for long enough is
\* deleted, and its files are looked at.  Nobody sees whether the deletion
\* failed, and the loop asks again.
TimedOut == bin \ recent.bin

RecycleDeletedFile ==
    /\ step[Timer] = "recycle" /\ TimedOut # {}
    /\ \/ bin' = bin \ TimedOut /\ UNCHANGED faults
       \/ Busy /\ UNCHANGED bin
    /\ Look(Timer, {of[e] : e \in TimedOut}, "recycle")
    /\ UNCHANGED <<disk, row, entry, of, trash, recent, young, fresh, adders, at, purging, sound>>

\* Mutant: no deadline.
RecycleOfAnyAge ==
    /\ step[Timer] = "recycle" /\ TimedOut = {}
    /\ Look(Timer, row, "idle")
    /\ UNCHANGED <<disk, row, tables, young, fresh, adders, at, purging, faults, sound>>

\* recycleNotUseStorage: the rows that are old enough.
RecycleNotUseStorage ==
    /\ step[Timer] = "recycle" /\ TimedOut = {}
    /\ Look(Timer, row \ young, "idle")
    /\ UNCHANGED <<disk, row, tables, young, fresh, adders, at, purging, faults, sound>>

\* RecycleNow: the rows that nothing refers to, old or not.
NotUsed == {f \in row : ~IsFileUsing(entry, f) /\ ~IsFileUsing(bin, f)}

RecycleNow(k) ==
    /\ step[k] = "idle" /\ NotUsed # {}
    /\ Look(k, NotUsed, "idle")
    /\ safe' = {a \in safe : Kept(hold[a])}
    /\ UNCHANGED <<disk, row, tables, young, fresh, pc, hold, at, purging, faults, sound>>

\* DeleteNotUseStorage: dfs_file first, ...
CheckEntry(k) ==
    /\ step[k] = "next"
    /\ \E f \in todo[k] :
          /\ todo' = [todo EXCEPT ![k] = @ \ {f}]
          /\ IF IsFileUsing(entry, f)
             THEN UNCHANGED <<at, step>>
             ELSE at' = [at EXCEPT ![k] = f] /\ Go(k, "bin")
    /\ UNCHANGED <<disk, row, tables, young, fresh, adders, then, purging, faults, sound>>

\* Mutant: dfs_file_delete is not asked.
CheckBinLeftOut(k) ==
    /\ step[k] = "bin"
    /\ Go(k, "stat")
    /\ UNCHANGED <<disk, row, tables, young, fresh, adders, todo, at, then, purging, faults, sound>>

\* ... then dfs_file_delete, ...
CheckBin(k) ==
    /\ step[k] = "bin"
    /\ IF IsFileUsing(bin, at[k]) THEN Done(k) ELSE Go(k, "stat") /\ UNCHANGED at
    /\ UNCHANGED <<disk, row, tables, young, fresh, adders, todo, then, purging, faults, sound>>

\* Mutant: a row whose file is gone is left as it is.
StatOrReturn(k) ==
    /\ step[k] = "stat"
    /\ IF at[k] \notin row \cap disk THEN Done(k) ELSE Go(k, "remove") /\ UNCHANGED at
    /\ UNCHANGED <<disk, row, tables, young, fresh, adders, todo, then, purging, faults, sound>>

\* ... the row and os.Stat, ...
Stat(k) ==
    /\ step[k] = "stat"
    /\ IF at[k] \notin row
       THEN Done(k)
       ELSE Go(k, IF at[k] \in disk THEN "remove" ELSE "row") /\ UNCHANGED at
    /\ UNCHANGED <<disk, row, tables, young, fresh, adders, todo, then, purging, faults, sound>>

\* ... the file.  os.Remove fails when another collector was faster: the
\* panic ends the timer's run, but nothing recovers from it in RecycleNow.
Remove(k) ==
    /\ step[k] = "remove"
    /\ \/ /\ at[k] \in disk
          /\ disk' = disk \ {at[k]}
          /\ Go(k, "row")
          /\ UNCHANGED <<adders, todo, at, then, purging>>
       \/ /\ at[k] \notin disk
          /\ IF k = Timer THEN EndRun(k) /\ UNCHANGED adders ELSE Restart
          /\ UNCHANGED disk
    /\ UNCHANGED <<row, tables, young, fresh, faults, sound>>

\* ... and the row, unless the database is locked.
DeleteRow(k) ==
    /\ step[k] = "row"
    /\ \/ row' = row \ {at[k]} /\ UNCHANGED faults
       \/ Busy /\ UNCHANGED row
    /\ Done(k)
    /\ UNCHANGED <<disk, tables, young, fresh, adders, todo, then, purging, sound>>

EndOfList(k) ==
    /\ step[k] = "next" /\ todo[k] = {}
    /\ Go(k, then[k])
    /\ then' = [then EXCEPT ![k] = "idle"]
    /\ UNCHANGED <<disk, row, tables, young, fresh, adders, todo, at, purging, faults, sound>>

(***************************************************************************)
(* Crashes, and time.                                                      *)
(***************************************************************************)
Crash ==
    /\ faults.crash + faults.busy < MaxFault /\ faults.crash < MaxCrash
    /\ faults' = [faults EXCEPT !.crash = @ + 1]
    /\ Restart
    /\ UNCHANGED <<disk, row, tables, young, fresh, sound>>

\* TrashTimeout and DeleteStorageTimeout are days: longer than any request,
\* any step of the worker and any run of a collector.
DaysPass ==
    /\ \A a \in Adder : pc[a] = "idle"
    /\ \A k \in Collector : step[k] = "idle"
    /\ young \cup recent.trash \cup recent.bin # {}
    /\ young' = {} /\ recent' = [trash |-> {}, bin |-> {}]
    /\ UNCHANGED <<disk, row, entry, bin, of, trash, fresh, adders, collectors, faults, sound>>

Begin(a) ==
    \/ ReadEntry(a) \/ CreateFile(a)
    \/ a \in Handler /\ Find(a)
    \/ a = Worker /\ FindUnseen

Finish(a) ==
    \/ CommitEntry(a) \/ Fail(a)
    \/ a \in Handler /\ (CommitStream(a) \/ CommitUpload(a))
    \/ a = Worker /\ InsertStorage

DeleteNotUseStorage(k) ==
    CheckEntry(k) \/ CheckBin(k) \/ Stat(k) \/ Remove(k) \/ DeleteRow(k) \/ EndOfList(k)

TimerNext ==
    \/ StartTimer
    \/ TimerInsert \/ TimerSetDate \/ TimerDelete \/ TimerTrashEmpty
    \/ RecycleDeletedFile \/ RecycleNotUseStorage
    \/ DeleteNotUseStorage(Timer)

Next ==
    \/ \E a \in Adder : Begin(a) \/ Finish(a)
    \/ \E e \in Entry : Trash(e) \/ Recover(e) \/ LogicDelete(e)
    \/ TimerNext
    \/ \E k \in Manual : RecycleNow(k) \/ DeleteNotUseStorage(k)
    \/ Crash \/ DaysPass

Spec == Init /\ [][Next]_vars

(***************************************************************************)
(* Properties.                                                             *)
(***************************************************************************)
\* Types: every table refers to files and entries that were made, a deleted
\* entry is in dfs_file, and the numbers stay within their bounds.
StoredTyped ==
    /\ disk \subseteq File /\ row \subseteq File /\ young \subseteq File
    /\ fresh \in [file : 1..MaxFile + 1, entry : 1..MaxEntry + 1]
    /\ faults \in [crash : 0..MaxCrash, busy : 0..MaxBusy]
TablesTyped ==
    /\ entry \subseteq Entry /\ bin \subseteq Entry /\ sound \subseteq Entry
    /\ of \in [Entry -> 0..MaxFile]
    /\ trash \subseteq entry
    /\ recent \in [trash : SUBSET trash, bin : SUBSET bin]
AddersTyped ==
    /\ pc \in [Adder -> {"idle", "found", "saving"}]
    /\ hold \in [Adder -> 0..MaxFile]
    /\ safe \subseteq Adder
CollectorsTyped ==
    /\ step \in [Collector -> {"idle", "trash", "date", "delete", "recycle",
                              "next", "bin", "stat", "remove", "row"}]
    /\ todo \in [Collector -> SUBSET File]
    /\ at \in [Collector -> 0..MaxFile]
    /\ then \in [Collector -> {"idle", "recycle"}]
    /\ purging \in 0..MaxEntry

TypeOK == StoredTyped /\ TablesTyped /\ AddersTyped /\ CollectorsTyped

\* What was added in good faith is there as long as it is referred to,
\* whatever the collectors, the other requests, crashes and failed
\* statements do (RecycleStorageTimer.go:138, :124).
ReferencedIsStored == \A e \in entry \cap sound : of[e] \in row \cap disk

\* The comment of RecycleStorageTimer.go:124: the deadline is there so that
\* no file is deleted while an upload has not yet written dfs_file.
UploadsAreKept == \A e \in entry : of[e] \in row \cap disk

\* A night's run that gets to its end leaves no file that is old enough and
\* that neither table refers to, whatever the requests, RecycleNow and earlier
\* crashes did, unless a deletion failed (RecycleStorageTimer.go:119).
NightDone == step[Timer] = "next" /\ todo[Timer] = {} /\ then[Timer] = "idle"
IsUsed(f) == IsFileUsing(entry, f) \/ IsFileUsing(bin, f)
NightReclaims == NightDone /\ faults.busy = 0 => \A f \in row \ young : IsUsed(f)

\* What nothing in dfs_file refers to is reclaimed in the end, or referred
\* to again, whatever fails on the way (RecycleStorageTimer.go:119, :88).
\* The exception: a crash between two statements of addDelete leaves an
\* entry in both tables, and each later run of the timer ends at it.
HalfPurged == entry \cap bin # {}
UnusedIsReclaimed ==
    \/ <>[]HalfPurged
    \/ \A f \in File :
          (f \in row /\ ~IsFileUsing(entry, f)) ~> (f \notin row \/ IsFileUsing(entry, f))

\* Requests end, collectors go on and the cron job starts every night.  Time
\* passes: strong, since someone may be busy whenever one looks.
FairSpec ==
    /\ Spec
    /\ \A a \in Adder : WF_vars(Finish(a))
    /\ WF_vars(TimerNext)
    /\ \A k \in Manual : WF_vars(DeleteNotUseStorage(k))
    /\ SF_vars(DaysPass)
=============================================================================
