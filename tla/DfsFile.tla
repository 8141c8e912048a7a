------------------------------ MODULE DfsFile ------------------------------
(***************************************************************************)
(* The table dfs_file and the operations on a user's tree of files.        *)
(*                                                                         *)
(* A table is a function from row ids to rows.  A request works on a       *)
(* transaction t: until its first write it reads what other requests have  *)
(* committed (t.seen); from its first write on it holds SQLite's write     *)
(* lock and reads its own table (t.db).  DBConnection opens the SQLite     *)
(* transaction only at the first write, which is why the two differ.       *)
(*                                                                         *)
(* A path is the sequence of the names below the user's root.              *)
(***************************************************************************)
EXTENDS Integers, Sequences, FiniteSets, SequencesExt

CONSTANTS
    None,       \* no storage file (a folder), and the name "" of a root
    Name,       \* names that clients give
    Content,    \* storage files
    ExtraName,  \* the name "thumb" of an extra file
    ExtraData,  \* the storage file of an extra file
    NumberedName \* the names makeNameNo tries in turn

ASSUME NameAssumption == None \notin Name \cup Content \cup {ExtraName, ExtraData}
ASSUME NumberedAssumption == NumberedName \in [Name -> Seq(Name)]

\* What SelectOne returns where there is no row: the zero DfsFileDto.
NoRow == [user |-> 0, parent |-> 0, name |-> None, content |-> None,
          extra |-> FALSE, history |-> FALSE, trashed |-> 0, state |-> 0]

Row(db, i) == IF i \in DOMAIN db THEN db[i] ELSE NoRow

IsFolder(row) == row.content = None

FolderRow(u, p, n) == [NoRow EXCEPT !.user = u, !.parent = p, !.name = n]

FileRow(u, p, n, c) == [FolderRow(u, p, n) EXCEPT !.content = c]

\* isHistory = 0 and deleteDate is null
Current(row) == ~row.history /\ row.trashed = 0

(***************************************************************************)
(* Queries of DfsFileDao.                                                  *)
(***************************************************************************)
SelectByParentIdAndName(db, u, p, n) ==
    LET hits == {i \in DOMAIN db : /\ db[i].user = u /\ db[i].parent = p /\ db[i].name = n
                                   /\ Current(db[i])}
    IN  IF hits = {} THEN 0 ELSE Min(hits)

\* The nested selects: a folder that is not found has no files below it.
SelectIdByPath(db, u, path) ==
    FoldLeft(LAMBDA id, n : IF id = 0 THEN 0 ELSE SelectByParentIdAndName(db, u, id, n),
             SelectByParentIdAndName(db, u, 0, None), path)

SelectDelete(db, u) ==
    {i \in DOMAIN db : db[i].user = u /\ ~db[i].history /\ db[i].trashed # 0}

\* Mutants: null counts as long ago; history rows are left out.
SelectIdsTimeout(db, time) == {i \in DOMAIN db : db[i].trashed < time}
SelectIdsOfCurrent(db, time) ==
    {i \in DOMAIN db : db[i].trashed # 0 /\ db[i].trashed < time /\ ~db[i].history}

SelectIdsByDeleteAndTimeout(db, time) ==
    {i \in DOMAIN db : db[i].trashed # 0 /\ db[i].trashed < time}

SelectNoHandle(db) == {i \in DOMAIN db : ~IsFolder(db[i]) /\ db[i].state = 0}

SelectAllChildList(db, p) == {i \in DOMAIN db : db[i].parent = p}

SelectExtraListById(db, p) == {i \in SelectAllChildList(db, p) : db[i].extra}

\* Mutant: without the condition on parentId.
VersionsAnywhere(db, i) ==
    {j \in DOMAIN db : i \in DOMAIN db /\ db[j].user = db[i].user /\ db[j].name = db[i].name}

\* The rows SetDelete and SetNotDelete take together with row i: the
\* versions of one file carry the same user, parent and name.
Versions(db, i) ==
    {j \in DOMAIN db : /\ i \in DOMAIN db
                       /\ db[j].user = db[i].user
                       /\ db[j].parent = db[i].parent
                       /\ db[j].name = db[i].name}

\* The unique index idx_name.
NamesAreUnique(db) ==
    \A i, j \in DOMAIN db :
        /\ db[i].parent = db[j].parent /\ db[i].name = db[j].name
        /\ db[i].parent # 0
        /\ Current(db[i]) /\ Current(db[j])
        => i = j

(***************************************************************************)
(* Transactions: seen, db and bin are tables and the ids of dfs_file_delete*)
(* next is the id Number.ID yields, now the time in milliseconds.          *)
(***************************************************************************)
Transaction(seen, db, bin, next, now) ==
    [seen |-> seen, db |-> db, bin |-> bin, next |-> next, now |-> now,
     wrote |-> FALSE, failed |-> FALSE]

View(t) == IF t.wrote THEN t.db ELSE t.seen

\* A panic: the request ends and is rolled back, whatever it still does.
Fail(t) == [t EXCEPT !.failed = TRUE]

Write(t, db) ==
    IF NamesAreUnique(db) THEN [t EXCEPT !.db = db, !.wrote = TRUE] ELSE Fail(t)

Update(t, ids, change(_)) ==
    Write(t, [i \in DOMAIN t.db |-> IF i \in ids THEN change(t.db[i]) ELSE t.db[i]])

With(db, i, row) ==
    [j \in DOMAIN db \cup {i} |-> IF j \in DOMAIN db THEN db[j] ELSE row]

\* Mutant: the same id is given out again.
AddSameId(t, row) == Write(t, With(t.db, t.next, row))

Add(t, row) == [Write(t, With(t.db, t.next, row)) EXCEPT !.next = t.next + 1]

Delete(t, i) == Write(t, [j \in DOMAIN t.db \ {i} |-> t.db[j]])

SetHistory(t, i) == Update(t, {i}, LAMBDA row : [row EXCEPT !.history = TRUE])

MoveRow(t, i, p, n) == Update(t, {i}, LAMBDA row : [row EXCEPT !.parent = p, !.name = n])

\* Mutants: only row i; rows that are in the recycle bin as well.
SetDeleteOne(t, i) == Update(t, {i}, LAMBDA row : [row EXCEPT !.trashed = t.now])
SetDeleteAgain(t, i) ==
    Update(t, Versions(t.db, i), LAMBDA row : [row EXCEPT !.trashed = t.now])

SetDelete(t, i) ==
    Update(t, {j \in Versions(t.db, i) : t.db[j].trashed = 0},
           LAMBDA row : [row EXCEPT !.trashed = t.now])

SetNotDelete(t, i) ==
    Update(t, {j \in Versions(t.db, i) :
                  t.db[i].trashed # 0 /\ t.db[j].trashed = t.db[i].trashed},
           LAMBDA row : [row EXCEPT !.trashed = 0])

\* insert into dfs_file_delete select ...: id is its primary key.
InsertDelete(t, i) ==
    IF i \notin DOMAIN t.db THEN [t EXCEPT !.wrote = TRUE]
    ELSE IF i \in t.bin THEN Fail(t)
    ELSE [t EXCEPT !.bin = @ \cup {i}, !.wrote = TRUE]

(***************************************************************************)
(* DfsFileService.                                                         *)
(***************************************************************************)
AddFile(t, u, p, n, content, isOverWrite) ==
    LET id    == SelectByParentIdAndName(View(t), u, p, n)
        exist == Row(View(t), id)
    IN  CASE id = 0                      -> Add(t, FileRow(u, p, n, content))
          [] id # 0 /\ IsFolder(exist)   -> Fail(t)
          [] id # 0 /\ ~IsFolder(exist) /\ exist.content = content -> t
          [] OTHER -> IF isOverWrite
                      THEN Add(SetHistory(t, id), FileRow(u, p, n, content))
                      ELSE Fail(t)

AddFolder(t, u, p, n) ==
    IF SelectByParentIdAndName(View(t), u, p, n) # 0 THEN Fail(t)
    ELSE Add(t, FolderRow(u, p, n))

\* One name of a path: m.folder is the folder reached, m.creating is
\* isCreatModel.
MkdirsOne(m, u, n) ==
    LET id == SelectByParentIdAndName(View(m.t), u, m.folder, n)
    IN  IF ~m.creating /\ id # 0
        THEN [m EXCEPT !.folder = id,
                       !.t = IF IsFolder(Row(View(m.t), id)) THEN @ ELSE Fail(@)]
        ELSE [t |-> AddFolder(m.t, u, m.folder, n), folder |-> m.t.next, creating |-> TRUE]

\* Walks down the folders that exist and creates the others.
Mkdirs(t, u, path) ==
    FoldLeft(LAMBDA m, n : MkdirsOne(m, u, n),
             MkdirsOne([t |-> t, folder |-> 0, creating |-> FALSE], u, None), path)

\* Mutant: an id is drawn once more for the folder that was made.
GetIdOrNext(t, u, path) ==
    LET id == SelectIdByPath(View(t), u, path)
        m  == Mkdirs(t, u, path)
    IN  IF id # 0 THEN [t |-> t, folder |-> id] ELSE [t |-> m.t, folder |-> m.t.next]

\* With isCreate: every caller that changes something passes TRUE.
GetIdByFolder(t, u, path) ==
    LET id == SelectIdByPath(View(t), u, path)
    IN  IF id # 0 THEN [t |-> t, folder |-> id] ELSE Mkdirs(t, u, path)

\* addDfsFile of the upload, and the file branch of Copy and ShareSaveTo: u
\* owns the target path, owner is the userId the new row gets.
AddAtPath(t, u, owner, path, content, isOverWrite) ==
    LET g == GetIdByFolder(t, u, Front(path))
    IN  AddFile(g.t, owner, g.folder, Last(path), content, isOverWrite)

CreateFolder(t, u, path) ==
    IF SelectIdByPath(View(t), u, path) # 0 THEN Fail(t) ELSE Mkdirs(t, u, path).t

\* The paths recursionMakeSourceToTargetMap visits below source: it goes down
\* through folders only.
PathsBelow(db, u, source, depth) ==
    LET names == {db[i].name : i \in DOMAIN db} \ {None}
    IN  {source \o rest : rest \in
            {r \in BoundedSeq(names, depth - Len(source)) :
                /\ SelectIdByPath(db, u, source \o r) # 0
                /\ \A k \in 0..Len(r) - 1 :
                      IsFolder(Row(db, SelectIdByPath(db, u, source \o SubSeq(r, 1, k))))}}

\* sourceToTargetMap of the sources with indices in which: a later source
\* overrides an earlier one.
SourceToTarget(db, u, sources, targets, which, depth) ==
    LET below(k) == PathsBelow(db, u, sources[k], depth)
        of(p)    == Max({k \in which : p \in below(k)})
    IN  [p \in UNION {below(k) : k \in which} |->
            targets[of(p)] \o SubSeq(p, Len(sources[of(p)]) + 1, Len(p))]

\* Every order in which Go may range over a map with these keys.
Orders(map) == SetToSeqs(DOMAIN map)

\* makeNameNo
FreeName(db, u, path) ==
    LET parent == SelectIdByPath(db, u, Front(path))
        free   == {k \in DOMAIN NumberedName[Last(path)] :
                      SelectByParentIdAndName(db, u, parent, NumberedName[Last(path)][k]) = 0}
    IN  IF free = {} THEN None ELSE NumberedName[Last(path)][Min(free)]

CopyOne(t, reader, u, source, target, isOverWrite) ==
    LET row == Row(View(t), SelectIdByPath(View(t), reader, source))
    IN  IF IsFolder(row) THEN Mkdirs(t, u, target).t
        ELSE AddAtPath(t, u, row.user, target, row.content, isOverWrite)

CopyInOrder(t, reader, u, map, isOverWrite, order) ==
    FoldLeft(LAMBDA s, p : CopyOne(s, reader, u, p, map[p], isOverWrite), t, order)

CopyAll(t, reader, u, map, isOverWrite) ==
    {CopyInOrder(t, reader, u, map, isOverWrite, order) : order \in Orders(map)}

Found(t, u, sources) == \A k \in DOMAIN sources : SelectIdByPath(t.seen, u, sources[k]) # 0

InFolder(folder, sources) == [k \in DOMAIN sources |-> Append(folder, Last(sources[k]))]

\* What is copied into its own folder gets a number.
CopyTargets(db, u, sources, folder) ==
    [k \in DOMAIN sources |->
        IF Append(folder, Last(sources[k])) = sources[k]
        THEN Append(folder, FreeName(db, u, sources[k])) ELSE Append(folder, Last(sources[k]))]

Copy(t, u, sources, folder, isOverWrite, depth) ==
    LET targets == CopyTargets(t.seen, u, sources, folder)
        map == SourceToTarget(t.seen, u, sources, targets, DOMAIN sources, depth)
    IN  IF Found(t, u, sources) /\ \A k \in DOMAIN sources : Last(targets[k]) # None
        THEN CopyAll(t, u, u, map, isOverWrite)
        ELSE {Fail(t)}

\* The map is made in the name space of the user who saves, the files are
\* looked up in that of the user who shares.
ShareSaveTo(t, sharer, u, sources, folder, depth) ==
    LET map == SourceToTarget(t.seen, u, sources, InFolder(folder, sources), DOMAIN sources,
                              depth)
    IN  IF Found(t, u, sources) THEN CopyAll(t, sharer, u, map, FALSE) ELSE {Fail(t)}

\* Mutant: a file of a folder that is moved lands next to that folder.
MoveOneFlat(m, u, source, target, isOverWrite) ==
    LET id == SelectIdByPath(View(m.t), u, source)
        g  == GetIdByFolder(m.t, u, SubSeq(target, 1, Len(target) - 2))
    IN  IF IsFolder(Row(View(m.t), id))
        THEN [t |-> Mkdirs(m.t, u, target).t, emptied |-> Append(m.emptied, id)]
        ELSE [m EXCEPT !.t = MoveRow(g.t, id, g.folder, Last(target))]

\* m.emptied is afterDeleteFolderList.
MoveOne(m, u, source, target, isOverWrite) ==
    LET db  == View(m.t)
        id  == SelectIdByPath(db, u, source)
        row == Row(db, id)
        g   == GetIdByFolder(m.t, u, Front(target))
        hit == SelectByParentIdAndName(View(g.t), u, g.folder, row.name)
        moved == MoveRow(g.t, id, g.folder, Last(target))
    IN  CASE IsFolder(row) -> [t |-> Mkdirs(m.t, u, target).t, emptied |-> Append(m.emptied, id)]
          [] ~IsFolder(row) /\ hit = 0 -> [m EXCEPT !.t = moved]
          [] OTHER -> [m EXCEPT !.t = IF IsFolder(Row(View(g.t), hit)) \/ ~isOverWrite
                                      THEN Fail(@) ELSE SetHistory(moved, hit)]

MoveInOrder(t, u, map, isOverWrite, order) ==
    FoldLeft(LAMBDA m, p : MoveOne(m, u, p, map[p], isOverWrite),
             [t |-> t, emptied |-> <<>>], order)

DeleteAll(t, ids) == FoldLeft(Delete, t, ids)

Move(t, u, sources, folder, isOverWrite, depth) ==
    LET targets == InFolder(folder, sources)
        moving == {k \in DOMAIN sources : sources[k] # targets[k]}
        map    == SourceToTarget(t.seen, u, sources, targets, moving, depth)
        whole(order) == LET m == MoveInOrder(t, u, map, isOverWrite, order)
                        IN  DeleteAll(m.t, m.emptied)
    IN  IF \/ \E k \in DOMAIN sources : IsSuffix(sources[k], folder)
           \/ \E k \in moving : SelectIdByPath(t.seen, u, sources[k]) = 0
        THEN {Fail(t)}
        ELSE {whole(order) : order \in Orders(map)}

\* Writes back the parent that was read with the row.
Rename(t, u, path, name) ==
    LET id  == SelectIdByPath(t.seen, u, path)
        row == Row(t.seen, id)
        hit == SelectByParentIdAndName(t.seen, u, row.parent, name)
    IN  IF id = 0 \/ hit \notin {0, id} THEN Fail(t)
        ELSE MoveRow(t, id, row.parent, name)

DeletePath(t, u, p) ==
    LET id == SelectIdByPath(View(t), u, p)
    IN  IF id = 0 THEN Fail(t) ELSE SetDelete(t, id)

DeleteByPath(t, u, paths) == FoldLeft(LAMBDA s, p : DeletePath(s, u, p), t, paths)

DeleteId(t, u, i) == IF Row(View(t), i).user # u THEN Fail(t) ELSE SetDelete(t, i)

DeleteById(t, u, ids) == FoldLeft(LAMBDA s, i : DeleteId(s, u, i), t, ids)

RecoverId(t, u, i) ==
    LET row == Row(View(t), i)
    IN  IF \/ row.user # u
           \/ SelectByParentIdAndName(View(t), u, row.parent, row.name) # 0
        THEN Fail(t) ELSE SetNotDelete(t, i)

TrashRecover(t, u, ids) == FoldLeft(LAMBDA s, i : RecoverId(s, u, i), t, ids)

(***************************************************************************)
(* DfsFileDeleteService: the calls of deleteFolder, deleteSelfAndExtra and *)
(* addDelete that are under way, innermost first, are the frames of work.  *)
(***************************************************************************)
\* Mutant: what is in the folder is forgotten.
FrameOnly(db, i, row) ==
    [id |-> i, folder |-> IsFolder(row), kids |-> {}, binned |-> FALSE]

\* What is left to do for a row: the rows below it as they were listed, then
\* the row itself.
Frame(db, i, row) ==
    LET below == CASE IsFolder(row) -> SelectAllChildList(db, i)
                   [] ~IsFolder(row) /\ row.extra -> {}
                   [] ~IsFolder(row) /\ ~row.extra -> SelectExtraListById(db, i)
    IN  [id |-> i, folder |-> IsFolder(row),
         kids |-> {<<k, db[k]>> : k \in below}, binned |-> FALSE]

\* AddDelete begins with an id; one without a row has the id 0 and passes for
\* a folder.
FirstFrame(db, i) == LET id == IF i \in DOMAIN db THEN i ELSE 0
                     IN  Frame(db, id, Row(db, id))

NextKid(frame) == CHOOSE k \in frame.kids : \A j \in frame.kids : k[1] <= j[1]

Descend(db, work) ==
    LET kid == NextKid(Head(work))
    IN  <<Frame(db, kid[1], kid[2]), [Head(work) EXCEPT !.kids = @ \ {kid}]>> \o Tail(work)

Binned(work) == <<[Head(work) EXCEPT !.binned = TRUE]>> \o Tail(work)

\* What is next: a row below, the row in dfs_file_delete, or its deletion.
Descends(work) == work # <<>> /\ Head(work).kids # {}
Inserts(work)  == work # <<>> /\ Head(work).kids = {} /\ ~Head(work).folder /\ ~Head(work).binned
Removes(work)  == work # <<>> /\ Head(work).kids = {} /\ (Head(work).folder \/ Head(work).binned)

DeleteStep(m) ==
    CASE Descends(m.work) -> [m EXCEPT !.work = Descend(View(m.t), @)]
      [] Inserts(m.work)  -> [t |-> InsertDelete(m.t, Head(m.work).id), work |-> Binned(m.work)]
      [] Removes(m.work)  -> [t |-> Delete(m.t, Head(m.work).id), work |-> Tail(m.work)]
      [] m.work = <<>>    -> m

\* Three steps for a row, which may be listed once before the first write and
\* once after it; what does not end by then never does.
DeleteOne(t, i) ==
    LET m == FoldLeft(LAMBDA s, k : DeleteStep(s),
                      [t |-> t, work |-> <<FirstFrame(View(t), i)>>],
                      [k \in 1..6 * t.next |-> k])
    IN  IF m.work = <<>> THEN m.t ELSE Fail(m.t)

AddDelete(t, ids) == FoldLeft(DeleteOne, t, ids)

LogicDelete(t, u, ids) ==
    IF \E k \in DOMAIN ids : LET row == Row(t.seen, ids[k])
                             IN  row.user # u \/ row.trashed = 0
    THEN Fail(t) ELSE AddDelete(t, ids)
=============================================================================
