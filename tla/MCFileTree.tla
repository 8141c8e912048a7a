----------------------------- MODULE MCFileTree -----------------------------
(***************************************************************************)
(* Instances of FileTree: what the clients of each run ask for.            *)
(***************************************************************************)
EXTENDS FileTree

CONSTANTS x, y

One == 1
Numbered == [n \in {"A", "B", "f", "g"} |->
                CASE n = "A" -> <<"B">> [] n = "B" -> <<"A">>
                  [] n = "f" -> <<"g">> [] n = "g" -> <<"f">>]

Put(op, u, paths, contents) ==
    [op: {op}, user: {u}, path: paths, content: contents]
NewFolder(u, paths) == [op: {"CreateFolder"}, user: {u}, path: paths]
NewName(u, paths, names) == [op: {"Rename"}, user: {u}, path: paths, name: names]
Transfer(op, u, sources, folders, over) ==
    [op: {op}, user: {u}, paths: {<<p>> : p \in sources}, folder: folders, over: over]
ToTrash(u, paths) == [op: {"Delete"}, user: {u}, paths: {<<p>> : p \in paths}]
ByIds(op, u, count) == [op: {op}, user: {u}, count: {count}]

\* Everything but Move and Rename, which leave old versions behind.
SerialRequests ==
    Put("ByMd5", 1, {<<"f">>}, {x, y}) \cup Put("ByMd5", 1, {<<"A", "f">>}, {y})
    \cup NewFolder(1, {<<"A">>})
    \cup Transfer("Copy", 1, {<<"f">>}, {<<>>, <<"A">>}, BOOLEAN)
    \cup Transfer("Copy", 1, {<<"A">>}, {<<>>}, {FALSE})
    \cup ToTrash(1, {<<"f">>, <<"A">>, <<"A", "f">>})
    \cup ByIds("DeleteByIds", 1, 1)
    \cup ByIds("TrashRecover", 1, 1) \cup ByIds("LogicDelete", 1, 1)

\* Moves of files and of folders, into folders that exist or not.
MoveRequests ==
    Put("ByMd5", 1, {<<"f">>, <<"A", "f">>}, {x}) \cup Put("ByMd5", 1, {<<"B", "f">>}, {y})
    \cup NewFolder(1, {<<"A">>, <<"B">>})
    \cup Transfer("Move", 1, {<<"f">>, <<"A">>}, {<<"B">>}, {TRUE})
    \cup Transfer("Move", 1, {<<"A", "f">>, <<"B", "A">>}, {<<>>}, {FALSE})
    \cup NewName(1, {<<"A">>}, {"B"}) \cup NewName(1, {<<"f">>}, {"g"})

\* Requests that meet: nothing is deleted for good, moved or renamed.
RaceRequests ==
    Put("ByMd5", 1, {<<"f">>, <<"A", "f">>}, {x, y})
    \cup Put("Upload", 1, {<<"A", "f">>}, {x})
    \cup NewFolder(1, {<<"A">>})
    \cup Transfer("Copy", 1, {<<"f">>}, {<<"A">>}, {TRUE})
    \cup ToTrash(1, {<<"A">>, <<"f">>})
    \cup ByIds("TrashRecover", 1, 1)

\* Moves and deletions for the timer, of a file or of a folder with what is in
\* it, but never of a file in a folder that is deleted as well.
TimerRequests ==
    Put("ByMd5", 1, {<<"f">>}, {y}) \cup Put("ByMd5", 1, {<<"A", "f">>}, {x})
    \cup Transfer("Move", 1, {<<"A", "f">>}, {<<>>}, {TRUE})
    \cup Transfer("Move", 1, {<<"A">>}, {<<"B">>}, {TRUE})
    \cup ToTrash(1, {<<"f">>, <<"A">>})

\* Two users; one deletes a file in a folder, then the folder; then the timer
\* comes, or the user deletes both for good.
ExpiredRequests ==
    Put("ByMd5", 1, {<<"A", "f">>}, {x}) \cup Put("ByMd5", 2, {<<"f">>}, {y})
    \cup ToTrash(1, {<<"A">>, <<"A", "f">>})
NestedRequests == ExpiredRequests \cup ByIds("LogicDelete", 1, 2)

RestoreRequests ==
    Put("ByMd5", 1, {<<"f">>}, {x}) \cup ToTrash(1, {<<"f">>})
    \cup ByIds("TrashRecover", 1, 1)

VersionRequests ==
    Put("ByMd5", 1, {<<"f">>}, {x, y})
    \cup Transfer("Move", 1, {<<"f">>}, {<<"A">>}, {FALSE})

\* A folder is moved while something is put into it.
MovedFolderRequests ==
    Put("ByMd5", 1, {<<"A", "f">>, <<"A", "g">>}, {x})
    \cup Transfer("Move", 1, {<<"A">>}, {<<"B">>}, {FALSE})

SaveRequests ==
    Put("ByMd5", 1, {<<"f">>}, {x}) \cup Put("ByMd5", 2, {<<"f">>}, {y})
    \cup [op: {"SaveTo"}, sharer: {1}, user: {2}, paths: {<<<<"f">>>>}, folder: {<<"A">>}]
=============================================================================
