--------------------------- MODULE RequestsProofs ---------------------------
(***************************************************************************)
(* For any connections, forms, tables, requests and crashes: a controller  *)
(* runs only after the validations its route is annotated with, what a     *)
(* goroutine keeps is of the request it serves, and what others see of     *)
(* users and sessions changes only by whole operations: Requests           *)
(* implements Accounts.                                                    *)
(*                                                                         *)
(* The statements of a controller are a program.  While its goroutine      *)
(* holds the lock of SQLite, the tables it sees are what the statements    *)
(* it has run make of the committed ones, which nobody else changes; so a  *)
(* commit is the whole program in one step.                                *)
(***************************************************************************)
EXTENDS Requests, TLAPS, FiniteSetTheorems

-----------------------------------------------------------------------------
(* The routes, by the interceptors that run before them.                   *)

Endings == {Closing, ClosingPage}

IsOpen(r) ==
    /\ r.before = Open /\ r.after \in Endings
    /\ r.at[1] # "distributed" /\ (r.at[1] = "app" => r.at[2] \in OpenPages)
IsLoggedIn(r) ==
    /\ r.before = LoggedIn /\ r.after \in Endings
    /\ r.at[1] # "distributed" /\ r.at[2] \notin AdminPages
IsAdminOnly(r) ==
    /\ r.before = AdminOnly /\ r.after \in Endings /\ r.at[1] = "app"
IsPeers(r) ==
    /\ r.before = Peers /\ r.after \in Endings /\ r.at[1] = "distributed"
Shaped(r) == IsOpen(r) \/ IsLoggedIn(r) \/ IsAdminOnly(r) \/ IsPeers(r)

\* That the form is checked changes none of it.
LEMMA CheckedKeeps ==
    ASSUME NEW verbs, NEW area, NEW page, NEW op, NEW chain, NEW ending
    PROVE  LET r == Route(verbs, area, page, op, chain, ending)
           IN  /\ IsOpen(r) => IsOpen(Checked(r))
               /\ IsLoggedIn(r) => IsLoggedIn(Checked(r))
               /\ IsAdminOnly(r) => IsAdminOnly(Checked(r))
BY DEF Checked, IsOpen, IsLoggedIn, IsAdminOnly, Route

LEMMA LoggedInRoutes ==
    IsLoggedIn(AboutHtml) /\ IsLoggedIn(FileUploadGetUploadedSize) /\
    IsLoggedIn(FileUploadCheckExistsByMd5) /\ IsLoggedIn(FileUploadByMd5)
    /\ IsLoggedIn(FileUploadByStream) /\ IsLoggedIn(FileUploadUpload) /\
    IsLoggedIn(FilesDownloadByHistory) /\ IsLoggedIn(FilesGetList) /\
    IsLoggedIn(FilesThumbOnline) /\ IsLoggedIn(FilesGetExtraKeys) /\
    IsLoggedIn(FilesGetAlbumList) /\ IsLoggedIn(FilesRename) /\
    IsLoggedIn(FilesDelete) /\ IsLoggedIn(FilesCreateFolder) /\
    IsLoggedIn(FilesMove) /\ IsLoggedIn(FilesSetContentType) /\
    IsLoggedIn(FilesExtra) /\ IsLoggedIn(FilesThumb) /\
    IsLoggedIn(FilesDownload) /\ IsLoggedIn(FilesShare) /\
    IsLoggedIn(FilesDeleteByIds) /\ IsLoggedIn(FilesCopy) /\
    IsLoggedIn(FilesPreview) /\ IsLoggedIn(FilesHtml) /\
    IsLoggedIn(FilesGetAlbumListV2) /\ IsLoggedIn(FilesGetPropertyV2) /\
    IsLoggedIn(FilesGetProperty) /\ IsLoggedIn(FolderSelectorGetList) /\
    IsLoggedIn(MineMakeEncryption) /\ IsLoggedIn(MineHtml) /\
    IsLoggedIn(MineInit) /\ IsLoggedIn(MineMakeApiToken) /\
    IsLoggedIn(MineMakeUrlPath) /\ IsLoggedIn(ModifyPwdModify) /\
    IsLoggedIn(ModifyPwdHtml) /\ IsLoggedIn(MyShareGetList) /\
    IsLoggedIn(MyShareGetDetail) /\ IsLoggedIn(MyShareDelete) /\
    IsLoggedIn(MyShareHtml) /\ IsLoggedIn(TrashTrashRecover) /\
    IsLoggedIn(TrashLogicDelete) /\ IsLoggedIn(TrashGetList) /\
    IsLoggedIn(TrashHtml) /\ IsLoggedIn(TrashRecycleStorage)
<1>1.
    IsLoggedIn(AboutHtml) /\ IsLoggedIn(FileUploadGetUploadedSize) /\
    IsLoggedIn(FileUploadCheckExistsByMd5) /\ IsLoggedIn(FileUploadByMd5)
    /\ IsLoggedIn(FileUploadByStream) /\ IsLoggedIn(FileUploadUpload) /\
    IsLoggedIn(FilesDownloadByHistory) /\ IsLoggedIn(FilesGetList) /\
    IsLoggedIn(FilesThumbOnline) /\ IsLoggedIn(FilesGetExtraKeys) /\
    IsLoggedIn(FilesGetAlbumList) /\ IsLoggedIn(FilesRename)
  BY DEF IsLoggedIn, Endings, OpenPages, AdminPages, Route, Get, Post, Both, Page,
         AboutHtml, FileUploadGetUploadedSize, FileUploadCheckExistsByMd5,
         FileUploadByMd5, FileUploadByStream, FileUploadUpload,
         FilesDownloadByHistory, FilesGetList, FilesThumbOnline,
         FilesGetExtraKeys, FilesGetAlbumList, FilesRename
<1>2.
    IsLoggedIn(FilesDelete) /\ IsLoggedIn(FilesCreateFolder) /\
    IsLoggedIn(FilesMove) /\ IsLoggedIn(FilesSetContentType) /\
    IsLoggedIn(FilesExtra) /\ IsLoggedIn(FilesThumb) /\
    IsLoggedIn(FilesDownload) /\ IsLoggedIn(FilesDeleteByIds) /\
    IsLoggedIn(FilesCopy) /\ IsLoggedIn(FilesPreview) /\
    IsLoggedIn(FilesHtml) /\ IsLoggedIn(FilesGetAlbumListV2)
  BY DEF IsLoggedIn, Endings, OpenPages, AdminPages, Route, Get, Post, Both, Page,
         FilesDelete, FilesCreateFolder, FilesMove, FilesSetContentType,
         FilesExtra, FilesThumb, FilesDownload, FilesDeleteByIds, FilesCopy,
         FilesPreview, FilesHtml, FilesGetAlbumListV2
<1>3.
    IsLoggedIn(FilesGetPropertyV2) /\ IsLoggedIn(FilesGetProperty) /\
    IsLoggedIn(FolderSelectorGetList) /\ IsLoggedIn(MineMakeEncryption) /\
    IsLoggedIn(MineHtml) /\ IsLoggedIn(MineInit) /\
    IsLoggedIn(MineMakeApiToken) /\ IsLoggedIn(MineMakeUrlPath) /\
    IsLoggedIn(ModifyPwdHtml) /\ IsLoggedIn(MyShareGetList) /\
    IsLoggedIn(MyShareGetDetail) /\ IsLoggedIn(MyShareDelete)
  BY DEF IsLoggedIn, Endings, OpenPages, AdminPages, Route, Get, Post, Both, Page,
         FilesGetPropertyV2, FilesGetProperty, FolderSelectorGetList,
         MineMakeEncryption, MineHtml, MineInit, MineMakeApiToken,
         MineMakeUrlPath, ModifyPwdHtml, MyShareGetList, MyShareGetDetail,
         MyShareDelete
<1>4.
    IsLoggedIn(MyShareHtml) /\ IsLoggedIn(TrashTrashRecover) /\
    IsLoggedIn(TrashLogicDelete) /\ IsLoggedIn(TrashGetList) /\
    IsLoggedIn(TrashHtml) /\ IsLoggedIn(TrashRecycleStorage)
  BY DEF IsLoggedIn, Endings, OpenPages, AdminPages, Route, Get, Post, Both, Page,
         MyShareHtml, TrashTrashRecover, TrashLogicDelete, TrashGetList,
         TrashHtml, TrashRecycleStorage
<1>5. IsLoggedIn(Post("app", "files", "share", LoggedIn))
  BY DEF IsLoggedIn, Endings, OpenPages, AdminPages, Route, Post
<1>6. IsLoggedIn(FilesShare)
  BY <1>5, CheckedKeeps DEF FilesShare, Post
<1>7. IsLoggedIn(Post("app", "modify_pwd", "modify", LoggedIn))
  BY DEF IsLoggedIn, Endings, OpenPages, AdminPages, Route, Post
<1>8. IsLoggedIn(ModifyPwdModify)
  BY <1>7, CheckedKeeps DEF ModifyPwdModify, Post
<1> QED
  BY <1>1, <1>2, <1>3, <1>4, <1>6, <1>8

LEMMA AdminOnlyRoutes ==
    IsAdminOnly(AdvancedExecSql) /\ IsAdminOnly(AdvancedInit) /\
    IsAdminOnly(AdvancedUsedSize) /\ IsAdminOnly(AdvancedDBBackup) /\
    IsAdminOnly(AdvancedReHandle) /\ IsAdminOnly(AdvancedValidateFileMD5)
    /\ IsAdminOnly(AdvancedHtml) /\ IsAdminOnly(AdvancedRecycleNow) /\
    IsAdminOnly(AdvancedResetData) /\ IsAdminOnly(ProfileHtml) /\
    IsAdminOnly(ProfileInit) /\ IsAdminOnly(ProfileUpdate) /\
    IsAdminOnly(ProfileMakeToken) /\ IsAdminOnly(SyncByTable) /\
    IsAdminOnly(SyncHtml) /\ IsAdminOnly(SyncInfoList) /\
    IsAdminOnly(SyncInfo) /\ IsAdminOnly(SyncBySync) /\
    IsAdminOnly(UserEditHtml) /\ IsAdminOnly(UserListHtml) /\
    IsAdminOnly(UserEditInit) /\ IsAdminOnly(UserListInit) /\
    IsAdminOnly(UserEdit)
<1>1.
    IsAdminOnly(AdvancedExecSql) /\ IsAdminOnly(AdvancedInit) /\
    IsAdminOnly(AdvancedUsedSize) /\ IsAdminOnly(AdvancedDBBackup) /\
    IsAdminOnly(AdvancedReHandle) /\ IsAdminOnly(AdvancedValidateFileMD5)
    /\ IsAdminOnly(AdvancedHtml) /\ IsAdminOnly(AdvancedRecycleNow) /\
    IsAdminOnly(AdvancedResetData) /\ IsAdminOnly(ProfileHtml) /\
    IsAdminOnly(ProfileInit) /\ IsAdminOnly(ProfileMakeToken)
  BY DEF IsAdminOnly, Endings, OpenPages, AdminPages, Route, Get, Post, Both, Page,
         AdvancedExecSql, AdvancedInit, AdvancedUsedSize, AdvancedDBBackup,
         AdvancedReHandle, AdvancedValidateFileMD5, AdvancedHtml,
         AdvancedRecycleNow, AdvancedResetData, ProfileHtml, ProfileInit,
         ProfileMakeToken
<1>2.
    IsAdminOnly(SyncByTable) /\ IsAdminOnly(SyncHtml) /\
    IsAdminOnly(SyncInfoList) /\ IsAdminOnly(SyncInfo) /\
    IsAdminOnly(SyncBySync) /\ IsAdminOnly(UserEditHtml) /\
    IsAdminOnly(UserListHtml) /\ IsAdminOnly(UserEditInit) /\
    IsAdminOnly(UserListInit)
  BY DEF IsAdminOnly, Endings, OpenPages, AdminPages, Route, Get, Post, Both, Page,
         SyncByTable, SyncHtml, SyncInfoList, SyncInfo, SyncBySync,
         UserEditHtml, UserListHtml, UserEditInit, UserListInit
<1>3. IsAdminOnly(Post("app", "profile", "update", AdminOnly))
  BY DEF IsAdminOnly, Endings, OpenPages, AdminPages, Route, Post
<1>4. IsAdminOnly(ProfileUpdate)
  BY <1>3, CheckedKeeps DEF ProfileUpdate, Post
<1>5. IsAdminOnly(Post("app", "user_edit", "edit", AdminOnly))
  BY DEF IsAdminOnly, Endings, OpenPages, AdminPages, Route, Post
<1>6. IsAdminOnly(UserEdit)
  BY <1>5, CheckedKeeps DEF UserEdit, Post
<1> QED
  BY <1>1, <1>2, <1>4, <1>6

LEMMA OpenRoutes ==
    IsOpen(AppIndex) /\ IsOpen(CreateAdminAddAdmin) /\
    IsOpen(CreateAdminInit) /\ IsOpen(DirectoryDownload) /\
    IsOpen(ExiftoolProgress) /\ IsOpen(ExiftoolHtml) /\
    IsOpen(ExiftoolInstall) /\ IsOpen(ExiftoolRecycle) /\
    IsOpen(FfmpegInstall) /\ IsOpen(FfmpegProgress) /\
    IsOpen(FfmpegRecycle) /\ IsOpen(FfmpegHtml) /\ IsOpen(FfprobeProgress)
    /\ IsOpen(FfprobeHtml) /\ IsOpen(FfprobeInstall) /\
    IsOpen(FfprobeRecycle) /\ IsOpen(InstallDistributedHtml) /\
    IsOpen(InstallDistributedSet) /\ IsOpen(LibrawInstall) /\
    IsOpen(LibrawRecycle) /\ IsOpen(LibrawHtml) /\ IsOpen(LibrawProgress)
    /\ IsOpen(LoginInit) /\ IsOpen(LoginDoLogin) /\ IsOpen(LoginLogout) /\
    IsOpen(MagickHtml) /\ IsOpen(MagickProgress) /\ IsOpen(MagickInstall)
    /\ IsOpen(MagickRecycle) /\ IsOpen(SetStorageHtml) /\
    IsOpen(SetStorageSet) /\ IsOpen(ShareInit) /\ IsOpen(SharePwd) /\
    IsOpen(ShareValidPwd) /\ IsOpen(ShareSaveTo) /\ IsOpen(ShareGetList)
    /\ IsOpen(ShareDownload) /\ IsOpen(ShareThumb)
<1>1.
    IsOpen(AppIndex) /\ IsOpen(CreateAdminAddAdmin) /\
    IsOpen(CreateAdminInit) /\ IsOpen(DirectoryDownload) /\
    IsOpen(ExiftoolProgress) /\ IsOpen(ExiftoolHtml) /\
    IsOpen(ExiftoolInstall) /\ IsOpen(ExiftoolRecycle) /\
    IsOpen(FfmpegInstall) /\ IsOpen(FfmpegProgress) /\
    IsOpen(FfmpegRecycle) /\ IsOpen(FfmpegHtml)
  BY DEF IsOpen, Endings, OpenPages, AdminPages, Route, Get, Post, Both, Page,
         AppIndex, CreateAdminAddAdmin, CreateAdminInit, DirectoryDownload,
         ExiftoolProgress, ExiftoolHtml, ExiftoolInstall, ExiftoolRecycle,
         FfmpegInstall, FfmpegProgress, FfmpegRecycle, FfmpegHtml
<1>2.
    IsOpen(FfprobeProgress) /\ IsOpen(FfprobeHtml) /\
    IsOpen(FfprobeInstall) /\ IsOpen(FfprobeRecycle) /\
    IsOpen(InstallDistributedHtml) /\ IsOpen(InstallDistributedSet) /\
    IsOpen(LibrawInstall) /\ IsOpen(LibrawRecycle) /\ IsOpen(LibrawHtml)
    /\ IsOpen(LibrawProgress) /\ IsOpen(LoginInit) /\ IsOpen(LoginLogout)
  BY DEF IsOpen, Endings, OpenPages, AdminPages, Route, Get, Post, Both, Page,
         FfprobeProgress, FfprobeHtml, FfprobeInstall, FfprobeRecycle,
         InstallDistributedHtml, InstallDistributedSet, LibrawInstall,
         LibrawRecycle, LibrawHtml, LibrawProgress, LoginInit, LoginLogout
<1>3.
    IsOpen(MagickHtml) /\ IsOpen(MagickProgress) /\ IsOpen(MagickInstall)
    /\ IsOpen(MagickRecycle) /\ IsOpen(SetStorageHtml) /\
    IsOpen(SetStorageSet) /\ IsOpen(ShareInit) /\ IsOpen(SharePwd) /\
    IsOpen(ShareValidPwd) /\ IsOpen(ShareSaveTo) /\ IsOpen(ShareGetList)
    /\ IsOpen(ShareDownload)
  BY DEF IsOpen, Endings, OpenPages, AdminPages, Route, Get, Post, Both, Page,
         MagickHtml, MagickProgress, MagickInstall, MagickRecycle,
         SetStorageHtml, SetStorageSet, ShareInit, SharePwd, ShareValidPwd,
         ShareSaveTo, ShareGetList, ShareDownload
<1>4.
    IsOpen(ShareThumb)
  BY DEF IsOpen, Endings, OpenPages, AdminPages, Route, Get, Post, Both, Page,
         ShareThumb
<1>5. IsOpen(Post("app", "login", "do_login", Open))
  BY DEF IsOpen, Endings, OpenPages, AdminPages, Route, Post
<1>6. IsOpen(LoginDoLogin)
  BY <1>5, CheckedKeeps DEF LoginDoLogin, Post
<1> QED
  BY <1>1, <1>2, <1>3, <1>4, <1>6

LEMMA PeersRoutes ==
    IsPeers(DistributedListen) /\ IsPeers(DistributedGetLog) /\
    IsPeers(DistributedGetAopId) /\ IsPeers(DistributedGetTableCount) /\
    IsPeers(DistributedGetTableDataBk) /\ IsPeers(DistributedGetTableData)
    /\ IsPeers(DistributedDownload)
<1>1.
    IsPeers(DistributedListen) /\ IsPeers(DistributedGetLog) /\
    IsPeers(DistributedGetAopId) /\ IsPeers(DistributedGetTableCount) /\
    IsPeers(DistributedGetTableDataBk) /\ IsPeers(DistributedGetTableData)
    /\ IsPeers(DistributedDownload)
  BY DEF IsPeers, Endings, OpenPages, AdminPages, Route, Get, Post, Both, Page,
         DistributedListen, DistributedGetLog, DistributedGetAopId,
         DistributedGetTableCount, DistributedGetTableDataBk,
         DistributedGetTableData, DistributedDownload
<1> QED
  BY <1>1

LEMMA RoutesAreShaped == \A r \in Routes : Shaped(r)
BY OpenRoutes, LoggedInRoutes, AdminOnlyRoutes, PeersRoutes DEF Routes, Shaped

\* The interceptors before a route make up for its annotations.
LEMMA Guarded ==
    ASSUME NEW r, Shaped(r) PROVE Annotated(r) \subseteq ToSet(r.before)
<1>1. CASE IsOpen(r)
  BY <1>1 DEF IsOpen, Annotated, Open, ToSet, OpenPages, AdminPages
<1>2. CASE IsLoggedIn(r)
  BY <1>2 DEF IsLoggedIn, Annotated, LoggedIn, ToSet
<1>3. CASE IsAdminOnly(r)
  BY <1>3 DEF IsAdminOnly, Annotated, AdminOnly, ToSet
<1>4. CASE IsPeers(r)
  BY <1>4 DEF IsPeers, Annotated, Peers, ToSet, AdminPages
<1> QED
  BY <1>1, <1>2, <1>3, <1>4 DEF Shaped

\* What runs before is a chain of at least one interceptor; what runs after
\* begins with the commit.
LEMMA ChainIs ==
    ASSUME NEW r, Shaped(r)
    PROVE  /\ Len(r.before) \in Nat /\ DOMAIN r.before = 1..Len(r.before)
           /\ r.after[1] = "Commit"
BY DEF Shaped, IsOpen, IsLoggedIn, IsAdminOnly, IsPeers, Open, LoggedIn, AdminOnly,
       Peers, Endings, Closing, ClosingPage

-----------------------------------------------------------------------------
(* The inductive invariant.                                                *)

IsLocal(l) ==
    l = [manual |-> l.manual, begun |-> l.begun, tx |-> l.tx, user |-> l.user]

\* Goroutine g of a route r, that is at p and a, keeps l, has passed s; k
\* holds the lock.
\* - on its way through the interceptors it has passed those behind it;
\* - the user is known only after LoginValidate;
\* - there is a transaction only in the controller and up to the commit,
\*   and only with one the lock is held.
OwnOf(g, p, r, a, l, s, k) ==
    /\ r \in Routes /\ a \in Nat \ {0} /\ IsLocal(l)
    /\ p = "before" => \A i \in DOMAIN r.before : i < a => r.before[i] \in s
    /\ p \in {"call", "body"} => ToSet(r.before) \subseteq s
    /\ p = "idle" => l = Empty
    /\ l.user # 0 => "LoginValidate" \in s
    /\ l.tx # None => p \in {"body", "gone"} \/ (p = "after" /\ a = 1)
    /\ k = g => l.tx = "open"
Own(g) == OwnOf(g, pc[g], req[g].route, at[g], local[g], passed[g], lock)

Functions == /\ DOMAIN pc = Conn /\ DOMAIN req = Conn /\ DOMAIN at = Conn
             /\ DOMAIN local = Conn /\ DOMAIN passed = Conn

IInv == Functions /\ \A g \in Conn : Own(g)

LEMMA InvImplies == IInv => GuardedAsAnnotated /\ LocalsAreOwn
<1> SUFFICES ASSUME IInv, NEW g \in Conn
             PROVE  /\ pc[g] \in {"call", "body"} =>
                          Annotated(req[g].route) \subseteq passed[g]
                    /\ pc[g] = "idle" => local[g] = Empty /\ lock # g
                    /\ local[g].user # 0 => "LoginValidate" \in passed[g]
  BY DEF GuardedAsAnnotated, LocalsAreOwn
<1>1. Shaped(req[g].route)
  BY RoutesAreShaped DEF IInv, Own, OwnOf
<1>2. pc[g] \in {"call", "body"} => Annotated(req[g].route) \subseteq passed[g]
  BY <1>1, Guarded DEF IInv, Own, OwnOf
<1>3. pc[g] = "idle" => local[g] = Empty /\ lock # g
  BY DEF IInv, Own, OwnOf, Empty, None
<1> QED
  BY <1>2, <1>3 DEF IInv, Own, OwnOf

LEMMA InitIInv == Init => IInv
<1> SUFFICES ASSUME Init PROVE IInv
  OBVIOUS
<1>1. NoReq.route \in Routes
  BY DEF NoReq, Routes
<1>2. IsLocal(Empty) /\ Empty.user = 0 /\ Empty.tx = None
  BY DEF IsLocal, Empty
<1>3. Functions
  BY DEF Init, Functions
<1> QED
  BY <1>1, <1>2, <1>3, ConnAssumption DEF Init, IInv, Own, OwnOf, None

\* A step of g leaves the others as they are, and takes the lock from nobody.
LEMMA Frame ==
    ASSUME IInv, NEW g \in Conn, Functions',
           \A h \in Conn \ {g} :
              /\ pc'[h] = pc[h] /\ req'[h] = req[h] /\ at'[h] = at[h]
              /\ local'[h] = local[h] /\ passed'[h] = passed[h]
              /\ lock' = h => lock = h,
           OwnOf(g, pc'[g], req'[g].route, at'[g], local'[g], passed'[g], lock')
    PROVE  IInv'
<1> SUFFICES ASSUME NEW h \in Conn \ {g} PROVE Own(h)'
  BY DEF IInv, Own
<1>1. Own(h)
  BY DEF IInv
<1> QED
  BY <1>1 DEF Own, OwnOf

\* The fields of what a goroutine keeps: each is set without the others.
LEMMA SetManual ==
    ASSUME NEW l, IsLocal(l), NEW v, NEW m, m = [l EXCEPT !.manual = v]
    PROVE  IsLocal(m) /\ m.user = l.user /\ m.tx = l.tx
BY DEF IsLocal

LEMMA SetUser ==
    ASSUME NEW l, IsLocal(l), NEW v, NEW m, m = [l EXCEPT !.user = v]
    PROVE  IsLocal(m) /\ m.user = v /\ m.tx = l.tx
BY DEF IsLocal

LEMMA SetBegun ==
    ASSUME NEW l, IsLocal(l), NEW v, NEW m, m = [l EXCEPT !.begun = v]
    PROVE  IsLocal(m) /\ m.user = l.user /\ m.tx = l.tx
BY DEF IsLocal

LEMMA SetTx ==
    ASSUME NEW l, IsLocal(l), NEW v, NEW m, m = [l EXCEPT !.tx = v]
    PROVE  IsLocal(m) /\ m.user = l.user /\ m.tx = v
BY DEF IsLocal

-----------------------------------------------------------------------------
(* The steps.                                                              *)

\* The handler returns or panics, in any of its phases.
LEMMA LeaveStep ==
    ASSUME IInv, NEW g \in Conn, pc[g] \in {"before", "call", "body"},
           NEW result, Leave(g, result), UNCHANGED local, lock' \in {lock, g},
           lock' = g => local[g].tx = "open"
    PROVE  IInv'
<1>1. Functions'
  BY DEF IInv, Functions, Leave
<1>2. Own(g)
  BY DEF IInv
<1>3. OwnOf(g, pc'[g], req'[g].route, at'[g], local'[g], passed'[g], lock')
  BY <1>2 DEF Own, OwnOf, Leave, IInv, Functions
<1> QED
  BY <1>1, <1>3, Frame DEF Leave, IInv, Functions

LEMMA PassStep ==
    ASSUME IInv, NEW g \in Conn, NEW name, Before(g, name), Pass(g),
           DOMAIN local' = Conn, UNCHANGED lock,
           \A h \in Conn \ {g} : local'[h] = local[h],
           IsLocal(local'[g]), local'[g].tx = local[g].tx,
           local'[g].user # local[g].user => name = "LoginValidate"
    PROVE  IInv'
<1>1. Functions'
  BY DEF IInv, Functions, Pass
<1>2. Own(g) /\ pc[g] = "before"
  BY DEF IInv, Before
<1>3. /\ pc'[g] = "before" /\ req'[g] = req[g] /\ at'[g] = at[g] + 1
      /\ passed'[g] = passed[g] \cup {name}
  BY <1>2 DEF IInv, Functions, Pass, Before
<1>4. \A i \in DOMAIN req[g].route.before : i < at[g] + 1 =>
         req[g].route.before[i] \in passed'[g]
  <2>1. Shaped(req[g].route)
    BY <1>2, RoutesAreShaped DEF Own, OwnOf
  <2> QED
    BY <2>1, <1>2, <1>3, ChainIs DEF Own, OwnOf, Before
<1>5. OwnOf(g, pc'[g], req'[g].route, at'[g], local'[g], passed'[g], lock')
  BY <1>2, <1>3, <1>4 DEF Own, OwnOf
<1> QED
  BY <1>1, <1>5, Frame DEF Pass, IInv, Functions

LEMMA ValidatesStep ==
    ASSUME IInv, NEW g \in Conn, Validates(g)
    PROVE  IInv'
<1>1. Own(g) /\ DOMAIN local = Conn /\ IsLocal(local[g])
  BY DEF IInv, Functions, Own, OwnOf
<1>2. CASE StartTransaction(g)
  <2>1. local'[g] = [local[g] EXCEPT !.manual = TRUE]
    BY <1>1, <1>2 DEF StartTransaction
  <2>2. IsLocal(local'[g]) /\ local'[g].user = local[g].user /\ local'[g].tx = local[g].tx
    BY <1>1, <2>1, SetManual
  <2> QED
    BY <1>1, <1>2, <2>2, PassStep DEF StartTransaction, store
<1>3. CASE LoginValidate(g)
  <2>1. PICK user : user = Bearer(db, req[g].token)
    OBVIOUS
  <2>2. CASE local' = [local EXCEPT ![g].user = user] /\ Pass(g)
    <3>1. local'[g] = [local[g] EXCEPT !.user = user]
      BY <1>1, <2>2
    <3>2. IsLocal(local'[g]) /\ local'[g].tx = local[g].tx
      BY <1>1, <3>1, SetUser
    <3> QED
      BY <1>1, <1>3, <2>2, <3>2, PassStep DEF LoginValidate, store
  <2>3. CASE UNCHANGED local /\ \E result : Leave(g, result)
    BY <1>1, <1>3, <2>3, LeaveStep DEF LoginValidate, Before, store, Own, OwnOf
  <2> QED
    BY <1>3, <2>1, <2>2, <2>3 DEF LoginValidate
<1>4. CASE AdminValidate(g)
  <2>1. CASE Pass(g)
    BY <1>1, <1>4, <2>1, PassStep DEF AdminValidate, store, Own, OwnOf
  <2>2. CASE \E result : Leave(g, result)
    BY <1>1, <1>4, <2>2, LeaveStep DEF AdminValidate, Before, store, Own, OwnOf
  <2> QED
    BY <1>4, <2>1, <2>2 DEF AdminValidate
<1>5. CASE DistributedValidate(g)
  <2>1. CASE Pass(g)
    BY <1>1, <1>5, <2>1, PassStep DEF DistributedValidate, store, Own, OwnOf
  <2>2. CASE \E result : Leave(g, result)
    BY <1>1, <1>5, <2>2, LeaveStep DEF DistributedValidate, Before, store, Own, OwnOf
  <2> QED
    BY <1>5, <2>1, <2>2 DEF DistributedValidate
<1> QED
  BY <1>2, <1>3, <1>4, <1>5 DEF Validates

\* Past the last interceptor, all are passed.
LEMMA CheckStep ==
    ASSUME IInv, NEW g \in Conn, Check(g)
    PROVE  IInv'
<1>1. Own(g) /\ pc[g] = "before"
  BY DEF IInv, Check
<1>2. CASE pc' = [pc EXCEPT ![g] = "call"] /\ UNCHANGED <<req, at, passed>>
  <2>1. Shaped(req[g].route)
    BY <1>1, RoutesAreShaped DEF Own, OwnOf
  <2>2. ToSet(req[g].route.before) \subseteq passed[g]
    BY <2>1, <1>1, ChainIs DEF Own, OwnOf, Check, ToSet
  <2>3. Functions'
    BY <1>2 DEF IInv, Functions, Check
  <2>4. OwnOf(g, pc'[g], req'[g].route, at'[g], local'[g], passed'[g], lock')
    BY <1>1, <1>2, <2>2 DEF Own, OwnOf, Check, store, IInv, Functions
  <2> QED
    BY <1>2, <2>3, <2>4, Frame DEF Check, store, IInv, Functions
<1>3. CASE \E result : Leave(g, result)
  BY <1>1, <1>3, LeaveStep DEF Check, store, Own, OwnOf
<1> QED
  BY <1>2, <1>3 DEF Check

LEMMA DoesStep ==
    ASSUME IInv, NEW g \in Conn, pc[g] = "call", NEW x, Does(g, x),
           UNCHANGED <<local, lock>>
    PROVE  IInv'
<1>1. Functions'
  BY DEF IInv, Functions, Does
<1>2. Own(g)
  BY DEF IInv
<1>3. OwnOf(g, pc'[g], req'[g].route, at'[g], local'[g], passed'[g], lock')
  BY <1>2 DEF Own, OwnOf, Does, IInv, Functions
<1> QED
  BY <1>1, <1>3, Frame DEF Does, IInv, Functions

LEMMA ControlsStep ==
    ASSUME IInv, NEW g \in Conn, Controls(g)
    PROVE  IInv'
<1>1. pc[g] = "call" /\ UNCHANGED <<local, lock>>
  BY DEF Controls, DoLogin, Logout, Modify, AddAdmin, Edit, MakeApiToken, Update,
         ResetData, Backup, Upload, OtherController, Calls, Keep, store
<1>2. Own(g)
  BY DEF IInv
<1>3. CASE \E x : Does(g, x)
  BY <1>1, <1>3, DoesStep
<1>4. CASE \E result : Leave(g, result)
  BY <1>1, <1>2, <1>4, LeaveStep DEF Own, OwnOf
<1>5. (\E x : Does(g, x)) \/ (\E result : Leave(g, result))
  BY DEF Controls, DoLogin, Logout, Modify, AddAdmin, Edit, MakeApiToken, Update,
         ResetData, Backup, Upload, OtherController
<1> QED
  BY <1>3, <1>4, <1>5

\* A statement that is done; the transaction and the lock go with it or not.
LEMMA StatementStep ==
    ASSUME IInv, NEW g \in Conn, pc[g] = "body", Next1(g),
           DOMAIN local' = Conn,
           \A h \in Conn \ {g} : local'[h] = local[h] /\ (lock' = h => lock = h),
           IsLocal(local'[g]), local'[g].user = local[g].user,
           lock' = g => local'[g].tx = "open"
    PROVE  IInv'
<1>1. Functions'
  BY DEF IInv, Functions, Next1
<1>2. Own(g)
  BY DEF IInv
<1>3. OwnOf(g, pc'[g], req'[g].route, at'[g], local'[g], passed'[g], lock')
  BY <1>2 DEF Own, OwnOf, Next1, IInv, Functions
<1> QED
  BY <1>1, <1>3, Frame DEF Next1, IInv, Functions

\* The end of a transaction.
LEMMA EndsLocal ==
    ASSUME IInv, NEW g \in Conn, NEW keeps, Ends(g, keeps)
    PROVE  /\ DOMAIN local' = Conn
           /\ \A h \in Conn \ {g} : local'[h] = local[h] /\ (lock' = h => lock = h)
           /\ IsLocal(local'[g]) /\ local'[g].user = local[g].user
           /\ local'[g].tx = None /\ lock' # g
<1>1. DOMAIN local = Conn /\ IsLocal(local[g])
  BY DEF IInv, Functions, Own, OwnOf
<1>2. local' = [local EXCEPT ![g] = [[local[g] EXCEPT !.tx = None] EXCEPT !.begun = FALSE]]
  BY <1>1 DEF Ends
<1> DEFINE m == [local[g] EXCEPT !.tx = None]
<1>3. IsLocal(m) /\ m.user = local[g].user /\ m.tx = None
  BY <1>1, SetTx
<1> DEFINE n == [m EXCEPT !.begun = FALSE]
<1>4. IsLocal(n) /\ n.user = m.user /\ n.tx = m.tx
  <2> HIDE DEF m
  <2> QED
    BY <1>3, SetBegun
<1>5. /\ DOMAIN local' = Conn
      /\ \A h \in Conn \ {g} : local'[h] = local[h]
      /\ local'[g] = [m EXCEPT !.begun = FALSE]
  BY <1>1, <1>2
<1>6. (\A h \in Conn \ {g} : lock' = h => lock = h) /\ lock' # g
  BY ConnAssumption DEF Ends, None
<1> QED
  BY <1>3, <1>4, <1>5, <1>6

LEMMA BeginStep ==
    ASSUME IInv, NEW g \in Conn, Begin(g)
    PROVE  IInv'
<1>1. DOMAIN local = Conn /\ IsLocal(local[g]) /\ Own(g)
  BY DEF IInv, Functions, Own, OwnOf
<1>2. PICK tx : local' = [local EXCEPT ![g] = [[local[g] EXCEPT !.begun = TRUE] EXCEPT !.tx = tx]]
  BY <1>1 DEF Begin
<1> DEFINE m == [local[g] EXCEPT !.begun = TRUE]
<1>3. IsLocal(m) /\ m.user = local[g].user
  BY <1>1, SetBegun
<1> DEFINE n == [m EXCEPT !.tx = tx]
<1>4. IsLocal(n) /\ n.user = m.user
  <2> HIDE DEF m
  <2> QED
    BY <1>3, SetTx
<1>5. /\ DOMAIN local' = Conn
      /\ \A h \in Conn \ {g} : local'[h] = local[h]
      /\ local'[g] = [m EXCEPT !.tx = tx]
  BY <1>1, <1>2
<1>6. IsLocal(local'[g]) /\ local'[g].user = local[g].user
  BY <1>3, <1>4, <1>5
<1>7. /\ pc[g] = "body" /\ lock # g
      /\ UNCHANGED <<pc, req, at, passed, lock>>
  BY <1>1 DEF Begin, Writes, Own, OwnOf, None, server, store
<1>8. Functions'
  BY <1>5, <1>7 DEF IInv, Functions
<1>9. OwnOf(g, pc'[g], req'[g].route, at'[g], local'[g], passed'[g], lock')
  BY <1>1, <1>6, <1>7 DEF Own, OwnOf
<1> QED
  BY <1>5, <1>7, <1>8, <1>9, Frame

LEMMA ExecutesStep ==
    ASSUME IInv, NEW g \in Conn, Executes(g)
    PROVE  IInv'
<1>1. Own(g) /\ DOMAIN local = Conn /\ IsLocal(local[g])
  BY DEF IInv, Functions, Own, OwnOf
<1>2. CASE Begin(g)
  BY <1>2, BeginStep
<1>3. CASE Exec(g)
  <2>1. /\ pc[g] = "body" /\ local' = local /\ local[g].tx = "open" /\ lock' = g
        /\ lock \in {None, g}
    BY <1>3 DEF Exec, Writes
  <2>2. Next1(g) \/ Leave(g, "error")
    BY <1>3 DEF Exec
  <2>3. CASE Next1(g)
    BY <1>1, <2>1, <2>3, StatementStep
  <2>4. CASE Leave(g, "error")
    BY <2>1, <2>4, LeaveStep
  <2> QED
    BY <2>2, <2>3, <2>4
<1>4. CASE Panic(g)
  BY <1>1, <1>4, LeaveStep DEF Panic, Writes, store, Own, OwnOf
<1>5. CASE ExecDirect(g)
  <2>1. pc[g] = "body" /\ local' = local /\ lock' = lock
    BY <1>5 DEF ExecDirect, Runs
  <2>2. Next1(g) \/ Leave(g, "nil")
    BY <1>5 DEF ExecDirect
  <2>3. CASE Next1(g)
    BY <1>1, <2>1, <2>3, StatementStep DEF Own, OwnOf
  <2>4. CASE Leave(g, "nil")
    BY <1>1, <2>1, <2>4, LeaveStep DEF Own, OwnOf
  <2> QED
    BY <2>2, <2>3, <2>4
<1>6. CASE Reopen(g)
  <2>1. pc[g] = "body" /\ local' = local /\ lock' = lock
    BY <1>6 DEF Reopen, Runs
  <2>2. Next1(g) \/ Leave(g, "error")
    BY <1>6 DEF Reopen
  <2>3. CASE Next1(g)
    BY <1>1, <2>1, <2>3, StatementStep DEF Own, OwnOf
  <2>4. CASE Leave(g, "error")
    BY <1>1, <2>1, <2>4, LeaveStep DEF Own, OwnOf
  <2> QED
    BY <2>2, <2>3, <2>4
<1>7. CASE CommitInside(g)
  <2>1. pc[g] = "body" /\ Next1(g) /\ Ends(g, TRUE)
    BY <1>7 DEF CommitInside, Runs
  <2> QED
    BY <2>1, EndsLocal, StatementStep
<1>8. CASE Return(g)
  BY <1>1, <1>8, LeaveStep DEF Return, store, Own, OwnOf
<1> QED
  BY <1>2, <1>3, <1>4, <1>5, <1>6, <1>7, <1>8 DEF Executes

\* The interceptors after the controller: past the commit there is no
\* transaction, and so no lock.
LEMMA ClosesStep ==
    ASSUME IInv, NEW g \in Conn, Closes(g)
    PROVE  IInv'
<1>1. Own(g)
  BY DEF IInv
<1>2. req[g].route.after[1] = "Commit"
  BY <1>1, RoutesAreShaped, ChainIs DEF Own, OwnOf
<1>3. CASE Commit(g)
  <2>1. /\ pc[g] = "after" /\ at' = [at EXCEPT ![g] = @ + 1]
        /\ UNCHANGED <<pc, req, passed>>
    BY <1>3 DEF Commit, After
  <2>2. Functions'
    BY <1>3, <2>1, EndsLocal DEF Commit, IInv, Functions
  <2>3. at'[g] = at[g] + 1
    BY <2>1 DEF IInv, Functions
  <2>4. /\ IsLocal(local'[g]) /\ local'[g].user = local[g].user
        /\ local'[g].tx = None /\ lock' # g
        /\ \A h \in Conn \ {g} : local'[h] = local[h] /\ (lock' = h => lock = h)
    BY <1>3, EndsLocal DEF Commit
  <2>5. OwnOf(g, pc'[g], req'[g].route, at'[g], local'[g], passed'[g], lock')
    BY <1>1, <2>1, <2>3, <2>4 DEF Own, OwnOf
  <2> QED
    BY <2>1, <2>2, <2>4, <2>5, Frame DEF IInv, Functions
<1>4. CASE CommitPanics(g)
  <2>1. /\ pc[g] = "after" /\ pc' = [pc EXCEPT ![g] = "gone"]
        /\ UNCHANGED <<req, at, passed, local, lock>>
    BY <1>4 DEF CommitPanics, After, store
  <2>2. Functions' /\ pc'[g] = "gone"
    BY <2>1 DEF IInv, Functions
  <2>3. OwnOf(g, pc'[g], req'[g].route, at'[g], local'[g], passed'[g], lock')
    BY <1>1, <2>1, <2>2 DEF Own, OwnOf
  <2> QED
    BY <2>1, <2>2, <2>3, Frame DEF IInv, Functions
<1>5. CASE HtmlInterceptor(g)
  <2>1. /\ pc[g] = "after" /\ at' = [at EXCEPT ![g] = @ + 1] /\ at[g] # 1
        /\ UNCHANGED <<pc, req, passed, local, lock>>
    BY <1>2, <1>5 DEF HtmlInterceptor, After, store
  <2>2. Functions' /\ at'[g] = at[g] + 1
    BY <2>1 DEF IInv, Functions
  <2>3. OwnOf(g, pc'[g], req'[g].route, at'[g], local'[g], passed'[g], lock')
    BY <1>1, <2>1, <2>2 DEF Own, OwnOf
  <2> QED
    BY <2>1, <2>2, <2>3, Frame DEF IInv, Functions
<1>6. CASE RemoveGoroutineLocal(g)
  <2>1. /\ pc[g] = "after" /\ at[g] # 1
        /\ local' = [local EXCEPT ![g] = Empty] /\ pc' = [pc EXCEPT ![g] = "idle"]
        /\ req' = [req EXCEPT ![g] = NoReq]
        /\ UNCHANGED <<at, passed, lock>>
    BY <1>2, <1>6 DEF RemoveGoroutineLocal, After, store
  <2>2. /\ Functions'
        /\ pc'[g] = "idle" /\ local'[g] = Empty /\ req'[g] = NoReq
    BY <2>1 DEF IInv, Functions
  <2>3. lock # g
    BY <1>1, <2>1 DEF Own, OwnOf, None
  <2>4. NoReq.route \in Routes /\ IsLocal(Empty) /\ Empty.user = 0 /\ Empty.tx = None
    BY DEF NoReq, Routes, IsLocal, Empty
  <2>5. OwnOf(g, pc'[g], req'[g].route, at'[g], local'[g], passed'[g], lock')
    BY <1>1, <2>1, <2>2, <2>3, <2>4 DEF Own, OwnOf
  <2> QED
    BY <2>1, <2>2, <2>5, Frame DEF IInv, Functions
<1> QED
  BY <1>3, <1>4, <1>5, <1>6 DEF Closes

LEMMA AcceptStep ==
    ASSUME IInv, NEW g \in Conn, Accept(g)
    PROVE  IInv'
<1>1. PICK route \in Requested : \E token, form :
         req' = [req EXCEPT ![g] = [route |-> route, token |-> token, form |-> form]]
  BY DEF Accept
<1>2. /\ pc[g] = "idle" /\ pc' = [pc EXCEPT ![g] = "before"]
      /\ at' = [at EXCEPT ![g] = 1] /\ passed' = [passed EXCEPT ![g] = {}]
      /\ UNCHANGED <<local, lock>>
  BY DEF Accept, store
<1>3. /\ Functions' /\ pc'[g] = "before" /\ at'[g] = 1 /\ passed'[g] = {}
      /\ req'[g].route = route
  BY <1>1, <1>2 DEF IInv, Functions
<1>4. Own(g) /\ route \in Routes
  BY RouteAssumption DEF IInv
<1>5. \A i \in DOMAIN route.before : ~(i < 1)
  BY <1>4, RoutesAreShaped, ChainIs
<1>6. local[g].user = 0 /\ local[g].tx = None
  BY <1>2, <1>4 DEF Own, OwnOf, Empty
<1>7. OwnOf(g, pc'[g], req'[g].route, at'[g], local'[g], passed'[g], lock')
  BY <1>2, <1>3, <1>4, <1>5, <1>6 DEF Own, OwnOf
<1> QED
  BY <1>1, <1>2, <1>3, <1>7, Frame DEF IInv, Functions

LEMMA CrashStep == IInv /\ Crash => IInv'
<1> SUFFICES ASSUME IInv, Crash PROVE IInv'
  OBVIOUS
<1>1. NoReq.route \in Routes /\ IsLocal(Empty) /\ Empty.user = 0 /\ Empty.tx = None
  BY DEF NoReq, Routes, IsLocal, Empty
<1>2. Functions'
  BY DEF Crash, IInv, Functions
<1>3. ASSUME NEW g \in Conn PROVE Own(g)'
  <2>1. Own(g)
    BY DEF IInv
  <2>2. /\ pc'[g] = "idle" /\ req'[g] = NoReq /\ local'[g] = Empty
        /\ lock' # g /\ UNCHANGED <<at, passed>>
    BY ConnAssumption DEF Crash, None
  <2> QED
    BY <1>1, <2>1, <2>2 DEF Own, OwnOf
<1> QED
  BY <1>2, <1>3 DEF IInv

LEMMA NextIInv == IInv /\ [Next]_vars => IInv'
<1> SUFFICES ASSUME IInv, [Next]_vars PROVE IInv'
  OBVIOUS
<1>1. ASSUME NEW g \in Conn, Step(g) PROVE IInv'
  BY <1>1, ValidatesStep, CheckStep, ControlsStep, ExecutesStep, ClosesStep DEF Step
<1>2. CASE Crash
  BY <1>2, CrashStep
<1>3. CASE UNCHANGED vars
  BY <1>3 DEF IInv, Functions, Own, OwnOf, vars, server, store
<1> QED
  BY <1>1, <1>2, <1>3, AcceptStep DEF Next

-----------------------------------------------------------------------------
LEMMA Invariance == Spec => []IInv
BY InitIInv, NextIInv, PTL DEF Spec

\* A controller runs only after the validations that its route's annotations
\* demand, whatever routes are asked for, on any number of connections
\* (AutoWeb.go against the annotations of the interceptors).
THEOREM GuardedHolds == Spec => []GuardedAsAnnotated
<1>1. IInv => GuardedAsAnnotated
  BY InvImplies
<1> QED
  BY <1>1, Invariance, PTL

\* Nothing of a request is left for the next one on its connection, whatever
\* fails in between (GoroutineInterceptor, DBTransactionInterceptor).
THEOREM LocalsAreOwnHolds == Spec => []LocalsAreOwn
<1>1. IInv => LocalsAreOwn
  BY InvImplies
<1> QED
  BY <1>1, Invariance, PTL

-----------------------------------------------------------------------------
(* What each statement makes of the tables.                                *)

IsUser(u)  == u = [id |-> u.id, name |-> u.name, pwd |-> u.pwd, api |-> u.api]
IsTable(d) == d = [user |-> d.user, folder |-> d.folder, token |-> d.token]

\* Rows of tables whose users have ids below top.
Tables(d, top) ==
    /\ IsTable(d)
    /\ \A u \in d.user : IsUser(u) /\ u.id \in UserId /\ u.id < top
    /\ \A u, v \in d.user : u.id = v.id => u = v
    /\ \A t \in d.token : t.user \in UserId \cup {0}

SetPwdTo(id, pwd) == [do |-> "SetPwd", id |-> id, pwd |-> pwd]
Renamed(id, name) == [do |-> "Update", id |-> id, name |-> name]
UserAdded(id, name, pwd) ==
    [do |-> "UserAdd", user |-> [id |-> id, name |-> name, pwd |-> pwd, api |-> 0]]
FolderAdded(id)   == [do |-> "AddFolder", id |-> id]
ApiTokenSet(id, new) == [do |-> "SetApiToken", id |-> id, token |-> new]
DeviceLeft(id, device) ==
    [do |-> "DeleteByUserIdAndDeviceId", id |-> id, device |-> device]
TokenAdded(id, new, device) ==
    [do |-> "TokenAdd", id |-> id, token |-> new, device |-> device]
Trimmed(id)       == [do |-> "Trim", id |-> id]
UserLeft(id)      == [do |-> "DeleteByUserId", id |-> id]
TokenLeft(old)    == [do |-> "DeleteByToken", token |-> old]

\* A statement on users leaves folders and sessions, and so on.
LEMMA OnUsers ==
    ASSUME NEW d, IsTable(d), NEW s, NEW e, e = Effect(s, d),
           s.do \in {"UserAdd", "Update", "SetPwd", "SetApiToken"}
    PROVE  /\ IsTable(e) /\ e.folder = d.folder /\ e.token = d.token
           /\ s.do = "UserAdd" => e.user = d.user \cup {s.user}
           /\ s.do = "Update" =>
                e.user = {IF u.id = s.id THEN [u EXCEPT !.name = s.name] ELSE u :
                          u \in d.user}
           /\ s.do = "SetPwd" =>
                e.user = {IF u.id = s.id THEN [u EXCEPT !.pwd = s.pwd] ELSE u :
                          u \in d.user}
           /\ s.do = "SetApiToken" =>
                e.user = {IF u.id = s.id THEN [u EXCEPT !.api = s.token] ELSE u :
                          u \in d.user}
<1>1. CASE s.do = "UserAdd"
  BY <1>1 DEF Effect, IsTable
<1>2. CASE s.do = "Update"
  BY <1>2 DEF Effect, IsTable
<1>3. CASE s.do = "SetPwd"
  BY <1>3 DEF Effect, IsTable
<1>4. CASE s.do = "SetApiToken"
  BY <1>4 DEF Effect, IsTable
<1> QED
  BY <1>1, <1>2, <1>3, <1>4

Later(tokens, t, id) == {s \in tokens : s.user = id /\ s.date > t.date}

LEMMA OnSessions ==
    ASSUME NEW d, IsTable(d), NEW s, NEW e, e = Effect(s, d), s.do \in OnTokens
    PROVE  /\ IsTable(e) /\ e.folder = d.folder /\ e.user = d.user
           /\ s.do = "TokenAdd" =>
                e.token = d.token \cup {[token |-> s.token, user |-> s.id,
                                         device |-> s.device,
                                         date |-> Latest(d.token) + 1]}
           /\ s.do = "Trim" =>
                e.token = {t \in d.token : t.user = s.id =>
                             Cardinality(Later(d.token, t, s.id)) < Limit}
           /\ s.do = "DeleteByUserIdAndDeviceId" =>
                e.token = {t \in d.token : ~(t.user = s.id /\ t.device = s.device)}
           /\ s.do = "DeleteByUserId" => e.token = {t \in d.token : t.user # s.id}
           /\ s.do = "DeleteByToken" => e.token = {t \in d.token : t.token # s.token}
<1>1. CASE s.do = "TokenAdd"
  BY <1>1 DEF Effect, IsTable
<1>2. CASE s.do = "Trim"
  <2>1. e = Trim(d, s.id)
    BY <1>2 DEF Effect
  <2> QED
    BY <2>1, <1>2 DEF Trim, IsTable, Later
<1>3. CASE s.do = "DeleteByUserIdAndDeviceId"
  BY <1>3 DEF Effect, IsTable
<1>4. CASE s.do = "DeleteByUserId"
  BY <1>4 DEF Effect, IsTable
<1>5. CASE s.do = "DeleteByToken"
  BY <1>5 DEF Effect, IsTable
<1> QED
  BY <1>1, <1>2, <1>3, <1>4, <1>5 DEF OnTokens

LEMMA OnOthers ==
    ASSUME NEW d, IsTable(d), NEW s, NEW e, e = Effect(s, d)
    PROVE  /\ s.do = "Other" => e = d
           /\ s.do = "AddFolder" =>
                /\ IsTable(e) /\ e.user = d.user /\ e.token = d.token
                /\ e.folder = d.folder \cup {s.id}
           /\ s.do = "DeleteFiles" =>
                IsTable(e) /\ e.user = d.user /\ e.token = d.token /\ e.folder = {}
           /\ s.do = "DeleteUsers" =>
                IsTable(e) /\ e.folder = d.folder /\ e.token = d.token /\ e.user = {}
           /\ s.do = "DeleteTokens" =>
                IsTable(e) /\ e.folder = d.folder /\ e.user = d.user /\ e.token = {}
<1>1. CASE s.do = "Other"
  BY <1>1 DEF Effect
<1>2. CASE s.do = "AddFolder"
  BY <1>2 DEF Effect, IsTable
<1>3. CASE s.do = "DeleteFiles"
  BY <1>3 DEF Effect, IsTable
<1>4. CASE s.do = "DeleteUsers"
  BY <1>4 DEF Effect, IsTable
<1>5. CASE s.do = "DeleteTokens"
  BY <1>5 DEF Effect, IsTable
<1> QED
  BY <1>1, <1>2, <1>3, <1>4, <1>5

\* The fields of a user: each is set without the others.
LEMMA UserFields ==
    ASSUME NEW u, IsUser(u), NEW v
    PROVE  /\ LET w == [u EXCEPT !.name = v]
              IN  IsUser(w) /\ w.id = u.id /\ w.name = v /\ w.pwd = u.pwd /\ w.api = u.api
           /\ LET w == [u EXCEPT !.pwd = v]
              IN  IsUser(w) /\ w.id = u.id /\ w.name = u.name /\ w.pwd = v /\ w.api = u.api
           /\ LET w == [u EXCEPT !.api = v]
              IN  IsUser(w) /\ w.id = u.id /\ w.name = u.name /\ w.pwd = u.pwd /\ w.api = v
BY DEF IsUser

\* A statement keeps the tables in order; a user that is added is a new one.
Fits(s, d, top) ==
    /\ s.do = "UserAdd" =>
         /\ IsUser(s.user) /\ s.user.id \in UserId /\ s.user.id < top
         /\ s.user.id \notin IdsOf(d)
    /\ s.do = "TokenAdd" => s.id \in UserId \cup {0}
Statements == {"UserAdd", "Update", "SetPwd", "SetApiToken", "AddFolder", "Other"}
              \cup OnTokens \cup Direct

LEMMA ChangedKeeps ==
    ASSUME NEW d, NEW top, Tables(d, top), NEW e, IsTable(e), e.token = d.token,
           NEW F, e.user = {F[u] : u \in d.user},
           \A u \in d.user : IsUser(F[u]) /\ F[u].id = u.id
    PROVE  Tables(e, top) /\ IdsOf(e) \subseteq IdsOf(d)
BY DEF Tables, IdsOf

LEMMA EffectKeeps ==
    ASSUME NEW d, NEW top \in Nat, Tables(d, top), NEW s, s.do \in Statements,
           Fits(s, d, top)
    PROVE  Tables(Effect(s, d), top) /\ (s.do # "UserAdd" => IdsOf(Effect(s, d)) \subseteq IdsOf(d))
           /\ (s.do = "UserAdd" => IdsOf(Effect(s, d)) = IdsOf(d) \cup {s.user.id})
<1> DEFINE e == Effect(s, d)
<1>0. IsTable(d)
  BY DEF Tables
<1> HIDE DEF e
<1>1. CASE s.do \in {"Update", "SetPwd", "SetApiToken"}
  <2>1. CASE s.do = "Update"
    <3> DEFINE F == [u \in d.user |-> IF u.id = s.id THEN [u EXCEPT !.name = s.name] ELSE u]
    <3>1. /\ IsTable(e) /\ e.token = d.token
          /\ e.user = {IF u.id = s.id THEN [u EXCEPT !.name = s.name] ELSE u : u \in d.user}
      BY <1>0, <2>1, OnUsers, SMTT(30) DEF e
    <3>2. \A u \in d.user : F[u] = IF u.id = s.id THEN [u EXCEPT !.name = s.name] ELSE u
      OBVIOUS
    <3>3. e.user = {F[u] : u \in d.user}
      BY ONLY <3>1, <3>2, Zenon
    <3>4. \A u \in d.user : IsUser(F[u]) /\ F[u].id = u.id
      <4> SUFFICES ASSUME NEW u \in d.user PROVE IsUser(F[u]) /\ F[u].id = u.id
        OBVIOUS
      <4>1. IsUser(u)
        BY DEF Tables
      <4> QED
        BY <4>1 DEF IsUser
    <3> HIDE DEF F
    <3> QED
      BY <2>1, <3>1, <3>3, <3>4, ChangedKeeps DEF e
  <2>2. CASE s.do = "SetPwd"
    <3> DEFINE F == [u \in d.user |-> IF u.id = s.id THEN [u EXCEPT !.pwd = s.pwd] ELSE u]
    <3>1. /\ IsTable(e) /\ e.token = d.token
          /\ e.user = {IF u.id = s.id THEN [u EXCEPT !.pwd = s.pwd] ELSE u : u \in d.user}
      BY <1>0, <2>2, OnUsers, SMTT(30) DEF e
    <3>2. \A u \in d.user : F[u] = IF u.id = s.id THEN [u EXCEPT !.pwd = s.pwd] ELSE u
      OBVIOUS
    <3>3. e.user = {F[u] : u \in d.user}
      BY ONLY <3>1, <3>2, Zenon
    <3>4. \A u \in d.user : IsUser(F[u]) /\ F[u].id = u.id
      <4> SUFFICES ASSUME NEW u \in d.user PROVE IsUser(F[u]) /\ F[u].id = u.id
        OBVIOUS
      <4>1. IsUser(u)
        BY DEF Tables
      <4> QED
        BY <4>1 DEF IsUser
    <3> HIDE DEF F
    <3> QED
      BY <2>2, <3>1, <3>3, <3>4, ChangedKeeps DEF e
  <2>3. CASE s.do = "SetApiToken"
    <3> DEFINE F == [u \in d.user |-> IF u.id = s.id THEN [u EXCEPT !.api = s.token] ELSE u]
    <3>1. /\ IsTable(e) /\ e.token = d.token
          /\ e.user = {IF u.id = s.id THEN [u EXCEPT !.api = s.token] ELSE u : u \in d.user}
      BY <1>0, <2>3, OnUsers, SMTT(30) DEF e
    <3>2. \A u \in d.user : F[u] = IF u.id = s.id THEN [u EXCEPT !.api = s.token] ELSE u
      OBVIOUS
    <3>3. e.user = {F[u] : u \in d.user}
      BY ONLY <3>1, <3>2, Zenon
    <3>4. \A u \in d.user : IsUser(F[u]) /\ F[u].id = u.id
      <4> SUFFICES ASSUME NEW u \in d.user PROVE IsUser(F[u]) /\ F[u].id = u.id
        OBVIOUS
      <4>1. IsUser(u)
        BY DEF Tables
      <4> QED
        BY <4>1 DEF IsUser
    <3> HIDE DEF F
    <3> QED
      BY <2>3, <3>1, <3>3, <3>4, ChangedKeeps DEF e
  <2> QED
    BY <1>1, <2>1, <2>2, <2>3
<1>2. CASE s.do = "UserAdd"
  <2>1. IsTable(e) /\ e.token = d.token /\ e.user = d.user \cup {s.user}
    BY <1>0, <1>2, OnUsers DEF e
  <2> QED
    BY <1>2, <2>1 DEF Tables, Fits, IdsOf, e
<1>3. CASE s.do \in OnTokens
  <2>1. IsTable(e) /\ e.user = d.user
    BY <1>0, <1>3, OnSessions DEF e
  <2>2. s.do = "TokenAdd" => e.token = d.token \cup {[token |-> s.token, user |-> s.id,
                        device |-> s.device, date |-> Latest(d.token) + 1]}
    BY <1>0, <1>3, OnSessions DEF e
  <2>3. s.do # "TokenAdd" => e.token \subseteq d.token
    BY <1>0, <1>3, OnSessions DEF e, OnTokens
  <2>4. \A t \in e.token : t.user \in UserId \cup {0}
    BY <2>2, <2>3 DEF Tables, Fits
  <2> QED
    BY <1>3, <2>1, <2>4 DEF Tables, IdsOf, OnTokens, e
<1>4. CASE s.do = "AddFolder" \/ s.do \in Direct
  BY <1>0, <1>4, OnOthers DEF Tables, IdsOf, Direct, e
<1>5. CASE s.do = "Other"
  BY <1>0, <1>5, OnOthers DEF e
<1> QED
  BY <1>1, <1>2, <1>3, <1>4, <1>5 DEF Statements

-----------------------------------------------------------------------------
(* Programs: the statements of a controller that change accounts.          *)

IsLogin(p) ==
    \E id \in UserId \cup {0}, device \in Device, new \in Token :
        p = <<DeviceLeft(id, device), TokenAdded(id, new, device), Trimmed(id)>>
IsLogout(p) == \E old \in Token : p = <<TokenLeft(old)>>
IsModify(p) == \E id \in UserId, pwd \in Pwd : p = <<SetPwdTo(id, pwd), UserLeft(id)>>
IsAdd(p, top) ==
    \E id \in UserId, name \in Name, pwd \in Pwd \cup {None} :
        id < top /\ p = <<UserAdded(id, name, pwd), FolderAdded(id)>>
IsAddPwd(p, top) ==
    \E id \in UserId, name \in Name, pwd \in Pwd :
        id < top /\ p = <<UserAdded(id, name, None), FolderAdded(id), SetPwdTo(id, pwd)>>
IsEdit(p)    == \E id, name : name \in Name /\ p = <<Renamed(id, name)>>
IsEditPwd(p) ==
    \E id, name, pwd : name \in Name /\ pwd \in Pwd
                       /\ p = <<Renamed(id, name), SetPwdTo(id, pwd)>>
IsApi(p) == \E id \in UserId, new \in Token \cup {0} : p = <<ApiTokenSet(id, new)>>
IsProgram(p, top) ==
    \/ IsLogin(p) \/ IsLogout(p) \/ IsModify(p) \/ IsAdd(p, top) \/ IsAddPwd(p, top)
    \/ IsEdit(p) \/ IsEditPwd(p) \/ IsApi(p)

\* p has been run as far as rest, and has made w of d.
Stage(p, rest, d, w) ==
    \/ \E a : p = <<a>> /\ rest = <<>> /\ w = Effect(a, d)
    \/ \E a, b : /\ p = <<a, b>>
                 /\ \/ rest = <<b>> /\ w = Effect(a, d)
                    \/ rest = <<>> /\ w = Effect(b, Effect(a, d))
    \/ \E a, b, c : /\ p = <<a, b, c>>
                    /\ \/ rest = <<b, c>> /\ w = Effect(a, d)
                       \/ rest = <<c>> /\ w = Effect(b, Effect(a, d))
                       \/ rest = <<>> /\ w = Effect(c, Effect(b, Effect(a, d)))

IsStatement(s, top) ==
    /\ s.do \in Statements \ (Direct \cup {"Other"})
    /\ s.do = "UserAdd" =>
         IsUser(s.user) /\ s.user.id \in UserId /\ s.user.id < top
    /\ s.do = "TokenAdd" => s.id \in UserId \cup {0}

\* The statements of a program are well formed, and only the first may add a
\* user.
Formed(p, top) ==
    \/ \E a : p = <<a>> /\ IsStatement(a, top)
    \/ \E a, b : /\ p = <<a, b>> /\ b.do # "UserAdd"
                 /\ IsStatement(a, top) /\ IsStatement(b, top)
    \/ \E a, b, c : /\ p = <<a, b, c>> /\ b.do # "UserAdd" /\ c.do # "UserAdd"
                    /\ IsStatement(a, top) /\ IsStatement(b, top) /\ IsStatement(c, top)

LEMMA ProgramIs ==
    ASSUME NEW p, NEW top, IsProgram(p, top) PROVE Formed(p, top)
<1> USE DEF Formed, IsStatement, Statements, OnTokens, Direct, None
<1>1. CASE IsLogin(p)
  BY <1>1 DEF IsLogin, DeviceLeft, TokenAdded, Trimmed
<1>2. CASE IsLogout(p)
  BY <1>2 DEF IsLogout, TokenLeft
<1>3. CASE IsModify(p)
  BY <1>3 DEF IsModify, SetPwdTo, UserLeft
<1>4. CASE IsAdd(p, top)
  <2>1. PICK id, name, pwd :
          id \in UserId /\ id < top /\ p = <<UserAdded(id, name, pwd), FolderAdded(id)>>
    BY <1>4 DEF IsAdd
  <2>2. /\ IsStatement(UserAdded(id, name, pwd), top)
        /\ IsStatement(FolderAdded(id), top) /\ FolderAdded(id).do # "UserAdd"
    BY <2>1 DEF UserAdded, FolderAdded, IsUser
  <2> QED
    BY ONLY <2>1, <2>2 DEF Formed
<1>5. CASE IsAddPwd(p, top)
  <2>1. PICK id, name, pwd :
          id \in UserId /\ id < top /\ p = <<UserAdded(id, name, None), FolderAdded(id), SetPwdTo(id, pwd)>>
    BY <1>5 DEF IsAddPwd
  <2>2. /\ IsStatement(UserAdded(id, name, None), top)
        /\ IsStatement(FolderAdded(id), top) /\ FolderAdded(id).do # "UserAdd"
        /\ IsStatement(SetPwdTo(id, pwd), top) /\ SetPwdTo(id, pwd).do # "UserAdd"
    BY <2>1 DEF UserAdded, FolderAdded, SetPwdTo, IsUser
  <2> QED
    BY ONLY <2>1, <2>2 DEF Formed
<1>6. CASE IsEdit(p)
  BY <1>6 DEF IsEdit, Renamed
<1>7. CASE IsEditPwd(p)
  <2>1. PICK id, name, pwd : p = <<Renamed(id, name), SetPwdTo(id, pwd)>>
    BY <1>7 DEF IsEditPwd
  <2>2. /\ IsStatement(Renamed(id, name), top)
        /\ IsStatement(SetPwdTo(id, pwd), top) /\ SetPwdTo(id, pwd).do # "UserAdd"
    BY <2>1 DEF Renamed, SetPwdTo
  <2> QED
    BY ONLY <2>1, <2>2 DEF Formed
<1>8. CASE IsApi(p)
  BY <1>8 DEF IsApi, ApiTokenSet
<1> QED
  BY <1>1, <1>2, <1>3, <1>4, <1>5, <1>6, <1>7, <1>8 DEF IsProgram

LEMMA ProgramGrows ==
    ASSUME NEW p, NEW top \in Nat, IsProgram(p, top), NEW more \in Nat, more >= top
    PROVE  IsProgram(p, more)
BY DEF IsProgram, IsAdd, IsAddPwd, UserId

\* The first statement, one more, and the last.
LEMMA StageFirst ==
    ASSUME NEW p, NEW top, Formed(p, top), NEW d
    PROVE  /\ p # <<>> /\ IsStatement(Head(p), top) /\ p[1] = Head(p)
           /\ Stage(p, Tail(p), d, Effect(Head(p), d))
<1>1. CASE \E a : p = <<a>> /\ IsStatement(a, top)
  BY <1>1 DEF Stage
<1>2. ASSUME NEW a, NEW b, p = <<a, b>>, IsStatement(a, top)
      PROVE  /\ p # <<>> /\ IsStatement(Head(p), top) /\ p[1] = Head(p)
             /\ Stage(p, Tail(p), d, Effect(Head(p), d))
  <2>1. Head(p) = a /\ Tail(p) = <<b>> /\ p[1] = a /\ p # <<>>
    BY <1>2
  <2> QED
    BY <1>2, <2>1, Zenon DEF Stage
<1>3. ASSUME NEW a, NEW b, NEW c, p = <<a, b, c>>, IsStatement(a, top)
      PROVE  /\ p # <<>> /\ IsStatement(Head(p), top) /\ p[1] = Head(p)
             /\ Stage(p, Tail(p), d, Effect(Head(p), d))
  <2>1. Head(p) = a /\ Tail(p) = <<b, c>> /\ p[1] = a /\ p # <<>>
    BY <1>3
  <2> QED
    BY <1>3, <2>1, Zenon DEF Stage
<1> QED
  BY <1>1, <1>2, <1>3 DEF Formed

\* What is left of a program after its first statement.
LEMMA StageParts ==
    ASSUME NEW p, NEW d, NEW w, NEW rest, rest # <<>>, Stage(p, rest, d, w)
    PROVE  \/ \E a, b : p = <<a, b>> /\ rest = <<b>> /\ w = Effect(a, d)
           \/ \E a, b, c : p = <<a, b, c>> /\ rest = <<b, c>> /\ w = Effect(a, d)
           \/ \E a, b, c : /\ p = <<a, b, c>> /\ rest = <<c>>
                           /\ w = Effect(b, Effect(a, d))
BY Zenon DEF Stage

LEMMA StageNext ==
    ASSUME NEW p, NEW top, Formed(p, top), NEW d, NEW w, NEW rest, rest # <<>>,
           Stage(p, rest, d, w)
    PROVE  /\ IsStatement(Head(rest), top) /\ Head(rest).do # "UserAdd"
           /\ Stage(p, Tail(rest), d, Effect(Head(rest), w))
<1>1. ASSUME NEW a, NEW b, p = <<a, b>>, rest = <<b>>, w = Effect(a, d)
      PROVE  /\ IsStatement(Head(rest), top) /\ Head(rest).do # "UserAdd"
             /\ Stage(p, Tail(rest), d, Effect(Head(rest), w))
  <2>1. Head(rest) = b /\ Tail(rest) = <<>>
    BY <1>1
  <2>2. IsStatement(b, top) /\ b.do # "UserAdd"
    BY <1>1 DEF Formed
  <2> QED
    BY <1>1, <2>1, <2>2, Zenon DEF Stage
<1>2. ASSUME NEW a, NEW b, NEW c, p = <<a, b, c>>, rest = <<b, c>>, w = Effect(a, d)
      PROVE  /\ IsStatement(Head(rest), top) /\ Head(rest).do # "UserAdd"
             /\ Stage(p, Tail(rest), d, Effect(Head(rest), w))
  <2>1. Head(rest) = b /\ Tail(rest) = <<c>>
    BY <1>2
  <2>2. IsStatement(b, top) /\ b.do # "UserAdd"
    BY <1>2 DEF Formed
  <2> QED
    BY <1>2, <2>1, <2>2, Zenon DEF Stage
<1>3. ASSUME NEW a, NEW b, NEW c, p = <<a, b, c>>, rest = <<c>>,
             w = Effect(b, Effect(a, d))
      PROVE  /\ IsStatement(Head(rest), top) /\ Head(rest).do # "UserAdd"
             /\ Stage(p, Tail(rest), d, Effect(Head(rest), w))
  <2>1. Head(rest) = c /\ Tail(rest) = <<>>
    BY <1>3
  <2>2. IsStatement(c, top) /\ c.do # "UserAdd"
    BY <1>3 DEF Formed
  <2> QED
    BY <1>3, <2>1, <2>2, Zenon DEF Stage
<1> QED
  BY <1>1, <1>2, <1>3, StageParts

-----------------------------------------------------------------------------
(* A whole program is one operation on accounts, or changes nothing.       *)

\* The programs by their lengths, when nothing is left of them.
LEMMA StageWhole ==
    ASSUME NEW p, NEW d, NEW w, Stage(p, <<>>, d, w)
    PROVE  /\ \A a : p = <<a>> => w = Effect(a, d)
           /\ \A a, b : p = <<a, b>> => w = Effect(b, Effect(a, d))
           /\ \A a, b, c : p = <<a, b, c>> => w = Effect(c, Effect(b, Effect(a, d)))
BY DEF Stage

AbstractNext == A!Next \/ UNCHANGED <<db.user, db.folder, db.token>>

\* The abstract module has operators of the libraries of its own.
LEMMA SameOperators ==
    ASSUME NEW S PROVE A!Latest(S) = Latest(S) /\ A!Cardinality(S) = Cardinality(S)
<1>1. A!Latest(S) = Latest(S)
  BY DEF A!Latest, Latest, A!Max, Max
<1>2. A!Cardinality(S) = Cardinality(S)
  BY DEF A!Cardinality, Cardinality
<1> QED
  BY <1>1, <1>2

LEMMA LoginRefines ==
    ASSUME NEW p, IsLogin(p), IsTable(db), Stage(p, <<>>, db, db')
    PROVE  A!LogIn
<1>1. PICK id \in UserId \cup {0}, device \in Device, new \in Token :
        p = <<DeviceLeft(id, device), TokenAdded(id, new, device), Trimmed(id)>>
  BY DEF IsLogin
<1> DEFINE d1 == Effect(DeviceLeft(id, device), db)
           d2 == Effect(TokenAdded(id, new, device), d1)
           left == {t \in db.token : ~(t.user = id /\ t.device = device)}
           all  == left \cup {[token |-> new, user |-> id, device |-> device,
                              date |-> Latest(left) + 1]}
<1>2. db' = Effect(Trimmed(id), d2)
  BY <1>1, StageWhole
<1>3. IsTable(d1) /\ d1.user = db.user /\ d1.folder = db.folder /\ d1.token = left
  BY OnSessions DEF DeviceLeft, OnTokens
<1> HIDE DEF d1, left
<1>4. IsTable(d2) /\ d2.user = db.user /\ d2.folder = db.folder /\ d2.token = all
  <2> DEFINE s == TokenAdded(id, new, device)
  <2>1. /\ s.do = "TokenAdd" /\ s.do \in OnTokens
        /\ s.id = id /\ s.token = new /\ s.device = device
    BY DEF TokenAdded, OnTokens
  <2> HIDE DEF s
  <2>2. d2 = Effect(s, d1)
    BY DEF s
  <2> QED
    BY <1>3, <2>1, <2>2, OnSessions
<1> HIDE DEF d2, all
<1>5. /\ db'.user = db.user /\ db'.folder = db.folder
      /\ db'.token = {t \in all : t.user = id => Cardinality(Later(all, t, id)) < Limit}
  <2> DEFINE s == Trimmed(id)
  <2>1. s.do = "Trim" /\ s.do \in OnTokens /\ s.id = id
    BY DEF Trimmed, OnTokens
  <2> HIDE DEF s
  <2>2. db' = Effect(s, d2)
    BY <1>2 DEF s
  <2> QED
    BY <1>4, <2>1, <2>2, OnSessions
<1>6. db'.token = {t \in all : t.user = id =>
          Cardinality({s \in all : s.user = id /\ s.date > t.date}) < Limit}
  BY <1>5, Zenon DEF Later
<1>7. all = left \cup {[token |-> new, user |-> id, device |-> device,
                       date |-> A!Latest(left) + 1]}
  BY SameOperators DEF all
<1>8. db'.token = {t \in all : t.user = id =>
          A!Cardinality({s \in all : s.user = id /\ s.date > t.date}) < Limit}
  BY <1>6, SameOperators
<1> DEFINE Logs(i, d, n) ==
        LET rest  == {t \in db.token : ~(t.user = i /\ t.device = d)}
            every == rest \cup {[token |-> n, user |-> i, device |-> d,
                                 date |-> A!Latest(rest) + 1]}
            Newer(t) == {s \in every : s.user = i /\ s.date > t.date}
        IN  /\ db'.token = {t \in every : t.user = i => A!Cardinality(Newer(t)) < Limit}
            /\ UNCHANGED <<db.user, db.folder>>
<1>9. Logs(id, device, new)
  BY <1>5, <1>8, <1>7, Zenon DEF left
<1> HIDE DEF Logs
<1>10. \E i \in UserId \cup {0}, d \in Device, n \in Token : Logs(i, d, n)
  BY <1>9
<1> QED
  BY <1>10, Zenon DEF Logs, A!LogIn

LEMMA LogoutRefines ==
    ASSUME NEW p, IsLogout(p), IsTable(db), Stage(p, <<>>, db, db')
    PROVE  A!LogOut
<1>1. PICK old \in Token : p = <<TokenLeft(old)>>
  BY DEF IsLogout
<1>2. db' = Effect(TokenLeft(old), db)
  BY <1>1, StageWhole
<1>3. /\ db'.user = db.user /\ db'.folder = db.folder
      /\ db'.token = {t \in db.token : t.token # old}
  BY <1>2, OnSessions DEF TokenLeft, OnTokens
<1> QED
  BY <1>1, <1>3 DEF A!LogOut

LEMMA ModifyRefines ==
    ASSUME NEW p, IsModify(p), IsTable(db), Stage(p, <<>>, db, db')
    PROVE  A!ChangePwd
<1>1. PICK id \in UserId, pwd \in Pwd : p = <<SetPwdTo(id, pwd), UserLeft(id)>>
  BY DEF IsModify
<1> DEFINE d1 == Effect(SetPwdTo(id, pwd), db)
<1>2. db' = Effect(UserLeft(id), d1)
  BY <1>1, StageWhole
<1>3. /\ IsTable(d1) /\ d1.folder = db.folder /\ d1.token = db.token
      /\ d1.user = {IF u.id = id THEN [u EXCEPT !.pwd = pwd] ELSE u : u \in db.user}
  BY OnUsers DEF SetPwdTo
<1> HIDE DEF d1
<1>4. /\ db'.user = d1.user /\ db'.folder = db.folder
      /\ db'.token = {t \in db.token : t.user # id}
  BY <1>2, <1>3, OnSessions DEF UserLeft, OnTokens
<1> QED
  BY <1>1, <1>3, <1>4 DEF A!ChangePwd, A!Changed, A!Others

LEMMA ApiRefines ==
    ASSUME NEW p, IsApi(p), IsTable(db), Stage(p, <<>>, db, db')
    PROVE  A!SetApiToken
<1>1. PICK id \in UserId, new \in Token \cup {0} : p = <<ApiTokenSet(id, new)>>
  BY DEF IsApi
<1>2. db' = Effect(ApiTokenSet(id, new), db)
  BY <1>1, StageWhole
<1>3. /\ db'.folder = db.folder /\ db'.token = db.token
      /\ db'.user = {IF u.id = id THEN [u EXCEPT !.api = new] ELSE u : u \in db.user}
  BY <1>2, OnUsers DEF ApiTokenSet
<1> QED
  BY <1>1, <1>3 DEF A!SetApiToken, A!Changed

\* A user that is added has a new id and a name nobody has.
LEMMA MayAdd ==
    ASSUME NEW id, NEW name, NEW pwd, NEW s, s = UserAdded(id, name, pwd),
           ~Violates(s, db), s.user.id \notin IdsOf(db)
    PROVE  name \notin A!Names /\ id \notin {u.id : u \in db.user}
BY DEF UserAdded, Violates, SelectByName, A!Names, IdsOf

LEMMA AddRefines ==
    ASSUME NEW p, NEW top, IsAdd(p, top), IsTable(db), Stage(p, <<>>, db, db'),
           ~Violates(p[1], db), p[1].user.id \notin IdsOf(db)
    PROVE  A!AddUser
<1>1. PICK id, name, pwd :
        /\ id \in UserId /\ name \in Name /\ pwd \in Pwd \cup {None}
        /\ p = <<UserAdded(id, name, pwd), FolderAdded(id)>>
  BY DEF IsAdd
<1> DEFINE d1 == Effect(UserAdded(id, name, pwd), db)
<1>2. db' = Effect(FolderAdded(id), d1)
  BY <1>1, StageWhole
<1>3. /\ IsTable(d1) /\ d1.folder = db.folder /\ d1.token = db.token
      /\ d1.user = db.user \cup {[id |-> id, name |-> name, pwd |-> pwd, api |-> 0]}
  BY OnUsers DEF UserAdded
<1> HIDE DEF d1
<1>4. /\ db'.user = d1.user /\ db'.token = db.token
      /\ db'.folder = db.folder \cup {id}
  BY <1>2, <1>3, OnOthers DEF FolderAdded
<1>5. p[1] = UserAdded(id, name, pwd)
  BY <1>1
<1>6. name \notin A!Names /\ id \notin {u.id : u \in db.user}
  BY <1>5, MayAdd
<1> QED
  BY <1>1, <1>3, <1>4, <1>6 DEF A!AddUser

\* With its password in a statement of its own.
LEMMA AddPwdRefines ==
    ASSUME NEW p, NEW top, IsAddPwd(p, top), Tables(db, top), Stage(p, <<>>, db, db'),
           ~Violates(p[1], db), p[1].user.id \notin IdsOf(db)
    PROVE  A!AddUser
<1>1. PICK id, name, pwd :
        /\ id \in UserId /\ name \in Name /\ pwd \in Pwd
        /\ p = <<UserAdded(id, name, None), FolderAdded(id), SetPwdTo(id, pwd)>>
  BY DEF IsAddPwd
<1> DEFINE new == [id |-> id, name |-> name, pwd |-> None, api |-> 0]
           d1 == Effect(UserAdded(id, name, None), db)
           d2 == Effect(FolderAdded(id), d1)
<1>2. db' = Effect(SetPwdTo(id, pwd), d2)
  BY <1>1, StageWhole
<1>3. /\ IsTable(d1) /\ d1.folder = db.folder /\ d1.token = db.token
      /\ d1.user = db.user \cup {new}
  BY OnUsers DEF UserAdded, Tables
<1> HIDE DEF d1
<1>4. /\ IsTable(d2) /\ d2.user = d1.user /\ d2.token = db.token
      /\ d2.folder = db.folder \cup {id}
  BY <1>3, OnOthers DEF FolderAdded
<1> HIDE DEF d2
<1>5. /\ db'.folder = db.folder \cup {id} /\ db'.token = db.token
      /\ db'.user = {IF u.id = id THEN [u EXCEPT !.pwd = pwd] ELSE u : u \in d2.user}
  <2> DEFINE s == SetPwdTo(id, pwd)
  <2>1. s.do = "SetPwd" /\ s.id = id /\ s.pwd = pwd
    BY DEF SetPwdTo
  <2> HIDE DEF s
  <2>2. db' = Effect(s, d2)
    BY <1>2 DEF s
  <2> QED
    BY <1>4, <2>1, <2>2, OnUsers
<1>6. p[1] = UserAdded(id, name, None)
  BY <1>1
<1>7. name \notin A!Names /\ id \notin {u.id : u \in db.user}
  BY <1>6, MayAdd
<1>8. db'.user = db.user \cup {[id |-> id, name |-> name, pwd |-> pwd, api |-> 0]}
  <2>1. \A u \in db.user : u.id # id
    BY <1>7
  <2>2. [new EXCEPT !.pwd = pwd] = [id |-> id, name |-> name, pwd |-> pwd, api |-> 0]
        /\ new.id = id
    OBVIOUS
  <2> HIDE DEF new
  <2>3. db'.user = {IF u.id = id THEN [u EXCEPT !.pwd = pwd] ELSE u : u \in db.user \cup {new}}
    BY <1>3, <1>4, <1>5
  <2>4. \A u \in db.user : (IF u.id = id THEN [u EXCEPT !.pwd = pwd] ELSE u) = u
    BY ONLY <2>1
  <2>5. (IF new.id = id THEN [new EXCEPT !.pwd = pwd] ELSE new)
        = [id |-> id, name |-> name, pwd |-> pwd, api |-> 0]
    BY ONLY <2>2
  <2> QED
    BY ONLY <2>3, <2>4, <2>5
<1> QED
  BY <1>1, <1>5, <1>7, <1>8 DEF A!AddUser

\* An id that is not in the table any more is no user's.
LEMMA RenameIs ==
    ASSUME NEW id, NEW name, NEW s, s = Renamed(id, name), ~Violates(s, db)
    PROVE  \A u \in db.user : u.id = id =>
             \A v \in db.user : v.name = name => v.id = id
BY DEF Renamed, Violates, SelectByName, Owned

LEMMA EditRefines ==
    ASSUME NEW p, NEW top, IsEdit(p), Tables(db, top), Stage(p, <<>>, db, db'),
           ~Violates(p[1], db)
    PROVE  A!EditUser \/ UNCHANGED <<db.user, db.folder, db.token>>
<1>1. PICK id, name : name \in Name /\ p = <<Renamed(id, name)>>
  BY DEF IsEdit
<1>2. db' = Effect(Renamed(id, name), db)
  BY <1>1, StageWhole
<1>3. /\ db'.folder = db.folder /\ db'.token = db.token
      /\ db'.user = {IF u.id = id THEN [u EXCEPT !.name = name] ELSE u : u \in db.user}
  BY <1>2, OnUsers DEF Renamed, Tables
<1>4. CASE \A u \in db.user : u.id # id
  BY <1>3, <1>4
<1>5. ASSUME NEW v \in db.user, v.id = id PROVE A!EditUser
  <2>1. v.name = name \/ name \notin A!Names
    <3>1. p[1] = Renamed(id, name)
      BY <1>1
    <3> QED
      BY <1>5, <3>1, RenameIs DEF A!Names, Tables
  <2>2. \A u \in db.user : u.id = id =>
          [u EXCEPT !.name = name] = [u EXCEPT !.name = name, !.pwd = v.pwd]
    BY <1>5 DEF Tables, IsUser
  <2>3. db'.user = {IF u.id = v.id THEN [u EXCEPT !.name = name, !.pwd = v.pwd] ELSE u :
                    u \in db.user}
    BY <1>3, <1>5, <2>2
  <2> USE DEF A!EditUser
  <2>4. v.pwd \in Pwd \cup {v.pwd}
    OBVIOUS
  <2> WITNESS v \in db.user
  <2> USE <1>1
  <2> WITNESS name \in Name, v.pwd \in Pwd \cup {v.pwd}
  <2> QED
    BY <1>3, <2>1, <2>3 DEF A!Changed
<1> QED
  BY <1>4, <1>5

LEMMA EditPwdRefines ==
    ASSUME NEW p, NEW top, IsEditPwd(p), Tables(db, top), Stage(p, <<>>, db, db'),
           ~Violates(p[1], db)
    PROVE  A!EditUser \/ UNCHANGED <<db.user, db.folder, db.token>>
<1>1. PICK id, name, pwd : /\ name \in Name /\ pwd \in Pwd
                           /\ p = <<Renamed(id, name), SetPwdTo(id, pwd)>>
  BY DEF IsEditPwd
<1> DEFINE d1 == Effect(Renamed(id, name), db)
<1>2. db' = Effect(SetPwdTo(id, pwd), d1)
  BY <1>1, StageWhole
<1>3. /\ IsTable(d1) /\ d1.folder = db.folder /\ d1.token = db.token
      /\ d1.user = {IF u.id = id THEN [u EXCEPT !.name = name] ELSE u : u \in db.user}
  BY OnUsers, SMTT(30) DEF Renamed, Tables
<1> HIDE DEF d1
<1>4. /\ db'.folder = db.folder /\ db'.token = db.token
      /\ db'.user = {IF u.id = id THEN [u EXCEPT !.pwd = pwd] ELSE u : u \in d1.user}
  BY <1>2, <1>3, OnUsers, SMTT(30) DEF SetPwdTo
<1>5. CASE \A u \in db.user : u.id # id
  BY <1>3, <1>4, <1>5
<1>6. ASSUME NEW v \in db.user, v.id = id PROVE A!EditUser
  <2>1. v.name = name \/ name \notin A!Names
    <3>1. p[1] = Renamed(id, name)
      BY <1>1
    <3> QED
      BY <1>6, <3>1, RenameIs DEF A!Names, Tables
  <2> DEFINE F(u) == IF u.id = id THEN [u EXCEPT !.name = name] ELSE u
             G(u) == IF u.id = id THEN [u EXCEPT !.pwd = pwd] ELSE u
             H(u) == IF u.id = v.id THEN [u EXCEPT !.name = name, !.pwd = pwd] ELSE u
  <2>2. \A u \in db.user : G(F(u)) = H(u)
    <3> SUFFICES ASSUME NEW u \in db.user PROVE G(F(u)) = H(u)
      OBVIOUS
    <3>1. CASE u.id = id
      <4>1. [u EXCEPT !.name = name].id = id /\ IsUser(u)
        BY <3>1, UserFields DEF Tables
      <4>2. [[u EXCEPT !.name = name] EXCEPT !.pwd = pwd] = [u EXCEPT !.name = name, !.pwd = pwd]
        BY <4>1 DEF IsUser
      <4> QED
        BY <1>6, <3>1, <4>1, <4>2
    <3> QED
      BY <1>6, <3>1
  <2>3. db'.user = {H(u) : u \in db.user}
    <3>1. d1.user = {F(u) : u \in db.user} /\ db'.user = {G(u) : u \in d1.user}
      BY <1>3, <1>4
    <3> HIDE DEF F, G, H
    <3> QED
      BY ONLY <2>2, <3>1
  <2> USE DEF A!EditUser
  <2> WITNESS v \in db.user
  <2> USE <1>1
  <2> WITNESS name \in Name, pwd \in Pwd \cup {v.pwd}
  <2> QED
    BY <1>4, <2>1, <2>3 DEF A!Changed
<1> QED
  BY <1>5, <1>6

\* Every program, from its first statement to its last.
LEMMA ProgramRefines ==
    ASSUME NEW p, NEW top, IsProgram(p, top), Tables(db, top), Stage(p, <<>>, db, db'),
           ~Violates(p[1], db), p[1].do = "UserAdd" => p[1].user.id \notin IdsOf(db)
    PROVE  AbstractNext
<1>1. IsAdd(p, top) \/ IsAddPwd(p, top) => p[1].do = "UserAdd"
  BY DEF IsAdd, IsAddPwd, UserAdded
<1>2. IsTable(db)
  BY DEF Tables
<1>3. \/ A!AddUser \/ A!EditUser \/ A!LogIn \/ A!LogOut \/ A!ChangePwd
      \/ A!SetApiToken \/ UNCHANGED <<db.user, db.folder, db.token>>
  BY <1>1, <1>2, LoginRefines, LogoutRefines, ModifyRefines, ApiRefines, AddRefines,
     AddPwdRefines, EditRefines, EditPwdRefines, Zenon DEF IsProgram
<1> QED
  BY <1>3, Zenon DEF AbstractNext, A!Next

-----------------------------------------------------------------------------
(* Ids are enough: who has not drawn one yet still may.                    *)

Users0  == Cardinality(Start.user)
Tokens0 == Cardinality(Start.token)
Early   == {g \in Conn : pc[g] \in {"before", "call"}}
CountInv ==
    /\ fresh \in [user : Nat \ {0}, token : Nat \ {0}]
    /\ bound \in [request : 0..MaxRequest, crash : Nat]
    /\ IsFiniteSet(Early)
    /\ fresh.user + Cardinality(Early) <= Users0 + bound.request + 1
    /\ fresh.token + Cardinality(Early) <= Tokens0 + bound.request + 1

LEMMA Sizes == /\ Users0 \in Nat /\ Tokens0 \in Nat /\ MaxRequest \in Nat
               /\ UserId = 1..Users0 + MaxRequest /\ Token = 1..Tokens0 + MaxRequest
BY StartAssumption, BoundAssumption, FS_CardinalityType DEF Users0, Tokens0, UserId, Token

LEMMA CountFields ==
    ASSUME CountInv
    PROVE  /\ fresh.user \in Nat \ {0} /\ fresh.token \in Nat \ {0}
           /\ bound.request \in 0..MaxRequest /\ Cardinality(Early) \in Nat
           /\ fresh.user + Cardinality(Early) <= Users0 + bound.request + 1
           /\ fresh.token + Cardinality(Early) <= Tokens0 + bound.request + 1
BY FS_CardinalityType DEF CountInv

LEMMA RoomLeft ==
    ASSUME NEW f \in Nat \ {0}, NEW n \in Nat, n # 0, NEW u \in Nat, NEW m \in Nat,
           NEW r \in 0..m, f + n <= u + r + 1
    PROVE  f \in 1..u + m
OBVIOUS

\* Whoever still has to draw finds an id.
LEMMA MayDraw ==
    ASSUME CountInv, NEW g \in Conn, pc[g] \in {"before", "call"}
    PROVE  fresh.user \in UserId /\ fresh.token \in Token
<1>1. Early # {}
  BY DEF Early
<1>2. Cardinality(Early) \in Nat /\ Cardinality(Early) # 0
  BY <1>1, FS_CardinalityType, FS_EmptySet DEF CountInv
<1>3. /\ fresh.user \in Nat \ {0} /\ fresh.token \in Nat \ {0}
      /\ bound.request \in 0..MaxRequest
      /\ fresh.user + Cardinality(Early) <= Users0 + bound.request + 1
      /\ fresh.token + Cardinality(Early) <= Tokens0 + bound.request + 1
  BY CountFields
<1>4. /\ Users0 \in Nat /\ Tokens0 \in Nat /\ MaxRequest \in Nat
      /\ UserId = 1..Users0 + MaxRequest /\ Token = 1..Tokens0 + MaxRequest
  BY Sizes
<1>5. fresh.user \in 1..Users0 + MaxRequest
  BY ONLY <1>2, <1>3, <1>4, RoomLeft
<1>6. fresh.token \in 1..Tokens0 + MaxRequest
  BY ONLY <1>2, <1>3, <1>4, RoomLeft
<1> QED
  BY <1>4, <1>5, <1>6

\* What has been drawn is an id.
LEMMA Drawn ==
    ASSUME CountInv
    PROVE  /\ \A i \in 1..fresh.user - 1 : i \in UserId
           /\ \A i \in 1..fresh.token - 1 : i \in Token
<1>1. /\ fresh.user \in Nat /\ fresh.token \in Nat
      /\ fresh.user <= Users0 + MaxRequest + 1 /\ fresh.token <= Tokens0 + MaxRequest + 1
  <2>1. /\ fresh.user \in Nat /\ fresh.token \in Nat /\ bound.request \in 0..MaxRequest
        /\ Cardinality(Early) \in Nat
        /\ fresh.user + Cardinality(Early) <= Users0 + bound.request + 1
        /\ fresh.token + Cardinality(Early) <= Tokens0 + bound.request + 1
    BY CountFields
  <2>2. Users0 \in Nat /\ Tokens0 \in Nat /\ MaxRequest \in Nat
    BY Sizes
  <2> QED
    BY ONLY <2>1, <2>2
<1>2. UserId = 1..Users0 + MaxRequest /\ Token = 1..Tokens0 + MaxRequest
      /\ Users0 + MaxRequest \in Nat /\ Tokens0 + MaxRequest \in Nat
  BY Sizes
<1> QED
  BY ONLY <1>1, <1>2

LEMMA InitCount == Init => CountInv
<1> SUFFICES ASSUME Init PROVE CountInv
  OBVIOUS
<1>1. Early = {}
  BY DEF Init, Early
<1> QED
  BY <1>1, FS_EmptySet, Sizes, BoundAssumption DEF Init, CountInv, Users0, Tokens0

LEMMA CountShrinks ==
    ASSUME CountInv, Early' \subseteq Early, UNCHANGED fresh,
           bound' \in [request : 0..MaxRequest, crash : Nat], bound'.request = bound.request
    PROVE  CountInv'
<1>1. /\ IsFiniteSet(Early') /\ Cardinality(Early') <= Cardinality(Early)
      /\ Cardinality(Early') \in Nat /\ Cardinality(Early) \in Nat
  BY FS_Subset, FS_CardinalityType DEF CountInv
<1>2. /\ fresh' = fresh /\ bound'.request = bound.request
      /\ fresh.user \in Nat /\ fresh.token \in Nat /\ bound.request \in Nat
      /\ fresh.user + Cardinality(Early) <= Users0 + bound.request + 1
      /\ fresh.token + Cardinality(Early) <= Tokens0 + bound.request + 1
      /\ Users0 \in Nat /\ Tokens0 \in Nat
  BY CountFields, Sizes, SMTT(30)
<1>3. /\ fresh'.user + Cardinality(Early') <= Users0 + bound'.request + 1
      /\ fresh'.token + Cardinality(Early') <= Tokens0 + bound'.request + 1
  BY ONLY <1>1, <1>2
<1> QED
  BY <1>1, <1>3 DEF CountInv

LEMMA CountDraws ==
    ASSUME CountInv, NEW g \in Early, Early' = Early \ {g}, UNCHANGED bound,
           fresh' \in [user : Nat \ {0}, token : Nat \ {0}],
           fresh'.user <= fresh.user + 1, fresh'.token <= fresh.token + 1
    PROVE  CountInv'
<1>1. /\ IsFiniteSet(Early') /\ Cardinality(Early') = Cardinality(Early) - 1
      /\ Cardinality(Early') \in Nat /\ Cardinality(Early) \in Nat
  BY FS_RemoveElement, FS_CardinalityType DEF CountInv
<1>2. /\ fresh'.user + Cardinality(Early') <= Users0 + bound.request + 1
      /\ fresh'.token + Cardinality(Early') <= Tokens0 + bound.request + 1
  <2>1. /\ fresh'.user \in Nat /\ fresh'.token \in Nat
        /\ fresh'.user <= fresh.user + 1 /\ fresh'.token <= fresh.token + 1
    OBVIOUS
  <2>2. /\ fresh.user + Cardinality(Early) <= Users0 + bound.request + 1
        /\ fresh.token + Cardinality(Early) <= Tokens0 + bound.request + 1
        /\ fresh.user \in Nat /\ fresh.token \in Nat /\ bound.request \in Nat
    BY CountFields, Sizes, SMTT(30)
  <2>3. Users0 \in Nat /\ Tokens0 \in Nat
    BY Sizes
  <2> QED
    BY ONLY <1>1, <2>1, <2>2, <2>3
<1> QED
  BY <1>1, <1>2 DEF CountInv

\* What a step of g does to pc and to what is drawn, in outline.
LEMMA Outline ==
    ASSUME IInv, CountInv, NEW g \in Conn, Step(g)
    PROVE  /\ bound' = bound
           /\ \A h \in Conn \ {g} : pc'[h] = pc[h]
           /\ \/ pc[g] = "call" /\ pc'[g] \in {"body", "after"}
              \/ /\ UNCHANGED fresh
                 /\ pc'[g] \in {"before", "call"} => pc[g] = "before"
           /\ fresh' \in [user : Nat \ {0}, token : Nat \ {0}]
           /\ fresh'.user \in {fresh.user, fresh.user + 1}
           /\ fresh'.token \in {fresh.token, fresh.token + 1}
<1> USE DEF IInv, Functions, CountInv
<1>1. CASE Validates(g)
  BY <1>1 DEF Validates, StartTransaction, LoginValidate, AdminValidate,
              DistributedValidate, Before, Pass, Leave
<1>2. CASE Check(g)
  BY <1>2 DEF Check, Leave
<1>3. CASE Controls(g)
  <2>1. /\ pc[g] = "call" /\ bound' = bound
        /\ \/ pc' = [pc EXCEPT ![g] = "body"] \/ pc' = [pc EXCEPT ![g] = "after"]
    BY <1>3 DEF Controls, DoLogin, Logout, Modify, AddAdmin, Edit, MakeApiToken, Update,
         ResetData, Backup, Upload, OtherController, Calls, Keep, Does, Leave
  <2>2. \/ fresh' = fresh
        \/ fresh' = [fresh EXCEPT !.user = @ + 1]
        \/ fresh' = [fresh EXCEPT !.token = @ + 1]
        \/ fresh' = [fresh EXCEPT !.token = @]
    BY <1>3 DEF Controls, DoLogin, Logout, Modify, AddAdmin, Edit, MakeApiToken, Update,
         ResetData, Backup, Upload, OtherController
  <2> QED
    BY <2>1, <2>2
<1>4. CASE Executes(g)
  BY <1>4 DEF Executes, Begin, Exec, Panic, ExecDirect, Reopen, CommitInside, Return,
              Next1, Leave, Rest, Writes, Runs, server
<1>5. CASE Closes(g)
  BY <1>5 DEF Closes, Commit, CommitPanics, HtmlInterceptor, RemoveGoroutineLocal,
              After, Rest
<1> QED
  BY <1>1, <1>2, <1>3, <1>4, <1>5 DEF Step

LEMMA NextCount ==
    ASSUME IInv, CountInv, [Next]_vars PROVE CountInv'
<1>1. ASSUME NEW g \in Conn, Step(g) PROVE CountInv'
  <2>1. CASE pc[g] = "call" /\ pc'[g] \in {"body", "after"}
    <3>1. g \in Early /\ Early' = Early \ {g}
      BY <1>1, <2>1, Outline DEF Early
    <3>2. /\ bound' = bound /\ fresh' \in [user : Nat \ {0}, token : Nat \ {0}]
          /\ fresh'.user \in {fresh.user, fresh.user + 1}
          /\ fresh'.token \in {fresh.token, fresh.token + 1}
      BY <1>1, Outline
    <3>3. fresh'.user <= fresh.user + 1 /\ fresh'.token <= fresh.token + 1
      BY <3>2, CountFields
    <3> QED
      BY <3>1, <3>2, <3>3, CountDraws
  <2>2. CASE UNCHANGED fresh /\ (pc'[g] \in {"before", "call"} => pc[g] = "before")
    <3>1. Early' \subseteq Early
      BY <1>1, <2>2, Outline DEF Early
    <3>2. /\ bound' = bound /\ bound'.request = bound.request
          /\ bound' \in [request : 0..MaxRequest, crash : Nat]
      BY <1>1, Outline DEF CountInv
    <3>3. fresh' = fresh
      BY <2>2
    <3> QED
      BY <3>1, <3>2, <3>3, CountShrinks
  <2> QED
    BY <1>1, <2>1, <2>2, Outline
<1>2. ASSUME NEW g \in Conn, Accept(g) PROVE CountInv'
  <2>1. /\ Early' = Early \cup {g} /\ g \notin Early
        /\ UNCHANGED fresh /\ bound.request < MaxRequest
        /\ bound' = [bound EXCEPT !.request = @ + 1]
    BY <1>2 DEF Accept, Early, IInv, Functions
  <2>2. /\ IsFiniteSet(Early') /\ Cardinality(Early') = Cardinality(Early) + 1
        /\ Cardinality(Early') \in Nat /\ Cardinality(Early) \in Nat
    BY <2>1, FS_AddElement, FS_CardinalityType DEF CountInv
  <2>3. bound' \in [request : 0..MaxRequest, crash : Nat] /\ bound'.request = bound.request + 1
    <3>1. bound \in [request : 0..MaxRequest, crash : Nat] /\ MaxRequest \in Nat
      BY Sizes DEF CountInv
    <3> QED
      BY ONLY <2>1, <3>1
  <2>4. /\ fresh'.user + Cardinality(Early') <= Users0 + bound'.request + 1
        /\ fresh'.token + Cardinality(Early') <= Tokens0 + bound'.request + 1
    <3>1. /\ fresh.user + Cardinality(Early) <= Users0 + bound.request + 1
          /\ fresh.token + Cardinality(Early) <= Tokens0 + bound.request + 1
          /\ fresh.user \in Nat /\ fresh.token \in Nat /\ bound.request \in Nat
      BY CountFields, Sizes
    <3>2. Users0 \in Nat /\ Tokens0 \in Nat
      BY Sizes
    <3> QED
      BY ONLY <2>1, <2>2, <2>3, <3>1, <3>2
  <2> QED
    BY <2>1, <2>2, <2>3, <2>4 DEF CountInv
<1>3. CASE Crash
  <2>1. Early' = {}
    BY <1>3 DEF Crash, Early
  <2> QED
    BY <1>3, <2>1, CountShrinks DEF Crash, CountInv
<1>4. CASE UNCHANGED vars
  BY <1>4, CountShrinks DEF vars, server, CountInv, Early
<1> QED
  BY <1>1, <1>2, <1>3, <1>4 DEF Next

-----------------------------------------------------------------------------
(* What is asked for.                                                      *)

Asked(g) ==
    /\ req[g].token \in 0..fresh.token - 1
    /\ req[g].route = LoginDoLogin => req[g].form.device \in Device
    /\ req[g].route = ModifyPwdModify => req[g].form.pwd \in Pwd
    /\ req[g].route = CreateAdminAddAdmin =>
         req[g].form.name \in Name /\ req[g].form.pwd \in Pwd
    /\ req[g].route = UserEdit =>
         req[g].form.name \in Name /\ req[g].form.pwd \in Pwd \cup {None}
FormInv == \A g \in Conn : pc[g] # "idle" => Asked(g)

LEMMA FormsAre ==
    /\ Forms(LoginDoLogin) = [name : Name, pwd : Pwd, device : Device]
    /\ Forms(ModifyPwdModify) = [old : Pwd, pwd : Pwd]
    /\ Forms(CreateAdminAddAdmin) = [name : Name, pwd : Pwd]
    /\ Forms(UserEdit) = [id : 0..fresh.user - 1, name : Name, pwd : Pwd \cup {None}]
<1>1. /\ LoginDoLogin.at = <<"app", "login", "do_login">>
      /\ ModifyPwdModify.at = <<"app", "modify_pwd", "modify">>
      /\ CreateAdminAddAdmin.at = <<"app", "install", "create_admin/add_admin">>
      /\ UserEdit.at = <<"app", "user_edit", "edit">>
      /\ MineMakeApiToken.at = <<"app", "mine", "make_api_token">>
  BY DEF LoginDoLogin, ModifyPwdModify, CreateAdminAddAdmin, UserEdit, MineMakeApiToken,
         Route, Post, Checked
<1>2. /\ LoginDoLogin.at[2] = "login" /\ ModifyPwdModify.at[2] = "modify_pwd"
      /\ CreateAdminAddAdmin.at[2] = "install" /\ UserEdit.at[2] = "user_edit"
      /\ MineMakeApiToken.at[2] = "mine"
  BY <1>1
<1>3. /\ ModifyPwdModify # LoginDoLogin /\ CreateAdminAddAdmin # LoginDoLogin
      /\ CreateAdminAddAdmin # ModifyPwdModify /\ UserEdit # LoginDoLogin
      /\ UserEdit # ModifyPwdModify /\ UserEdit # CreateAdminAddAdmin
      /\ MineMakeApiToken \notin {LoginDoLogin, ModifyPwdModify, CreateAdminAddAdmin, UserEdit}
  BY ONLY <1>2
<1> QED
  BY <1>3, Zenon DEF Forms

\* A request is kept until its goroutine is idle.
LEMMA RequestKept ==
    ASSUME IInv, NEW g \in Conn, Step(g)
    PROVE  /\ pc[g] # "idle"
           /\ \A h \in Conn \ {g} : pc'[h] = pc[h] /\ req'[h] = req[h]
           /\ req' = req \/ (pc[g] = "after" /\ pc'[g] = "idle")
<1> USE DEF IInv, Functions
<1>1. CASE Validates(g)
  BY <1>1 DEF Validates, StartTransaction, LoginValidate, AdminValidate,
              DistributedValidate, Before, Pass, Leave
<1>2. CASE Check(g)
  BY <1>2 DEF Check, Leave
<1>3. CASE Controls(g)
  BY <1>3 DEF Controls, DoLogin, Logout, Modify, AddAdmin, Edit, MakeApiToken, Update,
         ResetData, Backup, Upload, OtherController, Calls, Does, Leave
<1>4. CASE Executes(g)
  BY <1>4 DEF Executes, Begin, Exec, Panic, ExecDirect, Reopen, CommitInside, Return,
              Next1, Leave, Writes, Runs, server
<1>5. CASE Closes(g)
  BY <1>5 DEF Closes, Commit, CommitPanics, HtmlInterceptor, RemoveGoroutineLocal, After
<1> QED
  BY <1>1, <1>2, <1>3, <1>4, <1>5 DEF Step

LEMMA NextForm ==
    ASSUME IInv, CountInv, FormInv, [Next]_vars PROVE FormInv'
<1>1. ASSUME NEW g \in Conn, Step(g) PROVE FormInv'
  <2>1. fresh'.token \in {fresh.token, fresh.token + 1} /\ fresh.token \in Nat
    BY <1>1, Outline, CountFields
  <2>2. \A h \in Conn : pc'[h] # "idle" => pc[h] # "idle" /\ req'[h] = req[h]
    BY <1>1, RequestKept
  <2>3. 0..fresh.token - 1 \subseteq 0..fresh'.token - 1
    BY ONLY <2>1
  <2> QED
    BY <2>2, <2>3 DEF FormInv, Asked
<1>2. ASSUME NEW g \in Conn, Accept(g) PROVE FormInv'
  <2>1. PICK route \in Requested, token \in 0..fresh.token - 1 :
          \E form \in Forms(route) :
             req' = [req EXCEPT ![g] = [route |-> route, token |-> token, form |-> form]]
    BY <1>2 DEF Accept
  <2> PICK form \in Forms(route) :
          req' = [req EXCEPT ![g] = [route |-> route, token |-> token, form |-> form]]
    BY <2>1
  <2>2. /\ req'[g] = [route |-> route, token |-> token, form |-> form]
        /\ fresh' = fresh
        /\ \A h \in Conn \ {g} : pc'[h] = pc[h] /\ req'[h] = req[h]
    BY <1>2, <2>1 DEF Accept, IInv, Functions
  <2>3. Asked(g)'
    <3>1. req'[g].route = route /\ req'[g].token = token /\ req'[g].form = form
      BY <2>2
    <3>2. /\ route = LoginDoLogin => form.device \in Device
          /\ route = ModifyPwdModify => form.pwd \in Pwd
          /\ route = CreateAdminAddAdmin => form.name \in Name /\ form.pwd \in Pwd
          /\ route = UserEdit => form.name \in Name /\ form.pwd \in Pwd \cup {None}
      <4>1. route = LoginDoLogin => form \in [name : Name, pwd : Pwd, device : Device]
        BY FormsAre, Zenon
      <4>2. route = ModifyPwdModify => form \in [old : Pwd, pwd : Pwd]
        BY FormsAre, Zenon
      <4>3. route = CreateAdminAddAdmin => form \in [name : Name, pwd : Pwd]
        BY FormsAre, Zenon
      <4>4. route = UserEdit =>
              form \in [id : 0..fresh.user - 1, name : Name, pwd : Pwd \cup {None}]
        BY FormsAre, Zenon
      <4> QED
        BY ONLY <4>1, <4>2, <4>3, <4>4
    <3> QED
      BY <2>2, <3>1, <3>2 DEF Asked
  <2> QED
    BY <2>2, <2>3 DEF FormInv, Asked
<1>3. CASE Crash
  BY <1>3 DEF Crash, FormInv
<1>4. CASE UNCHANGED vars
  BY <1>4 DEF vars, server, FormInv, Asked
<1> QED
  BY <1>1, <1>2, <1>3, <1>4 DEF Next

-----------------------------------------------------------------------------
(* Who holds the lock, and what it has run.                                *)

LockInv ==
    /\ DOMAIN todo = Conn /\ DOMAIN body = Conn
    /\ lock \in Conn \cup {None}
    /\ \A g \in Conn : lock = g => pc[g] \in {"body", "after"}
    /\ lock = None => work = Nothing
    /\ \A g \in Conn : pc[g] = "after" => todo[g] = <<>>

\* The tables are in order, those that are being written too.
TableInv == Tables(db, fresh.user) /\ Tables(work, fresh.user)

\* Statements that change no account, or go straight to the tables.
Aside(s)  == s.do \in Special \cup {"Other"}
Plain(rest) ==
    \/ rest = <<>>
    \/ \E a : rest = <<a>> /\ Aside(a)
    \/ \E a, b : rest = <<a, b>> /\ Aside(a) /\ Aside(b)
    \/ \E a, b, c : rest = <<a, b, c>> /\ Aside(a) /\ Aside(b) /\ Aside(c)

\* Nothing of the program has been run, or what has been run is in work.
Runs1(p, g) ==
    /\ IsProgram(p, fresh.user)
    /\ lock # g => todo[g] = p
    /\ lock = g => /\ Stage(p, todo[g], db, work)
                   /\ ~Violates(p[1], db)
                   /\ p[1].do = "UserAdd" => p[1].user.id \notin IdsOf(db)
Works(g) == \/ Plain(todo[g]) /\ (lock = g => work = db)
            \/ \E p : Runs1(p, g)
Serves(g) == pc[g] = "body" \/ (pc[g] = "after" /\ body[g] = "nil" /\ lock = g)
WorkInv == \A g \in Conn : Serves(g) => Works(g)

\* The id of a user that is to be added is new, and nobody else's.
Adds(g, i) == /\ pc[g] = "body" /\ todo[g] # <<>>
              /\ Head(todo[g]).do = "UserAdd" /\ Head(todo[g]).user.id = i
PendingInv ==
    /\ \A g \in Conn : \A i : Adds(g, i) =>
         i \in UserId /\ i < fresh.user /\ i \notin IdsOf(db) /\ i \notin IdsOf(work)
    /\ \A g, h \in Conn : \A i : Adds(g, i) /\ Adds(h, i) => g = h

StoreInv == LockInv /\ TableInv /\ WorkInv /\ PendingInv

-----------------------------------------------------------------------------
(* What a step leaves to the others.                                       *)

LEMMA TablesGrow ==
    ASSUME NEW d, NEW top \in Nat, Tables(d, top), NEW more \in Nat, more >= top
    PROVE  Tables(d, more)
BY Sizes DEF Tables

LEMMA OthersWork ==
    ASSUME StoreInv, CountInv, NEW g \in Conn, NEW h \in Conn \ {g},
           pc'[h] = pc[h], todo'[h] = todo[h], body'[h] = body[h],
           lock' = h <=> lock = h,
           lock = h => db' = db /\ work' = work,
           fresh'.user \in {fresh.user, fresh.user + 1}
    PROVE  Serves(h)' => Works(h)'
<1> SUFFICES ASSUME Serves(h)' PROVE Works(h)'
  OBVIOUS
<1>1. Works(h)
  BY DEF StoreInv, WorkInv, Serves
<1>2. CASE Plain(todo[h]) /\ (lock = h => work = db)
  BY <1>2 DEF Works, Plain, Aside
<1>3. ASSUME NEW p, Runs1(p, h) PROVE Works(h)'
  <2>1. IsProgram(p, fresh'.user)
    BY <1>3, ProgramGrows, CountFields DEF Runs1
  <2>2. lock' # h => todo'[h] = p
    BY <1>3 DEF Runs1
  <2>3. lock' = h => /\ Stage(p, todo'[h], db', work') /\ ~Violates(p[1], db')
                     /\ p[1].do = "UserAdd" => p[1].user.id \notin IdsOf(db')
    BY <1>3 DEF Runs1
  <2> QED
    BY <2>1, <2>2, <2>3 DEF Works, Runs1
<1> QED
  BY <1>1, <1>2, <1>3 DEF Works

\* No id is drawn and no user appears.
LEMMA PendingKept ==
    ASSUME PendingInv, NEW g \in Conn,
           \A h \in Conn \ {g} : pc'[h] = pc[h] /\ todo'[h] = todo[h],
           \A i : Adds(g, i)' => Adds(g, i),
           CountInv, fresh'.user \in {fresh.user, fresh.user + 1},
           IdsOf(db') \subseteq IdsOf(db) \cup IdsOf(work),
           IdsOf(work') \subseteq IdsOf(db) \cup IdsOf(work)
    PROVE  PendingInv'
<1>1. \A h \in Conn : \A i : Adds(h, i)' => Adds(h, i)
  BY DEF Adds
<1>2. \A i \in UserId : i < fresh.user => i < fresh'.user
  <2>1. fresh.user \in Nat /\ fresh'.user \in {fresh.user, fresh.user + 1}
    BY CountFields
  <2>2. \A i \in UserId : i \in Nat
    BY Sizes
  <2> QED
    BY ONLY <2>1, <2>2
<1> QED
  BY <1>1, <1>2 DEF PendingInv

\* A step of g that leaves the tables and the lock, after which g is not in a
\* controller, or at the same place in it.
LEMMA QuietStep ==
    ASSUME StoreInv, CountInv, NEW g \in Conn, UNCHANGED <<db, work, lock>>,
           \A h \in Conn \ {g} :
              pc'[h] = pc[h] /\ todo'[h] = todo[h] /\ body'[h] = body[h],
           DOMAIN todo' = Conn, DOMAIN body' = Conn,
           lock = g => pc'[g] \in {"body", "after"},
           pc'[g] = "after" => todo'[g] = <<>>,
           pc'[g] = "body" => pc[g] = "body" /\ todo'[g] = todo[g],
           Serves(g)' => Serves(g) /\ todo'[g] = todo[g],
           fresh'.user \in {fresh.user, fresh.user + 1}
    PROVE  StoreInv'
<1>1. LockInv'
  BY DEF StoreInv, LockInv
<1>2. TableInv'
  BY TablesGrow, CountFields DEF StoreInv, TableInv
<1>3. WorkInv'
  <2>1. Serves(g)' => Works(g)'
    <3> SUFFICES ASSUME Serves(g)' PROVE Works(g)'
      OBVIOUS
    <3>1. Works(g) /\ todo'[g] = todo[g]
      BY DEF StoreInv, WorkInv
    <3>2. ASSUME NEW p, Runs1(p, g) PROVE Runs1(p, g)'
      <4>1. IsProgram(p, fresh'.user)
        BY <3>2, ProgramGrows, CountFields DEF Runs1
      <4> QED
        BY <3>1, <3>2, <4>1 DEF Runs1
    <3> QED
      BY <3>1, <3>2 DEF Works
  <2>2. \A h \in Conn \ {g} : Serves(h)' => Works(h)'
    BY OthersWork
  <2> QED
    BY <2>1, <2>2 DEF WorkInv
<1>4. PendingInv'
  <2>1. \A i : Adds(g, i)' => Adds(g, i)
    BY DEF Adds
  <2>2. PendingInv /\ \A h \in Conn \ {g} : pc'[h] = pc[h] /\ todo'[h] = todo[h]
    BY DEF StoreInv
  <2>3. db' = db /\ work' = work
    OBVIOUS
  <2> QED
    BY <2>1, <2>2, <2>3, PendingKept
<1> QED
  BY <1>1, <1>2, <1>3, <1>4 DEF StoreInv

-----------------------------------------------------------------------------
(* Who the goroutine knows.                                                *)

UserInv ==
    \A g \in Conn :
        /\ local[g].user \in UserId \cup {0}
        /\ /\ pc[g] \in {"before", "call"}
           /\ "LoginValidate" \in passed[g]
           => local[g].user # 0

LEMMA BearerIs ==
    ASSUME NEW top, Tables(db, top), NEW token
    PROVE  Bearer(db, token) \in UserId \cup {0}
BY DEF Bearer, Tables

LEMMA UserFrame ==
    ASSUME UserInv, NEW g \in Conn,
           \A h \in Conn \ {g} : pc'[h] = pc[h] /\ passed'[h] = passed[h]
                                 /\ local'[h].user = local[h].user,
           local'[g].user \in UserId \cup {0},
           pc'[g] \in {"before", "call"} /\ "LoginValidate" \in passed'[g]
              => local'[g].user # 0
    PROVE  UserInv'
BY DEF UserInv

LEMMA NextUser ==
    ASSUME IInv, UserInv, TableInv, [Next]_vars PROVE UserInv'
<1> USE DEF IInv, Functions
<1>1. ASSUME NEW g \in Conn, Validates(g) PROVE UserInv'
  <2>1. CASE LoginValidate(g)
    <3>1. Bearer(db, req[g].token) \in UserId \cup {0}
      BY BearerIs DEF TableInv
    <3>2. CASE UNCHANGED local /\ pc' = [pc EXCEPT ![g] = "after"] /\ UNCHANGED passed
      BY <3>2, UserFrame DEF UserInv
    <3>3. CASE /\ local' = [local EXCEPT ![g].user = Bearer(db, req[g].token)]
               /\ Bearer(db, req[g].token) # 0 /\ Pass(g)
      <4>1. local'[g] = [local[g] EXCEPT !.user = Bearer(db, req[g].token)]
        BY <3>3
      <4>2. local'[g].user = Bearer(db, req[g].token)
        BY <4>1, SetUser DEF Own, OwnOf
      <4> QED
        BY <3>1, <3>3, <4>2, UserFrame DEF Pass
    <3> QED
      BY <2>1, <3>2, <3>3 DEF LoginValidate, Leave
  <2>2. CASE ~LoginValidate(g)
    <3>1. \A h \in Conn : local'[h].user = local[h].user
      <4>1. CASE UNCHANGED local
        BY <4>1
      <4>2. CASE local' = [local EXCEPT ![g].manual = TRUE]
        <5>1. local'[g] = [local[g] EXCEPT !.manual = TRUE]
          BY <4>2
        <5> QED
          BY <4>2, <5>1, SetManual DEF Own, OwnOf
      <4> QED
        BY <1>1, <2>2, <4>1, <4>2 DEF Validates, StartTransaction, AdminValidate,
                                      DistributedValidate
    <3>2. \/ pc' = [pc EXCEPT ![g] = "after"] /\ UNCHANGED passed
          \/ /\ UNCHANGED pc
             /\ \E name : /\ name # "LoginValidate"
                          /\ passed' = [passed EXCEPT ![g] = @ \cup {name}]
      BY <1>1, <2>2 DEF Validates, StartTransaction, AdminValidate, DistributedValidate,
                        Before, Pass, Leave
    <3> QED
      BY <1>1, <3>1, <3>2, UserFrame DEF UserInv, Validates, StartTransaction,
            AdminValidate, DistributedValidate, Before
  <2> QED
    BY <2>1, <2>2
<1>2. ASSUME NEW g \in Conn, Check(g) PROVE UserInv'
  <2>1. UNCHANGED <<local, passed>> /\ pc[g] = "before"
        /\ \A h \in Conn \ {g} : pc'[h] = pc[h]
    BY <1>2 DEF Check, Leave
  <2> QED
    BY <2>1, UserFrame DEF UserInv
<1>3. ASSUME NEW g \in Conn, Controls(g) PROVE UserInv'
  <2>1. UNCHANGED <<local, passed>> /\ pc'[g] \in {"body", "after"}
        /\ \A h \in Conn \ {g} : pc'[h] = pc[h]
    BY <1>3 DEF Controls, DoLogin, Logout, Modify, AddAdmin, Edit, MakeApiToken, Update,
         ResetData, Backup, Upload, OtherController, Calls, Keep, Does, Leave
  <2> QED
    BY <2>1, UserFrame DEF UserInv
<1>4. ASSUME NEW g \in Conn, Executes(g) \/ Closes(g) PROVE UserInv'
  <2>1. /\ passed' = passed /\ pc[g] \in {"body", "after"}
        /\ pc'[g] \in {"body", "after", "gone", "idle"}
        /\ \A h \in Conn \ {g} : pc'[h] = pc[h]
    BY <1>4 DEF Executes, Begin, Exec, Panic, ExecDirect, Reopen, CommitInside, Return,
         Next1, Leave, Writes, Runs, server, Closes, Commit, CommitPanics,
         HtmlInterceptor, RemoveGoroutineLocal, After
  <2>2. \/ UNCHANGED local
        \/ local' = [local EXCEPT ![g] = Empty]
        \/ local' = [local EXCEPT ![g].tx = None, ![g].begun = FALSE]
        \/ \E v : local' = [local EXCEPT ![g].begun = TRUE, ![g].tx = v]
    BY <1>4 DEF Executes, Begin, Exec, Panic, ExecDirect, Reopen, CommitInside, Return,
         Closes, Commit, CommitPanics, HtmlInterceptor, RemoveGoroutineLocal, Ends
  <2>3. /\ \A h \in Conn \ {g} : local'[h].user = local[h].user
        /\ local'[g].user \in {local[g].user, 0}
    BY <2>2 DEF Empty, Own, OwnOf, IsLocal
  <2> QED
    BY <2>1, <2>3, UserFrame DEF UserInv
<1>5. ASSUME NEW g \in Conn, Accept(g) PROVE UserInv'
  BY <1>5, UserFrame DEF Accept, UserInv
<1>6. CASE Crash
  BY <1>6 DEF Crash, UserInv, Empty
<1>7. CASE UNCHANGED vars
  BY <1>7 DEF vars, server, UserInv
<1> QED
  BY <1>1, <1>2, <1>3, <1>4, <1>5, <1>6, <1>7 DEF Next, Step

-----------------------------------------------------------------------------
(* The steps of a goroutine, and the store.                                *)

\* g has run its last statement, or one that adds no user; its user may now
\* be in the tables.
LEMMA PendingLeft ==
    ASSUME PendingInv, NEW g \in Conn, fresh' = fresh,
           \A h \in Conn \ {g} : pc'[h] = pc[h] /\ todo'[h] = todo[h],
           \A i : ~Adds(g, i)',
           \A i \in IdsOf(db') \cup IdsOf(work') :
              i \in IdsOf(db) \cup IdsOf(work) \/ Adds(g, i)
    PROVE  PendingInv'
<1>1. \A h \in Conn : \A i : Adds(h, i)' => Adds(h, i) /\ h # g
  BY DEF Adds
<1> QED
  BY <1>1 DEF PendingInv

LEMMA StoreFrame ==
    ASSUME StoreInv, CountInv, NEW g \in Conn,
           \A h \in Conn \ {g} :
              /\ pc'[h] = pc[h] /\ todo'[h] = todo[h] /\ body'[h] = body[h]
              /\ lock' = h <=> lock = h
              /\ lock = h => db' = db /\ work' = work,
           fresh'.user \in {fresh.user, fresh.user + 1},
           LockInv', TableInv', PendingInv', Serves(g)' => Works(g)'
    PROVE  StoreInv'
<1>1. \A h \in Conn \ {g} : Serves(h)' => Works(h)'
  BY OthersWork
<1> QED
  BY <1>1 DEF StoreInv, WorkInv

LEMMA PlainParts ==
    ASSUME NEW rest, Plain(rest), rest # <<>>
    PROVE  Aside(Head(rest)) /\ Plain(Tail(rest))
<1>1. CASE \E a : rest = <<a>> /\ Aside(a)
  BY <1>1 DEF Plain
<1>2. ASSUME NEW a, NEW b, rest = <<a, b>>, Aside(a), Aside(b)
      PROVE  Aside(Head(rest)) /\ Plain(Tail(rest))
  <2>1. Head(rest) = a /\ Tail(rest) = <<b>>
    BY <1>2
  <2> QED
    BY <1>2, <2>1, Zenon DEF Plain
<1>3. ASSUME NEW a, NEW b, NEW c, rest = <<a, b, c>>, Aside(a), Aside(b), Aside(c)
      PROVE  Aside(Head(rest)) /\ Plain(Tail(rest))
  <2>1. Head(rest) = a /\ Tail(rest) = <<b, c>>
    BY <1>3
  <2> QED
    BY <1>3, <2>1, Zenon DEF Plain
<1> QED
  BY <1>1, <1>2, <1>3 DEF Plain

LEMMA AsideAddsNone ==
    ASSUME NEW s, Aside(s) PROVE s.do \in Special \cup {"Other"} /\ s.do # "UserAdd"
BY DEF Aside, Special, Direct

\* What follows the first statement of a program adds nobody either.
LEMMA StageAddsNone ==
    ASSUME NEW p, NEW top, Formed(p, top), NEW d, NEW w, NEW rest, Stage(p, rest, d, w)
    PROVE  rest # <<>> => Head(rest).do # "UserAdd"
BY StageNext

\* A statement that goes round the transaction is not one of a program.
LEMMA SpecialIsPlain ==
    ASSUME StoreInv, NEW g \in Conn, Runs(g, Special)
    PROVE  Plain(todo[g]) /\ Plain(Tail(todo[g])) /\ (lock = g => work = db)
<1>1. Works(g) /\ pc[g] = "body" /\ todo[g] # <<>> /\ Head(todo[g]).do \in Special
  BY DEF StoreInv, WorkInv, Serves, Runs
<1>2. ASSUME NEW p, Runs1(p, g) PROVE FALSE
  <2>1. Formed(p, fresh.user)
    BY <1>2, ProgramIs DEF Runs1
  <2>2. IsStatement(Head(todo[g]), fresh.user)
    <3>1. CASE lock = g
      BY <1>1, <1>2, <2>1, <3>1, StageNext DEF Runs1
    <3>2. CASE lock # g
      BY <1>2, <2>1, <3>2, StageFirst DEF Runs1
    <3> QED
      BY <3>1, <3>2
  <2> QED
    BY <1>1, <2>2 DEF IsStatement, Special, Statements, OnTokens, Direct
<1>3. Plain(todo[g]) /\ (lock = g => work = db)
  BY <1>1, <1>2 DEF Works
<1> QED
  BY <1>1, <1>3, PlainParts

\* What a controller may decide to run.
MayRun(x) ==
    /\ Plain(x) \/ IsProgram(x, fresh'.user)
    /\ x # <<>> /\ Head(x).do = "UserAdd" =>
         Head(x).user.id = fresh.user /\ fresh'.user = fresh.user + 1

LEMMA DoesStore ==
    ASSUME IInv, StoreInv, CountInv, NEW g \in Conn, pc[g] = "call", NEW x, Does(g, x),
           UNCHANGED store, fresh'.user \in {fresh.user, fresh.user + 1}, MayRun(x)
    PROVE  StoreInv'
<1>1. /\ lock # g /\ UNCHANGED <<db, work, lock>>
      /\ pc'[g] = "body" /\ todo'[g] = x
      /\ DOMAIN todo' = Conn /\ DOMAIN body' = Conn
      /\ \A h \in Conn \ {g} :
            pc'[h] = pc[h] /\ todo'[h] = todo[h] /\ body'[h] = body[h]
  BY DEF StoreInv, LockInv, Does, store, IInv, Functions
<1>2. LockInv'
  BY <1>1 DEF StoreInv, LockInv
<1>3. TableInv'
  BY <1>1, TablesGrow, CountFields DEF StoreInv, TableInv
<1>4. Works(g)'
  <2>1. ASSUME IsProgram(x, fresh'.user) PROVE Runs1(x, g)'
    BY <1>1, <2>1 DEF Runs1
  <2>2. ASSUME Plain(x) PROVE Plain(todo[g])' /\ (lock = g => work = db)'
    BY <1>1, <2>2 DEF Plain, Aside
  <2> QED
    BY <2>1, <2>2 DEF Works, MayRun
<1>5. PendingInv'
  <2>1. ASSUME NEW i, Adds(g, i)'
        PROVE  /\ i = fresh.user /\ i \in UserId /\ i < fresh'.user
               /\ i \notin IdsOf(db') /\ i \notin IdsOf(work')
               /\ \A h \in Conn : ~Adds(h, i)
    <3>1. i = fresh.user /\ fresh'.user = fresh.user + 1
      BY <1>1, <2>1 DEF Adds, MayRun
    <3>2. i \in UserId /\ i \in Nat
      BY <3>1, MayDraw, CountFields
    <3>3. i < fresh'.user /\ ~(i < fresh.user)
      BY ONLY <3>1, <3>2
    <3> QED
      BY <1>1, <3>1, <3>2, <3>3 DEF StoreInv, TableInv, Tables, IdsOf, PendingInv
  <2>2. \A h \in Conn \ {g} : \A i : Adds(h, i)' => Adds(h, i)
    BY <1>1 DEF Adds
  <2>3. \A i \in UserId : i < fresh.user => i < fresh'.user
    <3>1. fresh.user \in Nat /\ fresh'.user \in {fresh.user, fresh.user + 1}
      BY CountFields
    <3>2. \A i \in UserId : i \in Nat
      BY Sizes
    <3> QED
      BY ONLY <3>1, <3>2
  <2>4. \A i : i \notin IdsOf(db) /\ i \notin IdsOf(work)
               => i \notin IdsOf(db') /\ i \notin IdsOf(work')
    BY <1>1 DEF IdsOf
  <2>5. \A h \in Conn : \A i : Adds(h, i)' =>
          i \in UserId /\ i < fresh'.user /\ i \notin IdsOf(db') /\ i \notin IdsOf(work')
    BY <2>1, <2>2, <2>3, <2>4 DEF StoreInv, PendingInv
  <2>6. \A h, k \in Conn : \A i : Adds(h, i)' /\ Adds(k, i)' => h = k
    BY <2>1, <2>2 DEF StoreInv, PendingInv
  <2> QED
    BY <2>5, <2>6 DEF PendingInv
<1> QED
  BY <1>1, <1>2, <1>3, <1>4, <1>5, StoreFrame

\* A request that leaves before it has run anything.
LEMMA LeavesStore ==
    ASSUME IInv, StoreInv, CountInv, NEW g \in Conn, lock # g,
           NEW result, Leave(g, result), UNCHANGED <<db, work, lock>>,
           fresh'.user \in {fresh.user, fresh.user + 1}
    PROVE  StoreInv'
<1>1. /\ pc'[g] = "after" /\ todo'[g] = <<>>
      /\ DOMAIN todo' = Conn /\ DOMAIN body' = Conn
      /\ \A h \in Conn \ {g} :
            pc'[h] = pc[h] /\ todo'[h] = todo[h] /\ body'[h] = body[h]
      /\ lock' # g
  BY DEF StoreInv, LockInv, Leave, IInv, Functions
<1> QED
  BY <1>1, QuietStep DEF Serves

LEMMA PlainOnes ==
    /\ Plain(<<>>)
    /\ Plain(<<[do |-> "DeleteFiles"], [do |-> "DeleteUsers"], [do |-> "DeleteTokens"]>>)
    /\ Plain(<<[do |-> "Close"], [do |-> "Open"]>>)
    /\ Plain(<<[do |-> "Other"], [do |-> "Commit"]>>)
    /\ Plain(<<[do |-> "Other"]>>)
<1>1. \A k \in Special \cup {"Other"} : Aside([do |-> k])
  BY DEF Aside
<1>2. /\ Aside([do |-> "DeleteFiles"]) /\ Aside([do |-> "DeleteUsers"])
      /\ Aside([do |-> "DeleteTokens"]) /\ Aside([do |-> "Close"])
      /\ Aside([do |-> "Open"]) /\ Aside([do |-> "Other"]) /\ Aside([do |-> "Commit"])
  BY <1>1 DEF Special, Direct
<1> QED
  BY <1>2, Zenon DEF Plain

LEMMA PlainMayRun ==
    ASSUME NEW x, Plain(x) PROVE MayRun(x)
BY PlainParts, AsideAddsNone DEF MayRun

-----------------------------------------------------------------------------
(* The controllers.                                                        *)

LEMMA LoginRuns ==
    ASSUME IInv, CountInv, FormInv, TableInv, NEW g \in Conn, DoLogin(g),
           handle # "closed"
    PROVE  \E x : Does(g, x) /\ MayRun(x)
<1> DEFINE found == SelectByName(db, req[g].form.name)
           id    == IF found = {} THEN 0 ELSE (CHOOSE u \in found : TRUE).id
           x     == <<DeviceLeft(id, req[g].form.device),
                      TokenAdded(id, fresh.token, req[g].form.device), Trimmed(id)>>
<1>1. Does(g, x)
  BY DEF DoLogin, DeviceLeft, TokenAdded, Trimmed
<1>2. id \in UserId \cup {0}
  BY DEF TableInv, Tables, SelectByName
<1>3. req[g].form.device \in Device /\ fresh.token \in Token
  BY MayDraw DEF DoLogin, Calls, FormInv, Asked
<1> HIDE DEF found, id
<1>4. IsLogin(x)
  BY <1>2, <1>3, Zenon DEF IsLogin
<1>5. x # <<>> /\ Head(x).do # "UserAdd"
  BY DEF DeviceLeft
<1> HIDE DEF x
<1> QED
  BY <1>1, <1>4, <1>5 DEF MayRun, IsProgram

LEMMA LogoutRuns ==
    ASSUME IInv, CountInv, FormInv, NEW g \in Conn, Logout(g)
    PROVE  \E x : Does(g, x) /\ MayRun(x)
<1>1. CASE req[g].token = 0
  <2>1. Does(g, <<>>)
    BY <1>1 DEF Logout
  <2> QED
    BY <2>1, PlainOnes, PlainMayRun
<1>2. CASE req[g].token # 0
  <2> DEFINE x == <<TokenLeft(req[g].token)>>
  <2>1. Does(g, x)
    BY <1>2 DEF Logout, TokenLeft
  <2>2. req[g].token \in 0..fresh.token - 1 /\ fresh.token \in Nat \ {0}
    BY CountFields DEF Logout, Calls, FormInv, Asked
  <2>3. req[g].token \in 1..fresh.token - 1
    BY ONLY <1>2, <2>2
  <2>4. req[g].token \in Token
    BY <2>3, Drawn
  <2>5. IsLogout(x) /\ x # <<>> /\ Head(x).do # "UserAdd"
    BY <2>4 DEF IsLogout, TokenLeft
  <2> HIDE DEF x
  <2> QED
    BY <2>1, <2>5 DEF MayRun, IsProgram
<1> QED
  BY <1>1, <1>2

\* A controller behind LoginValidate knows its user.
LEMMA KnownUser ==
    ASSUME IInv, UserInv, NEW g \in Conn, pc[g] = "call",
           IsLoggedIn(req[g].route)
    PROVE  local[g].user \in UserId
<1>1. "LoginValidate" \in ToSet(req[g].route.before)
  BY DEF IsLoggedIn, LoggedIn, ToSet
<1> QED
  BY <1>1 DEF IInv, Own, OwnOf, UserInv

LEMMA ModifyRuns ==
    ASSUME IInv, CountInv, FormInv, UserInv, NEW g \in Conn, Modify(g)
    PROVE  \E x : Does(g, x) /\ MayRun(x)
<1> DEFINE x == <<SetPwdTo(local[g].user, req[g].form.pwd), UserLeft(local[g].user)>>
<1>1. Does(g, x)
  BY DEF Modify, SetPwdTo, UserLeft
<1>2. pc[g] = "call" /\ req[g].route = ModifyPwdModify
  BY DEF Modify, Calls
<1>3. local[g].user \in UserId /\ req[g].form.pwd \in Pwd
  BY <1>2, KnownUser, LoggedInRoutes DEF FormInv, Asked
<1>4. IsModify(x) /\ x # <<>> /\ Head(x).do # "UserAdd"
  BY <1>3 DEF IsModify, SetPwdTo
<1> HIDE DEF x
<1> QED
  BY <1>1, <1>4 DEF MayRun, IsProgram

LEMMA AddAdminRuns ==
    ASSUME IInv, CountInv, FormInv, NEW g \in Conn, AddAdmin(g),
           fresh' = [fresh EXCEPT !.user = @ + 1],
           Does(g, AddUser(fresh.user, req[g].form.name, req[g].form.pwd))
    PROVE  \E x : Does(g, x) /\ MayRun(x)
<1> DEFINE name == req[g].form.name
           pwd  == req[g].form.pwd
           x    == <<UserAdded(fresh.user, name, pwd), FolderAdded(fresh.user)>>
<1>1. Does(g, x)
  BY DEF AddUser, UserAdded, FolderAdded
<1>2. name \in Name /\ pwd \in Pwd /\ fresh.user \in UserId
  BY MayDraw DEF AddAdmin, Calls, FormInv, Asked
<1>3. fresh'.user = fresh.user + 1 /\ fresh.user < fresh'.user
  BY CountFields DEF CountInv
<1> HIDE DEF name, pwd
<1>4. IsAdd(x, fresh'.user)
  BY <1>2, <1>3, Zenon DEF IsAdd
<1>5. Head(x).user.id = fresh.user
  BY DEF UserAdded
<1> HIDE DEF x
<1> QED
  BY <1>1, <1>3, <1>4, <1>5 DEF MayRun, IsProgram

LEMMA JoinedThree ==
    ASSUME NEW a, NEW b, NEW c PROVE <<a, b>> \o <<c>> = <<a, b, c>>
<1> DEFINE s == <<a, b>> \o <<c>>
<1>1. s \in Seq({a, b, c}) /\ Len(s) = 3 /\ s[1] = a /\ s[2] = b /\ s[3] = c
  OBVIOUS
<1> HIDE DEF s
<1>2. s = <<a, b, c>>
  BY <1>1
<1> QED
  BY <1>2 DEF s

LEMMA Joined ==
    ASSUME NEW a, NEW b, NEW c
    PROVE  /\ <<a, b>> \o <<>> = <<a, b>> /\ <<a, b>> \o <<c>> = <<a, b, c>>
           /\ <<a>> \o <<>> = <<a>> /\ <<a>> \o <<c>> = <<a, c>>
<1>1. <<a, b>> \o <<>> = <<a, b>>
  OBVIOUS
<1>2. <<a>> \o <<>> = <<a>>
  OBVIOUS
<1>3. <<a>> \o <<c>> = <<a, c>>
  <2> DEFINE s == <<a>> \o <<c>>
  <2>1. s \in Seq({a, c}) /\ Len(s) = 2 /\ s[1] = a /\ s[2] = c
    OBVIOUS
  <2> HIDE DEF s
  <2>2. s = <<a, c>>
    BY <2>1
  <2> QED
    BY <2>2 DEF s
<1>4. <<a, b>> \o <<c>> = <<a, b, c>>
  BY JoinedThree, Zenon
<1> QED
  BY <1>1, <1>2, <1>3, <1>4

LEMMA EditRuns ==
    ASSUME IInv, CountInv, FormInv, NEW g \in Conn, Edit(g)
    PROVE  \E x : Does(g, x) /\ MayRun(x)
<1> DEFINE form == req[g].form
           name == form.name
           new  == form.pwd
           id   == IF form.id = 0 THEN fresh.user ELSE form.id
           pwd  == IF new = None THEN <<>> ELSE <<SetPwdTo(id, new)>>
<1>0. pc[g] = "call" /\ name \in Name /\ new \in Pwd \cup {None}
  BY DEF Edit, Calls, FormInv, Asked
<1>1. \/ /\ form.id = 0 /\ fresh' = [fresh EXCEPT !.user = @ + 1]
         /\ Does(g, <<UserAdded(id, name, None), FolderAdded(id)>> \o pwd)
      \/ /\ form.id # 0
         /\ Does(g, <<Renamed(id, name)>> \o pwd)
  BY Zenon DEF Edit, AddUser, UserAdded, FolderAdded, Renamed, SetPwdTo
<1>2. CASE /\ form.id = 0 /\ fresh' = [fresh EXCEPT !.user = @ + 1]
           /\ Does(g, <<UserAdded(id, name, None), FolderAdded(id)>> \o pwd)
  <2>1. id = fresh.user /\ id \in UserId
    BY <1>0, <1>2, MayDraw
  <2>2. fresh'.user = fresh.user + 1 /\ id < fresh'.user
    BY <1>2, <2>1, CountFields DEF CountInv
  <2> HIDE DEF form, name, new, id
  <2>3. CASE new = None
    <3> DEFINE x == <<UserAdded(id, name, None), FolderAdded(id)>>
    <3>1. Does(g, x)
      BY <1>2, <2>3, Joined
    <3>2. IsAdd(x, fresh'.user)
      BY <1>0, <2>1, <2>2, Zenon DEF IsAdd
    <3>3. Head(x).user.id = fresh.user
      BY <2>1 DEF UserAdded
    <3> HIDE DEF x
    <3> QED
      BY <2>2, <3>1, <3>2, <3>3 DEF MayRun, IsProgram
  <2>4. CASE new # None
    <3> DEFINE a == UserAdded(id, name, None)
               b == FolderAdded(id)
               c == SetPwdTo(id, new)
               x == <<a, b, c>>
    <3>0. Does(g, <<a, b>> \o <<c>>)
      BY <1>2, <2>4
    <3> HIDE DEF a, b, c
    <3>1. Does(g, x)
      <4>1. <<a, b>> \o <<c>> = x
        BY JoinedThree, Zenon
      <4> QED
        BY <3>0, <4>1, Zenon
    <3> USE DEF a, b, c
    <3>2. IsAddPwd(x, fresh'.user)
      BY <1>0, <2>1, <2>2, <2>4, Zenon DEF IsAddPwd
    <3>3. Head(x).user.id = fresh.user
      BY <2>1 DEF UserAdded
    <3> HIDE DEF x
    <3> QED
      BY <2>2, <3>1, <3>2, <3>3 DEF MayRun, IsProgram
  <2> QED
    BY <2>3, <2>4
<1>3. CASE form.id # 0 /\ Does(g, <<Renamed(id, name)>> \o pwd)
  <2> HIDE DEF form, name, new, id
  <2>1. CASE new = None
    <3> DEFINE x == <<Renamed(id, name)>>
    <3>1. Does(g, x)
      BY <1>3, <2>1, Joined
    <3>2. IsEdit(x)
      BY <1>0, Zenon DEF IsEdit
    <3>3. Head(x).do # "UserAdd"
      BY DEF Renamed
    <3> HIDE DEF x
    <3> QED
      BY <3>1, <3>2, <3>3 DEF MayRun, IsProgram
  <2>2. CASE new # None
    <3> DEFINE x == <<Renamed(id, name), SetPwdTo(id, new)>>
    <3>1. Does(g, x)
      BY <1>3, <2>2, Joined
    <3>2. IsEditPwd(x)
      BY <1>0, <2>2, Zenon DEF IsEditPwd
    <3>3. Head(x).do # "UserAdd"
      BY DEF Renamed
    <3> HIDE DEF x
    <3> QED
      BY <3>1, <3>2, <3>3 DEF MayRun, IsProgram
  <2> QED
    BY <2>1, <2>2
<1> QED
  BY <1>1, <1>2, <1>3

LEMMA ApiRuns ==
    ASSUME IInv, CountInv, UserInv, NEW g \in Conn, MakeApiToken(g)
    PROVE  \E x : Does(g, x) /\ MayRun(x)
<1> DEFINE token == IF req[g].form.flag = 0 THEN 0 ELSE fresh.token
           x     == <<ApiTokenSet(local[g].user, token)>>
<1>1. Does(g, x)
  BY DEF MakeApiToken, ApiTokenSet
<1>2. pc[g] = "call" /\ req[g].route = MineMakeApiToken
  BY DEF MakeApiToken, Calls
<1>3. local[g].user \in UserId /\ token \in Token \cup {0}
  BY <1>2, KnownUser, LoggedInRoutes, MayDraw
<1> HIDE DEF token
<1>4. IsApi(x) /\ x # <<>> /\ Head(x).do # "UserAdd"
  BY <1>3 DEF IsApi, ApiTokenSet
<1> HIDE DEF x
<1> QED
  BY <1>1, <1>4 DEF MayRun, IsProgram

LEMMA ControlsStore ==
    ASSUME IInv, CountInv, FormInv, UserInv, StoreInv, NEW g \in Conn, Controls(g)
    PROVE  StoreInv' /\ UNCHANGED db
<1>1. pc[g] = "call" /\ UNCHANGED store /\ lock # g
  BY DEF Controls, DoLogin, Logout, Modify, AddAdmin, Edit, MakeApiToken, Update,
         ResetData, Backup, Upload, OtherController, Calls, Keep, StoreInv, LockInv
<1>2. fresh'.user \in {fresh.user, fresh.user + 1}
  BY Outline DEF Step
<1>3. (\E x : Does(g, x) /\ MayRun(x)) \/ (\E result : Leave(g, result))
  <2>1. CASE DoLogin(g)
    BY <2>1, LoginRuns DEF DoLogin, StoreInv
  <2>2. CASE AddAdmin(g)
    BY <2>2, AddAdminRuns DEF AddAdmin
  <2>3. CASE Update(g) \/ ResetData(g) \/ Backup(g) \/ Upload(g) \/ OtherController(g)
    <3>1. (\E x : Does(g, x) /\ Plain(x)) \/ (\E result : Leave(g, result))
      BY <2>3, PlainOnes DEF Update, ResetData, Backup, Upload, OtherController
    <3> QED
      BY <3>1, PlainMayRun
  <2> QED
    BY <2>1, <2>2, <2>3, LogoutRuns, ModifyRuns, EditRuns, ApiRuns DEF Controls
<1>4. UNCHANGED <<db, work, lock>>
  BY <1>1 DEF store
<1> QED
  BY <1>1, <1>2, <1>3, <1>4, DoesStore, LeavesStore

-----------------------------------------------------------------------------
(* The statements.                                                         *)

\* What the next statement of a transaction may be, and what it leads to.
LEMMA ExecMakes ==
    ASSUME StoreInv, CountInv, NEW g \in Conn, Writes(g), lock \in {None, g},
           NEW view, view = (IF lock = g THEN work ELSE db),
           NEW s, s = Head(todo[g])
    PROVE  /\ Tables(view, fresh.user)
           /\ ~Violates(s, view) =>
                /\ Tables(Effect(s, view), fresh.user)
                /\ \A i \in IdsOf(Effect(s, view)) :
                      i \in IdsOf(db) \cup IdsOf(work) \/ Adds(g, i)
                /\ Tail(todo[g]) # <<>> => Head(Tail(todo[g])).do # "UserAdd"
                /\ \/ Plain(Tail(todo[g])) /\ Effect(s, view) = db
                   \/ \E p : /\ IsProgram(p, fresh.user)
                             /\ Stage(p, Tail(todo[g]), db, Effect(s, view))
                             /\ ~Violates(p[1], db)
                             /\ p[1].do = "UserAdd" => p[1].user.id \notin IdsOf(db)
<1> DEFINE top == fresh.user
           e   == Effect(s, view)
<1>1. /\ pc[g] = "body" /\ todo[g] # <<>> /\ s.do \notin Special
      /\ Works(g) /\ top \in Nat
  BY CountFields DEF Writes, StoreInv, WorkInv, Serves
<1>2. Tables(view, top) /\ IdsOf(view) \subseteq IdsOf(db) \cup IdsOf(work)
  BY DEF StoreInv, TableInv
<1>3. CASE Plain(todo[g]) /\ (lock = g => work = db)
  <2>1. view = db /\ s.do = "Other" /\ Plain(Tail(todo[g]))
    BY <1>1, <1>3, PlainParts, AsideAddsNone
  <2>2. e = db
    BY <1>2, <2>1, OnOthers DEF Tables
  <2>3. Tail(todo[g]) # <<>> => Head(Tail(todo[g])).do # "UserAdd"
    BY <2>1, PlainParts, AsideAddsNone
  <2> HIDE DEF e
  <2> QED
    BY <1>2, <2>1, <2>2, <2>3 DEF e
<1>4. ASSUME NEW p, Runs1(p, g)
      PROVE  ~Violates(s, view) =>
                /\ Tables(e, top)
                /\ \A i \in IdsOf(e) : i \in IdsOf(db) \cup IdsOf(work) \/ Adds(g, i)
                /\ Tail(todo[g]) # <<>> => Head(Tail(todo[g])).do # "UserAdd"
                /\ IsProgram(p, top) /\ Stage(p, Tail(todo[g]), db, e)
                /\ ~Violates(p[1], db)
                /\ p[1].do = "UserAdd" => p[1].user.id \notin IdsOf(db)
  <2>1. IsProgram(p, top) /\ Formed(p, top)
    BY <1>4, ProgramIs DEF Runs1
  <2>2. /\ IsStatement(s, top) /\ Stage(p, Tail(todo[g]), db, e)
        /\ lock = g => s.do # "UserAdd"
        /\ lock # g => s = p[1]
    <3>1. CASE lock = g
      <4>1. Stage(p, todo[g], db, work) /\ view = work
        BY <1>4, <3>1 DEF Runs1
      <4> QED
        BY <1>1, <2>1, <3>1, <4>1, StageNext
    <3>2. CASE lock # g
      <4>1. todo[g] = p /\ view = db
        BY <1>4, <3>2 DEF Runs1
      <4> QED
        BY <2>1, <3>2, <4>1, StageFirst
    <3> QED
      BY <3>1, <3>2
  <2>3. s.do = "UserAdd" => Adds(g, s.user.id) /\ s.user.id \notin IdsOf(view)
    BY <1>1 DEF Adds, StoreInv, PendingInv
  <2>4. s.do \in Statements /\ Fits(s, view, top)
    BY <2>2, <2>3 DEF IsStatement, Fits
  <2>5. /\ Tables(e, top)
        /\ s.do # "UserAdd" => IdsOf(e) \subseteq IdsOf(view)
        /\ s.do = "UserAdd" => IdsOf(e) = IdsOf(view) \cup {s.user.id}
    BY <1>1, <1>2, <2>4, EffectKeeps
  <2>6. \A i \in IdsOf(e) : i \in IdsOf(db) \cup IdsOf(work) \/ Adds(g, i)
    BY <1>2, <2>3, <2>5
  <2>7. Tail(todo[g]) # <<>> => Head(Tail(todo[g])).do # "UserAdd"
    BY <2>1, <2>2, StageAddsNone
  <2>8. ~Violates(s, view) =>
          /\ ~Violates(p[1], db)
          /\ p[1].do = "UserAdd" => p[1].user.id \notin IdsOf(db)
    <3>1. CASE lock = g
      BY <1>4, <3>1 DEF Runs1
    <3>2. CASE lock # g
      BY <2>2, <2>3, <3>2
    <3> QED
      BY <3>1, <3>2
  <2> HIDE DEF e
  <2> QED
    BY <2>1, <2>2, <2>5, <2>6, <2>7, <2>8
<1> HIDE DEF e
<1> QED
  BY <1>1, <1>2, <1>3, <1>4, Zenon DEF Works, e

LEMMA ExecStore ==
    ASSUME IInv, CountInv, StoreInv, NEW g \in Conn, Exec(g) PROVE StoreInv' /\ UNCHANGED db
<1> DEFINE view == IF lock = g THEN work ELSE db
           s    == Head(todo[g])
<1>1. /\ Writes(g) /\ lock \in {None, g} /\ lock' = g /\ db' = db /\ fresh' = fresh
      /\ pc[g] = "body" /\ todo[g] # <<>>
  BY DEF Exec, Rest, Writes
<1>2. /\ \A h \in Conn \ {g} :
            /\ pc'[h] = pc[h] /\ todo'[h] = todo[h] /\ body'[h] = body[h]
            /\ lock' # h /\ lock # h
      /\ DOMAIN todo' = Conn /\ DOMAIN body' = Conn
      /\ \/ /\ Violates(s, view) /\ work' = view /\ pc'[g] = "after"
            /\ todo'[g] = <<>> /\ body'[g] = "error"
         \/ /\ ~Violates(s, view) /\ work' = Effect(s, view) /\ pc'[g] = "body"
            /\ todo'[g] = Tail(todo[g])
  BY <1>1, ConnAssumption DEF Exec, Leave, Next1, StoreInv, LockInv, IInv, Functions, None
<1>3. LockInv'
  BY <1>1, <1>2, ConnAssumption DEF StoreInv, LockInv, None
<1> HIDE DEF s, view
<1>4. /\ Tables(view, fresh.user)
      /\ IdsOf(view) \subseteq IdsOf(db) \cup IdsOf(work)
      /\ ~Violates(s, view) =>
                /\ Tables(Effect(s, view), fresh.user)
                /\ \A i \in IdsOf(Effect(s, view)) :
                      i \in IdsOf(db) \cup IdsOf(work) \/ Adds(g, i)
                /\ Tail(todo[g]) # <<>> => Head(Tail(todo[g])).do # "UserAdd"
                /\ \/ Plain(Tail(todo[g])) /\ Effect(s, view) = db
                   \/ \E p : /\ IsProgram(p, fresh.user)
                             /\ Stage(p, Tail(todo[g]), db, Effect(s, view))
                             /\ ~Violates(p[1], db)
                             /\ p[1].do = "UserAdd" => p[1].user.id \notin IdsOf(db)
  BY <1>1, ExecMakes DEF s, view
<1>5. TableInv'
  BY <1>1, <1>2, <1>4 DEF StoreInv, TableInv
<1>6. PendingInv'
  <2>1. \A i : ~Adds(g, i)'
    BY <1>2, <1>4 DEF Adds
  <2>2. \A i \in IdsOf(db') \cup IdsOf(work') :
              i \in IdsOf(db) \cup IdsOf(work) \/ Adds(g, i)
    BY <1>1, <1>2, <1>4
  <2> QED
    BY <1>1, <1>2, <2>1, <2>2, PendingLeft DEF StoreInv
<1>7. Serves(g)' => Works(g)'
  <2> SUFFICES ASSUME Serves(g)' PROVE Works(g)'
    OBVIOUS
  <2>1. /\ ~Violates(s, view) /\ work' = Effect(s, view) /\ todo'[g] = Tail(todo[g])
    BY <1>2 DEF Serves
  <2>2. CASE Plain(Tail(todo[g])) /\ Effect(s, view) = db
    <3>1. Plain(todo'[g]) /\ work' = db'
      BY <1>1, <2>1, <2>2
    <3> QED
      BY <3>1 DEF Works, Plain, Aside
  <2>3. ASSUME NEW p, IsProgram(p, fresh.user),
               Stage(p, Tail(todo[g]), db, Effect(s, view)), ~Violates(p[1], db),
               p[1].do = "UserAdd" => p[1].user.id \notin IdsOf(db)
        PROVE  Works(g)'
    <3>1. Runs1(p, g)'
      BY <1>1, <2>1, <2>3 DEF Runs1
    <3> QED
      BY <3>1 DEF Works
  <2> QED
    BY <1>4, <2>1, <2>2, <2>3
<1> QED
  BY <1>1, <1>2, <1>3, <1>5, <1>6, <1>7, StoreFrame

\* A statement that goes round the transaction, or ends it: what is left of
\* its controller is plain.
LEMMA SpecialStore ==
    ASSUME IInv, CountInv, StoreInv, NEW g \in Conn, Runs(g, Special),
           (\E result : Leave(g, result)) \/ Next1(g), fresh' = fresh,
           lock' \in {lock, None}, lock' # lock => lock = g,
           \A h \in Conn \ {g} : lock = h => db' = db /\ work' = work,
           lock' = g => db' = db /\ work' = work,
           lock' = None => work' = Nothing,
           TableInv',
           IdsOf(db') \subseteq IdsOf(db) \cup IdsOf(work),
           IdsOf(work') \subseteq IdsOf(db) \cup IdsOf(work)
    PROVE  StoreInv'
<1>1. Plain(todo[g]) /\ Plain(Tail(todo[g])) /\ (lock = g => work = db)
  BY SpecialIsPlain
<1>2. /\ \A h \in Conn \ {g} :
            /\ pc'[h] = pc[h] /\ todo'[h] = todo[h] /\ body'[h] = body[h]
            /\ lock' = h <=> lock = h
      /\ DOMAIN todo' = Conn /\ DOMAIN body' = Conn /\ pc[g] = "body"
      /\ \/ pc'[g] = "after" /\ todo'[g] = <<>>
         \/ pc'[g] = "body" /\ todo'[g] = Tail(todo[g])
  BY ConnAssumption DEF Leave, Next1, StoreInv, LockInv, IInv, Functions, None, Runs
<1>3. LockInv'
  BY <1>2, ConnAssumption DEF StoreInv, LockInv, None
<1>4. Plain(todo'[g])
  BY <1>1, <1>2, PlainOnes
<1>5. Works(g)'
  <2>1. lock' = g => work' = db'
    BY <1>1, ConnAssumption DEF None
  <2> QED
    BY <1>4, <2>1 DEF Works, Plain, Aside
<1>6. PendingInv'
  <2>1. \A i : ~Adds(g, i)'
    BY <1>4, PlainParts, AsideAddsNone DEF Adds
  <2> QED
    BY <1>2, <2>1, PendingLeft DEF StoreInv
<1> QED
  BY <1>2, <1>3, <1>5, <1>6, StoreFrame

LEMMA DirectStore ==
    ASSUME IInv, CountInv, StoreInv, NEW g \in Conn, ExecDirect(g)
    PROVE  StoreInv' /\ AbstractNext
<1>1. /\ Runs(g, Special) /\ UNCHANGED <<work, lock, fresh>>
      /\ (\E result : Leave(g, result)) \/ Next1(g)
      /\ lock = None => work = Nothing
      /\ lock # None => db' = db
  BY DEF ExecDirect, Runs, Special, Rest, StoreInv, LockInv
<1>2. /\ Tables(db', fresh.user) /\ IdsOf(db') \subseteq IdsOf(db)
      /\ AbstractNext
  <2>1. CASE UNCHANGED db
    BY <2>1 DEF StoreInv, TableInv, IdsOf, AbstractNext
  <2>2. CASE db' = Effect(Head(todo[g]), db)
    <3> DEFINE s == Head(todo[g])
    <3>1. s.do \in Direct /\ s.do \in Statements /\ s.do \notin {"UserAdd", "TokenAdd"}
      BY DEF ExecDirect, Runs, Direct, Statements
    <3>2. Fits(s, db, fresh.user)
      BY <3>1 DEF Fits
    <3>3. Tables(db, fresh.user) /\ IsTable(db) /\ fresh.user \in Nat
      BY CountFields DEF StoreInv, TableInv, Tables
    <3>4. db' = Effect(s, db)
      BY <2>2
    <3> HIDE DEF s
    <3>5. Tables(db', fresh.user) /\ IdsOf(db') \subseteq IdsOf(db)
      BY <3>1, <3>2, <3>3, <3>4, EffectKeeps
    <3>6. A!Reset
      BY <3>1, <3>3, <3>4, OnOthers DEF A!Reset, Direct
    <3> QED
      BY <3>5, <3>6 DEF AbstractNext, A!Next
  <2> QED
    BY <2>1, <2>2 DEF ExecDirect
<1>3. TableInv'
  BY <1>1, <1>2 DEF StoreInv, TableInv
<1>4. IdsOf(db') \subseteq IdsOf(db) \cup IdsOf(work)
      /\ IdsOf(work') \subseteq IdsOf(db) \cup IdsOf(work)
  BY <1>1, <1>2
<1> QED
  BY <1>1, <1>2, <1>3, <1>4, ConnAssumption, SpecialStore DEF None

LEMMA ReopenStore ==
    ASSUME IInv, CountInv, StoreInv, NEW g \in Conn, Reopen(g)
    PROVE  StoreInv' /\ UNCHANGED db
<1>1. /\ Runs(g, Special) /\ UNCHANGED <<db, work, lock, fresh>>
      /\ (\E result : Leave(g, result)) \/ Next1(g)
      /\ lock = None => work = Nothing
      /\ TableInv
  BY DEF Reopen, Runs, Special, Rest, StoreInv, LockInv
<1>2. TableInv'
  BY <1>1 DEF TableInv
<1>3. IdsOf(db') = IdsOf(db) /\ IdsOf(work') = IdsOf(work)
  BY <1>1
<1> QED
  BY <1>1, <1>2, <1>3, SpecialStore

LEMMA CommitInsideStore ==
    ASSUME IInv, CountInv, StoreInv, NEW g \in Conn, CommitInside(g)
    PROVE  StoreInv' /\ UNCHANGED db
<1>1. /\ Runs(g, Special) /\ fresh' = fresh /\ Next1(g)
      /\ lock' = (IF lock = g THEN None ELSE lock)
      /\ work' = (IF lock = g THEN Nothing ELSE work)
      /\ db' = (IF lock = g THEN work ELSE db)
      /\ lock = None => work = Nothing
      /\ TableInv
  BY DEF CommitInside, Ends, Runs, Special, Rest, StoreInv, LockInv
<1>2. db' = db
  BY <1>1, SpecialIsPlain
<1>3. Tables(Nothing, fresh.user) /\ IdsOf(Nothing) = {}
  BY DEF Tables, Nothing, IsTable, IdsOf
<1>4. TableInv'
  BY <1>1, <1>2, <1>3 DEF TableInv
<1>5. IdsOf(db') \subseteq IdsOf(db) \cup IdsOf(work)
      /\ IdsOf(work') \subseteq IdsOf(db) \cup IdsOf(work)
  BY <1>1, <1>2, <1>3
<1> QED
  BY <1>1, <1>2, <1>4, <1>5, ConnAssumption, SpecialStore DEF None

LEMMA ExecutesStore ==
    ASSUME IInv, CountInv, StoreInv, NEW g \in Conn, Executes(g)
    PROVE  StoreInv' /\ AbstractNext
<1>0. fresh' = fresh
  BY DEF Executes, Begin, Exec, Panic, ExecDirect, Reopen, CommitInside, Return, Rest
<1>1. CASE Begin(g)
  <2>1. /\ UNCHANGED <<db, work, lock, pc, todo, body>>
    BY <1>1 DEF Begin, store, server
  <2>2. LockInv /\ pc[g] = "body"
    BY <1>1 DEF Begin, Writes, StoreInv
  <2> QED
    BY <1>0, <2>1, <2>2, QuietStep DEF LockInv, AbstractNext, Serves
<1>2. CASE Panic(g)
  <2>1. /\ Leave(g, "error") /\ UNCHANGED <<db, work, lock>>
    BY <1>2 DEF Panic, store
  <2>2. LockInv /\ pc[g] = "body"
    BY <1>2 DEF Panic, Writes, StoreInv
  <2>3. /\ \A h \in Conn \ {g} : pc'[h] = pc[h] /\ todo'[h] = todo[h] /\ body'[h] = body[h]
        /\ DOMAIN todo' = Conn /\ DOMAIN body' = Conn
        /\ pc'[g] = "after" /\ todo'[g] = <<>> /\ body'[g] = "error"
    BY <2>1, <2>2 DEF Leave, LockInv, IInv, Functions
  <2> QED
    BY <1>0, <2>1, <2>3, QuietStep DEF AbstractNext, Serves
<1>3. CASE Return(g)
  <2>1. /\ Leave(g, "nil") /\ UNCHANGED <<db, work, lock>>
    BY <1>3 DEF Return, store
  <2>2. LockInv /\ pc[g] = "body" /\ todo[g] = <<>>
    BY <1>3 DEF Return, StoreInv
  <2>3. /\ \A h \in Conn \ {g} : pc'[h] = pc[h] /\ todo'[h] = todo[h] /\ body'[h] = body[h]
        /\ DOMAIN todo' = Conn /\ DOMAIN body' = Conn
        /\ pc'[g] = "after" /\ todo'[g] = <<>>
    BY <2>1, <2>2 DEF Leave, LockInv, IInv, Functions
  <2> QED
    BY <1>0, <2>1, <2>2, <2>3, QuietStep DEF AbstractNext, Serves
<1> QED
  BY <1>1, <1>2, <1>3, ExecStore, DirectStore, ReopenStore, CommitInsideStore
     DEF Executes, AbstractNext

-----------------------------------------------------------------------------
(* The interceptors.                                                       *)

\* A commit is the whole program in one step; a rollback changes nothing.
LEMMA CommitStore ==
    ASSUME IInv, CountInv, StoreInv, NEW g \in Conn, Commit(g)
    PROVE  StoreInv' /\ AbstractNext
<1>1. /\ UNCHANGED <<pc, todo, body, fresh>> /\ pc[g] = "after" /\ todo[g] = <<>>
      /\ lock' = (IF lock = g THEN None ELSE lock)
      /\ work' = (IF lock = g THEN Nothing ELSE work)
      /\ db' = (IF lock = g /\ body[g] = "nil" THEN work ELSE db)
      /\ LockInv /\ TableInv /\ PendingInv
  BY DEF Commit, Ends, After, Rest, StoreInv, LockInv
<1>2. lock' # g /\ \A h \in Conn \ {g} : lock' = h <=> lock = h
  BY <1>1, ConnAssumption DEF None
<1>3. LockInv'
  BY <1>1, <1>2 DEF LockInv
<1>4. Tables(Nothing, fresh.user) /\ IdsOf(Nothing) = {}
  BY DEF Tables, Nothing, IsTable, IdsOf
<1>5. TableInv'
  BY <1>1, <1>4 DEF TableInv
<1>6. PendingInv'
  <2>1. \A i : ~Adds(g, i)'
    BY <1>1 DEF Adds
  <2>2. \A i \in IdsOf(db') \cup IdsOf(work') : i \in IdsOf(db) \cup IdsOf(work)
    BY <1>1, <1>4
  <2> QED
    BY <1>1, <2>1, <2>2, PendingLeft
<1>7. StoreInv'
  <2>1. ~Serves(g)'
    BY <1>1, <1>2 DEF Serves
  <2> QED
    BY <1>1, <1>2, <1>3, <1>5, <1>6, <2>1, StoreFrame
<1>8. AbstractNext
  <2>1. CASE ~(lock = g /\ body[g] = "nil")
    BY <1>1, <2>1 DEF AbstractNext
  <2>2. CASE lock = g /\ body[g] = "nil"
    <3>1. Works(g) /\ db' = work
      BY <1>1, <2>2 DEF StoreInv, WorkInv, Serves
    <3>2. CASE work = db
      BY <3>1, <3>2 DEF AbstractNext
    <3>3. ASSUME NEW p, Runs1(p, g) PROVE AbstractNext
      <4>1. /\ IsProgram(p, fresh.user) /\ Stage(p, <<>>, db, db')
            /\ ~Violates(p[1], db)
            /\ p[1].do = "UserAdd" => p[1].user.id \notin IdsOf(db)
        BY <1>1, <2>2, <3>1, <3>3 DEF Runs1
      <4>2. Tables(db, fresh.user)
        BY <1>1 DEF TableInv
      <4> QED
        BY <4>1, <4>2, ProgramRefines
    <3> QED
      BY <2>2, <3>1, <3>2, <3>3 DEF Works
  <2> QED
    BY <2>1, <2>2
<1> QED
  BY <1>7, <1>8

LEMMA ClosesStore ==
    ASSUME IInv, CountInv, StoreInv, NEW g \in Conn, Closes(g)
    PROVE  StoreInv' /\ AbstractNext
<1>1. ASSUME CommitPanics(g) \/ HtmlInterceptor(g) \/ RemoveGoroutineLocal(g)
      PROVE  StoreInv' /\ AbstractNext
  <2>1. /\ UNCHANGED <<db, work, lock, todo, body, fresh>> /\ pc[g] = "after"
        /\ \A h \in Conn \ {g} : pc'[h] = pc[h]
        /\ pc'[g] \in {"after", "gone", "idle"}
        /\ pc' = pc \/ CommitPanics(g) \/ RemoveGoroutineLocal(g)
    BY <1>1 DEF CommitPanics, HtmlInterceptor, RemoveGoroutineLocal, After, store, Rest,
                IInv, Functions
  <2>2. CommitPanics(g) \/ RemoveGoroutineLocal(g) => lock # g
    <3>1. CASE CommitPanics(g)
      BY <3>1 DEF CommitPanics, IInv, Own, OwnOf
    <3>2. CASE RemoveGoroutineLocal(g)
      <4>1. req[g].route \in Routes /\ Shaped(req[g].route)
        BY RoutesAreShaped DEF IInv, Own, OwnOf
      <4>2. at[g] # 1
        BY <3>2, <4>1, ChainIs DEF RemoveGoroutineLocal, After
      <4> QED
        BY <2>1, <4>2 DEF IInv, Own, OwnOf, None
    <3> QED
      BY <3>1, <3>2
  <2>3. LockInv
    BY DEF StoreInv
  <2> QED
    BY <2>1, <2>2, <2>3, QuietStep DEF LockInv, AbstractNext, Serves
<1> QED
  BY <1>1, CommitStore DEF Closes

LEMMA BeforeStore ==
    ASSUME IInv, CountInv, StoreInv, NEW g \in Conn, Validates(g) \/ Check(g)
    PROVE  StoreInv' /\ UNCHANGED db
<1>1. /\ UNCHANGED <<db, work, lock, fresh>> /\ pc[g] = "before"
      /\ \A h \in Conn \ {g} :
            pc'[h] = pc[h] /\ todo'[h] = todo[h] /\ body'[h] = body[h]
      /\ DOMAIN todo' = Conn /\ DOMAIN body' = Conn
      /\ pc'[g] \in {"before", "call", "after"} /\ (pc'[g] = "after" => todo'[g] = <<>>)
  BY DEF Validates, StartTransaction, LoginValidate, AdminValidate, DistributedValidate,
         Before, Check, Pass, Leave, store, IInv, Functions, StoreInv, LockInv
<1>2. lock # g
  BY <1>1 DEF StoreInv, LockInv
<1> QED
  BY <1>1, <1>2, QuietStep DEF Serves

LEMMA AcceptStore ==
    ASSUME IInv, CountInv, StoreInv, NEW g \in Conn, Accept(g)
    PROVE  StoreInv' /\ UNCHANGED db
<1>1. /\ UNCHANGED <<db, work, lock, fresh, todo>> /\ pc[g] = "idle"
      /\ \A h \in Conn \ {g} : pc'[h] = pc[h] /\ body'[h] = body[h]
      /\ DOMAIN todo' = Conn /\ DOMAIN body' = Conn /\ pc'[g] = "before"
  BY DEF Accept, store, IInv, Functions, StoreInv, LockInv
<1>2. lock # g
  BY <1>1 DEF StoreInv, LockInv
<1> QED
  BY <1>1, <1>2, QuietStep DEF Serves

LEMMA CrashStore ==
    ASSUME IInv, CountInv, StoreInv, Crash
    PROVE  StoreInv' /\ UNCHANGED db
<1>1. /\ UNCHANGED <<db, fresh>> /\ work' = Nothing /\ lock' = None
      /\ DOMAIN todo' = Conn /\ DOMAIN body' = Conn
      /\ \A g \in Conn : pc'[g] = "idle" /\ todo'[g] = <<>>
  BY DEF Crash, StoreInv, LockInv
<1>2. LockInv'
  BY <1>1, ConnAssumption DEF LockInv, None
<1>3. TableInv'
  BY <1>1 DEF StoreInv, TableInv, Tables, Nothing, IsTable
<1>4. WorkInv'
  BY <1>1 DEF WorkInv, Serves
<1>5. PendingInv'
  BY <1>1 DEF PendingInv, Adds
<1> QED
  BY <1>1, <1>2, <1>3, <1>4, <1>5 DEF StoreInv

-----------------------------------------------------------------------------
(* The theorem.                                                            *)

AccountsInv == IInv /\ CountInv /\ FormInv /\ UserInv /\ StoreInv

LEMMA StoreStep ==
    ASSUME AccountsInv, [Next]_vars PROVE StoreInv' /\ AbstractNext
<1> USE DEF AccountsInv
<1>1. ASSUME NEW g \in Conn, Accept(g) \/ Step(g) PROVE StoreInv' /\ AbstractNext
  BY <1>1, AcceptStore, BeforeStore, ControlsStore, ExecutesStore, ClosesStore
     DEF Step, AbstractNext
<1>2. CASE Crash
  BY <1>2, CrashStore DEF AbstractNext
<1>3. CASE UNCHANGED vars
  <2>1. UNCHANGED <<pc, todo, body, db, work, lock, fresh>>
    BY <1>3 DEF vars, server, store
  <2>2. AbstractNext
    BY <2>1 DEF AbstractNext
  <2>3. LockInv' /\ TableInv' /\ PendingInv'
    BY <2>1 DEF StoreInv, LockInv, TableInv, PendingInv, Adds
  <2>4. WorkInv'
    <3> SUFFICES ASSUME NEW g \in Conn, Serves(g)' PROVE Works(g)'
      BY DEF WorkInv
    <3>1. Works(g)
      BY <2>1 DEF StoreInv, WorkInv, Serves
    <3> QED
      BY <2>1, <3>1 DEF Works, Runs1, Plain, Aside
  <2> QED
    BY <2>2, <2>3, <2>4 DEF StoreInv
<1> QED
  BY <1>1, <1>2, <1>3 DEF Next

LEMMA InitAccounts == Init => AccountsInv /\ A!Init
<1> SUFFICES ASSUME Init PROVE AccountsInv /\ A!Init
  OBVIOUS
<1>1. IInv /\ CountInv
  BY InitIInv, InitCount
<1>2. FormInv /\ UserInv
  BY DEF Init, FormInv, UserInv, Empty
<1>3. /\ db = Start /\ work = Nothing /\ lock = None /\ fresh.user = Users0 + 1
      /\ \A g \in Conn : pc[g] = "idle" /\ todo[g] = <<>>
      /\ DOMAIN todo = Conn /\ DOMAIN body = Conn
  BY DEF Init, Users0
<1>4. LockInv
  <2>1. \A g \in Conn : lock # g /\ pc[g] # "after"
    BY <1>3, ConnAssumption DEF None
  <2> QED
    BY <1>3, <2>1 DEF LockInv
<1>5. \A i \in 1..Users0 : i \in UserId /\ i < fresh.user
  <2>1. Users0 \in Nat /\ MaxRequest \in Nat /\ UserId = 1..Users0 + MaxRequest
    BY Sizes
  <2>2. fresh.user = Users0 + 1
    BY <1>3
  <2> QED
    BY ONLY <2>1, <2>2
<1>6. TableInv
  <2>1. Tables(Start, fresh.user)
    BY <1>5, StartAssumption DEF Tables, IsTable, IsUser, Users0
  <2>2. Tables(Nothing, fresh.user)
    BY DEF Tables, Nothing, IsTable
  <2> QED
    BY <1>3, <2>1, <2>2 DEF TableInv
<1>7. WorkInv /\ PendingInv
  BY <1>3 DEF WorkInv, Serves, PendingInv, Adds
<1>8. A!Init
  <2>1. \A id \in UserId \cup {0} : A!Cardinality(A!Of(id)) <= Limit
    <3> SUFFICES ASSUME NEW id \in UserId \cup {0}
                 PROVE  Cardinality({t \in Start.token : t.user = id}) <= Limit
      BY <1>3, SameOperators DEF A!Of
    <3>1. CASE \E u \in Start.user : u.id = id
      BY <3>1, StartAssumption
    <3>2. CASE ~\E u \in Start.user : u.id = id
      <4>1. {t \in Start.token : t.user = id} = {}
        BY <3>2, StartAssumption
      <4>2. Cardinality({t \in Start.token : t.user = id}) = 0
        BY <4>1, FS_EmptySet, Zenon
      <4>3. Limit \in Nat
        BY BoundAssumption
      <4> QED
        BY ONLY <4>2, <4>3
    <3> QED
      BY <3>1, <3>2
  <2>2. db.folder = {u.id : u \in db.user} /\ \A u, v \in db.user : u.name = v.name => u = v
    BY <1>3, StartAssumption
  <2> QED
    BY <2>1, <2>2 DEF A!Init
<1> QED
  BY <1>1, <1>2, <1>4, <1>6, <1>7, <1>8 DEF AccountsInv, StoreInv

LEMMA NextAccounts ==
    ASSUME AccountsInv, [Next]_vars PROVE AccountsInv' /\ [A!Next]_A!vars
<1>1. IInv'
  BY NextIInv DEF AccountsInv
<1>2. StoreInv' /\ AbstractNext
  BY StoreStep
<1>3. CountInv' /\ FormInv' /\ UserInv'
  BY NextCount, NextForm, NextUser DEF AccountsInv, StoreInv
<1> QED
  BY <1>1, <1>2, <1>3 DEF AccountsInv, AbstractNext, A!vars

\* What other requests see of users, folders and sessions changes only by
\* whole operations of Accounts, whatever panics, is rolled back, waits for
\* the lock, or ends in a crash (CommitTransactionInterceptor.go, the
\* controllers and UserService, UserTokenService).
THEOREM ImplementsAccountsHolds == Spec => ImplementsAccounts
<1>1. Init => AccountsInv /\ A!Init
  BY InitAccounts
<1>2. AccountsInv /\ [Next]_vars => AccountsInv' /\ [A!Next]_A!vars
  BY NextAccounts
<1> QED
  BY <1>1, <1>2, PTL DEF Spec, ImplementsAccounts, A!Spec
=============================================================================
