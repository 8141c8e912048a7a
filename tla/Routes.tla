------------------------------- MODULE Routes -------------------------------
(***************************************************************************)
(* The routes of the web server: for each one the methods it answers, the  *)
(* interceptors that run before its controller and after it, in order, and *)
(* whether its form is checked first.  AutoWeb.go is generated from the     *)
(* annotations of controllers and interceptors and then compiled as it is: *)
(* the routes below are what it does, Annotated what the annotations of    *)
(* the interceptors ask for.                                               *)
(***************************************************************************)
EXTENDS Sequences

\* The interceptors that run before a controller.
Open      == <<"StartTransaction">>
LoggedIn  == <<"StartTransaction", "LoginValidate">>
AdminOnly == <<"StartTransaction", "LoginValidate", "AdminValidate">>
Peers     == <<"StartTransaction", "DistributedValidate">>

\* The interceptors that run when a controller has returned or panicked.
Closing     == <<"Commit", "RemoveGoroutineLocal">>
ClosingPage == <<"Commit", "HtmlInterceptor", "RemoveGoroutineLocal">>

\* at is the path: the first segment, the second, the rest.
Route(verbs, area, page, op, chain, ending) ==
    [verbs |-> verbs, at |-> <<area, page, op>>, before |-> chain,
     after |-> ending, checked |-> FALSE]
Get(area, page, op, chain)  == Route({"GET"}, area, page, op, chain, Closing)
Post(area, page, op, chain) == Route({"POST"}, area, page, op, chain, Closing)
Both(area, page, op, chain)  ==
    Route({"GET", "POST"}, area, page, op, chain, Closing)
Page(area, page, chain)     ==
    Route({"GET"}, area, page, ".html", chain, ClosingPage)

\* The fields of the form are tested before the controller is called.
Checked(route) == [route EXCEPT !.checked = TRUE]

-----------------------------------------------------------------------------
AboutHtml == Page("app", "about", LoggedIn)

AdvancedExecSql         == Post("app", "advanced", "exec_sql", AdminOnly)
AdvancedInit            == Post("app", "advanced", "init", AdminOnly)
AdvancedUsedSize        == Post("app", "advanced", "used_size", AdminOnly)
AdvancedDBBackup        == Post("app", "advanced", "db_backup", AdminOnly)
AdvancedReHandle        == Post("app", "advanced", "re_handle", AdminOnly)
AdvancedValidateFileMD5 == Both("app", "advanced", "validate_file_md5", AdminOnly)
AdvancedHtml            == Page("app", "advanced", AdminOnly)
AdvancedRecycleNow      == Post("app", "advanced", "recycle_now", AdminOnly)
AdvancedResetData       == Post("app", "advanced", "reset_data", AdminOnly)

AppIndex == Page("", "index", Open)

CreateAdminAddAdmin == Post("app", "install", "create_admin/add_admin", Open)
CreateAdminInit     == Get("app", "install", "create_admin", Open)

DirectoryDownload == Get("d", "", "", Open)

DistributedListen         == Get("distributed", "", "listen", Peers)
DistributedGetLog         == Both("distributed", "", "get_log", Peers)
DistributedGetAopId       == Both("distributed", "", "get_aop_id", Peers)
DistributedGetTableCount  == Both("distributed", "", "get_table_count", Peers)
DistributedGetTableDataBk == Both("distributed", "", "get_table_databk", Peers)
DistributedGetTableData   == Both("distributed", "", "get_table_data", Peers)
DistributedDownload       == Both("distributed", "", "download", Peers)

ExiftoolProgress == Both("app", "install", "exiftool/progress", Open)
ExiftoolHtml     == Get("app", "install", "exiftool", Open)
ExiftoolInstall  == Post("app", "install", "exiftool/install", Open)
ExiftoolRecycle  == Post("app", "install", "exiftool/recycle", Open)

FfmpegInstall  == Post("app", "install", "ffmpeg/install", Open)
FfmpegProgress == Both("app", "install", "ffmpeg/progress", Open)
FfmpegRecycle  == Post("app", "install", "ffmpeg/recycle", Open)
FfmpegHtml     == Get("app", "install", "ffmpeg", Open)

FfprobeProgress == Both("app", "install", "ffprobe/progress", Open)
FfprobeHtml     == Get("app", "install", "ffprobe", Open)
FfprobeInstall  == Post("app", "install", "ffprobe/install", Open)
FfprobeRecycle  == Post("app", "install", "ffprobe/recycle", Open)

FileUploadGetUploadedSize  == Post("app", "file_upload", "get_uploaded_size", LoggedIn)
FileUploadCheckExistsByMd5 == Post("app", "file_upload", "check_exists_by_md5", LoggedIn)
FileUploadByMd5            == Post("app", "file_upload", "by_md5", LoggedIn)
FileUploadByStream         == Post("app", "file_upload", "by_stream", LoggedIn)
FileUploadUpload           == Post("app", "file_upload", "", LoggedIn)

FilesDownloadByHistory == Get("app", "files", "download_history", LoggedIn)
FilesGetList           == Post("app", "files", "get_list", LoggedIn)
FilesThumbOnline       == Get("app", "files", "thumb_online", LoggedIn)
FilesGetExtraKeys      == Post("app", "files", "get_extra_keys", LoggedIn)
FilesGetAlbumList      == Post("app", "files", "get_album_list", LoggedIn)
FilesRename            == Post("app", "files", "rename", LoggedIn)
FilesDelete            == Post("app", "files", "delete", LoggedIn)
FilesCreateFolder      == Post("app", "files", "create_folder", LoggedIn)
FilesMove              == Post("app", "files", "move", LoggedIn)
FilesSetContentType    == Post("app", "files", "set_content_type", LoggedIn)
FilesExtra             == Both("app", "files", "extra", LoggedIn)
FilesThumb             == Both("app", "files", "thumb", LoggedIn)
FilesDownload          == Both("app", "files", "download", LoggedIn)
FilesShare             == Checked(Post("app", "files", "share", LoggedIn))
FilesDeleteByIds       == Post("app", "files", "delete_by_ids", LoggedIn)
FilesCopy              == Post("app", "files", "copy", LoggedIn)
FilesPreview           == Both("app", "files", "preview", LoggedIn)
FilesHtml              == Page("app", "files", LoggedIn)
FilesGetAlbumListV2    == Post("app", "files", "get_album_list/v2", LoggedIn)
FilesGetPropertyV2     == Post("app", "files", "get_property/v2", LoggedIn)
FilesGetProperty       == Post("app", "files", "get_property", LoggedIn)

FolderSelectorGetList == Post("app", "folder_selector", "get_list", LoggedIn)

InstallDistributedHtml == Get("app", "install", "distributed", Open)
InstallDistributedSet  == Post("app", "install", "distributed/set", Open)

LibrawInstall  == Post("app", "install", "libraw/install", Open)
LibrawRecycle  == Post("app", "install", "libraw/recycle", Open)
LibrawHtml     == Get("app", "install", "libraw", Open)
LibrawProgress == Both("app", "install", "libraw/progress", Open)

LoginInit    == Get("app", "login", "", Open)
LoginDoLogin == Checked(Post("app", "login", "do_login", Open))
LoginLogout  == Post("app", "login", "logout", Open)

MagickHtml     == Get("app", "install", "magick", Open)
MagickProgress == Both("app", "install", "magick/progress", Open)
MagickInstall  == Post("app", "install", "magick/install", Open)
MagickRecycle  == Post("app", "install", "magick/recycle", Open)

MineMakeEncryption == Post("app", "mine", "make_encryption", LoggedIn)
MineHtml           == Page("app", "mine", LoggedIn)
MineInit           == Post("app", "mine", "init", LoggedIn)
MineMakeApiToken   == Post("app", "mine", "make_api_token", LoggedIn)
MineMakeUrlPath    == Post("app", "mine", "make_url_path", LoggedIn)

ModifyPwdModify == Checked(Post("app", "modify_pwd", "modify", LoggedIn))
ModifyPwdHtml   == Page("app", "modify_pwd", LoggedIn)

MyShareGetList   == Post("app", "my_share", "get_list", LoggedIn)
MyShareGetDetail == Post("app", "my_share", "get_detail", LoggedIn)
MyShareDelete    == Post("app", "my_share", "delete", LoggedIn)
MyShareHtml      == Page("app", "my_share", LoggedIn)

ProfileHtml      == Page("app", "profile", AdminOnly)
ProfileInit      == Post("app", "profile", "init", AdminOnly)
ProfileUpdate    == Checked(Post("app", "profile", "update", AdminOnly))
ProfileMakeToken == Post("app", "profile", "make_token", AdminOnly)

SetStorageHtml == Get("app", "install", "set_storage", Open)
SetStorageSet  == Post("app", "install", "set_storage/set", Open)

ShareInit     == Get("share", "", "init", Open)
SharePwd      == Get("share", "", "pwd", Open)
ShareValidPwd == Post("share", "", "valid_pwd", Open)
ShareSaveTo   == Post("share", "", "save_to", Open)
ShareGetList  == Post("share", "", "get_list", Open)
ShareDownload == Get("share", "", "download", Open)
ShareThumb    == Get("share", "", "thumb", Open)

SyncByTable  == Post("app", "sync", "by_table", AdminOnly)
SyncHtml     == Page("app", "sync", AdminOnly)
SyncInfoList == Post("app", "sync", "info_list", AdminOnly)
SyncInfo     == Both("app", "sync", "info", AdminOnly)
SyncBySync   == Post("app", "sync", "by_log", AdminOnly)

TrashTrashRecover   == Post("app", "trash", "trash_recover", LoggedIn)
TrashLogicDelete    == Post("app", "trash", "logic_delete", LoggedIn)
TrashGetList        == Post("app", "trash", "get_list", LoggedIn)
TrashHtml           == Page("app", "trash", LoggedIn)
TrashRecycleStorage == Post("app", "trash", "recycle_storage", LoggedIn)

UserEditHtml == Page("app", "user_edit", AdminOnly)
UserListHtml == Page("app", "user_list", AdminOnly)
UserEditInit == Post("app", "user_edit", "init", AdminOnly)
UserListInit == Post("app", "user_list", "init", AdminOnly)
\* Mutant: generated before the annotation of AdminValidate named the page.
MutUserEdit  == Checked(Post("app", "user_edit", "edit", LoggedIn))
UserEdit     == Checked(Post("app", "user_edit", "edit", AdminOnly))

Routes == {
    AboutHtml, AdvancedExecSql, AdvancedInit, AdvancedUsedSize,
    AdvancedDBBackup, AdvancedReHandle, AdvancedValidateFileMD5,
    AdvancedHtml, AdvancedRecycleNow, AdvancedResetData, AppIndex,
    CreateAdminAddAdmin, CreateAdminInit, DirectoryDownload,
    DistributedListen, DistributedGetLog, DistributedGetAopId,
    DistributedGetTableCount, DistributedGetTableDataBk,
    DistributedGetTableData, DistributedDownload, ExiftoolProgress,
    ExiftoolHtml, ExiftoolInstall, ExiftoolRecycle, FfmpegInstall,
    FfmpegProgress, FfmpegRecycle, FfmpegHtml, FfprobeProgress, FfprobeHtml,
    FfprobeInstall, FfprobeRecycle, FileUploadGetUploadedSize,
    FileUploadCheckExistsByMd5, FileUploadByMd5, FileUploadByStream,
    FileUploadUpload, FilesDownloadByHistory, FilesGetList, FilesThumbOnline,
    FilesGetExtraKeys, FilesGetAlbumList, FilesRename, FilesDelete,
    FilesCreateFolder, FilesMove, FilesSetContentType, FilesExtra,
    FilesThumb, FilesDownload, FilesShare, FilesDeleteByIds, FilesCopy,
    FilesPreview, FilesHtml, FilesGetAlbumListV2, FilesGetPropertyV2,
    FilesGetProperty, FolderSelectorGetList, InstallDistributedHtml,
    InstallDistributedSet, LibrawInstall, LibrawRecycle, LibrawHtml,
    LibrawProgress, LoginInit, LoginDoLogin, LoginLogout, MagickHtml,
    MagickProgress, MagickInstall, MagickRecycle, MineMakeEncryption,
    MineHtml, MineInit, MineMakeApiToken, MineMakeUrlPath, ModifyPwdModify,
    ModifyPwdHtml, MyShareGetList, MyShareGetDetail, MyShareDelete,
    MyShareHtml, ProfileHtml, ProfileInit, ProfileUpdate, ProfileMakeToken,
    SetStorageHtml, SetStorageSet, ShareInit, SharePwd, ShareValidPwd,
    ShareSaveTo, ShareGetList, ShareDownload, ShareThumb, SyncByTable,
    SyncHtml, SyncInfoList, SyncInfo, SyncBySync, TrashTrashRecover,
    TrashLogicDelete, TrashGetList, TrashHtml, TrashRecycleStorage,
    UserEditHtml, UserListHtml, UserEditInit, UserListInit, UserEdit}

-----------------------------------------------------------------------------
\* What the interceptors' own annotations (@include, @exclude) demand of a
\* route: the validations its requests must pass.
AdminPages == {"advanced", "profile", "sync", "user_edit", "user_list"}
OpenPages  == {"login", "install"}
Annotated(route) ==
    LET area == route.at[1]
        page == route.at[2]
    IN  {"StartTransaction"}
        \cup (IF area = "app" /\ page \notin OpenPages
             THEN {"LoginValidate"} ELSE {})
        \cup (IF area = "app" /\ page \in AdminPages
             THEN {"AdminValidate"} ELSE {})
        \cup (IF area = "distributed" THEN {"DistributedValidate"} ELSE {})
=============================================================================
