---------------------------- MODULE MCRequests ----------------------------
(* Requests for TLC: small tables at the start.                            *)
EXTENDS Requests

Alice == [id |-> 1, name |-> "alice", pwd |-> "a", api |-> 0]
\* One administrator with one session.
OneUser == [user |-> {Alice}, folder |-> {1},
            token |-> {[token |-> 1, user |-> 1, device |-> "phone", date |-> 1]}]
NoUser == Nothing

AccountRoutes == {LoginDoLogin, LoginLogout, ModifyPwdModify, UserEdit,
                  MineMakeApiToken, AdvancedDBBackup}
AdminRoutes   == {CreateAdminAddAdmin, LoginDoLogin, UserEdit}
LeakRoutes    == {AdvancedDBBackup, ModifyPwdModify}
=============================================================================
