------------------------------ MODULE Requests ------------------------------
(***************************************************************************)
(* How a request is served: the interceptors before and after its          *)
(* controller, the transaction and the other values kept per goroutine,    *)
(* and the one writer that SQLite lets in at a time.  The controllers that *)
(* change users and their tokens are modelled statement by statement; any  *)
(* other controller may write something else.                              *)
(*                                                                         *)
(* A keep-alive connection is one goroutine that serves request after      *)
(* request.  A read before the first write of a request sees what is       *)
(* committed; the first write begins the transaction, and the first that   *)
(* SQLite runs takes the lock, so that work is the view of its holder.     *)
(* LogSync has the log rows that a commit writes and commits that fail.    *)
(***************************************************************************)
EXTENDS Routes, Integers, FiniteSets, SequencesExt

CONSTANTS
    Conn,       \* the goroutines of the connections
    Requested,  \* the routes that clients ask for
    Name, Pwd, Device,
    Limit,      \* UserTokenLimit
    Start,      \* the rows of user, dfs_file and user_token at the start
    MayReset,   \* whether the administrator may reset the data
    MaxRequest, \* bound on the requests; each makes one user or token at most
    MaxCrash    \* bound on the crashes

ASSUME RouteAssumption == Requested \subseteq Routes
ASSUME ConnAssumption == "none" \notin Conn
ASSUME BoundAssumption ==
    /\ {MaxRequest, MaxCrash} \subseteq Nat
    /\ Limit \in Nat \ {0}
    /\ MayReset \in BOOLEAN
\* The tables at the start: ids are given out in turn, names are unique, each
\* user has the root of its folders, and sessions are within the limit.
ASSUME StartAssumption ==
    /\ Start = [user |-> Start.user, folder |-> Start.folder, token |-> Start.token]
    /\ IsFiniteSet(Start.user) /\ IsFiniteSet(Start.token)
    /\ \A u \in Start.user :
        /\ u = [id |-> u.id, name |-> u.name, pwd |-> u.pwd, api |-> u.api]
        /\ u.id \in 1..Cardinality(Start.user)
    /\ \A u, v \in Start.user : u.id = v.id \/ u.name = v.name => u = v
    /\ Start.folder = {u.id : u \in Start.user}
    /\ \A t \in Start.token : t.user \in {u.id : u \in Start.user} /\ t.date \in Nat
    /\ \A t, v \in Start.token : t.date = v.date => t = v
    /\ \A u \in Start.user :
         Cardinality({t \in Start.token : t.user = u.id}) <= Limit

VARIABLES
    pc,        \* pc[g]: what the goroutine does
    req,       \* req[g]: its request: [route, token, form]
    at,        \* at[g]: the interceptor it is at
    local,     \* local[g]: its part of goroutineLocalStore
    todo,      \* todo[g]: the statements its controller still has to run
    body,      \* body[g]: "nil", or "error" after a panic
    db,        \* what is committed: [user, folder, token]
    work,      \* what the holder of the lock sees
    lock,      \* the goroutine that writes, or None
    handle,    \* whether DBConn is "open" or "closed"
    readOnly,  \* IsReadOnly of the configuration
    adminId,   \* the cached id of the administrator, or 0
    fresh,     \* the next user and the next token
    bound,     \* the requests and crashes so far
    passed     \* history: the validations the request of g has passed

server == <<pc, req, at, body, passed>>
store  == <<db, work, lock, handle>>
vars   == <<server, local, todo, store, readOnly, adminId, fresh, bound>>

None   == "none"
NoReq  == [route |-> AppIndex, token |-> 0, form |-> <<>>]
\* The values of a goroutine: AUTO_COMMIT_KEY, START_KEY, the transaction
\* and the user.
Empty  == [manual |-> FALSE, begun |-> FALSE, tx |-> None, user |-> 0]
UserId == 1..Cardinality(Start.user) + MaxRequest
Token  == 1..Cardinality(Start.token) + MaxRequest
\* What work is while nobody writes.
Nothing == [user |-> {}, folder |-> {}, token |-> {}]

-----------------------------------------------------------------------------
(* The tables and the statements.                                          *)

Owned(d, id)   == {u \in d.user : u.id = id}
IdsOf(d)       == {u.id : u \in d.user}
SelectByName(d, name) == {u \in d.user : u.name = name}
SelectAdminId(d) ==
    IF d.user = {} THEN 0
    ELSE CHOOSE i \in IdsOf(d) : \A j \in IdsOf(d) : i <= j

\* The user a token belongs to, by the tokens of sessions, then of the API.
Bearer(d, token) ==
    LET sessions == {t \in d.token : t.token = token}
        api      == {u \in d.user : token # 0 /\ u.api = token}
    IN  IF sessions # {} THEN (CHOOSE t \in sessions : TRUE).user
        ELSE IF api # {} THEN (CHOOSE u \in api : TRUE).id
        ELSE 0

\* The date of a session is read while its writer holds the lock: dates grow.
Latest(tokens) == Max({t.date : t \in tokens} \cup {0})

\* The sessions of a user beyond the limit, oldest first, are removed.
Trim(d, id) ==
    LET Later(t) == {s \in d.token : s.user = id /\ s.date > t.date}
    IN  [d EXCEPT !.token = {t \in @ : t.user = id => Cardinality(Later(t)) < Limit}]

\* What statement s makes of the tables.
Effect(s, d) ==
    CASE s.do = "UserAdd"    -> [d EXCEPT !.user = @ \cup {s.user}]
      [] s.do = "AddFolder"  -> [d EXCEPT !.folder = @ \cup {s.id}]
      [] s.do = "Update"     ->
           [d EXCEPT !.user = {IF u.id = s.id THEN [u EXCEPT !.name = s.name]
                               ELSE u : u \in @}]
      [] s.do = "SetPwd"     ->
           [d EXCEPT !.user = {IF u.id = s.id THEN [u EXCEPT !.pwd = s.pwd]
                               ELSE u : u \in @}]
      [] s.do = "SetApiToken" ->
           [d EXCEPT !.user = {IF u.id = s.id THEN [u EXCEPT !.api = s.token]
                               ELSE u : u \in @}]
      [] s.do = "TokenAdd"   -> 
           [d EXCEPT !.token = @ \cup {[token |-> s.token, user |-> s.id,
                                       device |-> s.device, date |-> Latest(@) + 1]}]
      [] s.do = "Trim"       -> Trim(d, s.id)
      [] s.do = "DeleteByUserIdAndDeviceId" ->
           [d EXCEPT !.token = {t \in @ : ~(t.user = s.id /\ t.device = s.device)}]
      [] s.do = "DeleteByUserId" ->
           [d EXCEPT !.token = {t \in @ : t.user # s.id}]
      [] s.do = "DeleteByToken"  ->
           [d EXCEPT !.token = {t \in @ : t.token # s.token}]
      [] s.do = "DeleteFiles"    -> [d EXCEPT !.folder = {}]
      [] s.do = "DeleteUsers"    -> [d EXCEPT !.user = {}]
      [] s.do = "DeleteTokens"   -> [d EXCEPT !.token = {}]
      [] s.do = "Other"          -> d

\* user.name is unique.
Violates(s, d) ==
    \/ s.do = "UserAdd" /\ SelectByName(d, s.user.name) # {}
    \/ /\ s.do = "Update" /\ Owned(d, s.id) # {}
       /\ \E u \in SelectByName(d, s.name) : u.id # s.id

\* The statements that a read-only server still runs: their text contains
\* "user_token".
OnTokens == {"TokenAdd", "Trim", "DeleteByUserIdAndDeviceId",
             "DeleteByUserId", "DeleteByToken"}
\* The statements that go round the transaction, straight to DBConn.
Direct   == {"DeleteFiles", "DeleteUsers", "DeleteTokens"}
-----------------------------------------------------------------------------
(* The way of a request.                                                   *)

Init ==
    /\ pc = [g \in Conn |-> "idle"]
    /\ req = [g \in Conn |-> NoReq]
    /\ at = [g \in Conn |-> 1]
    /\ local = [g \in Conn |-> Empty]
    /\ todo = [g \in Conn |-> <<>>]
    /\ body = [g \in Conn |-> "nil"]
    /\ db = Start /\ work = Nothing
    /\ lock = None
    /\ handle = "open"
    /\ readOnly \in (IF MayReset THEN BOOLEAN ELSE {FALSE})
    /\ adminId = 0
    /\ fresh = [user  |-> Cardinality(Start.user) + 1,
                token |-> Cardinality(Start.token) + 1]
    /\ bound = [request |-> 0, crash |-> 0]
    /\ passed = [g \in Conn |-> {}]

Forms(route) ==
    CASE route = LoginDoLogin        -> [name : Name, pwd : Pwd, device : Device]
      [] route = ModifyPwdModify     -> [old : Pwd, pwd : Pwd]
      [] route = CreateAdminAddAdmin -> [name : Name, pwd : Pwd]
      [] route = UserEdit            ->
           [id : 0..fresh.user - 1, name : Name, pwd : Pwd \cup {None}]
      [] route = MineMakeApiToken    -> [flag : {0, 1}]
      [] OTHER                       -> {<<>>}

\* The handler of AutoWeb is called; another method answers 404.
Accept(g) ==
    /\ pc[g] = "idle" /\ bound.request < MaxRequest
    /\ \E route \in Requested, token \in 0..fresh.token - 1 :
         \E form \in Forms(route) :
           /\ route.verbs # {}
           /\ req' = [req EXCEPT ![g] =
                        [route |-> route, token |-> token, form |-> form]]
    /\ pc' = [pc EXCEPT ![g] = "before"]
    /\ at' = [at EXCEPT ![g] = 1]
    /\ body' = [body EXCEPT ![g] = "nil"]
    /\ passed' = [passed EXCEPT ![g] = {}]
    /\ bound' = [bound EXCEPT !.request = @ + 1]
    /\ UNCHANGED <<local, todo, store, readOnly, adminId, fresh>>

\* The handler returns, or panics: its deferred function takes over.
Leave(g, result) ==
    /\ pc' = [pc EXCEPT ![g] = "after"]
    /\ at' = [at EXCEPT ![g] = 1]
    /\ body' = [body EXCEPT ![g] = result]
    /\ todo' = [todo EXCEPT ![g] = <<>>]
    /\ UNCHANGED <<req, passed>>

Before(g, name) ==
    /\ pc[g] = "before" /\ at[g] <= Len(req[g].route.before)
    /\ req[g].route.before[at[g]] = name
Pass(g) ==
    /\ passed' = [passed EXCEPT ![g] = @ \cup {req[g].route.before[at[g]]}]
    /\ at' = [at EXCEPT ![g] = @ + 1]
    /\ UNCHANGED <<pc, req, todo, body>>

StartTransaction(g) ==
    /\ Before(g, "StartTransaction")
    /\ local' = [local EXCEPT ![g].manual = TRUE]
    /\ Pass(g)
    /\ UNCHANGED <<store, readOnly, adminId, fresh, bound>>

\* A query on a closed handle is an error, and errors of queries panic.
LoginValidate(g) ==
    /\ Before(g, "LoginValidate")
    /\ LET user == Bearer(db, req[g].token)
       IN  \/ /\ handle = "open" /\ user # 0
              /\ local' = [local EXCEPT ![g].user = user]
              /\ Pass(g)
           \/ /\ handle = "open" \/ req[g].token = 0
              /\ user = 0 /\ Leave(g, "nil") /\ UNCHANGED local
           \/ /\ handle = "closed" /\ req[g].token # 0
              /\ Leave(g, "error") /\ UNCHANGED local
    /\ UNCHANGED <<store, readOnly, adminId, fresh, bound>>

AdminValidate(g) ==
    /\ Before(g, "AdminValidate")
    /\ \/ /\ adminId = 0 /\ handle = "closed"
          /\ Leave(g, "error") /\ UNCHANGED adminId
       \/ /\ adminId # 0 \/ handle = "open"
          /\ adminId' = IF adminId = 0 THEN SelectAdminId(db) ELSE adminId
          /\ IF adminId' = local[g].user THEN Pass(g) ELSE Leave(g, "nil")
    /\ UNCHANGED <<local, store, readOnly, fresh, bound>>

\* The tokens in the path are those of this server and of another, or not.
DistributedValidate(g) ==
    /\ Before(g, "DistributedValidate")
    /\ Pass(g) \/ Leave(g, "nil")
    /\ UNCHANGED <<local, store, readOnly, adminId, fresh, bound>>

\* The validators of the forms, which read what is committed.
IsNameAndPwd(f)  == \E u \in SelectByName(db, f.name) : u.pwd = f.pwd
IsOldPwd(f, id)  == \E u \in Owned(db, id) : u.pwd = f.old
IsName(f)        == \A u \in SelectByName(db, f.name) : u.id = f.id
Valid(g) ==
    LET route == req[g].route
        form  == req[g].form
    IN  /\ route = LoginDoLogin => IsNameAndPwd(form)
        /\ route = ModifyPwdModify => IsOldPwd(form, local[g].user)
        /\ route = UserEdit => IsName(form)

Check(g) ==
    /\ pc[g] = "before" /\ at[g] > Len(req[g].route.before)
    /\ \/ /\ ~req[g].route.checked \/ (handle = "open" /\ Valid(g))
          /\ pc' = [pc EXCEPT ![g] = "call"]
          /\ UNCHANGED <<req, at, body, todo, passed>>
       \/ req[g].route.checked /\ Leave(g, "nil")
       \/ req[g].route.checked /\ handle = "closed" /\ Leave(g, "error")
    /\ UNCHANGED <<local, store, readOnly, adminId, fresh, bound>>

-----------------------------------------------------------------------------
(* The controllers: what they read before their first statement, and the   *)
(* statements they run.                                                    *)

Calls(g, route) == pc[g] = "call" /\ req[g].route = route
Does(g, statements) ==
    /\ todo' = [todo EXCEPT ![g] = statements]
    /\ pc' = [pc EXCEPT ![g] = "body"]
    /\ UNCHANGED <<req, at, body, passed>>
Keep == UNCHANGED <<local, store, bound>>

DoLogin(g) ==
    /\ Calls(g, LoginDoLogin)
    /\ IF handle = "closed" THEN Leave(g, "error") /\ UNCHANGED fresh ELSE
       LET form  == req[g].form
           found == SelectByName(db, form.name)
           id    == IF found = {} THEN 0 ELSE (CHOOSE u \in found : TRUE).id
       IN  /\ fresh' = [fresh EXCEPT !.token = @ + 1]
           /\ Does(g, <<[do |-> "DeleteByUserIdAndDeviceId", id |-> id,
                         device |-> form.device],
                        [do |-> "TokenAdd", id |-> id, token |-> fresh.token,
                         device |-> form.device],
                        [do |-> "Trim", id |-> id]>>)
    /\ Keep /\ UNCHANGED <<readOnly, adminId>>

Logout(g) ==
    /\ Calls(g, LoginLogout)
    /\ Does(g, IF req[g].token = 0 THEN <<>>
               ELSE <<[do |-> "DeleteByToken", token |-> req[g].token]>>)
    /\ Keep /\ UNCHANGED <<readOnly, adminId, fresh>>

Modify(g) ==
    /\ Calls(g, ModifyPwdModify)
    /\ Does(g, <<[do |-> "SetPwd", id |-> local[g].user,
                  pwd |-> req[g].form.pwd],
                 [do |-> "DeleteByUserId", id |-> local[g].user]>>)
    /\ Keep /\ UNCHANGED <<readOnly, adminId, fresh>>

\* UserService.Add: the user and the root of its folders.
AddUser(id, name, pwd) ==
    <<[do |-> "UserAdd",
       user |-> [id |-> id, name |-> name, pwd |-> pwd, api |-> 0]],
      [do |-> "AddFolder", id |-> id]>>

AddAdmin(g) ==
    /\ Calls(g, CreateAdminAddAdmin)
    /\ \/ /\ handle = "open" /\ db.user = {}
          /\ fresh' = [fresh EXCEPT !.user = @ + 1]
          /\ Does(g, AddUser(fresh.user, req[g].form.name, req[g].form.pwd))
       \/ /\ handle = "closed" \/ db.user # {}
          /\ Leave(g, "error") /\ UNCHANGED fresh
    /\ Keep /\ UNCHANGED <<readOnly, adminId>>

\* None stands for PWD_PLACEHOLDER: the password is left as it is.
Edit(g) ==
    /\ Calls(g, UserEdit)
    /\ LET form == req[g].form
           id   == IF form.id = 0 THEN fresh.user ELSE form.id
           pwd  == IF form.pwd = None THEN <<>>
                   ELSE <<[do |-> "SetPwd", id |-> id, pwd |-> form.pwd]>>
       IN  \/ /\ form.id = 0
              /\ fresh' = [fresh EXCEPT !.user = @ + 1]
              /\ Does(g, AddUser(id, form.name, None) \o pwd)
           \/ /\ form.id # 0 /\ UNCHANGED fresh
              /\ Does(g, <<[do |-> "Update", id |-> id,
                            name |-> form.name]>> \o pwd)
    /\ Keep /\ UNCHANGED <<readOnly, adminId>>

MakeApiToken(g) ==
    /\ Calls(g, MineMakeApiToken)
    /\ LET token == IF req[g].form.flag = 0 THEN 0 ELSE fresh.token
       IN  /\ fresh' = [fresh EXCEPT !.token = IF token = 0 THEN @ ELSE @ + 1]
           /\ Does(g, <<[do |-> "SetApiToken", id |-> local[g].user,
                         token |-> token]>>)
    /\ Keep /\ UNCHANGED <<readOnly, adminId>>

\* Update of the profile, of which only IsReadOnly matters here.
Update(g) ==
    /\ Calls(g, ProfileUpdate)
    /\ readOnly' \in (IF MayReset THEN BOOLEAN ELSE {readOnly})
    /\ Does(g, <<>>)
    /\ Keep /\ UNCHANGED <<adminId, fresh>>

ResetData(g) ==
    /\ Calls(g, AdvancedResetData)
    /\ IF readOnly /\ MayReset
       THEN Does(g, <<[do |-> "DeleteFiles"], [do |-> "DeleteUsers"],
                      [do |-> "DeleteTokens"]>>)
       ELSE Leave(g, "error")
    /\ Keep /\ UNCHANGED <<readOnly, adminId, fresh>>

\* Backup closes the handle, copies the files and opens it again.
Backup(g) ==
    /\ Calls(g, AdvancedDBBackup)
    /\ Does(g, <<[do |-> "Close"], [do |-> "Open"]>>)
    /\ Keep /\ UNCHANGED <<readOnly, adminId, fresh>>

\* Upload commits before it wakes the worker.
Upload(g) ==
    /\ Calls(g, FileUploadUpload)
    /\ Does(g, <<[do |-> "Other"], [do |-> "Commit"]>>)
    /\ Keep /\ UNCHANGED <<readOnly, adminId, fresh>>

Modelled == {LoginDoLogin, LoginLogout, ModifyPwdModify, CreateAdminAddAdmin,
             UserEdit, MineMakeApiToken, ProfileUpdate, AdvancedResetData,
             AdvancedDBBackup, FileUploadUpload}
OtherController(g) ==
    /\ pc[g] = "call" /\ req[g].route \notin Modelled
    /\ Does(g, <<>>) \/ Does(g, <<[do |-> "Other"]>>)
    /\ Keep /\ UNCHANGED <<readOnly, adminId, fresh>>

-----------------------------------------------------------------------------
(* The statements of a controller: DBConnection.Write.                     *)

Runs(g, kinds) == pc[g] = "body" /\ todo[g] # <<>> /\ Head(todo[g]).do \in kinds
Special        == Direct \cup {"Close", "Open", "Commit"}
Writes(g)      == /\ pc[g] = "body" /\ todo[g] # <<>>
                  /\ Head(todo[g]).do \notin Special
Refused(g)     == readOnly /\ Head(todo[g]).do \notin OnTokens
Next1(g)       == /\ todo' = [todo EXCEPT ![g] = Tail(@)]
                  /\ UNCHANGED <<pc, req, at, body, passed>>
Rest           == UNCHANGED <<readOnly, adminId, fresh, bound>>

\* Mutant: the transaction is not kept, and every attempt begins another.
BeginAgain(g) ==
    /\ Writes(g) /\ ~Refused(g) /\ local[g].tx = None
    /\ local' = [local EXCEPT ![g].begun = TRUE]
    /\ UNCHANGED <<server, todo, store>> /\ Rest
\* getConnection: an error of Begin is dropped and a nil transaction kept.
Begin(g) ==
    /\ Writes(g) /\ ~Refused(g) /\ local[g].tx = None
    /\ local' = [local EXCEPT ![g].begun = TRUE,
                              ![g].tx = IF handle = "open" THEN "open" ELSE "nil"]
    /\ UNCHANGED <<server, todo, store>> /\ Rest

Exec(g) ==
    /\ Writes(g) /\ ~Refused(g) /\ local[g].tx = "open" /\ lock \in {None, g}
    /\ lock' = g
    /\ LET view == IF lock = g THEN work ELSE db
           s    == Head(todo[g])
       IN  IF Violates(s, view)
           THEN work' = view /\ Leave(g, "error")
           ELSE work' = Effect(s, view) /\ Next1(g)
    /\ UNCHANGED <<local, db, handle>> /\ Rest

\* A statement that panics: the server is read-only, the transaction is nil,
\* SQLite waited too long for the lock, or anything else in the controller.
Panic(g) ==
    /\ Writes(g) /\ (Refused(g) \/ local[g].tx # None)
    /\ Leave(g, "error")
    /\ UNCHANGED <<local, store>> /\ Rest

\* ResetData ignores the error: what is left of its statements is dropped.
ExecDirect(g) ==
    /\ Runs(g, Direct)
    /\ \/ /\ handle = "open" /\ lock = None
          /\ db' = Effect(Head(todo[g]), db)
          /\ Next1(g)
       \/ /\ handle = "closed" \/ lock # None
          /\ UNCHANGED db /\ Leave(g, "nil")
    /\ UNCHANGED <<local, work, lock, handle>> /\ Rest

\* What fails while the files are copied panics after the deferred Init.
Reopen(g) ==
    /\ Runs(g, {"Close", "Open"})
    /\ handle' = IF Head(todo[g]).do = "Close" THEN "closed" ELSE "open"
    /\ \/ Next1(g)
       \/ Head(todo[g]).do = "Open" /\ Leave(g, "error")
    /\ UNCHANGED <<local, db, work, lock>> /\ Rest

\* DBConnection.Commit and Rollback.
Ends(g, keeps) ==
    /\ local' = [local EXCEPT ![g].tx = None, ![g].begun = FALSE]
    /\ db' = IF lock = g /\ keeps THEN work ELSE db
    /\ lock' = IF lock = g THEN None ELSE lock
    /\ work' = IF lock = g THEN Nothing ELSE work
    /\ UNCHANGED handle

CommitInside(g) ==
    /\ Runs(g, {"Commit"})
    /\ Ends(g, TRUE) /\ Next1(g) /\ Rest

Return(g) ==
    /\ pc[g] = "body" /\ todo[g] = <<>>
    /\ Leave(g, "nil")
    /\ UNCHANGED <<local, store>> /\ Rest

-----------------------------------------------------------------------------
(* The interceptors after the controller.                                  *)

After(g, name) == /\ pc[g] = "after"
                  /\ req[g].route.after[at[g]] = name

\* Mutant: what a controller that panicked has written is committed.
MutCommit(g) ==
    /\ After(g, "Commit") /\ local[g].tx # "nil"
    /\ Ends(g, TRUE)
    /\ at' = [at EXCEPT ![g] = @ + 1]
    /\ UNCHANGED <<pc, req, body, passed, todo>> /\ Rest
Commit(g) ==
    /\ After(g, "Commit") /\ local[g].tx # "nil"
    /\ Ends(g, body[g] = "nil")
    /\ at' = [at EXCEPT ![g] = @ + 1]
    /\ UNCHANGED <<pc, req, body, passed, todo>> /\ Rest

\* Rollback of the nil transaction panics inside the deferred function:
\* net/http closes the connection and its goroutine ends.
CommitPanics(g) ==
    /\ After(g, "Commit") /\ local[g].tx = "nil"
    /\ pc' = [pc EXCEPT ![g] = "gone"]
    /\ UNCHANGED <<req, at, body, passed, todo, local, store>> /\ Rest

HtmlInterceptor(g) ==
    /\ After(g, "HtmlInterceptor")
    /\ at' = [at EXCEPT ![g] = @ + 1]
    /\ UNCHANGED <<pc, req, body, passed, todo, local, store>> /\ Rest

\* Mutant: the values stay until the next request of the connection.
MutRemoveGoroutineLocal(g) ==
    /\ After(g, "RemoveGoroutineLocal")
    /\ pc' = [pc EXCEPT ![g] = "idle"]
    /\ req' = [req EXCEPT ![g] = NoReq]
    /\ UNCHANGED <<at, body, passed, todo, local, store>> /\ Rest
RemoveGoroutineLocal(g) ==
    /\ After(g, "RemoveGoroutineLocal")
    /\ local' = [local EXCEPT ![g] = Empty]
    /\ pc' = [pc EXCEPT ![g] = "idle"]
    /\ req' = [req EXCEPT ![g] = NoReq]
    /\ UNCHANGED <<at, body, passed, todo, store>> /\ Rest

\* The process ends; what was not committed is gone.
Crash ==
    /\ bound.crash < MaxCrash
    /\ bound' = [bound EXCEPT !.crash = @ + 1]
    /\ pc' = [g \in Conn |-> "idle"]
    /\ req' = [g \in Conn |-> NoReq]
    /\ local' = [g \in Conn |-> Empty]
    /\ todo' = [g \in Conn |-> <<>>]
    /\ lock' = None /\ work' = Nothing /\ handle' = "open" /\ adminId' = 0
    /\ UNCHANGED <<at, body, passed, db, readOnly, fresh>>

Validates(g) == \/ StartTransaction(g) \/ LoginValidate(g)
                \/ AdminValidate(g) \/ DistributedValidate(g)
Controls(g)  == \/ DoLogin(g) \/ Logout(g) \/ Modify(g) \/ AddAdmin(g)
                \/ Edit(g) \/ MakeApiToken(g) \/ Update(g) \/ ResetData(g)
                \/ Backup(g) \/ Upload(g) \/ OtherController(g)
Executes(g)  == \/ Begin(g) \/ Exec(g) \/ Panic(g) \/ ExecDirect(g)
                \/ Reopen(g) \/ CommitInside(g) \/ Return(g)
Closes(g)    == \/ Commit(g) \/ CommitPanics(g) \/ HtmlInterceptor(g)
                \/ RemoveGoroutineLocal(g)
Step(g)      == Validates(g) \/ Check(g) \/ Controls(g) \/ Executes(g) \/ Closes(g)

Next == \/ \E g \in Conn : Accept(g) \/ Step(g)
        \/ Crash

\* The goroutine of a request runs on: nothing waits for a client, and
\* SQLite gives a lock or an error within its time-out.
Spec     == Init /\ [][Next]_vars
FairSpec == Spec /\ \A g \in Conn : WF_vars(Step(g))

-----------------------------------------------------------------------------
(* Properties.                                                             *)

\* Type invariant.
TypeOK ==
    /\ pc \in [Conn -> {"idle", "before", "call", "body", "after", "gone"}]
    /\ \A g \in Conn : req[g].route \in Routes \cup {AppIndex}
    /\ at \in [Conn -> 1..4]
    /\ body \in [Conn -> {"nil", "error"}]
    /\ local \in [Conn -> [manual : BOOLEAN, begun : BOOLEAN,
                          tx : {None, "open", "nil"}, user : UserId \cup {0}]]
    /\ lock \in Conn \cup {None}
    /\ handle \in {"open", "closed"} /\ readOnly \in BOOLEAN
    /\ adminId \in UserId \cup {0}

\* A controller runs only after every validation that the annotations of the
\* interceptors demand of its route (LoginValidate, AdminValidate,
\* DistributedValidate).
GuardedAsAnnotated ==
    \A g \in Conn : pc[g] \in {"call", "body"} =>
                     Annotated(req[g].route) \subseteq passed[g]

\* The values a goroutine keeps are those of the request it serves: nothing
\* of an earlier request on the same connection is left (an open
\* transaction, the user), and nobody is known where nobody logged in.
LocalsAreOwn ==
    \A g \in Conn :
        /\ pc[g] = "idle" => local[g] = Empty /\ lock # g
        /\ local[g].user # 0 => "LoginValidate" \in passed[g]

\* What other requests see of users and sessions changes only by whole
\* operations: a user with the root of its folders, a session that replaces
\* that of its device and keeps to the limit, a password with the end of the
\* sessions.  A request that panics changes nothing.
A == INSTANCE Accounts WITH user <- db.user, folder <- db.folder,
                            token <- db.token, NoPwd <- None
ImplementsAccounts == A!Spec

\* Every request that is accepted comes to its end, and so does its
\* transaction: nobody waits for ever for the lock of SQLite.
RequestsEnd ==
    \A g \in Conn : pc[g] \notin {"idle", "gone"} ~> pc[g] \in {"idle", "gone"}

\* "The administrator may be created once" (CreateAdminAppController): no
\* request adds an administrator to users that are there.
AdminCreatedOnce ==
    [][\A g \in Conn : Commit(g) /\ req[g].route = CreateAdminAddAdmin
                       /\ db' # db => db.user = {}]_vars

\* "The local variables of the goroutine are cleared when a request has
\* ended" (GoroutineInterceptor).
ClearedAfterEachRequest ==
    \A g \in Conn : pc[g] \in {"idle", "gone"} => local[g] = Empty
=============================================================================
