------------------------------ MODULE Accounts ------------------------------
(***************************************************************************)
(* What the server promises of accounts, each operation in one step: users *)
(* with the root of their folders, and their sessions, each with its date. *)
(***************************************************************************)
EXTENDS Naturals, FiniteSetsExt

CONSTANTS UserId, Name, Pwd, Device, Token, Limit, NoPwd

VARIABLES user, folder, token

vars == <<user, folder, token>>

Of(id)     == {t \in token : t.user = id}
Others(id) == {t \in token : t.user # id}
Names      == {u.name : u \in user}
Latest(tokens) == Max({t.date : t \in tokens} \cup {0})
Changed(id, F(_)) == {IF u.id = id THEN F(u) ELSE u : u \in user}

AddUser ==
    \E id \in UserId, name \in Name, pwd \in Pwd \cup {NoPwd} :
        /\ name \notin Names /\ id \notin {u.id : u \in user}
        /\ user' = user \cup {[id |-> id, name |-> name, pwd |-> pwd, api |-> 0]}
        /\ folder' = folder \cup {id}
        /\ UNCHANGED token

EditUser ==
    \E u \in user : \E name \in Name, pwd \in Pwd \cup {u.pwd} :
        /\ name = u.name \/ name \notin Names
        /\ user' = Changed(u.id, LAMBDA v : [v EXCEPT !.name = name, !.pwd = pwd])
        /\ UNCHANGED <<folder, token>>

\* The new session takes the place of the one on the same device, and the
\* newest Limit sessions remain.
LogIn ==
    \E id \in UserId \cup {0}, device \in Device, new \in Token :
        LET left == {t \in token : ~(t.user = id /\ t.device = device)}
            all  == left \cup {[token |-> new, user |-> id, device |-> device,
                               date |-> Latest(left) + 1]}
            Later(t) == {s \in all : s.user = id /\ s.date > t.date}
        IN  /\ token' = {t \in all : t.user = id => Cardinality(Later(t)) < Limit}
            /\ UNCHANGED <<user, folder>>

LogOut ==
    \E old \in Token :
        /\ token' = {t \in token : t.token # old}
        /\ UNCHANGED <<user, folder>>

\* A new password ends every session of the user.
ChangePwd ==
    \E id \in UserId, pwd \in Pwd :
        /\ user' = Changed(id, LAMBDA v : [v EXCEPT !.pwd = pwd])
        /\ token' = Others(id)
        /\ UNCHANGED folder

SetApiToken ==
    \E id \in UserId, new \in Token \cup {0} :
        /\ user' = Changed(id, LAMBDA v : [v EXCEPT !.api = new])
        /\ UNCHANGED <<folder, token>>

\* A reset empties one table after the other; others may act in between.
Reset ==
    \/ folder' = {} /\ UNCHANGED <<user, token>>
    \/ user' = {} /\ UNCHANGED <<folder, token>>
    \/ token' = {} /\ UNCHANGED <<user, folder>>

Init ==
    /\ \A u, v \in user : u.name = v.name => u = v
    /\ folder = {u.id : u \in user}
    /\ \A id \in UserId \cup {0} : Cardinality(Of(id)) <= Limit
Next == \/ AddUser \/ EditUser \/ LogIn \/ LogOut \/ ChangePwd \/ SetApiToken
        \/ Reset
Spec == Init /\ [][Next]_vars
=============================================================================
