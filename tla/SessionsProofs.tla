--------------------------- MODULE SessionsProofs ---------------------------
(***************************************************************************)
(* Proofs about Sessions, for every number of accounts, terminals and      *)
(* logins, every staff that starts with an administrator, and every limit. *)
(* The argument: as long as an account has a token it is the one of its    *)
(* newest login, and it loses it only to the logout of that very session.  *)
(*                                                                         *)
(* The throttle has an invariant of its own, on top of the first: what     *)
(* counts for the lock is what the history has of the last Lockout, so a   *)
(* failure let through falls only into windows that have less than the     *)
(* limit, and nothing else adds any.                                       *)
(***************************************************************************)
EXTENDS Sessions, FiniteSetTheorems, TLAPS

\* TypeOK but for the failed logins.
Shape ==
    /\ account \in [AccountIds -> Account]
    /\ authors \subseteq AccountIds
    /\ cookie \in [Terminals -> Cookie \cup {NoCookie}]
    /\ reply \in [Terminals -> Cookie \cup {NoCookie, Nothing}]
    /\ clock \in 0..MaxClock /\ logins \in 0..MaxLogins /\ requests \in 0..MaxRequests
    /\ latest \in [AccountIds -> Tokens \cup {0}]
    /\ ended \subseteq Tokens

\* The token of an account is the one of its newest login, or it is gone with
\* that session.
TokenIsNewest ==
    \A u \in AccountIds :
       /\ latest[u] <= logins
       /\ account[u].token # 0 => account[u].token = latest[u]
       /\ account[u].token = 0 => latest[u] = 0 \/ latest[u] \in ended

IndInv == Shape /\ TokenIsNewest /\ AnAdministratorRemains

-----------------------------------------------------------------------------
\* The seeded accounts (init_db.py) satisfy the invariant.
LEMMA InitIndInv == Init => IndInv
<1> SUFFICES ASSUME Init PROVE IndInv
  OBVIOUS
<1> USE StaffAssumption, LimitsAssumption
<1>1. Staff \in [1..Len(Staff) -> Roles] /\ Len(Staff) \in 1..MaxAccounts
  BY DEF AccountIds
<1>2. account \in [AccountIds -> Account]
  <2> SUFFICES ASSUME NEW u \in AccountIds PROVE account[u] \in Account
    BY DEF Init
  <2>1. CASE u <= Len(Staff)
    <3>1. Staff[u] \in Roles
      BY <1>1, <2>1 DEF AccountIds
    <3> QED
      BY <2>1, <3>1 DEF Init, NoAccount, Account, Tokens
  <2>2. CASE ~(u <= Len(Staff))
    BY <2>2 DEF Init, NoAccount, Account, Roles
  <2> QED
    BY <2>1, <2>2
<1>3. Shape
  <2>1. authors \subseteq AccountIds
    <3>1. 1 \in AccountIds
      BY <1>1 DEF AccountIds
    <3> QED
      BY <3>1 DEF Init
  <2>2. cookie \in [Terminals -> Cookie \cup {NoCookie}]
    BY DEF Init
  <2>3. reply \in [Terminals -> Cookie \cup {NoCookie, Nothing}]
    BY DEF Init
  <2>4. clock = 0 /\ logins = 0 /\ requests = 0
    BY DEF Init
  <2>5. latest \in [AccountIds -> Tokens \cup {0}] /\ ended \subseteq Tokens
    BY DEF Init
  <2> QED
    BY <1>2, <2>1, <2>2, <2>3, <2>4, <2>5 DEF Shape
<1>4. TokenIsNewest
  <2> SUFFICES ASSUME NEW u \in AccountIds
               PROVE  /\ latest[u] <= logins
                      /\ account[u].token # 0 => account[u].token = latest[u]
                      /\ account[u].token = 0 => latest[u] = 0 \/ latest[u] \in ended
    BY DEF TokenIsNewest
  <2>1. latest[u] = 0 /\ logins = 0
    BY DEF Init
  <2>2. account[u].token = 0
    <3>1. CASE u <= Len(Staff)
      BY <3>1 DEF Init, NoAccount
    <3>2. CASE ~(u <= Len(Staff))
      BY <3>2 DEF Init, NoAccount
    <3> QED
      BY <3>1, <3>2
  <2> QED
    BY <2>1, <2>2
<1>5. 1 \in Administrators
  <2>1. 1 \in AccountIds /\ 1 <= Len(Staff)
    BY <1>1 DEF AccountIds
  <2>2. account[1] = [NoAccount EXCEPT !.exists = TRUE, !.role = Staff[1], !.active = TRUE]
    BY <2>1 DEF Init
  <2>3. account[1].exists /\ account[1].active /\ ~account[1].archived
          /\ account[1].role = "administrator"
    BY <2>2 DEF NoAccount
  <2> QED
    BY <2>1, <2>3 DEF Administrators, Usable
<1> QED
  BY <1>3, <1>4, <1>5 DEF IndInv, AnAdministratorRemains

\* Whoever could log in as an administrator and was not touched still can.
LEMMA OthersStay ==
    ASSUME NEW v \in Administrators, account'[v].exists = account[v].exists,
           account'[v].active = account[v].active, account'[v].archived = account[v].archived,
           account'[v].role = account[v].role
    PROVE  v \in Administrators'
BY DEF Administrators, Usable

\* If the last administrator is spared, an edit of one account leaves one.
LEMMA EditLeavesOne ==
    ASSUME IndInv, NEW u \in AccountIds, NEW a,
           account' = [account EXCEPT ![u] = a],
           \/ ~LastAdministrator(u)
           \/ /\ a.exists = account[u].exists /\ a.active = account[u].active
              /\ a.archived = account[u].archived /\ a.role = account[u].role
           \/ /\ a.exists = account[u].exists /\ a.active = account[u].active
              /\ a.archived = account[u].archived /\ a.role = "administrator"
    PROVE  AnAdministratorRemains'
<1>1. PICK v \in Administrators : TRUE
  BY DEF IndInv, AnAdministratorRemains
<1>2. v \in AccountIds /\ account \in [AccountIds -> Account]
  BY DEF Administrators, IndInv, Shape
<1>3. ASSUME NEW w \in Administrators, w # u PROVE AnAdministratorRemains'
  <2>1. w \in AccountIds
    BY DEF Administrators
  <2>2. account'[w] = account[w]
    BY <1>2, <1>3, <2>1
  <2>3. w \in Administrators'
    BY <2>2, OthersStay
  <2> QED
    BY <2>3 DEF AnAdministratorRemains
<1>4. CASE v = u /\ ~LastAdministrator(u)
  <2>1. PICK w \in Administrators : w # u
    BY <1>1, <1>4 DEF LastAdministrator
  <2> QED
    BY <1>3, <2>1
<1>5. CASE v = u /\ LastAdministrator(u)
  <2>1. account'[u] = a /\ account[u].role = "administrator"
    BY <1>1, <1>2, <1>5 DEF Administrators
  <2>2. u \in Administrators'
    BY <1>1, <1>5, <2>1 DEF Administrators, Usable
  <2> QED
    BY <2>2 DEF AnAdministratorRemains
<1> QED
  BY <1>1, <1>3, <1>4, <1>5

-----------------------------------------------------------------------------
\* A login keeps the invariant: the token and the newest login move together.
LEMMA LoginStep ==
    ASSUME IndInv, NEW t \in Terminals, NEW u \in AccountIds, NEW remember \in BOOLEAN,
           Login(t, u, remember)
    PROVE  IndInv'
<1> USE StaffAssumption, LimitsAssumption
<1>1. Shape /\ TokenIsNewest /\ AnAdministratorRemains
  BY DEF IndInv
<1>2. logins' = logins + 1 /\ logins' \in Tokens /\ logins' \in 0..MaxLogins
  BY <1>1 DEF Login, Shape, Tokens
<1>3. account' = [account EXCEPT ![u].token = logins'] /\ latest' = [latest EXCEPT ![u] = logins']
  BY DEF Login
<1>4. account' \in [AccountIds -> Account]
  BY <1>1, <1>2, <1>3 DEF Shape, Account
<1>5. Shape'
  <2>1. cookie' \in [Terminals -> Cookie \cup {NoCookie}]
    BY <1>1, <1>2 DEF Login, Shape, Cookie
  <2>2. requests' \in 0..MaxRequests
    BY <1>1 DEF Login, Request, Shape
  <2>3. latest' \in [AccountIds -> Tokens \cup {0}]
    BY <1>1, <1>2, <1>3 DEF Shape
  <2> QED
    BY <1>1, <1>2, <1>4, <2>1, <2>2, <2>3 DEF Shape, Login
<1>6. TokenIsNewest'
  <2> SUFFICES ASSUME NEW v \in AccountIds
               PROVE  /\ latest'[v] <= logins'
                      /\ account'[v].token # 0 => account'[v].token = latest'[v]
                      /\ account'[v].token = 0 => latest'[v] = 0 \/ latest'[v] \in ended'
    BY DEF TokenIsNewest
  <2>1. ended' = ended
    BY DEF Login
  <2>2. CASE v = u
    BY <1>1, <1>2, <1>3, <2>2 DEF Shape, Tokens, Account
  <2>3. CASE v # u
    <3>1. account'[v] = account[v] /\ latest'[v] = latest[v]
      BY <1>1, <1>3, <2>3 DEF Shape
    <3> QED
      BY <1>1, <1>2, <2>1, <3>1 DEF TokenIsNewest, Shape, Tokens
  <2> QED
    BY <2>2, <2>3
<1>7. AnAdministratorRemains'
  <2>1. PICK v \in Administrators : TRUE
    BY <1>1 DEF AnAdministratorRemains
  <2>2. v \in AccountIds
    BY DEF Administrators
  <2>3. v \in Administrators'
    BY <1>1, <1>3, <2>1, <2>2, OthersStay DEF Shape, Account
  <2> QED
    BY <2>3 DEF AnAdministratorRemains
<1> QED
  BY <1>5, <1>6, <1>7 DEF IndInv

\* A logout keeps it: with the token of the account, its session has ended.
LEMMA LogoutStep ==
    ASSUME IndInv, NEW t \in Terminals, Logout(t)
    PROVE  IndInv'
<1> USE StaffAssumption, LimitsAssumption
<1> DEFINE u == cookie[t].user
<1>1. Shape /\ TokenIsNewest /\ AnAdministratorRemains
  BY DEF IndInv
<1>2. cookie[t] \in Cookie
  BY <1>1 DEF Logout, Shape
<1>3. u \in AccountIds /\ cookie[t].token \in Tokens
  BY <1>2 DEF Cookie
<1>4. account' = IF account[u].token = cookie[t].token
                 THEN [account EXCEPT ![u].token = 0] ELSE account
  BY DEF Logout
<1>5. ended' = ended \cup {cookie[t].token} /\ latest' = latest /\ logins' = logins
  BY DEF Logout
<1>6. Shape'
  <2>1. account' \in [AccountIds -> Account]
    BY <1>1, <1>3, <1>4 DEF Shape, Account
  <2>2. cookie' \in [Terminals -> Cookie \cup {NoCookie}]
    BY <1>1 DEF Logout, Shape
  <2>3. requests' \in 0..MaxRequests
    BY <1>1 DEF Logout, Request, Shape
  <2> QED
    BY <1>1, <1>3, <2>1, <2>2, <2>3 DEF Shape, Logout
<1>7. TokenIsNewest'
  <2> SUFFICES ASSUME NEW v \in AccountIds
               PROVE  /\ latest'[v] <= logins'
                      /\ account'[v].token # 0 => account'[v].token = latest'[v]
                      /\ account'[v].token = 0 => latest'[v] = 0 \/ latest'[v] \in ended'
    BY DEF TokenIsNewest
  <2>1. CASE v = u /\ account[u].token = cookie[t].token
    <3>1. account'[v].token = 0
      BY <1>1, <1>3, <1>4, <2>1 DEF Shape, Account
    <3>2. latest[v] = cookie[t].token
      BY <1>1, <1>3, <2>1 DEF TokenIsNewest, Tokens
    <3> QED
      BY <1>1, <1>5, <3>1, <3>2 DEF TokenIsNewest
  <2>2. CASE ~(v = u /\ account[u].token = cookie[t].token)
    <3>1. account'[v] = account[v]
      BY <1>1, <1>3, <1>4, <2>2 DEF Shape
    <3> QED
      BY <1>1, <1>5, <3>1 DEF TokenIsNewest
  <2> QED
    BY <2>1, <2>2
<1>8. AnAdministratorRemains'
  <2>1. PICK v \in Administrators : TRUE
    BY <1>1 DEF AnAdministratorRemains
  <2>2. v \in AccountIds
    BY DEF Administrators
  <2>3. v \in Administrators'
    BY <1>1, <1>3, <1>4, <2>1, <2>2, OthersStay DEF Shape, Account
  <2> QED
    BY <2>3 DEF AnAdministratorRemains
<1> QED
  BY <1>6, <1>7, <1>8 DEF IndInv

\* A step that leaves the accounts and their logins alone keeps it.
LEMMA AccountsAlone ==
    ASSUME IndInv, Shape', UNCHANGED <<account, logins, latest, ended>>
    PROVE  IndInv'
BY DEF IndInv, TokenIsNewest, AnAdministratorRemains, Administrators, Usable

\* An edit that keeps the token of an account, or clears it together with the
\* memory of its logins, keeps it.
LEMMA EditStep ==
    ASSUME IndInv, NEW u \in AccountIds, NEW a \in Account,
           account' = [account EXCEPT ![u] = a],
           \/ a.token = account[u].token /\ latest' = latest
           \/ a.token = 0 /\ latest' = [latest EXCEPT ![u] = 0],
           \/ ~LastAdministrator(u)
           \/ /\ a.exists = account[u].exists /\ a.active = account[u].active
              /\ a.archived = account[u].archived /\ a.role = account[u].role
           \/ /\ a.exists = account[u].exists /\ a.active = account[u].active
              /\ a.archived = account[u].archived /\ a.role = "administrator",
           NEW t \in Terminals, cookie[t] \in Cookie,
           cookie' = [cookie EXCEPT ![t] = Refreshed(@)],
           Request, UNCHANGED <<authors, reply, clock, logins, ended>>
    PROVE  IndInv'
<1> USE StaffAssumption, LimitsAssumption
<1>1. Shape /\ TokenIsNewest
  BY DEF IndInv
<1>2. Shape'
  <2>1. account' \in [AccountIds -> Account]
    BY <1>1 DEF Shape
  <2>2. latest' \in [AccountIds -> Tokens \cup {0}]
    BY <1>1 DEF Shape
  <2>3. Refreshed(cookie[t]) \in Cookie
    BY <1>1 DEF Shape, Refreshed, Cookie
  <2>4. cookie' \in [Terminals -> Cookie \cup {NoCookie}]
    BY <1>1, <2>3 DEF Shape
  <2>5. requests' \in 0..MaxRequests
    BY <1>1 DEF Request, Shape
  <2> QED
    BY <1>1, <2>1, <2>2, <2>4, <2>5 DEF Shape
<1>3. TokenIsNewest'
  <2> SUFFICES ASSUME NEW v \in AccountIds
               PROVE  /\ latest'[v] <= logins'
                      /\ account'[v].token # 0 => account'[v].token = latest'[v]
                      /\ account'[v].token = 0 => latest'[v] = 0 \/ latest'[v] \in ended'
    BY DEF TokenIsNewest
  <2>1. CASE v # u
    <3>1. account'[v] = account[v] /\ latest'[v] = latest[v]
      BY <1>1, <2>1 DEF Shape
    <3> QED
      BY <1>1, <3>1 DEF TokenIsNewest
  <2>2. CASE v = u /\ a.token = account[u].token /\ latest' = latest
    <3>1. account'[v] = a
      BY <1>1, <2>2 DEF Shape
    <3> QED
      BY <1>1, <2>2, <3>1 DEF TokenIsNewest
  <2>3. CASE v = u /\ a.token = 0 /\ latest' = [latest EXCEPT ![u] = 0]
    <3>1. account'[v] = a /\ latest'[v] = 0 /\ 0 <= logins
      BY <1>1, <2>3 DEF Shape
    <3> QED
      BY <2>3, <3>1
  <2> QED
    BY <2>1, <2>2, <2>3
<1> QED
  BY <1>2, <1>3, EditLeavesOne DEF IndInv

-----------------------------------------------------------------------------
\* A failed login is remembered and nothing else.
LEMMA LoginFailsStep ==
    ASSUME IndInv, NEW t \in Terminals, NEW u \in AccountIds, LoginFails(t, u)
    PROVE  IndInv'
<1>1. requests' \in 0..MaxRequests
  BY LimitsAssumption DEF LoginFails, Request, IndInv, Shape
<1>2. Shape'
  BY <1>1 DEF LoginFails, IndInv, Shape
<1> QED
  BY <1>2, AccountsAlone DEF LoginFails

\* Answers on their way, and back in the browser, are cookies.
LEMMA AnswerStep ==
    ASSUME IndInv, NEW t \in Terminals, Poll(t) \/ Receive(t)
    PROVE  IndInv'
<1>1. Shape
  BY DEF IndInv
<1>2. CASE Poll(t)
  <2>1. cookie[t] \in Cookie
    BY <1>1, <1>2 DEF Poll, Shape
  <2>2. Answer(t) \in Cookie \cup {NoCookie}
    BY <1>1, <2>1 DEF Answer, Refreshed, Cookie, Shape
  <2>3. Shape'
    BY <1>1, <1>2, <2>2 DEF Poll, Shape
  <2> QED
    BY <1>2, <2>3, AccountsAlone DEF Poll
<1>3. CASE Receive(t)
  <2>1. Shape'
    BY <1>1, <1>3 DEF Receive, Shape
  <2> QED
    BY <1>3, <2>1, AccountsAlone DEF Receive
<1> QED
  BY <1>2, <1>3

\* The cookie of an admitted session is one.
LEMMA AdmittedCookie ==
    ASSUME IndInv, NEW t \in Terminals, Admitted(t)
    PROVE  cookie[t] \in Cookie /\ cookie[t].user \in AccountIds
<1>1. cookie[t] \in Cookie
  BY DEF Admitted, Admits, IndInv, Shape
<1> QED
  BY <1>1 DEF Cookie

\* A new password takes the mark off the account.
LEMMA PasswordStep ==
    ASSUME IndInv, NEW t \in Terminals, ChangePassword(t)
    PROVE  IndInv'
<1> DEFINE u == cookie[t].user
           a == [account[u] EXCEPT !.mustChange = FALSE]
<1>1. cookie[t] \in Cookie /\ u \in AccountIds
  BY AdmittedCookie DEF ChangePassword
<1>2. account[u] \in Account
  BY <1>1 DEF IndInv, Shape
<1>3. a \in Account /\ a.token = account[u].token /\ a.exists = account[u].exists
        /\ a.active = account[u].active /\ a.archived = account[u].archived
        /\ a.role = account[u].role
  BY <1>2 DEF Account
<1>4. account' = [account EXCEPT ![u] = a]
  BY <1>1 DEF ChangePassword, IndInv, Shape
<1> HIDE DEF u, a
<1> QED
  BY <1>1, <1>3, <1>4, EditStep DEF ChangePassword

\* The id of a new account is free, so nobody's place is taken.
LEMMA CreateStep ==
    ASSUME IndInv, NEW t \in Terminals, NEW role \in Roles, CreateAccount(t, role)
    PROVE  IndInv'
<1> USE StaffAssumption
<1> DEFINE a == [exists |-> TRUE, role |-> role, active |-> TRUE, archived |-> FALSE,
                 mustChange |-> TRUE, token |-> 0]
<1>1. PICK n \in AccountIds :
        /\ Administers(t) /\ NextId(n)
        /\ Request
        /\ account' = [account EXCEPT ![n] = a]
        /\ cookie' = [cookie EXCEPT ![t] = Refreshed(@)]
        /\ latest' = [latest EXCEPT ![n] = 0]
        /\ UNCHANGED <<authors, reply, failed, wrong, clock, logins, ended>>
  BY DEF CreateAccount
<1>2. a \in Account /\ a.token = 0
  BY DEF Account
<1>3. ~account[n].exists
  BY <1>1 DEF NextId, AccountIds
<1>4. n \notin Administrators
  BY <1>3 DEF Administrators, Usable
<1>5. ~LastAdministrator(n)
  BY <1>4 DEF LastAdministrator
<1>6. cookie[t] \in Cookie
  BY <1>1, AdmittedCookie DEF Administers, Acting
<1> HIDE DEF a
<1> QED
  BY <1>1, <1>2, <1>5, <1>6, EditStep

\* The other edits of the user list.
LEMMA ManageStep ==
    ASSUME IndInv, NEW t \in Terminals, Manage(t)
    PROVE  IndInv'
<1>1. ASSUME NEW u \in AccountIds, NEW a, Edited(t, u, a)
      PROVE  /\ cookie[t] \in Cookie
             /\ account[u] \in Account
             /\ account' = [account EXCEPT ![u] = a]
             /\ cookie' = [cookie EXCEPT ![t] = Refreshed(@)]
             /\ Request
             /\ UNCHANGED <<authors, reply, clock, logins, ended>>
  BY <1>1, AdmittedCookie DEF Edited, Administers, Acting, IndInv, Shape
<1>2. ASSUME NEW u \in AccountIds, NEW role \in Roles, ChangeRole(t, u, role) PROVE IndInv'
  <2> DEFINE a == [account[u] EXCEPT !.role = role]
  <2>1. Edited(t, u, a) /\ latest' = latest
    BY <1>2 DEF ChangeRole
  <2>2. account[u] \in Account
    BY <1>1, <2>1
  <2>3. a \in Account /\ a.token = account[u].token /\ a.exists = account[u].exists
          /\ a.active = account[u].active /\ a.archived = account[u].archived
          /\ a.role = role
    BY <2>2 DEF Account
  <2>4. role = "administrator" \/ ~LastAdministrator(u)
    BY <1>2 DEF ChangeRole
  <2> HIDE DEF a
  <2> QED
    BY <1>1, <2>1, <2>3, <2>4, EditStep
<1>3. ASSUME NEW u \in AccountIds, DeleteAccount(t, u) PROVE IndInv'
  <2>1. NoAccount \in Account /\ NoAccount.token = 0
    BY DEF NoAccount, Account, Roles
  <2> QED
    BY <1>1, <1>3, <2>1, EditStep DEF DeleteAccount
<1>4. ASSUME NEW u \in AccountIds, ArchiveAccount(t, u) PROVE IndInv'
  <2> DEFINE a == [account[u] EXCEPT !.archived = TRUE, !.active = FALSE]
  <2>1. Edited(t, u, a) /\ latest' = latest /\ ~LastAdministrator(u)
    BY <1>4 DEF ArchiveAccount
  <2>2. a \in Account /\ a.token = account[u].token
    BY <1>1, <2>1 DEF Account
  <2> HIDE DEF a
  <2> QED
    BY <1>1, <2>1, <2>2, EditStep
<1>5. ASSUME NEW u \in AccountIds, RestoreAccount(t, u) PROVE IndInv'
  <2> DEFINE a == [account[u] EXCEPT !.archived = FALSE]
  <2>1. Edited(t, u, a) /\ latest' = latest
    BY <1>5 DEF RestoreAccount
  <2>2. a \in Account /\ a.token = account[u].token
    BY <1>1, <2>1 DEF Account
  <2>3. \/ ~LastAdministrator(u)
        \/ /\ a.exists = account[u].exists /\ a.active = account[u].active
           /\ a.archived = account[u].archived /\ a.role = account[u].role
    <3>1. CASE account[u].archived
      <4>1. u \notin Administrators
        BY <3>1 DEF Administrators, Usable
      <4> QED
        BY <4>1 DEF LastAdministrator
    <3>2. CASE ~account[u].archived
      BY <1>1, <2>1, <3>2 DEF Account
    <3> QED
      BY <3>1, <3>2
  <2> HIDE DEF a
  <2> QED
    BY <1>1, <2>1, <2>2, <2>3, EditStep
<1>6. ASSUME NEW u \in AccountIds, ToggleActive(t, u) PROVE IndInv'
  <2> DEFINE a == [account[u] EXCEPT !.active = ~@]
  <2>1. Edited(t, u, a) /\ latest' = latest
    BY <1>6 DEF ToggleActive
  <2>2. a \in Account /\ a.token = account[u].token
    BY <1>1, <2>1 DEF Account
  <2>3. ~LastAdministrator(u)
    <3>1. CASE account[u].active
      BY <1>6, <3>1 DEF ToggleActive
    <3>2. CASE ~account[u].active
      <4>1. u \notin Administrators
        BY <3>2 DEF Administrators, Usable
      <4> QED
        BY <4>1 DEF LastAdministrator
    <3> QED
      BY <3>1, <3>2
  <2> HIDE DEF a
  <2> QED
    BY <1>1, <2>1, <2>2, <2>3, EditStep
<1>7. ASSUME NEW u \in AccountIds, ResetPassword(t, u) PROVE IndInv'
  <2> DEFINE a == [account[u] EXCEPT !.mustChange = TRUE]
  <2>1. Edited(t, u, a) /\ latest' = latest
    BY <1>7 DEF ResetPassword
  <2>2. a \in Account /\ a.token = account[u].token /\ a.exists = account[u].exists
          /\ a.active = account[u].active /\ a.archived = account[u].archived
          /\ a.role = account[u].role
    BY <1>1, <2>1 DEF Account
  <2> HIDE DEF a
  <2> QED
    BY <1>1, <2>1, <2>2, EditStep
<1> QED
  BY <1>2, <1>3, <1>4, <1>5, <1>6, <1>7, CreateStep DEF Manage

\* Time passes; the server stops and starts again.
LEMMA WorldStep ==
    ASSUME IndInv, Tick \/ Restart
    PROVE  IndInv'
<1> USE LimitsAssumption
<1>1. CASE Tick
  <2>1. Shape'
    BY <1>1 DEF Tick, IndInv, Shape
  <2> QED
    BY <1>1, <2>1, AccountsAlone DEF Tick
<1>2. CASE Restart
  <2>1. requests' \in 0..MaxRequests
    BY <1>2 DEF Restart, Request, IndInv, Shape
  <2>2. Shape'
    BY <1>2, <2>1 DEF Restart, IndInv, Shape
  <2> QED
    BY <1>2, <2>2, AccountsAlone DEF Restart
<1> QED
  BY <1>1, <1>2

\* Every step keeps the invariant.
LEMMA Inductive == IndInv /\ [Next]_vars => IndInv'
<1> SUFFICES ASSUME IndInv, [Next]_vars PROVE IndInv'
  OBVIOUS
<1>1. ASSUME NEW t \in Terminals, SignIn(t) \/ Manage(t) \/ Poll(t) \/ Receive(t)
      PROVE  IndInv'
  <2>1. CASE SignIn(t)
    BY <2>1, LoginStep, LoginFailsStep, LogoutStep, PasswordStep DEF SignIn
  <2> QED
    BY <1>1, <2>1, ManageStep, AnswerStep
<1>2. CASE UNCHANGED vars
  BY <1>2 DEF vars, IndInv, Shape, TokenIsNewest, AnAdministratorRemains, Administrators, Usable
<1> QED
  BY <1>1, <1>2, WorldStep DEF Next

-----------------------------------------------------------------------------
\* The invariant holds whatever the requests, answers and restarts.
THEOREM Invariance == Spec => []IndInv
<1> QED
  BY InitIndInv, Inductive, PTL DEF Spec

\* No sequence of edits by administrators, on themselves and on each other,
\* leaves the installation without one that can log in.
THEOREM OneRemains == Spec => []AnAdministratorRemains
<1>1. IndInv => AnAdministratorRemains
  BY DEF IndInv
<1> QED
  BY <1>1, Invariance, PTL

\* A session that a newer login has replaced stays out until that login is
\* logged out.
THEOREM ReplacedStayOut == Spec => []OldSessionsStayOut
<1>1. ASSUME IndInv, NEW t \in Terminals, Admitted(t),
             latest[cookie[t].user] # 0, cookie[t].token # latest[cookie[t].user]
      PROVE  latest[cookie[t].user] \in ended
  <2>1. cookie[t].user \in AccountIds
    BY <1>1, AdmittedCookie
  <2>2. ~Displaced(cookie[t])
    BY <1>1 DEF Admitted, Admits
  <2>3. account[cookie[t].user].token = 0
    BY <1>1, <2>1, <2>2 DEF Displaced, IndInv, TokenIsNewest
  <2> QED
    BY <1>1, <2>1, <2>3 DEF IndInv, TokenIsNewest
<1>2. IndInv => OldSessionsStayOut
  BY <1>1 DEF OldSessionsStayOut
<1> QED
  BY <1>2, Invariance, PTL

\* Only a login gives an account a token it did not have.
LEMMA TokenFromLogin ==
    ASSUME IndInv, [Next]_vars, NEW u \in AccountIds, account'[u].token # 0,
           account'[u].token # account[u].token
    PROVE  latest'[u] # latest[u]
<1>1. Shape
  BY DEF IndInv
<1>2. ASSUME NEW t \in Terminals, NEW v \in AccountIds, NEW remember \in BOOLEAN,
             Login(t, v, remember)
      PROVE  latest'[u] # latest[u]
  <2>1. account' = [account EXCEPT ![v].token = logins'] /\ latest' = [latest EXCEPT ![v] = logins']
          /\ logins' = logins + 1
    BY <1>2 DEF Login
  <2>2. u = v
    BY <1>1, <2>1 DEF Shape
  <2>3. latest[u] <= logins
    BY DEF IndInv, TokenIsNewest
  <2>4. latest[u] \in Nat /\ logins \in Nat
    BY <1>1 DEF Shape, Tokens
  <2> QED
    BY <1>1, <2>1, <2>2, <2>3, <2>4 DEF Shape
<1>3. ASSUME NEW t \in Terminals, Logout(t) PROVE FALSE
  <2>1. \/ account' = [account EXCEPT ![cookie[t].user].token = 0]
        \/ account' = account
    BY <1>3 DEF Logout
  <2>2. account' = [account EXCEPT ![cookie[t].user].token = 0]
    BY <2>1
  <2>3. account[u] \in Account
    BY <1>1 DEF Shape
  <2>4. CASE u = cookie[t].user
    BY <1>1, <2>2, <2>3, <2>4 DEF Shape, Account
  <2>5. CASE u # cookie[t].user
    BY <1>1, <2>2, <2>5 DEF Shape
  <2> QED
    BY <2>4, <2>5
<1>4. ASSUME NEW t \in Terminals, ChangePassword(t) PROVE FALSE
  <2>1. account' = [account EXCEPT ![cookie[t].user].mustChange = FALSE]
    BY <1>4 DEF ChangePassword
  <2>2. account[u] \in Account
    BY <1>1 DEF Shape
  <2> QED
    BY <1>1, <2>1, <2>2 DEF Shape, Account
<1>5. ASSUME NEW t \in Terminals, Manage(t) PROVE FALSE
  <2>1. ASSUME NEW v \in AccountIds, NEW a, Edited(t, v, a), a.token \in {0, account[v].token}
        PROVE  FALSE
    BY <1>1, <2>1 DEF Edited, Shape
  <2>2. ASSUME NEW role \in Roles, CreateAccount(t, role) PROVE FALSE
    BY <1>1, <2>2 DEF CreateAccount, Shape
  <2>3. ASSUME NEW v \in AccountIds
        PROVE  /\ \A role \in Roles : [account[v] EXCEPT !.role = role].token = account[v].token
               /\ [account[v] EXCEPT !.archived = TRUE, !.active = FALSE].token = account[v].token
               /\ [account[v] EXCEPT !.archived = FALSE].token = account[v].token
               /\ [account[v] EXCEPT !.active = ~@].token = account[v].token
               /\ [account[v] EXCEPT !.mustChange = TRUE].token = account[v].token
    <3>1. account[v] \in Account
      BY <1>1 DEF Shape
    <3> QED
      BY <3>1 DEF Account
  <2>4. NoAccount.token = 0
    BY DEF NoAccount
  <2>5. ASSUME NEW v \in AccountIds, NEW role \in Roles, ChangeRole(t, v, role) PROVE FALSE
    BY <2>1, <2>3, <2>5 DEF ChangeRole
  <2>6. ASSUME NEW v \in AccountIds,
               \/ DeleteAccount(t, v) \/ ArchiveAccount(t, v) \/ RestoreAccount(t, v)
               \/ ToggleActive(t, v) \/ ResetPassword(t, v)
        PROVE  FALSE
    BY <2>1, <2>3, <2>4, <2>6
       DEF DeleteAccount, ArchiveAccount, RestoreAccount, ToggleActive, ResetPassword
  <2> QED
    BY <1>5, <2>2, <2>5, <2>6 DEF Manage
<1>6. ASSUME account' = account PROVE FALSE
  BY <1>6
<1>7. ASSUME NEW t \in Terminals, SignIn(t) \/ Manage(t) \/ Poll(t) \/ Receive(t)
      PROVE  latest'[u] # latest[u]
  BY <1>2, <1>3, <1>4, <1>5, <1>6, <1>7 DEF SignIn, LoginFails, Poll, Receive
<1> QED
  BY <1>6, <1>7 DEF Next, Tick, Restart, vars

\* A session is refused only after a newer login, because the account may not
\* log in, or because time has passed.
THEOREM SessionsAreKept == Spec => KeptUnlessEnded
<1> DEFINE Kept ==
      \A t \in Terminals :
         LET u == cookie[t].user
         IN  Admitted(t) /\ cookie'[t] = cookie[t] /\ clock' = clock /\ ~Admitted(t)'
               => latest'[u] # latest[u] \/ ~Usable(u)'
<1>1. ASSUME IndInv, [Next]_vars, NEW t \in Terminals, Admitted(t),
             cookie'[t] = cookie[t], clock' = clock, ~Admitted(t)',
             Usable(cookie[t].user)'
      PROVE  latest'[cookie[t].user] # latest[cookie[t].user]
  <2>1. cookie[t] \in Cookie /\ cookie[t].user \in AccountIds
    BY <1>1, AdmittedCookie
  <2>2. cookie[t] # NoCookie /\ ~Expired(cookie[t]) /\ ~Displaced(cookie[t])
    BY <1>1 DEF Admitted, Admits
  <2>3. Displaced(cookie[t])'
    BY <1>1, <2>2 DEF Admitted, Admits, Expired
  <2>4. account'[cookie[t].user].token # 0
          /\ account'[cookie[t].user].token # account[cookie[t].user].token
    BY <1>1, <2>2, <2>3 DEF Displaced
  <2> QED
    BY <1>1, <2>1, <2>4, TokenFromLogin
<1>2. IndInv /\ [Next]_vars => Kept
  BY <1>1
<1>3. IndInv /\ [Next]_vars => [Kept]_vars
  BY <1>2
<1>4. KeptUnlessEnded <=> [][Kept]_vars
  BY DEF KeptUnlessEnded
<1> HIDE DEF Kept
<1> QED
  BY <1>3, <1>4, Invariance, PTL DEF Spec

-----------------------------------------------------------------------------
Failures == [at : 0..MaxClock, no : Nat]

FailedType == {failed, wrong} \subseteq [AccountIds -> [Terminals -> SUBSET Failures]]

\* What counts for the lock is just what the history says was checked within the
\* last Lockout, and no window of the history has more than MaxAttempts.
Remembers(u, t) ==
    /\ IsFiniteSet(failed[u][t]) /\ IsFiniteSet(wrong[u][t])
    /\ \A f \in wrong[u][t] : f.at <= clock
    /\ Recent(u, t) = {f \in wrong[u][t] : clock - f.at < Lockout}
    /\ \A from \in 0..MaxClock : Cardinality(WrongIn(u, t, from)) <= MaxAttempts

Throttled ==
    /\ FailedType
    /\ \A u \in AccountIds, t \in Terminals : Remembers(u, t)

\* Nothing is remembered of an account that was just logged in to, nor by a
\* server that has just started.
ForgottenIsFine ==
    \A u \in AccountIds, t \in Terminals :
        failed[u][t] = {} /\ wrong[u][t] = {} => Remembers(u, t)

LEMMA NothingRemembered == ForgottenIsFine
<1> SUFFICES ASSUME NEW u \in AccountIds, NEW t \in Terminals,
                    failed[u][t] = {}, wrong[u][t] = {}
             PROVE  Remembers(u, t)
  BY DEF ForgottenIsFine
<1>1. ASSUME NEW from \in 0..MaxClock PROVE Cardinality(WrongIn(u, t, from)) <= MaxAttempts
  <2>1. WrongIn(u, t, from) = {}
    BY DEF WrongIn
  <2> QED
    BY <2>1, FS_EmptySet, LimitsAssumption
<1>2. Recent(u, t) = {f \in wrong[u][t] : clock - f.at < Lockout}
  BY DEF Recent
<1> QED
  BY <1>1, <1>2, FS_EmptySet DEF Remembers

\* A pair whose failures stay, at the same time.
LEMMA RememberedAlone ==
    ASSUME NEW u \in AccountIds, NEW t \in Terminals, Remembers(u, t), clock' = clock,
           failed'[u][t] = failed[u][t], wrong'[u][t] = wrong[u][t]
    PROVE  Remembers(u, t)'
<1>1. \A from : WrongIn(u, t, from)' = WrongIn(u, t, from)
  BY DEF WrongIn
<1>2. Recent(u, t)' = Recent(u, t)
  BY DEF Recent
<1> QED
  BY <1>1, <1>2 DEF Remembers

\* A failure that was let through adds one to less than the limit, in every window
\* it falls in: such a window has nothing older than what counts.
LEMMA WindowHolds ==
    ASSUME Shape, FailedType, NEW t \in Terminals, NEW u \in AccountIds, Remembers(u, t),
           ~Locked(u, t), NEW f \in Failures, f.at = clock, clock' = clock,
           wrong'[u][t] = wrong[u][t] \cup {f}, NEW from \in 0..MaxClock
    PROVE  Cardinality(WrongIn(u, t, from)') <= MaxAttempts
<1> DEFINE R == Recent(u, t)
           W == WrongIn(u, t, from)
           X == WrongIn(u, t, from)'
<1> USE LimitsAssumption
<1>1. X = {g \in wrong[u][t] \cup {f} : g.at - from \in 0..(Lockout - 1)}
  BY DEF WrongIn
<1>2. IsFiniteSet(R) /\ Cardinality(R) \in Nat
  <2>1. R \subseteq failed[u][t]
    BY DEF Recent
  <2> HIDE DEF R
  <2> QED
    BY <2>1, FS_Subset, FS_CardinalityType DEF Remembers
<1>3. Cardinality(R) < MaxAttempts
  BY <1>2 DEF Locked
<1>4. CASE clock - from \in 0..(Lockout - 1)
  <2>1. ASSUME NEW g \in X PROVE g \in R \cup {f}
    <3>1. CASE g = f
      BY <3>1
    <3>2. CASE g # f
      <4>1. g \in wrong[u][t] /\ g.at - from \in 0..(Lockout - 1)
        BY <1>1, <3>2
      <4>2. g.at \in Nat
        BY <4>1 DEF FailedType, Failures
      <4>3. clock \in Nat /\ from \in Nat
        BY DEF Shape
      <4>4. clock - g.at < Lockout
        BY <1>4, <4>1, <4>2, <4>3
      <4> QED
        BY <4>1, <4>4 DEF Remembers
    <3> QED
      BY <3>1, <3>2
  <2> HIDE DEF R, X
  <2>2. IsFiniteSet(R \cup {f}) /\ Cardinality(R \cup {f}) <= Cardinality(R) + 1
          /\ Cardinality(R \cup {f}) \in Nat
    <3>1. /\ IsFiniteSet(R \cup {f})
          /\ \/ Cardinality(R \cup {f}) = Cardinality(R)
             \/ Cardinality(R \cup {f}) = Cardinality(R) + 1
      BY <1>2, FS_AddElement
    <3>2. Cardinality(R \cup {f}) \in Nat
      BY <3>1, FS_CardinalityType
    <3> QED
      BY <1>2, <3>1, <3>2
  <2>3. X \subseteq R \cup {f}
    BY <2>1
  <2>4. Cardinality(X) <= Cardinality(R \cup {f}) /\ Cardinality(X) \in Nat
    BY <2>2, <2>3, FS_Subset, FS_CardinalityType
  <2>5. Cardinality(X) <= MaxAttempts
    BY <1>2, <1>3, <2>2, <2>4
  <2> QED
    BY <2>5 DEF X
<1>5. CASE clock - from \notin 0..(Lockout - 1)
  <2>1. X = W
    BY <1>1, <1>5 DEF WrongIn
  <2>2. Cardinality(W) <= MaxAttempts
    BY DEF Remembers
  <2> QED
    BY <2>1, <2>2
<1> QED
  BY <1>4, <1>5

\* A failed login that was let through keeps the throttle.
LEMMA FailureCounted ==
    ASSUME Shape, Throttled, NEW t \in Terminals, NEW u \in AccountIds, LoginFails(t, u)
    PROVE  Throttled'
<1> DEFINE R == Recent(u, t)
           f == Failure(u, t)
<1> USE LimitsAssumption
<1>1. /\ failed' = [failed EXCEPT ![u][t] = R \cup {f}]
      /\ wrong' = [wrong EXCEPT ![u][t] = wrong[u][t] \cup {f}]
      /\ clock' = clock /\ ~Locked(u, t)
  BY DEF LoginFails
<1>2. FailedType /\ Remembers(u, t)
  BY DEF Throttled
<1>3. f \in Failures /\ f.at = clock
  <2> DEFINE S == {g \in failed[u][t] : g.at = clock}
  <2>1. IsFiniteSet(S)
    <3>1. S \subseteq failed[u][t]
      OBVIOUS
    <3> HIDE DEF S
    <3> QED
      BY <1>2, <3>1, FS_Subset DEF Remembers
  <2>2. Cardinality(S) \in Nat
    <3> HIDE DEF S
    <3> QED
      BY <2>1, FS_CardinalityType
  <2> QED
    BY <2>2 DEF Failure, Shape, Failures
<1>4. R \subseteq failed[u][t] /\ R \subseteq Failures /\ wrong[u][t] \subseteq Failures
  BY <1>2 DEF Recent, FailedType
<1> HIDE DEF f
<1>5. FailedType'
  <2> HIDE DEF R
  <2>1. failed' \in [AccountIds -> [Terminals -> SUBSET Failures]]
    BY <1>1, <1>2, <1>3, <1>4 DEF FailedType
  <2>2. wrong' \in [AccountIds -> [Terminals -> SUBSET Failures]]
    BY <1>1, <1>2, <1>3, <1>4 DEF FailedType
  <2> QED
    BY <2>1, <2>2 DEF FailedType
<1>6. Remembers(u, t)'
  <2>1. failed'[u][t] = R \cup {f} /\ wrong'[u][t] = wrong[u][t] \cup {f}
    <3> HIDE DEF R
    <3> QED
      BY <1>1, <1>2 DEF FailedType
  <2>2. IsFiniteSet(R)
    <3> HIDE DEF R
    <3> QED
      BY <1>2, <1>4, FS_Subset DEF Remembers
  <2>3. IsFiniteSet(R \cup {f}) /\ IsFiniteSet(wrong[u][t] \cup {f})
    <3> HIDE DEF R
    <3> QED
      BY <1>2, <2>2, FS_AddElement DEF Remembers
  <2>4. \A g \in wrong'[u][t] : g.at <= clock'
    BY <1>1, <1>2, <1>3, <2>1 DEF Remembers, Shape
  <2>5. Recent(u, t)' = {g \in wrong'[u][t] : clock' - g.at < Lockout}
    <3>1. R = {g \in wrong[u][t] : clock - g.at < Lockout}
      BY <1>2 DEF Remembers
    <3> HIDE DEF R
    <3> QED
      BY <1>1, <2>1, <3>1 DEF Recent
  <2>6. \A from \in 0..MaxClock : Cardinality(WrongIn(u, t, from)') <= MaxAttempts
    BY <1>1, <1>2, <1>3, <2>1, WindowHolds
  <2> QED
    BY <2>1, <2>3, <2>4, <2>5, <2>6 DEF Remembers
<1>7. ASSUME NEW v \in AccountIds, NEW s \in Terminals, ~(v = u /\ s = t)
      PROVE  Remembers(v, s)'
  <2>1. failed'[v][s] = failed[v][s] /\ wrong'[v][s] = wrong[v][s]
    <3> HIDE DEF R
    <3> QED
      BY <1>1, <1>2, <1>7 DEF FailedType
  <2> QED
    BY <1>1, <2>1, RememberedAlone DEF Throttled
<1> QED
  BY <1>5, <1>6, <1>7 DEF Throttled

\* With time, what counts only gets less, in the memory as in the history.
LEMMA TimeForgets ==
    ASSUME Shape, Throttled, Tick
    PROVE  Throttled'
<1>1. failed' = failed /\ wrong' = wrong /\ clock' = clock + 1
  BY DEF Tick
<1>2. FailedType'
  BY <1>1 DEF Throttled, FailedType
<1>3. ASSUME NEW v \in AccountIds, NEW s \in Terminals
      PROVE  Remembers(v, s)'
  <2>1. Remembers(v, s)
    BY DEF Throttled
  <2>2. clock \in Nat /\ Lockout \in Nat
    BY LimitsAssumption DEF Shape
  <2>3. \A f \in failed[v][s] \cup wrong[v][s] : f.at \in Nat
    BY DEF Throttled, FailedType, Failures
  <2>4. \A f \in wrong'[v][s] : f.at <= clock'
    BY <1>1, <2>1, <2>2, <2>3 DEF Remembers
  <2>5. Recent(v, s)' = {f \in wrong'[v][s] : clock' - f.at < Lockout}
    <3>1. \A f \in failed[v][s] \cup wrong[v][s] :
             clock' - f.at < Lockout => clock - f.at < Lockout
      BY <1>1, <2>2, <2>3
    <3>2. {f \in failed[v][s] : clock - f.at < Lockout} =
             {f \in wrong[v][s] : clock - f.at < Lockout}
      BY <2>1 DEF Remembers, Recent
    <3>3. Recent(v, s)' = {f \in failed[v][s] : clock' - f.at < Lockout}
      BY <1>1 DEF Recent
    <3>4. \A f : (f \in failed[v][s] /\ clock' - f.at < Lockout) <=>
                 (f \in wrong[v][s] /\ clock' - f.at < Lockout)
      BY <3>1, <3>2
    <3> QED
      BY <1>1, <3>3, <3>4
  <2>6. \A from : WrongIn(v, s, from)' = WrongIn(v, s, from)
    BY <1>1 DEF WrongIn
  <2> QED
    BY <1>1, <2>1, <2>4, <2>5, <2>6 DEF Remembers
<1> QED
  BY <1>2, <1>3 DEF Throttled

\* A login forgets the failures of its own account and address.
LEMMA LoginForgets ==
    ASSUME Throttled, NEW t \in Terminals, NEW u \in AccountIds, NEW remember \in BOOLEAN,
           Login(t, u, remember)
    PROVE  Throttled'
<1>1. /\ failed' = [failed EXCEPT ![u][t] = {}] /\ wrong' = [wrong EXCEPT ![u][t] = {}]
      /\ clock' = clock
  BY DEF Login
<1>2. FailedType'
  BY <1>1 DEF Throttled, FailedType
<1>3. ASSUME NEW v \in AccountIds, NEW s \in Terminals
      PROVE  Remembers(v, s)'
  <2>1. CASE v = u /\ s = t
    <3>1. failed'[v][s] = {} /\ wrong'[v][s] = {}
      BY <1>1, <2>1 DEF Throttled, FailedType
    <3>2. ForgottenIsFine'
      BY NothingRemembered, PTL
    <3> QED
      BY <3>1, <3>2 DEF ForgottenIsFine
  <2>2. CASE ~(v = u /\ s = t)
    <3>1. failed'[v][s] = failed[v][s] /\ wrong'[v][s] = wrong[v][s]
      BY <1>1, <2>2 DEF Throttled, FailedType
    <3> QED
      BY <1>1, <3>1, RememberedAlone DEF Throttled
  <2> QED
    BY <2>1, <2>2
<1> QED
  BY <1>2, <1>3 DEF Throttled

\* The server starts with nothing remembered, the first time and every time.
LEMMA NoneThrottled ==
    (failed = [u \in AccountIds |-> [t \in Terminals |-> {}]] /\ wrong = failed) => Throttled
<1> SUFFICES ASSUME failed = [u \in AccountIds |-> [t \in Terminals |-> {}]], wrong = failed
             PROVE  Throttled
  OBVIOUS
<1>1. FailedType
  BY DEF FailedType
<1>2. ASSUME NEW u \in AccountIds, NEW t \in Terminals
      PROVE  failed[u][t] = {} /\ wrong[u][t] = {}
  OBVIOUS
<1> QED
  BY <1>1, <1>2, NothingRemembered DEF Throttled, ForgottenIsFine

\* A step that leaves the memory and the clock alone leaves the throttle alone.
LEMMA ThrottleAlone ==
    ASSUME Throttled, UNCHANGED <<failed, wrong, clock>>
    PROVE  Throttled'
<1>1. FailedType'
  BY DEF Throttled, FailedType
<1>2. ASSUME NEW v \in AccountIds, NEW s \in Terminals PROVE Remembers(v, s)'
  BY RememberedAlone DEF Throttled
<1> QED
  BY <1>1, <1>2 DEF Throttled

\* Every step keeps the throttle.
LEMMA ThrottleInductive == Shape /\ Throttled /\ [Next]_vars => Throttled'
<1> SUFFICES ASSUME Shape, Throttled, [Next]_vars PROVE Throttled'
  OBVIOUS
<1>1. ASSUME NEW t \in Terminals, SignIn(t) PROVE Throttled'
  BY <1>1, LoginForgets, FailureCounted, ThrottleAlone DEF SignIn, Logout, ChangePassword
<1>2. ASSUME NEW t \in Terminals, Manage(t) PROVE Throttled'
  <2>1. UNCHANGED <<failed, wrong, clock>>
    BY <1>2 DEF Manage, CreateAccount, ChangeRole, DeleteAccount, ArchiveAccount,
                RestoreAccount, ToggleActive, ResetPassword, Edited
  <2> QED
    BY <2>1, ThrottleAlone
<1>3. ASSUME NEW t \in Terminals, Poll(t) \/ Receive(t) PROVE Throttled'
  BY <1>3, ThrottleAlone DEF Poll, Receive
<1>4. CASE Restart
  <2>1. failed' = [u \in AccountIds |-> [t \in Terminals |-> {}]] /\ wrong' = failed'
    BY <1>4 DEF Restart
  <2>2. ((failed = [u \in AccountIds |-> [t \in Terminals |-> {}]] /\ wrong = failed)
            => Throttled)'
    BY NoneThrottled, PTL
  <2> QED
    BY <2>1, <2>2
<1>5. CASE UNCHANGED vars
  BY <1>5, ThrottleAlone DEF vars
<1> QED
  BY <1>1, <1>2, <1>3, <1>4, <1>5, TimeForgets DEF Next

\* The throttle's invariant holds, on top of the accounts' one.
THEOREM ThrottleInvariance == Spec => []Throttled
<1>1. Init => Throttled
  BY NoneThrottled DEF Init
<1>2. IndInv /\ Throttled /\ [Next]_vars => Throttled'
  BY ThrottleInductive DEF IndInv
<1> QED
  BY <1>1, <1>2, Invariance, PTL DEF Spec

\* Between two logins to an account from a terminal, and two restarts, no window of
\* Lockout has more than MaxAttempts wrong passwords of it checked from there,
\* whatever was dropped from memory meanwhile and whatever other terminals do.
THEOREM ThrottleIsKept == Spec => []ThrottleHolds
<1>1. Throttled => ThrottleHolds
  BY DEF Throttled, Remembers, ThrottleHolds
<1> QED
  BY <1>1, ThrottleInvariance, PTL

\* Every variable has its type: no token beyond the logins there were, no
\* cookie of an account that cannot be.
THEOREM TypeCorrect == Spec => []TypeOK
<1>1. IndInv /\ Throttled => TypeOK
  BY DEF IndInv, Shape, Throttled, FailedType, Failures, TypeOK
<1> QED
  BY <1>1, Invariance, ThrottleInvariance, PTL
=============================================================================
