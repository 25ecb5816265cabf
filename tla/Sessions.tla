------------------------------ MODULE Sessions ------------------------------
(***************************************************************************)
(* Accounts, login and sessions (auth.py, deps.py, routers/auth.py,        *)
(* routers/users.py, routers/account.py).                                  *)
(*                                                                         *)
(* A session is a signed cookie the browser keeps; the server keeps only   *)
(* the token of the account's newest login.  Each answer carries the       *)
(* cookie again, so an answer that arrives late brings an old cookie back. *)
(* A handler does not give up the event loop: one request is one step, but *)
(* the answer to a page's poll is received in a later one.                 *)
(*                                                                         *)
(* User names and password texts are left out: a login names an account    *)
(* and either passes or not.  SECRET_KEY is set (config.py:10), so cookies *)
(* outlive a restart.                                                      *)
(***************************************************************************)
EXTENDS Integers, Sequences, FiniteSets

CONSTANTS
    Terminals,      \* browsers, each with its own address and cookie
    Staff,          \* the roles of the accounts at the start, by id
    MaxAccounts,    \* bound: account ids
    MaxAge,         \* SESSION_MAX_AGE_DAYS
    IdleTimeout,    \* SESSION_TIMEOUT_MINUTES
    MaxAttempts,    \* LOGIN_MAX_ATTEMPTS
    Lockout,        \* LOGIN_LOCKOUT_SECONDS
    MaxLogins,      \* bound: logins
    MaxRequests,    \* bound: requests other than polls, and restarts
    MaxClock        \* bound: the clock

Roles == {"administrator", "user", "observer"}
AccountIds == 1..MaxAccounts
Tokens == 1..MaxLogins

ASSUME StaffAssumption ==
    /\ MaxAccounts \in Nat \ {0}
    /\ Staff \in Seq(Roles) /\ Len(Staff) \in AccountIds
    /\ Staff[1] = "administrator"

ASSUME LimitsAssumption ==
    /\ MaxAge \in Nat /\ IdleTimeout \in Nat /\ Lockout \in Nat
    /\ MaxAttempts \in Nat \ {0}
    /\ MaxLogins \in Nat /\ MaxRequests \in Nat /\ MaxClock \in Nat

\* token: the one of the newest login, 0 for none.
Account == [exists : BOOLEAN, role : Roles, active : BOOLEAN, archived : BOOLEAN,
            mustChange : BOOLEAN, token : Tokens \cup {0}]
NoAccount == [exists |-> FALSE, role |-> "user", active |-> FALSE, archived |-> FALSE,
              mustChange |-> FALSE, token |-> 0]

Cookie == [user : AccountIds, token : Tokens, remember : BOOLEAN,
           issued : 0..MaxClock, seen : 0..MaxClock]
NoCookie == [user |-> 0, token |-> 0, remember |-> FALSE, issued |-> 0, seen |-> 0]
Nothing == [user |-> -1, token |-> 0, remember |-> FALSE, issued |-> 0, seen |-> 0]

VARIABLES
    account,    \* the users table
    authors,    \* accounts that rows of other tables are attributed to
    cookie,     \* the cookie each terminal holds
    reply,      \* the cookie in an answer on its way to a terminal, or Nothing
    failed,     \* _failed: the failed logins remembered per account and address
    wrong,      \* history: the wrong passwords checked per account and address since
                \* the last login there, or the start of the server
    clock,
    logins,     \* tokens handed out so far
    requests,   \* requests other than polls, and restarts, so far
    latest,     \* history: the token of the newest login to each account
    ended       \* history: the tokens whose holder has logged out

vars == <<account, authors, cookie, reply, failed, wrong, clock, logins, requests, latest,
          ended>>

-----------------------------------------------------------------------------
Usable(u) == account[u].exists /\ account[u].active /\ ~account[u].archived

Expired(c) ==
    \/ clock - c.issued > MaxAge
    \/ ~c.remember /\ clock - c.seen > IdleTimeout

\* An account without a token takes any cookie that names it (deps.py:25).
Displaced(c) == account[c.user].token # 0 /\ account[c.user].token # c.token

Admits(c) == c # NoCookie /\ ~Expired(c) /\ Usable(c.user) /\ ~Displaced(c)
Admitted(t) == Admits(cookie[t])

\* Past the forced change of password as well.
Acting(t) == Admitted(t) /\ ~account[cookie[t].user].mustChange
Administers(t) == Acting(t) /\ account[cookie[t].user].role = "administrator"

Refreshed(c) == [c EXCEPT !.seen = clock]

\* The middleware refuses an observer's writes, a login among them; it looks at
\* the account the cookie names and not at whether the cookie is still good.
ReadOnly(t) ==
    /\ cookie[t] # NoCookie
    /\ LET a == account[cookie[t].user]
       IN  a.exists /\ ~a.archived /\ a.role = "observer"

Recent(u, t) == {f \in failed[u][t] : clock - f.at < Lockout}

\* The list of times has an entry for each failure: those of one moment are
\* told apart by how many there were before.
Failure(u, t) == [at |-> clock, no |-> Cardinality({f \in failed[u][t] : f.at = clock})]

\* Mistake: one attempt too many.
LockedLate(u, t) == Cardinality(Recent(u, t)) > MaxAttempts
Locked(u, t) == Cardinality(Recent(u, t)) >= MaxAttempts

Administrators == {u \in AccountIds : Usable(u) /\ account[u].role = "administrator"}
LastAdministrator(u) == Administrators = {u}

\* SQLite gives the next id after the largest: that of a deleted last row again.
NextId(n) ==
    /\ \A u \in n..MaxAccounts : ~account[u].exists
    /\ n = 1 \/ account[n - 1].exists

-----------------------------------------------------------------------------
Request == requests < MaxRequests /\ requests' = requests + 1

(* Logging in and out.  A login refused for the lock changes nothing here:  *)
(* whatever is locked out has no attempt old enough to be forgotten.        *)

Login(t, u, remember) ==
    /\ ~ReadOnly(t) /\ ~Locked(u, t) /\ Usable(u)
    /\ Request /\ logins < MaxLogins
    /\ logins' = logins + 1
    /\ failed' = [failed EXCEPT ![u][t] = {}]
    /\ wrong' = [wrong EXCEPT ![u][t] = {}]
    /\ account' = [account EXCEPT ![u].token = logins']
    /\ cookie' = [cookie EXCEPT ![t] = [user |-> u, token |-> logins', remember |-> remember,
                                        issued |-> clock, seen |-> clock]]
    /\ latest' = [latest EXCEPT ![u] = logins']
    /\ UNCHANGED <<authors, reply, clock, ended>>

\* Mistake: the token is replaced before the password is checked.
LoginFailsRotating(t, u) ==
    /\ ~ReadOnly(t) /\ ~Locked(u, t)
    /\ Request
    /\ logins < MaxLogins /\ logins' = logins + 1
    /\ account' = IF Usable(u) THEN [account EXCEPT ![u].token = logins'] ELSE account
    /\ failed' = [failed EXCEPT ![u][t] = Recent(u, t) \cup {Failure(u, t)}]
    /\ wrong' = [wrong EXCEPT ![u][t] = @ \cup {Failure(u, t)}]
    /\ UNCHANGED <<authors, cookie, reply, clock, latest, ended>>

\* A wrong password, or an account that may not log in.
LoginFails(t, u) ==
    /\ ~ReadOnly(t) /\ ~Locked(u, t)
    /\ Request
    /\ failed' = [failed EXCEPT ![u][t] = Recent(u, t) \cup {Failure(u, t)}]
    /\ wrong' = [wrong EXCEPT ![u][t] = @ \cup {Failure(u, t)}]
    /\ UNCHANGED <<account, authors, cookie, reply, clock, logins, latest, ended>>

\* Mistake: the account's token is cleared whoever asks.
LogoutAnyones(t) ==
    /\ Request /\ cookie[t] # NoCookie
    /\ account' = [account EXCEPT ![cookie[t].user].token = 0]
    /\ ended' = ended \cup {cookie[t].token}
    /\ cookie' = [cookie EXCEPT ![t] = NoCookie]
    /\ UNCHANGED <<authors, reply, failed, wrong, clock, logins, latest>>

\* Mistake: the user's id is dropped from the cookie and nothing else.
LogoutPops(t) ==
    /\ Request /\ cookie[t] # NoCookie
    /\ account' = [account EXCEPT ![cookie[t].user].token = 0]
    /\ ended' = ended \cup {cookie[t].token}
    /\ cookie' = [cookie EXCEPT ![t].user = 0]
    /\ UNCHANGED <<authors, reply, failed, wrong, clock, logins, latest>>

\* Any cookie will do; only the newest one takes the account's token with it.
Logout(t) ==
    /\ Request /\ cookie[t] # NoCookie
    /\ LET c == cookie[t]
       IN  /\ account' = IF account[c.user].token = c.token
                         THEN [account EXCEPT ![c.user].token = 0] ELSE account
           /\ ended' = ended \cup {c.token}
    /\ cookie' = [cookie EXCEPT ![t] = NoCookie]
    /\ UNCHANGED <<authors, reply, failed, wrong, clock, logins, latest>>

\* What get_current_user sends back: the cookie refreshed, or none.
Answer(t) == IF Admitted(t) THEN Refreshed(cookie[t]) ELSE NoCookie

\* A page, or the timer of an open one, asks; the answer is on its way.
Poll(t) ==
    /\ cookie[t] # NoCookie /\ reply[t] = Nothing
    /\ reply' = [reply EXCEPT ![t] = Answer(t)]
    /\ UNCHANGED <<account, authors, cookie, failed, wrong, clock, logins, requests, latest,
                   ended>>

Receive(t) ==
    /\ reply[t] # Nothing
    /\ cookie' = [cookie EXCEPT ![t] = reply[t]]
    /\ reply' = [reply EXCEPT ![t] = Nothing]
    /\ UNCHANGED <<account, authors, failed, wrong, clock, logins, requests, latest, ended>>

ChangePassword(t) ==
    /\ Request /\ Admitted(t)
    /\ account' = [account EXCEPT ![cookie[t].user].mustChange = FALSE]
    /\ cookie' = [cookie EXCEPT ![t] = Refreshed(@)]
    /\ UNCHANGED <<authors, reply, failed, wrong, clock, logins, latest, ended>>

-----------------------------------------------------------------------------
(* The administrator's user list.                                           *)

Edited(t, u, a) ==
    /\ Administers(t) /\ account[u].exists
    /\ Request
    /\ account' = [account EXCEPT ![u] = a]
    /\ cookie' = [cookie EXCEPT ![t] = Refreshed(@)]
    /\ UNCHANGED <<authors, reply, failed, wrong, clock, logins, ended>>

CreateAccount(t, role) ==
    \E n \in AccountIds :
        /\ Administers(t) /\ NextId(n)
        /\ Request
        /\ account' = [account EXCEPT ![n] =
                         [exists |-> TRUE, role |-> role, active |-> TRUE, archived |-> FALSE,
                          mustChange |-> TRUE, token |-> 0]]
        /\ cookie' = [cookie EXCEPT ![t] = Refreshed(@)]
        /\ latest' = [latest EXCEPT ![n] = 0]
        /\ UNCHANGED <<authors, reply, failed, wrong, clock, logins, ended>>

\* Mistake: no look at who is left.
ChangeRoleUnguarded(t, u, role) ==
    /\ Edited(t, u, [account[u] EXCEPT !.role = role])
    /\ UNCHANGED latest

ChangeRole(t, u, role) ==
    /\ role = "administrator" \/ ~LastAdministrator(u)
    /\ Edited(t, u, [account[u] EXCEPT !.role = role])
    /\ UNCHANGED latest

\* Mistake: attributed rows do not block it.
DeleteUnblocked(t, u) ==
    /\ u # cookie[t].user /\ ~LastAdministrator(u)
    /\ Edited(t, u, NoAccount)
    /\ latest' = [latest EXCEPT ![u] = 0]

\* Refused while rows are attributed to the account.  The id is free again.
DeleteAccount(t, u) ==
    /\ u # cookie[t].user /\ ~LastAdministrator(u)
    /\ u \notin authors
    /\ Edited(t, u, NoAccount)
    /\ latest' = [latest EXCEPT ![u] = 0]

ArchiveAccount(t, u) ==
    /\ u # cookie[t].user /\ ~LastAdministrator(u)
    /\ Edited(t, u, [account[u] EXCEPT !.archived = TRUE, !.active = FALSE])
    /\ UNCHANGED latest

\* The account stays inactive until it is toggled.
RestoreAccount(t, u) ==
    /\ Edited(t, u, [account[u] EXCEPT !.archived = FALSE])
    /\ UNCHANGED latest

ToggleActive(t, u) ==
    /\ u # cookie[t].user
    /\ account[u].active => ~LastAdministrator(u)
    /\ Edited(t, u, [account[u] EXCEPT !.active = ~@])
    /\ UNCHANGED latest

\* The sessions of the account stay; they are held at the password page.
ResetPassword(t, u) ==
    /\ Edited(t, u, [account[u] EXCEPT !.mustChange = TRUE])
    /\ UNCHANGED latest

-----------------------------------------------------------------------------
Tick ==
    /\ clock < MaxClock
    /\ clock' = clock + 1
    /\ UNCHANGED <<account, authors, cookie, reply, failed, wrong, logins, requests, latest, ended>>

\* The throttle is in memory; answers on their way are lost.
Restart ==
    /\ Request
    /\ failed' = [u \in AccountIds |-> [t \in Terminals |-> {}]]
    /\ wrong' = failed'
    /\ reply' = [t \in Terminals |-> Nothing]
    /\ UNCHANGED <<account, authors, cookie, clock, logins, latest, ended>>

\* An installation in use: the seeded administrator and the accounts created
\* since, with their own passwords.  The first range-state row is attributed
\* to the administrator.
Init ==
    /\ account = [u \in AccountIds |->
                    IF u <= Len(Staff)
                    THEN [NoAccount EXCEPT !.exists = TRUE, !.role = Staff[u], !.active = TRUE]
                    ELSE NoAccount]
    /\ authors = {1}
    /\ cookie = [t \in Terminals |-> NoCookie]
    /\ reply = [t \in Terminals |-> Nothing]
    /\ failed = [u \in AccountIds |-> [t \in Terminals |-> {}]]
    /\ wrong = failed
    /\ clock = 0 /\ logins = 0 /\ requests = 0
    /\ latest = [u \in AccountIds |-> 0]
    /\ ended = {}

SignIn(t) ==
    \/ \E u \in AccountIds, remember \in BOOLEAN : Login(t, u, remember)
    \/ \E u \in AccountIds : LoginFails(t, u)
    \/ Logout(t)
    \/ ChangePassword(t)

Manage(t) ==
    \/ \E role \in Roles : CreateAccount(t, role)
    \/ \E u \in AccountIds, role \in Roles : ChangeRole(t, u, role)
    \/ \E u \in AccountIds :
          \/ DeleteAccount(t, u) \/ ArchiveAccount(t, u) \/ RestoreAccount(t, u)
          \/ ToggleActive(t, u) \/ ResetPassword(t, u)

Next ==
    \/ \E t \in Terminals : SignIn(t) \/ Manage(t) \/ Poll(t) \/ Receive(t)
    \/ Tick
    \/ Restart

Spec == Init /\ [][Next]_vars

-----------------------------------------------------------------------------
\* Every variable has its type: an account has at most the token of one login.
TypeOK ==
    /\ account \in [AccountIds -> Account]
    /\ authors \subseteq AccountIds
    /\ cookie \in [Terminals -> Cookie \cup {NoCookie}]
    /\ reply \in [Terminals -> Cookie \cup {NoCookie, Nothing}]
    /\ {failed, wrong} \subseteq
          [AccountIds -> [Terminals -> SUBSET [at : 0..MaxClock, no : Nat]]]
    /\ clock \in 0..MaxClock /\ logins \in 0..MaxLogins /\ requests \in 0..MaxRequests
    /\ latest \in [AccountIds -> Tokens \cup {0}]
    /\ ended \subseteq Tokens

\* Whatever administrators do to each other's accounts and to their own, one of
\* them can still log in (_is_last_active_administrator in users.py).
AnAdministratorRemains == Administrators # {}

\* A login keeps the older sessions of its account out until it is logged out
\* itself: another tab's logout, a failed login, an administrator's edit and a
\* late answer change nothing about that (deps.py:25, routers/auth.py:84).
OldSessionsStayOut ==
    \A t \in Terminals :
       LET u == cookie[t].user
       IN  Admitted(t) /\ latest[u] # 0 /\ cookie[t].token # latest[u] => latest[u] \in ended

\* The wrong passwords of a window that begins at from.
WrongIn(u, t, from) == {f \in wrong[u][t] : f.at - from \in 0..(Lockout - 1)}

\* Of the wrong passwords checked for one account from one address since the last
\* login to it from there and the last restart, no more than MaxAttempts fall in
\* any window of Lockout, also one that ended long ago: what the server drops from
\* its memory is no longer needed (login_lock_remaining in auth.py).  A login and a
\* restart empty the memory, so a window across one of them may have more.
ThrottleHolds ==
    \A u \in AccountIds, t \in Terminals, from \in 0..MaxClock :
        Cardinality(WrongIn(u, t, from)) <= MaxAttempts

\* A session that was accepted is refused later only because the account was
\* logged in to again, is disabled, or time has passed: nobody else's logout or
\* failed login and no edit of the account's role or password ends it.
KeptUnlessEnded ==
    [][\A t \in Terminals :
         LET u == cookie[t].user
         IN  Admitted(t) /\ cookie'[t] = cookie[t] /\ clock' = clock /\ ~Admitted(t)'
               => latest'[u] # latest[u] \/ ~Usable(u)']_vars

\* HANDOVER.md:425: the older sessions of a user are sent to the login page on
\* their next request.
OlderSessionInvalidated ==
    \A t \in Terminals :
       Admitted(t) => cookie[t].token = latest[cookie[t].user] \/ latest[cookie[t].user] = 0

=============================================================================
