----------------------------- MODULE CeaseProofs -----------------------------
(***************************************************************************)
(* Proofs about Cease, from those about Sessions: each workspace has one   *)
(* open CEASE at most, and no step takes away an account that a stored one *)
(* names: whoever is named is an author, and authors are not deleted.      *)
(*                                                                         *)
(* That screens come to show the CEASE is a liveness property and is       *)
(* model-checked only.                                                     *)
(***************************************************************************)
EXTENDS Cease, SessionsProofs, SequenceTheorems

Raising == raising \in [Terminals -> Cookie \cup {Nothing}]

RaisedByAuthors == \A e \in DOMAIN events : events[e].raisedBy \in authors

CeaseIndInv ==
    /\ IndInv
    /\ events \in Seq(Event)
    /\ testing \in BOOLEAN
    /\ OneCeasePerWorkspace
    /\ RaisedByAuthors
    /\ Raising

-----------------------------------------------------------------------------
\* While a workspace has one open event at most, that event is the active one.
LEMMA OpenIsActive ==
    ASSUME events \in Seq(Event), OneCeasePerWorkspace, NEW e \in DOMAIN events, Open(e)
    PROVE  Active = e
<1>1. {0} \cup {d \in DOMAIN events : Open(d)} = {0, e}
  BY DEF OneCeasePerWorkspace, Open
<1>2. e \in Nat
  OBVIOUS
<1>3. \A x \in {0, e} : (\A y \in {0, e} : x >= y) <=> x = e
  BY <1>2
<1>4. Max({0, e}) = e
  BY <1>3 DEF Max
<1> QED
  BY <1>1, <1>4 DEF Active

\* Nobody that a row names goes away in a step of the accounts and sessions.
LEMMA AuthorsKept ==
    ASSUME IndInv, [Next]_vars
    PROVE  /\ authors' = authors
           /\ \A u \in authors : account[u].exists => account'[u].exists
<1>1. Shape
  BY DEF IndInv
<1>2. authors' = authors
  BY DEF Next, SignIn, Manage, Login, LoginFails, Logout, ChangePassword, Poll, Receive, Tick,
         Restart, CreateAccount, ChangeRole, DeleteAccount, ArchiveAccount, RestoreAccount,
         ToggleActive, ResetPassword, Edited, vars
<1>3. SUFFICES ASSUME NEW u \in AccountIds, u \in authors, account[u].exists
               PROVE  account'[u].exists
  BY <1>1, <1>2 DEF Shape
<1>4. account[u] \in Account
  BY <1>1 DEF Shape
<1>5. ASSUME NEW t \in Terminals, Manage(t) PROVE account'[u].exists
  <2>1. ASSUME NEW v \in AccountIds, NEW a, Edited(t, v, a), v = u => a.exists
        PROVE  account'[u].exists
    BY <1>1, <1>3, <2>1 DEF Edited, Shape
  <2>2. ASSUME NEW role \in Roles, CreateAccount(t, role) PROVE account'[u].exists
    BY <1>1, <1>3, <2>2 DEF CreateAccount, Shape
  <2>3. /\ \A role \in Roles : [account[u] EXCEPT !.role = role].exists
        /\ [account[u] EXCEPT !.archived = TRUE, !.active = FALSE].exists
        /\ [account[u] EXCEPT !.archived = FALSE].exists
        /\ [account[u] EXCEPT !.active = ~@].exists
        /\ [account[u] EXCEPT !.mustChange = TRUE].exists
    BY <1>3, <1>4 DEF Account
  <2>4. ASSUME NEW v \in AccountIds, NEW role \in Roles, ChangeRole(t, v, role)
        PROVE  account'[u].exists
    BY <2>1, <2>3, <2>4 DEF ChangeRole
  <2>5. ASSUME NEW v \in AccountIds, DeleteAccount(t, v) PROVE account'[u].exists
    BY <1>3, <2>1, <2>5 DEF DeleteAccount
  <2>6. ASSUME NEW v \in AccountIds,
               \/ ArchiveAccount(t, v) \/ RestoreAccount(t, v)
               \/ ToggleActive(t, v) \/ ResetPassword(t, v)
        PROVE  account'[u].exists
    BY <2>1, <2>3, <2>6 DEF ArchiveAccount, RestoreAccount, ToggleActive, ResetPassword
  <2> QED
    BY <1>5, <2>2, <2>4, <2>5, <2>6 DEF Manage
<1>6. ASSUME NEW t \in Terminals, SignIn(t) PROVE account'[u].exists
  <2>1. \/ \E v \in AccountIds : account' = [account EXCEPT ![v].token = logins']
        \/ \E v \in AccountIds : account' = [account EXCEPT ![v].token = 0]
        \/ account' = [account EXCEPT ![cookie[t].user].mustChange = FALSE]
        \/ account' = account
    <3>1. CASE Logout(t)
      <4>1. cookie[t].user \in AccountIds
        BY <1>1, <3>1 DEF Logout, Shape, Cookie
      <4> QED
        BY <3>1, <4>1 DEF Logout
    <3> QED
      BY <1>6, <3>1 DEF SignIn, Login, LoginFails, ChangePassword
  <2> QED
    BY <1>1, <1>3, <1>4, <2>1 DEF Shape, Account
<1>7. ASSUME account' = account PROVE account'[u].exists
  BY <1>3, <1>7
<1> QED
  BY <1>5, <1>6, <1>7 DEF Next, Poll, Receive, Tick, Restart, vars

\* A step of the accounts and sessions that leaves the events alone, also when
\* the workspace is another one after it.
LEMMA SessionStep ==
    ASSUME CeaseIndInv, [Next]_vars, events' = events, testing' \in BOOLEAN, Raising'
    PROVE  CeaseIndInv'
<1>1. IndInv'
  BY Inductive DEF CeaseIndInv
<1>2. authors' = authors
  BY AuthorsKept DEF CeaseIndInv
<1> QED
  BY <1>1, <1>2 DEF CeaseIndInv, OneCeasePerWorkspace, RaisedByAuthors

\* A request that sets the cookie of one terminal to a session or to none keeps
\* the invariant of the accounts.
LEMMA CookieStep ==
    ASSUME IndInv, NEW t \in Terminals, NEW c \in Cookie \cup {NoCookie},
           cookie' = [cookie EXCEPT ![t] = c], authors' \subseteq AccountIds,
           requests' \in 0..MaxRequests,
           UNCHANGED <<account, reply, failed, wrong, clock, logins, latest, ended>>
    PROVE  IndInv'
<1>1. Shape'
  BY DEF IndInv, Shape
<1> QED
  BY <1>1, AccountsAlone DEF IndInv

\* What get_current_user lets through is a session.
LEMMA AnswerTyped ==
    ASSUME IndInv, NEW t \in Terminals
    PROVE  /\ Answer(t) \in Cookie \cup {NoCookie}
           /\ Admitted(t) => Answer(t) \in Cookie
<1>1. Shape
  BY DEF IndInv
<1> QED
  BY <1>1, AdmittedCookie DEF Answer, Refreshed, Cookie, Shape, IndInv

\* A request keeps the invariant of the accounts.
LEMMA DoesStep ==
    ASSUME CeaseIndInv, NEW t \in Terminals, Does(t), authors' \subseteq AccountIds
    PROVE  IndInv' /\ account' = account
<1>1. Shape
  BY DEF CeaseIndInv, IndInv
<1>2. Answer(t) \in Cookie \cup {NoCookie}
  BY AnswerTyped DEF CeaseIndInv
<1>3. requests' \in 0..MaxRequests
  BY <1>1, LimitsAssumption DEF Does, Request, Shape
<1> QED
  BY <1>2, <1>3, CookieStep DEF Does, CeaseIndInv

-----------------------------------------------------------------------------
\* No event at the start.
LEMMA CeaseInitInv == CeaseInit => CeaseIndInv
<1> SUFFICES ASSUME CeaseInit PROVE CeaseIndInv
  OBVIOUS
<1>1. IndInv
  BY InitIndInv DEF CeaseInit
<1>2. events = <<>> /\ testing \in BOOLEAN /\ Raising
  BY DEF CeaseInit, Raising
<1> QED
  BY <1>1, <1>2 DEF CeaseIndInv, OneCeasePerWorkspace, RaisedByAuthors

\* A raise that is let through is remembered with its session.
LEMMA RaiseAdmittedStep ==
    ASSUME CeaseIndInv, NEW t \in Terminals, RaiseAdmitted(t)
    PROVE  CeaseIndInv'
<1>1. Answer(t) \in Cookie
  BY AnswerTyped DEF RaiseAdmitted, Acting, CeaseIndInv
<1>2. Raising'
  BY <1>1 DEF RaiseAdmitted, Raising, CeaseIndInv
<1>3. IndInv'
  <2>1. Shape
    BY DEF CeaseIndInv, IndInv
  <2>2. requests' \in 0..MaxRequests
    BY <2>1, LimitsAssumption DEF RaiseAdmitted, Request, Shape
  <2>3. Shape'
    BY <2>1, <2>2 DEF RaiseAdmitted, Shape
  <2> QED
    BY <2>3, AccountsAlone DEF RaiseAdmitted, CeaseIndInv
<1> QED
  BY <1>2, <1>3 DEF RaiseAdmitted, CeaseIndInv, OneCeasePerWorkspace, RaisedByAuthors

\* With one open nothing is added; the event added makes who raised it an author,
\* whether the account is still there or not.
LEMMA RaiseStep ==
    ASSUME CeaseIndInv, NEW t \in Terminals, Raise(t)
    PROVE  CeaseIndInv' /\ account' = account
<1> DEFINE u == raising[t].user
           n == [testing |-> testing, raisedBy |-> u, dismissed |-> FALSE]
<1>1. raising[t] \in Cookie /\ u \in AccountIds
  BY DEF Raise, Raises, Raising, CeaseIndInv, Cookie
<1>2. authors \subseteq AccountIds /\ requests \in 0..MaxRequests
  BY DEF CeaseIndInv, IndInv, Shape
<1>3. testing' = testing /\ account' = account
  BY DEF Raise, Raises
<1>4. Raising'
  BY DEF Raise, Raises, Raising, CeaseIndInv
<1>5. ASSUME authors' \subseteq AccountIds PROVE IndInv'
  BY <1>1, <1>2, <1>5, CookieStep DEF Raise, Raises, CeaseIndInv
<1>6. CASE Active # 0
  <2>1. events' = events /\ authors' = authors
    BY <1>6 DEF Raise
  <2>2. IndInv'
    BY <1>2, <1>5, <2>1
  <2> QED
    BY <1>3, <1>4, <2>1, <2>2 DEF CeaseIndInv, OneCeasePerWorkspace, RaisedByAuthors
<1>7. CASE Active = 0
  <2>1. events' = Append(events, n) /\ authors' = authors \cup {u}
    BY <1>7 DEF Raise, Stored
  <2>2. IndInv'
    BY <1>1, <1>2, <1>5, <2>1
  <2>3. n \in Event /\ events \in Seq(Event) /\ testing \in BOOLEAN
    BY <1>1 DEF Event, CeaseIndInv
  <2>4. \A e \in DOMAIN events : ~Open(e)
    BY <1>7, OpenIsActive DEF CeaseIndInv
  <2>5. events' \in Seq(Event) /\ Len(events') = Len(events) + 1
    BY <2>1, <2>3
  <2>6. \A e \in DOMAIN events' : \/ e \in DOMAIN events /\ events'[e] = events[e]
                                  \/ e = Len(events) + 1 /\ events'[e] = n
    BY <2>1, <2>3
  <2>7. OneCeasePerWorkspace'
    BY <2>4, <2>6 DEF OneCeasePerWorkspace, Open, CeaseIndInv
  <2>8. RaisedByAuthors'
    BY <2>1, <2>6 DEF RaisedByAuthors, CeaseIndInv
  <2> QED
    BY <1>3, <1>4, <2>2, <2>3, <2>5, <2>7, <2>8 DEF CeaseIndInv
<1> QED
  BY <1>6, <1>7

\* Dismissing closes an event and opens none.
LEMMA DismissStep ==
    ASSUME CeaseIndInv, NEW t \in Terminals, Dismiss(t)
    PROVE  CeaseIndInv' /\ account' = account
<1>1. authors' = authors /\ testing' = testing /\ raising' = raising
  BY DEF Dismiss
<1>2. IndInv' /\ account' = account
  BY <1>1, DoesStep DEF Dismiss, CeaseIndInv, IndInv, Shape
<1>3. events \in Seq(Event)
  BY DEF CeaseIndInv
<1>4. events' = [e \in DOMAIN events |->
                   [events[e] EXCEPT !.dismissed = @ \/ e \in Dismissing(t)]]
  BY DEF Dismiss
<1>5. ASSUME NEW e \in DOMAIN events
      PROVE  /\ events'[e] \in Event
             /\ events'[e].testing = events[e].testing
             /\ events'[e].raisedBy = events[e].raisedBy
             /\ events[e].dismissed => events'[e].dismissed
  <2>1. events[e] \in Event
    BY <1>3
  <2>2. events'[e] = [events[e] EXCEPT !.dismissed = events[e].dismissed \/ e \in Dismissing(t)]
    BY <1>4
  <2> QED
    BY <2>1, <2>2 DEF Event
<1>6. DOMAIN events' = DOMAIN events /\ events' \in Seq(Event)
  <2>1. DOMAIN events = 1..Len(events) /\ Len(events) \in Nat
    BY <1>3
  <2>2. events' \in [1..Len(events) -> Event]
    BY <1>4, <1>5, <2>1
  <2> QED
    BY <1>4, <2>1, <2>2, SeqDef
<1> QED
  BY <1>1, <1>2, <1>5, <1>6
     DEF CeaseIndInv, OneCeasePerWorkspace, RaisedByAuthors, Raising

\* A change of workspace names the administrator who made it.
LEMMA SwitchStep ==
    ASSUME CeaseIndInv, NEW t \in Terminals, SwitchWorkspace(t)
    PROVE  CeaseIndInv' /\ account' = account
<1> DEFINE u == cookie[t].user
<1>1. u \in AccountIds
  BY AdmittedCookie DEF SwitchWorkspace, Administers, Acting, CeaseIndInv
<1>2. /\ authors' = authors \cup {u} /\ events' = events /\ testing' = ~testing
      /\ raising' = raising
  BY DEF SwitchWorkspace
<1>3. authors \subseteq AccountIds
  BY DEF CeaseIndInv, IndInv, Shape
<1>4. IndInv' /\ account' = account
  BY <1>1, <1>2, <1>3, DoesStep DEF SwitchWorkspace
<1> QED
  BY <1>2, <1>4 DEF CeaseIndInv, OneCeasePerWorkspace, RaisedByAuthors, Raising

\* Every step keeps the invariant.
LEMMA CeaseInductive == CeaseIndInv /\ [CeaseNext]_allVars => CeaseIndInv'
<1> SUFFICES ASSUME CeaseIndInv, [CeaseNext]_allVars PROVE CeaseIndInv'
  OBVIOUS
<1>1. testing \in BOOLEAN /\ Raising
  BY DEF CeaseIndInv
<1>2. ASSUME raising' = raising PROVE Raising'
  BY <1>1, <1>2 DEF Raising
<1>3. ASSUME NEW t \in Terminals, (SignIn(t) \/ Manage(t)) /\ Loads(t) PROVE CeaseIndInv'
  <2>1. Next
    BY <1>3 DEF Next
  <2> QED
    BY <1>1, <1>2, <1>3, <2>1, SessionStep DEF Loads
<1>4. ASSUME NEW t \in Terminals, Heartbeat(t) \/ Arrive(t) PROVE CeaseIndInv'
  <2>1. Next
    BY <1>4 DEF Next, Heartbeat, Arrive
  <2> QED
    BY <1>1, <1>2, <1>4, <2>1, SessionStep DEF Heartbeat, Arrive
<1>5. ASSUME NEW t \in Terminals, Hide(t) \/ Show(t) PROVE CeaseIndInv'
  BY <1>1, <1>2, <1>5, SessionStep DEF Hide, Show
<1>6. CASE Tick /\ UNCHANGED ceaseVars
  BY <1>1, <1>2, <1>6, SessionStep DEF Next, ceaseVars
<1>7. CASE /\ Restart
           /\ carried' = [t \in Terminals |-> NoState]
           /\ raising' = [t \in Terminals |-> Nothing]
           /\ UNCHANGED <<events, testing, screen, visible>>
  <2>1. Raising'
    BY <1>7 DEF Raising
  <2> QED
    BY <1>1, <1>7, <2>1, SessionStep DEF Next
<1>8. CASE UNCHANGED allVars
  BY <1>1, <1>2, <1>8, SessionStep DEF allVars, ceaseVars
<1> QED
  BY <1>3, <1>4, <1>5, <1>6, <1>7, <1>8, RaiseAdmittedStep, RaiseStep, DismissStep, SwitchStep
     DEF CeaseNext

\* The invariant of the accounts and of the events.
THEOREM CeaseInvariance == CeaseSpec => []CeaseIndInv
<1> QED
  BY CeaseInitInv, CeaseInductive, PTL DEF CeaseSpec

\* Whoever raises at the same moment and however often the workspace is
\* switched: operational range and Testing each have one open CEASE at most.
THEOREM OneCease == CeaseSpec => []OneCeasePerWorkspace
<1>1. CeaseIndInv => OneCeasePerWorkspace
  BY DEF CeaseIndInv
<1> QED
  BY <1>1, CeaseInvariance, PTL

\* In no step does an author go away: the alert's own requests leave the accounts
\* alone.
LEMMA AuthorsStay ==
    ASSUME CeaseIndInv, [CeaseNext]_allVars
    PROVE  \A u \in authors : account[u].exists => account'[u].exists
<1>1. CASE [Next]_vars
  BY <1>1, AuthorsKept DEF CeaseIndInv
<1>2. CASE account' = account
  BY <1>2
<1>3. ASSUME NEW t \in Terminals, RaiseAdmitted(t) PROVE account' = account
  BY <1>3 DEF RaiseAdmitted
<1>4. ASSUME NEW t \in Terminals, (SignIn(t) \/ Manage(t)) \/ Heartbeat(t) \/ Arrive(t)
      PROVE  Next
  BY <1>4 DEF Next, Heartbeat, Arrive
<1>5. ASSUME NEW t \in Terminals, Hide(t) \/ Show(t) PROVE account' = account
  BY <1>5 DEF Hide, Show, vars
<1>6. CASE UNCHANGED allVars
  BY <1>2, <1>6 DEF allVars, vars
<1>7. CASE Tick \/ Restart
  BY <1>1, <1>7 DEF Next
<1> QED
  BY <1>1, <1>2, <1>3, <1>4, <1>5, <1>6, <1>7, RaiseStep, DismissStep, SwitchStep
     DEF CeaseNext

\* The account that raised a CEASE is not deleted while the event is stored, also
\* one created under the id of a raiser that was already gone.
THEOREM RaiserKept == CeaseSpec => RaiserIsKept
<1> DEFINE Kept == \A e \in DOMAIN events :
                      account[events[e].raisedBy].exists => account'[events[e].raisedBy].exists
<1>1. CeaseIndInv /\ [CeaseNext]_allVars => Kept
  BY AuthorsStay DEF CeaseIndInv, RaisedByAuthors
<1>2. CeaseIndInv /\ [CeaseNext]_allVars => [Kept]_allVars
  BY <1>1
<1>3. RaiserIsKept <=> [][Kept]_allVars
  BY DEF RaiserIsKept
<1> HIDE DEF Kept
<1> QED
  BY <1>2, <1>3, CeaseInvariance, PTL DEF CeaseSpec

-----------------------------------------------------------------------------
\* CeaseTypeOK but for the accounts and sessions and the type of an event.
ScreenShape ==
    /\ Len(events) <= MaxEvents
    /\ screen \in [Terminals -> 0..Len(events)]
    /\ visible \in [Terminals -> BOOLEAN]
    /\ carried \in [Terminals -> NoState..Len(events)]

\* The active event is one of the table's, or none.
LEMMA ActiveTyped ==
    ASSUME events \in Seq(Event), OneCeasePerWorkspace
    PROVE  Active \in 0..Len(events)
<1>1. CASE \E e \in DOMAIN events : Open(e)
  BY <1>1, OpenIsActive
<1>2. CASE ~ \E e \in DOMAIN events : Open(e)
  <2>1. {0} \cup {d \in DOMAIN events : Open(d)} = {0}
    BY <1>2
  <2>2. \A x \in {0} : (\A y \in {0} : x >= y) <=> x = 0
    OBVIOUS
  <2>3. Max({0}) = 0
    BY <2>2 DEF Max
  <2>4. Active = 0
    BY <2>1, <2>3 DEF Active
  <2>5. 0 \in 0..Len(events)
    OBVIOUS
  <2> QED
    BY <2>4, <2>5
<1> QED
  BY <1>1, <1>2

\* A step of the screens while no event is added.
LEMMA ScreensOnly ==
    ASSUME events \in Seq(Event), ScreenShape, Len(events') = Len(events),
           screen' = screen \/ screen' \in [Terminals -> 0..Len(events)],
           visible' = visible \/ visible' \in [Terminals -> BOOLEAN],
           carried' = carried \/ carried' \in [Terminals -> NoState..Len(events)]
    PROVE  ScreenShape'
BY DEF ScreenShape

\* No screen shows, and no answer carries, an event that is not in the table.
LEMMA ScreenStep == CeaseIndInv /\ ScreenShape /\ [CeaseNext]_allVars => ScreenShape'
<1> SUFFICES ASSUME CeaseIndInv, ScreenShape, [CeaseNext]_allVars PROVE ScreenShape'
  OBVIOUS
<1> USE EventsAssumption
<1>1. events \in Seq(Event) /\ Len(events) \in Nat
  BY DEF CeaseIndInv
<1>2. Active \in 0..Len(events)
  BY ActiveTyped DEF CeaseIndInv
<1>3. ASSUME NEW t \in Terminals PROVE [screen EXCEPT ![t] = 0] \in [Terminals -> 0..Len(events)]
  BY <1>1 DEF ScreenShape
<1>4. [t \in Terminals |-> NoState] \in [Terminals -> NoState..Len(events)]
  BY <1>1 DEF NoState
<1>5. ASSUME NEW t \in Terminals, Loads(t) PROVE ScreenShape'
  BY <1>1, <1>3, <1>5, ScreensOnly DEF Loads
<1>6. ASSUME NEW t \in Terminals, Heartbeat(t) PROVE ScreenShape'
  <2>1. carried' \in [Terminals -> NoState..Len(events)]
    BY <1>1, <1>2, <1>6 DEF Heartbeat, ScreenShape, NoState
  <2> QED
    BY <1>1, <1>6, <2>1, ScreensOnly DEF Heartbeat
<1>7. ASSUME NEW t \in Terminals, Arrive(t) PROVE ScreenShape'
  <2> DEFINE shown == IF reply[t] = NoCookie THEN 0
                      ELSE IF carried[t] = NoState THEN screen[t] ELSE carried[t]
  <2>1. shown \in 0..Len(events)
    BY <1>1 DEF ScreenShape, NoState
  <2>2. screen' = [screen EXCEPT ![t] = shown]
    BY <1>7 DEF Arrive, Shown, ScreenShape
  <2>3. screen' \in [Terminals -> 0..Len(events)]
    <3> HIDE DEF shown
    <3> QED
      BY <2>1, <2>2 DEF ScreenShape
  <2>4. carried' \in [Terminals -> NoState..Len(events)]
    BY <1>1, <1>7 DEF Arrive, ScreenShape, NoState
  <2> QED
    BY <1>1, <1>7, <2>3, <2>4, ScreensOnly DEF Arrive
<1>8. ASSUME NEW t \in Terminals, Hide(t) \/ Show(t) PROVE ScreenShape'
  <2>1. visible' \in [Terminals -> BOOLEAN]
    BY <1>8 DEF Hide, Show, ScreenShape
  <2> QED
    BY <1>1, <1>8, <2>1, ScreensOnly DEF Hide, Show
<1>9. ASSUME NEW t \in Terminals, Raise(t) PROVE ScreenShape'
  <2> DEFINE n == [testing |-> testing, raisedBy |-> raising[t].user, dismissed |-> FALSE]
  <2>1. screen' = screen /\ visible' = visible /\ carried' = carried
    BY <1>9 DEF Raise, Raises
  <2>2. CASE Active # 0
    BY <1>1, <1>9, <2>1, <2>2, ScreensOnly DEF Raise
  <2>3. CASE Active = 0
    <3>1. Len(events) < MaxEvents /\ events' = Append(events, n)
      BY <1>9, <2>3 DEF Raise, Stored
    <3>2. Len(events') = Len(events) + 1
      <4> HIDE DEF n
      <4> QED
        BY <1>1, <3>1
    <3> QED
      BY <1>1, <2>1, <3>1, <3>2 DEF ScreenShape, NoState
  <2> QED
    BY <2>2, <2>3
<1>10. ASSUME NEW t \in Terminals, Dismiss(t) PROVE ScreenShape'
  <2>1. DOMAIN events' = DOMAIN events
    BY <1>10 DEF Dismiss
  <2>2. events' \in Seq(Event)
    BY CeaseInductive DEF CeaseIndInv
  <2>3. DOMAIN events' = 1..Len(events') /\ Len(events') \in Nat
    BY <2>2
  <2>4. Len(events') = Len(events)
    <3>1. DOMAIN events = 1..Len(events)
      BY <1>1
    <3>2. 1..Len(events') = 1..Len(events)
      BY <2>1, <2>3, <3>1
    <3> QED
      BY <1>1, <2>3, <3>2
  <2> QED
    BY <1>1, <1>3, <1>10, <2>4, ScreensOnly DEF Dismiss
<1>11. ASSUME NEW t \in Terminals, SwitchWorkspace(t) PROVE ScreenShape'
  BY <1>1, <1>3, <1>11, ScreensOnly DEF SwitchWorkspace
<1>12. CASE UNCHANGED <<events, screen, visible, carried>>
  BY <1>1, <1>12, ScreensOnly
<1>13. CASE /\ carried' = [t \in Terminals |-> NoState]
            /\ UNCHANGED <<events, testing, screen, visible>>
  BY <1>1, <1>4, <1>13, ScreensOnly
<1> QED
  BY <1>5, <1>6, <1>7, <1>8, <1>9, <1>10, <1>11, <1>12, <1>13
     DEF CeaseNext, RaiseAdmitted, allVars, ceaseVars

\* The throttle does not see the alert: what the alert adds to a request leaves
\* failed logins and the clock alone.
LEMMA ThrottleUnderAlert == CeaseIndInv /\ Throttled /\ [CeaseNext]_allVars => Throttled'
<1> SUFFICES ASSUME CeaseIndInv, Throttled, [CeaseNext]_allVars PROVE Throttled'
  OBVIOUS
<1>1. Shape
  BY DEF CeaseIndInv, IndInv
<1>2. ASSUME [Next]_vars PROVE Throttled'
  BY <1>1, <1>2, ThrottleInductive
<1>3. ASSUME NEW t \in Terminals, Does(t) PROVE Throttled'
  BY <1>3, ThrottleAlone DEF Does
<1>4. ASSUME NEW t \in Terminals, Hide(t) \/ Show(t) PROVE Throttled'
  BY <1>2, <1>4 DEF Hide, Show
<1>5. ASSUME NEW t \in Terminals, SignIn(t) \/ Manage(t) \/ Heartbeat(t) \/ Arrive(t)
      PROVE  Throttled'
  BY <1>2, <1>5 DEF Next, Heartbeat, Arrive
<1>6. CASE UNCHANGED allVars
  BY <1>2, <1>6 DEF allVars
<1>7. ASSUME NEW t \in Terminals, RaiseAdmitted(t) \/ Raise(t) PROVE Throttled'
  BY <1>7, ThrottleAlone DEF RaiseAdmitted, Raise, Raises
<1>8. CASE Tick \/ Restart
  BY <1>2, <1>8 DEF Next
<1> QED
  BY <1>3, <1>4, <1>5, <1>6, <1>7, <1>8 DEF CeaseNext, Dismiss, SwitchWorkspace

\* Every variable of the alert and of the sessions under it has its type.
THEOREM CeaseTypeCorrect == CeaseSpec => []CeaseTypeOK
<1>1. CeaseInit => ScreenShape /\ Throttled
  <2> SUFFICES ASSUME CeaseInit PROVE ScreenShape /\ Throttled
    OBVIOUS
  <2>1. Throttled
    BY NoneThrottled DEF CeaseInit, Init
  <2>2. Len(events) = 0
    BY DEF CeaseInit
  <2>3. ScreenShape
    BY <2>2, EventsAssumption DEF CeaseInit, ScreenShape, NoState
  <2> QED
    BY <2>1, <2>3
<1>2. CeaseIndInv /\ ScreenShape /\ Throttled => CeaseTypeOK
  BY DEF CeaseIndInv, IndInv, Shape, ScreenShape, Throttled, FailedType, Failures, Raising,
         TypeOK, CeaseTypeOK
<1> QED
  BY <1>1, <1>2, CeaseInvariance, ScreenStep, ThrottleUnderAlert, PTL DEF CeaseSpec
=============================================================================
