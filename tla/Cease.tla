------------------------------- MODULE Cease -------------------------------
(***************************************************************************)
(* The CEASE alert (routers/cease.py, the heartbeat in routers/            *)
(* dashboard.py and static/js/app.js), on top of Sessions: who may raise   *)
(* and dismiss it depends on the session, and a screen learns of it from   *)
(* the same poll that keeps the session alive.  Operational range and      *)
(* Testing have each their own events; an administrator switches between   *)
(* them (routers/range_state.py).                                          *)
(*                                                                         *)
(* The account of a request is looked up in a worker thread before the     *)
(* handler runs in the event loop, so other requests may be handled in     *)
(* between.  That gap is kept for raising, whose row names the account;    *)
(* the other requests are admitted and handled in one step.                *)
(*                                                                         *)
(* The tabs of a browser are one screen.  A reason is always given.        *)
(***************************************************************************)
EXTENDS Sessions, SequencesExt

CONSTANT MaxEvents      \* bound: CEASE events

ASSUME EventsAssumption == MaxEvents \in Nat

Event == [testing : BOOLEAN, raisedBy : AccountIds, dismissed : BOOLEAN]

VARIABLES
    events,     \* cease_events, by id
    testing,    \* is_testing_state
    screen,     \* ceaseCurrentId: the event a screen shows, 0 for none
    visible,    \* a page is open and not hidden
    carried,    \* the event in the answer on its way (0: none active), or NoState
    raising     \* the refreshed cookie of a raise that is admitted and not handled
                \* yet, or Nothing

ceaseVars == <<events, testing, screen, visible, carried, raising>>
allVars == <<vars, ceaseVars>>

NoState == -1

EventIds == 1..MaxEvents

-----------------------------------------------------------------------------
Open(e) == ~events[e].dismissed /\ events[e].testing = testing

\* The newest open event of the workspace, 0 for none.
Active == Max({0} \cup {e \in DOMAIN events : Open(e)})

\* A login, a saved form or a logout loads a page: no splash until its first poll.
Loads(t) ==
    /\ screen' = [screen EXCEPT ![t] = 0]
    /\ UNCHANGED <<events, testing, visible, carried, raising>>

\* The page asks for the state of the range, which holds for a session that may
\* act; any other is sent to the login or the password page.
Heartbeat(t) ==
    /\ visible[t]
    /\ Poll(t)
    /\ carried' = [carried EXCEPT ![t] = IF Acting(t) THEN Active ELSE NoState]
    /\ UNCHANGED <<events, testing, screen, visible, raising>>

\* Mistake: a splash is replaced and never taken down.
ShownKept(t) == IF carried[t] = 0 THEN screen[t] ELSE carried[t]

\* The splash is built again when the event is another one, and taken down when
\* none is active.
Shown(t) == carried[t]

\* Mistake: an answer that is not the expected JSON counts as a state.
ArriveUnchecked(t) ==
    /\ Receive(t)
    /\ screen' = [screen EXCEPT ![t] = IF reply[t] = NoCookie THEN 0 ELSE Shown(t)]
    /\ carried' = [carried EXCEPT ![t] = NoState]
    /\ UNCHANGED <<events, testing, visible, raising>>

Arrive(t) ==
    /\ Receive(t)
    /\ screen' = [screen EXCEPT ![t] =
                    IF reply[t] = NoCookie THEN 0           \* on the login page
                    ELSE IF carried[t] = NoState THEN @     \* not the JSON it expects
                    ELSE Shown(t)]
    /\ carried' = [carried EXCEPT ![t] = NoState]
    /\ UNCHANGED <<events, testing, visible, raising>>

Hide(t) ==
    /\ visible[t]
    /\ visible' = [visible EXCEPT ![t] = FALSE]
    /\ UNCHANGED <<vars, events, testing, screen, carried, raising>>

Show(t) ==
    /\ ~visible[t]
    /\ visible' = [visible EXCEPT ![t] = TRUE]
    /\ UNCHANGED <<vars, events, testing, screen, carried, raising>>

-----------------------------------------------------------------------------
Does(t) ==
    /\ visible[t] /\ Request
    /\ cookie' = [cookie EXCEPT ![t] = Answer(t)]
    /\ UNCHANGED <<account, reply, failed, wrong, clock, logins, latest, ended>>

(* Anyone who is logged in may raise a CEASE, observers too.                *)

\* get_current_user lets the request through and refreshes its session.
RaiseAdmitted(t) ==
    /\ visible[t] /\ Acting(t) /\ raising[t] = Nothing
    /\ Request
    /\ raising' = [raising EXCEPT ![t] = Answer(t)]
    /\ UNCHANGED <<account, authors, cookie, reply, failed, wrong, clock, logins, latest, ended,
                   events, testing, screen, visible, carried>>

\* The handler does not look at the account again; the answer brings the cookie.
Raises(t) ==
    /\ raising[t] # Nothing
    /\ cookie' = [cookie EXCEPT ![t] = raising[t]]
    /\ raising' = [raising EXCEPT ![t] = Nothing]
    /\ UNCHANGED <<account, reply, failed, wrong, clock, logins, requests, latest, ended,
                   testing, screen, visible, carried>>

Stored(u) ==
    /\ Len(events) < MaxEvents
    /\ events' = Append(events, [testing |-> testing, raisedBy |-> u, dismissed |-> FALSE])
    /\ authors' = authors \cup {u}

\* Mistake: events are stacked.
RaiseAnother(t) == Raises(t) /\ Stored(raising[t].user)

\* With one active it is a success that changes nothing.
Raise(t) ==
    /\ Raises(t)
    /\ IF Active # 0 THEN UNCHANGED <<events, authors>> ELSE Stored(raising[t].user)

\* The event a dismissal is about; observers are refused.
Dismissing(t) ==
    IF Acting(t) /\ account[cookie[t].user].role # "observer" /\ Active # 0
    THEN {Active} ELSE {}

\* The button of a splash.  The request does not say which event it was: it
\* dismisses the active one.  The splash goes whatever the answer; the next
\* poll puts it back when it should not have gone.
Dismiss(t) ==
    /\ screen[t] # 0
    /\ Does(t)
    /\ events' = [e \in DOMAIN events |->
                    [events[e] EXCEPT !.dismissed = @ \/ e \in Dismissing(t)]]
    /\ screen' = [screen EXCEPT ![t] = 0]
    /\ UNCHANGED <<authors, testing, visible, carried, raising>>

\* Into Testing or out of it.
SwitchWorkspace(t) ==
    /\ Administers(t)
    /\ Does(t)
    /\ testing' = ~testing
    /\ authors' = authors \cup {cookie[t].user}
    /\ screen' = [screen EXCEPT ![t] = 0]       \* the answer is a page
    /\ UNCHANGED <<events, visible, carried, raising>>

-----------------------------------------------------------------------------
CeaseInit ==
    /\ Init
    /\ events = <<>>
    /\ testing = FALSE
    /\ screen = [t \in Terminals |-> 0]
    /\ visible = [t \in Terminals |-> TRUE]
    /\ carried = [t \in Terminals |-> NoState]
    /\ raising = [t \in Terminals |-> Nothing]

CeaseNext ==
    \/ \E t \in Terminals :
          \/ visible[t] /\ (SignIn(t) \/ Manage(t)) /\ Loads(t)
          \/ Heartbeat(t) \/ Arrive(t) \/ Hide(t) \/ Show(t)
          \/ RaiseAdmitted(t) \/ Raise(t) \/ Dismiss(t) \/ SwitchWorkspace(t)
    \/ Tick /\ UNCHANGED ceaseVars
    \/ /\ Restart
       /\ carried' = [t \in Terminals |-> NoState]
       /\ raising' = [t \in Terminals |-> Nothing]
       /\ UNCHANGED <<events, testing, screen, visible>>

\* A visible page polls every five seconds, and answers arrive.
CeaseFairness == \A t \in Terminals : WF_allVars(Heartbeat(t)) /\ WF_allVars(Arrive(t))

CeaseSpec == CeaseInit /\ [][CeaseNext]_allVars /\ CeaseFairness
-----------------------------------------------------------------------------
\* Every variable has its type.
CeaseTypeOK ==
    /\ TypeOK
    /\ events \in Seq(Event) /\ Len(events) <= MaxEvents
    /\ testing \in BOOLEAN
    /\ screen \in [Terminals -> 0..Len(events)]
    /\ visible \in [Terminals -> BOOLEAN]
    /\ carried \in [Terminals -> NoState..Len(events)]
    /\ raising \in [Terminals -> Cookie \cup {Nothing}]

\* Operational range and Testing each have at most one open CEASE, whoever raises
\* at the same moment and however often the workspace is switched in between
\* (cease_raise: "Don't stack ceases").
OneCeasePerWorkspace ==
    \A d, e \in DOMAIN events :
       ~events[d].dismissed /\ ~events[e].dismissed /\ events[d].testing = events[e].testing
          => d = e

\* No step takes away an account that a stored CEASE names: neither a deletion by
\* another administrator nor one of an account whose id was used before
\* (blocking_checks in user_delete).  It may be gone already when the event is
\* stored: see RaiserExists.
RaiserIsKept ==
    [][\A e \in DOMAIN events :
         account[events[e].raisedBy].exists => account'[events[e].raisedBy].exists]_allVars

\* users.py:212: an account with attributed records cannot be deleted, so the one
\* that raised a CEASE is there to be named.
RaiserExists == \A e \in DOMAIN events : account[events[e].raisedBy].exists

\* A screen that stays open with a session that may act comes to show the CEASE
\* that is active, and takes down one that is not: also after a late answer has
\* put a dismissed one back, or a refused dismissal took it down.
ScreensFollow ==
    \A t \in Terminals :
       (screen[t] # Active) ~> (screen[t] = Active \/ ~Acting(t) \/ ~visible[t])

\* models.py:860: a CEASE is on every user's screen until a user dismisses it, so
\* nobody dismisses one that their screen does not show.
OnlyShownIsDismissed ==
    [][\A t \in Terminals : Dismiss(t) => Dismissing(t) \subseteq {screen[t]}]_allVars
=============================================================================
