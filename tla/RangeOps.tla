------------------------------ MODULE RangeOps ------------------------------
(***************************************************************************)
(* The operational core of R.I.M.S.: the range state, the serials, the     *)
(* signal log and the background CBM (modem) sync that writes to the same  *)
(* SQLite database.                                                        *)
(*                                                                         *)
(* Handlers are `async def` without an await, so each of them is one       *)
(* atomic action; they run one at a time on the event loop.  The automatic *)
(* sync runs on a thread of its own: it reads the range state and the      *)
(* active serials, then polls each modem, then commits everything it       *)
(* gathered, and handlers run in between.  The dashboard's sync button and *)
(* the export of a closed serial run on the event loop itself: only the    *)
(* automatic sync can run in between.                                      *)
(*                                                                         *)
(* "[NOTE]" rows are left out: every query that reads a status skips them. *)
(***************************************************************************)
EXTENDS Integers, FiniteSets, Sequences

CONSTANTS
    Signals,        \* names of signals
    Package,        \* the signals of the package assigned to serials
    Group,          \* the signals of one exclusivity group
    Mapped,         \* the package entries with a CBM modem (cbm_device_id)
    MaxSerials,     \* bound: serial ids in use at once
    MaxEdits,       \* bound: operator actions that commit
    MaxUpdates,     \* bound: updates in one request of the dashboard
    MaxChanges,     \* bound: range state changes
    MaxFlips,       \* bound: times a modem turns on or off, or a restart
    MaxRows,        \* bound: a sync starts only below this many rows
    Syncs,          \* which syncs run: "auto", "button"
    CoarseClock,    \* TRUE: two commits may fall in the same second
    NoisyModems,    \* TRUE: a modem may not answer, report no status, or
                    \* report another metric that changed
    SandboxPaused,  \* the setting get_sandbox_hardware_sync_paused
    Running,        \* serials started, in Closed Loop, when a behaviour begins
    Begun           \* what their signals read by then

ASSUME SignalsAssumption ==
    /\ Package \subseteq Signals
    /\ Group \subseteq Signals
    /\ Mapped \subseteq Package

ASSUME BoundsAssumption ==
    /\ MaxSerials \in Nat
    /\ MaxEdits \in Nat
    /\ MaxUpdates \in {1, 2}
    /\ MaxChanges \in Nat
    /\ MaxFlips \in Nat
    /\ MaxRows \in Nat
    /\ Running \in Nat
    /\ Running <= MaxSerials

ASSUME ModeAssumption ==
    /\ Syncs \subseteq {"auto", "button"}
    /\ CoarseClock \in BOOLEAN
    /\ NoisyModems \in BOOLEAN
    /\ SandboxPaused \in BOOLEAN

ASSUME BegunAssumption == Begun \subseteq {"Planned", "Up"}

States == {"Closed Loop", "Live", "Standby/Off", "Testing"}
Roles == {"supervisor", "operator", "observer"}
Statuses == {"Up", "Down", "Planned"}    \* "Planned" stands for every idle one
Readings == {"Up", "Down", "NoData"}     \* what a modem's answer says
SerialIds == 1..MaxSerials
Null == 0                                \* a NULL serial_id

Serial == [exists : BOOLEAN, started : BOOLEAN, closed : BOOLEAN,
           testing : BOOLEAN]
NoSerial == [exists |-> FALSE, started |-> FALSE, closed |-> FALSE,
             testing |-> FALSE]
Pending(w) == [exists |-> TRUE, started |-> FALSE, closed |-> FALSE,
               testing |-> w]

\* How the serial_id of a row was chosen: by a handler that checked that the
\* serial belongs to the current workspace, or without that check.
Origins == {"checked", "unchecked"}

Row == [id : Nat \X Signals \X (SerialIds \cup {Null}),
        ts : Nat, signal : Signals, serial : SerialIds \cup {Null},
        status : Statuses, testing : BOOLEAN, deleted : BOOLEAN,
        origin : Origins]

\* A row a handler or a sync is about to insert.
Entry == [signal : Signals, serial : SerialIds \cup {Null},
          status : Statuses, origin : Origins]

Idle == [phase |-> "idle", testing |-> FALSE, todo |-> {},
         snap |-> [s \in Signals |-> "unpolled"], pending |-> {}]
SyncState == [phase : {"idle", "polling"}, testing : BOOLEAN,
              todo : SUBSET (SerialIds \X Signals),
              snap : [Signals -> Readings \cup {"unpolled"}],
              pending : SUBSET Entry]

\* An update of the dashboard.  If it gives its signal a modem as source, moved
\* are the other signals that show this modem.
Update == {u \in [signal : Signals, status : Statuses, moved : SUBSET Signals] :
              u.signal \notin u.moved}

\* The updates of a request, of one signal each.
Requests == {<<u>> : u \in Update} \cup
            IF MaxUpdates = 1 THEN {}
            ELSE {us \in Update \X Update : us[1].signal # us[2].signal}

NoArchive == [serial |-> Null, rows |-> {}]

VARIABLES
    range,      \* new_state of the latest RangeStateLog row
    serials,    \* serials[k]: the row of serial k, or NoSerial
    logs,       \* the SignalLog rows
    commit,     \* counts the sets of rows inserted in turn: the order of row ids
    clock,      \* the second CURRENT_TIMESTAMP returns
    sync,       \* sync[p]: the local state of a running sync_active_cbms
    archiving,  \* the serial being exported and the rows read for it
    modem,      \* what the modem of a signal is doing
    edits, changes, flips

vars == <<range, serials, logs, commit, clock, sync, archiving, modem,
          edits, changes, flips>>

-----------------------------------------------------------------------------
(* What the code reads.                                                    *)

InTesting == range = "Testing"

Exists(k) == serials[k].exists

Open(k) == Exists(k) /\ ~serials[k].closed

\* A serial the handlers accept: it belongs to the current workspace.
InScope(k) == k \in SerialIds /\ Exists(k) /\ serials[k].testing = InTesting

\* Faulty: the workspace of the serial is not checked.
ScopedUnchecked(k) == k

\* The serial_id the handlers go on with: an id out of scope becomes NULL.
Scoped(k) == IF InScope(k) THEN k ELSE Null

ActiveIn(k, w) == Open(k) /\ serials[k].started /\ serials[k].testing = w

ActiveSerials == {k \in SerialIds : ActiveIn(k, InTesting)}

\* Rows of workspace w for signal s, of serial k only unless k is NULL.
RowsOf(w, k, s) ==
    {r \in logs : /\ r.signal = s
                  /\ ~r.deleted
                  /\ r.testing = w
                  /\ k = Null \/ r.serial = k}

Visible(k, s) == RowsOf(InTesting, k, s)

\* order_by(timestamp.desc()).first(): any of the rows of the last second.
LatestByTs(R) == {r \in R : \A q \in R : q.ts <= r.ts}

\* max(SignalLog.id): ids grow with the commit that inserts the row, and in a
\* commit in the order the rows were added.
LatestById(R) == {r \in R : \A q \in R : q.id[1] <= r.id[1]}

\* What the dashboard widget of serial k shows for signal s.
WidgetUp(k, s) == \E r \in LatestById(Visible(k, s)) : r.status = "Up"

\* The latest row of signal s over all running serials.
ActiveSignalRows(s) ==
    LatestById({r \in Visible(Null, s) : r.serial \in ActiveSerials})

BuzzerActive ==
    /\ range # "Standby/Off"
    /\ \E s \in Signals : \E r \in ActiveSignalRows(s) : r.status = "Up"

\* Faulty: handlers run during an export.
LoopFreeWhileArchiving ==
    \A p \in Syncs : p = "button" => sync[p].phase = "idle"

\* The handlers' event loop is not held by a button sync or by an export.
LoopFree ==
    /\ archiving.serial = Null
    /\ \A p \in Syncs : p = "button" => sync[p].phase = "idle"

MayWrite(role) == role # "observer"

-----------------------------------------------------------------------------
(* Writing rows.                                                           *)

\* Faulty: the timestamp was taken before the previous commit.
StaleTick == {clock - 1, clock + 1}

Tick == IF CoarseClock THEN {clock, clock + 1} ELSE {clock + 1}

NewRow(n, e, t, w) ==
    [id |-> <<n, e.signal, e.serial>>, ts |-> t,
     signal |-> e.signal, serial |-> e.serial, status |-> e.status,
     testing |-> w, deleted |-> FALSE, origin |-> e.origin]

\* Inserts the sets of rows B in turn, in one commit.  The before_flush hook
\* stamps every new row with the workspace of the range state at that moment.
InsertInTurn(B) ==
    \E t \in Tick :
        /\ clock' = t
        /\ commit' = commit + Len(B)
        /\ logs' = logs \cup UNION {{NewRow(commit + i, e, t, InTesting) : e \in B[i]} :
                                       i \in DOMAIN B}

Insert(E) ==
    IF E = {} THEN UNCHANGED <<logs, commit, clock>> ELSE InsertInTurn(<<E>>)

EntryFor(s, k, st) ==
    [signal |-> s, serial |-> k, status |-> st, origin |-> "checked"]

\* What a handler takes from the latest of the rows R: any row of the last
\* second, or the default of signal_call and cbm_sync when there is none.
LatestOf(R, default) ==
    IF R = {}
    THEN {[serial |-> Null, status |-> default, origin |-> "checked"]}
    ELSE {[serial |-> r.serial, status |-> r.status, origin |-> r.origin] :
             r \in LatestByTs(R)}

\* Faulty: the latest row of the signal, whatever its serial.
ReadUpAnySerial(P, D) ==
    /\ D \subseteq P
    /\ \A p \in P : \E l \in LatestOf(Visible(Null, p[2]), "Down") :
                      (l.status = "Up") = (p \in D)

\* D is the set of the pairs <<serial, signal>> of P whose latest row reads Up.
ReadUp(P, D) ==
    /\ D \subseteq P
    /\ \A p \in P :
          LET latest == LatestOf(Visible(p[1], p[2]), "Down")
          IN  \E l \in latest : (l.status = "Up") = (p \in D)

\* Faulty: signal and serial swapped.
DownRowsSwapped(D) == {EntryFor(p[1], p[2], "Down") : p \in D}

DownRows(D) == {EntryFor(p[2], p[1], "Down") : p \in D}

Siblings(s) == IF s \in Group THEN Group \ {s} ELSE {}

\* The guard every handler that writes has in common, and its budget.
Edit ==
    /\ LoopFree
    /\ edits < MaxEdits
    /\ edits' = edits + 1
    /\ UNCHANGED <<changes, flips>>

EditLogs ==
    Edit /\ UNCHANGED <<range, serials, sync, archiving, modem>>

EditSerials == Edit /\ UNCHANGED <<range, sync, modem>>

-----------------------------------------------------------------------------
(* Serials (routers/serials.py, activities.py, history.py).                *)

\* SQLite hands out the largest id in use plus one.
NextSerialId(k) ==
    \A j \in SerialIds : /\ j >= k => ~Exists(j)
                         /\ j = k - 1 => Exists(j)

SerialCreate(k) ==
    /\ EditSerials
    /\ NextSerialId(k)
    /\ serials' = [serials EXCEPT ![k] = Pending(InTesting)]
    /\ UNCHANGED <<logs, commit, clock, archiving>>

\* The copy keeps the scope it is given: the other workspace.
SerialCopyToOther(k, n) ==
    /\ EditSerials
    /\ InScope(k)
    /\ NextSerialId(n)
    /\ serials' = [serials EXCEPT ![n] = Pending(~InTesting)]
    /\ UNCHANGED <<logs, commit, clock, archiving>>

\* Nothing refuses a serial that is running or closed already.
SerialStart(k) ==
    /\ EditSerials
    /\ InScope(k)
    /\ serials' = [serials EXCEPT ![k].started = TRUE]
    /\ Insert({EntryFor(s, k, "Planned") : s \in Package})
    /\ UNCHANGED archiving

\* end_serial on every serial of K, in one commit: K is one serial
\* (serial_end), or the running serials of an activity (activity_complete).
SerialsEnd(K) ==
    /\ EditSerials
    /\ \A k \in K : InScope(k) /\ Open(k)
    /\ Cardinality(K) > 1 => K \subseteq ActiveSerials
    /\ serials' = [k \in SerialIds |->
                      IF k \in K THEN [serials[k] EXCEPT !.closed = TRUE]
                                 ELSE serials[k]]
    /\ \E D \in SUBSET (K \X Signals) :
          ReadUp(K \X Signals, D) /\ Insert(DownRows(D))
    /\ UNCHANGED archiving

\* Only a pending serial; the ORM sets serial_id to NULL on its rows.
SerialDelete(k) ==
    /\ EditSerials
    /\ InScope(k) /\ Open(k) /\ ~serials[k].started
    /\ serials' = [serials EXCEPT ![k] = NoSerial]
    /\ logs' = {IF r.serial = k THEN [r EXCEPT !.serial = Null] ELSE r :
                   r \in logs}
    /\ UNCHANGED <<commit, clock, archiving>>

\* A supervisor archives a closed serial: its rows are read for the file,
ArchiveRead(k) ==
    /\ EditSerials
    /\ InScope(k) /\ serials[k].closed
    /\ archiving' = [serial |-> k,
                     rows |-> {r \in logs : /\ r.serial = k
                                            /\ r.testing = serials[k].testing}]
    /\ UNCHANGED <<serials, logs, commit, clock>>

\* and once the file is saved, every row of the serial goes, and the serial.
ArchiveDelete ==
    /\ archiving.serial # Null
    /\ logs' = {r \in logs : r.serial # archiving.serial}
    /\ serials' = [serials EXCEPT ![archiving.serial] = NoSerial]
    /\ archiving' = NoArchive
    /\ UNCHANGED <<range, commit, clock, sync, modem,
                   edits, changes, flips>>

-----------------------------------------------------------------------------
(* The signal log (routers/logs.py).                                       *)

LogCreate(k, s, st) ==
    /\ EditLogs
    /\ Insert({EntryFor(s, Scoped(k), st)})

ReplaceRow(r, q) ==
    /\ logs' = (logs \ {r}) \cup {q}
    /\ UNCHANGED <<commit, clock>>

LogUpdate(r, k, s, st) ==
    /\ EditLogs
    /\ r.testing = InTesting
    /\ ReplaceRow(r, [r EXCEPT !.serial = Scoped(k), !.signal = s,
                               !.status = st, !.origin = "checked"])

\* Faulty: the workspace of the row is not checked.
LogSoftDeleteAnywhere(r) ==
    /\ EditLogs
    /\ ReplaceRow(r, [r EXCEPT !.deleted = TRUE])

LogSoftDelete(r) ==
    /\ EditLogs
    /\ r.testing = InTesting
    /\ ReplaceRow(r, [r EXCEPT !.deleted = TRUE])

LogRestore(r) ==
    /\ EditLogs
    /\ r.testing = InTesting
    /\ ReplaceRow(r, [r EXCEPT !.deleted = FALSE])

\* Only a row that is soft-deleted already.
LogHardDelete(r) ==
    /\ EditLogs
    /\ r.testing = InTesting /\ r.deleted
    /\ logs' = logs \ {r}
    /\ UNCHANGED <<commit, clock>>

-----------------------------------------------------------------------------
(* The dashboard (routers/dashboard.py).                                   *)

\* The row of an update: of the serial of the request, or of the latest row.
OwnRow(j, u, l) ==
    IF j # Null THEN EntryFor(u.signal, j, u.status)
    ELSE [signal |-> u.signal, serial |-> l.serial, status |-> u.status,
          origin |-> l.origin]

\* Faulty: the siblings stay Up.
AddsAlone(j, u) ==
    {<<{}, {OwnRow(j, u, l)}>> : l \in LatestOf(Visible(j, u.signal), "Down")}

\* What an update may add, in turn: Down rows for the siblings that read Up, if it
\* brings its signal Up; then for each signal its modem is taken from a row
\* without it that repeats the latest status, and the row of its own.
Adds(j, u) ==
    LET siblings == IF u.status = "Up" THEN {j} \X Siblings(u.signal) ELSE {}
        kept == {m \in [u.moved -> Statuses] :
                    \A t \in u.moved : \E r \in LatestByTs(Visible(j, t)) : r.status = m[t]}
        latest == LatestOf(Visible(j, u.signal), "Down")
    IN  {<<DownRows(x[1]),
           {EntryFor(t, j, x[2][t]) : t \in u.moved} \cup {OwnRow(j, u, x[3])}>> :
            x \in {D \in SUBSET siblings : ReadUp(siblings, D)} \X kept \X latest}

\* bulk-update, and quick-update, which is one update.  Every update reads the
\* rows from before the request, since nothing is flushed until its end.
BulkUpdate(k, us) ==
    /\ EditLogs
    /\ \E added \in Adds(Scoped(k), us[1]),
          more \in IF Len(us) = 2 THEN Adds(Scoped(k), us[2]) ELSE {<<>>} :
          InsertInTurn(added \o more)

\* For a signal that need not have rows yet, and has no modem.
SignalAdd(k, s, st) ==
    LET j == Scoped(k)
        siblings == IF st = "Up" THEN {j} \X Siblings(s) ELSE {}
    IN  /\ EditLogs
        /\ \E D \in SUBSET siblings :
              /\ ReadUp(siblings, D)
              /\ Insert(DownRows(D) \cup {EntryFor(s, j, st)})

\* Refused while the latest row reads Up.
SignalDelete(k, s) ==
    LET gone == Visible(Scoped(k), s)
    IN  /\ EditLogs
        /\ gone # {}
        /\ \E r \in LatestByTs(gone) : r.status # "Up"
        /\ logs' = (logs \ gone) \cup {[r EXCEPT !.deleted = TRUE] : r \in gone}
        /\ UNCHANGED <<commit, clock>>

\* An effect row repeats the latest status.  The serial is not checked: a page
\* opened before a range state change may name one of the other workspace.
SignalCall(k, s) ==
    /\ EditLogs
    /\ \E l \in LatestOf(Visible(k, s), "Down") :
          Insert({[signal |-> s, serial |-> IF k # Null THEN k ELSE l.serial,
                   status |-> l.status,
                   origin |-> IF k = Null THEN l.origin
                              ELSE IF InScope(k) THEN "checked"
                              ELSE "unchecked"]})

-----------------------------------------------------------------------------
(* The range state (routers/range_state.py).                               *)

\* approved: a supervisor's username and password were given for Live.
ChangeState(role, new, approved) ==
    /\ LoopFree
    /\ changes < MaxChanges
    /\ MayWrite(role)
    /\ new # range
    /\ "Testing" \in {range, new} => role = "supervisor"
    /\ new = "Live" => role = "supervisor" \/ approved
    /\ range' = new
    /\ changes' = changes + 1
    /\ UNCHANGED <<serials, logs, commit, clock, sync, archiving, modem,
                   edits, flips>>

-----------------------------------------------------------------------------
(* The CBM sync (cbm_sync.py) and its loop (main.py).                      *)

SyncVars == <<range, serials, archiving, modem, edits, changes, flips>>

\* The workspace and the running serials are read once.  In a paused sandbox,
\* or with nothing mapped, only audit rows are written.
SyncStart(p) ==
    /\ sync[p].phase = "idle"
    /\ p = "button" => LoopFree
    /\ ~(InTesting /\ SandboxPaused)
    /\ ActiveSerials \X Mapped # {}
    /\ Cardinality(logs) < MaxRows
    /\ sync' = [sync EXCEPT ![p] =
                  [Idle EXCEPT !.phase = "polling", !.testing = InTesting,
                               !.todo = ActiveSerials \X Mapped]]
    /\ UNCHANGED <<logs, commit, clock, SyncVars>>

\* A modem is polled once per sync, unless it failed to answer.
Answers(p, s) ==
    IF sync[p].snap[s] # "unpolled"
    THEN {sync[p].snap[s]}
    ELSE {modem[s]} \cup IF NoisyModems THEN {"NoData", "unpolled"} ELSE {}

\* Faulty: compared with the latest row of the signal, whatever its serial.
SyncItemAnySerial(p, k, s) ==
    LET rows == RowsOf(sync[p].testing, Null, s)
    IN  /\ <<k, s>> \in sync[p].todo
        /\ \E a \in Answers(p, s), l \in LatestOf(rows, "Planned") :
              LET log == a \notin {"unpolled", "NoData", l.status}
                  row == [signal |-> s, serial |-> k, status |-> a,
                          origin |-> "unchecked"]
              IN  sync' = [sync EXCEPT
                             ![p].todo = @ \ {<<k, s>>},
                             ![p].snap[s] = a,
                             ![p].pending = @ \cup IF log THEN {row} ELSE {}]
        /\ UNCHANGED <<logs, commit, clock, SyncVars>>

\* The next signal: its modem's answer against the latest row of the serial.
\* A row is added when the status, or another metric, is not the logged one.
SyncItem(p, k, s) ==
    LET rows == RowsOf(sync[p].testing, k, s)
    IN  /\ <<k, s>> \in sync[p].todo
        /\ \E a \in Answers(p, s), l \in LatestOf(rows, "Planned"),
              metric \in IF NoisyModems THEN BOOLEAN ELSE {FALSE} :
              LET st == IF a = "NoData" THEN l.status ELSE a
                  log == a # "unpolled" /\ (rows = {} \/ st # l.status \/ metric)
                  row == [signal |-> s, serial |-> k, status |-> st,
                          origin |-> "unchecked"]
              IN  sync' = [sync EXCEPT
                             ![p].todo = @ \ {<<k, s>>},
                             ![p].snap[s] = a,
                             ![p].pending = @ \cup IF log THEN {row} ELSE {}]
        /\ UNCHANGED <<logs, commit, clock, SyncVars>>

\* One commit for the whole sync; the hook stamps the rows with the workspace
\* of this moment, not of the start.
SyncCommit(p) ==
    /\ sync[p].phase = "polling"
    /\ sync[p].todo = {}
    /\ Insert(sync[p].pending)
    /\ sync' = [sync EXCEPT ![p] = Idle]
    /\ UNCHANGED SyncVars

\* The loop swallows any exception and the session is closed uncommitted.
SyncFail(p) ==
    /\ NoisyModems
    /\ sync[p].phase = "polling"
    /\ sync' = [sync EXCEPT ![p] = Idle]
    /\ UNCHANGED <<logs, commit, clock, SyncVars>>

\* The environment: a modem starts or stops transmitting.
ModemFlip(s) ==
    /\ flips < MaxFlips
    /\ flips' = flips + 1
    /\ modem' = [modem EXCEPT ![s] = IF @ = "Up" THEN "Down" ELSE "Up"]
    /\ UNCHANGED <<range, serials, logs, commit, clock, sync, archiving,
                   edits, changes>>

\* The process stops and starts: what was not committed is gone.
Restart ==
    /\ flips < MaxFlips
    /\ flips' = flips + 1
    /\ sync' = [p \in Syncs |-> Idle]
    /\ archiving' = NoArchive
    /\ UNCHANGED <<range, serials, logs, commit, clock, modem,
                   edits, changes>>

-----------------------------------------------------------------------------
\* Every serial of 1..Running was created and started, one after the other; a
\* signal that is Up was updated then.
StartRow(k, s, st) ==
    [id |-> <<k, s, k>>, ts |-> k, signal |-> s, serial |-> k,
     status |-> st, testing |-> FALSE, deleted |-> FALSE,
     origin |-> "checked"]

Init ==
    /\ range = IF Running = 0 THEN "Standby/Off" ELSE "Closed Loop"
    /\ serials = [k \in SerialIds |->
                     IF k <= Running
                     THEN [Pending(FALSE) EXCEPT !.started = TRUE]
                     ELSE NoSerial]
    /\ \E st \in [Package -> Begun] :
          logs = {StartRow(p[1], p[2], st[p[2]]) : p \in (1..Running) \X Package}
    /\ commit = Running
    /\ clock = Running
    /\ sync = [p \in Syncs |-> Idle]
    /\ archiving = NoArchive
    /\ modem = [s \in Mapped |-> "Down"]
    /\ edits = 0 /\ changes = 0 /\ flips = 0

SerialNext ==
    \/ \E k \in SerialIds :
          \/ SerialCreate(k)
          \/ SerialStart(k)
          \/ SerialDelete(k)
          \/ ArchiveRead(k)
          \/ \E n \in SerialIds : SerialCopyToOther(k, n)
    \/ \E K \in (SUBSET SerialIds) \ {{}} : SerialsEnd(K)
    \/ ArchiveDelete

LogNext ==
    \/ \E k \in SerialIds \cup {Null}, s \in Signals, st \in Statuses :
          \/ LogCreate(k, s, st)
          \/ \E r \in logs : LogUpdate(r, k, s, st)
    \/ \E r \in logs : LogSoftDelete(r) \/ LogRestore(r) \/ LogHardDelete(r)

DashboardNext ==
    \E k \in SerialIds \cup {Null} :
        \/ \E s \in Signals : SignalDelete(k, s) \/ SignalCall(k, s)
        \/ \E s \in Signals, st \in Statuses : SignalAdd(k, s, st)
        \/ \E us \in Requests : BulkUpdate(k, us)

StateNext ==
    \E role \in Roles, new \in States, approved \in BOOLEAN :
        ChangeState(role, new, approved)

SyncNext ==
    \/ \E p \in Syncs :
          \/ SyncStart(p)
          \/ \E k \in SerialIds, s \in Mapped : SyncItem(p, k, s)
          \/ SyncCommit(p)
          \/ SyncFail(p)
    \/ \E s \in Mapped : ModemFlip(s)
    \/ Restart

Next == SerialNext \/ LogNext \/ DashboardNext \/ StateNext \/ SyncNext

Spec == Init /\ [][Next]_vars

\* The loop starts a sync again after every interval, its thread runs to the
\* end, and so does a handler once it has started.
Fairness ==
    /\ \A p \in Syncs :
          /\ WF_vars(SyncStart(p))
          /\ WF_vars(\E k \in SerialIds, s \in Mapped : SyncItem(p, k, s))
          /\ WF_vars(SyncCommit(p))
    /\ WF_vars(ArchiveDelete)

FairSpec == Spec /\ Fairness

-----------------------------------------------------------------------------
(* Properties.                                                             *)

\* Type invariant: every variable keeps the shape its table or its local
\* state has in the code.
TypeOK ==
    /\ range \in States
    /\ serials \in [SerialIds -> Serial]
    /\ logs \in SUBSET Row
    /\ commit \in Nat
    /\ clock \in Nat
    /\ sync \in [Syncs -> SyncState]
    /\ archiving \in [serial : SerialIds \cup {Null}, rows : SUBSET Row]
    /\ modem \in [Mapped -> {"Up", "Down"}]
    /\ edits \in Nat /\ changes \in Nat /\ flips \in Nat

\* Every row a handler filed after checking the workspace stays filed in a
\* serial that exists and belongs to the workspace of the row: deletion,
\* archiving and the reuse of ids never leave such a row pointing nowhere or
\* into the other workspace (serials.py, logs.py, dashboard.py, history.py).
FiledInOwnWorkspace ==
    \A r \in logs :
        (r.origin = "checked" /\ r.serial # Null) =>
            /\ serials[r.serial].exists
            /\ serials[r.serial].testing = r.testing

\* The two rules the code reads the latest row by agree: a row is not older
\* than one inserted by the same or an earlier commit (dashboard.py max(id) against the
\* handlers' order_by(timestamp)).
ReadingRulesAgree ==
    \A r, q \in logs : r.id[1] <= q.id[1] => r.ts <= q.ts

\* While a serial is exported, every row of it that a handler filed is among
\* the rows read for the file, although the sync thread goes on committing:
\* archiving destroys none of them unexported (serial_archive.py).
ArchiveKeepsHandlerRows ==
    archiving.serial # Null =>
        \A r \in logs :
            (r.serial = archiving.serial /\ r.origin = "checked") =>
                r \in archiving.rows

\* Strengthening of the three invariants above, so that every action preserves
\* their conjunction: rows are numbered and dated no later than the counters,
\* a sync gathers rows of unchecked origin only, and an export holds the event
\* loop, so that its serial stays in the current workspace.
RowsInOrder == \A r \in logs : r.id[1] <= commit /\ r.ts <= clock

PendingUnchecked ==
    \A p \in Syncs : \A e \in sync[p].pending : e.origin = "unchecked"

ArchiveInScope ==
    archiving.serial # Null => /\ serials[archiving.serial].exists
                               /\ serials[archiving.serial].testing = InTesting

IndInv ==
    /\ TypeOK
    /\ FiledInOwnWorkspace
    /\ ReadingRulesAgree
    /\ ArchiveKeepsHandlerRows
    /\ RowsInOrder
    /\ PendingUnchecked
    /\ ArchiveInScope

\* A handler or a sync changes rows of the current workspace only, and what it
\* adds belongs to it: the other workspace gains pending copies of serials and
\* is otherwise left alone.  Rows misfiled without a check are exempt: they
\* follow the serial they point to when it is archived or deleted.
Isolates ==
    /\ \A r \in (logs \ logs') \cup (logs' \ logs) :
          r.testing = InTesting \/ r.origin = "unchecked"
    /\ \A k \in SerialIds :
          (Exists(k) /\ serials[k].testing # InTesting) =>
              serials'[k] = serials[k]

WorkspaceIsolation == [][Isolates]_vars

\* Ending a serial silences it: at that moment no signal of it reads Up on its
\* widget, unless rows of one and the same second disagree (end_serial).
Agree(R) == \A r, q \in R : (r.status = "Up") = (q.status = "Up")

SilencesOnEnd ==
    \A k \in SerialIds, s \in Signals :
        (/\ Open(k) /\ serials'[k].closed
         /\ Agree(LatestByTs(Visible(k, s)))) => ~WidgetUp(k, s)'

EndSilences == [][SilencesOnEnd]_vars

\* The same request brings t Up as well, or moves a modem away from it in or
\* after update i: then its row repeats what it read before.
UpAgain(us, i, t) ==
    \E j \in DOMAIN us :
        (us[j].signal = t /\ us[j].status = "Up") \/ (i <= j /\ t \in us[j].moved)

\* When the dashboard of a serial brings a signal of the group Up, a sibling that
\* reads Up there afterwards is one the handler lets stay: the same request brings
\* it Up too, or moves its modem away after its Down row (dashboard.py:333).  So no
\* sibling stays because of a modem moved by an earlier update, or of the order in
\* which rows of one commit are written.  Also exempt are rows of one second that
\* disagree: the handler reads by timestamp what the widget reads by id.
DownsSiblings ==
    \A k \in SerialIds, t \in Group :
        (InScope(k) /\ WidgetUp(k, t)' /\ Agree(LatestByTs(Visible(k, t)))) =>
            /\ \A s \in Siblings(t) : ~SignalAdd(k, s, "Up")
            /\ \A us \in Requests : \A i \in DOMAIN us :
                  (/\ us[i].signal \in Siblings(t) /\ us[i].status = "Up"
                   /\ ~UpAgain(us, i, t)) => ~BulkUpdate(k, us)

DashboardUpIsExclusive == [][DownsSiblings]_vars

\* Once operators and modems leave it alone, the log of every mapped signal on
\* a running serial comes to say what its modem does, except in a sandbox whose
\* hardware sync is paused (cbm_sync.py).
SyncConverges ==
    \A k \in SerialIds, s \in Mapped :
        <>[]((k \in ActiveSerials /\ ~(InTesting /\ SandboxPaused)) =>
                \E r \in LatestById(Visible(k, s)) : r.status = modem[s])

(* What a comment or a document says, and the code does not do.            *)

\* serials.py: "no signal on a historical serial may remain Up".
NoUpOnClosedSerial ==
    \A k \in SerialIds, s \in Signals :
        serials[k].closed =>
            \A r \in LatestById(RowsOf(serials[k].testing, k, s)) :
                r.status # "Up"

\* docs/HANDOVER.md: log rows "do not accidentally leak into the wrong
\* workspace": a row filed in a serial is in the workspace of that serial.
RowsFollowTheirSerial ==
    \A r \in logs :
        (r.serial # Null /\ serials[r.serial].exists) =>
            serials[r.serial].testing = r.testing

\* templates/config.html: exclusivity groups "enforce mutual exclusion: only one
\* signal per group can be Up at a time": a request of the dashboard leaves one.
OneUpAfterUpdate ==
    [][\A k \in SerialIds, us \in Requests : \A i \in DOMAIN us :
          (/\ InScope(k) /\ us[i].status = "Up" /\ \A j \in DOMAIN us : us[j].moved = {}
           /\ BulkUpdate(k, us)) =>
              \A t \in Siblings(us[i].signal) : ~WidgetUp(k, t)']_vars

\* docs/HANDOVER.md: the transmitting badge shows "when range is Live/Closed
\* Loop and any signal is Up".
BadgeShowsEveryUp ==
    (/\ range \in {"Live", "Closed Loop"}
     /\ \E k \in ActiveSerials, s \in Signals : WidgetUp(k, s)) => BuzzerActive
=============================================================================
