------------------------------ MODULE Routing ------------------------------
(***************************************************************************)
(* The RF devices: registry, routing matrices and their SNMP polls, cables *)
(* between devices, routing presets, and the preset check of a range state *)
(* change (routers/devices.py, snmp_sync.py, snmp.py,                      *)
(* routers/range_state.py).                                                *)
(*                                                                         *)
(* A request that polls holds the event loop until the matrix has answered *)
(* or not, so it is one step here.  The background sweep runs on a thread: *)
(* it reads the devices, polls one after the other, reads the ports of one *)
(* when it has answered, and commits after the last.  Two forms are        *)
(* awaited after their device was read.  Between their steps anything may  *)
(* happen, and they write only the columns they change, as the session     *)
(* does.  A port row has the identity of its device, side and number.      *)
(*                                                                         *)
(* One matrix answers at the address every device uses.  Inputs and        *)
(* outputs are equally many.  Names, aliases, credentials, the modem       *)
(* fields and audit rows are left out, and so is who may do what: no       *)
(* account is modelled.                                                    *)
(***************************************************************************)
EXTENDS Integers, FiniteSets

CONSTANTS
    Operational,    \* range states other than Testing
    Types,          \* device types
    FirstType,      \* the type of the device there is at first
    FirstRouting,   \* what the matrix carries at first
    Sizes,          \* port counts an administrator enters
    MaxDevices,     \* bound: device ids
    MaxPort,        \* bound: ports on a side, 128 in the code
    MaxRequests,    \* bound: requests
    MaxTurns        \* bound: changes of the matrix itself

Testing == "Testing"
States == Operational \cup {Testing}
Ids == 1..MaxDevices
Idx == 1..MaxPort

ASSUME StatesAssumption ==
    /\ Testing \notin Operational /\ "Standby/Off" \in Operational
    /\ Types \subseteq {"splitter", "combiner", "switch", "modem"}
    /\ Sizes \subseteq 0..MaxPort

ASSUME BoundsAssumption ==
    /\ MaxDevices \in Nat /\ MaxPort \in Nat \ {0}
    /\ MaxRequests \in Nat /\ MaxTurns \in Nat

RoutingTypes == Types \cap {"splitter", "combiner", "switch"}
MonitoredTypes == Types \cap {"splitter", "combiner"}

ASSUME FirstAssumption == FirstType \in MonitoredTypes /\ FirstRouting \in [Idx -> {0} \cup Idx]

Sides == {"in", "out"}
Modes == {"input_to_output", "output_to_input"}
SideOf(mode) == IF mode = "input_to_output" THEN "in" ELSE "out"
ModeOf(type) == IF type = "combiner" THEN "input_to_output" ELSE "output_to_input"

\* What a port row says: nothing, 0 for a terminated port, or a port.
None == -1
Seen == {None, 0} \cup Idx

NoPorts == [s \in Sides |-> [i \in Idx |-> None]]

\* Some ports with the port each is connected to.
Routes == UNION {[S -> {0} \cup Idx] : S \in SUBSET Idx}

\* What the matrix would answer.
Matrix == [mode : Modes, routing : Routes, module : {"ok", "fault"}]

\* made counts the port rows of a side; module is the cached module table.
Device == [testing : BOOLEAN, type : Types, snmp : BOOLEAN, size : 0..MaxPort,
           made : 0..MaxPort, seen : [Sides -> [Idx -> Seen]],
           plan : [Idx -> Seen], module : {"none", "ok", "fault"},
           muted : BOOLEAN, alarm : {"none", "ok", "fault"}]

NoDevice == [testing |-> FALSE, size |-> -1]

Preset == [device : Ids, state : Operational, routes : Routes]
Link == [from : Ids, to : Ids, testing : BOOLEAN]

\* What a session holds of a device it has read, as far as it makes use of it.
Held == [made : 0..MaxPort, seen : [Sides -> [Idx -> Seen]], module : {"none", "ok", "fault"},
         muted : BOOLEAN, alarm : {"none", "ok", "fault"}]

\* A form that is awaited: what was read of the device, and what is posted.
Form == [id : Ids, read : Held, mutes : BOOLEAN] \cup
        [id : Ids, size : 0..MaxPort, plans : {None} \cup Idx]

VARIABLES
    matrix,     \* the hardware
    state,      \* the range state
    paused,     \* sandbox_hardware_sync_paused
    device,     \* rf_devices with their device_ports
    presets,    \* routing_presets
    links,      \* device_links
    sweep,      \* devices the background poll has read, with the ports it read later
    polled,     \* the same devices as the answers have changed them in its session
    forms,      \* forms that are awaited
    check,      \* history: how the step changed the range state
    requests,
    turns

vars == <<matrix, state, paused, device, presets, links, sweep, polled, forms, check, requests,
          turns>>

-----------------------------------------------------------------------------
Existing == {d \in Ids : device[d] # NoDevice}
IsTesting == state = Testing
InWorkspace == {d \in Existing : device[d].testing = IsTesting}

\* SQLite gives the next id after the largest: that of a deleted last row again.
NextId == CHOOSE i \in 1..(MaxDevices + 1) :
            /\ \A d \in Existing : d < i
            /\ i = 1 \/ i - 1 \in Existing

\* The history of steps that do not change the state.
NoChange == [changed |-> FALSE, reviewed |-> FALSE, answered |-> {}]
Check == [changed : BOOLEAN, reviewed : BOOLEAN, answered : SUBSET Ids]

Counted == requests < MaxRequests /\ requests' = requests + 1
Request == Counted /\ check' = NoChange

-----------------------------------------------------------------------------
(* Polling.                                                                 *)

Effective(module, muted) == IF module = "fault" /\ muted THEN "ok" ELSE module

\* No known routing table: no routes, and the default mode.
Snapshot == IF DOMAIN matrix.routing = {} THEN [matrix EXCEPT !.mode = "output_to_input"]
            ELSE matrix

\* Mistake: ports the device has no row for are not skipped.
ObservedAnyPort(seen, made) ==
    [s \in Sides |-> [i \in Idx |->
        IF s # SideOf(Snapshot.mode) THEN None
        ELSE IF i \in DOMAIN Snapshot.routing THEN Snapshot.routing[i]
        ELSE seen[s][i]]]

Observed(seen, made) ==
    [s \in Sides |-> [i \in Idx |->
        IF s # SideOf(Snapshot.mode) THEN None
        ELSE IF i \in DOMAIN Snapshot.routing /\ i <= made THEN Snapshot.routing[i]
        ELSE seen[s][i]]]

\* A column is written when it differs from what the session read.
Column(read, new, now) == IF new = read THEN now ELSE new

\* Mistake: acknowledged modules count again at every poll.
PolledUnmuted(read) ==
    [read EXCEPT !.seen = Observed(read.seen, read.made),
                 !.module = Snapshot.module, !.alarm = Snapshot.module]

\* poll_snmp_device with an answer: the device in the session that has read it.
Polled(read) ==
    [read EXCEPT !.seen = Observed(read.seen, read.made),
                 !.module = Snapshot.module,
                 !.alarm = Effective(Snapshot.module, read.muted)]

\* A device without its ports, which are loaded when they are asked for.
Read(d) == [made |-> 0, seen |-> NoPorts, module |-> device[d].module,
            muted |-> device[d].muted, alarm |-> device[d].alarm]

\* What a commit makes of the row as it is now.
Written(read, new, now) ==
    [now EXCEPT !.seen = [s \in Sides |-> [i \in Idx |->
                             Column(read.seen[s][i], new.seen[s][i], now.seen[s][i])]],
                !.module = Column(read.module, new.module, now.module),
                !.alarm = Column(read.alarm, new.alarm, now.alarm)]

\* Read, polled and committed while nothing else happens.
PolledAll(answered) ==
    [d \in Ids |-> IF d \in answered THEN Polled(device[d]) ELSE device[d]]

SandboxPaused == IsTesting /\ paused
Watched == {d \in InWorkspace : device[d].snmp /\ device[d].type \in MonitoredTypes}

\* The button; devices that do not answer keep what was read before.
PollActive ==
    /\ Request /\ ~SandboxPaused
    /\ \E answered \in SUBSET Watched : device' = PolledAll(answered)
    /\ UNCHANGED <<matrix, state, paused, presets, links, sweep, polled, forms, turns>>

\* The background thread reads the devices.
SweepStart ==
    /\ sweep = <<>> /\ Watched # {} /\ ~SandboxPaused
    /\ sweep' = [d \in Watched |-> Read(d)]
    /\ check' = NoChange
    /\ UNCHANGED <<matrix, state, paused, device, presets, links, polled, forms, requests, turns>>

\* The ports are loaded after the answer: none if the device is gone by then.
Loaded(d) ==
    IF device[d] = NoDevice THEN sweep[d]
    ELSE [sweep[d] EXCEPT !.made = device[d].made, !.seen = device[d].seen]

\* It polls them one after the other; one that does not answer keeps its ports.
SweepPoll(d, answers) ==
    /\ d \in DOMAIN sweep \ DOMAIN polled
    /\ \A e \in DOMAIN sweep \ DOMAIN polled : d <= e
    /\ sweep' = IF answers THEN [sweep EXCEPT ![d] = Loaded(d)] ELSE sweep
    /\ polled' = [e \in DOMAIN polled \cup {d} |->
                     IF e \in DOMAIN polled THEN polled[e]
                     ELSE IF answers THEN Polled(Loaded(d)) ELSE sweep[d]]
    /\ check' = NoChange
    /\ UNCHANGED <<matrix, state, paused, device, presets, links, forms, requests, turns>>

\* Every device read is written, with its status at least: if one is gone, or a
\* port that changed, the commit fails and the loop drops the sweep.
RowsThere ==
    \A d \in DOMAIN sweep :
        /\ device[d] # NoDevice
        /\ \A s \in Sides, i \in Idx :
              polled[d].seen[s][i] # sweep[d].seen[s][i] => i <= device[d].made

SweepCommit ==
    /\ sweep # <<>> /\ DOMAIN polled = DOMAIN sweep
    /\ device' = IF RowsThere
                 THEN [d \in Ids |-> IF d \in DOMAIN sweep
                                     THEN Written(sweep[d], polled[d], device[d]) ELSE device[d]]
                 ELSE device
    /\ sweep' = <<>> /\ polled' = <<>> /\ check' = NoChange
    /\ UNCHANGED <<matrix, state, paused, presets, links, forms, requests, turns>>

Pause ==
    /\ Request
    /\ paused' = ~paused
    /\ UNCHANGED <<matrix, state, device, presets, links, sweep, polled, forms, turns>>

\* The matrix is switched, loses a module or is replaced.
Turn ==
    /\ turns < MaxTurns /\ turns' = turns + 1
    /\ \/ \E routing \in Routes : matrix' = [matrix EXCEPT !.routing = routing]
       \/ \E module \in {"ok", "fault"} : matrix' = [matrix EXCEPT !.module = module]
       \/ \E mode \in Modes : matrix' = [matrix EXCEPT !.mode = mode]
    /\ matrix' # matrix
    /\ check' = NoChange
    /\ UNCHANGED <<state, paused, device, presets, links, sweep, polled, forms, requests>>

-----------------------------------------------------------------------------
(* The registry.                                                            *)

Size(type, size) == IF type \in RoutingTypes THEN size ELSE 1
WithPorts(d) == [d EXCEPT !.made = IF @ < d.size THEN d.size ELSE @]

NewDevice(testing, type, snmp, size) ==
    [testing |-> testing, type |-> type, snmp |-> snmp /\ type \in MonitoredTypes,
     size |-> Size(type, size), made |-> 0,
     seen |-> NoPorts, plan |-> [i \in Idx |-> None],
     module |-> "none", muted |-> FALSE, alarm |-> "none"]

CreateDevice(type, snmp, size) ==
    /\ Request /\ NextId \in Ids
    /\ device' = [device EXCEPT ![NextId] = NewDevice(IsTesting, type, snmp, size)]
    /\ UNCHANGED <<matrix, state, paused, presets, links, sweep, polled, forms, turns>>

\* Port rows, what was read on them and presets outlive a change of type.
UpdateDevice(d, type, snmp, size) ==
    /\ Request /\ d \in InWorkspace
    /\ device' = [device EXCEPT ![d].type = type, ![d].snmp = snmp /\ type \in MonitoredTypes,
                                ![d].size = Size(type, size)]
    /\ UNCHANGED <<matrix, state, paused, presets, links, sweep, polled, forms, turns>>

\* The ports go with the device; cables and presets stay.
DeleteDevice(d) ==
    /\ Request /\ d \in InWorkspace
    /\ device' = [device EXCEPT ![d] = NoDevice]
    /\ UNCHANGED <<matrix, state, paused, presets, links, sweep, polled, forms, turns>>

\* The routing page makes missing port rows.  A cable to a device that is gone
\* makes it fail, after the rows were committed.
OpenRouting(d) ==
    /\ Request /\ d \in InWorkspace
    /\ device' = [device EXCEPT ![d] = WithPorts(@)]
    /\ UNCHANGED <<matrix, state, paused, presets, links, sweep, polled, forms, turns>>

TestSnmp(d, answers) ==
    /\ Request /\ d \in InWorkspace /\ device[d].type \in MonitoredTypes
    /\ LET ready == WithPorts(device[d])
       IN device' = [device EXCEPT ![d] = IF answers THEN Polled(ready) ELSE ready]
    /\ UNCHANGED <<matrix, state, paused, presets, links, sweep, polled, forms, turns>>

\* Both forms look the device up in the workspace before they are awaited.
PostMute(d, mutes) ==
    /\ Request /\ d \in InWorkspace
    /\ forms' = forms \cup {[id |-> d, read |-> Read(d), mutes |-> mutes]}
    /\ UNCHANGED <<matrix, state, paused, device, presets, links, sweep, polled, turns>>

PostRouting(d, plans) ==
    /\ Request /\ d \in InWorkspace
    /\ forms' = forms \cup {[id |-> d, size |-> device[d].size, plans |-> plans]}
    /\ UNCHANGED <<matrix, state, paused, device, presets, links, sweep, polled, turns>>

Muted(f, now) ==
    LET alarm == IF f.read.module = "none" THEN f.read.alarm
                 ELSE Effective(f.read.module, f.mutes)
    IN [now EXCEPT !.muted = Column(f.read.muted, f.mutes, now.muted),
                   !.alarm = Column(f.read.alarm, alarm, now.alarm)]

\* The row is gone: an update of it fails, unless no column changes.
Mute(f) ==
    /\ "mutes" \in DOMAIN f
    /\ device[f.id] # NoDevice
    /\ device' = [device EXCEPT ![f.id] = Muted(f, @)]

\* The rows are read after the form: every output gets the source posted.
Plan(f) ==
    /\ "plans" \in DOMAIN f
    /\ device[f.id] # NoDevice
    /\ device' = [device EXCEPT ![f.id].plan =
                    [i \in Idx |-> IF i <= f.size /\ i <= device[f.id].made
                                   THEN f.plans ELSE @[i]]]

Submit ==
    \E f \in forms :
        /\ forms' = forms \ {f} /\ check' = NoChange
        /\ Mute(f) \/ Plan(f) \/ (device[f.id] = NoDevice /\ device' = device)
        /\ UNCHANGED <<matrix, state, paused, presets, links, sweep, polled, requests, turns>>

-----------------------------------------------------------------------------
(* Cables and presets.                                                      *)

AddLink(d, e) ==
    /\ Request /\ d \in InWorkspace /\ e \in InWorkspace /\ d # e
    /\ links' = links \cup {[from |-> d, to |-> e, testing |-> IsTesting]}
    /\ UNCHANGED <<matrix, state, paused, device, presets, sweep, polled, forms, turns>>

\* The audit text names both devices: a cable to a deleted one cannot be removed.
DeleteLink(l) ==
    /\ Request /\ l \in links /\ l.testing = IsTesting
    /\ {l.from, l.to} \subseteq Existing
    /\ links' = links \ {l}
    /\ UNCHANGED <<matrix, state, paused, device, presets, sweep, polled, forms, turns>>

\* What was read on the side the device's type keeps it.
Current(d) == device[d].seen[SideOf(ModeOf(device[d].type))]
Recorded(d) == {i \in Idx : i <= device[d].made /\ Current(d)[i] # None}

SavePreset(d, target) ==
    /\ Request /\ d \in InWorkspace
    /\ presets' = {p \in presets : ~(p.device = d /\ p.state = target)} \cup
                  {[device |-> d, state |-> target, routes |-> [i \in Recorded(d) |-> Current(d)[i]]]}
    /\ UNCHANGED <<matrix, state, paused, device, links, sweep, polled, forms, turns>>

\* In whatever workspace, of whatever device.
DeletePreset(p) ==
    /\ Request /\ p \in presets
    /\ presets' = presets \ {p}
    /\ UNCHANGED <<matrix, state, paused, device, links, sweep, polled, forms, turns>>

-----------------------------------------------------------------------------
(* The range state.                                                         *)

\* Presets whose device exists and that name a port at all.
Wanted(target) ==
    {p \in presets : p.state = target /\ p.routes # <<>> /\ p.device \in Existing}

\* _poll_devices_for_presets, of either workspace.
PollTargets(target) ==
    IF SandboxPaused THEN {}
    ELSE {d \in Existing : device[d].snmp /\ \E p \in presets : p.device = d /\ p.state = target}

\* A change to be made by hand, or a port that cannot be told.
Mismatch(p, seen, made) ==
    \/ \A i \in Idx : i <= made => seen[i] = None
    \/ \E i \in DOMAIN p.routes : i > made \/ seen[i] # p.routes[i]

Mismatched(target, rows) ==
    \E p \in Wanted(target) :
        Mismatch(p, rows[p.device].seen[SideOf(ModeOf(rows[p.device].type))], rows[p.device].made)

\* Opening the page for a state polls as well, and saves what was read.
OpenChange(target) ==
    /\ Request
    /\ \E answered \in SUBSET PollTargets(target) : device' = PolledAll(answered)
    /\ UNCHANGED <<matrix, state, paused, presets, links, sweep, polled, forms, turns>>

\* _ensure_testing_workspace: the first time, copies that are not monitored.
Clone(d) == [NewDevice(TRUE, d.type, FALSE, d.size) EXCEPT !.made = d.made, !.plan = d.plan]

Seeded(rows) ==
    LET originals == {d \in Existing : ~rows[d].testing}
        copy(d) == NextId + Cardinality({e \in originals : e < d})
        copied == [d \in originals |-> copy(d)]
    IN IF originals # Existing THEN [rows |-> rows, links |-> links]
       ELSE [rows |-> [i \in Ids |-> IF \E d \in originals : copied[d] = i
                                     THEN Clone(rows[CHOOSE d \in originals : copied[d] = i])
                                     ELSE rows[i]],
             links |-> links \cup
                 {[from |-> copied[l.from], to |-> copied[l.to], testing |-> TRUE] :
                     l \in {k \in links : ~k.testing /\ {k.from, k.to} \subseteq originals}}]

RoomToSeed ==
    \/ \E d \in Existing : device[d].testing
    \/ NextId - 1 + Cardinality(Existing) <= MaxDevices

\* Mistake: compared with what the database holds.
PassesUnpolled(target, answered) == ~Mismatched(target, device)

\* The presets agree with what the matrices answered just now.
Passes(target, answered) == ~Mismatched(target, PolledAll(answered))

\* Unless the routing was reviewed, a mismatch is shown instead, and what was
\* polled is lost with the session.  Who may change to which state, the
\* acknowledgement and the second signature for Live are left open.
ChangeState(target, reviewed) ==
    /\ Counted /\ target # state /\ (target = Testing => RoomToSeed)
    /\ \E answered \in SUBSET (IF reviewed THEN {} ELSE PollTargets(target)) :
        /\ reviewed \/ Passes(target, answered)
        /\ LET rows == PolledAll(answered)
               seeded == IF target = Testing THEN Seeded(rows) ELSE [rows |-> rows, links |-> links]
           IN device' = seeded.rows /\ links' = seeded.links
        /\ check' = [changed |-> TRUE, reviewed |-> reviewed, answered |-> answered]
    /\ state' = target
    /\ UNCHANGED <<matrix, paused, presets, sweep, polled, forms, turns>>

-----------------------------------------------------------------------------
\* One operational matrix, monitored, with its ports: what CreateDevice and
\* OpenRouting leave.  All is well with the hardware.
Init ==
    /\ state = "Standby/Off" /\ paused = FALSE
    /\ matrix = [mode |-> ModeOf(FirstType), routing |-> FirstRouting, module |-> "ok"]
    /\ device = [d \in Ids |-> IF d = 1
                               THEN WithPorts(NewDevice(FALSE, FirstType, TRUE, MaxPort))
                               ELSE NoDevice]
    /\ presets = {} /\ links = {} /\ sweep = <<>> /\ polled = <<>> /\ forms = {}
    /\ check = NoChange /\ requests = 0 /\ turns = 0

Registry ==
    \/ \E type \in Types, snmp \in BOOLEAN, size \in Sizes : CreateDevice(type, snmp, size)
    \/ \E d \in Ids, type \in Types, snmp \in BOOLEAN, size \in Sizes :
            UpdateDevice(d, type, snmp, size)
    \/ \E d \in Ids : DeleteDevice(d)
    \/ \E d \in Ids : OpenRouting(d)
    \/ \E d \in Ids, answers \in BOOLEAN : TestSnmp(d, answers)
    \/ \E d \in Ids, mutes \in BOOLEAN : PostMute(d, mutes)
    \/ \E d \in Ids, plans \in {None} \cup Idx : PostRouting(d, plans)
    \/ \E d, e \in Ids : AddLink(d, e)
    \/ \E l \in links : DeleteLink(l)

Presetting ==
    \/ \E d \in Ids, target \in Operational : SavePreset(d, target)
    \/ \E p \in presets : DeletePreset(p)
    \/ \E target \in States : OpenChange(target)
    \/ \E target \in States, reviewed \in BOOLEAN : ChangeState(target, reviewed)

Sweep ==
    \/ SweepStart \/ SweepCommit
    \/ \E d \in Ids, answers \in BOOLEAN : SweepPoll(d, answers)

Next == Registry \/ Presetting \/ Submit \/ PollActive \/ Pause \/ Sweep \/ Turn

\* The loop sleeps and sweeps again, when SNMP_AUTO_SYNC_SECONDS is set; a matrix
\* that is polled again and again answers now and then.
Fairness == WF_vars(Sweep) /\ \A d \in Ids : SF_vars(SweepPoll(d, TRUE))

Spec == Init /\ [][Next]_vars /\ Fairness

-----------------------------------------------------------------------------
\* The shape of the rows.  A device never shows a port it has no row for, and has
\* one preset for a state.
TypeOK ==
    /\ matrix \in Matrix /\ state \in States /\ paused \in BOOLEAN
    /\ \A d \in Existing :
        /\ device[d] \in Device
        /\ \A s \in Sides, i \in Idx : i > device[d].made => device[d].seen[s][i] = None
    /\ presets \subseteq Preset /\ links \subseteq Link /\ forms \subseteq Form
    /\ DOMAIN sweep \subseteq Ids /\ \A d \in DOMAIN sweep : sweep[d] \in Held
    /\ DOMAIN polled \subseteq DOMAIN sweep /\ \A d \in DOMAIN polled : polled[d] \in Held
    /\ \A p, q \in presets : p.device = q.device /\ p.state = q.state => p = q
    /\ check \in Check /\ requests \in 0..MaxRequests /\ turns \in 0..MaxTurns

\* What the matrix reports for the ports of a preset is what the preset asks for.
Satisfied(p) ==
    \A i \in DOMAIN p.routes \cap DOMAIN Snapshot.routing :
        /\ Snapshot.mode = ModeOf(device[p.device].type)
        /\ Snapshot.routing[i] = p.routes[i]

\* A range state changes without the routing having been reviewed only if every
\* matrix with a preset for the new state that answered the poll of that very
\* request carried the routes of the preset (range_state.py:298-319), whatever
\* was edited, switched, retyped or read in the background before.
CheckedRouting ==
    [][check'.changed /\ ~check'.reviewed =>
        \A p \in Wanted(state') : p.device \in check'.answered => Satisfied(p)]_vars

\* What the comment above the poll says of it: "stale/missing data is then
\* flagged as unverified inside _routing_mismatches" (range_state.py:31-32).
\* An unreviewed change was verified by a poll of every matrix it has a preset for.
UnverifiedIsFlagged ==
    [][check'.changed /\ ~check'.reviewed =>
        \A p \in Wanted(state') : p.device \in check'.answered]_vars

\* What is shown of a device is what the matrix last reported, with the alarm
\* as acknowledged.
Agrees(d) ==
    /\ d \in Existing
    /\ device[d].alarm = Effective(Snapshot.module, device[d].muted)
    /\ device[d].seen = Observed(device[d].seen, device[d].made)

\* A device the sweep goes on watching comes to show the routes and the alarm
\* of the matrix, for good once nothing changes, also after an acknowledgement
\* or a deletion crossed a sweep (snmp_sync.py:62, devices.py:421).
ObservedSettles ==
    \A d \in Ids : <>[](d \in Watched /\ ~SandboxPaused) => <>[]Agrees(d)

\* "Splitter-style matrices store output -> input on output ports; combiner-style
\* matrices store input -> output on input ports" (snmp_sync.py:66-68): a device
\* shows one side.  It does not while a test of a matrix of the other kind was
\* committed between the poll of a sweep and its commit, until the next poll.
OneSide ==
    \A d \in Existing : \E s \in Sides : \A i \in Idx : device[d].seen[s][i] = None
=============================================================================
