---------------------------- MODULE RoutingProofs ----------------------------
(***************************************************************************)
(* Proofs about Routing, for every number of devices and ports, every set  *)
(* of device types and every routing of the matrix: what the tables hold,  *)
(* and that a change of the range state which nobody reviewed found the    *)
(* presets on every matrix that answered.                                  *)
(*                                                                         *)
(* That the background sweep comes to agree with the matrix is a liveness  *)
(* property and is model-checked only.                                     *)
(***************************************************************************)
EXTENDS Routing, FiniteSetTheorems, TLAPS

\* A row of the device table with its ports: nothing is shown of a port without
\* a row.
Row == {r \in Device : \A s \in Sides, i \in Idx : i > r.made => r.seen[s][i] = None}

Hardware == matrix \in Matrix /\ state \in States /\ paused \in BOOLEAN

Devices == device \in [Ids -> Row \cup {NoDevice}]

\* A device has one preset for a state.
Presets ==
    /\ presets \subseteq Preset
    /\ \A p, q \in presets : p.device = q.device /\ p.state = q.state => p = q

Waiting ==
    /\ forms \subseteq Form
    /\ DOMAIN sweep \subseteq Ids /\ \A d \in DOMAIN sweep : sweep[d] \in Held
    /\ DOMAIN polled \subseteq DOMAIN sweep /\ \A d \in DOMAIN polled : polled[d] \in Held

Counts == check \in Check /\ requests \in 0..MaxRequests /\ turns \in 0..MaxTurns

IndInv == Hardware /\ Devices /\ Presets /\ links \subseteq Link /\ Waiting /\ Counts

-----------------------------------------------------------------------------
(* What is read of a matrix.                                                *)

LEMMA PortNumbers == Ids \subseteq Nat /\ Idx \subseteq Nat /\ 1 \in 0..MaxPort /\ 0 \in 0..MaxPort
BY BoundsAssumption DEF Ids, Idx

LEMMA SidesOfModes ==
    /\ \A m \in Modes : SideOf(m) \in Sides
    /\ \A m, n \in Modes : SideOf(m) = SideOf(n) => m = n
    /\ \A type : ModeOf(type) \in Modes
BY DEF SideOf, ModeOf, Sides, Modes

LEMMA SnapshotTyped == ASSUME Hardware PROVE Snapshot \in Matrix
BY DEF Hardware, Snapshot, Matrix, Modes

\* What a poll leaves of the two sides of a device.
LEMMA ObservedTyped ==
    ASSUME Hardware, NEW seen \in [Sides -> [Idx -> Seen]], NEW made \in 0..MaxPort
    PROVE  /\ Observed(seen, made) \in [Sides -> [Idx -> Seen]]
           /\ (\A s \in Sides, i \in Idx : i > made => seen[s][i] = None) =>
                \A s \in Sides, i \in Idx : i > made => Observed(seen, made)[s][i] = None
<1> DEFINE here == SideOf(Snapshot.mode)
           o == Observed(seen, made)
<1>1. Snapshot.mode \in Modes /\ Snapshot.routing \in Routes
  BY SnapshotTyped DEF Matrix
<1>2. here \in Sides
  BY <1>1, SidesOfModes
<1>3. \A i \in DOMAIN Snapshot.routing : Snapshot.routing[i] \in {0} \cup Idx
  BY <1>1 DEF Routes
<1>4. \A s \in Sides, i \in Idx :
        /\ s # here => o[s][i] = None
        /\ s = here /\ i \in DOMAIN Snapshot.routing /\ i <= made => o[s][i] = Snapshot.routing[i]
        /\ s = here /\ ~(i \in DOMAIN Snapshot.routing /\ i <= made) => o[s][i] = seen[s][i]
  BY DEF Observed
<1>5. \A s \in Sides, i \in Idx : o[s][i] \in Seen
  BY <1>3, <1>4 DEF Seen
<1>6. o \in [Sides -> [Idx -> Seen]]
  <2>1. o = [s \in Sides |-> [i \in Idx |-> o[s][i]]]
    BY DEF Observed
  <2> HIDE DEF o
  <2> QED
    BY <1>5, <2>1
<1>7. ASSUME \A s \in Sides, i \in Idx : i > made => seen[s][i] = None,
             NEW s \in Sides, NEW i \in Idx, i > made
      PROVE  o[s][i] = None
  <2>1. ~(i <= made)
    BY <1>7, PortNumbers
  <2> QED
    BY <1>4, <1>7, <2>1
<1> QED
  BY <1>6, <1>7

\* What a session holds of a device is again such a thing after a poll.
LEMMA PolledHeld == ASSUME Hardware, NEW read \in Held PROVE Polled(read) \in Held
<1> DEFINE seen == Observed(read.seen, read.made)
           module == Snapshot.module
           alarm == Effective(module, read.muted)
           new == [read EXCEPT !.seen = seen, !.module = module, !.alarm = alarm]
<1>1. module \in {"none", "ok", "fault"}
  BY SnapshotTyped DEF Matrix
<1>2. alarm \in {"none", "ok", "fault"}
  BY <1>1 DEF Effective
<1>3. seen \in [Sides -> [Idx -> Seen]]
  BY ObservedTyped DEF Held
<1>4. Polled(read) = new
  BY DEF Polled
<1> HIDE DEF seen, module, alarm
<1>5. new \in Held
  BY <1>1, <1>2, <1>3 DEF Held
<1> QED
  BY <1>4, <1>5

\* A poll leaves a row, of the same device with the same ports.
LEMMA PolledTyped ==
    ASSUME Hardware, NEW now \in Row
    PROVE  /\ Polled(now) \in Row
           /\ Polled(now).type = now.type /\ Polled(now).testing = now.testing
           /\ Polled(now).made = now.made
           /\ Polled(now).seen = Observed(now.seen, now.made)
<1> DEFINE seen == Observed(now.seen, now.made)
           module == Snapshot.module
           alarm == Effective(module, now.muted)
           new == [now EXCEPT !.seen = seen, !.module = module, !.alarm = alarm]
<1>1. module \in {"none", "ok", "fault"}
  BY SnapshotTyped DEF Matrix
<1>2. alarm \in {"none", "ok", "fault"}
  BY <1>1 DEF Effective
<1>3. now \in Device /\ now.seen \in [Sides -> [Idx -> Seen]] /\ now.made \in 0..MaxPort
  BY DEF Row, Device
<1>4. \A s \in Sides, i \in Idx : i > now.made => now.seen[s][i] = None
  BY DEF Row
<1>5. /\ seen \in [Sides -> [Idx -> Seen]]
      /\ \A s \in Sides, i \in Idx : i > now.made => seen[s][i] = None
  BY <1>3, <1>4, ObservedTyped
<1>6. Polled(now) = new
  BY DEF Polled
<1> HIDE DEF seen, module, alarm
<1>7. new \in Device /\ new.type = now.type /\ new.testing = now.testing
        /\ new.made = now.made /\ new.seen = seen
  BY <1>1, <1>2, <1>3, <1>5 DEF Device
<1>8. new \in Row
  BY <1>5, <1>7 DEF Row
<1> QED
  BY <1>6, <1>7, <1>8 DEF seen

\* What a commit writes over a row, of ports the row has, leaves a row.
LEMMA WrittenRow ==
    ASSUME NEW read \in Held, NEW new \in Held, NEW now \in Row,
           \A s \in Sides, i \in Idx : new.seen[s][i] # read.seen[s][i] => i <= now.made
    PROVE  Written(read, new, now) \in Row
<1> DEFINE seen == [s \in Sides |-> [i \in Idx |->
                       Column(read.seen[s][i], new.seen[s][i], now.seen[s][i])]]
           module == Column(read.module, new.module, now.module)
           alarm == Column(read.alarm, new.alarm, now.alarm)
           row == [now EXCEPT !.seen = seen, !.module = module, !.alarm = alarm]
<1>1. now \in Device /\ now.seen \in [Sides -> [Idx -> Seen]] /\ now.made \in 0..MaxPort
  BY DEF Row, Device
<1>2. new.seen \in [Sides -> [Idx -> Seen]]
  BY DEF Held
<1>3. module \in {"none", "ok", "fault"} /\ alarm \in {"none", "ok", "fault"}
  BY <1>1 DEF Column, Held, Device
<1>4. \A s \in Sides, i \in Idx : Column(read.seen[s][i], new.seen[s][i], now.seen[s][i]) \in Seen
  BY <1>1, <1>2 DEF Column
<1>5. seen \in [Sides -> [Idx -> Seen]]
  BY <1>4
<1>6. ASSUME NEW s \in Sides, NEW i \in Idx, i > now.made PROVE seen[s][i] = None
  <2>1. ~(i <= now.made)
    BY <1>1, <1>6, PortNumbers, BoundsAssumption
  <2>2. new.seen[s][i] = read.seen[s][i] /\ now.seen[s][i] = None
    BY <1>6, <2>1 DEF Row
  <2>3. seen[s][i] = Column(read.seen[s][i], new.seen[s][i], now.seen[s][i])
    OBVIOUS
  <2> HIDE DEF seen
  <2> QED
    BY <2>2, <2>3 DEF Column
<1>7. Written(read, new, now) = row
  BY DEF Written
<1> HIDE DEF seen, module, alarm
<1>8. row \in Device /\ row.seen = seen /\ row.made = now.made
  BY <1>1, <1>3, <1>5 DEF Device
<1>9. row \in Row
  BY <1>6, <1>8 DEF Row
<1> QED
  BY <1>7, <1>9

LEMMA ExistingRows ==
    ASSUME Devices, NEW d \in Existing
    PROVE  d \in Ids /\ device[d] \in Row /\ device[d] \in Device
BY DEF Devices, Existing, Row

\* Polling some of the devices that exist.
LEMMA PolledAllTyped ==
    ASSUME Hardware, Devices, NEW answered \in SUBSET Existing
    PROVE  PolledAll(answered) \in [Ids -> Row \cup {NoDevice}]
<1>1. ASSUME NEW d \in Ids PROVE PolledAll(answered)[d] \in Row \cup {NoDevice}
  <2>1. CASE d \in answered
    BY <2>1, ExistingRows, PolledTyped DEF PolledAll
  <2>2. CASE d \notin answered
    BY <2>2 DEF PolledAll, Devices
  <2> QED
    BY <2>1, <2>2
<1>2. PolledAll(answered) = [d \in Ids |-> PolledAll(answered)[d]]
  BY DEF PolledAll
<1> QED
  BY <1>1, <1>2

-----------------------------------------------------------------------------
\* A request that writes devices only, and rows again.
LEMMA DeviceStep ==
    ASSUME IndInv, Request, device' \in [Ids -> Row \cup {NoDevice}],
           UNCHANGED <<matrix, state, paused, presets, links, sweep, polled, forms, turns>>
    PROVE  IndInv'
<1>1. requests' \in 0..MaxRequests
  BY BoundsAssumption DEF Request, Counted, IndInv, Counts
<1>2. check' \in Check
  BY DEF Request, NoChange, Check
<1> QED
  BY <1>1, <1>2 DEF IndInv, Hardware, Devices, Presets, Waiting, Counts

\* A request that writes no device.
LEMMA OtherStep ==
    ASSUME IndInv, Request, UNCHANGED <<matrix, state, device, sweep, polled, turns>>,
           paused' \in BOOLEAN, Presets', links' \subseteq Link, forms' \subseteq Form
    PROVE  IndInv'
<1>1. requests' \in 0..MaxRequests
  BY BoundsAssumption DEF Request, Counted, IndInv, Counts
<1>2. check' \in Check
  BY DEF Request, NoChange, Check
<1> QED
  BY <1>1, <1>2 DEF IndInv, Hardware, Devices, Waiting, Counts

\* A device just registered, or copied for Testing, shows nothing.
LEMMA NewDeviceRow ==
    ASSUME NEW testing \in BOOLEAN, NEW type \in Types, NEW snmp \in BOOLEAN,
           NEW size \in 0..MaxPort
    PROVE  /\ NewDevice(testing, type, snmp, size) \in Row
           /\ WithPorts(NewDevice(testing, type, snmp, size)) \in Row
<1> DEFINE new == NewDevice(testing, type, snmp, size)
<1>1. Size(type, size) \in 0..MaxPort
  BY PortNumbers DEF Size
<1>2. None \in Seen
  BY DEF Seen
<1>3. new \in Device
  BY <1>1, <1>2, PortNumbers DEF NewDevice, NoPorts, Device
<1>4. \A s \in Sides, i \in Idx : new.seen[s][i] = None
  BY DEF NewDevice, NoPorts
<1> HIDE DEF new
<1>6. new \in Row
  BY <1>3, <1>4 DEF Row
<1>7. WithPorts(new) \in Device /\ WithPorts(new).seen = new.seen
  BY <1>3 DEF WithPorts, Device
<1>8. WithPorts(new) \in Row
  BY <1>4, <1>7 DEF Row
<1> QED
  BY <1>6, <1>8 DEF new

\* Port rows are added, never taken away.
LEMMA WithPortsRow == ASSUME NEW r \in Row PROVE WithPorts(r) \in Row
<1>1. r \in Device
  BY DEF Row
<1>2. WithPorts(r) \in Device /\ WithPorts(r).seen = r.seen
        /\ WithPorts(r).made \in 0..MaxPort /\ r.made \in 0..MaxPort
        /\ WithPorts(r).made = (IF r.made < r.size THEN r.size ELSE r.made)
        /\ r.size \in 0..MaxPort
  BY <1>1 DEF WithPorts, Device
<1>3. WithPorts(r).made >= r.made
  BY <1>2, BoundsAssumption
<1>4. ASSUME NEW s \in Sides, NEW i \in Idx, i > WithPorts(r).made PROVE r.seen[s][i] = None
  <2>1. i > r.made
    BY <1>2, <1>3, <1>4, PortNumbers, BoundsAssumption
  <2> QED
    BY <2>1 DEF Row
<1> QED
  BY <1>2, <1>4 DEF Row

\* The place of a new device is that of the next number.
LEMMA CreateStep ==
    ASSUME IndInv, NEW type \in Types, NEW snmp \in BOOLEAN, NEW size \in Sizes,
           CreateDevice(type, snmp, size)
    PROVE  IndInv'
<1>1. size \in 0..MaxPort /\ IsTesting \in BOOLEAN
  BY StatesAssumption DEF IsTesting
<1>2. NewDevice(IsTesting, type, snmp, size) \in Row
  BY <1>1, NewDeviceRow
<1>3. device' \in [Ids -> Row \cup {NoDevice}]
  BY <1>2 DEF CreateDevice, IndInv, Devices
<1> QED
  BY <1>3, DeviceStep DEF CreateDevice

\* A row that keeps its ports and what was read on them is a row.
LEMMA SameSeen ==
    ASSUME NEW r \in Row, NEW n \in Device, n.seen = r.seen, n.made = r.made
    PROVE  n \in Row
BY DEF Row

LEMMA UpdateStep ==
    ASSUME IndInv, NEW d \in Ids, NEW type \in Types, NEW snmp \in BOOLEAN, NEW size \in Sizes,
           UpdateDevice(d, type, snmp, size)
    PROVE  IndInv'
<1> DEFINE new == [device[d] EXCEPT !.type = type, !.snmp = snmp /\ type \in MonitoredTypes,
                                    !.size = Size(type, size)]
<1>1. d \in Existing
  BY DEF UpdateDevice, InWorkspace
<1>2. device[d] \in Row /\ device[d] \in Device
  BY <1>1, ExistingRows DEF IndInv
<1>3. Size(type, size) \in 0..MaxPort
  BY StatesAssumption, PortNumbers DEF Size
<1>4. new \in Device /\ new.seen = device[d].seen /\ new.made = device[d].made
  BY <1>2, <1>3 DEF Device
<1>5. new \in Row
  BY <1>2, <1>4, SameSeen
<1>6. device' = [device EXCEPT ![d] = new]
  BY DEF UpdateDevice, IndInv, Devices
<1> HIDE DEF new
<1>7. device' \in [Ids -> Row \cup {NoDevice}]
  BY <1>5, <1>6 DEF IndInv, Devices
<1> QED
  BY <1>7, DeviceStep DEF UpdateDevice

LEMMA DeleteStep ==
    ASSUME IndInv, NEW d \in Ids, DeleteDevice(d)
    PROVE  IndInv'
<1>1. device' \in [Ids -> Row \cup {NoDevice}]
  BY DEF DeleteDevice, IndInv, Devices
<1> QED
  BY <1>1, DeviceStep DEF DeleteDevice

LEMMA OpenRoutingStep ==
    ASSUME IndInv, NEW d \in Ids, OpenRouting(d)
    PROVE  IndInv'
<1>1. device[d] \in Row
  BY ExistingRows DEF OpenRouting, InWorkspace, IndInv
<1>2. device' \in [Ids -> Row \cup {NoDevice}]
  BY <1>1, WithPortsRow DEF OpenRouting, IndInv, Devices
<1> QED
  BY <1>2, DeviceStep DEF OpenRouting

LEMMA TestSnmpStep ==
    ASSUME IndInv, NEW d \in Ids, NEW answers \in BOOLEAN, TestSnmp(d, answers)
    PROVE  IndInv'
<1> DEFINE ready == WithPorts(device[d])
           new == IF answers THEN Polled(ready) ELSE ready
<1>1. device[d] \in Row
  BY ExistingRows DEF TestSnmp, InWorkspace, IndInv
<1>2. ready \in Row
  BY <1>1, WithPortsRow
<1>3. ready \in Device
  BY <1>2 DEF Row
<1>4. new \in Row
  <2> HIDE DEF ready
  <2> QED
    BY <1>2, <1>3, PolledTyped DEF IndInv
<1>5. device' = [device EXCEPT ![d] = new]
  BY DEF TestSnmp
<1> HIDE DEF new
<1>6. device' \in [Ids -> Row \cup {NoDevice}]
  BY <1>4, <1>5 DEF IndInv, Devices
<1> QED
  BY <1>6, DeviceStep DEF TestSnmp

LEMMA PollActiveStep ==
    ASSUME IndInv, PollActive
    PROVE  IndInv'
<1>1. PICK answered \in SUBSET Watched : device' = PolledAll(answered)
  BY DEF PollActive
<1>2. answered \in SUBSET Existing
  BY DEF Watched, InWorkspace
<1>3. device' \in [Ids -> Row \cup {NoDevice}]
  BY <1>1, <1>2, PolledAllTyped DEF IndInv
<1> QED
  BY <1>3, DeviceStep DEF PollActive

LEMMA OpenChangeStep ==
    ASSUME IndInv, NEW target \in States, OpenChange(target)
    PROVE  IndInv'
<1>1. PICK answered \in SUBSET PollTargets(target) : device' = PolledAll(answered)
  BY DEF OpenChange
<1>2. answered \in SUBSET Existing
  BY DEF PollTargets
<1>3. device' \in [Ids -> Row \cup {NoDevice}]
  BY <1>1, <1>2, PolledAllTyped DEF IndInv
<1> QED
  BY <1>3, DeviceStep DEF OpenChange

-----------------------------------------------------------------------------
\* What is read of a device that exists.
LEMMA ReadHeld == ASSUME NEW d \in Ids, device[d] \in Device PROVE Read(d) \in Held
<1>1. NoPorts \in [Sides -> [Idx -> Seen]]
  BY DEF NoPorts, Seen
<1> QED
  BY <1>1, PortNumbers DEF Read, Held, Device

\* The sweep reads what there is.
LEMMA SweepStartStep ==
    ASSUME IndInv, SweepStart
    PROVE  IndInv'
<1>1. sweep' = [d \in Watched |-> Read(d)] /\ check' = NoChange /\ polled' = polled
  BY DEF SweepStart
<1>2. ASSUME NEW d \in Watched PROVE d \in Ids /\ Read(d) \in Held
  BY ExistingRows, ReadHeld DEF Watched, InWorkspace, IndInv
<1>3. DOMAIN sweep' \subseteq Ids /\ \A d \in DOMAIN sweep' : sweep'[d] \in Held
  BY <1>1, <1>2
<1>4. DOMAIN sweep = {}
  BY DEF SweepStart
<1>5. DOMAIN polled = {}
  BY <1>4 DEF IndInv, Waiting
<1>6. DOMAIN polled' \subseteq DOMAIN sweep' /\ \A d \in DOMAIN polled' : polled'[d] \in Held
  BY <1>1, <1>5
<1>7. check' \in Check
  BY <1>1 DEF NoChange, Check
<1> QED
  BY <1>3, <1>6, <1>7 DEF SweepStart, IndInv, Hardware, Devices, Presets, Waiting, Counts

\* It polls a device that it holds, and holds the answer too.
LEMMA SweepPollStep ==
    ASSUME IndInv, NEW d \in Ids, NEW answers \in BOOLEAN, SweepPoll(d, answers)
    PROVE  IndInv'
<1> DEFINE loaded == Loaded(d)
           new == IF answers THEN Polled(loaded) ELSE sweep[d]
<1>1. d \in DOMAIN sweep /\ sweep[d] \in Held
  BY DEF SweepPoll, IndInv, Waiting
<1>2. loaded \in Held
  <2>1. CASE device[d] = NoDevice
    BY <1>1, <2>1 DEF Loaded
  <2>2. CASE device[d] # NoDevice
    <3>1. device[d] \in Device
      BY <2>2, ExistingRows DEF Existing, IndInv
    <3>2. device[d].made \in 0..MaxPort /\ device[d].seen \in [Sides -> [Idx -> Seen]]
      BY <3>1 DEF Device
    <3>3. loaded = [sweep[d] EXCEPT !.made = device[d].made, !.seen = device[d].seen]
      BY <2>2 DEF Loaded
    <3> QED
      BY <1>1, <3>2, <3>3 DEF Held
  <2> QED
    BY <2>1, <2>2
<1> HIDE DEF loaded
<1>3. new \in Held
  BY <1>1, <1>2, PolledHeld DEF IndInv
<1>4. /\ sweep' = IF answers THEN [sweep EXCEPT ![d] = loaded] ELSE sweep
      /\ polled' = [e \in DOMAIN polled \cup {d} |-> IF e \in DOMAIN polled THEN polled[e] ELSE new]
  BY DEF SweepPoll, loaded
<1> HIDE DEF new
<1>5. DOMAIN sweep' = DOMAIN sweep /\ \A e \in DOMAIN sweep' : sweep'[e] \in Held
  BY <1>2, <1>4 DEF IndInv, Waiting
<1>6. DOMAIN polled' = DOMAIN polled \cup {d} /\ \A e \in DOMAIN polled' : polled'[e] \in Held
  BY <1>3, <1>4 DEF IndInv, Waiting
<1>7. Waiting'
  BY <1>1, <1>5, <1>6 DEF SweepPoll, IndInv, Waiting
<1>8. Counts'
  BY DEF SweepPoll, IndInv, Counts, NoChange, Check
<1> QED
  BY <1>7, <1>8 DEF SweepPoll, IndInv, Hardware, Devices, Presets

\* It writes rows again, of devices that still exist.
LEMMA SweepCommitStep ==
    ASSUME IndInv, SweepCommit
    PROVE  IndInv'
<1> DEFINE new == [d \in Ids |-> IF d \in DOMAIN sweep
                                 THEN Written(sweep[d], polled[d], device[d]) ELSE device[d]]
<1>1. ASSUME RowsThere PROVE new \in [Ids -> Row \cup {NoDevice}]
  <2> SUFFICES ASSUME NEW d \in Ids PROVE new[d] \in Row \cup {NoDevice}
    OBVIOUS
  <2>1. CASE d \in DOMAIN sweep
    <3>1. device[d] \in Row
      BY <1>1, <2>1, ExistingRows DEF RowsThere, Existing, IndInv
    <3>2. sweep[d] \in Held /\ polled[d] \in Held
      BY <2>1 DEF SweepCommit, IndInv, Waiting
    <3>3. \A s \in Sides, i \in Idx :
             polled[d].seen[s][i] # sweep[d].seen[s][i] => i <= device[d].made
      BY <1>1, <2>1 DEF RowsThere
    <3>4. Written(sweep[d], polled[d], device[d]) \in Row
      BY <3>1, <3>2, <3>3, WrittenRow
    <3> QED
      BY <2>1, <3>4
  <2>2. CASE d \notin DOMAIN sweep
    BY <2>2 DEF IndInv, Devices
  <2> QED
    BY <2>1, <2>2
<1>2. device' = IF RowsThere THEN new ELSE device
  BY DEF SweepCommit
<1> HIDE DEF new
<1>3. device' \in [Ids -> Row \cup {NoDevice}]
  BY <1>1, <1>2 DEF IndInv, Devices
<1>4. sweep' = <<>> /\ polled' = <<>> /\ check' = NoChange
  BY DEF SweepCommit
<1>5. DOMAIN sweep' = {} /\ DOMAIN polled' = {}
  BY <1>4
<1>6. check' \in Check
  BY <1>4 DEF NoChange, Check
<1> QED
  BY <1>3, <1>5, <1>6 DEF SweepCommit, IndInv, Hardware, Devices, Presets, Waiting, Counts

\* The matrix changes to one that could be.
LEMMA TurnStep ==
    ASSUME IndInv, Turn
    PROVE  IndInv'
<1>1. matrix \in Matrix
  BY DEF IndInv, Hardware
<1>2. matrix' \in Matrix
  BY <1>1 DEF Turn, Matrix
<1>3. turns' \in 0..MaxTurns
  BY BoundsAssumption DEF Turn, IndInv, Counts
<1>4. check' \in Check
  BY DEF Turn, NoChange, Check
<1> QED
  BY <1>2, <1>3, <1>4 DEF Turn, IndInv, Hardware, Devices, Presets, Waiting, Counts

\* A form keeps what was read of the device.
LEMMA PostStep ==
    ASSUME IndInv, NEW d \in Ids,
           \/ \E mutes \in BOOLEAN : PostMute(d, mutes)
           \/ \E plans \in {None} \cup Idx : PostRouting(d, plans)
    PROVE  IndInv'
<1>1. device[d] \in Device
  BY ExistingRows DEF PostMute, PostRouting, InWorkspace, IndInv
<1>2. Read(d) \in Held /\ device[d].size \in 0..MaxPort
  BY <1>1, ReadHeld DEF Device
<1>3. forms' \subseteq Form
  BY <1>2 DEF PostMute, PostRouting, Form, IndInv, Waiting
<1> QED
  BY <1>3, OtherStep DEF PostMute, PostRouting, IndInv, Hardware, Presets

\* What an acknowledgement and a routing form write leaves a row.
LEMMA SubmitStep ==
    ASSUME IndInv, Submit
    PROVE  IndInv'
<1>1. PICK f \in forms :
        /\ forms' = forms \ {f} /\ check' = NoChange
        /\ Mute(f) \/ Plan(f) \/ (device[f.id] = NoDevice /\ device' = device)
        /\ UNCHANGED <<matrix, state, paused, presets, links, sweep, polled, requests, turns>>
  BY DEF Submit
<1>2. f \in Form
  BY DEF IndInv, Waiting
<1>3. f.id \in Ids
  BY <1>2 DEF Form
<1>4. ASSUME device[f.id] # NoDevice PROVE device[f.id] \in Row /\ device[f.id] \in Device
  BY <1>3, <1>4, ExistingRows DEF Existing, IndInv
<1>5. ASSUME Mute(f) PROVE Devices'
  <2> DEFINE now == device[f.id]
             alarm == IF f.read.module = "none" THEN f.read.alarm
                      ELSE Effective(f.read.module, f.mutes)
             m == Column(f.read.muted, f.mutes, now.muted)
             a == Column(f.read.alarm, alarm, now.alarm)
             new == [now EXCEPT !.muted = m, !.alarm = a]
  <2>1. now \in Row /\ now \in Device
    BY <1>4, <1>5 DEF Mute
  <2>2. f.mutes \in BOOLEAN /\ f.read \in Held
    BY <1>2, <1>5 DEF Mute, Form
  <2>3. m \in BOOLEAN
    BY <2>1, <2>2 DEF Column, Device
  <2>4. a \in {"none", "ok", "fault"}
    BY <2>1, <2>2 DEF Column, Effective, Held, Device
  <2>5. device' = [device EXCEPT ![f.id] = new]
    BY <1>5 DEF Mute, Muted
  <2> HIDE DEF now, m, a
  <2>6. new \in Device /\ new.seen = now.seen /\ new.made = now.made
    BY <2>1, <2>3, <2>4 DEF Device
  <2>7. new \in Row
    BY <2>1, <2>6, SameSeen
  <2> HIDE DEF new
  <2> QED
    BY <2>5, <2>7 DEF IndInv, Devices
<1>6. ASSUME Plan(f) PROVE Devices'
  <2> DEFINE now == device[f.id]
             plan == [i \in Idx |-> IF i <= f.size /\ i <= now.made
                                    THEN f.plans ELSE now.plan[i]]
             new == [now EXCEPT !.plan = plan]
  <2>1. now \in Row /\ now \in Device
    BY <1>4, <1>6 DEF Plan
  <2>2. f.plans \in Seen
    BY <1>2, <1>6 DEF Plan, Form, Seen
  <2>3. now.plan \in [Idx -> Seen]
    BY <2>1 DEF Device
  <2>4. plan \in [Idx -> Seen]
    BY <2>2, <2>3
  <2>5. device' = [device EXCEPT ![f.id] = new]
    BY <1>3, <1>6 DEF Plan, IndInv, Devices
  <2> HIDE DEF now, plan
  <2>6. new \in Device /\ new.seen = now.seen /\ new.made = now.made
    BY <2>1, <2>4 DEF Device
  <2>7. new \in Row
    BY <2>1, <2>6, SameSeen
  <2> HIDE DEF new
  <2> QED
    BY <2>5, <2>7 DEF IndInv, Devices
<1>7. Devices'
  BY <1>1, <1>5, <1>6 DEF IndInv, Devices
<1>8. check' \in Check
  BY <1>1 DEF NoChange, Check
<1>9. forms' \subseteq Form
  BY <1>1 DEF IndInv, Waiting
<1> QED
  BY <1>1, <1>7, <1>8, <1>9 DEF IndInv, Hardware, Presets, Waiting, Counts

\* Cables, presets and the pause.
LEMMA TablesStep ==
    ASSUME IndInv,
           \/ Pause
           \/ \E d, e \in Ids : AddLink(d, e)
           \/ \E l \in links : DeleteLink(l)
           \/ \E d \in Ids, target \in Operational : SavePreset(d, target)
           \/ \E p \in presets : DeletePreset(p)
    PROVE  IndInv'
<1>1. links \subseteq Link /\ Presets /\ paused \in BOOLEAN /\ forms \subseteq Form
  BY DEF IndInv, Hardware, Waiting
<1>2. CASE Pause
  BY <1>1, <1>2, OtherStep DEF Pause, Presets
<1>3. ASSUME NEW d \in Ids, NEW e \in Ids, AddLink(d, e) PROVE IndInv'
  <2>1. [from |-> d, to |-> e, testing |-> IsTesting] \in Link
    BY DEF Link, IsTesting
  <2>2. links' \subseteq Link
    BY <1>1, <1>3, <2>1 DEF AddLink
  <2> QED
    BY <1>1, <1>3, <2>2, OtherStep DEF AddLink, Presets
<1>4. ASSUME NEW l \in links, DeleteLink(l) PROVE IndInv'
  BY <1>1, <1>4, OtherStep DEF DeleteLink, Presets
<1>5. ASSUME NEW d \in Ids, NEW target \in Operational, SavePreset(d, target) PROVE IndInv'
  <2> DEFINE routes == [i \in Recorded(d) |-> Current(d)[i]]
             new == [device |-> d, state |-> target, routes |-> routes]
  <2>1. device[d] \in Device
    BY <1>5, ExistingRows DEF SavePreset, InWorkspace, IndInv
  <2>2. Current(d) \in [Idx -> Seen]
    BY <2>1, SidesOfModes DEF Current, Device
  <2>3. Recorded(d) \in SUBSET Idx /\ \A i \in Recorded(d) : Current(d)[i] \in {0} \cup Idx
    BY <2>2 DEF Recorded, Seen
  <2>4. routes \in [Recorded(d) -> {0} \cup Idx]
    BY <2>3
  <2>5. routes \in Routes
    BY <2>3, <2>4 DEF Routes
  <2>6. presets' = {p \in presets : ~(p.device = d /\ p.state = target)} \cup {new}
    BY <1>5 DEF SavePreset
  <2> HIDE DEF routes
  <2>7. new \in Preset /\ new.device = d /\ new.state = target
    BY <2>5 DEF Preset
  <2> HIDE DEF new
  <2>8. Presets'
    BY <1>1, <2>6, <2>7 DEF Presets
  <2> QED
    BY <1>1, <1>5, <2>8, OtherStep DEF SavePreset
<1>6. ASSUME NEW p \in presets, DeletePreset(p) PROVE IndInv'
  <2>1. Presets'
    BY <1>1, <1>6 DEF DeletePreset, Presets
  <2> QED
    BY <1>1, <1>6, <2>1, OtherStep DEF DeletePreset
<1> QED
  BY <1>2, <1>3, <1>4, <1>5, <1>6

-----------------------------------------------------------------------------
(* Entering Testing for the first time copies the devices.                  *)

\* A set of naturals that is not empty has a least element.
LEMMA LeastExists ==
    ASSUME NEW S \in SUBSET Nat, S # {}
    PROVE  \E x \in S : \A y \in S : x <= y
<1> DEFINE T == {0..x : x \in S}
<1>1. T \subseteq FiniteSubsetsOf(Nat)
  <2> SUFFICES ASSUME NEW x \in S PROVE 0..x \in FiniteSubsetsOf(Nat)
    OBVIOUS
  <2>1. IsFiniteSet(0..x)
    BY FS_Interval
  <2>2. 0..x \subseteq Nat
    OBVIOUS
  <2> QED
    BY <2>1, <2>2 DEF FiniteSubsetsOf
<1>2. T # {}
  OBVIOUS
<1>3. PICK t \in T : \A s \in T : <<s, t>> \notin StrictSubsetOrdering(Nat)
  <2>1. IsWellFoundedOn(StrictSubsetOrdering(Nat), FiniteSubsetsOf(Nat))
    BY FS_StrictSubsetOrderingWellFounded
  <2> HIDE DEF T
  <2> QED
    BY <1>1, <1>2, <2>1, WFMin
<1>4. PICK x \in S : t = 0..x
  OBVIOUS
<1>5. ASSUME NEW y \in S, y < x
      PROVE  FALSE
  <2>1. 0..y \subseteq 0..x /\ 0..y # 0..x
    BY <1>5
  <2>2. <<0..y, 0..x>> \in StrictSubsetOrdering(Nat)
    BY <2>1 DEF StrictSubsetOrdering
  <2> QED
    BY <1>3, <1>4, <2>2
<1> QED
  BY <1>4, <1>5

LEMMA DevicesFinite ==
    ASSUME NEW S \in SUBSET Ids
    PROVE  IsFiniteSet(S) /\ Cardinality(S) \in Nat
<1>1. IsFiniteSet(Ids)
  BY FS_Interval, BoundsAssumption DEF Ids
<1>2. IsFiniteSet(S)
  BY <1>1, FS_Subset
<1> QED
  BY <1>2, FS_CardinalityType

\* There is a next number: one more than the largest.
LEMMA NextIdExists == NextId \in 1..(MaxDevices + 1)
<1> DEFINE U == {i \in 1..(MaxDevices + 1) : \A d \in Existing : d < i}
<1>1. Existing \subseteq Ids
  BY DEF Existing
<1>2. MaxDevices + 1 \in U
  BY <1>1, BoundsAssumption DEF Ids
<1>3. U \subseteq Nat
  OBVIOUS
<1>4. PICK i \in U : \A j \in U : i <= j
  <2> HIDE DEF U
  <2> QED
    BY <1>2, <1>3, LeastExists
<1>5. i = 1 \/ i - 1 \in Existing
  <2> SUFFICES ASSUME i # 1 PROVE i - 1 \in Existing
    OBVIOUS
  <2>1. i - 1 \in 1..(MaxDevices + 1) /\ i - 1 < i
    BY BoundsAssumption
  <2>2. i - 1 \notin U
    BY <1>4, <2>1
  <2>3. PICK d \in Existing : ~(d < i - 1)
    BY <2>1, <2>2
  <2>4. d < i /\ d \in Nat
    BY <1>1, PortNumbers
  <2> QED
    BY <2>1, <2>3, <2>4
<1> QED
  BY <1>4, <1>5 DEF NextId

\* A copy shows nothing, as a new device does.
LEMMA CloneRow == ASSUME NEW r \in Row PROVE Clone(r) \in Row
<1> DEFINE new == NewDevice(TRUE, r.type, FALSE, r.size)
<1>1. r \in Device
  BY DEF Row
<1>2. r.type \in Types /\ r.size \in 0..MaxPort /\ r.made \in 0..MaxPort /\ r.plan \in [Idx -> Seen]
  BY <1>1 DEF Device
<1>3. new \in Row /\ new \in Device
  BY <1>2, NewDeviceRow DEF Row
<1>4. \A s \in Sides, i \in Idx : new.seen[s][i] = None
  BY DEF NewDevice, NoPorts
<1>5. Clone(r) = [new EXCEPT !.made = r.made, !.plan = r.plan]
  BY DEF Clone
<1> HIDE DEF new
<1>6. Clone(r) \in Device /\ Clone(r).seen = new.seen
  BY <1>2, <1>3, <1>5 DEF Device
<1> QED
  BY <1>4, <1>6 DEF Row, Sides

\* The copies find room, and cables are copied between copies.
LEMMA SeededTyped ==
    ASSUME links \subseteq Link, RoomToSeed,
           NEW rows \in [Ids -> Row \cup {NoDevice}],
           \A d \in Existing : rows[d] \in Row /\ rows[d].testing = device[d].testing
    PROVE  /\ Seeded(rows).rows \in [Ids -> Row \cup {NoDevice}]
           /\ Seeded(rows).links \subseteq Link
<1> DEFINE originals == {d \in Existing : ~rows[d].testing}
           copy(d) == NextId + Cardinality({e \in originals : e < d})
           copied == [d \in originals |-> copy(d)]
           newRows == [i \in Ids |-> IF \E d \in originals : copied[d] = i
                                     THEN Clone(rows[CHOOSE d \in originals : copied[d] = i])
                                     ELSE rows[i]]
           newLinks == {[from |-> copied[l.from], to |-> copied[l.to], testing |-> TRUE] :
                          l \in {k \in links : ~k.testing /\ {k.from, k.to} \subseteq originals}}
<1>1. CASE originals # Existing
  <2>1. Seeded(rows) = [rows |-> rows, links |-> links]
    BY <1>1 DEF Seeded
  <2> QED
    BY <2>1
<1>2. CASE originals = Existing
  <2>1. Seeded(rows) = [rows |-> newRows, links |-> links \cup newLinks]
    BY <1>2 DEF Seeded
  <2>2. NextId - 1 + Cardinality(Existing) <= MaxDevices
    BY <1>2 DEF RoomToSeed
  <2>3. ASSUME NEW d \in originals PROVE copied[d] \in Ids
    <3> DEFINE S == {e \in originals : e < d}
    <3>1. S \in SUBSET Existing /\ S # Existing /\ Existing \in SUBSET Ids
      BY <2>3, PortNumbers DEF Existing
    <3>2. copied[d] = NextId + Cardinality(S)
      OBVIOUS
    <3> HIDE DEF S, copied
    <3>3. Cardinality(S) \in Nat /\ Cardinality(Existing) \in Nat
      BY <3>1, DevicesFinite
    <3>4. Cardinality(S) <= Cardinality(Existing) /\ Cardinality(S) # Cardinality(Existing)
      BY <3>1, DevicesFinite, FS_Subset
    <3> QED
      BY <2>2, <3>2, <3>3, <3>4, NextIdExists, BoundsAssumption DEF Ids
  <2>4. newRows \in [Ids -> Row \cup {NoDevice}]
    <3> SUFFICES ASSUME NEW i \in Ids PROVE newRows[i] \in Row \cup {NoDevice}
      OBVIOUS
    <3>1. CASE \E d \in originals : copied[d] = i
      <4> DEFINE d == CHOOSE d \in originals : copied[d] = i
      <4>1. d \in originals
        BY <3>1
      <4>2. rows[d] \in Row
        BY <4>1
      <4>3. newRows[i] = Clone(rows[d])
        BY <3>1
      <4> HIDE DEF d
      <4> QED
        BY <4>2, <4>3, CloneRow
    <3>2. CASE ~ \E d \in originals : copied[d] = i
      BY <3>2
    <3> QED
      BY <3>1, <3>2
  <2>5. ASSUME NEW l \in links, {l.from, l.to} \subseteq originals
        PROVE  [from |-> copied[l.from], to |-> copied[l.to], testing |-> TRUE] \in Link
    <3>1. l.from \in originals /\ l.to \in originals
      BY <2>5
    <3> HIDE DEF originals, copied
    <3>2. copied[l.from] \in Ids /\ copied[l.to] \in Ids
      BY <2>3, <3>1
    <3> QED
      BY <3>2 DEF Link
  <2>6. newLinks \subseteq Link
    <3> HIDE DEF originals, copied
    <3> QED
      BY <2>5
  <2> HIDE DEF newRows, newLinks
  <2> QED
    BY <2>1, <2>4, <2>6
<1> QED
  BY <1>1, <1>2

\* A change of the range state.
LEMMA ChangeStateStep ==
    ASSUME IndInv, NEW target \in States, NEW reviewed \in BOOLEAN,
           ChangeState(target, reviewed)
    PROVE  IndInv'
<1>1. PICK answered \in SUBSET (IF reviewed THEN {} ELSE PollTargets(target)) :
        /\ LET rows == PolledAll(answered)
               seeded == IF target = Testing THEN Seeded(rows)
                         ELSE [rows |-> rows, links |-> links]
           IN  device' = seeded.rows /\ links' = seeded.links
        /\ check' = [changed |-> TRUE, reviewed |-> reviewed, answered |-> answered]
  BY DEF ChangeState
<1> DEFINE rows == PolledAll(answered)
<1>2. answered \in SUBSET Existing
  BY DEF PollTargets
<1>3. rows \in [Ids -> Row \cup {NoDevice}]
  BY <1>2, PolledAllTyped DEF IndInv
<1>4. ASSUME NEW d \in Existing
      PROVE  rows[d] \in Row /\ rows[d].testing = device[d].testing
  <2>1. d \in Ids /\ device[d] \in Row /\ device[d] \in Device
    BY ExistingRows DEF IndInv
  <2>2. rows[d] = IF d \in answered THEN Polled(device[d]) ELSE device[d]
    BY <2>1 DEF PolledAll
  <2> HIDE DEF rows
  <2> QED
    BY <2>1, <2>2, PolledTyped DEF IndInv
<1>5. links \subseteq Link
  BY DEF IndInv
<1>6. CASE target = Testing
  <2>1. RoomToSeed
    BY <1>6 DEF ChangeState
  <2>2. device' = Seeded(rows).rows /\ links' = Seeded(rows).links
    BY <1>1, <1>6
  <2> HIDE DEF rows
  <2> QED
    <3>1. Devices' /\ links' \subseteq Link
      BY <1>3, <1>4, <1>5, <2>1, <2>2, SeededTyped DEF Devices
    <3>2. check' \in Check
      BY <1>1, <1>2 DEF Check, Existing
    <3>3. requests' \in 0..MaxRequests /\ state' \in States
      BY BoundsAssumption DEF ChangeState, Counted, IndInv, Counts
    <3> QED
      BY <3>1, <3>2, <3>3 DEF ChangeState, IndInv, Hardware, Presets, Waiting, Counts
<1>7. CASE target # Testing
  <2>1. device' = rows /\ links' = links
    BY <1>1, <1>7
  <2> HIDE DEF rows
  <2>2. Devices' /\ links' \subseteq Link
    BY <1>3, <1>5, <2>1 DEF Devices
  <2>3. check' \in Check
    BY <1>1, <1>2 DEF Check, Existing
  <2>4. requests' \in 0..MaxRequests /\ state' \in States
    BY BoundsAssumption DEF ChangeState, Counted, IndInv, Counts
  <2> QED
    BY <2>2, <2>3, <2>4 DEF ChangeState, IndInv, Hardware, Presets, Waiting, Counts
<1> QED
  BY <1>6, <1>7

-----------------------------------------------------------------------------
LEMMA InitIndInv == Init => IndInv
<1> SUFFICES ASSUME Init PROVE IndInv
  OBVIOUS
<1>1. Hardware
  <2>1. FirstRouting \in Routes
    BY FirstAssumption DEF Routes
  <2>2. matrix \in Matrix
    BY <2>1, SidesOfModes DEF Init, Matrix
  <2> QED
    BY <2>2, StatesAssumption DEF Init, Hardware, States
<1>2. Devices
  <2>1. FirstType \in Types /\ MaxPort \in 0..MaxPort
    BY BoundsAssumption, FirstAssumption DEF MonitoredTypes
  <2>2. WithPorts(NewDevice(FALSE, FirstType, TRUE, MaxPort)) \in Row
    BY <2>1, NewDeviceRow
  <2> QED
    BY <2>2 DEF Init, Devices
<1>3. DOMAIN sweep = {} /\ DOMAIN polled = {}
  BY DEF Init
<1>4. Presets /\ links \subseteq Link /\ forms \subseteq Form
  BY DEF Init, Presets
<1>5. Counts
  BY BoundsAssumption DEF Init, Counts, NoChange, Check
<1> QED
  BY <1>1, <1>2, <1>3, <1>4, <1>5 DEF IndInv, Waiting

\* Every step keeps the invariant.
LEMMA Inductive == IndInv /\ [Next]_vars => IndInv'
<1> SUFFICES ASSUME IndInv, [Next]_vars PROVE IndInv'
  OBVIOUS
<1>1. CASE Registry
  BY <1>1, CreateStep, UpdateStep, DeleteStep, OpenRoutingStep, TestSnmpStep, PostStep,
     TablesStep DEF Registry
<1>2. CASE Presetting
  BY <1>2, TablesStep, OpenChangeStep, ChangeStateStep DEF Presetting
<1>3. CASE Sweep
  BY <1>3, SweepStartStep, SweepPollStep, SweepCommitStep DEF Sweep
<1>4. CASE UNCHANGED vars
  BY <1>4 DEF vars, IndInv, Hardware, Devices, Presets, Waiting, Counts
<1> QED
  BY <1>1, <1>2, <1>3, <1>4, SubmitStep, PollActiveStep, TablesStep, TurnStep DEF Next

-----------------------------------------------------------------------------
\* What the tables hold, whatever is edited, polled, posted late or copied.
THEOREM Invariance == Spec => []IndInv
<1> QED
  BY InitIndInv, Inductive, PTL DEF Spec

\* No port is shown that has no row and a device has one preset for a state,
\* also when a sweep commits after a device it has polled was edited, deleted or
\* made anew under the same id with fewer ports.
THEOREM TypeCorrect == Spec => []TypeOK
<1>1. IndInv => TypeOK
  <2> SUFFICES ASSUME IndInv PROVE TypeOK
    OBVIOUS
  <2>1. \A d \in Existing : device[d] \in Row
    BY ExistingRows DEF IndInv
  <2> QED
    BY <2>1 DEF IndInv, Hardware, Presets, Waiting, Counts, Row, TypeOK
<1> QED
  BY <1>1, Invariance, PTL

\* A preset that agrees with what was just read of its matrix is what the
\* matrix carries.
LEMMA AgreesWithMatrix ==
    ASSUME IndInv, NEW p \in presets, NEW now \in Row,
           ~Mismatch(p, Observed(now.seen, now.made)[SideOf(ModeOf(now.type))], now.made)
    PROVE  \A i \in DOMAIN p.routes \cap DOMAIN Snapshot.routing :
              /\ Snapshot.mode = ModeOf(now.type)
              /\ Snapshot.routing[i] = p.routes[i]
<1> DEFINE side == SideOf(ModeOf(now.type))
           o == Observed(now.seen, now.made)
<1>1. Snapshot.mode \in Modes /\ ModeOf(now.type) \in Modes /\ side \in Sides
  BY SnapshotTyped, SidesOfModes DEF IndInv, Matrix
<1>2. DOMAIN p.routes \subseteq Idx
  BY DEF IndInv, Presets, Preset, Routes
<1>3. \A i \in Idx : side # SideOf(Snapshot.mode) => o[side][i] = None
  BY <1>1 DEF Observed
<1>4. PICK j \in Idx : o[side][j] # None
  BY DEF Mismatch
<1>5. side = SideOf(Snapshot.mode)
  BY <1>3, <1>4
<1>6. Snapshot.mode = ModeOf(now.type)
  BY <1>1, <1>5, SidesOfModes
<1>7. ASSUME NEW i \in DOMAIN p.routes, i \in DOMAIN Snapshot.routing
      PROVE  Snapshot.routing[i] = p.routes[i]
  <2>1. ~(i > now.made) /\ o[side][i] = p.routes[i]
    BY DEF Mismatch
  <2>2. i \in Nat /\ now.made \in Nat
    <3>1. now \in Device
      BY DEF Row
    <3>2. now.made \in 0..MaxPort
      BY <3>1 DEF Device
    <3>3. i \in Idx
      BY <1>2
    <3>4. i \in Nat
      BY <3>3, PortNumbers
    <3> QED
      BY <3>2, <3>4, BoundsAssumption
  <2>3. o[side][i] = Snapshot.routing[i]
    BY <1>1, <1>2, <1>5, <1>7, <2>1, <2>2 DEF Observed
  <2> QED
    BY <2>1, <2>3
<1> QED
  BY <1>6, <1>7

\* A change of the range state that nobody reviewed found the presets on every
\* matrix that answered: what the database held, a poll that ended meanwhile
\* and a device that was retyped do not make it pass.
THEOREM ChangesAreChecked == Spec => CheckedRouting
<1> DEFINE Checked == check'.changed /\ ~check'.reviewed =>
                        \A p \in Wanted(state') : p.device \in check'.answered => Satisfied(p)
<1>1. ASSUME IndInv, Next, check'.changed, ~check'.reviewed,
             NEW p \in Wanted(state'), p.device \in check'.answered
      PROVE  Satisfied(p)
  <2>1. PICK target \in States, reviewed \in BOOLEAN : ChangeState(target, reviewed)
    <3>1. ~NoChange.changed
      BY DEF NoChange
    <3>2. check' # NoChange
      BY <1>1, <3>1
    <3> QED
      BY <1>1, <3>2 DEF Next, Registry, Presetting, Sweep, Submit, PollActive, Pause, Turn,
           SweepStart, SweepPoll, SweepCommit, CreateDevice, UpdateDevice, DeleteDevice, OpenRouting, TestSnmp,
           PostMute, PostRouting, AddLink, DeleteLink, SavePreset, DeletePreset, OpenChange, Request
  <2>2. PICK answered \in SUBSET (IF reviewed THEN {} ELSE PollTargets(target)) :
          /\ reviewed \/ Passes(target, answered)
          /\ check' = [changed |-> TRUE, reviewed |-> reviewed, answered |-> answered]
    BY <2>1 DEF ChangeState
  <2>3. ~reviewed /\ p.device \in answered /\ state' = target
    BY <1>1, <2>1, <2>2 DEF ChangeState
  <2> DEFINE d == p.device
             now == device[d]
  <2>4. d \in Existing /\ p \in presets
    BY <1>1 DEF Wanted
  <2>5. d \in Ids /\ now \in Row /\ now \in Device
    BY <1>1, <2>4, ExistingRows DEF IndInv
  <2>6. PolledAll(answered)[d] = Polled(now)
    BY <2>3, <2>5 DEF PolledAll
  <2>7. /\ Polled(now).type = now.type /\ Polled(now).made = now.made
        /\ Polled(now).seen = Observed(now.seen, now.made)
    BY <1>1, <2>5, PolledTyped DEF IndInv
  <2>8. ~Mismatch(p, PolledAll(answered)[d].seen[SideOf(ModeOf(PolledAll(answered)[d].type))],
                  PolledAll(answered)[d].made)
    BY <1>1, <2>2, <2>3 DEF Passes, Mismatched
  <2>9. ~Mismatch(p, Observed(now.seen, now.made)[SideOf(ModeOf(now.type))], now.made)
    BY <2>6, <2>7, <2>8
  <2>10. \A i \in DOMAIN p.routes \cap DOMAIN Snapshot.routing :
            /\ Snapshot.mode = ModeOf(now.type)
            /\ Snapshot.routing[i] = p.routes[i]
    BY <1>1, <2>4, <2>5, <2>9, AgreesWithMatrix
  <2> QED
    BY <2>10 DEF Satisfied
<1>2. IndInv /\ [Next]_vars => [Checked]_vars
  BY <1>1
<1>3. CheckedRouting <=> [][Checked]_vars
  BY DEF CheckedRouting
<1> HIDE DEF Checked
<1> QED
  BY <1>2, <1>3, Invariance, PTL DEF Spec
=============================================================================
