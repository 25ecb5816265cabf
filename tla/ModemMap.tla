------------------------------ MODULE ModemMap ------------------------------
(***************************************************************************)
(* Which modem feeds which signal of a running serial: the package entries *)
(* (cbm_device_id), the source each signal shows on the dashboard, and the *)
(* sync that writes modem readings to the log by that mapping.             *)
(*                                                                         *)
(* A session does not flush by itself (autoflush=False).  A handler that   *)
(* applies several updates therefore queries the database as it was before *)
(* the first of them, and gets objects that carry what it has changed.     *)
(* The record of such a session is Memory below.                           *)
(*                                                                         *)
(* One serial is running in a fixed workspace.  The rows of a signal are   *)
(* represented by the latest one, and rows of one commit by the last one   *)
(* added: SQLite walks the index on (serial, signal, timestamp) backwards. *)
(* RangeOps has the rows themselves and the workspaces.                    *)
(***************************************************************************)
EXTENDS Integers, Sequences, FiniteSets, FiniteSetsExt

CONSTANTS
    Names,          \* names of signals
    Modems,         \* the CBM modems, which are also names of sources
    Transmitting,   \* the modems that are on the air
    Group,          \* the signals of one exclusivity group
    Start,          \* the entries of the package the serial started with
    MaxEntries,     \* bound: ids of package entries
    MaxEdits,       \* bound: operator actions
    MaxBatch        \* bound: updates in one request, 1 or 2

None == "none"      \* no modem, or no source
Same == "same"      \* the source field of an update was not touched

ASSUME NamesAssumption == Group \subseteq Names /\ None \notin Names

ASSUME ModemsAssumption == {None, Same} \cap Modems = {} /\ Transmitting \subseteq Modems

ASSUME StartAssumption ==
    /\ Start \in Seq([name : Names, modem : Modems \cup {None}])
    /\ Len(Start) <= MaxEntries

ASSUME BoundsAssumption ==
    MaxEntries \in Nat /\ MaxEdits \in Nat /\ MaxBatch \in {1, 2}

Ids == 1..MaxEntries
Packages == {1, 2}
Statuses == {"Up", "Down"}       \* "Down" stands for every status but Up

NoEntry == [pkg |-> 0, name |-> None, modem |-> None]
Entry == [pkg : Packages, name : Names, modem : Modems \cup {None}]

NoRow == [status |-> None, source |-> None]
Row == [status : Statuses, source : Modems \cup {None}]

VARIABLES
    entries,    \* the package entries, by id
    assigned,   \* the packages assigned to the running serial
    shown,      \* the latest row of each signal on the serial, or NoRow
    saving,     \* a save-all that waits for its form: package, entries it read
    sync,       \* the local state of a running sync_active_cbms
    edits,
    done        \* history: the assignments of the last step, if it was an edit

vars == <<entries, assigned, shown, saving, sync, edits, done>>

NoSave == [pkg |-> 0, snap |-> [i \in Ids |-> NoEntry]]
Idle == [running |-> FALSE, todo |-> {}, pending |-> [n \in Names |-> NoRow]]
Nothing == [by |-> "nothing", us |-> <<>>, free |-> FALSE]

-----------------------------------------------------------------------------
(* Queries.                                                                *)

Reading(m) == IF m \in Transmitting THEN "Up" ELSE "Down"

Used(i) == entries[i] # NoEntry

Displayed(n) == shown[n] # NoRow

\* SQLite hands out the largest id in use plus one.
NextId(i) ==
    \A j \in Ids : /\ j >= i => ~Used(j)
                   /\ j = i - 1 => Used(j)

OnSerial(i) == Used(i) /\ entries[i].pkg \in assigned

Mapped(i) == OnSerial(i) /\ entries[i].modem # None

\* Faulty: entries of the packages of the serial only.
ClearedOnSerial(es, m, except) ==
    [i \in Ids |-> IF m # None /\ OnSerial(i) /\ entries[i].modem = m /\ i # except
                   THEN [es[i] EXCEPT !.modem = None]
                   ELSE es[i]]

\* _clear_modem_from_other_entries: the database says which entries have the
\* modem, the session's objects es are what is changed.
Cleared(es, m, except) ==
    [i \in Ids |-> IF m # None /\ entries[i].modem = m /\ i # except
                   THEN [es[i] EXCEPT !.modem = None]
                   ELSE es[i]]

-----------------------------------------------------------------------------
(* The session of a dashboard request (routers/dashboard.py).              *)

Update == [old : Names, new : Names, status : Statuses,
           source : Modems \cup {None, Same}]

\* entries and rows as the session's objects have them: now[n] is the name the
\* rows named n carry, add[n] the last row added for n.
Memory ==
    [e |-> entries, now |-> [n \in Names |-> n],
     add |-> [n \in Names |-> NoRow], ok |-> TRUE]

\* Refused, with the whole request, when a displayed signal has the new name.
Renamed(m, u) ==
    IF u.new = u.old THEN m
    ELSE IF \E d \in Names : /\ Displayed(d)
                             /\ m.now[d] = u.new
                             /\ m.now[d] # u.old
    THEN [m EXCEPT !.ok = FALSE]
    ELSE [m EXCEPT !.now[u.old] = u.new,
                   !.e = [i \in Ids |-> IF OnSerial(i) /\ entries[i].name = u.old
                                        THEN [@[i] EXCEPT !.name = u.new]
                                        ELSE @[i]]]

\* The entries of the signal get the modem, every other entry loses it.
Sourced(m, u) ==
    IF u.source = Same THEN m
    ELSE LET es == Cleared(m.e, u.source, 0)
         IN  [m EXCEPT !.e = [i \in Ids |->
                                IF OnSerial(i) /\ es[i].name = u.new
                                THEN [es[i] EXCEPT !.modem = u.source]
                                ELSE es[i]]]

\* Siblings of the group that read Up get a Down row.
Downed(m, u) ==
    {s \in Group \ {u.new} : /\ u.new \in Group /\ u.status = "Up"
                             /\ shown[s].status = "Up"}

\* Faulty: the signals keep showing the modem.
DisplacedNone(m, u) == {}

\* Other signals that show the modem get a row without a source.
Displaced(m, u) ==
    {x \in Names : /\ u.source \in Modems
                   /\ shown[x].source = u.source
                   /\ \E d \in Names \ {u.new} : /\ m.now[d] = x
                                                 /\ shown[d].source = u.source}

\* Faulty: a field that was not touched is taken from the form.
OwnRowOfForm(u) == [status |-> u.status, source |-> u.source]

\* The row of the update itself takes what was not touched from the latest row
\* with the new name.
OwnRow(u) ==
    [status |-> u.status,
     source |-> IF u.source = Same THEN shown[u.new].source ELSE u.source]

Logged(m, u) ==
    [m EXCEPT !.add = [n \in Names |->
        IF n = u.new THEN OwnRow(u)
        ELSE IF n \in Displaced(m, u)
             THEN [status |-> shown[n].status, source |-> None]
        ELSE IF n \in Downed(m, u)
             THEN [status |-> "Down", source |-> shown[n].source]
        ELSE @[n]]]

\* One update of a request, after those before it.
Applied(m, u) ==
    LET r == Renamed(m, u)
    IN  IF ~r.ok THEN r ELSE Logged(Sourced(r, u), u)

ShownAfter(m) ==
    [n \in Names |->
        IF m.add[n] # NoRow THEN m.add[n]
        ELSE IF \E d \in Names : Displayed(d) /\ m.now[d] = n
             THEN shown[CHOOSE d \in Names : Displayed(d) /\ m.now[d] = n]
        ELSE NoRow]

-----------------------------------------------------------------------------
(* What an edit asked for: the modems that signals or entries were to get. *)

Modem(u) == u.source \in Modems

DifferentModems(us) ==
    \A j, k \in DOMAIN us : Modem(us[j]) /\ us[j].source = us[k].source => j = k

\* No entry has a modem asked for, and no signal shows it, except those of the
\* signal that asks.
Free(us) ==
    \A k \in DOMAIN us : Modem(us[k]) =>
        /\ \A i \in Ids : entries[i].modem = us[k].source => entries[i].name = us[k].old
        /\ \A n \in Names : shown[n].source = us[k].source => n = us[k].old

\* The same for entries that ask one by one.
FreeOfOthers(us) ==
    \A k \in DOMAIN us, i \in Ids :
        Modem(us[k]) /\ entries[i].modem = us[k].source => i = us[k].id

Edit(by, us, free) ==
    /\ edits + Len(us) <= MaxEdits
    /\ edits' = edits + Len(us)
    /\ done' = [by |-> by, us |-> us, free |-> free]

One == <<[old |-> None, new |-> None, status |-> "Down", source |-> Same]>>

-----------------------------------------------------------------------------
(* The dashboard.                                                          *)

\* The one or two updates of a request, the second on what the first has made.
InTurn(Step(_, _), objects, us) ==
    IF Len(us) = 1 THEN Step(objects, us[1])
    ELSE Step(Step(objects, us[1]), us[2])

\* The updates us in one commit, or none of them.
Apply(us) ==
    LET m == InTurn(Applied, Memory, us)
    IN  /\ m.ok
        /\ entries' = m.e
        /\ shown' = ShownAfter(m)
        /\ UNCHANGED <<assigned, saving, sync>>

\* A request names signals of the widget, each once.
BulkUpdate(us) ==
    /\ \A k \in DOMAIN us : Displayed(us[k].old)
    /\ \A j, k \in DOMAIN us : us[j].old = us[k].old => j = k
    /\ Edit("dashboard", us, Free(us))
    /\ Apply(us)

\* A blank source clears the entries of the signal, if it has any.
QuickUpdate(n, status, source) ==
    LET keeps == source = None /\ ~\E i \in Ids : OnSerial(i) /\ entries[i].name = n
        us == <<[old |-> n, new |-> n, status |-> status,
                 source |-> IF keeps THEN Same ELSE source]>>
    IN  /\ Displayed(n)
        /\ Edit("dashboard", us, Free(us))
        /\ Apply(us)

\* The new row shows the source as given; no entry and no other row is touched
\* but the siblings.
SignalAdd(n, status, source) ==
    LET u == [old |-> n, new |-> n, status |-> status, source |-> source]
    IN  /\ Edit("add", <<u>>, FALSE)
        /\ shown' = [x \in Names |->
               IF x = n THEN [status |-> status, source |-> source]
               ELSE IF x \in Downed(Memory, u) THEN [shown[x] EXCEPT !.status = "Down"]
               ELSE shown[x]]
        /\ UNCHANGED <<entries, assigned, saving, sync>>

\* c is the next name of the family of n, which no signal of the serial has.
\* Its entry is cloned from the one of n, without the modem.
Chameleon(n, c) ==
    LET parents == {i \in Ids : OnSerial(i) /\ entries[i].name = n}
        clones == parents # {} /\ ~\E i \in Ids : OnSerial(i) /\ entries[i].name = c
    IN  /\ Displayed(n) /\ ~Displayed(c)
        /\ Edit("chameleon", One, FALSE)
        /\ shown' = [shown EXCEPT ![c] = [status |-> shown[n].status, source |-> None]]
        /\ IF clones
           THEN \E i \in Ids, parent \in parents :
                   /\ NextId(i)
                   /\ entries' = [entries EXCEPT ![i] =
                         [pkg |-> entries[parent].pkg, name |-> c, modem |-> None]]
           ELSE UNCHANGED entries
        /\ UNCHANGED <<assigned, saving, sync>>

-----------------------------------------------------------------------------
(* The package and activity pages.                                         *)

EntryAdd(p, n, m) ==
    \E i \in Ids :
        /\ NextId(i)
        /\ Edit("package", <<[old |-> n, new |-> n, status |-> "Down", source |-> m]>>, FALSE)
        /\ entries' = [Cleared(entries, m, 0) EXCEPT ![i] =
                          [pkg |-> p, name |-> n, modem |-> m]]
        /\ UNCHANGED <<assigned, shown, saving, sync>>

EntryUpdate(i, n, m) ==
    /\ Used(i)
    /\ Edit("package", <<[old |-> n, new |-> n, status |-> "Down", source |-> m]>>, FALSE)
    /\ entries' = [Cleared(entries, m, i) EXCEPT ![i].name = n, ![i].modem = m]
    /\ UNCHANGED <<assigned, shown, saving, sync>>

\* The same form on the activity page takes the modem from nobody.
EntryUpdateOnActivity(i, n, m) ==
    /\ OnSerial(i)
    /\ Edit("activity", One, FALSE)
    /\ entries' = [entries EXCEPT ![i].name = n, ![i].modem = m]
    /\ UNCHANGED <<assigned, shown, saving, sync>>

EntryDelete(i) ==
    /\ Used(i)
    /\ Edit("delete", One, FALSE)
    /\ entries' = [entries EXCEPT ![i] = NoEntry]
    /\ UNCHANGED <<assigned, shown, saving, sync>>

\* A planned duplicate: c is the next name of the family, which no signal of the
\* package has.
EntryChameleon(i, c) ==
    \E j \in Ids :
        /\ Used(i) /\ NextId(j)
        /\ ~\E k \in Ids : entries[k].pkg = entries[i].pkg /\ entries[k].name = c
        /\ Edit("clone", One, FALSE)
        /\ entries' = [entries EXCEPT ![j] =
                          [pkg |-> entries[i].pkg, name |-> c, modem |-> None]]
        /\ UNCHANGED <<assigned, shown, saving, sync>>

\* An import adds an entry with the modem of its file, taken from nobody.
EntryImport(p, n, m) ==
    \E i \in Ids :
        /\ NextId(i)
        /\ Edit("import", One, FALSE)
        /\ entries' = [entries EXCEPT ![i] = [pkg |-> p, name |-> n, modem |-> m]]
        /\ UNCHANGED <<assigned, shown, saving, sync>>

\* The copy has the modems of the original; here it is a package without entries.
PackageDuplicate(p, q) ==
    LET originals == {i \in Ids : entries[i].pkg = p}
        last == Max({i \in Ids : Used(i)})
        place(o) == last + Cardinality({e \in originals : e <= o})
    IN  /\ originals # {} /\ q \notin assigned
        /\ ~\E i \in Ids : entries[i].pkg = q
        /\ last + Cardinality(originals) <= MaxEntries
        /\ Edit("duplicate", One, FALSE)
        /\ entries' = [i \in Ids |->
               IF \E o \in originals : place(o) = i
               THEN [entries[CHOOSE o \in originals : place(o) = i] EXCEPT !.pkg = q]
               ELSE entries[i]]
        /\ UNCHANGED <<assigned, shown, saving, sync>>

\* Refused while the package is assigned to a serial that is not closed.
PackageDelete(p) ==
    /\ p \notin assigned
    /\ \E i \in Ids : entries[i].pkg = p
    /\ Edit("remove", One, FALSE)
    /\ entries' = [i \in Ids |-> IF entries[i].pkg = p THEN NoEntry ELSE entries[i]]
    /\ UNCHANGED <<assigned, shown, saving, sync>>

PackageAssign(p) ==
    /\ p \notin assigned
    /\ Edit("assign", One, FALSE)
    /\ assigned' = assigned \cup {p}
    /\ UNCHANGED <<entries, shown, saving, sync>>

PackageUnassign(p) ==
    /\ p \in assigned
    /\ Edit("unassign", One, FALSE)
    /\ assigned' = assigned \ {p}
    /\ UNCHANGED <<entries, shown, saving, sync>>

-----------------------------------------------------------------------------
(* Saving every signal of a package in one request.  The entries are read  *)
(* before the handler awaits the form, and written after.                  *)

SaveAllRead(p) ==
    /\ saving = NoSave
    /\ p \in assigned
    /\ \E i \in Ids : entries[i].pkg = p
    /\ saving' = [pkg |-> p,
                  snap |-> [i \in Ids |-> IF entries[i].pkg = p THEN entries[i] ELSE NoEntry]]
    /\ done' = Nothing
    /\ UNCHANGED <<entries, assigned, shown, sync, edits>>

Loaded(i) == saving.snap[i] # NoEntry

\* The objects of the session: what it has read stays as it was read.
Objects == [i \in Ids |-> IF Loaded(i) THEN saving.snap[i] ELSE entries[i]]

\* Faulty: each entry loses the modem it has just been given.
SavedThenCleared(es, u) ==
    Cleared([es EXCEPT ![u.id].name = u.new, ![u.id].modem = u.source], u.source, 0)

Saved(es, u) ==
    [Cleared(es, u.source, u.id) EXCEPT ![u.id].name = u.new, ![u.id].modem = u.source]

\* Only attributes that differ from what was read are written.  The update of an
\* entry that is gone fails, and the request with it.
Flushed(es) ==
    [i \in Ids |->
        [pkg |-> entries[i].pkg,
         name |-> IF es[i].name # Objects[i].name THEN es[i].name ELSE entries[i].name,
         modem |-> IF es[i].modem # Objects[i].modem THEN es[i].modem ELSE entries[i].modem]]

Stale == \E i \in Ids : Loaded(i) /\ saving.snap[i] # entries[i]

\* The form holds some of the entries, in the order of their ids.
Forms ==
    LET Fields(i) == [id : {i}, old : {saving.snap[i].name}, new : Names,
                      status : {"Down"}, source : Modems \cup {None}]
        ids == {i \in Ids : Loaded(i)}
    IN  {<<u>> : u \in UNION {Fields(i) : i \in ids}} \cup
        {us \in UNION {Fields(i) \X Fields(j) : i, j \in ids} :
             us[1].id < us[2].id /\ MaxBatch > 1}

SaveAllWrite(us) ==
    LET es == InTurn(Saved, Objects, us)
        written == {i \in Ids : es[i] # Objects[i]}
    IN  /\ Edit("save all", us, FreeOfOthers(us) /\ ~Stale)
        /\ saving # NoSave
        /\ IF \A i \in written : Used(i)
           THEN entries' = Flushed(es)
           ELSE UNCHANGED entries
        /\ saving' = NoSave
        /\ UNCHANGED <<assigned, shown, sync>>

-----------------------------------------------------------------------------
(* sync_active_cbms on its own thread.                                     *)

\* A modem mapped to several entries is skipped.
Targets ==
    {i \in Ids : Mapped(i) /\ ~\E j \in Ids \ {i} :
                                  Mapped(j) /\ entries[j].modem = entries[i].modem}

SyncStart ==
    /\ ~sync.running
    /\ Targets # {}
    /\ sync' = [Idle EXCEPT !.running = TRUE, !.todo = {entries[i] : i \in Targets}]
    /\ done' = Nothing
    /\ UNCHANGED <<entries, assigned, shown, saving, edits>>

\* Faulty: nothing is logged for a signal without a row.
MustLogKnown(e) == Displayed(e.name) /\ shown[e.name].status # Reading(e.modem)

MustLog(e) == Displayed(e.name) => shown[e.name].status # Reading(e.modem)

\* The modem is polled.  A row is logged when the status changed, or another
\* reading that this model leaves out.
SyncItem(e, logs) ==
    /\ e \in sync.todo
    /\ MustLog(e) => logs
    /\ sync' = [sync EXCEPT
           !.todo = @ \ {e},
           !.pending[e.name] =
               IF logs THEN [status |-> Reading(e.modem),
                             source |-> IF Displayed(e.name) THEN shown[e.name].source
                                        ELSE e.modem]
               ELSE @]
    /\ done' = Nothing
    /\ UNCHANGED <<entries, assigned, shown, saving, edits>>

SyncCommit ==
    /\ sync.running /\ sync.todo = {}
    /\ shown' = [n \in Names |-> IF sync.pending[n] # NoRow THEN sync.pending[n] ELSE shown[n]]
    /\ sync' = Idle
    /\ done' = Nothing
    /\ UNCHANGED <<entries, assigned, saving, edits>>

-----------------------------------------------------------------------------
Init ==
    /\ entries = [i \in Ids |-> IF i \in DOMAIN Start
                                THEN [pkg |-> 1, name |-> Start[i].name,
                                      modem |-> Start[i].modem]
                                ELSE NoEntry]
    /\ assigned = {1}
    /\ shown = [n \in Names |->
                  IF \E i \in DOMAIN Start : Start[i].name = n
                  THEN [status |-> "Down",
                        source |-> Start[CHOOSE i \in DOMAIN Start : Start[i].name = n].modem]
                  ELSE NoRow]
    /\ saving = NoSave
    /\ sync = Idle
    /\ edits = 0
    /\ done = Nothing

Dashboard ==
    \/ \E u \in Update : BulkUpdate(<<u>>)
    \/ /\ MaxBatch > 1 /\ edits + 2 <= MaxEdits
       /\ \E u, v \in {w \in Update : Displayed(w.old)} : BulkUpdate(<<u, v>>)
    \/ \E n \in Names, status \in Statuses, source \in Modems \cup {None} :
          QuickUpdate(n, status, source) \/ SignalAdd(n, status, source)
    \/ \E n, c \in Names : Chameleon(n, c)

Pages ==
    \/ \E p \in Packages, n \in Names, m \in Modems \cup {None} :
          EntryAdd(p, n, m) \/ EntryImport(p, n, m)
    \/ \E i \in Ids, n \in Names, m \in Modems \cup {None} :
          EntryUpdate(i, n, m) \/ EntryUpdateOnActivity(i, n, m)
    \/ \E i \in Ids : EntryDelete(i)
    \/ \E p, q \in Packages : PackageDuplicate(p, q)
    \/ \E p \in Packages : PackageAssign(p) \/ PackageUnassign(p) \/ PackageDelete(p)
    \/ \E i \in Ids, c \in Names : EntryChameleon(i, c)

SaveAll ==
    \/ edits < MaxEdits /\ \E p \in Packages : SaveAllRead(p)
    \/ edits < MaxEdits /\ \E us \in Forms : SaveAllWrite(us)

Sync ==
    \/ SyncStart
    \/ \E e \in sync.todo, logs \in BOOLEAN : SyncItem(e, logs)
    \/ SyncCommit

Next == Dashboard \/ Pages \/ SaveAll \/ Sync

Spec == Init /\ [][Next]_vars

\* The loop starts the next sync after the last, and its thread runs to the end.
FairSpec == Spec /\ WF_vars(Sync)

-----------------------------------------------------------------------------
(* Properties.                                                             *)

\* Every entry, row and local variable keeps its shape: no row shows a source
\* that was never resolved, no entry keeps half of its fields.
TypeOK ==
    /\ entries \in [Ids -> Entry \cup {NoEntry}]
    /\ assigned \subseteq Packages
    /\ shown \in [Names -> Row \cup {NoRow}]
    /\ saving \in [pkg : Packages \cup {0}, snap : [Ids -> Entry \cup {NoEntry}]]
    /\ sync \in [running : BOOLEAN, todo : SUBSET Entry,
                 pending : [Names -> Row \cup {NoRow}]]
    /\ edits \in 0..MaxEdits

\* One signal was given a modem by the last step.
Gave(kinds) == done.by \in kinds /\ Len(done.us) = 1 /\ Modem(done.us[1])

\* A modem given to a signal on the dashboard, or on the page of a package, is
\* the modem of no entry of another name, in any package.
AssignedToOneSignal ==
    Gave({"dashboard", "package"})
        => \A i \in Ids : entries[i].modem = done.us[1].source
                             => entries[i].name = done.us[1].new

\* No other signal of the widget shows a modem that was given on the dashboard
\* to a signal that kept its name.
ShownByOneSignal ==
    Gave({"dashboard"}) /\ done.us[1].old = done.us[1].new
        => \A n \in Names \ {done.us[1].new} : shown[n].source # done.us[1].source

\* The entries have what one request asked for when it has been committed.
EntriesKept(us) ==
    \A k \in DOMAIN us : Modem(us[k]) =>
        IF done.by = "dashboard"
        THEN \A i \in Ids : OnSerial(i) /\ entries[i].name = us[k].new
                               => entries[i].modem = us[k].source
        ELSE entries[us[k].id].modem = us[k].source

\* No other update of the request brings a signal of the same group Up.
NoSiblingUp(us, k) ==
    \A j \in DOMAIN us \ {k} : us[j].status = "Up" => ~({us[j].new, us[k].new} \subseteq Group)

\* A request that gives different modems to several signals, none of them in
\* use by another signal, gives every one of them, whatever was done before:
\* the entries have it and, on the dashboard, the signals show it, those
\* excepted that a sibling of the same request takes Down.
FreshChoicesKept ==
    done.by \in {"dashboard", "save all"} /\ DifferentModems(done.us) /\ done.free
        => /\ EntriesKept(done.us)
           /\ done.by = "dashboard" =>
                 \A k \in DOMAIN done.us :
                    Modem(done.us[k]) /\ NoSiblingUp(done.us, k)
                        => shown[done.us[k].new].source = done.us[k].source

\* The signals excepted above show it too: the row that takes one Down is not
\* to put back the source it showed before the request.
SiblingsKeepChoices ==
    done.by = "dashboard" /\ DifferentModems(done.us) /\ done.free
        => \A k \in DOMAIN done.us :
              Modem(done.us[k]) => shown[done.us[k].new].source = done.us[k].source

\* Also when a signal gets the modem of another one of the same request, as the
\* notes on Save All Signals promise.
BatchKeepsChoices ==
    done.by = "save all" /\ DifferentModems(done.us) => EntriesKept(done.us)

\* A signal of a group that was brought Up on the dashboard is the only one of
\* the group that reads Up.
UpIsExclusive ==
    done.by \in {"dashboard", "add"} /\ Len(done.us) = 1 =>
        LET u == done.us[1]
        IN  u.status = "Up" /\ u.new \in Group
                => \A s \in Group \ {u.new} : shown[s].status # "Up"

\* A signal mapped to one modem that nothing else is mapped to comes to read
\* what the modem does, and stays so, when the operators leave it alone.
MappingSettles ==
    <>[](\A i \in Targets :
            (\A j \in Ids : Mapped(j) /\ entries[j].name = entries[i].name => j = i)
                => shown[entries[i].name].status = Reading(entries[i].modem))
=============================================================================
