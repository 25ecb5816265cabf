-------------------------- MODULE ModemMapProofs --------------------------
(***************************************************************************)
(* What ModemMap keeps in every step, for any signals, modems, packages    *)
(* and any number of edits.  The properties of a step (who has the modem   *)
(* that was given, what a request leaves) follow from the types and from   *)
(* what Applied and Saved make of the objects of a session.                *)
(***************************************************************************)
EXTENDS ModemMap, TLAPS

\* An entry, and a row, that a session may hold.
EntryOrNone == Entry \cup {NoEntry}
RowOrNone == Row \cup {NoRow}

\* The objects of a session that changes names and modems: entries in the same
\* packages as before.
Holds(es) ==
    /\ es \in [Ids -> EntryOrNone]
    /\ \A i \in Ids : es[i].pkg = entries[i].pkg

\* The record of a dashboard request.
Session == [e : [Ids -> EntryOrNone], now : [Names -> Names],
            add : [Names -> RowOrNone], ok : BOOLEAN]

InSession(m) == m \in Session /\ Holds(m.e)

\* A status and a source are never the markers of a missing row.
LEMMA Markers ==
    /\ None \notin Modems /\ Same \notin Modems
    /\ None # Same
    /\ None \notin Statuses
    /\ None \notin Names
    /\ 0 \notin Packages
BY ModemsAssumption, NamesAssumption DEF None, Same, Statuses, Packages

\* Another modem of an entry, or another name, leaves an entry.
LEMMA EntryFields ==
    ASSUME NEW e \in Entry, NEW n \in Names, NEW m \in Modems \cup {None}
    PROVE  /\ [e EXCEPT !.modem = m] \in Entry
           /\ [e EXCEPT !.name = n] \in Entry
           /\ [e EXCEPT !.name = n, !.modem = m] \in Entry
BY DEF Entry

\* An entry in use is an entry, and stays one in a session.
LEMMA UsedIsEntry ==
    ASSUME TypeOK, NEW i \in Ids, Used(i)
    PROVE  /\ entries[i] \in Entry
           /\ \A es : Holds(es) => es[i] \in Entry
<1>1. entries[i] \in Entry
  BY DEF TypeOK, Used
<1>2. ASSUME NEW es, Holds(es)
      PROVE  es[i] \in Entry
  BY <1>1, <1>2, Markers DEF Holds, EntryOrNone, Entry, NoEntry
<1>3. QED
  BY <1>1, <1>2

LEMMA UnusedIsNone ==
    ASSUME TypeOK, NEW i \in Ids, ~Used(i)
    PROVE  \A es : Holds(es) => es[i] = NoEntry
BY Markers DEF TypeOK, Used, Holds, EntryOrNone, Entry, NoEntry

\* The objects of a session keep their types when a modem is cleared.
LEMMA ClearedType ==
    ASSUME NEW es, Holds(es), NEW m, NEW x
    PROVE  Holds(Cleared(es, m, x))
<1>1. SUFFICES ASSUME NEW i \in Ids
               PROVE  /\ [es[i] EXCEPT !.modem = None] \in EntryOrNone
                      /\ [es[i] EXCEPT !.modem = None].pkg = es[i].pkg
  BY DEF Cleared, Holds
<1>2. CASE es[i] = NoEntry
  BY <1>2 DEF NoEntry, EntryOrNone
<1>3. CASE es[i] \in Entry
  BY <1>3 DEF Entry, EntryOrNone
<1>4. QED
  BY <1>2, <1>3 DEF EntryOrNone, Holds

LEMMA MemoryType ==
    ASSUME TypeOK
    PROVE  InSession(Memory)
BY DEF TypeOK, Memory, InSession, Holds, Session, RowOrNone, EntryOrNone

LEMMA RenamedType ==
    ASSUME TypeOK, NEW m, InSession(m), NEW u \in Update
    PROVE  InSession(Renamed(m, u))
<1> DEFINE e == [i \in Ids |-> IF OnSerial(i) /\ entries[i].name = u.old
                                THEN [m.e[i] EXCEPT !.name = u.new]
                                ELSE m.e[i]]
           now == [m.now EXCEPT ![u.old] = u.new]
<1>1. u.old \in Names /\ u.new \in Names
  BY DEF Update
<1>2. Holds(e)
  <2>1. SUFFICES ASSUME NEW i \in Ids, OnSerial(i)
                 PROVE  /\ [m.e[i] EXCEPT !.name = u.new] \in Entry
                        /\ [m.e[i] EXCEPT !.name = u.new].pkg = m.e[i].pkg
    BY DEF Holds, InSession, EntryOrNone
  <2>2. m.e[i] \in Entry
    BY <2>1, UsedIsEntry DEF InSession, OnSerial
  <2>3. QED
    BY <2>2, <1>1 DEF Entry
<1>3. now \in [Names -> Names]
  BY <1>1 DEF InSession, Session
<1>4. CASE Renamed(m, u) = m
  BY <1>4
<1>5. CASE Renamed(m, u) = [m EXCEPT !.ok = FALSE]
  BY <1>5 DEF InSession, Session
<1>6. CASE Renamed(m, u) = [m EXCEPT !.now = now, !.e = e]
  <2> HIDE DEF e, now
  <2>1. QED
    BY <1>2, <1>3, <1>6 DEF InSession, Session, Holds
<1>7. Renamed(m, u) \in {m, [m EXCEPT !.ok = FALSE], [m EXCEPT !.now = now, !.e = e]}
  BY DEF Renamed, InSession, Session
<1>8. QED
  BY <1>4, <1>5, <1>6, <1>7

LEMMA SourcedType ==
    ASSUME TypeOK, NEW m, InSession(m), NEW u \in Update
    PROVE  InSession(Sourced(m, u))
<1> DEFINE es == Cleared(m.e, u.source, 0)
           e == [i \in Ids |-> IF OnSerial(i) /\ es[i].name = u.new
                                THEN [es[i] EXCEPT !.modem = u.source]
                                ELSE es[i]]
<1>1. CASE u.source = Same
  BY <1>1 DEF Sourced
<1>2. CASE u.source # Same
  <2>1. Holds(es)
    BY ClearedType DEF InSession
  <2>2. u.source \in Modems \cup {None}
    BY <1>2 DEF Update
  <2>3. Sourced(m, u) = [m EXCEPT !.e = e]
    BY <1>2 DEF Sourced
  <2> HIDE DEF es
  <2>4. Holds(e)
    <3>1. SUFFICES ASSUME NEW i \in Ids, OnSerial(i)
                   PROVE  /\ [es[i] EXCEPT !.modem = u.source] \in Entry
                          /\ [es[i] EXCEPT !.modem = u.source].pkg = es[i].pkg
      BY <2>1 DEF Holds, EntryOrNone
    <3>2. es[i] \in Entry
      BY <2>1, <3>1, UsedIsEntry DEF OnSerial
    <3>3. QED
      BY <2>2, <3>2 DEF Entry
  <2> HIDE DEF e
  <2>5. QED
    BY <2>3, <2>4 DEF InSession, Session, Holds
<1>3. QED
  BY <1>1, <1>2

\* The rows that an update adds.
LEMMA RowsAdded ==
    ASSUME TypeOK, NEW m, InSession(m), NEW u \in Update
    PROVE  /\ OwnRow(u) \in Row
           /\ \A n \in Displaced(m, u) :
                 n \in Names /\ [status |-> shown[n].status, source |-> None] \in Row
           /\ \A n \in Downed(m, u) :
                 n \in Names /\ [status |-> "Down", source |-> shown[n].source] \in Row
<1>1. shown \in [Names -> Row \cup {NoRow}]
  BY DEF TypeOK
<1>2. OwnRow(u) \in Row
  <2>1. /\ u.new \in Names /\ u.status \in Statuses
        /\ u.source = Same \/ u.source \in Modems \cup {None}
    BY DEF Update
  <2>2. shown[u.new].source \in Modems \cup {None}
    BY <1>1, <2>1 DEF Row, NoRow
  <2>3. QED
    BY <2>1, <2>2 DEF OwnRow, Row
<1>3. ASSUME NEW n \in Displaced(m, u)
      PROVE  n \in Names /\ [status |-> shown[n].status, source |-> None] \in Row
  <2>1. n \in Names /\ shown[n].source \in Modems
    BY <1>3 DEF Displaced
  <2>2. shown[n] \in Row
    BY <1>1, <2>1, Markers DEF NoRow
  <2>3. QED
    BY <2>1, <2>2 DEF Row
<1>4. ASSUME NEW n \in Downed(m, u)
      PROVE  n \in Names /\ [status |-> "Down", source |-> shown[n].source] \in Row
  <2>1. n \in Names
    BY <1>4, NamesAssumption DEF Downed
  <2>2. shown[n].source \in Modems \cup {None}
    BY <1>1, <2>1 DEF Row, NoRow
  <2>3. QED
    BY <2>1, <2>2 DEF Row, Statuses
<1>5. QED
  BY <1>2, <1>3, <1>4

LEMMA LoggedType ==
    ASSUME TypeOK, NEW m, InSession(m), NEW u \in Update
    PROVE  InSession(Logged(m, u))
<1> DEFINE add == [n \in Names |->
        IF n = u.new THEN OwnRow(u)
        ELSE IF n \in Displaced(m, u)
             THEN [status |-> shown[n].status, source |-> None]
        ELSE IF n \in Downed(m, u)
             THEN [status |-> "Down", source |-> shown[n].source]
        ELSE m.add[n]]
<1>1. add \in [Names -> RowOrNone]
  BY RowsAdded DEF InSession, Session, RowOrNone
<1>2. Logged(m, u) = [m EXCEPT !.add = add]
  BY DEF Logged
<1> HIDE DEF add
<1>3. QED
  BY <1>1, <1>2 DEF InSession, Session, Holds

LEMMA AppliedType ==
    ASSUME TypeOK, NEW m, InSession(m), NEW u \in Update
    PROVE  InSession(Applied(m, u))
<1> DEFINE r == Renamed(m, u)
           s == Sourced(r, u)
<1>1. InSession(r)
  BY RenamedType
<1>2. Applied(m, u) = IF ~r.ok THEN r ELSE Logged(s, u)
  BY DEF Applied
<1> HIDE DEF r
<1>3. InSession(s)
  BY <1>1, SourcedType
<1> HIDE DEF s
<1>4. InSession(Logged(s, u))
  BY <1>3, LoggedType
<1>5. QED
  BY <1>1, <1>2, <1>4

\* A request of the dashboard: one update, or two of different signals.
Request(us) ==
    \/ \E u \in Update : us = <<u>>
    \/ \E u, v \in Update : us = <<u, v>>

LEMMA RequestShape ==
    ASSUME NEW us, Request(us)
    PROVE  /\ Len(us) \in {1, 2} /\ DOMAIN us = 1..Len(us)
           /\ \A k \in DOMAIN us : us[k] \in Update
           /\ us[1] \in Update
           /\ Len(us) = 2 => us[2] \in Update
BY DEF Request

LEMMA RequestType ==
    ASSUME TypeOK, NEW us, Request(us)
    PROVE  InSession(InTurn(Applied, Memory, us))
<1>1. InTurn(Applied, Memory, us) = IF Len(us) = 1 THEN Applied(Memory, us[1])
                                    ELSE Applied(Applied(Memory, us[1]), us[2])
  BY DEF InTurn
<1>2. InSession(Applied(Memory, us[1]))
  BY RequestShape, MemoryType, AppliedType
<1>3. Len(us) = 2 => InSession(Applied(Applied(Memory, us[1]), us[2]))
  BY <1>2, RequestShape, AppliedType
<1>4. QED
  BY <1>1, <1>2, <1>3, RequestShape

-----------------------------------------------------------------------------
(* Types.                                                                  *)

LEMMA ShownAfterType ==
    ASSUME TypeOK, NEW m, InSession(m)
    PROVE  ShownAfter(m) \in [Names -> Row \cup {NoRow}]
<1>1. SUFFICES ASSUME NEW n \in Names
               PROVE  ShownAfter(m)[n] \in Row \cup {NoRow}
  BY DEF ShownAfter
<1>2. CASE m.add[n] # NoRow
  BY <1>2 DEF ShownAfter, InSession, Session, RowOrNone
<1>3. ASSUME m.add[n] = NoRow, \E d \in Names : Displayed(d) /\ m.now[d] = n
      PROVE  ShownAfter(m)[n] \in Row \cup {NoRow}
  BY <1>3 DEF ShownAfter, TypeOK
<1>4. QED
  BY <1>2, <1>3 DEF ShownAfter

LEMMA EditCounts ==
    ASSUME TypeOK, NEW by, NEW us, NEW free, Len(us) \in Nat, Edit(by, us, free)
    PROVE  edits' \in 0..MaxEdits
BY BoundsAssumption DEF TypeOK, Edit

LEMMA OneEditCounts ==
    ASSUME TypeOK, NEW by, Edit(by, One, FALSE)
    PROVE  edits' \in 0..MaxEdits
<1>1. Len(One) \in Nat
  BY DEF One
<1>2. QED
  BY <1>1, EditCounts

LEMMA OneUpdateCounts ==
    ASSUME TypeOK, NEW by, NEW u, NEW free, Edit(by, <<u>>, free)
    PROVE  edits' \in 0..MaxEdits
<1>1. Len(<<u>>) \in Nat
  OBVIOUS
<1>2. QED
  BY <1>1, EditCounts

LEMMA ApplyType ==
    ASSUME TypeOK, NEW us, Request(us), Apply(us), edits' \in 0..MaxEdits
    PROVE  TypeOK'
<1> DEFINE m == InTurn(Applied, Memory, us)
<1>1. InSession(m)
  BY RequestType
<1>2. entries' = m.e /\ shown' = ShownAfter(m) /\ UNCHANGED <<assigned, saving, sync>>
  BY DEF Apply
<1> HIDE DEF m
<1>3. entries' \in [Ids -> Entry \cup {NoEntry}]
  BY <1>1, <1>2 DEF InSession, Holds, EntryOrNone
<1>4. shown' \in [Names -> Row \cup {NoRow}]
  BY <1>1, <1>2, ShownAfterType
<1>5. QED
  BY <1>2, <1>3, <1>4 DEF TypeOK

\* What a request of one update is.
LEMMA BulkRequest ==
    ASSUME TypeOK,
           \/ \E u \in Update : BulkUpdate(<<u>>)
           \/ \E u, v \in Update : BulkUpdate(<<u, v>>)
    PROVE  \E us : /\ Request(us)
                   /\ Edit("dashboard", us, Free(us))
                   /\ Apply(us)
                   /\ \A k \in DOMAIN us : Displayed(us[k].old)
                   /\ \A j, k \in DOMAIN us : us[j].old = us[k].old => j = k
<1>1. \E us : Request(us) /\ BulkUpdate(us)
  BY DEF Request
<1>2. QED
  BY <1>1 DEF BulkUpdate

LEMMA QuickRequest ==
    ASSUME NEW n \in Names, NEW status \in Statuses, NEW source \in Modems \cup {None},
           QuickUpdate(n, status, source)
    PROVE  \E us : /\ Request(us)
                   /\ Edit("dashboard", us, Free(us))
                   /\ Apply(us)
                   /\ \A k \in DOMAIN us : Displayed(us[k].old)
                   /\ \A j, k \in DOMAIN us : us[j].old = us[k].old => j = k
<1> DEFINE keeps == source = None /\ ~\E i \in Ids : OnSerial(i) /\ entries[i].name = n
           u == [old |-> n, new |-> n, status |-> status,
                 source |-> IF keeps THEN Same ELSE source]
<1>1. u \in Update
  BY DEF Update
<1>2. u.old = n
  OBVIOUS
<1>3. Displayed(n) /\ Edit("dashboard", <<u>>, Free(<<u>>)) /\ Apply(<<u>>)
  BY DEF QuickUpdate
<1> HIDE DEF u
<1>4. Request(<<u>>)
  BY <1>1 DEF Request
<1>5. /\ \A k \in DOMAIN <<u>> : Displayed(<<u>>[k].old)
      /\ \A j, k \in DOMAIN <<u>> : <<u>>[j].old = <<u>>[k].old => j = k
  BY <1>2, <1>3
<1>6. QED
  BY <1>3, <1>4, <1>5

\* What every request of the dashboard does, but the form that adds a signal.
Requested ==
    \E us : /\ Request(us)
            /\ Edit("dashboard", us, Free(us))
            /\ Apply(us)
            /\ \A k \in DOMAIN us : Displayed(us[k].old)
            /\ \A j, k \in DOMAIN us : us[j].old = us[k].old => j = k

LEMMA RequestedType == TypeOK /\ Requested => TypeOK'
<1>1. SUFFICES ASSUME TypeOK, NEW us, Request(us), Edit("dashboard", us, Free(us)), Apply(us)
               PROVE  TypeOK'
  BY DEF Requested
<1>2. Len(us) \in Nat
  BY <1>1, RequestShape
<1>3. edits' \in 0..MaxEdits
  BY <1>1, <1>2, EditCounts
<1>4. QED
  BY <1>1, <1>3, ApplyType

LEMMA SignalAddType ==
    ASSUME TypeOK, NEW n \in Names, NEW status \in Statuses, NEW source \in Modems \cup {None},
           SignalAdd(n, status, source)
    PROVE  TypeOK'
<1> DEFINE u == [old |-> n, new |-> n, status |-> status, source |-> source]
<1>1. u \in Update
  BY DEF Update
<1>2. Edit("add", <<u>>, FALSE)
  BY DEF SignalAdd
<1>3. edits' \in 0..MaxEdits
  BY <1>2, OneUpdateCounts
<1>4. \A x \in Downed(Memory, u) : shown[x] \in Row
  BY NamesAssumption DEF Downed, TypeOK, NoRow, None
<1>5. \A x \in Downed(Memory, u) : [shown[x] EXCEPT !.status = "Down"] \in Row
  BY <1>4 DEF Row, Statuses
<1>6. [status |-> status, source |-> source] \in Row
  BY DEF Row
<1>7. shown' = [x \in Names |->
               IF x = n THEN [status |-> status, source |-> source]
               ELSE IF x \in Downed(Memory, u) THEN [shown[x] EXCEPT !.status = "Down"]
               ELSE shown[x]]
  BY DEF SignalAdd
<1> HIDE DEF u
<1>8. shown' \in [Names -> Row \cup {NoRow}]
  BY <1>5, <1>6, <1>7 DEF TypeOK
<1>9. QED
  BY <1>3, <1>8 DEF TypeOK, SignalAdd

LEMMA ChameleonType ==
    ASSUME TypeOK, NEW n \in Names, NEW c \in Names, Chameleon(n, c)
    PROVE  TypeOK'
<1>1. edits' \in 0..MaxEdits
  BY OneEditCounts DEF Chameleon
<1>2. shown[n] \in Row
  BY DEF TypeOK, Chameleon, Displayed
<1>3. [status |-> shown[n].status, source |-> None] \in Row
  BY <1>2 DEF Row
<1>4. shown' \in [Names -> Row \cup {NoRow}]
  BY <1>3 DEF Chameleon, TypeOK
<1>5. entries' \in [Ids -> Entry \cup {NoEntry}]
  <2>1. CASE entries' = entries
    BY <2>1 DEF TypeOK
  <2>2. ASSUME NEW i \in Ids, NEW parent \in Ids, Used(parent),
               entries' = [entries EXCEPT ![i] =
                         [pkg |-> entries[parent].pkg, name |-> c, modem |-> None]]
        PROVE  entries' \in [Ids -> Entry \cup {NoEntry}]
    <3>1. entries[parent] \in Entry
      BY <2>2, UsedIsEntry
    <3>2. [pkg |-> entries[parent].pkg, name |-> c, modem |-> None] \in Entry
      BY <3>1 DEF Entry
    <3>3. QED
      BY <2>2, <3>2 DEF TypeOK
  <2>3. QED
    BY <2>1, <2>2 DEF Chameleon, OnSerial
<1>6. QED
  BY <1>1, <1>4, <1>5 DEF TypeOK, Chameleon

\* Every step on the pages keeps the types of the entries.
LEMMA EntryAddType ==
    ASSUME TypeOK, NEW p \in Packages, NEW n \in Names, NEW m \in Modems \cup {None},
           EntryAdd(p, n, m) \/ EntryImport(p, n, m)
    PROVE  TypeOK'
<1> DEFINE new == [pkg |-> p, name |-> n, modem |-> m]
<1>1. new \in Entry
  BY DEF Entry
<1>2. Holds(Cleared(entries, m, 0))
  BY ClearedType DEF TypeOK, Holds, EntryOrNone
<1>3. Cleared(entries, m, 0) \in [Ids -> Entry \cup {NoEntry}]
  BY <1>2 DEF Holds, EntryOrNone
<1>4. edits' \in 0..MaxEdits
  BY OneEditCounts, OneUpdateCounts DEF EntryAdd, EntryImport
<1> HIDE DEF new
<1>5. entries' \in [Ids -> Entry \cup {NoEntry}]
  <2>1. PICK i \in Ids : \/ entries' = [Cleared(entries, m, 0) EXCEPT ![i] = new]
                         \/ entries' = [entries EXCEPT ![i] = new]
    BY DEF EntryAdd, EntryImport, new
  <2> DEFINE base == Cleared(entries, m, 0)
  <2> HIDE DEF base
  <2>2. base \in [Ids -> Entry \cup {NoEntry}]
    BY <1>3 DEF base
  <2>3. \/ entries' = [base EXCEPT ![i] = new]
        \/ entries' = [entries EXCEPT ![i] = new]
    BY <2>1 DEF base
  <2>4. QED
    BY <1>1, <2>2, <2>3 DEF TypeOK
<1>6. QED
  BY <1>4, <1>5 DEF TypeOK, EntryAdd, EntryImport

LEMMA EntryUpdateType ==
    ASSUME TypeOK, NEW i \in Ids, NEW n \in Names, NEW m \in Modems \cup {None},
           EntryUpdate(i, n, m) \/ EntryUpdateOnActivity(i, n, m)
    PROVE  TypeOK'
<1> DEFINE base == Cleared(entries, m, i)
<1>1. Used(i)
  BY DEF EntryUpdate, EntryUpdateOnActivity, OnSerial
<1>2. Holds(entries)
  BY DEF TypeOK, Holds, EntryOrNone
<1>3. Holds(base)
  BY <1>2, ClearedType
<1>4. base[i] \in Entry /\ entries[i] \in Entry
  BY <1>1, <1>2, <1>3, UsedIsEntry
<1>5. edits' \in 0..MaxEdits
  BY OneEditCounts, OneUpdateCounts DEF EntryUpdate, EntryUpdateOnActivity
<1>6. \/ entries' = [base EXCEPT ![i].name = n, ![i].modem = m]
      \/ entries' = [entries EXCEPT ![i].name = n, ![i].modem = m]
  BY DEF EntryUpdate, EntryUpdateOnActivity
<1> HIDE DEF base
<1>7. /\ base \in [Ids -> Entry \cup {NoEntry}]
      /\ entries \in [Ids -> Entry \cup {NoEntry}]
  BY <1>2, <1>3 DEF Holds, EntryOrNone
<1>8. ASSUME NEW es \in [Ids -> Entry \cup {NoEntry}], es[i] \in Entry
      PROVE  [es EXCEPT ![i].name = n, ![i].modem = m] \in [Ids -> Entry \cup {NoEntry}]
  <2>1. [es[i] EXCEPT !.name = n, !.modem = m] \in Entry
    BY <1>8, EntryFields
  <2>2. [es EXCEPT ![i].name = n, ![i].modem = m]
           = [es EXCEPT ![i] = [es[i] EXCEPT !.name = n, !.modem = m]]
    BY <1>8
  <2>3. QED
    BY <2>1, <2>2
<1>9. entries' \in [Ids -> Entry \cup {NoEntry}]
  BY <1>4, <1>6, <1>7, <1>8
<1>10. QED
  BY <1>5, <1>9 DEF TypeOK, EntryUpdate, EntryUpdateOnActivity

LEMMA EntryDeleteType ==
    ASSUME TypeOK, NEW i \in Ids, EntryDelete(i)
    PROVE  TypeOK'
<1>1. edits' \in 0..MaxEdits
  BY OneEditCounts DEF EntryDelete
<1>2. QED
  BY <1>1 DEF TypeOK, EntryDelete

LEMMA EntryChameleonType ==
    ASSUME TypeOK, NEW i \in Ids, NEW c \in Names, EntryChameleon(i, c)
    PROVE  TypeOK'
<1>1. edits' \in 0..MaxEdits
  BY OneEditCounts DEF EntryChameleon
<1>2. entries[i] \in Entry
  BY UsedIsEntry DEF EntryChameleon
<1>3. [pkg |-> entries[i].pkg, name |-> c, modem |-> None] \in Entry
  BY <1>2 DEF Entry
<1>4. QED
  BY <1>1, <1>3 DEF TypeOK, EntryChameleon

LEMMA PackageDuplicateType ==
    ASSUME TypeOK, NEW p \in Packages, NEW q \in Packages, PackageDuplicate(p, q)
    PROVE  TypeOK'
<1> DEFINE originals == {i \in Ids : entries[i].pkg = p}
           last == Max({i \in Ids : Used(i)})
           place(o) == last + Cardinality({e \in originals : e <= o})
<1>1. edits' \in 0..MaxEdits
  BY OneEditCounts DEF PackageDuplicate
<1>2. entries' = [i \in Ids |->
               IF \E o \in originals : place(o) = i
               THEN [entries[CHOOSE o \in originals : place(o) = i] EXCEPT !.pkg = q]
               ELSE entries[i]]
  BY DEF PackageDuplicate
<1>3. \A o \in originals : [entries[o] EXCEPT !.pkg = q] \in Entry
  <2>1. SUFFICES ASSUME NEW o \in Ids, entries[o].pkg = p
                 PROVE  [entries[o] EXCEPT !.pkg = q] \in Entry
    OBVIOUS
  <2>2. entries[o] \in Entry
    BY <2>1, Markers DEF TypeOK, NoEntry
  <2>3. QED
    BY <2>2 DEF Entry
<1> HIDE DEF originals, place
<1>4. \A i \in Ids : (\E o \in originals : place(o) = i)
                       => (CHOOSE o \in originals : place(o) = i) \in originals
  OBVIOUS
<1>5. entries' \in [Ids -> Entry \cup {NoEntry}]
  BY <1>2, <1>3, <1>4 DEF TypeOK
<1>6. QED
  BY <1>1, <1>5 DEF TypeOK, PackageDuplicate

LEMMA PackageType ==
    ASSUME TypeOK, NEW p \in Packages,
           PackageDelete(p) \/ PackageAssign(p) \/ PackageUnassign(p)
    PROVE  TypeOK'
<1>1. edits' \in 0..MaxEdits
  BY OneEditCounts DEF PackageDelete, PackageAssign, PackageUnassign
<1>2. CASE PackageDelete(p)
  BY <1>1, <1>2 DEF TypeOK, PackageDelete
<1>3. CASE PackageAssign(p) \/ PackageUnassign(p)
  BY <1>1, <1>3 DEF TypeOK, PackageAssign, PackageUnassign
<1>4. QED
  BY <1>2, <1>3

LEMMA SaveAllReadType ==
    ASSUME TypeOK, NEW p \in Packages, SaveAllRead(p)
    PROVE  TypeOK'
BY DEF TypeOK, SaveAllRead

LEMMA SyncStartType == TypeOK /\ SyncStart => TypeOK'
<1>1. SUFFICES ASSUME TypeOK, SyncStart
               PROVE  TypeOK'
  OBVIOUS
<1>2. {entries[i] : i \in Targets} \subseteq Entry
  BY <1>1, UsedIsEntry DEF Targets, Mapped, OnSerial
<1>3. Idle \in [running : BOOLEAN, todo : SUBSET Entry, pending : [Names -> Row \cup {NoRow}]]
  BY DEF Idle
<1>4. sync' \in [running : BOOLEAN, todo : SUBSET Entry, pending : [Names -> Row \cup {NoRow}]]
  BY <1>1, <1>2, <1>3 DEF SyncStart
<1>5. QED
  BY <1>1, <1>4 DEF TypeOK, SyncStart

LEMMA SyncItemType ==
    ASSUME TypeOK, NEW e \in sync.todo, NEW logs \in BOOLEAN, SyncItem(e, logs)
    PROVE  TypeOK'
<1> DEFINE row == [status |-> Reading(e.modem),
                   source |-> IF Displayed(e.name) THEN shown[e.name].source ELSE e.modem]
           pending == [sync.pending EXCEPT ![e.name] = IF logs THEN row ELSE @]
<1>1. /\ e \in Entry
      /\ sync.todo \subseteq Entry
      /\ sync.pending \in [Names -> Row \cup {NoRow}]
      /\ sync.running \in BOOLEAN
  BY DEF TypeOK
<1>2. /\ e.name \in Names /\ e.modem \in Modems \cup {None}
      /\ shown[e.name].source \in Modems \cup {None}
      /\ Reading(e.modem) \in Statuses
  BY <1>1 DEF Entry, TypeOK, Row, NoRow, Reading, Statuses
<1>3. row \in Row
  BY <1>2 DEF Row
<1>4. sync' = [sync EXCEPT !.todo = sync.todo \ {e}, !.pending = pending]
  BY DEF SyncItem, TypeOK
<1> HIDE DEF row
<1>5. pending \in [Names -> Row \cup {NoRow}]
  BY <1>1, <1>2, <1>3
<1> HIDE DEF pending
<1>6. sync' \in [running : BOOLEAN, todo : SUBSET Entry, pending : [Names -> Row \cup {NoRow}]]
  BY <1>1, <1>4, <1>5 DEF TypeOK
<1>7. QED
  BY <1>6 DEF TypeOK, SyncItem

LEMMA SyncCommitType == TypeOK /\ SyncCommit => TypeOK'
BY DEF TypeOK, SyncCommit, Idle

\* The entries a save-all has written: an entry named by its form has a name of
\* the form, every other one keeps its own.
SaveAllUpdate(u) ==
    /\ u.id \in Ids /\ Loaded(u.id)
    /\ u.old = saving.snap[u.id].name
    /\ u.new \in Names
    /\ u.source \in Modems \cup {None}

LEMMA FormShape ==
    ASSUME NEW us \in Forms
    PROVE  \/ /\ \E u : us = <<u>>
              /\ SaveAllUpdate(us[1])
           \/ /\ \E u, v : us = <<u, v>>
              /\ SaveAllUpdate(us[1]) /\ SaveAllUpdate(us[2])
              /\ us[1].id < us[2].id
<1> DEFINE Fields(i) == [id : {i}, old : {saving.snap[i].name}, new : Names,
                         status : {"Down"}, source : Modems \cup {None}]
           ids == {i \in Ids : Loaded(i)}
<1>1. ASSUME NEW i \in ids, NEW u \in Fields(i)
      PROVE  SaveAllUpdate(u)
  BY <1>1 DEF SaveAllUpdate
<1>2. CASE \E i \in ids : \E u \in Fields(i) : us = <<u>>
  BY <1>1, <1>2
<1>3. CASE \E i, j \in ids : us \in Fields(i) \X Fields(j) /\ us[1].id < us[2].id
  <2>1. PICK i \in ids, j \in ids : us \in Fields(i) \X Fields(j) /\ us[1].id < us[2].id
    BY <1>3
  <2>2. PICK u \in Fields(i), v \in Fields(j) : us = <<u, v>>
    BY <2>1
  <2>3. us[1] = u /\ us[2] = v
    BY <2>2
  <2>4. QED
    BY <1>1, <2>1, <2>2, <2>3
<1>4. \/ us \in {<<u>> : u \in UNION {Fields(i) : i \in ids}}
      \/ us \in {s \in UNION {Fields(i) \X Fields(j) : i, j \in ids} :
                    s[1].id < s[2].id /\ MaxBatch > 1}
  BY DEF Forms
<1> HIDE DEF Fields, ids
<1>5. QED
  BY <1>2, <1>3, <1>4

\* What a session holds that has read before it waited.
Typed(es) ==
    /\ es \in [Ids -> EntryOrNone]
    /\ \A i \in Ids : /\ es[i].name \in {Objects[i].name} \cup Names
                      /\ Objects[i] = NoEntry <=> es[i] = NoEntry

LEMMA ObjectsTyped == TypeOK => Typed(Objects)
BY DEF TypeOK, Typed, Objects, EntryOrNone

LEMMA SavedTyped ==
    ASSUME TypeOK, NEW es, Typed(es), NEW u, SaveAllUpdate(u)
    PROVE  Typed(Saved(es, u))
<1> DEFINE base == Cleared(es, u.source, u.id)
           e == [base[u.id] EXCEPT !.name = u.new, !.modem = u.source]
<1>1. u.id \in Ids /\ u.new \in Names /\ u.source \in Modems \cup {None}
  BY DEF SaveAllUpdate
<1>2. Typed(base)
  <2>1. SUFFICES ASSUME NEW i \in Ids
                 PROVE  /\ base[i] \in EntryOrNone
                        /\ base[i].name = es[i].name
                        /\ es[i] = NoEntry <=> base[i] = NoEntry
    BY DEF Typed, Cleared
  <2>2. CASE es[i] = NoEntry
    BY <2>2 DEF NoEntry, EntryOrNone, Cleared
  <2>3. CASE es[i] \in Entry
    BY <2>3, Markers DEF Entry, EntryOrNone, Cleared, NoEntry
  <2>4. QED
    BY <2>2, <2>3 DEF EntryOrNone, Typed
<1>3. Saved(es, u) = [base EXCEPT ![u.id] = e]
  BY <1>1, <1>2 DEF Saved, Typed
<1>4. Objects[u.id] \in Entry
  BY <1>1 DEF Objects, TypeOK, SaveAllUpdate, Loaded
<1>5. e \in Entry /\ e.name = u.new
  <2>1. base[u.id] \in EntryOrNone
    BY <1>1, <1>2 DEF Typed
  <2>2. base[u.id] # NoEntry
    BY <1>1, <1>2, <1>4, Markers DEF Typed, Entry, NoEntry
  <2> HIDE DEF base
  <2>3. base[u.id] \in Entry
    BY <2>1, <2>2 DEF EntryOrNone
  <2>4. QED
    BY <1>1, <2>3 DEF Entry
<1> HIDE DEF base, e
<1>6. e # NoEntry /\ Objects[u.id] # NoEntry
  BY <1>4, <1>5, Markers DEF Entry, NoEntry
<1>7. QED
  BY <1>1, <1>2, <1>3, <1>5, <1>6 DEF Typed, EntryOrNone

LEMMA SaveAllWriteType ==
    ASSUME TypeOK, NEW us \in Forms, SaveAllWrite(us)
    PROVE  TypeOK'
<1> DEFINE es == InTurn(Saved, Objects, us)
           written == {i \in Ids : es[i] # Objects[i]}
<1>1. Typed(es)
  <2>1. es = IF Len(us) = 1 THEN Saved(Objects, us[1])
             ELSE Saved(Saved(Objects, us[1]), us[2])
    BY DEF InTurn
  <2>2. SaveAllUpdate(us[1]) /\ (Len(us) = 1 \/ SaveAllUpdate(us[2]))
    BY FormShape
  <2>3. Typed(Saved(Objects, us[1]))
    BY <2>2, ObjectsTyped, SavedTyped
  <2>4. Len(us) # 1 => Typed(Saved(Saved(Objects, us[1]), us[2]))
    BY <2>2, <2>3, SavedTyped
  <2>5. QED
    BY <2>1, <2>3, <2>4
<1>2. IF \A i \in written : Used(i) THEN entries' = Flushed(es) ELSE UNCHANGED entries
  BY DEF SaveAllWrite
<1>3. edits' \in 0..MaxEdits
  <2>1. Len(us) \in Nat
    BY FormShape
  <2>2. QED
    BY <2>1, EditCounts DEF SaveAllWrite
<1> HIDE DEF es
<1>4. ASSUME \A i \in written : Used(i)
      PROVE  Flushed(es) \in [Ids -> Entry \cup {NoEntry}]
  <2>1. SUFFICES ASSUME NEW i \in Ids
                 PROVE  Flushed(es)[i] \in Entry \cup {NoEntry}
    BY DEF Flushed
  <2> DEFINE name == IF es[i].name # Objects[i].name THEN es[i].name ELSE entries[i].name
             modem == IF es[i].modem # Objects[i].modem THEN es[i].modem ELSE entries[i].modem
  <2>2. Flushed(es)[i] = [pkg |-> entries[i].pkg, name |-> name, modem |-> modem]
    BY DEF Flushed
  <2>3. CASE ~Used(i)
    <3>1. es[i] = Objects[i]
      BY <1>4, <2>3
    <3>2. QED
      BY <2>2, <2>3, <3>1 DEF Used, NoEntry
  <2>4. CASE Used(i)
    <3>1. entries[i] \in Entry
      BY <2>4, UsedIsEntry
    <3>2. name \in Names
      BY <1>1, <3>1 DEF Typed, Entry
    <3>3. modem \in Modems \cup {None}
      <4>1. es[i].modem \in Modems \cup {None}
        BY <1>1 DEF Typed, EntryOrNone, Entry, NoEntry
      <4>2. QED
        BY <3>1, <4>1 DEF Entry
    <3> HIDE DEF name, modem
    <3>4. QED
      BY <2>2, <3>1, <3>2, <3>3 DEF Entry
  <2>5. QED
    BY <2>3, <2>4
<1>5. entries' \in [Ids -> Entry \cup {NoEntry}]
  BY <1>2, <1>4 DEF TypeOK
<1>6. NoSave \in [pkg : Packages \cup {0}, snap : [Ids -> Entry \cup {NoEntry}]]
  BY DEF NoSave
<1>7. QED
  BY <1>3, <1>5, <1>6 DEF TypeOK, SaveAllWrite

\* The steps of Next, by what they leave to be said of the last request.
QuietPages ==
    \/ \E p \in Packages, n \in Names, m \in Modems \cup {None} : EntryImport(p, n, m)
    \/ \E i \in Ids, n \in Names, m \in Modems \cup {None} : EntryUpdateOnActivity(i, n, m)
    \/ \E i \in Ids : EntryDelete(i)
    \/ \E p, q \in Packages : PackageDuplicate(p, q)
    \/ \E p \in Packages : PackageAssign(p) \/ PackageUnassign(p) \/ PackageDelete(p)
    \/ \E i \in Ids, c \in Names : EntryChameleon(i, c)

LEMMA Steps ==
    ASSUME TypeOK, Next
    PROVE  \/ Requested
           \/ \E n \in Names, status \in Statuses, source \in Modems \cup {None} :
                 SignalAdd(n, status, source)
           \/ \E n, c \in Names : Chameleon(n, c)
           \/ \E p \in Packages, n \in Names, m \in Modems \cup {None} : EntryAdd(p, n, m)
           \/ \E i \in Ids, n \in Names, m \in Modems \cup {None} : EntryUpdate(i, n, m)
           \/ QuietPages
           \/ \E p \in Packages : SaveAllRead(p)
           \/ \E us \in Forms : SaveAllWrite(us)
           \/ Sync
<1>1. CASE Dashboard
  <2>1. ASSUME NEW n \in Names, NEW status \in Statuses, NEW source \in Modems \cup {None},
               QuickUpdate(n, status, source)
        PROVE  Requested
    BY <2>1, QuickRequest DEF Requested
  <2>2. ASSUME \/ \E u \in Update : BulkUpdate(<<u>>)
               \/ \E u, v \in {w \in Update : Displayed(w.old)} : BulkUpdate(<<u, v>>)
        PROVE  Requested
    <3>1. \/ \E u \in Update : BulkUpdate(<<u>>)
          \/ \E u, v \in Update : BulkUpdate(<<u, v>>)
      BY <2>2
    <3>2. QED
      BY <3>1, BulkRequest DEF Requested
  <2>3. QED
    BY <1>1, <2>1, <2>2 DEF Dashboard
<1>2. CASE Pages
  BY <1>2 DEF Pages, QuietPages
<1>3. CASE SaveAll
  BY <1>3 DEF SaveAll
<1>4. QED
  BY <1>1, <1>2, <1>3 DEF Next

LEMMA TypeStep == TypeOK /\ [Next]_vars => TypeOK'
<1>1. CASE UNCHANGED vars
  BY <1>1 DEF vars, TypeOK
<1>2. ASSUME TypeOK, Next
      PROVE  TypeOK'
  <2>1. CASE \/ Requested
             \/ \E n \in Names, status \in Statuses, source \in Modems \cup {None} :
                   SignalAdd(n, status, source)
             \/ \E n, c \in Names : Chameleon(n, c)
    BY <1>2, <2>1, RequestedType, SignalAddType, ChameleonType
  <2>2. CASE \/ \E p \in Packages, n \in Names, m \in Modems \cup {None} : EntryAdd(p, n, m)
             \/ \E i \in Ids, n \in Names, m \in Modems \cup {None} : EntryUpdate(i, n, m)
    BY <1>2, <2>2, EntryAddType, EntryUpdateType
  <2>3. CASE QuietPages
    BY <1>2, <2>3, EntryAddType, EntryUpdateType, EntryDeleteType, EntryChameleonType,
       PackageDuplicateType, PackageType DEF QuietPages
  <2>4. CASE \/ \E p \in Packages : SaveAllRead(p)
             \/ \E us \in Forms : SaveAllWrite(us)
    BY <1>2, <2>4, SaveAllReadType, SaveAllWriteType
  <2>5. CASE Sync
    BY <1>2, <2>5, SyncStartType, SyncItemType, SyncCommitType DEF Sync
  <2>6. QED
    BY <1>2, Steps, <2>1, <2>2, <2>3, <2>4, <2>5
<1>3. QED
  BY <1>1, <1>2

LEMMA TypeInit == Init => TypeOK
<1>1. SUFFICES ASSUME Init
               PROVE  TypeOK
  OBVIOUS
<1> DEFINE Pair == [name : Names, modem : Modems \cup {None}]
<1>2. /\ DOMAIN Start = 1..Len(Start)
      /\ \A i \in DOMAIN Start : Start[i] \in Pair
  <2>1. Start \in Seq(Pair)
    BY StartAssumption
  <2> HIDE DEF Pair
  <2>2. DOMAIN Start = 1..Len(Start)
    BY <2>1
  <2>3. \A i \in 1..Len(Start) : Start[i] \in Pair
    BY <2>1
  <2>4. QED
    BY <2>2, <2>3
<1>3. entries \in [Ids -> Entry \cup {NoEntry}]
  BY <1>1, <1>2 DEF Init, Entry, Packages
<1>4. shown \in [Names -> Row \cup {NoRow}]
  <2>1. \A n \in Names : (\E i \in DOMAIN Start : Start[i].name = n)
           => Start[CHOOSE i \in DOMAIN Start : Start[i].name = n].modem \in Modems \cup {None}
    BY <1>2
  <2>2. QED
    BY <1>1, <2>1 DEF Init, Row, Statuses
<1>5. /\ NoSave \in [pkg : Packages \cup {0}, snap : [Ids -> Entry \cup {NoEntry}]]
      /\ Idle \in [running : BOOLEAN, todo : SUBSET Entry, pending : [Names -> Row \cup {NoRow}]]
  BY DEF NoSave, Idle
<1>6. QED
  BY <1>1, <1>3, <1>4, <1>5, BoundsAssumption DEF Init, TypeOK, Packages

-----------------------------------------------------------------------------
\* Every entry, row and local variable keeps its shape.
THEOREM TypeCorrect == Spec => []TypeOK
BY TypeInit, TypeStep, PTL DEF Spec

-----------------------------------------------------------------------------
(* Who has the modem that was given.                                       *)

\* A renamed session has the modems it had.
LEMMA RenamedModems ==
    ASSUME TypeOK, NEW m, InSession(m), NEW u
    PROVE  \A i \in Ids : Renamed(m, u).e[i].modem = m.e[i].modem
<1>1. SUFFICES ASSUME NEW i \in Ids
               PROVE  Renamed(m, u).e[i].modem = m.e[i].modem
  OBVIOUS
<1> DEFINE e == [j \in Ids |-> IF OnSerial(j) /\ entries[j].name = u.old
                                THEN [m.e[j] EXCEPT !.name = u.new]
                                ELSE m.e[j]]
           now == [m.now EXCEPT ![u.old] = u.new]
<1>2. Renamed(m, u) \in {m, [m EXCEPT !.ok = FALSE], [m EXCEPT !.now = now, !.e = e]}
  BY DEF Renamed, InSession, Session
<1>3. e[i].modem = m.e[i].modem
  <2>1. m.e[i] \in EntryOrNone
    BY DEF InSession, Session
  <2>2. [m.e[i] EXCEPT !.name = u.new].modem = m.e[i].modem
    BY <2>1 DEF EntryOrNone, Entry, NoEntry
  <2>3. QED
    BY <2>2
<1> HIDE DEF e, now
<1>4. QED
  BY <1>2, <1>3 DEF InSession, Session

\* After the modem of an update has been given, only the signal has it, unless
\* an object had it before that the database does not know of.
LEMMA SourcedAlone ==
    ASSUME TypeOK, NEW m, InSession(m), NEW u \in Update, Modem(u), NEW i \in Ids,
           m.e[i].modem = u.source => entries[i].modem = u.source,
           Sourced(m, u).e[i].modem = u.source
    PROVE  OnSerial(i) /\ Sourced(m, u).e[i].name = u.new
<1> DEFINE es == Cleared(m.e, u.source, 0)
<1>1. u.source # None /\ u.source # Same
  BY Markers DEF Modem
<1>2. Sourced(m, u).e[i] = IF OnSerial(i) /\ es[i].name = u.new
                           THEN [es[i] EXCEPT !.modem = u.source]
                           ELSE es[i]
  BY <1>1 DEF Sourced, InSession, Session
<1>3. es[i].modem # u.source /\ es[i] \in EntryOrNone
  <2>1. m.e[i] \in EntryOrNone
    BY DEF InSession, Session
  <2>2. Holds(es)
    BY ClearedType DEF InSession
  <2>3. CASE entries[i].modem = u.source
    <3>1. i # 0
      BY DEF Ids
    <3>2. es[i] = [m.e[i] EXCEPT !.modem = None]
      BY <1>1, <2>3, <3>1 DEF Cleared
    <3>3. es[i].modem = None
      BY <2>1, <3>2 DEF EntryOrNone, Entry, NoEntry
    <3>4. QED
      BY <1>1, <2>2, <3>3 DEF Holds
  <2>4. CASE entries[i].modem # u.source
    BY <2>1, <2>4 DEF Cleared
  <2>5. QED
    BY <2>3, <2>4
<1> HIDE DEF es
<1>4. OnSerial(i) /\ es[i].name = u.new
  BY <1>2, <1>3
<1>5. [es[i] EXCEPT !.modem = u.source].name = es[i].name
  BY <1>3 DEF EntryOrNone, Entry, NoEntry
<1>6. QED
  BY <1>2, <1>4, <1>5

\* What the first update makes of the entries, once it is not refused.
LEMMA AppliedEntries ==
    ASSUME NEW m, InSession(m), NEW u, Applied(m, u).ok
    PROVE  /\ Renamed(m, u).ok
           /\ Applied(m, u) = Logged(Sourced(Renamed(m, u), u), u)
BY DEF Applied

LEMMA LoggedEntries ==
    ASSUME NEW m, InSession(m), NEW u
    PROVE  /\ Logged(m, u).e = m.e
           /\ Logged(m, u).now = m.now
           /\ Logged(m, u).ok = m.ok
BY DEF Logged, InSession, Session

\* A request of one update.
LEMMA SingleRequest ==
    ASSUME TypeOK, NEW u \in Update, Apply(<<u>>)
    PROVE  LET r == Renamed(Memory, u)
               s == Sourced(r, u)
           IN  /\ InSession(r) /\ InSession(s) /\ r.ok
               /\ entries' = s.e
               /\ shown' = ShownAfter(Logged(s, u))
<1> DEFINE r == Renamed(Memory, u)
           s == Sourced(r, u)
<1>1. InSession(Memory) /\ InSession(r) /\ InSession(s)
  BY MemoryType, RenamedType, SourcedType
<1>2. InTurn(Applied, Memory, <<u>>) = Applied(Memory, u)
  BY DEF InTurn
<1>3. Applied(Memory, u).ok
  BY <1>2 DEF Apply
<1>4. r.ok /\ Applied(Memory, u) = Logged(s, u)
  BY <1>1, <1>3, AppliedEntries
<1>5. entries' = Logged(s, u).e /\ shown' = ShownAfter(Logged(s, u))
  BY <1>2, <1>4 DEF Apply
<1> HIDE DEF r, s
<1>6. entries' = s.e
  BY <1>1, <1>5, LoggedEntries
<1>7. QED
  BY <1>1, <1>4, <1>5, <1>6 DEF r, s

LEMMA DashboardAssigns ==
    ASSUME TypeOK, NEW u \in Update, Modem(u), Apply(<<u>>)
    PROVE  \A i \in Ids : entries'[i].modem = u.source => entries'[i].name = u.new
<1>1. SUFFICES ASSUME NEW i \in Ids, entries'[i].modem = u.source
               PROVE  entries'[i].name = u.new
  OBVIOUS
<1> DEFINE r == Renamed(Memory, u)
           s == Sourced(r, u)
<1>2. InSession(r) /\ entries' = s.e
  BY SingleRequest
<1>3. r.e[i].modem = entries[i].modem
  BY MemoryType, RenamedModems DEF Memory
<1> HIDE DEF r
<1>4. s.e[i].name = u.new
  BY <1>1, <1>2, <1>3, SourcedAlone
<1>5. QED
  BY <1>2, <1>4

LEMMA PackagesAssign ==
    ASSUME TypeOK, NEW n \in Names, NEW m \in Modems,
           \/ \E p \in Packages : EntryAdd(p, n, m)
           \/ \E i \in Ids : EntryUpdate(i, n, m)
    PROVE  \A j \in Ids : entries'[j].modem = m => entries'[j].name = n
<1>1. SUFFICES ASSUME NEW j \in Ids, entries'[j].modem = m
               PROVE  entries'[j].name = n
  OBVIOUS
<1>2. m # None /\ entries[j] \in EntryOrNone /\ j # 0
  BY Markers DEF TypeOK, EntryOrNone, Ids
<1>3. ASSUME NEW x, x # j
      PROVE  Cleared(entries, m, x)[j].modem # m
  <2>1. CASE entries[j].modem = m
    BY <1>2, <1>3, <2>1 DEF Cleared, EntryOrNone, Entry, NoEntry
  <2>2. CASE entries[j].modem # m
    BY <2>2 DEF Cleared
  <2>3. QED
    BY <2>1, <2>2
<1>4. ASSUME NEW p \in Packages, EntryAdd(p, n, m)
      PROVE  entries'[j].name = n
  <2> DEFINE base == Cleared(entries, m, 0)
  <2>1. base \in [Ids -> EntryOrNone]
    BY ClearedType DEF TypeOK, Holds, EntryOrNone
  <2>2. base[j].modem # m
    BY <1>2, <1>3
  <2>3. PICK i \in Ids : entries' = [base EXCEPT ![i] = [pkg |-> p, name |-> n, modem |-> m]]
    BY <1>4 DEF EntryAdd
  <2> HIDE DEF base
  <2>4. QED
    BY <1>1, <2>1, <2>2, <2>3
<1>5. ASSUME NEW i \in Ids, EntryUpdate(i, n, m)
      PROVE  entries'[j].name = n
  <2> DEFINE base == Cleared(entries, m, i)
  <2>1. base \in [Ids -> EntryOrNone]
    BY ClearedType DEF TypeOK, Holds, EntryOrNone
  <2>2. i # j => base[j].modem # m
    BY <1>3
  <2>3. entries' = [base EXCEPT ![i].name = n, ![i].modem = m]
    BY <1>5 DEF EntryUpdate
  <2> HIDE DEF base
  <2>4. i # j => entries'[j] = base[j]
    BY <2>1, <2>3
  <2>5. base[j] \in EntryOrNone
    BY <2>1
  <2>6. i = j => entries'[j] = [base[j] EXCEPT !.name = n, !.modem = m]
    BY <2>1, <2>3
  <2>7. i = j => entries'[j].name = n
    BY <2>5, <2>6 DEF EntryOrNone, Entry, NoEntry
  <2>8. QED
    BY <1>1, <2>2, <2>4, <2>7
<1>6. QED
  BY <1>4, <1>5

\* A given modem is shown by the signal alone.
LEMMA DashboardShows ==
    ASSUME TypeOK, NEW u \in Update, Modem(u), u.old = u.new, Apply(<<u>>)
    PROVE  \A n \in Names \ {u.new} : shown'[n].source # u.source
<1>1. SUFFICES ASSUME NEW n \in Names, n # u.new
               PROVE  shown'[n].source # u.source
  OBVIOUS
<1> DEFINE s == Sourced(Memory, u)
<1>2. Renamed(Memory, u) = Memory
  BY DEF Renamed
<1>3. shown' = ShownAfter(Logged(s, u)) /\ InSession(s)
  BY <1>2, SingleRequest
<1>4. u.source \in Modems /\ u.source # None
  BY Markers DEF Modem
<1>5. /\ \A d \in Names : s.now[d] = d
      /\ \A d \in Names : s.add[d] = NoRow
  BY DEF Sourced, Memory
<1> DEFINE m == Logged(s, u)
<1> HIDE DEF s
<1>6. /\ \A d \in Names : m.now[d] = d
      /\ m.add[n] = IF n \in Displaced(s, u)
                    THEN [status |-> shown[n].status, source |-> None]
                    ELSE IF n \in Downed(s, u)
                    THEN [status |-> "Down", source |-> shown[n].source]
                    ELSE NoRow
  BY <1>1, <1>3, <1>5 DEF Logged, InSession, Session
<1>7. n \notin Displaced(s, u) => shown[n].source # u.source
  BY <1>1, <1>4, <1>5 DEF Displaced
<1> HIDE DEF m
<1>8. ShownAfter(m)[n] = IF m.add[n] # NoRow THEN m.add[n]
                         ELSE IF \E d \in Names : Displayed(d) /\ m.now[d] = n
                         THEN shown[CHOOSE d \in Names : Displayed(d) /\ m.now[d] = n]
                         ELSE NoRow
  BY DEF ShownAfter
<1>9. NoRow.source = None
  BY DEF NoRow
<1>10. CASE m.add[n] # NoRow
  <2>1. m.add[n].source # u.source
    BY <1>4, <1>6, <1>7, <1>9
  <2>2. QED
    BY <1>3, <1>8, <1>10, <2>1 DEF m
<1>11. CASE m.add[n] = NoRow
  <2>1. n \notin Displaced(s, u)
    <3>1. ASSUME n \in Displaced(s, u)
          PROVE  FALSE
      <4>1. [status |-> shown[n].status, source |-> None] \in Row
        BY <1>3, <3>1, RowsAdded
      <4>2. [status |-> shown[n].status, source |-> None] # NoRow
        BY <4>1, Markers DEF Row, NoRow
      <4>3. QED
        BY <1>6, <1>11, <3>1, <4>2
    <3>2. QED
      BY <3>1
  <2>2. shown[n].source # u.source
    BY <1>7, <2>1
  <2>3. (\E d \in Names : Displayed(d) /\ m.now[d] = n)
           => (CHOOSE d \in Names : Displayed(d) /\ m.now[d] = n) = n
    BY <1>6
  <2>4. QED
    BY <1>3, <1>4, <1>8, <1>9, <1>11, <2>2, <2>3 DEF m
<1>12. QED
  BY <1>10, <1>11

-----------------------------------------------------------------------------
(* The properties of a step.                                               *)

\* What an edit leaves to be said of it.
LEMMA EditSays ==
    ASSUME NEW by, NEW us, NEW free, Edit(by, us, free)
    PROVE  done'.by = by /\ done'.us = us /\ done'.free = free
BY DEF Edit

\* The steps that no property of a given modem speaks of.
OtherSteps ==
    \/ \E n \in Names, status \in Statuses, source \in Modems \cup {None} :
          SignalAdd(n, status, source)
    \/ \E n, c \in Names : Chameleon(n, c)
    \/ QuietPages
    \/ \E p \in Packages : SaveAllRead(p)
    \/ Sync

LEMMA OthersSay == OtherSteps => done'.by \notin {"dashboard", "package", "save all"}
<1>1. CASE QuietPages
  <2>1. \E by \in {"activity", "delete", "clone", "import", "duplicate", "remove",
                   "assign", "unassign"} : Edit(by, One, FALSE)
    BY <1>1 DEF QuietPages, EntryImport, EntryUpdateOnActivity, EntryDelete, PackageDuplicate,
                PackageAssign, PackageUnassign, PackageDelete, EntryChameleon
  <2>2. QED
    BY <2>1, EditSays
<1>2. CASE \/ \E p \in Packages : SaveAllRead(p)
           \/ Sync
  <2>1. done' = Nothing
    BY <1>2 DEF SaveAllRead, Sync, SyncStart, SyncItem, SyncCommit
  <2>2. QED
    BY <2>1 DEF Nothing
<1>3. CASE \/ \E n \in Names, status \in Statuses, source \in Modems \cup {None} :
                 SignalAdd(n, status, source)
           \/ \E n, c \in Names : Chameleon(n, c)
  <2>1. \E by \in {"add", "chameleon"} : \E us, free : Edit(by, us, free)
    BY <1>3 DEF SignalAdd, Chameleon
  <2>2. QED
    BY <2>1, EditSays
<1>4. QED
  BY <1>1, <1>2, <1>3 DEF OtherSteps

\* A step that speaks of one given modem is a request of one update, or the page
\* of a package.
LEMMA GivenBy ==
    ASSUME TypeOK, Next, Gave({"dashboard", "package"})'
    PROVE  \/ /\ done'.by = "dashboard"
              /\ \E u \in Update : done'.us = <<u>> /\ Modem(u) /\ Apply(<<u>>)
           \/ /\ done'.by = "package"
              /\ \E n \in Names, m \in Modems :
                    /\ done'.us = <<[old |-> n, new |-> n, status |-> "Down", source |-> m]>>
                    /\ \/ \E p \in Packages : EntryAdd(p, n, m)
                       \/ \E i \in Ids : EntryUpdate(i, n, m)
<1> DEFINE given == done'.us[1]
<1>1. /\ done'.by \in {"dashboard", "package"}
      /\ Len(done'.us) = 1
      /\ given.source \in Modems
  BY DEF Gave, Modem
<1>2. CASE Requested
  <2>1. PICK us : Request(us) /\ Edit("dashboard", us, Free(us)) /\ Apply(us)
    BY <1>2 DEF Requested
  <2>2. done'.by = "dashboard" /\ done'.us = us
    BY <2>1 DEF Edit
  <2>3. PICK u \in Update : us = <<u>>
    BY <1>1, <2>1, <2>2 DEF Request
  <2>4. Modem(u)
    BY <1>1, <2>2, <2>3 DEF Modem
  <2>5. QED
    BY <2>1, <2>2, <2>3, <2>4
<1>3. ASSUME NEW n \in Names, NEW m \in Modems \cup {None},
             \/ \E p \in Packages : EntryAdd(p, n, m)
             \/ \E i \in Ids : EntryUpdate(i, n, m)
      PROVE  /\ done'.by = "package"
             /\ done'.us = <<[old |-> n, new |-> n, status |-> "Down", source |-> m]>>
             /\ m \in Modems
  <2>1. Edit("package", <<[old |-> n, new |-> n, status |-> "Down", source |-> m]>>, FALSE)
    BY <1>3 DEF EntryAdd, EntryUpdate
  <2>2. /\ done'.by = "package"
        /\ done'.us = <<[old |-> n, new |-> n, status |-> "Down", source |-> m]>>
    BY <2>1 DEF Edit
  <2>3. QED
    BY <1>1, <2>2
<1>4. (\E us \in Forms : SaveAllWrite(us)) \/ OtherSteps
      => done'.by \notin {"dashboard", "package"}
  <2>1. (\E us \in Forms : SaveAllWrite(us)) => done'.by = "save all"
    BY EditSays DEF SaveAllWrite
  <2>2. QED
    BY <2>1, OthersSay
<1>5. QED
  BY <1>1, <1>2, <1>3, <1>4, Steps DEF OtherSteps

LEMMA AssignedStep ==
    ASSUME TypeOK, AssignedToOneSignal, [Next]_vars
    PROVE  AssignedToOneSignal'
<1>1. CASE UNCHANGED vars
  BY <1>1 DEF vars, AssignedToOneSignal, Gave, Modem
<1>2. ASSUME Next, Gave({"dashboard", "package"})'
      PROVE  \A i \in Ids : entries'[i].modem = done'.us[1].source
                              => entries'[i].name = done'.us[1].new
  <2>1. CASE \E u \in Update : done'.us = <<u>> /\ Modem(u) /\ Apply(<<u>>)
    BY <2>1, DashboardAssigns
  <2>2. CASE \E n \in Names, m \in Modems :
                    /\ done'.us = <<[old |-> n, new |-> n, status |-> "Down", source |-> m]>>
                    /\ \/ \E p \in Packages : EntryAdd(p, n, m)
                       \/ \E i \in Ids : EntryUpdate(i, n, m)
    BY <2>2, PackagesAssign
  <2>3. QED
    BY <1>2, GivenBy, <2>1, <2>2
<1>3. QED
  BY <1>1, <1>2 DEF AssignedToOneSignal

LEMMA ShownStep ==
    ASSUME TypeOK, ShownByOneSignal, [Next]_vars
    PROVE  ShownByOneSignal'
<1>1. CASE UNCHANGED vars
  BY <1>1 DEF vars, ShownByOneSignal, Gave, Modem
<1>2. ASSUME Next, Gave({"dashboard"})', done'.us[1].old = done'.us[1].new
      PROVE  \A n \in Names \ {done'.us[1].new} : shown'[n].source # done'.us[1].source
  <2>1. Gave({"dashboard", "package"})' /\ done'.by = "dashboard"
    BY <1>2 DEF Gave
  <2>2. PICK u \in Update : done'.us = <<u>> /\ Modem(u) /\ Apply(<<u>>)
    BY <1>2, <2>1, GivenBy
  <2>3. QED
    BY <1>2, <2>2, DashboardShows
<1>3. QED
  BY <1>1, <1>2 DEF ShownByOneSignal

LEMMA NothingGiven == Init => AssignedToOneSignal /\ ShownByOneSignal
BY DEF Init, Nothing, AssignedToOneSignal, ShownByOneSignal, Gave

\* A modem given to a signal on the dashboard, or on the page of a package, is
\* the modem of no entry of another name, in any package
\* (_clear_modem_from_other_entries).
THEOREM AssignedOnce == Spec => []AssignedToOneSignal
BY NothingGiven, TypeCorrect, AssignedStep, PTL DEF Spec

\* No other signal of the widget shows a modem that was given on the dashboard
\* to a signal that kept its name (_reassign_modem_source).
THEOREM ShownOnce == Spec => []ShownByOneSignal
BY NothingGiven, TypeCorrect, ShownStep, PTL DEF Spec

-----------------------------------------------------------------------------
(* What a request leaves of the choices it makes.                          *)

\* A rename, once it is not refused.
LEMMA RenamedFacts ==
    ASSUME TypeOK, NEW m, InSession(m), NEW u \in Update, Renamed(m, u).ok
    PROVE  LET r == Renamed(m, u)
           IN  /\ m.ok
               /\ r.add = m.add
               /\ \A i \in Ids : r.e[i].name =
                     IF OnSerial(i) /\ entries[i].name = u.old /\ u.new # u.old
                     THEN u.new ELSE m.e[i].name
               /\ \A d \in Names : d # u.old => r.now[d] = m.now[d]
               /\ u.new = u.old => r.now = m.now
               /\ u.new # u.old => /\ r.now[u.old] = u.new
                                   /\ \A d \in Names : Displayed(d) /\ m.now[d] = u.new
                                                         => m.now[d] = u.old
<1> DEFINE r == Renamed(m, u)
           e == [i \in Ids |-> IF OnSerial(i) /\ entries[i].name = u.old
                               THEN [m.e[i] EXCEPT !.name = u.new]
                               ELSE m.e[i]]
           now == [m.now EXCEPT ![u.old] = u.new]
           clash == \E d \in Names : Displayed(d) /\ m.now[d] = u.new /\ m.now[d] # u.old
<1>1. u.old \in Names /\ u.new \in Names
  BY DEF Update
<1>2. CASE u.new = u.old
  <2>1. r = m
    BY <1>2 DEF Renamed
  <2>2. QED
    BY <1>2, <2>1
<1>3. CASE u.new # u.old
  <2>1. r = IF clash THEN [m EXCEPT !.ok = FALSE] ELSE [m EXCEPT !.now = now, !.e = e]
    BY <1>3 DEF Renamed, InSession, Session
  <2>2. ~clash
    BY <2>1 DEF InSession, Session
  <2>3. r = [m EXCEPT !.now = now, !.e = e]
    BY <2>1, <2>2
  <2>4. ASSUME NEW i \in Ids
        PROVE  e[i].name = IF OnSerial(i) /\ entries[i].name = u.old
                           THEN u.new ELSE m.e[i].name
    <3>1. m.e[i] \in EntryOrNone
      BY DEF InSession, Session
    <3>2. [m.e[i] EXCEPT !.name = u.new].name = u.new
      BY <3>1 DEF EntryOrNone, Entry, NoEntry
    <3>3. QED
      BY <3>2
  <2>5. now[u.old] = u.new /\ \A d \in Names : d # u.old => now[d] = m.now[d]
    BY <1>1 DEF InSession, Session
  <2> HIDE DEF e, now
  <2>6. r.now = now /\ r.e = e /\ r.add = m.add /\ r.ok = m.ok
    BY <2>3 DEF InSession, Session
  <2>7. m.ok
    BY <2>6
  <2>8. QED
    BY <1>3, <2>2, <2>4, <2>5, <2>6, <2>7
<1>4. QED
  BY <1>2, <1>3

\* What a source does to the entries: the signal has it, nothing else changes
\* but the entries that the database says have the modem.
LEMMA SourcedFacts ==
    ASSUME TypeOK, NEW m, InSession(m), NEW u \in Update
    PROVE  LET s == Sourced(m, u)
           IN  /\ s.add = m.add /\ s.now = m.now /\ s.ok = m.ok
               /\ \A i \in Ids :
                    /\ s.e[i].name = m.e[i].name
                    /\ Modem(u) /\ OnSerial(i) /\ m.e[i].name = u.new
                         => s.e[i].modem = u.source
                    /\ \/ OnSerial(i) /\ m.e[i].name = u.new
                       \/ Modem(u) /\ entries[i].modem = u.source
                       \/ s.e[i].modem = m.e[i].modem
<1> DEFINE s == Sourced(m, u)
           es == Cleared(m.e, u.source, 0)
           e == [i \in Ids |-> IF OnSerial(i) /\ es[i].name = u.new
                               THEN [es[i] EXCEPT !.modem = u.source]
                               ELSE es[i]]
<1>1. CASE u.source = Same
  <2>1. s = m
    BY <1>1 DEF Sourced
  <2>2. ~Modem(u)
    BY <1>1, Markers DEF Modem
  <2>3. QED
    BY <2>1, <2>2
<1>2. CASE u.source # Same
  <2>1. s = [m EXCEPT !.e = e]
    BY <1>2 DEF Sourced
  <2>2. ASSUME NEW i \in Ids
        PROVE  /\ es[i] \in EntryOrNone
               /\ es[i].name = m.e[i].name
               /\ \/ es[i].modem = m.e[i].modem
                  \/ Modem(u) /\ entries[i].modem = u.source
    <3>1. m.e[i] \in EntryOrNone
      BY DEF InSession, Session
    <3>2. [m.e[i] EXCEPT !.modem = None].name = m.e[i].name
      BY <3>1 DEF EntryOrNone, Entry, NoEntry
    <3>3. es[i] \in EntryOrNone
      BY ClearedType DEF InSession, Holds
    <3>4. es[i] = m.e[i] \/ /\ es[i] = [m.e[i] EXCEPT !.modem = None]
                            /\ u.source # None /\ entries[i].modem = u.source
      BY DEF Cleared
    <3>5. u.source # None => Modem(u)
      BY <1>2 DEF Modem, Update
    <3>6. QED
      BY <3>2, <3>3, <3>4, <3>5
  <2> HIDE DEF es
  <2>3. ASSUME NEW i \in Ids
        PROVE  /\ e[i].name = m.e[i].name
               /\ OnSerial(i) /\ m.e[i].name = u.new => e[i].modem = u.source
               /\ \/ OnSerial(i) /\ m.e[i].name = u.new
                  \/ e[i].modem = es[i].modem
    <3>1. /\ [es[i] EXCEPT !.modem = u.source].name = es[i].name
          /\ [es[i] EXCEPT !.modem = u.source].modem = u.source
      BY <2>2 DEF EntryOrNone, Entry, NoEntry
    <3>2. QED
      BY <2>2, <3>1
  <2> HIDE DEF e
  <2>4. s.e = e /\ s.add = m.add /\ s.now = m.now /\ s.ok = m.ok
    BY <2>1 DEF InSession, Session
  <2>5. QED
    BY <2>2, <2>3, <2>4
<1>3. QED
  BY <1>1, <1>2

\* The rows an update adds: its own, and those of signals that showed its modem
\* or are siblings it brings Down.
LEMMA LoggedFacts ==
    ASSUME TypeOK, NEW m, InSession(m), NEW u \in Update
    PROVE  /\ Logged(m, u).add[u.new] = OwnRow(u)
           /\ \A n \in Names \ {u.new} :
                 \/ Logged(m, u).add[n] = m.add[n]
                 \/ Modem(u) /\ shown[n].source = u.source
                 \/ {u.new, n} \subseteq Group /\ u.status = "Up"
<1>1. u.new \in Names
  BY DEF Update
<1>2. Logged(m, u).add = [n \in Names |->
        IF n = u.new THEN OwnRow(u)
        ELSE IF n \in Displaced(m, u)
             THEN [status |-> shown[n].status, source |-> None]
        ELSE IF n \in Downed(m, u)
             THEN [status |-> "Down", source |-> shown[n].source]
        ELSE m.add[n]]
  BY DEF Logged, InSession, Session
<1>3. \A n \in Displaced(m, u) : Modem(u) /\ shown[n].source = u.source
  BY DEF Displaced, Modem
<1>4. \A n \in Downed(m, u) : {u.new, n} \subseteq Group /\ u.status = "Up"
  BY DEF Downed
<1>5. QED
  BY <1>1, <1>2, <1>3, <1>4

\* One update of a request, all of it.
LEMMA AppliedFacts ==
    ASSUME TypeOK, NEW m, InSession(m), NEW u \in Update, Applied(m, u).ok
    PROVE  LET a == Applied(m, u)
           IN  /\ m.ok
               /\ \A i \in Ids :
                    /\ a.e[i].name = IF OnSerial(i) /\ entries[i].name = u.old /\ u.new # u.old
                                     THEN u.new ELSE m.e[i].name
                    /\ Modem(u) /\ OnSerial(i) /\ a.e[i].name = u.new
                         => a.e[i].modem = u.source
                    /\ \/ OnSerial(i) /\ a.e[i].name = u.new
                       \/ Modem(u) /\ entries[i].modem = u.source
                       \/ a.e[i].modem = m.e[i].modem
               /\ \A d \in Names : d # u.old => a.now[d] = m.now[d]
               /\ u.new = u.old => a.now = m.now
               /\ u.new # u.old => /\ a.now[u.old] = u.new
                                   /\ \A d \in Names : Displayed(d) /\ m.now[d] = u.new
                                                         => m.now[d] = u.old
               /\ a.add[u.new] = OwnRow(u)
               /\ \A n \in Names \ {u.new} :
                    \/ a.add[n] = m.add[n]
                    \/ Modem(u) /\ shown[n].source = u.source
                    \/ {u.new, n} \subseteq Group /\ u.status = "Up"
<1> DEFINE r == Renamed(m, u)
           s == Sourced(r, u)
           a == Logged(s, u)
<1>1. r.ok /\ Applied(m, u) = a
  BY AppliedEntries
<1>2. /\ m.ok
      /\ r.add = m.add
      /\ \A i \in Ids : r.e[i].name = IF OnSerial(i) /\ entries[i].name = u.old /\ u.new # u.old
                                      THEN u.new ELSE m.e[i].name
      /\ \A d \in Names : d # u.old => r.now[d] = m.now[d]
      /\ u.new = u.old => r.now = m.now
      /\ u.new # u.old => /\ r.now[u.old] = u.new
                          /\ \A d \in Names : Displayed(d) /\ m.now[d] = u.new
                                                => m.now[d] = u.old
  BY <1>1, RenamedFacts
<1>3. \A i \in Ids : r.e[i].modem = m.e[i].modem
  BY RenamedModems
<1>4. InSession(r)
  BY RenamedType
<1> HIDE DEF r
<1>5. /\ s.add = r.add /\ s.now = r.now
      /\ \A i \in Ids :
           /\ s.e[i].name = r.e[i].name
           /\ Modem(u) /\ OnSerial(i) /\ r.e[i].name = u.new => s.e[i].modem = u.source
           /\ \/ OnSerial(i) /\ r.e[i].name = u.new
              \/ Modem(u) /\ entries[i].modem = u.source
              \/ s.e[i].modem = r.e[i].modem
  BY <1>4, SourcedFacts
<1>6. InSession(s)
  BY <1>4, SourcedType
<1> HIDE DEF s
<1>7. /\ a.e = s.e /\ a.now = s.now
      /\ a.add[u.new] = OwnRow(u)
      /\ \A n \in Names \ {u.new} :
           \/ a.add[n] = s.add[n]
           \/ Modem(u) /\ shown[n].source = u.source
           \/ {u.new, n} \subseteq Group /\ u.status = "Up"
  BY <1>6, LoggedEntries, LoggedFacts
<1> HIDE DEF a
<1>8. QED
  BY <1>1, <1>2, <1>3, <1>5, <1>7

\* What a request that is not refused leaves when its modems are free: the
\* entries of every signal have it, and every signal shows it, unless the other
\* update brings a sibling Up.
Leaves(m, us) ==
    \A k \in DOMAIN us : Modem(us[k]) =>
        /\ \A i \in Ids : OnSerial(i) /\ m.e[i].name = us[k].new => m.e[i].modem = us[k].source
        /\ NoSiblingUp(us, k) => m.add[us[k].new] = OwnRow(us[k])

LEMMA OneLeaves ==
    ASSUME TypeOK, NEW u \in Update, Applied(Memory, u).ok
    PROVE  Leaves(Applied(Memory, u), <<u>>)
BY MemoryType, AppliedFacts DEF Leaves

LEMMA TwoLeave ==
    ASSUME TypeOK, NEW u \in Update, NEW v \in Update,
           u.old # v.old, Displayed(u.old), Displayed(v.old),
           Modem(u) => u.source # v.source,
           Free(<<u, v>>),
           Applied(Applied(Memory, u), v).ok
    PROVE  Leaves(Applied(Applied(Memory, u), v), <<u, v>>)
<1> DEFINE a == Applied(Memory, u)
           b == Applied(a, v)
<1>1. /\ u.old \in Names /\ u.new \in Names
      /\ v.old \in Names /\ v.new \in Names
  BY DEF Update
<1>2. InSession(Memory) /\ InSession(a)
  BY MemoryType, AppliedType
<1>3. Modem(v) => /\ \A i \in Ids : entries[i].modem = v.source => entries[i].name = v.old
                  /\ \A n \in Names : shown[n].source = v.source => n = v.old
  <2>1. 2 \in DOMAIN <<u, v>> /\ <<u, v>>[2] = v
    OBVIOUS
  <2>2. QED
    BY <2>1 DEF Free
<1>4. /\ a.ok
      /\ \A i \in Ids :
           /\ b.e[i].name = IF OnSerial(i) /\ entries[i].name = v.old /\ v.new # v.old
                            THEN v.new ELSE a.e[i].name
           /\ Modem(v) /\ OnSerial(i) /\ b.e[i].name = v.new => b.e[i].modem = v.source
           /\ \/ OnSerial(i) /\ b.e[i].name = v.new
              \/ Modem(v) /\ entries[i].modem = v.source
              \/ b.e[i].modem = a.e[i].modem
      /\ v.new # v.old => \A d \in Names : Displayed(d) /\ a.now[d] = v.new => a.now[d] = v.old
      /\ b.add[v.new] = OwnRow(v)
      /\ \A n \in Names \ {v.new} :
           \/ b.add[n] = a.add[n]
           \/ Modem(v) /\ shown[n].source = v.source
           \/ {v.new, n} \subseteq Group /\ v.status = "Up"
  <2>1. b.ok
    OBVIOUS
  <2> HIDE DEF a
  <2>2. QED
    BY <1>2, <2>1, AppliedFacts
<1>5. /\ \A i \in Ids :
           /\ a.e[i].name = IF OnSerial(i) /\ entries[i].name = u.old /\ u.new # u.old
                            THEN u.new ELSE entries[i].name
           /\ Modem(u) /\ OnSerial(i) /\ a.e[i].name = u.new => a.e[i].modem = u.source
      /\ \A d \in Names : d # u.old => a.now[d] = d
      /\ u.new = u.old => a.now[u.old] = u.old
      /\ u.new # u.old => /\ a.now[u.old] = u.new
                          /\ \A d \in Names : Displayed(d) /\ d = u.new => d = u.old
      /\ a.add[u.new] = OwnRow(u)
  <2>1. a.ok
    BY <1>4
  <2>2. /\ Memory.e = entries
        /\ \A d \in Names : Memory.now[d] = d
    BY DEF Memory
  <2>3. QED
    BY <1>1, <1>2, <2>1, <2>2, AppliedFacts
<1> HIDE DEF a, b
<1>6. u.new # v.old
  BY <1>1, <1>5
<1>7. u.new # v.new
  BY <1>1, <1>4, <1>5, <1>6
<1>8. ASSUME Modem(u), NEW i \in Ids, OnSerial(i), b.e[i].name = u.new
      PROVE  b.e[i].modem = u.source
  <2>1. a.e[i].name = u.new /\ ~(entries[i].name = v.old /\ v.new # v.old)
    BY <1>4, <1>7, <1>8
  <2>2. a.e[i].modem = u.source
    BY <1>5, <1>8, <2>1
  <2>3. entries[i].name # v.old
    BY <1>5, <1>6, <1>7, <2>1
  <2>4. QED
    BY <1>3, <1>4, <1>7, <1>8, <2>2, <2>3
<1>9. ASSUME NoSiblingUp(<<u, v>>, 1)
      PROVE  b.add[u.new] = OwnRow(u)
  <2>1. v.status = "Up" => ~({v.new, u.new} \subseteq Group)
    <3>1. /\ 2 \in DOMAIN <<u, v>> \ {1}
          /\ <<u, v>>[2] = v /\ <<u, v>>[1] = u
      OBVIOUS
    <3>2. QED
      BY <1>9, <3>1 DEF NoSiblingUp
  <2>2. ~(Modem(v) /\ shown[u.new].source = v.source)
    BY <1>1, <1>3, <1>6
  <2>3. QED
    BY <1>1, <1>4, <1>5, <1>7, <2>1, <2>2
<1>10. SUFFICES ASSUME NEW k \in {1, 2}, Modem(<<u, v>>[k])
                PROVE  /\ \A i \in Ids : OnSerial(i) /\ b.e[i].name = <<u, v>>[k].new
                                           => b.e[i].modem = <<u, v>>[k].source
                       /\ NoSiblingUp(<<u, v>>, k) => b.add[<<u, v>>[k].new] = OwnRow(<<u, v>>[k])
  <2>1. DOMAIN <<u, v>> = {1, 2}
    OBVIOUS
  <2>2. QED
    BY <1>10, <2>1 DEF Leaves, a, b
<1>11. CASE k = 1
  BY <1>8, <1>9, <1>10, <1>11
<1>12. CASE k = 2
  BY <1>4, <1>10, <1>12
<1>13. QED
  BY <1>11, <1>12

\* What is shown of a signal for which the request adds a row.
LEMMA RowIsShown ==
    ASSUME TypeOK, NEW m, InSession(m), NEW u \in Update, Modem(u), m.add[u.new] = OwnRow(u)
    PROVE  ShownAfter(m)[u.new].source = u.source
<1>1. OwnRow(u) \in Row /\ u.new \in Names
  BY RowsAdded DEF Update
<1>2. OwnRow(u).source = u.source
  BY Markers DEF OwnRow, Modem
<1>3. OwnRow(u) # NoRow
  BY <1>1, Markers DEF Row, NoRow
<1>4. ShownAfter(m)[u.new] = OwnRow(u)
  BY <1>1, <1>3 DEF ShownAfter
<1>5. QED
  BY <1>2, <1>4

LEMMA DashboardKeeps ==
    ASSUME TypeOK, Requested, DifferentModems(done'.us), done'.free
    PROVE  \A k \in DOMAIN done'.us : Modem(done'.us[k]) =>
              /\ \A i \in Ids : OnSerial(i)' /\ entries'[i].name = done'.us[k].new
                                   => entries'[i].modem = done'.us[k].source
              /\ NoSiblingUp(done'.us, k) => shown'[done'.us[k].new].source = done'.us[k].source
<1>1. PICK us : /\ Request(us)
                /\ Edit("dashboard", us, Free(us))
                /\ Apply(us)
                /\ \A k \in DOMAIN us : Displayed(us[k].old)
                /\ \A j, k \in DOMAIN us : us[j].old = us[k].old => j = k
  BY DEF Requested
<1>2. done'.us = us /\ Free(us) /\ DifferentModems(us)
  <2>1. done'.us = us /\ done'.free = Free(us)
    BY <1>1, EditSays
  <2>2. QED
    BY <2>1
<1> DEFINE m == InTurn(Applied, Memory, us)
<1>3. /\ m.ok /\ entries' = m.e /\ shown' = ShownAfter(m) /\ UNCHANGED assigned
      /\ InSession(m)
  BY <1>1, RequestType DEF Apply
<1>4. Leaves(m, us)
  <2>1. ASSUME NEW u \in Update, us = <<u>>
        PROVE  Leaves(m, us)
    <3>1. m = Applied(Memory, u)
      BY <2>1 DEF InTurn
    <3>2. QED
      BY <1>3, <2>1, <3>1, OneLeaves
  <2>2. ASSUME NEW u \in Update, NEW v \in Update, us = <<u, v>>
        PROVE  Leaves(m, us)
    <3>1. m = Applied(Applied(Memory, u), v)
      BY <2>2 DEF InTurn
    <3>2. /\ 1 \in DOMAIN us /\ 2 \in DOMAIN us
          /\ us[1] = u /\ us[2] = v
      BY <2>2
    <3> HIDE DEF m
    <3>3. /\ u.old # v.old /\ Displayed(u.old) /\ Displayed(v.old)
          /\ Modem(u) => u.source # v.source
      <4>1. us[1].old # us[2].old
        BY <1>1, <3>2
      <4>2. Modem(us[1]) => us[1].source # us[2].source
        BY <1>2, <3>2 DEF DifferentModems
      <4>3. QED
        BY <1>1, <3>2, <4>1, <4>2
    <3>4. Free(<<u, v>>)
      BY <1>2, <2>2
    <3>5. Applied(Applied(Memory, u), v).ok
      BY <1>3, <3>1
    <3>6. Leaves(Applied(Applied(Memory, u), v), <<u, v>>)
      BY <3>3, <3>4, <3>5, TwoLeave
    <3>7. QED
      BY <2>2, <3>1, <3>6
  <2>3. QED
    BY <1>1, <2>1, <2>2 DEF Request
<1> HIDE DEF m
<1>5. \A i \in Ids : OnSerial(i)' => OnSerial(i)
  <2>1. ASSUME NEW i \in Ids, OnSerial(i)'
        PROVE  OnSerial(i)
    <3>1. entries[i].pkg \in assigned
      BY <1>3, <2>1 DEF OnSerial, InSession, Holds
    <3>2. entries[i] # NoEntry
      BY <3>1, Markers DEF TypeOK, NoEntry
    <3>3. QED
      BY <3>1, <3>2 DEF OnSerial, Used
  <2>2. QED
    BY <2>1
<1>6. ASSUME NEW k \in DOMAIN us, Modem(us[k])
      PROVE  /\ \A i \in Ids : OnSerial(i)' /\ entries'[i].name = us[k].new
                                 => entries'[i].modem = us[k].source
             /\ NoSiblingUp(us, k) => shown'[us[k].new].source = us[k].source
  <2>1. us[k] \in Update
    BY <1>1, <1>6, RequestShape
  <2>2. /\ \A i \in Ids : OnSerial(i) /\ m.e[i].name = us[k].new => m.e[i].modem = us[k].source
        /\ NoSiblingUp(us, k) => m.add[us[k].new] = OwnRow(us[k])
    BY <1>4, <1>6 DEF Leaves
  <2>3. QED
    BY <1>3, <1>5, <1>6, <2>1, <2>2, RowIsShown
<1>7. QED
  BY <1>2, <1>6

\* A save-all whose entries are as they were read, and whose modems are free.
LEMMA SaveAllKeeps ==
    ASSUME TypeOK, NEW us \in Forms, SaveAllWrite(us), DifferentModems(us), FreeOfOthers(us), ~Stale
    PROVE  \A k \in DOMAIN us : Modem(us[k]) => entries'[us[k].id].modem = us[k].source
<1> DEFINE es == InTurn(Saved, Objects, us)
           written == {i \in Ids : es[i] # Objects[i]}
<1>1. \A i \in Ids : Objects[i] = entries[i]
  BY DEF Stale, Objects
<1>2. ASSUME NEW s, Typed(s), NEW u, SaveAllUpdate(u)
      PROVE  Saved(s, u)[u.id].modem = u.source
  <2> DEFINE base == Cleared(s, u.source, u.id)
  <2>1. u.id \in Ids
    BY <1>2 DEF SaveAllUpdate
  <2>2. base[u.id] = s[u.id]
    BY <2>1 DEF Cleared
  <2>3. base[u.id] \in EntryOrNone
    BY <1>2, <2>1, <2>2 DEF Typed
  <2>4. base = [i \in Ids |-> base[i]]
    BY DEF Cleared
  <2>5. Saved(s, u) = [base EXCEPT ![u.id].name = u.new, ![u.id].modem = u.source]
    BY DEF Saved
  <2> HIDE DEF base
  <2>6. Saved(s, u)[u.id] = [base[u.id] EXCEPT !.name = u.new, !.modem = u.source]
    BY <2>1, <2>4, <2>5
  <2>7. QED
    BY <2>3, <2>6 DEF EntryOrNone, Entry, NoEntry
<1>3. ASSUME NEW s, Typed(s), NEW u, SaveAllUpdate(u), NEW i \in Ids, i # u.id,
             ~(Modem(u) /\ entries[i].modem = u.source)
      PROVE  Saved(s, u)[i].modem = s[i].modem
  <2> DEFINE base == Cleared(s, u.source, u.id)
  <2>1. base[i] = s[i]
    BY <1>3 DEF Cleared, SaveAllUpdate, Modem
  <2>2. base = [j \in Ids |-> base[j]]
    BY DEF Cleared
  <2>3. Saved(s, u) = [base EXCEPT ![u.id].name = u.new, ![u.id].modem = u.source]
    BY DEF Saved
  <2> HIDE DEF base
  <2>4. QED
    BY <1>3, <2>1, <2>2, <2>3
<1>4. /\ Typed(es)
      /\ \A k \in DOMAIN us : us[k].id \in Ids /\ (Modem(us[k]) => es[us[k].id].modem = us[k].source)
  <2>1. ASSUME NEW u, us = <<u>>, SaveAllUpdate(u)
        PROVE  /\ Typed(es)
               /\ \A k \in DOMAIN us : us[k].id \in Ids
                                       /\ (Modem(us[k]) => es[us[k].id].modem = us[k].source)
    <3>1. es = Saved(Objects, u)
      BY <2>1 DEF InTurn
    <3>2. Typed(es) /\ es[u.id].modem = u.source /\ u.id \in Ids
      BY <1>2, <2>1, <3>1, ObjectsTyped, SavedTyped DEF SaveAllUpdate
    <3> HIDE DEF es
    <3>3. \A k \in DOMAIN us : us[k] = u
      BY <2>1
    <3>4. QED
      BY <3>2, <3>3
  <2>2. ASSUME NEW u, NEW v, us = <<u, v>>, SaveAllUpdate(u), SaveAllUpdate(v), u.id < v.id
        PROVE  /\ Typed(es)
               /\ \A k \in DOMAIN us : us[k].id \in Ids
                                       /\ (Modem(us[k]) => es[us[k].id].modem = us[k].source)
    <3> DEFINE first == Saved(Objects, u)
    <3>1. es = Saved(first, v)
      BY <2>2 DEF InTurn
    <3>2. Typed(first) /\ first[u.id].modem = u.source
      BY <1>2, <2>2, ObjectsTyped, SavedTyped
    <3> HIDE DEF first
    <3>3. Typed(es) /\ es[v.id].modem = v.source
      BY <1>2, <2>2, <3>1, <3>2, SavedTyped
    <3>4. u.id \in Ids /\ v.id \in Ids /\ u.id # v.id
      BY <2>2 DEF SaveAllUpdate, Ids
    <3>5. 2 \in DOMAIN us /\ us[2] = v
      BY <2>2
    <3>6. ~(Modem(v) /\ entries[u.id].modem = v.source)
      BY <3>4, <3>5 DEF FreeOfOthers
    <3>7. es[u.id].modem = u.source
      BY <1>3, <2>2, <3>1, <3>2, <3>4, <3>6
    <3> HIDE DEF es
    <3>8. \A k \in DOMAIN us : us[k] = u \/ us[k] = v
      BY <2>2
    <3>9. QED
      BY <3>3, <3>4, <3>7, <3>8
  <2>3. \/ \E u : us = <<u>> /\ SaveAllUpdate(u)
        \/ \E u, v : us = <<u, v>> /\ SaveAllUpdate(u) /\ SaveAllUpdate(v) /\ u.id < v.id
    BY FormShape
  <2>4. QED
    BY <2>1, <2>2, <2>3
<1>5. IF \A i \in written : Used(i) THEN entries' = Flushed(es) ELSE UNCHANGED entries
  BY DEF SaveAllWrite
<1> HIDE DEF es
<1>6. \A i \in written : Used(i)
  BY <1>1, <1>4 DEF Typed, Used
<1>7. \A i \in Ids : entries'[i].modem = es[i].modem
  BY <1>1, <1>5, <1>6 DEF Flushed
<1>8. QED
  BY <1>4, <1>7

LEMMA FreshStep ==
    ASSUME TypeOK, FreshChoicesKept, [Next]_vars
    PROVE  FreshChoicesKept'
<1>1. CASE UNCHANGED vars
  BY <1>1 DEF vars, FreshChoicesKept, EntriesKept, NoSiblingUp, DifferentModems, Modem, OnSerial, Used
<1>2. ASSUME Next, done'.by \in {"dashboard", "save all"}, DifferentModems(done'.us), done'.free
      PROVE  /\ EntriesKept(done.us)'
             /\ done'.by = "dashboard" =>
                   \A k \in DOMAIN done'.us :
                      Modem(done'.us[k]) /\ NoSiblingUp(done'.us, k)
                          => shown'[done'.us[k].new].source = done'.us[k].source
  <2>1. CASE Requested
    <3>1. done'.by = "dashboard"
      BY <2>1, EditSays DEF Requested
    <3>2. QED
      BY <1>2, <2>1, <3>1, DashboardKeeps DEF EntriesKept, Modem
  <2>2. ASSUME NEW us \in Forms, SaveAllWrite(us)
        PROVE  done'.by = "save all" /\ EntriesKept(done.us)'
    <3>1. done'.by = "save all" /\ done'.us = us /\ done'.free = (FreeOfOthers(us) /\ ~Stale)
      BY <2>2, EditSays DEF SaveAllWrite
    <3>2. \A k \in DOMAIN us : Modem(us[k]) => entries'[us[k].id].modem = us[k].source
      BY <1>2, <2>2, <3>1, SaveAllKeeps
    <3>3. QED
      BY <3>1, <3>2 DEF EntriesKept, Modem
  <2>3. ASSUME NEW n \in Names, NEW m \in Modems \cup {None},
               \/ \E p \in Packages : EntryAdd(p, n, m)
               \/ \E i \in Ids : EntryUpdate(i, n, m)
        PROVE  FALSE
    <3>1. \E us : Edit("package", us, FALSE)
      BY <2>3 DEF EntryAdd, EntryUpdate
    <3>2. QED
      BY <1>2, <3>1, EditSays
  <2>4. QED
    BY <1>2, <2>1, <2>2, <2>3, Steps, OthersSay DEF OtherSteps
<1>3. QED
  BY <1>1, <1>2 DEF FreshChoicesKept

LEMMA NothingChosen == Init => FreshChoicesKept
BY DEF Init, Nothing, FreshChoicesKept

\* A request of the dashboard, or a save-all, that gives different modems nobody
\* else holds or shows gives every one of them; a signal shows its own unless a
\* sibling of the same request takes it Down.
THEOREM FreshChoicesStand == Spec => []FreshChoicesKept
BY NothingChosen, TypeCorrect, FreshStep, PTL DEF Spec
=============================================================================
