--------------------------- MODULE RangeOpsProofs ---------------------------
(***************************************************************************)
(* Proofs about RangeOps, for every value of its constants.  IndInv is     *)
(* inductive: its conjuncts are preserved action by action, the actions    *)
(* that insert rows through the lemma Inserted.                            *)
(***************************************************************************)
EXTENDS RangeOps, SequenceTheorems, TLAPS

USE DEF Null

\* The entries a handler or a sync may insert: well typed, and filed in the
\* current workspace if their serial was checked.
Fileable(E) ==
    /\ E \subseteq Entry
    /\ \A e \in E : (e.origin = "checked" /\ e.serial # Null) =>
                       /\ serials[e.serial].exists
                       /\ serials[e.serial].testing = InTesting

\* Rows of the current workspace are added after all others, for the entries E.
Appended(E) ==
    /\ logs' \in SUBSET Row /\ commit' \in Nat /\ clock' \in Nat
    /\ logs \subseteq logs'
    /\ commit <= commit' /\ clock <= clock'
    /\ \A r \in logs' \ logs :
          /\ r.testing = InTesting
          /\ commit < r.id[1] /\ r.id[1] <= commit'
          /\ r.ts = clock'
          /\ \E e \in E : r.serial = e.serial /\ r.origin = e.origin

\* What inserting sets of fileable entries in turn does to the log.
LEMMA InsertedInTurn ==
    ASSUME TypeOK, NEW n \in Nat, NEW B \in [1..n -> SUBSET Entry], Len(B) = n,
           NEW E, \A i \in 1..n : Fileable(B[i]) /\ B[i] \subseteq E, InsertInTurn(B)
    PROVE  Appended(E)
<1>1. PICK t \in Tick :
         /\ clock' = t
         /\ commit' = commit + n
         /\ logs' = logs \cup UNION {{NewRow(commit + i, e, t, InTesting) : e \in B[i]} :
                                        i \in 1..n}
  BY DEF InsertInTurn
<1>2. t \in Nat /\ clock <= t /\ commit \in Nat
  BY DEF Tick, TypeOK
<1>3. ASSUME NEW r \in logs' \ logs
      PROVE  \E i \in 1..n : \E e \in B[i] : r = NewRow(commit + i, e, t, InTesting)
  BY <1>1
<1>4. ASSUME NEW r \in logs' \ logs
      PROVE  /\ r \in Row /\ r.testing = InTesting
             /\ commit < r.id[1] /\ r.id[1] <= commit'
             /\ r.ts = clock'
             /\ \E e \in E : r.serial = e.serial /\ r.origin = e.origin
  <2>1. PICK i \in 1..n : \E e \in B[i] : r = NewRow(commit + i, e, t, InTesting)
    BY <1>3
  <2>2. PICK e \in B[i] : r = NewRow(commit + i, e, t, InTesting)
    BY <2>1
  <2>3. e \in Entry /\ e \in E
    BY DEF Fileable
  <2> DEFINE m == commit + i
  <2>4. m \in Nat /\ commit < m /\ m <= commit'
    BY <1>1, <1>2
  <2>5. InTesting \in BOOLEAN
    BY DEF InTesting
  <2>6. r = NewRow(m, e, t, InTesting)
    BY <2>2
  <2> HIDE DEF m
  <2>7. r.id[1] = m /\ r.testing = InTesting /\ r.ts = t /\ r.serial = e.serial
          /\ r.origin = e.origin
    BY <2>6 DEF NewRow
  <2>8. r \in Row
    BY <1>2, <2>3, <2>4, <2>5, <2>6 DEF NewRow, Row, Entry
  <2> QED
    BY <1>1, <2>3, <2>4, <2>7, <2>8
<1>5. logs' \in SUBSET Row
  BY <1>4 DEF TypeOK
<1>6. logs \subseteq logs' /\ commit' \in Nat /\ commit <= commit' /\ clock' \in Nat /\ clock <= clock'
  BY <1>1, <1>2
<1> QED
  BY <1>4, <1>5, <1>6 DEF Appended

\* What inserting fileable entries does to the log.
LEMMA Inserted ==
    ASSUME TypeOK, NEW E, Fileable(E), Insert(E)
    PROVE  Appended(E)
<1>1. CASE E = {}
  BY <1>1 DEF TypeOK, Insert, Appended
<1>2. CASE E # {}
  <2> DEFINE B == <<E>>
  <2>1. B \in [1..1 -> SUBSET Entry] /\ Len(B) = 1 /\ \A i \in 1..1 : B[i] = E
    BY DEF Fileable
  <2>2. InsertInTurn(B)
    BY <1>2 DEF Insert
  <2> HIDE DEF B
  <2> QED
    BY <2>1, <2>2, InsertedInTurn
<1> QED
  BY <1>1, <1>2

\* What the order of the log needs from a step: rows stay, go, or are changed
\* in other fields only, and new ones are the last.
LEMMA OrderKept ==
    ASSUME TypeOK, RowsInOrder, ReadingRulesAgree, TypeOK',
           commit <= commit', clock <= clock',
           \A r \in logs' : \/ \E q \in logs : r.id = q.id /\ r.ts = q.ts
                            \/ /\ commit < r.id[1] /\ r.id[1] <= commit'
                               /\ r.ts = clock'
    PROVE  RowsInOrder' /\ ReadingRulesAgree'
<1>1. \A r \in logs : r.id[1] \in Nat /\ r.ts \in Nat
  BY DEF TypeOK, Row
<1>2. commit \in Nat /\ clock \in Nat /\ commit' \in Nat /\ clock' \in Nat
  BY DEF TypeOK
<1>3. RowsInOrder'
  <2> SUFFICES ASSUME NEW r \in logs'
               PROVE  r.id[1] <= commit' /\ r.ts <= clock'
    BY DEF RowsInOrder
  <2>1. CASE \E q \in logs : r.id = q.id /\ r.ts = q.ts
    BY <1>1, <1>2, <2>1 DEF RowsInOrder
  <2>2. CASE commit < r.id[1] /\ r.id[1] <= commit' /\ r.ts = clock'
    BY <1>2, <2>2
  <2> QED
    BY <2>1, <2>2
<1>4. ReadingRulesAgree'
  <2> SUFFICES ASSUME NEW r \in logs', NEW q \in logs', r.id[1] <= q.id[1]
               PROVE  r.ts <= q.ts
    BY DEF ReadingRulesAgree
  <2>1. CASE \E x \in logs : q.id = x.id /\ q.ts = x.ts
    <3>1. PICK x \in logs : q.id = x.id /\ q.ts = x.ts
      BY <2>1
    <3>2. x.id[1] <= commit
      BY DEF RowsInOrder
    <3>3. r.id[1] <= commit /\ r.id[1] \in Nat
      BY <1>1, <1>2, <3>1, <3>2 DEF TypeOK, Row
    <3>4. \E y \in logs : r.id = y.id /\ r.ts = y.ts
      BY <1>2, <3>3
    <3> QED
      BY <3>1, <3>4 DEF ReadingRulesAgree
  <2>2. CASE commit < q.id[1] /\ q.id[1] <= commit' /\ q.ts = clock'
    BY <1>3, <2>2 DEF RowsInOrder
  <2> QED
    BY <2>1, <2>2
<1> QED
  BY <1>3, <1>4

\* Inserting fileable entries keeps the log filed and in order, as long as no
\* serial disappears or changes workspace.
LEMMA InsertKeeps ==
    ASSUME IndInv, NEW E, Fileable(E), Appended(E), TypeOK',
           \A k \in SerialIds : serials[k].exists =>
              serials'[k].exists /\ serials'[k].testing = serials[k].testing
    PROVE  FiledInOwnWorkspace' /\ RowsInOrder' /\ ReadingRulesAgree'
<1> USE DEF IndInv
<1>1. /\ commit <= commit' /\ clock <= clock'
      /\ \A r \in logs' \ logs :
            /\ r.testing = InTesting
            /\ commit < r.id[1] /\ r.id[1] <= commit'
            /\ r.ts = clock'
            /\ \E e \in E : r.serial = e.serial /\ r.origin = e.origin
  BY DEF Appended
<1>2. RowsInOrder' /\ ReadingRulesAgree'
  <2>1. \A r \in logs' : \/ \E q \in logs : r.id = q.id /\ r.ts = q.ts
                         \/ /\ commit < r.id[1] /\ r.id[1] <= commit'
                            /\ r.ts = clock'
    BY <1>1
  <2> QED
    BY <1>1, <2>1, OrderKept
<1>3. FiledInOwnWorkspace'
  <2> SUFFICES ASSUME NEW r \in logs', r.origin = "checked", r.serial # Null
               PROVE  /\ serials'[r.serial].exists
                      /\ serials'[r.serial].testing = r.testing
    BY DEF FiledInOwnWorkspace
  <2>1. r.serial \in SerialIds
    BY DEF TypeOK, Row
  <2>2. CASE r \in logs
    BY <2>1, <2>2 DEF FiledInOwnWorkspace
  <2>3. CASE r \notin logs
    <3>1. /\ serials[r.serial].exists
          /\ serials[r.serial].testing = r.testing
      BY <1>1, <2>3 DEF Fileable
    <3> QED
      BY <2>1, <3>1
  <2> QED
    BY <2>2, <2>3
<1> QED
  BY <1>2, <1>3

\* A handler that leaves the syncs and the export alone runs while no export
\* does, so it cannot disturb what an export needs.
LEMMA HandlerKeeps ==
    ASSUME IndInv, LoopFree, UNCHANGED <<sync, archiving>>
    PROVE  ArchiveKeepsHandlerRows' /\ PendingUnchecked' /\ ArchiveInScope'
BY DEF IndInv, LoopFree, ArchiveKeepsHandlerRows, PendingUnchecked,
       ArchiveInScope

\* A handler that inserts fileable entries and leaves the serials alone.
LEMMA LogHandler ==
    ASSUME IndInv, EditLogs, NEW E, Fileable(E), Appended(E)
    PROVE  IndInv'
<1>1. TypeOK'
  BY DEF Appended, EditLogs, Edit, IndInv, TypeOK
<1>2. FiledInOwnWorkspace' /\ RowsInOrder' /\ ReadingRulesAgree'
  BY <1>1, InsertKeeps DEF EditLogs
<1>3. ArchiveKeepsHandlerRows' /\ PendingUnchecked' /\ ArchiveInScope'
  BY HandlerKeeps DEF EditLogs, Edit
<1> QED
  BY <1>1, <1>2, <1>3 DEF IndInv

\* An entry whose serial the handler checked is fileable.
LEMMA CheckedEntry ==
    ASSUME TypeOK, NEW s \in Signals, NEW k \in SerialIds \cup {Null},
           k # Null => InScope(k), NEW st \in Statuses
    PROVE  Fileable({EntryFor(s, k, st)})
BY DEF Fileable, Entry, EntryFor, InScope, Exists, Origins

LEMMA ScopedSerial ==
    ASSUME NEW k
    PROVE  /\ Scoped(k) \in SerialIds \cup {Null}
           /\ Scoped(k) # Null => InScope(Scoped(k))
BY DEF Scoped, InScope

\* Down rows of the pairs P are fileable when the serials of P are in scope.
LEMMA DownEntries ==
    ASSUME TypeOK, NEW K \in SUBSET (SerialIds \cup {Null}),
           \A k \in K : k # Null => InScope(k),
           NEW S \in SUBSET Signals, NEW D \in SUBSET (K \X S)
    PROVE  Fileable(DownRows(D))
<1>1. \A d \in D : d[1] \in K /\ d[2] \in Signals
  OBVIOUS
<1>2. ASSUME NEW d \in D
      PROVE  Fileable({EntryFor(d[2], d[1], "Down")})
  BY <1>1, CheckedEntry DEF Statuses
<1> QED
  BY <1>2 DEF DownRows, Fileable

LEMMA FileableUnion ==
    ASSUME NEW A, NEW B, Fileable(A), Fileable(B)
    PROVE  Fileable(A \cup B)
BY DEF Fileable

\* What a handler copies from the latest visible row is as well filed as that
\* row: the row is in the current workspace.
LEMMA InheritedEntry ==
    ASSUME IndInv, NEW k, NEW s \in Signals, NEW st \in Statuses,
           NEW l \in LatestOf(Visible(k, s), "Down")
    PROVE  /\ l.status \in Statuses
           /\ Fileable({[signal |-> s, serial |-> l.serial, status |-> st,
                         origin |-> l.origin]})
<1> DEFINE R == Visible(k, s)
<1>1. CASE R = {}
  BY <1>1 DEF LatestOf, Fileable, Entry, Origins, Statuses
<1>2. CASE R # {}
  <2>1. PICK r \in LatestByTs(R) :
           l = [serial |-> r.serial, status |-> r.status, origin |-> r.origin]
    BY <1>2 DEF LatestOf
  <2>2. r \in logs /\ r.testing = InTesting
    BY <2>1 DEF LatestByTs, Visible, RowsOf
  <2>3. r \in Row
    BY <2>2 DEF IndInv, TypeOK
  <2> QED
    BY <2>1, <2>2, <2>3 DEF IndInv, FiledInOwnWorkspace, Fileable, Entry, Row
<1> QED
  BY <1>1, <1>2

-----------------------------------------------------------------------------
(* The steps, component by component.                                      *)

LEMMA InitIndInv == Init => IndInv
<1> SUFFICES ASSUME Init
             PROVE  IndInv
  OBVIOUS
<1>1. Running \in Nat /\ Running <= MaxSerials /\ MaxSerials \in Nat
  BY BoundsAssumption
<1>2. PICK first \in [Package -> Begun] :
         logs = {StartRow(p[1], p[2], first[p[2]]) : p \in (1..Running) \X Package}
  BY DEF Init
<1> DEFINE Start(p) == StartRow(p[1], p[2], first[p[2]])
<1>3. ASSUME NEW p \in (1..Running) \X Package
      PROVE  /\ Start(p) \in Row
             /\ Start(p).serial \in 1..Running
             /\ ~Start(p).testing
             /\ Start(p).id[1] = p[1]
             /\ Start(p).ts = p[1]
  <2>1. p[1] \in 1..Running /\ p[1] \in Nat /\ p[1] \in SerialIds
    BY <1>1 DEF SerialIds
  <2>2. p[2] \in Signals
    BY SignalsAssumption
  <2>3. first[p[2]] \in Statuses
    BY BegunAssumption DEF Statuses
  <2> QED
    BY <2>1, <2>2, <2>3 DEF StartRow, Row, Origins
<1>4. \A r \in logs : /\ r \in Row /\ r.testing = FALSE
                      /\ r.serial \in 1..Running
                      /\ r.ts \in 1..Running /\ r.id[1] = r.ts
  BY <1>2, <1>3 DEF Row
<1>5. TypeOK
  <2>1. serials \in [SerialIds -> Serial]
    BY DEF Init, Serial, Pending, NoSerial
  <2>2. Idle \in SyncState
    BY DEF Idle, SyncState
  <2>3. range \in States
    BY DEF Init, States
  <2>4. archiving \in [serial : SerialIds \cup {Null}, rows : SUBSET Row]
    BY DEF Init, NoArchive
  <2> QED
    BY <1>1, <1>4, <2>1, <2>2, <2>3, <2>4 DEF Init, TypeOK
<1>6. FiledInOwnWorkspace
  <2> SUFFICES ASSUME NEW r \in logs
               PROVE  serials[r.serial].exists /\ serials[r.serial].testing = r.testing
    BY DEF FiledInOwnWorkspace
  <2> DEFINE k == r.serial
  <2>1. k \in SerialIds /\ k <= Running
    BY <1>1, <1>4 DEF SerialIds
  <2>2. serials[k] = [Pending(FALSE) EXCEPT !.started = TRUE]
    BY <2>1 DEF Init
  <2>3. serials[k].exists /\ serials[k].testing = FALSE
    BY <2>2 DEF Pending
  <2> QED
    BY <1>4, <2>3
<1>7. ReadingRulesAgree /\ RowsInOrder
  <2>1. commit = Running /\ clock = Running
    BY DEF Init
  <2> QED
    BY <1>1, <1>4, <2>1 DEF ReadingRulesAgree, RowsInOrder
<1>8. ArchiveKeepsHandlerRows /\ PendingUnchecked /\ ArchiveInScope
  BY DEF Init, ArchiveKeepsHandlerRows, PendingUnchecked, ArchiveInScope,
         NoArchive, Idle
<1> QED
  BY <1>5, <1>6, <1>7, <1>8 DEF IndInv

\* Rows that keep their id and their second keep the order of the log.
LEMMA SameOrder ==
    ASSUME IndInv, TypeOK', UNCHANGED <<commit, clock>>,
           \A r \in logs' : \E q \in logs : r.id = q.id /\ r.ts = q.ts
    PROVE  RowsInOrder' /\ ReadingRulesAgree'
BY OrderKept DEF IndInv, TypeOK

LEMMA SerialStep ==
    ASSUME IndInv, SerialNext
    PROVE  IndInv'
<1> USE DEF IndInv
<1>1. ASSUME NEW k \in SerialIds, SerialCreate(k)
      PROVE  IndInv'
  <2>1. TypeOK'
    BY <1>1 DEF SerialCreate, EditSerials, Edit, TypeOK, Pending, Serial,
                InTesting
  <2>2. ~serials[k].exists
    BY <1>1 DEF SerialCreate, NextSerialId, Exists, SerialIds
  <2>3. FiledInOwnWorkspace'
    BY <1>1, <2>2 DEF SerialCreate, FiledInOwnWorkspace, TypeOK, Row
  <2>4. RowsInOrder' /\ ReadingRulesAgree'
    BY <1>1 DEF SerialCreate, RowsInOrder, ReadingRulesAgree
  <2>5. ArchiveKeepsHandlerRows' /\ PendingUnchecked' /\ ArchiveInScope'
    BY <1>1, HandlerKeeps DEF SerialCreate, EditSerials, Edit
  <2> QED
    BY <2>1, <2>3, <2>4, <2>5
<1>2. ASSUME NEW k \in SerialIds, NEW n \in SerialIds, SerialCopyToOther(k, n)
      PROVE  IndInv'
  <2>1. TypeOK'
    BY <1>2 DEF SerialCopyToOther, EditSerials, Edit, TypeOK, Pending, Serial,
                InTesting
  <2>2. ~serials[n].exists
    BY <1>2 DEF SerialCopyToOther, NextSerialId, Exists, SerialIds
  <2>3. FiledInOwnWorkspace'
    BY <1>2, <2>2 DEF SerialCopyToOther, FiledInOwnWorkspace, TypeOK, Row
  <2>4. RowsInOrder' /\ ReadingRulesAgree'
    BY <1>2 DEF SerialCopyToOther, RowsInOrder, ReadingRulesAgree
  <2>5. ArchiveKeepsHandlerRows' /\ PendingUnchecked' /\ ArchiveInScope'
    BY <1>2, HandlerKeeps DEF SerialCopyToOther, EditSerials, Edit
  <2> QED
    BY <2>1, <2>3, <2>4, <2>5
<1>3. ASSUME NEW k \in SerialIds, SerialStart(k)
      PROVE  IndInv'
  <2> DEFINE E == {EntryFor(s, k, "Planned") : s \in Package}
  <2>1. Fileable(E)
    BY <1>3, CheckedEntry, SignalsAssumption
       DEF SerialStart, Fileable, Statuses
  <2>2. Insert(E)
    BY <1>3 DEF SerialStart
  <2>3. serials' \in [SerialIds -> Serial]
    BY <1>3 DEF SerialStart, TypeOK, Serial
  <2>4. TypeOK'
    BY <1>3, <2>1, <2>2, <2>3, Inserted
       DEF Appended, SerialStart, EditSerials, Edit, TypeOK
  <2>5. FiledInOwnWorkspace' /\ RowsInOrder' /\ ReadingRulesAgree'
    <3>1. \A j \in SerialIds : serials[j].exists =>
             serials'[j].exists /\ serials'[j].testing = serials[j].testing
      BY <1>3 DEF SerialStart, TypeOK, Serial
    <3> QED
      BY <2>1, <2>2, <2>4, <3>1, Inserted, InsertKeeps
  <2>6. ArchiveKeepsHandlerRows' /\ PendingUnchecked' /\ ArchiveInScope'
    BY <1>3, HandlerKeeps DEF SerialStart, EditSerials, Edit
  <2> QED
    BY <2>4, <2>5, <2>6
<1>4. ASSUME NEW K \in (SUBSET SerialIds) \ {{}}, SerialsEnd(K)
      PROVE  IndInv'
  <2>1. PICK D \in SUBSET (K \X Signals) : Insert(DownRows(D))
    BY <1>4 DEF SerialsEnd
  <2>2. Fileable(DownRows(D))
    BY <1>4, DownEntries DEF SerialsEnd
  <2>3. serials' \in [SerialIds -> Serial]
    BY <1>4 DEF SerialsEnd, TypeOK, Serial
  <2>4. TypeOK'
    BY <1>4, <2>1, <2>2, <2>3, Inserted
       DEF Appended, SerialsEnd, EditSerials, Edit, TypeOK
  <2>5. FiledInOwnWorkspace' /\ RowsInOrder' /\ ReadingRulesAgree'
    <3>1. \A j \in SerialIds : serials[j].exists =>
             serials'[j].exists /\ serials'[j].testing = serials[j].testing
      BY <1>4 DEF SerialsEnd, TypeOK, Serial
    <3> QED
      BY <2>1, <2>2, <2>4, <3>1, Inserted, InsertKeeps
  <2>6. ArchiveKeepsHandlerRows' /\ PendingUnchecked' /\ ArchiveInScope'
    BY <1>4, HandlerKeeps DEF SerialsEnd, EditSerials, Edit
  <2> QED
    BY <2>4, <2>5, <2>6
<1>5. ASSUME NEW k \in SerialIds, SerialDelete(k)
      PROVE  IndInv'
  <2>1. \A r \in logs' : \E q \in logs :
           r = IF q.serial = k THEN [q EXCEPT !.serial = Null] ELSE q
    BY <1>5 DEF SerialDelete
  <2>2. logs' \in SUBSET Row
    BY <2>1 DEF TypeOK, Row
  <2>3. TypeOK'
    BY <1>5, <2>2 DEF SerialDelete, EditSerials, Edit, TypeOK, NoSerial, Serial
  <2>4. RowsInOrder' /\ ReadingRulesAgree'
    <3>1. \A r \in logs' : \E q \in logs : r.id = q.id /\ r.ts = q.ts
      BY <2>1 DEF TypeOK, Row
    <3> QED
      BY <1>5, <2>3, <3>1, SameOrder DEF SerialDelete
  <2>5. FiledInOwnWorkspace'
    <3> SUFFICES ASSUME NEW r \in logs', r.origin = "checked", r.serial # Null
                 PROVE  /\ serials'[r.serial].exists
                        /\ serials'[r.serial].testing = r.testing
      BY DEF FiledInOwnWorkspace
    <3>1. r \in logs /\ r.serial # k
      BY <2>1 DEF TypeOK, Row
    <3> QED
      BY <1>5, <3>1 DEF SerialDelete, FiledInOwnWorkspace, TypeOK, Row
  <2>6. ArchiveKeepsHandlerRows' /\ PendingUnchecked' /\ ArchiveInScope'
    BY <1>5, HandlerKeeps DEF SerialDelete, EditSerials, Edit
  <2> QED
    BY <2>3, <2>4, <2>5, <2>6
<1>6. ASSUME NEW k \in SerialIds, ArchiveRead(k)
      PROVE  IndInv'
  <2>1. TypeOK'
    BY <1>6 DEF ArchiveRead, EditSerials, Edit, TypeOK
  <2>2. FiledInOwnWorkspace' /\ RowsInOrder' /\ ReadingRulesAgree'
    BY <1>6 DEF ArchiveRead, FiledInOwnWorkspace, RowsInOrder,
                ReadingRulesAgree
  <2>3. ArchiveKeepsHandlerRows'
    BY <1>6 DEF ArchiveRead, FiledInOwnWorkspace, ArchiveKeepsHandlerRows
  <2>4. PendingUnchecked' /\ ArchiveInScope'
    BY <1>6 DEF ArchiveRead, EditSerials, Edit, PendingUnchecked,
                ArchiveInScope, InScope, Exists, InTesting
  <2> QED
    BY <2>1, <2>2, <2>3, <2>4
<1>7. CASE ArchiveDelete
  <2>1. archiving.serial \in SerialIds /\ logs' \subseteq logs
    BY <1>7 DEF ArchiveDelete, TypeOK
  <2>2. TypeOK'
    BY <1>7, <2>1 DEF ArchiveDelete, TypeOK, NoArchive, NoSerial, Serial
  <2>3. RowsInOrder' /\ ReadingRulesAgree'
    BY <1>7, <2>1 DEF ArchiveDelete, RowsInOrder, ReadingRulesAgree
  <2>4. FiledInOwnWorkspace'
    BY <1>7, <2>1 DEF ArchiveDelete, FiledInOwnWorkspace, TypeOK, Row
  <2>5. ArchiveKeepsHandlerRows' /\ PendingUnchecked' /\ ArchiveInScope'
    BY <1>7 DEF ArchiveDelete, ArchiveKeepsHandlerRows, PendingUnchecked,
                ArchiveInScope, NoArchive
  <2> QED
    BY <2>2, <2>3, <2>4, <2>5
<1> QED
  BY <1>1, <1>2, <1>3, <1>4, <1>5, <1>6, <1>7 DEF SerialNext

\* A handler that replaces one row by the rows Q, with its id and second.
LEMMA RowHandler ==
    ASSUME IndInv, EditLogs, NEW r \in logs, NEW Q \in SUBSET Row,
           logs' = (logs \ {r}) \cup Q, UNCHANGED <<commit, clock>>,
           \A q \in Q : /\ q.id = r.id /\ q.ts = r.ts
                        /\ (q.origin = "checked" /\ q.serial # Null) =>
                              /\ serials[q.serial].exists
                              /\ serials[q.serial].testing = q.testing
    PROVE  IndInv'
<1> USE DEF IndInv
<1>1. TypeOK'
  BY DEF EditLogs, Edit, TypeOK
<1>2. RowsInOrder' /\ ReadingRulesAgree'
  <2>1. \A q \in logs' : \E x \in logs : q.id = x.id /\ q.ts = x.ts
    OBVIOUS
  <2> QED
    BY <1>1, <2>1, SameOrder
<1>3. FiledInOwnWorkspace'
  BY DEF FiledInOwnWorkspace, EditLogs
<1>4. ArchiveKeepsHandlerRows' /\ PendingUnchecked' /\ ArchiveInScope'
  BY HandlerKeeps DEF EditLogs, Edit
<1> QED
  BY <1>1, <1>2, <1>3, <1>4

LEMMA LogStep ==
    ASSUME IndInv, LogNext
    PROVE  IndInv'
<1> USE DEF IndInv
<1>1. ASSUME NEW k \in SerialIds \cup {Null}, NEW s \in Signals,
             NEW st \in Statuses, LogCreate(k, s, st)
      PROVE  IndInv'
  <2>1. Fileable({EntryFor(s, Scoped(k), st)})
    BY ScopedSerial, CheckedEntry
  <2> QED
    BY <1>1, <2>1, Inserted, LogHandler DEF LogCreate, IndInv
<1>3. ASSUME NEW r \in logs, NEW k \in SerialIds \cup {Null},
             NEW s \in Signals, NEW st \in Statuses, LogUpdate(r, k, s, st)
      PROVE  IndInv'
  <2> DEFINE q == [r EXCEPT !.serial = Scoped(k), !.signal = s,
                            !.status = st, !.origin = "checked"]
  <2>1. r \in Row
    BY DEF TypeOK
  <2>2. q \in Row /\ q.id = r.id /\ q.ts = r.ts
    BY <2>1, ScopedSerial DEF Row, Origins
  <2>3. q.serial = Scoped(k) /\ q.testing = InTesting
    BY <1>3, <2>1 DEF LogUpdate, Row
  <2>4. q.serial # Null => /\ serials[q.serial].exists
                           /\ serials[q.serial].testing = q.testing
    BY <2>3, ScopedSerial DEF InScope, Exists
  <2>5. /\ EditLogs
        /\ logs' = (logs \ {r}) \cup {q} /\ UNCHANGED <<commit, clock>>
    BY <1>3 DEF LogUpdate, ReplaceRow
  <2> HIDE DEF q
  <2> DEFINE Q == {q}
  <2>6. /\ Q \in SUBSET Row
        /\ logs' = (logs \ {r}) \cup Q
        /\ \A x \in Q : /\ x.id = r.id /\ x.ts = r.ts
                        /\ x.serial # Null =>
                              /\ serials[x.serial].exists
                              /\ serials[x.serial].testing = x.testing
    BY <2>2, <2>4, <2>5
  <2> HIDE DEF Q
  <2> QED
    BY <2>5, <2>6, RowHandler
<1>4. ASSUME NEW r \in logs, LogSoftDelete(r) \/ LogRestore(r)
      PROVE  IndInv'
  <2>1. PICK d \in BOOLEAN : ReplaceRow(r, [r EXCEPT !.deleted = d])
    BY <1>4 DEF LogSoftDelete, LogRestore
  <2> DEFINE q == [r EXCEPT !.deleted = d]
  <2>2. r \in Row
    BY DEF TypeOK
  <2>3. /\ q \in Row /\ q.id = r.id /\ q.ts = r.ts /\ q.serial = r.serial
        /\ q.origin = r.origin /\ q.testing = r.testing
    BY <2>2 DEF Row
  <2>4. /\ EditLogs
        /\ logs' = (logs \ {r}) \cup {q} /\ UNCHANGED <<commit, clock>>
    BY <1>4, <2>1 DEF ReplaceRow, LogSoftDelete, LogRestore
  <2> HIDE DEF q
  <2> DEFINE Q == {q}
  <2>5. /\ Q \in SUBSET Row
        /\ logs' = (logs \ {r}) \cup Q
        /\ \A x \in Q : /\ x.id = r.id /\ x.ts = r.ts
                        /\ (x.origin = "checked" /\ x.serial # Null) =>
                              /\ serials[x.serial].exists
                              /\ serials[x.serial].testing = x.testing
    BY <2>3, <2>4 DEF FiledInOwnWorkspace
  <2> HIDE DEF Q
  <2> QED
    BY <2>4, <2>5, RowHandler
<1>5. ASSUME NEW r \in logs, LogHardDelete(r)
      PROVE  IndInv'
  <2> DEFINE Q == {}
  <2>1. /\ EditLogs /\ UNCHANGED <<commit, clock>>
        /\ logs' = (logs \ {r}) \cup Q
    BY <1>5 DEF LogHardDelete
  <2>2. Q \in SUBSET Row /\ \A q \in Q : FALSE
    OBVIOUS
  <2> HIDE DEF Q
  <2> QED
    BY <2>1, <2>2, RowHandler
<1> QED
  BY <1>1, <1>3, <1>4, <1>5 DEF LogNext

\* Down rows that the dashboard adds are fileable.
LEMMA DownFileable ==
    ASSUME TypeOK, NEW k \in SerialIds \cup {Null}, NEW s \in Signals, NEW st,
           NEW D \in SUBSET (IF st = "Up" THEN {Scoped(k)} \X Siblings(s) ELSE {})
    PROVE  Fileable(DownRows(D))
<1>1. D \in SUBSET ({Scoped(k)} \X Siblings(s))
  OBVIOUS
<1>2. Siblings(s) \in SUBSET Signals
  BY SignalsAssumption DEF Siblings
<1>3. /\ {Scoped(k)} \in SUBSET (SerialIds \cup {Null})
      /\ \A j \in {Scoped(k)} : j # Null => InScope(j)
  BY ScopedSerial
<1> DEFINE K == {Scoped(k)}
           S == Siblings(s)
<1> HIDE DEF K, S
<1> QED
  BY <1>1, <1>2, <1>3, DownEntries DEF K, S

\* What an update adds: Down rows for the siblings that read Up; then rows that
\* repeat what the signals moved read, and its own.
UpdateRows(k, u, b) ==
    LET P == IF u.status = "Up" THEN {Scoped(k)} \X Siblings(u.signal) ELSE {}
    IN  /\ \E D \in SUBSET P : ReadUp(P, D) /\ b[1] = DownRows(D)
        /\ Fileable(b[1]) /\ Fileable(b[2])
        /\ \A e \in b[2] :
              \/ e.signal = u.signal /\ e.status = u.status
              \/ /\ e.signal \in u.moved
                 /\ \E r \in LatestByTs(Visible(Scoped(k), e.signal)) : r.status = e.status

LEMMA UpdateAdds ==
    ASSUME IndInv, NEW k \in SerialIds \cup {Null}, NEW u \in Update,
           NEW b \in Adds(Scoped(k), u)
    PROVE  UpdateRows(k, u, b) /\ b = <<b[1], b[2]>>
<1> USE DEF IndInv
<1> DEFINE j == Scoped(k)
           P == IF u.status = "Up" THEN {j} \X Siblings(u.signal) ELSE {}
           own(l) == OwnRow(j, u, l)
           Rest(m) == {EntryFor(t, j, m[t]) : t \in u.moved}
<1>1. PICK D \in SUBSET P, m \in [u.moved -> Statuses], l \in LatestOf(Visible(j, u.signal), "Down") :
         /\ ReadUp(P, D)
         /\ \A t \in u.moved : \E r \in LatestByTs(Visible(j, t)) : r.status = m[t]
         /\ b = <<DownRows(D), Rest(m) \cup {own(l)}>>
  <2>1. PICK x \in {D \in SUBSET P : ReadUp(P, D)} \X
                     {m \in [u.moved -> Statuses] :
                       \A t \in u.moved : \E r \in LatestByTs(Visible(j, t)) : r.status = m[t]} \X
                     LatestOf(Visible(j, u.signal), "Down") :
           b = <<DownRows(x[1]), Rest(x[2]) \cup {own(x[3])}>>
    BY DEF Adds
  <2> QED
    BY <2>1
<1>2. u.signal \in Signals /\ u.status \in Statuses /\ u.moved \subseteq Signals
  BY DEF Update
<1>3. Fileable(DownRows(D))
  <2>1. D \in SUBSET (IF u.status = "Up" THEN {Scoped(k)} \X Siblings(u.signal) ELSE {})
    OBVIOUS
  <2> HIDE DEF P
  <2> QED
    BY <1>2, <2>1, DownFileable
<1>4. Fileable({own(l)})
  BY <1>2, ScopedSerial, CheckedEntry, InheritedEntry DEF OwnRow
<1>5. Fileable(Rest(m))
  <2>1. ASSUME NEW t \in u.moved PROVE Fileable({EntryFor(t, j, m[t])})
    BY <1>2, ScopedSerial, CheckedEntry
  <2> QED
    BY <2>1 DEF Fileable
<1>6. Fileable(Rest(m) \cup {own(l)})
  BY <1>4, <1>5, FileableUnion
<1>7. \A e \in Rest(m) : e.signal \in u.moved /\
         \E r \in LatestByTs(Visible(j, e.signal)) : r.status = e.status
  BY <1>1 DEF EntryFor
<1>8. own(l).signal = u.signal /\ own(l).status = u.status
  BY DEF OwnRow, EntryFor
<1>9. b[1] = DownRows(D) /\ b[2] = Rest(m) \cup {own(l)} /\ b = <<b[1], b[2]>>
  BY <1>1
<1> HIDE DEF own, Rest
<1>10. \A e \in b[2] : \/ e.signal = u.signal /\ e.status = u.status
                       \/ /\ e.signal \in u.moved
                          /\ \E r \in LatestByTs(Visible(j, e.signal)) : r.status = e.status
  BY <1>7, <1>8, <1>9
<1> QED
  BY <1>1, <1>3, <1>6, <1>9, <1>10 DEF UpdateRows

LEMMA Concat4 ==
    ASSUME NEW S, NEW a \in S, NEW b \in S, NEW c \in S, NEW d \in S
    PROVE  <<a, b>> \o <<c, d>> = <<a, b, c, d>>
<1> DEFINE f == <<a, b>>
           g == <<c, d>>
           h == <<a, b, c, d>>
           fg == f \o g
<1>1. /\ f \in Seq(S) /\ Len(f) = 2 /\ f[1] = a /\ f[2] = b
      /\ g \in Seq(S) /\ Len(g) = 2 /\ g[1] = c /\ g[2] = d
      /\ h \in Seq(S) /\ Len(h) = 4 /\ h[1] = a /\ h[2] = b /\ h[3] = c /\ h[4] = d
  OBVIOUS
<1> HIDE DEF f, g, h
<1>2. /\ fg \in Seq(S) /\ Len(fg) = 4
      /\ \A i \in 1..4 : fg[i] = IF i <= 2 THEN f[i] ELSE g[i - 2]
  <2>1. /\ f \o g \in Seq(S)
        /\ Len(f \o g) = Len(f) + Len(g)
        /\ \A i \in 1 .. Len(f) + Len(g) : (f \o g)[i] =
              IF i <= Len(f) THEN f[i] ELSE g[i - Len(f)]
    BY <1>1, ConcatProperties, Zenon
  <2> HIDE DEF fg
  <2>2. /\ fg \in Seq(S)
        /\ Len(fg) = Len(f) + Len(g)
        /\ \A i \in 1 .. Len(f) + Len(g) : fg[i] =
              IF i <= Len(f) THEN f[i] ELSE g[i - Len(f)]
    BY <2>1, Zenon DEF fg
  <2> QED
    BY <1>1, <2>2
<1> HIDE DEF fg
<1>3. fg[1] = f[1] /\ fg[2] = f[2] /\ fg[3] = g[1] /\ fg[4] = g[2]
  BY <1>2
<1>4. \A i \in 1..4 : fg[i] = h[i]
  BY <1>1, <1>3
<1>5. fg = h
  BY <1>1, <1>2, <1>4
<1> QED
  BY <1>5 DEF fg, f, g, h

\* A request inserts, in turn, what its updates add.
LEMMA RequestAdds ==
    ASSUME IndInv, NEW k \in SerialIds \cup {Null}, NEW us \in Requests, BulkUpdate(k, us)
    PROVE  \E n \in {1, 2} : \E B \in [1..(2 * n) -> SUBSET Entry] :
              /\ Len(B) = 2 * n /\ DOMAIN us = 1..n /\ InsertInTurn(B)
              /\ \A i \in 1..n : us[i] \in Update /\ UpdateRows(k, us[i], <<B[2*i - 1], B[2*i]>>)
<1>1. PICK added \in Adds(Scoped(k), us[1]),
           more \in IF Len(us) = 2 THEN Adds(Scoped(k), us[2]) ELSE {<<>>} :
             InsertInTurn(added \o more)
  BY DEF BulkUpdate
<1> DEFINE a == added[1]
           b == added[2]
           c == more[1]
           d == more[2]
<1>2. us[1] \in Update
  BY DEF Requests
<1>3. UpdateRows(k, us[1], added) /\ added = <<a, b>>
  BY <1>2, UpdateAdds
<1>4. a \in SUBSET Entry /\ b \in SUBSET Entry
  BY <1>3 DEF UpdateRows, Fileable
<1>5. CASE Len(us) = 2
  <2>1. us[2] \in Update /\ DOMAIN us = 1..2
    BY <1>5 DEF Requests
  <2>2. UpdateRows(k, us[2], more) /\ more = <<c, d>>
    BY <1>5, <2>1, UpdateAdds
  <2>3. c \in SUBSET Entry /\ d \in SUBSET Entry
    BY <2>2 DEF UpdateRows, Fileable
  <2> DEFINE B == <<a, b, c, d>>
  <2>4. InsertInTurn(B)
    <3>1. added = <<a, b>> /\ more = <<c, d>>
      BY <1>3, <2>2
    <3> HIDE DEF a, b, c, d
    <3>2. <<a, b>> \o <<c, d>> = <<a, b, c, d>>
      BY <1>4, <2>3, Concat4
    <3>3. added \o more = B
      BY <3>1, <3>2
    <3> QED
      BY <1>1, <3>3
  <2>5. B \in [1..4 -> SUBSET Entry] /\ Len(B) = 4
    BY <1>4, <2>3
  <2>6. \A i \in 1..2 : us[i] \in Update /\ UpdateRows(k, us[i], <<B[2*i - 1], B[2*i]>>)
    <3>1. B[1] = a /\ B[2] = b /\ B[3] = c /\ B[4] = d
      OBVIOUS
    <3> HIDE DEF B, a, b, c, d
    <3>2. UpdateRows(k, us[1], <<B[2*1 - 1], B[2*1]>>) /\ UpdateRows(k, us[2], <<B[2*2 - 1], B[2*2]>>)
      BY <1>3, <2>2, <3>1
    <3> QED
      BY <1>2, <2>1, <3>2
  <2> HIDE DEF B
  <2>7. B \in [1..(2 * 2) -> SUBSET Entry] /\ Len(B) = 2 * 2
    BY <2>5
  <2> QED
    BY <2>1, <2>4, <2>6, <2>7
<1>6. CASE Len(us) # 2
  <2>1. DOMAIN us = 1..1 /\ more = <<>>
    BY <1>6 DEF Requests
  <2> DEFINE B == <<a, b>>
  <2>2. InsertInTurn(B)
    <3>1. added = <<a, b>> /\ more = <<>>
      BY <1>3, <2>1
    <3> HIDE DEF a, b
    <3>2. <<a, b>> \o <<>> = <<a, b>>
      OBVIOUS
    <3>3. added \o more = B
      BY <3>1, <3>2
    <3> QED
      BY <1>1, <3>3
  <2>3. B \in [1..2 -> SUBSET Entry] /\ Len(B) = 2
    BY <1>4
  <2>4. \A i \in 1..1 : us[i] \in Update /\ UpdateRows(k, us[i], <<B[2*i - 1], B[2*i]>>)
    <3>1. B[1] = a /\ B[2] = b
      OBVIOUS
    <3> HIDE DEF B, a, b
    <3>2. UpdateRows(k, us[1], <<B[2*1 - 1], B[2*1]>>)
      BY <1>3, <3>1
    <3> QED
      BY <1>2, <3>2
  <2> HIDE DEF B
  <2>5. B \in [1..(2 * 1) -> SUBSET Entry] /\ Len(B) = 2 * 1
    BY <2>3
  <2> QED
    BY <2>1, <2>2, <2>4, <2>5
<1> QED
  BY <1>5, <1>6

\* What a request inserts is fileable.
LEMMA RequestAppends ==
    ASSUME IndInv, NEW k \in SerialIds \cup {Null}, NEW us \in Requests, BulkUpdate(k, us)
    PROVE  EditLogs /\ \E E \in SUBSET Entry : Fileable(E) /\ Appended(E)
<1>1. PICK n \in {1, 2} : \E B \in [1..(2 * n) -> SUBSET Entry] :
              /\ Len(B) = 2 * n /\ DOMAIN us = 1..n /\ InsertInTurn(B)
              /\ \A i \in 1..n : us[i] \in Update /\ UpdateRows(k, us[i], <<B[2*i - 1], B[2*i]>>)
  BY RequestAdds
<1>2. PICK B \in [1..(2 * n) -> SUBSET Entry] :
              /\ Len(B) = 2 * n /\ InsertInTurn(B)
              /\ \A i \in 1..n : UpdateRows(k, us[i], <<B[2*i - 1], B[2*i]>>)
  BY <1>1
<1> DEFINE m == 2 * n
           E == UNION {B[i] : i \in 1..m}
<1>3. ASSUME NEW i \in 1..m PROVE Fileable(B[i])
  <2>1. \E j \in 1..n : i = 2*j - 1 \/ i = 2*j
    OBVIOUS
  <2> QED
    BY <1>2, <2>1 DEF UpdateRows
<1>4. \A i \in 1..m : Fileable(B[i]) /\ B[i] \subseteq E
  BY <1>3
<1>5. Fileable(E) /\ E \in SUBSET Entry
  BY <1>3 DEF Fileable
<1>6. m \in Nat /\ B \in [1..m -> SUBSET Entry] /\ Len(B) = m /\ InsertInTurn(B) /\ TypeOK
  BY <1>2 DEF IndInv
<1> HIDE DEF m, E
<1>7. Appended(E)
  BY <1>4, <1>6, InsertedInTurn
<1> QED
  BY <1>5, <1>7 DEF BulkUpdate

\* What else the dashboard inserts is fileable.
LEMMA DashboardInserts ==
    ASSUME IndInv, NEW k \in SerialIds \cup {Null}, NEW s \in Signals,
           SignalCall(k, s) \/ \E st \in Statuses : SignalAdd(k, s, st)
    PROVE  /\ EditLogs
           /\ \E E \in SUBSET Entry : Fileable(E) /\ Appended(E)
<1> USE DEF IndInv
<1>1. ASSUME NEW E, Fileable(E), Insert(E) PROVE E \in SUBSET Entry /\ Appended(E)
  BY <1>1, Inserted DEF Fileable
<1>2. SUFFICES EditLogs /\ \E E : Fileable(E) /\ Insert(E)
  BY <1>1
<1>3. ASSUME NEW st \in Statuses, SignalAdd(k, s, st)
      PROVE  EditLogs /\ \E E : Fileable(E) /\ Insert(E)
  <2> DEFINE j == Scoped(k)
             siblings == IF st = "Up" THEN {j} \X Siblings(s) ELSE {}
  <2>1. PICK D \in SUBSET siblings : Insert(DownRows(D) \cup {EntryFor(s, j, st)})
    BY <1>3 DEF SignalAdd
  <2>2. Fileable({EntryFor(s, j, st)})
    BY ScopedSerial, CheckedEntry
  <2>3. Fileable(DownRows(D) \cup {EntryFor(s, j, st)})
    BY <2>2, DownFileable, FileableUnion
  <2> QED
    BY <1>3, <2>1, <2>3 DEF SignalAdd
<1>4. CASE SignalCall(k, s)
  <2> DEFINE own(l) == [signal |-> s, serial |-> IF k # Null THEN k ELSE l.serial,
                        status |-> l.status,
                        origin |-> IF k = Null THEN l.origin
                                   ELSE IF InScope(k) THEN "checked"
                                   ELSE "unchecked"]
  <2>1. PICK l \in LatestOf(Visible(k, s), "Down") : Insert({own(l)})
    BY <1>4 DEF SignalCall
  <2>2. l.status \in Statuses
    BY InheritedEntry DEF Statuses
  <2>3. Fileable({own(l)})
    <3>1. CASE k = Null
      BY <2>2, <3>1, InheritedEntry
    <3>2. CASE k # Null
      BY <2>2, <3>2 DEF Fileable, Entry, Origins, InScope, Exists
    <3> QED
      BY <3>1, <3>2
  <2> QED
    BY <1>4, <2>1, <2>3 DEF SignalCall
<1> QED
  BY <1>3, <1>4

LEMMA DashboardStep ==
    ASSUME IndInv, DashboardNext
    PROVE  IndInv'
<1> USE DEF IndInv
<1>1. ASSUME NEW k \in SerialIds \cup {Null}, NEW s \in Signals,
             SignalCall(k, s) \/ \E st \in Statuses : SignalAdd(k, s, st)
      PROVE  IndInv'
  BY <1>1, DashboardInserts, LogHandler
<1>2. ASSUME NEW k \in SerialIds \cup {Null}, NEW s \in Signals,
             SignalDelete(k, s)
      PROVE  IndInv'
  <2>1. \A r \in logs' : \E q \in logs :
           r = q \/ r = [q EXCEPT !.deleted = TRUE]
    BY <1>2 DEF SignalDelete, Visible, RowsOf
  <2>2. \A q \in logs : q \in Row
    BY DEF TypeOK
  <2>3. \A r \in logs' : \E q \in logs :
           /\ r \in Row /\ r.id = q.id /\ r.ts = q.ts /\ r.serial = q.serial
           /\ r.origin = q.origin /\ r.testing = q.testing
    BY <2>1, <2>2 DEF Row
  <2>4. TypeOK'
    BY <1>2, <2>3 DEF SignalDelete, EditLogs, Edit, TypeOK
  <2>5. RowsInOrder' /\ ReadingRulesAgree'
    BY <1>2, <2>3, <2>4, SameOrder DEF SignalDelete
  <2>6. FiledInOwnWorkspace'
    BY <1>2, <2>3 DEF SignalDelete, EditLogs, FiledInOwnWorkspace
  <2>7. ArchiveKeepsHandlerRows' /\ PendingUnchecked' /\ ArchiveInScope'
    BY <1>2, HandlerKeeps DEF SignalDelete, EditLogs, Edit
  <2> QED
    BY <2>4, <2>5, <2>6, <2>7
<1> QED
  BY <1>1, <1>2, RequestAppends, LogHandler DEF DashboardNext

LEMMA StateStep ==
    ASSUME IndInv, StateNext
    PROVE  IndInv'
<1> USE DEF IndInv
<1> SUFFICES ASSUME NEW role \in Roles, NEW new \in States,
                    NEW approved \in BOOLEAN, ChangeState(role, new, approved)
             PROVE  IndInv'
  BY DEF StateNext
<1>1. TypeOK'
  BY DEF ChangeState, TypeOK
<1>2. FiledInOwnWorkspace' /\ RowsInOrder' /\ ReadingRulesAgree'
  BY DEF ChangeState, FiledInOwnWorkspace, RowsInOrder, ReadingRulesAgree
<1>3. ArchiveKeepsHandlerRows' /\ PendingUnchecked' /\ ArchiveInScope'
  BY HandlerKeeps DEF ChangeState
<1> QED
  BY <1>1, <1>2, <1>3

\* A step that leaves the range state, the serials, the log and the export
\* alone, and gathers rows of unchecked origin only.
LEMMA SyncOnly ==
    ASSUME IndInv, TypeOK', PendingUnchecked',
           UNCHANGED <<range, serials, logs, commit, clock, archiving>>
    PROVE  IndInv'
BY DEF IndInv, FiledInOwnWorkspace, ReadingRulesAgree, ArchiveKeepsHandlerRows,
       RowsInOrder, ArchiveInScope, InTesting

LEMMA IdleState ==
    /\ Idle \in SyncState
    /\ Idle.pending = {}
BY DEF Idle, SyncState

LEMMA SyncStep ==
    ASSUME IndInv, SyncNext
    PROVE  IndInv'
<1> USE DEF IndInv
<1>1. ASSUME NEW p \in Syncs, SyncStart(p)
      PROVE  IndInv'
  <2> DEFINE new == [Idle EXCEPT !.phase = "polling", !.testing = InTesting,
                                 !.todo = ActiveSerials \X Mapped]
  <2>1. new \in SyncState /\ new.pending = {}
    <3>1. /\ InTesting \in BOOLEAN
          /\ ActiveSerials \X Mapped \in SUBSET (SerialIds \X Signals)
      BY SignalsAssumption DEF ActiveSerials, InTesting
    <3> QED
      BY <3>1 DEF Idle, SyncState
  <2>2. sync' = [sync EXCEPT ![p] = new]
    BY <1>1 DEF SyncStart
  <2> HIDE DEF new
  <2>3. TypeOK'
    BY <1>1, <2>1, <2>2 DEF SyncStart, SyncVars, TypeOK
  <2>4. PendingUnchecked'
    BY <2>1, <2>2 DEF PendingUnchecked, TypeOK
  <2> QED
    BY <1>1, <2>3, <2>4, SyncOnly DEF SyncStart, SyncVars
<1>2. ASSUME NEW p \in Syncs, NEW k \in SerialIds, NEW s \in Mapped,
             SyncItem(p, k, s)
      PROVE  IndInv'
  <2> DEFINE rows == RowsOf(sync[p].testing, k, s)
             st(a, l) == IF a = "NoData" THEN l.status ELSE a
             row(a, l) == [signal |-> s, serial |-> k, status |-> st(a, l),
                           origin |-> "unchecked"]
  <2>1. PICK a \in Answers(p, s), l \in LatestOf(rows, "Planned"),
             metric \in BOOLEAN :
           sync' = [sync EXCEPT
                      ![p].todo = @ \ {<<k, s>>},
                      ![p].snap[s] = a,
                      ![p].pending = @ \cup
                         IF a # "unpolled"
                            /\ (rows = {} \/ st(a, l) # l.status \/ metric)
                         THEN {row(a, l)} ELSE {}]
    BY <1>2 DEF SyncItem
  <2>2. sync[p] \in SyncState /\ s \in Signals
    BY SignalsAssumption DEF TypeOK
  <2>3. a \in Readings \cup {"unpolled"}
    BY <2>2 DEF Answers, TypeOK, SyncState, Readings
  <2>4. l.status \in Statuses
    BY DEF LatestOf, LatestByTs, RowsOf, TypeOK, Row, Statuses
  <2>5. a # "unpolled" => row(a, l) \in Entry
    BY <2>2, <2>3, <2>4 DEF Entry, Origins, Readings, Statuses
  <2>6. PICK new \in SyncState : /\ sync' = [sync EXCEPT ![p] = new]
                                 /\ \A e \in new.pending :
                                       \/ e \in sync[p].pending
                                       \/ e.origin = "unchecked"
    <3> DEFINE new == [sync[p] EXCEPT
                      !.todo = @ \ {<<k, s>>},
                      !.snap[s] = a,
                      !.pending = @ \cup
                         IF a # "unpolled"
                            /\ (rows = {} \/ st(a, l) # l.status \/ metric)
                         THEN {row(a, l)} ELSE {}]
    <3>1. sync' = [sync EXCEPT ![p] = new]
      BY <2>1
    <3>2. new \in SyncState
      BY <2>2, <2>3, <2>5 DEF SyncState
    <3>3. \A e \in new.pending : e \in sync[p].pending \/ e.origin = "unchecked"
      BY <2>2 DEF SyncState
    <3> QED
      BY <3>1, <3>2, <3>3
  <2>7. TypeOK'
    BY <1>2, <2>6 DEF SyncItem, SyncVars, TypeOK
  <2>8. PendingUnchecked'
    BY <2>6 DEF PendingUnchecked, TypeOK
  <2> QED
    BY <1>2, <2>7, <2>8, SyncOnly DEF SyncItem, SyncVars
<1>3. ASSUME NEW p \in Syncs, SyncCommit(p)
      PROVE  IndInv'
  <2> DEFINE E == sync[p].pending
  <2>1. Fileable(E)
    BY DEF Fileable, PendingUnchecked, TypeOK, SyncState
  <2>2. Insert(E)
    BY <1>3 DEF SyncCommit
  <2>3. TypeOK'
    BY <1>3, <2>1, <2>2, Inserted, IdleState DEF Appended, SyncCommit, SyncVars, TypeOK
  <2>4. FiledInOwnWorkspace' /\ RowsInOrder' /\ ReadingRulesAgree'
    BY <1>3, <2>1, <2>2, <2>3, Inserted, InsertKeeps DEF SyncCommit, SyncVars
  <2>5. ArchiveKeepsHandlerRows'
    <3>1. \A r \in logs' \ logs : r.origin = "unchecked"
      BY <2>1, <2>2, Inserted DEF Appended, PendingUnchecked
    <3> QED
      BY <1>3, <3>1 DEF ArchiveKeepsHandlerRows, SyncCommit, SyncVars
  <2>6. PendingUnchecked' /\ ArchiveInScope'
    BY <1>3, IdleState DEF SyncCommit, SyncVars, PendingUnchecked,
                           ArchiveInScope, InTesting, TypeOK
  <2> QED
    BY <2>3, <2>4, <2>5, <2>6
<1>4. ASSUME NEW p \in Syncs, SyncFail(p)
      PROVE  IndInv'
  <2>1. TypeOK' /\ PendingUnchecked'
    BY <1>4, IdleState DEF SyncFail, SyncVars, TypeOK, PendingUnchecked
  <2> QED
    BY <1>4, <2>1, SyncOnly DEF SyncFail, SyncVars
<1>5. ASSUME NEW s \in Mapped, ModemFlip(s)
      PROVE  IndInv'
  <2>1. TypeOK' /\ PendingUnchecked'
    BY <1>5 DEF ModemFlip, TypeOK, PendingUnchecked
  <2> QED
    BY <1>5, <2>1, SyncOnly DEF ModemFlip
<1>6. CASE Restart
  <2>1. TypeOK' /\ PendingUnchecked'
    BY <1>6, IdleState DEF Restart, TypeOK, PendingUnchecked, NoArchive
  <2> QED
    BY <1>6, <2>1 DEF Restart, FiledInOwnWorkspace, RowsInOrder, NoArchive,
                      ReadingRulesAgree, ArchiveKeepsHandlerRows, ArchiveInScope
<1> QED
  BY <1>1, <1>2, <1>3, <1>4, <1>5, <1>6 DEF SyncNext

-----------------------------------------------------------------------------
(* The theorems.                                                           *)

LEMMA Inductive == IndInv /\ [Next]_vars => IndInv'
<1> SUFFICES ASSUME IndInv, [Next]_vars
             PROVE  IndInv'
  OBVIOUS
<1>1. CASE Next
  BY <1>1, SerialStep, LogStep, DashboardStep, StateStep, SyncStep DEF Next
<1>2. CASE UNCHANGED vars
  BY <1>2 DEF vars, IndInv, TypeOK, FiledInOwnWorkspace, ReadingRulesAgree,
              ArchiveKeepsHandlerRows, RowsInOrder, PendingUnchecked,
              ArchiveInScope, InTesting
<1> QED
  BY <1>1, <1>2

\* In every reachable state the conjunction of the invariants holds.
THEOREM Invariance == Spec => []IndInv
BY InitIndInv, Inductive, PTL DEF Spec

\* The variables keep their types.
THEOREM TypeCorrect == Spec => []TypeOK
BY Invariance, PTL DEF IndInv

\* A row whose serial a handler checked stays filed in an existing serial of
\* its own workspace.
THEOREM Filing == Spec => []FiledInOwnWorkspace
BY Invariance, PTL DEF IndInv

\* An export misses no row of its serial that a handler filed.
THEOREM ArchiveComplete == Spec => []ArchiveKeepsHandlerRows
BY Invariance, PTL DEF IndInv

\* Reading the latest row by id and by timestamp is the same.
THEOREM ReadingRules == Spec => []ReadingRulesAgree
BY Invariance, PTL DEF IndInv

-----------------------------------------------------------------------------
(* Isolation of the two workspaces.                                        *)

\* Inserted rows belong to the current workspace.
LEMMA InsertIsolates ==
    ASSUME NEW E, Appended(E)
    PROVE  \A r \in (logs \ logs') \cup (logs' \ logs) : r.testing = InTesting
BY DEF Appended

LEMMA SerialIsolates ==
    ASSUME IndInv, SerialNext
    PROVE  Isolates
<1> USE DEF IndInv
<1>1. ASSUME NEW k \in SerialIds,
             SerialCreate(k) \/ \E n \in SerialIds : SerialCopyToOther(n, k)
      PROVE  Isolates
  <2>1. /\ ~Exists(k) /\ logs' = logs
        /\ \A j \in SerialIds : j # k => serials'[j] = serials[j]
    <3>1. /\ NextSerialId(k) /\ logs' = logs
          /\ \E x : serials' = [serials EXCEPT ![k] = x]
      BY <1>1 DEF SerialCreate, SerialCopyToOther
    <3>2. ~Exists(k)
      BY <3>1, BoundsAssumption DEF NextSerialId, SerialIds
    <3> QED
      BY <3>1, <3>2 DEF TypeOK
  <2> QED
    BY <2>1 DEF Isolates
<1>2. ASSUME NEW k \in SerialIds, SerialStart(k)
      PROVE  Isolates
  <2> DEFINE E == {EntryFor(s, k, "Planned") : s \in Package}
  <2>1. Fileable(E) /\ Insert(E)
    BY <1>2, CheckedEntry, SignalsAssumption
       DEF SerialStart, Fileable, Statuses
  <2> HIDE DEF E
  <2>2. \A r \in (logs \ logs') \cup (logs' \ logs) : r.testing = InTesting
    BY <2>1, Inserted, InsertIsolates
  <2> QED
    BY <1>2, <2>2 DEF SerialStart, InScope, Isolates, TypeOK
<1>3. ASSUME NEW K \in (SUBSET SerialIds) \ {{}}, SerialsEnd(K)
      PROVE  Isolates
  <2>1. PICK D \in SUBSET (K \X Signals) : Insert(DownRows(D))
    BY <1>3 DEF SerialsEnd
  <2>2. Fileable(DownRows(D))
    BY <1>3, DownEntries DEF SerialsEnd
  <2>3. \A r \in (logs \ logs') \cup (logs' \ logs) : r.testing = InTesting
    BY <2>1, <2>2, Inserted, InsertIsolates
  <2> QED
    BY <1>3, <2>3 DEF SerialsEnd, InScope, Isolates
<1>4. ASSUME NEW k \in SerialIds, SerialDelete(k)
      PROVE  Isolates
  <2>1. serials[k].exists /\ serials[k].testing = InTesting
    BY <1>4 DEF SerialDelete, InScope, Exists
  <2>2. \A q \in logs : q.serial = k => q.testing = InTesting \/ q.origin = "unchecked"
    <3>1. k # Null
      BY BoundsAssumption DEF SerialIds
    <3> QED
      BY <2>1, <3>1 DEF FiledInOwnWorkspace, TypeOK, Row, Origins
  <2>3. \A r \in logs \ logs' : r.serial = k
    BY <1>4 DEF SerialDelete
  <2>4. \A r \in logs' \ logs : \E q \in logs : /\ q.serial = k
                                                /\ r = [q EXCEPT !.serial = Null]
    BY <1>4 DEF SerialDelete
  <2>5. \A r \in logs' \ logs : r.testing = InTesting \/ r.origin = "unchecked"
    BY <2>2, <2>4 DEF TypeOK, Row
  <2> QED
    BY <1>4, <2>1, <2>2, <2>3, <2>5 DEF SerialDelete, Isolates, TypeOK
<1>5. ASSUME NEW k \in SerialIds, ArchiveRead(k)
      PROVE  Isolates
  BY <1>5 DEF ArchiveRead, Isolates
<1>6. CASE ArchiveDelete
  <2>1. \A r \in logs : r.serial = archiving.serial =>
           r.testing = InTesting \/ r.origin = "unchecked"
    BY <1>6 DEF ArchiveDelete, ArchiveInScope, FiledInOwnWorkspace, TypeOK, Row,
                Origins
  <2> QED
    BY <1>6, <2>1 DEF ArchiveDelete, ArchiveInScope, Isolates, TypeOK
<1> QED
  BY <1>1, <1>2, <1>3, <1>4, <1>5, <1>6 DEF SerialNext

LEMMA LogIsolates ==
    ASSUME IndInv, LogNext
    PROVE  Isolates
<1> USE DEF IndInv
<1>1. ASSUME NEW k \in SerialIds \cup {Null}, NEW s \in Signals,
             NEW st \in Statuses, LogCreate(k, s, st)
      PROVE  Isolates
  <2>1. Fileable({EntryFor(s, Scoped(k), st)})
    BY ScopedSerial, CheckedEntry
  <2> QED
    BY <1>1, <2>1, Inserted, InsertIsolates DEF LogCreate, EditLogs, Isolates
<1>2. ASSUME NEW r \in logs, NEW k \in SerialIds \cup {Null},
             NEW s \in Signals, NEW st \in Statuses,
             \/ LogUpdate(r, k, s, st)
             \/ LogSoftDelete(r) \/ LogRestore(r) \/ LogHardDelete(r)
      PROVE  Isolates
  <2>1. serials' = serials /\ r.testing = InTesting
    BY <1>2 DEF LogUpdate, LogSoftDelete, LogRestore, LogHardDelete, EditLogs
  <2>2. \A q \in (logs \ logs') \cup (logs' \ logs) : q.testing = r.testing
    <3>1. r \in Row
      BY DEF TypeOK
    <3>2. CASE LogHardDelete(r)
      BY <3>2 DEF LogHardDelete
    <3>3. CASE ~LogHardDelete(r)
      <4>1. \E x \in {[r EXCEPT !.serial = Scoped(k), !.signal = s,
                                !.status = st, !.origin = "checked"],
                     [r EXCEPT !.deleted = TRUE], [r EXCEPT !.deleted = FALSE]} :
               ReplaceRow(r, x)
        BY <1>2, <3>3 DEF LogUpdate, LogSoftDelete, LogRestore
      <4>2. \E x : x.testing = r.testing /\ ReplaceRow(r, x)
        BY <3>1, <4>1 DEF Row
      <4> QED
        BY <4>2 DEF ReplaceRow
    <3> QED
      BY <3>2, <3>3
  <2> QED
    BY <2>1, <2>2 DEF Isolates
<1>3. ASSUME NEW r \in logs, LogSoftDelete(r) \/ LogRestore(r) \/ LogHardDelete(r)
      PROVE  Isolates
  <2>1. r.signal \in Signals /\ r.status \in Statuses /\ r.serial \in SerialIds \cup {Null}
    BY DEF TypeOK, Row
  <2> QED
    BY <1>2, <1>3, <2>1
<1> QED
  BY <1>1, <1>2, <1>3 DEF LogNext

LEMMA DashboardIsolates ==
    ASSUME IndInv, DashboardNext
    PROVE  Isolates
<1>1. ASSUME NEW k \in SerialIds \cup {Null}, NEW s \in Signals,
             SignalCall(k, s) \/ \E st \in Statuses : SignalAdd(k, s, st)
      PROVE  Isolates
  BY <1>1, DashboardInserts, InsertIsolates DEF EditLogs, Isolates
<1>2. ASSUME NEW k \in SerialIds \cup {Null}, NEW s \in Signals,
             SignalDelete(k, s)
      PROVE  Isolates
  <2> DEFINE gone == Visible(Scoped(k), s)
  <2>1. \A r \in gone : r \in Row /\ r.testing = InTesting
    BY DEF Visible, RowsOf, IndInv, TypeOK
  <2>2. \A r \in logs \ logs' : r \in gone
    BY <1>2 DEF SignalDelete
  <2>3. \A r \in logs' \ logs : \E q \in gone : r = [q EXCEPT !.deleted = TRUE]
    BY <1>2 DEF SignalDelete
  <2>4. \A r \in logs' \ logs : r.testing = InTesting
    BY <2>1, <2>3 DEF Row
  <2> QED
    BY <1>2, <2>1, <2>2, <2>4 DEF SignalDelete, EditLogs, Isolates
<1>3. ASSUME NEW k \in SerialIds \cup {Null}, NEW us \in Requests, BulkUpdate(k, us)
      PROVE  Isolates
  BY <1>3, RequestAppends, InsertIsolates DEF EditLogs, Isolates
<1> QED
  BY <1>1, <1>2, <1>3 DEF DashboardNext

LEMMA StateIsolates ==
    ASSUME StateNext
    PROVE  Isolates
BY DEF StateNext, ChangeState, Isolates

\* The sync adds rows of the workspace of the commit, whatever the workspace
\* it started in.
LEMMA SyncIsolates ==
    ASSUME IndInv, SyncNext
    PROVE  Isolates
<1>1. ASSUME NEW p \in Syncs, SyncCommit(p)
      PROVE  Isolates
  <2> DEFINE E == sync[p].pending
  <2>1. Fileable(E) /\ Insert(E)
    BY <1>1 DEF Fileable, SyncCommit, IndInv, PendingUnchecked, TypeOK, SyncState
  <2> HIDE DEF E
  <2> QED
    BY <1>1, <2>1, Inserted, InsertIsolates DEF IndInv, SyncCommit, SyncVars, Isolates
<1>2. ASSUME logs' = logs /\ serials' = serials
      PROVE  Isolates
  BY <1>2 DEF Isolates
<1> QED
  BY <1>1, <1>2 DEF SyncNext, SyncStart, SyncItem, SyncFail, SyncVars,
                    ModemFlip, Restart

\* A step changes nothing of the workspace it does not run in, except rows that
\* were filed without a check.
THEOREM Isolation == Spec => WorkspaceIsolation
<1>1. IndInv /\ [Next]_vars => [Isolates]_vars
  BY SerialIsolates, LogIsolates, DashboardIsolates, StateIsolates, SyncIsolates
     DEF Next
<1> QED
  BY <1>1, Invariance, PTL DEF Spec, WorkspaceIsolation

-----------------------------------------------------------------------------
(* Silencing signals.                                                      *)

\* The row with the largest id is one of the rows of the latest second.
LEMMA LatestIdIsLatestTs ==
    ASSUME ReadingRulesAgree, NEW R \in SUBSET logs, NEW r \in LatestById(R)
    PROVE  r \in LatestByTs(R)
BY DEF ReadingRulesAgree, LatestById, LatestByTs

\* The rows inserting sets of entries in turn adds, and where each entry went.
LEMMA RowsInTurn ==
    ASSUME TypeOK, NEW n \in Nat, NEW B \in [1..n -> SUBSET Entry], Len(B) = n,
           InsertInTurn(B)
    PROVE  /\ logs \subseteq logs'
           /\ \A r \in logs' \ logs : \E i \in 1..n : \E e \in B[i] :
                 /\ r.id[1] = commit + i /\ r.signal = e.signal
                 /\ r.serial = e.serial /\ r.status = e.status
           /\ \A i \in 1..n : \A e \in B[i] : \E r \in logs' :
                 /\ r.id[1] = commit + i /\ r.signal = e.signal
                 /\ r.serial = e.serial /\ r.status = e.status
                 /\ ~r.deleted /\ r.testing = InTesting
<1>1. PICK t \in Tick :
         logs' = logs \cup UNION {{NewRow(commit + i, e, t, InTesting) : e \in B[i]} :
                                        i \in 1..n}
  BY DEF InsertInTurn
<1>2. \A m, e : LET r == NewRow(m, e, t, InTesting)
                IN  /\ r.id[1] = m /\ r.signal = e.signal
                    /\ r.serial = e.serial /\ r.status = e.status
                    /\ ~r.deleted /\ r.testing = InTesting
  BY DEF NewRow
<1> QED
  BY <1>1, <1>2

\* A commit leaves the widget of the pair <<k, s>> of P not reading Up, if it
\* adds a Down row after every Up row of the pair where the pair read Up, and no
\* Up row of it elsewhere.
LEMMA Silenced ==
    ASSUME IndInv, NEW P, NEW D, ReadUp(P, D),
           NEW k \in SerialIds, NEW s \in Signals, <<k, s>> \in P,
           logs \subseteq logs', range' = range,
           \A r \in logs' \ logs : r.id[1] \in Nat /\ commit < r.id[1],
           <<k, s>> \in D =>
              \E d \in logs' :
                 /\ d.signal = s /\ d.serial = k /\ ~d.deleted /\ d.testing = InTesting
                 /\ d.id[1] \in Nat /\ commit < d.id[1]
                 /\ \A r \in logs' \ logs :
                       (r.serial = k /\ r.signal = s /\ r.status = "Up") => r.id[1] < d.id[1],
           <<k, s>> \notin D =>
              \A r \in logs' \ logs : ~(r.serial = k /\ r.signal = s /\ r.status = "Up"),
           Agree(LatestByTs(Visible(k, s)))
    PROVE  ~WidgetUp(k, s)'
<1> DEFINE R == Visible(k, s)
           N == {r \in logs' : /\ r.signal = s /\ ~r.deleted
                               /\ r.testing = InTesting /\ r.serial = k}
<1>1. k # Null
  BY BoundsAssumption DEF SerialIds
<1>2. Visible(k, s)' = N /\ R = {r \in logs : /\ r.signal = s /\ ~r.deleted
                                              /\ r.testing = InTesting
                                              /\ r.serial = k}
  BY <1>1 DEF Visible, RowsOf, InTesting
<1>3. \A r \in logs : r.id[1] \in Nat /\ r.id[1] <= commit
  BY DEF IndInv, TypeOK, Row, RowsInOrder
<1>4. commit \in Nat
  BY DEF IndInv, TypeOK
<1>5. SUFFICES ASSUME NEW r \in N, r.status = "Up",
                      \A q \in N : q.id[1] <= r.id[1]
               PROVE  FALSE
  BY <1>2 DEF WidgetUp, LatestById
<1>6. CASE <<k, s>> \in D
  <2>1. PICK d \in N :
           /\ d.id[1] \in Nat /\ commit < d.id[1]
           /\ \A q \in logs' \ logs :
                 (q.serial = k /\ q.signal = s /\ q.status = "Up") => q.id[1] < d.id[1]
    BY <1>6
  <2>2. d.id[1] <= r.id[1]
    BY <1>5
  <2>3. r \notin logs
    BY <1>3, <1>4, <2>1, <2>2
  <2> QED
    BY <1>5, <2>1, <2>2, <2>3
<1>7. CASE <<k, s>> \notin D
  <2>1. r \in R /\ R \subseteq N
    BY <1>2, <1>5, <1>7
  <2>2. r \in LatestByTs(R)
    BY <1>2, <1>5, <2>1, LatestIdIsLatestTs DEF LatestById, IndInv
  <2>3. PICK l \in LatestOf(R, "Down") : l.status # "Up"
    BY <1>7 DEF ReadUp
  <2>4. \E q \in LatestByTs(R) : q.status # "Up"
    BY <2>3, <2>2 DEF LatestOf, LatestByTs
  <2> QED
    BY <1>5, <2>2, <2>4 DEF Agree
<1> QED
  BY <1>6, <1>7

\* So does a commit of the sets B that writes Down in the set a for what read Up,
\* and Up rows of the pair, if it read Up, only in earlier sets.
LEMMA SilencedInTurn ==
    ASSUME IndInv, NEW P, NEW D, ReadUp(P, D),
           NEW n \in Nat, NEW B \in [1..n -> SUBSET Entry], Len(B) = n, InsertInTurn(B),
           NEW a \in 1..n, DownRows(D) \subseteq B[a],
           NEW k \in SerialIds, NEW s \in Signals, <<k, s>> \in P, range' = range,
           \A i \in 1..n : \A e \in B[i] :
              (e.serial = k /\ e.signal = s /\ e.status = "Up") => <<k, s>> \in D /\ i < a,
           Agree(LatestByTs(Visible(k, s)))
    PROVE  ~WidgetUp(k, s)'
<1>1. /\ logs \subseteq logs'
      /\ \A r \in logs' \ logs : \E i \in 1..n : \E e \in B[i] :
            /\ r.id[1] = commit + i /\ r.signal = e.signal
            /\ r.serial = e.serial /\ r.status = e.status
      /\ \A i \in 1..n : \A e \in B[i] : \E r \in logs' :
            /\ r.id[1] = commit + i /\ r.signal = e.signal
            /\ r.serial = e.serial /\ r.status = e.status
            /\ ~r.deleted /\ r.testing = InTesting
  BY RowsInTurn DEF IndInv
<1>2. commit \in Nat
  BY DEF IndInv, TypeOK
<1>3. \A r \in logs' \ logs : r.id[1] \in Nat /\ commit < r.id[1]
  BY <1>1, <1>2
<1>4. \A r \in logs' \ logs : (r.serial = k /\ r.signal = s /\ r.status = "Up") =>
         <<k, s>> \in D /\ r.id[1] < commit + a
  BY <1>1, <1>2
<1>5. ASSUME <<k, s>> \in D
      PROVE  \E d \in logs' :
                 /\ d.signal = s /\ d.serial = k /\ ~d.deleted /\ d.testing = InTesting
                 /\ d.id[1] \in Nat /\ commit < d.id[1]
                 /\ \A r \in logs' \ logs :
                       (r.serial = k /\ r.signal = s /\ r.status = "Up") => r.id[1] < d.id[1]
  <2> DEFINE e == EntryFor(s, k, "Down")
  <2>1. e \in B[a] /\ e.signal = s /\ e.serial = k
    BY <1>5 DEF DownRows, EntryFor
  <2> HIDE DEF e
  <2>2. PICK d \in logs' : /\ d.id[1] = commit + a /\ d.signal = s /\ d.serial = k
                           /\ ~d.deleted /\ d.testing = InTesting
    BY <1>1, <2>1
  <2>3. d.id[1] \in Nat /\ commit < d.id[1]
    BY <1>2, <2>2
  <2> QED
    BY <1>4, <2>2, <2>3
<1> QED
  BY <1>1, <1>3, <1>4, <1>5, Silenced

\* And one set of entries, with nothing else for the pair.
LEMMA SilencedByInsert ==
    ASSUME IndInv, NEW P, NEW D, ReadUp(P, D),
           NEW E \in SUBSET Entry, Insert(E), DownRows(D) \subseteq E,
           NEW k \in SerialIds, NEW s \in Signals, <<k, s>> \in P, range' = range,
           \A e \in E : ~(e.serial = k /\ e.signal = s /\ e.status = "Up"),
           Agree(LatestByTs(Visible(k, s)))
    PROVE  ~WidgetUp(k, s)'
<1>1. CASE E = {}
  <2>1. logs' = logs
    BY <1>1 DEF Insert
  <2>2. <<k, s>> \notin D
    BY <1>1 DEF DownRows
  <2> QED
    BY <2>1, <2>2, Silenced
<1>2. CASE E # {}
  <2> DEFINE B == <<E>>
  <2>1. B \in [1..1 -> SUBSET Entry] /\ Len(B) = 1 /\ B[1] = E /\ \A i \in 1..1 : B[i] = E
    OBVIOUS
  <2>2. InsertInTurn(B)
    BY <1>2 DEF Insert
  <2> HIDE DEF B
  <2> DEFINE n == 1
             a == 1
  <2>3. \A i \in 1..n : \A e \in B[i] :
           (e.serial = k /\ e.signal = s /\ e.status = "Up") => <<k, s>> \in D /\ i < a
    BY <2>1
  <2>4. /\ n \in Nat /\ a \in 1..n /\ DownRows(D) \subseteq B[a]
        /\ B \in [1..n -> SUBSET Entry] /\ Len(B) = n
    BY <2>1
  <2> HIDE DEF n, a
  <2> QED
    <3>1. n \in Nat /\ B \in [1..n -> SUBSET Entry] /\ Len(B) = n /\ InsertInTurn(B)
      BY <2>2, <2>4
    <3>2. a \in 1..n /\ DownRows(D) \subseteq B[a]
      BY <2>4
    <3> QED
      BY <1>2, <2>3, <3>1, <3>2, SilencedInTurn, SMTT(60)
<1> QED
  BY <1>1, <1>2

\* Ending a serial silences it.
THEOREM EndingSilences == Spec => EndSilences
<1>1. ASSUME IndInv, Next
      PROVE  SilencesOnEnd
  <2> SUFFICES ASSUME NEW k \in SerialIds, NEW s \in Signals, Open(k),
                      serials'[k].closed, Agree(LatestByTs(Visible(k, s)))
               PROVE  ~WidgetUp(k, s)'
    BY DEF SilencesOnEnd
  <2>1. ~serials[k].closed /\ serials \in [SerialIds -> Serial]
    BY <1>1 DEF Open, IndInv, TypeOK
  <2>2. PICK K \in SUBSET SerialIds : SerialsEnd(K)
    <3>1. ASSUME serials' = serials
          PROVE  FALSE
      BY <2>1, <3>1
    <3>2. ASSUME NEW j, NEW x, serials' = [serials EXCEPT ![j] = x],
                 ~x.closed
          PROVE  FALSE
      BY <2>1, <3>2
    <3>3. ASSUME NEW j \in SerialIds, SerialCreate(j) \/ SerialDelete(j) \/
                 \E n \in SerialIds : SerialCopyToOther(n, j)
          PROVE  FALSE
      <4>1. \E x \in {Pending(InTesting), Pending(~InTesting), NoSerial} :
               serials' = [serials EXCEPT ![j] = x]
        BY <3>3 DEF SerialCreate, SerialDelete, SerialCopyToOther
      <4>2. \A x \in {Pending(InTesting), Pending(~InTesting), NoSerial} : ~x.closed
        BY DEF Pending, NoSerial
      <4> QED
        BY <3>2, <4>1, <4>2
    <3>4. ASSUME NEW j \in SerialIds, SerialStart(j)
          PROVE  FALSE
      BY <2>1, <3>4 DEF SerialStart, Serial
    <3>5. ~ArchiveDelete
      <4>1. ~NoSerial.closed
        BY DEF NoSerial
      <4> QED
        BY <3>2, <4>1 DEF ArchiveDelete
    <3>6. ~(LogNext \/ DashboardNext \/ StateNext \/ SyncNext)
      BY <3>1 DEF LogNext, LogCreate, LogUpdate, LogSoftDelete, LogRestore,
                  LogHardDelete, DashboardNext, BulkUpdate, SignalAdd,
                  SignalDelete, SignalCall, EditLogs, StateNext, ChangeState,
                  SyncNext, SyncStart, SyncItem,
                  SyncCommit, SyncFail, ModemFlip, Restart, SyncVars
    <3>7. ASSUME NEW j \in SerialIds, ArchiveRead(j)
          PROVE  FALSE
      BY <3>1, <3>7 DEF ArchiveRead
    <3> QED
      BY <1>1, <3>3, <3>4, <3>5, <3>6, <3>7 DEF Next, SerialNext
  <2>3. k \in K
    BY <2>1, <2>2 DEF SerialsEnd
  <2>4. PICK D \in SUBSET (K \X Signals) :
           ReadUp(K \X Signals, D) /\ Insert(DownRows(D))
    BY <2>2 DEF SerialsEnd
  <2>5. Fileable(DownRows(D))
    BY <1>1, <2>2, DownEntries DEF SerialsEnd, IndInv
  <2>6. \A e \in DownRows(D) : e.status = "Down"
    BY DEF DownRows, EntryFor
  <2>7. range' = range
    BY <2>2 DEF SerialsEnd, EditSerials
  <2> DEFINE E == DownRows(D)
             P == K \X Signals
  <2>8. <<k, s>> \in P
    BY <2>3
  <2>9. ReadUp(P, D) /\ E \in SUBSET Entry /\ Insert(E) /\ DownRows(D) \subseteq E
    BY <2>4, <2>5 DEF Fileable
  <2>10. \A e \in E : ~(e.serial = k /\ e.signal = s /\ e.status = "Up")
    BY <2>6
  <2> HIDE DEF E, P
  <2> QED
    BY <1>1, <2>7, <2>8, <2>9, <2>10, SilencedByInsert
<1>2. IndInv /\ [Next]_vars => [SilencesOnEnd]_vars
  BY <1>1
<1> QED
  BY <1>2, Invariance, PTL DEF Spec, EndSilences

\* A pair whose latest rows agree on Up is among those ReadUp finds.
LEMMA AgreedUp ==
    ASSUME NEW P, NEW D, ReadUp(P, D), NEW k, NEW t, <<k, t>> \in P,
           Agree(LatestByTs(Visible(k, t))),
           NEW r \in LatestByTs(Visible(k, t)), r.status = "Up"
    PROVE  <<k, t>> \in D
<1> DEFINE R == Visible(k, t)
<1>1. R # {}
  BY DEF LatestByTs
<1>2. PICK l \in LatestOf(R, "Down") : (l.status = "Up") = (<<k, t>> \in D)
  BY DEF ReadUp
<1>3. PICK q \in LatestByTs(R) : l.status = q.status
  BY <1>1, <1>2 DEF LatestOf
<1>4. (q.status = "Up") = (r.status = "Up")
  BY <1>3 DEF Agree
<1>5. l.status = "Up"
  BY <1>3, <1>4
<1> QED
  BY <1>2, <1>5

\* Adding a signal that is Up silences its siblings.
LEMMA AddSilences ==
    ASSUME IndInv, NEW k \in SerialIds, InScope(k), NEW s \in Group,
           SignalAdd(k, s, "Up"), NEW t \in Siblings(s), Agree(LatestByTs(Visible(k, t)))
    PROVE  ~WidgetUp(k, t)'
<1>1. Scoped(k) = k /\ s \in Signals /\ k \in SerialIds \cup {Null}
  BY SignalsAssumption DEF Scoped
<1>2. t \in Signals /\ t # s
  BY SignalsAssumption DEF Siblings
<1> DEFINE P == {k} \X Siblings(s)
           own == EntryFor(s, k, "Up")
<1>3. range' = range /\ \E D \in SUBSET P :
         ReadUp(P, D) /\ Insert(DownRows(D) \cup {own})
  BY <1>1 DEF SignalAdd, EditLogs
<1>4. PICK D \in SUBSET P : ReadUp(P, D) /\ Insert(DownRows(D) \cup {own})
  BY <1>3
<1>5. Fileable(DownRows(D))
  <2> DEFINE st == "Up"
  <2>1. D \in SUBSET (IF st = "Up" THEN {Scoped(k)} \X Siblings(s) ELSE {})
    BY <1>1
  <2> HIDE DEF P
  <2> QED
    BY <1>1, <2>1, DownFileable DEF IndInv
<1>6. Fileable({own})
  BY <1>1, CheckedEntry DEF IndInv, Statuses
<1> DEFINE E == DownRows(D) \cup {own}
<1>7. E \in SUBSET Entry
  BY <1>5, <1>6 DEF Fileable
<1>8. \A e \in E : ~(e.serial = k /\ e.signal = t /\ e.status = "Up")
  BY <1>2 DEF DownRows, EntryFor
<1>9. <<k, t>> \in P /\ DownRows(D) \subseteq E /\ Insert(E) /\ ReadUp(P, D)
  BY <1>4
<1> HIDE DEF E, P
<1> QED
  BY <1>2, <1>3, <1>7, <1>8, <1>9, SilencedByInsert

\* An update of a request that brings a signal Up silences its siblings, but for
\* those the same request brings Up again.
LEMMA UpdateSilences ==
    ASSUME IndInv, NEW k \in SerialIds, InScope(k), NEW us \in Requests, BulkUpdate(k, us),
           NEW i \in DOMAIN us, us[i].signal \in Group, us[i].status = "Up",
           NEW t \in Siblings(us[i].signal), ~UpAgain(us, i, t),
           Agree(LatestByTs(Visible(k, t)))
    PROVE  ~WidgetUp(k, t)'
<1>1. Scoped(k) = k /\ k \in SerialIds \cup {Null}
  BY DEF Scoped
<1>2. t \in Signals /\ range' = range
  BY SignalsAssumption DEF Siblings, BulkUpdate, EditLogs
<1>3. PICK n \in {1, 2} : \E B \in [1..(2 * n) -> SUBSET Entry] :
              /\ Len(B) = 2 * n /\ DOMAIN us = 1..n /\ InsertInTurn(B)
              /\ \A j \in 1..n : us[j] \in Update /\ UpdateRows(k, us[j], <<B[2*j - 1], B[2*j]>>)
  BY <1>1, RequestAdds
<1>4. PICK B \in [1..(2 * n) -> SUBSET Entry] :
              /\ Len(B) = 2 * n /\ DOMAIN us = 1..n /\ InsertInTurn(B)
              /\ \A j \in 1..n : us[j] \in Update /\ UpdateRows(k, us[j], <<B[2*j - 1], B[2*j]>>)
  BY <1>3
<1> DEFINE P == {k} \X Siblings(us[i].signal)
           m == 2 * n
           a == 2 * i - 1
<1>5. i \in 1..n /\ a \in 1..m /\ m \in Nat
  BY <1>4
<1>6. PICK D \in SUBSET P : ReadUp(P, D) /\ B[a] = DownRows(D)
  BY <1>1, <1>4, <1>5 DEF UpdateRows
<1>7. <<k, t>> \in P
  OBVIOUS
<1>8. ASSUME NEW x \in 1..m, NEW e \in B[x], e.serial = k, e.signal = t, e.status = "Up"
      PROVE  <<k, t>> \in D /\ x < a
  <2>1. PICK j \in 1..n : x = 2*j - 1 \/ x = 2*j
    OBVIOUS
  <2>2. UpdateRows(k, us[j], <<B[2*j - 1], B[2*j]>>)
    BY <1>4
  <2>3. x # 2*j - 1
    <3>1. ASSUME x = 2*j - 1
          PROVE  e.status = "Down"
      <4>1. PICK F : B[x] = DownRows(F)
        BY <2>2, <3>1 DEF UpdateRows
      <4> QED
        BY <4>1 DEF DownRows, EntryFor
    <3> QED
      BY <1>8, <3>1
  <2>4. \/ e.signal = us[j].signal /\ e.status = us[j].status
        \/ /\ e.signal \in us[j].moved
           /\ \E r \in LatestByTs(Visible(k, e.signal)) : r.status = e.status
    BY <1>1, <2>1, <2>2, <2>3 DEF UpdateRows
  <2>5. j \in DOMAIN us /\ ~(us[j].signal = t /\ us[j].status = "Up")
          /\ ~(i <= j /\ t \in us[j].moved)
    BY <1>4 DEF UpAgain
  <2>6. t \in us[j].moved /\ \E r \in LatestByTs(Visible(k, t)) : r.status = "Up"
    BY <1>8, <2>4, <2>5
  <2>7. <<k, t>> \in D
    BY <1>6, <1>7, <2>6, AgreedUp
  <2>8. x < a
    BY <1>5, <2>1, <2>3, <2>5, <2>6
  <2> QED
    BY <2>7, <2>8
<1>9. DownRows(D) \subseteq B[a] /\ B \in [1..m -> SUBSET Entry] /\ Len(B) = m
        /\ InsertInTurn(B) /\ ReadUp(P, D)
  BY <1>4, <1>6
<1>10. \A x \in 1..m : \A e \in B[x] :
          (e.serial = k /\ e.signal = t /\ e.status = "Up") => <<k, t>> \in D /\ x < a
  BY <1>8
<1> HIDE DEF P, m, a
<1> QED
  BY <1>2, <1>5, <1>7, <1>9, <1>10, SilencedInTurn, SMTT(30)

\* When the dashboard of a serial brings a signal of the group Up, a sibling that
\* reads Up there afterwards was brought Up by the same request, or had its modem
\* moved away in or after that update, or its rows of the last second disagree.
THEOREM UpIsExclusive == Spec => DashboardUpIsExclusive
<1>1. ASSUME IndInv
      PROVE  DownsSiblings
  <2> SUFFICES ASSUME NEW k \in SerialIds, NEW t \in Group, InScope(k),
                      WidgetUp(k, t)', Agree(LatestByTs(Visible(k, t)))
               PROVE  /\ \A s \in Siblings(t) : ~SignalAdd(k, s, "Up")
                      /\ \A us \in Requests : \A i \in DOMAIN us :
                            (/\ us[i].signal \in Siblings(t) /\ us[i].status = "Up"
                             /\ ~UpAgain(us, i, t)) => ~BulkUpdate(k, us)
    BY DEF DownsSiblings
  <2>1. \A s \in Siblings(t) : s \in Group /\ t \in Siblings(s)
    BY DEF Siblings
  <2>2. \A s \in Siblings(t) : ~SignalAdd(k, s, "Up")
    BY <1>1, <2>1, AddSilences
  <2>3. ASSUME NEW us \in Requests, NEW i \in DOMAIN us,
               us[i].signal \in Siblings(t), us[i].status = "Up", ~UpAgain(us, i, t)
        PROVE  ~BulkUpdate(k, us)
    BY <1>1, <2>1, <2>3, UpdateSilences
  <2> QED
    BY <2>2, <2>3
<1>2. IndInv => [DownsSiblings]_vars
  BY <1>1
<1> QED
  BY <1>2, Invariance, PTL DEF Spec, DashboardUpIsExclusive
=============================================================================
