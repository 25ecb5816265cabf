-------------------------- MODULE AuditChainProofs --------------------------
(***************************************************************************)
(* Proofs about AuditChain, for every set of background threads and every  *)
(* retention limit.  The argument: as long as one transaction at a time    *)
(* writes to a workspace, its rows carry the newest timestamps and chain   *)
(* onto the newest committed row, and retention removes the oldest rows.   *)
(***************************************************************************)
EXTENDS AuditChain, FiniteSetTheorems, TLAPS

\* Appending to a verifying chain a row later than its rows, chained onto the
\* last one, keeps it verifying.
LEMMA Appended ==
    ASSUME NEW R, \A r \in R : r.ts \in Nat, Verifies(R),
           \A p, q \in R : p.ts = q.ts => p = q,
           NEW n, n.ts \in Nat, n.hash = Hash(n.ts, n.testing, n.prev),
           \A r \in R : r.ts < n.ts,
           R # {} => \E r \in Latest(R) : n.prev = r.hash
    PROVE  Verifies(R \cup {n})
<1> SUFFICES ASSUME NEW r \in R \cup {n}
             PROVE  /\ r.hash = Hash(r.ts, r.testing, r.prev)
                    /\ \A p \in R \cup {n} :
                          Before(p, r, R \cup {n}) => r.prev = p.hash
  BY DEF Verifies
<1>1. CASE r \in R
  <2>1. \A p \in R \cup {n} : Before(p, r, R \cup {n}) => p \in R /\ Before(p, r, R)
    BY <1>1 DEF Before
  <2> QED
    BY <1>1, <2>1 DEF Verifies
<1>2. CASE r = n
  <2>1. ASSUME NEW p \in R \cup {n}, Before(p, n, R \cup {n})
        PROVE  n.prev = p.hash
    <3>1. p \in R
      BY <2>1 DEF Before
    <3>2. PICK l \in Latest(R) : n.prev = l.hash
      BY <3>1
    <3>3. l \in R /\ p.ts <= l.ts /\ ~(p.ts < l.ts)
      BY <2>1, <3>1, <3>2 DEF Before, Latest
    <3> QED
      BY <3>1, <3>2, <3>3
  <2> QED
    BY <1>2, <2>1
<1> QED
  BY <1>1, <1>2

\* Removing the oldest rows of a verifying chain keeps it verifying.
LEMMA Pruned ==
    ASSUME NEW R, Verifies(R), NEW D, \A r \in R : r.ts \in Nat,
           \A q \in D \cap R, p \in R : p.ts < q.ts => p \in D
    PROVE  Verifies(R \ D)
<1>1. \A p, r \in R \ D : Before(p, r, R \ D) => Before(p, r, R)
  BY DEF Before
<1> QED
  BY <1>1 DEF Verifies

\* Newer rows come last, so the rows behind the Keep newest are the oldest.
LEMMA OverdueOldest ==
    ASSUME TypeOK, NEW t \in BOOLEAN
    PROVE  /\ Overdue(t) \subseteq In(rows, t)
           /\ \A q \in Overdue(t), p \in In(rows, t) :
                 p.ts < q.ts => p \in Overdue(t)
<1> DEFINE R == In(rows, t)
           Newer(r) == {q \in R : r.ts < q.ts}
<1>1. /\ \A r \in R : r.ts \in Nat
      /\ IsFiniteSet(R)
  BY FS_Subset DEF TypeOK, Typed, In
<1>2. ASSUME NEW q \in Overdue(t), NEW p \in R, p.ts < q.ts
      PROVE  p \in Overdue(t)
  <2>1. q \in R /\ Cardinality(Newer(q)) >= Keep
    BY <1>2 DEF Overdue
  <2>2. Newer(q) \subseteq Newer(p)
    BY <1>1, <1>2, <2>1
  <2>3. IsFiniteSet(Newer(p))
    BY <1>1, FS_Subset
  <2>4. Cardinality(Newer(q)) <= Cardinality(Newer(p))
    BY <2>2, <2>3, FS_Subset
  <2>5. Cardinality(Newer(q)) \in Nat /\ Cardinality(Newer(p)) \in Nat
    BY <2>2, <2>3, FS_Subset, FS_CardinalityType
  <2>6. Cardinality(Newer(p)) >= Keep
    BY <2>1, <2>4, <2>5, KeepAssumption
  <2> QED
    BY <1>2, <2>6 DEF Overdue
<1> QED
  BY <1>2 DEF Overdue

LEMMA InitIndInv == Init => IndInv
<1> SUFFICES ASSUME Init
             PROVE  IndInv
  OBVIOUS
<1>1. IsFiniteSet({})
  BY FS_EmptySet
<1>2. TypeOK
  BY <1>1 DEF Init, TypeOK, Typed, NoJob
<1> QED
  BY <1>2 DEF Init, IndInv, VerifiesUnlessRaced, LinksToCommitted, NothingLost,
              Distinct, OneWriter, OwnContinues, OwnLinks, JobHoldsOldest,
              JobSaved, NoJob, In, Verifies

-----------------------------------------------------------------------------
(* Flush.                                                                  *)

\* The rows a flush signs.
LEMMA Flushed ==
    ASSUME IndInv, NEW w \in Writers, NEW t \in BOOLEAN, NEW two \in BOOLEAN,
           Flush(w, t, two)
    PROVE  \E first, second, N :
              /\ N = {first} \cup (IF two THEN {second} ELSE {})
              /\ own' = [own EXCEPT ![w] = @ \cup N]
              /\ first.ts = clock + 1 /\ second.ts = clock + 2
              /\ first.testing = t /\ second.testing = t
              /\ first.hash = Hash(first.ts, t, first.prev)
              /\ second.hash = Hash(second.ts, t, second.prev)
              /\ first.prev \in LatestHash(w, t)
              /\ second.prev = first.hash
<1>1. PICK prev \in LatestHash(w, t) :
         LET first == SignAuditRow(clock + 1, t, prev)
             second == SignAuditRow(clock + 2, t, first.hash)
         IN  own' = [own EXCEPT ![w] =
                        @ \cup {first} \cup IF two THEN {second} ELSE {}]
  BY DEF Flush
<1> DEFINE first == SignAuditRow(clock + 1, t, prev)
           second == SignAuditRow(clock + 2, t, first.hash)
           N == {first} \cup (IF two THEN {second} ELSE {})
<1>2. own' = [own EXCEPT ![w] = @ \cup N]
  BY <1>1
<1>3. /\ first.ts = clock + 1 /\ second.ts = clock + 2
      /\ first.testing = t /\ second.testing = t
      /\ first.hash = Hash(first.ts, t, first.prev)
      /\ second.hash = Hash(second.ts, t, second.prev)
      /\ first.prev = prev
      /\ second.prev = first.hash
  BY DEF SignAuditRow
<1>4. N = {first} \cup (IF two THEN {second} ELSE {})
  OBVIOUS
<1> HIDE DEF first, second, N
<1> QED
  BY <1>2, <1>3, <1>4

LEMMA FlushStep ==
    ASSUME IndInv, NEW w \in Writers, NEW t \in BOOLEAN, NEW two \in BOOLEAN,
           Flush(w, t, two)
    PROVE  IndInv'
<1> USE DEF IndInv
<1>1. PICK first, second, N :
         /\ N = {first} \cup (IF two THEN {second} ELSE {})
         /\ own' = [own EXCEPT ![w] = @ \cup N]
         /\ first.ts = clock + 1 /\ second.ts = clock + 2
         /\ first.testing = t /\ second.testing = t
         /\ first.hash = Hash(first.ts, t, first.prev)
         /\ second.hash = Hash(second.ts, t, second.prev)
         /\ first.prev \in LatestHash(w, t)
         /\ second.prev = first.hash
  BY Flushed
<1>2. /\ own'[w] = own[w] \cup N
      /\ \A v \in Writers \ {w} : own'[v] = own[v]
      /\ own' = [v \in Writers |-> own'[v]]
  BY <1>1 DEF TypeOK
<1>3. UNCHANGED <<rows, gone, files, job, lock>>
  BY DEF Flush
<1>4. /\ clock \in Nat /\ clock' \in Nat
      /\ clock' = clock + IF two THEN 2 ELSE 1
      /\ \A n \in N : n.ts \in (clock + 1)..clock' /\ n.testing = t
      /\ IsFiniteSet(N)
  <2>1. clock \in Nat /\ clock' = clock + IF two THEN 2 ELSE 1
    BY DEF Flush, TypeOK
  <2>2. \A n \in N : n.ts \in (clock + 1)..clock' /\ n.testing = t
    BY <1>1, <2>1
  <2>3. IsFiniteSet({first}) /\ IsFiniteSet({first, second})
    <3>1. IsFiniteSet({first}) /\ IsFiniteSet({first} \cup {second})
      BY FS_Singleton, FS_AddElement
    <3>2. {first, second} = {first} \cup {second}
      OBVIOUS
    <3> QED
      BY <3>1, <3>2
  <2>4. IsFiniteSet(N)
    <3>1. N = {first} \/ N = {first, second}
      BY <1>1
    <3> QED
      BY <2>3, <3>1
  <2> QED
    BY <2>1, <2>2, <2>4
<1>5. /\ raced' = [raced EXCEPT ![t] =
                    @ \/ \E v \in Writers \ {w} : In(own[v], t) # {}]
      /\ raced \in [BOOLEAN -> BOOLEAN] /\ raced' \in [BOOLEAN -> BOOLEAN]
      /\ \A u \in BOOLEAN : ~raced'[u] => ~raced[u]
      /\ ~raced'[t] => \A v \in Writers \ {w} : In(own[v], t) = {}
  BY DEF Flush, TypeOK
<1>6. TypeOK'
  <2>1. Typed(rows)' /\ Typed(gone)' /\ Typed(files)'
    BY <1>3, <1>4 DEF TypeOK, Typed
  <2>2. \A v \in Writers \ {w} : Typed(own[v])'
    BY <1>2, <1>4 DEF TypeOK, Typed
  <2>3. Typed(own[w])'
    <3>1. IsFiniteSet(own[w] \cup N)
      BY <1>4, FS_Union DEF TypeOK, Typed
    <3>2. \A r \in own[w] \cup N : r.ts \in 1..clock' /\ r.testing \in BOOLEAN
      BY <1>4 DEF TypeOK, Typed
    <3> QED
      BY <1>2, <3>1, <3>2 DEF Typed
  <2> QED
    BY <1>2, <1>3, <1>4, <1>5, <2>1, <2>2, <2>3 DEF TypeOK
<1>7. /\ \A r \in rows : r.ts \in Nat /\ r.ts <= clock
      /\ \A v \in Writers : \A r \in own[v] : r.ts \in Nat /\ r.ts <= clock
  BY <1>4 DEF TypeOK, Typed
<1>8. \A p, q \in N : p.ts = q.ts => p = q
  BY <1>1, <1>4
<1>9. Distinct'
  BY <1>2, <1>3, <1>4, <1>7, <1>8 DEF Distinct
<1>10. \A u \in BOOLEAN \ {t} : \A v \in Writers :
          /\ In(own[v], u)' = In(own[v], u)
          /\ In(rows \cup own[v], u)' = In(rows \cup own[v], u)
  BY <1>2, <1>3, <1>4 DEF In
<1>11. \A v \in Writers \ {w} :
          /\ In(own[v], t)' = In(own[v], t)
          /\ In(rows \cup own[v], t)' = In(rows \cup own[v], t)
  BY <1>2, <1>3 DEF In
<1>12. OneWriter'
  BY <1>5, <1>10, <1>11 DEF OneWriter
<1>13. OwnContinues'
  <2>1. ASSUME ~raced'[t]
        PROVE  /\ \A r \in In(own[w], t)', q \in In(rows, t)' : q.ts < r.ts
               /\ Verifies(In(rows \cup own[w], t))'
    <3> DEFINE R == In(rows \cup own[w], t)
    <3>1. In(rows \cup own[w], t)' = R \cup N /\ In(own[w], t)' = In(own[w], t) \cup N
      BY <1>2, <1>3, <1>4 DEF In
    <3>2. \A r \in In(own[w], t)', q \in In(rows, t)' : q.ts < r.ts
      <4>1. \A r \in In(own[w], t), q \in In(rows, t) : q.ts < r.ts
        BY <1>5, <2>1 DEF OwnContinues
      <4>2. \A r \in N, q \in In(rows, t) : q.ts < r.ts
        BY <1>4, <1>7 DEF In
      <4>3. In(rows, t)' = In(rows, t)
        BY <1>3
      <4> QED
        BY <3>1, <4>1, <4>2, <4>3
    <3>3. /\ Verifies(R)
          /\ \A r \in R : r.ts \in Nat /\ r.ts <= clock
          /\ \A p, q \in R : p.ts = q.ts => p = q
      BY <1>5, <1>7, <2>1 DEF OwnContinues, Distinct, In
    <3>4. R # {} => \E r \in Latest(R) : first.prev = r.hash
      BY <1>1 DEF LatestHash
    <3> HIDE DEF R
    <3>5. Verifies(R \cup {first})
      <4>1. first.ts \in Nat /\ \A r \in R : r.ts < first.ts
        BY <1>1, <1>4, <3>3
      <4> QED
        BY <1>1, <3>3, <3>4, <4>1, Appended
    <3>6. Verifies(R \cup {first} \cup {second})
      <4> DEFINE S == R \cup {first}
      <4>1. /\ \A r \in S : r.ts \in Nat /\ r.ts <= first.ts
            /\ \A p, q \in S : p.ts = q.ts => p = q
        BY <1>1, <1>4, <3>3
      <4>2. first \in Latest(S)
        BY <4>1 DEF Latest
      <4>3. second.ts \in Nat /\ \A r \in S : r.ts < second.ts
        BY <1>1, <1>4, <3>3
      <4>4. Verifies(S)
        BY <3>5
      <4> HIDE DEF S
      <4>5. Verifies(S \cup {second})
        BY <1>1, <4>1, <4>2, <4>3, <4>4, Appended
      <4> QED
        BY <4>5 DEF S
    <3>7. R \cup N = R \cup {first} \/ R \cup N = R \cup {first} \cup {second}
      BY <1>1
    <3> QED
      BY <3>1, <3>2, <3>5, <3>6, <3>7
  <2>2. In(rows, t)' = In(rows, t) /\ \A u \in BOOLEAN : In(rows, u)' = In(rows, u)
    BY <1>3
  <2>3. ASSUME NEW u \in BOOLEAN, ~raced'[u], NEW v \in Writers, u # t \/ v # w
        PROVE  /\ \A r \in In(own[v], u)', q \in In(rows, u)' : q.ts < r.ts
               /\ Verifies(In(rows \cup own[v], u))'
    BY <1>5, <1>10, <1>11, <2>2, <2>3 DEF OwnContinues
  <2> QED
    BY <2>1, <2>3 DEF OwnContinues
<1>14. VerifiesUnlessRaced' /\ LinksToCommitted' /\ NothingLost'
       /\ JobHoldsOldest' /\ JobSaved'
  <2>1. VerifiesUnlessRaced' /\ JobHoldsOldest'
    BY <1>3, <1>5 DEF VerifiesUnlessRaced, JobHoldsOldest, TypeOK
  <2> QED
    BY <1>3, <2>1 DEF LinksToCommitted, NothingLost, JobSaved
<1>15. OwnLinks'
  <2>1. \A r \in N : r.prev = None \/ \E q \in rows \cup own'[w] :
                                         q.hash = r.prev /\ q.testing = r.testing
    <3>1. first.prev = None \/ \E q \in rows \cup own[w] :
                                  q.hash = first.prev /\ q.testing = t
      BY <1>1 DEF LatestHash, Latest, In
    <3> QED
      BY <1>1, <1>2, <3>1
  <2> QED
    BY <1>2, <1>3, <2>1 DEF OwnLinks
<1> QED
  BY <1>6, <1>9, <1>12, <1>13, <1>14, <1>15

-----------------------------------------------------------------------------
(* The other steps.                                                        *)

\* A step that changes no committed row may drop transactions as a whole and
\* the retention under way.
LEMMA Dropped ==
    ASSUME IndInv, UNCHANGED <<rows, gone, files, clock, raced>>,
           own' = [v \in Writers |-> own'[v]],
           \A v \in Writers : own'[v] = own[v] \/ own'[v] = {},
           lock' \in Writers \cup {Nobody}, job' = job \/ job' = NoJob
    PROVE  IndInv'
<1> USE DEF IndInv
<1>1. TypeOK'
  <2>1. \A v \in Writers : Typed(own[v])'
    BY FS_EmptySet DEF TypeOK, Typed
  <2>2. job' \in [phase : {"idle", "read", "saved"}, testing : BOOLEAN,
                  rows : SUBSET rows']
    <3>1. CASE job' = job
      BY <3>1 DEF TypeOK
    <3>2. CASE job' = NoJob
      BY <3>2 DEF NoJob
    <3> QED
      BY <3>1, <3>2
  <2>3. Typed(rows)' /\ Typed(gone)' /\ Typed(files)'
    BY DEF TypeOK, Typed
  <2> QED
    BY <2>1, <2>2, <2>3 DEF TypeOK
<1>2. VerifiesUnlessRaced' /\ LinksToCommitted' /\ NothingLost'
  BY DEF VerifiesUnlessRaced, LinksToCommitted, NothingLost
<1>3. Distinct' /\ OneWriter' /\ OwnLinks'
  BY DEF Distinct, OneWriter, OwnLinks, In
<1>4. OwnContinues'
  <2> SUFFICES ASSUME NEW t \in BOOLEAN, ~raced[t], NEW w \in Writers
               PROVE  /\ \A r \in In(own[w], t)', q \in In(rows, t)' : q.ts < r.ts
                      /\ Verifies(In(rows \cup own[w], t))'
    BY DEF OwnContinues
  <2>1. CASE own'[w] = own[w]
    BY <2>1 DEF OwnContinues
  <2>2. CASE own'[w] = {}
    <3>1. In(rows \cup own[w], t)' = In(rows, t) /\ In(own[w], t)' = {}
      BY <2>2 DEF In
    <3> QED
      BY <3>1 DEF VerifiesUnlessRaced
  <2> QED
    BY <2>1, <2>2
<1>5. JobHoldsOldest' /\ JobSaved'
  BY DEF JobHoldsOldest, JobSaved, NoJob
<1> QED
  BY <1>1, <1>2, <1>3, <1>4, <1>5

LEMMA CommitStep ==
    ASSUME IndInv, NEW w \in Writers, Commit(w)
    PROVE  IndInv'
<1> USE DEF IndInv
<1>1. /\ rows' = rows \cup own[w]
      /\ own'[w] = {} /\ \A v \in Writers \ {w} : own'[v] = own[v]
      /\ own' = [v \in Writers |-> own'[v]]
      /\ lock' = Nobody
      /\ UNCHANGED <<clock, job, files, gone, raced>>
  BY DEF Commit, TypeOK
<1>2. TypeOK'
  <2>1. Typed(rows \cup own[w])
    BY FS_Union DEF TypeOK, Typed
  <2>2. \A v \in Writers : Typed(own[v])'
    BY <1>1, FS_EmptySet DEF TypeOK, Typed
  <2> QED
    BY <1>1, <2>1, <2>2 DEF TypeOK, Typed
<1>3. Distinct'
  BY <1>1 DEF Distinct
<1>4. OneWriter'
  BY <1>1 DEF OneWriter, In
<1>5. \A t \in BOOLEAN : In(rows, t)' = In(rows \cup own[w], t)
  BY <1>1 DEF In
<1>6. VerifiesUnlessRaced'
  BY <1>1, <1>5 DEF VerifiesUnlessRaced, OwnContinues
<1>7. OwnContinues'
  <2> SUFFICES ASSUME NEW t \in BOOLEAN, ~raced[t], NEW v \in Writers
               PROVE  /\ \A r \in In(own[v], t)', q \in In(rows, t)' : q.ts < r.ts
                      /\ Verifies(In(rows \cup own[v], t))'
    BY <1>1 DEF OwnContinues
  <2>1. CASE In(own[v], t)' = {}
    <3>1. In(rows \cup own[v], t)' = In(rows, t)'
      BY <2>1 DEF In
    <3> QED
      BY <1>6, <1>1, <2>1, <3>1 DEF VerifiesUnlessRaced
  <2>2. CASE In(own[v], t)' # {}
    <3>1. v # w /\ In(own[v], t)' = In(own[v], t)
      BY <1>1, <2>2 DEF In
    <3>2. In(own[w], t) = {}
      BY <2>2, <3>1 DEF OneWriter
    <3>3. In(rows, t)' = In(rows, t) /\ In(rows \cup own[v], t)' = In(rows \cup own[v], t)
      BY <1>1, <3>1, <3>2 DEF In
    <3> QED
      BY <3>1, <3>3 DEF OwnContinues
  <2> QED
    BY <2>1, <2>2
<1>8. LinksToCommitted' /\ NothingLost' /\ JobSaved'
  BY <1>1 DEF LinksToCommitted, NothingLost, JobSaved, OwnLinks
<1>9. OwnLinks'
  BY <1>1 DEF OwnLinks
<1>10. JobHoldsOldest'
  <2>1. job'.rows \subseteq In(rows, job.testing)'
    BY <1>1 DEF JobHoldsOldest, In
  <2>2. ASSUME ~raced[job.testing], NEW q \in job.rows,
               NEW p \in In(own[w], job.testing)
        PROVE  q.ts < p.ts
    BY <2>2 DEF OwnContinues, JobHoldsOldest, TypeOK
  <2>3. \A p \in rows \cup own[w] : p.ts \in Nat
    BY DEF TypeOK, Typed
  <2>4. \A q \in job.rows : q \in rows
    BY DEF TypeOK
  <2>5. ASSUME ~raced[job.testing], NEW q \in job.rows,
               NEW p \in In(rows, job.testing)', p.ts < q.ts
        PROVE  p \in job.rows
    <3>1. p \in In(rows, job.testing) \/ p \in In(own[w], job.testing)
      BY <1>1, <1>5, <2>5 DEF In
    <3>2. CASE p \in In(rows, job.testing)
      BY <2>5, <3>2 DEF JobHoldsOldest
    <3>3. CASE p \in In(own[w], job.testing)
      BY <2>2, <2>3, <2>4, <2>5, <3>3 DEF In
    <3> QED
      BY <3>1, <3>2, <3>3
  <2> QED
    BY <1>1, <2>1, <2>5 DEF JobHoldsOldest
<1> QED
  BY <1>2, <1>3, <1>4, <1>6, <1>7, <1>8, <1>9, <1>10

LEMMA ReadStep ==
    ASSUME IndInv, NEW t \in BOOLEAN, RetentionRead(t)
    PROVE  IndInv'
<1> USE DEF IndInv
<1>1. /\ job' = [phase |-> IF t THEN "saved" ELSE "read", testing |-> t,
                 rows |-> Overdue(t)]
      /\ UNCHANGED <<rows, own, lock, clock, files, gone, raced>>
  BY DEF RetentionRead
<1>2. /\ Overdue(t) \subseteq In(rows, t)
      /\ \A q \in Overdue(t), p \in In(rows, t) :
            p.ts < q.ts => p \in Overdue(t)
  BY OverdueOldest
<1>3. TypeOK'
  BY <1>1, <1>2 DEF TypeOK, Typed, In
<1>4. JobHoldsOldest' /\ JobSaved'
  BY <1>1, <1>2 DEF JobHoldsOldest, JobSaved
<1> QED
  BY <1>1, <1>3, <1>4 DEF VerifiesUnlessRaced, LinksToCommitted, NothingLost,
                          Distinct, OneWriter, OwnContinues, OwnLinks

LEMMA SaveStep ==
    ASSUME IndInv, RetentionSave
    PROVE  IndInv'
<1> USE DEF IndInv
<1>1. /\ files' = files \cup job.rows
      /\ job' = [job EXCEPT !.phase = "saved"]
      /\ UNCHANGED <<rows, own, lock, clock, gone, raced>>
  BY DEF RetentionSave
<1>2. TypeOK'
  <2>1. IsFiniteSet(job.rows)
    BY FS_Subset DEF TypeOK, Typed
  <2>2. Typed(files \cup job.rows)
    BY <2>1, FS_Union DEF TypeOK, Typed
  <2> QED
    BY <1>1, <2>2 DEF TypeOK, Typed
<1>3. JobHoldsOldest' /\ JobSaved' /\ NothingLost'
  BY <1>1 DEF JobHoldsOldest, JobSaved, NothingLost, TypeOK
<1> QED
  BY <1>1, <1>2, <1>3 DEF VerifiesUnlessRaced, LinksToCommitted, Distinct,
                          OneWriter, OwnContinues, OwnLinks

LEMMA DeleteStep ==
    ASSUME IndInv, RetentionDelete
    PROVE  IndInv'
<1> USE DEF IndInv
<1> DEFINE D == job.rows
<1>1. /\ job.phase = "saved"
      /\ rows' = rows \ D
      /\ gone' = gone \cup D
      /\ job' = NoJob
      /\ UNCHANGED <<own, lock, clock, files, raced>>
  BY DEF RetentionDelete
<1>2. D \subseteq rows /\ D \subseteq In(rows, job.testing)
  BY DEF JobHoldsOldest, TypeOK
<1>3. TypeOK'
  <2>1. IsFiniteSet(D) /\ IsFiniteSet(rows \ D)
    BY <1>2, FS_Subset DEF TypeOK, Typed
  <2>2. Typed(rows \ D)
    BY <2>1 DEF TypeOK, Typed
  <2>3. Typed(gone \cup D)
    BY <1>2, <2>1, FS_Union DEF TypeOK, Typed
  <2>4. job' \in [phase : {"idle", "read", "saved"}, testing : BOOLEAN,
                  rows : SUBSET rows']
    BY <1>1 DEF NoJob
  <2> QED
    BY <1>1, <2>2, <2>3, <2>4 DEF TypeOK, Typed
<1>4. ASSUME NEW t \in BOOLEAN, NEW S,
             Verifies(In(rows \cup S, t)), t = job.testing => ~raced[t],
             \A r \in In(rows \cup S, t) : r.ts \in Nat,
             \A r \in In(S, t), q \in In(rows, t) : q.ts < r.ts
      PROVE  Verifies(In(rows' \cup S, t))
  <2>1. CASE t # job.testing
    <3>1. In(rows' \cup S, t) = In(rows \cup S, t)
      BY <1>1, <1>2, <2>1 DEF In
    <3> QED
      BY <1>4, <3>1
  <2>2. CASE t = job.testing
    <3> DEFINE R == In(rows \cup S, t)
    <3>1. \A r \in In(S, t), q \in D : q.ts < r.ts /\ q \in R /\ r \in R
      BY <1>2, <1>4, <2>2 DEF In
    <3>2. \A r \in R : r.ts \in Nat
      BY <1>4
    <3>3. In(rows' \cup S, t) = R \ D
      BY <1>1, <3>1, <3>2 DEF In
    <3>4. ASSUME NEW q \in D \cap R, NEW p \in R, p.ts < q.ts
          PROVE  p \in D
      <4>1. p \in In(rows, t)
        BY <3>1, <3>2, <3>4 DEF In
      <4> QED
        BY <1>4, <2>2, <3>4, <4>1 DEF JobHoldsOldest
    <3>5. Verifies(R)
      BY <1>4
    <3> HIDE DEF R, D
    <3>6. Verifies(R \ D)
      BY <3>2, <3>4, <3>5, Pruned
    <3> QED
      BY <3>3, <3>6
  <2> QED
    BY <2>1, <2>2
<1>5. \A r \in rows : r.ts \in Nat
  BY DEF TypeOK, Typed
<1>6. VerifiesUnlessRaced'
  <2> SUFFICES ASSUME NEW t \in BOOLEAN, ~raced[t]
               PROVE  Verifies(In(rows, t))'
    BY <1>1 DEF VerifiesUnlessRaced
  <2>1. Verifies(In(rows \cup {}, t)) /\ In({}, t) = {}
        /\ \A r \in In(rows \cup {}, t) : r.ts \in Nat
    BY <1>5 DEF VerifiesUnlessRaced, In
  <2>2. Verifies(In(rows' \cup {}, t))
    BY <1>4, <2>1
  <2> QED
    BY <2>2
<1>7. OwnContinues'
  <2> SUFFICES ASSUME NEW t \in BOOLEAN, ~raced[t], NEW w \in Writers
               PROVE  /\ \A r \in In(own[w], t)', q \in In(rows, t)' : q.ts < r.ts
                      /\ Verifies(In(rows \cup own[w], t))'
    BY <1>1 DEF OwnContinues
  <2>1. /\ Verifies(In(rows \cup own[w], t))
        /\ \A r \in In(own[w], t), q \in In(rows, t) : q.ts < r.ts
    BY DEF OwnContinues
  <2>2. \A r \in In(rows \cup own[w], t) : r.ts \in Nat
    BY DEF TypeOK, Typed, In
  <2>3. Verifies(In(rows' \cup own[w], t))
    BY <1>4, <2>1, <2>2
  <2> QED
    BY <1>1, <2>1, <2>3 DEF In
<1>8. LinksToCommitted' /\ OwnLinks' /\ Distinct' /\ OneWriter'
  BY <1>1 DEF LinksToCommitted, OwnLinks, Distinct, OneWriter, In
<1>9. NothingLost'
  BY <1>1, <1>2 DEF NothingLost, JobSaved, In
<1>10. JobHoldsOldest' /\ JobSaved'
  BY <1>1 DEF JobHoldsOldest, JobSaved, NoJob
<1> QED
  BY <1>3, <1>6, <1>7, <1>8, <1>9, <1>10

-----------------------------------------------------------------------------
(* The theorems.                                                           *)

LEMMA Inductive == IndInv /\ [Next]_vars => IndInv'
<1> SUFFICES ASSUME IndInv, [Next]_vars
             PROVE  IndInv'
  OBVIOUS
<1>1. own = [v \in Writers |-> own[v]] /\ lock \in Writers \cup {Nobody}
  BY DEF IndInv, TypeOK
<1>2. ASSUME NEW w \in Writers, Acquire(w) \/ Rollback(w)
      PROVE  IndInv'
  <2>1. /\ UNCHANGED <<rows, gone, files, clock, raced, job>>
        /\ lock' \in Writers \cup {Nobody}
        /\ own' = [v \in Writers |-> own'[v]]
        /\ \A v \in Writers : own'[v] = own[v] \/ own'[v] = {}
    BY <1>1, <1>2 DEF Acquire, Rollback
  <2> QED
    BY <2>1, Dropped
<1>3. CASE RetentionFail
  BY <1>1, <1>3, Dropped DEF RetentionFail
<1>4. CASE Crash
  <2>1. /\ UNCHANGED <<rows, gone, files, clock, raced>>
        /\ job' = NoJob /\ lock' \in Writers \cup {Nobody}
        /\ own' = [v \in Writers |-> own'[v]]
        /\ \A v \in Writers : own'[v] = {}
    BY <1>4 DEF Crash
  <2> QED
    BY <2>1, Dropped
<1>5. CASE UNCHANGED vars
  BY <1>1, <1>5, Dropped DEF vars
<1> QED
  BY <1>2, <1>3, <1>4, <1>5, FlushStep, CommitStep, ReadStep, SaveStep,
     DeleteStep DEF Next

\* In every reachable state the conjunction of the invariants holds.
THEOREM Invariance == Spec => []IndInv
BY InitIndInv, Inductive, PTL DEF Spec

\* Rows, transactions and the spreadsheets keep their shape.
THEOREM TypeCorrect == Spec => []TypeOK
BY Invariance, PTL DEF IndInv

\* The chain of a workspace verifies unless two of its transactions overlapped.
THEOREM ChainHolds == Spec => []VerifiesUnlessRaced
BY Invariance, PTL DEF IndInv

\* No row chains onto one that was rolled back or is of the other workspace.
THEOREM LinksHold == Spec => []LinksToCommitted
BY Invariance, PTL DEF IndInv

\* Retention deletes no Live row that no spreadsheet holds.
THEOREM ArchiveHolds == Spec => []NothingLost
BY Invariance, PTL DEF IndInv

-----------------------------------------------------------------------------
(* Retention and chains that raced.  Where transactions overlapped, rows   *)
(* may be committed that are older than those the retention has read.  A   *)
(* chain that verifies all the same is safe because a row was signed only  *)
(* after the one it chains onto could be seen.                             *)

\* Every row carries the hash of its own fields.
Signed ==
    \A w \in Writers : \A r \in rows \cup gone \cup own[w] :
        r.hash = Hash(r.ts, r.testing, r.prev)

\* What a transaction holds is in no other place.
Apart ==
    \A v, w \in Writers : \A p \in own[w] :
        /\ \A q \in rows \cup gone : q.ts # p.ts
        /\ v # w => \A q \in own[v] : q.ts # p.ts

\* A row chains onto an older one, and a committed row onto a committed one.
Traced ==
    /\ \A r \in rows : r.prev = None \/
          \E q \in rows \cup gone : q.hash = r.prev /\ q.ts < r.ts
    /\ \A w \in Writers : \A r \in own[w] : r.prev = None \/
          \E q \in rows \cup gone \cup own[w] : q.hash = r.prev /\ q.ts < r.ts

\* No row the retention holds chains onto one it leaves.
JobUnlinked ==
    \A q \in job.rows, p \in In(rows, job.testing) : q.prev = p.hash => p \in job.rows

LinkInv == Signed /\ Apart /\ Traced /\ JobUnlinked

\* The rows of a flush chain onto what its session sees, which is older.
LEMMA LinkFlush ==
    ASSUME IndInv, LinkInv, NEW w \in Writers, NEW t \in BOOLEAN, NEW two \in BOOLEAN,
           Flush(w, t, two)
    PROVE  LinkInv'
<1> USE DEF IndInv, LinkInv
<1>1. PICK first, second, N :
         /\ N = {first} \cup (IF two THEN {second} ELSE {})
         /\ own' = [own EXCEPT ![w] = @ \cup N]
         /\ first.ts = clock + 1 /\ second.ts = clock + 2
         /\ first.testing = t /\ second.testing = t
         /\ first.hash = Hash(first.ts, t, first.prev)
         /\ second.hash = Hash(second.ts, t, second.prev)
         /\ first.prev \in LatestHash(w, t)
         /\ second.prev = first.hash
  BY Flushed
<1>2. /\ own'[w] = own[w] \cup N
      /\ \A v \in Writers \ {w} : own'[v] = own[v]
  BY <1>1 DEF TypeOK
<1>3. UNCHANGED <<rows, gone, job>>
  BY DEF Flush
<1>4. /\ clock \in Nat
      /\ \A r \in rows \cup gone : r.ts \in Nat /\ r.ts <= clock
      /\ \A v \in Writers : \A r \in own[v] : r.ts \in Nat /\ r.ts <= clock
  BY DEF TypeOK, Typed
<1>5. \A n \in N : n.ts > clock
  BY <1>1, <1>4
<1>6. Signed'
  BY <1>1, <1>2, <1>3 DEF Signed
<1>7. Apart'
  BY <1>2, <1>3, <1>4, <1>5 DEF Apart
<1>8. Traced'
  <2>1. first.prev = None \/ \E q \in rows \cup own[w] : q.hash = first.prev /\ q.ts < first.ts
    BY <1>1, <1>4 DEF LatestHash, Latest, In
  <2>2. second.prev = first.hash /\ first.ts < second.ts /\ first \in N
    BY <1>1, <1>4
  <2>3. \A r \in N : r = first \/ r = second
    BY <1>1
  <2>4. \A r \in own'[w] : r.prev = None \/
          \E q \in rows' \cup gone' \cup own'[w] : q.hash = r.prev /\ q.ts < r.ts
    BY <1>2, <1>3, <2>1, <2>2, <2>3 DEF Traced
  <2> QED
    BY <1>2, <1>3, <2>4 DEF Traced
<1>9. JobUnlinked'
  BY <1>3 DEF JobUnlinked
<1> QED
  BY <1>6, <1>7, <1>8, <1>9

\* The rows of a transaction that ends are committed as a whole; what the
\* retention holds was committed before and cannot chain onto them.
LEMMA LinkCommit ==
    ASSUME IndInv, LinkInv, NEW w \in Writers, Commit(w)
    PROVE  LinkInv'
<1> USE DEF IndInv, LinkInv
<1>1. /\ rows' = rows \cup own[w]
      /\ own'[w] = {} /\ \A v \in Writers \ {w} : own'[v] = own[v]
      /\ UNCHANGED <<job, gone>>
  BY DEF Commit, TypeOK
<1>2. Signed' /\ Apart' /\ Traced'
  BY <1>1 DEF Signed, Apart, Traced
<1>3. JobUnlinked'
  <2> SUFFICES ASSUME NEW q \in job.rows, NEW p \in In(rows, job.testing)',
                      q.prev = p.hash
               PROVE  p \in job.rows
    BY <1>1 DEF JobUnlinked
  <2>1. q \in rows
    BY DEF TypeOK
  <2>2. CASE p \in rows
    BY <1>1, <2>2 DEF JobUnlinked, In
  <2>3. CASE p \in own[w]
    <3>1. p.hash = <<p.ts, p.testing, p.prev>>
      BY <2>3 DEF Signed, Hash
    <3>2. q.prev # None
      BY <3>1 DEF None
    <3>3. PICK o \in rows \cup gone : o.hash = q.prev
      BY <2>1, <3>2 DEF Traced
    <3>4. o.hash = <<o.ts, o.testing, o.prev>>
      BY <3>3 DEF Signed, Hash, Writers
    <3>5. o.ts = p.ts
      BY <3>1, <3>3, <3>4
    <3> QED
      BY <2>3, <3>3, <3>5 DEF Apart
  <2> QED
    <3>1. p \in rows \cup own[w]
      BY <1>1 DEF In
    <3> QED
      BY <2>2, <2>3, <3>1
<1> QED
  BY <1>2, <1>3

\* The overdue rows are the oldest, so what they chain onto is overdue too.
LEMMA LinkRead ==
    ASSUME IndInv, LinkInv, NEW t \in BOOLEAN, RetentionRead(t)
    PROVE  LinkInv'
<1> USE DEF IndInv, LinkInv
<1>1. /\ job' = [phase |-> IF t THEN "saved" ELSE "read", testing |-> t,
                 rows |-> Overdue(t)]
      /\ UNCHANGED <<rows, own, gone>>
  BY DEF RetentionRead
<1>2. JobUnlinked'
  <2> SUFFICES ASSUME NEW q \in Overdue(t), NEW p \in In(rows, t), q.prev = p.hash
               PROVE  p \in Overdue(t)
    BY <1>1 DEF JobUnlinked
  <2>1. q \in rows /\ p \in rows
    BY OverdueOldest DEF In
  <2>2. p.hash = <<p.ts, p.testing, p.prev>>
    BY <2>1 DEF Signed, Hash, Writers
  <2>3. q.prev # None
    BY <2>2 DEF None
  <2>4. PICK o \in rows \cup gone : o.hash = q.prev /\ o.ts < q.ts
    BY <2>1, <2>3 DEF Traced
  <2>5. o.hash = <<o.ts, o.testing, o.prev>>
    BY <2>4 DEF Signed, Hash, Writers
  <2>6. p.ts < q.ts
    BY <2>2, <2>4, <2>5
  <2> QED
    BY <2>6, OverdueOldest
<1>3. Signed' /\ Apart' /\ Traced'
  BY <1>1 DEF Signed, Apart, Traced
<1> QED
  BY <1>2, <1>3

\* Every step keeps the links.
LEMMA LinkInductive == IndInv /\ LinkInv /\ [Next]_vars => LinkInv'
<1> SUFFICES ASSUME IndInv, LinkInv, [Next]_vars
             PROVE  LinkInv'
  OBVIOUS
<1> USE DEF LinkInv
<1>1. ASSUME UNCHANGED <<rows, gone>>,
             \/ job' = NoJob
             \/ job'.rows = job.rows /\ job'.testing = job.testing,
             \A w \in Writers : own'[w] = own[w] \/ own'[w] = {}
      PROVE  LinkInv'
  <2>1. Signed' /\ Apart' /\ Traced'
    BY <1>1 DEF Signed, Apart, Traced
  <2>2. JobUnlinked'
    BY <1>1 DEF JobUnlinked, NoJob
  <2> QED
    BY <2>1, <2>2
<1>2. ASSUME NEW w \in Writers, Acquire(w) \/ Rollback(w)
      PROVE  LinkInv'
  <2>1. UNCHANGED <<rows, gone, job>> /\ \A v \in Writers : own'[v] = own[v] \/ own'[v] = {}
    BY <1>2 DEF Acquire, Rollback, IndInv, TypeOK
  <2> QED
    BY <1>1, <2>1
<1>3. CASE RetentionFail \/ RetentionSave
  <2>1. UNCHANGED <<rows, gone, own>>
    BY <1>3 DEF RetentionFail, RetentionSave
  <2>2. \/ job' = NoJob
        \/ job'.rows = job.rows /\ job'.testing = job.testing
    BY <1>3 DEF RetentionFail, RetentionSave, IndInv, TypeOK
  <2> QED
    BY <1>1, <2>1, <2>2
<1>4. CASE Crash
  BY <1>1, <1>4 DEF Crash
<1>5. CASE UNCHANGED vars
  BY <1>1, <1>5 DEF vars
<1>6. CASE RetentionDelete
  <2>1. /\ rows' = rows \ job.rows /\ gone' = gone \cup job.rows
        /\ job' = NoJob /\ own' = own /\ job.rows \subseteq rows
    BY <1>6 DEF RetentionDelete, IndInv, TypeOK
  <2>2. rows' \cup gone' = rows \cup gone
    BY <2>1
  <2>3. Signed'
    BY <2>1, <2>2 DEF Signed
  <2>4. Apart' /\ Traced'
    BY <2>1, <2>2 DEF Apart, Traced
  <2>5. JobUnlinked'
    BY <2>1 DEF JobUnlinked, NoJob
  <2> QED
    BY <2>3, <2>4, <2>5
<1> QED
  BY <1>2, <1>3, <1>4, <1>5, <1>6, LinkFlush, LinkCommit, LinkRead DEF Next

\* A set of naturals that is not empty has a least element: otherwise its
\* initial segments would shrink for ever.
LEMMA LeastExists ==
    ASSUME NEW S \in SUBSET Nat, S # {}
    PROVE  \E x \in S : \A y \in S : x <= y
<1> DEFINE Segments == {0..x : x \in S}
<1>1. Segments \subseteq FiniteSubsetsOf(Nat) /\ Segments # {}
  <2>1. \A x \in S : IsFiniteSet(0..x) /\ 0..x \subseteq Nat
    BY FS_Interval
  <2> QED
    BY <2>1 DEF FiniteSubsetsOf
<1>2. PICK s \in Segments : \A r \in Segments : <<r, s>> \notin StrictSubsetOrdering(Nat)
  <2> HIDE DEF Segments
  <2> QED
    BY <1>1, FS_StrictSubsetOrderingWellFounded, WFMin
<1>3. PICK x \in S : s = 0..x
  OBVIOUS
<1>4. ASSUME NEW y \in S, y < x
      PROVE  FALSE
  <2>1. 0..y \subseteq 0..x /\ 0..y # 0..x
    BY <1>4
  <2>2. <<0..y, 0..x>> \in StrictSubsetOrdering(Nat)
    BY <2>1 DEF StrictSubsetOrdering
  <2> QED
    BY <1>2, <1>3, <2>2
<1> QED
  BY <1>4

\* Rows may be taken out of a verifying chain if none of them chains onto a
\* row that stays: then those that go are the oldest.
LEMMA PrunedUnlinked ==
    ASSUME NEW R, Verifies(R), NEW D, \A r \in R : r.ts \in Nat,
           \A q \in D \cap R, p \in R : q.prev = p.hash => p \in D
    PROVE  Verifies(R \ D)
<1> SUFFICES ASSUME NEW p \in R \ D, NEW r \in R \ D, Before(p, r, R \ D)
             PROVE  r.prev = p.hash
  BY DEF Verifies
<1>1. p.ts < r.ts
  BY DEF Before
<1>2. CASE Before(p, r, R)
  BY <1>2 DEF Verifies
<1>3. CASE ~Before(p, r, R)
  <2> DEFINE Later == {q.ts : q \in {x \in R : p.ts < x.ts /\ x.ts < r.ts}}
  <2>1. Later \in SUBSET Nat /\ Later # {}
    BY <1>1, <1>3 DEF Before
  <2>2. PICK n \in Later : \A m \in Later : n <= m
    <3> HIDE DEF Later
    <3> QED
      BY <2>1, LeastExists
  <2>3. PICK q \in R : q.ts = n /\ p.ts < q.ts /\ q.ts < r.ts
    OBVIOUS
  <2>4. q \in D
    BY <2>3 DEF Before
  <2>5. Before(p, q, R)
    <3> SUFFICES ASSUME NEW x \in R, p.ts < x.ts, x.ts < q.ts
                 PROVE  FALSE
      BY <2>3 DEF Before
    <3>1. x.ts \in Later
      BY <2>3
    <3> QED
      BY <2>2, <2>3, <3>1
  <2>6. q.prev = p.hash
    BY <2>5 DEF Verifies
  <2> QED
    BY <2>4, <2>6
<1> QED
  BY <1>2, <1>3

\* Where the retention works in order, and where transactions raced, it never
\* breaks a chain that verified.
THEOREM RetentionIsSafe == Spec => RetentionKeepsVerifying
<1> DEFINE Kept == RetentionDelete => \A t \in BOOLEAN :
                      Verifies(In(rows, t)) => Verifies(In(rows', t))
<1>1. Init => LinkInv
  BY DEF Init, LinkInv, Signed, Apart, Traced, JobUnlinked, NoJob
<1>2. IndInv /\ LinkInv /\ [Next]_vars => [Kept]_vars
  <2> SUFFICES ASSUME IndInv, LinkInv, RetentionDelete, NEW t \in BOOLEAN,
                      Verifies(In(rows, t))
               PROVE  Verifies(In(rows', t))
    BY DEF Kept
  <2>1. rows' = rows \ job.rows /\ job.rows \subseteq In(rows, job.testing)
    BY DEF RetentionDelete, IndInv, JobHoldsOldest
  <2>2. CASE t # job.testing
    <3>1. In(rows', t) = In(rows, t)
      BY <2>1, <2>2 DEF In
    <3> QED
      BY <3>1
  <2>3. CASE t = job.testing
    <3>1. In(rows', t) = In(rows, t) \ job.rows
      BY <2>1 DEF In
    <3>2. \A r \in In(rows, t) : r.ts \in Nat
      BY DEF IndInv, TypeOK, Typed, In
    <3>3. \A q \in job.rows \cap In(rows, t), p \in In(rows, t) :
            q.prev = p.hash => p \in job.rows
      BY <2>3 DEF LinkInv, JobUnlinked
    <3>4. Verifies(In(rows, t) \ job.rows)
      BY <3>2, <3>3, PrunedUnlinked
    <3> QED
      BY <3>1, <3>4
  <2> QED
    BY <2>2, <2>3
<1>3. RetentionKeepsVerifying <=> [][Kept]_vars
  BY DEF RetentionKeepsVerifying
<1> HIDE DEF Kept
<1> QED
  BY <1>1, <1>2, <1>3, Invariance, LinkInductive, PTL DEF Spec
=============================================================================
