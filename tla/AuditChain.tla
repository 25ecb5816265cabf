----------------------------- MODULE AuditChain -----------------------------
(***************************************************************************)
(* The audit log: rows signed into a hash chain per workspace, and the     *)
(* retention that moves old rows to spreadsheets.                          *)
(*                                                                         *)
(* Every flush of a database session signs the new audit rows: the hook    *)
(* reads the latest signed row of the workspace and chains onto it.  The   *)
(* read is not part of the write transaction, which begins with the first  *)
(* INSERT and holds SQLite's write lock until the commit.  Handlers share  *)
(* one thread, the event loop; the CBM sync and the SNMP poll run on       *)
(* threads of their own with sessions of their own.                        *)
(*                                                                         *)
(* Timestamps have microseconds and the hook computes an HMAC between two  *)
(* of them: they never tie, and they order the rows as ids would.  The     *)
(* clock does not step back.  A row stands for its content by timestamp.   *)
(***************************************************************************)
EXTENDS Integers, FiniteSets

CONSTANTS
    Threads,    \* the background threads that write audit rows
    Keep,       \* audit_live_record_limit
    MaxClock    \* bound: audit rows signed

ASSUME KeepAssumption == Keep \in Nat \ {0}

ASSUME BoundAssumption == MaxClock \in Nat

Loop == "loop"                    \* the event loop, as a writer
Writers == Threads \cup {Loop}
Nobody == "nobody"

ASSUME ThreadsAssumption == Loop \notin Threads /\ Nobody \notin Writers

VARIABLES
    rows,       \* the committed AuditLog rows
    own,        \* own[w]: rows flushed by the open transaction of w
    lock,       \* who holds the write lock of the database
    clock,      \* utcnow
    job,        \* the retention a handler is running, and the rows it read
    files,      \* the rows saved in archive spreadsheets
    gone,       \* history: rows deleted by retention
    raced       \* history: raced[t]: two transactions of workspace t overlapped

vars == <<rows, own, lock, clock, job, files, gone, raced>>

-----------------------------------------------------------------------------
(* Signing and verifying (audit_integrity.py, models.py).                  *)

None == <<>>                      \* a NULL previous_hash

\* The HMAC: equal for equal rows that chain onto equal hashes only.
Hash(ts, t, prev) == <<ts, t, prev>>

SignAuditRow(ts, t, prev) ==
    [ts |-> ts, testing |-> t, prev |-> prev, hash |-> Hash(ts, t, prev)]

In(R, t) == {r \in R : r.testing = t}

Latest(R) == {r \in R : \A q \in R : q.ts <= r.ts}

\* Faulty: the latest row of either workspace.
LatestHashAnyScope(w, t) ==
    LET seen == rows \cup own[w]
    IN  IF seen = {} THEN {None} ELSE {r.hash : r \in Latest(seen)}

\* The hash a flush of writer w chains onto: its session sees the committed
\* rows and the rows it has flushed itself.
LatestHash(w, t) ==
    LET seen == In(rows \cup own[w], t)
    IN  IF seen = {} THEN {None} ELSE {r.hash : r \in Latest(seen)}

Before(p, r, R) == p.ts < r.ts /\ \A q \in R : ~(p.ts < q.ts /\ q.ts < r.ts)

\* verify_audit_rows counts nothing broken: every hash is the one computed, and
\* every row but the first chains onto the row before it.
Verifies(R) ==
    \A r \in R : /\ r.hash = Hash(r.ts, r.testing, r.prev)
                 /\ \A p \in R : Before(p, r, R) => r.prev = p.hash

-----------------------------------------------------------------------------
(* Transactions.                                                           *)

NoJob == [phase |-> "idle", testing |-> FALSE, rows |-> {}]

\* A handler writes only while none runs the retention.
LoopFree(w) == w = Loop => job.phase = "idle"

\* Faulty: both rows of a flush chain onto the same one.
FlushUnchained(w, t, two) ==
    /\ clock + (IF two THEN 2 ELSE 1) <= MaxClock
    /\ LoopFree(w)
    /\ own[w] = {} \/ lock = w
    /\ \E prev \in LatestHash(w, t) :
          own' = [own EXCEPT ![w] =
                     @ \cup {SignAuditRow(clock + 1, t, prev)}
                       \cup IF two THEN {SignAuditRow(clock + 2, t, prev)} ELSE {}]
    /\ clock' = clock + IF two THEN 2 ELSE 1
    /\ raced' = [raced EXCEPT ![t] =
                    @ \/ \E v \in Writers \ {w} : In(own[v], t) # {}]
    /\ UNCHANGED <<rows, lock, job, files, gone>>

\* A flush of two rows or one: the second chains onto the first.  Later flushes
\* of a transaction run under the lock.
Flush(w, t, two) ==
    /\ clock + (IF two THEN 2 ELSE 1) <= MaxClock
    /\ LoopFree(w)
    /\ own[w] = {} \/ lock = w
    /\ \E prev \in LatestHash(w, t) :
          LET first == SignAuditRow(clock + 1, t, prev)
              second == SignAuditRow(clock + 2, t, first.hash)
          IN  own' = [own EXCEPT ![w] =
                         @ \cup {first} \cup IF two THEN {second} ELSE {}]
    /\ clock' = clock + IF two THEN 2 ELSE 1
    /\ raced' = [raced EXCEPT ![t] =
                    @ \/ \E v \in Writers \ {w} : In(own[v], t) # {}]
    /\ UNCHANGED <<rows, lock, job, files, gone>>

\* The first INSERT begins the transaction; it waits while another is open.
Acquire(w) ==
    /\ own[w] # {}
    /\ lock = Nobody
    /\ lock' = w
    /\ UNCHANGED <<rows, own, clock, job, files, gone, raced>>

Commit(w) ==
    /\ own[w] # {}
    /\ lock = w
    /\ rows' = rows \cup own[w]
    /\ own' = [own EXCEPT ![w] = {}]
    /\ lock' = Nobody
    /\ UNCHANGED <<clock, job, files, gone, raced>>

\* An exception, or busy_timeout passes: the session is closed uncommitted.
Rollback(w) ==
    /\ own[w] # {}
    /\ own' = [own EXCEPT ![w] = {}]
    /\ lock' = IF lock = w THEN Nobody ELSE lock
    /\ UNCHANGED <<rows, clock, job, files, gone, raced>>

-----------------------------------------------------------------------------
(* Retention (audit_archive.py), run by the handler of the audit page.     *)

\* Faulty: the first of the overdue rows instead of all of them.
OverdueFirst(t) ==
    {r \in In(rows, t) : Cardinality({q \in In(rows, t) : r.ts < q.ts}) = Keep}

\* The rows of workspace t behind the Keep newest.
Overdue(t) ==
    {r \in In(rows, t) : Cardinality({q \in In(rows, t) : r.ts < q.ts}) >= Keep}

RetentionRead(t) ==
    /\ job.phase = "idle" /\ own[Loop] = {}
    /\ Overdue(t) # {}
    /\ job' = [phase |-> IF t THEN "saved" ELSE "read", testing |-> t,
               rows |-> Overdue(t)]
    /\ UNCHANGED <<rows, own, lock, clock, files, gone, raced>>

\* Live rows are saved to a spreadsheet first; Testing rows are pruned.
RetentionSave ==
    /\ job.phase = "read"
    /\ files' = files \cup job.rows
    /\ job' = [job EXCEPT !.phase = "saved"]
    /\ UNCHANGED <<rows, own, lock, clock, gone, raced>>

\* Faulty: deletes what may not be saved yet.
RetentionDeleteEarly ==
    /\ job.phase # "idle"
    /\ lock = Nobody
    /\ rows' = rows \ job.rows
    /\ gone' = gone \cup job.rows
    /\ job' = NoJob
    /\ UNCHANGED <<own, lock, clock, files, raced>>

RetentionDelete ==
    /\ job.phase = "saved"
    /\ lock = Nobody
    /\ rows' = rows \ job.rows
    /\ gone' = gone \cup job.rows
    /\ job' = NoJob
    /\ UNCHANGED <<own, lock, clock, files, raced>>

\* Faulty: the job is marked failed and stays.
RetentionFailKeepsRows ==
    /\ job.phase # "idle"
    /\ job' = [job EXCEPT !.phase = "failed"]
    /\ UNCHANGED <<rows, own, lock, clock, files, gone, raced>>

\* The spreadsheet cannot be written, or the database stays locked.
RetentionFail ==
    /\ job.phase # "idle"
    /\ job' = NoJob
    /\ UNCHANGED <<rows, own, lock, clock, files, gone, raced>>

\* The process stops: what was not committed is gone.
Crash ==
    /\ own' = [w \in Writers |-> {}]
    /\ lock' = Nobody
    /\ job' = NoJob
    /\ UNCHANGED <<rows, clock, files, gone, raced>>

-----------------------------------------------------------------------------
Init ==
    /\ rows = {}
    /\ own = [w \in Writers |-> {}]
    /\ lock = Nobody
    /\ clock = 0
    /\ job = NoJob
    /\ files = {}
    /\ gone = {}
    /\ raced = [t \in BOOLEAN |-> FALSE]

Next ==
    \/ \E w \in Writers :
          \/ \E t, two \in BOOLEAN : Flush(w, t, two)
          \/ Acquire(w)
          \/ Commit(w)
          \/ Rollback(w)
    \/ \E t \in BOOLEAN : RetentionRead(t)
    \/ RetentionSave
    \/ RetentionDelete
    \/ RetentionFail
    \/ Crash

Spec == Init /\ [][Next]_vars

-----------------------------------------------------------------------------
(* Properties.                                                             *)

Typed(R) ==
    /\ IsFiniteSet(R)
    /\ \A r \in R : r.ts \in 1..clock /\ r.testing \in BOOLEAN

\* Type invariant: timestamps are numbers no later than the clock, rows carry
\* a workspace, and the retention is in one of its phases.
TypeOK ==
    /\ clock \in Nat
    /\ Typed(rows) /\ Typed(gone) /\ Typed(files)
    /\ own = [w \in Writers |-> own[w]]
    /\ \A w \in Writers : Typed(own[w])
    /\ lock \in Writers \cup {Nobody}
    /\ job \in [phase : {"idle", "read", "saved"}, testing : BOOLEAN,
                rows : SUBSET rows]
    /\ raced \in [BOOLEAN -> BOOLEAN]

\* The chain of a workspace verifies as long as no two transactions that wrote
\* to it overlapped, whatever was rolled back, crashed or pruned meanwhile
\* (models.py hook, audit_integrity.py, audit_archive.py).
VerifiesUnlessRaced == \A t \in BOOLEAN : raced[t] \/ Verifies(In(rows, t))

\* Even then, a row never chains onto a row that was rolled back or that is of
\* the other workspace: what it chains onto is or was in the log.
LinksToCommitted ==
    \A r \in rows :
        r.prev = None \/ \E q \in rows \cup gone : /\ q.hash = r.prev
                                                   /\ q.testing = r.testing

\* No Live row leaves the database before a spreadsheet has it, wherever the
\* retention fails (audit_archive.py).
NothingLost == \A r \in gone : r.testing \/ r \in files

\* Strengthening of the three invariants above: a timestamp names a row; with
\* one open transaction in a workspace, its rows come after the committed ones
\* and continue their chain; the retention holds the oldest rows it read.
Distinct ==
    \A v, w \in Writers :
        \A p \in rows \cup own[v], q \in rows \cup own[w] :
            p.ts = q.ts => p = q

OneWriter ==
    \A t \in BOOLEAN : raced[t] \/
        \A v, w \in Writers :
            In(own[v], t) # {} /\ In(own[w], t) # {} => v = w

OwnContinues ==
    \A t \in BOOLEAN : raced[t] \/
        \A w \in Writers :
            /\ \A r \in In(own[w], t), q \in In(rows, t) : q.ts < r.ts
            /\ Verifies(In(rows \cup own[w], t))

OwnLinks ==
    \A w \in Writers : \A r \in own[w] :
        r.prev = None \/ \E q \in rows \cup gone \cup own[w] :
                            q.hash = r.prev /\ q.testing = r.testing

JobHoldsOldest ==
    /\ job.rows \subseteq In(rows, job.testing)
    /\ raced[job.testing] \/
          \A q \in job.rows, p \in In(rows, job.testing) :
              p.ts < q.ts => p \in job.rows

JobSaved == job.phase = "saved" /\ ~job.testing => job.rows \subseteq files

IndInv ==
    /\ TypeOK
    /\ VerifiesUnlessRaced
    /\ LinksToCommitted
    /\ NothingLost
    /\ Distinct
    /\ OneWriter
    /\ OwnContinues
    /\ OwnLinks
    /\ JobHoldsOldest
    /\ JobSaved

\* Retention never breaks a chain that verified (audit_archive.py).
RetentionKeepsVerifying ==
    [][RetentionDelete => \A t \in BOOLEAN :
          Verifies(In(rows, t)) => Verifies(In(rows', t))]_vars

\* docs/VERSION_HISTORY.md: "Audit records now form a tamper-evident
\* HMAC-SHA-256 hash chain": it verifies unless someone changed it.
ChainVerifies == \A t \in BOOLEAN : Verifies(In(rows, t))
=============================================================================
