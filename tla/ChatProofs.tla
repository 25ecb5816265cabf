----------------------------- MODULE ChatProofs -----------------------------
(***************************************************************************)
(* Proofs about Chat, for any users, rooms and bounds: types, no message   *)
(* twice in a window, and receipts that stand.                             *)
(*                                                                         *)
(* A window tells messages apart by their numbers, which start again with  *)
(* the server.  That no message is shown twice rests on a message having   *)
(* one number wherever it is told of: in a room, in an answer on its way   *)
(* and in a window.                                                        *)
(***************************************************************************)
EXTENDS Chat, FiniteSetTheorems, SequenceTheorems, TLAPS

\* The lines tell of a message with this key and number.
Tells(lines, k, n) == \E i \in DOMAIN lines : lines[i].key = k /\ lines[i].id = n

\* So does a room, a window or an answer on its way.
Told(k, n) ==
    \/ \E r \in Rooms : Tells(room[r].messages, k, n)
    \/ \E u \in Users, r \in Rooms :
          \/ Tells(rows[u][r], k, n)
          \/ Tells(posted[u][r], k, n)
          \/ \E i \in DOMAIN replies[u][r] : Tells(replies[u][r][i].lines, k, n)

Distinct(lines) == \A i, j \in DOMAIN lines : lines[i].key = lines[j].key => i = j

Counted == seq <= sent

\* Whoever has read a message has received it.
Receipts ==
    \A r \in Rooms : \A i \in DOMAIN room[r].messages :
        room[r].messages[i].read \subseteq room[r].messages[i].delivered

\* A message is in one room, once.
StoredOnce ==
    \A r, q \in Rooms : \A i \in DOMAIN room[r].messages, j \in DOMAIN room[q].messages :
        room[r].messages[i].key = room[q].messages[j].key => r = q /\ i = j

OneNumber ==
    \A k \in Keys, n \in Numbers : Told(k, n) =>
        /\ k <= sent
        /\ \A o \in Numbers : Told(k, o) => n = o

AnswersDistinct ==
    \A u \in Users, r \in Rooms :
        /\ Distinct(posted[u][r])
        /\ \A i \in DOMAIN replies[u][r] : Distinct(replies[u][r][i].lines)

RowsDistinct == \A u \in Users, r \in Rooms : Distinct(rows[u][r])

IndInv ==
    TypeOK /\ Counted /\ Receipts /\ StoredOnce /\ OneNumber /\ AnswersDistinct /\ RowsDistinct

-----------------------------------------------------------------------------
(* Sequences and sets of numbers.                                          *)

\* A set of naturals that is not empty has a least element.
LEMMA LeastExists ==
    ASSUME NEW S \in SUBSET Nat, S # {}
    PROVE  \E x \in S : \A y \in S : x <= y
<1> DEFINE T == {0..x : x \in S}
<1>1. T \subseteq FiniteSubsetsOf(Nat)
  <2> SUFFICES ASSUME NEW x \in S PROVE 0..x \in FiniteSubsetsOf(Nat)
    OBVIOUS
  <2>1. IsFiniteSet(0..x)
    BY FS_Interval
  <2>2. 0..x \subseteq Nat
    OBVIOUS
  <2> QED
    BY <2>1, <2>2 DEF FiniteSubsetsOf
<1>2. T # {}
  OBVIOUS
<1>3. PICK t \in T : \A s \in T : <<s, t>> \notin StrictSubsetOrdering(Nat)
  <2>1. IsWellFoundedOn(StrictSubsetOrdering(Nat), FiniteSubsetsOf(Nat))
    BY FS_StrictSubsetOrderingWellFounded
  <2> HIDE DEF T
  <2> QED
    BY <1>1, <1>2, <2>1, WFMin
<1>4. PICK x \in S : t = 0..x
  OBVIOUS
<1>5. ASSUME NEW y \in S, y < x
      PROVE  FALSE
  <2>1. 0..y \subseteq 0..x /\ 0..y # 0..x
    BY <1>5
  <2>2. <<0..y, 0..x>> \in StrictSubsetOrdering(Nat)
    BY <2>1 DEF StrictSubsetOrdering
  <2> QED
    BY <1>3, <1>4, <2>2
<1> QED
  BY <1>4, <1>5

LEMMA GreatestExists ==
    ASSUME NEW N \in Nat, NEW S \in SUBSET (0..N), S # {}
    PROVE  Max(S) \in S /\ \A y \in S : Max(S) >= y
<1> DEFINE T == {N - x : x \in S}
<1>1. T \in SUBSET Nat /\ T # {}
  <2>1. \A x \in S : x \in Nat /\ N - x \in Nat
    OBVIOUS
  <2>2. QED
    BY <2>1
<1>2. PICK t \in T : \A y \in T : t <= y
  BY <1>1, LeastExists
<1>3. PICK x \in S : t = N - x
  OBVIOUS
<1>4. \A y \in S : x >= y
  BY <1>2, <1>3
<1>5. QED
  BY <1>3, <1>4 DEF Max

Below(I, x) == {j \in I : j <= x}

\* What At returns: members of s at places of I, each place once.
LEMMA AtMembers ==
    ASSUME NEW T, NEW s \in Seq(T), NEW I \in SUBSET (DOMAIN s)
    PROVE  /\ At(s, I) \in Seq(T)
           /\ \A k \in DOMAIN At(s, I) : \E i \in I :
                 At(s, I)[k] = s[i] /\ k = Cardinality(Below(I, i))
<1>1. DOMAIN s = 1..Len(s) /\ Len(s) \in Nat
  OBVIOUS
<1>2. I \subseteq 1..Len(s)
  BY <1>1
<1>3. ASSUME NEW J \in SUBSET I
      PROVE  IsFiniteSet(J) /\ Cardinality(J) \in Nat
  <2>1. IsFiniteSet(1..Len(s))
    BY <1>1, FS_Interval
  <2>2. IsFiniteSet(J)
    BY <1>2, <2>1, FS_Subset
  <2>3. QED
    BY <2>2, FS_CardinalityType
<1> DEFINE upto(x) == Below(I, x)
<1>0. \A x : upto(x) \in SUBSET I
  BY DEF Below
<1> HIDE DEF upto, Below
<1>4. ASSUME NEW k \in 1..Cardinality(I)
      PROVE  \E i \in I : Cardinality(upto(i)) = k
  <2> DEFINE W == {x \in Nat : Cardinality(upto(x)) >= k}
  <2>1. Cardinality(I) \in Nat
    BY <1>3
  <2>2. Len(s) \in W
    <3>1. upto(Len(s)) = I
      BY <1>2 DEF upto, Below
    <3>2. QED
      BY <1>1, <2>1, <3>1
  <2>3. PICK x \in W : \A y \in W : x <= y
    <3>1. W \in SUBSET Nat /\ W # {}
      BY <2>2
    <3> HIDE DEF W
    <3>2. QED
      BY <3>1, LeastExists
  <2>4. x \in Nat /\ Cardinality(upto(x)) >= k
    BY <2>3
  <2>5. x # 0
    <3>1. upto(0) = {}
      BY <1>2 DEF upto, Below
    <3>2. Cardinality(upto(0)) = 0
      BY <3>1, FS_EmptySet
    <3>3. QED
      BY <2>1, <2>4, <3>2
  <2>6. x - 1 \in Nat /\ x - 1 \notin W
    BY <2>3, <2>4, <2>5
  <2>7. Cardinality(upto(x - 1)) \in Nat /\ Cardinality(upto(x - 1)) < k
    <3>1. Cardinality(upto(x - 1)) \in Nat
      BY <1>3, <1>0
    <3>2. QED
      BY <2>1, <2>6, <3>1
  <2>8. x \in I
    <3>1. ASSUME x \notin I
          PROVE  FALSE
      <4>1. upto(x) = upto(x - 1)
        BY <1>2, <2>4, <2>6, <3>1 DEF upto, Below
      <4>2. QED
        BY <2>1, <2>4, <2>7, <4>1
    <3>2. QED
      BY <3>1
  <2>9. Cardinality(upto(x)) = Cardinality(upto(x - 1)) + 1
    <3>1. upto(x) = upto(x - 1) \cup {x} /\ x \notin upto(x - 1)
      BY <1>2, <2>4, <2>6, <2>8 DEF upto, Below
    <3>2. IsFiniteSet(upto(x - 1))
      BY <1>3, <1>0
    <3>3. QED
      BY <3>1, <3>2, FS_AddElement
  <2>10. Cardinality(upto(x)) = k
    BY <2>1, <2>4, <2>7, <2>9
  <2>11. QED
    BY <2>8, <2>10
<1>5. At(s, I) = [k \in 1..Cardinality(I) |-> s[CHOOSE i \in I : Cardinality(upto(i)) = k]]
  BY DEF At, upto, Below
<1>6. ASSUME NEW k \in 1..Cardinality(I)
      PROVE  \E i \in I : At(s, I)[k] = s[i] /\ k = Cardinality(upto(i))
  BY <1>4, <1>5, <1>6
<1>7. \A i \in I : s[i] \in T
  BY <1>1, <1>2
<1>8. Cardinality(I) \in Nat
  BY <1>3
<1>9. At(s, I) \in Seq(T)
  <2>1. \A k \in 1..Cardinality(I) : At(s, I)[k] \in T
    BY <1>6, <1>7
  <2>2. At(s, I) \in [1..Cardinality(I) -> T]
    BY <1>5, <2>1
  <2>3. QED
    BY <1>8, <2>2, SeqDef
<1>10. DOMAIN At(s, I) = 1..Cardinality(I)
  BY <1>5
<1>11. QED
  BY <1>6, <1>9, <1>10 DEF upto

\* A sequence without one of its members.
LEMMA RemovedMembers ==
    ASSUME NEW T, NEW s \in Seq(T), NEW i \in DOMAIN s
    PROVE  /\ RemoveAt(s, i) \in Seq(T)
           /\ \A k \in DOMAIN RemoveAt(s, i) : \E j \in DOMAIN s : RemoveAt(s, i)[k] = s[j]
<1> DEFINE a == SubSeq(s, 1, i - 1)
           b == SubSeq(s, i + 1, Len(s))
<1>1. DOMAIN s = 1..Len(s) /\ Len(s) \in Nat /\ i \in 1..Len(s)
  OBVIOUS
<1>2. /\ a \in Seq(T) /\ Len(a) = i - 1
      /\ \A k \in 1..(i - 1) : a[k] = s[k]
  BY <1>1
<1>3. /\ b \in Seq(T) /\ Len(b) = Len(s) - i
      /\ \A k \in 1..(Len(s) - i) : b[k] = s[i + k]
  BY <1>1
<1>4. RemoveAt(s, i) = a \o b
  BY DEF RemoveAt
<1> HIDE DEF a, b
<1>5. /\ a \o b \in Seq(T)
      /\ Len(a \o b) = Len(a) + Len(b)
      /\ \A k \in 1..Len(a \o b) : (a \o b)[k] = IF k <= Len(a) THEN a[k] ELSE b[k - Len(a)]
  <2>1. /\ a \o b \in Seq(T)
        /\ Len(a \o b) = Len(a) + Len(b)
        /\ \A k \in 1..(Len(a) + Len(b)) :
              (a \o b)[k] = IF k <= Len(a) THEN a[k] ELSE b[k - Len(a)]
    <3>1. a \in Seq(T) /\ b \in Seq(T)
      BY <1>2, <1>3
    <3>2. QED
      BY <3>1, ConcatProperties
  <2>2. QED
    BY <2>1
<1>6. ASSUME NEW k \in 1..Len(a \o b)
      PROVE  \E j \in DOMAIN s : (a \o b)[k] = s[j]
  <2>1. CASE k <= i - 1
    <3>1. (a \o b)[k] = s[k] /\ k \in DOMAIN s
      BY <1>1, <1>2, <1>5, <2>1
    <3>2. QED
      BY <3>1
  <2>2. CASE k > i - 1
    <3>1. k - (i - 1) \in 1..(Len(s) - i)
      BY <1>1, <1>2, <1>3, <1>5, <2>2
    <3>2. (a \o b)[k] = s[i + (k - (i - 1))] /\ i + (k - (i - 1)) \in DOMAIN s
      BY <1>1, <1>2, <1>3, <1>5, <2>2, <3>1
    <3>3. QED
      BY <3>2
  <2>3. QED
    BY <1>1, <2>1, <2>2
<1>7. DOMAIN (a \o b) = 1..Len(a \o b)
  BY <1>5
<1>8. QED
  BY <1>4, <1>5, <1>6, <1>7

-----------------------------------------------------------------------------
(* Messages and their receipts.                                             *)

\* The same messages, with receipts added.
Marked(ms, ns) ==
    /\ ns \in Seq(Message) /\ Len(ns) = Len(ms) /\ DOMAIN ns = DOMAIN ms
    /\ \A i \in DOMAIN ms :
          /\ ns[i].id = ms[i].id /\ ns[i].key = ms[i].key /\ ns[i].sender = ms[i].sender
          /\ ms[i].delivered \subseteq ns[i].delivered
          /\ ms[i].read \subseteq ns[i].read
          /\ ms[i].read \subseteq ms[i].delivered => ns[i].read \subseteq ns[i].delivered

LEMMA MarkedSelf == \A ms \in Seq(Message) : Marked(ms, ms)
BY DEF Marked

LEMMA MarkedAgain ==
    ASSUME NEW a, NEW b, NEW c, Marked(a, b), Marked(b, c)
    PROVE  Marked(a, c)
BY DEF Marked

\* Messages each of which is the one before with more receipts.
LEMMA EachMarked ==
    ASSUME NEW ms \in Seq(Message), NEW ns,
           ns = [i \in DOMAIN ms |-> ns[i]],
           \A i \in DOMAIN ms :
              /\ ns[i] \in Message
              /\ ns[i].id = ms[i].id /\ ns[i].key = ms[i].key /\ ns[i].sender = ms[i].sender
              /\ ms[i].delivered \subseteq ns[i].delivered
              /\ ms[i].read \subseteq ns[i].read
              /\ ms[i].read \subseteq ms[i].delivered => ns[i].read \subseteq ns[i].delivered
    PROVE  Marked(ms, ns)
<1>1. DOMAIN ms = 1..Len(ms) /\ Len(ms) \in Nat
  OBVIOUS
<1>2. DOMAIN ns = 1..Len(ms)
  BY <1>1
<1>3. ns \in [1..Len(ms) -> Message]
  BY <1>1
<1>4. ns \in Seq(Message) /\ Len(ns) = Len(ms)
  <2>1. ns \in Seq(Message)
    BY <1>1, <1>3, SeqDef
  <2>2. QED
    BY <1>1, <1>2, <2>1
<1>5. QED
  BY <1>1, <1>2, <1>4 DEF Marked

LEMMA ReceivedMarks ==
    ASSUME NEW ms \in Seq(Message), NEW u \in Users
    PROVE  Marked(ms, Each(ms, LAMBDA m : Received(m, u)))
<1> DEFINE ns == Each(ms, LAMBDA m : Received(m, u))
<1>1. ns = [i \in DOMAIN ms |-> Received(ms[i], u)]
  BY DEF Each
<1>2. ASSUME NEW i \in DOMAIN ms
      PROVE  /\ ns[i] \in Message
             /\ ns[i].id = ms[i].id /\ ns[i].key = ms[i].key /\ ns[i].sender = ms[i].sender
             /\ ms[i].delivered \subseteq ns[i].delivered
             /\ ms[i].read \subseteq ns[i].read
             /\ ms[i].read \subseteq ms[i].delivered => ns[i].read \subseteq ns[i].delivered
  <2>1. ms[i] \in Message
    OBVIOUS
  <2>2. \/ ns[i] = ms[i]
        \/ ns[i] = [ms[i] EXCEPT !.delivered = @ \cup {u}]
    BY <1>1 DEF Received
  <2> HIDE DEF ns
  <2>3. QED
    BY <2>1, <2>2 DEF Message
<1>3. ns = [i \in DOMAIN ms |-> ns[i]]
  BY <1>1
<1> HIDE DEF ns
<1>4. Marked(ms, ns)
  BY <1>2, <1>3, EachMarked
<1>5. QED
  BY <1>4 DEF ns

LEMMA ReadsMarks ==
    ASSUME NEW ms \in Seq(Message), NEW u \in Users, NEW upTo
    PROVE  Marked(ms, Reads(ms, u, upTo))
<1> DEFINE ns == Reads(ms, u, upTo)
           skips(m) == m.sender = u \/ (upTo > 0 /\ m.id > upTo)
<1>1. ns = [i \in DOMAIN ms |->
              IF skips(ms[i]) THEN ms[i]
              ELSE [ms[i] EXCEPT !.delivered = @ \cup {u}, !.read = @ \cup {u}]]
  BY DEF Reads, Each
<1>2. ASSUME NEW i \in DOMAIN ms
      PROVE  /\ ns[i] \in Message
             /\ ns[i].id = ms[i].id /\ ns[i].key = ms[i].key /\ ns[i].sender = ms[i].sender
             /\ ms[i].delivered \subseteq ns[i].delivered
             /\ ms[i].read \subseteq ns[i].read
             /\ ms[i].read \subseteq ms[i].delivered => ns[i].read \subseteq ns[i].delivered
  <2>1. ms[i] \in Message
    OBVIOUS
  <2>2. \/ ns[i] = ms[i]
        \/ ns[i] = [ms[i] EXCEPT !.delivered = @ \cup {u}, !.read = @ \cup {u}]
    BY <1>1
  <2> HIDE DEF ns
  <2>3. QED
    BY <2>1, <2>2 DEF Message
<1>3. ns = [i \in DOMAIN ms |-> ns[i]]
  BY <1>1
<1> HIDE DEF ns
<1>4. Marked(ms, ns)
  BY <1>2, <1>3, EachMarked
<1>5. QED
  BY <1>4 DEF ns

\* The lines of messages.
LEMMA LinesOf ==
    ASSUME NEW ms \in Seq(Message)
    PROVE  /\ Each(ms, LineOf) \in Seq(Line)
           /\ DOMAIN Each(ms, LineOf) = DOMAIN ms
           /\ \A i \in DOMAIN ms : /\ Each(ms, LineOf)[i].key = ms[i].key
                                   /\ Each(ms, LineOf)[i].id = ms[i].id
<1> DEFINE ls == [i \in DOMAIN ms |-> LineOf(ms[i])]
<1>1. Each(ms, LineOf) = ls
  BY DEF Each
<1>2. ASSUME NEW i \in DOMAIN ms
      PROVE  LineOf(ms[i]) \in Line
  <2>1. ms[i] \in Message
    OBVIOUS
  <2>2. QED
    BY <2>1 DEF LineOf, Line, Message
<1>3. DOMAIN ms = 1..Len(ms) /\ Len(ms) \in Nat
  OBVIOUS
<1>4. ls \in [1..Len(ms) -> Line]
  BY <1>2, <1>3
<1>5. ls \in Seq(Line)
  BY <1>3, <1>4, SeqDef
<1>6. \A i \in DOMAIN ms : ls[i].key = ms[i].key /\ ls[i].id = ms[i].id
  BY DEF LineOf
<1>7. DOMAIN ls = DOMAIN ms
  OBVIOUS
<1> HIDE DEF ls
<1>8. QED
  BY <1>1, <1>5, <1>6, <1>7

\* The last messages, at most as many as a room keeps.
LEMMA TrimmedMembers ==
    ASSUME NEW ms \in Seq(Message)
    PROVE  /\ Trimmed(ms) \in Seq(Message) /\ Len(Trimmed(ms)) <= MaxKept
           /\ \E d \in Nat : \A i \in DOMAIN Trimmed(ms) :
                 i + d \in DOMAIN ms /\ Trimmed(ms)[i] = ms[i + d]
<1>1. MaxKept \in Nat /\ Len(ms) \in Nat /\ DOMAIN ms = 1..Len(ms)
  BY BoundsAssumption
<1> DEFINE d == IF Len(ms) > MaxKept THEN Len(ms) - MaxKept ELSE 0
<1>2. d \in Nat /\ d <= Len(ms) /\ Len(ms) - d <= MaxKept
  BY <1>1
<1>3. Trimmed(ms) = SubSeq(ms, d + 1, Len(ms))
  <2>1. (IF Len(ms) > MaxKept THEN Len(ms) - MaxKept + 1 ELSE 1) = d + 1
    BY <1>1
  <2>2. QED
    BY <2>1 DEF Trimmed
<1> HIDE DEF d
<1>4. /\ Trimmed(ms) \in Seq(Message)
      /\ Len(Trimmed(ms)) = Len(ms) - d
      /\ \A i \in 1..(Len(ms) - d) : Trimmed(ms)[i] = ms[i + d]
  <2>1. d + 1 \in Int /\ Len(ms) \in Int /\ \A i \in (d + 1)..Len(ms) : ms[i] \in Message
    BY <1>1, <1>2
  <2>2. /\ SubSeq(ms, d + 1, Len(ms)) \in Seq(Message)
        /\ Len(SubSeq(ms, d + 1, Len(ms))) =
              IF d + 1 <= Len(ms) THEN Len(ms) - (d + 1) + 1 ELSE 0
        /\ \A i \in 1..(Len(ms) - (d + 1) + 1) :
              SubSeq(ms, d + 1, Len(ms))[i] = ms[(d + 1) + i - 1]
    BY <2>1, SubSeqProperties
  <2>3. \A i \in 1..(Len(ms) - d) : i \in 1..(Len(ms) - (d + 1) + 1) /\ (d + 1) + i - 1 = i + d
    BY <1>1, <1>2
  <2>4. Len(SubSeq(ms, d + 1, Len(ms))) = Len(ms) - d
    <3>1. \A x, y \in Nat : y <= x => (IF y + 1 <= x THEN x - (y + 1) + 1 ELSE 0) = x - y
      OBVIOUS
    <3>2. QED
      BY <1>1, <1>2, <2>2, <3>1
  <2>5. QED
    BY <1>3, <2>2, <2>3, <2>4
<1>5. DOMAIN Trimmed(ms) = 1..(Len(ms) - d)
  BY <1>4
<1>6. \A i \in DOMAIN Trimmed(ms) : i + d \in DOMAIN ms /\ Trimmed(ms)[i] = ms[i + d]
  BY <1>1, <1>2, <1>4, <1>5
<1>7. QED
  BY <1>2, <1>4, <1>6

-----------------------------------------------------------------------------
(* What a page makes of an answer.                                          *)

\* Picking places keeps messages, or lines, distinct.
LEMMA AtDistinct ==
    ASSUME NEW T, NEW s \in Seq(T), NEW I \in SUBSET (DOMAIN s), Distinct(s)
    PROVE  Distinct(At(s, I))
<1>1. SUFFICES ASSUME NEW k \in DOMAIN At(s, I), NEW l \in DOMAIN At(s, I),
                      At(s, I)[k].key = At(s, I)[l].key
               PROVE  k = l
  BY DEF Distinct
<1>2. /\ At(s, I) \in Seq(T)
      /\ \A c \in DOMAIN At(s, I) : \E i \in I :
            At(s, I)[c] = s[i] /\ c = Cardinality(Below(I, i))
  BY AtMembers
<1>3. PICK i \in I : At(s, I)[k] = s[i] /\ k = Cardinality(Below(I, i))
  BY <1>2
<1>4. PICK h \in I : At(s, I)[l] = s[h] /\ l = Cardinality(Below(I, h))
  BY <1>2
<1>5. i = h
  BY <1>1, <1>3, <1>4 DEF Distinct
<1>6. QED
  BY <1>3, <1>4, <1>5

LEMMA AskedMembers ==
    ASSUME NEW u, NEW r, NEW full, NEW stored \in Seq(Message)
    PROVE  /\ Asked(u, r, full, stored) \in Seq(Message)
           /\ \A k \in DOMAIN Asked(u, r, full, stored) :
                 \E i \in DOMAIN stored : Asked(u, r, full, stored)[k] = stored[i]
           /\ Distinct(stored) => Distinct(Asked(u, r, full, stored))
<1> DEFINE I == {i \in DOMAIN stored : full \/ stored[i].id > last[u][r]}
<1>1. Asked(u, r, full, stored) = At(stored, I)
  BY DEF Asked
<1>2. I \in SUBSET (DOMAIN stored)
  OBVIOUS
<1> HIDE DEF I
<1>3. /\ At(stored, I) \in Seq(Message)
      /\ \A k \in DOMAIN At(stored, I) : \E i \in I : At(stored, I)[k] = stored[i]
  BY <1>2, AtMembers
<1>4. Distinct(stored) => Distinct(At(stored, I))
  BY <1>2, AtDistinct
<1>5. QED
  BY <1>1, <1>2, <1>3, <1>4

LEMMA NewLinesMembers ==
    ASSUME NEW shown, NEW lines \in Seq(Line)
    PROVE  /\ NewLines(shown, lines) \in Seq(Line)
           /\ \A k \in DOMAIN NewLines(shown, lines) : \E i \in DOMAIN lines :
                 NewLines(shown, lines)[k] = lines[i] /\ lines[i].id \notin IdsOf(shown)
           /\ Distinct(lines) => Distinct(NewLines(shown, lines))
<1> DEFINE I == {i \in DOMAIN lines : lines[i].id \notin IdsOf(shown)}
<1>1. NewLines(shown, lines) = At(lines, I)
  BY DEF NewLines
<1>2. I \in SUBSET (DOMAIN lines) /\ \A i \in I : lines[i].id \notin IdsOf(shown)
  OBVIOUS
<1> HIDE DEF I
<1>3. /\ At(lines, I) \in Seq(Line)
      /\ \A k \in DOMAIN At(lines, I) : \E i \in I : At(lines, I)[k] = lines[i]
  <2>1. /\ At(lines, I) \in Seq(Line)
        /\ \A k \in DOMAIN At(lines, I) : \E i \in I :
              At(lines, I)[k] = lines[i] /\ k = Cardinality(Below(I, i))
    BY <1>2, AtMembers
  <2>2. QED
    BY <2>1
<1>4. Distinct(lines) => Distinct(At(lines, I))
  BY <1>2, AtDistinct
<1>5. QED
  BY <1>1, <1>2, <1>3, <1>4

\* A window with the lines of an answer that it did not show.
LEMMA JoinedLines ==
    ASSUME NEW shown \in Seq(Line), NEW lines \in Seq(Line)
    PROVE  LET joined == shown \o NewLines(shown, lines)
           IN  /\ joined \in Seq(Line)
               /\ \A k, n : Tells(joined, k, n) => Tells(shown, k, n) \/ Tells(lines, k, n)
               /\ /\ Distinct(shown) /\ Distinct(lines)
                  /\ \A i \in DOMAIN shown, j \in DOMAIN lines :
                        shown[i].key = lines[j].key => shown[i].id = lines[j].id
                  => Distinct(joined)
<1> DEFINE new == NewLines(shown, lines)
           joined == shown \o new
<1>1. /\ new \in Seq(Line)
      /\ \A k \in DOMAIN new : \E i \in DOMAIN lines :
            new[k] = lines[i] /\ lines[i].id \notin IdsOf(shown)
      /\ Distinct(lines) => Distinct(new)
  BY NewLinesMembers
<1> HIDE DEF new
<1>2. /\ joined \in Seq(Line)
      /\ Len(joined) = Len(shown) + Len(new)
      /\ \A k \in 1..(Len(shown) + Len(new)) :
            joined[k] = IF k <= Len(shown) THEN shown[k] ELSE new[k - Len(shown)]
  BY <1>1, ConcatProperties
<1>3. /\ DOMAIN shown = 1..Len(shown) /\ Len(shown) \in Nat
      /\ DOMAIN new = 1..Len(new) /\ Len(new) \in Nat
  BY <1>1
<1> HIDE DEF joined
<1>4. DOMAIN joined = 1..(Len(shown) + Len(new))
  BY <1>2
<1>5. ASSUME NEW k \in DOMAIN joined
      PROVE  \/ k \in DOMAIN shown /\ joined[k] = shown[k]
             \/ /\ k > Len(shown) /\ k - Len(shown) \in DOMAIN new
                /\ joined[k] = new[k - Len(shown)]
  BY <1>2, <1>3, <1>4
<1>6. ASSUME NEW k, NEW n, Tells(joined, k, n)
      PROVE  Tells(shown, k, n) \/ Tells(lines, k, n)
  <2>1. PICK i \in DOMAIN joined : joined[i].key = k /\ joined[i].id = n
    BY <1>6 DEF Tells
  <2>2. CASE i \in DOMAIN shown /\ joined[i] = shown[i]
    BY <2>1, <2>2 DEF Tells
  <2>3. CASE i - Len(shown) \in DOMAIN new /\ joined[i] = new[i - Len(shown)]
    BY <1>1, <2>1, <2>3 DEF Tells
  <2>4. QED
    BY <1>5, <2>2, <2>3
<1>7. ASSUME Distinct(shown), Distinct(lines),
             \A i \in DOMAIN shown, j \in DOMAIN lines :
                shown[i].key = lines[j].key => shown[i].id = lines[j].id
      PROVE  Distinct(joined)
  <2>1. ASSUME NEW i \in DOMAIN shown, NEW k \in DOMAIN new, shown[i].key = new[k].key
        PROVE  FALSE
    <3>1. PICK j \in DOMAIN lines : new[k] = lines[j] /\ lines[j].id \notin IdsOf(shown)
      BY <1>1
    <3>2. shown[i].id = lines[j].id
      BY <1>7, <2>1, <3>1
    <3>3. shown[i].id \in IdsOf(shown)
      BY DEF IdsOf
    <3>4. QED
      BY <3>1, <3>2, <3>3
  <2>2. SUFFICES ASSUME NEW k \in DOMAIN joined, NEW l \in DOMAIN joined,
                        joined[k].key = joined[l].key
                 PROVE  k = l
    BY DEF Distinct
  <2>3. CASE k \in DOMAIN shown /\ joined[k] = shown[k]
    <3>1. l \in DOMAIN shown /\ joined[l] = shown[l]
      BY <1>5, <2>1, <2>2, <2>3
    <3>2. QED
      BY <1>7, <2>2, <2>3, <3>1 DEF Distinct
  <2>4. CASE k > Len(shown) /\ k - Len(shown) \in DOMAIN new /\ joined[k] = new[k - Len(shown)]
    <3>1. l > Len(shown) /\ l - Len(shown) \in DOMAIN new /\ joined[l] = new[l - Len(shown)]
      BY <1>5, <2>1, <2>2, <2>4
    <3>2. k - Len(shown) = l - Len(shown)
      BY <1>1, <1>7, <2>2, <2>4, <3>1 DEF Distinct
    <3>3. QED
      BY <1>3, <1>4, <3>2
  <2>5. QED
    BY <1>5, <2>3, <2>4
<1>8. QED
  BY <1>2, <1>6, <1>7 DEF joined, new

LEMMA HighIdType ==
    ASSUME NEW n \in Numbers, NEW lines \in Seq(Line)
    PROVE  HighId(n, lines) \in Numbers
<1> DEFINE S == {n} \cup IdsOf(lines)
<1>1. \A i \in DOMAIN lines : lines[i].id \in Numbers
  <2>1. \A i \in DOMAIN lines : lines[i] \in Line
    OBVIOUS
  <2>2. QED
    BY <2>1 DEF Line
<1>2. S \subseteq Numbers /\ S # {}
  BY <1>1 DEF IdsOf
<1>3. MaxMessages \in Nat
  BY BoundsAssumption
<1> HIDE DEF S
<1>4. Max(S) \in S
  BY <1>2, <1>3, GreatestExists DEF Numbers
<1>5. QED
  BY <1>2, <1>4 DEF HighId, S

-----------------------------------------------------------------------------
(* Types, and what happens to the messages of a room.                       *)

\* Rooms after a step that only adds receipts and members.
Receipted(new) ==
    /\ new \in [Rooms -> Room]
    /\ \A r \in Rooms : Marked(room[r].messages, new[r].messages)

RoomsMarked == Receipted(room')

LEMMA RoomTyped ==
    ASSUME TypeOK, NEW r \in Rooms
    PROVE  /\ room[r] \in Room /\ room[r].messages \in Seq(Message) /\ room[r].members \subseteq Users
           /\ Len(room[r].messages) <= MaxKept
           /\ LastId(r) \in Numbers
<1>1. /\ room[r] \in Room /\ room[r].messages \in Seq(Message) /\ room[r].members \subseteq Users
      /\ Len(room[r].messages) <= MaxKept
  BY DEF TypeOK, Room
<1>2. CASE room[r].messages = <<>>
  BY <1>1, <1>2, BoundsAssumption DEF LastId, Numbers
<1>3. CASE room[r].messages # <<>>
  <2>1. Len(room[r].messages) \in DOMAIN room[r].messages
    BY <1>1, <1>3
  <2>2. Last(room[r].messages) \in Message
    BY <1>1, <2>1 DEF Last
  <2>3. QED
    BY <1>1, <1>3, <2>2 DEF LastId, Message
<1>4. QED
  BY <1>1, <1>2, <1>3

LEMMA SameRooms == TypeOK => Receipted(room)
BY RoomTyped, MarkedSelf DEF TypeOK, Receipted

\* The messages of one room with receipts added.
LEMMA OneRoomMarked ==
    ASSUME TypeOK, NEW r \in Rooms, NEW ms, Marked(room[r].messages, ms)
    PROVE  Receipted([room EXCEPT ![r].messages = ms])
<1> DEFINE new == [room EXCEPT ![r].messages = ms]
<1>1. ms \in Seq(Message)
  BY DEF Marked
<1>2. [room[r] EXCEPT !.messages = ms] \in Room
  BY <1>1, RoomTyped DEF Room
<1>3. new = [room EXCEPT ![r] = [room[r] EXCEPT !.messages = ms]]
  BY DEF TypeOK
<1>4. new \in [Rooms -> Room]
  BY <1>2, <1>3 DEF TypeOK
<1>5. new[r].messages = ms
  BY <1>3, RoomTyped DEF TypeOK, Room
<1>6. \A q \in Rooms : q # r => new[q] = room[q]
  BY <1>3 DEF TypeOK
<1>7. ASSUME NEW q \in Rooms
      PROVE  Marked(room[q].messages, new[q].messages)
  BY <1>5, <1>6, RoomTyped, MarkedSelf
<1>8. QED
  BY <1>4, <1>7 DEF Receipted

LEMMA MarkReadMarks ==
    ASSUME TypeOK, NEW u \in Users, NEW r \in Rooms, NEW upTo
    PROVE  Receipted(MarkRead(u, r, upTo))
<1> DEFINE ms == Reads(room[r].messages, u, upTo)
<1>1. Marked(room[r].messages, ms)
  BY RoomTyped, ReadsMarks
<1>2. Receipted([room EXCEPT ![r].messages = ms])
  <2> HIDE DEF ms
  <2>1. QED
    BY <1>1, OneRoomMarked
<1>3. MarkRead(u, r, upTo) = IF u \in room[r].members THEN [room EXCEPT ![r].messages = ms] ELSE room
  BY DEF MarkRead
<1>4. QED
  BY <1>2, <1>3, SameRooms

\* Messages keep their number and key with their room.
LEMMA RoomsMarkedType ==
    ASSUME TypeOK, RoomsMarked
    PROVE  room' \in [Rooms -> Room] /\ \A r \in Rooms : Len(room'[r].messages) <= MaxKept
BY DEF TypeOK, RoomsMarked, Receipted, Marked

LEMMA MembersMarked ==
    ASSUME TypeOK, NEW r \in Rooms, NEW s \in SUBSET Users,
           room' = [room EXCEPT ![r].members = s]
    PROVE  RoomsMarked
<1>1. [room[r] EXCEPT !.members = s] \in Room
  BY RoomTyped DEF Room
<1>2. room' = [room EXCEPT ![r] = [room[r] EXCEPT !.members = s]]
  BY DEF TypeOK
<1>3. room' \in [Rooms -> Room]
  BY <1>1, <1>2 DEF TypeOK
<1>4. \A q \in Rooms : room'[q].messages = room[q].messages
  BY <1>2, RoomTyped DEF TypeOK, Room
<1>5. QED
  BY <1>3, <1>4, RoomTyped, MarkedSelf DEF RoomsMarked, Receipted

LEMMA UserCounts == TypeOK /\ User => requests' \in 0..MaxRequests
BY BoundsAssumption DEF TypeOK, User

LEMMA KnowsType ==
    ASSUME TypeOK, NEW u \in Users, NEW r \in Rooms, Knows(u, r)
    PROVE  /\ known' \in [Users -> SUBSET Rooms]
           /\ hint' \in [Users -> [Rooms -> Numbers]]
BY RoomTyped DEF TypeOK, Knows

\* A step on the rooms themselves.
LEMMA RoomStep ==
    ASSUME TypeOK, NEW u \in Users,
           \/ \E p \in Private : OpenPrivate(u, p)
           \/ \E g \in Groups, invited \in SUBSET Users :
                CreateGroup(u, g, invited) \/ AddMembers(u, g, invited)
    PROVE  TypeOK' /\ RoomsMarked
<1>1. PICK r \in Rooms : /\ Knows(u, r) /\ (User \/ UNCHANGED requests)
                         /\ UNCHANGED <<seq, sent, last, unread, window, polling, rows, replies,
                                        posted, fetched>>
  BY DEF OpenPrivate, CreateGroup, AddMembers, Rooms
<1>2. \/ room' = room
      \/ \E q \in Rooms, s \in SUBSET Users : room' = [room EXCEPT ![q].members = s]
  <2>1. ASSUME NEW p \in Private, OpenPrivate(u, p)
        PROVE  \/ room' = room
               \/ \E q \in Rooms, s \in SUBSET Users : room' = [room EXCEPT ![q].members = s]
    <3>1. Pair[p] \in SUBSET Users /\ p \in Rooms
      BY RoomsAssumption DEF Rooms
    <3>2. QED
      BY <2>1, <3>1 DEF OpenPrivate
  <2>2. ASSUME NEW g \in Groups, NEW invited \in SUBSET Users,
               CreateGroup(u, g, invited) \/ AddMembers(u, g, invited)
        PROVE  \E q \in Rooms, s \in SUBSET Users : room' = [room EXCEPT ![q].members = s]
    <3>1. g \in Rooms
      BY DEF Rooms
    <3>2. room[g].members \in SUBSET Users
      BY <3>1, RoomTyped
    <3>3. \/ room' = [room EXCEPT ![g].members = invited \cup {u}]
          \/ room' = [room EXCEPT ![g].members = room[g].members \cup invited]
      BY <2>2 DEF CreateGroup, AddMembers, TypeOK
    <3>4. QED
      BY <3>1, <3>2, <3>3
  <2>3. QED
    BY <2>1, <2>2
<1>3. RoomsMarked
  BY <1>2, MembersMarked, SameRooms DEF RoomsMarked
<1>4. QED
  BY <1>1, <1>3, RoomsMarkedType, KnowsType, UserCounts DEF TypeOK

LEMMA RefreshStep ==
    ASSUME TypeOK, NEW u \in Users, Refresh(u)
    PROVE  TypeOK' /\ RoomsMarked
<1> DEFINE mine == {r \in Rooms : u \in room[r].members}
<1>1. mine \in SUBSET Rooms
  OBVIOUS
<1>2. /\ known' = [known EXCEPT ![u] = mine]
      /\ hint' = [hint EXCEPT ![u] = [r \in Rooms |-> LastId(r)]]
      /\ unread' = [unread EXCEPT ![u] = @ \cap mine]
      /\ last' = [last EXCEPT ![u] = [r \in Rooms |-> IF r \in mine THEN @[r] ELSE 0]]
      /\ UNCHANGED <<room, seq, sent, window, polling, rows, replies, posted, fetched, requests>>
  BY DEF Refresh
<1> HIDE DEF mine
<1>3. 0 \in Numbers
  BY BoundsAssumption DEF Numbers
<1>4. last' \in [Users -> [Rooms -> Numbers]]
  BY <1>2, <1>3 DEF TypeOK
<1>5. RoomsMarked
  BY <1>2, SameRooms DEF RoomsMarked
<1>6. QED
  BY <1>1, <1>2, <1>4, <1>5, RoomTyped DEF TypeOK

\* What a poll, or an opened window, takes from the server and sends.
AnswerOf(u, r, full, stored) ==
    LET in == u \in room[r].members
    IN  [full |-> full, last |-> IF in THEN LastId(r) ELSE hint[u][r],
         lines |-> IF in THEN Each(Asked(u, r, full, stored), LineOf) ELSE <<>>]

LEMMA AskType ==
    ASSUME TypeOK, NEW u \in Users, NEW r \in Rooms, NEW full \in BOOLEAN, NEW stored,
           Marked(room[r].messages, stored), Ask(u, r, full, stored)
    PROVE  /\ RoomsMarked
           /\ AnswerOf(u, r, full, stored) \in Reply
           /\ replies' = [replies EXCEPT ![u][r] = Append(@, AnswerOf(u, r, full, stored))]
           /\ replies' \in [Users -> [Rooms -> Seq(Reply)]]
           /\ fetched' \in [Users -> SUBSET Keys]
<1> DEFINE new == Asked(u, r, full, stored)
           ms == Each(stored, LAMBDA m : Received(m, u))
<1>1. stored \in Seq(Message)
  BY DEF Marked
<1>2. new \in Seq(Message)
  BY <1>1, AskedMembers
<1>3. Marked(room[r].messages, ms)
  <2>1. Marked(stored, ms)
    BY <1>1, ReceivedMarks
  <2> HIDE DEF ms
  <2>2. QED
    BY <2>1, MarkedAgain
<1>4. RoomsMarked
  <2>1. room' = [room EXCEPT ![r].messages = ms] \/ room' = room
    BY DEF Ask
  <2> HIDE DEF ms
  <2>2. QED
    BY <1>3, <2>1, OneRoomMarked, SameRooms DEF RoomsMarked
<1>5. AnswerOf(u, r, full, stored) \in Reply
  <2>1. Each(new, LineOf) \in Seq(Line) /\ <<>> \in Seq(Line)
    BY <1>2, LinesOf
  <2>2. LastId(r) \in Numbers /\ hint[u][r] \in Numbers
    BY RoomTyped DEF TypeOK
  <2> DEFINE lines == Each(new, LineOf)
  <2>3. AnswerOf(u, r, full, stored) =
           [full |-> full, last |-> IF u \in room[r].members THEN LastId(r) ELSE hint[u][r],
            lines |-> IF u \in room[r].members THEN lines ELSE <<>>]
    BY DEF AnswerOf
  <2>4. lines \in Seq(Line)
    BY <2>1
  <2> HIDE DEF lines
  <2>5. QED
    BY <2>1, <2>2, <2>3, <2>4 DEF Reply
<1>6. replies' = [replies EXCEPT ![u][r] = Append(@, AnswerOf(u, r, full, stored))]
  BY DEF Ask, AnswerOf
<1>7. replies' \in [Users -> [Rooms -> Seq(Reply)]]
  <2>1. replies[u][r] \in Seq(Reply)
    BY DEF TypeOK
  <2>2. Append(replies[u][r], AnswerOf(u, r, full, stored)) \in Seq(Reply)
    BY <1>5, <2>1
  <2>3. QED
    BY <1>6, <2>2 DEF TypeOK
<1>8. fetched' \in [Users -> SUBSET Keys]
  <2>1. KeysOf(new) \subseteq Keys
    <3>1. \A i \in DOMAIN new : new[i] \in Message
      BY <1>2
    <3>2. QED
      BY <3>1 DEF KeysOf, Message
  <2> DEFINE ks == KeysOf(new)
  <2>2. fetched' = [fetched EXCEPT ![u] = @ \cup ks] \/ fetched' = fetched
    BY DEF Ask
  <2>3. ks \subseteq Keys
    BY <2>1
  <2> HIDE DEF ks, new
  <2>4. fetched \in [Users -> SUBSET Keys]
    BY DEF TypeOK
  <2>5. [fetched EXCEPT ![u] = @ \cup ks] \in [Users -> SUBSET Keys]
    BY <2>3, <2>4
  <2>6. QED
    BY <2>2, <2>4, <2>5
<1>9. QED
  BY <1>4, <1>5, <1>6, <1>7, <1>8

LEMMA PollStep ==
    ASSUME TypeOK, NEW u \in Users, NEW r \in Rooms, Poll(u, r)
    PROVE  TypeOK' /\ RoomsMarked
<1>1. Marked(room[r].messages, room[r].messages)
  BY RoomTyped, MarkedSelf
<1>2. /\ Ask(u, r, FALSE, room[r].messages)
      /\ polling' = [polling EXCEPT ![u] = @ \cup {r}]
      /\ UNCHANGED <<seq, sent, known, hint, last, unread, window, rows, posted, requests>>
  BY DEF Poll, Fetch
<1>3. RoomsMarked /\ replies' \in [Users -> [Rooms -> Seq(Reply)]] /\ fetched' \in [Users -> SUBSET Keys]
  BY <1>1, <1>2, AskType
<1>4. QED
  BY <1>2, <1>3, RoomsMarkedType DEF TypeOK

LEMMA OpenStep ==
    ASSUME TypeOK, NEW u \in Users, NEW r \in Rooms, Open(u, r)
    PROVE  TypeOK' /\ RoomsMarked
<1> DEFINE stored == MarkRead(u, r, UpTo(u, r, last[u][r]))[r].messages
<1>1. Marked(room[r].messages, stored)
  BY MarkReadMarks DEF Receipted
<1>2. /\ Ask(u, r, TRUE, stored) /\ User
      /\ window' = [window EXCEPT ![u] = @ \cup {r}]
      /\ unread' = [unread EXCEPT ![u] = @ \ {r}]
      /\ polling' = [polling EXCEPT ![u] = @ \cup {r}]
      /\ UNCHANGED <<seq, sent, known, hint, last, rows, posted>>
  BY DEF Open, Fetch
<1> HIDE DEF stored
<1>3. RoomsMarked /\ replies' \in [Users -> [Rooms -> Seq(Reply)]] /\ fetched' \in [Users -> SUBSET Keys]
  BY <1>1, <1>2, AskType
<1>4. QED
  BY <1>2, <1>3, RoomsMarkedType, UserCounts DEF TypeOK

LEMMA CloseStep ==
    ASSUME TypeOK, NEW u \in Users, NEW r \in Rooms, Close(u, r)
    PROVE  TypeOK' /\ RoomsMarked
<1>1. RoomsMarked
  BY SameRooms DEF RoomsMarked, Close
<1>2. <<>> \in Seq(Line)
  OBVIOUS
<1>3. rows' \in [Users -> [Rooms -> Seq(Line)]]
  BY <1>2 DEF TypeOK, Close
<1>4. QED
  BY <1>1, <1>3, UserCounts, RoomsMarkedType DEF TypeOK, Close

LEMMA ArriveStep ==
    ASSUME TypeOK, NEW u \in Users, NEW r \in Rooms, Arrive(u, r)
    PROVE  TypeOK' /\ RoomsMarked
<1>1. PICK i \in DOMAIN replies[u][r] :
        LET reply == replies[u][r][i]
            shown == IF reply.full THEN <<>> ELSE rows[u][r]
            new == NewLines(shown, reply.lines)
            l == HighId(last[u][r], reply.lines)
            open == r \in window[u]
        IN  /\ replies' = [replies EXCEPT ![u][r] = RemoveAt(@, i)]
            /\ known' = [known EXCEPT ![u] = @ \cup IF u \in room[r].members THEN {r} ELSE {}]
            /\ hint' = [hint EXCEPT ![u][r] = reply.last]
            /\ last' = [last EXCEPT ![u][r] = l]
            /\ rows' = IF open THEN [rows EXCEPT ![u][r] = shown \o new] ELSE rows
            /\ polling' = [polling EXCEPT ![u] = @ \ {r}]
            /\ unread' = IF ~open /\ ~reply.full /\ \E k \in DOMAIN new : new[k].sender # u
                         THEN [unread EXCEPT ![u] = @ \cup {r}] ELSE unread
            /\ room' = IF open THEN MarkRead(u, r, IF l > 0 THEN l ELSE reply.last) ELSE room
            /\ UNCHANGED <<seq, sent, window, posted, fetched, requests>>
  BY DEF Arrive
<1> DEFINE reply == replies[u][r][i]
           shown == IF reply.full THEN <<>> ELSE rows[u][r]
           joined == shown \o NewLines(shown, reply.lines)
           l == HighId(last[u][r], reply.lines)
           left == RemoveAt(replies[u][r], i)
           upTo == IF l > 0 THEN l ELSE reply.last
<1>2. /\ replies' = [replies EXCEPT ![u][r] = left]
      /\ known' = [known EXCEPT ![u] = @ \cup IF u \in room[r].members THEN {r} ELSE {}]
      /\ hint' = [hint EXCEPT ![u][r] = reply.last]
      /\ last' = [last EXCEPT ![u][r] = l]
      /\ rows' = [rows EXCEPT ![u][r] = joined] \/ rows' = rows
      /\ polling' = [polling EXCEPT ![u] = @ \ {r}]
      /\ unread' = [unread EXCEPT ![u] = @ \cup {r}] \/ unread' = unread
      /\ room' = MarkRead(u, r, upTo) \/ room' = room
      /\ UNCHANGED <<seq, sent, window, posted, fetched, requests>>
  BY <1>1 DEF TypeOK
<1>3. replies[u][r] \in Seq(Reply) /\ reply \in Reply
  BY DEF TypeOK
<1>4. reply.last \in Numbers /\ reply.lines \in Seq(Line)
  BY <1>3 DEF Reply
<1>5. l \in Numbers
  BY <1>4, HighIdType DEF TypeOK
<1>6. joined \in Seq(Line)
  <2>1. <<>> \in Seq(Line) /\ rows[u][r] \in Seq(Line)
    BY DEF TypeOK
  <2>2. shown \in Seq(Line)
    BY <2>1
  <2> HIDE DEF shown, reply
  <2>3. QED
    BY <1>4, <2>2, JoinedLines
<1>7. left \in Seq(Reply)
  BY <1>3, RemovedMembers
<1>8. RoomsMarked
  <2> HIDE DEF upTo
  <2>1. QED
    BY <1>2, SameRooms, MarkReadMarks DEF RoomsMarked
<1> HIDE DEF reply, shown, joined, l, left, upTo
<1>9. replies' \in [Users -> [Rooms -> Seq(Reply)]]
  BY <1>2, <1>7 DEF TypeOK
<1>10. /\ known' \in [Users -> SUBSET Rooms] /\ unread' \in [Users -> SUBSET Rooms]
       /\ polling' \in [Users -> SUBSET Rooms]
  <2>1. known \in [Users -> SUBSET Rooms] /\ unread \in [Users -> SUBSET Rooms]
    BY DEF TypeOK
  <2>2. known' \in [Users -> SUBSET Rooms]
    BY <1>2, <2>1
  <2>3. [unread EXCEPT ![u] = @ \cup {r}] \in [Users -> SUBSET Rooms]
    BY <2>1
  <2>4. polling' \in [Users -> SUBSET Rooms]
    BY <1>2 DEF TypeOK
  <2>5. QED
    BY <1>2, <2>1, <2>2, <2>3, <2>4
<1>11. hint' \in [Users -> [Rooms -> Numbers]] /\ last' \in [Users -> [Rooms -> Numbers]]
  BY <1>2, <1>4, <1>5 DEF TypeOK
<1>12. rows' \in [Users -> [Rooms -> Seq(Line)]]
  <2>1. rows \in [Users -> [Rooms -> Seq(Line)]]
    BY DEF TypeOK
  <2>2. [rows EXCEPT ![u][r] = joined] \in [Users -> [Rooms -> Seq(Line)]]
    BY <1>6, <2>1
  <2>3. QED
    BY <1>2, <2>1, <2>2
<1>13. QED
  BY <1>2, <1>8, <1>9, <1>10, <1>11, <1>12, RoomsMarkedType DEF TypeOK

\* The message a user sends, and the messages of its room then.
NewMessage(u) ==
    [id |-> seq', key |-> sent', sender |-> u, delivered |-> {u}, read |-> {u}]

LEMMA SendMessages ==
    ASSUME TypeOK, Counted, NEW u \in Users, NEW r \in Rooms, Send(u, r)
    PROVE  /\ NewMessage(u) \in Message /\ LineOf(NewMessage(u)) \in Line
           /\ Append(room[r].messages, NewMessage(u)) \in Seq(Message)
           /\ room'[r].messages = Trimmed(Append(room[r].messages, NewMessage(u)))
           /\ \A q \in Rooms : q # r => room'[q].messages = room[q].messages
           /\ room' \in [Rooms -> Room]
           /\ \A q \in Rooms : Len(room'[q].messages) <= MaxKept
           /\ posted' = [posted EXCEPT ![u][r] = <<LineOf(NewMessage(u))>>]
           /\ seq' \in Numbers /\ sent' \in Keys /\ sent' = sent + 1
<1> DEFINE m == NewMessage(u)
           ms == Trimmed(Append(room[r].messages, m))
<1>1. /\ seq' \in Numbers /\ sent' \in Numbers /\ sent' \in Keys /\ sent' = sent + 1
  BY BoundsAssumption DEF TypeOK, Counted, Send, Numbers, Keys
<1>2. m \in Message /\ LineOf(m) \in Line
  BY <1>1 DEF NewMessage, Message, LineOf, Line
<1>3. /\ room' = [room EXCEPT ![r].messages = ms]
      /\ posted' = [posted EXCEPT ![u][r] = <<LineOf(m)>>]
  BY DEF Send, NewMessage, TypeOK
<1> HIDE DEF m
<1>4. Append(room[r].messages, m) \in Seq(Message)
  BY <1>2, RoomTyped
<1>5. ms \in Seq(Message) /\ Len(ms) <= MaxKept
  BY <1>4, TrimmedMembers
<1> HIDE DEF ms
<1>6. [room[r] EXCEPT !.messages = ms] \in Room
  BY <1>5, RoomTyped DEF Room
<1>7. room' = [room EXCEPT ![r] = [room[r] EXCEPT !.messages = ms]]
  BY <1>3 DEF TypeOK
<1>8. room' \in [Rooms -> Room]
  BY <1>6, <1>7 DEF TypeOK
<1>9. room'[r].messages = ms
  BY <1>7, RoomTyped DEF TypeOK, Room
<1>10. \A q \in Rooms : q # r => room'[q].messages = room[q].messages
  BY <1>7 DEF TypeOK
<1>11. \A q \in Rooms : Len(room'[q].messages) <= MaxKept
  BY <1>5, <1>9, <1>10, RoomTyped
<1>12. QED
  BY <1>1, <1>2, <1>3, <1>4, <1>8, <1>9, <1>10, <1>11 DEF m, ms

LEMMA SendStep ==
    ASSUME TypeOK, Counted, NEW u \in Users, NEW r \in Rooms, Send(u, r)
    PROVE  TypeOK'
<1> DEFINE line == LineOf(NewMessage(u))
<1>1. /\ line \in Line
      /\ room' \in [Rooms -> Room] /\ \A q \in Rooms : Len(room'[q].messages) <= MaxKept
      /\ posted' = [posted EXCEPT ![u][r] = <<line>>]
      /\ seq' \in Numbers /\ sent' \in Keys
  BY SendMessages
<1>2. User /\ fetched' = [fetched EXCEPT ![u] = @ \cup {sent'}] /\ UNCHANGED <<page, replies>>
  BY DEF Send
<1> HIDE DEF line
<1>3. <<line>> \in Seq(Line)
  BY <1>1
<1>4. posted' \in [Users -> [Rooms -> Seq(Line)]]
  BY <1>1, <1>3 DEF TypeOK
<1>5. sent' \in Numbers
  BY <1>1, BoundsAssumption DEF Keys, Numbers
<1>6. fetched' \in [Users -> SUBSET Keys]
  BY <1>1, <1>2 DEF TypeOK
<1>7. QED
  BY <1>1, <1>2, <1>4, <1>5, <1>6, UserCounts DEF TypeOK, page

LEMMA SentStep ==
    ASSUME TypeOK, NEW u \in Users, NEW r \in Rooms, Sent(u, r)
    PROVE  TypeOK' /\ RoomsMarked
<1> DEFINE l == HighId(last[u][r], posted[u][r])
           joined == rows[u][r] \o NewLines(rows[u][r], posted[u][r])
<1>1. /\ posted' = [posted EXCEPT ![u][r] = <<>>]
      /\ last' = [last EXCEPT ![u][r] = l]
      /\ rows' = [rows EXCEPT ![u][r] = joined] \/ rows' = rows
      /\ room' = MarkRead(u, r, l) \/ room' = room
      /\ UNCHANGED <<seq, sent, known, hint, unread, window, polling, replies, fetched, requests>>
  BY DEF Sent, TypeOK
<1>2. posted[u][r] \in Seq(Line) /\ rows[u][r] \in Seq(Line) /\ <<>> \in Seq(Line)
  BY DEF TypeOK
<1>3. l \in Numbers
  BY <1>2, HighIdType DEF TypeOK
<1>4. joined \in Seq(Line)
  BY <1>2, JoinedLines
<1> HIDE DEF l, joined
<1>5. RoomsMarked
  BY <1>1, SameRooms, MarkReadMarks DEF RoomsMarked
<1>6. /\ posted' \in [Users -> [Rooms -> Seq(Line)]]
      /\ last' \in [Users -> [Rooms -> Numbers]]
  BY <1>1, <1>2, <1>3 DEF TypeOK
<1>7. rows' \in [Users -> [Rooms -> Seq(Line)]]
  <2>1. rows \in [Users -> [Rooms -> Seq(Line)]]
    BY DEF TypeOK
  <2>2. [rows EXCEPT ![u][r] = joined] \in [Users -> [Rooms -> Seq(Line)]]
    BY <1>4, <2>1
  <2>3. QED
    BY <1>1, <2>1, <2>2
<1>8. QED
  BY <1>1, <1>5, <1>6, <1>7, RoomsMarkedType DEF TypeOK

LEMMA ReloadStep ==
    ASSUME TypeOK, NEW u \in Users, Reload(u)
    PROVE  TypeOK' /\ RoomsMarked
<1>1. RoomsMarked
  BY SameRooms DEF RoomsMarked, Reload
<1>2. <<>> \in Seq(Line) /\ <<>> \in Seq(Reply) /\ 0 \in Numbers
  BY BoundsAssumption DEF Numbers
<1>3. /\ hint' \in [Users -> [Rooms -> Numbers]]
      /\ rows' \in [Users -> [Rooms -> Seq(Line)]]
      /\ replies' \in [Users -> [Rooms -> Seq(Reply)]]
      /\ posted' \in [Users -> [Rooms -> Seq(Line)]]
  BY <1>2 DEF TypeOK, Reload, Blank
<1>4. QED
  BY <1>1, <1>3, UserCounts, RoomsMarkedType DEF TypeOK, Reload, Blank

LEMMA RestartStep ==
    ASSUME TypeOK, Restart
    PROVE  /\ TypeOK' /\ \A r \in Rooms : room'[r].messages = <<>>
           /\ \A u \in Users, r \in Rooms : posted'[u][r] = <<>> /\ replies'[u][r] = <<>>
<1>1. <<>> \in Seq(Line) /\ <<>> \in Seq(Reply) /\ <<>> \in Seq(Message) /\ 0 \in Numbers
  BY BoundsAssumption DEF Numbers
<1>2. \A r \in Rooms : room'[r] = NoRoom
  BY DEF Restart
<1>3. NoRoom \in Room /\ NoRoom.messages = <<>> /\ Len(NoRoom.messages) = 0
  BY <1>1 DEF NoRoom, Room
<1>4. room' \in [Rooms -> Room] /\ \A r \in Rooms : Len(room'[r].messages) <= MaxKept
  <2>1. room' = [r \in Rooms |-> NoRoom] /\ MaxKept >= 0
    BY BoundsAssumption DEF Restart
  <2>2. QED
    BY <1>2, <1>3, <2>1
<1>5. /\ replies' \in [Users -> [Rooms -> Seq(Reply)]]
      /\ posted' \in [Users -> [Rooms -> Seq(Line)]]
      /\ seq' \in Numbers
      /\ \A u \in Users, r \in Rooms : posted'[u][r] = <<>> /\ replies'[u][r] = <<>>
  BY <1>1 DEF Restart
<1>6. QED
  BY <1>2, <1>3, <1>4, <1>5, UserCounts DEF TypeOK, Restart

-----------------------------------------------------------------------------
(* One step.                                                                *)

LEMMA InitTyped == Init => TypeOK /\ Counted
<1> SUFFICES ASSUME Init PROVE TypeOK /\ Counted
  OBVIOUS
<1>1. /\ <<>> \in Seq(Line) /\ <<>> \in Seq(Reply) /\ <<>> \in Seq(Message) /\ Len(<<>>) = 0
      /\ 0 \in Numbers /\ 0 \in 0..MaxRequests /\ 0 <= MaxKept
  BY BoundsAssumption DEF Numbers
<1>2. NoRoom \in Room /\ NoRoom.messages = <<>>
  BY <1>1 DEF NoRoom, Room
<1>3. room = [r \in Rooms |-> NoRoom]
  BY DEF Init
<1>4. room \in [Rooms -> Room] /\ \A r \in Rooms : Len(room[r].messages) <= MaxKept
  BY <1>1, <1>2, <1>3
<1>5. QED
  BY <1>1, <1>4 DEF Init, TypeOK, Counted

\* A step adds receipts and members, or sends a message, or empties the server.
LEMMA OneStep ==
    ASSUME TypeOK, Counted, [Next]_vars
    PROVE  /\ TypeOK' /\ Counted'
           /\ \/ RoomsMarked /\ seq' = seq /\ sent' = sent
              \/ \E u \in Users, r \in Rooms : Send(u, r)
              \/ Restart
<1>1. ASSUME NEW u \in Users,
             \/ \E p \in Private : OpenPrivate(u, p)
             \/ \E g \in Groups, invited \in SUBSET Users :
                  CreateGroup(u, g, invited) \/ AddMembers(u, g, invited)
      PROVE  TypeOK' /\ RoomsMarked /\ seq' = seq /\ sent' = sent
  BY <1>1, RoomStep DEF OpenPrivate, CreateGroup, AddMembers
<1>2. ASSUME NEW u \in Users, Refresh(u)
      PROVE  TypeOK' /\ RoomsMarked /\ seq' = seq /\ sent' = sent
  BY <1>2, RefreshStep DEF Refresh
<1>3. ASSUME NEW u \in Users, Reload(u)
      PROVE  TypeOK' /\ RoomsMarked /\ seq' = seq /\ sent' = sent
  BY <1>3, ReloadStep DEF Reload
<1>4. ASSUME NEW u \in Users, NEW r \in Rooms, Poll(u, r)
      PROVE  TypeOK' /\ RoomsMarked /\ seq' = seq /\ sent' = sent
  BY <1>4, PollStep DEF Poll
<1>5. ASSUME NEW u \in Users, NEW r \in Rooms, Arrive(u, r)
      PROVE  TypeOK' /\ RoomsMarked /\ seq' = seq /\ sent' = sent
  BY <1>5, ArriveStep DEF Arrive
<1>6. ASSUME NEW u \in Users, NEW r \in Rooms, Open(u, r)
      PROVE  TypeOK' /\ RoomsMarked /\ seq' = seq /\ sent' = sent
  BY <1>6, OpenStep DEF Open
<1>7. ASSUME NEW u \in Users, NEW r \in Rooms, Close(u, r)
      PROVE  TypeOK' /\ RoomsMarked /\ seq' = seq /\ sent' = sent
  BY <1>7, CloseStep DEF Close
<1>8. ASSUME NEW u \in Users, NEW r \in Rooms, Sent(u, r)
      PROVE  TypeOK' /\ RoomsMarked /\ seq' = seq /\ sent' = sent
  BY <1>8, SentStep DEF Sent
<1>9. ASSUME NEW u \in Users, NEW r \in Rooms, Send(u, r)
      PROVE  TypeOK' /\ Counted'
  <2>1. seq' = seq + 1 /\ sent' = sent + 1
    BY <1>9 DEF Send
  <2>2. seq \in Int /\ sent \in Int
    BY DEF TypeOK, Numbers
  <2>3. Counted'
    BY <2>1, <2>2 DEF Counted
  <2>4. QED
    BY <1>9, <2>3, SendStep
<1>10. ASSUME Restart
       PROVE  TypeOK' /\ Counted'
  <2>1. seq' = 0 /\ sent' = sent
    BY <1>10 DEF Restart
  <2>2. QED
    BY <1>10, <2>1, RestartStep DEF TypeOK, Counted, Numbers
<1>11. ASSUME UNCHANGED vars
       PROVE  TypeOK' /\ RoomsMarked /\ seq' = seq /\ sent' = sent
  <2>1. TypeOK'
    BY <1>11 DEF vars, page, TypeOK
  <2>2. QED
    BY <1>11, <2>1, SameRooms DEF vars, RoomsMarked
<1>12. ASSUME seq' = seq, sent' = sent
       PROVE  Counted'
  BY <1>12 DEF Counted
<1>13. QED
  BY <1>1, <1>2, <1>3, <1>4, <1>5, <1>6, <1>7, <1>8, <1>9, <1>10, <1>11, <1>12 DEF Next

\* Chat has its types, for any users, rooms and bounds; in particular a room
\* never keeps more than its last messages, whoever sends.
THEOREM TypeCorrect == Spec => []TypeOK
<1>1. Init => TypeOK /\ Counted
  BY InitTyped
<1>2. TypeOK /\ Counted /\ [Next]_vars => TypeOK' /\ Counted'
  BY OneStep
<1>3. QED
  BY <1>1, <1>2, PTL DEF Spec

-----------------------------------------------------------------------------
(* Receipts, and where a message is.                                        *)

\* What a room holds after a message was sent to it: older messages, each where
\* it was or further up, and the new one at the end.
LEMMA SentMembers ==
    ASSUME TypeOK, Counted, NEW u \in Users, NEW r \in Rooms, Send(u, r)
    PROVE  \E d \in Nat : \A i \in DOMAIN room'[r].messages :
              \/ i + d \in DOMAIN room[r].messages /\ room'[r].messages[i] = room[r].messages[i + d]
              \/ i + d = Len(room[r].messages) + 1 /\ room'[r].messages[i] = NewMessage(u)
<1> DEFINE ms == room[r].messages
           m == NewMessage(u)
           all == Append(ms, m)
<1>1. ms \in Seq(Message) /\ m \in Message /\ all \in Seq(Message) /\ room'[r].messages = Trimmed(all)
  BY RoomTyped, SendMessages
<1> HIDE DEF m
<1>2. \A i \in DOMAIN all : \/ i \in DOMAIN ms /\ all[i] = ms[i]
                            \/ i = Len(ms) + 1 /\ all[i] = m
  BY <1>1
<1> HIDE DEF ms, all
<1>3. PICK d \in Nat : \A i \in DOMAIN Trimmed(all) : i + d \in DOMAIN all /\ Trimmed(all)[i] = all[i + d]
  BY <1>1, TrimmedMembers
<1>4. \A i \in DOMAIN Trimmed(all) :
         \/ i + d \in DOMAIN ms /\ Trimmed(all)[i] = ms[i + d]
         \/ i + d = Len(ms) + 1 /\ Trimmed(all)[i] = m
  BY <1>2, <1>3
<1>5. QED
  BY <1>1, <1>4 DEF ms, m

\* A message in a room is told of, so the key of the next one is new.
LEMMA StoredKeys ==
    ASSUME TypeOK, OneNumber, NEW r \in Rooms, NEW i \in DOMAIN room[r].messages
    PROVE  /\ room[r].messages[i] \in Message
           /\ Told(room[r].messages[i].key, room[r].messages[i].id)
           /\ room[r].messages[i].key <= sent
<1>1. room[r].messages[i] \in Message
  BY RoomTyped
<1>2. Told(room[r].messages[i].key, room[r].messages[i].id)
  BY DEF Told, Tells
<1>3. QED
  BY <1>1, <1>2 DEF OneNumber, Message

LEMMA ReceiptsStep ==
    ASSUME TypeOK, Counted, Receipts, [Next]_vars
    PROVE  Receipts'
<1> SUFFICES ASSUME NEW r \in Rooms, NEW i \in DOMAIN room'[r].messages
             PROVE  room'[r].messages[i].read \subseteq room'[r].messages[i].delivered
  BY DEF Receipts
<1>1. CASE RoomsMarked
  BY <1>1 DEF RoomsMarked, Receipted, Marked, Receipts
<1>2. ASSUME NEW u \in Users, NEW q \in Rooms, Send(u, q)
      PROVE  room'[r].messages[i].read \subseteq room'[r].messages[i].delivered
  <2>1. CASE r # q
    BY <1>2, <2>1, SendMessages DEF Receipts
  <2>2. CASE r = q
    <3>1. \/ \E j \in DOMAIN room[r].messages : room'[r].messages[i] = room[r].messages[j]
          \/ room'[r].messages[i] = NewMessage(u)
      BY <1>2, <2>2, SentMembers
    <3>2. NewMessage(u).read \subseteq NewMessage(u).delivered
      BY DEF NewMessage
    <3>3. QED
      BY <3>1, <3>2 DEF Receipts
  <2>3. QED
    BY <2>1, <2>2
<1>3. CASE Restart
  BY <1>3, RestartStep
<1>4. QED
  BY <1>1, <1>2, <1>3, OneStep

LEMMA StoredOnceStep ==
    ASSUME TypeOK, Counted, StoredOnce, OneNumber, [Next]_vars
    PROVE  StoredOnce'
<1> SUFFICES ASSUME NEW r \in Rooms, NEW q \in Rooms,
                    NEW i \in DOMAIN room'[r].messages, NEW j \in DOMAIN room'[q].messages,
                    room'[r].messages[i].key = room'[q].messages[j].key
             PROVE  r = q /\ i = j
  BY DEF StoredOnce
<1>1. CASE RoomsMarked
  BY <1>1 DEF RoomsMarked, Receipted, Marked, StoredOnce
<1>2. ASSUME NEW u \in Users, NEW o \in Rooms, Send(u, o)
      PROVE  r = q /\ i = j
  <2> DEFINE m == NewMessage(u)
  <2>1. m.key = sent + 1
    BY <1>2, SendMessages DEF NewMessage
  <2>2. \A p \in Rooms : \A k \in DOMAIN room[p].messages : room[p].messages[k].key # m.key
    <3>1. sent \in Int
      BY DEF TypeOK, Numbers
    <3>2. SUFFICES ASSUME NEW p \in Rooms, NEW k \in DOMAIN room[p].messages
                   PROVE  room[p].messages[k].key # m.key
      OBVIOUS
    <3>3. room[p].messages[k].key <= sent /\ room[p].messages[k].key \in Int
      BY StoredKeys DEF Message, Keys
    <3>4. QED
      BY <2>1, <3>1, <3>3
  <2>3. PICK d \in Nat : \A k \in DOMAIN room'[o].messages :
           \/ k + d \in DOMAIN room[o].messages /\ room'[o].messages[k] = room[o].messages[k + d]
           \/ k + d = Len(room[o].messages) + 1 /\ room'[o].messages[k] = m
    BY <1>2, SentMembers
  <2>4. \A p \in Rooms : p # o => room'[p].messages = room[p].messages
    BY <1>2, SendMessages
  <2> HIDE DEF m
  <2>5. i \in Int /\ j \in Int
    <3>1. room'[r].messages \in Seq(Message) /\ room'[q].messages \in Seq(Message)
      BY <1>2, SendMessages DEF Room
    <3>2. QED
      BY <3>1
  <2>6. CASE r = o /\ q = o
    BY <2>2, <2>3, <2>5, <2>6 DEF StoredOnce
  <2>7. CASE r = o /\ q # o
    BY <2>2, <2>3, <2>4, <2>7 DEF StoredOnce
  <2>8. CASE r # o /\ q = o
    BY <2>2, <2>3, <2>4, <2>8 DEF StoredOnce
  <2>9. CASE r # o /\ q # o
    BY <2>4, <2>9 DEF StoredOnce
  <2>10. QED
    BY <2>6, <2>7, <2>8, <2>9
<1>3. CASE Restart
  BY <1>3, RestartStep
<1>4. QED
  BY <1>1, <1>2, <1>3, OneStep

-----------------------------------------------------------------------------
(* A message has one number wherever it is told of.                         *)

\* Nothing is told of that was not told of before.
Traced == \A k, n : Told(k, n)' => Told(k, n)

\* The same of what the pages have and what is on its way to them.
PagesTraced ==
    \A u \in Users, r \in Rooms : \A k, n :
        /\ Tells(rows'[u][r], k, n) => Told(k, n)
        /\ Tells(posted'[u][r], k, n) => Told(k, n)
        /\ \A i \in DOMAIN replies'[u][r] : Tells(replies'[u][r][i].lines, k, n) => Told(k, n)

LEMMA TracedPages ==
    ASSUME RoomsMarked, PagesTraced
    PROVE  Traced
<1> SUFFICES ASSUME NEW k, NEW n, Told(k, n)'
             PROVE  Told(k, n)
  BY DEF Traced
<1>1. ASSUME NEW r \in Rooms, Tells(room'[r].messages, k, n)
      PROVE  Told(k, n)
  <2>1. Marked(room[r].messages, room'[r].messages)
    BY DEF RoomsMarked, Receipted
  <2>2. Tells(room[r].messages, k, n)
    BY <1>1, <2>1 DEF Marked, Tells
  <2>3. QED
    BY <2>2 DEF Told
<1>2. \/ \E r \in Rooms : Tells(room'[r].messages, k, n)
      \/ \E u \in Users, r \in Rooms :
            \/ Tells(rows'[u][r], k, n)
            \/ Tells(posted'[u][r], k, n)
            \/ \E i \in DOMAIN replies'[u][r] : Tells(replies'[u][r][i].lines, k, n)
  BY DEF Told
<1>3. QED
  BY <1>1, <1>2 DEF PagesTraced

LEMMA PagesTell ==
    \A u \in Users, r \in Rooms : \A k, n :
        /\ Tells(rows[u][r], k, n) => Told(k, n)
        /\ Tells(posted[u][r], k, n) => Told(k, n)
        /\ \A i \in DOMAIN replies[u][r] : Tells(replies[u][r][i].lines, k, n) => Told(k, n)
BY DEF Told

LEMMA NothingTold == \A k, n : ~Tells(<<>>, k, n)
BY DEF Tells

LEMMA NothingTwice == Distinct(<<>>)
BY DEF Distinct

\* Lines that are told of elsewhere agree on the number of a message.
LEMMA SameNumber ==
    ASSUME OneNumber, NEW a \in Seq(Line), NEW b \in Seq(Line),
           \A k, n : Tells(a, k, n) \/ Tells(b, k, n) => Told(k, n),
           NEW i \in DOMAIN a, NEW j \in DOMAIN b, a[i].key = b[j].key
    PROVE  a[i].id = b[j].id
<1>1. a[i] \in Line /\ b[j] \in Line
  OBVIOUS
<1>2. Told(a[i].key, a[i].id) /\ Told(b[j].key, b[j].id)
  BY DEF Tells
<1>3. a[i].key \in Keys /\ a[i].id \in Numbers /\ b[j].id \in Numbers
  BY <1>1 DEF Line
<1>4. QED
  BY <1>2, <1>3 DEF OneNumber

\* A window gets the new lines of an answer.
LEMMA Joins ==
    ASSUME TypeOK, OneNumber, NEW shown \in Seq(Line), NEW lines \in Seq(Line),
           \A k, n : Tells(shown, k, n) \/ Tells(lines, k, n) => Told(k, n),
           Distinct(shown), Distinct(lines)
    PROVE  /\ Distinct(shown \o NewLines(shown, lines))
           /\ \A k, n : Tells(shown \o NewLines(shown, lines), k, n) => Told(k, n)
<1>1. \A i \in DOMAIN shown, j \in DOMAIN lines :
         shown[i].key = lines[j].key => shown[i].id = lines[j].id
  BY SameNumber
<1>2. QED
  BY <1>1, JoinedLines

LEMMA ArriveTraced ==
    ASSUME TypeOK, OneNumber, AnswersDistinct, RowsDistinct,
           NEW u \in Users, NEW r \in Rooms, Arrive(u, r)
    PROVE  PagesTraced /\ AnswersDistinct' /\ RowsDistinct'
<1>1. PICK i \in DOMAIN replies[u][r] :
        LET reply == replies[u][r][i]
            shown == IF reply.full THEN <<>> ELSE rows[u][r]
        IN  /\ replies' = [replies EXCEPT ![u][r] = RemoveAt(@, i)]
            /\ rows' = IF r \in window[u]
                       THEN [rows EXCEPT ![u][r] = shown \o NewLines(shown, reply.lines)] ELSE rows
            /\ posted' = posted
  BY DEF Arrive
<1> DEFINE lines == replies[u][r][i].lines
           shown == IF replies[u][r][i].full THEN <<>> ELSE rows[u][r]
           joined == shown \o NewLines(shown, lines)
           left == RemoveAt(replies[u][r], i)
<1>2. /\ replies' = [replies EXCEPT ![u][r] = left]
      /\ rows' = [rows EXCEPT ![u][r] = joined] \/ rows' = rows
      /\ posted' = posted
  BY <1>1 DEF TypeOK
<1>3. replies[u][r] \in Seq(Reply) /\ replies[u][r][i] \in Reply
  BY DEF TypeOK
<1>4. lines \in Seq(Line) /\ Distinct(lines) /\ \A k, n : Tells(lines, k, n) => Told(k, n)
  BY <1>3, PagesTell DEF Reply, AnswersDistinct
<1>5. shown \in Seq(Line) /\ Distinct(shown) /\ \A k, n : Tells(shown, k, n) => Told(k, n)
  <2>1. <<>> \in Seq(Line) /\ rows[u][r] \in Seq(Line) /\ Distinct(rows[u][r])
    BY DEF TypeOK, RowsDistinct
  <2>2. QED
    BY <2>1, PagesTell, NothingTold, NothingTwice
<1>6. \A c \in DOMAIN left : \E j \in DOMAIN replies[u][r] : left[c] = replies[u][r][j]
  BY <1>3, RemovedMembers
<1> HIDE DEF lines, shown, left
<1>7. Distinct(joined) /\ \A k, n : Tells(joined, k, n) => Told(k, n)
  BY <1>4, <1>5, Joins
<1> HIDE DEF joined
<1>8. ASSUME NEW v \in Users, NEW q \in Rooms
      PROVE  /\ rows'[v][q] = joined \/ rows'[v][q] = rows[v][q]
             /\ posted'[v][q] = posted[v][q]
             /\ \A c \in DOMAIN replies'[v][q] :
                   \E j \in DOMAIN replies[v][q] : replies'[v][q][c] = replies[v][q][j]
  <2>1. rows \in [Users -> [Rooms -> Seq(Line)]] /\ replies \in [Users -> [Rooms -> Seq(Reply)]]
    BY DEF TypeOK
  <2>2. rows'[v][q] = joined \/ rows'[v][q] = rows[v][q]
    <3>1. CASE rows' = [rows EXCEPT ![u][r] = joined]
      BY <2>1, <3>1
    <3>2. CASE rows' = rows
      BY <3>2
    <3>3. QED
      BY <1>2, <3>1, <3>2
  <2>3. (v = u /\ q = r /\ replies'[v][q] = left) \/ replies'[v][q] = replies[v][q]
    BY <1>2, <2>1
  <2>4. QED
    BY <1>2, <1>6, <2>2, <2>3
<1>9. PagesTraced
  BY <1>7, <1>8, PagesTell DEF PagesTraced
<1>10. QED
  BY <1>7, <1>8, <1>9 DEF AnswersDistinct, RowsDistinct

LEMMA SentTraced ==
    ASSUME TypeOK, OneNumber, AnswersDistinct, RowsDistinct,
           NEW u \in Users, NEW r \in Rooms, Sent(u, r)
    PROVE  PagesTraced /\ AnswersDistinct' /\ RowsDistinct'
<1> DEFINE lines == posted[u][r]
           shown == rows[u][r]
           joined == shown \o NewLines(shown, lines)
<1>1. /\ posted' = [posted EXCEPT ![u][r] = <<>>]
      /\ rows' = [rows EXCEPT ![u][r] = joined] \/ rows' = rows
      /\ replies' = replies
  BY DEF Sent, TypeOK
<1>2. /\ lines \in Seq(Line) /\ Distinct(lines) /\ shown \in Seq(Line) /\ Distinct(shown)
      /\ \A k, n : Tells(lines, k, n) \/ Tells(shown, k, n) => Told(k, n)
  BY PagesTell DEF TypeOK, AnswersDistinct, RowsDistinct
<1> HIDE DEF lines, shown
<1>3. Distinct(joined) /\ \A k, n : Tells(joined, k, n) => Told(k, n)
  BY <1>2, Joins
<1> HIDE DEF joined
<1>4. ASSUME NEW v \in Users, NEW q \in Rooms
      PROVE  /\ rows'[v][q] = joined \/ rows'[v][q] = rows[v][q]
             /\ posted'[v][q] = <<>> \/ posted'[v][q] = posted[v][q]
             /\ replies'[v][q] = replies[v][q]
  BY <1>1 DEF TypeOK
<1>5. PagesTraced
  BY <1>3, <1>4, PagesTell, NothingTold DEF PagesTraced
<1>6. QED
  BY <1>3, <1>4, <1>5, NothingTwice DEF AnswersDistinct, RowsDistinct

\* The answer to a poll, or to an opened window, tells of messages in the room.
LEMMA AnswerTells ==
    ASSUME TypeOK, StoredOnce, NEW u \in Users, NEW r \in Rooms, NEW full \in BOOLEAN,
           NEW stored, Marked(room[r].messages, stored)
    PROVE  /\ Distinct(AnswerOf(u, r, full, stored).lines)
           /\ \A k, n : Tells(AnswerOf(u, r, full, stored).lines, k, n) => Told(k, n)
<1> DEFINE new == Asked(u, r, full, stored)
           lines == Each(new, LineOf)
<1>1. stored \in Seq(Message) /\ Distinct(stored)
  BY DEF Marked, StoredOnce, Distinct
<1>2. /\ new \in Seq(Message) /\ Distinct(new)
      /\ \A k \in DOMAIN new : \E i \in DOMAIN stored : new[k] = stored[i]
  BY <1>1, AskedMembers
<1>3. /\ DOMAIN lines = DOMAIN new
      /\ \A i \in DOMAIN new : lines[i].key = new[i].key /\ lines[i].id = new[i].id
  <2> HIDE DEF new
  <2>1. QED
    BY <1>2, LinesOf
<1>4. AnswerOf(u, r, full, stored).lines = lines \/ AnswerOf(u, r, full, stored).lines = <<>>
  BY DEF AnswerOf
<1> HIDE DEF new, lines
<1>5. Distinct(lines)
  BY <1>2, <1>3 DEF Distinct
<1>6. ASSUME NEW k, NEW n, Tells(lines, k, n)
      PROVE  Told(k, n)
  <2>1. Tells(new, k, n)
    BY <1>3, <1>6 DEF Tells
  <2>2. Tells(stored, k, n)
    BY <1>2, <2>1 DEF Tells
  <2>3. Tells(room[r].messages, k, n)
    BY <2>2 DEF Tells, Marked
  <2>4. QED
    BY <2>3 DEF Told
<1>7. QED
  BY <1>4, <1>5, <1>6, NothingTold, NothingTwice

LEMMA AskTraced ==
    ASSUME TypeOK, StoredOnce, AnswersDistinct, RowsDistinct,
           NEW u \in Users, NEW r \in Rooms, NEW full \in BOOLEAN, NEW stored,
           Marked(room[r].messages, stored), Ask(u, r, full, stored),
           rows' = rows, posted' = posted
    PROVE  PagesTraced /\ AnswersDistinct' /\ RowsDistinct'
<1> DEFINE answer == AnswerOf(u, r, full, stored)
<1>1. /\ answer \in Reply
      /\ replies' = [replies EXCEPT ![u][r] = Append(@, answer)]
  BY AskType
<1>2. Distinct(answer.lines) /\ \A k, n : Tells(answer.lines, k, n) => Told(k, n)
  BY AnswerTells
<1> HIDE DEF answer
<1>3. ASSUME NEW v \in Users, NEW q \in Rooms, NEW c \in DOMAIN replies'[v][q]
      PROVE  \/ replies'[v][q][c] = answer
             \/ \E j \in DOMAIN replies[v][q] : replies'[v][q][c] = replies[v][q][j]
  <2>1. replies \in [Users -> [Rooms -> Seq(Reply)]]
    BY DEF TypeOK
  <2>2. replies'[v][q] = Append(replies[v][q], answer) \/ replies'[v][q] = replies[v][q]
    BY <1>1, <2>1
  <2>3. replies[v][q] \in Seq(Reply)
    BY <2>1
  <2>4. \A s \in Seq(Reply) : \A e \in DOMAIN Append(s, answer) :
           \/ Append(s, answer)[e] = answer
           \/ e \in DOMAIN s /\ Append(s, answer)[e] = s[e]
    BY <1>1
  <2>5. QED
    BY <1>3, <2>2, <2>3, <2>4
<1>4. PagesTraced
  BY <1>2, <1>3, PagesTell DEF PagesTraced
<1>5. AnswersDistinct'
  BY <1>2, <1>3 DEF AnswersDistinct
<1>6. QED
  BY <1>4, <1>5 DEF RowsDistinct

LEMMA PagesKept ==
    ASSUME AnswersDistinct, RowsDistinct,
           \A u \in Users, r \in Rooms :
              /\ rows'[u][r] = rows[u][r] \/ rows'[u][r] = <<>>
              /\ posted'[u][r] = posted[u][r] \/ posted'[u][r] = <<>>
              /\ replies'[u][r] = replies[u][r] \/ replies'[u][r] = <<>>
    PROVE  PagesTraced /\ AnswersDistinct' /\ RowsDistinct'
<1>1. \A u \in Users, r \in Rooms : \A i \in DOMAIN replies'[u][r] :
         i \in DOMAIN replies[u][r] /\ replies'[u][r][i] = replies[u][r][i]
  OBVIOUS
<1>2. PagesTraced
  BY <1>1, PagesTell, NothingTold DEF PagesTraced
<1>3. QED
  BY <1>1, <1>2, NothingTwice DEF AnswersDistinct, RowsDistinct

\* A sent message is told of under its own number only.
LEMMA SendTraced ==
    ASSUME TypeOK, Counted, OneNumber, AnswersDistinct, RowsDistinct,
           NEW u \in Users, NEW r \in Rooms, Send(u, r)
    PROVE  OneNumber' /\ AnswersDistinct' /\ RowsDistinct'
<1> DEFINE m == NewMessage(u)
           line == LineOf(m)
<1>1. /\ m.key = sent + 1 /\ m.id = seq' /\ line.key = m.key /\ line.id = m.id
      /\ posted' = [posted EXCEPT ![u][r] = <<line>>]
      /\ \A q \in Rooms : q # r => room'[q].messages = room[q].messages
      /\ sent' = sent + 1
  BY SendMessages DEF NewMessage, LineOf
<1>2. rows' = rows /\ replies' = replies
  BY DEF Send, page
<1>3. \A i \in DOMAIN room'[r].messages :
         \/ \E j \in DOMAIN room[r].messages : room'[r].messages[i] = room[r].messages[j]
         \/ room'[r].messages[i] = m
  BY SentMembers
<1> HIDE DEF m, line
<1>4. ASSUME NEW v \in Users, NEW q \in Rooms
      PROVE  posted'[v][q] = posted[v][q] \/ posted'[v][q] = <<line>>
  BY <1>1 DEF TypeOK
<1>5. /\ Distinct(<<line>>)
      /\ \A k, n : Tells(<<line>>, k, n) => k = sent + 1 /\ n = seq'
  BY <1>1 DEF Distinct, Tells
<1>6. ASSUME NEW k, NEW n, Told(k, n)'
      PROVE  Told(k, n) \/ (k = sent + 1 /\ n = seq')
  <2>1. ASSUME NEW q \in Rooms, Tells(room'[q].messages, k, n)
        PROVE  Told(k, n) \/ (k = sent + 1 /\ n = seq')
    <3>1. CASE q # r
      BY <1>1, <2>1, <3>1 DEF Told
    <3>2. CASE q = r
      <4>1. Tells(room[r].messages, k, n) \/ (k = sent + 1 /\ n = seq')
        BY <1>1, <1>3, <2>1, <3>2 DEF Tells
      <4>2. QED
        BY <4>1 DEF Told
    <3>3. QED
      BY <3>1, <3>2
  <2>2. ASSUME NEW v \in Users, NEW q \in Rooms,
               \/ Tells(rows'[v][q], k, n)
               \/ Tells(posted'[v][q], k, n)
               \/ \E i \in DOMAIN replies'[v][q] : Tells(replies'[v][q][i].lines, k, n)
        PROVE  Told(k, n) \/ (k = sent + 1 /\ n = seq')
    BY <1>2, <1>4, <1>5, <2>2, PagesTell
  <2>3. \/ \E q \in Rooms : Tells(room'[q].messages, k, n)
        \/ \E v \in Users, q \in Rooms :
              \/ Tells(rows'[v][q], k, n)
              \/ Tells(posted'[v][q], k, n)
              \/ \E i \in DOMAIN replies'[v][q] : Tells(replies'[v][q][i].lines, k, n)
    BY <1>6 DEF Told
  <2>4. QED
    BY <2>1, <2>2, <2>3
<1>7. sent \in Int /\ Keys \subseteq Int
  BY BoundsAssumption DEF TypeOK, Numbers, Keys
<1>8. ASSUME NEW k \in Keys, NEW n \in Numbers, Told(k, n)'
      PROVE  k <= sent'
  <2>1. CASE Told(k, n)
    BY <1>1, <1>7, <2>1 DEF OneNumber
  <2>2. CASE k = sent + 1
    BY <1>1, <1>7, <2>2
  <2>3. QED
    BY <1>6, <1>8, <2>1, <2>2
<1>9. ASSUME NEW k \in Keys, NEW n \in Numbers, NEW o \in Numbers, Told(k, n)', Told(k, o)'
      PROVE  n = o
  <2>1. CASE k = sent + 1
    <3>1. ~(k <= sent)
      BY <1>7, <2>1
    <3>2. ~Told(k, n) /\ ~Told(k, o)
      BY <3>1 DEF OneNumber
    <3>3. QED
      BY <1>6, <1>9, <3>2
  <2>2. CASE k # sent + 1
    <3>1. Told(k, n) /\ Told(k, o)
      BY <1>6, <1>9, <2>2
    <3>2. QED
      BY <3>1 DEF OneNumber
  <2>3. QED
    BY <2>1, <2>2
<1>10. OneNumber'
  BY <1>8, <1>9 DEF OneNumber
<1>11. AnswersDistinct' /\ RowsDistinct'
  BY <1>2, <1>4, <1>5 DEF AnswersDistinct, RowsDistinct
<1>12. QED
  BY <1>10, <1>11

LEMMA PagesStep ==
    ASSUME TypeOK, StoredOnce, OneNumber, AnswersDistinct, RowsDistinct,
           NEW u \in Users, NEW r \in Rooms,
           Poll(u, r) \/ Arrive(u, r) \/ Open(u, r) \/ Close(u, r) \/ Sent(u, r)
    PROVE  PagesTraced /\ AnswersDistinct' /\ RowsDistinct'
<1>1. CASE Poll(u, r)
  <2>1. Marked(room[r].messages, room[r].messages)
    BY RoomTyped, MarkedSelf
  <2>2. Ask(u, r, FALSE, room[r].messages) /\ rows' = rows /\ posted' = posted
    BY <1>1 DEF Poll, Fetch
  <2>3. QED
    BY <2>1, <2>2, AskTraced
<1>2. CASE Arrive(u, r)
  BY <1>2, ArriveTraced
<1>3. CASE Open(u, r)
  <2> DEFINE stored == MarkRead(u, r, UpTo(u, r, last[u][r]))[r].messages
  <2>1. Marked(room[r].messages, stored)
    BY MarkReadMarks DEF Receipted
  <2>2. Ask(u, r, TRUE, stored) /\ rows' = rows /\ posted' = posted
    BY <1>3 DEF Open, Fetch
  <2> HIDE DEF stored
  <2>3. QED
    BY <2>1, <2>2, AskTraced
<1>4. CASE Close(u, r)
  <2>1. rows' = [rows EXCEPT ![u][r] = <<>>] /\ posted' = posted /\ replies' = replies
    BY <1>4 DEF Close
  <2>2. \A v \in Users, q \in Rooms :
           /\ rows'[v][q] = rows[v][q] \/ rows'[v][q] = <<>>
           /\ posted'[v][q] = posted[v][q] /\ replies'[v][q] = replies[v][q]
    BY <2>1 DEF TypeOK
  <2>3. QED
    BY <2>2, PagesKept
<1>5. CASE Sent(u, r)
  BY <1>5, SentTraced
<1>6. QED
  BY <1>1, <1>2, <1>3, <1>4, <1>5

LEMMA NumbersStep ==
    ASSUME TypeOK, Counted, StoredOnce, OneNumber, AnswersDistinct, RowsDistinct, [Next]_vars
    PROVE  OneNumber' /\ AnswersDistinct' /\ RowsDistinct'
<1>1. ASSUME RoomsMarked, sent' = sent, PagesTraced
      PROVE  OneNumber'
  <2>1. \A k, n : Told(k, n)' => Told(k, n)
    BY <1>1, TracedPages DEF Traced
  <2>2. QED
    BY <1>1, <2>1 DEF OneNumber
<1>2. ASSUME NEW u \in Users, NEW r \in Rooms,
             Poll(u, r) \/ Arrive(u, r) \/ Open(u, r) \/ Close(u, r) \/ Sent(u, r)
      PROVE  OneNumber' /\ AnswersDistinct' /\ RowsDistinct'
  <2>1. RoomsMarked
    BY <1>2, PollStep, ArriveStep, OpenStep, CloseStep, SentStep
  <2>2. sent' = sent
    BY <1>2 DEF Poll, Arrive, Open, Close, Sent
  <2>3. QED
    BY <1>1, <1>2, <2>1, <2>2, PagesStep
<1>3. ASSUME NEW u \in Users,
             \/ \E p \in Private : OpenPrivate(u, p)
             \/ \E g \in Groups, invited \in SUBSET Users :
                  CreateGroup(u, g, invited) \/ AddMembers(u, g, invited)
             \/ Refresh(u)
      PROVE  OneNumber' /\ AnswersDistinct' /\ RowsDistinct'
  <2>1. RoomsMarked
    BY <1>3, RoomStep, RefreshStep
  <2>2. sent' = sent /\ rows' = rows /\ posted' = posted /\ replies' = replies
    BY <1>3 DEF OpenPrivate, CreateGroup, AddMembers, Refresh
  <2>3. QED
    BY <1>1, <2>1, <2>2, PagesKept
<1>4. ASSUME NEW u \in Users, Reload(u)
      PROVE  OneNumber' /\ AnswersDistinct' /\ RowsDistinct'
  <2>1. RoomsMarked /\ sent' = sent
    BY <1>4, ReloadStep DEF Reload
  <2>2. /\ rows' = [rows EXCEPT ![u] = [r \in Rooms |-> <<>>]]
        /\ replies' = [replies EXCEPT ![u] = [r \in Rooms |-> <<>>]]
        /\ posted' = [posted EXCEPT ![u] = [r \in Rooms |-> <<>>]]
    BY <1>4 DEF Reload, Blank
  <2>3. \A v \in Users, r \in Rooms :
           /\ rows'[v][r] = rows[v][r] \/ rows'[v][r] = <<>>
           /\ posted'[v][r] = posted[v][r] \/ posted'[v][r] = <<>>
           /\ replies'[v][r] = replies[v][r] \/ replies'[v][r] = <<>>
    BY <2>2 DEF TypeOK
  <2>4. QED
    BY <1>1, <2>1, <2>3, PagesKept
<1>5. ASSUME NEW u \in Users, NEW r \in Rooms, Send(u, r)
      PROVE  OneNumber' /\ AnswersDistinct' /\ RowsDistinct'
  BY <1>5, SendTraced
<1>6. ASSUME Restart
      PROVE  OneNumber' /\ AnswersDistinct' /\ RowsDistinct'
  <2>1. /\ \A r \in Rooms : room'[r].messages = <<>>
        /\ \A u \in Users, r \in Rooms : posted'[u][r] = <<>> /\ replies'[u][r] = <<>>
        /\ rows' = rows /\ sent' = sent
    BY <1>6, RestartStep DEF Restart
  <2>2. PagesTraced /\ AnswersDistinct' /\ RowsDistinct'
    BY <2>1, PagesKept
  <2>3. ASSUME NEW k, NEW n, Told(k, n)'
        PROVE  Told(k, n)
    <3>1. \E u \in Users, r \in Rooms :
             \/ Tells(rows'[u][r], k, n)
             \/ Tells(posted'[u][r], k, n)
             \/ \E i \in DOMAIN replies'[u][r] : Tells(replies'[u][r][i].lines, k, n)
      BY <2>1, <2>3, NothingTold DEF Told
    <3>2. QED
      BY <2>2, <3>1 DEF PagesTraced
  <2>4. QED
    BY <2>1, <2>2, <2>3 DEF OneNumber
<1>7. ASSUME UNCHANGED vars
      PROVE  OneNumber' /\ AnswersDistinct' /\ RowsDistinct'
  <2>1. RoomsMarked /\ sent' = sent /\ rows' = rows /\ posted' = posted /\ replies' = replies
    BY <1>7, SameRooms DEF vars, page, RoomsMarked
  <2>2. QED
    BY <1>1, <2>1, PagesKept
<1>8. QED
  BY <1>2, <1>3, <1>4, <1>5, <1>6, <1>7 DEF Next

-----------------------------------------------------------------------------
(* The theorems.                                                            *)

LEMMA InitInv == Init => IndInv
<1> SUFFICES ASSUME Init PROVE IndInv
  OBVIOUS
<1>1. TypeOK /\ Counted
  BY InitTyped
<1>2. \A r \in Rooms : room[r].messages = <<>>
  BY DEF Init, NoRoom
<1>3. \A u \in Users, r \in Rooms :
         rows[u][r] = <<>> /\ posted[u][r] = <<>> /\ replies[u][r] = <<>>
  BY DEF Init
<1>4. \A k, n : ~Told(k, n)
  BY <1>2, <1>3 DEF Told, Tells
<1>5. Receipts /\ StoredOnce
  BY <1>2 DEF Receipts, StoredOnce
<1>6. OneNumber
  BY <1>4 DEF OneNumber
<1>7. AnswersDistinct /\ RowsDistinct
  BY <1>3, NothingTwice DEF AnswersDistinct, RowsDistinct
<1>8. QED
  BY <1>1, <1>5, <1>6, <1>7 DEF IndInv

LEMMA NextInv == IndInv /\ [Next]_vars => IndInv'
BY OneStep, ReceiptsStep, StoredOnceStep, NumbersStep DEF IndInv

\* The inductive invariant of the chat.
THEOREM Invariance == Spec => []IndInv
BY InitInv, NextInv, PTL DEF Spec

\* However polls, openings, answers to sent messages, reloads and restarts of the
\* server overlap, no window shows a message twice.
THEOREM NoLineTwice == Spec => []NoDuplicateRows
<1>1. IndInv => NoDuplicateRows
  <2> SUFFICES ASSUME IndInv, NEW u \in Users, NEW r \in Rooms
               PROVE  IsInjective([i \in DOMAIN rows[u][r] |-> rows[u][r][i].key])
    BY DEF NoDuplicateRows
  <2>1. Distinct(rows[u][r])
    BY DEF IndInv, RowsDistinct
  <2>2. QED
    BY <2>1 DEF IsInjective, Distinct
<1>2. QED
  BY <1>1, Invariance, PTL

\* No step, not a poll, an opened window, a new member or a trimmed room, takes a
\* receipt from a message the room keeps; who has read it has received it.
THEOREM ReceiptsAreKept == Spec => ReceiptsStand
<1> DEFINE Kept == \A m \in Stored, n \in Stored' :
                      m.key = n.key => /\ m.delivered \subseteq n.delivered
                                       /\ m.read \subseteq n.read /\ n.read \subseteq n.delivered
<1>1. IndInv /\ [Next]_vars => [Kept]_vars
  <2> SUFFICES ASSUME IndInv, [Next]_vars, NEW m \in Stored, NEW n \in Stored', m.key = n.key
               PROVE  /\ m.delivered \subseteq n.delivered
                      /\ m.read \subseteq n.read /\ n.read \subseteq n.delivered
    OBVIOUS
  <2>1. TypeOK /\ Counted /\ StoredOnce /\ OneNumber /\ Receipts'
    BY ReceiptsStep DEF IndInv
  <2>2. PICK r \in Rooms : \E i \in DOMAIN room[r].messages : m = room[r].messages[i]
    BY DEF Stored
  <2>3. PICK q \in Rooms : \E j \in DOMAIN room'[q].messages : n = room'[q].messages[j]
    BY DEF Stored
  <2>4. n.read \subseteq n.delivered
    BY <2>1, <2>3 DEF Receipts
  <2>5. ASSUME \E p \in Rooms : \E k \in DOMAIN room[p].messages :
                  /\ room[p].messages[k].key = n.key
                  /\ room[p].messages[k].delivered \subseteq n.delivered
                  /\ room[p].messages[k].read \subseteq n.read
        PROVE  m.delivered \subseteq n.delivered /\ m.read \subseteq n.read
    BY <2>1, <2>2, <2>5 DEF StoredOnce
  <2>6. CASE RoomsMarked
    <3>1. Marked(room[q].messages, room'[q].messages)
      BY <2>6 DEF RoomsMarked, Receipted
    <3>2. QED
      BY <2>3, <2>4, <2>5, <3>1 DEF Marked
  <2>7. ASSUME NEW u \in Users, NEW o \in Rooms, Send(u, o)
        PROVE  m.delivered \subseteq n.delivered /\ m.read \subseteq n.read
    <3>1. \A p \in Rooms : p # o => room'[p].messages = room[p].messages
      BY <2>1, <2>7, SendMessages
    <3>2. \A k \in DOMAIN room'[o].messages :
             \/ \E l \in DOMAIN room[o].messages : room'[o].messages[k] = room[o].messages[l]
             \/ room'[o].messages[k] = NewMessage(u)
      BY <2>1, <2>7, SentMembers
    <3>3. n # NewMessage(u)
      <4>1. NewMessage(u).key = sent + 1
        BY <2>1, <2>7, SendMessages DEF NewMessage
      <4>2. m.key <= sent /\ m.key \in Int /\ sent \in Int
        <5>1. PICK i \in DOMAIN room[r].messages : m = room[r].messages[i]
          BY <2>2
        <5>2. m \in Message /\ m.key <= sent
          BY <2>1, <5>1, StoredKeys
        <5>3. m.key \in Int
          BY <5>2 DEF Message, Keys
        <5>4. sent \in Int
          BY <2>1 DEF TypeOK, Numbers
        <5>5. QED
          BY <5>2, <5>3, <5>4
      <4>3. QED
        BY <4>1, <4>2
    <3>4. \E p \in Rooms : \E k \in DOMAIN room[p].messages : n = room[p].messages[k]
      BY <2>3, <3>1, <3>2, <3>3
    <3>5. QED
      BY <2>5, <3>4
  <2>8. CASE Restart
    BY <2>1, <2>3, <2>8, RestartStep
  <2>9. QED
    BY <2>1, <2>4, <2>6, <2>7, <2>8, OneStep
<1>2. ReceiptsStand <=> [][Kept]_vars
  BY DEF ReceiptsStand
<1> HIDE DEF Kept
<1>3. QED
  BY <1>1, <1>2, Invariance, PTL DEF Spec
=============================================================================
