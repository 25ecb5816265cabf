--------------------------- MODULE DocWikiProofs ---------------------------
(***************************************************************************)
(* Proofs about DocWiki, for every set of users, titles and texts and      *)
(* every bound.  The argument: the latest approval of a page is recorded   *)
(* with a later time than all before it in the same step that shows its    *)
(* text, so what is shown and what was approved last never part; a rebuild *)
(* points rows only at published pages, and a page leaves the recycle bin  *)
(* or the wiki only together with a rebuild; and every request is one step *)
(* of the abstract wiki or none.                                           *)
(***************************************************************************)
EXTENDS DocWiki, FiniteSetTheorems, TLAPS

-----------------------------------------------------------------------------
(* Operators.                                                              *)

\* A set of naturals that is not empty has a least element.
LEMMA LeastExists ==
    ASSUME NEW S \in SUBSET Nat, S # {}
    PROVE  \E x \in S : \A y \in S : x <= y
<1> DEFINE T == {0..x : x \in S}
<1>1. T \subseteq FiniteSubsetsOf(Nat)
  <2> SUFFICES ASSUME NEW x \in S PROVE 0..x \in FiniteSubsetsOf(Nat)
    OBVIOUS
  <2>1. IsFiniteSet(0..x)
    BY FS_Interval
  <2>2. 0..x \subseteq Nat
    OBVIOUS
  <2> QED
    BY <2>1, <2>2 DEF FiniteSubsetsOf
<1>2. T # {}
  OBVIOUS
<1>3. PICK t \in T : \A s \in T : <<s, t>> \notin StrictSubsetOrdering(Nat)
  <2>1. IsWellFoundedOn(StrictSubsetOrdering(Nat), FiniteSubsetsOf(Nat))
    BY FS_StrictSubsetOrderingWellFounded
  <2> HIDE DEF T
  <2> QED
    BY <1>1, <1>2, <2>1, WFMin
<1>4. PICK x \in S : t = 0..x
  OBVIOUS
<1>5. ASSUME NEW y \in S, y < x
      PROVE  FALSE
  <2>1. 0..y \subseteq 0..x /\ 0..y # 0..x
    BY <1>5
  <2>2. <<0..y, 0..x>> \in StrictSubsetOrdering(Nat)
    BY <2>1 DEF StrictSubsetOrdering
  <2> QED
    BY <1>3, <1>4, <2>2
<1> QED
  BY <1>5


\* The URL of a new page exists: one page at least is not there yet, so fewer
\* counters are taken than there are.
LEMMA FreeSlugTyped ==
    ASSUME TypeOK, NEW t \in Titles
    PROVE  FreeSlug(t) \in Slug
<1> DEFINE taken == {k \in 0..MaxPages : \E p \in PageIds : pages[p].slug = <<t, k>>}
           free == (0..MaxPages) \ taken
<1>1. free # {}
  <2> SUFFICES ASSUME free = {}
               PROVE  FALSE
    OBVIOUS
  <2> DEFINE f == [k \in 0..MaxPages |-> CHOOSE p \in PageIds : pages[p].slug = <<t, k>>]
  <2>1. \A k \in 0..MaxPages : f[k] \in PageIds /\ pages[f[k]].slug = <<t, k>>
    OBVIOUS
  <2>2. f \in [0..MaxPages -> PageIds]
    BY <2>1
  <2>3. /\ IsFiniteSet(0..MaxPages) /\ IsFiniteSet(PageIds)
        /\ Cardinality(PageIds) < Cardinality(0..MaxPages)
    <3>1. /\ IsFiniteSet(0..MaxPages)
          /\ Cardinality(0..MaxPages) = IF 0 > MaxPages THEN 0 ELSE MaxPages - 0 + 1
      BY FS_Interval, BoundsAssumption
    <3>2. /\ IsFiniteSet(1..MaxPages)
          /\ Cardinality(1..MaxPages) = IF 1 > MaxPages THEN 0 ELSE MaxPages - 1 + 1
      BY FS_Interval, BoundsAssumption
    <3> QED
      BY <3>1, <3>2, BoundsAssumption DEF PageIds
  <2>4. PICK i, j \in 0..MaxPages : i # j /\ f[i] = f[j]
    <3> DEFINE S == 0..MaxPages
    <3>1. f \in [S -> PageIds] /\ IsFiniteSet(S) /\ Cardinality(PageIds) < Cardinality(S)
      BY <2>2, <2>3
    <3> HIDE DEF S, f
    <3>2. \E i, j \in S : i # j /\ f[i] = f[j]
      BY <2>3, <3>1, FS_PigeonHole
    <3> QED
      BY <3>2 DEF S
  <2>5. <<t, i>> = <<t, j>>
    <3> HIDE DEF f
    <3> QED
      BY <2>1, <2>4
  <2> QED
    BY <2>4, <2>5
<1>2. free \in SUBSET Nat
  BY BoundsAssumption
<1>3. \E x \in free : \A y \in free : x <= y
  <2> HIDE DEF free
  <2> QED
    BY <1>1, <1>2, LeastExists
<1>4. Min(free) \in free
  <2> HIDE DEF free
  <2> QED
    BY <1>3 DEF Min
<1>5. FreeSlug(t) = <<t, Min(free)>>
  BY DEF FreeSlug
<1> QED
  BY <1>4, <1>5 DEF Slug

\* A title leads to one of the pages that may be seen, or nowhere.
LEMMA ResolveTyped ==
    ASSUME NEW seen \in SUBSET PageIds, NEW names, NEW also, NEW t,
           \A p \in seen : names[p].title \in Titles
    PROVE  ResolveAmong(seen, names, also, t) \in seen \cup {0}
<1> DEFINE hits == {p \in seen : names[p].title = t \/ names[p].slug = <<t, 0>>}
           first == {p \in hits : \A q \in hits :
                        \/ names[p].title < names[q].title
                        \/ names[p].title = names[q].title /\ p <= q}
<1>1. ASSUME hits # {}
      PROVE  first # {}
  <2> DEFINE titles == {names[p].title : p \in hits}
  <2>1. titles \in SUBSET Nat /\ titles # {}
    BY <1>1, BoundsAssumption DEF Titles
  <2>2. PICK x \in titles : \A y \in titles : x <= y
    <3> HIDE DEF titles
    <3> QED
      BY <2>1, LeastExists
  <2> DEFINE alike == {p \in hits : names[p].title = x}
  <2>3. alike \in SUBSET Nat /\ alike # {}
    <3>1. PageIds \subseteq Nat
      BY DEF PageIds
    <3>2. PICK p \in hits : names[p].title = x
      OBVIOUS
    <3> QED
      BY <3>1, <3>2
  <2>4. PICK p \in alike : \A q \in alike : p <= q
    <3> HIDE DEF alike
    <3> QED
      BY <2>3, LeastExists
  <2>5. \A q \in hits : /\ names[q].title \in titles
                        /\ names[q].title \in Nat
                        /\ names[p].title = x
    BY <2>1, <2>4
  <2>6. \A q \in hits : \/ names[p].title < names[q].title
                        \/ names[p].title = names[q].title /\ p <= q
    <3> SUFFICES ASSUME NEW q \in hits
                 PROVE  \/ names[p].title < names[q].title
                        \/ names[p].title = names[q].title /\ p <= q
      OBVIOUS
    <3>1. x <= names[q].title /\ x \in Nat
      BY <2>1, <2>2, <2>5
    <3>2. CASE names[q].title = x
      BY <2>4, <2>5, <3>2
    <3>3. CASE names[q].title # x
      BY <2>5, <3>1, <3>3
    <3> QED
      BY <3>2, <3>3
  <2>7. p \in first
    BY <2>4, <2>6
  <2> QED
    BY <2>7
<1>2. ResolveAmong(seen, names, also, t) =
        IF hits # {} THEN CHOOSE p \in first : TRUE
        ELSE IF also[t] \in seen THEN also[t] ELSE 0
  BY DEF ResolveAmong
<1>3. first \subseteq seen
  OBVIOUS
<1> HIDE DEF hits, first
<1>4. CASE hits # {}
  BY <1>1, <1>2, <1>3, <1>4
<1>5. CASE hits = {}
  BY <1>2, <1>5
<1> QED
  BY <1>4, <1>5

\* A rebuild points every row it writes at a page that is published, and
\* leaves the rows of the other pages alone.
LEMMA SyncedRows ==
    ASSUME TypeOK, NEW new, NEW twice, NEW p \in PageIds, NEW t \in Titles
    PROVE  /\ Synced(new, twice) \in [PageIds -> [Titles -> Link]]
           /\ ~Live(p) /\ p \notin twice => Synced(new, twice)[p] = links[p]
           /\ Live(p) \/ p \in twice =>
                \/ Synced(new, twice)[p][t].to = 0
                \/ /\ Synced(new, twice)[p][t].to \in PageIds
                   /\ Live(Synced(new, twice)[p][t].to)
<1> DEFINE seen == {q \in PageIds : pages[q].published}
<1>1. \A q \in seen : pages[q].title \in Titles
  BY DEF TypeOK, Page, NoPage
<1>2. \A i \in Titles : Resolve(pages, aliases, i) \in seen \cup {0}
  BY <1>1, ResolveTyped DEF Resolve
<1>3. ASSUME NEW text, NEW n \in 1..2
      PROVE  /\ RowsOf(text, pages, aliases, n) \in [Titles -> [rows : 0..2, to : seen \cup {0}]]
             /\ RowsOf(text, pages, aliases, n) \in [Titles -> Link]
  <2>1. seen \cup {0} \subseteq 0..MaxPages
    BY BoundsAssumption DEF PageIds
  <2> QED
    BY <1>2, <2>1 DEF RowsOf, NoLink, Link
<1>4. \A q \in PageIds :
        \/ \E text : \E n \in 1..2 : Synced(new, twice)[q] = RowsOf(text, pages, aliases, n)
        \/ ~Live(q) /\ q \notin twice /\ Synced(new, twice)[q] = links[q]
  BY DEF Synced
<1>5. \A q \in PageIds : Synced(new, twice)[q] \in [Titles -> Link]
  BY <1>3, <1>4 DEF TypeOK
<1>6. Synced(new, twice) \in [PageIds -> [Titles -> Link]]
  BY <1>5 DEF Synced
<1>7. CASE Live(p) \/ p \in twice
  <2>1. \E text : \E n \in 1..2 : Synced(new, twice)[p] = RowsOf(text, pages, aliases, n)
    BY <1>4, <1>7
  <2> QED
    BY <1>3, <1>6, <1>7, <2>1 DEF Live
<1>8. CASE ~(Live(p) \/ p \in twice)
  BY <1>4, <1>6, <1>8 DEF Synced
<1> QED
  BY <1>7, <1>8

-----------------------------------------------------------------------------
(* The inductive invariant.                                                *)

\* Every version belongs to a page, an approval has a time, and what waits has
\* not been confirmed.
Standing ==
    \A v \in VersionIds : Stored(v) =>
        /\ Exists(versions[v].page)
        /\ versions[v].status = "approved" => versions[v].rank > 0
        /\ versions[v].status = "pending" => versions[v].confirmed = FALSE

\* Rows of published pages point at pages, and a page that is not there has no
\* rows it could bring along.
IndexSound ==
    \A p \in PageIds, t \in Titles : links[p][t].rows > 0 =>
        /\ Exists(p)
        /\ Live(p) => links[p][t].to = 0 \/ Exists(links[p][t].to)

IndInv == TypeOK /\ Standing /\ ShowsLastApproved /\ SealedByLevel /\ IndexSound

-----------------------------------------------------------------------------
(* Versions.                                                               *)

\* The next approval of a page is later than all before it.
LEMMA NextRankAbove ==
    ASSUME TypeOK, Standing, ShowsLastApproved, NEW p \in PageIds
    PROVE  /\ NextRank(p) \in Nat \ {0}
           /\ \A w \in VersionsOf(p) : versions[w].rank < NextRank(p)
           /\ ~Exists(p) => NextRank(p) = 1
<1> DEFINE R == {0} \cup {versions[w].rank : w \in VersionsOf(p)}
<1>1. \A w \in VersionsOf(p) : versions[w].rank \in Nat
  BY DEF TypeOK, Version, VersionsOf, Stored
<1>2. CASE Exists(p)
  <2>1. PICK v \in VersionsOf(p) : \A w \in VersionsOf(p) \ {v} :
            versions[w].rank < versions[v].rank
    BY <1>2 DEF ShowsLastApproved
  <2>2. versions[v].rank \in R /\ \A r \in R : versions[v].rank >= r
    BY <1>1, <2>1
  <2>3. Max(R) \in R /\ \A r \in R : Max(R) >= r
    <3> HIDE DEF R
    <3> QED
      BY <2>2 DEF Max
  <2> QED
    BY <1>1, <1>2, <2>3 DEF NextRank
<1>3. CASE ~Exists(p)
  <2>1. VersionsOf(p) = {}
    BY <1>3 DEF Standing, VersionsOf
  <2>2. Max({0}) = 0
    BY DEF Max
  <2>3. R = {0}
    BY <2>1
  <2> QED
    BY <2>1, <2>2, <2>3 DEF NextRank
<1> QED
  BY <1>2, <1>3

\* Publishing a text as the latest version of its page, new or approved,
\* keeps every page showing its latest approval.
LEMMA Recorded ==
    ASSUME IndInv, NEW p \in PageIds, NEW v \in VersionIds, NEW new \in Version,
           ~Stored(v) \/ versions[v].page = p,
           versions' = [versions EXCEPT ![v] = new],
           new.page = p, new.status = "approved", new.rank = NextRank(p),
           pages'[p].text = new.text, pages'[p] # NoPage,
           \A q \in PageIds \ {p} : pages'[q] = pages[q]
    PROVE  (Standing /\ ShowsLastApproved)'
<1>1. /\ NextRank(p) > 0
      /\ \A w \in VersionsOf(p) : versions[w].rank < NextRank(p)
  BY NextRankAbove DEF IndInv
<1>2. versions'[v] = new /\ \A w \in VersionIds \ {v} : versions'[w] = versions[w]
  BY DEF IndInv, TypeOK
<1>3. new # NoVersion
  BY DEF NoVersion, PageIds
<1>4. Standing'
  <2>1. \A w \in VersionIds : Stored(w) => versions[w].page \in PageIds
    BY DEF IndInv, TypeOK, Version, Stored
  <2>2. \A q \in PageIds : Exists(q) \/ q = p => Exists(q)'
    BY DEF Exists
  <2>3. ASSUME NEW w \in VersionIds, Stored(w)'
        PROVE  /\ Exists(versions[w].page)'
               /\ versions'[w].status = "approved" => versions'[w].rank > 0
               /\ versions'[w].status = "pending" => versions'[w].confirmed = FALSE
    <3>1. CASE w = v
      BY <1>1, <1>2, <3>1 DEF Exists
    <3>2. CASE w # v
      BY <1>2, <2>1, <2>3, <3>2 DEF IndInv, Standing, Stored, Exists
    <3> QED
      BY <3>1, <3>2
  <2> QED
    BY <2>3 DEF Standing
<1>5. \A q \in PageIds \ {p} : (VersionsOf(q))' = VersionsOf(q) /\ v \notin VersionsOf(q)
  BY <1>2 DEF VersionsOf, Stored
<1>6. v \in (VersionsOf(p))' /\ (VersionsOf(p))' \ {v} \subseteq VersionsOf(p) \ {v}
  BY <1>2, <1>3 DEF VersionsOf, Stored
<1>7. ASSUME NEW q \in PageIds, Exists(q)'
      PROVE  \E x \in (VersionsOf(q))' :
                /\ versions'[x].status = "approved"
                /\ versions'[x].text = pages'[q].text
                /\ \A w \in (VersionsOf(q))' \ {x} : versions'[w].rank < versions'[x].rank
  <2>1. CASE q = p
    BY <1>1, <1>2, <1>6, <2>1 DEF VersionsOf
  <2>2. CASE q # p
    <3>1. PICK x \in VersionsOf(q) :
            /\ versions[x].status = "approved"
            /\ versions[x].text = pages[q].text
            /\ \A w \in VersionsOf(q) \ {x} : versions[w].rank < versions[x].rank
      BY <1>7, <2>2 DEF IndInv, ShowsLastApproved, Exists
    <3> QED
      BY <1>2, <1>5, <2>2, <3>1 DEF VersionsOf
  <2> QED
    BY <2>1, <2>2
<1> QED
  BY <1>4, <1>7 DEF ShowsLastApproved

\* Pages that keep their texts and versions keep showing their latest approval.
LEMMA Unchanging ==
    ASSUME IndInv, versions' = versions,
           \A q \in PageIds : Exists(q)' <=> Exists(q),
           \A q \in PageIds : pages'[q].text = pages[q].text
    PROVE  (Standing /\ ShowsLastApproved)'
<1>1. \A q : (VersionsOf(q))' = VersionsOf(q)
  BY DEF VersionsOf, Stored
<1>2. \A v \in VersionIds : Stored(v) => versions[v].page \in PageIds
  BY DEF IndInv, TypeOK, Version, Stored
<1>3. ASSUME NEW v \in VersionIds, Stored(v)'
      PROVE  /\ Exists(versions[v].page)'
             /\ versions[v].status = "approved" => versions[v].rank > 0
             /\ versions[v].status = "pending" => versions[v].confirmed = FALSE
  <2>1. Stored(v)
    BY <1>3 DEF Stored
  <2>2. Exists(versions[v].page) /\ versions[v].page \in PageIds
    BY <1>2, <2>1 DEF IndInv, Standing
  <2>3. versions'[v].page = versions[v].page
    OBVIOUS
  <2> QED
    BY <2>1, <2>2, <2>3 DEF IndInv, Standing, Exists
<1>4. ShowsLastApproved'
  BY <1>1 DEF IndInv, ShowsLastApproved
<1> QED
  BY <1>3, <1>4 DEF Standing

-----------------------------------------------------------------------------
(* The index.                                                              *)

\* A rebuild before the commit keeps the index sound if the pages published by
\* the request are indexed by name and no page goes away.
LEMMA Reindexed ==
    ASSUME TypeOK, IndexSound, NEW new, NEW twice \in SUBSET PageIds,
           links' = Synced(new, twice),
           \A q \in PageIds : Exists(q) => Exists(q)',
           \A q \in twice : Exists(q)',
           \A q \in PageIds : Live(q)' => Live(q) \/ q \in twice
    PROVE  links' \in [PageIds -> [Titles -> Link]] /\ IndexSound'
<1>1. links' \in [PageIds -> [Titles -> Link]]
  <2>1. 1 \in PageIds /\ 1 \in Titles
    BY BoundsAssumption DEF PageIds, Titles
  <2> QED
    BY <2>1, SyncedRows
<1>2. ASSUME NEW p \in PageIds, NEW t \in Titles, links'[p][t].rows > 0
      PROVE  /\ Exists(p)'
             /\ Live(p)' => links'[p][t].to = 0 \/ (Exists(links[p][t].to))'
  <2>1. \A q \in PageIds : Live(q) => Exists(q)
    BY DEF Live, Exists, NoPage
  <2>2. CASE Live(p) \/ p \in twice
    <3>1. \/ links'[p][t].to = 0
          \/ links'[p][t].to \in PageIds /\ Live(links'[p][t].to)
      BY <2>2, SyncedRows
    <3>2. CASE links'[p][t].to = 0
      BY <2>1, <2>2, <3>2
    <3>3. CASE links'[p][t].to \in PageIds /\ Live(links'[p][t].to)
      <4>1. \A q \in PageIds : Exists(q) => pages'[q] # NoPage
        BY DEF Exists
      <4> QED
        BY <2>1, <2>2, <3>3, <4>1 DEF Exists
    <3> QED
      BY <3>1, <3>2, <3>3
  <2>3. CASE ~(Live(p) \/ p \in twice)
    BY <1>2, <2>3, SyncedRows DEF IndexSound
  <2> QED
    BY <2>2, <2>3
<1> QED
  BY <1>1, <1>2 DEF IndexSound

-----------------------------------------------------------------------------
(* Edits of a page that is there.                                          *)

\* Saving, approving or restoring a text on a page: one page and one version
\* change, and the index is rebuilt.
LEMMA Edited ==
    ASSUME IndInv, NEW p \in PageIds, NEW v \in VersionIds, NEW new \in Version,
           NEW page \in Page, NEW now, NEW twice \in SUBSET {p},
           Exists(p), ~Stored(v) \/ versions[v].page = p,
           new.page = p, new.status = "approved", new.rank = NextRank(p),
           page.text = new.text, page.sealed <=> Sealed(page.level),
           page.published => Live(p) \/ p \in twice,
           pages' = [pages EXCEPT ![p] = page],
           versions' = [versions EXCEPT ![v] = new],
           links' = Synced(now, twice), UNCHANGED aliases,
           forms' \in [Users -> [slug : Slug, text : Texts] \cup {NoForm}],
           requests' \in 0..MaxRequests
    PROVE  IndInv'
<1>1. pages'[p] = page /\ \A q \in PageIds \ {p} : pages'[q] = pages[q]
  BY DEF IndInv, TypeOK
<1>2. page # NoPage
  BY DEF Page, NoPage, Titles
<1>3. (Standing /\ ShowsLastApproved)'
  BY <1>1, <1>2, Recorded
<1>4. SealedByLevel'
  BY <1>1 DEF IndInv, SealedByLevel, Exists
<1>5. links' \in [PageIds -> [Titles -> Link]] /\ IndexSound'
  BY <1>1, <1>2, Reindexed DEF IndInv, Exists, Live
<1>6. TypeOK'
  BY <1>5 DEF IndInv, TypeOK
<1> QED
  BY <1>3, <1>4, <1>5, <1>6 DEF IndInv

\* A new version takes an id that no version has.
LEMMA AddedVersion ==
    ASSUME NEW new, AddVersion(new)
    PROVE  \E v \in VersionIds : ~Stored(v) /\ versions' = [versions EXCEPT ![v] = new]
<1>1. PICK v \in VersionIds :
        /\ \A w \in {i \in VersionIds : Stored(i)} : w < v
        /\ versions' = [versions EXCEPT ![v] = new]
  BY DEF AddVersion, NextId
<1>2. ~(v < v)
  BY DEF VersionIds
<1> QED
  BY <1>1, <1>2

\* The start-up script finds a user.
LEMMA SeederIsUser == Seeder \in Users
BY UsersAssumption DEF Users

\* What a version of a page that publishes a text is recorded as.
LEMMA ApprovedTyped ==
    ASSUME IndInv, NEW u \in Users, NEW p \in PageIds, NEW n \in Nat, NEW x \in Texts,
           NEW l \in Levels, NEW b \in Texts \cup {NoText}, NEW d \in Texts \cup {NoText}
    PROVE  /\ Approved(u, p, n, x, l, b, d) \in Version
           /\ Approved(u, p, n, x, l, b, d).page = p
           /\ Approved(u, p, n, x, l, b, d).text = x
           /\ Approved(u, p, n, x, l, b, d).status = "approved"
           /\ Approved(u, p, n, x, l, b, d).rank = NextRank(p)
<1>1. NextRank(p) \in Nat
  BY NextRankAbove DEF IndInv
<1> QED
  BY <1>1 DEF Approved, Version, Sealed

\* Versions are counted, so the next number is a natural.
LEMMA NextVersionTyped ==
    ASSUME NEW p \in PageIds
    PROVE  NextVersion(p) \in Nat
<1>1. IsFiniteSet(VersionIds)
  BY FS_Interval, BoundsAssumption DEF VersionIds
<1>2. VersionsOf(p) \in SUBSET VersionIds
  BY DEF VersionsOf
<1>3. IsFiniteSet(VersionsOf(p))
  BY <1>1, <1>2, FS_Subset
<1> QED
  BY <1>3, FS_CardinalityType DEF NextVersion

\* What a request that counts leaves of the counter and of the forms.
LEMMA RequestTyped ==
    ASSUME TypeOK, Request
    PROVE  requests' \in 0..MaxRequests
BY BoundsAssumption DEF Request, TypeOK

\* An administrator saves a form.
LEMMA SaveEditKeeps ==
    ASSUME IndInv, NEW u, NEW p \in PageIds, NEW t \in Titles, NEW x \in Texts,
           NEW l \in Levels, SaveEdit(u, p, t, x, l)
    PROVE  IndInv'
<1>1. pages[p] \in Page /\ Live(p) /\ Exists(p)
  BY DEF SaveEdit, PageAt, IndInv, TypeOK, Live, Exists, NoPage
<1> DEFINE page == [pages[p] EXCEPT !.text = x, !.sealed = Sealed(l), !.title = t, !.level = l]
<1>2. /\ page \in Page /\ page.text = x /\ page.published = pages[p].published
      /\ page.level = l /\ page.sealed = Sealed(l)
  BY <1>1 DEF Page, Sealed
<1>3. pages' = [pages EXCEPT ![p] = page]
  BY <1>1 DEF SaveEdit, WithText, IndInv, TypeOK, Page
<1>4. u \in Users /\ forms[u] \in [slug : Slug, text : Texts] /\ pages[p].text \in Texts
  BY <1>1 DEF SaveEdit, Users, IndInv, TypeOK, Page
<1> DEFINE new == Approved(u, p, NextVersion(p), x, l, pages[p].text, forms[u].text)
<1>5. /\ new \in Version /\ new.page = p /\ new.text = x /\ new.status = "approved"
      /\ new.rank = NextRank(p)
  BY <1>4, NextVersionTyped, ApprovedTyped
<1>6. PICK v \in VersionIds : ~Stored(v) /\ versions' = [versions EXCEPT ![v] = new]
  BY AddedVersion DEF SaveEdit
<1>7. PICK now : links' = Synced(now, {p})
  BY DEF SaveEdit
<1>8. forms' \in [Users -> [slug : Slug, text : Texts] \cup {NoForm}] /\ UNCHANGED aliases
  BY DEF SaveEdit, IndInv, TypeOK
<1>9. requests' \in 0..MaxRequests
  BY RequestTyped DEF SaveEdit, IndInv
<1>10. page.sealed <=> Sealed(page.level)
  BY <1>2
<1>11. Live(p) <=> pages[p].published
  BY DEF Live
<1> HIDE DEF page, new
<1>12. page.published => Live(p) \/ p \in {p}
  OBVIOUS
<1>13. {p} \in SUBSET {p} /\ page.text = new.text
  BY <1>2, <1>5
<1> QED
  BY <1>1, <1>2, <1>3, <1>5, <1>6, <1>7, <1>8, <1>9, <1>10, <1>12, <1>13, Edited

\* A page whose text is replaced keeps its level and its form of storage.
LEMMA WithTextTyped ==
    ASSUME IndInv, NEW p \in PageIds, Exists(p), NEW x \in Texts
    PROVE  \E page \in Page :
            /\ WithText(p, x) = [pages EXCEPT ![p] = page]
            /\ page.text = x /\ (page.sealed <=> Sealed(page.level))
            /\ page.published = Live(p)
<1>1. pages[p] \in Page
  BY DEF IndInv, TypeOK, Exists
<1> DEFINE page == [pages[p] EXCEPT !.text = x, !.sealed = Sealed(pages[p].level)]
<1>2. /\ page \in Page /\ page.text = x /\ page.published = pages[p].published
      /\ page.level = pages[p].level /\ page.sealed = Sealed(pages[p].level)
  BY <1>1 DEF Page, Sealed
<1>3. WithText(p, x) = [pages EXCEPT ![p] = page]
  BY <1>1 DEF WithText, IndInv, TypeOK, Page
<1>4. (page.sealed <=> Sealed(page.level)) /\ page.published = Live(p)
  BY <1>2 DEF Live
<1> HIDE DEF page
<1> QED
  BY <1>2, <1>3, <1>4

\* An approval publishes the text of the queue with the newest time.
LEMMA ApproveKeeps ==
    ASSUME IndInv, NEW u, NEW v \in VersionIds, NEW confirmed \in BOOLEAN,
           Approve(u, v, confirmed)
    PROVE  IndInv'
<1> DEFINE p == versions[v].page
           x == versions[v].text
           new == Accepted(u, v, confirmed)
<1>1. versions[v] \in Version /\ p \in PageIds /\ x \in Texts /\ Exists(p)
  BY DEF Approve, Pending, Stored, IndInv, TypeOK, Standing, Version
<1>2. NextRank(p) \in Nat
  BY <1>1, NextRankAbove DEF IndInv
<1>3. /\ new \in Version /\ new.page = p /\ new.text = x /\ new.status = "approved"
      /\ new.rank = NextRank(p)
  <2>1. u \in Users
    BY DEF Approve, Users
  <2> QED
    BY <1>1, <1>2, <2>1 DEF Accepted, Version
<1>4. versions' = [versions EXCEPT ![v] = new]
  BY DEF Approve
<1>5. PICK page \in Page :
        /\ pages' = [pages EXCEPT ![p] = page]
        /\ page.text = x /\ (page.sealed <=> Sealed(page.level)) /\ page.published = Live(p)
  <2>1. pages' = WithText(p, x)
    BY DEF Approve
  <2> HIDE DEF p, x, new
  <2> QED
    BY <1>1, <2>1, WithTextTyped
<1>6. PICK now : links' = Synced(now, {p})
  BY DEF Approve
<1>7. forms' \in [Users -> [slug : Slug, text : Texts] \cup {NoForm}] /\ UNCHANGED aliases
  BY DEF Approve, IndInv, TypeOK
<1>8. requests' \in 0..MaxRequests
  BY RequestTyped DEF Approve, IndInv
<1>9. versions[v].page = p
  OBVIOUS
<1> HIDE DEF p, x, new
<1> QED
  BY <1>1, <1>3, <1>4, <1>5, <1>6, <1>7, <1>8, <1>9, Edited

\* A text from the history is published as a version of its own.
LEMMA RestoreVersionKeeps ==
    ASSUME IndInv, NEW u, NEW v \in VersionIds, RestoreVersion(u, v)
    PROVE  IndInv'
<1> DEFINE p == versions[v].page
           x == versions[v].text
           l == pages[p].level
           n == NextVersion(p)
           new == Approved(u, p, n, x, l, NoText, NoText)
<1>1. p \in PageIds /\ x \in Texts /\ Exists(p) /\ pages[p].level \in Levels /\ u \in Users
  BY DEF RestoreVersion, Stored, Exists, IndInv, TypeOK, Standing, Version, Page, Users
<1>2. /\ new \in Version /\ new.page = p /\ new.text = x /\ new.status = "approved"
      /\ new.rank = NextRank(p)
  <2>1. NextVersion(p) \in Nat
    BY <1>1, NextVersionTyped
  <2>2. n \in Nat /\ l \in Levels /\ u \in Users /\ p \in PageIds /\ x \in Texts
    BY <1>1, <2>1
  <2> DEFINE none == NoText
             fresh == Approved(u, p, n, x, l, none, none)
  <2>3. none \in Texts \cup {NoText} /\ fresh = new
    OBVIOUS
  <2> HIDE DEF p, x, l, n, none, new
  <2>4. /\ fresh \in Version /\ fresh.page = p /\ fresh.text = x
        /\ fresh.status = "approved" /\ fresh.rank = NextRank(p)
    BY <2>2, <2>3, ApprovedTyped
  <2> HIDE DEF fresh
  <2> QED
    BY <2>3, <2>4
<1>3. PICK w \in VersionIds : ~Stored(w) /\ versions' = [versions EXCEPT ![w] = new]
  BY AddedVersion DEF RestoreVersion
<1>4. PICK page \in Page :
        /\ pages' = [pages EXCEPT ![p] = page]
        /\ page.text = x /\ (page.sealed <=> Sealed(page.level)) /\ page.published = Live(p)
  <2>1. pages' = WithText(p, x)
    BY DEF RestoreVersion
  <2> HIDE DEF p, x, new
  <2> QED
    BY <1>1, <2>1, WithTextTyped
<1>5. PICK now : links' = Synced(now, {p})
  BY DEF RestoreVersion
<1>6. forms' \in [Users -> [slug : Slug, text : Texts] \cup {NoForm}] /\ UNCHANGED aliases
  BY DEF RestoreVersion, IndInv, TypeOK
<1>7. requests' \in 0..MaxRequests
  BY RequestTyped DEF RestoreVersion, IndInv
<1> HIDE DEF p, x, new
<1> QED
  BY <1>1, <1>2, <1>3, <1>4, <1>5, <1>6, <1>7, Edited

-----------------------------------------------------------------------------
(* The queue.                                                              *)

\* A version that is not an approval, new or decided against, changes nothing
\* that is shown.
LEMMA Queued ==
    ASSUME IndInv, NEW p \in PageIds, NEW v \in VersionIds, NEW new \in Version,
           Exists(p), new.page = p, new.status # "approved", new.rank = 0,
           new.confirmed = FALSE,
           ~Stored(v) \/ (versions[v].page = p /\ versions[v].status = "pending"),
           versions' = [versions EXCEPT ![v] = new],
           UNCHANGED <<pages, aliases, links>>,
           forms' \in [Users -> [slug : Slug, text : Texts] \cup {NoForm}],
           requests' \in 0..MaxRequests
    PROVE  IndInv'
<1>1. versions'[v] = new /\ \A w \in VersionIds \ {v} : versions'[w] = versions[w]
  BY DEF IndInv, TypeOK
<1>2. new # NoVersion
  BY DEF NoVersion, PageIds
<1>3. TypeOK'
  BY DEF IndInv, TypeOK
<1>4. Standing'
  BY <1>1, <1>2 DEF IndInv, Standing, Stored, Exists
<1>5. ASSUME NEW q \in PageIds, Exists(q)'
      PROVE  \E x \in (VersionsOf(q))' :
                /\ versions'[x].status = "approved"
                /\ versions'[x].text = pages'[q].text
                /\ \A w \in (VersionsOf(q))' \ {x} : versions'[w].rank < versions'[x].rank
  <2>1. PICK x \in VersionsOf(q) :
            /\ versions[x].status = "approved"
            /\ versions[x].text = pages[q].text
            /\ \A w \in VersionsOf(q) \ {x} : versions[w].rank < versions[x].rank
    BY <1>5 DEF IndInv, ShowsLastApproved, Exists
  <2>2. x # v /\ versions[x].rank > 0
    BY <2>1 DEF IndInv, Standing, VersionsOf, Stored
  <2>3. x \in (VersionsOf(q))'
    BY <1>1, <2>1, <2>2 DEF VersionsOf, Stored
  <2>4. ASSUME NEW w \in (VersionsOf(q))' \ {x}
        PROVE  versions'[w].rank < versions'[x].rank
    BY <1>1, <2>1, <2>2 DEF VersionsOf, Stored
  <2> QED
    BY <1>1, <2>1, <2>2, <2>3, <2>4 DEF VersionsOf
<1>6. SealedByLevel' /\ IndexSound'
  BY DEF IndInv, SealedByLevel, IndexSound, Exists, Live
<1> QED
  BY <1>3, <1>4, <1>5, <1>6 DEF IndInv, ShowsLastApproved

\* A proposal waits beside what is shown.
LEMMA ProposeEditKeeps ==
    ASSUME IndInv, NEW u, NEW p \in PageIds, NEW x \in Texts, ProposeEdit(u, p, x)
    PROVE  IndInv'
<1>1. pages[p] \in Page /\ Exists(p)
  BY DEF ProposeEdit, PageAt, IndInv, TypeOK, Live, Exists, NoPage
<1>2. /\ u \in Users /\ forms[u] \in [slug : Slug, text : Texts]
      /\ pages[p].text \in Texts /\ pages[p].level \in Levels
  BY <1>1 DEF ProposeEdit, Users, IndInv, TypeOK, Page
<1> DEFINE old == Approved(u, p, NextVersion(p), x, pages[p].level,
                           pages[p].text, forms[u].text)
           new == [old EXCEPT !.status = "pending", !.rank = 0, !.decider = Nobody]
<1>3. old \in Version /\ old.page = p
  BY <1>2, NextVersionTyped, ApprovedTyped
<1>9. old.confirmed = FALSE
  BY DEF Approved
<1>4. /\ new \in Version /\ new.page = p /\ new.status # "approved" /\ new.rank = 0
      /\ new.confirmed = FALSE
  <2> HIDE DEF old
  <2> QED
    BY <1>3, <1>9 DEF Version
<1>5. PICK v \in VersionIds : ~Stored(v) /\ versions' = [versions EXCEPT ![v] = new]
  BY AddedVersion DEF ProposeEdit
<1>6. forms' \in [Users -> [slug : Slug, text : Texts] \cup {NoForm}]
      /\ UNCHANGED <<pages, aliases, links>>
  BY DEF ProposeEdit, IndInv, TypeOK
<1>7. requests' \in 0..MaxRequests
  BY RequestTyped DEF ProposeEdit, IndInv
<1> HIDE DEF old, new
<1>8. ~Stored(v) \/ (versions[v].page = p /\ versions[v].status = "pending")
  BY <1>5
<1> QED
  BY <1>1, <1>4, <1>5, <1>6, <1>7, <1>8, Queued

\* A refusal leaves what is shown and its order alone.
LEMMA RejectKeeps ==
    ASSUME IndInv, NEW u, NEW v \in VersionIds, Reject(u, v)
    PROVE  IndInv'
<1> DEFINE now == [versions EXCEPT ![v].status = "rejected", ![v].decider = u]
<1>1. versions[v] \in Version /\ versions' = now /\ u \in Users
  BY DEF Reject, Pending, Stored, IndInv, TypeOK, Users
<1>2. /\ now \in [VersionIds -> Version \cup {NoVersion}]
      /\ \A w \in VersionIds : /\ now[w] # NoVersion <=> Stored(w)
                               /\ now[w].page = versions[w].page
                               /\ now[w].text = versions[w].text
                               /\ now[w].rank = versions[w].rank
                               /\ now[w].confirmed = versions[w].confirmed
                               /\ now[w].status = "pending" => versions[w].status = "pending"
                               /\ (now[w].status = "approved") <=>
                                    (versions[w].status = "approved")
  <2>1. [versions[v] EXCEPT !.status = "rejected", !.decider = u] \in Version
    BY <1>1 DEF Version
  <2>2. ASSUME NEW w \in VersionIds
        PROVE  /\ now[w] # NoVersion <=> Stored(w)
               /\ now[w].page = versions[w].page
               /\ now[w].text = versions[w].text
               /\ now[w].rank = versions[w].rank
               /\ now[w].confirmed = versions[w].confirmed
               /\ now[w].status = "pending" => versions[w].status = "pending"
               /\ (now[w].status = "approved") <=> (versions[w].status = "approved")
    <3>1. CASE w = v
      BY <1>1, <3>1 DEF Reject, Pending, Stored, IndInv, TypeOK, Version, NoVersion
    <3>2. CASE w # v
      BY <3>2 DEF IndInv, TypeOK, Stored
    <3> QED
      BY <3>1, <3>2
  <2> QED
    BY <2>1, <2>2 DEF IndInv, TypeOK
<1> HIDE DEF now
<1>3. \A q : (VersionsOf(q))' = VersionsOf(q)
  BY <1>1, <1>2 DEF VersionsOf, Stored
<1>4. UNCHANGED <<pages, aliases, links, forms>>
  BY DEF Reject
<1>5. Standing'
  BY <1>1, <1>2, <1>4 DEF IndInv, Standing, Stored, Exists
<1>6. ShowsLastApproved'
  <2>1. \A q \in PageIds : Exists(q)' => Exists(q)
    BY <1>4 DEF Exists
  <2> QED
    BY <1>1, <1>2, <1>3, <1>4, <2>1 DEF IndInv, ShowsLastApproved, VersionsOf
<1>7. SealedByLevel' /\ IndexSound'
  BY <1>4 DEF IndInv, SealedByLevel, IndexSound, Exists, Live
<1>8. TypeOK'
  <2>1. requests' \in 0..MaxRequests
    BY RequestTyped DEF Reject, IndInv
  <2> QED
    BY <1>1, <1>2, <1>4, <2>1 DEF IndInv, TypeOK
<1> QED
  BY <1>5, <1>6, <1>7, <1>8 DEF IndInv

-----------------------------------------------------------------------------
(* Pages that come and go.                                                 *)

\* A page with a new id and its first version.
LEMMA Founded ==
    ASSUME IndInv, NEW p \in PageIds, ~Exists(p), NEW page \in Page,
           page.sealed <=> Sealed(page.level),
           pages' = [pages EXCEPT ![p] = page],
           NEW new \in Version, new.page = p, new.text = page.text,
           new.status = "approved", new.rank = 1, AddVersion(new)
    PROVE  /\ (Standing /\ ShowsLastApproved /\ SealedByLevel)'
           /\ pages' \in [PageIds -> Page \cup {NoPage}]
           /\ versions' \in [VersionIds -> Version \cup {NoVersion}]
           /\ pages'[p] = page /\ page # NoPage
           /\ \A q \in PageIds \ {p} : pages'[q] = pages[q]
<1>1. PICK v \in VersionIds : ~Stored(v) /\ versions' = [versions EXCEPT ![v] = new]
  BY AddedVersion
<1>2. NextRank(p) = 1
  BY NextRankAbove DEF IndInv
<1>3. pages'[p] = page /\ \A q \in PageIds \ {p} : pages'[q] = pages[q]
  BY DEF IndInv, TypeOK
<1>4. page # NoPage
  BY DEF Page, NoPage, Titles
<1>5. (Standing /\ ShowsLastApproved)'
  BY <1>1, <1>2, <1>3, <1>4, Recorded
<1>6. SealedByLevel'
  BY <1>3 DEF IndInv, SealedByLevel, Exists
<1>7. /\ pages' \in [PageIds -> Page \cup {NoPage}]
      /\ versions' \in [VersionIds -> Version \cup {NoVersion}]
  BY <1>1 DEF IndInv, TypeOK
<1> QED
  BY <1>3, <1>4, <1>5, <1>6, <1>7

\* A new page, its first version and the index of all pages.
LEMMA CreatePageKeeps ==
    ASSUME IndInv, NEW u, NEW p \in PageIds, NEW t \in Titles, NEW x \in Texts,
           NEW l \in Levels, CreatePage(u, p, t, x, l)
    PROVE  IndInv'
<1> DEFINE page == [title |-> t, slug |-> FreeSlug(t), text |-> x, level |-> l,
                    sealed |-> Sealed(l), published |-> TRUE]
           new == Approved(u, p, 1, x, l, NoText, NoText)
<1>1. ~Exists(p)
  <2>1. \A q \in {i \in PageIds : Exists(i)} : q < p
    BY DEF CreatePage, NextId
  <2>2. ~(p < p)
    BY DEF PageIds
  <2> QED
    BY <2>1, <2>2
<1>2. /\ page \in Page /\ page.text = x /\ page.title = t /\ page.published = TRUE
      /\ page.level = l /\ page.sealed = Sealed(l)
  BY FreeSlugTyped DEF IndInv, Page, Sealed
<1>3. /\ new \in Version /\ new.page = p /\ new.text = x /\ new.status = "approved"
      /\ new.rank = 1
  <2>1. NoText \in Texts \cup {NoText} /\ 1 \in Nat
    OBVIOUS
  <2>2. NextRank(p) = 1
    BY <1>1, NextRankAbove DEF IndInv
  <2>3. u \in Users
    BY DEF CreatePage, Users
  <2> QED
    BY <2>1, <2>2, <2>3, ApprovedTyped
<1>4. pages' = [pages EXCEPT ![p] = page] /\ AddVersion(new)
  BY DEF CreatePage
<1>5. links' = [q \in PageIds |->
                    IF pages'[q].published
                    THEN RowsOf(pages'[q].text, pages', aliases, IF q = p THEN 2 ELSE 1)
                    ELSE links[q]]
      /\ UNCHANGED <<aliases, forms>>
  BY DEF CreatePage
<1> HIDE DEF page, new
<1>6. page.sealed <=> Sealed(page.level)
  BY <1>2
<1>7. /\ (Standing /\ ShowsLastApproved /\ SealedByLevel)'
      /\ pages' \in [PageIds -> Page \cup {NoPage}]
      /\ versions' \in [VersionIds -> Version \cup {NoVersion}]
      /\ pages'[p] = page /\ page # NoPage
      /\ \A q \in PageIds \ {p} : pages'[q] = pages[q]
  BY <1>1, <1>2, <1>3, <1>4, <1>6, Founded
<1> DEFINE seen == {q \in PageIds : pages'[q].published}
<1>8. \A i \in Titles : Resolve(pages', aliases, i) \in seen \cup {0}
  <2>1. \A q \in seen : pages'[q].title \in Titles
    BY <1>7 DEF Page, NoPage
  <2> QED
    BY <2>1, ResolveTyped DEF Resolve
<1>9. \A q \in PageIds : pages'[q].published => Exists(q)'
  BY DEF Exists, NoPage
<1>10. ASSUME NEW q \in PageIds, NEW i \in Titles
       PROVE  /\ links'[q] \in [Titles -> Link]
              /\ links'[q][i].rows > 0 =>
                    /\ Exists(q)'
                    /\ Live(q)' => links'[q][i].to = 0 \/ (Exists(links[q][i].to))'
  <2>1. CASE pages'[q].published
    <3> DEFINE n == IF q = p THEN 2 ELSE 1
    <3>1. links'[q] = RowsOf(pages'[q].text, pages', aliases, n)
      BY <1>5, <2>1
    <3>2. n \in 1..2
      OBVIOUS
    <3> HIDE DEF n, seen
    <3>3. links'[q] \in [Titles -> [rows : 0..2, to : seen \cup {0}]]
      BY <1>8, <3>1, <3>2 DEF RowsOf, NoLink
    <3>4. seen \subseteq 1..MaxPages /\ \A j \in seen : Exists(j)'
      BY <1>9 DEF seen, PageIds
    <3>5. links'[q] \in [Titles -> Link]
      <4>1. seen \cup {0} \subseteq 0..MaxPages
        BY <3>4, BoundsAssumption
      <4> QED
        BY <3>3, <4>1 DEF Link
    <3>6. Exists(q)'
      BY <1>9, <2>1
    <3>7. links'[q][i].to \in seen \cup {0}
      BY <3>3
    <3>8. links'[q][i].to = 0 \/ pages'[links'[q][i].to] # NoPage
      BY <3>4, <3>7 DEF Exists
    <3> QED
      BY <3>5, <3>6, <3>8 DEF Exists
  <2>2. CASE ~pages'[q].published
    <3>1. links'[q] = links[q]
      BY <1>5, <2>2
    <3>2. Exists(q) => Exists(q)'
      BY <1>1, <1>7 DEF Exists
    <3> QED
      BY <2>2, <3>1, <3>2 DEF IndInv, TypeOK, IndexSound, Live
  <2> QED
    BY <2>1, <2>2
<1>11. links' \in [PageIds -> [Titles -> Link]]
  <2>1. 1 \in Titles
    BY BoundsAssumption DEF Titles
  <2>2. \A q \in PageIds : links'[q] \in [Titles -> Link]
    BY <1>10, <2>1
  <2> QED
    BY <1>5, <2>2
<1>12. IndexSound'
  BY <1>10 DEF IndexSound
<1>13. requests' \in 0..MaxRequests
  BY RequestTyped DEF CreatePage, IndInv
<1>14. TypeOK'
  BY <1>5, <1>7, <1>11, <1>13 DEF IndInv, TypeOK
<1> QED
  BY <1>7, <1>12, <1>14 DEF IndInv

\* The page a restart ships again takes an id without old rows.
LEMMA RestartKeeps ==
    ASSUME IndInv, Restart
    PROVE  IndInv'
<1>1. PICK p \in PageIds :
        /\ NextId(p, {q \in PageIds : Exists(q)})
        /\ pages' = [pages EXCEPT ![p] = ShippedPage]
        /\ AddVersion(FirstVersion(p))
  BY DEF Restart
<1>2. ~Exists(p)
  <2>1. \A q \in {i \in PageIds : Exists(i)} : q < p
    BY <1>1 DEF NextId
  <2>2. ~(p < p)
    BY DEF PageIds
  <2> QED
    BY <2>1, <2>2
<1>3. /\ ShippedPage \in Page /\ ShippedPage.text = Shipped
      /\ ShippedPage.sealed <=> Sealed(ShippedPage.level)
  BY TextsAssumption, BoundsAssumption DEF ShippedPage, Page, Levels, Slug, Titles, Sealed
<1>4. /\ FirstVersion(p) \in Version /\ FirstVersion(p).page = p
      /\ FirstVersion(p).text = Shipped /\ FirstVersion(p).status = "approved"
      /\ FirstVersion(p).rank = 1
  BY TextsAssumption, SeederIsUser DEF FirstVersion, Version, Users
<1>5. /\ (Standing /\ ShowsLastApproved /\ SealedByLevel)'
      /\ pages' \in [PageIds -> Page \cup {NoPage}]
      /\ versions' \in [VersionIds -> Version \cup {NoVersion}]
      /\ pages'[p] = ShippedPage /\ ShippedPage # NoPage
      /\ \A q \in PageIds \ {p} : pages'[q] = pages[q]
  BY <1>1, <1>2, <1>3, <1>4, Founded
<1>6. UNCHANGED <<aliases, links, forms, requests>>
  BY DEF Restart
<1>7. IndexSound'
  <2>1. ASSUME NEW q \in PageIds, NEW t \in Titles, links[q][t].rows > 0
        PROVE  /\ q # p /\ Exists(q)
               /\ Live(q) => links[q][t].to = 0 \/ Exists(links[q][t].to)
    BY <1>2, <2>1 DEF IndInv, IndexSound
  <2>2. \A q \in PageIds : links[q] \in [Titles -> Link]
    BY DEF IndInv, TypeOK
  <2>3. \A q \in 0..MaxPages : q = 0 \/ q \in PageIds
    BY DEF PageIds
  <2>4. \A q \in PageIds : Exists(q) => Exists(q)'
    BY <1>2, <1>5 DEF Exists
  <2>5. \A q \in PageIds \ {p} : Live(q)' <=> Live(q)
    BY <1>5 DEF Live
  <2> QED
    BY <1>6, <2>1, <2>2, <2>3, <2>4, <2>5 DEF IndexSound, Link, Exists
<1>8. TypeOK'
  BY <1>5, <1>6 DEF IndInv, TypeOK
<1> QED
  BY <1>5, <1>7, <1>8 DEF IndInv

\* Moving a page to the recycle bin or back, or changing an alias: the pages
\* keep what they show, and the index is rebuilt.
LEMMA Renamed ==
    ASSUME IndInv, NEW twice \in SUBSET PageIds, UNCHANGED <<versions, forms>>,
           pages' \in [PageIds -> Page \cup {NoPage}],
           aliases' \in [Titles -> 0..MaxPages],
           requests' \in 0..MaxRequests,
           links' = Synced(pages, twice),
           \A q \in PageIds :
                /\ Exists(q)' <=> Exists(q)
                /\ pages'[q].text = pages[q].text
                /\ pages'[q].level = pages[q].level
                /\ pages'[q].sealed = pages[q].sealed
                /\ Live(q)' => Live(q) \/ q \in twice,
           \A q \in twice : Exists(q)
    PROVE  IndInv'
<1>1. (Standing /\ ShowsLastApproved)'
  BY Unchanging
<1>2. SealedByLevel'
  BY DEF IndInv, SealedByLevel
<1>3. links' \in [PageIds -> [Titles -> Link]] /\ IndexSound'
  BY Reindexed DEF IndInv
<1>4. TypeOK'
  BY <1>3 DEF IndInv, TypeOK
<1> QED
  BY <1>1, <1>2, <1>3, <1>4 DEF IndInv

\* To the recycle bin.
LEMMA DeletePageKeeps ==
    ASSUME IndInv, NEW u, NEW p \in PageIds, DeletePage(u, p)
    PROVE  IndInv'
<1>1. pages[p] \in Page
  BY DEF DeletePage, Live, IndInv, TypeOK, NoPage
<1>2. /\ pages' \in [PageIds -> Page \cup {NoPage}]
      /\ \A q \in PageIds :
            /\ Exists(q)' <=> Exists(q)
            /\ pages'[q].text = pages[q].text
            /\ pages'[q].level = pages[q].level
            /\ pages'[q].sealed = pages[q].sealed
            /\ Live(q)' => Live(q) \/ q \in {}
  <2> DEFINE page == [pages[p] EXCEPT !.published = FALSE]
  <2>1. /\ page \in Page /\ page.text = pages[p].text /\ page.level = pages[p].level
        /\ page.sealed = pages[p].sealed /\ page.published = FALSE
    BY <1>1 DEF Page
  <2>2. pages[p] # NoPage /\ page # NoPage
    BY <1>1, <2>1 DEF Page, NoPage, Titles
  <2>3. pages' = [pages EXCEPT ![p] = page]
    BY DEF DeletePage
  <2> HIDE DEF page
  <2>4. pages'[p] = page /\ \A q \in PageIds \ {p} : pages'[q] = pages[q]
    BY <2>3 DEF IndInv, TypeOK
  <2> QED
    BY <2>1, <2>2, <2>3, <2>4 DEF IndInv, TypeOK, Exists, Live
<1>3. /\ links' = Synced(pages, {}) /\ UNCHANGED <<versions, forms>>
      /\ aliases' \in [Titles -> 0..MaxPages]
  BY DEF DeletePage, IndInv, TypeOK
<1>4. requests' \in 0..MaxRequests
  BY RequestTyped DEF DeletePage, IndInv
<1> QED
  BY <1>2, <1>3, <1>4, Renamed

\* And back: the page is indexed by name.
LEMMA RestoreDeletedKeeps ==
    ASSUME IndInv, NEW u, NEW p \in PageIds, RestoreDeleted(u, p)
    PROVE  IndInv'
<1>1. pages[p] \in Page /\ Exists(p)
  BY DEF RestoreDeleted, Exists, IndInv, TypeOK
<1>2. /\ pages' \in [PageIds -> Page \cup {NoPage}]
      /\ \A q \in PageIds :
            /\ Exists(q)' <=> Exists(q)
            /\ pages'[q].text = pages[q].text
            /\ pages'[q].level = pages[q].level
            /\ pages'[q].sealed = pages[q].sealed
            /\ Live(q)' => Live(q) \/ q \in {p}
  <2> DEFINE page == [pages[p] EXCEPT !.published = TRUE]
  <2>1. /\ page \in Page /\ page.text = pages[p].text /\ page.level = pages[p].level
        /\ page.sealed = pages[p].sealed
    BY <1>1 DEF Page
  <2>2. pages[p] # NoPage /\ page # NoPage
    BY <1>1, <2>1 DEF Page, NoPage, Titles
  <2>3. pages' = [pages EXCEPT ![p] = page]
    BY DEF RestoreDeleted
  <2> HIDE DEF page
  <2>4. pages'[p] = page /\ \A q \in PageIds \ {p} : pages'[q] = pages[q]
    BY <2>3 DEF IndInv, TypeOK
  <2> QED
    BY <2>1, <2>2, <2>3, <2>4 DEF IndInv, TypeOK, Exists, Live
<1>3. /\ links' = Synced(pages, {p}) /\ UNCHANGED <<versions, forms>>
      /\ aliases' \in [Titles -> 0..MaxPages]
  BY DEF RestoreDeleted, IndInv, TypeOK
<1>4. requests' \in 0..MaxRequests
  BY RequestTyped DEF RestoreDeleted, IndInv
<1> QED
  BY <1>1, <1>2, <1>3, <1>4, Renamed

\* Aliases come and go.
LEMMA AliasKeeps ==
    ASSUME IndInv, NEW t \in Titles,
           \/ \E u : DeleteAlias(u, t)
           \/ \E u : \E p \in PageIds : AddAlias(u, p, t)
    PROVE  IndInv'
<1>1. /\ aliases' \in [Titles -> 0..MaxPages]
      /\ links' = Synced(pages, {}) /\ UNCHANGED <<pages, versions, forms>>
  BY BoundsAssumption DEF DeleteAlias, AddAlias, IndInv, TypeOK, PageIds
<1>2. requests' \in 0..MaxRequests
  BY RequestTyped DEF DeleteAlias, AddAlias, IndInv
<1>3. /\ pages' \in [PageIds -> Page \cup {NoPage}]
      /\ \A q \in PageIds :
            /\ Exists(q)' <=> Exists(q)
            /\ pages'[q].text = pages[q].text
            /\ pages'[q].level = pages[q].level
            /\ pages'[q].sealed = pages[q].sealed
            /\ Live(q)' => Live(q) \/ q \in {}
  BY <1>1 DEF IndInv, TypeOK, Exists, Live
<1> QED
  BY <1>1, <1>2, <1>3, Renamed

\* Opening the wiki rebuilds an empty index.
LEMMA FillIndexKeeps ==
    ASSUME IndInv, FillIndex
    PROVE  IndInv'
<1>1. /\ links' = Synced(pages, {}) /\ UNCHANGED <<pages, versions, aliases, forms, requests>>
  BY DEF FillIndex
<1>2. /\ pages' \in [PageIds -> Page \cup {NoPage}]
      /\ aliases' \in [Titles -> 0..MaxPages]
      /\ requests' \in 0..MaxRequests
      /\ \A q \in PageIds :
            /\ Exists(q)' <=> Exists(q)
            /\ pages'[q].text = pages[q].text
            /\ pages'[q].level = pages[q].level
            /\ pages'[q].sealed = pages[q].sealed
            /\ Live(q)' => Live(q) \/ q \in {}
  BY <1>1 DEF IndInv, TypeOK, Exists, Live
<1> QED
  BY <1>1, <1>2, Renamed

\* A page in the recycle bin is no target of a rebuilt index, so nothing
\* points at it when it is destroyed.
LEMMA PermanentDeleteKeeps ==
    ASSUME IndInv, NEW u, NEW p \in PageIds, PermanentDelete(u, p)
    PROVE  IndInv'
<1>1. /\ Exists(p) /\ ~Live(p)
      /\ pages' = [pages EXCEPT ![p] = NoPage]
      /\ versions' = [v \in VersionIds |->
                        IF v \in VersionsOf(p) THEN NoVersion ELSE versions[v]]
      /\ aliases' = [t \in Titles |-> IF aliases[t] = p THEN 0 ELSE aliases[t]]
      /\ links' = [Synced(pages, {}) EXCEPT ![p] = [t \in Titles |-> NoLink]]
      /\ UNCHANGED forms
  BY DEF PermanentDelete
<1>2. pages'[p] = NoPage /\ \A q \in PageIds \ {p} : pages'[q] = pages[q]
  BY <1>1 DEF IndInv, TypeOK
<1>3. ~Exists(p)' /\ \A q \in PageIds \ {p} : (Exists(q)' <=> Exists(q)) /\ (Live(q)' <=> Live(q))
  BY <1>2 DEF Exists, Live
<1>4. /\ Synced(pages, {}) \in [PageIds -> [Titles -> Link]]
      /\ \A q \in PageIds, t \in Titles :
            Live(q) => LET to == Synced(pages, {})[q][t].to
                       IN  to = 0 \/ (to \in PageIds /\ Live(to))
      /\ \A q \in PageIds : ~Live(q) => Synced(pages, {})[q] = links[q]
  <2>1. \A q \in PageIds, t \in Titles :
            /\ Synced(pages, {}) \in [PageIds -> [Titles -> Link]]
            /\ Live(q) => LET to == Synced(pages, {})[q][t].to
                          IN  to = 0 \/ (to \in PageIds /\ Live(to))
            /\ ~Live(q) => Synced(pages, {})[q] = links[q]
    BY SyncedRows DEF IndInv
  <2>2. 1 \in PageIds /\ 1 \in Titles
    BY BoundsAssumption DEF PageIds, Titles
  <2> QED
    BY <2>1, <2>2
<1> DEFINE rebuilt == Synced(pages, {})
<1>5. [t \in Titles |-> NoLink] \in [Titles -> Link]
  BY BoundsAssumption DEF NoLink, Link
<1> HIDE DEF rebuilt
<1>6. /\ links' \in [PageIds -> [Titles -> Link]]
      /\ links'[p] = [t \in Titles |-> NoLink]
      /\ \A q \in PageIds \ {p} : links'[q] = rebuilt[q]
  BY <1>1, <1>4, <1>5 DEF rebuilt
<1>7. ASSUME NEW q \in PageIds, NEW t \in Titles, links'[q][t].rows > 0
      PROVE  /\ Exists(q)'
             /\ Live(q)' => links'[q][t].to = 0 \/ (Exists(links[q][t].to))'
  <2>1. q # p
    BY <1>6, <1>7 DEF NoLink
  <2>2. CASE Live(q)
    <3>1. Exists(q)'
      BY <1>3, <2>1, <2>2 DEF Live, Exists, NoPage
    <3>2. \/ links'[q][t].to = 0
          \/ (links'[q][t].to \in PageIds /\ Live(links'[q][t].to))
      BY <1>4, <1>6, <2>1, <2>2 DEF rebuilt
    <3>3. \A i \in PageIds : Live(i) => pages'[i] # NoPage
      BY <1>1, <1>2 DEF Live, NoPage
    <3> QED
      BY <3>1, <3>2, <3>3 DEF Exists
  <2>3. CASE ~Live(q)
    BY <1>3, <1>4, <1>6, <1>7, <2>1, <2>3 DEF rebuilt, IndInv, IndexSound
  <2> QED
    BY <2>2, <2>3
<1>8. IndexSound'
  BY <1>7 DEF IndexSound
<1>9. \A v \in VersionIds :
        /\ Stored(v)' <=> Stored(v) /\ versions[v].page # p
        /\ Stored(v)' => versions'[v] = versions[v]
  BY <1>1 DEF VersionsOf, Stored
<1>10. \A v \in VersionIds : Stored(v) => versions[v].page \in PageIds
  BY DEF IndInv, TypeOK, Version, Stored
<1>11. Standing'
  <2> SUFFICES ASSUME NEW v \in VersionIds, Stored(v)'
               PROVE  /\ pages'[versions'[v].page] # NoPage
                      /\ versions'[v].status = "approved" => versions'[v].rank > 0
                      /\ versions'[v].status = "pending" => versions'[v].confirmed = FALSE
    BY DEF Standing, Exists
  <2> QED
    BY <1>2, <1>9, <1>10 DEF IndInv, Standing, Exists
<1>12. \A q \in PageIds \ {p} : (VersionsOf(q))' = VersionsOf(q)
  BY <1>9 DEF VersionsOf
<1>13. ShowsLastApproved'
  <2> SUFFICES ASSUME NEW q \in PageIds, Exists(q)'
               PROVE  \E v \in (VersionsOf(q))' :
                        /\ versions'[v].status = "approved"
                        /\ versions'[v].text = pages'[q].text
                        /\ \A w \in (VersionsOf(q))' \ {v} :
                                versions'[w].rank < versions'[v].rank
    BY DEF ShowsLastApproved
  <2>1. q # p /\ Exists(q)
    BY <1>3
  <2>2. \A v \in (VersionsOf(q))' : versions'[v] = versions[v]
    BY <1>9 DEF VersionsOf
  <2> QED
    BY <1>2, <1>12, <2>1, <2>2 DEF IndInv, ShowsLastApproved
<1>14. SealedByLevel'
  BY <1>2 DEF IndInv, SealedByLevel, Exists
<1>15. TypeOK'
  <2>1. requests' \in 0..MaxRequests
    BY RequestTyped DEF PermanentDelete, IndInv
  <2>2. aliases' \in [Titles -> 0..MaxPages]
    BY <1>1, BoundsAssumption DEF IndInv, TypeOK
  <2>3. versions' \in [VersionIds -> Version \cup {NoVersion}]
    BY <1>1 DEF IndInv, TypeOK
  <2> QED
    BY <1>1, <1>6, <2>1, <2>2, <2>3 DEF IndInv, TypeOK
<1> QED
  BY <1>8, <1>11, <1>13, <1>14, <1>15 DEF IndInv

-----------------------------------------------------------------------------
(* Invariance.                                                             *)

\* Forms that are opened or lost change nothing but themselves.
LEMMA FormKeeps ==
    ASSUME IndInv, NEW u \in Users,
           SaveNowhere(u) \/ \E p \in PageIds : OpenForm(u, p)
    PROVE  IndInv'
<1>1. /\ UNCHANGED <<pages, versions, aliases, links, requests>>
      /\ forms' \in [Users -> [slug : Slug, text : Texts] \cup {NoForm}]
  <2>1. CASE SaveNowhere(u)
    BY <2>1 DEF SaveNowhere, IndInv, TypeOK
  <2>2. ASSUME NEW p \in PageIds, OpenForm(u, p)
        PROVE  /\ UNCHANGED <<pages, versions, aliases, links, requests>>
               /\ forms' \in [Users -> [slug : Slug, text : Texts] \cup {NoForm}]
    <3>1. pages[p] \in Page
      BY <2>2 DEF OpenForm, PageAt, Live, NoPage, IndInv, TypeOK
    <3>2. [slug |-> pages[p].slug, text |-> pages[p].text] \in [slug : Slug, text : Texts]
      BY <3>1 DEF Page
    <3> QED
      BY <2>2, <3>2 DEF OpenForm, IndInv, TypeOK
  <2> QED
    BY <2>1, <2>2
<1>2. TypeOK'
  BY <1>1 DEF IndInv, TypeOK
<1>3. (Standing /\ ShowsLastApproved)'
  BY <1>1, Unchanging DEF Exists
<1>4. (SealedByLevel /\ IndexSound)'
  BY <1>1 DEF IndInv, SealedByLevel, IndexSound, Exists, Live
<1> QED
  BY <1>2, <1>3, <1>4 DEF IndInv

\* Every step keeps the invariant.
LEMMA Inductive ==
    ASSUME IndInv, [Next]_vars
    PROVE  IndInv'
<1>1. CASE FillIndex \/ Restart
  BY <1>1, FillIndexKeeps, RestartKeeps
<1>2. ASSUME NEW u \in Users, PageRequest(u)
      PROVE  IndInv'
  BY <1>2, CreatePageKeeps, DeletePageKeeps, RestoreDeletedKeeps, PermanentDeleteKeeps,
     AliasKeeps DEF PageRequest
<1>3. ASSUME NEW u \in Users, FormRequest(u)
      PROVE  IndInv'
  BY <1>3, FormKeeps, SaveEditKeeps, ProposeEditKeeps DEF FormRequest
<1>4. ASSUME NEW u \in Users, VersionRequest(u)
      PROVE  IndInv'
  BY <1>4, ApproveKeeps, RejectKeeps, RestoreVersionKeeps DEF VersionRequest
<1>5. ASSUME NEW u \in Users, NEW t \in Titles, DeleteAlias(u, t)
      PROVE  IndInv'
  BY <1>5, AliasKeeps
<1>6. CASE UNCHANGED vars
  <2>1. TypeOK'
    BY <1>6 DEF vars, IndInv, TypeOK
  <2>2. (Standing /\ ShowsLastApproved)'
    BY <1>6, Unchanging DEF vars, Exists
  <2>3. (SealedByLevel /\ IndexSound)'
    BY <1>6 DEF vars, IndInv, SealedByLevel, IndexSound, Exists, Live
  <2> QED
    BY <2>1, <2>2, <2>3 DEF IndInv
<1> QED
  BY <1>1, <1>2, <1>3, <1>4, <1>5, <1>6 DEF Next

\* So does the wiki the start-up script seeds.
LEMMA Initial ==
    ASSUME Init
    PROVE  IndInv
<1>1. 1 \in PageIds /\ 1 \in VersionIds /\ 1 \in Titles
  BY BoundsAssumption DEF PageIds, VersionIds, Titles
<1>2. ShippedPage \in Page /\ ShippedPage # NoPage
  BY <1>1, TextsAssumption, BoundsAssumption
  DEF ShippedPage, NoPage, Page, Levels, Slug, Titles
<1>3. FirstVersion(1) \in Version /\ FirstVersion(1) # NoVersion
  BY <1>1, TextsAssumption, SeederIsUser DEF FirstVersion, NoVersion, Version, Users
<1>4. TypeOK
  BY <1>2, <1>3, BoundsAssumption DEF Init, TypeOK, NoLink, Link
<1>5. Standing
  BY <1>1, <1>2, <1>3 DEF Init, Standing, Stored, Exists, FirstVersion
<1>6. ShowsLastApproved
  <2>1. \A p \in PageIds : Exists(p) => p = 1
    BY DEF Init, Exists
  <2>2. VersionsOf(1) = {1}
    BY <1>1, <1>3 DEF Init, VersionsOf, Stored, FirstVersion
  <2>3. versions[1] = FirstVersion(1) /\ pages[1] = ShippedPage
    BY <1>1 DEF Init
  <2> QED
    BY <2>1, <2>2, <2>3 DEF ShowsLastApproved, FirstVersion, ShippedPage
<1>7. SealedByLevel
  BY DEF Init, SealedByLevel, Exists, ShippedPage, Sealed
<1>8. IndexSound
  BY DEF Init, IndexSound, NoLink
<1> QED
  BY <1>4, <1>5, <1>6, <1>7, <1>8 DEF IndInv

\* The inductive invariant of the wiki holds in every reachable state.
THEOREM Invariance == Spec => []IndInv
<1>1. Init => IndInv
  BY Initial
<1>2. IndInv /\ [Next]_vars => IndInv'
  BY Inductive
<1> QED
  BY <1>1, <1>2, PTL DEF Spec

-----------------------------------------------------------------------------
(* The properties of the wiki.                                             *)

\* Every variable keeps its type; in particular a new page always finds a free
\* URL, and every row of the index points at a page id or nowhere.
THEOREM TypeCorrect == Spec => []TypeOK
<1>1. IndInv => TypeOK
  BY DEF IndInv
<1> QED
  BY <1>1, Invariance, PTL

\* Every page shows the version that was approved last.
THEOREM LastApprovedIsShown == Spec => []ShowsLastApproved
<1>1. IndInv => ShowsLastApproved
  BY DEF IndInv
<1> QED
  BY <1>1, Invariance, PTL

\* A page is encrypted at rest exactly while it is for administrators.
THEOREM SealFollowsLevel == Spec => []SealedByLevel
<1>1. IndInv => SealedByLevel
  BY DEF IndInv
<1> QED
  BY <1>1, Invariance, PTL

\* The index of a published page never points at a destroyed page.
THEOREM NoRowDangles == Spec => []NoDanglingLink
<1>1. IndInv => NoDanglingLink
  BY DEF IndInv, IndexSound, NoDanglingLink, Backlinks, Listed, PageIds
<1> QED
  BY <1>1, Invariance, PTL

-----------------------------------------------------------------------------
(* The refinement.                                                         *)

\* What the abstract wiki sees: the texts of the pages, the proposals that wait,
\* and the record of what was published or refused.
ShownText == [p \in PageIds |-> pages[p].text]

Waits(x) == [page |-> x.page, text |-> x.text, base |-> x.base, author |-> x.author]

Settled(x) == [page |-> x.page, text |-> x.text, author |-> x.author, decider |-> x.decider,
               published |-> x.status = "approved", confirmed |-> x.confirmed]

Queue == [v \in VersionIds |-> IF Pending(v) THEN Waits(versions[v]) ELSE NoVersion]

Record ==
    [v \in VersionIds |->
        IF Stored(v) /\ ~Pending(v) THEN Settled(versions[v]) ELSE NoVersion]

\* The steps of the abstract wiki, over what it sees.
LEMMA Mapped ==
    ASSUME NEW u, NEW p, NEW v, NEW t, NEW confirmed
    PROVE  /\ UNCHANGED <<ShownText, Queue, Record>> => UNCHANGED Reviewed!rvars
           /\ (/\ Queue[v] = NoVersion /\ Record[v] = NoVersion
               /\ ShownText' = [ShownText EXCEPT ![p] = t]
               /\ Record' = [Record EXCEPT ![v] =
                                [page |-> p, text |-> t, author |-> u, decider |-> u,
                                 published |-> TRUE, confirmed |-> FALSE]]
               /\ UNCHANGED Queue)
              => Reviewed!Publish(u, v, p, t)
           /\ (/\ Queue[v] = NoVersion /\ Record[v] = NoVersion /\ ShownText[p] # NoText
               /\ Queue' = [Queue EXCEPT ![v] = [page |-> p, text |-> t, base |-> ShownText[p],
                                                 author |-> u]]
               /\ UNCHANGED <<ShownText, Record>>)
              => Reviewed!Propose(u, v, p, t)
           /\ (/\ Queue[v] # NoVersion
               /\ Queue' = [Queue EXCEPT ![v] = NoVersion]
               /\ Record' = [Record EXCEPT ![v] =
                                [page |-> Queue[v].page, text |-> Queue[v].text,
                                 author |-> Queue[v].author, decider |-> u,
                                 published |-> TRUE, confirmed |-> confirmed]]
               /\ Queue[v].base \in {NoText, ShownText[Queue[v].page]} \/ confirmed
               /\ ShownText' = [ShownText EXCEPT ![Queue[v].page] = Queue[v].text])
              => Reviewed!Accept(u, v, confirmed)
           /\ (/\ Queue[v] # NoVersion
               /\ Queue' = [Queue EXCEPT ![v] = NoVersion]
               /\ Record' = [Record EXCEPT ![v] =
                                [page |-> Queue[v].page, text |-> Queue[v].text,
                                 author |-> Queue[v].author, decider |-> u,
                                 published |-> FALSE, confirmed |-> FALSE]]
               /\ UNCHANGED ShownText)
              => Reviewed!Refuse(u, v)
           /\ (/\ ShownText[p] # NoText
               /\ ShownText' = [ShownText EXCEPT ![p] = NoText]
               /\ Queue' = [w \in VersionIds |->
                             IF Queue[w] # NoVersion /\ Queue[w].page = p
                             THEN NoVersion ELSE Queue[w]]
               /\ Record' = [w \in VersionIds |->
                             IF Record[w] # NoVersion /\ Record[w].page = p
                             THEN NoVersion ELSE Record[w]])
              => Reviewed!Destroy(p)
BY DEF ShownText, Queue, Record, Waits, Settled, Reviewed!rvars, Reviewed!Publish,
   Reviewed!Propose, Reviewed!Decides, Reviewed!Accept, Reviewed!Refuse, Reviewed!Destroy,
   Reviewed!Waiting, Reviewed!Free

\* A page that is replaced shows its new text.
LEMMA TextStep ==
    ASSUME TypeOK, NEW p \in PageIds, NEW page, pages' = [pages EXCEPT ![p] = page]
    PROVE  ShownText' = [ShownText EXCEPT ![p] = page.text]
BY DEF TypeOK, ShownText

\* An id that no version has is free in the queue and on record.
LEMMA NothingShown ==
    ASSUME NEW v \in VersionIds, ~Stored(v)
    PROVE  Queue[v] = NoVersion /\ Record[v] = NoVersion
BY DEF Queue, Record, Pending

\* The queue the abstract wiki sees holds the pending versions.
LEMMA QueueShows ==
    ASSUME TypeOK, NEW v \in VersionIds
    PROVE  /\ ~Pending(v) => Queue[v] = NoVersion
           /\ Pending(v) => /\ Queue[v] # NoVersion
                            /\ Queue[v] = Waits(versions[v])
                            /\ Queue[v].page = versions[v].page
<1>1. Pending(v) => versions[v].page \in PageIds
  BY DEF TypeOK, Pending, Stored, Version
<1>2. Pending(v) => versions[v].page # NoVersion.page
  BY <1>1 DEF NoVersion, PageIds
<1>3. Pending(v) => Queue[v] = Waits(versions[v])
  BY DEF Queue
<1>4. Waits(versions[v]).page = versions[v].page
  BY DEF Waits
<1>5. Pending(v) => Queue[v] # NoVersion
  BY <1>2, <1>3, <1>4
<1>6. ~Pending(v) => Queue[v] = NoVersion
  BY DEF Queue
<1> QED
  BY <1>3, <1>4, <1>5, <1>6

\* Its record holds the others.
LEMMA RecordShows ==
    ASSUME TypeOK, NEW v \in VersionIds, Stored(v), ~Pending(v)
    PROVE  Record[v] # NoVersion /\ Record[v].page = versions[v].page
<1>1. versions[v].page \in PageIds
  BY DEF TypeOK, Stored, Version
<1>2. versions[v].page # NoVersion.page
  BY <1>1 DEF NoVersion, PageIds
<1>3. Record[v] = Settled(versions[v])
  BY DEF Record
<1>4. Settled(versions[v]).page = versions[v].page
  BY DEF Settled
<1> QED
  BY <1>2, <1>3, <1>4

\* What replacing one version does to the queue and to the record.
LEMMA VersionStep ==
    ASSUME TypeOK, NEW v \in VersionIds, NEW new \in Version,
           versions' = [versions EXCEPT ![v] = new]
    PROVE  /\ new.status # "pending" =>
                /\ Queue' = [Queue EXCEPT ![v] = NoVersion]
                /\ Record' = [Record EXCEPT ![v] = Settled(new)]
           /\ new.status # "pending" /\ ~Pending(v) => UNCHANGED Queue
           /\ new.status = "pending" => Queue' = [Queue EXCEPT ![v] = Waits(new)]
           /\ new.status = "pending" /\ ~Stored(v) => UNCHANGED Record
<1>1. versions'[v] = new /\ \A w \in VersionIds \ {v} : versions'[w] = versions[w]
  BY DEF TypeOK
<1>2. new # NoVersion
  BY DEF NoVersion, Version, PageIds
<1>3. \A w \in VersionIds \ {v} : (Pending(w)' <=> Pending(w)) /\ (Stored(w)' <=> Stored(w))
  BY <1>1 DEF Pending, Stored
<1>4. Stored(v)' /\ (Pending(v)' <=> new.status = "pending")
  BY <1>1, <1>2 DEF Pending, Stored
<1>5. Waits(versions[v])' = Waits(new) /\ Settled(versions[v])' = Settled(new)
  BY <1>1 DEF Waits, Settled
<1>6. \A w \in VersionIds \ {v} : /\ Waits(versions[w])' = Waits(versions[w])
                                  /\ Settled(versions[w])' = Settled(versions[w])
  BY <1>1 DEF Waits, Settled
<1>7. \A w \in VersionIds \ {v} : Queue'[w] = Queue[w] /\ Record'[w] = Record[w]
  BY <1>3, <1>6 DEF Queue, Record
<1>8. Queue'[v] = IF new.status = "pending" THEN Waits(new) ELSE NoVersion
  BY <1>4, <1>5 DEF Queue
<1>9. Record'[v] = IF new.status = "pending" THEN NoVersion ELSE Settled(new)
  BY <1>4, <1>5 DEF Record
<1>10. ~Pending(v) => Queue[v] = NoVersion
  BY DEF Queue
<1>11. ~Stored(v) => Record[v] = NoVersion
  BY NothingShown
<1>12. /\ Queue = [w \in VersionIds |-> Queue[w]] /\ Queue' = [w \in VersionIds |-> Queue'[w]]
       /\ Record = [w \in VersionIds |-> Record[w]]
       /\ Record' = [w \in VersionIds |-> Record'[w]]
  BY DEF Queue, Record
<1> QED
  BY <1>7, <1>8, <1>9, <1>10, <1>11, <1>12

\* A text that is published in one's own name.
LEMMA PublishStep ==
    ASSUME TypeOK, NEW u, NEW p \in PageIds, NEW page, page.text \in Texts,
           pages' = [pages EXCEPT ![p] = page],
           NEW new \in Version, new.status = "approved", new.page = p, new.text = page.text,
           new.author = u, new.decider = u, new.confirmed = FALSE, AddVersion(new)
    PROVE  /\ \E v \in VersionIds : Reviewed!Publish(u, v, p, page.text)
           /\ u \in Admins => Reviewed!RNext
<1>1. PICK v \in VersionIds : ~Stored(v) /\ versions' = [versions EXCEPT ![v] = new]
  BY AddedVersion
<1>2. UNCHANGED Queue /\ Record' = [Record EXCEPT ![v] = Settled(new)]
  BY <1>1, VersionStep DEF Pending
<1>3. ShownText' = [ShownText EXCEPT ![p] = page.text]
  BY TextStep
<1>4. Settled(new) = [page |-> p, text |-> page.text, author |-> u, decider |-> u,
                      published |-> TRUE, confirmed |-> FALSE]
  BY DEF Settled
<1>5. Queue[v] = NoVersion /\ Record[v] = NoVersion
  BY <1>1, NothingShown
<1>6. Reviewed!Publish(u, v, p, page.text)
  BY <1>2, <1>3, <1>4, <1>5, Mapped
<1>7. u \in Admins => Reviewed!RNext
  BY <1>6 DEF Reviewed!RNext
<1> QED
  BY <1>6, <1>7

\* A request that keeps the texts and the versions is no step of the abstract
\* wiki.
LEMMA Stutters ==
    ASSUME \A q \in PageIds : pages'[q].text = pages[q].text, UNCHANGED versions
    PROVE  UNCHANGED Reviewed!rvars
<1>1. UNCHANGED <<ShownText, Queue, Record>>
  BY DEF ShownText, Queue, Record, Pending, Stored
<1> QED
  BY <1>1, Mapped

\* Creating a page publishes, destroying it destroys, the rest stutters.
LEMMA PageRequestMapped ==
    ASSUME IndInv, NEW u \in Users, PageRequest(u)
    PROVE  [Reviewed!RNext]_(Reviewed!rvars)
<1>1. ASSUME NEW p \in PageIds, NEW t \in Titles, NEW x \in Texts, NEW l \in Levels,
             CreatePage(u, p, t, x, l)
      PROVE  Reviewed!RNext
  <2> DEFINE page == [title |-> t, slug |-> FreeSlug(t), text |-> x, level |-> l,
                      sealed |-> Sealed(l), published |-> TRUE]
             new == Approved(u, p, 1, x, l, NoText, NoText)
  <2>1. /\ new \in Version /\ new.status = "approved" /\ new.page = p /\ new.text = x
        /\ u \in Admins
    <3>1. NoText \in Texts \cup {NoText} /\ 1 \in Nat /\ u \in Admins
      BY <1>1 DEF CreatePage
    <3> QED
      BY <3>1, ApprovedTyped
  <2>2. page.text = x /\ pages' = [pages EXCEPT ![p] = page] /\ AddVersion(new)
    BY <1>1 DEF CreatePage
  <2>3. new.author = u /\ new.decider = u /\ new.confirmed = FALSE
    BY DEF Approved
  <2> HIDE DEF page, new
  <2> QED
    BY <2>1, <2>2, <2>3, PublishStep DEF IndInv
<1>2. ASSUME NEW p \in PageIds,
             \/ DeletePage(u, p) \/ RestoreDeleted(u, p)
             \/ \E t \in Titles : AddAlias(u, p, t)
      PROVE  UNCHANGED Reviewed!rvars
  <2>1. UNCHANGED versions /\ \A q \in PageIds : pages'[q].text = pages[q].text
    BY <1>2 DEF DeletePage, RestoreDeleted, AddAlias, IndInv, TypeOK, Page, NoPage, Live, Exists
  <2> QED
    BY <2>1, Stutters
<1>3. ASSUME NEW p \in PageIds, PermanentDelete(u, p)
      PROVE  Reviewed!RNext
  <2>1. /\ pages' = [pages EXCEPT ![p] = NoPage] /\ Exists(p)
        /\ versions' = [v \in VersionIds |->
                          IF v \in VersionsOf(p) THEN NoVersion ELSE versions[v]]
    BY <1>3 DEF PermanentDelete
  <2>2. ShownText[p] # NoText
    BY <2>1, TextsAssumption DEF IndInv, TypeOK, Exists, Page, ShownText
  <2>3. ShownText' = [ShownText EXCEPT ![p] = NoText]
    <3>1. NoPage.text = NoText
      BY DEF NoPage
    <3>2. ShownText' = [ShownText EXCEPT ![p] = NoPage.text]
      BY <2>1, TextStep DEF IndInv
    <3> QED
      BY <3>1, <3>2
  <2>4. ASSUME NEW w \in VersionIds
        PROVE  Queue'[w] = IF Queue[w] # NoVersion /\ Queue[w].page = p
                           THEN NoVersion ELSE Queue[w]
    <3>1. CASE Pending(w) /\ versions[w].page = p
      <4>1. w \in VersionsOf(p) /\ Queue[w] # NoVersion /\ Queue[w].page = p
        BY <3>1, QueueShows DEF IndInv, Pending, VersionsOf
      <4>2. ~Pending(w)'
        BY <2>1, <4>1 DEF Pending, Stored
      <4> QED
        BY <4>1, <4>2 DEF Queue
    <3>2. CASE Pending(w) /\ versions[w].page # p
      <4>1. versions'[w] = versions[w] /\ Pending(w)'
        BY <2>1, <3>2 DEF Pending, Stored, VersionsOf
      <4>2. Queue'[w] = Queue[w]
        BY <3>2, <4>1 DEF Queue, Waits
      <4>3. Queue[w].page # p
        BY <3>2, QueueShows DEF IndInv
      <4> QED
        BY <4>2, <4>3
    <3>3. CASE ~Pending(w)
      <4>1. ~Pending(w)'
        BY <2>1, <3>3 DEF Pending, Stored
      <4> QED
        BY <3>3, <4>1 DEF Queue
    <3> QED
      BY <3>1, <3>2, <3>3
  <2>5. Queue' = [w \in VersionIds |->
                    IF Queue[w] # NoVersion /\ Queue[w].page = p
                    THEN NoVersion ELSE Queue[w]]
    BY <2>4 DEF Queue
  <2>6. ASSUME NEW w \in VersionIds
        PROVE  Record'[w] = IF Record[w] # NoVersion /\ Record[w].page = p
                            THEN NoVersion ELSE Record[w]
    <3>1. CASE Stored(w) /\ ~Pending(w) /\ versions[w].page = p
      <4>1. w \in VersionsOf(p) /\ Record[w] # NoVersion /\ Record[w].page = p
        BY <3>1, RecordShows DEF IndInv, VersionsOf
      <4>2. ~Stored(w)'
        BY <2>1, <4>1 DEF Stored
      <4> QED
        BY <4>1, <4>2 DEF Record
    <3>2. CASE Stored(w) /\ ~Pending(w) /\ versions[w].page # p
      <4>1. versions'[w] = versions[w] /\ Stored(w)' /\ ~Pending(w)'
        BY <2>1, <3>2 DEF Pending, Stored, VersionsOf
      <4>2. Record'[w] = Record[w]
        BY <3>2, <4>1 DEF Record, Settled
      <4>3. Record[w].page # p
        BY <3>2, RecordShows DEF IndInv
      <4> QED
        BY <4>2, <4>3
    <3>3. CASE ~Stored(w) \/ Pending(w)
      <4>1. ~Stored(w)' \/ Pending(w)'
        BY <2>1, <3>3 DEF Pending, Stored
      <4>2. Record[w] = NoVersion /\ Record'[w] = NoVersion
        BY <3>3, <4>1 DEF Record
      <4> QED
        BY <4>2
    <3> QED
      BY <3>1, <3>2, <3>3
  <2>7. Record' = [w \in VersionIds |->
                     IF Record[w] # NoVersion /\ Record[w].page = p
                     THEN NoVersion ELSE Record[w]]
    BY <2>6 DEF Record
  <2>8. Reviewed!Destroy(p)
    BY <2>2, <2>3, <2>5, <2>7, Mapped
  <2> QED
    BY <2>8 DEF Reviewed!RNext
<1> QED
  BY <1>1, <1>2, <1>3 DEF PageRequest

\* Saving publishes, proposing proposes.
LEMMA FormRequestMapped ==
    ASSUME IndInv, NEW u \in Users, FormRequest(u)
    PROVE  [Reviewed!RNext]_(Reviewed!rvars)
<1>1. ASSUME SaveNowhere(u) \/ \E p \in PageIds : OpenForm(u, p)
      PROVE  UNCHANGED Reviewed!rvars
  BY <1>1, Stutters DEF SaveNowhere, OpenForm
<1>2. ASSUME NEW p \in PageIds, NEW t \in Titles, NEW x \in Texts, NEW l \in Levels,
             SaveEdit(u, p, t, x, l)
      PROVE  Reviewed!RNext
  <2>1. pages[p] \in Page
    BY <1>2 DEF SaveEdit, PageAt, IndInv, TypeOK, Live, NoPage
  <2> DEFINE page == [pages[p] EXCEPT !.text = x, !.sealed = Sealed(l), !.title = t, !.level = l]
             new == Approved(u, p, NextVersion(p), x, l, pages[p].text, forms[u].text)
  <2>2. page.text = x
    BY <2>1 DEF Page
  <2>3. pages' = [pages EXCEPT ![p] = page]
    BY <1>2, <2>1 DEF SaveEdit, WithText, IndInv, TypeOK, Page
  <2>4. /\ forms[u] \in [slug : Slug, text : Texts] /\ pages[p].text \in Texts
        /\ u \in Admins
    BY <1>2, <2>1 DEF SaveEdit, IndInv, TypeOK, Page
  <2>5. new \in Version /\ new.status = "approved" /\ new.page = p /\ new.text = x
    BY <2>4, NextVersionTyped, ApprovedTyped
  <2>6. AddVersion(new)
    BY <1>2 DEF SaveEdit
  <2>7. new.author = u /\ new.decider = u /\ new.confirmed = FALSE
    BY DEF Approved
  <2> HIDE DEF page, new
  <2> QED
    BY <2>2, <2>3, <2>4, <2>5, <2>6, <2>7, PublishStep DEF IndInv
<1>3. ASSUME NEW p \in PageIds, NEW x \in Texts, ProposeEdit(u, p, x)
      PROVE  Reviewed!RNext
  <2>1. pages[p] \in Page /\ UNCHANGED pages
    BY <1>3 DEF ProposeEdit, PageAt, IndInv, TypeOK, Live, NoPage
  <2> DEFINE old == Approved(u, p, NextVersion(p), x, pages[p].level,
                             pages[p].text, forms[u].text)
             new == [old EXCEPT !.status = "pending", !.rank = 0, !.decider = Nobody]
  <2>2. /\ forms[u] \in [slug : Slug, text : Texts] /\ pages[p].text \in Texts
        /\ pages[p].level \in Levels /\ u \in Contributors
    BY <1>3, <2>1 DEF ProposeEdit, IndInv, TypeOK, Page
  <2>3. old \in Version /\ old.page = p /\ old.text = x
    BY <2>2, NextVersionTyped, ApprovedTyped
  <2>4. old.base = pages[p].text /\ old.author = u
    BY DEF Approved
  <2>5. /\ new \in Version /\ new.page = p /\ new.status = "pending" /\ new.text = x
        /\ new.base = pages[p].text /\ new.author = u
    <3> HIDE DEF old
    <3> QED
      BY <2>3, <2>4 DEF Version
  <2>6. PICK v \in VersionIds : ~Stored(v) /\ versions' = [versions EXCEPT ![v] = new]
    BY <1>3, AddedVersion DEF ProposeEdit
  <2> HIDE DEF old, new
  <2>7. Queue[v] = NoVersion /\ Record[v] = NoVersion
    BY <2>6, NothingShown
  <2>8. ShownText[p] = pages[p].text /\ ShownText[p] # NoText
    BY <2>2, TextsAssumption DEF ShownText
  <2>9. Queue' = [Queue EXCEPT ![v] = [page |-> p, text |-> x, base |-> ShownText[p],
                                       author |-> u]]
    <3>1. Queue' = [Queue EXCEPT ![v] = Waits(new)]
      BY <2>5, <2>6, VersionStep DEF IndInv
    <3>2. Waits(new) = [page |-> p, text |-> x, base |-> ShownText[p], author |-> u]
      BY <2>5, <2>8 DEF Waits
    <3> QED
      BY <3>1, <3>2
  <2>10. UNCHANGED <<ShownText, Record>>
    <3>1. UNCHANGED Record
      BY <2>5, <2>6, VersionStep DEF IndInv
    <3> QED
      BY <2>1, <3>1 DEF ShownText
  <2>11. Reviewed!Propose(u, v, p, x)
    BY <2>7, <2>8, <2>9, <2>10, Mapped
  <2>12. u \in Users \ Admins
    BY <2>2, UsersAssumption
  <2> QED
    BY <2>11, <2>12 DEF Reviewed!RNext
<1> QED
  BY <1>1, <1>2, <1>3 DEF FormRequest

\* Approving accepts, rejecting refuses, restoring publishes.
LEMMA VersionRequestMapped ==
    ASSUME IndInv, NEW u \in Users, VersionRequest(u)
    PROVE  [Reviewed!RNext]_(Reviewed!rvars)
<1>1. ASSUME NEW v \in VersionIds, NEW confirmed \in BOOLEAN, Approve(u, v, confirmed)
      PROVE  Reviewed!RNext
  <2> DEFINE p == versions[v].page
             x == versions[v].text
             new == Accepted(u, v, confirmed)
  <2>1. versions[v] \in Version /\ p \in PageIds /\ x \in Texts /\ Exists(p) /\ Pending(v)
    BY <1>1 DEF Approve, Pending, Stored, IndInv, TypeOK, Standing, Version
  <2>2. new \in Version /\ new.status = "approved" /\ new.decider = u
    BY <2>1, NextRankAbove DEF IndInv, Version, Accepted
  <2>3. versions' = [versions EXCEPT ![v] = new] /\ u \in Admins
    BY <1>1 DEF Approve
  <2>4. pages' = WithText(p, x)
    BY <1>1 DEF Approve
  <2>5. Queue[v] # NoVersion /\ Queue[v] = Waits(versions[v])
    BY <2>1, QueueShows DEF IndInv
  <2>6. Queue[v].page = p /\ Queue[v].text = x /\ Queue[v].base = versions[v].base
    BY <2>5 DEF Waits
  <2>7. Settled(new) = [page |-> Queue[v].page, text |-> Queue[v].text,
                        author |-> Queue[v].author, decider |-> u,
                        published |-> TRUE, confirmed |-> confirmed]
    <3>1. /\ new.page = versions[v].page /\ new.text = versions[v].text
          /\ new.author = versions[v].author /\ new.confirmed = confirmed
      BY <2>1 DEF Version, Accepted
    <3>2. Queue[v].author = versions[v].author
      BY <2>5 DEF Waits
    <3>3. new.status = "approved" <=> TRUE
      BY <2>2
    <3> HIDE DEF new
    <3> QED
      BY <2>2, <2>6, <3>1, <3>2, <3>3 DEF Settled
  <2>8. Queue[v].base \in {NoText, ShownText[Queue[v].page]} \/ confirmed
    <3>1. HasConflict(v) => confirmed
      BY <1>1 DEF Approve
    <3>2. ShownText[Queue[v].page] = pages[p].text
      BY <2>1, <2>6 DEF ShownText
    <3> QED
      BY <2>6, <3>1, <3>2 DEF HasConflict
  <2> HIDE DEF p, x, new
  <2>9. PICK page \in Page : pages' = [pages EXCEPT ![p] = page] /\ page.text = x
    BY <2>1, <2>4, WithTextTyped
  <2>10. ShownText' = [ShownText EXCEPT ![p] = x]
    BY <2>1, <2>9, TextStep DEF IndInv
  <2>11. /\ Queue' = [Queue EXCEPT ![v] = NoVersion]
         /\ Record' = [Record EXCEPT ![v] = Settled(new)]
    BY <2>2, <2>3, VersionStep DEF IndInv
  <2>12. ShownText' = [ShownText EXCEPT ![Queue[v].page] = Queue[v].text]
    BY <2>6, <2>10
  <2>13. Record' = [Record EXCEPT ![v] =
                        [page |-> Queue[v].page, text |-> Queue[v].text,
                         author |-> Queue[v].author, decider |-> u,
                         published |-> TRUE, confirmed |-> confirmed]]
    BY <2>7, <2>11
  <2>14. Reviewed!Accept(u, v, confirmed)
    BY <2>5, <2>8, <2>11, <2>12, <2>13, Mapped
  <2> QED
    BY <2>3, <2>14 DEF Reviewed!RNext
<1>2. ASSUME NEW v \in VersionIds, Reject(u, v)
      PROVE  Reviewed!RNext
  <2> DEFINE new == [versions[v] EXCEPT !.status = "rejected", !.decider = u]
  <2>1. /\ versions[v] \in Version /\ Pending(v) /\ versions' = [versions EXCEPT ![v] = new]
        /\ u \in Admins
    BY <1>2 DEF Reject, Pending, Stored, IndInv, TypeOK
  <2>2. /\ new \in Version /\ new.status = "rejected" /\ new.decider = u
        /\ new.page = versions[v].page /\ new.text = versions[v].text
        /\ new.author = versions[v].author
    BY <2>1 DEF Version, Users
  <2>3. new.confirmed = FALSE
    <3>1. versions[v].confirmed = FALSE
      BY <2>1 DEF IndInv, Standing, Pending
    <3> QED
      BY <2>1, <3>1 DEF Version
  <2> HIDE DEF new
  <2>4. /\ Queue' = [Queue EXCEPT ![v] = NoVersion]
        /\ Record' = [Record EXCEPT ![v] = Settled(new)]
    BY <2>1, <2>2, VersionStep DEF IndInv
  <2>5. Queue[v] # NoVersion /\ Queue[v] = Waits(versions[v])
    BY <2>1, QueueShows DEF IndInv
  <2>6. Settled(new) = [page |-> Queue[v].page, text |-> Queue[v].text,
                        author |-> Queue[v].author, decider |-> u,
                        published |-> FALSE, confirmed |-> FALSE]
    <3>1. /\ Queue[v].page = versions[v].page /\ Queue[v].text = versions[v].text
          /\ Queue[v].author = versions[v].author
      BY <2>5 DEF Waits
    <3>2. new.status = "approved" <=> FALSE
      BY <2>2
    <3> QED
      BY <2>2, <2>3, <3>1, <3>2 DEF Settled
  <2>7. UNCHANGED ShownText
    BY <1>2 DEF Reject, ShownText
  <2>8. Reviewed!Refuse(u, v)
    BY <2>4, <2>5, <2>6, <2>7, Mapped
  <2> QED
    BY <2>1, <2>8 DEF Reviewed!RNext
<1>3. ASSUME NEW v \in VersionIds, RestoreVersion(u, v)
      PROVE  Reviewed!RNext
  <2> DEFINE p == versions[v].page
             x == versions[v].text
             l == pages[p].level
             n == NextVersion(p)
             none == NoText
             new == Approved(u, p, n, x, l, none, none)
  <2>1. /\ p \in PageIds /\ x \in Texts /\ Exists(p) /\ l \in Levels
        /\ u \in Admins
    BY <1>3 DEF RestoreVersion, Stored, Exists, IndInv, TypeOK, Standing, Version, Page
  <2>2. n \in Nat /\ none \in Texts \cup {NoText}
    BY <2>1, NextVersionTyped
  <2>3. pages' = WithText(p, x) /\ AddVersion(new)
    BY <1>3 DEF RestoreVersion
  <2> HIDE DEF p, x, l, n, none
  <2>4. new \in Version /\ new.status = "approved" /\ new.page = p /\ new.text = x
    BY <2>1, <2>2, ApprovedTyped
  <2>5. new.author = u /\ new.decider = u /\ new.confirmed = FALSE
    BY DEF Approved
  <2> HIDE DEF new
  <2>6. PICK page \in Page : pages' = [pages EXCEPT ![p] = page] /\ page.text = x
    BY <2>1, <2>3, WithTextTyped
  <2>7. page.text \in Texts /\ new.text = page.text /\ TypeOK
    BY <2>1, <2>4, <2>6 DEF IndInv
  <2>8. AddVersion(new)
    BY <2>3
  <2> QED
    BY <2>1, <2>4, <2>5, <2>6, <2>7, <2>8, PublishStep
<1> QED
  BY <1>1, <1>2, <1>3 DEF VersionRequest

\* Every step of the wiki is a step of the abstract one, or none.
LEMMA StepMapped ==
    ASSUME IndInv, [Next]_vars
    PROVE  [Reviewed!RNext]_(Reviewed!rvars)
<1>1. CASE FillIndex \/ \E u \in Users, t \in Titles : DeleteAlias(u, t)
  BY <1>1, Stutters DEF FillIndex, DeleteAlias
<1>2. CASE Restart
  <2>1. PICK p \in PageIds :
          /\ NextId(p, {q \in PageIds : Exists(q)})
          /\ pages' = [pages EXCEPT ![p] = ShippedPage] /\ AddVersion(FirstVersion(p))
    BY <1>2 DEF Restart
  <2> DEFINE new == FirstVersion(p)
             page == ShippedPage
  <2>2. /\ new \in Version /\ new.status = "approved" /\ new.page = p /\ new.text = page.text
        /\ page.text \in Texts /\ page.text = Shipped
    BY TextsAssumption, SeederIsUser DEF FirstVersion, Version, ShippedPage, Users
  <2>3. new.author = Seeder /\ new.decider = Seeder /\ new.confirmed = FALSE
    BY DEF FirstVersion
  <2>4. pages' = [pages EXCEPT ![p] = page] /\ AddVersion(new)
    BY <2>1
  <2> HIDE DEF new, page
  <2>5. PICK v \in VersionIds : Reviewed!Publish(Seeder, v, p, Shipped)
    <3> DEFINE u == Seeder
    <3>1. new.author = u /\ new.decider = u
      BY <2>3
    <3> HIDE DEF u
    <3>2. \E v \in VersionIds : Reviewed!Publish(u, v, p, page.text)
      BY <2>2, <2>3, <2>4, <3>1, PublishStep DEF IndInv
    <3> QED
      BY <2>2, <3>2 DEF u
  <2>6. ShownText[p] = NoText
    <3>1. ~Exists(p)
      <4>1. \A q \in {i \in PageIds : Exists(i)} : q < p
        BY <2>1 DEF NextId
      <4>2. ~(p < p)
        BY DEF PageIds
      <4> QED
        BY <4>1, <4>2
    <3> QED
      BY <3>1 DEF ShownText, Exists, NoPage
  <2>7. Reviewed!Supply(Seeder, v, p)
    BY <2>5, <2>6 DEF Reviewed!Supply, ShownText
  <2> QED
    BY <2>7, SeederIsUser DEF Reviewed!RNext
<1>3. CASE UNCHANGED vars
  BY <1>3, Stutters DEF vars
<1> QED
  BY <1>1, <1>2, <1>3, PageRequestMapped, FormRequestMapped, VersionRequestMapped DEF Next

\* The wiki implements the abstract one: every text is published under its author
\* and the administrator who answers for it, a contributor's only by leaving the
\* queue through a decision, taken once and confirmed if the page has changed.
THEOREM Refinement == Spec => ImplementsReview
<1>1. Init => Reviewed!RInit
  <2> SUFFICES ASSUME Init
               PROVE  Reviewed!RInit
    OBVIOUS
  <2>1. IndInv
    BY Initial
  <2>2. ShownText \in [PageIds -> Texts \cup {NoText}]
    BY <2>1 DEF IndInv, TypeOK, Page, NoPage, ShownText
  <2>3. \A v \in VersionIds : ~Pending(v) /\ (Stored(v) => v = 1)
    BY DEF Init, Pending, Stored, FirstVersion, NoVersion
  <2>4. Queue = [v \in VersionIds |-> NoVersion]
    BY <2>3 DEF Queue
  <2>5. ASSUME NEW v \in VersionIds
        PROVE  Record[v] \in Reviewed!Decision \cup {NoVersion}
    <3>1. CASE v = 1
      <4>1. versions[v] = FirstVersion(1) /\ 1 \in PageIds
        BY <3>1, BoundsAssumption DEF Init, PageIds
      <4>2. Settled(FirstVersion(1)) =
                [page |-> 1, text |-> Shipped, author |-> Seeder, decider |-> Seeder,
                 published |-> TRUE, confirmed |-> FALSE]
        BY DEF Settled, FirstVersion
      <4>3. Settled(FirstVersion(1)) \in Reviewed!Decision
        <5> DEFINE by == Seeder
        <5>1. by \in Users /\ Shipped \in Texts /\ 1 \in PageIds
          BY <4>1, SeederIsUser, TextsAssumption DEF Users
        <5> HIDE DEF by
        <5>2. [page |-> 1, text |-> Shipped, author |-> by, decider |-> by,
               published |-> TRUE, confirmed |-> FALSE] \in Reviewed!Decision
          BY <5>1 DEF Reviewed!Decision
        <5> QED
          BY <4>2, <5>2 DEF by
      <4> QED
        BY <4>1, <4>3 DEF Record
    <3>2. CASE v # 1
      BY <2>3, <3>2 DEF Record
    <3> QED
      BY <3>1, <3>2
  <2>6. Record \in [VersionIds -> Reviewed!Decision \cup {NoVersion}]
    BY <2>5 DEF Record
  <2> QED
    BY <2>2, <2>4, <2>6 DEF Reviewed!RInit, ShownText, Queue, Record, Waits, Settled
<1>2. IndInv /\ [Next]_vars => [Reviewed!RNext]_(Reviewed!rvars)
  BY StepMapped
<1>3. ImplementsReview <=> Reviewed!RInit /\ [][Reviewed!RNext]_(Reviewed!rvars)
  BY DEF ImplementsReview, Reviewed!RSpec
<1> QED
  BY <1>1, <1>2, <1>3, Invariance, PTL DEF Spec

-----------------------------------------------------------------------------
(* Publishing repairs the index.                                           *)

\* The rows of the published pages are what their bodies say.
IndexExact ==
    \A p \in PageIds, t \in Titles : Live(p) =>
        /\ links[p][t].rows > 0 <=> t \in Mentions[pages[p].text]
        /\ links[p][t].rows > 0 => links[p][t].to = Resolve(pages, aliases, t)

\* An exact index makes what is shown of it agree with the bodies.
LEMMA ExactViews == TypeOK /\ IndexExact => ViewsExact
<1> SUFFICES ASSUME TypeOK, IndexExact
             PROVE  ViewsExact
  OBVIOUS
<1>1. \A p \in PageIds : Live(p) => Mentions[pages[p].text] \subseteq Titles
  BY TextsAssumption DEF TypeOK, Page, NoPage, Live
<1>2. ASSUME NEW u \in Admins
      PROVE  Wanted(u) = Red(u)
  <2>1. Listed(u) = {p \in PageIds : pages[p].published}
    BY DEF Listed, CanView, Live
  <2>2. \A t : Resolve(pages, aliases, t) = ResolveAmong(Listed(u), pages, aliases, t)
    BY <2>1 DEF Resolve
  <2>3. \A p \in Listed(u) : p \in PageIds /\ Live(p)
    BY DEF Listed
  <2> QED
    BY <2>2, <2>3 DEF Wanted, Red, IndexExact
<1>3. ASSUME NEW u \in Users, NEW p \in PageIds, Live(p)
      PROVE  Backlinks(u, p) = Mentioning(u, p)
  <2>1. \A q \in Listed(u) : q \in PageIds /\ Live(q)
    BY DEF Listed
  <2> QED
    BY <1>1, <2>1 DEF Backlinks, Mentioning, IndexExact
<1>4. ASSUME NEW u \in Users
      PROVE  Orphans(u) = {p \in Listed(u) : Mentioning(u, p) = {}}
  BY <1>3 DEF Orphans, Listed
<1> QED
  BY <1>2, <1>3, <1>4 DEF ViewsExact

\* A title leads to the same page as long as the published pages keep their
\* names.
LEMMA ResolveKept ==
    ASSUME NEW names, NEW also, NEW names2, NEW t,
           \A q \in PageIds : names2[q].published = names[q].published,
           \A q \in PageIds : names[q].published =>
                names2[q].title = names[q].title /\ names2[q].slug = names[q].slug
    PROVE  Resolve(names2, also, t) = Resolve(names, also, t)
<1> DEFINE seen == {q \in PageIds : names[q].published}
           seen2 == {q \in PageIds : names2[q].published}
           hits == {q \in seen : names[q].title = t \/ names[q].slug = <<t, 0>>}
           hits2 == {q \in seen2 : names2[q].title = t \/ names2[q].slug = <<t, 0>>}
           first == {p \in hits : \A q \in hits :
                        \/ names[p].title < names[q].title
                        \/ names[p].title = names[q].title /\ p <= q}
           first2 == {p \in hits2 : \A q \in hits2 :
                        \/ names2[p].title < names2[q].title
                        \/ names2[p].title = names2[q].title /\ p <= q}
<1>1. seen2 = seen
  OBVIOUS
<1>2. hits2 = hits
  BY <1>1
<1>3. first2 = first
  BY <1>2
<1>4. /\ Resolve(names, also, t) = IF hits # {} THEN CHOOSE p \in first : TRUE
                                   ELSE IF also[t] \in seen THEN also[t] ELSE 0
      /\ Resolve(names2, also, t) = IF hits2 # {} THEN CHOOSE p \in first2 : TRUE
                                    ELSE IF also[t] \in seen2 THEN also[t] ELSE 0
  BY DEF Resolve, ResolveAmong
<1> HIDE DEF seen, seen2, hits, hits2, first, first2
<1> QED
  BY <1>1, <1>2, <1>3, <1>4

\* A rebuild after a text was replaced under the same names is exact.
LEMMA RebuiltExact ==
    ASSUME TypeOK, NEW p \in PageIds, NamesKept, links' = Synced(pages', {p}),
           \A q \in PageIds \ {p} : pages'[q] = pages[q], Exists(p)
    PROVE  IndexExact'
<1>1. \A q \in PageIds : /\ pages'[q].title = pages[q].title
                         /\ pages'[q].slug = pages[q].slug
                         /\ pages'[q].published = pages[q].published
  BY DEF NamesKept
<1>2. \A t : Resolve(pages', aliases', t) = Resolve(pages, aliases, t)
  BY <1>1, ResolveKept DEF NamesKept
<1>3. ASSUME NEW q \in PageIds, Live(q)'
      PROVE  \E n \in 1..2 : links'[q] = RowsOf(pages'[q].text, pages, aliases, n)
  <2>1. Live(q)
    BY <1>1, <1>3 DEF Live
  <2> QED
    BY <2>1 DEF Synced
<1>4. ASSUME NEW q \in PageIds, NEW t \in Titles, Live(q)'
      PROVE  /\ links'[q][t].rows > 0 <=> t \in Mentions[pages'[q].text]
             /\ links'[q][t].rows > 0 => links'[q][t].to = Resolve(pages', aliases', t)
  <2>1. PICK n \in 1..2 : links'[q] = RowsOf(pages'[q].text, pages, aliases, n)
    BY <1>3, <1>4
  <2>2. CASE t \in Mentions[pages'[q].text]
    <3>1. links'[q][t] = [rows |-> n, to |-> Resolve(pages, aliases, t)]
      BY <2>1, <2>2 DEF RowsOf
    <3> QED
      BY <1>2, <2>2, <3>1
  <2>3. CASE t \notin Mentions[pages'[q].text]
    <3>1. links'[q][t] = NoLink
      BY <2>1, <2>3 DEF RowsOf
    <3> QED
      BY <2>3, <3>1 DEF NoLink
  <2> QED
    BY <2>2, <2>3
<1> QED
  BY <1>4 DEF IndexExact

\* What CreatePage writes is exact.
LEMMA CreatedExact ==
    ASSUME NEW u, NEW p \in PageIds, NEW t \in Titles, NEW x \in Texts, NEW l \in Levels,
           CreatePage(u, p, t, x, l)
    PROVE  IndexExact'
<1>1. /\ links' = [q \in PageIds |->
                    IF pages'[q].published
                    THEN RowsOf(pages'[q].text, pages', aliases, IF q = p THEN 2 ELSE 1)
                    ELSE links[q]]
      /\ aliases' = aliases
  BY DEF CreatePage
<1>2. ASSUME NEW q \in PageIds, NEW i \in Titles, Live(q)'
      PROVE  /\ links'[q][i].rows > 0 <=> i \in Mentions[pages'[q].text]
             /\ links'[q][i].rows > 0 => links'[q][i].to = Resolve(pages', aliases', i)
  BY <1>1, <1>2 DEF RowsOf, NoLink, Live
<1> QED
  BY <1>2 DEF IndexExact

\* A request that publishes a text under the names there were.
Publishes ==
    /\ requests' > requests
    /\ NamesKept
    /\ \E p \in PageIds : pages'[p].published /\ pages'[p].text # pages[p].text

\* Only creating, saving, approving and restoring publish, and each of them
\* leaves an exact index.
LEMMA PublishedExact ==
    ASSUME IndInv, Next, Publishes
    PROVE  IndexExact'
<1>1. ASSUME NEW u \in Users, PageRequest(u)
      PROVE  IndexExact'
  <2>1. ASSUME NEW p \in PageIds, DeletePage(u, p) \/ RestoreDeleted(u, p)
        PROVE  FALSE
    BY <2>1 DEF DeletePage, RestoreDeleted, Publishes, IndInv, TypeOK, Page, NoPage
  <2>2. ASSUME NEW p \in PageIds, PermanentDelete(u, p)
        PROVE  FALSE
    BY <2>2 DEF PermanentDelete, Publishes, IndInv, TypeOK, NoPage
  <2>3. ASSUME NEW p \in PageIds, NEW t \in Titles, AddAlias(u, p, t)
        PROVE  FALSE
    BY <2>3 DEF AddAlias, Publishes
  <2> QED
    BY <1>1, <2>1, <2>2, <2>3, CreatedExact DEF PageRequest
<1>2. ASSUME NEW u \in Users, FormRequest(u)
      PROVE  IndexExact'
  <2>1. ASSUME NEW p \in PageIds, NEW t \in Titles, NEW x \in Texts, NEW l \in Levels,
               SaveEdit(u, p, t, x, l)
        PROVE  IndexExact'
    <3>1. Exists(p) /\ links' = Synced(pages', {p})
      BY <2>1 DEF SaveEdit, PageAt, Live, Exists, NoPage
    <3>2. \A q \in PageIds \ {p} : pages'[q] = pages[q]
      BY <2>1 DEF SaveEdit, WithText, IndInv, TypeOK
    <3> QED
      BY <3>1, <3>2, RebuiltExact DEF IndInv, Publishes
  <2>2. ~SaveNowhere(u) /\ \A p \in PageIds : ~OpenForm(u, p)
    BY DEF SaveNowhere, OpenForm, Publishes
  <2>3. \A p \in PageIds, x \in Texts : ~ProposeEdit(u, p, x)
    BY DEF ProposeEdit, Publishes
  <2> QED
    BY <1>2, <2>1, <2>2, <2>3 DEF FormRequest
<1>3. ASSUME NEW u \in Users, VersionRequest(u)
      PROVE  IndexExact'
  <2>1. ASSUME NEW v \in VersionIds,
               RestoreVersion(u, v) \/ \E confirmed \in BOOLEAN : Approve(u, v, confirmed)
        PROVE  IndexExact'
    <3> DEFINE p == versions[v].page
               x == versions[v].text
    <3>1. p \in PageIds /\ Exists(p)
      BY <2>1 DEF Approve, RestoreVersion, Pending, Stored, IndInv, TypeOK, Standing, Version
    <3>2. pages' = WithText(p, x) /\ links' = Synced(pages', {p})
      BY <2>1 DEF Approve, RestoreVersion
    <3> HIDE DEF p, x
    <3>3. \A q \in PageIds \ {p} : pages'[q] = pages[q]
      BY <3>2 DEF WithText, IndInv, TypeOK
    <3> QED
      BY <3>1, <3>2, <3>3, RebuiltExact DEF IndInv, Publishes
  <2>2. \A v \in VersionIds : ~Reject(u, v)
    BY DEF Reject, Publishes
  <2> QED
    BY <1>3, <2>1, <2>2 DEF VersionRequest
<1>4. ~FillIndex /\ ~Restart
  BY DEF FillIndex, Restart, Publishes, IndInv, TypeOK
<1>5. \A u \in Users, t \in Titles : ~DeleteAlias(u, t)
  BY DEF DeleteAlias, Publishes
<1> QED
  BY <1>1, <1>2, <1>3, <1>4, <1>5 DEF Next

\* Whatever earlier requests left in the index, a request that publishes a
\* text and renames nothing makes every view of it agree with the bodies.
THEOREM PublishingRepairs == Spec => PublishingRepairsIndex
<1> DEFINE Kept == Publishes => ViewsExact'
<1>1. IndInv /\ [Next]_vars => [Kept]_vars
  <2> SUFFICES ASSUME IndInv, Next, Publishes
               PROVE  ViewsExact'
    BY DEF Kept
  <2>1. (TypeOK /\ IndexExact)'
    BY Inductive, PublishedExact DEF IndInv
  <2>2. (TypeOK /\ IndexExact)' => ViewsExact'
    BY ExactViews, PTL
  <2> QED
    BY <2>1, <2>2
<1>2. PublishingRepairsIndex <=> [][Kept]_vars
  BY DEF PublishingRepairsIndex, Publishes
<1> HIDE DEF Kept
<1> QED
  BY <1>1, <1>2, Invariance, PTL DEF Spec
=============================================================================
