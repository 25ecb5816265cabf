------------------------------- MODULE DocWiki -------------------------------
(***************************************************************************)
(* The documentation wiki (routers/docs.py): pages with a recycle bin,     *)
(* their versions, the queue of proposed edits, aliases, and the index of  *)
(* wiki links that feeds backlinks, orphans and wanted pages.              *)
(*                                                                         *)
(* A handler runs from its queries to its commit without giving up the     *)
(* event loop, so one request is one step.  What interleaves are people: a *)
(* form that was opened earlier is saved later, on what the page is then.  *)
(*                                                                         *)
(* Sessions do not flush by themselves (database.py:23).  The index is     *)
(* rebuilt before the commit, so it looks names up in the database as it   *)
(* was before the request, while the texts it reads are the new ones:      *)
(* below, Synced takes the names and the texts from different places.      *)
(***************************************************************************)
EXTENDS Integers, FiniteSets, FiniteSetsExt

CONSTANTS
    Admins,         \* users with the administrator role
    Contributors,   \* users who may only propose
    Seeder,         \* the user the start-up script ships pages as, whatever his role
    MaxTitle,       \* bound: titles are 1..MaxTitle, in alphabetical order
    Texts,          \* page bodies, none of them empty
    Mentions,       \* the titles a body links to with [[...]]
    Shipped,        \* the body of the page the installation ships, title 1
    MaxPages,       \* bound: page ids
    MaxVersions,    \* bound: version ids
    MaxRequests     \* bound: requests that change the database

NoText == "no text"
Nobody == "nobody"

Titles == 1..MaxTitle

ASSUME UsersAssumption ==
    /\ Admins \cap Contributors = {}
    /\ Seeder \in Admins \cup Contributors

ASSUME TextsAssumption ==
    /\ NoText \notin Texts
    /\ Mentions \in [Texts -> SUBSET Titles]
    /\ Shipped \in Texts

ASSUME BoundsAssumption ==
    /\ MaxTitle \in Nat \ {0} /\ MaxPages \in Nat \ {0}
    /\ MaxVersions \in Nat \ {0} /\ MaxRequests \in Nat

Users == Admins \cup Contributors

PageIds == 1..MaxPages
VersionIds == 1..MaxVersions
Levels == {"all", "admins"}     \* "users" differs from "all" for observers only

\* The URL of a page: its title, and a counter when the plain one was taken.
Slug == Titles \X (0..MaxPages)

Page == [title : Titles, slug : Slug, text : Texts, level : Levels,
         sealed : BOOLEAN, published : BOOLEAN]
NoPage == [title |-> 0, slug |-> <<0, 0>>, text |-> NoText, level |-> "all",
           sealed |-> FALSE, published |-> FALSE]

\* decider: approved_by_id, also of a rejection.  drafted and confirmed are history:
\* the text the form showed, and that a conflict was confirmed.
Version == [page : PageIds, number : Nat, text : Texts, sealed : BOOLEAN,
            base : Texts \cup {NoText}, drafted : Texts \cup {NoText},
            status : {"approved", "pending", "rejected"}, rank : Nat,
            author : Users, decider : Users \cup {Nobody}, confirmed : BOOLEAN]

NoVersion == [page |-> 0, number |-> 0, text |-> NoText, sealed |-> FALSE, base |-> NoText,
              drafted |-> NoText, status |-> "approved", rank |-> 0,
              author |-> Nobody, decider |-> Nobody, confirmed |-> FALSE]

NoForm == [slug |-> <<0, 0>>, text |-> NoText]

\* The index rows of one page for one title: how many, and where they point
\* (0: to a page that is wanted).
Link == [rows : 0..2, to : 0..MaxPages]
NoLink == [rows |-> 0, to |-> 0]

VARIABLES
    pages,      \* the page with each id, or NoPage
    versions,   \* the version with each id, or NoVersion
    aliases,    \* the page each alias title leads to, or 0
    links,      \* the link index
    forms,      \* the edit form a user has open: the URL and the text it showed
    requests

vars == <<pages, versions, aliases, links, forms, requests>>

TypeOK ==
    /\ pages \in [PageIds -> Page \cup {NoPage}]
    /\ versions \in [VersionIds -> Version \cup {NoVersion}]
    /\ aliases \in [Titles -> 0..MaxPages]
    /\ links \in [PageIds -> [Titles -> Link]]
    /\ forms \in [Users -> [slug : Slug, text : Texts] \cup {NoForm}]
    /\ requests \in 0..MaxRequests

-----------------------------------------------------------------------------
(* Queries.                                                                *)

Exists(p) == pages[p] # NoPage
Live(p) == pages[p].published
Stored(v) == versions[v] # NoVersion
VersionsOf(p) == {v \in VersionIds : Stored(v) /\ versions[v].page = p}

\* SQLite hands out the largest id in use plus one.
NextId(i, inUse) == (\A j \in inUse : j < i) /\ (i > 1 => i - 1 \in inUse)

CanView(u, p) == u \in Admins \/ pages[p].level = "all"

\* The page a title leads to among the published pages that "seen" allows: a
\* page with that title or that URL, the first one by title; else an alias.
ResolveAmong(seen, names, also, t) ==
    LET hits == {p \in seen : names[p].title = t \/ names[p].slug = <<t, 0>>}
        first == {p \in hits : \A q \in hits :
                    \/ names[p].title < names[q].title
                    \/ names[p].title = names[q].title /\ p <= q}
    IN  IF hits # {} THEN CHOOSE p \in first : TRUE
        ELSE IF also[t] \in seen THEN also[t] ELSE 0

Resolve(names, also, t) ==
    ResolveAmong({p \in PageIds : names[p].published}, names, also, t)

\* The page behind a URL, for someone who may see it.
PageAt(slug, u) == {p \in PageIds : Live(p) /\ pages[p].slug = slug /\ CanView(u, p)}

FreeSlug(t) ==
    LET taken == {k \in 0..MaxPages : \E p \in PageIds : pages[p].slug = <<t, k>>}
    IN  <<t, Min((0..MaxPages) \ taken)>>

\* The text is encrypted at rest exactly on pages for administrators.
Sealed(level) == level = "admins"

-----------------------------------------------------------------------------
(* The link index.                                                         *)

\* The rows _sync_doc_links writes for one page.
RowsOf(text, names, also, n) ==
    [t \in Titles |->
        IF t \in Mentions[text]
        THEN [rows |-> n, to |-> Resolve(names, also, t)]
        ELSE NoLink]

\* Slip: the rows of the last rebuild are left in the index.
SyncedOntoOld(new, twice) ==
    [p \in PageIds |-> IF ~Live(p) THEN links[p]
        ELSE [t \in Titles |->
                [RowsOf(new[p].text, pages, aliases, 1)[t] EXCEPT !.rows = @ + links[p][t].rows]]]

\* Slip: only the page at hand is indexed again.
SyncedAlone(new, twice) ==
    [p \in PageIds |->
        IF p \in twice THEN RowsOf(new[p].text, pages, aliases, 1) ELSE links[p]]

\* _sync_all_doc_links after _sync_doc_links of the pages in "twice": the
\* second pass does not find the rows the first one added, which are not in
\* the database yet, and leaves them beside its own.
Synced(new, twice) ==
    [p \in PageIds |->
        CASE Live(p) /\ p \in twice -> RowsOf(new[p].text, pages, aliases, 2)
          [] Live(p) /\ p \notin twice -> RowsOf(new[p].text, pages, aliases, 1)
          [] ~Live(p) /\ p \in twice -> RowsOf(new[p].text, pages, aliases, 1)
          [] OTHER -> links[p]]

\* What the pages show of the index.  Wanted: docs_wanted and docs_home.
Listed(u) == {p \in PageIds : Live(p) /\ CanView(u, p)}

Wanted(u) ==
    {t \in Titles : \E p \in Listed(u) : links[p][t].rows > 0 /\ links[p][t].to = 0}

Backlinks(u, p) ==
    {q \in Listed(u) \ {p} : \E t \in Titles : links[q][t].rows > 0 /\ links[q][t].to = p}

Orphans(u) == {p \in Listed(u) : Backlinks(u, p) = {}}

\* What the body of a page shows: a title is red when it leads nowhere.
Red(u) ==
    {t \in Titles : \E p \in Listed(u) :
        t \in Mentions[pages[p].text] /\ ResolveAmong(Listed(u), pages, aliases, t) = 0}

-----------------------------------------------------------------------------
(* Versions.                                                               *)

NextVersion(p) == Cardinality(VersionsOf(p)) + 1

\* The order of approved_at among the versions of a page.
NextRank(p) == 1 + Max({0} \cup {versions[v].rank : v \in VersionsOf(p)})

HasConflict(v) ==
    /\ versions[v].base # NoText
    /\ versions[v].base # pages[versions[v].page].text

AddVersion(version) ==
    \E v \in VersionIds :
        /\ NextId(v, {w \in VersionIds : Stored(w)})
        /\ versions' = [versions EXCEPT ![v] = version]

Approved(u, p, n, text, level, base, drafted) ==
    [page |-> p, number |-> n, text |-> text, sealed |-> Sealed(level), base |-> base,
     drafted |-> drafted, status |-> "approved", rank |-> NextRank(p),
     author |-> u, decider |-> u, confirmed |-> FALSE]

WithText(p, text) ==
    [pages EXCEPT ![p].text = text, ![p].sealed = Sealed(pages[p].level)]

Request == requests < MaxRequests /\ requests' = requests + 1

-----------------------------------------------------------------------------
(* Pages and their index.                                                  *)

CreatePage(u, p, t, text, level) ==
    LET page == [title |-> t, slug |-> FreeSlug(t), text |-> text, level |-> level,
                 sealed |-> Sealed(level), published |-> TRUE]
        now == [pages EXCEPT ![p] = page]
    IN  /\ Request /\ u \in Admins
        /\ NextId(p, {q \in PageIds : Exists(q)})
        /\ pages' = now
        /\ AddVersion(Approved(u, p, 1, text, level, NoText, NoText))
        \* The page is flushed for its id, so the index finds it.
        /\ links' = [q \in PageIds |->
                        IF now[q].published
                        THEN RowsOf(now[q].text, now, aliases, IF q = p THEN 2 ELSE 1)
                        ELSE links[q]]
        /\ UNCHANGED <<aliases, forms>>

IndexEmpty == \A p \in PageIds, t \in Titles : links[p][t].rows = 0

\* Opening the wiki fills an index that is empty.
FillIndex ==
    /\ \E p \in PageIds : Live(p)
    /\ IndexEmpty
    /\ links' = Synced(pages, {})
    /\ UNCHANGED <<pages, versions, aliases, forms, requests>>

DeletePage(u, p) ==
    /\ Request /\ u \in Admins
    /\ Live(p)
    /\ pages' = [pages EXCEPT ![p].published = FALSE]
    /\ links' = Synced(pages, {})
    /\ UNCHANGED <<versions, aliases, forms>>

RestoreDeleted(u, p) ==
    /\ Request /\ u \in Admins
    /\ Exists(p) /\ ~Live(p)
    /\ pages' = [pages EXCEPT ![p].published = TRUE]
    /\ links' = Synced(pages, {p})
    /\ UNCHANGED <<versions, aliases, forms>>

\* Slip: the index is not rebuilt when a page is destroyed.
PermanentDeleteUnsynced(u, p) ==
    /\ Request /\ u \in Admins
    /\ Exists(p) /\ ~Live(p)
    /\ pages' = [pages EXCEPT ![p] = NoPage]
    /\ versions' = [v \in VersionIds |->
                        IF v \in VersionsOf(p) THEN NoVersion ELSE versions[v]]
    /\ aliases' = [t \in Titles |-> IF aliases[t] = p THEN 0 ELSE aliases[t]]
    /\ links' = [links EXCEPT ![p] = [t \in Titles |-> NoLink]]
    /\ UNCHANGED forms

\* The rows of the page go with it: versions, aliases, outgoing links.
PermanentDelete(u, p) ==
    /\ Request /\ u \in Admins
    /\ Exists(p) /\ ~Live(p)
    /\ pages' = [pages EXCEPT ![p] = NoPage]
    /\ versions' = [v \in VersionIds |->
                        IF v \in VersionsOf(p) THEN NoVersion ELSE versions[v]]
    /\ aliases' = [t \in Titles |-> IF aliases[t] = p THEN 0 ELSE aliases[t]]
    /\ links' = [Synced(pages, {}) EXCEPT ![p] = [t \in Titles |-> NoLink]]
    /\ UNCHANGED forms

AddAlias(u, p, t) ==
    /\ Request /\ u \in Admins
    /\ Live(p)
    /\ \A q \in PageIds : pages[q].slug # <<t, 0>>
    /\ aliases[t] = 0
    /\ aliases' = [aliases EXCEPT ![t] = p]
    /\ links' = Synced(pages, {})
    /\ UNCHANGED <<pages, versions, forms>>

DeleteAlias(u, t) ==
    /\ Request /\ u \in Admins
    /\ aliases[t] # 0
    /\ aliases' = [aliases EXCEPT ![t] = 0]
    /\ links' = Synced(pages, {})
    /\ UNCHANGED <<pages, versions, forms>>

-----------------------------------------------------------------------------
(* Edits.                                                                  *)

OpenForm(u, p) ==
    /\ forms[u] = NoForm
    /\ p \in PageAt(pages[p].slug, u)
    /\ forms' = [forms EXCEPT ![u] = [slug |-> pages[p].slug, text |-> pages[p].text]]
    /\ UNCHANGED <<pages, versions, aliases, links, requests>>

\* The page is looked up again by its URL: what was typed is lost if the URL
\* leads nowhere any more, or through an alias.
SaveNowhere(u) ==
    /\ forms[u] # NoForm
    /\ PageAt(forms[u].slug, u) = {}
    /\ forms' = [forms EXCEPT ![u] = NoForm]
    /\ UNCHANGED <<pages, versions, aliases, links, requests>>

SaveEdit(u, p, t, text, level) ==
    LET now == [WithText(p, text) EXCEPT
                    ![p].title = t, ![p].level = level, ![p].sealed = Sealed(level)]
    IN  /\ Request /\ u \in Admins
        /\ forms[u] # NoForm /\ p \in PageAt(forms[u].slug, u)
        /\ pages' = now
        /\ links' = Synced(now, {p})
        /\ AddVersion(Approved(u, p, NextVersion(p), text, level, pages[p].text, forms[u].text))
        /\ forms' = [forms EXCEPT ![u] = NoForm]
        /\ UNCHANGED aliases

\* A proposal remembers the text of the page at this moment.
ProposeEdit(u, p, text) ==
    /\ Request /\ u \in Contributors
    /\ forms[u] # NoForm /\ p \in PageAt(forms[u].slug, u)
    /\ AddVersion([Approved(u, p, NextVersion(p), text, pages[p].level,
                            pages[p].text, forms[u].text)
                   EXCEPT !.status = "pending", !.rank = 0, !.decider = Nobody])
    /\ forms' = [forms EXCEPT ![u] = NoForm]
    /\ UNCHANGED <<pages, aliases, links>>

-----------------------------------------------------------------------------
(* The approval queue and the history.                                     *)

Pending(v) == Stored(v) /\ versions[v].status = "pending"

Accepted(u, v, confirmed) ==
    [versions[v] EXCEPT !.status = "approved", !.rank = NextRank(versions[v].page),
                        !.decider = u, !.confirmed = confirmed]

\* Slip: the body goes live in the form the proposal was stored in.
ApproveAsStored(u, v, confirmed) ==
    LET p == versions[v].page
        now == [pages EXCEPT ![p].text = versions[v].text, ![p].sealed = versions[v].sealed]
    IN  /\ Request /\ u \in Admins
        /\ Pending(v)
        /\ HasConflict(v) => confirmed
        /\ pages' = now
        /\ versions' = [versions EXCEPT ![v] = Accepted(u, v, confirmed)]
        /\ links' = Synced(now, {p})
        /\ UNCHANGED <<aliases, forms>>

\* Slip: a conflict need not be confirmed.
ApproveUnwarned(u, v, confirmed) ==
    LET p == versions[v].page
        now == WithText(p, versions[v].text)
    IN  /\ Request /\ u \in Admins
        /\ Pending(v)
        /\ pages' = now
        /\ versions' = [versions EXCEPT ![v] = Accepted(u, v, confirmed)]
        /\ links' = Synced(now, {p})
        /\ UNCHANGED <<aliases, forms>>

Approve(u, v, confirmed) ==
    LET p == versions[v].page
        now == WithText(p, versions[v].text)
    IN  /\ Request /\ u \in Admins
        /\ Pending(v)
        /\ HasConflict(v) => confirmed
        /\ pages' = now
        /\ versions' = [versions EXCEPT ![v] = Accepted(u, v, confirmed)]
        /\ links' = Synced(now, {p})
        /\ UNCHANGED <<aliases, forms>>

Reject(u, v) ==
    /\ Request /\ u \in Admins
    /\ Pending(v)
    /\ versions' = [versions EXCEPT ![v].status = "rejected", ![v].decider = u]
    /\ UNCHANGED <<pages, aliases, links, forms>>

\* Slip: a restored text is not recorded as a version.
RestoreUnrecorded(u, v) ==
    LET p == versions[v].page
        now == WithText(p, versions[v].text)
    IN  /\ Request /\ u \in Admins
        /\ Stored(v)
        /\ pages' = now
        /\ links' = Synced(now, {p})
        /\ UNCHANGED <<versions, aliases, forms>>

\* Any version can be restored, whatever became of it.
RestoreVersion(u, v) ==
    LET p == versions[v].page
        text == versions[v].text
        now == WithText(p, text)
    IN  /\ Request /\ u \in Admins
        /\ Stored(v)
        /\ pages' = now
        /\ AddVersion(Approved(u, p, NextVersion(p), text, pages[p].level, NoText, NoText))
        /\ links' = Synced(now, {p})
        /\ UNCHANGED <<aliases, forms>>

-----------------------------------------------------------------------------
ShippedPage ==
    [title |-> 1, slug |-> <<1, 0>>, text |-> Shipped, level |-> "all",
     sealed |-> FALSE, published |-> TRUE]

FirstVersion(p) ==
    [page |-> p, number |-> 1, text |-> Shipped, sealed |-> FALSE, base |-> NoText,
     drafted |-> NoText, status |-> "approved", rank |-> 1,
     author |-> Seeder, decider |-> Seeder, confirmed |-> FALSE]

\* The start-up script has seeded the wiki; it does not touch the index.
Init ==
    /\ pages = [p \in PageIds |-> IF p = 1 THEN ShippedPage ELSE NoPage]
    /\ versions = [v \in VersionIds |-> IF v = 1 THEN FirstVersion(1) ELSE NoVersion]
    /\ aliases = [t \in Titles |-> 0]
    /\ links = [p \in PageIds |-> [t \in Titles |-> NoLink]]
    /\ forms = [u \in Users |-> NoForm]
    /\ requests = 0

\* A restart ships the page again if it was destroyed.
Restart ==
    /\ \A p \in PageIds : pages[p].slug # <<1, 0>>
    /\ \E p \in PageIds :
        /\ NextId(p, {q \in PageIds : Exists(q)})
        /\ pages' = [pages EXCEPT ![p] = ShippedPage]
        /\ AddVersion(FirstVersion(p))
    /\ UNCHANGED <<aliases, links, forms, requests>>

PageRequest(u) ==
    \E p \in PageIds :
        \/ \E t \in Titles, x \in Texts, l \in Levels : CreatePage(u, p, t, x, l)
        \/ DeletePage(u, p)
        \/ RestoreDeleted(u, p)
        \/ PermanentDelete(u, p)
        \/ \E t \in Titles : AddAlias(u, p, t)

FormRequest(u) ==
    \/ SaveNowhere(u)
    \/ \E p \in PageIds :
        \/ OpenForm(u, p)
        \/ \E t \in Titles, x \in Texts, l \in Levels : SaveEdit(u, p, t, x, l)
        \/ \E x \in Texts : ProposeEdit(u, p, x)

VersionRequest(u) ==
    \E v \in VersionIds :
        \/ \E confirmed \in BOOLEAN : Approve(u, v, confirmed)
        \/ Reject(u, v)
        \/ RestoreVersion(u, v)

Next ==
    \/ FillIndex \/ Restart
    \/ \E u \in Users : PageRequest(u) \/ FormRequest(u) \/ VersionRequest(u)
    \/ \E u \in Users, t \in Titles : DeleteAlias(u, t)

Spec == Init /\ [][Next]_vars

-----------------------------------------------------------------------------
(* Properties.                                                             *)

\* What a page shows is the version that was approved last, whichever way it
\* was published: created, edited directly, approved from the queue, restored
\* from the history or shipped.  The history numbers versions when they are
\* proposed, so the version with the highest number is not always it.
ShowsLastApproved ==
    \A p \in PageIds : Exists(p) =>
        \E v \in VersionsOf(p) :
            /\ versions[v].status = "approved"
            /\ versions[v].text = pages[p].text
            /\ \A w \in VersionsOf(p) \ {v} : versions[w].rank < versions[v].rank

\* A body is encrypted at rest exactly while its page is for administrators:
\* also when a proposal made on an open page is approved on a closed one.
SealedByLevel ==
    \A p \in PageIds : Exists(p) => (pages[p].sealed <=> Sealed(pages[p].level))

\* No published page has an index row that points at a destroyed page,
\* although the index is a request behind when a page goes to the recycle bin:
\* destroying it rebuilds the index once more.
NoDanglingLink ==
    \A p, q \in PageIds : \A u \in Users : p \in Backlinks(u, q) => Exists(q)

Mentioning(u, p) ==
    {q \in Listed(u) \ {p} : \E t \in Mentions[pages[q].text] : Resolve(pages, aliases, t) = p}

ViewsExact ==
    /\ \A u \in Admins : Wanted(u) = Red(u)
    /\ \A u \in Users, p \in PageIds : Live(p) => Backlinks(u, p) = Mentioning(u, p)
    /\ \A u \in Users : Orphans(u) = {p \in Listed(u) : Mentioning(u, p) = {}}

NamesKept ==
    /\ aliases' = aliases
    /\ \A p \in PageIds : Exists(p) =>
        /\ pages'[p].title = pages[p].title
        /\ pages'[p].slug = pages[p].slug
        /\ pages'[p].published = pages[p].published

\* A request that publishes a text, on a new page or an old one, and renames
\* nothing makes backlinks, orphans and wanted pages agree with the bodies of
\* all pages, whatever the requests before it left in the index.
PublishingRepairsIndex ==
    [][/\ requests' > requests
       /\ NamesKept
       /\ \E p \in PageIds : pages'[p].published /\ pages'[p].text # pages[p].text
       => ViewsExact']_vars

\* The wiki implements the abstract one: a contributor's text is on record as
\* published only by leaving the queue through an administrator's decision, which
\* was confirmed unless the page still had the text the proposal was based on; a
\* decision is taken once and stays on record, and nothing but a decision or the
\* destruction of its page takes a proposal from the queue.  A restored version is
\* the administrator's own publication, also of a text that still waits.
Reviewed == INSTANCE ReviewedPages WITH
    Pages <- PageIds,
    Entries <- VersionIds,
    Editors <- Admins,
    Supplied <- Shipped,
    NoEntry <- NoVersion,
    text <- [p \in PageIds |-> pages[p].text],
    queue <- [v \in VersionIds |->
                IF Pending(v)
                THEN [page |-> versions[v].page, text |-> versions[v].text,
                      base |-> versions[v].base, author |-> versions[v].author]
                ELSE NoVersion],
    record <- [v \in VersionIds |->
                IF Stored(v) /\ ~Pending(v)
                THEN [page |-> versions[v].page, text |-> versions[v].text,
                      author |-> versions[v].author, decider |-> versions[v].decider,
                      published |-> versions[v].status = "approved",
                      confirmed |-> versions[v].confirmed]
                ELSE NoVersion]

ImplementsReview == Reviewed!RSpec

\* What HANDOVER.md:257 says of the index, and the code does not keep: a title
\* is listed as wanted exactly when a page shows it as missing.
WantedIsMissing == ~IndexEmpty => \A u \in Admins : Wanted(u) = Red(u)

\* What HANDOVER.md:461 says of an approval that nobody had to confirm, and
\* the code does not keep: it replaces the text the edit was drafted against.
NoSilentOverwrite ==
    [][\A v \in VersionIds :
        Pending(v) /\ ~HasConflict(v) /\ versions'[v].page # 0
            /\ versions'[v].status = "approved"
        => pages[versions[v].page].text = versions[v].drafted]_vars

=============================================================================
