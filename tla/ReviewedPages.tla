---------------------------- MODULE ReviewedPages ----------------------------
(***************************************************************************)
(* What the documentation wiki promises its readers and contributors: a    *)
(* page has one published text, and every publication is on record under   *)
(* its author and the editor who answers for it.  A contributor's text     *)
(* waits in a queue, remembers the text it is meant to replace, and leaves *)
(* the queue once, by an editor's decision, which has to be confirmed when *)
(* the page has changed since.  A page that is destroyed takes its queue   *)
(* and its record along.                                                   *)
(*                                                                         *)
(* DocWiki, the wiki as it is coded, is shown to implement this module.    *)
(***************************************************************************)
CONSTANTS Pages, Entries, Users, Editors, Texts, Supplied, NoText, NoEntry

VARIABLES
    text,       \* the published text of each page, or NoText
    queue,      \* the proposals that wait for a decision, or NoEntry
    record      \* what was published or refused, or NoEntry

rvars == <<text, queue, record>>

\* A proposal from before bases were kept has none.
Proposal == [page : Pages, text : Texts, base : Texts \cup {NoText}, author : Users]

Decision == [page : Pages, text : Texts, author : Users, decider : Users,
             published : BOOLEAN, confirmed : BOOLEAN]

RInit ==
    /\ text \in [Pages -> Texts \cup {NoText}]
    /\ queue = [i \in Entries |-> NoEntry]
    /\ record \in [Entries -> Decision \cup {NoEntry}]

Waiting(i) == queue[i] # NoEntry
Free(i) == ~Waiting(i) /\ record[i] = NoEntry

\* An editor writes the page, or restores a text it had or was offered.
Publish(u, i, p, t) ==
    /\ Free(i)
    /\ text' = [text EXCEPT ![p] = t]
    /\ record' = [record EXCEPT ![i] = [page |-> p, text |-> t, author |-> u, decider |-> u,
                                        published |-> TRUE, confirmed |-> FALSE]]
    /\ UNCHANGED queue

\* The installation supplies a page that is missing, in the name of some user.
Supply(u, i, p) ==
    /\ text[p] = NoText
    /\ Publish(u, i, p, Supplied)

Propose(u, i, p, t) ==
    /\ Free(i)
    /\ text[p] # NoText
    /\ queue' = [queue EXCEPT ![i] = [page |-> p, text |-> t, base |-> text[p], author |-> u]]
    /\ UNCHANGED <<text, record>>

Decides(u, i, published, confirmed) ==
    /\ Waiting(i)
    /\ queue' = [queue EXCEPT ![i] = NoEntry]
    /\ record' = [record EXCEPT ![i] = [page |-> queue[i].page, text |-> queue[i].text,
                                        author |-> queue[i].author, decider |-> u,
                                        published |-> published, confirmed |-> confirmed]]

Accept(u, i, confirmed) ==
    /\ Decides(u, i, TRUE, confirmed)
    /\ queue[i].base \in {NoText, text[queue[i].page]} \/ confirmed
    /\ text' = [text EXCEPT ![queue[i].page] = queue[i].text]

Refuse(u, i) ==
    /\ Decides(u, i, FALSE, FALSE)
    /\ UNCHANGED text

Destroy(p) ==
    /\ text[p] # NoText
    /\ text' = [text EXCEPT ![p] = NoText]
    /\ queue' = [i \in Entries |->
                    IF Waiting(i) /\ queue[i].page = p THEN NoEntry ELSE queue[i]]
    /\ record' = [i \in Entries |->
                    IF record[i] # NoEntry /\ record[i].page = p THEN NoEntry ELSE record[i]]

RNext ==
    \/ \E u \in Editors, i \in Entries, p \in Pages, t \in Texts : Publish(u, i, p, t)
    \/ \E u \in Users, i \in Entries, p \in Pages : Supply(u, i, p)
    \/ \E u \in Users \ Editors, i \in Entries, p \in Pages, t \in Texts : Propose(u, i, p, t)
    \/ \E u \in Editors, i \in Entries :
          Refuse(u, i) \/ \E confirmed \in BOOLEAN : Accept(u, i, confirmed)
    \/ \E p \in Pages : Destroy(p)

RSpec == RInit /\ [][RNext]_rvars
=============================================================================
