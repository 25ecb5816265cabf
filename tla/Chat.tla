-------------------------------- MODULE Chat --------------------------------
(***************************************************************************)
(* The chat: rooms and messages in the server's memory (chat_state.py,     *)
(* routers/chat.py) and the pages that poll them (static/js/app.js).       *)
(*                                                                         *)
(* Every function of chat_state runs under its lock and every handler      *)
(* without giving up the event loop: a request is one step on the server,  *)
(* and its answer reaches the page in a later one.  A message has a number *)
(* the code gives it, which starts again after a restart, and a key of its *)
(* own here, which does not.                                               *)
(*                                                                         *)
(* A user has one page, open and visible.  Presence, the typing indicator, *)
(* minimised windows and the dashboard's chat widget are left out.         *)
(***************************************************************************)
EXTENDS Integers, Sequences, FiniteSets, SequencesExt

CONSTANTS
    Users,          \* accounts that may chat
    Private,        \* private rooms
    Pair,           \* the two users of a private room
    Groups,         \* ids a group can get
    MaxRooms,       \* bound: rooms there are at a time
    MaxKept,        \* a room keeps its last messages: 100 in the code
    MaxMessages,    \* bound: messages sent
    MaxReplies,     \* bound: answers to one room's polls on their way to a page
    MaxRequests     \* bound: what users do but create rooms, and restarts

Rooms == Private \cup Groups
Numbers == 0..MaxMessages
Keys == 1..MaxMessages

ASSUME RoomsAssumption ==
    /\ Private \cap Groups = {}
    /\ Pair \in [Private -> SUBSET Users]
    /\ \A p \in Private : Pair[p] # {}

ASSUME BoundsAssumption ==
    /\ MaxKept \in Nat \ {0} /\ MaxMessages \in Nat /\ MaxRequests \in Nat
    /\ MaxReplies \in Nat \ {0} /\ MaxRooms \in Nat

\* What a page is given of a message.
Line == [id : Numbers, key : Keys, sender : Users]

Message == [id : Numbers, key : Keys, sender : Users,
            delivered : SUBSET Users, read : SUBSET Users]

\* A room without members does not exist.
Room == [members : SUBSET Users, messages : Seq(Message)]
NoRoom == [members |-> {}, messages |-> <<>>]

\* An answer to a poll: whether it asked for everything, and the room's last id.
Reply == [full : BOOLEAN, last : Numbers, lines : Seq(Line)]

VARIABLES
    room,       \* _rooms
    seq,        \* _message_seq
    sent,       \* messages sent so far, over restarts
    known,      \* chatState.rooms of each page
    hint,       \* the last_message_id of each room there
    last,       \* chatState.lastMessageIds, which outlive a reload
    unread,     \* rooms with an unread badge, which outlive a reload
    window,     \* rooms whose window is open
    polling,    \* chatState.pollingRooms: rooms the timer does not poll
    rows,       \* the lines a window shows
    replies,    \* answers to polls on their way
    posted,     \* the answer to a sent message on its way
    fetched,    \* history: keys a page was ever sent
    requests

page == <<known, hint, last, unread, window, polling, rows>>
vars == <<room, seq, sent, page, replies, posted, fetched, requests>>

-----------------------------------------------------------------------------
LastId(r) == IF room[r].messages = <<>> THEN 0 ELSE Last(room[r].messages).id
LineOf(m) == [id |-> m.id, key |-> m.key, sender |-> m.sender]
KeysOf(lines) == {lines[i].key : i \in DOMAIN lines}
IdsOf(lines) == {lines[i].id : i \in DOMAIN lines}

\* The members of s at the places of I, in their order.
At(s, I) ==
    [k \in 1..Cardinality(I) |->
        s[CHOOSE i \in I : Cardinality({j \in I : j <= i}) = k]]

\* Messages with f applied to each.
Each(messages, f(_)) == [i \in DOMAIN messages |-> f(messages[i])]

\* Mistake: the set is replaced.
ReceivedOnly(m, u) == IF m.sender = u THEN m ELSE [m EXCEPT !.delivered = {u}]

Received(m, u) == IF m.sender = u THEN m ELSE [m EXCEPT !.delivered = @ \cup {u}]

\* mark_read: up to a number, or all when the page has none.
Reads(messages, u, upTo) ==
    Each(messages, LAMBDA m : IF m.sender = u \/ (upTo > 0 /\ m.id > upTo) THEN m
                              ELSE [m EXCEPT !.delivered = @ \cup {u}, !.read = @ \cup {u}])

\* markChatRoomRead: the number the page goes by.
UpTo(u, r, l) == IF l > 0 THEN l ELSE hint[u][r]

MarkRead(u, r, upTo) ==
    IF u \in room[r].members
    THEN [room EXCEPT ![r].messages = Reads(@, u, upTo)] ELSE room

User == requests < MaxRequests /\ requests' = requests + 1

-----------------------------------------------------------------------------
(* Rooms.                                                                   *)

Knows(u, r) ==
    /\ known' = [known EXCEPT ![u] = @ \cup {r}]
    /\ hint' = [hint EXCEPT ![u][r] = LastId(r)]

\* Rooms have nothing in common but the numbering.
MayAdd == Cardinality({r \in Rooms : room[r] # NoRoom}) < MaxRooms

OpenPrivate(u, p) ==
    /\ u \in Pair[p] /\ (room[p] = NoRoom => MayAdd) /\ UNCHANGED requests
    /\ room' = IF room[p] = NoRoom THEN [room EXCEPT ![p].members = Pair[p]] ELSE room
    /\ Knows(u, p)
    /\ UNCHANGED <<seq, sent, last, unread, window, polling, rows, replies, posted, fetched>>

CreateGroup(u, g, invited) ==
    /\ MayAdd /\ UNCHANGED requests
    /\ room[g] = NoRoom /\ \A v \in Users : last[v][g] = 0   \* a new id
    /\ room' = [room EXCEPT ![g].members = invited \cup {u}]
    /\ Knows(u, g)
    /\ UNCHANGED <<seq, sent, last, unread, window, polling, rows, replies, posted, fetched>>

AddMembers(u, g, invited) ==
    /\ User /\ u \in room[g].members
    /\ room' = [room EXCEPT ![g].members = @ \cup invited]
    /\ Knows(u, g)
    /\ UNCHANGED <<seq, sent, last, unread, window, polling, rows, replies, posted, fetched>>

\* /chat/state: rooms the server does not know any more are forgotten, with
\* their badges and numbers; the others are merged.
Refresh(u) ==
    LET mine == {r \in Rooms : u \in room[r].members}
    IN  /\ <<known[u], hint[u]>> # <<mine, [r \in Rooms |-> LastId(r)]>>
           \/ unread[u] \ mine # {} \/ \E r \in Rooms \ mine : last[u][r] # 0
        /\ known' = [known EXCEPT ![u] = mine]
        /\ hint' = [hint EXCEPT ![u] = [r \in Rooms |-> LastId(r)]]
        /\ unread' = [unread EXCEPT ![u] = @ \cap mine]
        /\ last' = [last EXCEPT ![u] = [r \in Rooms |-> IF r \in mine THEN @[r] ELSE 0]]
        /\ UNCHANGED <<room, seq, sent, window, polling, rows, replies, posted, fetched, requests>>

-----------------------------------------------------------------------------
(* Messages.                                                                *)


\* What is past the page's last number, or all.
Asked(u, r, full, stored) ==
    At(stored, {i \in DOMAIN stored : full \/ stored[i].id > last[u][r]})

\* messages_after: everything in the room counts as delivered.
Ask(u, r, full, stored) ==
    LET new == Asked(u, r, full, stored)
        in == u \in room[r].members
    IN  /\ room' = IF in THEN [room EXCEPT ![r].messages = Each(stored, LAMBDA m : Received(m, u))]
                   ELSE room
        /\ replies' = [replies EXCEPT ![u][r] =
                         Append(@, [full |-> full, last |-> IF in THEN LastId(r) ELSE hint[u][r],
                                    lines |-> IF in THEN Each(new, LineOf) ELSE <<>>])]
        /\ fetched' = IF in THEN [fetched EXCEPT ![u] = @ \cup KeysOf(new)] ELSE fetched

\* pollChatRoom sends a request and notes that it is out; whichever answer comes
\* first takes the note back, also while others are still on their way.
Fetch(u, r, full, stored) ==
    /\ Len(replies[u][r]) < MaxReplies
    /\ polling' = [polling EXCEPT ![u] = @ \cup {r}]
    /\ Ask(u, r, full, stored)

\* The timer, or a message that was sent.
Poll(u, r) ==
    /\ r \in known[u] /\ r \notin polling[u]
    /\ Fetch(u, r, FALSE, room[r].messages)
    /\ UNCHANGED <<seq, sent, known, hint, last, unread, window, rows, posted, requests>>

\* A window is opened, or one that is there opened again: the room is marked read,
\* then asked for in full, whatever is on its way already.
Open(u, r) ==
    /\ User /\ r \in known[u]
    /\ window' = [window EXCEPT ![u] = @ \cup {r}]
    /\ unread' = [unread EXCEPT ![u] = @ \ {r}]
    /\ Fetch(u, r, TRUE, MarkRead(u, r, UpTo(u, r, last[u][r]))[r].messages)
    /\ UNCHANGED <<seq, sent, known, hint, last, rows, posted>>

Close(u, r) ==
    /\ User /\ r \in window[u]
    /\ window' = [window EXCEPT ![u] = @ \ {r}]
    /\ unread' = [unread EXCEPT ![u] = @ \ {r}]
    /\ rows' = [rows EXCEPT ![u][r] = <<>>]
    /\ UNCHANGED <<room, seq, sent, known, hint, last, polling, replies, posted, fetched>>

\* Mistake: no look at what is there.
AllLines(shown, lines) == lines

\* appendChatMessages: a line whose number is on the screen is skipped.
NewLines(shown, lines) == At(lines, {i \in DOMAIN lines : lines[i].id \notin IdsOf(shown)})

HighId(n, lines) == Max({n} \cup IdsOf(lines))

\* An answer to a poll; of several, any may come first.
Arrive(u, r) ==
    \E i \in DOMAIN replies[u][r] :
       LET reply == replies[u][r][i]
           shown == IF reply.full THEN <<>> ELSE rows[u][r]
           new == NewLines(shown, reply.lines)
           l == HighId(last[u][r], reply.lines)
           open == r \in window[u]
       IN  /\ replies' = [replies EXCEPT ![u][r] = RemoveAt(@, i)]
           /\ known' = [known EXCEPT ![u] = @ \cup IF u \in room[r].members THEN {r} ELSE {}]
           /\ hint' = [hint EXCEPT ![u][r] = reply.last]
           /\ last' = [last EXCEPT ![u][r] = l]
           /\ rows' = IF open THEN [rows EXCEPT ![u][r] = shown \o new] ELSE rows
           /\ polling' = [polling EXCEPT ![u] = @ \ {r}]
           /\ unread' = IF ~open /\ ~reply.full /\ \E k \in DOMAIN new : new[k].sender # u
                        THEN [unread EXCEPT ![u] = @ \cup {r}] ELSE unread
           /\ room' = IF open THEN MarkRead(u, r, IF l > 0 THEN l ELSE reply.last) ELSE room
           /\ UNCHANGED <<seq, sent, window, posted, fetched, requests>>

\* Mistake: trimmed before the new message is counted.
TrimmedLate(messages) ==
    SubSeq(messages, IF Len(messages) > MaxKept + 1 THEN Len(messages) - MaxKept ELSE 1,
           Len(messages))

Trimmed(messages) ==
    SubSeq(messages, IF Len(messages) > MaxKept THEN Len(messages) - MaxKept + 1 ELSE 1,
           Len(messages))

\* One message of a room at a time.
Send(u, r) ==
    /\ User /\ sent < MaxMessages
    /\ r \in window[u] /\ posted[u][r] = <<>>
    /\ u \in room[r].members
    /\ seq' = seq + 1 /\ sent' = sent + 1
    /\ LET m == [id |-> seq', key |-> sent', sender |-> u, delivered |-> {u}, read |-> {u}]
       IN  /\ room' = [room EXCEPT ![r].messages = Trimmed(Append(@, m))]
           /\ posted' = [posted EXCEPT ![u][r] = <<LineOf(m)>>]
           /\ fetched' = [fetched EXCEPT ![u] = @ \cup {sent'}]
    /\ UNCHANGED <<page, replies>>

\* The sender's own line; its number becomes the last one.
Sent(u, r) ==
    /\ posted[u][r] # <<>>
    /\ posted' = [posted EXCEPT ![u][r] = <<>>]
    /\ LET l == HighId(last[u][r], posted[u][r])
       IN  /\ last' = [last EXCEPT ![u][r] = l]
           /\ IF r \in window[u]
              THEN /\ rows' = [rows EXCEPT ![u][r] = @ \o NewLines(@, posted[u][r])]
                   /\ room' = MarkRead(u, r, l)
              ELSE UNCHANGED <<rows, room>>
    /\ UNCHANGED <<seq, sent, known, hint, unread, window, polling, replies, fetched, requests>>

-----------------------------------------------------------------------------
Blank(u) ==
    /\ known' = [known EXCEPT ![u] = {}]
    /\ hint' = [hint EXCEPT ![u] = [r \in Rooms |-> 0]]
    /\ window' = [window EXCEPT ![u] = {}]
    /\ polling' = [polling EXCEPT ![u] = {}]
    /\ rows' = [rows EXCEPT ![u] = [r \in Rooms |-> <<>>]]
    /\ replies' = [replies EXCEPT ![u] = [r \in Rooms |-> <<>>]]
    /\ posted' = [posted EXCEPT ![u] = [r \in Rooms |-> <<>>]]

\* Another page in the same tab: sessionStorage stays, the rest is built anew.
Reload(u) ==
    /\ User
    /\ Blank(u)
    /\ UNCHANGED <<room, seq, sent, last, unread, fetched>>

\* Requests on their way fail, which ends a poll as an answer does.
Restart ==
    /\ User
    /\ polling' = [u \in Users |-> {}]
    /\ room' = [r \in Rooms |-> NoRoom]
    /\ seq' = 0
    /\ replies' = [u \in Users |-> [r \in Rooms |-> <<>>]]
    /\ posted' = [u \in Users |-> [r \in Rooms |-> <<>>]]
    /\ UNCHANGED <<sent, known, hint, last, unread, window, rows, fetched>>

Init ==
    /\ room = [r \in Rooms |-> NoRoom]
    /\ seq = 0 /\ sent = 0 /\ requests = 0
    /\ known = [u \in Users |-> {}]
    /\ hint = [u \in Users |-> [r \in Rooms |-> 0]]
    /\ last = [u \in Users |-> [r \in Rooms |-> 0]]
    /\ unread = [u \in Users |-> {}]
    /\ window = [u \in Users |-> {}]
    /\ polling = [u \in Users |-> {}]
    /\ rows = [u \in Users |-> [r \in Rooms |-> <<>>]]
    /\ replies = [u \in Users |-> [r \in Rooms |-> <<>>]]
    /\ posted = [u \in Users |-> [r \in Rooms |-> <<>>]]
    /\ fetched = [u \in Users |-> {}]

Next ==
    \/ \E u \in Users :
          \/ \E p \in Private : OpenPrivate(u, p)
          \/ \E g \in Groups, invited \in SUBSET Users :
                CreateGroup(u, g, invited) \/ AddMembers(u, g, invited)
          \/ Refresh(u) \/ Reload(u)
          \/ \E r \in Rooms :
                \/ Poll(u, r) \/ Arrive(u, r)
                \/ Open(u, r) \/ Close(u, r)
                \/ Send(u, r) \/ Sent(u, r)
    \/ Restart

\* A visible page refreshes every ten seconds and polls its rooms every two and
\* a half, and answers arrive.
Fairness ==
    \A u \in Users :
       /\ WF_vars(Refresh(u))
       /\ \A r \in Rooms : WF_vars(Poll(u, r)) /\ WF_vars(Arrive(u, r)) /\ WF_vars(Sent(u, r))

Spec == Init /\ [][Next]_vars /\ Fairness

-----------------------------------------------------------------------------
\* Every variable has its type; a room never keeps more than its last messages.
TypeOK ==
    /\ room \in [Rooms -> Room]
    /\ \A r \in Rooms : Len(room[r].messages) <= MaxKept
    /\ seq \in Numbers /\ sent \in Numbers /\ requests \in 0..MaxRequests
    /\ known \in [Users -> SUBSET Rooms] /\ window \in [Users -> SUBSET Rooms]
    /\ unread \in [Users -> SUBSET Rooms] /\ polling \in [Users -> SUBSET Rooms]
    /\ hint \in [Users -> [Rooms -> Numbers]] /\ last \in [Users -> [Rooms -> Numbers]]
    /\ rows \in [Users -> [Rooms -> Seq(Line)]]
    /\ replies \in [Users -> [Rooms -> Seq(Reply)]]
    /\ posted \in [Users -> [Rooms -> Seq(Line)]]
    /\ fetched \in [Users -> SUBSET Keys]

\* However polls, full fetches of windows opened once or again and the answer to a
\* sent message overlap, a window shows no message twice (HANDOVER.md:447).
NoDuplicateRows ==
    \A u \in Users, r \in Rooms : IsInjective([i \in DOMAIN rows[u][r] |-> rows[u][r][i].key])

Stored == UNION {{room[r].messages[i] : i \in DOMAIN room[r].messages} : r \in Rooms}

\* What a sender was told of a message is not taken back while the room keeps it:
\* whoever received or read it stays, and whoever read it received it.
ReceiptsStand ==
    [][\A m \in Stored, n \in Stored' :
         m.key = n.key => /\ m.delivered \subseteq n.delivered
                          /\ m.read \subseteq n.read /\ n.read \subseteq n.delivered]_vars

\* A number the page may have passed without being sent the message: its own user
\* sent one with a higher number, or the number was given before a restart, which
\* the page's last number can still be from.
Overtaken(u, r, m) ==
    \/ \E n \in ToSet(room[r].messages) : n.sender = u /\ n.id > m.id
    \/ m.id <= sent - seq

Arrived(u, r, m) == m.key \in fetched[u] /\ m.id <= last[u][r] /\ u \in m.delivered

Owed ==
    \E r \in Rooms : \E u \in room[r].members : \E m \in ToSet(room[r].messages) :
        ~Overtaken(u, r, m) /\ ~Arrived(u, r, m)


\* HANDOVER.md:329: a poll marks the messages it fetches as delivered, so one that
\* is marked was sent to the page, or the page will still ask for it.
DeliveredWasFetched ==
    \A r \in Rooms, u \in Users : \A m \in ToSet(room[r].messages) :
       u \in m.delivered => m.key \in fetched[u] \/ m.id > last[u][r]
=============================================================================
