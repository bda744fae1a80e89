------------------------------- MODULE Broker -------------------------------
(***************************************************************************)
(* The server's data and its handlers (server.c, run_server): the table of *)
(* clients, the log and the subscribers of every topic, and what accept,   *)
(* a datagram, a request and a disconnection do to them.                   *)
(*                                                                         *)
(* A handler runs to its end before the loop takes the next event, so each *)
(* handler is one action.  What the handlers do not see is left out here:  *)
(* the poll loop, the bytes of a message, and failing calls.               *)
(*                                                                         *)
(* A subscriber holds a C pointer into the array behind clients.  When     *)
(* add_elem_vector lets realloc move that array, every pointer taken       *)
(* earlier is left pointing at freed memory; the entry is no longer fresh  *)
(* and reading ->fd through it gives any value (Reads).                    *)
(***************************************************************************)
EXTENDS Integers, Sequences, FiniteSets

CONSTANTS IDs,      \* the IDs clients connect with
          Topics,   \* the topic names
          Msgs,     \* the messages publishers send
          Fds,      \* the descriptors accept may return
          MaxLog,   \* bound: messages kept in one topic's log
          MaxSubs   \* bound: entries in one topic's subscribers

ASSUME FdsAssumption == Fds \subseteq Nat
ASSUME BoundsAssumption == MaxLog \in Nat /\ MaxSubs \in Nat

NoFd == -1      \* client.fd of a client that is not connected
NoSF == -2      \* subscriber.last_sent without store-and-forward

VARIABLES
  clients,      \* sequence of [ID, fd]: every ID that ever connected
  capacity,     \* the capacity of the vector behind clients
  topics,       \* the topics the server has heard of
  messages,     \* messages[t]: the log, a sequence of messages
  subscribers   \* subscribers[t]: sequence of [client, fresh, last_sent]

(***************************************************************************)
(* History: the last mode each ID asked for on each topic; the batches the *)
(* last handler sent, by receiving ID and topic; the pairs that ever had   *)
(* two entries; the topics whose subscribers a handler read through a      *)
(* stale pointer.                                                          *)
(***************************************************************************)
VARIABLES wanted, out, doubled, corrupt

state   == <<clients, capacity, topics, messages, subscribers>>
history == <<wanted, out, doubled, corrupt>>
vars    == <<state, history>>

Client     == [ID : IDs, fd : Fds \cup {NoFd}]
Subscriber == [client : Nat \ {0}, fresh : BOOLEAN, last_sent : Int]
Nothing    == [id \in IDs |-> [t \in Topics |-> << >>]]

-----------------------------------------------------------------------------
(* Reading the tables *)

Connected(i) == clients[i].fd # NoFd
OpenFds      == {clients[i].fd : i \in DOMAIN clients} \ {NoFd}

\* Mutant of Known: the lookup gives up after the first client.
KnownFirst(id) == clients # << >> /\ clients[1].ID = id

Known(id)    == \E i \in DOMAIN clients : clients[i].ID = id
FdsOf(id)    == {clients[i].fd : i \in {j \in DOMAIN clients : clients[j].ID = id}} \ {NoFd}

\* The kernel hands out the lowest descriptor that is not open.
Lowest(fd) == fd \in Fds \ OpenFds /\ \A g \in Fds \ OpenFds : fd <= g

(***************************************************************************)
(* What a handler may read as subscribers[k].client->fd, for every k: the  *)
(* fd in the table for a fresh pointer, any number for a stale one.  A     *)
(* descriptor nobody has open stands for all numbers send() refuses.       *)
(***************************************************************************)
Stale(t) == {k \in DOMAIN subscribers[t] : ~subscribers[t][k].fresh}

Reads(t, table) ==
  {[k \in DOMAIN subscribers[t] |->
      IF k \in Stale(t) THEN any[k] ELSE table[subscribers[t][k].client].fd] :
     any \in [Stale(t) -> Fds \cup {NoFd}]}

\* A handler followed the pointers at positions ks of topic t.
Followed(t, ks) == corrupt' = IF ks \cap Stale(t) # {} THEN corrupt \cup {t} ELSE corrupt

\* The positions in S, in increasing order.
InOrder(S) ==
  {p \in [1 .. Cardinality(S) -> S] :
     /\ \A i, j \in DOMAIN p : i < j => p[i] < p[j]
     /\ \A k \in S : \E j \in DOMAIN p : p[j] = k}

\* The messages of t that the subscriber at k has not been sent.
Pending(t, k) ==
  SubSeq(messages[t], subscribers[t][k].last_sent + 2, Len(messages[t]))

-----------------------------------------------------------------------------
Init ==
  /\ clients = << >>
  /\ capacity = 1
  /\ topics = {}
  /\ messages = [t \in Topics |-> << >>]
  /\ subscribers = [t \in Topics |-> << >>]
  /\ wanted = [id \in IDs |-> [t \in Topics |-> "none"]]
  /\ out = Nothing
  /\ doubled = {}
  /\ corrupt = {}

-----------------------------------------------------------------------------
(* accept, then the ID *)

\* The ID has a connection: the new socket is closed again.
Refuse(id) ==
  /\ FdsOf(id) # {}
  /\ out' = Nothing
  /\ UNCHANGED <<state, wanted, doubled, corrupt>>

(***************************************************************************)
(* A new ID is added to clients.  A full vector is reallocated, in place   *)
(* or to another address.                                                  *)
(***************************************************************************)
AllStale ==
  [t \in Topics |-> [k \in DOMAIN subscribers[t] |->
     [subscribers[t][k] EXCEPT !.fresh = FALSE]]]

Register(id, fd) ==
  /\ ~Known(id)
  /\ Lowest(fd)
  /\ clients' = Append(clients, [ID |-> id, fd |-> fd])
  /\ IF Len(clients) < capacity
       THEN UNCHANGED <<capacity, subscribers>>
       ELSE /\ capacity' = 2 * capacity
            /\ subscribers' \in {subscribers, AllStale}
  /\ out' = Nothing
  /\ UNCHANGED <<topics, messages, wanted, doubled, corrupt>>

(***************************************************************************)
(* A known ID returns.  In every topic, the entries read as its own are    *)
(* sent what they have not got; then the messages that no store-and-       *)
(* forward entry waits for are deleted from the log.  Useless is their     *)
(* number, min + 1 for the smallest last_sent, as a one-element set.       *)
(***************************************************************************)
\* Mutant of Caught: one past the end of the log.
CaughtPast(t, mine) ==
  [k \in DOMAIN subscribers[t] |->
     IF k \in mine
       THEN [subscribers[t][k] EXCEPT !.last_sent = Len(messages[t])]
       ELSE subscribers[t][k]]

Caught(t, mine) ==
  [k \in DOMAIN subscribers[t] |->
     IF k \in mine
       THEN [subscribers[t][k] EXCEPT !.last_sent = Len(messages[t]) - 1]
       ELSE subscribers[t][k]]

\* Mutant of Useless: what the most advanced subscriber has got is deleted.
UselessToAnyone(subs) ==
  LET cursors == {subs[k].last_sent : k \in DOMAIN subs} \ {NoSF}
  IN  {n \in 0 .. MaxLog : /\ \A c \in cursors : n >= c + 1
                           /\ IF cursors = {} THEN n = 0 ELSE n - 1 \in cursors}

Useless(subs) ==
  LET cursors == {subs[k].last_sent : k \in DOMAIN subs} \ {NoSF}
  IN  {n \in 0 .. MaxLog : /\ \A c \in cursors : n <= c + 1
                           /\ IF cursors = {} THEN n = 0 ELSE n - 1 \in cursors}

\* Mutants of Shifted: the log is cut, the cursors stay; or they move one too far.
ShiftedNot(subs, n) == subs
ShiftedTooFar(subs, n) ==
  [k \in DOMAIN subs |->
     IF subs[k].last_sent = NoSF
       THEN subs[k] ELSE [subs[k] EXCEPT !.last_sent = @ - (n + 1)]]

Shifted(subs, n) ==
  [k \in DOMAIN subs |->
     IF subs[k].last_sent = NoSF
       THEN subs[k] ELSE [subs[k] EXCEPT !.last_sent = @ - n]]

\* The possible results of the scan of topic t for a client returning on fd.
\* Mutant of Mine: who was sent nothing yet is left out.
MineStarted(t, r, fd) == {k \in DOMAIN r : r[k] = fd /\ subscribers[t][k].last_sent >= 0}

Mine(t, r, fd) == {k \in DOMAIN r : r[k] = fd /\ subscribers[t][k].last_sent > NoSF}

Results(t, mine) ==
  {[subs    |-> Shifted(Caught(t, mine), n),
    log     |-> SubSeq(messages[t], n + 1, Len(messages[t])),
    batches |-> [j \in DOMAIN p |-> Pending(t, p[j])]] :
     n \in Useless(Caught(t, mine)), p \in InOrder(mine)}

Scan(t, table, fd) == UNION {Results(t, Mine(t, r, fd)) : r \in Reads(t, table)}

Reconnect(i, fd) ==
  /\ ~Connected(i)
  /\ Lowest(fd)
  /\ clients' = [clients EXCEPT ![i].fd = fd]
  /\ \E scan \in [Topics -> UNION {Scan(t, clients', fd) : t \in Topics}] :
       /\ \A t \in Topics : scan[t] \in Scan(t, clients', fd)
       /\ subscribers' = [t \in Topics |-> scan[t].subs]
       /\ messages' = [t \in Topics |-> scan[t].log]
       /\ out' = [Nothing EXCEPT ![clients[i].ID] = [t \in Topics |-> scan[t].batches]]
  /\ corrupt' = corrupt \cup {t \in Topics : Stale(t) # {}}
  /\ UNCHANGED <<capacity, topics, wanted, doubled>>

-----------------------------------------------------------------------------
(* Requests and disconnections *)

Disconnect(i) ==
  /\ Connected(i)
  /\ clients' = [clients EXCEPT ![i].fd = NoFd]
  /\ out' = Nothing
  /\ UNCHANGED <<capacity, topics, messages, subscribers, wanted, doubled, corrupt>>

(***************************************************************************)
(* subscribe.  The scan for an entry of this client breaks after entry 1:  *)
(* only that one is ever updated, any other client gets one more entry.    *)
(***************************************************************************)
Update(t, cursor) ==
  /\ subscribers' = [subscribers EXCEPT ![t][1].last_sent = cursor]
  /\ UNCHANGED doubled

\* Mutant of Add: the entry points one client too far.
AddNext(i, t, cursor) ==
  /\ Len(subscribers[t]) < MaxSubs
  /\ subscribers' = [subscribers EXCEPT ![t] =
       Append(@, [client |-> i + 1, fresh |-> TRUE, last_sent |-> cursor])]
  /\ UNCHANGED doubled

Add(i, t, cursor) ==
  /\ Len(subscribers[t]) < MaxSubs
  /\ subscribers' = [subscribers EXCEPT ![t] =
       Append(@, [client |-> i, fresh |-> TRUE, last_sent |-> cursor])]
  /\ doubled' = IF \E k \in DOMAIN subscribers[t] : subscribers[t][k].client = i
                  THEN doubled \cup {<<clients[i].ID, t>>} ELSE doubled

SubscribeAs(i, t, mode, cursor) ==
  /\ Connected(i)
  /\ \E r \in Reads(t, clients) :
       IF r # << >> /\ r[1] = clients[i].fd
         THEN Update(t, cursor) ELSE Add(i, t, cursor)
  /\ Followed(t, {1})
  /\ topics' = topics \cup {t}
  /\ wanted' = [wanted EXCEPT ![clients[i].ID][t] = mode]
  /\ out' = Nothing
  /\ UNCHANGED <<clients, capacity, messages>>

Subscribe(i, t)   == SubscribeAs(i, t, "live", NoSF)
SubscribeSF(i, t) == SubscribeAs(i, t, "sf", Len(messages[t]) - 1)

(***************************************************************************)
(* unsubscribe.  Deleting entry k moves entry k+1 to its place and the     *)
(* loop goes on with k+1: of two neighbours of this client the second      *)
(* stays.                                                                  *)
(***************************************************************************)
Unsubscribe(i, t) ==
  /\ Connected(i)
  /\ \E r \in Reads(t, clients) :
       LET mine == {k \in DOMAIN r : r[k] = clients[i].fd}
       IN  \E gone \in SUBSET mine :
             /\ \A k \in mine : k \in gone <=> k - 1 \notin gone
             /\ \E p \in InOrder(DOMAIN r \ gone) :
                  subscribers' = [subscribers EXCEPT ![t] =
                    [j \in DOMAIN p |-> subscribers[t][p[j]]]]
  /\ Followed(t, DOMAIN subscribers[t])
  /\ wanted' = [wanted EXCEPT ![clients[i].ID][t] = "none"]
  /\ out' = Nothing
  /\ UNCHANGED <<clients, capacity, topics, messages, doubled>>

-----------------------------------------------------------------------------
(***************************************************************************)
(* A datagram.  A message on an unheard-of topic creates it and is gone.   *)
(* Otherwise every entry read as connected is sent the message; it is kept *)
(* if some entry with store-and-forward is read as absent, and then the    *)
(* connected ones move on with the log.                                    *)
(***************************************************************************)
Create(t) ==
  /\ t \notin topics
  /\ topics' = topics \cup {t}
  /\ out' = Nothing
  /\ UNCHANGED <<clients, capacity, messages, subscribers, wanted, doubled, corrupt>>

\* Mutants of MovedOn: nobody moves on with the log; or the absent do, too.
MovedOnNot(t, here) == subscribers[t]
MovedOnAll(t, here) ==
  [k \in DOMAIN subscribers[t] |->
     IF subscribers[t][k].last_sent # NoSF
       THEN [subscribers[t][k] EXCEPT !.last_sent = @ + 1]
       ELSE subscribers[t][k]]

MovedOn(t, here) ==
  [k \in DOMAIN subscribers[t] |->
     IF k \in here /\ subscribers[t][k].last_sent # NoSF
       THEN [subscribers[t][k] EXCEPT !.last_sent = @ + 1]
       ELSE subscribers[t][k]]

Store(t, m, here) ==
  /\ Len(messages[t]) < MaxLog
  /\ messages' = [messages EXCEPT ![t] = Append(@, m)]
  /\ subscribers' = [subscribers EXCEPT ![t] = MovedOn(t, here)]

Publish(t, m) ==
  /\ t \in topics
  /\ \E r \in Reads(t, clients) :
       LET here == {k \in DOMAIN r : r[k] # NoFd}
           sent(id) == Cardinality({k \in here : r[k] \in FdsOf(id)})
           need_storage == \E k \in DOMAIN r \ here : subscribers[t][k].last_sent # NoSF
       IN  /\ IF need_storage THEN Store(t, m, here)
                              ELSE UNCHANGED <<messages, subscribers>>
           /\ out' = [id \in IDs |-> [Nothing[id] EXCEPT ![t] = [j \in 1 .. sent(id) |-> <<m>>]]]
  /\ Followed(t, DOMAIN subscribers[t])
  /\ UNCHANGED <<clients, capacity, topics, wanted, doubled>>

-----------------------------------------------------------------------------
Next ==
  \/ \E id \in IDs : Refuse(id) \/ \E fd \in Fds : Register(id, fd)
  \/ \E i \in DOMAIN clients :
       \/ \E fd \in Fds : Reconnect(i, fd)
       \/ Disconnect(i)
       \/ \E t \in Topics : Subscribe(i, t) \/ SubscribeSF(i, t) \/ Unsubscribe(i, t)
  \/ \E t \in Topics : Create(t) \/ \E m \in Msgs : Publish(t, m)

Spec == Init /\ [][Next]_vars

-----------------------------------------------------------------------------
(* What must hold *)

\* Every table has its shape, and every entry belongs to a client in the table.
TypeOK ==
  /\ clients \in Seq(Client)
  /\ capacity \in Nat \ {0}
  /\ topics \subseteq Topics
  /\ messages \in [Topics -> Seq(Msgs)]
  /\ subscribers \in [Topics -> Seq(Subscriber)]
  /\ \A t \in Topics : \A k \in DOMAIN subscribers[t] :
       subscribers[t][k].client \in DOMAIN clients
  /\ wanted \in [IDs -> [Topics -> {"none", "live", "sf"}]]
  /\ out \in [IDs -> [Topics -> Seq(Seq(Msgs))]]
  /\ doubled \subseteq IDs \X Topics
  /\ corrupt \subseteq Topics

(***************************************************************************)
(* The table of clients names each ID once and each open descriptor once,  *)
(* whatever sequence of connects, returns and exits led there: so the      *)
(* lookup by ID on accept and the lookup by descriptor on a request find   *)
(* the one right client.                                                   *)
(***************************************************************************)
OneConnectionPerID ==
  \A i, j \in DOMAIN clients : i # j =>
    /\ clients[i].ID # clients[j].ID
    /\ Connected(i) => clients[i].fd # clients[j].fd

(***************************************************************************)
(* Every last_sent stays inside its log, so that catching up and deleting  *)
(* never index outside the vector of messages - even after a handler read  *)
(* a stale pointer and moved the wrong cursor.                             *)
(***************************************************************************)
CursorsInLog ==
  \A t \in Topics : \A k \in DOMAIN subscribers[t] :
    subscribers[t][k].last_sent \in NoSF .. Len(messages[t]) - 1

(***************************************************************************)
(* Who is connected has nothing waiting: a store-and-forward entry of a    *)
(* connected client is always at the end of the log, although its client   *)
(* may come and go and the log is cut at the front for other clients.      *)
(***************************************************************************)
CaughtUp ==
  \A t \in Topics \ corrupt : \A k \in DOMAIN subscribers[t] :
    Connected(subscribers[t][k].client) =>
      subscribers[t][k].last_sent \in {NoSF, Len(messages[t]) - 1}

(***************************************************************************)
(* No useless messages (README.md:26-27): the oldest message of a log is   *)
(* one that some absent store-and-forward subscriber still has to get.     *)
(* Deleting only when a client returns is enough to keep this true.        *)
(***************************************************************************)
NoUselessMessages ==
  \A t \in Topics \ corrupt : messages[t] # << >> =>
    \E k \in DOMAIN subscribers[t] :
      /\ subscribers[t][k].last_sent = -1
      /\ ~Connected(subscribers[t][k].client)

(***************************************************************************)
(* The broker implements the promise of StoreForward: what a pair still    *)
(* has to get is the part of the log behind its cursor.                    *)
(***************************************************************************)
Queue(id, t) ==
  LET mine == {k \in DOMAIN subscribers[t] :
                 /\ clients[subscribers[t][k].client].ID = id
                 /\ subscribers[t][k].last_sent # NoSF}
  IN  IF wanted[id][t] = "sf" /\ mine # {}
        THEN Pending(t, CHOOSE k \in mine : TRUE) ELSE << >>

Promise == INSTANCE StoreForward WITH
  online <- {id \in IDs : FdsOf(id) # {}},
  mode   <- wanted,
  queue  <- [id \in IDs |-> [t \in Topics |-> Queue(id, t)]]

Refinement == Promise!Spec

-----------------------------------------------------------------------------
(* What the documentation says and the code does not do *)

(***************************************************************************)
(* README.md:42-43: a subscription that exists is updated.  So a client    *)
(* has at most one entry per topic.                                        *)
(***************************************************************************)
UpdatesInPlace ==
  \A t \in Topics \ corrupt : \A j, k \in DOMAIN subscribers[t] :
    j # k => subscribers[t][j].client # subscribers[t][k].client

(***************************************************************************)
(* README.md:40-41 and the comment at server.c:375: unsubscribe removes    *)
(* every entry of the client.                                              *)
(***************************************************************************)
UnsubscribeRemovesAll ==
  [][\A i \in DOMAIN clients, t \in Topics :
       Unsubscribe(i, t) /\ t \notin corrupt' =>
         \A k \in DOMAIN subscribers'[t] : subscribers'[t][k].client # i]_vars

(***************************************************************************)
(* README.md:32-33: a message is sent to all connected subscribers.        *)
(***************************************************************************)
ReachesEverySubscriber ==
  [][\A t \in Topics, m \in Msgs : Publish(t, m) =>
       \A id \in IDs : FdsOf(id) # {} /\ wanted[id][t] # "none" => out'[id][t] # << >>]_vars
=============================================================================
