--------------------------- MODULE PromiseProofs ---------------------------
(***************************************************************************)
(* The proof that Broker implements StoreForward, for any IDs, topics,     *)
(* messages, descriptors and bounds.                                       *)
(*                                                                         *)
(* What a pair of a client ID and a topic still has to get is, in Broker,  *)
(* the part of a log behind a cursor that other clients share.  The        *)
(* invariant says, pair by pair, how the entries of a pair match the mode  *)
(* its client asked for; the invariants of Broker say where their cursors  *)
(* are.                                                                    *)
(***************************************************************************)
EXTENDS BrokerProofs

\* The positions of the entries of id on topic t, and those of store-and-forward.
Of(id, t)   == {k \in DOMAIN subscribers[t] : clients[subscribers[t][k].client].ID = id}
Waits(t, k) == subscribers[t][k].last_sent # NoSF

\* Two entries only for pairs that are known to have had them.
Once(id, t) == <<id, t>> \notin doubled => \A j, k \in Of(id, t) : j = k

\* A pair has an entry of the mode asked for; one that never had two entries
\* has no other.
Asked(id, t) ==
  /\ wanted[id][t] = "sf" => \E k \in Of(id, t) : Waits(t, k)
  /\ wanted[id][t] = "live" => Of(id, t) # {}
  /\ <<id, t>> \notin doubled => \A k \in Of(id, t) :
       wanted[id][t] = IF Waits(t, k) THEN "sf" ELSE "live"

\* If it has several of store-and-forward, they stand at the same place.
Together(id, t) ==
  \A j, k \in Of(id, t) : Waits(t, j) /\ Waits(t, k) =>
    subscribers[t][j].last_sent = subscribers[t][k].last_sent

\* The invariant.  Of a topic read through a stale pointer nothing is said.
Matched(id, t) == Once(id, t) /\ Asked(id, t) /\ Together(id, t)

RInv == IInv /\ \A id \in IDs, t \in Topics \ corrupt : Matched(id, t)

\* Who is connected, and what it still has to get, as StoreForward sees it.
Online == {id \in IDs : FdsOf(id) # {}}

-----------------------------------------------------------------------------
(* The mapping *)

\* An ID is online if some client of that ID is connected.
LEMMA OnlineIs ==
  ASSUME TypeOK, NEW id \in IDs
  PROVE  id \in Online <=> \E i \in DOMAIN clients : clients[i].ID = id /\ Connected(i)
<1>1. \A f : f \in FdsOf(id) <=>
        f # NoFd /\ \E i \in DOMAIN clients : clients[i].ID = id /\ clients[i].fd = f
  BY DEF FdsOf
<1> QED
  BY <1>1 DEF Online, Connected

\* What the queue of a pair is, whichever entry is looked at.
QueuesAre ==
  \A id \in IDs, t \in Topics \ corrupt :
    /\ wanted[id][t] # "sf" => Queue(id, t) = << >>
    /\ wanted[id][t] = "sf" => \A k \in Of(id, t) : Waits(t, k) => Queue(id, t) = Pending(t, k)
    /\ id \in Online => Queue(id, t) = << >>

\* What the mapping takes for the queue of a pair: what its entries wait for.
LEMMA QueuesNow == RInv => QueuesAre
<1> SUFFICES ASSUME RInv, NEW id \in IDs, NEW t \in Topics \ corrupt
             PROVE  /\ wanted[id][t] # "sf" => Queue(id, t) = << >>
                    /\ wanted[id][t] = "sf" =>
                         \A k \in Of(id, t) : Waits(t, k) => Queue(id, t) = Pending(t, k)
                    /\ id \in Online => Queue(id, t) = << >>
  BY DEF QueuesAre
<1> USE DEF RInv, IInv
<1> DEFINE mine == {k \in DOMAIN subscribers[t] :
                      /\ clients[subscribers[t][k].client].ID = id
                      /\ subscribers[t][k].last_sent # NoSF}
<1>1. Queue(id, t) = IF wanted[id][t] = "sf" /\ mine # {}
                       THEN Pending(t, CHOOSE k \in mine : TRUE) ELSE << >>
  BY DEF Queue
<1>2. \A k : k \in mine <=> k \in Of(id, t) /\ Waits(t, k)
  BY DEF Of, Waits
<1>3. ASSUME NEW j \in mine, NEW k \in mine PROVE Pending(t, j) = Pending(t, k)
  BY <1>2 DEF Matched, Together, Pending
<1>4. ASSUME NEW k \in mine, wanted[id][t] = "sf" PROVE Queue(id, t) = Pending(t, k)
  <2>1. (CHOOSE j \in mine : TRUE) \in mine
    OBVIOUS
  <2> HIDE DEF mine
  <2> QED
    BY <1>1, <1>3, <1>4, <2>1
<1>5. ASSUME id \in Online, NEW k \in mine PROVE Pending(t, k) = << >>
  <2>1. PICK i \in DOMAIN clients : clients[i].ID = id /\ Connected(i)
    BY <1>5, OnlineIs
  <2>2. subscribers[t][k].client = i
    BY <2>1, Shapes DEF OneConnectionPerID
  <2>3. subscribers[t][k].last_sent = Len(messages[t]) - 1
    BY <1>5, <2>1, <2>2 DEF CaughtUp
  <2>4. Len(messages[t]) \in Nat
    BY Shapes
  <2>5. /\ Pending(t, k) = SubSeq(messages[t], Len(messages[t]) + 1, Len(messages[t]))
        /\ Len(messages[t]) + 1 \in Int /\ Len(messages[t]) \in Int
    BY <2>3, <2>4 DEF Pending
  <2> QED
    BY <2>4, <2>5, SubSeqEmpty
<1>6. CASE wanted[id][t] # "sf"
  BY <1>1, <1>6
<1>7. CASE wanted[id][t] = "sf"
  <2>1. PICK k \in mine : TRUE
    BY <1>2, <1>7 DEF Matched, Asked
  <2> HIDE DEF mine
  <2> QED
    BY <1>2, <1>4, <1>5, <1>7, <2>1
<1> QED
  BY <1>6, <1>7

\* The same after a step that keeps the invariant.
LEMMA QueuesNext == RInv' => QueuesAre'
BY QueuesNow, PTL

-----------------------------------------------------------------------------
(* Topics a step leaves alone *)

\* Clients keep their place and their ID; others may be added.
IDsStay == \A i \in DOMAIN clients : i \in DOMAIN clients' /\ clients'[i].ID = clients[i].ID

\* The entries of t keep their client and cursor.  (They may become stale.)
EntriesStay(t) ==
  /\ DOMAIN subscribers'[t] = DOMAIN subscribers[t]
  /\ \A k \in DOMAIN subscribers[t] :
       /\ subscribers'[t][k].client = subscribers[t][k].client
       /\ subscribers'[t][k].last_sent = subscribers[t][k].last_sent

\* Nothing happens to the pair of id and t.
PairStays(id, t) ==
  /\ Of(id, t)' = Of(id, t)
  /\ \A k \in Of(id, t) : subscribers'[t][k].last_sent = subscribers[t][k].last_sent
  /\ messages'[t] = messages[t]
  /\ wanted'[id][t] = wanted[id][t]
  /\ <<id, t>> \in doubled' <=> <<id, t>> \in doubled

\* A pair left alone keeps its promise and its queue.
LEMMA PairKept ==
  ASSUME NEW id \in IDs, NEW t \in Topics, PairStays(id, t)
  PROVE  (Matched(id, t) => Matched(id, t)') /\ Queue(id, t)' = Queue(id, t)
<1> USE DEF PairStays
<1>1. \A k \in Of(id, t) : Waits(t, k)' <=> Waits(t, k)
  BY DEF Waits
<1>2. Once(id, t) => Once(id, t)'
  BY DEF Once
<1>3. Asked(id, t) => Asked(id, t)'
  BY <1>1 DEF Asked
<1>4. Together(id, t) => Together(id, t)'
  BY <1>1 DEF Together
<1>5. Queue(id, t)' = Queue(id, t)
  <2> DEFINE mine == {k \in DOMAIN subscribers[t] :
                        /\ clients[subscribers[t][k].client].ID = id
                        /\ subscribers[t][k].last_sent # NoSF}
             next == {k \in DOMAIN subscribers'[t] :
                        /\ clients'[subscribers'[t][k].client].ID = id
                        /\ subscribers'[t][k].last_sent # NoSF}
  <2>1. mine = {k \in Of(id, t) : subscribers[t][k].last_sent # NoSF}
    BY DEF Of
  <2>2. next = {k \in Of(id, t)' : subscribers'[t][k].last_sent # NoSF}
    BY DEF Of
  <2>3. next = mine
    BY <2>1, <2>2
  <2>4. Queue(id, t) = IF wanted[id][t] = "sf" /\ mine # {}
                         THEN SubSeq(messages[t],
                                     subscribers[t][CHOOSE k \in mine : TRUE].last_sent + 2,
                                     Len(messages[t]))
                         ELSE << >>
    BY DEF Queue, Pending
  <2>5. Queue(id, t)' = IF wanted'[id][t] = "sf" /\ next # {}
                          THEN SubSeq(messages'[t],
                                      subscribers'[t][CHOOSE k \in next : TRUE].last_sent + 2,
                                      Len(messages'[t]))
                          ELSE << >>
    BY DEF Queue, Pending
  <2>6. mine # {} => (CHOOSE k \in mine : TRUE) \in Of(id, t)
    BY <2>1
  <2> HIDE DEF mine, next
  <2> QED
    BY <2>3, <2>4, <2>5, <2>6
<1> QED
  BY <1>2, <1>3, <1>4, <1>5 DEF Matched

\* Where entries, log and modes stay, so do the pairs.
LEMMA EntriesKept ==
  ASSUME TypeOK, IDsStay, NEW id \in IDs, NEW t \in Topics, EntriesStay(t),
         messages'[t] = messages[t], wanted'[id][t] = wanted[id][t],
         <<id, t>> \in doubled' <=> <<id, t>> \in doubled
  PROVE  PairStays(id, t)
<1>1. \A k \in DOMAIN subscribers[t] :
        clients'[subscribers'[t][k].client].ID = clients[subscribers[t][k].client].ID
  BY Shapes DEF IDsStay, EntriesStay
<1>2. Of(id, t)' = Of(id, t)
  BY <1>1 DEF Of, EntriesStay
<1> QED
  BY <1>2 DEF PairStays, EntriesStay, Of

\* A step that leaves every pair alone keeps the invariant, and all queues.
LEMMA AllKept ==
  ASSUME RInv, IInv', IDsStay, UNCHANGED <<messages, wanted, doubled, corrupt>>,
         \A t \in Topics : EntriesStay(t)
  PROVE  RInv' /\ \A id \in IDs, t \in Topics : Queue(id, t)' = Queue(id, t)
<1>1. TypeOK
  BY DEF RInv, IInv
<1>2. \A id \in IDs, t \in Topics : PairStays(id, t)
  BY <1>1, EntriesKept
<1>3. \A id \in IDs, t \in Topics :
        (Matched(id, t) => Matched(id, t)') /\ Queue(id, t)' = Queue(id, t)
  BY <1>2, PairKept
<1> QED
  BY <1>3 DEF RInv

-----------------------------------------------------------------------------
(* Connections *)

\* A refused connection and a new topic are nothing to the subscribers.
LEMMA RefusePromise ==
  ASSUME RInv, NEW id \in IDs, Refuse(id)
  PROVE  RInv' /\ Promise!Ignore
<1>1. UNCHANGED <<state, wanted, doubled, corrupt>> /\ out' = Nothing
  BY DEF Refuse
<1>2. UNCHANGED <<clients, messages, subscribers>>
  BY <1>1 DEF state
<1>3. IInv'
  BY RefuseKeepsIInv DEF RInv
<1>4. \A t \in Topics : EntriesStay(t)
  BY <1>1, <1>2 DEF EntriesStay
<1>5. RInv' /\ \A i \in IDs, t \in Topics : Queue(i, t)' = Queue(i, t)
  BY <1>1, <1>2, <1>3, <1>4, AllKept DEF IDsStay
<1>6. Promise!Ignore
  BY <1>1, <1>2, <1>5 DEF Promise!Ignore, Promise!Delivers, Promise!Holds, Promise!Nothing,
                          Nothing, FdsOf
<1> QED
  BY <1>5, <1>6

\* The first datagram on a topic is ignored, for nobody asked for it (server.c:272-283).
LEMMA CreatePromise ==
  ASSUME RInv, NEW u \in Topics, Create(u)
  PROVE  RInv' /\ Promise!Ignore
<1>1. /\ UNCHANGED <<clients, messages, subscribers, wanted, doubled, corrupt>>
      /\ out' = Nothing
  BY DEF Create
<1>2. IInv'
  BY CreateKeepsIInv DEF RInv
<1>3. \A t \in Topics : EntriesStay(t)
  BY <1>1 DEF EntriesStay
<1>4. RInv' /\ \A i \in IDs, t \in Topics : Queue(i, t)' = Queue(i, t)
  BY <1>1, <1>2, <1>3, AllKept DEF IDsStay
<1>5. Promise!Ignore
  BY <1>1, <1>4 DEF Promise!Ignore, Promise!Delivers, Promise!Holds, Promise!Nothing,
                    Nothing, FdsOf
<1> QED
  BY <1>4, <1>5

\* Who leaves keeps its queues, and is offline: no other client has its ID.
LEMMA DisconnectPromise ==
  ASSUME RInv, NEW i \in DOMAIN clients, Disconnect(i)
  PROVE  RInv' /\ Promise!Disconnect(clients[i].ID)
<1> USE DEF RInv, IInv
<1>1. /\ UNCHANGED <<messages, subscribers, wanted, doubled, corrupt>>
      /\ out' = Nothing
      /\ clients' = [clients EXCEPT ![i].fd = NoFd]
  BY DEF Disconnect
<1>2. IInv'
  BY DisconnectKeepsIInv
<1>3. /\ DOMAIN clients' = DOMAIN clients /\ clients[i].ID \in IDs
      /\ \A j \in DOMAIN clients : /\ clients'[j].ID = clients[j].ID
                                   /\ clients'[j].fd = IF j = i THEN NoFd ELSE clients[j].fd
  <2>1. /\ clients \in Seq(Client) /\ DOMAIN clients = 1 .. Len(clients)
        /\ \A j \in DOMAIN clients : clients[j] \in Client
    BY LenProperties, ElementOfSeq DEF TypeOK
  <2> QED
    BY <1>1, <2>1 DEF Client
<1>4. \A t \in Topics : EntriesStay(t)
  BY <1>1 DEF EntriesStay
<1>5. RInv' /\ \A id \in IDs, t \in Topics : Queue(id, t)' = Queue(id, t)
  BY <1>1, <1>2, <1>3, <1>4, AllKept DEF IDsStay
<1>6. Online' = Online \ {clients[i].ID}
  <2>1. ASSUME NEW id \in IDs
        PROVE  id \in Online' <=> id \in Online /\ id # clients[i].ID
    <3>1. id \in Online <=> \E j \in DOMAIN clients : clients[j].ID = id /\ clients[j].fd # NoFd
      BY OnlineIs DEF Connected
    <3>2. id \in Online' <=> \E j \in DOMAIN clients' : clients'[j].ID = id /\ clients'[j].fd # NoFd
      BY DEF Online, FdsOf
    <3> QED
      BY <1>3, <3>1, <3>2 DEF OneConnectionPerID
  <2> QED
    BY <2>1 DEF Online
<1>7. Promise!Disconnect(clients[i].ID)
  BY <1>1, <1>5, <1>6 DEF Promise!Disconnect, Promise!Delivers, Promise!Holds, Promise!Nothing,
                          Nothing, Online
<1> QED
  BY <1>5, <1>7

\* A new client comes last; of the subscribers only what stale pointers read may
\* change.
LEMMA RegisterStays ==
  ASSUME TypeOK, NEW id \in IDs, NEW fd \in Fds, Register(id, fd)
  PROVE  /\ DOMAIN clients' = 1 .. Len(clients) + 1
         /\ \A j \in DOMAIN clients : clients'[j] = clients[j]
         /\ clients'[Len(clients) + 1] = [ID |-> id, fd |-> fd]
         /\ IDsStay /\ \A t \in Topics : EntriesStay(t)
<1>1. /\ clients' = Append(clients, [ID |-> id, fd |-> fd])
      /\ subscribers' = subscribers \/ subscribers' = AllStale
  BY DEF Register
<1>2. /\ DOMAIN clients = 1 .. Len(clients) /\ DOMAIN clients' = 1 .. Len(clients) + 1
      /\ Len(clients) \in Nat
      /\ \A j \in DOMAIN clients : clients'[j] = clients[j]
      /\ clients'[Len(clients) + 1] = [ID |-> id, fd |-> fd]
  <2>1. clients \in Seq(Client) /\ [ID |-> id, fd |-> fd] \in Client
    BY DEF TypeOK, Client
  <2> QED
    BY <1>1, <2>1, AppendProperties, LenProperties
<1>3. \A t \in Topics : EntriesStay(t)
  <2>1. ASSUME NEW t \in Topics PROVE EntriesStay(t)
    <3>1. CASE subscribers' = subscribers
      BY <3>1 DEF EntriesStay
    <3>2. CASE subscribers' = AllStale
      <4>1. subscribers'[t] = [k \in DOMAIN subscribers[t] |->
                                 [subscribers[t][k] EXCEPT !.fresh = FALSE]]
        BY <3>2 DEF AllStale
      <4>2. \A k \in DOMAIN subscribers[t] : subscribers[t][k] \in Subscriber
        BY Shapes
      <4> QED
        BY <4>1, <4>2 DEF EntriesStay, Subscriber
    <3> QED
      BY <1>1, <3>1, <3>2
  <2> QED
    BY <2>1
<1>4. IDsStay
  BY <1>2 DEF IDsStay
<1> QED
  BY <1>2, <1>3, <1>4

\* A new ID has no subscriptions to be served.
LEMMA RegisterPromise ==
  ASSUME RInv, NEW id \in IDs, NEW fd \in Fds, Register(id, fd)
  PROVE  RInv' /\ Promise!Connect(id)
<1> USE DEF RInv, IInv
<1>1. /\ UNCHANGED <<messages, wanted, doubled, corrupt>>
      /\ out' = Nothing /\ ~Known(id)
      /\ clients' = Append(clients, [ID |-> id, fd |-> fd])
      /\ subscribers' = subscribers \/ subscribers' = AllStale
  BY DEF Register
<1>2. IInv'
  BY RegisterKeepsIInv
<1>3. /\ DOMAIN clients = 1 .. Len(clients) /\ Len(clients) \in Nat
      /\ DOMAIN clients' = 1 .. Len(clients) + 1
      /\ \A j \in DOMAIN clients : clients'[j] = clients[j]
      /\ clients'[Len(clients) + 1] = [ID |-> id, fd |-> fd]
  BY Shapes, RegisterStays
<1>4. IDsStay /\ \A t \in Topics : EntriesStay(t)
  BY RegisterStays
<1>6. RInv' /\ \A j \in IDs, t \in Topics : Queue(j, t)' = Queue(j, t)
  BY <1>1, <1>2, <1>4, AllKept
<1>7. id \notin Online /\ Online' = Online \cup {id}
  <2>1. ASSUME NEW j \in IDs PROVE j \in Online' <=> j \in Online \/ j = id
    <3>1. j \in Online <=> \E l \in DOMAIN clients : clients[l].ID = j /\ clients[l].fd # NoFd
      BY OnlineIs DEF Connected
    <3>2. j \in Online' <=> \E l \in DOMAIN clients' : clients'[l].ID = j /\ clients'[l].fd # NoFd
      BY DEF Online, FdsOf
    <3>3. fd # NoFd
      BY FdsAssumption DEF NoFd
    <3>4. \A l : l \in DOMAIN clients' <=> l \in DOMAIN clients \/ l = Len(clients) + 1
      BY <1>3
    <3> QED
      BY <1>3, <3>1, <3>2, <3>3, <3>4
  <2>2. id \notin Online
    BY <1>1, OnlineIs DEF Known
  <2> QED
    BY <2>1, <2>2 DEF Online
<1>8. ASSUME NEW t \in Topics \ corrupt
      PROVE  wanted[id][t] # "sf" /\ Queue(id, t) = << >>
  <2>1. Of(id, t) = {}
    BY <1>1, Shapes DEF Of, Known
  <2>2. wanted[id][t] # "sf"
    BY <2>1 DEF Matched, Asked
  <2> QED
    BY <2>2, QueuesNow DEF QueuesAre
<1>9. Promise!Connect(id)
  <2> DEFINE queue == [j \in IDs |-> [t \in Topics |-> Queue(j, t)]]
             batches == [Nothing EXCEPT ![id] = [t \in Topics |->
                           IF wanted[id][t] = "sf" THEN <<queue[id][t]>> ELSE << >>]]
             left == [queue EXCEPT ![id] = [t \in Topics |-> << >>]]
  <2>1. ASSUME NEW j \in IDs, NEW t \in Topics \ corrupt
        PROVE  batches[j][t] = << >> /\ left[j][t] = Queue(j, t)
    BY <1>8 DEF Nothing
  <2>2. \A j \in IDs, t \in Topics : Nothing[j][t] = << >>
    BY DEF Nothing
  <2> HIDE DEF batches, left
  <2>3. Promise!Delivers(batches, left)
    BY <1>1, <1>6, <2>1, <2>2 DEF Promise!Delivers, Promise!Holds
  <2> QED
    BY <1>1, <1>7, <2>3 DEF Promise!Connect, Promise!Nothing, Nothing, Online, batches, left
<1> QED
  BY <1>6, <1>9

-----------------------------------------------------------------------------
(* Requests *)

\* The entries of a connected client stand together, at the end of the log.
OnlineTogether == \A id \in Online, t \in Topics \ corrupt : Together(id, t)

\* Logs are sent to the end on return, so this always holds.
LEMMA TogetherNow == IInv => OnlineTogether
<1> SUFFICES ASSUME IInv, NEW id \in Online, NEW t \in Topics \ corrupt,
                    NEW j \in Of(id, t), NEW k \in Of(id, t), Waits(t, j), Waits(t, k)
             PROVE  subscribers[t][j].last_sent = subscribers[t][k].last_sent
  BY DEF OnlineTogether, Together
<1> USE DEF IInv
<1>1. PICK i \in DOMAIN clients : clients[i].ID = id /\ Connected(i)
  BY OnlineIs DEF Online
<1>2. subscribers[t][j].client = i /\ subscribers[t][k].client = i
  BY <1>1, Shapes DEF OneConnectionPerID, Of
<1> QED
  BY <1>1, <1>2 DEF CaughtUp, Of, Waits

\* The same of the next state.
LEMMA TogetherNext == IInv' => OnlineTogether'
BY TogetherNow, PTL

\* A request changes the mode of one pair; all other queues stay, and the
\* queue of its own pair is empty before and after, for its client is connected.
LEMMA AskPromise ==
  ASSUME RInv, RInv', NEW i \in DOMAIN clients, NEW t \in Topics,
         NEW mode \in {"none", "live", "sf"}, Connected(i),
         clients' = clients, wanted' = [wanted EXCEPT ![clients[i].ID][t] = mode],
         out' = Nothing, doubled \subseteq doubled', corrupt \subseteq corrupt',
         \A id \in IDs, u \in Topics \ corrupt' :
           ~(id = clients[i].ID /\ u = t) => Queue(id, u)' = Queue(id, u)
  PROVE  Promise!Ask(clients[i].ID, t, mode)
<1>1. clients[i].ID \in IDs /\ clients[i].ID \in Online
  BY OnlineIs, Shapes DEF RInv, IInv
<1>2. Online' = Online
  BY DEF Online, FdsOf
<1>3. ASSUME t \notin corrupt'
      PROVE  Queue(clients[i].ID, t)' = Queue(clients[i].ID, t)
  <2>1. Queue(clients[i].ID, t) = << >>
    BY <1>1, <1>3, QueuesNow DEF QueuesAre
  <2>2. QueuesAre'
    BY QueuesNext
  <2>3. Queue(clients[i].ID, t)' = << >>
    BY <1>1, <1>2, <1>3, <2>2 DEF QueuesAre
  <2> QED
    BY <2>1, <2>3
<1>4. \A id \in IDs, u \in Topics \ corrupt' : Queue(id, u)' = Queue(id, u)
  BY <1>3
<1>5. Promise!Delivers(Promise!Nothing, [id \in IDs |-> [u \in Topics |-> Queue(id, u)]])
  BY <1>4 DEF Promise!Delivers, Promise!Holds, Promise!Nothing, Nothing
<1> QED
  BY <1>1, <1>2, <1>5 DEF Promise!Ask, Online

\* Entry 1 is updated: in a sound topic it is an entry of the client that asks.
LEMMA Updates ==
  ASSUME TypeOK, OneConnectionPerID, NEW i \in DOMAIN clients, NEW t \in Topics,
         NEW cursor \in Int, Connected(i), NEW r \in Reads(t, clients),
         r # << >>, r[1] = clients[i].fd, Update(t, cursor)
  PROVE  /\ 1 \in DOMAIN subscribers[t]
         /\ \A u \in Topics \ {t} : subscribers'[u] = subscribers[u]
         /\ DOMAIN subscribers'[t] = DOMAIN subscribers[t]
         /\ \A k \in DOMAIN subscribers[t] :
              /\ subscribers'[t][k].client = subscribers[t][k].client
              /\ subscribers'[t][k].last_sent =
                   IF k = 1 THEN cursor ELSE subscribers[t][k].last_sent
         /\ 1 \notin Stale(t) => subscribers[t][1].client = i
<1>1. /\ r \in [DOMAIN subscribers[t] -> Fds \cup {NoFd}]
      /\ \A k \in DOMAIN subscribers[t] \ Stale(t) :
           r[k] = clients[subscribers[t][k].client].fd
  BY ReadsAreFds DEF TypeOK
<1>2. 1 \in DOMAIN subscribers[t]
  <2>1. Len(subscribers[t]) # 0
    <3> SUFFICES ASSUME Len(subscribers[t]) = 0 PROVE r = << >>
      OBVIOUS
    <3>1. r \in [1 .. 0 -> Fds \cup {NoFd}]
      BY <1>1, Shapes
    <3>2. r \in Seq(Fds \cup {NoFd}) /\ Len(r) = 0
      BY <3>1, FunctionIsSeq
    <3> QED
      BY <3>2, EmptySeq
  <2> QED
    BY <2>1, Shapes
<1>3. /\ subscribers \in [Topics -> Seq(Subscriber)]
      /\ \A k \in DOMAIN subscribers[t] : subscribers[t][k] \in Subscriber
  BY Shapes DEF TypeOK
<1>4. subscribers' = [subscribers EXCEPT ![t] =
        [subscribers[t] EXCEPT ![1] = [subscribers[t][1] EXCEPT !.last_sent = cursor]]]
  BY <1>3 DEF Update
<1>5. 1 \notin Stale(t) => subscribers[t][1].client = i
  BY <1>1, <1>2, Shapes DEF OneConnectionPerID, Connected
<1> QED
  BY <1>2, <1>3, <1>4, <1>5 DEF Subscriber

\* One entry is added, at the end.
LEMMA Adds ==
  ASSUME TypeOK, NEW i \in DOMAIN clients, NEW t \in Topics,
         NEW cursor \in Int, Add(i, t, cursor)
  PROVE  /\ Len(subscribers[t]) + 1 \notin DOMAIN subscribers[t]
         /\ \A u \in Topics \ {t} : subscribers'[u] = subscribers[u]
         /\ DOMAIN subscribers'[t] = DOMAIN subscribers[t] \cup {Len(subscribers[t]) + 1}
         /\ \A k \in DOMAIN subscribers[t] : subscribers'[t][k] = subscribers[t][k]
         /\ subscribers'[t][Len(subscribers[t]) + 1].client = i
         /\ subscribers'[t][Len(subscribers[t]) + 1].last_sent = cursor
<1> DEFINE s == [client |-> i, fresh |-> TRUE, last_sent |-> cursor]
<1>1. s \in Subscriber
  BY Shapes DEF Subscriber
<1>2. subscribers \in [Topics -> Seq(Subscriber)] /\ subscribers[t] \in Seq(Subscriber)
  BY DEF TypeOK
<1>3. subscribers' = [subscribers EXCEPT ![t] = Append(subscribers[t], s)]
  BY <1>2 DEF Add
<1>4. s.client = i /\ s.last_sent = cursor
  OBVIOUS
<1> HIDE DEF s
<1>5. /\ DOMAIN Append(subscribers[t], s) = 1 .. Len(subscribers[t]) + 1
      /\ \A k \in 1 .. Len(subscribers[t]) : Append(subscribers[t], s)[k] = subscribers[t][k]
      /\ Append(subscribers[t], s)[Len(subscribers[t]) + 1] = s
  BY <1>1, <1>2, AppendProperties, LenProperties
<1>6. DOMAIN subscribers[t] = 1 .. Len(subscribers[t]) /\ Len(subscribers[t]) \in Nat
  BY Shapes
<1>7. 1 .. Len(subscribers[t]) + 1 = 1 .. Len(subscribers[t]) \cup {Len(subscribers[t]) + 1}
  BY <1>6
<1>8. subscribers'[t] = Append(subscribers[t], s)
  BY <1>2, <1>3
<1>9. \A u \in Topics \ {t} : subscribers'[u] = subscribers[u]
  BY <1>2, <1>3
<1> QED
  BY <1>4, <1>5, <1>6, <1>7, <1>8, <1>9

\* After subscribe, the pair has an entry of the mode asked for: the one that
\* was updated, or the new one.
LEMMA SubscribePromise ==
  ASSUME RInv, NEW i \in DOMAIN clients, NEW t \in Topics, NEW mode \in {"live", "sf"},
         NEW cursor, cursor = IF mode = "sf" THEN Len(messages[t]) - 1 ELSE NoSF,
         SubscribeAs(i, t, mode, cursor)
  PROVE  RInv' /\ Promise!Ask(clients[i].ID, t, mode)
<1> USE DEF RInv, IInv
<1>0. PICK own \in IDs : own = clients[i].ID
  BY Shapes
<1> USE <1>0
<1>1. /\ UNCHANGED <<clients, capacity, messages>>
      /\ wanted' = [wanted EXCEPT ![clients[i].ID][t] = mode]
      /\ out' = Nothing
      /\ Connected(i)
      /\ corrupt' = IF {1} \cap Stale(t) # {} THEN corrupt \cup {t} ELSE corrupt
  BY DEF SubscribeAs, Followed
<1>2. /\ cursor \in Int /\ cursor \in {NoSF, Len(messages[t]) - 1}
      /\ cursor # NoSF <=> mode = "sf"
      /\ Len(messages[t]) \in Nat
  BY Shapes DEF NoSF
<1>3. IInv'
  BY <1>2, SubscribeKeepsIInv
<1>4. IDsStay
  BY <1>1 DEF IDsStay
<1>5. /\ wanted'[own][t] = mode
      /\ \A id \in IDs, u \in Topics : ~(id = own /\ u = t) => wanted'[id][u] = wanted[id][u]
  BY <1>1, <1>2 DEF TypeOK
<1>6. t \notin corrupt' => Together(own, t)'
  <2>1. OnlineTogether'
    BY <1>3, TogetherNext
  <2>2. own \in Online
    BY <1>1, <1>2, OnlineIs
  <2>3. Online' = Online
    BY <1>1 DEF Online, FdsOf
  <2> QED
    BY <2>1, <2>2, <2>3 DEF OnlineTogether
<1>7. doubled \subseteq doubled' /\ corrupt \subseteq corrupt'
  BY <1>1 DEF SubscribeAs, Update, Add
<1>8. /\ \A id \in IDs, u \in Topics \ corrupt' : ~(id = own /\ u = t) => PairStays(id, u)
      /\ t \notin corrupt' => Once(own, t)' /\ Asked(own, t)'
  <2>1. CASE \E r \in Reads(t, clients) : r # << >> /\ r[1] = clients[i].fd /\ Update(t, cursor)
    <3>1. PICK r \in Reads(t, clients) : r # << >> /\ r[1] = clients[i].fd /\ Update(t, cursor)
      BY <2>1
    <3>2. /\ 1 \in DOMAIN subscribers[t]
          /\ \A u \in Topics \ {t} : subscribers'[u] = subscribers[u]
          /\ DOMAIN subscribers'[t] = DOMAIN subscribers[t]
          /\ \A k \in DOMAIN subscribers[t] :
               /\ subscribers'[t][k].client = subscribers[t][k].client
               /\ subscribers'[t][k].last_sent =
                    IF k = 1 THEN cursor ELSE subscribers[t][k].last_sent
          /\ 1 \notin Stale(t) => subscribers[t][1].client = i
          /\ doubled' = doubled
      <4> USE <1>1, <1>2, <3>1
      <4>1. Update(t, cursor) => doubled' = doubled
        BY DEF Update
      <4> QED
        BY <4>1, Updates
    <3>3. \A id \in IDs : Of(id, t)' = Of(id, t)
      BY <1>1, <3>2 DEF Of
    <3>4. t \notin corrupt' => subscribers[t][1].client = i
      BY <1>1, <3>2
    <3>5. ASSUME NEW id \in IDs, NEW u \in Topics \ corrupt', ~(id = own /\ u = t)
          PROVE  PairStays(id, u)
      <4>1. CASE u # t
        BY <1>1, <1>4, <1>5, <3>2, <3>5, <4>1, EntriesKept DEF EntriesStay
      <4>2. CASE u = t
        <5>1. 1 \notin Of(id, t)
          BY <3>4, <3>5, <4>2 DEF Of
        <5>2. \A k \in Of(id, t) : subscribers'[t][k].last_sent = subscribers[t][k].last_sent
          BY <3>2, <5>1 DEF Of
        <5> QED
          BY <1>1, <1>5, <3>2, <3>3, <3>5, <4>2, <5>2 DEF PairStays
      <4> QED
        BY <4>1, <4>2
    <3>6. ASSUME t \notin corrupt' PROVE Once(own, t)' /\ Asked(own, t)'
      <4>1. Once(own, t)
        BY <1>2, <1>7, <3>6 DEF Matched
      <4>2. Once(own, t)'
        BY <1>2, <3>2, <3>3, <4>1 DEF Once
      <4>3. 1 \in Of(own, t)'
        BY <3>2, <3>3, <3>4, <3>6, <1>2 DEF Of
      <4>4. Waits(t, 1)' <=> mode = "sf"
        BY <1>2, <3>2 DEF Waits
      <4>5. <<own, t>> \notin doubled' => \A k \in Of(own, t)' : k = 1
        BY <4>2, <4>3 DEF Once
      <4> QED
        BY <1>5, <4>2, <4>3, <4>4, <4>5 DEF Asked
    <3> QED
      BY <3>5, <3>6
  <2>2. CASE Add(i, t, cursor)
    <3>0. PICK new : new = Len(subscribers[t]) + 1
      OBVIOUS
    <3>1. /\ new \notin DOMAIN subscribers[t]
          /\ \A u \in Topics \ {t} : subscribers'[u] = subscribers[u]
          /\ DOMAIN subscribers'[t] = DOMAIN subscribers[t] \cup {new}
          /\ \A k \in DOMAIN subscribers[t] : subscribers'[t][k] = subscribers[t][k]
          /\ subscribers'[t][new].client = i
          /\ subscribers'[t][new].last_sent = cursor
      BY <1>2, <2>2, <3>0, Adds
    <3>2. doubled' = IF \E k \in DOMAIN subscribers[t] : subscribers[t][k].client = i
                       THEN doubled \cup {<<clients[i].ID, t>>} ELSE doubled
      BY <2>2 DEF Add
    <3>3. Of(own, t)' = Of(own, t) \cup {new}
      BY <1>1, <3>1 DEF Of
    <3>4. ASSUME NEW id \in IDs, NEW u \in Topics \ corrupt', ~(id = own /\ u = t)
          PROVE  PairStays(id, u)
      <4>1. <<id, u>> \in doubled' <=> <<id, u>> \in doubled
        BY <3>2, <3>4
      <4>2. CASE u # t
        BY <1>1, <1>4, <1>5, <3>1, <3>4, <4>1, <4>2, EntriesKept DEF EntriesStay
      <4>3. CASE u = t
        <5>1. Of(id, t)' = Of(id, t)
          BY <1>1, <3>1, <3>4, <4>3 DEF Of
        <5>2. \A k \in Of(id, t) : subscribers'[t][k].last_sent = subscribers[t][k].last_sent
          BY <3>1 DEF Of
        <5> QED
          BY <1>1, <1>5, <3>4, <4>1, <4>3, <5>1, <5>2 DEF PairStays
      <4> QED
        BY <4>2, <4>3
    <3>5. <<own, t>> \notin doubled' => Of(own, t)' = {new}
      <4> SUFFICES ASSUME <<own, t>> \notin doubled' PROVE Of(own, t) = {}
        BY <3>3
      <4>1. \A k \in DOMAIN subscribers[t] : subscribers[t][k].client # i
        BY <3>2
      <4> QED
        BY <4>1, Shapes DEF Of, OneConnectionPerID
    <3>6. new \in Of(own, t)' /\ (Waits(t, new)' <=> mode = "sf")
      BY <1>2, <3>1, <3>3 DEF Waits
    <3>7. Once(own, t)' /\ Asked(own, t)'
      BY <1>5, <3>5, <3>6 DEF Once, Asked
    <3> QED
      BY <3>4, <3>7
  <2> QED
    BY <2>1, <2>2 DEF SubscribeAs
<1>9. ASSUME NEW id \in IDs, NEW u \in Topics \ corrupt', ~(id = own /\ u = t)
      PROVE  Matched(id, u)' /\ Queue(id, u)' = Queue(id, u)
  BY <1>7, <1>8, <1>9, PairKept
<1>10. RInv'
  BY <1>2, <1>3, <1>6, <1>8, <1>9 DEF Matched
<1>11. \A id \in IDs, u \in Topics \ corrupt' :
         ~(id = own /\ u = t) => Queue(id, u)' = Queue(id, u)
  BY <1>9
<1> HIDE DEF RInv, IInv
<1>12. Promise!Ask(clients[i].ID, t, mode)
  BY <1>1, <1>7, <1>10, <1>11, AskPromise
<1> QED
  BY <1>10, <1>12

\* InOrder lists no position twice.
LEMMA InOrderOnce ==
  ASSUME NEW n \in Nat, NEW S \in SUBSET (1 .. n), NEW p \in InOrder(S)
  PROVE  \A i, j \in DOMAIN p : p[i] = p[j] => i = j
<1>1. Cardinality(S) \in Nat
  <2>1. IsFiniteSet(1 .. n)
    BY FS_Interval
  <2> QED
    BY <2>1, FS_Subset, FS_CardinalityType
<1>2. /\ p \in [1 .. Cardinality(S) -> S]
      /\ \A i, j \in DOMAIN p : i < j => p[i] < p[j]
  BY DEF InOrder
<1>3. \A j \in DOMAIN p : j \in Int /\ p[j] \in Int
  <2> DEFINE c == Cardinality(S)
  <2>1. p \in [1 .. c -> S] /\ c \in Int
    BY <1>1, <1>2
  <2> HIDE DEF c
  <2>2. \A j \in DOMAIN p : j \in 1 .. c /\ p[j] \in S
    BY <2>1
  <2>3. \A j \in 1 .. c : j \in Int
    BY <2>1
  <2>4. \A k \in S : k \in Int
    OBVIOUS
  <2> QED
    BY <2>2, <2>3, <2>4
<1>4. \A i, j \in DOMAIN p : i < j \/ j < i \/ i = j
  BY <1>3
<1>5. \A i, j \in DOMAIN p : i < j => p[i] # p[j]
  BY <1>2, <1>3
<1> QED
  BY <1>4, <1>5

\* What unsubscribe leaves: the entry at j was at p[j] before.  In a sound topic
\* only entries of the client are gone, and all that have no other before them.
Leaves(i, t, gone, p) ==
  /\ gone \subseteq DOMAIN subscribers[t]
  /\ DOMAIN p = DOMAIN subscribers'[t]
  /\ \A j \in DOMAIN p : /\ p[j] \in DOMAIN subscribers[t] \ gone
                         /\ subscribers'[t][j] = subscribers[t][p[j]]
  /\ \A k \in DOMAIN subscribers[t] \ gone : \E j \in DOMAIN p : p[j] = k
  /\ \A j, k \in DOMAIN p : p[j] = p[k] => j = k
  /\ Stale(t) = {} => \A k \in DOMAIN subscribers[t] :
       /\ k \in gone => subscribers[t][k].client = i
       /\ subscribers[t][k].client = i => (k \in gone <=> k - 1 \notin gone)

\* Unsubscribing removes some entries of the topic, and of the client's own
\* each that does not follow a removed one (server.c:372-396).
LEMMA UnsubscribeLeaves ==
  ASSUME TypeOK, OneConnectionPerID, NEW i \in DOMAIN clients, NEW t \in Topics,
         Unsubscribe(i, t)
  PROVE  /\ \A u \in Topics \ {t} : subscribers'[u] = subscribers[u]
         /\ \E gone, p : Leaves(i, t, gone, p)
<1>1. PICK r \in Reads(t, clients) :
        LET mine == {k \in DOMAIN r : r[k] = clients[i].fd}
        IN  \E gone \in SUBSET mine :
              /\ \A k \in mine : k \in gone <=> k - 1 \notin gone
              /\ \E p \in InOrder(DOMAIN r \ gone) :
                   subscribers' = [subscribers EXCEPT ![t] =
                     [j \in DOMAIN p |-> subscribers[t][p[j]]]]
  BY DEF Unsubscribe
<1> DEFINE mine == {k \in DOMAIN r : r[k] = clients[i].fd}
<1>2. PICK gone \in SUBSET mine :
        /\ \A k \in mine : k \in gone <=> k - 1 \notin gone
        /\ \E p \in InOrder(DOMAIN r \ gone) :
             subscribers' = [subscribers EXCEPT ![t] = [j \in DOMAIN p |-> subscribers[t][p[j]]]]
  BY <1>1
<1>3. PICK p \in InOrder(DOMAIN r \ gone) :
        subscribers' = [subscribers EXCEPT ![t] = [j \in DOMAIN p |-> subscribers[t][p[j]]]]
  BY <1>2
<1>4. /\ DOMAIN r = 1 .. Len(subscribers[t]) /\ Len(subscribers[t]) \in Nat
      /\ DOMAIN r = DOMAIN subscribers[t]
      /\ \A k \in DOMAIN r \ Stale(t) : r[k] = clients[subscribers[t][k].client].fd
  <2>1. clients \in Seq(Client)
    BY DEF TypeOK
  <2> QED
    BY <2>1, ReadsAreFds, Shapes
<1>5. /\ DOMAIN p = 1 .. Len(p) /\ p \in Seq(DOMAIN r \ gone)
      /\ \A k \in DOMAIN r \ gone : \E j \in DOMAIN p : p[j] = k
      /\ \A j, k \in DOMAIN p : p[j] = p[k] => j = k
  <2>1. DOMAIN r \ gone \in SUBSET (1 .. Len(subscribers[t]))
    BY <1>4
  <2>2. \A j, k \in DOMAIN p : p[j] = p[k] => j = k
    BY <1>4, <2>1, InOrderOnce
  <2>3. /\ DOMAIN p = 1 .. Len(p) /\ p \in Seq(DOMAIN r \ gone)
        /\ \A k \in DOMAIN r \ gone : \E j \in DOMAIN p : p[j] = k
    BY <1>4, <2>1, InOrderLists
  <2> QED
    BY <2>2, <2>3
<1>6. \A j \in DOMAIN p : p[j] \in DOMAIN r \ gone
  BY <1>5, ElementOfSeq
<1>7. /\ \A u \in Topics \ {t} : subscribers'[u] = subscribers[u]
      /\ subscribers'[t] = [j \in DOMAIN p |-> subscribers[t][p[j]]]
  BY <1>3 DEF TypeOK
<1>8. ASSUME Stale(t) = {}, NEW k \in DOMAIN subscribers[t]
      PROVE  k \in mine <=> subscribers[t][k].client = i
  <2>1. r[k] = clients[subscribers[t][k].client].fd
    BY <1>4, <1>8
  <2>2. Connected(i) /\ subscribers[t][k].client \in DOMAIN clients
    BY Shapes DEF Unsubscribe
  <2> QED
    BY <1>4, <2>1, <2>2 DEF OneConnectionPerID, Connected
<1>9. gone \subseteq mine /\ mine \subseteq DOMAIN subscribers[t]
  BY <1>2, <1>4
<1>10. \A k \in mine : k \in gone <=> k - 1 \notin gone
  BY <1>2
<1> HIDE DEF mine
<1>11. Leaves(i, t, gone, p)
  <2>1. Stale(t) = {} => \A k \in DOMAIN subscribers[t] :
          /\ k \in gone => subscribers[t][k].client = i
          /\ subscribers[t][k].client = i => (k \in gone <=> k - 1 \notin gone)
    BY <1>8, <1>9, <1>10
  <2>2. /\ DOMAIN p = DOMAIN subscribers'[t]
        /\ \A j \in DOMAIN p : subscribers'[t][j] = subscribers[t][p[j]]
    BY <1>7
  <2> QED
    BY <1>4, <1>5, <1>6, <1>9, <2>1, <2>2 DEF Leaves
<1> QED
  BY <1>7, <1>11

\* After unsubscribe a pair that never had two entries has none.  The others
\* keep theirs, if at other places.
LEMMA UnsubscribePromise ==
  ASSUME RInv, NEW i \in DOMAIN clients, NEW t \in Topics, Unsubscribe(i, t)
  PROVE  RInv' /\ Promise!Ask(clients[i].ID, t, "none")
<1> USE DEF RInv, IInv
<1>0. PICK own \in IDs : own = clients[i].ID
  BY Shapes
<1>1. /\ UNCHANGED <<clients, capacity, topics, messages, doubled>>
      /\ wanted' = [wanted EXCEPT ![clients[i].ID][t] = "none"]
      /\ out' = Nothing
      /\ Connected(i)
      /\ corrupt \subseteq corrupt'
      /\ t \notin corrupt' => Stale(t) = {}
  BY DEF Unsubscribe, Followed, Stale
<1>2. IInv'
  BY UnsubscribeKeepsIInv
<1>3. IDsStay
  BY <1>1 DEF IDsStay
<1>4. /\ wanted'[own][t] = "none"
      /\ \A id \in IDs, u \in Topics : ~(id = own /\ u = t) => wanted'[id][u] = wanted[id][u]
  BY <1>0, <1>1 DEF TypeOK
<1>5. /\ \A u \in Topics \ {t} : subscribers'[u] = subscribers[u]
      /\ \E gone, p : Leaves(i, t, gone, p)
  BY UnsubscribeLeaves
<1>6. PICK gone, p : Leaves(i, t, gone, p)
  BY <1>5
<1>7. ASSUME NEW id \in IDs, NEW j
      PROVE  j \in Of(id, t)' <=> j \in DOMAIN p /\ p[j] \in Of(id, t)
  BY <1>1, <1>6 DEF Leaves, Of
<1>8. ASSUME NEW j \in DOMAIN p
      PROVE  /\ subscribers'[t][j].last_sent = subscribers[t][p[j]].last_sent
             /\ Waits(t, j)' <=> Waits(t, p[j])
  BY <1>6 DEF Leaves, Waits
<1>9. ASSUME t \notin corrupt' PROVE Matched(own, t)'
  <2>1. Together(own, t)'
    <3>1. OnlineTogether' /\ own \in Online /\ Online' = Online
      BY <1>0, <1>1, <1>2, TogetherNext, OnlineIs DEF Online, FdsOf
    <3> QED
      BY <1>9, <3>1 DEF OnlineTogether
  <2>2. ASSUME <<own, t>> \notin doubled PROVE Of(own, t)' = {}
    <3> SUFFICES ASSUME NEW j \in DOMAIN p, p[j] \in Of(own, t) PROVE FALSE
      BY <1>7
    <3>1. /\ p[j] \in DOMAIN subscribers[t] \ gone
          /\ subscribers[t][p[j]].client = i
          /\ \A k \in DOMAIN subscribers[t] : subscribers[t][k].client = i => k = p[j]
      BY <1>0, <1>1, <1>6, <1>9, <2>2, Shapes
         DEF Leaves, Of, OneConnectionPerID, Matched, Once
    <3>2. p[j] - 1 \in gone
      BY <1>1, <1>6, <1>9, <3>1 DEF Leaves
    <3>3. p[j] \in Int
      BY <3>1, Shapes
    <3>4. p[j] - 1 \notin DOMAIN subscribers[t]
      BY <1>1, <1>6, <1>9, <3>1, <3>2, <3>3 DEF Leaves
    <3> QED
      BY <1>6, <3>2, <3>4 DEF Leaves
  <2>3. Once(own, t)' /\ Asked(own, t)'
    BY <1>1, <1>4, <2>2 DEF Once, Asked
  <2> QED
    BY <2>1, <2>3 DEF Matched
<1>10. ASSUME NEW id \in IDs, NEW u \in Topics \ corrupt', u # t
       PROVE  Matched(id, u)' /\ Queue(id, u)' = Queue(id, u)
  <2>1. PairStays(id, u)
    BY <1>1, <1>3, <1>4, <1>5, <1>10, EntriesKept DEF EntriesStay
  <2> QED
    BY <1>1, <2>1, PairKept
<1>11. ASSUME NEW id \in IDs, t \notin corrupt', id # own
       PROVE  /\ Matched(id, t)'
              /\ \A k \in Of(id, t) : \E j \in Of(id, t)' : p[j] = k
  <2>0. Matched(id, t)
    BY <1>1, <1>11
  <2>1. \A k \in Of(id, t) : \E j \in Of(id, t)' : p[j] = k
    BY <1>0, <1>1, <1>6, <1>7, <1>11 DEF Leaves, Of
  <2>2. Once(id, t)'
    BY <1>1, <1>6, <1>7, <2>0 DEF Matched, Once, Leaves
  <2>3. wanted'[id][t] = wanted[id][t]
    BY <1>4, <1>11
  <2>4. Asked(id, t)'
    <3>1. wanted[id][t] = "sf" => \E j \in Of(id, t)' : Waits(t, j)'
      BY <1>7, <1>8, <2>0, <2>1 DEF Matched, Asked
    <3>2. wanted[id][t] = "live" => Of(id, t)' # {}
      BY <2>0, <2>1 DEF Matched, Asked
    <3>3. ASSUME <<id, t>> \notin doubled, NEW j \in Of(id, t)'
          PROVE  wanted[id][t] = IF Waits(t, j)' THEN "sf" ELSE "live"
      BY <1>7, <1>8, <2>0, <3>3 DEF Matched, Asked
    <3> QED
      BY <1>1, <2>3, <3>1, <3>2, <3>3 DEF Asked
  <2>5. Together(id, t)'
    BY <1>7, <1>8, <2>0 DEF Matched, Together
  <2> QED
    BY <2>1, <2>2, <2>4, <2>5 DEF Matched
<1>12. RInv'
  BY <1>1, <1>2, <1>9, <1>10, <1>11
<1>13. ASSUME NEW id \in IDs, t \notin corrupt', id # own
       PROVE  Queue(id, t)' = Queue(id, t)
  <2>1. QueuesAre /\ QueuesAre' /\ t \notin corrupt
    BY <1>1, <1>12, <1>13, QueuesNow, QueuesNext
  <2>2. wanted'[id][t] = wanted[id][t]
    BY <1>4, <1>13
  <2>3. CASE wanted[id][t] # "sf"
    BY <1>13, <2>1, <2>2, <2>3 DEF QueuesAre
  <2>4. CASE wanted[id][t] = "sf"
    <3>1. PICK k \in Of(id, t) : Waits(t, k)
      BY <2>1, <2>4 DEF Matched, Asked
    <3>2. PICK j \in Of(id, t)' : p[j] = k
      BY <1>11, <1>13
    <3>3. j \in DOMAIN p /\ Waits(t, j)'
      BY <1>7, <1>8, <3>1, <3>2
    <3>4. Queue(id, t) = Pending(t, k)
      BY <2>1, <2>4, <3>1 DEF QueuesAre
    <3>5. Queue(id, t)' = SubSeq(messages'[t], subscribers'[t][j].last_sent + 2, Len(messages'[t]))
      BY <1>13, <2>1, <2>2, <2>4, <3>2, <3>3 DEF QueuesAre, Pending
    <3> QED
      BY <1>1, <1>8, <3>2, <3>3, <3>4, <3>5 DEF Pending
  <2> QED
    BY <2>3, <2>4
<1>14. \A id \in IDs, u \in Topics \ corrupt' :
         ~(id = own /\ u = t) => Queue(id, u)' = Queue(id, u)
  BY <1>10, <1>13
<1> HIDE DEF RInv, IInv
<1>15. Promise!Ask(clients[i].ID, t, "none")
  BY <1>0, <1>1, <1>12, <1>14, AskPromise
<1> QED
  BY <1>12, <1>15

-----------------------------------------------------------------------------
(* A datagram *)

\* What lies behind a cursor grows with the log.
LEMMA BehindGrows ==
  ASSUME NEW S, NEW log \in Seq(S), NEW m \in S, NEW c \in Int, -1 <= c, c < Len(log)
  PROVE  SubSeq(Append(log, m), c + 2, Len(log) + 1) = Append(SubSeq(log, c + 2, Len(log)), m)
<1>0. PICK n \in Nat : n = Len(log)
  BY LenProperties
<1>1. PICK a : a = Append(log, m)
  OBVIOUS
<1>2. /\ a \in Seq(S) /\ Len(a) = n + 1 /\ a[n + 1] = m
      /\ \A j \in 1 .. n : a[j] = log[j]
  BY <1>0, <1>1, AppendProperties
<1>3. PICK d \in Int : d = c + 2 /\ 1 <= d /\ d <= n + 1
  BY <1>0
<1>4. PICK left : left = SubSeq(a, d, n + 1)
  OBVIOUS
<1>5. PICK rest : rest = SubSeq(log, d, n)
  OBVIOUS
<1>6. /\ left \in Seq(S) /\ Len(left) = n + 2 - d
      /\ \A j \in 1 .. n + 2 - d : left[j] = a[d + j - 1]
  <2>1. \A j \in d .. n + 1 : a[j] \in S
    BY <1>2, <1>3, ElementOfSeq
  <2>2. n + 1 \in Int /\ d <= n + 1 /\ n + 1 - d + 1 = n + 2 - d
    BY <1>3
  <2> QED
    BY <1>4, <2>1, <2>2, SubSeqProperties
<1>7. /\ rest \in Seq(S) /\ Len(rest) = n + 1 - d
      /\ \A j \in 1 .. n + 1 - d : rest[j] = log[d + j - 1]
  <2>1. \A j \in d .. n : log[j] \in S
    BY <1>0, <1>3, ElementOfSeq
  <2>2. PICK l : l = Len(rest)
    OBVIOUS
  <2>3. l = IF d <= n THEN n - d + 1 ELSE 0
    BY <1>5, <2>1, <2>2, SubSeqProperties
  <2>4. l = n + 1 - d /\ n - d + 1 = n + 1 - d
    BY <1>3, <2>3
  <2> QED
    BY <1>5, <2>1, <2>2, <2>4, SubSeqProperties
<1>8. /\ Append(rest, m) \in Seq(S) /\ Len(Append(rest, m)) = n + 2 - d
      /\ \A j \in 1 .. n + 1 - d : Append(rest, m)[j] = rest[j]
      /\ Append(rest, m)[n + 2 - d] = m
  <2>1. n + 1 - d + 1 = n + 2 - d
    BY <1>3
  <2> QED
    BY <1>7, <2>1, AppendProperties
<1>9. PICK more : more = Append(rest, m)
  OBVIOUS
<1>10. ASSUME NEW j \in 1 .. n + 2 - d PROVE left[j] = more[j]
  <2>1. CASE j = n + 2 - d
    <3>1. d + j - 1 = n + 1
      BY <1>3, <2>1
    <3> QED
      BY <1>2, <1>6, <1>8, <1>9, <2>1, <3>1
  <2>2. CASE j # n + 2 - d
    <3>1. j \in 1 .. n + 1 - d /\ d + j - 1 \in 1 .. n
      BY <1>3, <2>2
    <3> QED
      BY <1>2, <1>6, <1>7, <1>8, <1>9, <3>1
  <2> QED
    BY <2>1, <2>2
<1>11. left = more
  BY <1>6, <1>8, <1>9, <1>10, SeqEqual
<1> QED
  BY <1>0, <1>1, <1>3, <1>4, <1>5, <1>9, <1>11

\* Nothing is lost behind a cursor when what lies before it is cut off.
LEMMA BehindStays ==
  ASSUME NEW S, NEW log \in Seq(S), NEW n \in Nat, NEW c \in Int, n <= c + 1, c < Len(log)
  PROVE  SubSeq(SubSeq(log, n + 1, Len(log)), c - n + 2, Len(log) - n)
           = SubSeq(log, c + 2, Len(log))
<1>0. PICK l \in Nat : l = Len(log)
  BY LenProperties
<1>1. PICK cut : cut = SubSeq(log, n + 1, l)
  OBVIOUS
<1>2. n <= l
  BY <1>0
<1>3. /\ cut \in Seq(S) /\ Len(cut) = l - n
      /\ \A j \in 1 .. l - n : cut[j] = log[n + j]
  <2>1. \A j \in n + 1 .. l : log[j] \in S
    BY <1>0, ElementOfSeq
  <2>2. PICK k : k = Len(cut)
    OBVIOUS
  <2>3. k = IF n + 1 <= l THEN l - (n + 1) + 1 ELSE 0
    BY <1>1, <2>1, <2>2, SubSeqProperties
  <2>4. k = l - n /\ l - (n + 1) + 1 = l - n
    BY <1>2, <2>3
  <2>5. \A j \in 1 .. l - n : cut[j] = log[n + 1 + j - 1]
    BY <1>1, <2>1, <2>4, SubSeqProperties
  <2>6. \A j \in 1 .. l - n : n + 1 + j - 1 = n + j
    OBVIOUS
  <2> QED
    BY <1>1, <2>1, <2>2, <2>4, <2>5, <2>6, SubSeqProperties
<1>4. CASE c = l - 1
  <2>1. /\ c + 2 \in Int /\ l \in Int /\ l < c + 2
        /\ c - n + 2 \in Int /\ l - n \in Int /\ l - n < c - n + 2
    BY <1>4
  <2> QED
    BY <1>0, <1>1, <2>1, SubSeqEmpty
<1>5. CASE c # l - 1
  <2>1. PICK d \in Int : d = c + 2 /\ n + 1 <= d /\ d <= l
    BY <1>0, <1>5
  <2>2. PICK e \in Int : e = c - n + 2 /\ 1 <= e /\ e <= l - n /\ d = n + e
    BY <2>1
  <2>3. PICK k \in Int : k = l - n
    OBVIOUS
  <2>4. PICK left : left = SubSeq(cut, e, k)
    OBVIOUS
  <2>5. PICK right : right = SubSeq(log, d, l)
    OBVIOUS
  <2>6. /\ left \in Seq(S) /\ Len(left) = k - e + 1
        /\ \A j \in 1 .. k - e + 1 : left[j] = cut[e + j - 1]
    <3>1. \A j \in e .. k : cut[j] \in S
      <4>1. \A j \in e .. k : j \in 1 .. k
        BY <2>2, <2>3
      <4>2. \A j \in 1 .. Len(cut) : cut[j] \in S
        BY <1>3, ElementOfSeq
      <4> QED
        BY <1>3, <2>3, <4>1, <4>2
    <3>2. e <= k
      BY <2>2, <2>3
    <3> QED
      BY <2>4, <3>1, <3>2, SubSeqProperties
  <2>7. /\ right \in Seq(S) /\ Len(right) = l - d + 1
        /\ \A j \in 1 .. l - d + 1 : right[j] = log[d + j - 1]
    <3>1. \A j \in d .. l : log[j] \in S
      BY <1>0, <2>1, ElementOfSeq
    <3>2. PICK r : r = Len(right)
      OBVIOUS
    <3>3. r = IF d <= l THEN l - d + 1 ELSE 0
      BY <2>5, <3>1, <3>2, SubSeqProperties
    <3>4. r = l - d + 1
      BY <2>1, <3>3
    <3>5. right \in Seq(S) /\ \A j \in 1 .. l - d + 1 : right[j] = log[d + j - 1]
      BY <2>5, <3>1, SubSeqProperties
    <3> QED
      BY <3>2, <3>4, <3>5
  <2>8. l - d + 1 = k - e + 1
    BY <2>2, <2>3
  <2>9. ASSUME NEW j \in 1 .. k - e + 1 PROVE left[j] = right[j]
    <3>1. e + j - 1 \in 1 .. l - n /\ n + (e + j - 1) = d + j - 1
      BY <2>2, <2>3
    <3> QED
      BY <1>3, <2>6, <2>7, <2>8, <3>1
  <2>10. left = right
    BY <2>6, <2>7, <2>8, <2>9, SeqEqual
  <2> QED
    BY <1>0, <1>1, <2>1, <2>2, <2>3, <2>4, <2>5, <2>10
<1> QED
  BY <1>4, <1>5

\* The entries of connected clients, and whether some absent one waits.
Here(t) == {k \in DOMAIN subscribers[t] : Connected(subscribers[t][k].client)}
Kept(t) == \E k \in DOMAIN subscribers[t] \ Here(t) : Waits(t, k)

\* What a datagram does to its topic, if no pointer was stale.
Spreads(t, m) ==
  /\ DOMAIN subscribers'[t] = DOMAIN subscribers[t]
  /\ messages'[t] = IF Kept(t) THEN Append(messages[t], m) ELSE messages[t]
  /\ \A k \in DOMAIN subscribers[t] :
       /\ subscribers'[t][k].client = subscribers[t][k].client
       /\ subscribers'[t][k].last_sent = IF Kept(t) /\ k \in Here(t) /\ Waits(t, k)
            THEN subscribers[t][k].last_sent + 1 ELSE subscribers[t][k].last_sent
  /\ \A id \in IDs :
       out'[id][t] = [j \in 1 .. Cardinality(Of(id, t) \cap Here(t)) |-> <<m>>]

\* A datagram on a known topic reaches the entries of connected clients, and
\* the log only if somebody waits for it (server.c:285-323).
LEMMA PublishSpreads ==
  ASSUME TypeOK, OneConnectionPerID, NEW t \in Topics, NEW m \in Msgs, Publish(t, m)
  PROVE  /\ \A u \in Topics \ {t} : /\ messages'[u] = messages[u]
                                    /\ subscribers'[u] = subscribers[u]
                                    /\ \A id \in IDs : out'[id][u] = << >>
         /\ Stale(t) = {} => Spreads(t, m)
<1>1. PICK r \in Reads(t, clients) :
        LET here == {k \in DOMAIN r : r[k] # NoFd}
            sent(id) == Cardinality({k \in here : r[k] \in FdsOf(id)})
            need_storage == \E k \in DOMAIN r \ here : subscribers[t][k].last_sent # NoSF
        IN  /\ IF need_storage THEN Store(t, m, here) ELSE UNCHANGED <<messages, subscribers>>
            /\ out' = [id \in IDs |->
                 [Nothing[id] EXCEPT ![t] = [j \in 1 .. sent(id) |-> <<m>>]]]
  BY DEF Publish
<1> DEFINE here == {k \in DOMAIN r : r[k] # NoFd}
           need_storage == \E k \in DOMAIN r \ here : subscribers[t][k].last_sent # NoSF
<1>2. /\ need_storage => Store(t, m, here)
      /\ ~need_storage => UNCHANGED <<messages, subscribers>>
      /\ out' = [id \in IDs |-> [Nothing[id] EXCEPT ![t] =
           [j \in 1 .. Cardinality({k \in here : r[k] \in FdsOf(id)}) |-> <<m>>]]]
  BY <1>1
<1>3. /\ DOMAIN r = DOMAIN subscribers[t]
      /\ \A k \in DOMAIN r \ Stale(t) : r[k] = clients[subscribers[t][k].client].fd
  <2>1. clients \in Seq(Client)
    BY DEF TypeOK
  <2> QED
    BY <2>1, ReadsAreFds
<1> HIDE DEF here, need_storage
<1>4. /\ messages \in [Topics -> Seq(Msgs)] /\ subscribers \in [Topics -> Seq(Subscriber)]
      /\ \A k \in DOMAIN subscribers[t] : subscribers[t][k] \in Subscriber
  BY Shapes DEF TypeOK
<1>5. ASSUME NEW u \in Topics \ {t}
      PROVE  /\ messages'[u] = messages[u] /\ subscribers'[u] = subscribers[u]
             /\ \A id \in IDs : out'[id][u] = << >>
  BY <1>2, <1>4 DEF Store, Nothing
<1>6. \A id \in IDs :
        out'[id][t] = [j \in 1 .. Cardinality({k \in here : r[k] \in FdsOf(id)}) |-> <<m>>]
  BY <1>2 DEF Nothing
<1>7. ASSUME Stale(t) = {} PROVE Spreads(t, m)
  <2>1. here = Here(t)
    BY <1>3, <1>7 DEF here, Here, Connected
  <2>2. need_storage <=> Kept(t)
    BY <1>3, <2>1 DEF need_storage, Kept, Waits
  <2>3. ASSUME NEW id \in IDs
        PROVE  {k \in here : r[k] \in FdsOf(id)} = Of(id, t) \cap Here(t)
    <3>1. ASSUME NEW k \in Here(t)
          PROVE  r[k] \in FdsOf(id) <=> clients[subscribers[t][k].client].ID = id
      <4>1. /\ subscribers[t][k].client \in DOMAIN clients
            /\ Connected(subscribers[t][k].client)
            /\ r[k] = clients[subscribers[t][k].client].fd
        BY <1>3, <1>7, Shapes DEF Here
      <4> QED
        BY <4>1 DEF FdsOf, OneConnectionPerID, Connected
    <3> QED
      BY <2>1, <3>1 DEF Of, Here
  <2>4. CASE Kept(t)
    <3>1. messages' = [messages EXCEPT ![t] = Append(messages[t], m)]
      BY <1>2, <1>4, <2>2, <2>4 DEF Store
    <3>2. subscribers' = [subscribers EXCEPT ![t] = MovedOn(t, Here(t))]
      BY <1>2, <2>1, <2>2, <2>4 DEF Store
    <3>3. /\ DOMAIN subscribers'[t] = DOMAIN subscribers[t]
          /\ \A k \in DOMAIN subscribers[t] :
               subscribers'[t][k] = IF k \in Here(t) /\ subscribers[t][k].last_sent # NoSF
                  THEN [subscribers[t][k] EXCEPT !.last_sent = @ + 1] ELSE subscribers[t][k]
      BY <1>4, <3>2 DEF MovedOn
    <3>4. \A k \in DOMAIN subscribers[t] :
            /\ subscribers'[t][k].client = subscribers[t][k].client
            /\ subscribers'[t][k].last_sent = IF Kept(t) /\ k \in Here(t) /\ Waits(t, k)
                 THEN subscribers[t][k].last_sent + 1 ELSE subscribers[t][k].last_sent
      BY <1>4, <2>4, <3>3 DEF Subscriber, Waits
    <3> QED
      BY <1>4, <1>6, <2>3, <2>4, <3>1, <3>3, <3>4 DEF Spreads
  <2>5. CASE ~Kept(t)
    BY <1>2, <1>6, <2>2, <2>3, <2>5 DEF Spreads
  <2> QED
    BY <2>4, <2>5
<1> QED
  BY <1>5, <1>7

\* The entries of an ID are all connected, or none is.
LEMMA AllHereOrNone ==
  ASSUME TypeOK, OneConnectionPerID, NEW id \in IDs, NEW t \in Topics
  PROVE  Of(id, t) \cap Here(t) = IF id \in Online THEN Of(id, t) ELSE {}
<1>1. ASSUME NEW k \in Of(id, t) PROVE k \in Here(t) <=> id \in Online
  <2>1. /\ subscribers[t][k].client \in DOMAIN clients
        /\ clients[subscribers[t][k].client].ID = id
    BY Shapes DEF Of
  <2>2. id \in Online <=> \E i \in DOMAIN clients : clients[i].ID = id /\ Connected(i)
    BY OnlineIs
  <2> QED
    BY <2>1, <2>2 DEF OneConnectionPerID, Of, Here
<1> QED
  BY <1>1

\* A message reaches every connected subscriber, once unless it has two entries,
\* and joins the queue of every absent one that asked for store-and-forward.
LEMMA PublishPromise ==
  ASSUME RInv, NEW t \in Topics, NEW m \in Msgs, Publish(t, m)
  PROVE  RInv' /\ Promise!Publish(t, m)
<1> USE DEF RInv, IInv
<1>1. /\ UNCHANGED <<clients, capacity, topics, wanted, doubled>>
      /\ corrupt \subseteq corrupt'
      /\ t \notin corrupt' => Stale(t) = {}
  BY DEF Publish, Followed, Stale
<1>2. IInv'
  BY PublishKeepsIInv
<1>3. \A u \in Topics \ {t} : /\ messages'[u] = messages[u]
                              /\ subscribers'[u] = subscribers[u]
                              /\ \A id \in IDs : out'[id][u] = << >>
  BY PublishSpreads
<1>4. t \notin corrupt' => Spreads(t, m)
  BY <1>1, PublishSpreads
<1>5. Online' = Online
  BY <1>1 DEF Online, FdsOf
<1>6. ASSUME NEW id \in IDs, NEW u \in Topics \ corrupt', u # t
      PROVE  Matched(id, u)' /\ Queue(id, u)' = Queue(id, u)
  <2>1. IDsStay /\ EntriesStay(u)
    BY <1>1, <1>3, <1>6 DEF IDsStay, EntriesStay
  <2>2. PairStays(id, u)
    BY <1>1, <1>3, <1>6, <2>1, EntriesKept
  <2> QED
    BY <1>1, <2>2, PairKept
<1>7. ASSUME t \notin corrupt', NEW k \in DOMAIN subscribers[t]
      PROVE  Waits(t, k)' <=> Waits(t, k)
  <2>1. subscribers[t][k].last_sent \in Int /\ subscribers[t][k].last_sent >= NoSF
    BY Shapes DEF CursorsInLog, Subscriber, NoSF
  <2> QED
    BY <1>4, <1>7, <2>1 DEF Spreads, Waits, NoSF
<1>8. ASSUME t \notin corrupt', NEW id \in IDs
      PROVE  Of(id, t)' = Of(id, t) /\ Matched(id, t)'
  <2>0. Matched(id, t)
    BY <1>1, <1>8
  <2>1. Of(id, t)' = Of(id, t)
    BY <1>1, <1>4, <1>8 DEF Spreads, Of
  <2>2. Once(id, t)'
    BY <1>1, <2>0, <2>1 DEF Matched, Once
  <2>3. Asked(id, t)'
    <3>1. \A k \in Of(id, t) : Waits(t, k)' <=> Waits(t, k)
      BY <1>7, <1>8 DEF Of
    <3> QED
      BY <1>1, <2>0, <2>1, <3>1 DEF Matched, Asked
  <2>4. Together(id, t)'
    <3> SUFFICES ASSUME NEW j \in Of(id, t), NEW k \in Of(id, t), Waits(t, j), Waits(t, k)
                 PROVE  subscribers'[t][j].last_sent = subscribers'[t][k].last_sent
      BY <1>7, <1>8, <2>1 DEF Together, Of
    <3>1. j \in Here(t) <=> k \in Here(t)
      BY AllHereOrNone
    <3> QED
      BY <1>4, <1>8, <2>0, <3>1 DEF Matched, Together, Spreads, Of
  <2> QED
    BY <2>1, <2>2, <2>3, <2>4 DEF Matched
<1>9. RInv'
  BY <1>1, <1>2, <1>6, <1>8
\* The queues of the topic.
<1>10. ASSUME t \notin corrupt', NEW id \in IDs
       PROVE  Queue(id, t)' = IF id \notin Online /\ wanted[id][t] = "sf"
                                THEN Append(Queue(id, t), m) ELSE Queue(id, t)
  <2>1. QueuesAre /\ QueuesAre' /\ t \notin corrupt
    BY <1>1, <1>9, <1>10, QueuesNow, QueuesNext
  <2>2. CASE id \in Online \/ wanted[id][t] # "sf"
    <3>1. Queue(id, t) = << >>
      BY <2>1, <2>2 DEF QueuesAre
    <3>2. Queue(id, t)' = << >>
      BY <1>1, <1>5, <1>10, <2>1, <2>2 DEF QueuesAre
    <3> QED
      BY <2>2, <3>1, <3>2
  <2>3. CASE id \notin Online /\ wanted[id][t] = "sf"
    <3>1. PICK k \in Of(id, t) : Waits(t, k)
      BY <2>1, <2>3 DEF Matched, Asked
    <3>2. k \in DOMAIN subscribers[t] \ Here(t)
      BY <2>3, <3>1, AllHereOrNone DEF Of
    <3>3. /\ messages'[t] = Append(messages[t], m)
          /\ subscribers'[t][k].last_sent = subscribers[t][k].last_sent
      BY <1>4, <1>10, <3>1, <3>2 DEF Spreads, Kept
    <3>4. Queue(id, t) = Pending(t, k)
      BY <2>1, <2>3, <3>1 DEF QueuesAre
    <3>5. Queue(id, t)' = SubSeq(messages'[t], subscribers'[t][k].last_sent + 2, Len(messages'[t]))
      BY <1>1, <1>7, <1>8, <1>10, <2>1, <2>3, <3>1, <3>2 DEF QueuesAre, Pending
    <3>6. PICK c \in Int : c = subscribers[t][k].last_sent /\ -1 <= c /\ c < Len(messages[t])
      <4>1. /\ subscribers[t][k].last_sent \in NoSF .. Len(messages[t]) - 1
            /\ subscribers[t][k].last_sent # NoSF /\ Len(messages[t]) \in Nat
        BY <3>1, <3>2, Shapes DEF CursorsInLog, Waits
      <4> QED
        BY <4>1 DEF NoSF
    <3>7. messages[t] \in Seq(Msgs) /\ Len(messages'[t]) = Len(messages[t]) + 1
      BY <3>3, AppendProperties DEF TypeOK
    <3> QED
      BY <2>3, <3>3, <3>4, <3>5, <3>6, <3>7, BehindGrows DEF Pending
  <2> QED
    BY <2>2, <2>3
\* What is sent on the topic.
<1>11. ASSUME t \notin corrupt', NEW id \in IDs
       PROVE  Promise!Holds(id, t, IF id \in Online /\ wanted[id][t] # "none"
                                     THEN << <<m>> >> ELSE << >>)
  <2>0. Matched(id, t)
    BY <1>1, <1>11
  <2> DEFINE served == IF id \in Online THEN Of(id, t) ELSE {}
  <2>1. PICK n : n = Cardinality(served)
    OBVIOUS
  <2>2. out'[id][t] = [j \in 1 .. n |-> <<m>>]
    BY <1>4, <1>11, <2>1, AllHereOrNone DEF Spreads
  <2>3. IsFiniteSet(served) /\ n \in Nat /\ (n = 0 <=> served = {})
    <3>0. Len(subscribers[t]) \in Int /\ 1 \in Int
      BY Shapes
    <3>1. IsFiniteSet(1 .. Len(subscribers[t]))
      BY <3>0, FS_Interval
    <3>2. served \in SUBSET (1 .. Len(subscribers[t]))
      BY Shapes DEF Of
    <3>3. IsFiniteSet(served)
      BY <3>1, <3>2, FS_Subset
    <3> QED
      BY <2>1, <3>3, FS_CardinalityType, FS_EmptySet
  <2>4. CASE id \in Online /\ wanted[id][t] # "none"
    <3>1. PICK k \in Of(id, t) : TRUE
      BY <1>1, <1>11, <2>0, <2>4 DEF Matched, Asked, TypeOK
    <3>2. CASE <<id, t>> \in doubled'
      <4>1. n \in Nat /\ n # 0 /\ 1 \in 1 .. n
        BY <2>3, <2>4, <3>1
      <4> HIDE DEF served
      <4>2. 1 \in DOMAIN out'[id][t] /\ out'[id][t][1] = <<m>>
        BY <2>2, <4>1
      <4>3. \A j \in DOMAIN << <<m>> >> : << <<m>> >>[j] = <<m>>
        OBVIOUS
      <4> QED
        BY <2>4, <3>2, <4>2, <4>3 DEF Promise!Holds
    <3>3. CASE <<id, t>> \notin doubled'
      <4>1. served = {k}
        BY <1>1, <2>0, <2>4, <3>1, <3>3 DEF Matched, Once
      <4>2. n = 1
        BY <2>1, <4>1, FS_Singleton
      <4>3. [j \in 1 .. 1 |-> <<m>>] = << <<m>> >>
        OBVIOUS
      <4> QED
        BY <2>2, <2>4, <3>3, <4>2, <4>3 DEF Promise!Holds
    <3> QED
      BY <3>2, <3>3
  <2>5. CASE ~(id \in Online /\ wanted[id][t] # "none")
    <3>1. CASE <<id, t>> \in doubled'
      BY <2>5, <3>1 DEF Promise!Holds
    <3>2. CASE <<id, t>> \notin doubled'
      <4>1. served = {}
        BY <1>1, <2>0, <2>5, <3>2 DEF Matched, Asked
      <4>2. [j \in 1 .. 0 |-> <<m>>] = << >>
        OBVIOUS
      <4> QED
        BY <2>2, <2>3, <2>5, <3>2, <4>1, <4>2 DEF Promise!Holds
    <3> QED
      BY <3>1, <3>2
  <2> QED
    BY <2>4, <2>5
<1> HIDE DEF RInv, IInv
<1>12. PICK batches : batches = [id \in IDs |-> [u \in Topics |->
         IF u = t /\ id \in Online /\ wanted[id][t] # "none" THEN << <<m>> >> ELSE << >>]]
  OBVIOUS
<1>13. PICK left : left = [id \in IDs |-> [u \in Topics |->
         IF u = t /\ id \notin Online /\ wanted[id][t] = "sf"
           THEN Append(Queue(id, t), m) ELSE Queue(id, u)]]
  OBVIOUS
<1>14. ASSUME NEW id \in IDs, NEW u \in Topics \ corrupt'
       PROVE  Promise!Holds(id, u, batches[id][u]) /\ Queue(id, u)' = left[id][u]
  <2>1. CASE u = t
    BY <1>10, <1>11, <1>12, <1>13, <1>14, <2>1
  <2>2. CASE u # t
    <3>1. batches[id][u] = << >> /\ out'[id][u] = << >> /\ left[id][u] = Queue(id, u)
      BY <1>3, <1>12, <1>13, <1>14, <2>2
    <3> QED
      BY <1>6, <1>14, <2>2, <3>1 DEF Promise!Holds
  <2> QED
    BY <2>1, <2>2
<1>15. Promise!Delivers(batches, left)
  BY <1>1, <1>14 DEF Promise!Delivers
<1>16. left = [id \in IDs |-> [u \in Topics |->
         IF u = t /\ id \notin Online /\ wanted[id][t] = "sf"
           THEN Append([i \in IDs |-> [v \in Topics |-> Queue(i, v)]][id][t], m)
           ELSE [i \in IDs |-> [v \in Topics |-> Queue(i, v)]][id][u]]]
  BY <1>13
<1>17. Promise!Publish(t, m)
  BY <1>1, <1>5, <1>12, <1>15, <1>16 DEF Promise!Publish, Online
<1> QED
  BY <1>9, <1>17

-----------------------------------------------------------------------------
(* A known ID returns *)

\* The entries a returning client is served by.
Returning(i, t) == {k \in DOMAIN subscribers[t] : subscribers[t][k].client = i /\ Waits(t, k)}

\* What the scan of a topic does, if no pointer is stale: one batch for every
\* entry of the client, and what lies behind the others stays.
Serves(i, t, s) ==
  /\ DOMAIN s.subs = DOMAIN subscribers[t]
  /\ \A k \in DOMAIN subscribers[t] :
       /\ s.subs[k].client = subscribers[t][k].client
       /\ s.subs[k].last_sent # NoSF <=> Waits(t, k)
  /\ \A k \in DOMAIN subscribers[t] \ Returning(i, t) : Waits(t, k) =>
       SubSeq(s.log, s.subs[k].last_sent + 2, Len(s.log)) = Pending(t, k)
  /\ \A j, k \in DOMAIN subscribers[t] \ Returning(i, t) :
       /\ Waits(t, j) /\ Waits(t, k)
       /\ subscribers[t][j].last_sent = subscribers[t][k].last_sent
       => s.subs[j].last_sent = s.subs[k].last_sent
  /\ \A k \in Returning(i, t) : \E j \in DOMAIN s.batches : s.batches[j] = Pending(t, k)
  /\ Returning(i, t) = {} => s.batches = << >>
  /\ \A k : Returning(i, t) = {k} => s.batches = <<Pending(t, k)>>

\* Catching up on a topic and cutting its log (server.c:186-241) do just that.
LEMMA ScanServes ==
  ASSUME IInv, NEW i \in DOMAIN clients, NEW fd \in Fds, NEW table, Back(i, fd, table),
         NEW t \in Topics, NEW s \in Scan(t, table, fd), Stale(t) = {}
  PROVE  Serves(i, t, s)
<1> USE DEF IInv, Back
<1>0. PICK len \in Nat : len = Len(messages[t])
  BY Shapes
<1>1. PICK r \in Reads(t, table) : s \in Results(t, Mine(t, r, fd))
  BY DEF Scan
<1>2. PICK mine : mine = Mine(t, r, fd)
  OBVIOUS
<1>3. PICK n \in Useless(Caught(t, mine)), p \in InOrder(mine) :
        s = [subs    |-> Shifted(Caught(t, mine), n),
             log     |-> SubSeq(messages[t], n + 1, Len(messages[t])),
             batches |-> [j \in DOMAIN p |-> Pending(t, p[j])]]
  BY <1>1, <1>2 DEF Results
<1>4. \A k \in DOMAIN subscribers[t] : /\ subscribers[t][k] \in Subscriber
                                       /\ subscribers[t][k].client \in DOMAIN clients
                                       /\ subscribers[t][k].last_sent \in NoSF .. len - 1
  BY <1>0, Shapes DEF CursorsInLog
<1>5. mine = Returning(i, t)
  <2>1. /\ DOMAIN r = DOMAIN subscribers[t]
        /\ \A k \in DOMAIN r : r[k] = table[subscribers[t][k].client].fd
    BY ReadsAreFds
  <2>2. ASSUME NEW k \in DOMAIN r PROVE r[k] = fd <=> subscribers[t][k].client = i
    <3>1. subscribers[t][k].client # i => clients[subscribers[t][k].client].fd # fd
      BY <1>4, <2>1, FdsAssumption DEF Lowest, OpenFds, NoFd
    <3> QED
      BY <1>4, <2>1, <3>1
  <2>3. \A k \in DOMAIN r : subscribers[t][k].last_sent > NoSF <=> Waits(t, k)
    BY <1>4, <2>1 DEF Waits, NoSF
  <2> QED
    BY <1>2, <2>1, <2>2, <2>3 DEF Mine, Returning
\* The entries, after catching up and after the cut.
<1>6. PICK caught : caught = Caught(t, mine)
  OBVIOUS
<1>7. /\ DOMAIN caught = DOMAIN subscribers[t]
      /\ \A k \in DOMAIN subscribers[t] :
           /\ caught[k] \in Subscriber
           /\ caught[k].client = subscribers[t][k].client
           /\ caught[k].last_sent = IF k \in mine THEN len - 1 ELSE subscribers[t][k].last_sent
  <2>1. caught = [k \in DOMAIN subscribers[t] |->
          IF k \in mine THEN [subscribers[t][k] EXCEPT !.last_sent = len - 1]
                        ELSE subscribers[t][k]]
    BY <1>0, <1>6 DEF Caught
  <2>2. len - 1 \in Int
    OBVIOUS
  <2> QED
    BY <1>4, <2>1, <2>2 DEF Subscriber
<1>8. /\ n \in Nat
      /\ \A k \in DOMAIN subscribers[t] : caught[k].last_sent # NoSF => n <= caught[k].last_sent + 1
  <2>1. /\ n \in 0 .. MaxLog
        /\ \A c \in {caught[k].last_sent : k \in DOMAIN caught} \ {NoSF} : n <= c + 1
    BY <1>3, <1>6 DEF Useless
  <2>2. n \in Nat
    BY <2>1, BoundsAssumption
  <2> QED
    BY <1>7, <2>1, <2>2
<1>9. \A k \in DOMAIN subscribers[t] : caught[k].last_sent # NoSF <=> Waits(t, k)
  BY <1>5, <1>7 DEF Returning, Waits, NoSF
<1>10. /\ DOMAIN s.subs = DOMAIN subscribers[t]
       /\ \A k \in DOMAIN subscribers[t] :
            /\ s.subs[k].client = subscribers[t][k].client
            /\ s.subs[k].last_sent =
                 IF Waits(t, k) THEN caught[k].last_sent - n ELSE NoSF
  <2>1. s.subs = [k \in DOMAIN subscribers[t] |-> IF caught[k].last_sent = NoSF
                    THEN caught[k] ELSE [caught[k] EXCEPT !.last_sent = @ - n]]
    BY <1>3, <1>6, <1>7 DEF Shifted
  <2> QED
    BY <1>7, <1>9, <2>1 DEF Subscriber
<1>11. ASSUME NEW k \in DOMAIN subscribers[t] PROVE s.subs[k].last_sent # NoSF <=> Waits(t, k)
  <2>1. Waits(t, k) => caught[k].last_sent - n # NoSF
    <3> SUFFICES ASSUME Waits(t, k) PROVE caught[k].last_sent - n # NoSF
      OBVIOUS
    <3>1. n <= caught[k].last_sent + 1 /\ caught[k].last_sent \in Int
      BY <1>7, <1>8, <1>9 DEF Subscriber
    <3> QED
      BY <1>8, <3>1 DEF NoSF
  <2> QED
    BY <1>10, <2>1
<1>12. ASSUME NEW k \in DOMAIN subscribers[t] \ Returning(i, t), Waits(t, k)
       PROVE  /\ SubSeq(s.log, s.subs[k].last_sent + 2, Len(s.log)) = Pending(t, k)
              /\ s.subs[k].last_sent = subscribers[t][k].last_sent - n
  <2>1. PICK c \in Int : c = subscribers[t][k].last_sent
    BY <1>4 DEF Subscriber
  <2>2. c = caught[k].last_sent /\ s.subs[k].last_sent = c - n
    BY <1>5, <1>7, <1>10, <1>12, <2>1
  <2>3. n <= c + 1 /\ c < len
    <3>1. n <= c + 1
      BY <1>8, <1>9, <1>12, <2>2
    <3>2. c \in NoSF .. len - 1
      BY <1>4, <1>12, <2>1
    <3> QED
      BY <3>1, <3>2 DEF NoSF
  <2>4. messages[t] \in Seq(Msgs)
    BY DEF TypeOK
  <2>5. s.log = SubSeq(messages[t], n + 1, len)
    BY <1>0, <1>3
  <2>6. Len(s.log) = len - n
    <3>1. \A j \in n + 1 .. len : messages[t][j] \in Msgs
      BY <1>0, <1>8, <2>4, ElementOfSeq
    <3>2. n + 1 \in Int /\ len \in Int /\ n <= len
      BY <1>8, <2>3
    <3>3. PICK l : l = Len(s.log)
      OBVIOUS
    <3>4. l = IF n + 1 <= len THEN len - (n + 1) + 1 ELSE 0
      BY <2>5, <3>1, <3>2, <3>3, SubSeqProperties
    <3>5. CASE n + 1 <= len
      BY <1>8, <3>3, <3>4, <3>5
    <3>6. CASE ~(n + 1 <= len)
      <4>1. n = len
        BY <1>8, <3>2, <3>6
      <4>2. l = 0
        BY <3>4, <3>6
      <4> QED
        BY <3>3, <4>1, <4>2
    <3> QED
      BY <3>5, <3>6
  <2>7. SubSeq(SubSeq(messages[t], n + 1, len), c - n + 2, len - n)
          = SubSeq(messages[t], c + 2, len)
    BY <1>0, <1>8, <2>3, <2>4, BehindStays
  <2> QED
    BY <1>0, <2>1, <2>2, <2>5, <2>6, <2>7 DEF Pending
\* The batches.
<1>13. /\ \A k \in mine : \E j \in DOMAIN s.batches : s.batches[j] = Pending(t, k)
       /\ mine = {} => s.batches = << >>
       /\ \A k : mine = {k} => s.batches = <<Pending(t, k)>>
  <2>1. /\ DOMAIN p = 1 .. Cardinality(mine)
        /\ \A j \in DOMAIN p : p[j] \in mine
        /\ \A k \in mine : \E j \in DOMAIN p : p[j] = k
    BY DEF InOrder
  <2>2. s.batches = [j \in DOMAIN p |-> Pending(t, p[j])]
    BY <1>3
  <2>3. ASSUME mine = {} PROVE s.batches = << >>
    <3>1. DOMAIN p = 1 .. 0
      BY <2>1, <2>3, FS_EmptySet
    <3>2. DOMAIN p = {}
      BY <3>1
    <3> QED
      BY <2>2, <3>2
  <2>4. ASSUME NEW k, mine = {k} PROVE s.batches = <<Pending(t, k)>>
    <3>1. DOMAIN p = 1 .. 1
      BY <2>1, <2>4, FS_Singleton
    <3>2. s.batches = [j \in 1 .. 1 |-> Pending(t, k)]
      BY <2>1, <2>2, <2>4, <3>1
    <3>3. PICK b : b = Pending(t, k)
      OBVIOUS
    <3>4. [j \in 1 .. 1 |-> b] = <<b>>
      OBVIOUS
    <3> QED
      BY <3>2, <3>3, <3>4
  <2> QED
    BY <2>1, <2>2, <2>3, <2>4
<1> HIDE DEF IInv, Back
<1>14. ASSUME NEW j \in DOMAIN subscribers[t] \ Returning(i, t),
              NEW k \in DOMAIN subscribers[t] \ Returning(i, t),
              Waits(t, j), Waits(t, k),
              subscribers[t][j].last_sent = subscribers[t][k].last_sent
       PROVE  s.subs[j].last_sent = s.subs[k].last_sent
  BY <1>12, <1>14
<1>15. /\ \A k \in Returning(i, t) : \E j \in DOMAIN s.batches : s.batches[j] = Pending(t, k)
       /\ Returning(i, t) = {} => s.batches = << >>
       /\ \A k : Returning(i, t) = {k} => s.batches = <<Pending(t, k)>>
  BY <1>5, <1>13
<1>16. /\ DOMAIN s.subs = DOMAIN subscribers[t]
       /\ \A k \in DOMAIN subscribers[t] : s.subs[k].client = subscribers[t][k].client
  BY <1>10
<1> QED
  BY <1>11, <1>12, <1>14, <1>15, <1>16 DEF Serves

\* The tables after the return: the client is connected, and every topic has the
\* log and the subscribers of its scan.
Returned(i, fd, scan) ==
  /\ clients' \in Seq(Client) /\ DOMAIN clients' = DOMAIN clients
  /\ Len(clients') = Len(clients)
  /\ \A j \in DOMAIN clients : /\ clients'[j].ID = clients[j].ID
                               /\ clients'[j].fd = IF j = i THEN fd ELSE clients[j].fd
  /\ \A t \in Topics : /\ subscribers'[t] = scan[t].subs /\ messages'[t] = scan[t].log
                       /\ out'[clients[i].ID][t] = scan[t].batches
  /\ \A id \in IDs \ {clients[i].ID}, t \in Topics : out'[id][t] = << >>
  /\ \A t \in Topics \ corrupt' : Serves(i, t, scan[t])

\* A return is a scan of every topic that serves the client.
LEMMA ReconnectServes ==
  ASSUME IInv, NEW i \in DOMAIN clients, NEW fd \in Fds, Reconnect(i, fd)
  PROVE  \E scan : Returned(i, fd, scan)
<1> USE DEF IInv
<1>1. /\ \A t \in Topics \ corrupt' : Stale(t) = {}
      /\ ~Connected(i) /\ Lowest(fd) /\ clients[i].ID \in IDs
  BY Shapes DEF Reconnect
<1>2. /\ clients' \in Seq(Client) /\ DOMAIN clients' = DOMAIN clients
      /\ Len(clients') = Len(clients)
      /\ \A j \in DOMAIN clients : /\ clients'[j].ID = clients[j].ID
                                   /\ clients'[j].fd = IF j = i THEN fd ELSE clients[j].fd
  <2>1. /\ clients \in Seq(Client) /\ i \in 1 .. Len(clients)
        /\ \A j \in DOMAIN clients : clients[j] \in Client
    BY LenProperties, ElementOfSeq DEF TypeOK
  <2>2. [clients[i] EXCEPT !.fd = fd] \in Client
    BY <2>1 DEF Client
  <2> QED
    BY <2>1, <2>2, ExceptSeq, LenProperties, Shapes DEF Reconnect, Client
<1>3. PICK scan \in [Topics -> UNION {Scan(t, clients', fd) : t \in Topics}] :
        /\ \A t \in Topics : scan[t] \in Scan(t, clients', fd)
        /\ subscribers' = [t \in Topics |-> scan[t].subs]
        /\ messages' = [t \in Topics |-> scan[t].log]
        /\ out' = [Nothing EXCEPT ![clients[i].ID] = [t \in Topics |-> scan[t].batches]]
  BY DEF Reconnect
<1>4. /\ \A t \in Topics : /\ subscribers'[t] = scan[t].subs /\ messages'[t] = scan[t].log
                           /\ out'[clients[i].ID][t] = scan[t].batches
      /\ \A id \in IDs \ {clients[i].ID}, t \in Topics : out'[id][t] = << >>
  BY <1>1, <1>3 DEF Nothing
<1>5. \A t \in Topics \ corrupt' : Serves(i, t, scan[t])
  BY <1>1, <1>2, <1>3, ScanServes DEF Back
<1> QED
  BY <1>2, <1>4, <1>5 DEF Returned

\* A client that returns is sent all that waits for it, in one batch unless it
\* has several entries, and what waits for the others stays.
LEMMA ReconnectPromise ==
  ASSUME RInv, NEW i \in DOMAIN clients, NEW fd \in Fds, Reconnect(i, fd)
  PROVE  RInv' /\ Promise!Connect(clients[i].ID)
<1> USE DEF RInv, IInv
<1>0. PICK own \in IDs : own = clients[i].ID
  BY Shapes
<1>1. /\ UNCHANGED <<capacity, topics, wanted, doubled>>
      /\ corrupt \subseteq corrupt'
      /\ \A t \in Topics \ corrupt' : Stale(t) = {}
      /\ ~Connected(i) /\ Lowest(fd)
  BY DEF Reconnect
<1>2. IInv'
  BY ReconnectKeepsIInv
<1>3. PICK scan : Returned(i, fd, scan)
  BY ReconnectServes
<1>4. /\ clients' \in Seq(Client) /\ DOMAIN clients' = DOMAIN clients
      /\ Len(clients') = Len(clients)
      /\ \A j \in DOMAIN clients : /\ clients'[j].ID = clients[j].ID
                                   /\ clients'[j].fd = IF j = i THEN fd ELSE clients[j].fd
  BY <1>3 DEF Returned
<1>5. /\ \A t \in Topics : /\ subscribers'[t] = scan[t].subs /\ messages'[t] = scan[t].log
                           /\ out'[own][t] = scan[t].batches
      /\ \A id \in IDs \ {own}, t \in Topics : out'[id][t] = << >>
  BY <1>0, <1>3 DEF Returned
<1>6. \A t \in Topics \ corrupt' : Serves(i, t, scan[t])
  BY <1>3 DEF Returned
<1>7. own \notin Online /\ Online' = Online \cup {own}
  <2>1. ASSUME NEW id \in IDs PROVE id \in Online' <=> id \in Online \/ id = own
    <3>1. id \in Online <=> \E l \in DOMAIN clients : clients[l].ID = id /\ clients[l].fd # NoFd
      BY OnlineIs DEF Connected
    <3>2. id \in Online' <=> \E l \in DOMAIN clients' : clients'[l].ID = id /\ clients'[l].fd # NoFd
      BY DEF Online, FdsOf
    <3>3. fd # NoFd
      BY FdsAssumption DEF NoFd
    <3> QED
      BY <1>0, <1>4, <3>1, <3>2, <3>3
  <2>2. own \notin Online
    BY <1>0, <1>1, OnlineIs DEF OneConnectionPerID
  <2> QED
    BY <2>1, <2>2 DEF Online
<1>8. \A id \in IDs, t \in Topics \ corrupt' : Of(id, t)' = Of(id, t)
  <2>1. ASSUME NEW id \in IDs, NEW t \in Topics \ corrupt' PROVE Of(id, t)' = Of(id, t)
    <3>1. DOMAIN subscribers'[t] = DOMAIN subscribers[t]
      BY <1>5, <1>6 DEF Serves
    <3>2. ASSUME NEW k \in DOMAIN subscribers[t]
          PROVE  clients'[subscribers'[t][k].client].ID = clients[subscribers[t][k].client].ID
      <4>1. subscribers'[t][k].client = subscribers[t][k].client
        BY <1>5, <1>6 DEF Serves
      <4>2. subscribers[t][k].client \in DOMAIN clients
        BY Shapes
      <4> QED
        BY <1>4, <4>1, <4>2
    <3> QED
      BY <3>1, <3>2 DEF Of
  <2> QED
    BY <2>1
<1>9. \A t \in Topics \ corrupt' : \A k \in DOMAIN subscribers[t] : Waits(t, k)' <=> Waits(t, k)
  BY <1>5, <1>6 DEF Serves, Waits
<1>10. ASSUME NEW t \in Topics
       PROVE  Returning(i, t) = {k \in Of(own, t) : Waits(t, k)}
  BY <1>0, Shapes DEF Returning, Of, OneConnectionPerID
<1>11. ASSUME NEW id \in IDs, NEW t \in Topics \ corrupt' PROVE Matched(id, t)'
  <2>0. Matched(id, t)
    BY <1>1
  <2>1. Once(id, t)'
    BY <1>1, <1>8, <2>0 DEF Matched, Once
  <2>2. Asked(id, t)'
    <3>1. \A k \in Of(id, t) : Waits(t, k)' <=> Waits(t, k)
      BY <1>9 DEF Of
    <3> QED
      BY <1>1, <1>8, <2>0, <3>1 DEF Matched, Asked
  <2>3. Together(id, t)'
    <3>1. CASE id = own
      <4>1. OnlineTogether' /\ id \in Online'
        BY <1>2, <1>7, <3>1, TogetherNext
      <4> QED
        BY <4>1 DEF OnlineTogether
    <3>2. CASE id # own
      <4> SUFFICES ASSUME NEW j \in Of(id, t), NEW k \in Of(id, t), Waits(t, j), Waits(t, k)
                   PROVE  scan[t].subs[j].last_sent = scan[t].subs[k].last_sent
        BY <1>5, <1>8, <1>9 DEF Together, Of
      <4>1. /\ j \in DOMAIN subscribers[t] \ Returning(i, t)
            /\ k \in DOMAIN subscribers[t] \ Returning(i, t)
        BY <1>0, <3>2 DEF Of, Returning
      <4> QED
        BY <1>6, <2>0, <4>1 DEF Matched, Together, Serves
    <3> QED
      BY <3>1, <3>2
  <2> QED
    BY <2>1, <2>2, <2>3 DEF Matched
<1>12. RInv'
  BY <1>2, <1>11
\* The queues: none is left for who returns, those of the others stay.
<1>13. ASSUME NEW id \in IDs, NEW t \in Topics \ corrupt'
       PROVE  Queue(id, t)' = IF id = own THEN << >> ELSE Queue(id, t)
  <2>1. QueuesAre /\ QueuesAre' /\ t \notin corrupt
    BY <1>1, <1>12, QueuesNow, QueuesNext
  <2>2. CASE id = own
    BY <1>7, <2>1, <2>2 DEF QueuesAre
  <2>3. CASE id # own /\ wanted[id][t] # "sf"
    BY <1>1, <2>1, <2>3 DEF QueuesAre
  <2>4. CASE id # own /\ wanted[id][t] = "sf"
    <3>1. PICK k \in Of(id, t) : Waits(t, k)
      BY <2>1, <2>4 DEF Matched, Asked
    <3>2. k \in DOMAIN subscribers[t] \ Returning(i, t)
      BY <1>0, <2>4, <3>1 DEF Of, Returning
    <3>3. Queue(id, t) = Pending(t, k)
      BY <2>1, <2>4, <3>1 DEF QueuesAre
    <3>4. Queue(id, t)' = SubSeq(messages'[t], subscribers'[t][k].last_sent + 2, Len(messages'[t]))
      BY <1>1, <1>8, <1>9, <2>1, <2>4, <3>1, <3>2 DEF QueuesAre, Pending
    <3>5. Serves(i, t, scan[t])
      BY <1>6
    <3>6. SubSeq(scan[t].log, scan[t].subs[k].last_sent + 2, Len(scan[t].log)) = Pending(t, k)
      BY <3>1, <3>2, <3>5 DEF Serves
    <3>7. messages'[t] = scan[t].log /\ subscribers'[t] = scan[t].subs
      BY <1>5
    <3> QED
      BY <2>4, <3>3, <3>4, <3>6, <3>7
  <2> QED
    BY <2>2, <2>3, <2>4
\* What is sent.
<1>14. ASSUME NEW t \in Topics \ corrupt'
       PROVE  Promise!Holds(own, t, IF wanted[own][t] = "sf" THEN <<Queue(own, t)>> ELSE << >>)
  <2>0. Matched(own, t) /\ QueuesAre /\ t \notin corrupt
    BY <1>1, QueuesNow
  <2>1. out'[own][t] = scan[t].batches /\ Serves(i, t, scan[t])
    BY <1>5, <1>6
  <2>2. CASE wanted[own][t] = "sf"
    <3>1. PICK k \in Of(own, t) : Waits(t, k)
      BY <2>0, <2>2 DEF Matched, Asked
    <3>2. k \in Returning(i, t) /\ Queue(own, t) = Pending(t, k)
      BY <1>10, <2>0, <2>2, <3>1 DEF QueuesAre
    <3>3. CASE <<own, t>> \in doubled'
      <4>1. \E j \in DOMAIN out'[own][t] : out'[own][t][j] = Queue(own, t)
        BY <2>1, <3>2 DEF Serves
      <4>2. PICK q : q = Queue(own, t)
        OBVIOUS
      <4>3. \A j \in DOMAIN <<q>> : <<q>>[j] = q
        OBVIOUS
      <4> QED
        BY <2>2, <3>3, <4>1, <4>2, <4>3 DEF Promise!Holds
    <3>4. CASE <<own, t>> \notin doubled'
      <4>1. Returning(i, t) = {k}
        BY <1>1, <1>10, <2>0, <3>1, <3>4 DEF Matched, Once
      <4>2. out'[own][t] = <<Pending(t, k)>>
        BY <2>1, <4>1 DEF Serves
      <4> QED
        BY <2>2, <3>2, <3>4, <4>2 DEF Promise!Holds
    <3> QED
      BY <3>3, <3>4
  <2>3. CASE wanted[own][t] # "sf"
    <3>1. CASE <<own, t>> \in doubled'
      BY <2>3, <3>1 DEF Promise!Holds
    <3>2. CASE <<own, t>> \notin doubled'
      <4>1. Returning(i, t) = {}
        BY <1>1, <1>10, <2>0, <2>3, <3>2 DEF Matched, Asked
      <4> QED
        BY <2>1, <2>3, <3>2, <4>1 DEF Serves, Promise!Holds
    <3> QED
      BY <3>1, <3>2
  <2> QED
    BY <2>2, <2>3
<1> HIDE DEF RInv, IInv
<1>15. PICK batches : batches = [Nothing EXCEPT ![own] = [t \in Topics |->
         IF wanted[own][t] = "sf" THEN <<Queue(own, t)>> ELSE << >>]]
  OBVIOUS
<1>16. PICK left : left = [[id \in IDs |-> [t \in Topics |-> Queue(id, t)]]
                             EXCEPT ![own] = [t \in Topics |-> << >>]]
  OBVIOUS
<1>17. ASSUME NEW id \in IDs, NEW t \in Topics \ corrupt'
       PROVE  Promise!Holds(id, t, batches[id][t]) /\ Queue(id, t)' = left[id][t]
  <2>1. CASE id = own
    BY <1>13, <1>14, <1>15, <1>16, <1>17, <2>1 DEF Nothing
  <2>2. CASE id # own
    <3>1. batches[id][t] = << >> /\ out'[id][t] = << >> /\ left[id][t] = Queue(id, t)
      BY <1>5, <1>15, <1>16, <1>17, <2>2 DEF Nothing
    <3> QED
      BY <1>13, <1>17, <2>2, <3>1 DEF Promise!Holds
  <2> QED
    BY <2>1, <2>2
<1>18. Promise!Delivers(batches, left)
  BY <1>1, <1>17 DEF Promise!Delivers
<1>19. batches = [Nothing EXCEPT ![own] = [t \in Topics |->
         IF wanted[own][t] = "sf"
           THEN <<[id \in IDs |-> [u \in Topics |-> Queue(id, u)]][own][t]>> ELSE << >>]]
  BY <1>15
<1>20. Promise!Connect(own)
  BY <1>1, <1>7, <1>16, <1>18, <1>19
     DEF Promise!Connect, Promise!Nothing, Nothing, Online
<1> QED
  BY <1>0, <1>12, <1>20

-----------------------------------------------------------------------------
(* The theorem *)

\* Empty tables match, and their mapping is the empty promise.
LEMMA InitPromise == Init => RInv /\ Promise!Init
<1> SUFFICES ASSUME Init PROVE RInv /\ Promise!Init
  OBVIOUS
<1>1. IInv
  BY InitIInv
<1>2. DOMAIN clients = {} /\ \A t \in Topics : DOMAIN subscribers[t] = {}
  BY EmptySeq DEF Init
<1>3. \A id \in IDs, t \in Topics : Of(id, t) = {} /\ wanted[id][t] = "none"
  BY <1>2 DEF Init, Of
<1>4. RInv
  BY <1>1, <1>3 DEF RInv, Matched, Once, Asked, Together
<1>5. \A id \in IDs, t \in Topics : Queue(id, t) = << >>
  BY <1>3 DEF Queue
<1>6. Online = {}
  BY <1>2 DEF Online, FdsOf
<1>7. Promise!Init
  BY <1>5, <1>6 DEF Init, Promise!Init, Promise!Nothing, Nothing, Online
<1> QED
  BY <1>4, <1>7

\* Every step of the broker keeps the invariant, and is a step of the promise
\* or no step at all.
LEMMA StepPromise == RInv /\ [Next]_vars => RInv' /\ [Promise!Next]_Promise!vars
<1> SUFFICES ASSUME RInv, [Next]_vars PROVE RInv' /\ [Promise!Next]_Promise!vars
  OBVIOUS
<1>0. \A i \in DOMAIN clients : clients[i].ID \in IDs
  BY Shapes DEF RInv, IInv
<1>1. ASSUME NEW id \in IDs, Refuse(id) PROVE RInv' /\ Promise!Next
  BY <1>1, RefusePromise DEF Promise!Next
<1>2. ASSUME NEW id \in IDs, NEW fd \in Fds, Register(id, fd) PROVE RInv' /\ Promise!Next
  BY <1>2, RegisterPromise DEF Promise!Next
<1>3. ASSUME NEW i \in DOMAIN clients, NEW fd \in Fds, Reconnect(i, fd)
      PROVE  RInv' /\ Promise!Next
  BY <1>0, <1>3, ReconnectPromise DEF Promise!Next
<1>4. ASSUME NEW i \in DOMAIN clients, Disconnect(i) PROVE RInv' /\ Promise!Next
  BY <1>0, <1>4, DisconnectPromise DEF Promise!Next
<1>5. ASSUME NEW i \in DOMAIN clients, NEW t \in Topics, Subscribe(i, t)
      PROVE  RInv' /\ Promise!Next
  <2>1. RInv' /\ Promise!Ask(clients[i].ID, t, "live")
    BY <1>5, SubscribePromise DEF Subscribe
  <2> QED
    BY <1>0, <2>1 DEF Promise!Next
<1>6. ASSUME NEW i \in DOMAIN clients, NEW t \in Topics, SubscribeSF(i, t)
      PROVE  RInv' /\ Promise!Next
  <2>1. RInv' /\ Promise!Ask(clients[i].ID, t, "sf")
    BY <1>6, SubscribePromise DEF SubscribeSF
  <2> QED
    BY <1>0, <2>1 DEF Promise!Next
<1>7. ASSUME NEW i \in DOMAIN clients, NEW t \in Topics, Unsubscribe(i, t)
      PROVE  RInv' /\ Promise!Next
  <2>1. RInv' /\ Promise!Ask(clients[i].ID, t, "none")
    BY <1>7, UnsubscribePromise
  <2> QED
    BY <1>0, <2>1 DEF Promise!Next
<1>8. ASSUME NEW t \in Topics, Create(t) PROVE RInv' /\ Promise!Next
  BY <1>8, CreatePromise DEF Promise!Next
<1>9. ASSUME NEW t \in Topics, NEW m \in Msgs, Publish(t, m) PROVE RInv' /\ Promise!Next
  BY <1>9, PublishPromise DEF Promise!Next
<1>10. CASE UNCHANGED vars
  <2>1. IInv'
    BY <1>10, StutterKeepsIInv DEF RInv
  <2>2. UNCHANGED <<clients, messages, subscribers, wanted, out, doubled, corrupt>>
    BY <1>10 DEF vars, state, history
  <2>3. IDsStay /\ \A t \in Topics : EntriesStay(t)
    BY <2>2 DEF IDsStay, EntriesStay
  <2>4. RInv' /\ \A id \in IDs, t \in Topics : Queue(id, t)' = Queue(id, t)
    BY <2>1, <2>2, <2>3, AllKept
  <2>5. UNCHANGED Promise!vars
    BY <2>2, <2>4 DEF Promise!vars, FdsOf
  <2> QED
    BY <2>4, <2>5
<1> QED
  BY <1>1, <1>2, <1>3, <1>4, <1>5, <1>6, <1>7, <1>8, <1>9, <1>10 DEF Next

(***************************************************************************)
(* The tables, logs, cursors and pointers of server.c keep the promise of  *)
(* StoreForward: every handler is one step of it.  A subscriber gets every *)
(* message of its topics at once or, with store-and-forward, when it       *)
(* returns, in order and exactly once, in the grades StoreForward states.  *)
(***************************************************************************)
THEOREM PromiseKept == Spec => Refinement
<1>1. Init => RInv /\ Promise!Init
  BY InitPromise
<1>2. RInv /\ [Next]_vars => RInv' /\ [Promise!Next]_Promise!vars
  BY StepPromise
<1> QED
  BY <1>1, <1>2, PTL DEF Spec, Refinement, Promise!Spec

-----------------------------------------------------------------------------
(* Only what was asked for *)

\* The ID asked for the messages of the topic, and has not taken it back; or it
\* had two entries once, of which unsubscribe may have left one.
Due(id, t) == wanted[id][t] # "none" \/ <<id, t>> \in doubled

\* Nothing else is in what the last handler sent.
SentIsDue == \A id \in IDs, t \in Topics \ corrupt : out[id][t] # << >> => Due(id, t)

\* Who has an entry asked for it.
LEMMA EntryIsDue ==
  ASSUME RInv, NEW id \in IDs, NEW t \in Topics \ corrupt, Of(id, t) # {}
  PROVE  Due(id, t)
BY DEF RInv, Matched, Asked, Due

\* A datagram is sent to entries only.
LEMMA PublishIsDue ==
  ASSUME RInv, NEW u \in Topics, NEW m \in Msgs, Publish(u, m),
         NEW id \in IDs, NEW t \in Topics \ corrupt', out'[id][t] # << >>
  PROVE  Due(id, t) /\ UNCHANGED <<wanted, doubled>>
<1> USE DEF RInv, IInv
<1>1. /\ UNCHANGED <<wanted, doubled>> /\ corrupt \subseteq corrupt'
      /\ u \notin corrupt' => Stale(u) = {}
  BY DEF Publish, Followed, Stale
<1>2. t = u
  BY PublishSpreads
<1>3. out'[id][t] = [j \in 1 .. Cardinality(Of(id, t) \cap Here(t)) |-> <<m>>]
  BY <1>1, <1>2, PublishSpreads DEF Spreads
<1>4. Of(id, t) # {}
  <2> SUFFICES ASSUME Of(id, t) = {} PROVE out'[id][t] = << >>
    OBVIOUS
  <2>1. Cardinality(Of(id, t) \cap Here(t)) = 0
    BY FS_EmptySet
  <2>2. out'[id][t] = [j \in 1 .. 0 |-> <<m>>]
    BY <1>3, <2>1
  <2>3. out'[id][t] \in [1 .. 0 -> {<<m>>}]
    BY <2>2
  <2>4. out'[id][t] \in Seq({<<m>>}) /\ Len(out'[id][t]) = 0
    BY <2>3, FunctionIsSeq
  <2> QED
    BY <2>4, EmptySeq
<1> QED
  BY <1>1, <1>4, EntryIsDue

\* Who returns is sent batches for its entries only.
LEMMA ReturnIsDue ==
  ASSUME RInv, NEW i \in DOMAIN clients, NEW fd \in Fds, Reconnect(i, fd),
         NEW id \in IDs, NEW t \in Topics \ corrupt', out'[id][t] # << >>
  PROVE  Due(id, t) /\ UNCHANGED <<wanted, doubled>>
<1> USE DEF RInv, IInv
<1>1. UNCHANGED <<wanted, doubled>> /\ corrupt \subseteq corrupt'
  BY DEF Reconnect
<1>2. PICK scan : Returned(i, fd, scan)
  BY ReconnectServes
<1>3. id = clients[i].ID
  BY <1>2 DEF Returned
<1>4. scan[t].batches # << >> /\ Serves(i, t, scan[t])
  BY <1>2, <1>3 DEF Returned
<1>5. Returning(i, t) # {}
  BY <1>4 DEF Serves
<1>6. Of(id, t) # {}
  BY <1>3, <1>5 DEF Returning, Of
<1> QED
  BY <1>1, <1>6, EntryIsDue

\* Nobody is sent anything in the course of the other steps.
LEMMA SendersSend ==
  ASSUME [Next]_vars
  PROVE  \/ UNCHANGED vars
         \/ out' = Nothing
         \/ \E i \in DOMAIN clients, fd \in Fds : Reconnect(i, fd)
         \/ \E t \in Topics, m \in Msgs : Publish(t, m)
BY DEF Next, Refuse, Register, Disconnect, Subscribe, SubscribeSF, SubscribeAs, Unsubscribe, Create

\* So what a step sends was asked for before it and still is.
LEMMA StepIsDue ==
  ASSUME RInv, SentIsDue, [Next]_vars,
         NEW id \in IDs, NEW t \in Topics \ corrupt', out'[id][t] # << >>
  PROVE  Due(id, t) /\ UNCHANGED <<wanted, doubled>>
<1>1. CASE UNCHANGED vars
  BY <1>1 DEF SentIsDue, vars, history
<1>2. CASE out' = Nothing
  BY <1>2 DEF Nothing
<1>3. ASSUME NEW i \in DOMAIN clients, NEW fd \in Fds, Reconnect(i, fd)
      PROVE  Due(id, t) /\ UNCHANGED <<wanted, doubled>>
  BY <1>3, ReturnIsDue
<1>4. ASSUME NEW u \in Topics, NEW m \in Msgs, Publish(u, m)
      PROVE  Due(id, t) /\ UNCHANGED <<wanted, doubled>>
  BY <1>4, PublishIsDue
<1> QED
  BY <1>1, <1>2, <1>3, <1>4, SendersSend

\* Forever.
LEMMA AlwaysDue == Spec => [](RInv /\ SentIsDue)
<1>1. Init => RInv /\ SentIsDue
  BY InitPromise DEF Init, Nothing, SentIsDue
<1>2. RInv /\ SentIsDue /\ [Next]_vars => RInv' /\ SentIsDue'
  <2> SUFFICES ASSUME RInv, SentIsDue, [Next]_vars PROVE RInv' /\ SentIsDue'
    OBVIOUS
  <2>1. RInv'
    BY StepPromise
  <2>2. ASSUME NEW id \in IDs, NEW t \in Topics \ corrupt', out'[id][t] # << >>
        PROVE  wanted'[id][t] # "none" \/ <<id, t>> \in doubled'
    BY <2>2, StepIsDue DEF Due
  <2>3. SentIsDue'
    BY <2>2 DEF SentIsDue, Due
  <2> QED
    BY <2>1, <2>3
<1> QED
  BY <1>1, <1>2, PTL DEF Spec
=============================================================================
