---------------------------- MODULE BrokerProofs ----------------------------
(***************************************************************************)
(* Proofs about Broker, for any IDs, topics, messages, descriptors and     *)
(* bounds.  The invariants of Broker hold each other up, so one induction  *)
(* proves them all: IInv is their conjunction.                             *)
(***************************************************************************)
EXTENDS Broker, SequenceTheorems, FiniteSetTheorems, TLAPS

\* The inductive invariant: all that is claimed of the tables at once.
IInv ==
  /\ TypeOK
  /\ OneConnectionPerID
  /\ CursorsInLog
  /\ CaughtUp
  /\ NoUselessMessages

-----------------------------------------------------------------------------
(* The operators Broker is built from *)

\* A function on 1..n is a sequence of length n.
LEMMA FunctionIsSeq ==
  ASSUME NEW S, NEW n \in Nat, NEW f \in [1 .. n -> S]
  PROVE  f \in Seq(S) /\ Len(f) = n /\ DOMAIN f = 1 .. n
<1>1. f \in Seq(S)
  BY SeqDef
<1>2. DOMAIN f = 1 .. n /\ DOMAIN f = 1 .. Len(f) /\ Len(f) \in Nat
  BY <1>1, LenProperties
<1> QED
  BY <1>1, <1>2

\* InOrder lists exactly the positions of a set of positions.
LEMMA InOrderLists ==
  ASSUME NEW n \in Nat, NEW S \in SUBSET (1 .. n), NEW p \in InOrder(S)
  PROVE  /\ p \in Seq(S)
         /\ DOMAIN p = 1 .. Len(p)
         /\ \A k \in S : \E j \in DOMAIN p : p[j] = k
<1>1. IsFiniteSet(S)
  <2>1. IsFiniteSet(1 .. n)
    BY FS_Interval
  <2> QED
    BY <2>1, FS_Subset
<1>2. Cardinality(S) \in Nat
  BY <1>1, FS_CardinalityType
<1>3. p \in [1 .. Cardinality(S) -> S] /\ \A k \in S : \E j \in DOMAIN p : p[j] = k
  BY DEF InOrder
<1> QED
  BY <1>2, <1>3, FunctionIsSeq

\* A read through a fresh pointer is the fd in the table; any read is an fd.
LEMMA ReadsAreFds ==
  ASSUME TypeOK, NEW t \in Topics, NEW table \in Seq(Client),
         Len(table) = Len(clients), NEW r \in Reads(t, table)
  PROVE  /\ r \in [DOMAIN subscribers[t] -> Fds \cup {NoFd}]
         /\ \A k \in DOMAIN subscribers[t] \ Stale(t) :
              r[k] = table[subscribers[t][k].client].fd
<1>1. PICK any \in [Stale(t) -> Fds \cup {NoFd}] :
        r = [k \in DOMAIN subscribers[t] |->
               IF k \in Stale(t) THEN any[k] ELSE table[subscribers[t][k].client].fd]
  BY DEF Reads
<1>2. \A k \in DOMAIN subscribers[t] : table[subscribers[t][k].client].fd \in Fds \cup {NoFd}
  <2> SUFFICES ASSUME NEW k \in DOMAIN subscribers[t]
               PROVE  table[subscribers[t][k].client].fd \in Fds \cup {NoFd}
    OBVIOUS
  <2>1. subscribers[t][k].client \in 1 .. Len(table)
    BY LenProperties DEF TypeOK
  <2>2. table[subscribers[t][k].client] \in Client
    BY <2>1, ElementOfSeq
  <2> QED
    BY <2>2 DEF Client
<1> QED
  BY <1>1, <1>2

\* The types of the tables, element by element.
LEMMA Shapes ==
  ASSUME TypeOK
  PROVE  /\ Len(clients) \in Nat /\ DOMAIN clients = 1 .. Len(clients)
         /\ \A i \in DOMAIN clients : clients[i].ID \in IDs /\ clients[i].fd \in Fds \cup {NoFd}
         /\ \A t \in Topics :
              /\ Len(messages[t]) \in Nat /\ DOMAIN messages[t] = 1 .. Len(messages[t])
              /\ messages[t] = << >> <=> Len(messages[t]) = 0
              /\ Len(subscribers[t]) \in Nat /\ DOMAIN subscribers[t] = 1 .. Len(subscribers[t])
              /\ \A k \in DOMAIN subscribers[t] :
                   /\ subscribers[t][k] \in Subscriber
                   /\ subscribers[t][k].client \in DOMAIN clients
<1>1. Len(clients) \in Nat /\ DOMAIN clients = 1 .. Len(clients)
  BY LenProperties DEF TypeOK
<1>2. \A i \in DOMAIN clients : clients[i] \in Client
  BY <1>1, ElementOfSeq DEF TypeOK
<1>3. ASSUME NEW t \in Topics
      PROVE  /\ Len(messages[t]) \in Nat /\ DOMAIN messages[t] = 1 .. Len(messages[t])
             /\ messages[t] = << >> <=> Len(messages[t]) = 0
  <2>1. messages[t] \in Seq(Msgs)
    BY DEF TypeOK
  <2> QED
    BY <2>1, LenProperties, EmptySeq
<1>4. ASSUME NEW t \in Topics
      PROVE  /\ Len(subscribers[t]) \in Nat
             /\ DOMAIN subscribers[t] = 1 .. Len(subscribers[t])
             /\ \A k \in DOMAIN subscribers[t] : subscribers[t][k] \in Subscriber
  <2>1. subscribers[t] \in Seq(Subscriber)
    BY DEF TypeOK
  <2> QED
    BY <2>1, LenProperties, ElementOfSeq
<1> QED
  BY <1>1, <1>2, <1>3, <1>4 DEF TypeOK, Client

-----------------------------------------------------------------------------
(* The initial states, and the handlers that leave logs and entries alone *)

\* Empty tables satisfy everything.
LEMMA InitIInv == Init => IInv
<1> SUFFICES ASSUME Init PROVE IInv
  OBVIOUS
<1> USE DEF Init, Nothing
<1>1. clients \in Seq(Client) /\ DOMAIN clients = {}
  BY EmptySeq
<1>2. messages \in [Topics -> Seq(Msgs)]
  BY EmptySeq
<1>3. subscribers \in [Topics -> Seq(Subscriber)]
  BY EmptySeq
<1>4. \A t \in Topics : DOMAIN subscribers[t] = {} /\ messages[t] = << >>
  OBVIOUS
<1>5. out \in [IDs -> [Topics -> Seq(Seq(Msgs))]]
  BY EmptySeq
<1>6. TypeOK
  BY <1>1, <1>2, <1>3, <1>4, <1>5 DEF TypeOK
<1> QED
  BY <1>1, <1>4, <1>6 DEF IInv, OneConnectionPerID, CursorsInLog, CaughtUp, NoUselessMessages

\* Nothing is a value of out.
LEMMA NothingIsOut == Nothing \in [IDs -> [Topics -> Seq(Seq(Msgs))]]
  BY EmptySeq DEF Nothing

\* The invariant speaks of the variables of Broker only.
LEMMA StutterKeepsIInv == IInv /\ UNCHANGED vars => IInv'
  BY DEF vars, state, history, IInv, TypeOK, OneConnectionPerID, CursorsInLog, CaughtUp,
         NoUselessMessages, Connected

\* A refused connection changes nothing but what was sent last.
LEMMA RefuseKeepsIInv ==
  ASSUME IInv, NEW id \in IDs, Refuse(id)
  PROVE  IInv'
<1>1. TypeOK'
  BY NothingIsOut DEF Refuse, state, IInv, TypeOK
<1> QED
  BY <1>1 DEF Refuse, state, IInv, OneConnectionPerID, CursorsInLog, CaughtUp,
              NoUselessMessages, Connected

\* A new topic has neither log nor entries.
LEMMA CreateKeepsIInv ==
  ASSUME IInv, NEW t \in Topics, Create(t)
  PROVE  IInv'
<1>1. TypeOK'
  BY NothingIsOut DEF Create, IInv, TypeOK
<1> QED
  BY <1>1 DEF Create, IInv, OneConnectionPerID, CursorsInLog, CaughtUp,
              NoUselessMessages, Connected

\* A disconnection takes a client out of CaughtUp; nobody new is to catch up.
LEMMA DisconnectKeepsIInv ==
  ASSUME IInv, NEW i \in DOMAIN clients, Disconnect(i)
  PROVE  IInv'
<1>1. clients \in Seq(Client) /\ i \in 1 .. Len(clients)
  BY LenProperties DEF IInv, TypeOK
<1>2. [clients[i] EXCEPT !.fd = NoFd] \in Client
  <2>1. clients[i] \in Client
    BY <1>1, ElementOfSeq
  <2> QED
    BY <2>1 DEF Client
<1>3. /\ clients' \in Seq(Client) /\ DOMAIN clients' = DOMAIN clients
      /\ \A j \in DOMAIN clients : /\ clients'[j].ID = clients[j].ID
                                   /\ clients'[j].fd = IF j = i THEN NoFd ELSE clients[j].fd
  BY <1>1, <1>2, ExceptSeq, LenProperties, Shapes DEF Disconnect, IInv, Client
<1>4. TypeOK'
  BY <1>3, NothingIsOut DEF Disconnect, IInv, TypeOK
<1>5. OneConnectionPerID'
  BY <1>3 DEF IInv, OneConnectionPerID, Connected
<1>6. CursorsInLog'
  BY DEF Disconnect, IInv, CursorsInLog
<1>7. CaughtUp' /\ NoUselessMessages'
  BY <1>3, Shapes DEF Disconnect, IInv, CaughtUp, NoUselessMessages, Connected
<1> QED
  BY <1>4, <1>5, <1>6, <1>7 DEF IInv

-----------------------------------------------------------------------------
(* A new ID *)

\* Reallocation only ever marks pointers stale; indices, cursors and logs stay.
LEMMA RegisterKeepsIInv ==
  ASSUME IInv, NEW id \in IDs, NEW fd \in Fds, Register(id, fd)
  PROVE  IInv'
<1> USE DEF IInv
<1>1. clients \in Seq(Client) /\ [ID |-> id, fd |-> fd] \in Client
  BY DEF TypeOK, Client
<1>2. /\ clients' \in Seq(Client)
      /\ DOMAIN clients' = 1 .. Len(clients) + 1
      /\ DOMAIN clients = 1 .. Len(clients) /\ Len(clients) \in Nat
      /\ \A j \in DOMAIN clients : clients'[j] = clients[j]
      /\ clients'[Len(clients) + 1] = [ID |-> id, fd |-> fd]
  BY <1>1, LenProperties DEF Register
<1>3. subscribers' = subscribers \/ subscribers' = AllStale
  BY DEF Register
<1>4. ASSUME NEW t \in Topics
      PROVE  /\ subscribers'[t] \in Seq(Subscriber)
             /\ DOMAIN subscribers'[t] = DOMAIN subscribers[t]
             /\ \A k \in DOMAIN subscribers[t] :
                  /\ subscribers'[t][k].client = subscribers[t][k].client
                  /\ subscribers'[t][k].last_sent = subscribers[t][k].last_sent
  <2>1. CASE subscribers' = subscribers
    BY <2>1 DEF TypeOK
  <2>2. CASE subscribers' = AllStale
    <3>1. subscribers'[t] \in [1 .. Len(subscribers[t]) -> Subscriber]
      <4>1. subscribers'[t] = [k \in DOMAIN subscribers[t] |->
                                 [subscribers[t][k] EXCEPT !.fresh = FALSE]]
        BY <2>2 DEF AllStale
      <4>2. /\ DOMAIN subscribers[t] = 1 .. Len(subscribers[t])
            /\ \A k \in DOMAIN subscribers[t] : subscribers[t][k] \in Subscriber
        BY Shapes
      <4>3. \A s \in Subscriber : [s EXCEPT !.fresh = FALSE] \in Subscriber
        BY DEF Subscriber
      <4> QED
        BY ONLY <4>1, <4>2, <4>3
    <3>2. subscribers'[t] \in Seq(Subscriber)
      BY <3>1, FunctionIsSeq, Shapes
    <3> QED
      BY <2>2, <3>2, Shapes DEF AllStale, Subscriber
  <2> QED
    BY <1>3, <2>1, <2>2
<1>5. subscribers' \in [Topics -> Seq(Subscriber)]
  BY <1>3, <1>4 DEF AllStale, TypeOK
<1>6. TypeOK'
  <2>1. capacity' \in Nat \ {0}
    BY DEF Register, TypeOK
  <2>2. \A t \in Topics : \A k \in DOMAIN subscribers'[t] :
          subscribers'[t][k].client \in DOMAIN clients'
    BY <1>2, <1>4, Shapes
  <2> QED
    BY <1>2, <1>5, <2>1, <2>2, NothingIsOut DEF Register, TypeOK
<1>7. OneConnectionPerID'
  BY <1>2 DEF Register, Known, Lowest, OpenFds, OneConnectionPerID, Connected
<1>8. CursorsInLog'
  BY <1>4 DEF Register, CursorsInLog
<1>9. ASSUME NEW t \in Topics, NEW k \in DOMAIN subscribers[t]
      PROVE  clients'[subscribers'[t][k].client] = clients[subscribers[t][k].client]
  BY <1>2, <1>4, Shapes
<1>10. CaughtUp'
  <2> SUFFICES ASSUME NEW t \in Topics \ corrupt, NEW k \in DOMAIN subscribers'[t],
                      clients'[subscribers'[t][k].client].fd # NoFd
               PROVE  subscribers'[t][k].last_sent \in {NoSF, Len(messages[t]) - 1}
    BY DEF Register, CaughtUp, Connected
  <2>1. k \in DOMAIN subscribers[t] /\ Connected(subscribers[t][k].client)
    BY <1>4, <1>9 DEF Connected
  <2> QED
    BY <1>4, <2>1 DEF CaughtUp
<1>11. NoUselessMessages'
  <2> SUFFICES ASSUME NEW t \in Topics \ corrupt, messages[t] # << >>
               PROVE  \E k \in DOMAIN subscribers'[t] :
                        /\ subscribers'[t][k].last_sent = -1
                        /\ clients'[subscribers'[t][k].client].fd = NoFd
    BY DEF Register, NoUselessMessages, Connected
  <2>1. PICK k \in DOMAIN subscribers[t] : /\ subscribers[t][k].last_sent = -1
                                           /\ clients[subscribers[t][k].client].fd = NoFd
    BY DEF NoUselessMessages, Connected
  <2> QED
    BY <1>4, <1>9, <2>1
<1> QED
  BY <1>6, <1>7, <1>8, <1>10, <1>11

-----------------------------------------------------------------------------
(* Requests *)

\* subscribe, in both modes: the new or updated cursor is at the end of the log
\* or there is none.  In a sound topic the updated entry belongs to a connected
\* client, so it is not the one the oldest message waits for.
LEMMA SubscribeKeepsIInv ==
  ASSUME IInv, NEW i \in DOMAIN clients, NEW t \in Topics, NEW mode \in {"live", "sf"},
         NEW cursor \in {NoSF, Len(messages[t]) - 1}, SubscribeAs(i, t, mode, cursor)
  PROVE  IInv'
<1> USE DEF IInv
<1>1. /\ UNCHANGED <<clients, capacity, messages>>
      /\ topics' = topics \cup {t}
      /\ wanted' = [wanted EXCEPT ![clients[i].ID][t] = mode]
      /\ out' = Nothing
      /\ Connected(i)
      /\ corrupt' = IF {1} \cap Stale(t) # {} THEN corrupt \cup {t} ELSE corrupt
  BY DEF SubscribeAs, Followed
<1>2. cursor \in Int /\ cursor \in NoSF .. Len(messages[t]) - 1
  BY Shapes DEF NoSF
<1>3. CASE \E r \in Reads(t, clients) : r # << >> /\ r[1] = clients[i].fd /\ Update(t, cursor)
  <2>1. PICK r \in Reads(t, clients) : r # << >> /\ r[1] = clients[i].fd /\ Update(t, cursor)
    BY <1>3
  <2>2. r \in [DOMAIN subscribers[t] -> Fds \cup {NoFd}]
    BY ReadsAreFds DEF TypeOK
  <2>3. 1 \in DOMAIN subscribers[t]
    <3>1. Len(subscribers[t]) # 0
      <4> SUFFICES ASSUME Len(subscribers[t]) = 0 PROVE r = << >>
        BY <2>1
      <4>1. r \in [1 .. 0 -> Fds \cup {NoFd}]
        BY <2>2, Shapes
      <4>2. r \in Seq(Fds \cup {NoFd}) /\ Len(r) = 0
        BY <4>1, FunctionIsSeq
      <4> QED
        BY <4>2, EmptySeq
    <3> QED
      BY <3>1, Shapes
  <2>4. subscribers[t][1] \in Subscriber
    BY <2>3, Shapes
  <2>5. /\ DOMAIN subscribers'[t] = DOMAIN subscribers[t]
        /\ subscribers'[t] \in Seq(Subscriber)
        /\ subscribers'[t][1].client = subscribers[t][1].client
        /\ subscribers'[t][1].last_sent = cursor
        /\ \A k \in DOMAIN subscribers[t] \ {1} : subscribers'[t][k] = subscribers[t][k]
        /\ \A u \in Topics \ {t} : subscribers'[u] = subscribers[u]
        /\ DOMAIN subscribers' = Topics
        /\ doubled' = doubled
    <3>1. subscribers[t] \in Seq(Subscriber) /\ subscribers \in [Topics -> Seq(Subscriber)]
      BY DEF TypeOK
    <3>2. [subscribers[t][1] EXCEPT !.last_sent = cursor] \in Subscriber
      BY <2>4, <1>2 DEF Subscriber
    <3>3. subscribers'[t] = [subscribers[t] EXCEPT ![1] = [subscribers[t][1] EXCEPT !.last_sent = cursor]]
      BY <2>1, <3>1 DEF Update
    <3>4. subscribers'[t] \in Seq(Subscriber)
      BY <2>3, <3>1, <3>2, <3>3, ExceptSeq, Shapes
    <3> QED
      BY <2>1, <2>3, <2>4, <3>1, <3>3, <3>4 DEF Update, Subscriber
  <2>6. TypeOK'
    <3>1. subscribers' \in [Topics -> Seq(Subscriber)]
      BY <2>1, <2>5 DEF Update, TypeOK
    <3>2. \A u \in Topics : \A k \in DOMAIN subscribers'[u] : subscribers'[u][k].client \in DOMAIN clients'
      BY <1>1, <2>5, Shapes
    <3>3. wanted' \in [IDs -> [Topics -> {"none", "live", "sf"}]]
      BY <1>1, Shapes DEF TypeOK
    <3>4. corrupt' \subseteq Topics
      BY <1>1 DEF TypeOK
    <3> QED
      BY <1>1, <2>5, <3>1, <3>2, <3>3, <3>4, NothingIsOut DEF TypeOK
  <2>7. CursorsInLog'
    BY <1>1, <1>2, <2>5 DEF CursorsInLog
  \* The entry updated belongs to the client that asked, so nobody absent lost a cursor.
  <2>8. t \notin corrupt' => subscribers[t][1].client = i
    <3> SUFFICES ASSUME t \notin corrupt' PROVE subscribers[t][1].client = i
      OBVIOUS
    <3>1. 1 \notin Stale(t)
      BY <1>1
    <3>2. clients[subscribers[t][1].client].fd = r[1]
      <4>1. clients \in Seq(Client)
        BY DEF TypeOK
      <4> QED
        BY <2>3, <3>1, <4>1, ReadsAreFds
    <3> QED
      BY <1>1, <2>1, <2>3, <3>2, Shapes DEF OneConnectionPerID, Connected
  <2>9. CaughtUp'
    BY <1>1, <2>5, <2>8 DEF CaughtUp, Connected
  <2>10. NoUselessMessages'
    <3> SUFFICES ASSUME NEW u \in Topics \ corrupt', messages'[u] # << >>
                 PROVE  \E k \in DOMAIN subscribers'[u] :
                          /\ subscribers'[u][k].last_sent = -1
                          /\ clients'[subscribers'[u][k].client].fd = NoFd
      BY DEF NoUselessMessages, Connected
    <3>1. PICK k \in DOMAIN subscribers[u] : /\ subscribers[u][k].last_sent = -1
                                             /\ ~Connected(subscribers[u][k].client)
      BY <1>1 DEF NoUselessMessages
    <3>2. u = t => k # 1
      BY <1>1, <2>8, <3>1
    <3>3. k \in DOMAIN subscribers'[u] /\ subscribers'[u][k] = subscribers[u][k]
      BY <2>5, <3>2
    <3> QED
      BY <1>1, <3>1, <3>3 DEF Connected
  <2> QED
    BY <1>1, <2>6, <2>7, <2>9, <2>10 DEF OneConnectionPerID, Connected
<1>4. CASE Add(i, t, cursor)
  <2>0. ASSUME NEW u \in Topics
        PROVE  /\ Len(subscribers[u]) \in Nat /\ DOMAIN subscribers[u] = 1 .. Len(subscribers[u])
               /\ \A k \in DOMAIN subscribers[u] : subscribers[u][k].client \in DOMAIN clients
    BY Shapes
  <2>1. [client |-> i, fresh |-> TRUE, last_sent |-> cursor] \in Subscriber
    BY <1>2, Shapes DEF Subscriber
  <2>2. /\ subscribers'[t] \in Seq(Subscriber)
        /\ DOMAIN subscribers'[t] = 1 .. Len(subscribers[t]) + 1
        /\ subscribers'[t][Len(subscribers[t]) + 1] =
             [client |-> i, fresh |-> TRUE, last_sent |-> cursor]
        /\ \A k \in DOMAIN subscribers[t] : subscribers'[t][k] = subscribers[t][k]
        /\ \A u \in Topics \ {t} : subscribers'[u] = subscribers[u]
        /\ DOMAIN subscribers' = Topics
    <3>1. subscribers[t] \in Seq(Subscriber) /\ subscribers \in [Topics -> Seq(Subscriber)]
      BY DEF TypeOK
    <3>2. subscribers'[t] = Append(subscribers[t], [client |-> i, fresh |-> TRUE, last_sent |-> cursor])
      BY <1>4, <3>1 DEF Add
    <3>3. subscribers'[t] \in Seq(Subscriber) /\ Len(subscribers'[t]) = Len(subscribers[t]) + 1
      BY <2>1, <3>1, <3>2
    <3>4. DOMAIN subscribers'[t] = 1 .. Len(subscribers[t]) + 1
      BY <3>3, LenProperties
    <3> QED
      BY <1>4, <2>1, <3>1, <3>2, <3>3, <3>4, Shapes DEF Add
  <2>3. TypeOK'
    <3>1. subscribers' \in [Topics -> Seq(Subscriber)]
      BY <1>4, <2>2 DEF Add, TypeOK
    <3>2. ASSUME NEW u \in Topics, NEW k \in DOMAIN subscribers'[u]
          PROVE  subscribers'[u][k].client \in DOMAIN clients'
      BY <1>1, <2>0, <2>2
    <3>3. wanted' \in [IDs -> [Topics -> {"none", "live", "sf"}]]
      BY <1>1, Shapes DEF TypeOK
    <3>4. corrupt' \subseteq Topics /\ doubled' \subseteq IDs \X Topics
      BY <1>1, <1>4, Shapes DEF Add, TypeOK
    <3> QED
      BY <1>1, <3>1, <3>2, <3>3, <3>4, NothingIsOut DEF TypeOK
  <2>4. ASSUME NEW u \in Topics, NEW k \in DOMAIN subscribers'[u]
        PROVE  \/ k \in DOMAIN subscribers[u] /\ subscribers'[u][k] = subscribers[u][k]
               \/ u = t /\ subscribers'[u][k] = [client |-> i, fresh |-> TRUE, last_sent |-> cursor]
    BY <2>0, <2>2
  <2>5. ASSUME NEW u \in Topics, NEW k \in DOMAIN subscribers[u]
        PROVE  k \in DOMAIN subscribers'[u] /\ subscribers'[u][k] = subscribers[u][k]
    BY <2>0, <2>2
  <2>6. CursorsInLog'
    <3> SUFFICES ASSUME NEW u \in Topics, NEW k \in DOMAIN subscribers'[u]
                 PROVE  subscribers'[u][k].last_sent \in NoSF .. Len(messages[u]) - 1
      BY <1>1 DEF CursorsInLog
    <3> QED
      BY <1>2, <2>4 DEF CursorsInLog
  <2>7. CaughtUp'
    <3> SUFFICES ASSUME NEW u \in Topics \ corrupt', NEW k \in DOMAIN subscribers'[u],
                        clients'[subscribers'[u][k].client].fd # NoFd
                 PROVE  subscribers'[u][k].last_sent \in {NoSF, Len(messages[u]) - 1}
      BY <1>1 DEF CaughtUp, Connected
    <3> QED
      BY <1>1, <2>4 DEF CaughtUp, Connected
  <2>8. NoUselessMessages'
    <3> SUFFICES ASSUME NEW u \in Topics \ corrupt', messages[u] # << >>
                 PROVE  \E k \in DOMAIN subscribers'[u] :
                          /\ subscribers'[u][k].last_sent = -1
                          /\ clients'[subscribers'[u][k].client].fd = NoFd
      BY <1>1 DEF NoUselessMessages, Connected
    <3>1. PICK k \in DOMAIN subscribers[u] : /\ subscribers[u][k].last_sent = -1
                                             /\ clients[subscribers[u][k].client].fd = NoFd
      BY <1>1 DEF NoUselessMessages, Connected
    <3> QED
      BY <1>1, <2>5, <3>1
  <2> QED
    BY <1>1, <2>3, <2>6, <2>7, <2>8 DEF OneConnectionPerID, Connected
<1> QED
  BY <1>3, <1>4 DEF SubscribeAs

\* Entries are only taken out, and in a sound topic only entries of the client
\* that asks: the absent subscriber who waits for the oldest message stays.
LEMMA UnsubscribeKeepsIInv ==
  ASSUME IInv, NEW i \in DOMAIN clients, NEW t \in Topics, Unsubscribe(i, t)
  PROVE  IInv'
<1> USE DEF IInv
<1>1. /\ UNCHANGED <<clients, capacity, topics, messages, doubled>>
      /\ wanted' = [wanted EXCEPT ![clients[i].ID][t] = "none"]
      /\ out' = Nothing
      /\ Connected(i)
      /\ corrupt' = IF DOMAIN subscribers[t] \cap Stale(t) # {} THEN corrupt \cup {t} ELSE corrupt
  BY DEF Unsubscribe, Followed
<1>2a. PICK r \in Reads(t, clients) :
        LET mine == {k \in DOMAIN r : r[k] = clients[i].fd}
        IN  \E gone \in SUBSET mine :
              /\ \A k \in mine : k \in gone <=> k - 1 \notin gone
              /\ \E p \in InOrder(DOMAIN r \ gone) :
                   subscribers' = [subscribers EXCEPT ![t] =
                     [j \in DOMAIN p |-> subscribers[t][p[j]]]]
  BY DEF Unsubscribe
<1>2b. PICK gone \in SUBSET {k \in DOMAIN r : r[k] = clients[i].fd} :
        \E p \in InOrder(DOMAIN r \ gone) :
           subscribers' = [subscribers EXCEPT ![t] = [j \in DOMAIN p |-> subscribers[t][p[j]]]]
  BY <1>2a
<1>2. PICK p \in InOrder(DOMAIN r \ gone) :
        subscribers' = [subscribers EXCEPT ![t] = [j \in DOMAIN p |-> subscribers[t][p[j]]]]
  BY <1>2b
<1>3. clients \in Seq(Client)
  BY DEF TypeOK
<1>4. /\ DOMAIN r = 1 .. Len(subscribers[t]) /\ Len(subscribers[t]) \in Nat
      /\ DOMAIN r = DOMAIN subscribers[t]
      /\ \A k \in DOMAIN r \ Stale(t) : r[k] = clients[subscribers[t][k].client].fd
  BY <1>3, ReadsAreFds, Shapes
<1>5. /\ DOMAIN p = 1 .. Len(p) /\ Len(p) \in Nat
      /\ \A j \in DOMAIN p : p[j] \in DOMAIN r \ gone
      /\ \A k \in DOMAIN r \ gone : \E j \in DOMAIN p : p[j] = k
  <2>1. p \in Seq(DOMAIN r \ gone) /\ DOMAIN p = 1 .. Len(p)
        /\ \A k \in DOMAIN r \ gone : \E j \in DOMAIN p : p[j] = k
    <3>1. DOMAIN r \ gone \in SUBSET (1 .. Len(subscribers[t]))
      BY <1>4
    <3> QED
      BY <1>4, <3>1, InOrderLists
  <2> QED
    BY <2>1, LenProperties, ElementOfSeq
<1>6. /\ DOMAIN subscribers' = Topics
      /\ \A u \in Topics \ {t} : subscribers'[u] = subscribers[u]
      /\ DOMAIN subscribers'[t] = DOMAIN p
      /\ \A j \in DOMAIN p : subscribers'[t][j] = subscribers[t][p[j]]
  BY <1>2 DEF TypeOK
<1>7. subscribers'[t] \in Seq(Subscriber)
  <2>1. subscribers'[t] = [j \in 1 .. Len(p) |-> subscribers[t][p[j]]]
    BY <1>2, <1>5 DEF TypeOK
  <2>2. subscribers'[t] \in [1 .. Len(p) -> Subscriber]
    BY <1>4, <1>5, <2>1, Shapes
  <2>3. Len(p) \in Nat
    BY <1>5
  <2> QED
    BY <2>2, <2>3, FunctionIsSeq
<1>8. ASSUME NEW u \in Topics, NEW k \in DOMAIN subscribers'[u]
      PROVE  \E l \in DOMAIN subscribers[u] : subscribers'[u][k] = subscribers[u][l]
  <2>1. CASE u = t
    <3>1. k \in DOMAIN p /\ subscribers'[t][k] = subscribers[t][p[k]]
      BY <1>6, <2>1
    <3>2. p[k] \in DOMAIN subscribers[t]
      BY <1>4, <1>5, <3>1
    <3> QED
      BY <2>1, <3>1, <3>2
  <2>2. CASE u # t
    BY <1>6, <2>2
  <2> QED
    BY <2>1, <2>2
<1>9. TypeOK'
  <2>1. subscribers' \in [Topics -> Seq(Subscriber)]
    <3>1. \A u \in Topics : subscribers'[u] \in Seq(Subscriber)
      BY <1>6, <1>7 DEF TypeOK
    <3>2. subscribers' = [u \in Topics |-> subscribers'[u]]
      BY <1>2, <1>6 DEF TypeOK
    <3> QED
      BY <3>1, <3>2
  <2>2. ASSUME NEW u \in Topics, NEW k \in DOMAIN subscribers'[u]
        PROVE  subscribers'[u][k].client \in DOMAIN clients'
    BY <1>1, <1>8, Shapes
  <2>3. wanted' \in [IDs -> [Topics -> {"none", "live", "sf"}]]
    BY <1>1, Shapes DEF TypeOK
  <2>4. corrupt' \subseteq Topics
    BY <1>1 DEF TypeOK
  <2> QED
    BY <1>1, <2>1, <2>2, <2>3, <2>4, NothingIsOut DEF TypeOK
<1>10. CursorsInLog'
  <2> SUFFICES ASSUME NEW u \in Topics, NEW k \in DOMAIN subscribers'[u]
               PROVE  subscribers'[u][k].last_sent \in NoSF .. Len(messages[u]) - 1
    BY <1>1 DEF CursorsInLog
  <2> QED
    BY <1>8 DEF CursorsInLog
<1>11. CaughtUp'
  <2> SUFFICES ASSUME NEW u \in Topics \ corrupt', NEW k \in DOMAIN subscribers'[u],
                      clients'[subscribers'[u][k].client].fd # NoFd
               PROVE  subscribers'[u][k].last_sent \in {NoSF, Len(messages[u]) - 1}
    BY <1>1 DEF CaughtUp, Connected
  <2> QED
    BY <1>1, <1>8 DEF CaughtUp, Connected
<1>12. NoUselessMessages'
  <2> SUFFICES ASSUME NEW u \in Topics \ corrupt', messages[u] # << >>
               PROVE  \E k \in DOMAIN subscribers'[u] :
                        /\ subscribers'[u][k].last_sent = -1
                        /\ clients[subscribers'[u][k].client].fd = NoFd
    BY <1>1 DEF NoUselessMessages, Connected
  <2>1. PICK k \in DOMAIN subscribers[u] : /\ subscribers[u][k].last_sent = -1
                                           /\ clients[subscribers[u][k].client].fd = NoFd
    BY <1>1 DEF NoUselessMessages, Connected
  <2>2. CASE u # t
    BY <1>6, <2>1, <2>2
  <2>3. CASE u = t
    <3>1. k \notin gone
      <4>1. k \in DOMAIN r \ Stale(t)
        BY <1>1, <1>4, <2>3
      <4>2. r[k] = NoFd
        BY <1>4, <2>1, <2>3, <4>1
      <4> QED
        BY <1>1, <1>2, <4>2 DEF Connected
    <3>2. PICK j \in DOMAIN p : p[j] = k
      BY <1>4, <1>5, <2>3, <3>1
    <3> QED
      BY <1>6, <2>1, <2>3, <3>2
  <2> QED
    BY <2>2, <2>3
<1> QED
  BY <1>1, <1>9, <1>10, <1>11, <1>12 DEF OneConnectionPerID, Connected

-----------------------------------------------------------------------------
(* A datagram *)

\* Connected cursors move exactly when the log grows, so they stay at its end;
\* the message that makes a log non-empty has an absent subscriber at -1.
LEMMA PublishKeepsIInv ==
  ASSUME IInv, NEW t \in Topics, NEW m \in Msgs, Publish(t, m)
  PROVE  IInv'
<1> USE DEF IInv
<1>1. /\ UNCHANGED <<clients, capacity, topics, wanted, doubled>>
      /\ corrupt' = IF DOMAIN subscribers[t] \cap Stale(t) # {} THEN corrupt \cup {t} ELSE corrupt
  BY DEF Publish, Followed
<1>2. PICK r \in Reads(t, clients) :
        LET here == {k \in DOMAIN r : r[k] # NoFd}
            sent(id) == Cardinality({k \in here : r[k] \in FdsOf(id)})
            need_storage == \E k \in DOMAIN r \ here : subscribers[t][k].last_sent # NoSF
        IN  /\ IF need_storage THEN Store(t, m, here) ELSE UNCHANGED <<messages, subscribers>>
            /\ out' = [id \in IDs |->
                 [Nothing[id] EXCEPT ![t] = [j \in 1 .. sent(id) |-> <<m>>]]]
  BY DEF Publish
<1> DEFINE here == {k \in DOMAIN r : r[k] # NoFd}
<1>3. clients \in Seq(Client)
  BY DEF TypeOK
<1>4. /\ DOMAIN r = 1 .. Len(subscribers[t]) /\ Len(subscribers[t]) \in Nat
      /\ DOMAIN r = DOMAIN subscribers[t]
      /\ \A k \in DOMAIN r \ Stale(t) : r[k] = clients[subscribers[t][k].client].fd
  BY <1>3, ReadsAreFds, Shapes
<1>5. out' \in [IDs -> [Topics -> Seq(Seq(Msgs))]]
  <2> DEFINE sent(id) == Cardinality({k \in here : r[k] \in FdsOf(id)})
  <2>1. ASSUME NEW id \in IDs PROVE [j \in 1 .. sent(id) |-> <<m>>] \in Seq(Seq(Msgs))
    <3>0. Len(subscribers[t]) \in Int /\ 1 \in Int
      BY <1>4
    <3>1. IsFiniteSet(1 .. Len(subscribers[t]))
      BY <3>0, FS_Interval
    <3>2. {k \in here : r[k] \in FdsOf(id)} \in SUBSET (1 .. Len(subscribers[t]))
      BY <1>4
    <3>3. sent(id) \in Nat
      BY <3>1, <3>2, FS_Subset, FS_CardinalityType
    <3>4. <<m>> \in Seq(Msgs)
      OBVIOUS
    <3>5. [j \in 1 .. sent(id) |-> <<m>>] \in [1 .. sent(id) -> Seq(Msgs)]
      BY <3>4
    <3> HIDE DEF sent
    <3> QED
      BY <3>3, <3>5, FunctionIsSeq
  <2>2. out' = [id \in IDs |-> [Nothing[id] EXCEPT ![t] = [j \in 1 .. sent(id) |-> <<m>>]]]
    BY <1>2
  <2> HIDE DEF sent
  <2> QED
    BY <2>1, <2>2, NothingIsOut
<1>6. corrupt' \subseteq Topics
  BY <1>1 DEF TypeOK
<1>7. OneConnectionPerID'
  BY <1>1 DEF OneConnectionPerID, Connected
<1>8. CASE UNCHANGED <<messages, subscribers>>
  <2>1. TypeOK'
    BY <1>1, <1>5, <1>6, <1>8 DEF TypeOK
  <2>2. CursorsInLog' /\ CaughtUp' /\ NoUselessMessages'
    BY <1>1, <1>8 DEF CursorsInLog, CaughtUp, NoUselessMessages, Connected
  <2> QED
    BY <1>7, <2>1, <2>2
<1>9. ASSUME Store(t, m, here), NEW a \in DOMAIN r \ here, subscribers[t][a].last_sent # NoSF
      PROVE  IInv'
  <2>1. messages' = [messages EXCEPT ![t] = Append(@, m)]
    BY <1>9 DEF Store
  <2>2. /\ messages' \in [Topics -> Seq(Msgs)]
        /\ Len(messages'[t]) = Len(messages[t]) + 1
        /\ \A u \in Topics \ {t} : messages'[u] = messages[u]
    BY <2>1 DEF TypeOK
  <2>3. /\ DOMAIN subscribers' = Topics
        /\ \A u \in Topics \ {t} : subscribers'[u] = subscribers[u]
        /\ subscribers'[t] = MovedOn(t, here)
        /\ subscribers' = [u \in Topics |-> subscribers'[u]]
    BY <1>9 DEF Store, TypeOK
  <2>4. ASSUME NEW k \in DOMAIN subscribers[t]
        PROVE  /\ subscribers'[t][k] \in Subscriber
               /\ subscribers'[t][k].client = subscribers[t][k].client
               /\ subscribers'[t][k].last_sent =
                    IF k \in here /\ subscribers[t][k].last_sent # NoSF
                      THEN subscribers[t][k].last_sent + 1 ELSE subscribers[t][k].last_sent
    <3>1. subscribers[t][k] \in Subscriber
      BY Shapes
    <3> HIDE DEF here
    <3> QED
      BY <2>3, <3>1 DEF Subscriber, MovedOn
  <2>5. subscribers'[t] \in Seq(Subscriber) /\ DOMAIN subscribers'[t] = DOMAIN subscribers[t]
    <3>1. DOMAIN subscribers'[t] = DOMAIN subscribers[t]
      BY <2>3 DEF MovedOn
    <3>2. subscribers'[t] = [k \in 1 .. Len(subscribers[t]) |-> subscribers'[t][k]]
      BY <2>3, Shapes DEF MovedOn
    <3>3. subscribers'[t] \in [1 .. Len(subscribers[t]) -> Subscriber]
      BY <2>4, <3>2, Shapes
    <3> QED
      BY <3>1, <3>3, FunctionIsSeq, Shapes
  <2>6. TypeOK'
    <3>1. subscribers' \in [Topics -> Seq(Subscriber)]
      <4>1. \A u \in Topics : subscribers'[u] \in Seq(Subscriber)
        BY <2>3, <2>5 DEF TypeOK
      <4> QED
        BY <2>3, <4>1
    <3>2. ASSUME NEW u \in Topics, NEW k \in DOMAIN subscribers'[u]
          PROVE  subscribers'[u][k].client \in DOMAIN clients'
      BY <1>1, <2>3, <2>4, <2>5, Shapes
    <3> QED
      BY <1>1, <1>5, <1>6, <2>2, <3>1, <3>2 DEF TypeOK
  <2>7. CursorsInLog'
    <3> SUFFICES ASSUME NEW u \in Topics, NEW k \in DOMAIN subscribers'[u]
                 PROVE  subscribers'[u][k].last_sent \in NoSF .. Len(messages'[u]) - 1
      BY DEF CursorsInLog
    <3>1. CASE u # t
      BY <2>2, <2>3, <3>1 DEF CursorsInLog
    <3>2. CASE u = t
      <4>1. subscribers[t][k].last_sent \in NoSF .. Len(messages[t]) - 1
        BY <2>5, <3>2 DEF CursorsInLog
      <4>2. Len(messages[t]) \in Nat
        BY Shapes
      <4>3. Len(messages'[t]) - 1 = Len(messages[t])
        BY <2>2, <4>2
      <4>4. \/ subscribers'[t][k].last_sent = subscribers[t][k].last_sent
            \/ subscribers'[t][k].last_sent = subscribers[t][k].last_sent + 1
        BY <2>4, <2>5, <3>2
      <4> HIDE DEF here
      <4> QED
        BY <2>2, <3>2, <4>1, <4>2, <4>3, <4>4 DEF NoSF
    <3> QED
      BY <3>1, <3>2
  <2>8. t \notin corrupt' => \A k \in DOMAIN subscribers[t] :
          k \in here <=> clients[subscribers[t][k].client].fd # NoFd
    BY <1>1, <1>4
  <2>9. CaughtUp'
    <3> SUFFICES ASSUME NEW u \in Topics \ corrupt', NEW k \in DOMAIN subscribers'[u],
                        clients'[subscribers'[u][k].client].fd # NoFd
                 PROVE  subscribers'[u][k].last_sent \in {NoSF, Len(messages'[u]) - 1}
      BY DEF CaughtUp, Connected
    <3>1. CASE u # t
      BY <1>1, <2>2, <2>3, <3>1 DEF CaughtUp, Connected
    <3>2. CASE u = t
      <4>1. k \in here
        BY <1>1, <2>4, <2>5, <2>8, <3>2
      <4>2. /\ k \in DOMAIN subscribers[t]
            /\ subscribers[t][k].last_sent \in {NoSF, Len(messages[t]) - 1}
        BY <1>1, <2>4, <2>5, <3>2 DEF CaughtUp, Connected
      <4>4. subscribers'[t][k].last_sent = IF subscribers[t][k].last_sent # NoSF
              THEN subscribers[t][k].last_sent + 1 ELSE subscribers[t][k].last_sent
        BY <2>4, <4>1, <4>2
      <4>3. Len(messages[t]) \in Nat
        BY Shapes
      <4>5. Len(messages'[t]) - 1 = Len(messages[t]) /\ Len(messages[t]) - 1 + 1 = Len(messages[t])
        BY <2>2, <4>3
      <4> HIDE DEF here
      <4> QED
        BY <2>2, <3>2, <4>2, <4>3, <4>4, <4>5 DEF NoSF
    <3> QED
      BY <3>1, <3>2
  <2>10. NoUselessMessages'
    <3> SUFFICES ASSUME NEW u \in Topics \ corrupt', messages'[u] # << >>
                 PROVE  \E k \in DOMAIN subscribers'[u] :
                          /\ subscribers'[u][k].last_sent = -1
                          /\ clients'[subscribers'[u][k].client].fd = NoFd
      BY DEF NoUselessMessages, Connected
    <3>1. CASE u # t
      <4>1. messages[u] # << >> /\ subscribers'[u] = subscribers[u] /\ u \in Topics \ corrupt
        BY <1>1, <2>2, <2>3, <3>1
      <4> QED
        BY <1>1, <4>1 DEF NoUselessMessages, Connected
    <3>2. CASE u = t
      <4>1. PICK k \in DOMAIN subscribers[t] : /\ subscribers[t][k].last_sent = -1
                                               /\ clients[subscribers[t][k].client].fd = NoFd
        <5>1. CASE messages[t] = << >>
          <6>1. subscribers[t][a].last_sent \in NoSF .. -1
            BY <1>4, <1>9, <5>1, Shapes DEF CursorsInLog
          <6>2. clients[subscribers[t][a].client].fd = NoFd
            BY <1>4, <1>9, <2>8, <3>2
          <6> QED
            BY <1>4, <1>9, <6>1, <6>2 DEF NoSF
        <5>2. CASE messages[t] # << >>
          BY <1>1, <3>2, <5>2 DEF NoUselessMessages, Connected
        <5> QED
          BY <5>1, <5>2
      <4>2. k \notin here
        BY <2>8, <3>2, <4>1
      <4> HIDE DEF here
      <4> QED
        BY <1>1, <2>4, <2>5, <3>2, <4>1, <4>2
    <3> QED
      BY <3>1, <3>2
  <2> QED
    BY <1>7, <2>6, <2>7, <2>9, <2>10
<1> QED
  BY <1>2, <1>8, <1>9

-----------------------------------------------------------------------------
(* A known ID returns *)

\* Cutting n messages off a log moves a cursor no further than before its start.
LEMMA CutStaysInside ==
  ASSUME NEW c \in Int, NEW n \in Nat, NEW len \in Nat, c <= len - 1, n <= c + 1
  PROVE  /\ c - n \in Int /\ len - n - 1 \in Int
         /\ c - n >= -1 /\ c - n <= len - n - 1
  OBVIOUS

\* What a cursor of a store-and-forward entry leaves to be sent starts in the log.
LEMMA BehindCursor ==
  ASSUME NEW c \in Int, c > NoSF
  PROVE  c + 2 \in Nat \ {0}
  BY DEF NoSF

\* table is the table of clients once client i is back on descriptor fd.
Back(i, fd, table) ==
  /\ ~Connected(i)
  /\ Lowest(fd)
  /\ table \in Seq(Client)
  /\ DOMAIN table = DOMAIN clients
  /\ Len(table) = Len(clients)
  /\ \A j \in DOMAIN clients : /\ table[j].ID = clients[j].ID
                               /\ table[j].fd = IF j = i THEN fd ELSE clients[j].fd

\* The entries subs and the log of a topic are as the invariants want them.
Sound(subs, log, table) ==
  /\ \A k \in DOMAIN subs : table[subs[k].client].fd # NoFd =>
       subs[k].last_sent \in {NoSF, Len(log) - 1}
  /\ log # << >> => \E k \in DOMAIN subs :
       subs[k].last_sent = -1 /\ table[subs[k].client].fd = NoFd

\* What the scan of one topic leaves behind, whatever it read.
Scanned(t, table, s) ==
  /\ s.subs \in Seq(Subscriber)
  /\ DOMAIN s.subs = DOMAIN subscribers[t]
  /\ \A k \in DOMAIN s.subs : s.subs[k].client = subscribers[t][k].client
  /\ s.log \in Seq(Msgs)
  /\ s.batches \in Seq(Seq(Msgs))
  /\ \A k \in DOMAIN s.subs : s.subs[k].last_sent \in NoSF .. Len(s.log) - 1
  /\ t \notin corrupt /\ Stale(t) = {} => Sound(s.subs, s.log, table)

\* The scan of a topic: catching up and cutting the log by min + 1 leave every
\* cursor inside it, and in a sound topic one absent subscriber at its front.
LEMMA ScanKeeps ==
  ASSUME IInv, NEW i \in DOMAIN clients, NEW fd \in Fds, NEW table, Back(i, fd, table),
         NEW t \in Topics, NEW s \in Scan(t, table, fd)
  PROVE  Scanned(t, table, s)
<1> USE DEF IInv, Back
<1> DEFINE L == Len(messages[t])
<1>1. PICK r \in Reads(t, table) : s \in Results(t, Mine(t, r, fd))
  BY DEF Scan
<1> DEFINE mine == Mine(t, r, fd)
<1>2. PICK n \in Useless(Caught(t, mine)), p \in InOrder(mine) :
        s = [subs    |-> Shifted(Caught(t, mine), n),
             log     |-> SubSeq(messages[t], n + 1, Len(messages[t])),
             batches |-> [j \in DOMAIN p |-> Pending(t, p[j])]]
  BY <1>1 DEF Results
<1>3. /\ DOMAIN r = DOMAIN subscribers[t]
      /\ DOMAIN r = 1 .. Len(subscribers[t]) /\ Len(subscribers[t]) \in Nat
      /\ L \in Nat /\ messages[t] \in Seq(Msgs)
      /\ \A k \in DOMAIN r \ Stale(t) : r[k] = table[subscribers[t][k].client].fd
  <2>1. /\ r \in [DOMAIN subscribers[t] -> Fds \cup {NoFd}]
        /\ \A k \in DOMAIN subscribers[t] \ Stale(t) :
             r[k] = table[subscribers[t][k].client].fd
    BY ReadsAreFds
  <2> QED
    BY <2>1, Shapes DEF TypeOK
<1>4. \A k \in DOMAIN r : /\ subscribers[t][k] \in Subscriber
                          /\ subscribers[t][k].client \in DOMAIN clients
                          /\ subscribers[t][k].last_sent \in NoSF .. L - 1
  BY <1>3, Shapes DEF CursorsInLog
<1>5. mine \subseteq DOMAIN r
  BY DEF Mine
<1> HIDE DEF mine
<1> DEFINE caught == Caught(t, mine)
<1>6. /\ DOMAIN caught = DOMAIN r
      /\ \A k \in DOMAIN r : /\ caught[k] \in Subscriber
                             /\ caught[k].client = subscribers[t][k].client
                             /\ caught[k].last_sent =
                                  IF k \in mine THEN L - 1 ELSE subscribers[t][k].last_sent
                             /\ caught[k].last_sent \in NoSF .. L - 1
  <2>1. DOMAIN caught = DOMAIN r
    BY <1>3 DEF Caught
  <2>2. ASSUME NEW k \in DOMAIN r
        PROVE  /\ caught[k] \in Subscriber
               /\ caught[k].client = subscribers[t][k].client
               /\ caught[k].last_sent = IF k \in mine THEN L - 1 ELSE subscribers[t][k].last_sent
    <3>1. caught[k] = IF k \in mine THEN [subscribers[t][k] EXCEPT !.last_sent = L - 1]
                                    ELSE subscribers[t][k]
      BY <1>3 DEF Caught
    <3>2. L - 1 \in Int /\ subscribers[t][k] \in Subscriber
      BY <1>3, <1>4
    <3> HIDE DEF caught
    <3> QED
      BY <3>1, <3>2 DEF Subscriber
  <2>3. -1 >= NoSF /\ L - 1 >= NoSF
    BY <1>3 DEF NoSF
  <2> QED
    BY <1>3, <1>4, <2>1, <2>2, <2>3 DEF NoSF
<1> HIDE DEF caught
<1>7. /\ n \in Nat /\ n <= L
      /\ \A k \in DOMAIN r : caught[k].last_sent # NoSF => n <= caught[k].last_sent + 1
      /\ (\A k \in DOMAIN r : caught[k].last_sent = NoSF) => n = 0
      /\ (\E k \in DOMAIN r : caught[k].last_sent # NoSF) =>
            \E k \in DOMAIN r : caught[k].last_sent # NoSF /\ n - 1 = caught[k].last_sent
  <2> DEFINE cursors == {caught[k].last_sent : k \in DOMAIN caught} \ {NoSF}
  <2>1. /\ n \in 0 .. MaxLog
        /\ \A c \in cursors : n <= c + 1
        /\ IF cursors = {} THEN n = 0 ELSE n - 1 \in cursors
    BY DEF Useless, caught
  <2>2. n \in Nat
    BY <2>1, BoundsAssumption
  <2>3. n <= L
    <3>1. CASE cursors = {}
      BY <1>3, <2>1, <3>1
    <3>2. CASE cursors # {}
      <4>1. PICK k \in DOMAIN r : n - 1 = caught[k].last_sent
        BY <1>6, <2>1, <3>2
      <4>2. n - 1 <= L - 1
        BY <1>3, <1>6, <4>1
      <4> QED
        BY <1>3, <2>2, <4>2
    <3> QED
      BY <3>1, <3>2
  <2> QED
    BY <1>6, <2>1, <2>2, <2>3
<1>8. /\ s.log \in Seq(Msgs)
      /\ Len(s.log) = L - n
  <2>1. \A j \in n + 1 .. L : messages[t][j] \in Msgs
    BY <1>3, <1>7, ElementOfSeq
  <2>2. s.log = SubSeq(messages[t], n + 1, L) /\ n + 1 \in Int /\ L \in Int
    BY <1>2, <1>3, <1>7
  <2>3. /\ s.log \in Seq(Msgs)
        /\ Len(s.log) = IF n + 1 <= L THEN L - (n + 1) + 1 ELSE 0
    BY <2>1, <2>2, SubSeqProperties
  <2> QED
    BY <1>3, <1>7, <2>3
<1>9. /\ DOMAIN s.subs = DOMAIN r
      /\ \A k \in DOMAIN r : /\ s.subs[k] \in Subscriber
                             /\ s.subs[k].client = subscribers[t][k].client
                             /\ s.subs[k].last_sent = IF caught[k].last_sent = NoSF
                                  THEN NoSF ELSE caught[k].last_sent - n
  <2>1. s.subs = [k \in DOMAIN r |-> IF caught[k].last_sent = NoSF
                    THEN caught[k] ELSE [caught[k] EXCEPT !.last_sent = @ - n]]
    BY <1>2, <1>6 DEF Shifted, caught
  <2>2. ASSUME NEW k \in DOMAIN r
        PROVE  /\ s.subs[k] \in Subscriber
               /\ s.subs[k].client = subscribers[t][k].client
               /\ s.subs[k].last_sent = IF caught[k].last_sent = NoSF
                    THEN NoSF ELSE caught[k].last_sent - n
    <3>1. caught[k] \in Subscriber /\ n \in Int
      BY <1>6, <1>7
    <3>2. s.subs[k] = IF caught[k].last_sent = NoSF
                        THEN caught[k] ELSE [caught[k] EXCEPT !.last_sent = @ - n]
      BY <2>1
    <3> QED
      BY <1>6, <3>1, <3>2 DEF Subscriber
  <2> QED
    BY <2>1, <2>2
<1>10. s.subs \in Seq(Subscriber)
  <2>1. s.subs \in [1 .. Len(subscribers[t]) -> Subscriber]
    <3>1. s.subs = Shifted(caught, n)
      BY <1>2 DEF caught
    <3> QED
      BY <1>3, <1>6, <1>9, <3>1 DEF Shifted
  <2> QED
    BY <1>3, <2>1, FunctionIsSeq
<1>11. ASSUME NEW k \in DOMAIN r
       PROVE  s.subs[k].last_sent \in NoSF .. Len(s.log) - 1
  <2>1. CASE caught[k].last_sent = NoSF
    BY <1>3, <1>7, <1>8, <1>9, <2>1 DEF NoSF
  <2>2. CASE caught[k].last_sent # NoSF
    <3>1. n <= caught[k].last_sent + 1 /\ caught[k].last_sent \in NoSF .. L - 1
      BY <1>6, <1>7, <2>2
    <3>2. s.subs[k].last_sent = caught[k].last_sent - n /\ Len(s.log) - 1 = L - n - 1
      BY <1>8, <1>9, <2>2
    <3>3. NoSF \in Int /\ NoSF <= -1
      BY DEF NoSF
    <3>4. caught[k].last_sent \in Int /\ caught[k].last_sent <= L - 1 /\ L \in Nat /\ n \in Nat
      BY <1>3, <1>7, <3>1, <3>3
    <3> HIDE DEF L
    <3>5. /\ caught[k].last_sent - n \in Int /\ L - n - 1 \in Int
          /\ caught[k].last_sent - n >= -1 /\ caught[k].last_sent - n <= L - n - 1
      BY <3>1, <3>4, CutStaysInside
    <3> QED
      BY <3>2, <3>3, <3>5
  <2> QED
    BY <2>1, <2>2
<1>12. s.batches \in Seq(Seq(Msgs))
  <2>1. p \in Seq(mine) /\ DOMAIN p = 1 .. Len(p)
    <3>1. mine \in SUBSET (1 .. Len(subscribers[t]))
      BY <1>3, <1>5
    <3> QED
      BY <1>2, <1>3, <3>1, InOrderLists
  <2>2. ASSUME NEW j \in 1 .. Len(p) PROVE Pending(t, p[j]) \in Seq(Msgs)
    <3>1. p[j] \in mine
      BY <2>1, ElementOfSeq
    <3>2. subscribers[t][p[j]].last_sent + 2 \in Nat \ {0}
      <4>1. p[j] \in DOMAIN r /\ subscribers[t][p[j]].last_sent > NoSF
        BY <3>1 DEF mine, Mine
      <4>2. subscribers[t][p[j]].last_sent \in Int
        BY <1>4, <4>1 DEF Subscriber
      <4> QED
        BY <4>1, <4>2, BehindCursor
    <3>3. \A l \in subscribers[t][p[j]].last_sent + 2 .. L : messages[t][l] \in Msgs
      BY <1>3, <3>2, ElementOfSeq
    <3> QED
      BY <1>3, <3>2, <3>3, SubSeqProperties DEF Pending
  <2>3. s.batches \in [1 .. Len(p) -> Seq(Msgs)] /\ Len(p) \in Nat
    BY <1>2, <2>1, <2>2, LenProperties
  <2> QED
    BY <2>3, FunctionIsSeq
\* In a sound topic the scan serves the returning client and nobody else.
<1>13. ASSUME t \notin corrupt, Stale(t) = {}, NEW k \in DOMAIN r,
              table[s.subs[k].client].fd # NoFd
       PROVE  caught[k].last_sent \in {NoSF, L - 1}
  <2>1. CASE subscribers[t][k].client = i
    <3>1. r[k] = fd
      BY <1>3, <1>4, <1>13, <2>1
    <3>2. subscribers[t][k].last_sent = NoSF \/ k \in mine
      BY <1>3, <1>4, <3>1 DEF mine, Mine, NoSF
    <3> QED
      BY <1>6, <3>2
  <2>2. CASE subscribers[t][k].client # i
    <3>1. Connected(subscribers[t][k].client)
      BY <1>4, <1>9, <1>13, <2>2 DEF Connected
    <3>2. subscribers[t][k].last_sent \in {NoSF, L - 1}
      BY <1>3, <1>13, <3>1 DEF CaughtUp
    <3> QED
      BY <1>6, <3>2
  <2> QED
    BY <2>1, <2>2
<1>14. ASSUME t \notin corrupt, Stale(t) = {}, NEW k \in DOMAIN r,
              table[s.subs[k].client].fd # NoFd
       PROVE  s.subs[k].last_sent \in {NoSF, Len(s.log) - 1}
  <2>1. caught[k].last_sent \in {NoSF, L - 1}
    BY <1>13, <1>14
  <2>2. Len(s.log) - 1 = L - 1 - n
    BY <1>3, <1>7, <1>8
  <2> QED
    BY <1>9, <2>1, <2>2
<1>15. ASSUME t \notin corrupt, Stale(t) = {}, s.log # << >>
       PROVE  \E k \in DOMAIN r : s.subs[k].last_sent = -1 /\ table[s.subs[k].client].fd = NoFd
  <2>1. n < L
    <3>1. Len(s.log) \in Nat \ {0}
      BY <1>8, <1>15, EmptySeq
    <3> QED
      BY <1>3, <1>7, <1>8, <3>1
  <2>2. \E k \in DOMAIN r : caught[k].last_sent # NoSF
    <3>1. messages[t] # << >>
      BY <1>3, <1>7, <2>1, Shapes
    <3>2. PICK k \in DOMAIN r : subscribers[t][k].last_sent = -1
      BY <1>3, <1>15, <3>1 DEF NoUselessMessages
    <3> QED
      BY <1>3, <1>6, <3>2 DEF NoSF
  <2>3. PICK k \in DOMAIN r : caught[k].last_sent # NoSF /\ n - 1 = caught[k].last_sent
    BY <1>7, <2>2
  <2>4. s.subs[k].last_sent = -1
    BY <1>7, <1>9, <2>3
  <2>5. n - 1 # L - 1
    BY <1>3, <1>7, <2>1
  <2> QED
    BY <1>13, <1>15, <2>3, <2>4, <2>5
<1> QED
  BY <1>3, <1>8, <1>9, <1>10, <1>11, <1>12, <1>14, <1>15 DEF Scanned, Sound

\* A client returns: whatever every scan read, its topic is as Scanned says.
LEMMA ReconnectKeepsIInv ==
  ASSUME IInv, NEW i \in DOMAIN clients, NEW fd \in Fds, Reconnect(i, fd)
  PROVE  IInv'
<1> USE DEF IInv
<1>1. clients \in Seq(Client) /\ i \in 1 .. Len(clients) /\ clients[i] \in Client
  BY LenProperties, ElementOfSeq DEF TypeOK
<1>2. /\ clients' \in Seq(Client) /\ DOMAIN clients' = DOMAIN clients
      /\ Len(clients') = Len(clients)
      /\ \A j \in DOMAIN clients : /\ clients'[j].ID = clients[j].ID
                                   /\ clients'[j].fd = IF j = i THEN fd ELSE clients[j].fd
  <2>1. [clients[i] EXCEPT !.fd = fd] \in Client
    BY <1>1 DEF Client
  <2> QED
    BY <1>1, <2>1, ExceptSeq, LenProperties, Shapes DEF Reconnect, Client
<1>3. /\ UNCHANGED <<capacity, topics, wanted, doubled>>
      /\ corrupt' = corrupt \cup {t \in Topics : Stale(t) # {}}
      /\ ~Connected(i) /\ Lowest(fd)
  BY DEF Reconnect
<1>4. PICK scan \in [Topics -> UNION {Scan(t, clients', fd) : t \in Topics}] :
        /\ \A t \in Topics : scan[t] \in Scan(t, clients', fd)
        /\ subscribers' = [t \in Topics |-> scan[t].subs]
        /\ messages' = [t \in Topics |-> scan[t].log]
        /\ out' = [Nothing EXCEPT ![clients[i].ID] = [t \in Topics |-> scan[t].batches]]
  BY DEF Reconnect
<1>5. ASSUME NEW t \in Topics
      PROVE  /\ subscribers'[t] \in Seq(Subscriber)
             /\ DOMAIN subscribers'[t] = DOMAIN subscribers[t]
             /\ \A k \in DOMAIN subscribers'[t] :
                  subscribers'[t][k].client = subscribers[t][k].client
             /\ messages'[t] \in Seq(Msgs)
             /\ scan[t].batches \in Seq(Seq(Msgs))
             /\ \A k \in DOMAIN subscribers'[t] :
                  subscribers'[t][k].last_sent \in NoSF .. Len(messages'[t]) - 1
             /\ t \notin corrupt' => Sound(subscribers'[t], messages'[t], clients')
  <2>1. scan[t] \in Scan(t, clients', fd)
    BY <1>4
  <2>2. Back(i, fd, clients')
    BY <1>2, <1>3 DEF Back
  <2>3. Scanned(t, clients', scan[t])
    BY <2>1, <2>2, ScanKeeps
  <2>4. subscribers'[t] = scan[t].subs /\ messages'[t] = scan[t].log
    BY <1>4
  <2>5. t \notin corrupt' => t \notin corrupt /\ Stale(t) = {}
    BY <1>3
  <2> QED
    BY <2>3, <2>4, <2>5 DEF Scanned
<1>6. TypeOK'
  <2>1. subscribers' \in [Topics -> Seq(Subscriber)] /\ messages' \in [Topics -> Seq(Msgs)]
    BY <1>4, <1>5
  <2>2. ASSUME NEW t \in Topics, NEW k \in DOMAIN subscribers'[t]
        PROVE  subscribers'[t][k].client \in DOMAIN clients'
    BY <1>2, <1>5, Shapes
  <2>3. out' \in [IDs -> [Topics -> Seq(Seq(Msgs))]]
    BY <1>4, <1>5, NothingIsOut
  <2>4. corrupt' \subseteq Topics
    BY <1>3 DEF TypeOK
  <2> QED
    BY <1>2, <1>3, <2>1, <2>2, <2>3, <2>4 DEF TypeOK
<1>7. OneConnectionPerID'
  BY <1>2, <1>3 DEF OneConnectionPerID, Connected, Lowest, OpenFds
<1>8. CursorsInLog'
  BY <1>5 DEF CursorsInLog
<1>9. CaughtUp'
  BY <1>5 DEF Sound, CaughtUp, Connected
<1>10. NoUselessMessages'
  BY <1>5 DEF Sound, NoUselessMessages, Connected
<1> QED
  BY <1>6, <1>7, <1>8, <1>9, <1>10

-----------------------------------------------------------------------------
(* The theorems *)

\* Every step of the broker keeps the invariant.
THEOREM Inductive == IInv /\ [Next]_vars => IInv'
<1> SUFFICES ASSUME IInv, [Next]_vars PROVE IInv'
  OBVIOUS
<1>1. ASSUME NEW id \in IDs, Refuse(id) PROVE IInv'
  BY <1>1, RefuseKeepsIInv
<1>2. ASSUME NEW id \in IDs, NEW fd \in Fds, Register(id, fd) PROVE IInv'
  BY <1>2, RegisterKeepsIInv
<1>3. ASSUME NEW i \in DOMAIN clients, NEW fd \in Fds, Reconnect(i, fd) PROVE IInv'
  BY <1>3, ReconnectKeepsIInv
<1>4. ASSUME NEW i \in DOMAIN clients, Disconnect(i) PROVE IInv'
  BY <1>4, DisconnectKeepsIInv
<1>5. ASSUME NEW i \in DOMAIN clients, NEW t \in Topics, Subscribe(i, t) PROVE IInv'
  BY <1>5, SubscribeKeepsIInv DEF Subscribe
<1>6. ASSUME NEW i \in DOMAIN clients, NEW t \in Topics, SubscribeSF(i, t) PROVE IInv'
  BY <1>6, SubscribeKeepsIInv DEF SubscribeSF
<1>7. ASSUME NEW i \in DOMAIN clients, NEW t \in Topics, Unsubscribe(i, t) PROVE IInv'
  BY <1>7, UnsubscribeKeepsIInv
<1>8. ASSUME NEW t \in Topics, Create(t) PROVE IInv'
  BY <1>8, CreateKeepsIInv
<1>9. ASSUME NEW t \in Topics, NEW m \in Msgs, Publish(t, m) PROVE IInv'
  BY <1>9, PublishKeepsIInv
<1>10. CASE UNCHANGED vars
  BY <1>10, StutterKeepsIInv
<1> QED
  BY <1>1, <1>2, <1>3, <1>4, <1>5, <1>6, <1>7, <1>8, <1>9, <1>10 DEF Next

\* So it holds forever.
LEMMA Invariance == Spec => []IInv
<1>1. Init => IInv
  BY InitIInv
<1>2. IInv /\ [Next]_vars => IInv'
  BY Inductive
<1> QED
  BY <1>1, <1>2, PTL DEF Spec

\* The tables keep their shape; every entry points into the table of clients.
THEOREM TypeCorrect == Spec => []TypeOK
<1>1. IInv => TypeOK
  BY DEF IInv
<1> QED
  BY <1>1, Invariance, PTL

\* No ID and no open descriptor ever stands twice in the table of clients.
THEOREM ConnectionsUnique == Spec => []OneConnectionPerID
<1>1. IInv => OneConnectionPerID
  BY DEF IInv
<1> QED
  BY <1>1, Invariance, PTL

\* No cursor ever leaves its log, even after reads through stale pointers.
THEOREM CursorsSafe == Spec => []CursorsInLog
<1>1. IInv => CursorsInLog
  BY DEF IInv
<1> QED
  BY <1>1, Invariance, PTL

\* A connected store-and-forward subscriber never has anything waiting.
THEOREM ConnectedAreCaughtUp == Spec => []CaughtUp
<1>1. IInv => CaughtUp
  BY DEF IInv
<1> QED
  BY <1>1, Invariance, PTL

\* Deleting messages only when a client returns leaves no useless message.
THEOREM LogsAreMinimal == Spec => []NoUselessMessages
<1>1. IInv => NoUselessMessages
  BY DEF IInv
<1> QED
  BY <1>1, Invariance, PTL
=============================================================================
