---------------------------- MODULE ServerProofs ----------------------------
(***************************************************************************)
(* Proofs about Server, for any IDs, topics, messages, descriptors,        *)
(* requests and bounds: the poll loop keeps the bookkeeping of pollfds     *)
(* while it is scanned, and drives the tables only as Broker says.         *)
(***************************************************************************)
EXTENDS Server, PromiseProofs

\* An entry of pollfds.
Pollfd == [fd : Int, revents : {"none", "in", "unset"}]

\* What the kernel and the loop hold.
Shape ==
  /\ pc \in {"loop", "recvID", "stopped", "died"}
  /\ slot \in Nat \ {0} /\ num_clients \in Nat
  /\ pollfds \in Seq(Pollfd)
  /\ backlog \in Seq(Conn)
  /\ socks \in [Fds -> Conn \cup {NoSock}]
  /\ datagrams \in Seq(Topics \X Msgs)
  /\ typed \in Seq(Lines) /\ buffered \in Seq(Lines)

\* PolledAreClients, descriptor by descriptor.  The server waits for the ID
\* of the connection it added last.
Awaited(f) == pc = "recvID" /\ f = NewFd

Layout ==
  Running =>
    /\ Len(pollfds) >= 3 /\ (pc = "recvID" => Len(pollfds) > 3)
    /\ pollfds[1].fd = ListenFd /\ pollfds[2].fd = UdpFd /\ pollfds[3].fd = StdinFd
    /\ \A k \in 4 .. Len(pollfds) : pollfds[k].fd \in Fds
    /\ \A j, k \in 4 .. Len(pollfds) : j # k => pollfds[j].fd # pollfds[k].fd
    /\ \A f \in Fds : f \in Open <=> \E k \in 4 .. Len(pollfds) : pollfds[k].fd = f
    /\ \A f \in Fds : f \in OpenFds <=> f \in Open /\ ~Awaited(f)

\* MarksStayTrue, also while the server waits for an ID.
Marks ==
  Running =>
    /\ num_clients <= IF pc = "recvID" THEN Len(pollfds) - 1 ELSE Len(pollfds)
    /\ \A k \in slot .. num_clients :
         /\ pollfds[k].revents # "unset"
         /\ pollfds[k].revents = "in" => Readable(pollfds[k].fd)

\* The inductive invariant: that of the tables, and these.
SInv == IInv /\ Shape /\ Layout /\ Marks /\ RightPeer

-----------------------------------------------------------------------------
(* Connections *)

\* poll reports the connection c.
Pends(c) == c.in # << >> \/ c.end # "no"

\* On a descriptor c has become d: the same connection, or still none; and who
\* has ended sends nothing more.
Continues(c, d) ==
  /\ d \in Conn \cup {NoSock}
  /\ d = NoSock <=> c = NoSock
  /\ c # NoSock =>
       d.id = c.id /\ (c.end # "no" => d.end # "no" /\ d.hello = c.hello)

\* Nothing on the descriptors but the connections' own progress.
Progress ==
  /\ socks' \in [Fds -> Conn \cup {NoSock}]
  /\ \A f \in Fds : Continues(socks[f], socks'[f])

\* A connection is not a closed descriptor.
LEMMA ConnIsOpen == \A c \in Conn : c # NoSock /\ c.end # "none"
BY DEF Conn, NoSock

\* What poll asks of each kind of descriptor.
LEMMA ReadableIs ==
  /\ Readable(ListenFd) <=> backlog # << >>
  /\ Readable(UdpFd) <=> datagrams # << >>
  /\ Readable(StdinFd) <=> typed # << >>
  /\ \A f \in Fds : Readable(f) <=> Pends(socks[f])
BY FdsAreNew DEF Readable, Pends, ListenFd, UdpFd, StdinFd

\* So, too, in the next state.
LEMMA ReadableIsNext ==
  /\ Readable(ListenFd)' <=> backlog' # << >>
  /\ Readable(UdpFd)' <=> datagrams' # << >>
  /\ Readable(StdinFd)' <=> typed' # << >>
  /\ \A f \in Fds : Readable(f)' <=> Pends(socks'[f])
BY FdsAreNew DEF Readable, Pends, ListenFd, UdpFd, StdinFd

\* If nothing happens to the descriptors, that is progress.
LEMMA SocksProgress ==
  ASSUME Shape, UNCHANGED socks
  PROVE  Progress /\ \A f \in Fds : Pends(socks[f]) => Pends(socks'[f])
BY DEF Shape, Progress, Continues

\* send makes progress only, and leaves what is readable readable.
LEMMA SendsProgress ==
  ASSUME Shape, Sends
  PROVE  /\ Progress /\ pc' \in {"loop", "died"}
         /\ \A f \in Fds : Pends(socks[f]) => Pends(socks'[f])
<1>1. ASSUME NEW f \in Fds
      PROVE  Continues(socks[f], socks'[f]) /\ (Pends(socks[f]) => Pends(socks'[f]))
  <2>1. socks[f] \in Conn \cup {NoSock}
    BY DEF Shape
  <2>2. socks'[f] = CASE f \in Reached /\ socks[f].end = "no"  -> [socks[f] EXCEPT !.unread = TRUE]
                      [] f \in Reached /\ socks[f].end = "fin" -> [socks[f] EXCEPT !.end = "gone"]
                      [] OTHER                                 -> socks[f]
    BY DEF Sends
  <2>3. CASE f \in Reached /\ socks[f].end = "no"
    <3>1. socks[f] \in Conn
      BY <2>1, <2>3 DEF NoSock
    <3>2. socks'[f] = [socks[f] EXCEPT !.unread = TRUE]
      BY <2>2, <2>3
    <3>3. socks'[f] \in Conn /\ socks'[f].end = "no" /\ socks'[f].id = socks[f].id
                             /\ socks'[f].in = socks[f].in
      BY <2>3, <3>1, <3>2 DEF Conn
    <3> QED
      BY <2>3, <3>1, <3>3, ConnIsOpen DEF Continues, Pends
  <2>4. CASE f \in Reached /\ socks[f].end = "fin"
    <3>1. socks[f] \in Conn
      BY <2>1, <2>4 DEF NoSock
    <3>2. socks'[f] = [socks[f] EXCEPT !.end = "gone"]
      BY <2>2, <2>4
    <3>3. /\ socks'[f] \in Conn /\ socks'[f].end = "gone"
          /\ socks'[f].id = socks[f].id /\ socks'[f].hello = socks[f].hello
      BY <3>1, <3>2 DEF Conn
    <3> QED
      BY <2>4, <3>1, <3>3, ConnIsOpen DEF Continues, Pends
  <2>5. CASE f \notin Reached \/ (socks[f].end # "no" /\ socks[f].end # "fin")
    <3>1. socks'[f] = socks[f]
      BY <2>2, <2>5
    <3> QED
      BY <2>1, <3>1 DEF Continues
  <2> QED
    BY <2>3, <2>4, <2>5
<1>2. socks' \in [Fds -> Conn \cup {NoSock}]
  BY <1>1 DEF Sends, Continues
<1> QED
  BY <1>1, <1>2 DEF Sends, Progress

\* So does what a subscriber does with its connection.
LEMMA DoingsProgress ==
  ASSUME NEW c \in Conn, NEW d \in Doings(c)
  PROVE  d \in Conn /\ Continues(c, d) /\ (Pends(c) => Pends(d))
<1>1. c.end = "no" /\ c.in \in Seq(Requests)
  BY DEF Doings, Conn
<1>2. CASE d \in Hello(c)
  <2>1. d = [c EXCEPT !.hello = TRUE]
    BY <1>2 DEF Hello
  <2> QED
    BY <1>1, <2>1, ConnIsOpen DEF Continues, Pends, Conn
<1>3. CASE d \in Ask(c)
  <2>1. PICK r \in Requests : d = [c EXCEPT !.in = Append(c.in, r)]
    BY <1>3 DEF Ask
  <2>2. Append(c.in, r) \in Seq(Requests) /\ Append(c.in, r) # << >>
    BY <1>1, AppendProperties
  <2>3. c.hello
    BY <1>3 DEF Ask
  <2>4. d \in Conn /\ d.in # << >> /\ d.end = c.end /\ d.id = c.id /\ d.hello = c.hello
    BY <2>1, <2>2, <2>3 DEF Conn
  <2> QED
    BY <1>1, <2>4, ConnIsOpen DEF Continues, Pends
<1>4. CASE d \in Read(c)
  <2>1. d = [c EXCEPT !.unread = FALSE]
    BY <1>4 DEF Read
  <2> QED
    BY <1>1, <2>1, ConnIsOpen DEF Continues, Pends, Conn
<1>5. CASE d \in Exit(c)
  <2>1. d \in Conn /\ d.end # "no" /\ d.id = c.id
    BY <1>5 DEF Exit, Conn
  <2> QED
    BY <1>1, <2>1, ConnIsOpen DEF Continues, Pends
<1> QED
  BY <1>1, <1>2, <1>3, <1>4, <1>5 DEF Doings

-----------------------------------------------------------------------------
(* pollfds *)

\* No descriptor stands twice in pollfds.
LEMMA PolledOnce ==
  ASSUME Shape, Layout, Running
  PROVE  /\ \A k \in DOMAIN pollfds : k < 4 <=> pollfds[k].fd \notin Fds
         /\ \A j, k \in DOMAIN pollfds : j # k => pollfds[j].fd # pollfds[k].fd
<1>1. DOMAIN pollfds = 1 .. Len(pollfds) /\ Len(pollfds) \in Nat
  BY LenProperties DEF Shape
<1>2. \A k \in DOMAIN pollfds : \/ k = 1 /\ pollfds[k].fd = 3
                                \/ k = 2 /\ pollfds[k].fd = 4
                                \/ k = 3 /\ pollfds[k].fd = 0
                                \/ k \in 4 .. Len(pollfds) /\ pollfds[k].fd \in Fds
  BY <1>1 DEF Layout, ListenFd, UdpFd, StdinFd
<1>3. 3 \notin Fds /\ 4 \notin Fds /\ 0 \notin Fds
  BY FdsAreNew DEF ListenFd, UdpFd, StdinFd
<1>4. \A k \in DOMAIN pollfds : k < 4 <=> pollfds[k].fd \notin Fds
  BY <1>1, <1>2, <1>3
<1>5. \A j, k \in 4 .. Len(pollfds) : j # k => pollfds[j].fd # pollfds[k].fd
  BY DEF Layout
<1>6. ASSUME NEW j \in DOMAIN pollfds, NEW k \in DOMAIN pollfds, j # k
      PROVE  pollfds[j].fd # pollfds[k].fd
  BY <1>2, <1>3, <1>5, <1>6
<1> QED
  BY <1>4, <1>6

\* A descriptor whose turn it is is readable, and a client's one is open.
LEMMA TurnIsReadable ==
  ASSUME SInv, NEW k \in DOMAIN pollfds, Turn(k)
  PROVE  /\ k \in 1 .. Len(pollfds) /\ k \in slot .. num_clients
         /\ Readable(pollfds[k].fd)
         /\ pollfds[k].fd \in Fds => k > 3 /\ pollfds[k].fd \in Open
                                     /\ socks[pollfds[k].fd] \in Conn
<1>1. /\ pollfds \in Seq(Pollfd) /\ pc = "loop" /\ Running
      /\ k \in slot .. num_clients /\ pollfds[k].revents # "none"
  BY DEF SInv, Shape, Turn, Running
<1>2. DOMAIN pollfds = 1 .. Len(pollfds) /\ Len(pollfds) \in Nat /\ pollfds[k] \in Pollfd
  BY <1>1, LenProperties, ElementOfSeq
<1>3. pollfds[k].revents = "in"
  BY <1>1, <1>2 DEF SInv, Marks, Pollfd
<1>4. Readable(pollfds[k].fd)
  BY <1>1, <1>3 DEF SInv, Marks
<1>5. ASSUME pollfds[k].fd \in Fds PROVE k > 3 /\ pollfds[k].fd \in Open
  <2>1. k > 3
    BY <1>1, <1>2, <1>5, PolledOnce DEF SInv
  <2>2. k \in 4 .. Len(pollfds)
    BY <1>2, <2>1
  <2> QED
    BY <1>1, <1>5, <2>1, <2>2 DEF SInv, Layout
<1>6. ASSUME pollfds[k].fd \in Fds PROVE socks[pollfds[k].fd] \in Conn
  BY <1>5, <1>6 DEF Open, SInv, Shape
<1> QED
  BY <1>1, <1>2, <1>4, <1>5, <1>6

\* As long as the connections only make progress, the ones open stay open.
LEMMA OpenStays ==
  ASSUME Progress
  PROVE  Open' = Open
BY DEF Progress, Continues, Open

\* What was true of whom a connection stands for stays true.
LEMMA StandingStays ==
  ASSUME NEW c \in Conn \cup {NoSock}, NEW d, Continues(c, d), NEW id, StandsFor(c, id)
  PROVE  StandsFor(d, id)
<1>1. CASE c = NoSock
  BY <1>1 DEF Continues
<1>2. CASE c # NoSock
  BY <1>2 DEF Continues, StandsFor
<1> QED
  BY <1>1, <1>2

\* ... and every one is still its client's.
LEMMA PeersStay ==
  ASSUME TypeOK, Shape, RightPeer, Progress, UNCHANGED clients
  PROVE  RightPeer'
<1>1. ASSUME NEW i \in DOMAIN clients, Connected(i)
      PROVE  StandsFor(socks'[clients[i].fd], clients[i].ID)
  <2>1. clients[i].fd \in Fds
    BY <1>1, Shapes DEF Connected
  <2>2. Continues(socks[clients[i].fd], socks'[clients[i].fd])
    BY <2>1 DEF Progress
  <2>3. socks[clients[i].fd] \in Conn \cup {NoSock}
    BY <2>1 DEF Shape
  <2>4. StandsFor(socks[clients[i].fd], clients[i].ID)
    BY <1>1 DEF RightPeer
  <2> QED
    BY <2>2, <2>3, <2>4, StandingStays
<1> QED
  BY <1>1 DEF RightPeer, Connected

\* ... and, if the scan does not change pollfds, it still lists all of them.
LEMMA LayoutStays ==
  ASSUME Layout, Running, Progress, UNCHANGED <<clients, pollfds>>,
         pc' = pc \/ pc' \in {"stopped", "died"}
  PROVE  Layout'
<1>1. Open' = Open
  BY OpenStays
<1>2. OpenFds' = OpenFds
  BY DEF OpenFds
<1>3. CASE pc' = pc
  <2>1. \A f \in Fds : Awaited(f)' <=> Awaited(f)
    BY <1>3 DEF Awaited, NewFd
  <2> QED
    BY <1>1, <1>2, <1>3, <2>1 DEF Layout
<1>4. CASE pc' \in {"stopped", "died"}
  BY <1>4 DEF Layout, Running
<1> QED
  BY <1>3, <1>4

\* The marks stay true while what they say of the descriptors still to be
\* served stays true.
LEMMA MarksStay ==
  ASSUME Shape, Marks, Running, UNCHANGED <<pollfds, num_clients>>,
         pc' = pc \/ pc' \in {"stopped", "died"}, slot' \in Nat, slot' >= slot,
         \A k \in slot' .. num_clients :
           Readable(pollfds[k].fd) => Readable(pollfds[k].fd)'
  PROVE  Marks'
<1>1. slot \in Nat /\ num_clients \in Nat
  BY DEF Shape
<1>2. ASSUME NEW k \in slot' .. num_clients, pc' = pc
      PROVE  k \in slot .. num_clients
  BY <1>1
<1> QED
  BY <1>1, <1>2 DEF Marks, Running

\* An entry that was readable is, unless what poll looks at was taken away.
LEMMA StillReadable ==
  ASSUME Shape, Layout, Running, UNCHANGED pollfds,
         NEW k \in DOMAIN pollfds, Readable(pollfds[k].fd),
         pollfds[k].fd = ListenFd /\ backlog # << >> => backlog' # << >>,
         pollfds[k].fd = UdpFd /\ datagrams # << >> => datagrams' # << >>,
         pollfds[k].fd = StdinFd /\ typed # << >> => typed' # << >>,
         \A f \in Fds : pollfds[k].fd = f /\ Pends(socks[f]) => Pends(socks'[f])
  PROVE  Readable(pollfds[k].fd)'
<1>1. CASE pollfds[k].fd \in Fds
  BY <1>1, FdsAreNew DEF Readable, Pends, ListenFd, UdpFd, StdinFd
<1>2. CASE pollfds[k].fd \notin Fds
  <2>1. k \in {1, 2, 3}
    BY <1>2, PolledOnce, LenProperties DEF Shape
  <2>2. pollfds[k].fd \in {ListenFd, UdpFd, StdinFd}
    BY <2>1 DEF Layout
  <2> QED
    BY <2>2 DEF Readable, ListenFd, UdpFd, StdinFd
<1> QED
  BY <1>1, <1>2

-----------------------------------------------------------------------------
(* Every step keeps the invariant *)

\* The server starts with the three fixed entries, nobody connected.
LEMMA InitSInv == InitServer => SInv
<1> SUFFICES ASSUME InitServer PROVE SInv
  OBVIOUS
<1> DEFINE fixed == <<ListenFd, UdpFd, StdinFd>>
           entry(k) == [fd |-> fixed[k], revents |-> "none"]
<1>1. IInv
  BY InitIInv DEF InitServer
<1>2. pollfds = [k \in 1 .. 3 |-> entry(k)]
  BY DEF InitServer
<1>3. entry(1) \in Pollfd /\ entry(2) \in Pollfd /\ entry(3) \in Pollfd
  BY DEF Pollfd, ListenFd, UdpFd, StdinFd
<1>4. pollfds \in Seq(Pollfd) /\ Len(pollfds) = 3
  <2>1. \A k \in 1 .. 3 : k = 1 \/ k = 2 \/ k = 3
    OBVIOUS
  <2>2. pollfds \in [1 .. 3 -> Pollfd]
    BY <1>2, <1>3, <2>1
  <2> QED
    BY <2>2, FunctionIsSeq
<1>5. clients = << >> /\ DOMAIN clients = {}
  BY DEF InitServer, Init
<1>6. Shape
  BY <1>4, EmptySeq DEF InitServer, Shape
<1>7. Layout
  <2>1. pollfds[1].fd = ListenFd /\ pollfds[2].fd = UdpFd /\ pollfds[3].fd = StdinFd
    BY <1>2
  <2>2. Open = {} /\ OpenFds = {}
    BY <1>5 DEF Open, OpenFds, InitServer
  <2>3. pc = "loop"
    BY DEF InitServer
  <2> QED
    BY <1>4, <2>1, <2>2, <2>3 DEF Layout
<1>8. Marks
  <2>1. \A k \in 1 .. 3 : pollfds[k].revents = "none"
    BY <1>2
  <2> QED
    BY <1>4, <2>1 DEF Marks, InitServer
<1>9. RightPeer
  BY <1>5 DEF RightPeer
<1> QED
  BY <1>1, <1>6, <1>7, <1>8, <1>9 DEF SInv

\* poll marks what is readable.
LEMMA PollKeeps == SInv /\ Poll => SInv'
<1> SUFFICES ASSUME SInv, Poll PROVE SInv'
  OBVIOUS
<1> USE DEF SInv
<1> DEFINE mark(k) == IF Readable(pollfds[k].fd) THEN "in" ELSE "none"
<1>1. /\ pollfds \in Seq(Pollfd) /\ Len(pollfds) \in Nat
      /\ DOMAIN pollfds = 1 .. Len(pollfds)
  BY LenProperties DEF Shape
<1>2. /\ pc = "loop" /\ Running /\ slot' = 1 /\ num_clients' = Len(pollfds)
      /\ pollfds' = [k \in DOMAIN pollfds |-> [pollfds[k] EXCEPT !.revents = mark(k)]]
      /\ UNCHANGED <<pc, backlog, socks, datagrams, typed, buffered, vars>>
  BY DEF Poll, ScanOver, Polled, Running, kernel
<1>3. \A k \in 1 .. Len(pollfds) : /\ pollfds'[k] \in Pollfd
                                   /\ pollfds'[k].fd = pollfds[k].fd
                                   /\ pollfds'[k].revents = mark(k)
  <2>1. ASSUME NEW k \in 1 .. Len(pollfds)
        PROVE  /\ pollfds'[k] \in Pollfd
               /\ pollfds'[k].fd = pollfds[k].fd
               /\ pollfds'[k].revents = mark(k)
    <3>1. pollfds[k] \in Pollfd
      BY <1>1, ElementOfSeq
    <3>2. mark(k) \in {"in", "none"}
      OBVIOUS
    <3>3. pollfds'[k] = [pollfds[k] EXCEPT !.revents = mark(k)]
      BY <1>1, <1>2
    <3> HIDE DEF mark
    <3> QED
      BY <3>1, <3>2, <3>3 DEF Pollfd
  <2> QED
    BY <2>1
<1>4. pollfds' \in Seq(Pollfd) /\ Len(pollfds') = Len(pollfds)
  <2>1. pollfds' \in [1 .. Len(pollfds) -> Pollfd]
    BY <1>1, <1>2, <1>3
  <2> QED
    BY <1>1, <2>1, FunctionIsSeq
<1>5. UNCHANGED clients
  BY <1>2 DEF vars, state
<1>6. Progress
  BY <1>2, SocksProgress
<1>7. IInv'
  BY <1>2, StutterKeepsIInv
<1>8. Shape'
  BY <1>1, <1>2, <1>4 DEF Shape
<1>9. Layout'
  <2>1. Open' = Open /\ OpenFds' = OpenFds
    BY <1>5, <1>6, OpenStays DEF OpenFds
  <2>2. \A f \in Fds : ~Awaited(f) /\ ~Awaited(f)'
    BY <1>2 DEF Awaited
  <2>3. /\ Len(pollfds) >= 3
        /\ pollfds[1].fd = ListenFd /\ pollfds[2].fd = UdpFd /\ pollfds[3].fd = StdinFd
        /\ \A k \in 4 .. Len(pollfds) : pollfds[k].fd \in Fds
        /\ \A j, k \in 4 .. Len(pollfds) : j # k => pollfds[j].fd # pollfds[k].fd
        /\ \A f \in Fds : f \in Open <=> \E k \in 4 .. Len(pollfds) : pollfds[k].fd = f
        /\ \A f \in Fds : f \in OpenFds <=> f \in Open /\ ~Awaited(f)
    BY <1>2 DEF Layout
  <2>4. \A k \in 4 .. Len(pollfds) : k \in 1 .. Len(pollfds)
    BY <1>1
  <2>5. /\ pollfds'[1].fd = ListenFd /\ pollfds'[2].fd = UdpFd /\ pollfds'[3].fd = StdinFd
        /\ \A k \in 4 .. Len(pollfds) : pollfds'[k].fd = pollfds[k].fd
    BY <1>1, <1>3, <2>3, <2>4
  <2> QED
    BY <1>2, <1>4, <2>1, <2>2, <2>3, <2>5 DEF Layout
<1>10. Marks'
  <2>1. \A k \in 1 .. Len(pollfds) :
          /\ pollfds'[k].revents # "unset"
          /\ pollfds'[k].revents = "in" => Readable(pollfds[k].fd)
    BY <1>3
  <2>2. \A k \in 1 .. Len(pollfds) :
          Readable(pollfds[k].fd) => Readable(pollfds[k].fd)'
    BY <1>2, <1>3 DEF Readable
  <2> QED
    BY <1>1, <1>2, <1>3, <1>4, <2>1, <2>2 DEF Marks
<1>11. RightPeer'
  BY <1>5, <1>6, PeersStay DEF IInv
<1> QED
  BY <1>7, <1>8, <1>9, <1>10, <1>11

\* accept adds the connection that is awaited from then on.
LEMMA AcceptKeeps ==
  ASSUME SInv, NEW k \in DOMAIN pollfds, Accept(k)
  PROVE  SInv'
<1> USE DEF SInv
<1>1. PICK f \in Fds \ Open :
        /\ socks' = [socks EXCEPT ![f] = Head(backlog)]
        /\ pollfds' = Append(pollfds, [fd |-> f, revents |-> "unset"])
  BY DEF Accept
<1>2. /\ Turn(k) /\ pollfds[k].fd = ListenFd /\ pc = "loop" /\ Running
      /\ backlog' = Tail(backlog) /\ slot' = k + 1 /\ pc' = "recvID"
      /\ UNCHANGED <<num_clients, datagrams, typed, buffered, vars>>
  BY DEF Accept, Turn, Running, console
<1>3. UNCHANGED clients
  BY <1>2 DEF vars, state
<1>4. /\ k \in 1 .. Len(pollfds) /\ k \in slot .. num_clients /\ backlog # << >>
      /\ Len(pollfds) \in Nat /\ DOMAIN pollfds = 1 .. Len(pollfds)
      /\ pollfds \in Seq(Pollfd) /\ slot \in Nat /\ num_clients \in Nat
  BY <1>2, TurnIsReadable, ReadableIs, LenProperties DEF Shape
<1>5. Head(backlog) \in Conn /\ Tail(backlog) \in Seq(Conn)
  BY <1>4, HeadTailProperties DEF Shape
<1>6. /\ socks' \in [Fds -> Conn \cup {NoSock}] /\ socks'[f] = Head(backlog)
      /\ \A g \in Fds : g # f => socks'[g] = socks[g]
  BY <1>1, <1>5 DEF Shape
<1>7. [fd |-> f, revents |-> "unset"] \in Pollfd
  BY FdsAssumption DEF Pollfd
<1>8. /\ pollfds' \in Seq(Pollfd) /\ Len(pollfds') = Len(pollfds) + 1
      /\ \A j \in 1 .. Len(pollfds) : pollfds'[j] = pollfds[j]
      /\ pollfds'[Len(pollfds) + 1] = [fd |-> f, revents |-> "unset"]
  BY <1>1, <1>4, <1>7, AppendProperties
<1>9. IInv'
  BY <1>2, StutterKeepsIInv
<1>10. Shape'
  BY <1>2, <1>4, <1>5, <1>6, <1>8 DEF Shape
<1>11. Layout'
  <2>1. /\ Len(pollfds) >= 3
        /\ pollfds[1].fd = ListenFd /\ pollfds[2].fd = UdpFd /\ pollfds[3].fd = StdinFd
        /\ \A j \in 4 .. Len(pollfds) : pollfds[j].fd \in Fds
        /\ \A i, j \in 4 .. Len(pollfds) : i # j => pollfds[i].fd # pollfds[j].fd
        /\ \A g \in Fds : g \in Open <=> \E j \in 4 .. Len(pollfds) : pollfds[j].fd = g
        /\ \A g \in Fds : g \in OpenFds <=> g \in Open
    BY <1>2 DEF Layout, Awaited
  <2>2. Open' = Open \cup {f}
    BY <1>5, <1>6, ConnIsOpen DEF Open
  <2>3. OpenFds' = OpenFds
    BY <1>3 DEF OpenFds
  <2>4. \A g \in Fds : Awaited(g)' <=> g = f
    BY <1>2, <1>4, <1>8 DEF Awaited, NewFd
  <2>5. \A j \in 4 .. Len(pollfds') :
          pollfds'[j].fd = IF j = Len(pollfds) + 1 THEN f ELSE pollfds[j].fd
    BY <1>4, <1>8
  <2>6. /\ pollfds'[1].fd = ListenFd /\ pollfds'[2].fd = UdpFd /\ pollfds'[3].fd = StdinFd
        /\ Len(pollfds') > 3 /\ Len(pollfds') >= 3
    BY <1>4, <1>8, <2>1
  <2>7. \A j \in 4 .. Len(pollfds') : pollfds'[j].fd \in Fds
    BY <1>4, <1>8, <2>1, <2>5
  <2>8. \A i, j \in 4 .. Len(pollfds') : i # j => pollfds'[i].fd # pollfds'[j].fd
    BY <1>1, <1>4, <1>8, <2>1, <2>5
  <2>9. ASSUME NEW g \in Fds
        PROVE  g \in Open' <=> \E j \in 4 .. Len(pollfds') : pollfds'[j].fd = g
    <3>1. CASE g = f
      <4>1. Len(pollfds') \in 4 .. Len(pollfds') /\ pollfds'[Len(pollfds')].fd = f
        BY <1>4, <1>8, <2>1
      <4> QED
        BY <2>2, <3>1, <4>1
    <3>2. CASE g # f
      <4>1. \A j \in 4 .. Len(pollfds') :
              pollfds'[j].fd = g => j \in 4 .. Len(pollfds) /\ pollfds[j].fd = g
        BY <1>4, <1>8, <2>5, <3>2
      <4>2. \A j \in 4 .. Len(pollfds) : j \in 4 .. Len(pollfds') /\ pollfds'[j] = pollfds[j]
        BY <1>4, <1>8
      <4> QED
        BY <2>1, <2>2, <3>2, <4>1, <4>2
    <3> QED
      BY <3>1, <3>2
  <2>10. \A g \in Fds : g \in OpenFds' <=> g \in Open' /\ ~Awaited(g)'
    BY <1>1, <2>1, <2>2, <2>3, <2>4
  <2> QED
    BY <2>6, <2>7, <2>8, <2>9, <2>10 DEF Layout
<1>12. Marks'
  <2>1. num_clients <= Len(pollfds) /\ num_clients' <= Len(pollfds') - 1
    BY <1>2, <1>4, <1>8 DEF Marks
  <2>2. ASSUME NEW j \in k + 1 .. num_clients
        PROVE  /\ pollfds'[j].revents # "unset"
               /\ pollfds'[j].revents = "in" => Readable(pollfds[j].fd)'
    <3>1. j \in slot .. num_clients /\ j \in 1 .. Len(pollfds) /\ j # k
      BY <1>4, <2>1
    <3>2. pollfds'[j] = pollfds[j]
      BY <1>8, <3>1
    <3>3. /\ pollfds[j].revents # "unset"
          /\ pollfds[j].revents = "in" => Readable(pollfds[j].fd)
      BY <1>2, <3>1 DEF Marks
    <3>4. pollfds[j].fd # ListenFd
      BY <1>2, <1>4, <3>1, PolledOnce
    <3>5. CASE pollfds[j].fd \in Fds
      <4>1. j \in 4 .. Len(pollfds)
        BY <1>2, <1>4, <3>1, <3>5, PolledOnce
      <4>2. pollfds[j].fd \in Open
        BY <1>2, <3>5, <4>1 DEF Layout
      <4>3. socks'[pollfds[j].fd] = socks[pollfds[j].fd]
        BY <1>1, <1>6, <3>5, <4>2
      <4> QED
        BY <3>2, <3>3, <3>5, <4>3, FdsAreNew DEF Readable, ListenFd, UdpFd, StdinFd
    <3>6. CASE pollfds[j].fd \notin Fds
      <4>1. pollfds[j].fd \in {UdpFd, StdinFd}
        <5>1. j \in {1, 2, 3}
          BY <1>2, <1>4, <3>1, <3>6, PolledOnce
        <5> QED
          BY <1>2, <3>4, <5>1 DEF Layout
      <4> QED
        BY <1>2, <3>2, <3>3, <3>4, <4>1 DEF Readable, UdpFd, StdinFd
    <3> QED
      BY <3>5, <3>6
  <2> QED
    BY <1>2, <2>1, <2>2 DEF Marks
\* f is no client's yet.
<1>13. RightPeer'
  <2>1. ASSUME NEW i \in DOMAIN clients, Connected(i)
        PROVE  socks'[clients[i].fd] = socks[clients[i].fd]
    <3>1. clients[i].fd \in Fds /\ clients[i].fd \in OpenFds
      BY <2>1, Shapes DEF IInv, Connected, OpenFds
    <3>2. clients[i].fd \in Open
      BY <1>2, <3>1 DEF Layout
    <3> QED
      BY <1>1, <1>6, <3>1, <3>2
  <2> QED
    BY <1>3, <2>1 DEF RightPeer, Connected
<1> QED
  BY <1>9, <1>10, <1>11, <1>12, <1>13

\* The awaited connection becomes that of the client at j, which had none.
LEMMA JoinKeeps ==
  ASSUME SInv, TypeOK', pc = "recvID", NEW id \in IDs, Identified(id), Sends,
         NEW j \in DOMAIN clients', clients'[j] = [ID |-> id, fd |-> NewFd],
         \A i \in DOMAIN clients' : i # j => i \in DOMAIN clients /\ clients'[i] = clients[i],
         \A i \in DOMAIN clients : /\ i \in DOMAIN clients'
                                   /\ i = j => clients[i].fd = NoFd,
         UNCHANGED <<slot, num_clients, pollfds, backlog, datagrams, typed, buffered>>
  PROVE  Shape' /\ Layout' /\ Marks' /\ RightPeer'
<1> USE DEF SInv
<1>1. Running /\ pc' \in {"loop", "died"} /\ Progress
      /\ \A f \in Fds : Pends(socks[f]) => Pends(socks'[f])
  BY SendsProgress DEF Running
<1>2. Len(pollfds) \in Nat /\ DOMAIN pollfds = 1 .. Len(pollfds) /\ Len(pollfds) > 3
  BY <1>1, LenProperties DEF Shape, Layout
<1>3. NewFd \in Fds /\ NewFd \in Open /\ Len(pollfds) \in 4 .. Len(pollfds)
  BY <1>1, <1>2 DEF Layout, NewFd
<1>4. Shape'
  BY <1>1 DEF Shape, Progress
<1>5. Layout'
  <2>1. Open' = Open
    BY <1>1, OpenStays
  <2>2. OpenFds' = OpenFds \cup {NewFd}
    <3>1. \A i \in DOMAIN clients : i # j => clients'[i].fd = clients[i].fd
      OBVIOUS
    <3>2. clients'[j].fd = NewFd /\ NewFd # NoFd
      BY <1>3, FdsAssumption DEF NoFd
    <3>3. OpenFds' \subseteq OpenFds \cup {NewFd}
      BY <3>2 DEF OpenFds
    <3>4. NewFd \in OpenFds'
      BY <3>2 DEF OpenFds
    <3>5. OpenFds \subseteq OpenFds'
      BY <3>1 DEF OpenFds
    <3> QED
      BY <3>3, <3>4, <3>5
  <2>3. \A f \in Fds : f \in OpenFds' <=> f \in Open'
    BY <1>1, <1>3, <2>1, <2>2 DEF Layout, Awaited
  <2>4. \A f \in Fds : ~Awaited(f)'
    BY <1>1 DEF Awaited
  <2> QED
    BY <1>1, <1>2, <2>1, <2>3, <2>4 DEF Layout
<1>6. Marks'
  <2>1. num_clients <= Len(pollfds) - 1 /\ num_clients \in Nat
    BY <1>1 DEF Marks, Shape
  <2>2. ASSUME NEW k \in slot .. num_clients
        PROVE  /\ pollfds[k].revents # "unset"
               /\ pollfds[k].revents = "in" => Readable(pollfds[k].fd)'
    <3>1. k \in DOMAIN pollfds
      BY <1>2, <2>1 DEF Shape
    <3>2. /\ pollfds[k].revents # "unset"
          /\ pollfds[k].revents = "in" => Readable(pollfds[k].fd)
      BY <1>1 DEF Marks
    <3>3. Readable(pollfds[k].fd) => Readable(pollfds[k].fd)'
      BY <1>1, <3>1, StillReadable
    <3> QED
      BY <3>2, <3>3
  <2> QED
    BY <1>2, <2>1, <2>2 DEF Marks
<1>7. RightPeer'
  <2>1. ASSUME NEW i \in DOMAIN clients', Connected(i)'
        PROVE  StandsFor(socks'[clients'[i].fd], clients'[i].ID)
    <3>1. CASE i = j
      <4>1. Continues(socks[NewFd], socks'[NewFd]) /\ socks[NewFd] \in Conn \cup {NoSock}
        BY <1>1, <1>3 DEF Progress, Shape
      <4>2. StandsFor(socks[NewFd], id)
        BY DEF Identified, StandsFor
      <4>3. StandsFor(socks'[NewFd], id)
        BY <4>1, <4>2, StandingStays
      <4> QED
        BY <3>1, <4>3
    <3>2. CASE i # j
      <4>1. i \in DOMAIN clients /\ clients'[i] = clients[i] /\ Connected(i)
        BY <2>1, <3>2 DEF Connected
      <4>2. clients[i].fd \in Fds
        BY <4>1, Shapes DEF IInv, Connected
      <4>3. /\ Continues(socks[clients[i].fd], socks'[clients[i].fd])
            /\ socks[clients[i].fd] \in Conn \cup {NoSock}
        BY <1>1, <4>2 DEF Progress, Shape
      <4>4. StandsFor(socks[clients[i].fd], clients[i].ID)
        BY <4>1 DEF RightPeer
      <4>5. StandsFor(socks'[clients[i].fd], clients[i].ID)
        BY <4>3, <4>4, StandingStays
      <4> QED
        BY <4>1, <4>5
    <3> QED
      BY <3>1, <3>2
  <2> QED
    BY <2>1 DEF RightPeer
<1> QED
  BY <1>4, <1>5, <1>6, <1>7

\* A refused connection is the last entry, which goes again.
LEMMA RefusedKeeps ==
  ASSUME SInv, pc = "recvID", NEW id \in IDs, Refuse(id),
         socks' = [socks EXCEPT ![NewFd] = NoSock], pollfds' = Shortened, pc' = "loop",
         UNCHANGED <<slot, num_clients, backlog, datagrams, typed, buffered>>
  PROVE  SInv'
<1> USE DEF SInv
<1>1. Running /\ UNCHANGED clients
  BY DEF Running, Refuse, state
<1>2. /\ pollfds \in Seq(Pollfd) /\ Len(pollfds) \in Nat
      /\ DOMAIN pollfds = 1 .. Len(pollfds) /\ Len(pollfds) > 3
  BY <1>1, LenProperties DEF Shape, Layout
<1>3. /\ pollfds' \in Seq(Pollfd) /\ Len(pollfds') = Len(pollfds) - 1
      /\ \A k \in 1 .. Len(pollfds) - 1 : pollfds'[k] = pollfds[k]
  <2>1. \A k \in 1 .. Len(pollfds) - 1 : pollfds[k] \in Pollfd
    BY <1>2, ElementOfSeq
  <2>2. Len(pollfds) - 1 \in Int /\ 1 \in Int
    BY <1>2
  <2> QED
    BY <1>2, <2>1, <2>2, SubSeqProperties DEF Shortened
<1>4. NewFd \in Fds /\ NewFd \in Open
      /\ \A k \in 1 .. Len(pollfds) - 1 : pollfds[k].fd # NewFd
  <2>1. Len(pollfds) \in 4 .. Len(pollfds)
    BY <1>2
  <2> QED
    BY <1>1, <1>2, <2>1, PolledOnce DEF Layout, NewFd
<1>5. /\ socks' \in [Fds -> Conn \cup {NoSock}] /\ socks'[NewFd] = NoSock
      /\ \A f \in Fds : f # NewFd => socks'[f] = socks[f]
  BY <1>4 DEF Shape
<1>6. IInv'
  BY RefuseKeepsIInv
<1>7. Shape'
  BY <1>3, <1>5 DEF Shape
<1>8. Layout'
  <2>1. /\ pollfds[1].fd = ListenFd /\ pollfds[2].fd = UdpFd /\ pollfds[3].fd = StdinFd
        /\ \A k \in 4 .. Len(pollfds) : pollfds[k].fd \in Fds
        /\ \A j, k \in 4 .. Len(pollfds) : j # k => pollfds[j].fd # pollfds[k].fd
        /\ \A f \in Fds : f \in Open <=> \E k \in 4 .. Len(pollfds) : pollfds[k].fd = f
        /\ \A f \in Fds : f \in OpenFds <=> f \in Open /\ f # NewFd
    BY <1>1 DEF Layout, Awaited
  <2>2. Open' = Open \ {NewFd}
    BY <1>4, <1>5 DEF Open
  <2>3. \A k \in 4 .. Len(pollfds') : k \in 4 .. Len(pollfds) /\ pollfds'[k] = pollfds[k]
    BY <1>2, <1>3
  <2>4. /\ pollfds'[1].fd = ListenFd /\ pollfds'[2].fd = UdpFd /\ pollfds'[3].fd = StdinFd
        /\ Len(pollfds') >= 3
    <3>1. /\ 1 \in 1 .. Len(pollfds) - 1 /\ 2 \in 1 .. Len(pollfds) - 1
          /\ 3 \in 1 .. Len(pollfds) - 1 /\ Len(pollfds) - 1 >= 3
      BY <1>2
    <3>2. pollfds'[1] = pollfds[1] /\ pollfds'[2] = pollfds[2] /\ pollfds'[3] = pollfds[3]
      BY <1>3, <3>1
    <3> QED
      BY <1>3, <2>1, <3>1, <3>2
  <2>5. ASSUME NEW f \in Fds
        PROVE  f \in Open' <=> \E k \in 4 .. Len(pollfds') : pollfds'[k].fd = f
    <3>1. \A k \in 4 .. Len(pollfds') : pollfds'[k].fd # NewFd
      BY <1>2, <1>3, <1>4, <2>3
    <3>2. ASSUME NEW k \in 4 .. Len(pollfds), pollfds[k].fd # NewFd
          PROVE  k \in 4 .. Len(pollfds')
      BY <1>2, <1>3, <3>2 DEF NewFd
    <3> QED
      BY <2>1, <2>2, <2>3, <3>1, <3>2
  <2>6. OpenFds' = OpenFds /\ \A f \in Fds : ~Awaited(f)'
    BY <1>1 DEF OpenFds, Awaited
  <2>7. \A j, k \in 4 .. Len(pollfds') : j # k => pollfds'[j].fd # pollfds'[k].fd
    BY <2>1, <2>3
  <2> QED
    BY <2>1, <2>2, <2>3, <2>4, <2>5, <2>6, <2>7 DEF Layout
<1>9. Marks'
  <2>1. num_clients <= Len(pollfds) - 1 /\ num_clients \in Nat
    BY <1>1 DEF Marks, Shape
  <2>2. ASSUME NEW k \in slot .. num_clients
        PROVE  /\ pollfds'[k].revents # "unset"
               /\ pollfds'[k].revents = "in" => Readable(pollfds[k].fd)'
    <3>1. k \in 1 .. Len(pollfds) - 1
      BY <1>2, <2>1 DEF Shape
    <3>2. pollfds'[k] = pollfds[k]
      BY <1>3, <3>1
    <3>3. /\ pollfds[k].revents # "unset"
          /\ pollfds[k].revents = "in" => Readable(pollfds[k].fd)
      BY <1>1 DEF Marks
    <3>4. CASE pollfds[k].fd \in Fds
      BY <1>4, <1>5, <3>1, <3>2, <3>3, <3>4, FdsAreNew DEF Readable, ListenFd, UdpFd, StdinFd
    <3>5. CASE pollfds[k].fd \notin Fds
      <4>1. k \in {1, 2, 3}
        BY <1>1, <1>2, <3>1, <3>5, PolledOnce
      <4>2. pollfds[k].fd \in {ListenFd, UdpFd, StdinFd}
        BY <1>1, <4>1 DEF Layout
      <4> QED
        BY <3>2, <3>3, <4>2 DEF Readable, ListenFd, UdpFd, StdinFd
    <3> QED
      BY <3>4, <3>5
  <2> QED
    BY <1>3, <2>1, <2>2 DEF Marks
<1>10. RightPeer'
  <2>1. ASSUME NEW i \in DOMAIN clients, Connected(i)
        PROVE  socks'[clients[i].fd] = socks[clients[i].fd]
    <3>1. clients[i].fd \in Fds /\ clients[i].fd \in OpenFds
      BY <2>1, Shapes DEF IInv, Connected, OpenFds
    <3>2. clients[i].fd # NewFd
      BY <1>1, <3>1 DEF Layout, Awaited
    <3> QED
      BY <1>5, <3>1, <3>2
  <2> QED
    BY <1>1, <2>1 DEF RightPeer, Connected
<1> QED
  BY <1>6, <1>7, <1>8, <1>9, <1>10

\* The awaited connection is refused, or joins the table of clients.
LEMMA RecvIDKeeps ==
  ASSUME SInv, NEW id \in IDs, RecvID(id)
  PROVE  SInv'
<1> USE DEF SInv
<1>1. /\ pc = "recvID" /\ Identified(id)
      /\ UNCHANGED <<slot, num_clients, backlog, datagrams, typed, buffered>>
  BY DEF RecvID, console
<1>2. /\ clients \in Seq(Client) /\ Len(clients) \in Nat
      /\ DOMAIN clients = 1 .. Len(clients)
      /\ \A i \in DOMAIN clients : clients[i] \in Client
  BY LenProperties, ElementOfSeq DEF IInv, TypeOK
<1>3. CASE /\ Refuse(id)
           /\ socks' = [socks EXCEPT ![NewFd] = NoSock]
           /\ pollfds' = Shortened
           /\ pc' = "loop"
  BY <1>1, <1>3, RefusedKeeps
<1>4. ASSUME Register(id, NewFd), Sends, UNCHANGED pollfds PROVE SInv'
  <2>1. NewFd \in Fds /\ [ID |-> id, fd |-> NewFd] \in Client
    BY <1>4 DEF Register, Lowest, Client
  <2>2. IInv'
    BY <1>4, <2>1, RegisterKeepsIInv
  <2>3. clients' = Append(clients, [ID |-> id, fd |-> NewFd])
    BY <1>4 DEF Register
  <2>4. /\ DOMAIN clients' = 1 .. Len(clients) + 1
        /\ \A i \in 1 .. Len(clients) : clients'[i] = clients[i]
        /\ clients'[Len(clients) + 1] = [ID |-> id, fd |-> NewFd]
    BY <1>2, <2>1, <2>3, AppendProperties, LenProperties
  <2>5. /\ \A i \in DOMAIN clients' :
             i # Len(clients) + 1 => i \in DOMAIN clients /\ clients'[i] = clients[i]
        /\ \A i \in DOMAIN clients : i \in DOMAIN clients' /\ i # Len(clients) + 1
        /\ Len(clients) + 1 \in DOMAIN clients'
    BY <1>2, <2>4
  <2>6. Shape' /\ Layout' /\ Marks' /\ RightPeer'
    BY <1>1, <1>4, <2>2, <2>4, <2>5, JoinKeeps DEF IInv
  <2> QED
    BY <2>2, <2>6
<1>5. ASSUME NEW i \in DOMAIN clients, clients[i].ID = id,
             Reconnect(i, NewFd), Sends, UNCHANGED pollfds
      PROVE  SInv'
  <2>1. NewFd \in Fds /\ clients[i].fd = NoFd
    BY <1>5 DEF Reconnect, Lowest, Connected
  <2>2. IInv'
    BY <1>5, <2>1, ReconnectKeepsIInv
  <2>3. clients' = [clients EXCEPT ![i].fd = NewFd]
    BY <1>5 DEF Reconnect
  <2>4. /\ DOMAIN clients' = DOMAIN clients
        /\ \A j \in DOMAIN clients : j # i => clients'[j] = clients[j]
        /\ clients'[i] = [ID |-> id, fd |-> NewFd]
    BY <1>2, <1>5, <2>3 DEF Client
  <2>5. Shape' /\ Layout' /\ Marks' /\ RightPeer'
    BY <1>1, <1>5, <2>1, <2>2, <2>4, JoinKeeps DEF IInv
  <2> QED
    BY <2>2, <2>5
<1> QED
  BY <1>3, <1>4, <1>5 DEF RecvID

\* A step of the scan, at k, that serves entry k and leaves pollfds and the
\* table of clients alone.
LEMMA ServedKeeps ==
  ASSUME SInv, NEW k \in DOMAIN pollfds, Turn(k), slot' = k + 1,
         UNCHANGED <<clients, pollfds, num_clients>>, Progress,
         pc' \in {"loop", "stopped", "died"},
         pollfds[k].fd # ListenFd => UNCHANGED backlog,
         pollfds[k].fd # UdpFd => UNCHANGED datagrams,
         pollfds[k].fd # StdinFd => UNCHANGED typed,
         \A f \in Fds : f # pollfds[k].fd /\ Pends(socks[f]) => Pends(socks'[f])
  PROVE  Layout' /\ Marks' /\ RightPeer'
<1> USE DEF SInv
<1>1. Running /\ pc = "loop"
  BY DEF Turn, Running
<1>2. /\ k \in 1 .. Len(pollfds) /\ k \in slot .. num_clients
      /\ Len(pollfds) \in Nat /\ DOMAIN pollfds = 1 .. Len(pollfds)
      /\ slot \in Nat /\ num_clients \in Nat /\ num_clients <= Len(pollfds)
  BY <1>1, TurnIsReadable, LenProperties DEF Shape, Marks
<1>3. ASSUME NEW j \in k + 1 .. num_clients, Readable(pollfds[j].fd)
      PROVE  Readable(pollfds[j].fd)'
  <2>1. j \in DOMAIN pollfds /\ j # k
    BY <1>2
  <2>2. pollfds[j].fd # pollfds[k].fd
    BY <1>1, <2>1, PolledOnce
  <2> QED
    BY <1>1, <1>3, <2>1, <2>2, StillReadable
<1>4. Layout'
  BY <1>1, LayoutStays
<1>5. Marks'
  BY <1>1, <1>2, <1>3, MarksStay
<1>6. RightPeer'
  BY PeersStay DEF IInv
<1> QED
  BY <1>4, <1>5, <1>6

\* A datagram is stored or sent on.
LEMMA DatagramKeeps ==
  ASSUME SInv, NEW k \in DOMAIN pollfds, Datagram(k)
  PROVE  SInv'
<1> USE DEF SInv
<1>1. /\ Turn(k) /\ pollfds[k].fd = UdpFd /\ Sends
      /\ datagrams' = Tail(datagrams) /\ slot' = k + 1
      /\ UNCHANGED <<num_clients, pollfds, backlog, typed, buffered>>
  BY DEF Datagram, console
<1>2. datagrams # << >> /\ k \in Nat
  BY <1>1, TurnIsReadable, ReadableIs
<1>3. Head(datagrams) \in Topics \X Msgs /\ Tail(datagrams) \in Seq(Topics \X Msgs)
  BY <1>2, HeadTailProperties DEF Shape
<1>4. IInv' /\ UNCHANGED clients
  <2>1. Head(datagrams)[1] \in Topics /\ Head(datagrams)[2] \in Msgs
    BY <1>3
  <2>2. CASE Create(Head(datagrams)[1])
    BY <2>1, <2>2, CreateKeepsIInv DEF Create
  <2>3. CASE Publish(Head(datagrams)[1], Head(datagrams)[2])
    BY <2>1, <2>3, PublishKeepsIInv DEF Publish
  <2> QED
    BY <2>2, <2>3 DEF Datagram
<1>5. /\ Progress /\ pc' \in {"loop", "died"}
      /\ \A f \in Fds : Pends(socks[f]) => Pends(socks'[f])
  BY <1>1, SendsProgress
<1>6. Shape'
  BY <1>1, <1>2, <1>3, <1>5 DEF Shape, Progress
<1>7. Layout' /\ Marks' /\ RightPeer'
  BY <1>1, <1>4, <1>5, ServedKeeps
<1> QED
  BY <1>4, <1>6, <1>7

\* A line typed at the server is taken.
LEMMA ConsoleKeeps ==
  ASSUME SInv, NEW k \in DOMAIN pollfds, Console(k)
  PROVE  SInv'
<1> USE DEF SInv
<1> DEFINE lines == IF buffered = << >> THEN typed ELSE buffered
<1>1. /\ Turn(k) /\ pollfds[k].fd = StdinFd /\ slot' = k + 1 /\ pc = "loop"
      /\ pc' = (IF Head(lines) = "exit" THEN "stopped" ELSE pc)
      /\ buffered' = Tail(lines)
      /\ typed' = IF buffered = << >> THEN << >> ELSE typed
      /\ UNCHANGED <<num_clients, pollfds, backlog, socks, datagrams, vars>>
  BY DEF Console, Turn
<1>2. k \in Nat /\ typed # << >>
  BY <1>1, TurnIsReadable, ReadableIs
<1>3. Tail(lines) \in Seq(Lines) /\ typed' \in Seq(Lines)
  BY <1>1, <1>2, HeadTailProperties, EmptySeq DEF Shape
<1>4. IInv' /\ UNCHANGED clients
  BY <1>1, StutterKeepsIInv DEF vars, state
<1>5. Progress /\ \A f \in Fds : Pends(socks[f]) => Pends(socks'[f])
  BY <1>1, SocksProgress
<1>6. pc' \in {"loop", "stopped"}
  BY <1>1
<1>7. Shape'
  BY <1>1, <1>2, <1>3, <1>6 DEF Shape
<1>8. Layout' /\ Marks' /\ RightPeer'
  BY <1>1, <1>4, <1>5, <1>6, ServedKeeps
<1> QED
  BY <1>4, <1>7, <1>8

\* A request of a client is carried out or ignored.
LEMMA RequestKeeps ==
  ASSUME SInv, NEW k \in DOMAIN pollfds, Request(k)
  PROVE  SInv'
<1> USE DEF SInv
<1> DEFINE f == pollfds[k].fd
           r == Head(socks[f].in)
<1>1. /\ Turn(k) /\ f \in Fds /\ socks[f].in # << >> /\ slot' = k + 1 /\ pc = "loop"
      /\ socks' = [socks EXCEPT ![f].in = Tail(@)]
      /\ UNCHANGED <<pc, num_clients, pollfds, backlog, datagrams, typed, buffered>>
  BY DEF Request, Turn, console
<1>2. PICK i \in Owner(f) :
        \/ r.type = 0 /\ Unsubscribe(i, r.topic)
        \/ r.type = 1 /\ Subscribe(i, r.topic)
        \/ r.type = 2 /\ SubscribeSF(i, r.topic)
        \/ r.type = 3 /\ UNCHANGED vars
  BY DEF Request
<1>3. k \in Nat /\ socks[f] \in Conn /\ f \in Open
  BY <1>1, TurnIsReadable
<1>4. r \in Requests /\ Tail(socks[f].in) \in Seq(Requests)
  BY <1>1, <1>3, HeadTailProperties DEF Conn
<1>5. IInv' /\ UNCHANGED clients
  <2>1. i \in DOMAIN clients /\ r.topic \in Topics
    BY <1>4, RequestsAssumption DEF Owner
  <2>2. CASE Unsubscribe(i, r.topic)
    BY <2>1, <2>2, UnsubscribeKeepsIInv DEF Unsubscribe
  <2>3. CASE Subscribe(i, r.topic)
    BY <2>1, <2>3, SubscribeKeepsIInv DEF Subscribe, SubscribeAs
  <2>4. CASE SubscribeSF(i, r.topic)
    BY <2>1, <2>4, SubscribeKeepsIInv DEF SubscribeSF, SubscribeAs
  <2>5. CASE UNCHANGED vars
    BY <2>5, StutterKeepsIInv DEF vars, state
  <2> QED
    BY <1>2, <2>2, <2>3, <2>4, <2>5
<1>6. /\ Progress
      /\ \A g \in Fds : g # f => socks'[g] = socks[g]
  <2> HIDE DEF f
  <2>1. /\ socks \in [Fds -> Conn \cup {NoSock}]
        /\ socks' = [socks EXCEPT ![f] = [socks[f] EXCEPT !.in = Tail(socks[f].in)]]
    BY <1>1 DEF Shape
  <2>2. [socks[f] EXCEPT !.in = Tail(socks[f].in)] \in Conn
    BY <1>1, <1>3, <1>4 DEF Conn
  <2>3. /\ socks' \in [Fds -> Conn \cup {NoSock}]
        /\ socks'[f] = [socks[f] EXCEPT !.in = Tail(socks[f].in)]
        /\ \A g \in Fds : g # f => socks'[g] = socks[g]
    BY <1>1, <2>1, <2>2
  <2>4. Continues(socks[f], socks'[f])
    <3>1. /\ socks'[f].end = socks[f].end /\ socks'[f].id = socks[f].id
          /\ socks'[f].hello = socks[f].hello /\ socks'[f] \in Conn
      BY <1>3, <2>2, <2>3 DEF Conn
    <3> QED
      BY <1>3, <3>1, ConnIsOpen DEF Continues
  <2>5. ASSUME NEW g \in Fds, g # f PROVE Continues(socks[g], socks'[g])
    BY <2>1, <2>3, <2>5 DEF Continues
  <2> QED
    BY <2>3, <2>4, <2>5 DEF Progress
<1>7. Shape'
  BY <1>1, <1>3, <1>6 DEF Shape, Progress
<1>8. Layout' /\ Marks' /\ RightPeer'
  BY <1>1, <1>5, <1>6, ServedKeeps
<1> QED
  BY <1>5, <1>7, <1>8

\* The table of clients loses the connection that ended, and no other.
LEMMA LeavesOne ==
  ASSUME IInv, NEW f \in Fds, NEW i \in Owner(f), Disconnect(i)
  PROVE  /\ OpenFds' = OpenFds \ {f} /\ DOMAIN clients' = DOMAIN clients
         /\ \A j \in DOMAIN clients : Connected(j)' =>
              clients'[j] = clients[j] /\ clients[j].fd \in Fds \ {f}
<1> USE DEF IInv
<1>1. /\ i \in DOMAIN clients /\ clients[i].fd = f /\ f # NoFd /\ Connected(i)
      /\ clients' = [clients EXCEPT ![i].fd = NoFd]
  BY FdsAssumption DEF Owner, Disconnect, NoFd, Connected
<1>2. /\ clients \in Seq(Client) /\ i \in 1 .. Len(clients)
      /\ DOMAIN clients = 1 .. Len(clients)
      /\ \A j \in DOMAIN clients : clients[j] \in Client
  BY <1>1, LenProperties, ElementOfSeq DEF TypeOK
<1>3. /\ DOMAIN clients' = DOMAIN clients /\ clients'[i].fd = NoFd
      /\ \A j \in DOMAIN clients : j # i => clients'[j] = clients[j]
  BY <1>1, <1>2 DEF Client
<1>4. ASSUME NEW j \in DOMAIN clients, j # i PROVE clients[j].fd # f
  BY <1>1, <1>4 DEF OneConnectionPerID
<1>5. OpenFds' = OpenFds \ {f}
  <2>1. OpenFds' \subseteq OpenFds \ {f}
    BY <1>3, <1>4 DEF OpenFds
  <2>2. OpenFds \ {f} \subseteq OpenFds'
    BY <1>1, <1>3 DEF OpenFds
  <2> QED
    BY <2>1, <2>2
<1>6. ASSUME NEW j \in DOMAIN clients, Connected(j)'
      PROVE  clients'[j] = clients[j] /\ clients[j].fd \in Fds \ {f}
  <2>1. j # i
    BY <1>3, <1>6 DEF Connected
  <2>2. clients'[j] = clients[j] /\ clients[j].fd # f
    BY <1>3, <1>4, <2>1
  <2> QED
    BY <1>2, <1>6, <2>2 DEF Connected, Client
<1> QED
  BY <1>3, <1>5, <1>6

\* The entry of a connection that ended is removed, and those behind it move up.
LEMMA EndOfFileKeeps ==
  ASSUME SInv, NEW k \in DOMAIN pollfds, EndOfFile(k)
  PROVE  SInv'
<1> USE DEF SInv
<1> DEFINE f == pollfds[k].fd
           n == Len(pollfds)
           from(j) == IF j < k THEN j ELSE j + 1
<1>1. /\ Turn(k) /\ f \in Fds /\ pc = "loop" /\ Running /\ slot' = k + 1
      /\ socks' = [socks EXCEPT ![f] = NoSock]
      /\ pollfds' = [j \in 1 .. n - 1 |-> pollfds[from(j)]]
      /\ num_clients' = num_clients - 1
      /\ UNCHANGED <<pc, backlog, datagrams, typed, buffered>>
  BY DEF EndOfFile, Turn, Running, Remove, Removed, console
<1>2. PICK i \in Owner(f) : Disconnect(i)
  BY DEF EndOfFile
<1>3. /\ pollfds \in Seq(Pollfd) /\ n \in Nat /\ DOMAIN pollfds = 1 .. n
      /\ slot \in Nat \ {0} /\ num_clients \in Nat /\ num_clients <= n
      /\ \A j \in 1 .. n : pollfds[j] \in Pollfd
  BY <1>1, LenProperties, ElementOfSeq DEF Shape, Marks
<1>4. k \in 4 .. n /\ k \in slot .. num_clients /\ f \in Open
  BY <1>1, <1>3, TurnIsReadable
<1>5. IInv'
  BY <1>2, DisconnectKeepsIInv DEF Owner
<1>6. /\ OpenFds' = OpenFds \ {f} /\ DOMAIN clients' = DOMAIN clients
      /\ \A j \in DOMAIN clients : Connected(j)' =>
           clients'[j] = clients[j] /\ clients[j].fd \in Fds \ {f}
  BY <1>1, <1>2, LeavesOne
<1>7. \A j \in 1 .. n - 1 : from(j) \in 1 .. n /\ from(j) # k
  BY <1>3, <1>4
<1>8. /\ pollfds' \in Seq(Pollfd) /\ Len(pollfds') = n - 1
      /\ \A j \in 1 .. n - 1 : pollfds'[j] = pollfds[from(j)]
  <2> HIDE DEF n, from, f
  <2>1. pollfds' \in [1 .. n - 1 -> Pollfd]
    BY <1>1, <1>3, <1>7
  <2>2. n - 1 \in Nat
    BY <1>3, <1>4
  <2>3. pollfds' \in Seq(Pollfd) /\ Len(pollfds') = n - 1
    BY <2>1, <2>2, FunctionIsSeq
  <2> QED
    BY <1>1, <2>3
<1>9. /\ socks' \in [Fds -> Conn \cup {NoSock}] /\ socks'[f] = NoSock
      /\ \A g \in Fds : g # f => socks'[g] = socks[g]
  BY <1>1 DEF Shape
<1>10. Shape'
  <2>1. num_clients' \in Nat /\ slot' \in Nat \ {0}
    BY <1>1, <1>3, <1>4
  <2> QED
    BY <1>1, <1>8, <1>9, <2>1 DEF Shape
\* No other entry has the descriptor.
<1>11. \A j \in 1 .. n : j # k => pollfds[j].fd # f
  BY <1>1, <1>3, <1>4, PolledOnce
<1>12. Layout'
  <2>1. /\ pollfds[1].fd = ListenFd /\ pollfds[2].fd = UdpFd /\ pollfds[3].fd = StdinFd
        /\ \A j \in 4 .. n : pollfds[j].fd \in Fds
        /\ \A i1, j \in 4 .. n : i1 # j => pollfds[i1].fd # pollfds[j].fd
        /\ \A g \in Fds : g \in Open <=> \E j \in 4 .. n : pollfds[j].fd = g
        /\ \A g \in Fds : g \in OpenFds <=> g \in Open
    BY <1>1 DEF Layout, Awaited
  <2>2. Open' = Open \ {f}
    BY <1>9 DEF Open
  <2>3. \A g \in Fds : ~Awaited(g)'
    BY <1>1 DEF Awaited
  <2>4. /\ pollfds'[1].fd = ListenFd /\ pollfds'[2].fd = UdpFd /\ pollfds'[3].fd = StdinFd
        /\ n - 1 >= 3
    <3>1. /\ 1 \in 1 .. n - 1 /\ 2 \in 1 .. n - 1 /\ 3 \in 1 .. n - 1 /\ n - 1 >= 3
          /\ from(1) = 1 /\ from(2) = 2 /\ from(3) = 3
      BY <1>3, <1>4
    <3> HIDE DEF n, from
    <3>2. pollfds'[1] = pollfds[1] /\ pollfds'[2] = pollfds[2] /\ pollfds'[3] = pollfds[3]
      BY <1>8, <3>1
    <3> QED
      BY <2>1, <3>1, <3>2
  <2>5. \A j \in 4 .. n - 1 : /\ from(j) \in 4 .. n /\ from(j) # k
                              /\ pollfds'[j] = pollfds[from(j)]
    BY <1>3, <1>4, <1>8
  <2>6. \A i1, j \in 4 .. n - 1 : i1 # j => from(i1) # from(j)
    BY <1>3, <1>4
  <2>7. \A j \in 4 .. n : j # k => \E l \in 4 .. n - 1 : from(l) = j
    <3>1. ASSUME NEW j \in 4 .. n, j # k PROVE \E l \in 4 .. n - 1 : from(l) = j
      <4>1. CASE j < k
        BY <1>3, <1>4, <4>1
      <4>2. CASE j > k
        <5>1. j - 1 \in 4 .. n - 1 /\ from(j - 1) = j
          BY <1>3, <1>4, <4>2
        <5> QED
          BY <5>1
      <4> QED
        BY <1>3, <1>4, <3>1, <4>1, <4>2
    <3> QED
      BY <3>1
  <2> HIDE DEF from
  <2>8. \A j \in 4 .. n - 1 : pollfds'[j].fd \in Fds
    BY <2>1, <2>5
  <2>9. \A i1, j \in 4 .. n - 1 : i1 # j => pollfds'[i1].fd # pollfds'[j].fd
    BY <2>1, <2>5, <2>6
  <2>10. ASSUME NEW g \in Fds
         PROVE  g \in Open' <=> \E j \in 4 .. n - 1 : pollfds'[j].fd = g
    <3>1. ASSUME NEW j \in 4 .. n - 1, pollfds'[j].fd = g PROVE g \in Open'
      <4>1. from(j) \in 1 .. n /\ pollfds[from(j)].fd # f
        BY <1>3, <1>11, <2>5
      <4> QED
        BY <2>1, <2>2, <2>5, <3>1, <4>1
    <3>2. ASSUME g \in Open' PROVE \E j \in 4 .. n - 1 : pollfds'[j].fd = g
      <4>1. PICK l \in 4 .. n : pollfds[l].fd = g /\ l # k
        BY <2>1, <2>2, <3>2
      <4>2. PICK j \in 4 .. n - 1 : from(j) = l
        BY <2>7, <4>1
      <4> QED
        BY <2>5, <4>1, <4>2
    <3> QED
      BY <3>1, <3>2
  <2>11. \A g \in Fds : g \in OpenFds' <=> g \in Open' /\ ~Awaited(g)'
    BY <1>6, <2>1, <2>2, <2>3
  <2> HIDE DEF n, f
  <2>12. Len(pollfds') = n - 1 /\ pc' = "loop"
    BY <1>1, <1>8
  <2> QED
    BY <2>4, <2>8, <2>9, <2>10, <2>11, <2>12 DEF Layout
<1>13. Marks'
  <2>1. ASSUME NEW j \in k + 1 .. num_clients - 1
        PROVE  /\ pollfds'[j].revents # "unset"
               /\ pollfds'[j].revents = "in" => Readable(pollfds[j].fd)'
    <3>1. /\ j \in 4 .. n - 1 /\ j + 1 \in 4 .. n /\ j + 1 \in 1 .. n /\ j + 1 # k
          /\ j + 1 \in slot .. num_clients /\ from(j) = j + 1
      BY <1>3, <1>4
    <3>2. pollfds'[j] = pollfds[j + 1]
      BY <1>3, <1>8, <3>1
    <3>3. /\ pollfds[j + 1].revents # "unset"
          /\ pollfds[j + 1].revents = "in" => Readable(pollfds[j + 1].fd)
      BY <1>1, <3>1 DEF Marks
    <3>4. pollfds[j + 1].fd \in Fds /\ pollfds[j + 1].fd # f
      BY <1>1, <1>11, <3>1 DEF Layout
    <3>5. socks'[pollfds[j + 1].fd] = socks[pollfds[j + 1].fd]
      BY <1>9, <3>4
    <3> QED
      BY <3>2, <3>3, <3>4, <3>5, FdsAreNew DEF Readable, ListenFd, UdpFd, StdinFd
  <2>2. num_clients - 1 <= n - 1
    BY <1>3
  <2> HIDE DEF n
  <2> QED
    BY <1>1, <1>8, <2>1, <2>2 DEF Marks
<1>14. RightPeer'
  <2>1. ASSUME NEW j \in DOMAIN clients', Connected(j)'
        PROVE  StandsFor(socks'[clients'[j].fd], clients'[j].ID)
    <3>1. /\ j \in DOMAIN clients /\ clients'[j] = clients[j] /\ clients[j].fd \in Fds
          /\ clients[j].fd # f /\ Connected(j)
      BY <1>6, <2>1 DEF Connected
    <3>2. socks'[clients[j].fd] = socks[clients[j].fd]
      BY <1>9, <3>1
    <3> QED
      BY <2>1, <3>1, <3>2 DEF RightPeer
  <2> QED
    BY <2>1 DEF RightPeer
<1> QED
  BY <1>5, <1>10, <1>12, <1>13, <1>14

\* The server dies of a descriptor it cannot serve, or of a failing call.
LEMMA DieKeeps ==
  ASSUME SInv, PollFails \/ \E k \in DOMAIN pollfds : Die(k)
  PROVE  SInv'
<1> USE DEF SInv
<1>1. /\ pc' = "died"
      /\ UNCHANGED <<slot, num_clients, pollfds, backlog, socks, datagrams, typed, buffered, vars>>
  BY DEF PollFails, Die, kernel
<1>2. IInv' /\ UNCHANGED clients
  BY <1>1, StutterKeepsIInv DEF vars, state
<1>3. Shape'
  BY <1>1 DEF Shape
<1>4. RightPeer'
  BY <1>1, <1>2, SocksProgress, PeersStay DEF IInv
<1>5. Layout' /\ Marks'
  BY <1>1 DEF Layout, Marks, Running
<1> QED
  BY <1>2, <1>3, <1>4, <1>5

\* Whatever subscribers, publishers and the operator do between two steps of
\* the server, its books stay right and what it is to serve stays readable.
LEMMA AroundKeeps ==
  ASSUME SInv, Running, UNCHANGED <<vars, loop>>, Progress,
         backlog' \in Seq(Conn), datagrams' \in Seq(Topics \X Msgs),
         typed' \in Seq(Lines), UNCHANGED buffered,
         backlog # << >> => backlog' # << >>,
         datagrams # << >> => datagrams' # << >>,
         typed # << >> => typed' # << >>,
         \A f \in Fds : Pends(socks[f]) => Pends(socks'[f])
  PROVE  SInv'
<1> USE DEF SInv
<1>1. UNCHANGED <<clients, pc, slot, num_clients, pollfds>>
  BY DEF vars, state, loop
<1>2. IInv'
  BY StutterKeepsIInv
<1>3. Shape'
  BY <1>1 DEF Shape, Progress
<1>4. Layout'
  BY <1>1, LayoutStays
<1>5. Marks'
  <2>1. num_clients \in Nat /\ slot \in Nat \ {0} /\ num_clients <= Len(pollfds)
        /\ Len(pollfds) \in Nat /\ DOMAIN pollfds = 1 .. Len(pollfds)
    BY LenProperties DEF Shape, Marks
  <2>2. ASSUME NEW k \in slot .. num_clients, Readable(pollfds[k].fd)
        PROVE  Readable(pollfds[k].fd)'
    <3>1. k \in DOMAIN pollfds
      BY <2>1
    <3> QED
      BY <1>1, <2>2, <3>1, StillReadable
  <2> QED
    BY <1>1, <2>1, <2>2, MarksStay
<1>6. RightPeer'
  BY <1>1, PeersStay DEF IInv
<1> QED
  BY <1>2, <1>3, <1>4, <1>5, <1>6

\* The steps of the others are of this kind.
LEMMA OutsideKeeps == SInv /\ Outside => SInv'
<1> SUFFICES ASSUME SInv, Outside PROVE SInv'
  OBVIOUS
<1> USE DEF SInv
<1>1. Running /\ UNCHANGED <<vars, loop>>
  BY DEF Outside
<1>2. /\ backlog \in Seq(Conn) /\ datagrams \in Seq(Topics \X Msgs)
      /\ typed \in Seq(Lines) /\ socks \in [Fds -> Conn \cup {NoSock}]
  BY DEF Shape
<1>3. ASSUME NEW id \in IDs, Connect(id) PROVE SInv'
  <2> DEFINE c == [id |-> id, hello |-> FALSE, in |-> << >>, unread |-> FALSE, end |-> "no"]
  <2>1. c \in Conn
    BY EmptySeq DEF Conn
  <2>2. backlog' = Append(backlog, c) /\ UNCHANGED <<socks, datagrams, typed, buffered>>
    BY <1>3 DEF Connect, console
  <2> HIDE DEF c
  <2>3. backlog' \in Seq(Conn) /\ backlog' # << >>
    BY <1>2, <2>1, <2>2, AppendProperties
  <2> QED
    BY <1>1, <1>2, <2>2, <2>3, SocksProgress, AroundKeeps
<1>4. ASSUME Accepted PROVE SInv'
  <2>1. PICK f \in Open : \E c \in Doings(socks[f]) : socks' = [socks EXCEPT ![f] = c]
    BY <1>4 DEF Accepted
  <2>2. PICK c \in Doings(socks[f]) : socks' = [socks EXCEPT ![f] = c]
    BY <2>1
  <2>3. UNCHANGED <<backlog, datagrams, typed, buffered>>
    BY <1>4 DEF Accepted, console
  <2>4. f \in Fds /\ socks[f] \in Conn
    BY <1>2 DEF Open
  <2>5. c \in Conn /\ Continues(socks[f], c) /\ (Pends(socks[f]) => Pends(c))
    BY <2>4, DoingsProgress
  <2>6. /\ socks' \in [Fds -> Conn \cup {NoSock}] /\ socks'[f] = c
        /\ \A g \in Fds : g # f => socks'[g] = socks[g]
    BY <1>2, <2>2, <2>4, <2>5
  <2>7. \A g \in Fds : Continues(socks[g], socks'[g]) /\ (Pends(socks[g]) => Pends(socks'[g]))
    <3>1. ASSUME NEW g \in Fds, g # f PROVE Continues(socks[g], socks'[g])
      BY <1>2, <2>6, <3>1 DEF Continues
    <3> QED
      BY <2>5, <2>6, <3>1
  <2>8. Progress
    BY <2>6, <2>7 DEF Progress
  <2> QED
    BY <1>1, <1>2, <2>3, <2>7, <2>8, AroundKeeps
<1>5. ASSUME Queued PROVE SInv'
  <2>1. PICK n \in DOMAIN backlog : \E c \in Doings(backlog[n]) :
          backlog' = [backlog EXCEPT ![n] = c]
    BY <1>5 DEF Queued
  <2>2. PICK c \in Doings(backlog[n]) : backlog' = [backlog EXCEPT ![n] = c]
    BY <2>1
  <2>3. UNCHANGED <<socks, datagrams, typed, buffered>>
    BY <1>5 DEF Queued, console
  <2>4. n \in 1 .. Len(backlog) /\ backlog[n] \in Conn
    BY <1>2, LenProperties, ElementOfSeq
  <2>5. c \in Conn
    BY <2>4, DoingsProgress
  <2>6. backlog' \in Seq(Conn) /\ Len(backlog') = Len(backlog)
    BY <1>2, <2>2, <2>4, <2>5, ExceptSeq
  <2>7. backlog # << >> => backlog' # << >>
    BY <1>2, <2>6, EmptySeq
  <2> QED
    BY <1>1, <1>2, <2>3, <2>6, <2>7, SocksProgress, AroundKeeps
<1>6. ASSUME NEW t \in Topics, NEW m \in Msgs, Send(t, m) PROVE SInv'
  <2>1. /\ datagrams' = Append(datagrams, <<t, m>>)
        /\ UNCHANGED <<backlog, socks, typed, buffered>>
    BY <1>6 DEF Send, console
  <2>2. datagrams' \in Seq(Topics \X Msgs) /\ datagrams' # << >>
    BY <1>2, <2>1, AppendProperties
  <2> QED
    BY <1>1, <1>2, <2>1, <2>2, SocksProgress, AroundKeeps
<1>7. ASSUME NEW line \in Lines, Type(line) PROVE SInv'
  <2>1. typed' = Append(typed, line) /\ UNCHANGED <<buffered, backlog, socks, datagrams>>
    BY <1>7 DEF Type
  <2>2. typed' \in Seq(Lines) /\ typed' # << >>
    BY <1>2, <2>1, AppendProperties
  <2> QED
    BY <1>1, <1>2, <2>1, <2>2, SocksProgress, AroundKeeps
<1> QED
  BY <1>3, <1>4, <1>5, <1>6, <1>7 DEF Outside

\* Every step of the server and of those around it keeps the invariant.
LEMMA ServerInductive == SInv /\ [NextServer]_svars => SInv'
<1> SUFFICES ASSUME SInv, [NextServer]_svars PROVE SInv'
  OBVIOUS
<1>1. ASSUME Poll PROVE SInv'
  BY <1>1, PollKeeps
<1>2. ASSUME NEW id \in IDs, RecvID(id) PROVE SInv'
  BY <1>2, RecvIDKeeps
<1>3. ASSUME NEW k \in DOMAIN pollfds, Accept(k) PROVE SInv'
  BY <1>3, AcceptKeeps
<1>4. ASSUME NEW k \in DOMAIN pollfds, Datagram(k) PROVE SInv'
  BY <1>4, DatagramKeeps
<1>5. ASSUME NEW k \in DOMAIN pollfds, Console(k) PROVE SInv'
  BY <1>5, ConsoleKeeps
<1>6. ASSUME NEW k \in DOMAIN pollfds, Request(k) PROVE SInv'
  BY <1>6, RequestKeeps
<1>7. ASSUME NEW k \in DOMAIN pollfds, EndOfFile(k) PROVE SInv'
  BY <1>7, EndOfFileKeeps
<1>8. ASSUME PollFails \/ \E k \in DOMAIN pollfds : Die(k) PROVE SInv'
  BY <1>8, DieKeeps
<1>9. ASSUME Outside PROVE SInv'
  BY <1>9, OutsideKeeps
<1>10. ASSUME UNCHANGED svars PROVE SInv'
  <2>1. UNCHANGED <<vars, loop, backlog, socks, datagrams, typed, buffered>>
    BY <1>10 DEF svars, kernel
  <2>2. IInv' /\ UNCHANGED <<clients, pc, slot, num_clients, pollfds>>
    BY <2>1, StutterKeepsIInv DEF SInv, vars, state, loop
  <2>3. Shape'
    BY <2>1, <2>2 DEF SInv, Shape
  <2>4. Layout' /\ Marks' /\ RightPeer'
    BY <2>1, <2>2 DEF SInv, Layout, Marks, RightPeer, Running, Open, OpenFds, Awaited, NewFd,
                      Readable, Connected
  <2> QED
    BY <2>2, <2>3, <2>4 DEF SInv
<1> QED
  BY <1>1, <1>2, <1>3, <1>4, <1>5, <1>6, <1>7, <1>8, <1>9, <1>10 DEF NextServer, ServerStep

\* So it holds forever.
LEMMA ServerInvariance == SafeServer => []SInv
<1>1. InitServer => SInv
  BY InitSInv
<1>2. SInv /\ [NextServer]_svars => SInv'
  BY ServerInductive
<1> QED
  BY <1>1, <1>2, PTL DEF SafeServer

-----------------------------------------------------------------------------
(* The theorems *)

\* pollfds lists the connections the server has open, once each, and they are
\* those of the table of clients, while entries come, go and move up.
THEOREM BooksBalance == SafeServer => []PolledAreClients
<1>1. SInv => PolledAreClients
  <2> SUFFICES ASSUME SInv, Running PROVE PolledAreClients
    BY DEF PolledAreClients
  <2> USE DEF SInv
  <2> DEFINE polled == [k \in 4 .. Len(pollfds) |-> pollfds[k].fd]
             fds    == {polled[k] : k \in DOMAIN polled}
  <2>1. [k \in 1 .. 3 |-> pollfds[k].fd] = <<ListenFd, UdpFd, StdinFd>>
    <3>1. pollfds[1].fd = ListenFd /\ pollfds[2].fd = UdpFd /\ pollfds[3].fd = StdinFd
      BY DEF Layout
    <3>2. \A k \in 1 .. 3 : k = 1 \/ k = 2 \/ k = 3
      OBVIOUS
    <3>3. \A k \in 1 .. 3 : pollfds[k].fd = <<ListenFd, UdpFd, StdinFd>>[k]
      BY <3>1, <3>2
    <3> QED
      BY <3>3
  <2>2. \A j, k \in DOMAIN polled : j # k => polled[j] # polled[k]
    BY DEF Layout
  <2>3. fds = Open
    <3>1. \A f \in fds : f \in Fds
      BY DEF Layout
    <3>2. \A f \in Open : f \in Fds
      BY DEF Open
    <3>3. \A f \in Fds : f \in fds <=> f \in Open
      BY DEF Layout
    <3> QED
      BY <3>1, <3>2, <3>3
  <2>4. OpenFds = IF pc = "recvID" THEN Open \ {NewFd} ELSE Open
    <3>1. \A f \in OpenFds : f \in Fds
      BY Shapes DEF OpenFds, IInv
    <3>2. \A f \in Open : f \in Fds
      BY DEF Open
    <3>3. \A f \in Fds : f \in OpenFds <=> f \in Open /\ ~Awaited(f)
      BY DEF Layout
    <3> QED
      BY <3>1, <3>2, <3>3 DEF Awaited
  <2> QED
    BY <2>1, <2>2, <2>3, <2>4 DEF PolledAreClients
<1> QED
  BY <1>1, ServerInvariance, PTL

\* What the scan is about to serve is readable.
THEOREM MarksHold == SafeServer => []MarksStayTrue
<1>1. SInv => MarksStayTrue
  BY DEF SInv, Marks, MarksStayTrue, Running
<1> QED
  BY <1>1, ServerInvariance, PTL

\* A connection in the table stands under the ID its subscriber named, unless it
\* ended before naming any.
THEOREM PeersRight == SafeServer => []RightPeer
<1>1. SInv => RightPeer
  BY DEF SInv
<1> QED
  BY <1>1, ServerInvariance, PTL

\* What the server takes from the queue of a connection is about a topic,
LEMMA QueuedRequest ==
  ASSUME SInv, NEW k \in DOMAIN pollfds, Request(k)
  PROVE  Head(socks[pollfds[k].fd].in).topic \in Topics
<1>1. PICK f \in Fds : f = pollfds[k].fd
  BY DEF Request
<1>2. socks[f].in # << >> /\ socks[f].in \in Seq(Requests)
  BY <1>1, TurnIsReadable DEF Request, Conn
<1>3. Head(socks[f].in) \in Requests
  BY <1>2, HeadTailProperties
<1> QED
  BY <1>1, <1>3, RequestsAssumption

\* and so is what it takes from that of the UDP socket.
LEMMA QueuedDatagram ==
  ASSUME SInv, NEW k \in DOMAIN pollfds, Datagram(k)
  PROVE  Head(datagrams)[1] \in Topics /\ Head(datagrams)[2] \in Msgs
<1>1. datagrams # << >>
  BY TurnIsReadable, ReadableIs DEF Datagram
<1>2. Head(datagrams) \in Topics \X Msgs
  BY <1>1, HeadTailProperties DEF SInv, Shape
<1> QED
  BY <1>2

\* A step of the loop is one handler of the tables, or none.
LEMMA StepDrives == SInv /\ [NextServer]_svars => [Next]_vars
<1> SUFFICES ASSUME SInv, [NextServer]_svars PROVE [Next]_vars
  OBVIOUS
<1> USE DEF SInv
<1>1. ASSUME NEW id \in IDs, RecvID(id) PROVE [Next]_vars
  <2>1. CASE Refuse(id)
    BY <2>1 DEF Next
  <2>2. ASSUME Register(id, NewFd) PROVE Next
    <3>1. NewFd \in Fds
      BY <2>2 DEF Register, Lowest
    <3> QED
      BY <2>2, <3>1 DEF Next
  <2>3. ASSUME NEW i \in DOMAIN clients, Reconnect(i, NewFd) PROVE Next
    <3>1. NewFd \in Fds
      BY <2>3 DEF Reconnect, Lowest
    <3> QED
      BY <2>3, <3>1 DEF Next
  <2> QED
    BY <1>1, <2>1, <2>2, <2>3 DEF RecvID
<1>2. ASSUME NEW k \in DOMAIN pollfds, Datagram(k) PROVE [Next]_vars
  BY <1>2, QueuedDatagram DEF Datagram, Next
<1>3. ASSUME NEW k \in DOMAIN pollfds, Request(k) PROVE [Next]_vars
  <2>1. PICK r : r = Head(socks[pollfds[k].fd].in)
    OBVIOUS
  <2>2. r.topic \in Topics
    BY <1>3, <2>1, QueuedRequest
  <2>3. PICK i \in DOMAIN clients : \/ Unsubscribe(i, r.topic)
                                    \/ Subscribe(i, r.topic)
                                    \/ SubscribeSF(i, r.topic)
                                    \/ UNCHANGED vars
    BY <1>3, <2>1 DEF Request, Owner
  <2> QED
    BY <2>2, <2>3 DEF Next
<1>4. ASSUME NEW k \in DOMAIN pollfds, EndOfFile(k) PROVE [Next]_vars
  BY <1>4 DEF EndOfFile, Owner, Next
<1>5. ASSUME \/ Poll \/ PollFails \/ Outside \/ UNCHANGED svars
             \/ \E k \in DOMAIN pollfds : Accept(k) \/ Console(k) \/ Die(k)
      PROVE  UNCHANGED vars
  BY <1>5 DEF Poll, PollFails, Outside, svars, Accept, Console, Die
<1> QED
  BY <1>1, <1>2, <1>3, <1>4, <1>5 DEF NextServer, ServerStep

\* Under the loop the tables behave as Broker says on its own, so what is proved
\* of Broker holds of the server.
THEOREM LoopDrivesBroker == SafeServer => Spec
<1>1. InitServer => Init
  BY DEF InitServer
<1>2. SInv /\ [NextServer]_svars => [Next]_vars
  BY StepDrives
<1> QED
  BY <1>1, <1>2, ServerInvariance, PTL DEF SafeServer, Spec

\* So the server, sockets, poll loop and all, keeps the promise of StoreForward.
THEOREM ServerKeepsPromise == SafeServer => Refinement
BY LoopDrivesBroker, PromiseKept

-----------------------------------------------------------------------------
(* Whose messages and whose requests *)

\* While a handler sends, only the connection it has just taken in gets a new
\* place in the table.
LEMMA TableWhileSending ==
  ASSUME SInv, [NextServer]_svars, out' # Nothing
  PROVE  \/ UNCHANGED clients
         \/ \E id \in IDs, i \in DOMAIN clients :
              RecvID(id) /\ clients[i].ID = id /\ Reconnect(i, NewFd)
<1> USE DEF SInv
<1>1. ASSUME NEW id \in IDs, RecvID(id)
      PROVE  \E i \in DOMAIN clients : clients[i].ID = id /\ Reconnect(i, NewFd)
  BY <1>1 DEF RecvID, Refuse, Register
<1>2. ASSUME NEW k \in DOMAIN pollfds, Datagram(k) PROVE UNCHANGED clients
  BY <1>2 DEF Datagram, Create, Publish
<1>3. ASSUME NEW k \in DOMAIN pollfds, Request(k) PROVE UNCHANGED clients
  BY <1>3 DEF Request, Unsubscribe, Subscribe, SubscribeSF, SubscribeAs, vars, state
<1>4. ASSUME NEW k \in DOMAIN pollfds, EndOfFile(k) PROVE FALSE
  BY <1>4 DEF EndOfFile, Disconnect
<1>5. ASSUME \/ Poll \/ PollFails \/ Outside \/ UNCHANGED svars
             \/ \E k \in DOMAIN pollfds : Accept(k) \/ Console(k) \/ Die(k)
      PROVE  UNCHANGED clients
  BY <1>5 DEF Poll, PollFails, Outside, svars, Accept, Console, Die, vars, state
<1> QED
  BY <1>1, <1>2, <1>3, <1>4, <1>5 DEF NextServer, ServerStep

\* What is written to the connection of a living subscriber was written for the
\* ID that this very subscriber named.
LEMMA WrittenToItself ==
  ASSUME SInv, [NextServer]_svars, NEW f \in Open, socks[f].end = "no", NEW t \in Topics,
         NEW i \in DOMAIN clients', clients'[i].fd = f, clients'[i].ID \in IDs,
         out'[clients'[i].ID][t] # << >>
  PROVE  clients'[i].ID = socks[f].id
<1> USE DEF SInv
<1>1. f \in Fds /\ f # NoFd
  BY FdsAssumption DEF Open, NoFd
<1>2. out' # Nothing
  BY DEF Nothing
<1>3. ASSUME i \in DOMAIN clients, clients'[i] = clients[i]
      PROVE  clients'[i].ID = socks[f].id
  <2>1. Connected(i) /\ clients[i].fd = f
    BY <1>1, <1>3 DEF Connected
  <2>2. StandsFor(socks[f], clients[i].ID)
    BY <1>3, <2>1 DEF RightPeer
  <2> QED
    BY <1>3, <2>2 DEF StandsFor
<1>4. ASSUME NEW id \in IDs, NEW j \in DOMAIN clients,
             RecvID(id), clients[j].ID = id, Reconnect(j, NewFd)
      PROVE  clients'[i].ID = socks[f].id
  <2>1. clients' = [clients EXCEPT ![j].fd = NewFd] /\ clients \in Seq(Client)
    BY <1>4 DEF Reconnect, IInv, TypeOK
  <2>2. i \in DOMAIN clients
    BY <2>1
  <2>3. CASE i # j
    BY <1>3, <2>1, <2>2, <2>3
  <2>4. CASE i = j
    <3>1. clients[i] \in Client
      BY <2>1, <2>2, LenProperties, ElementOfSeq
    <3>2. clients'[i].ID = id /\ f = NewFd
      BY <1>4, <2>1, <2>2, <2>4, <3>1 DEF Client
    <3>3. Identified(id)
      BY <1>4 DEF RecvID
    <3> QED
      BY <3>2, <3>3 DEF Identified
  <2> QED
    BY <2>3, <2>4
<1> QED
  BY <1>2, <1>3, <1>4, TableWhileSending

\* The table holds IDs.
NamesAreIDs == \A i \in DOMAIN clients : clients[i].ID \in IDs

\* Always,
LEMMA NamesAreIDsNow == SInv => NamesAreIDs
BY Shapes DEF SInv, IInv, NamesAreIDs

\* so after a step, too.
LEMMA NamesAreIDsNext == SInv' => NamesAreIDs'
BY NamesAreIDsNow, PTL

\* A living subscriber is sent messages of a topic only if its own ID asked for
\* them, through whichever descriptor, client and entry they go.
THEOREM AskedFor == SafeServer => OnlyWhatItAsked
<1> DEFINE Only == \A f \in Open, t \in Topics \ corrupt' :
                     Written(f, t)' /\ socks[f].end = "no" =>
                       LET id == socks[f].id
                       IN  wanted[id][t] # "none" \/ <<id, t>> \in doubled
<1>1. SInv /\ SInv' /\ RInv /\ SentIsDue /\ [NextServer]_svars => Only
  <2> SUFFICES ASSUME SInv, SInv', RInv, SentIsDue, [NextServer]_svars,
                      NEW f \in Open, NEW t \in Topics \ corrupt',
                      Written(f, t)', socks[f].end = "no"
               PROVE  Due(socks[f].id, t)
    BY DEF Due
  <2>1. PICK i \in DOMAIN clients' :
          clients'[i].fd = f /\ \E j \in DOMAIN out'[clients'[i].ID][t] :
                                  out'[clients'[i].ID][t][j] # << >>
    BY DEF Written
  <2>2. clients'[i].ID \in IDs
    BY <2>1, NamesAreIDsNext DEF NamesAreIDs
  <2>3. out'[clients'[i].ID][t] # << >>
    BY <2>1
  <2>4. clients'[i].ID = socks[f].id
    BY <2>1, <2>2, <2>3, WrittenToItself
  <2>5. [Next]_vars
    BY StepDrives
  <2> QED
    BY <2>2, <2>3, <2>4, <2>5, StepIsDue
<1>2. SafeServer => []SInv
  BY ServerInvariance
<1>3. SafeServer => [](RInv /\ SentIsDue)
  BY LoopDrivesBroker, AlwaysDue, PTL
<1>4. OnlyWhatItAsked <=> [][Only]_svars
  BY DEF OnlyWhatItAsked
<1> HIDE DEF Only
<1> QED
  BY <1>1, <1>2, <1>3, <1>4, PTL DEF SafeServer

\* The same entries of the same kinds: nothing has changed for the pair.
LEMMA KindsStay ==
  ASSUME NEW id, NEW t, Of(id, t)' = Of(id, t),
         \A k \in Of(id, t) : Waits(t, k)' <=> Waits(t, k)
  PROVE  Kinds(id, t)' = Kinds(id, t)
<1>1. Kinds(id, t) = {IF Waits(t, k) THEN "sf" ELSE "live" : k \in Of(id, t)}
  BY DEF Kinds, Of, Waits
<1>2. Kinds(id, t)' = {IF Waits(t, k)' THEN "sf" ELSE "live" : k \in Of(id, t)'}
  BY DEF Kinds, Of, Waits
<1> QED
  BY <1>1, <1>2

\* So it is where clients keep their place and entries their cursor.
LEMMA KindsKept ==
  ASSUME TypeOK, IDsStay, NEW id \in IDs, NEW t \in Topics,
         DOMAIN subscribers'[t] = DOMAIN subscribers[t],
         \A k \in DOMAIN subscribers[t] :
           /\ subscribers'[t][k].client = subscribers[t][k].client
           /\ k \in Of(id, t) => (Waits(t, k)' <=> Waits(t, k))
  PROVE  Kinds(id, t)' = Kinds(id, t)
<1>1. \A k \in DOMAIN subscribers[t] :
        clients'[subscribers'[t][k].client].ID = clients[subscribers[t][k].client].ID
  BY Shapes DEF IDsStay
<1>2. Of(id, t)' = Of(id, t)
  BY <1>1 DEF Of
<1>3. \A k \in Of(id, t) : Waits(t, k)' <=> Waits(t, k)
  BY DEF Of
<1> QED
  BY <1>2, <1>3, KindsStay

\* ... as with connects, refusals, ends and new topics.
LEMMA KindsUntouched ==
  ASSUME TypeOK, IDsStay, NEW id \in IDs, NEW t \in Topics, EntriesStay(t)
  PROVE  Kinds(id, t)' = Kinds(id, t)
<1>1. \A k \in DOMAIN subscribers[t] : Waits(t, k)' <=> Waits(t, k)
  BY DEF EntriesStay, Waits
<1> QED
  BY <1>1, KindsKept DEF EntriesStay

\* A datagram moves cursors forward: none becomes the mark of a live one.
LEMMA KindsUnderPublish ==
  ASSUME IInv, NEW u \in Topics, NEW m \in Msgs, Publish(u, m),
         NEW id \in IDs, NEW t \in Topics \ corrupt'
  PROVE  Kinds(id, t)' = Kinds(id, t)
<1> USE DEF IInv
<1>1. /\ UNCHANGED clients
      /\ u \notin corrupt' => Stale(u) = {}
  BY DEF Publish, Followed, Stale
<1>2. IDsStay
  BY <1>1 DEF IDsStay
<1>3. CASE t # u
  <2>1. subscribers'[t] = subscribers[t]
    BY <1>3, PublishSpreads
  <2> QED
    BY <1>2, <2>1, KindsUntouched DEF EntriesStay
<1>4. CASE t = u
  <2>1. Spreads(t, m)
    BY <1>1, <1>4, PublishSpreads
  <2>2. ASSUME NEW k \in DOMAIN subscribers[t]
        PROVE  /\ subscribers'[t][k].client = subscribers[t][k].client
               /\ Waits(t, k)' <=> Waits(t, k)
    <3>1. /\ subscribers'[t][k].client = subscribers[t][k].client
          /\ subscribers'[t][k].last_sent = IF Kept(t) /\ k \in Here(t) /\ Waits(t, k)
               THEN subscribers[t][k].last_sent + 1 ELSE subscribers[t][k].last_sent
      BY <2>1 DEF Spreads
    <3>2. subscribers[t][k].last_sent \in Int /\ subscribers[t][k].last_sent >= NoSF
      BY Shapes DEF CursorsInLog, NoSF
    <3> QED
      BY <3>1, <3>2 DEF Waits, NoSF
  <2>3. DOMAIN subscribers'[t] = DOMAIN subscribers[t]
    BY <2>1 DEF Spreads
  <2> QED
    BY <1>2, <2>2, <2>3, KindsKept
<1> QED
  BY <1>3, <1>4

\* Nor does a cut of the log for a client that returns make one.
LEMMA KindsUnderReconnect ==
  ASSUME IInv, NEW i \in DOMAIN clients, NEW fd \in Fds, Reconnect(i, fd),
         NEW id \in IDs, NEW t \in Topics \ corrupt'
  PROVE  Kinds(id, t)' = Kinds(id, t)
<1> USE DEF IInv
<1>1. PICK scan : Returned(i, fd, scan)
  BY ReconnectServes
<1>2. IDsStay
  BY <1>1 DEF Returned, IDsStay
<1>3. Serves(i, t, scan[t]) /\ subscribers'[t] = scan[t].subs
  BY <1>1 DEF Returned
<1>4. DOMAIN subscribers'[t] = DOMAIN subscribers[t]
  BY <1>3 DEF Serves
<1>5. ASSUME NEW k \in DOMAIN subscribers[t]
      PROVE  /\ subscribers'[t][k].client = subscribers[t][k].client
             /\ Waits(t, k)' <=> Waits(t, k)
  BY <1>3 DEF Serves, Waits
<1> QED
  BY <1>2, <1>4, <1>5, KindsKept

\* A request changes what its own client is subscribed to, on its topic only.
LEMMA KindsUnderSubscribe ==
  ASSUME IInv, NEW i \in DOMAIN clients, NEW u \in Topics, NEW mode, NEW cursor \in Int,
         SubscribeAs(i, u, mode, cursor),
         NEW id \in IDs, NEW t \in Topics \ corrupt', ~(clients[i].ID = id /\ t = u)
  PROVE  Kinds(id, t)' = Kinds(id, t)
<1> USE DEF IInv
<1>1. /\ UNCHANGED clients /\ Connected(i)
      /\ u \notin corrupt' => 1 \notin Stale(u)
  BY DEF SubscribeAs, Followed
<1>2. IDsStay
  BY <1>1 DEF IDsStay
<1>3. ASSUME NEW r \in Reads(u, clients), r # << >>, r[1] = clients[i].fd, Update(u, cursor)
      PROVE  Kinds(id, t)' = Kinds(id, t)
  <2>1. /\ \A v \in Topics \ {u} : subscribers'[v] = subscribers[v]
        /\ DOMAIN subscribers'[u] = DOMAIN subscribers[u]
        /\ \A k \in DOMAIN subscribers[u] :
             /\ subscribers'[u][k].client = subscribers[u][k].client
             /\ subscribers'[u][k].last_sent =
                  IF k = 1 THEN cursor ELSE subscribers[u][k].last_sent
        /\ 1 \notin Stale(u) => subscribers[u][1].client = i
    BY <1>1, <1>3, Updates
  <2>2. CASE t # u
    BY <1>2, <2>1, <2>2, KindsUntouched DEF EntriesStay
  <2>3. CASE t = u
    <3>1. 1 \notin Of(id, t)
      BY <1>1, <2>1, <2>3 DEF Of
    <3>2. \A k \in Of(id, t) : Waits(t, k)' <=> Waits(t, k)
      BY <2>1, <2>3, <3>1 DEF Of, Waits
    <3> QED
      BY <1>2, <2>1, <2>3, <3>2, KindsKept
  <2> QED
    BY <2>2, <2>3
<1>4. ASSUME Add(i, u, cursor) PROVE Kinds(id, t)' = Kinds(id, t)
  <2>0. PICK new : new = Len(subscribers[u]) + 1
    OBVIOUS
  <2>1. /\ new \notin DOMAIN subscribers[u]
        /\ \A v \in Topics \ {u} : subscribers'[v] = subscribers[v]
        /\ DOMAIN subscribers'[u] = DOMAIN subscribers[u] \cup {new}
        /\ \A k \in DOMAIN subscribers[u] : subscribers'[u][k] = subscribers[u][k]
        /\ subscribers'[u][new].client = i
    BY <1>4, <2>0, Adds
  <2>2. CASE t # u
    BY <1>2, <2>1, <2>2, KindsUntouched DEF EntriesStay
  <2>3. CASE t = u
    <3>1. Of(id, t)' = Of(id, t)
      BY <1>1, <2>1, <2>3 DEF Of
    <3>2. \A k \in Of(id, t) : Waits(t, k)' <=> Waits(t, k)
      BY <2>1, <2>3 DEF Of, Waits
    <3> QED
      BY <3>1, <3>2, KindsStay
  <2> QED
    BY <2>2, <2>3
<1> QED
  BY <1>3, <1>4 DEF SubscribeAs

\* unsubscribe moves the entries of others, but loses none of them.
LEMMA KindsUnderUnsubscribe ==
  ASSUME IInv, NEW i \in DOMAIN clients, NEW u \in Topics, Unsubscribe(i, u),
         NEW id \in IDs, NEW t \in Topics \ corrupt', ~(clients[i].ID = id /\ t = u)
  PROVE  Kinds(id, t)' = Kinds(id, t)
<1> USE DEF IInv
<1>1. /\ UNCHANGED clients
      /\ u \notin corrupt' => Stale(u) = {}
  BY DEF Unsubscribe, Followed, Stale
<1>2. /\ \A v \in Topics \ {u} : subscribers'[v] = subscribers[v]
      /\ \E gone, p : Leaves(i, u, gone, p)
  BY UnsubscribeLeaves
<1>3. CASE t # u
  <2>1. IDsStay
    BY <1>1 DEF IDsStay
  <2> QED
    BY <1>2, <1>3, <2>1, KindsUntouched DEF EntriesStay
<1>4. CASE t = u
  <2>1. PICK gone, p : Leaves(i, t, gone, p)
    BY <1>2, <1>4
  <2>2. /\ DOMAIN p = DOMAIN subscribers'[t]
        /\ \A j \in DOMAIN p : /\ p[j] \in DOMAIN subscribers[t]
                               /\ subscribers'[t][j] = subscribers[t][p[j]]
        /\ \A k \in DOMAIN subscribers[t] \ gone : \E j \in DOMAIN p : p[j] = k
    BY <2>1 DEF Leaves
  <2>3. \A k \in gone : k \notin Of(id, t)
    BY <1>1, <1>4, <2>1 DEF Leaves, Of
  <2> DEFINE kind(s) == IF s.last_sent = NoSF THEN "live" ELSE "sf"
             mine(s) == clients[s.client].ID = id
  <2>4. Kinds(id, t) = {kind(subscribers[t][k]) :
                          k \in {j \in DOMAIN subscribers[t] : mine(subscribers[t][j])}}
    BY DEF Kinds
  <2>5. Kinds(id, t)' = {kind(subscribers'[t][k]) :
                           k \in {j \in DOMAIN subscribers'[t] : mine(subscribers'[t][j])}}
    BY <1>1 DEF Kinds
  <2>6. \A k \in gone : ~mine(subscribers[t][k]) \/ k \notin DOMAIN subscribers[t]
    BY <2>3 DEF Of
  <2> HIDE DEF kind, mine
  <2>7. ASSUME NEW x PROVE x \in Kinds(id, t)' <=> x \in Kinds(id, t)
    <3>1. ASSUME x \in Kinds(id, t)' PROVE x \in Kinds(id, t)
      <4>1. PICK j \in DOMAIN p : mine(subscribers'[t][j]) /\ x = kind(subscribers'[t][j])
        BY <2>2, <2>5, <3>1
      <4> QED
        BY <2>2, <2>4, <4>1
    <3>2. ASSUME x \in Kinds(id, t) PROVE x \in Kinds(id, t)'
      <4>1. PICK k \in DOMAIN subscribers[t] : mine(subscribers[t][k]) /\ x = kind(subscribers[t][k])
        BY <2>4, <3>2
      <4>2. PICK j \in DOMAIN p : p[j] = k
        BY <2>2, <2>6, <4>1
      <4> QED
        BY <2>2, <2>5, <4>1, <4>2
    <3> QED
      BY <3>1, <3>2
  <2> QED
    BY <2>7
<1> QED
  BY <1>3, <1>4

\* No handler but those of the requests changes what anybody is subscribed to.
LEMMA OthersChangeNothing ==
  ASSUME IInv, NEW id \in IDs, NEW t \in Topics \ corrupt',
         \/ \E j \in IDs : Refuse(j) \/ \E fd \in Fds : Register(j, fd)
         \/ \E i \in DOMAIN clients : Disconnect(i) \/ \E fd \in Fds : Reconnect(i, fd)
         \/ \E u \in Topics : Create(u) \/ \E m \in Msgs : Publish(u, m)
         \/ UNCHANGED vars
  PROVE  Kinds(id, t)' = Kinds(id, t)
<1> USE DEF IInv
<1>1. ASSUME NEW j \in IDs, Refuse(j) PROVE Kinds(id, t)' = Kinds(id, t)
  BY <1>1, KindsUntouched DEF Refuse, state, IDsStay, EntriesStay
<1>2. ASSUME NEW j \in IDs, NEW fd \in Fds, Register(j, fd)
      PROVE  Kinds(id, t)' = Kinds(id, t)
  BY <1>2, RegisterStays, KindsUntouched
<1>3. ASSUME NEW i \in DOMAIN clients, NEW fd \in Fds, Reconnect(i, fd)
      PROVE  Kinds(id, t)' = Kinds(id, t)
  BY <1>3, KindsUnderReconnect
<1>4. ASSUME NEW i \in DOMAIN clients, Disconnect(i) PROVE Kinds(id, t)' = Kinds(id, t)
  <2>1. /\ clients' = [clients EXCEPT ![i].fd = NoFd] /\ subscribers' = subscribers
        /\ \A l \in DOMAIN clients : clients[l] \in Client
    BY <1>4, LenProperties, ElementOfSeq DEF Disconnect, TypeOK
  <2>2. IDsStay
    BY <2>1 DEF IDsStay, Client
  <2> QED
    BY <2>1, <2>2, KindsUntouched DEF EntriesStay
<1>5. ASSUME NEW u \in Topics, Create(u) PROVE Kinds(id, t)' = Kinds(id, t)
  BY <1>5, KindsUntouched DEF Create, IDsStay, EntriesStay
<1>6. ASSUME NEW u \in Topics, NEW m \in Msgs, Publish(u, m)
      PROVE  Kinds(id, t)' = Kinds(id, t)
  BY <1>6, KindsUnderPublish
<1>7. ASSUME UNCHANGED vars PROVE Kinds(id, t)' = Kinds(id, t)
  BY <1>7, KindsUntouched DEF vars, state, IDsStay, EntriesStay
<1> QED
  BY <1>1, <1>2, <1>3, <1>4, <1>5, <1>6, <1>7

\* Whose request the server serves: that of a subscriber which named the ID the
\* client has in the table.
LEMMA RequestIsOwn ==
  ASSUME SInv, NEW k \in DOMAIN pollfds, Request(k),
         NEW i \in Owner(pollfds[k].fd), NEW t, Head(socks[pollfds[k].fd].in).topic = t
  PROVE  OwnRequest(clients[i].ID, t)
<1> USE DEF SInv
<1>1. PICK f \in Fds : f = pollfds[k].fd
  BY DEF Request
<1>2. /\ Turn(k) /\ socks[f].in # << >>
      /\ socks' = [socks EXCEPT ![f].in = Tail(@)]
  BY <1>1 DEF Request
<1>3. f \in Open /\ socks[f] \in Conn
  BY <1>1, <1>2, TurnIsReadable
<1>4. socks[f].hello
  BY <1>2, <1>3 DEF Conn
<1>5. i \in DOMAIN clients /\ clients[i].fd = f /\ Connected(i)
  BY <1>1, FdsAssumption DEF Owner, Connected, NoFd
<1>6. socks[f].id = clients[i].ID
  BY <1>4, <1>5 DEF RightPeer, StandsFor
<1>7. socks'[f].in = Tail(socks[f].in)
  BY <1>2, <1>3 DEF Shape, Conn
<1> QED
  BY <1>1, <1>2, <1>3, <1>6, <1>7 DEF OwnRequest

\* It changes the subscription of that client, on its topic.
LEMMA RequestChangesOwn ==
  ASSUME IInv, NEW i \in DOMAIN clients, NEW u \in Topics,
         \/ Unsubscribe(i, u) \/ Subscribe(i, u) \/ SubscribeSF(i, u) \/ UNCHANGED vars,
         NEW id \in IDs, NEW t \in Topics \ corrupt', Kinds(id, t)' # Kinds(id, t)
  PROVE  clients[i].ID = id /\ u = t
<1> USE DEF IInv
<1>1. NoSF \in Int /\ Len(messages[u]) - 1 \in Int
  BY Shapes DEF NoSF
<1>2. CASE Unsubscribe(i, u)
  BY <1>2, KindsUnderUnsubscribe
<1>3. CASE Subscribe(i, u)
  BY <1>1, <1>3, KindsUnderSubscribe DEF Subscribe
<1>4. CASE SubscribeSF(i, u)
  BY <1>1, <1>4, KindsUnderSubscribe DEF SubscribeSF
<1>5. CASE UNCHANGED vars
  BY <1>5, OthersChangeNothing
<1> QED
  BY <1>2, <1>3, <1>4, <1>5

\* Nobody's subscriptions are changed but by the subscriber itself: by no other
\* client, no datagram, no return, no end and no cut of a log.
THEOREM OwnRequestsOnly == SafeServer => OnlyByOwnRequest
<1> DEFINE Only == \A id \in IDs, t \in Topics \ corrupt' :
                     Kinds(id, t)' # Kinds(id, t) => OwnRequest(id, t)
<1>1. SInv /\ [NextServer]_svars => Only
  <2> SUFFICES ASSUME SInv, [NextServer]_svars, NEW id \in IDs, NEW t \in Topics \ corrupt',
                      Kinds(id, t)' # Kinds(id, t)
               PROVE  OwnRequest(id, t)
    OBVIOUS
  <2> USE DEF SInv
  <2>1. ASSUME NEW j \in IDs, RecvID(j) PROVE FALSE
    <3>1. CASE Refuse(j)
      BY <3>1, OthersChangeNothing
    <3>2. CASE Register(j, NewFd)
      <4>1. NewFd \in Fds
        BY <3>2 DEF Register, Lowest
      <4> QED
        BY <3>2, <4>1, OthersChangeNothing
    <3>3. ASSUME NEW i \in DOMAIN clients, Reconnect(i, NewFd) PROVE FALSE
      <4>1. NewFd \in Fds
        BY <3>3 DEF Reconnect, Lowest
      <4> QED
        BY <3>3, <4>1, OthersChangeNothing
    <3> QED
      BY <2>1, <3>1, <3>2, <3>3 DEF RecvID
  <2>2. ASSUME NEW k \in DOMAIN pollfds, Datagram(k) PROVE FALSE
    <3>1. Head(datagrams)[1] \in Topics /\ Head(datagrams)[2] \in Msgs
      BY <2>2, QueuedDatagram
    <3> QED
      BY <2>2, <3>1, OthersChangeNothing DEF Datagram
  <2>3. ASSUME NEW k \in DOMAIN pollfds, EndOfFile(k) PROVE FALSE
    BY <2>3, OthersChangeNothing DEF EndOfFile, Owner
  <2>4. ASSUME NEW k \in DOMAIN pollfds, Request(k) PROVE OwnRequest(id, t)
    <3>1. PICK f : f = pollfds[k].fd
      OBVIOUS
    <3>2. PICK r : r = Head(socks[f].in)
      OBVIOUS
    <3>3. PICK i \in Owner(f) : \/ Unsubscribe(i, r.topic)
                                \/ Subscribe(i, r.topic)
                                \/ SubscribeSF(i, r.topic)
                                \/ UNCHANGED vars
      BY <2>4, <3>1, <3>2 DEF Request
    <3>4. r.topic \in Topics
      BY <2>4, <3>1, <3>2, QueuedRequest
    <3>5. i \in DOMAIN clients
      BY DEF Owner
    <3>6. clients[i].ID = id /\ r.topic = t
      BY <3>3, <3>4, <3>5, RequestChangesOwn
    <3> QED
      BY <2>4, <3>1, <3>2, <3>6, RequestIsOwn
  <2>5. ASSUME \/ Poll \/ PollFails \/ Outside \/ UNCHANGED svars
               \/ \E k \in DOMAIN pollfds : Accept(k) \/ Console(k) \/ Die(k)
        PROVE  FALSE
    <3>1. UNCHANGED vars
      BY <2>5 DEF Poll, PollFails, Outside, svars, Accept, Console, Die
    <3> QED
      BY <3>1, OthersChangeNothing
  <2> QED
    BY <2>1, <2>2, <2>3, <2>4, <2>5 DEF NextServer, ServerStep
<1>2. SafeServer => []SInv
  BY ServerInvariance
<1>3. OnlyByOwnRequest <=> [][Only]_svars
  BY DEF OnlyByOwnRequest
<1> HIDE DEF Only
<1> QED
  BY <1>1, <1>2, <1>3, PTL DEF SafeServer
=============================================================================
