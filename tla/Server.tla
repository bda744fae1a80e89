------------------------------- MODULE Server -------------------------------
(***************************************************************************)
(* The poll loop of run_server (server.c) around the handlers of Broker,   *)
(* with the kernel's side of every socket and the subscribers at the other *)
(* end.                                                                    *)
(*                                                                         *)
(* The server has one thread.  A round is one call of poll, which marks    *)
(* the descriptors that are readable, and a scan of pollfds that serves    *)
(* the marked ones in order: the listening socket, the UDP socket, stdin,  *)
(* then the clients.  Subscribers and publishers move between any two      *)
(* steps, also while a marked descriptor waits for its turn and while the  *)
(* server is blocked on the ID of a connection it accepted.                *)
(*                                                                         *)
(* A subscriber process is its connection: in the listening socket's       *)
(* backlog, then on a descriptor of the server.                            *)
(***************************************************************************)
EXTENDS Broker

CONSTANTS Requests,   \* the requests subscribers send, of [type, topic]
          Lines,      \* what may be typed at the server: "exit", "other"
          Faults,     \* the system calls that may fail for reasons not modelled
          MaxConns,   \* bound: connections at a time
          MaxIn,      \* bound: requests of one connection not yet read
          MaxUdp,     \* bound: datagrams not yet read
          MaxLines    \* bound: lines typed and not yet taken by fgets

ListenFd == 3
UdpFd    == 4
StdinFd  == 0

ASSUME FdsAreNew == Fds \cap {ListenFd, UdpFd, StdinFd} = {}
ASSUME RequestsAssumption == Requests \subseteq [type : 0 .. 3, topic : Topics]
ASSUME FaultsAssumption == Faults \subseteq {"poll", "accept", "recvfrom", "sendto"}

VARIABLES
  pc,           \* "loop", "recvID" (blocked), "stopped" or "died"
  slot,         \* where the scan of pollfds is
  num_clients,  \* where it ends: the length of pollfds at the last poll
  pollfds,      \* sequence of [fd, revents]
  backlog,      \* connections not yet accepted
  socks,        \* socks[f]: the connection on descriptor f, or NoSock
  datagrams,    \* the receive queue of the UDP socket: <<topic, message>>
  typed,        \* the lines in standard input that the kernel holds
  buffered      \* the lines stdio has already read from it

loop    == <<pc, slot, num_clients, pollfds>>
kernel  == <<backlog, socks, datagrams, typed, buffered>>
console == <<typed, buffered>>
svars   == <<vars, loop, kernel>>

(***************************************************************************)
(* A connection: the ID of the subscriber, whether it has sent it, the     *)
(* requests it sent (none before its ID), whether something from the       *)
(* server is unread, and how it ended.  A process that exits with unread   *)
(* data resets its connection ("rst"); otherwise the server sees an end of *)
(* file ("fin"), until it sends to it and is answered by a reset ("gone"). *)
(***************************************************************************)
Conn ==
  {c \in [id : IDs, hello : BOOLEAN, in : Seq(Requests),
          unread : BOOLEAN, end : {"no", "fin", "rst", "gone"}] :
     c.in # << >> => c.hello}

NoSock == [end |-> "none"]

Open      == {f \in Fds : socks[f] # NoSock}
Running   == pc \in {"loop", "recvID"}
NewFd     == pollfds[Len(pollfds)].fd

\* Mutant of Owner: the search gives up after the first client.
OwnerFirst(f) == {i \in DOMAIN clients : i = 1 /\ clients[i].fd = f}

Owner(f)  == {i \in DOMAIN clients : clients[i].fd = f}

Readable(f) ==
  CASE f = ListenFd -> backlog # << >>
    [] f = UdpFd    -> datagrams # << >>
    [] f = StdinFd  -> typed # << >>
    [] OTHER        -> socks[f].in # << >> \/ socks[f].end # "no"

InitServer ==
  /\ Init
  /\ pc = "loop"
  /\ slot = 1
  /\ num_clients = 3
  /\ pollfds = [k \in 1 .. 3 |-> [fd |-> <<ListenFd, UdpFd, StdinFd>>[k], revents |-> "none"]]
  /\ backlog = << >>
  /\ socks = [f \in Fds |-> NoSock]
  /\ datagrams = << >>
  /\ typed = << >>
  /\ buffered = << >>

-----------------------------------------------------------------------------
(* The loop *)

\* The scan has come to slot k and finds it marked.
Turn(k) ==
  /\ pc = "loop"
  /\ k \in slot .. num_clients
  /\ pollfds[k].revents # "none"
  /\ \A j \in slot .. k - 1 : pollfds[j].revents = "none"

\* Mutant of Polled: the length is not taken again before poll.
PolledFixed == 3

\* The entries poll looks at, and the scan after it.
Polled == Len(pollfds)

ScanOver == pc = "loop" /\ \A k \in slot .. num_clients : pollfds[k].revents = "none"

(***************************************************************************)
(* poll does not wait (its timeout is 0), but a round that finds nothing   *)
(* readable changes nothing.                                               *)
(***************************************************************************)
Poll ==
  /\ ScanOver
  /\ \E k \in DOMAIN pollfds : Readable(pollfds[k].fd)
  /\ slot' = 1
  /\ num_clients' = Polled
  /\ pollfds' = [k \in DOMAIN pollfds |-> [pollfds[k] EXCEPT
                   !.revents = IF Readable(pollfds[k].fd) THEN "in" ELSE "none"]]
  /\ UNCHANGED <<pc, kernel, vars>>

\* DIE: the failed call ends the server.
PollFails ==
  /\ ScanOver
  /\ "poll" \in Faults
  /\ pc' = "died"
  /\ UNCHANGED <<slot, num_clients, pollfds, kernel, vars>>

(***************************************************************************)
(* send to the IDs the handler reached.  Writing to a connection the other *)
(* side has closed raises SIGPIPE, which kills the server: surely after a  *)
(* reset, and perhaps after an end of file, since a message is two calls   *)
(* of send and the first one provokes the reset.                           *)
(***************************************************************************)
Reached == {f \in Fds : \E i \in DOMAIN clients' :
              /\ clients'[i].fd = f
              /\ \E t \in Topics : \E j \in DOMAIN out'[clients'[i].ID][t] :
                   out'[clients'[i].ID][t][j] # << >>}

Sends ==
  /\ socks' = [f \in Fds |->
       CASE f \in Reached /\ socks[f].end = "no"  -> [socks[f] EXCEPT !.unread = TRUE]
         [] f \in Reached /\ socks[f].end = "fin" -> [socks[f] EXCEPT !.end = "gone"]
         [] OTHER                                 -> socks[f]]
  /\ \/ /\ \A f \in Reached : socks[f].end \notin {"rst", "gone"}
        /\ pc' = "loop"
     \/ /\ \E f \in Reached : socks[f].end \in {"fin", "rst", "gone"}
        /\ pc' = "died"

\* accept: the new entry's revents is whatever was on the stack.  (When no
\* descriptor is left accept fails: see Die.)
Accept(k) ==
  /\ Turn(k) /\ pollfds[k].fd = ListenFd
  /\ \E f \in Fds \ Open :
       /\ \A g \in Fds \ Open : f <= g
       /\ socks' = [socks EXCEPT ![f] = Head(backlog)]
       /\ pollfds' = Append(pollfds, [fd |-> f, revents |-> "unset"])
  /\ backlog' = Tail(backlog)
  /\ slot' = k + 1
  /\ pc' = "recvID"
  /\ UNCHANGED <<num_clients, datagrams, console, vars>>

\* Mutant of Identified: recv does not wait for the ID.
IdentifiedAtOnce(id) == socks[NewFd].hello => id = socks[NewFd].id

\* Mutant of Shortened: the refused connection stays in pollfds.
ShortenedNot == pollfds

Shortened == SubSeq(pollfds, 1, Len(pollfds) - 1)

(***************************************************************************)
(* recv_all of the ID.  It returns when the ID is there or the connection  *)
(* has ended; its result is not looked at, and after a connection that     *)
(* ended without an ID, new_client.ID is what the stack held.              *)
(***************************************************************************)
Identified(id) ==
  IF socks[NewFd].hello
    THEN id = socks[NewFd].id ELSE socks[NewFd].end # "no" /\ id \in IDs

RecvID(id) ==
  /\ pc = "recvID"
  /\ Identified(id)
  /\ \/ /\ Refuse(id)
        /\ socks' = [socks EXCEPT ![NewFd] = NoSock]
        /\ pollfds' = Shortened
        /\ pc' = "loop"
     \/ /\ \/ Register(id, NewFd)
           \/ \E i \in DOMAIN clients : clients[i].ID = id /\ Reconnect(i, NewFd)
        /\ Sends
        /\ UNCHANGED pollfds
  /\ UNCHANGED <<slot, num_clients, backlog, datagrams, console>>

\* recvfrom, the acknowledgement (which nobody reads), and the message.
Datagram(k) ==
  /\ Turn(k) /\ pollfds[k].fd = UdpFd
  /\ Create(Head(datagrams)[1]) \/ Publish(Head(datagrams)[1], Head(datagrams)[2])
  /\ Sends
  /\ datagrams' = Tail(datagrams)
  /\ slot' = k + 1
  /\ UNCHANGED <<num_clients, pollfds, backlog, console>>

(***************************************************************************)
(* fgets takes the next line from the stdio buffer, and fills the buffer   *)
(* with all that was typed only when it is empty.                          *)
(***************************************************************************)
Console(k) ==
  LET lines == IF buffered = << >> THEN typed ELSE buffered
  IN  /\ Turn(k) /\ pollfds[k].fd = StdinFd
      /\ pc' = IF Head(lines) = "exit" THEN "stopped" ELSE pc
      /\ buffered' = Tail(lines)
      /\ typed' = IF buffered = << >> THEN << >> ELSE typed
      /\ slot' = k + 1
      /\ UNCHANGED <<num_clients, pollfds, backlog, socks, datagrams, vars>>

\* A request of a connected client; type 3 stands for every invalid type.
Request(k) ==
  LET f == pollfds[k].fd
      r == Head(socks[f].in)
  IN  /\ Turn(k) /\ f \in Fds
      /\ socks[f].in # << >>
      /\ \E i \in Owner(f) :
           \/ r.type = 0 /\ Unsubscribe(i, r.topic)
           \/ r.type = 1 /\ Subscribe(i, r.topic)
           \/ r.type = 2 /\ SubscribeSF(i, r.topic)
           \/ r.type = 3 /\ UNCHANGED vars
      /\ socks' = [socks EXCEPT ![f].in = Tail(@)]
      /\ slot' = k + 1
      /\ UNCHANGED <<pc, num_clients, pollfds, backlog, datagrams, console>>

(***************************************************************************)
(* End of file.  The entries behind k move up by one, and the scan goes on *)
(* with k + 1: the entry now at k waits for the next round.                *)
(***************************************************************************)
Removed(k) == [j \in 1 .. Len(pollfds) - 1 |-> pollfds[IF j < k THEN j ELSE j + 1]]

\* Mutant of Remove: the scan still ends where it was to end.
RemoveOnly(k) == pollfds' = Removed(k) /\ UNCHANGED num_clients

Remove(k) == pollfds' = Removed(k) /\ num_clients' = num_clients - 1

EndOfFile(k) ==
  LET f == pollfds[k].fd
  IN  /\ Turn(k) /\ f \in Fds
      /\ socks[f].in = << >> /\ socks[f].end \in {"fin", "gone"}
      /\ \E i \in Owner(f) : Disconnect(i)
      /\ socks' = [socks EXCEPT ![f] = NoSock]
      /\ Remove(k)
      /\ slot' = k + 1
      /\ UNCHANGED <<pc, backlog, datagrams, console>>

\* No descriptor is left, or something else is wrong with the connection.
AcceptFails == Open = Fds \/ "accept" \in Faults

\* The datagram is not received, or its acknowledgement is not sent.
DatagramFails == Faults \cap {"recvfrom", "sendto"} # {}

(***************************************************************************)
(* The DIEs of the branches: a failing call; no client has the descriptor; *)
(* recv fails after a reset.                                               *)
(***************************************************************************)
Fatal(f) ==
  \/ f = ListenFd /\ AcceptFails
  \/ f = UdpFd /\ DatagramFails
  \/ f \in Fds /\ Owner(f) = {}
  \/ f \in Fds /\ socks[f].in = << >> /\ socks[f].end = "rst"

Die(k) ==
  /\ Turn(k)
  /\ Fatal(pollfds[k].fd)
  /\ pc' = "died"
  /\ UNCHANGED <<slot, num_clients, pollfds, kernel, vars>>

ServerStep ==
  \/ Poll
  \/ PollFails
  \/ \E id \in IDs : RecvID(id)
  \/ \E k \in DOMAIN pollfds :
       Accept(k) \/ Datagram(k) \/ Console(k) \/ Request(k) \/ EndOfFile(k) \/ Die(k)

-----------------------------------------------------------------------------
(* Subscribers, publishers and the operator *)

Connect(id) ==
  /\ Len(backlog) + Cardinality(Open) < MaxConns
  /\ backlog' = Append(backlog, [id |-> id, hello |-> FALSE, in |-> << >>,
                                 unread |-> FALSE, end |-> "no"])
  /\ UNCHANGED <<socks, datagrams, console>>

(***************************************************************************)
(* What a subscriber does with its connection c: it sends its ID once,     *)
(* then requests; it reads what came; it exits or is killed.  Each gives   *)
(* the possible connections afterwards.                                    *)
(***************************************************************************)
Hello(c) == IF c.hello THEN {} ELSE {[c EXCEPT !.hello = TRUE]}

Ask(c) ==
  IF c.hello /\ Len(c.in) < MaxIn
    THEN {[c EXCEPT !.in = Append(c.in, r)] : r \in Requests} ELSE {}

Read(c) == IF c.unread THEN {[c EXCEPT !.unread = FALSE]} ELSE {}

Exit(c) == {[c EXCEPT !.end = IF c.unread THEN "rst" ELSE "fin"]}

Doings(c) == IF c.end = "no" THEN Hello(c) \cup Ask(c) \cup Read(c) \cup Exit(c) ELSE {}

Accepted ==
  /\ \E f \in Open : \E c \in Doings(socks[f]) : socks' = [socks EXCEPT ![f] = c]
  /\ UNCHANGED <<backlog, datagrams, console>>

Queued ==
  /\ \E n \in DOMAIN backlog : \E c \in Doings(backlog[n]) :
       backlog' = [backlog EXCEPT ![n] = c]
  /\ UNCHANGED <<socks, datagrams, console>>

Send(t, m) ==
  /\ Len(datagrams) < MaxUdp
  /\ datagrams' = Append(datagrams, <<t, m>>)
  /\ UNCHANGED <<backlog, socks, console>>

Type(line) ==
  /\ Len(typed) + Len(buffered) < MaxLines
  /\ typed' = Append(typed, line)
  /\ UNCHANGED <<buffered, backlog, socks, datagrams>>

\* Once the server is gone nothing that happens matters any more.
Outside ==
  /\ Running
  /\ \/ \E id \in IDs : Connect(id)
     \/ Accepted
     \/ Queued
     \/ \E t \in Topics, m \in Msgs : Send(t, m)
     \/ \E line \in Lines : Type(line)
  /\ UNCHANGED <<vars, loop>>

NextServer == ServerStep \/ Outside

SafeServer == InitServer /\ [][NextServer]_svars

(***************************************************************************)
(* Fairness: the server's one thread is scheduled, and the subscriber it   *)
(* waits for goes on from connect to sending its ID (subscriber.c, main)   *)
(* or ends.                                                                *)
(***************************************************************************)
AwaitedHello ==
  /\ pc = "recvID"
  /\ socks[NewFd].end = "no"
  /\ \E c \in Hello(socks[NewFd]) : socks' = [socks EXCEPT ![NewFd] = c]
  /\ UNCHANGED <<backlog, datagrams, console, vars, loop>>

ServerSpec == SafeServer /\ WF_svars(ServerStep) /\ WF_svars(AwaitedHello)

-----------------------------------------------------------------------------
(* What must hold *)

(***************************************************************************)
(* The bookkeeping of pollfds: three fixed entries, then every connection  *)
(* the server has open, once.  While it waits for an ID the last entry is  *)
(* a connection no client has yet; otherwise the connections are exactly   *)
(* the descriptors in the table of clients.  So DIE "client not found" is  *)
(* never reached and no closed descriptor is ever polled, although entries *)
(* are added, dropped and moved up while pollfds is being scanned.         *)
(***************************************************************************)
PolledAreClients ==
  LET polled == [k \in 4 .. Len(pollfds) |-> pollfds[k].fd]
      fds    == {polled[k] : k \in DOMAIN polled}
  IN  Running =>
        /\ [k \in 1 .. 3 |-> pollfds[k].fd] = <<ListenFd, UdpFd, StdinFd>>
        /\ \A j, k \in DOMAIN polled : j # k => polled[j] # polled[k]
        /\ fds = Open
        /\ OpenFds = IF pc = "recvID" THEN Open \ {NewFd} ELSE Open

(***************************************************************************)
(* The scan acts on marks that poll left earlier.  They stay true until    *)
(* their turn: a marked descriptor is still readable, so the server never  *)
(* blocks in recv or fgets on it, and the uninitialized revents of an      *)
(* entry accept added is never looked at.                                  *)
(***************************************************************************)
MarksStayTrue ==
  pc = "loop" =>
    /\ num_clients <= Len(pollfds)
    /\ \A k \in slot .. num_clients :
         /\ pollfds[k].revents # "unset"
         /\ pollfds[k].revents = "in" => Readable(pollfds[k].fd)

(***************************************************************************)
(* In the table a connection stands under the ID its own subscriber named, *)
(* although descriptors are reused.  The one exception is a connection     *)
(* that had ended before it named an ID (server.c:164): nobody alive is    *)
(* ever taken for somebody else.                                           *)
(***************************************************************************)
StandsFor(c, id) == c.id = id \/ (~c.hello /\ c.end # "no")

RightPeer ==
  \A i \in DOMAIN clients :
    Connected(i) => StandsFor(socks[clients[i].fd], clients[i].ID)

(***************************************************************************)
(* What an ID is subscribed to, and how, changes only by a request on that *)
(* topic which its own subscriber sent: not by the requests, returns and   *)
(* ends of others, nor by a datagram, nor when the log is cut for somebody *)
(* else and a cursor comes near -2, the mark of a live subscription        *)
(* (server.c:220).  Topics read through stale pointers excepted.           *)
(***************************************************************************)
Kinds(id, t) ==
  {IF subscribers[t][k].last_sent = NoSF THEN "live" ELSE "sf" :
     k \in {j \in DOMAIN subscribers[t] : clients[subscribers[t][j].client].ID = id}}

OwnRequest(id, t) ==
  \E f \in Open :
    /\ socks[f].id = id
    /\ socks[f].in # << >> /\ Head(socks[f].in).topic = t
    /\ socks'[f].in = Tail(socks[f].in)

OnlyByOwnRequest ==
  [][\A id \in IDs, t \in Topics \ corrupt' :
       Kinds(id, t)' # Kinds(id, t) => OwnRequest(id, t)]_svars

(***************************************************************************)
(* A living subscriber is sent messages on a topic only if its ID asked    *)
(* for them and has not taken it back, whichever descriptor it is on: the  *)
(* message is written to an entry's client's descriptor, never to the one  *)
(* who asked.  Topics read through stale pointers excepted, and pairs with *)
(* two entries, of which unsubscribe may leave one.                        *)
(***************************************************************************)
Written(f, t) ==
  \E i \in DOMAIN clients :
    /\ clients[i].fd = f
    /\ \E j \in DOMAIN out[clients[i].ID][t] : out[clients[i].ID][t][j] # << >>

OnlyWhatItAsked ==
  [][\A f \in Open, t \in Topics \ corrupt' :
       Written(f, t)' /\ socks[f].end = "no" =>
         LET id == socks[f].id
         IN  wanted[id][t] # "none" \/ <<id, t>> \in doubled]_svars

(***************************************************************************)
(* Nothing waits forever: a connection is accepted, its requests are read  *)
(* and its end is noticed, and datagrams are received, although an entry   *)
(* that moves up when another one is removed is passed over in that round. *)
(* (With MaxIn and MaxUdp equal to 1, an emptied queue was served.)        *)
(***************************************************************************)
EverybodyServed ==
  /\ backlog # << >> ~> (pc = "recvID" \/ ~Running)
  /\ datagrams # << >> ~> (datagrams = << >> \/ ~Running)
  /\ \A f \in Fds :
       /\ (f \in Open /\ socks[f].end # "no") ~> (f \notin Open \/ ~Running)
       /\ (f \in Open /\ socks[f].in # << >>)
            ~> (f \notin Open \/ socks[f].in = << >> \/ ~Running)

-----------------------------------------------------------------------------
(* What the documentation says and the code does not do *)

(***************************************************************************)
(* README.md:18-20, server.c:109: the server runs until it is stopped by   *)
(* the command exit.                                                       *)
(***************************************************************************)
StopsOnlyOnExit == pc # "died"

(***************************************************************************)
(* README.md:18-20: the command exit, typed at the server, stops it.       *)
(***************************************************************************)
ExitStops ==
  (\E n \in DOMAIN typed : typed[n] = "exit") ~> ~Running

(***************************************************************************)
(* README.md:22-24: a connection is refused when a client with the same ID *)
(* is already connected.  (Looking away from connections that ended before *)
(* they sent an ID: those are known under what the stack held.)            *)
(***************************************************************************)
RefusesOnlySecond ==
  [][\A id \in IDs : RecvID(id) /\ socks'[NewFd] = NoSock =>
       \E f \in FdsOf(id) : socks[f].hello => socks[f].end = "no"]_svars
=============================================================================
