------------------------------ MODULE Session ------------------------------
(***************************************************************************)
(* One connection: the subscriber process (subscriber.c) and the server as *)
(* its peer, exchanging bytes through send_all and recv_all (common.c).    *)
(*                                                                         *)
(* Each direction is a bounded channel of units.  A call of send or recv   *)
(* moves any number of them, waits when the channel is full or empty, and  *)
(* fails when the other end is gone.  Both processes have one thread, so a *)
(* call that waits holds up everything else its process has to do.         *)
(*                                                                         *)
(* Broker and Server say what the server does with a request and when it   *)
(* has a message for this subscriber; here it may have one at any time.    *)
(***************************************************************************)
EXTENDS Integers, Sequences

CONSTANTS Msgs,       \* the messages the server may have
          Size,       \* Size[m]: units of m behind its length
          LenUnits,   \* units of the length, an int
          ID,         \* the subscriber's ID
          Requests,   \* valid commands
          ReqUnits,   \* units of an ID or of a request
          UpCap,      \* units the connection holds towards the server
          DownCap,    \* and towards the subscriber
          MaxPosted,  \* bound: messages the server sends
          MaxAsked,   \* bound: valid commands typed
          MaxLines    \* bound: lines typed and not yet taken by fgets

ASSUME UnitsAssumption ==
  /\ LenUnits \in Nat \ {0} /\ ReqUnits \in Nat \ {0}
  /\ Size \in [Msgs -> Nat \ {0}]
  /\ UpCap \in Nat \ {0} /\ DownCap \in Nat \ {0}
ASSUME ItemsAssumption == ID \notin Requests /\ {"exit", "invalid"} \cap Requests = {}

VARIABLES
  pc,        \* subscriber: "start", "hello", "scan", "request", "header",
             \* "body", or how it ended: "ended", "killed"
  marks,     \* pollfds entries poll marked and the scan has not come to
  typed,     \* the lines in standard input that the kernel holds
  buffered,  \* the lines stdio has already read from it
  out,       \* what send_all still has to send
  in,        \* what recv_all has received of the current message
  junk,      \* how often recv_packet was printed although recv_all failed
  srv,       \* server: "id", "idle", "request", "send", "closed"
  outbox,    \* what the server still has to send of the current message
  inbox,     \* what it has received of the current ID or request
  conn,      \* "open", or how it was ended, as seen from the other side
  up, down,  \* units under way to the server, to the subscriber
  asked, heard,    \* ID and requests: sent so far, received so far
  posted, printed  \* messages: sent so far, printed so far

subscriber == <<pc, marks, typed, buffered, out, in, junk>>
server     == <<srv, outbox, inbox>>
history    == <<asked, heard, posted, printed>>
vars       == <<subscriber, server, conn, up, down, history>>

(***************************************************************************)
(* conn: after the server closed, "fin" is an end of file, "gone" the same *)
(* with a reset behind it (in answer to something sent), "rst" a reset and *)
(* "dead" a reset that some call has already reported.  After the          *)
(* subscriber closed it is "left" (end of file) or "broken" (reset).       *)
(***************************************************************************)
Over   == pc \in {"ended", "killed"}
Junk   == "junk"
MaxJunk == 2      \* bound: junk is not counted further

Units(x, n) == [i \in 1 .. n |-> <<x, i>>]
Packet(m)   == Units(m, LenUnits + Size[m])
Request(r)  == Units(r, ReqUnits)

\* The item received: n units of one and the same item, from its first on.
Framed(units, n) == IF units = Units(units[1][1], n) THEN units[1][1] ELSE Junk

AtMost(a, b)    == IF a < b THEN a ELSE b
First(units, k) == SubSeq(units, 1, k)
After(units, k) == SubSeq(units, k + 1, Len(units))

\* Mutant of Unsent: send is called once, whatever it took.
UnsentOnce(units, k) == << >>

\* send_all goes on with what send did not take.
Unsent(units, k) == After(units, k)

\* Mutant of Filled: recv is called once, whatever it gave.
FilledOnce(units, n) == TRUE

\* recv_all goes on until it has all it wants.
Filled(units, n) == Len(units) = n

\* A closing side that resets the connection discards what it had to send.
Cut(units) == {First(units, k) : k \in 0 .. Len(units)}

Init ==
  /\ pc = "start" /\ marks = {} /\ typed = << >> /\ buffered = << >>
  /\ out = << >> /\ in = << >> /\ junk = 0
  /\ srv = "id" /\ outbox = << >> /\ inbox = << >>
  /\ conn = "open" /\ up = << >> /\ down = << >>
  /\ asked = << >> /\ heard = << >> /\ posted = << >> /\ printed = << >>

-----------------------------------------------------------------------------
(* The subscriber *)

\* main: connected, it sends its ID.
Hello ==
  /\ pc = "start"
  /\ pc' = "hello"
  /\ out' = Request(ID)
  /\ asked' = Append(asked, ID)
  /\ UNCHANGED <<marks, typed, buffered, in, junk, server, conn, up, down,
                 heard, posted, printed>>

\* Mutant of Ready: standard input is not among the descriptors polled.
ReadySock == IF down # << >> \/ conn # "open" THEN {"sock"} ELSE {}

\* The descriptors poll finds readable.
Ready == (IF typed # << >> THEN {"stdin"} ELSE {}) \cup
         (IF down # << >> \/ conn # "open" THEN {"sock"} ELSE {})

\* poll does not wait; a round that finds nothing changes nothing.
Poll ==
  /\ pc = "scan" /\ marks = {}
  /\ Ready # {}
  /\ marks' = Ready
  /\ UNCHANGED <<pc, typed, buffered, out, in, junk, server, conn, up, down, history>>

\* The subscriber's process ends and its socket is closed.
Leave(how) ==
  /\ pc' = how
  /\ \/ conn # "open" /\ UNCHANGED <<conn, up>>
     \/ conn = "open" /\ down = << >> /\ conn' = "left" /\ UNCHANGED up
     \/ conn = "open" /\ down # << >> /\ conn' = "broken" /\ up' \in Cut(up)

\* Mutant of Unserved: the scan stops after a line.
UnservedAfter(fd) == {}

\* The entries of the scan behind fd.
Unserved(fd) == marks \ {fd}

(***************************************************************************)
(* fgets takes the next line from the stdio buffer, and fills the buffer   *)
(* with all that was typed only when it is empty.  The line is a valid     *)
(* command, exit, or one that is dropped.                                  *)
(***************************************************************************)
Console ==
  LET lines == IF buffered = << >> THEN typed ELSE buffered
      line  == Head(lines)
  IN  /\ pc = "scan" /\ "stdin" \in marks
      /\ marks' = Unserved("stdin")
      /\ buffered' = Tail(lines)
      /\ typed' = IF buffered = << >> THEN << >> ELSE typed
      /\ \/ /\ line \in Requests
            /\ pc' = "request"
            /\ out' = Request(line)
            /\ asked' = Append(asked, line)
            /\ UNCHANGED <<conn, up>>
         \/ line = "exit" /\ Leave("ended") /\ UNCHANGED <<out, asked>>
         \/ line = "invalid" /\ UNCHANGED <<pc, conn, up, out, asked>>
      /\ UNCHANGED <<in, junk, server, down, heard, posted, printed>>

\* One send of send_all on a connection whose other end reads.
Sends ==
  /\ conn = "open"
  /\ \E k \in 1 .. AtMost(Len(out), UpCap - Len(up)) :
       /\ up' = up \o First(out, k)
       /\ out' = Unsent(out, k)
  /\ pc' = IF out' = << >> THEN "scan" ELSE pc
  /\ UNCHANGED <<conn, down>>

(***************************************************************************)
(* One send after the server closed.  After an end of file the units are   *)
(* taken, and answered by a reset, which may overtake what the server had  *)
(* still to send.  After a reset send fails once, which send_all returns   *)
(* and nobody looks at; then it raises SIGPIPE.                            *)
(***************************************************************************)
SendsInVain ==
  /\ \/ /\ conn = "fin"
        /\ \E k \in 1 .. Len(out) : out' = Unsent(out, k)
        /\ \/ conn' \in {"fin", "gone"} /\ UNCHANGED down
           \/ conn' = "rst" /\ down' \in Cut(down)
        /\ pc' = IF out' = << >> THEN "scan" ELSE pc
     \/ /\ conn = "rst"
        /\ conn' = "dead" /\ out' = << >> /\ pc' = "scan"
        /\ UNCHANGED down
     \/ /\ conn \in {"gone", "dead"}
        /\ pc' = "killed"
        /\ UNCHANGED <<conn, out, down>>
  /\ UNCHANGED up

SendAll ==
  /\ pc \in {"hello", "request"}
  /\ Sends \/ SendsInVain
  /\ UNCHANGED <<marks, typed, buffered, in, junk, server, history>>

\* The scan comes to the socket: recv_all of the length.
Socket ==
  /\ pc = "scan" /\ "sock" \in marks /\ "stdin" \notin marks
  /\ marks' = Unserved("sock")
  /\ pc' = "header"
  /\ in' = << >>
  /\ UNCHANGED <<typed, buffered, out, junk, server, conn, up, down, history>>

\* Mutant of Length: the length counts its own units too.
LengthAll(units) == LenUnits + Size[units[1][1]]

\* The length that stands at the front of these units.
Length(units) == Size[units[1][1]]

\* What recv_all waits for: the length, then as many units as it says.
Wanted ==
  IF pc = "header" THEN LenUnits ELSE LenUnits + Length(in)

\* One recv, and printMessage once the message is complete.
Receive ==
  /\ pc \in {"header", "body"}
  /\ down # << >>
  /\ \E k \in 1 .. AtMost(Len(down), Wanted - Len(in)) :
       /\ in' = in \o First(down, k)
       /\ down' = After(down, k)
  /\ \/ /\ ~Filled(in', Wanted)
        /\ UNCHANGED <<pc, printed>>
     \/ /\ pc = "header" /\ Filled(in', Wanted)
        /\ pc' = "body"
        /\ UNCHANGED printed
     \/ /\ pc = "body" /\ Filled(in', Wanted)
        /\ pc' = "scan"
        /\ printed' = Append(printed, Framed(in', Wanted))
  /\ UNCHANGED <<marks, typed, buffered, out, junk, server, conn, up,
                 asked, heard, posted>>

\* Mutant of Finished: the result of recv_all is not looked at.
FinishedNever(rc) == FALSE

\* Results of recv_all after which run_client returns.
Finished(rc) == rc = 0

(***************************************************************************)
(* recv after the server closed: 0 at an end of file or when the reset has *)
(* been reported, -1 to report it.  With -1 the subscriber goes on.  While *)
(* it reads a message, it prints recv_packet as it stands.  While it reads *)
(* the length, that length is what the stack holds: recv_all is called     *)
(* with it, and finds the end of the connection or, for an absurd length,  *)
(* fails too.                                                              *)
(***************************************************************************)
ReceiveEnd ==
  LET rc == IF conn = "rst" THEN -1 ELSE 0
  IN  /\ pc \in {"header", "body"}
      /\ down = << >> /\ conn # "open"
      /\ conn' = IF conn = "rst" THEN "dead" ELSE conn
      /\ \/ /\ Finished(rc) \/ pc = "header"
            /\ pc' = "ended"
            /\ UNCHANGED junk
         \/ /\ ~Finished(rc)
            /\ pc' = "scan"
            /\ junk' = AtMost(junk + 1, MaxJunk)
      /\ UNCHANGED <<marks, typed, buffered, out, in, server, up, down, history>>

SubscriberStep ==
  Hello \/ Poll \/ Console \/ SendAll \/ Socket \/ Receive \/ ReceiveEnd

-----------------------------------------------------------------------------
(* The server *)

\* The next event is a message for this subscriber: send_variable.
Post(m) ==
  /\ srv = "idle"
  /\ Len(posted) < MaxPosted
  /\ srv' = "send"
  /\ outbox' = Packet(m)
  /\ posted' = Append(posted, m)
  /\ UNCHANGED <<subscriber, inbox, conn, up, down, asked, heard, printed>>

\* One send of send_variable.
Push ==
  /\ srv = "send" /\ conn = "open"
  /\ \E k \in 1 .. AtMost(Len(outbox), DownCap - Len(down)) :
       /\ down' = down \o First(outbox, k)
       /\ outbox' = Unsent(outbox, k)
  /\ srv' = IF outbox' = << >> THEN "idle" ELSE srv
  /\ UNCHANGED <<subscriber, inbox, conn, up, history>>

\* The subscriber has closed: send fails, or the server is killed (Server).
PushInVain ==
  /\ srv = "send" /\ conn # "open"
  /\ outbox' = << >>
  /\ srv' \in {"idle", "closed"}
  /\ UNCHANGED <<subscriber, inbox, conn, up, down, history>>

\* Mutant of Turn: what was received of the last request is not given up.
TurnOn ==
  /\ srv = "idle"
  /\ up # << >> \/ conn # "open"
  /\ srv' = "request"
  /\ UNCHANGED <<subscriber, outbox, inbox, conn, up, down, history>>

\* The scan finds the connection readable: recv_all of a request.
Turn ==
  /\ srv = "idle"
  /\ up # << >> \/ conn # "open"
  /\ srv' = "request"
  /\ inbox' = << >>
  /\ UNCHANGED <<subscriber, outbox, conn, up, down, history>>

\* One recv of an ID or of a request.
Take ==
  /\ srv \in {"id", "request"}
  /\ up # << >>
  /\ \E k \in 1 .. AtMost(Len(up), ReqUnits - Len(inbox)) :
       /\ inbox' = inbox \o First(up, k)
       /\ up' = After(up, k)
  /\ \/ /\ ~Filled(inbox', ReqUnits)
        /\ UNCHANGED <<srv, heard>>
     \/ /\ Filled(inbox', ReqUnits)
        /\ srv' = "idle"
        /\ heard' = Append(heard, Framed(inbox', ReqUnits))
  /\ UNCHANGED <<subscriber, outbox, conn, down, asked, posted, printed>>

\* Mutant of Disconnected: an end in the middle of a request is no end.
DisconnectedBetween == srv = "request" /\ inbox = << >>

\* recv_all returns 0 or fails, whatever it had received before.
Disconnected == srv = "request"

(***************************************************************************)
(* recv after the subscriber closed.  For an ID the result is not looked   *)
(* at (Server has the consequences); otherwise the server closes its side  *)
(* or, after a reset, dies.                                                *)
(***************************************************************************)
TakeEnd ==
  /\ up = << >> /\ conn # "open"
  /\ \/ /\ srv = "id"
        /\ srv' = "idle"
        /\ conn' = "left"
     \/ /\ Disconnected
        /\ srv' = "closed"
        /\ UNCHANGED conn
  /\ UNCHANGED <<subscriber, outbox, inbox, up, down, history>>

ServerStep == Push \/ PushInVain \/ Turn \/ Take \/ TakeEnd

-----------------------------------------------------------------------------
(* From outside *)

(***************************************************************************)
(* The server closes: it refuses the ID, ends by exit, or dies at any      *)
(* point of another connection's service.  What the subscriber sent and    *)
(* the server has not read makes it a reset, unless it arrives after the   *)
(* end of file.                                                            *)
(***************************************************************************)
Close ==
  /\ srv # "closed" /\ conn = "open"
  /\ srv' = "closed"
  /\ outbox' = << >>
  /\ up' = << >>
  /\ \/ up = << >> /\ conn' = "fin" /\ UNCHANGED down
     \/ up # << >> /\ conn' = "gone" /\ UNCHANGED down
     \/ up # << >> /\ conn' = "rst" /\ down' \in Cut(down)
  /\ UNCHANGED <<subscriber, inbox, history>>

\* The subscriber is killed.
Kill ==
  /\ ~Over
  /\ Leave("killed")
  /\ UNCHANGED <<marks, typed, buffered, out, in, junk, server, down, history>>

\* The valid commands typed so far.
Commands ==
  Len(SelectSeq(asked \o buffered \o typed, LAMBDA line : line \in Requests))

Type(line) ==
  /\ ~Over
  /\ Len(typed) + Len(buffered) < MaxLines
  /\ line \in Requests => Commands < MaxAsked
  /\ typed' = Append(typed, line)
  /\ UNCHANGED <<pc, marks, buffered, out, in, junk, server, conn, up, down, history>>

Outside ==
  \/ \E m \in Msgs : Post(m)
  \/ Close
  \/ Kill
  \/ \E line \in Requests \cup {"exit", "invalid"} : Type(line)

Next == SubscriberStep \/ ServerStep \/ Outside

Safe == Init /\ [][Next]_vars

(***************************************************************************)
(* Fairness: the thread of either process is scheduled, and the server is  *)
(* not held up by its other connections.  Nothing is assumed of what comes *)
(* from outside.                                                           *)
(***************************************************************************)
Spec == Safe /\ WF_vars(SubscriberStep) /\ WF_vars(ServerStep)

-----------------------------------------------------------------------------
(* What must hold *)

TypeOK ==
  /\ pc \in {"start", "hello", "scan", "request", "header", "body", "ended", "killed"}
  /\ marks \subseteq {"stdin", "sock"}
  /\ srv \in {"id", "idle", "request", "send", "closed"}
  /\ conn \in {"open", "fin", "gone", "rst", "dead", "left", "broken"}
  /\ junk \in 0 .. MaxJunk
  /\ Len(up) <= UpCap /\ Len(down) <= DownCap
  /\ pc \in {"hello", "request"} => out # << >>
  /\ srv = "send" => outbox # << >>
  /\ pc = "header" => Len(in) < LenUnits
  /\ pc = "body" => Len(in) \in LenUnits .. Wanted - 1
  /\ srv \in {"id", "request"} => Len(inbox) < ReqUnits

(***************************************************************************)
(* However send and recv cut the bytes up, and whenever either side ends,  *)
(* the server acts on exactly the ID and the requests that were sent, and  *)
(* the subscriber prints exactly the messages that were sent, whole and in *)
(* order.  Of what is lost with a connection nothing is in the middle, and *)
(* no request or message of which only a part came is acted on.            *)
(***************************************************************************)
UpLink   == INSTANCE Channel WITH Items <- Requests \cup {ID}, sent <- asked, got <- heard
DownLink == INSTANCE Channel WITH Items <- Msgs, sent <- posted, got <- printed

RequestsArrive == UpLink!Spec
MessagesArrive == DownLink!Spec

(***************************************************************************)
(* Whoever waits in recv_all in the middle of something waits for a peer   *)
(* that is about to send: poll marked the socket, so the rest is on its    *)
(* way (subscriber.c:129, 135, server.c:344), and a length never promises  *)
(* more than follows it.                                                   *)
(***************************************************************************)
NoOneWaitsInVain ==
  conn = "open" =>
    /\ pc \in {"header", "body"} /\ down = << >> => srv = "send"
    /\ srv \in {"id", "request"} /\ up = << >> => pc \in {"start", "hello", "request"}

(***************************************************************************)
(* recv_packet is printed without having been received only after a reset  *)
(* that nothing reported before, and only once (subscriber.c:130, 136).    *)
(***************************************************************************)
JunkOnlyOnce == junk > 0 => junk = 1 /\ conn = "dead"

(***************************************************************************)
(* The two threads wait for each other: the subscriber is in send_all and  *)
(* reads nothing meanwhile, so is the server, and the connection holds no  *)
(* more in either direction.                                               *)
(***************************************************************************)
Deadlocked ==
  /\ conn = "open"
  /\ pc = "request" /\ Len(up) = UpCap
  /\ srv = "send" /\ Len(down) = DownCap

(***************************************************************************)
(* What was sent arrives, unless the receiver ends first or both sides     *)
(* wait for each other: lines that keep coming do not hold up messages,    *)
(* nor messages requests.                                                  *)
(***************************************************************************)
Delivered ==
  /\ \A n \in 1 .. MaxPosted :
       Len(posted) >= n ~> Len(printed) >= n \/ Over \/ Deadlocked
  /\ \A n \in 1 .. MaxAsked + 1 :
       Len(asked) >= n ~> Len(heard) >= n \/ srv = "closed" \/ Deadlocked

(***************************************************************************)
(* Either side notices the end of the other, in whatever call it comes,    *)
(* also in the middle of a message or of a request (server.c:344).         *)
(***************************************************************************)
EndNoticed ==
  /\ srv = "closed" ~> Over
  /\ Over ~> srv = "closed"

(***************************************************************************)
(* A line that comes while others wait in the stdio buffer makes these be  *)
(* taken: lines wait only behind lines that came with them, until the next *)
(* one is typed (subscriber.c:148).                                        *)
(***************************************************************************)
LinesTaken == typed # << >> ~> typed = << >> \/ Over \/ Deadlocked
=============================================================================
