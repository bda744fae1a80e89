# Verification of TopicSubscriptionApp

TLA+ models of the publish/subscribe server in `src/`, their model-checking
runs, and machine-checked proofs.

## The system

A *server* (`server.c`) relays messages. *Publishers* send them as UDP
datagrams, each on a topic. *Subscribers* (`subscriber.c`) connect over TCP,
name themselves with an ID and subscribe to topics; a subscription with
store-and-forward (SF) also gets what was published while the subscriber was
away. Everything lives in the server's memory; nothing survives its end.

| Part | State | Operations | Interaction |
|---|---|---|---|
| broker (`run_server`) | `clients`, `topics`, and per topic `messages` (the log) and `subscribers` | register, refuse, return and catch up, subscribe, unsubscribe, disconnect, publish | handlers called by the poll loop; subscribers hold pointers into `clients` |
| poll loop (`run_server`) | `pollfds`, the scan index, `num_clients` | poll, accept, blocking read of the ID, read of a request, end of file, stdin | sockets, stdin |
| vector (`vector.c`) | array, length, capacity | append with doubling by `realloc` | may move the array others point into |
| framing (`common.c`, `send_variable`) | none | `send_all`, `recv_all`, length prefix | loops over partial calls |
| subscriber (`subscriber.c`) | a connection, the stdin buffer | send ID and commands, receive and print | one thread, `poll` on stdin and socket |
| payload (`send_variable`, `printMessage`) | none | length of a message, text of a number | pure conversions |
| publisher (`udp_client.py`) | none | send a datagram | external |

What is hard to test here: descriptors and pointers that go stale (`realloc`
under a pointer, `pollfds` changing under the scan, descriptors reused by the
kernel); requests, datagrams, ends and resets in orders nobody tried; cursors
into a log that is cut at the front for somebody else; a process that is gone
although the table still calls it connected; one thread that blocks for one
peer. `PROJECT.json` lists these hazards with their lines. What makes each
part correct:

- *broker*: every subscriber gets exactly what it asked for, once and in order;
  logs hold nothing useless; cursors stay in their logs; an ID has one
  connection.
- *poll loop*: `pollfds` and `clients` agree, no event is acted on after it has
  become untrue, none waits forever, only `exit` stops the server.
- *framing*: what is sent as one message is received as one message, however
  the bytes are cut up; nobody waits for bytes that do not come.
- *subscriber*: lines and messages do not keep each other waiting, the end of
  the server is noticed in every state.
- *payload*: the text printed is the value published, whatever was in memory
  before.

## Modules

### StoreForward

The promise, in terms a subscriber understands: which IDs are `online`, the
`mode` each asked for on each topic (none, live, sf), the `queue` of messages
each still has to get, and `out`, the batches the last event wrote. No log, no
cursors, no pointers. The promise is graded because the code is: exact for an
ordinary pair of ID and topic; at least once for a pair in `doubled` (it once
had two subscription entries, see the findings); void for a topic in `corrupt`
(its subscribers were read through a stale pointer).

### Broker

`run_server` without its loop: the state variables are the code's data, each
action is one whole handler.

| Action | Code |
|---|---|
| `Register` | new ID, with the reallocation of `clients` (server.c 244-252, vector.c 14-28) |
| `Refuse` | ID already connected (171-181) |
| `Reconnect` | known ID: catch up, find the oldest unsent message, shift cursors, cut the log (182-241) |
| `Subscribe`, `SubscribeSF` | both kinds of `subscribe`, with the early `break` (399-504) |
| `Unsubscribe` | with the entry that is skipped after a deletion (372-396) |
| `Disconnect` | (348-364) |
| `Create`, `Publish` | a datagram on an unknown / known topic (272-323) |

A client's `fd` is -1 and a `last_sent` is -2 as in the code (`NoFd`, `NoSF`).
A subscriber's pointer is an index into `clients` and a flag `fresh`. When the
array of clients moves, all pointers taken before lose `fresh`; what is read
through such a pointer (`Reads`) is any descriptor in `Fds` or -1, chosen anew by every handler.
`realloc` is free to move the array or not. A stale read
that crashes the server is not an outcome in the model.

`wanted`, `out`, `doubled` and `corrupt` are history variables: they record
what was asked for, what was sent, and which pairs and topics have left the
exact promise. No action of the code depends on them.

### Server

Extends Broker with the poll loop and the processes around it. A server step
is one call of `poll` (`Poll`), the service of one marked entry of `pollfds`
(`Accept`, `Datagram`, `Console`, `Request`, `EndOfFile`), the blocking read
of an ID (`RecvID`), or an end (`PollFails`, `Die`). Subscribers, publishers
and the operator move between any two of them (`Outside`).

Every `DIE` of the loop is there. The server ends when `poll` fails
(server.c:118), when `accept` does, with no descriptor left or otherwise (154),
when `recvfrom` or the `sendto` of the acknowledgement fails (263, 266), when a
descriptor is no client's (341), and when `recv` fails after a reset (346).
`Faults` names the calls that may fail for reasons outside the model. In
`server` all four may, at any time. In the other Server runs none does, so
that what `server_serves` promises, and what the three counterexamples show,
does not come from a failing call. That descriptors run out (`Open = Fds`) is
in the guard of `AcceptFails` and so in the proofs; in the runs there are as
many descriptors as connections, and `accept` fails as one of `Faults`.

Kernel and C library behaviour that the code relies on is modelled from its
use and marked external in `PROJECT.json`: a connection with unread data that
is closed is reset, else ends; writing to an ended connection provokes a reset
and writing again raises SIGPIPE, so that the second of the two `send`s of a
message may kill the server; `send` to a number that is no open descriptor
fails, which `send_all` ignores; `fgets` takes one line
from the stdio buffer and fills the buffer only when it is empty; `accept`
returns the lowest free descriptor. After a connection that ended before it
sent its ID, the ID is any ID (an uninitialized array).

Requests and messages are whole here; how they get across in parts is the
subject of Session.

### Channel and Session

`Channel` is the promise of framing for one direction: items are received
whole, in order, each once. `Session` implements it twice, for the ID and the
requests (`UpLink`) and for the messages (`DownLink`), over one connection: two
bounded sequences of units, of which one `send` or `recv` moves any number.

| Action | Code |
|---|---|
| `Hello` | `main` sends the ID (subscriber.c 254-262) |
| `Poll`, `Console`, `Socket` | the loop of `run_client`: `poll`, then stdin, then the socket (112-204) |
| `SendAll` | one `send` of `send_all`, blocking, failing or raising SIGPIPE (common.c 20-31) |
| `Receive`, `ReceiveEnd` | one `recv` of the length or the body; the end of the connection (subscriber.c 127-142) |
| `Post`, `Push`, `PushInVain` | the server's `send_variable`, one `send` at a time |
| `Turn`, `Take`, `TakeEnd` | the server's `recv_all` of an ID or a request, one `recv` at a time |
| `Close`, `Kill`, `Type` | what comes from outside |

Between calls of one thread the other may do anything, including end. `conn`
is what the kernel reports of the other end. A process that closes with unread
bytes resets the connection, and a reset discards what its side had still to
send (`Cut`). The header and the body of a message are two calls of `send_all`
one right after the other, and are one sequence of units here.

After a reset `recv` returns -1 once, which `run_client` takes for success: in
the body it prints `recv_packet` as it is (`junk`), in the length it uses an
undefined number. The model lets that number end the subscriber or give it one
more bogus message, the two things `recv_all` can make of it on a dead
connection.

### Payload

Contents byte by byte, scaled down: the base of a byte, the widths of numbers,
the size of `content` and the padding behind it are constants. `Datagram` is
`recvfrom` into `packet`, which is only overwritten as far as the datagram
goes, followed by a copy into a log or onto a connection; `Unwanted` a datagram
nobody gets, which changes `packet` all the same; `Arrive` the bytes
`send_variable` sends of a copy, written over `recv_packet`, and what
`printMessage` prints. Both structures start as anything (all zero, or nowhere
zero) and keep what is not overwritten.

`struct message` has its content at offset 57 and three bytes of padding
behind it (1560 bytes in all; the comment in vector.c names that number). The
lengths in `send_variable` add the payload to 60, so every message carries
three bytes more than its payload, and a string of 1499 characters or more
carries the padding. The model does the same (`Sent`). (`src/README.md` calls
the size of a message strictly minimal.)

## Runs

| Run | Question | Instance |
|---|---|---|
| `broker` | Do the tables stay consistent, are logs minimal, is the promise kept? | 3 IDs, 1 topic, 1 message, log of 2, 3 entries |
| `broker_topics` | Is catching up per topic, complete and in order? | 2 IDs, 2 topics, 2 messages, log of 2, 2 entries |
| `server` | Do `pollfds` and the table agree, are the marks never outdated, whose ID does a connection stand under, who can change a subscription, who is sent messages? | 2 IDs, 2 connections, all requests, 1 topic, failing calls |
| `server_serves` | Does any event wait forever? | 2 IDs, 2 connections, ignored requests, datagrams, `exit` |
| `session` | Does framing keep whole items in order, who can wait for whom, what ends what? | 1 valid command (typed up to twice), 2 lines waiting, messages of two lengths, 2 posted, 2 units held each way |
| `payload` | Is what is printed what was published? | bytes of base 4, numbers of 2 bytes, content of 4, 1 of padding, 9 datagrams, 1 message waiting |
| `broker_update`, `broker_unsubscribe`, `broker_reach`, `server_stops`, `server_refuses`, `server_exit` | six statements of the README or of comments that the code does not keep | as small as the counterexample allows |

Why these bounds are enough for what they show. Three clients make the array of
clients grow twice (capacities 1, 2, 4), so pointers of the first go stale
while those of later ones are fresh, and an absent client may hold the log back
for two others. Three entries allow a duplicate next to a
foreign entry and two duplicates side by side. Two messages in a log tell the
cursors -1, 0 and 1 apart and allow the log to be cut partially. In `Server`
two connections are what an entry moving up in `pollfds`, a refused ID and a
reused descriptor need.

In `Session` every item has more units than one call need move, a long message
has more than the connection holds, and two requests have too: both sides can
block in the middle of an item, and both at once. In `Payload` one string fits
with room to spare, terminated or not, and one fills content; the magnitudes
are the largest `int` and the first one beyond (7 and 8 of 16).

Every bound is a constant in a guard: `MaxLog`, `MaxSubs` (Broker), `MaxConns`,
`MaxIn`, `MaxUdp`, `MaxLines` (Server), `MaxPosted`, `MaxAsked`, `MaxLines`
(Session), `MaxWaiting` (Payload). Beyond that, three constraints keep the
runs small. `Sane` and `SaneCrowd` stop after a state in which a stale pointer
was read or too many pairs are doubled; with at most two clients `broker` goes
on. `Sane` of MCServer stops after a stale read. IDs, topics and messages are
symmetric. The views leave out `out`, on which no action depends (what a step
sends is checked on the step), and, in `server`, the marks of `poll` behind the
scan, which the next `poll` overwrites. The liveness
runs use neither symmetry, view nor constraint, and are chosen so that no
guard of Broker's bounds ever holds the server up: with requests that leave
the tables of topics alone there is no log and no entry.

Deadlock is not checked in the Server runs and in `session`: the processes may
stop. Where `session` blocks, its own properties say so.
Every property has a mutant of the code it is about (defined beside the
original, and named as such) that TLC finds violating it.

### Fairness

`ServerSpec` assumes two things: the server's one thread is scheduled
(`WF(ServerStep)`), and a subscriber whose ID the server is waiting for sends
it or ends (`WF(AwaitedHello)`). The second is what `main` of subscriber.c does
right after `connect`. Without it nothing is served: the server reads the ID
with a blocking call. Nothing is assumed of publishers and other subscribers,
and nothing of an order among them.

`Spec` of Session assumes that the thread of either process is scheduled, and
that the server is not kept from this connection by another one. It is, in the
program, by a blocked `send` or `recv_all` elsewhere; what `session` shows
holds as long as that does not happen for good. That a server with ever more
messages to send still comes to read a request is not shown here, where
`MaxPosted` ends the messages, but in `server_serves`: every marked entry has
its turn in each scan. What comes from outside (typing, messages, closing,
killing) is free to happen or not, and a typist who never stops is allowed.

### What server shows

- The table of clients maps a descriptor to the ID its subscriber named
  (`RightPeer`), although descriptors are reused, connections are refused and
  entries of `pollfds` move during the scan. The exception is a connection that
  ended before it named an ID. It stands under whatever the stack held and, if
  that is the ID of an absent client, takes that client's stored messages with
  it (server.c:164). This does happen; the property only confines it to the
  dead.
- So the subscriptions of an ID change only by its own requests
  (`OnlyByOwnRequest`), and who is alive is sent only messages of topics its ID
  asked for (`OnlyWhatItAsked`). Both except a topic whose subscribers were
  read through a stale pointer: there a message may go to anybody's descriptor
  and an unsubscription may remove anybody's entry (finding 3). The second
  excepts pairs that once had two entries, of which unsubscribe may leave one
  (finding 2).
- Nothing is claimed of who can end the server: a failing call can, and so can
  every subscriber that goes (finding 4).

### What session and payload show

- Framing holds with any division of the bytes and any end: `RequestsArrive`,
  `MessagesArrive`. What is lost is always the last of a connection.
- Server and subscriber *can* wait for each other for good: both in `send_all`,
  both directions full (`Deadlocked`, which the run reaches; server.c:203 and
  subscriber.c:182). Nothing else holds up what was sent (`Delivered`), and
  whoever is in the middle of a `recv_all` has a peer that is about to send
  (`NoOneWaitsInVain`).
- A reset makes the subscriber print one message it did not receive, never
  more, and then end (`JunkOnlyOnce`, `EndNoticed`).
- A line left in the stdio buffer is taken when another is typed
  (`LinesTaken`); until then it waits, as in the server (finding 6). Nothing in
  the repository promises more of the subscriber.
- Numbers are exact, except that an INT of 2^31 or more wraps around
  (`NumbersExact`).
- A string without a terminator is followed by what an earlier, longer
  datagram left in `packet` (`StringsFollowed`). The sample payloads have
  none: "Ana are mere" comes out right only before "huge_string" was sent, the
  order in which `test.py` sends them.
- `recv_packet` may keep anything: it never shows (`EnoughIsSent`).

### Findings

1. `broker_update`: subscribing again may add a second entry (`break` after the
   first entry, server.c:421 and 475).
2. `broker_unsubscribe`: of two neighbouring entries the second survives
   (server.c:382-392).
3. `broker_reach`: subscribers point into an array that moves (server.c:286).
4. `server_stops`: a message to a connection whose subscriber has gone can kill
   the server with SIGPIPE (server.c:288); so can a reset (server.c:346).
5. `server_refuses`: a restarted subscriber may be refused because its previous
   connection's end is still to be noticed (server.c:175).
6. `server_exit`: `exit` that comes together with an earlier line is not seen
   (server.c:130). This needs a standard input that hands over several lines at
   once, such as the pipe through which `test.py` types; a terminal in canonical
   mode gives `read` one line at a time.

## Proofs

Every safety property a run checks is also a theorem, for any IDs, topics,
messages, descriptors, sizes, capacities and bounds, and without the
constraints, views and symmetries of the runs.

| Module | Theorem | Property |
|---|---|---|
| `BrokerProofs` | `TypeCorrect` | `TypeOK` |
| | `ConnectionsUnique` | `OneConnectionPerID` |
| | `CursorsSafe` | `CursorsInLog` |
| | `ConnectedAreCaughtUp` | `CaughtUp` |
| | `LogsAreMinimal` | `NoUselessMessages` |
| `PromiseProofs` | `PromiseKept` | `Refinement` (of StoreForward) |
| `ServerProofs` | `BooksBalance` | `PolledAreClients` |
| | `MarksHold` | `MarksStayTrue` |
| | `PeersRight` | `RightPeer` |
| | `OwnRequestsOnly` | `OnlyByOwnRequest` |
| | `AskedFor` | `OnlyWhatItAsked` |
| | `LoopDrivesBroker` | the server's steps are Broker's |
| | `ServerKeepsPromise` | `Refinement`, of the whole server |
| `SessionProofs` | `TypeCorrect` | `TypeOK` |
| | `WaitsAreServed` | `NoOneWaitsInVain` |
| | `JunkAtMostOnce` | `JunkOnlyOnce` |
| | `RequestsRefine`, `MessagesRefine` | `RequestsArrive`, `MessagesArrive` (refinements of Channel) |
| `PayloadProofs` | `TypeCorrect` | `TypeOK` |
| | `NumbersAreExact` | `NumbersExact` |
| | `StringsFollow` | `StringsFollowed` |
| | `SentIsEnough` | `EnoughIsSent` |

`Streams` holds lemmas about items sent in units, and models no code.

There is one lemma per action. The inductive invariants `IInv` of Broker,
`RInv`, `SInv` and `PInv` were put to TLC on the instances of the runs before
they were proved; that of Session quantifies over positions and is only proved.

### The tables (BrokerProofs)

None of the five is proved alone. That a log's first message is waited for by
an absent subscriber (`NoUselessMessages`) survives an unsubscription only
because the entries removed belong to the client that asks, who is connected;
to know that they are its entries and not those of another with the same
descriptor takes `OneConnectionPerID`; a log that becomes non-empty has cursors
at -1 because connected ones are at its end (`CaughtUp`), and the arithmetic of
the cut stays inside the log by `CursorsInLog`. The conjunction, `IInv`, is
inductive. The hard lemma is `ReconnectKeepsIInv`: its `ScanKeeps` says of one
topic what catching up and cutting by `min + 1` leave, whatever was read
through stale pointers.

### The promise (PromiseProofs)

Every handler is one step of StoreForward or leaves it alone. The mapping makes
the queue of an ID on a topic out of a cursor and a log, so the proof is about
the entries of a pair, `Matched`: there is an entry whenever one was asked for,
one at most if the pair is not `doubled` (`Once`), its kind is the one wanted
(`Asked`), and entries of one pair that keep messages stand at the same place
(`Together`). `RInv` is `IInv` and `Matched` for every topic that is not
`corrupt`. `Together` is what makes the queue of a doubled pair well defined:
both entries wait for the same, and are served it one after the other, which is
why such a pair is promised everything at least once and not exactly once.

Where the code does more than one thing, a lemma says what they come to:
`UnsubscribeLeaves` (which entries a walk that skips one after each removal
leaves), `PublishSpreads` (a datagram reaches the entries of the connected and,
if an absent one waits, the log and every cursor), `ScanServes` (after a return
everybody waits for what they waited for, though the log was cut).

### The loop (ServerProofs)

`SInv` is `IInv` with `Layout`, `Marks`, `RightPeer` and the shapes of what the
kernel holds. `Layout` is `PolledAreClients` descriptor by descriptor, and also
for the time the server waits for an ID, when the new connection is in
`pollfds` and not yet in the table. `Marks` adds to `MarksStayTrue` that no
entry up to the captured count is uninitialized: an entry that moves up over a
closed one brings its mark along, and one that was added has none. Without
`Layout` a descriptor might be listed twice and be readable once. That
`DIE "client not found"` is never reached follows from it: every polled
connection is a client's. `RightPeer` is inductive because who has ended sends
nothing more, neither ID nor request (`Continues`).

`LoopDrivesBroker` says that each step of the server is one of Broker, taken
with a descriptor, a client or a topic for which Broker has that step. The
theorems about Broker then hold of the server, and with `PromiseKept` it keeps
the promise of StoreForward (`ServerKeepsPromise`).

The two action properties put the layers together. For `OwnRequestsOnly`, each
handler of Broker is shown to leave the kinds of entries of every pair alone
but for the pair a request is about: a cut of the log never moves a cursor to
-2 (`ScanServes`), a datagram moves no live mark, and unsubscribe loses no
entry of another client (`Leaves`). `RightPeer` and the fact that requests
follow the ID then make the client of a request its sender. For `AskedFor`,
`SentIsDue` is an invariant of Broker under `RInv`: batches go to pairs that
have an entry, and by `Asked` those were asked for. `RightPeer`, or the ID just
read for a connection just accepted, makes the descriptor written to that of
the ID's own subscriber.

### Framing (SessionProofs, Streams)

What the receiver has of an item, what is under way and what the sender has
still to send are one sequence of units. The invariant is that it is the tail
of the items sent, from the first one not yet received: `Part` in general,
where a reset has cut off the end, `Whole` while the connection is open.
`Streams` states both by the positions at which items start, so that neither
concatenation of all items nor recursion is needed, and shows that they survive
an item sent, an item received and a loss at the end. With `Whole`, a receiver
in the middle of an item knows that the rest exists: it is on its way or the
sender is in `send_all` (`NoOneWaitsInVain`). With `Part`, whatever is received
whole is the next item (`RequestsArrive`, `MessagesArrive`).

### Contents (PayloadProofs)

The invariant, `PInv`, is that what waits is a copy of `packet` just after a
datagram: its content, followed by what it did not overwrite. Everything else
is about the conversions. `StringIsPrinted` follows the text to the first null
of what is in memory. `PrintedAgrees` says that what is printed depends only on
the bytes sent, of which the null at `content[1499]` and the padding are the
delicate case. `NumberOfNet` says that the bytes of a number read back are that
number. This takes induction, and the library's theorems about it have an
operator for the statement, which the provers cannot instantiate; so `Smallest`
(from the well-foundedness of <) and `EveryNumber` state it for a set. With it
`PowersExist` and `FoldsExist` show that the recursive function `Power` and the
fold of `Number` are what their definitions say.

### Assumptions

All are about constants, named, and evaluated by TLC on the runs:
`FdsAssumption` (descriptors are natural numbers, so none equals -1),
`FdsAreNew` (accepted descriptors are not the three the server starts with),
`FaultsAssumption` (the calls that may fail are four),
`BoundsAssumption` (bounds are numbers), `RequestsAssumption` (a request has one
of four types and a topic), `ItemsAssumption` (the ID, requests, `exit` and
invalid lines are different things), `UnitsAssumption` (an item has at least
one unit, and a buffer holds at least one),
`SizesAssumption` (a byte tells four types apart and has an even number of
values, a number and its header fit into content), `PublishedAssumption`
(publishers send values).

### What the proofs found

- `Sends` of Server had two overlapping arms in a CASE: TLC takes the first,
  the prover may not. They are disjoint now.
- `NumbersExact` is false when a byte has an odd number of values: the signed
  numbers then reach one further down. `SizesAssumption` says it is even.
- `Power` is recursive because the provers know nothing of `^`.

### Only model-checked

Liveness: `Delivered`, `EndNoticed`, `LinesTaken` of Session and
`EverybodyServed` of Server. Fairness and ENABLED are out of the provers'
reach. The six statements the code does not keep have counterexamples, not
proofs.

## Plan

Done: StoreForward, Broker, MCBroker, BrokerProofs, PromiseProofs, Server,
MCServer, ServerProofs, Channel, Session, MCSession, Streams, SessionProofs,
Payload, MCPayload, PayloadProofs. Left:

1. What the code would keep if it were mended: that with fresh pointers only
   and one entry per pair the promise is exact for everybody, as a corollary.
2. Shorter proofs: the lemmas on sequences that PayloadProofs and Streams both
   state could be one module.

## Not modelled

- `main` of both programs (arguments, socket options, bind): single calls, no
  state. Failing calls that end the program at the start, and failing
  allocation.
- End of file on stdin: `fgets` then leaves the last line in the buffer, which
  was not `exit` in the server; in the subscriber `strtok` has cut it down to
  its first word, which asks for nothing.
- Lines longer than `fgets` takes at once, topics and IDs longer than their
  fields.
- Names and addresses in the printed line, the decimal rounding of FLOAT, log
  lines. The acknowledgement of datagrams, which `udp_client.py` never reads
  (that its `sendto` may fail is modelled).
- That no message of an invalid type reaches a subscriber has no property: the
  default case of one switch in `send_variable` decides it alone. Such
  messages are published in `payload` all the same.
- How a full connection of one subscriber holds up the others: Session has one
  connection, and socket buffers are unbounded in Server.
- Vectors other than `clients` are sequences: their growth is `memcpy` and
  `realloc` with nobody pointing into them across it.
- `test.py` and the build.
