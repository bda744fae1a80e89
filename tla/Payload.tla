------------------------------ MODULE Payload ------------------------------
(***************************************************************************)
(* The content of messages, from the datagram to the line printed: the     *)
(* server's struct message packet, which recvfrom overwrites only as far   *)
(* as the datagram goes (server.c), the bytes send_variable sends of a     *)
(* message, and the subscriber's recv_packet, which they overwrite only as *)
(* far as they go (subscriber.c).                                          *)
(*                                                                         *)
(* Both structures are uninitialized at first and keep what earlier        *)
(* messages left in them.  How a message travels is modelled elsewhere     *)
(* (Broker, Session): here copies of packet wait, in a log or on a         *)
(* connection, and arrive in order.                                        *)
(***************************************************************************)
EXTENDS Integers, Sequences, SequencesExt

CONSTANTS Base,       \* values of a byte (256)
          Width,      \* bytes of the number in an INT or a FLOAT (4)
          Half,       \* bytes of the number in a SHORT_REAL (2)
          Size,       \* bytes of content (1500)
          Padding,    \* bytes of struct message behind content (3)
          Published,  \* the values publishers send
          MaxWaiting  \* bound: messages not yet printed

VARIABLES packet,       \* the server's: type, and content with the padding
          waiting,      \* copies of packet still to be printed, with the value
                        \* published and the bytes left behind it in packet
          recv_packet,  \* the subscriber's
          shown         \* what the last step printed, as a sequence of at most one

vars == <<packet, waiting, recv_packet, shown>>

Byte == 0 .. Base - 1
Room == Size + Padding

\* The powers of Base, and how many numbers there are of Width bytes.
Power[k \in 0 .. Width] == IF k = 0 THEN 1 ELSE Base * Power[k - 1]
Modulus == Power[Width]

\* The types of struct UDPpacket.  (CHARS is STRING, a name TLA+ has taken.)
INT        == 0
SHORT_REAL == 1
FLOAT      == 2
CHARS      == 3

ASSUME SizesAssumption ==
  /\ Base \in Nat /\ Base > CHARS /\ Base % 2 = 0
  /\ Width \in Nat \ {0} /\ Half \in 1 .. Width
  /\ Size \in Nat /\ Size >= Width + 2 /\ Padding \in Nat

(***************************************************************************)
(* What publishers send: a signed magnitude, hundredths, a signed          *)
(* magnitude and a power of ten, or characters, followed by a null or not  *)
(* (the sample payloads are not; one fills content), or another type.      *)
(***************************************************************************)
Value ==
  [type : {INT}, sign : 0 .. 1, abs : 0 .. Modulus - 1]
    \cup [type : {SHORT_REAL}, abs : 0 .. Power[Half] - 1]
    \cup [type : {FLOAT}, sign : 0 .. 1, abs : 0 .. Modulus - 1, pow : Byte]
    \cup {v \in [type : {CHARS}, chars : BoundedSeq(Byte \ {0}, Size), ended : BOOLEAN] :
            v.ended => Len(v.chars) < Size}
    \cup [type : {CHARS + 1}]

ASSUME PublishedAssumption == Published \subseteq Value

\* The bytes of a number, in network order.
Net(n, w) == [i \in 1 .. w |-> (n \div Power[w - i]) % Base]

Content(v) ==
  CASE v.type = INT        -> <<v.sign>> \o Net(v.abs, Width)
    [] v.type = SHORT_REAL -> Net(v.abs, Half)
    [] v.type = FLOAT      -> <<v.sign>> \o Net(v.abs, Width) \o <<v.pow>>
    [] v.type = CHARS      -> v.chars \o (IF v.ended THEN <<0>> ELSE << >>)
    [] OTHER               -> << >>

\* bytes written over the beginning of room.
Over(room, bytes) == [i \in 1 .. Room |-> IF i <= Len(bytes) THEN bytes[i] ELSE room[i]]

(***************************************************************************)
(* A string in memory: the bytes before the first null.  If there is none  *)
(* in the structure, it goes on with what lies behind.                     *)
(***************************************************************************)
Behind == -1

Text(bytes) ==
  IF \E i \in DOMAIN bytes : bytes[i] = 0
    THEN SubSeq(bytes, 1, SelectInSeq(bytes, LAMBDA b : b = 0) - 1)
    ELSE Append(bytes, Behind)

Init ==
  /\ \E b \in {0, 1} : packet = [type |-> INT, content |-> [i \in 1 .. Room |-> b]]
  /\ \E b \in {0, 1} : recv_packet = [type |-> INT, content |-> [i \in 1 .. Room |-> b]]
  /\ waiting = << >>
  /\ shown = << >>

-----------------------------------------------------------------------------
(* The server *)

\* Mutant of Received: the copy is of the datagram before.
ReceivedLate(v) == [type |-> v.type, content |-> packet.content]

\* packet after recvfrom.
Received(v) == [type |-> v.type, content |-> Over(packet.content, Content(v))]

\* A datagram: packet is stored, sent, or both.
Datagram(v) ==
  /\ Len(waiting) < MaxWaiting
  /\ packet' = Received(v)
  /\ waiting' = Append(waiting, [value |-> v, copy |-> packet',
                                   left |-> SubSeq(packet.content, Len(Content(v)) + 1, Room)])
  /\ shown' = << >>
  /\ UNCHANGED recv_packet

\* A message nobody gets leaves its bytes all the same.
Unwanted(v) ==
  /\ packet' = Received(v)
  /\ shown' = << >>
  /\ UNCHANGED <<waiting, recv_packet>>

\* The types send_variable sends.
Types == INT .. CHARS

\* Mutant of Strlen: no null is put at the end first.
StrlenUnbounded(content) == Len(Text(content))

\* strlen of content, its last byte taken for a null.
Strlen(content) == Len(Text([i \in 1 .. Size |-> IF i = Size THEN 0 ELSE content[i]]))

\* Mutant of Payload: the null is not counted.
PayloadBare(m) ==
  CASE m.type = INT        -> 1 + Width
    [] m.type = SHORT_REAL -> Half
    [] m.type = FLOAT      -> 1 + Width + 1
    [] m.type = CHARS      -> Strlen(m.content)
    [] OTHER               -> 0

\* The bytes of content a message of this type is taken to have.
Payload(m) ==
  CASE m.type = INT        -> 1 + Width
    [] m.type = SHORT_REAL -> Half
    [] m.type = FLOAT      -> 1 + Width + 1
    [] m.type = CHARS      -> Strlen(m.content) + 1
    [] OTHER               -> 0

(***************************************************************************)
(* The bytes of content that are sent.  The lengths (60 and the payload)   *)
(* count the padding, which is behind content, with what is before it      *)
(* (57), so that as many bytes are sent beyond the payload.                *)
(***************************************************************************)
Sent(m) == SubSeq(m.content, 1, Payload(m) + Padding)

-----------------------------------------------------------------------------
(* The subscriber *)

\* Mutant of Number: without ntohl.
NumberLittle(bytes) == FoldRight(LAMBDA b, n : n * Base + b, bytes, 0)

\* ntohl and ntohs of bytes copied from content.
Number(bytes) == FoldLeft(LAMBDA n, b : n * Base + b, 0, bytes)

\* What %d prints of an unsigned number.
Signed(n) == IF n >= Modulus \div 2 THEN n - Modulus ELSE n

\* What printMessage prints behind the topic: a number, hundredths, a number
\* and the power of ten it is divided by, or characters.
Printed(m) ==
  LET c      == m.content
      number == Number(SubSeq(c, 2, Width + 1))
  IN  CASE m.type = INT ->
             Signed(IF c[1] = 1 THEN (Modulus - number) % Modulus ELSE number)
        [] m.type = SHORT_REAL -> Number(SubSeq(c, 1, Half))
        [] m.type = FLOAT ->
             <<IF c[1] = 1 THEN - number ELSE number, c[Width + 2]>>
        [] m.type = CHARS      -> Text(c)
        [] OTHER -> "invalid"

\* The next message arrives and is printed, unless its type is invalid:
\* send_variable sends nothing then.
Arrive ==
  LET m == Head(waiting)
  IN  /\ waiting # << >>
      /\ waiting' = Tail(waiting)
      /\ \/ /\ m.copy.type \in Types
            /\ recv_packet' = [type |-> m.copy.type,
                               content |-> Over(recv_packet.content, Sent(m.copy))]
            /\ shown' = <<[message |-> m, text |-> Printed(recv_packet')]>>
         \/ /\ m.copy.type \notin Types
            /\ shown' = << >>
            /\ UNCHANGED recv_packet
      /\ UNCHANGED packet

Next == (\E v \in Published : Datagram(v) \/ Unwanted(v)) \/ Arrive

Spec == Init /\ [][Next]_vars

-----------------------------------------------------------------------------
(* What must hold *)

Printing(types) == {i \in DOMAIN shown : shown[i].message.value.type \in types}

\* packet and recv_packet are written within their bounds.
TypeOK ==
  /\ packet.content \in [1 .. Room -> Byte]
  /\ recv_packet.content \in [1 .. Room -> Byte]
  /\ \A n \in DOMAIN waiting : Payload(waiting[n].copy) \in 0 .. Size

(***************************************************************************)
(* A number comes out as it was published, whatever both structures held   *)
(* before.  An INT is one modulo 2^32 in the range of int: magnitudes from *)
(* 2^31 on come out with the other sign (subscriber.c:37-40).              *)
(***************************************************************************)
NumbersExact ==
  \A i \in Printing(INT .. FLOAT) :
    LET v      == shown[i].message.value
        text   == shown[i].text
        signed == IF v.type # SHORT_REAL /\ v.sign = 1 THEN - v.abs ELSE v.abs
    IN  CASE v.type = INT ->
               /\ text \in - (Modulus \div 2) .. Modulus \div 2 - 1
               /\ (text - signed) % Modulus = 0
          [] v.type = SHORT_REAL -> text = signed
          [] v.type = FLOAT -> text = <<signed, v.pow>>

(***************************************************************************)
(* A string that is terminated comes out as it was published.  One that is *)
(* not is followed by what an earlier datagram left in packet behind it    *)
(* (server.c:262), never by anything of another message the subscriber     *)
(* got; and never is a character lost, also when it fills content          *)
(* (server.c:56-60).                                                       *)
(***************************************************************************)
StringsFollowed ==
  \A i \in Printing({CHARS}) :
    LET m == shown[i].message
    IN  shown[i].text = m.value.chars \o IF m.value.ended THEN << >> ELSE Text(m.left)

(***************************************************************************)
(* The bytes sent are enough: the subscriber prints what the server would  *)
(* print of its own copy, and what its recv_packet held before shows       *)
(* nowhere.                                                                *)
(***************************************************************************)
EnoughIsSent ==
  \A i \in DOMAIN shown : shown[i].text = Printed(shown[i].message.copy)
=============================================================================
