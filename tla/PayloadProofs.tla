---------------------------- MODULE PayloadProofs ----------------------------
(***************************************************************************)
(* Proofs about Payload, for any width of bytes, numbers and content and   *)
(* any values published: what comes out of a message depends only on what  *)
(* was published, and, for a string that is not terminated, on what lay    *)
(* behind it in the server's packet.                                       *)
(***************************************************************************)
EXTENDS Payload, SequenceTheorems, WellFoundedInduction, TLAPS

\* The contents, and the structures, that may lie in memory.
Bytes  == [1 .. Room -> Byte]
Packet == [type : 0 .. CHARS + 1, content : Bytes]

\* A message on its way: a copy of packet just after the datagram of its value
\* was received over what is now left behind it.
Copies ==
  {w \in [value : Value, copy : Packet, left : Seq(Byte)] :
     /\ w.copy.type = w.value.type
     /\ w.copy.content = Content(w.value) \o w.left}

\* The invariant: what waits is such a copy, and so is what was shown last.
PInv ==
  /\ packet \in Packet /\ recv_packet \in Packet
  /\ waiting \in Seq(Copies)
  /\ shown # << >> => \E m \in Copies :
       m.copy.type \in Types /\ shown = <<[message |-> m, text |-> Printed(m.copy)]>>

-----------------------------------------------------------------------------
(* Sizes *)

\* The sizes are numbers, and a number and its header fit into content.
LEMMA Sizes ==
  /\ Base \in Nat /\ Base > 3 /\ Base % 2 = 0 /\ 0 \in Byte
  /\ Width \in Nat /\ Half \in Nat /\ Size \in Nat /\ Padding \in Nat /\ Room \in Nat
  /\ 1 <= Width /\ 1 <= Half /\ Half <= Width /\ Width + 2 <= Size
  /\ Room = Size + Padding
BY SizesAssumption DEF CHARS, Byte, Room

-----------------------------------------------------------------------------
(* Induction.  The library's theorems take the statement as an operator;     *)
(* here it is a set.                                                         *)

\* Every set of natural numbers has a smallest.
LEMMA Smallest ==
  ASSUME NEW T \in SUBSET Nat, T # {}
  PROVE  \E x \in T : \A y \in T : x <= y
<1>1. PICK x \in T : \A y \in T : ~(<<y, x>> \in OpToRel(<, Nat))
  BY NatLessThanWellFounded, WFMin
<1>2. \A y \in T : ~(y < x)
  BY <1>1 DEF OpToRel
<1> QED
  BY <1>2

\* A set of natural numbers with 0 and every successor has all of them.
LEMMA EveryNumber ==
  ASSUME NEW T \in SUBSET Nat, 0 \in T, \A n \in T : n + 1 \in T
  PROVE  T = Nat
<1> SUFFICES ASSUME NEW m \in Nat, m \notin T PROVE FALSE
  OBVIOUS
<1>1. PICK x \in Nat \ T : \A y \in Nat \ T : x <= y
  <2>1. Nat \ T \in SUBSET Nat /\ Nat \ T # {}
    OBVIOUS
  <2> QED
    BY <2>1, Smallest
<1>2. x # 0
  BY <1>1
<1>3. x - 1 \in Nat /\ ~(x <= x - 1) /\ x - 1 + 1 = x
  BY <1>1, <1>2
<1> QED
  BY <1>1, <1>3

-----------------------------------------------------------------------------
(* Powers *)

\* p has the powers up to w.
PowersTo(w, p) == p = [k \in 0 .. w |-> IF k = 0 THEN 1 ELSE Base * p[k - 1]]

\* There are powers up to any number.
LEMMA PowersExist == \A w \in Nat : \E p : PowersTo(w, p)
<1>1. PICK T : T = {w \in Nat : \E p : PowersTo(w, p)}
  OBVIOUS
<1>2. 0 \in T
  <2>1. PICK p : p = [k \in 0 .. 0 |-> 1]
    OBVIOUS
  <2>2. PowersTo(0, p)
    BY <2>1 DEF PowersTo
  <2> QED
    BY <1>1, <2>2
<1>3. ASSUME NEW w \in T PROVE w + 1 \in T
  <2>1. w \in Nat
    BY <1>1
  <2>2. PICK p : PowersTo(w, p)
    BY <1>1
  <2>3. PICK q : q = [k \in 0 .. w + 1 |-> IF k = w + 1 THEN Base * p[w] ELSE p[k]]
    OBVIOUS
  <2>4. ASSUME NEW k \in 0 .. w + 1 PROVE q[k] = IF k = 0 THEN 1 ELSE Base * q[k - 1]
    <3>1. CASE k = w + 1
      <4>1. q[k] = Base * p[w]
        BY <2>3, <3>1
      <4>2. w \in 0 .. w + 1 /\ w # w + 1 /\ k - 1 = w /\ k # 0
        BY <2>1, <3>1
      <4>3. q[w] = p[w]
        BY <2>3, <4>2
      <4> QED
        BY <4>1, <4>2, <4>3
    <3>2. CASE k # w + 1
      <4>1. k \in 0 .. w
        BY <2>1, <3>2
      <4>2. q[k] = p[k]
        BY <2>3, <3>2
      <4>3. p[k] = IF k = 0 THEN 1 ELSE Base * p[k - 1]
        BY <2>2, <4>1 DEF PowersTo
      <4>4. CASE k = 0
        BY <4>2, <4>3, <4>4
      <4>5. CASE k # 0
        <5>1. k - 1 \in 0 .. w + 1 /\ k - 1 # w + 1
          BY <2>1, <4>1, <4>5
        <5>2. q[k - 1] = p[k - 1]
          BY <2>3, <5>1
        <5> QED
          BY <4>2, <4>3, <4>5, <5>2
      <4> QED
        BY <4>4, <4>5
    <3> QED
      BY <3>1, <3>2
  <2>5. PowersTo(w + 1, q)
    BY <2>3, <2>4 DEF PowersTo
  <2> QED
    BY <1>1, <2>1, <2>5
<1> QED
  BY <1>1, <1>2, <1>3, EveryNumber

\* What Power is: each a multiple of the one before, and none is 0.
LEMMA PowerIs ==
  /\ Power[0] = 1
  /\ \A k \in 0 .. Width : Power[k] \in Nat \ {0}
  /\ \A k \in 0 .. Width : k # 0 => Power[k] = Base * Power[k - 1]
<1>1. PowersTo(Width, Power)
  <2>1. Power = CHOOSE p : PowersTo(Width, p)
    BY DEF Power, PowersTo
  <2> QED
    BY <2>1, PowersExist, Sizes
<1>2. \A k \in 0 .. Width : Power[k] = IF k = 0 THEN 1 ELSE Base * Power[k - 1]
  BY <1>1 DEF PowersTo
<1>3. Power[0] = 1
  BY <1>2, Sizes
<1>4. PICK T : T = {k \in Nat : k <= Width => Power[k] \in Nat \ {0}}
  OBVIOUS
<1>5. ASSUME NEW k \in T PROVE k + 1 \in T
  <2>1. k \in Nat
    BY <1>4
  <2>2. ASSUME k + 1 <= Width PROVE Power[k + 1] \in Nat \ {0}
    <3>1. Power[k] \in Nat \ {0}
      BY <1>4, <2>1, <2>2, Sizes
    <3>2. k + 1 \in 0 .. Width /\ k + 1 # 0 /\ k + 1 - 1 = k
      BY <2>1, <2>2
    <3>3. Power[k + 1] = Base * Power[k]
      <4>1. PICK j \in 0 .. Width : j = k + 1 /\ j # 0 /\ j - 1 = k
        BY <2>1, <3>2
      <4>2. Power[j] = Base * Power[j - 1]
        BY <1>2, <4>1
      <4> QED
        BY <4>1, <4>2
    <3> QED
      BY <3>1, <3>3, Sizes
  <2> QED
    BY <1>4, <2>1, <2>2
<1>6. T = Nat
  BY <1>3, <1>4, <1>5, EveryNumber
<1> QED
  BY <1>2, <1>3, <1>4, <1>6, Sizes

\* A number in network order is as many bytes as it is wide.
LEMMA NetIsBytes ==
  ASSUME NEW n \in Nat, NEW w \in 0 .. Width
  PROVE  Net(n, w) \in Seq(Byte) /\ Len(Net(n, w)) = w
<1>1. ASSUME NEW i \in 1 .. w PROVE (n \div Power[w - i]) % Base \in Byte
  <2>1. w - i \in 0 .. Width
    BY Sizes
  <2>2. PICK k \in Nat \ {0} : k = Power[w - i]
    BY <2>1, PowerIs
  <2>3. PICK q : q = n \div k
    OBVIOUS
  <2>4. q \in Int
    BY <2>2, <2>3
  <2> QED
    BY <2>2, <2>3, <2>4, Sizes DEF Byte
<1>2. Net(n, w) \in [1 .. w -> Byte]
  BY <1>1 DEF Net
<1>3. Net(n, w) \in Seq(Byte)
  BY <1>2, SeqDef
<1> QED
  BY <1>2, <1>3, LenProperties

\* What publishers send, type by type.
LEMMA ValueIs ==
  ASSUME NEW v \in Value
  PROVE  /\ v.type \in 0 .. CHARS + 1
         /\ v.type = INT => v.sign \in 0 .. 1 /\ v.abs \in 0 .. Modulus - 1
         /\ v.type = SHORT_REAL => v.abs \in 0 .. Power[Half] - 1
         /\ v.type = FLOAT => v.sign \in 0 .. 1 /\ v.abs \in 0 .. Modulus - 1 /\ v.pow \in Byte
         /\ v.type = CHARS => /\ v.chars \in Seq(Byte \ {0}) /\ Len(v.chars) <= Size
                              /\ v.ended \in BOOLEAN
                              /\ v.ended => Len(v.chars) < Size
<1>1. CASE v \in {u \in [type : {CHARS}, chars : BoundedSeq(Byte \ {0}, Size), ended : BOOLEAN] :
                    u.ended => Len(u.chars) < Size}
  <2>1. PICK m \in 0 .. Size : v.chars \in [1 .. m -> Byte \ {0}]
    BY <1>1 DEF BoundedSeq, SeqOf
  <2>2. v.chars \in Seq(Byte \ {0}) /\ Len(v.chars) = m
    <3>1. m \in Nat
      BY Sizes
    <3>2. v.chars \in Seq(Byte \ {0})
      BY <2>1, <3>1, SeqDef
    <3> QED
      BY <2>1, <3>1, <3>2, LenProperties
  <2>3. v.type = CHARS /\ v.ended \in BOOLEAN /\ (v.ended => Len(v.chars) < Size)
    BY <1>1
  <2> QED
    BY <2>2, <2>3, Sizes DEF INT, SHORT_REAL, FLOAT, CHARS
<1>2. CASE v \in [type : {INT}, sign : 0 .. 1, abs : 0 .. Modulus - 1]
  BY <1>2 DEF INT, SHORT_REAL, FLOAT, CHARS
<1>3. CASE v \in [type : {SHORT_REAL}, abs : 0 .. Power[Half] - 1]
  BY <1>3 DEF INT, SHORT_REAL, FLOAT, CHARS
<1>4. CASE v \in [type : {FLOAT}, sign : 0 .. 1, abs : 0 .. Modulus - 1, pow : Byte]
  BY <1>4 DEF INT, SHORT_REAL, FLOAT, CHARS
<1>5. CASE v \in [type : {CHARS + 1}]
  BY <1>5 DEF INT, SHORT_REAL, FLOAT, CHARS
<1> QED
  BY <1>1, <1>2, <1>3, <1>4, <1>5 DEF Value

\* The content of a datagram is bytes, and fits.
LEMMA ContentFits ==
  ASSUME NEW v \in Value
  PROVE  Content(v) \in Seq(Byte) /\ Len(Content(v)) <= Size
<1>1. 0 \in Byte /\ 1 \in Byte /\ \A b \in Byte : <<b>> \in Seq(Byte) /\ Len(<<b>>) = 1
  BY Sizes DEF Byte
<1>2. CASE v.type = INT
  <2>1. Content(v) = <<v.sign>> \o Net(v.abs, Width)
    BY <1>2 DEF Content, INT, SHORT_REAL, FLOAT, CHARS
  <2>2. v.sign \in Byte /\ v.abs \in Nat
    BY <1>1, <1>2, ValueIs
  <2>3. Net(v.abs, Width) \in Seq(Byte) /\ Len(Net(v.abs, Width)) = Width
    BY <2>2, NetIsBytes, Sizes
  <2> QED
    BY <1>1, <2>1, <2>2, <2>3, ConcatProperties, Sizes
<1>3. CASE v.type = SHORT_REAL
  <2>1. Content(v) = Net(v.abs, Half)
    BY <1>3 DEF Content, INT, SHORT_REAL, FLOAT, CHARS
  <2>2. v.abs \in Nat
    BY <1>3, ValueIs
  <2>3. Net(v.abs, Half) \in Seq(Byte) /\ Len(Net(v.abs, Half)) = Half
    BY <2>2, NetIsBytes, Sizes
  <2> QED
    BY <2>1, <2>3, Sizes
<1>4. CASE v.type = FLOAT
  <2>1. Content(v) = <<v.sign>> \o Net(v.abs, Width) \o <<v.pow>>
    BY <1>4 DEF Content, INT, SHORT_REAL, FLOAT, CHARS
  <2>2. v.sign \in Byte /\ v.abs \in Nat /\ v.pow \in Byte
    BY <1>1, <1>4, ValueIs
  <2>3. Net(v.abs, Width) \in Seq(Byte) /\ Len(Net(v.abs, Width)) = Width
    BY <2>2, NetIsBytes, Sizes
  <2>4. PICK s : s = <<v.sign>> \o Net(v.abs, Width)
    OBVIOUS
  <2>5. s \in Seq(Byte) /\ Len(s) = 1 + Width
    BY <1>1, <2>2, <2>3, <2>4, ConcatProperties
  <2> QED
    BY <1>1, <2>1, <2>2, <2>4, <2>5, ConcatProperties, Sizes
<1>5. CASE v.type = CHARS
  <2>1. /\ v.ended => Content(v) = v.chars \o <<0>>
        /\ ~v.ended => Content(v) = v.chars \o << >>
    <3>1. v.type # INT /\ v.type # SHORT_REAL /\ v.type # FLOAT
      BY <1>5 DEF INT, SHORT_REAL, FLOAT, CHARS
    <3>2. Content(v) = v.chars \o (IF v.ended THEN <<0>> ELSE << >>)
      BY <1>5, <3>1, Zenon DEF Content
    <3> QED
      BY <3>2
  <2>2. v.chars \in Seq(Byte) /\ Len(v.chars) \in Nat /\ Len(v.chars) <= Size
        /\ v.ended \in BOOLEAN /\ (v.ended => Len(v.chars) < Size)
    <3>1. v.chars \in Seq(Byte \ {0})
      BY <1>5, ValueIs
    <3>2. v.chars \in Seq(Byte)
      BY <3>1
    <3>3. Len(v.chars) \in Nat
      BY <3>2, LenProperties
    <3>4. Len(v.chars) <= Size /\ v.ended \in BOOLEAN /\ (v.ended => Len(v.chars) < Size)
      BY <1>5, ValueIs
    <3> QED
      BY <3>2, <3>3, <3>4
  <2>3. CASE v.ended
    <3>1. <<0>> \in Seq(Byte) /\ Len(<<0>>) = 1
      BY <1>1
    <3>2. /\ v.chars \o <<0>> \in Seq(Byte)
          /\ Len(v.chars \o <<0>>) = Len(v.chars) + 1
      BY <2>2, <3>1, ConcatProperties
    <3>3. Content(v) = v.chars \o <<0>>
      BY <2>1, <2>3
    <3>4. Len(v.chars) + 1 <= Size
      BY <2>2, <2>3, Sizes
    <3> QED
      BY <3>2, <3>3, <3>4
  <2>4. CASE ~v.ended
    <3>1. v.chars \o << >> = v.chars
      BY <2>2, ConcatEmptySeq
    <3> QED
      BY <2>1, <2>2, <2>4, <3>1
  <2> QED
    BY <2>3, <2>4
<1>6. CASE v.type \notin {INT, SHORT_REAL, FLOAT, CHARS}
  <2>1. Content(v) = << >>
    BY <1>6 DEF Content, INT, SHORT_REAL, FLOAT, CHARS
  <2> QED
    BY <2>1, EmptySeq, Sizes
<1> QED
  BY <1>2, <1>3, <1>4, <1>5, <1>6

-----------------------------------------------------------------------------
(* Rooms *)

\* A room is a sequence of Room bytes.
LEMMA RoomIs ==
  ASSUME NEW room \in Bytes
  PROVE  room \in Seq(Byte) /\ Len(room) = Room /\ DOMAIN room = 1 .. Room
<1>1. room \in Seq(Byte)
  BY Sizes, SeqDef DEF Bytes
<1> QED
  BY <1>1, Sizes, LenProperties DEF Bytes

\* What is written over the beginning of a room is followed by the old rest.
LEMMA OverIs ==
  ASSUME NEW room \in Bytes, NEW bytes \in Seq(Byte), Len(bytes) <= Room
  PROVE  /\ Over(room, bytes) \in Bytes
         /\ SubSeq(room, Len(bytes) + 1, Room) \in Seq(Byte)
         /\ Over(room, bytes) = bytes \o SubSeq(room, Len(bytes) + 1, Room)
<1>1. PICK n \in Nat : n = Len(bytes) /\ n <= Room
  BY LenProperties
<1>2. Over(room, bytes) \in Bytes
  <2>1. ASSUME NEW i \in 1 .. Room PROVE (IF i <= n THEN bytes[i] ELSE room[i]) \in Byte
    BY <1>1, ElementOfSeq DEF Bytes
  <2> QED
    BY <1>1, <2>1 DEF Over, Bytes
<1>3. PICK rest : rest = SubSeq(room, n + 1, Room)
  OBVIOUS
<1>4. /\ rest \in Seq(Byte) /\ Len(rest) = Room - n
      /\ \A i \in 1 .. Room - n : rest[i] = room[n + i]
  <2>0. n + 1 \in Int /\ Room \in Int
    BY Sizes
  <2>1. \A i \in n + 1 .. Room : room[i] \in Byte
    BY <2>0 DEF Bytes
  <2>2. PICK l : l = Len(rest)
    OBVIOUS
  <2>3. l = IF n + 1 <= Room THEN Room - (n + 1) + 1 ELSE 0
    BY <1>3, <2>0, <2>1, <2>2, SubSeqProperties
  <2>4. l = Room - n /\ Room - (n + 1) + 1 = Room - n
    BY <1>1, <2>0, <2>3
  <2>5. \A i \in 1 .. Room - n : rest[i] = room[n + 1 + i - 1]
    BY <1>3, <2>0, <2>1, <2>4, SubSeqProperties
  <2>6. \A i \in 1 .. Room - n : n + 1 + i - 1 = n + i
    BY <2>0
  <2> QED
    BY <1>3, <2>0, <2>1, <2>2, <2>4, <2>5, <2>6, SubSeqProperties
<1>5. PICK both : both = bytes \o rest
  OBVIOUS
<1>6. /\ both \in Seq(Byte) /\ Len(both) = Room
      /\ \A i \in 1 .. Room : both[i] = IF i <= n THEN bytes[i] ELSE rest[i - n]
  <2>1. PICK k \in Nat : k = Room - n
    BY <1>1, Sizes
  <2>2. n + k = Room /\ Len(rest) = k /\ rest \in Seq(Byte)
    BY <1>1, <1>4, <2>1, Sizes
  <2>3. both \in Seq(Byte)
    BY <1>5, <2>2, ConcatProperties
  <2>4. Len(both) = n + k
    BY <1>1, <1>5, <2>2, ConcatProperties
  <2>5. \A i \in 1 .. n + k : both[i] = IF i <= n THEN bytes[i] ELSE rest[i - n]
    BY <1>1, <1>5, <2>2, ConcatProperties
  <2> QED
    BY <2>2, <2>3, <2>4, <2>5
<1>7. ASSUME NEW i \in 1 .. Room PROVE both[i] = Over(room, bytes)[i]
  <2>1. CASE i <= n
    BY <1>1, <1>6, <2>1 DEF Over
  <2>2. CASE ~(i <= n)
    <3>1. i - n \in 1 .. Room - n /\ n + (i - n) = i
      BY <1>1, <2>2, Sizes
    <3> QED
      BY <1>1, <1>4, <1>6, <2>2, <3>1 DEF Over
  <2> QED
    BY <2>1, <2>2
<1>8. Over(room, bytes) \in Seq(Byte) /\ Len(Over(room, bytes)) = Room
  BY <1>2, RoomIs
<1>9. both = Over(room, bytes)
  BY <1>6, <1>7, <1>8, SeqEqual
<1> QED
  BY <1>1, <1>2, <1>3, <1>4, <1>5, <1>9

-----------------------------------------------------------------------------
(* Strings *)

\* The first null of bytes is at q.
FirstNull(bytes, q) ==
  /\ q \in 1 .. Len(bytes) /\ bytes[q] = 0
  /\ \A i \in 1 .. q - 1 : bytes[i] # 0

\* If there is a null, there is a first.
LEMMA NullIsFound ==
  ASSUME NEW S, NEW bytes \in Seq(S), NEW i \in 1 .. Len(bytes), bytes[i] = 0
  PROVE  \E q \in 1 .. i : FirstNull(bytes, q)
<1>0. PICK n \in Nat : n = Len(bytes)
  BY LenProperties
<1>1. PICK T : T = {j \in 1 .. n : bytes[j] = 0}
  OBVIOUS
<1>2. T \in SUBSET Nat /\ i \in T
  BY <1>0, <1>1
<1>3. PICK q \in T : \A j \in T : q <= j
  BY <1>2, Smallest
<1>4. q \in 1 .. i /\ q \in 1 .. n /\ bytes[q] = 0
  BY <1>0, <1>1, <1>2, <1>3
<1>5. ASSUME NEW j \in 1 .. q - 1 PROVE bytes[j] # 0
  <2>1. j \in 1 .. n /\ ~(q <= j)
    BY <1>0, <1>4
  <2> QED
    BY <1>1, <1>3, <2>1
<1> QED
  BY <1>0, <1>4, <1>5 DEF FirstNull

\* A string ends before the first null, or goes on behind.
LEMMA TextIs ==
  ASSUME NEW S, NEW bytes \in Seq(S)
  PROVE  /\ \A q : FirstNull(bytes, q) => Text(bytes) = SubSeq(bytes, 1, q - 1)
         /\ (\A i \in 1 .. Len(bytes) : bytes[i] # 0) => Text(bytes) = Append(bytes, Behind)
<1>0. Len(bytes) \in Nat /\ DOMAIN bytes = 1 .. Len(bytes)
  BY LenProperties
<1>1. ASSUME NEW q, FirstNull(bytes, q) PROVE Text(bytes) = SubSeq(bytes, 1, q - 1)
  <2>1. PICK T : T = {i \in 1 .. Len(bytes) : bytes[i] = 0}
    OBVIOUS
  <2>2. q \in T /\ \A y \in T : q <= y
    BY <1>0, <1>1, <2>1 DEF FirstNull
  <2>3. \A x \in T : (\A y \in T : x <= y) => x = q
    BY <1>0, <2>1, <2>2
  <2>4. (CHOOSE x \in T : \A y \in T : x <= y) = q
    BY <2>2, <2>3
  <2>5. SelectInSeq(bytes, LAMBDA b : b = 0) = q
    BY <2>1, <2>2, <2>4 DEF SelectInSeq, Min
  <2>6. \E i \in DOMAIN bytes : bytes[i] = 0
    BY <1>0, <1>1 DEF FirstNull
  <2> QED
    BY <2>5, <2>6 DEF Text
<1>2. ASSUME \A i \in 1 .. Len(bytes) : bytes[i] # 0 PROVE Text(bytes) = Append(bytes, Behind)
  BY <1>0, <1>2 DEF Text
<1> QED
  BY <1>1, <1>2

\* Rooms that agree from one byte to another have the same bytes in between.
LEMMA SliceAgrees ==
  ASSUME NEW a \in Bytes, NEW b \in Bytes,
         NEW from \in 1 .. Room, NEW to \in 0 .. Room,
         \A i \in from .. to : a[i] = b[i]
  PROVE  SubSeq(a, from, to) = SubSeq(b, from, to)
<1>1. /\ from \in Int /\ to \in Int
      /\ \A i \in from .. to : a[i] \in Byte /\ b[i] \in Byte
  BY Sizes DEF Bytes
<1>2. PICK k \in Int : k = IF from <= to THEN to - from + 1 ELSE 0
  <2>1. to - from + 1 \in Int /\ 0 \in Int
    BY <1>1
  <2>2. (IF from <= to THEN to - from + 1 ELSE 0) \in Int
    BY <2>1
  <2> QED
    BY <2>2, Zenon
<1>3. PICK s : s = SubSeq(a, from, to)
  OBVIOUS
<1>4. PICK t : t = SubSeq(b, from, to)
  OBVIOUS
<1>5. /\ s \in Seq(Byte) /\ Len(s) = k
      /\ \A i \in 1 .. k : s[i] = a[from + i - 1]
  BY <1>1, <1>2, <1>3, SubSeqProperties
<1>6. /\ t \in Seq(Byte) /\ Len(t) = k
      /\ \A i \in 1 .. k : t[i] = b[from + i - 1]
  BY <1>1, <1>2, <1>4, SubSeqProperties
<1>7. \A i \in 1 .. k : from + i - 1 \in from .. to
  BY <1>1, <1>2
<1>8. \A i \in 1 .. k : s[i] = t[i]
  BY <1>5, <1>6, <1>7
<1>9. s = t
  BY <1>5, <1>6, <1>8, SeqEqual
<1> QED
  BY <1>3, <1>4, <1>9

\* Strings that agree up to the first null are the same.
LEMMA TextAgrees ==
  ASSUME NEW a \in Bytes, NEW b \in Bytes, NEW q, FirstNull(a, q),
         \A i \in 1 .. q : a[i] = b[i]
  PROVE  Text(a) = Text(b)
<1>1. a \in Seq(Byte) /\ b \in Seq(Byte) /\ Len(a) = Room /\ Len(b) = Room
  BY RoomIs
<1>2. q \in 1 .. Room /\ 1 \in 1 .. Room /\ q - 1 \in 0 .. Room
  BY <1>1, Sizes DEF FirstNull
<1>3. FirstNull(b, q)
  BY <1>1, <1>2, Sizes DEF FirstNull
<1>4. Text(a) = SubSeq(a, 1, q - 1) /\ Text(b) = SubSeq(b, 1, q - 1)
  BY <1>1, <1>3, TextIs
<1>5. \A i \in 1 .. q - 1 : a[i] = b[i]
  BY <1>2, Sizes
<1> QED
  BY <1>2, <1>4, <1>5, SliceAgrees

\* strlen counts the characters of content before its first null, or all but
\* its last byte.
LEMMA StrlenIs ==
  ASSUME NEW content \in Bytes
  PROVE  \E q \in 1 .. Size :
           /\ Strlen(content) = q - 1
           /\ \A i \in 1 .. q - 1 : content[i] # 0
           /\ q # Size => content[q] = 0
<1>1. PICK c : c = [i \in 1 .. Size |-> IF i = Size THEN 0 ELSE content[i]]
  OBVIOUS
<1>2. c \in [1 .. Size -> Byte] /\ Size \in Nat /\ Size \in 1 .. Size
  BY <1>1, Sizes DEF Bytes
<1>3. c \in Seq(Byte)
  BY <1>2, SeqDef
<1>4. Len(c) = Size
  BY <1>2, <1>3, LenProperties
<1>5. PICK q \in 1 .. Size : FirstNull(c, q)
  BY <1>1, <1>2, <1>3, <1>4, NullIsFound
<1>6. Text(c) = SubSeq(c, 1, q - 1)
  BY <1>3, <1>5, TextIs
<1>7. Len(SubSeq(c, 1, q - 1)) = q - 1
  <2>1. 1 \in Int /\ q - 1 \in Int /\ \A i \in 1 .. q - 1 : c[i] \in Byte
    BY <1>2
  <2>2. PICK l : l = Len(SubSeq(c, 1, q - 1))
    OBVIOUS
  <2>3. l = IF 1 <= q - 1 THEN q - 1 - 1 + 1 ELSE 0
    BY <2>1, <2>2, SubSeqProperties
  <2> QED
    BY <1>2, <2>2, <2>3
<1>8. Strlen(content) = q - 1
  BY <1>1, <1>6, <1>7 DEF Strlen
<1>9. \A i \in 1 .. q - 1 : c[i] = content[i]
  BY <1>1, <1>2
<1> QED
  BY <1>1, <1>5, <1>8, <1>9 DEF FirstNull

\* The payload of a message is within content.
LEMMA PayloadFits ==
  ASSUME NEW m \in Packet
  PROVE  Payload(m) \in 0 .. Size
<1>1. m.content \in Bytes
  BY DEF Packet
<1>2. CASE m.type = CHARS
  <2>1. PICK q \in 1 .. Size : Strlen(m.content) = q - 1
    BY <1>1, StrlenIs
  <2>2. Payload(m) = Strlen(m.content) + 1
    BY <1>2 DEF Payload, INT, SHORT_REAL, FLOAT, CHARS
  <2> QED
    BY <2>1, <2>2, Sizes
<1>3. CASE m.type # CHARS
  <2>1. Payload(m) \in {0, Half, 1 + Width, 1 + Width + 1}
    BY <1>3 DEF Payload, INT, SHORT_REAL, FLOAT, CHARS
  <2> QED
    BY <2>1, Sizes
<1> QED
  BY <1>2, <1>3

-----------------------------------------------------------------------------
(* What is sent is enough *)

\* The bytes sent of a message are the first of its content.
LEMMA SentIs ==
  ASSUME NEW m \in Packet
  PROVE  /\ Sent(m) \in Seq(Byte) /\ Len(Sent(m)) = Payload(m) + Padding
         /\ Len(Sent(m)) <= Room
         /\ \A i \in 1 .. Payload(m) + Padding : Sent(m)[i] = m.content[i]
<1>1. m.content \in Bytes
  BY DEF Packet
<1>2. PICK k \in Nat : k = Payload(m) + Padding /\ k <= Room
  BY PayloadFits, Sizes
<1>3. 1 \in Int /\ k \in Int /\ \A i \in 1 .. k : m.content[i] \in Byte
  BY <1>1, <1>2, Sizes DEF Bytes
<1>4. PICK s : s = SubSeq(m.content, 1, k)
  OBVIOUS
<1>5. PICK l : l = Len(s)
  OBVIOUS
<1>6. l = IF 1 <= k THEN k - 1 + 1 ELSE 0
  BY <1>3, <1>4, <1>5, SubSeqProperties
<1>7. l = k
  BY <1>2, <1>6
<1>8. \A i \in 1 .. k : s[i] = m.content[1 + i - 1]
  BY <1>3, <1>4, <1>5, <1>7, SubSeqProperties
<1>9. \A i \in 1 .. k : 1 + i - 1 = i
  OBVIOUS
<1> QED
  BY <1>2, <1>3, <1>4, <1>5, <1>7, <1>8, <1>9, SubSeqProperties DEF Sent

\* What is printed depends on the type and on the bytes that are sent, on
\* nothing behind them.
LEMMA PrintedAgrees ==
  ASSUME NEW m \in Packet, m.type \in Types, NEW d \in Bytes,
         \A i \in 1 .. Payload(m) + Padding : d[i] = m.content[i]
  PROVE  Printed([type |-> m.type, content |-> d]) = Printed(m)
<1>1. PICK c \in Bytes : c = m.content
  BY DEF Packet
<1>2. PICK e : e = [type |-> m.type, content |-> d]
  OBVIOUS
<1>3. e.type = m.type /\ e.content = d
  BY <1>2
<1>4. Payload(m) \in 0 .. Size
  BY PayloadFits
<1>5. CASE m.type = INT
  <2>1. Payload(m) = 1 + Width
    BY <1>5 DEF Payload, INT, SHORT_REAL, FLOAT, CHARS
  <2>2. \A i \in 1 .. Width + 1 : c[i] = d[i]
    BY <1>1, <2>1, Sizes
  <2>3. c[1] = d[1] /\ SubSeq(c, 2, Width + 1) = SubSeq(d, 2, Width + 1)
    BY <2>2, SliceAgrees, Sizes
  <2> QED
    <3>1. m.type # SHORT_REAL /\ m.type # FLOAT /\ m.type # CHARS
      BY <1>5 DEF INT, SHORT_REAL, FLOAT, CHARS
    <3> QED
      BY <1>1, <1>2, <1>3, <1>5, <2>3, <3>1, Zenon DEF Printed
<1>6. CASE m.type = SHORT_REAL
  <2>1. Payload(m) = Half
    BY <1>6 DEF Payload, INT, SHORT_REAL, FLOAT, CHARS
  <2>2. \A i \in 1 .. Half : c[i] = d[i]
    BY <1>1, <2>1, Sizes
  <2>3. SubSeq(c, 1, Half) = SubSeq(d, 1, Half)
    BY <2>2, SliceAgrees, Sizes
  <2> QED
    <3>1. m.type # INT /\ m.type # FLOAT /\ m.type # CHARS
      BY <1>6 DEF INT, SHORT_REAL, FLOAT, CHARS
    <3> QED
      BY <1>1, <1>2, <1>3, <1>6, <2>3, <3>1, Zenon DEF Printed
<1>7. CASE m.type = FLOAT
  <2>1. Payload(m) = 1 + Width + 1
    BY <1>7 DEF Payload, INT, SHORT_REAL, FLOAT, CHARS
  <2>2. \A i \in 1 .. Width + 2 : c[i] = d[i]
    BY <1>1, <2>1, Sizes
  <2>3. /\ c[1] = d[1] /\ c[Width + 2] = d[Width + 2]
        /\ SubSeq(c, 2, Width + 1) = SubSeq(d, 2, Width + 1)
    BY <2>2, SliceAgrees, Sizes
  <2> QED
    <3>1. m.type # INT /\ m.type # SHORT_REAL /\ m.type # CHARS
      BY <1>7 DEF INT, SHORT_REAL, FLOAT, CHARS
    <3> QED
      BY <1>1, <1>2, <1>3, <1>7, <2>3, <3>1, Zenon DEF Printed
<1>8. CASE m.type = CHARS
  <2>1. PICK q \in 1 .. Size : /\ Strlen(c) = q - 1
                               /\ \A i \in 1 .. q - 1 : c[i] # 0
                               /\ q # Size => c[q] = 0
    BY StrlenIs
  <2>2. Payload(m) = Strlen(c) + 1
    BY <1>1, <1>8 DEF Payload, INT, SHORT_REAL, FLOAT, CHARS
  <2>3. Payload(m) = q
    BY <2>1, <2>2
  <2>4. Text(c) = Text(d)
    <3>1. CASE q # Size
      <4>1. FirstNull(c, q)
        BY <2>1, <3>1, RoomIs, Sizes DEF FirstNull
      <4>2. \A i \in 1 .. q : c[i] = d[i]
        BY <1>1, <2>3, Sizes
      <4> QED
        BY <4>1, <4>2, TextAgrees
    <3>2. CASE q = Size
      <4>1. \A i \in 1 .. Room : c[i] = d[i]
        BY <1>1, <2>3, <3>2, Sizes
      <4>2. c = d
        BY <4>1, RoomIs, SeqEqual
      <4> QED
        BY <4>2
    <3> QED
      BY <3>1, <3>2
  <2>5. Printed(m) = Text(c) /\ Printed(e) = Text(d)
    BY <1>1, <1>3, <1>8 DEF Printed, INT, SHORT_REAL, FLOAT, CHARS
  <2> QED
    BY <1>2, <2>4, <2>5
<1>9. m.type \in {INT, SHORT_REAL, FLOAT, CHARS}
  BY DEF Types, Packet, INT, SHORT_REAL, FLOAT, CHARS
<1> QED
  BY <1>5, <1>6, <1>7, <1>8, <1>9

\* What the subscriber prints of a message, whatever was in its recv_packet.
LEMMA ReceivedIsPrinted ==
  ASSUME NEW m \in Packet, m.type \in Types, NEW room \in Bytes
  PROVE  /\ Over(room, Sent(m)) \in Bytes
         /\ Printed([type |-> m.type, content |-> Over(room, Sent(m))]) = Printed(m)
<1>1. PICK d : d = Over(room, Sent(m))
  OBVIOUS
<1>2. d \in Bytes
  BY <1>1, SentIs, OverIs
<1>3. \A i \in 1 .. Payload(m) + Padding : d[i] = m.content[i]
  BY <1>1, SentIs, PayloadFits, Sizes DEF Over
<1> QED
  BY <1>1, <1>2, <1>3, PrintedAgrees

-----------------------------------------------------------------------------
(* What is printed of a string *)

\* The first k of a sequence.
LEMMA FirstOf ==
  ASSUME NEW S, NEW s \in Seq(S), NEW k \in Nat, k <= Len(s)
  PROVE  /\ SubSeq(s, 1, k) \in Seq(S) /\ Len(SubSeq(s, 1, k)) = k
         /\ \A i \in 1 .. k : SubSeq(s, 1, k)[i] = s[i]
<1>1. Len(s) \in Nat /\ \A i \in 1 .. Len(s) : s[i] \in S
  BY LenProperties, ElementOfSeq
<1>2. 1 \in Int /\ k \in Int /\ \A i \in 1 .. k : s[i] \in S
  BY <1>1
<1>3. PICK t : t = SubSeq(s, 1, k)
  OBVIOUS
<1>4. PICK l : l = Len(t)
  OBVIOUS
<1>5. l = IF 1 <= k THEN k - 1 + 1 ELSE 0
  BY <1>2, <1>3, <1>4, SubSeqProperties
<1>6. l = k
  BY <1>5
<1>7. \A i \in 1 .. k : t[i] = s[1 + i - 1]
  BY <1>2, <1>3, <1>4, <1>6, SubSeqProperties
<1>8. \A i \in 1 .. k : 1 + i - 1 = i
  OBVIOUS
<1> QED
  BY <1>2, <1>3, <1>4, <1>6, <1>7, <1>8, SubSeqProperties

\* A string with its null, and whatever behind it: the string.
LEMMA EndedText ==
  ASSUME NEW chars \in Seq(Byte \ {0}), NEW left \in Seq(Byte)
  PROVE  Text(chars \o <<0>> \o left) = chars
<1>1. /\ chars \in Seq(Byte) /\ <<0>> \in Seq(Byte) /\ Len(<<0>>) = 1
      /\ Len(chars) \in Nat /\ Len(left) \in Nat
      /\ \A i \in 1 .. Len(chars) : chars[i] # 0
  <2>1. chars \in Seq(Byte)
    OBVIOUS
  <2>2. \A i \in 1 .. Len(chars) : chars[i] \in Byte \ {0}
    BY ElementOfSeq
  <2> QED
    BY <2>1, <2>2, LenProperties, Sizes
<1>2. PICK n \in Nat : n = Len(chars)
  BY <1>1
<1>3. PICK c : c = chars \o <<0>>
  OBVIOUS
<1>4. /\ c \in Seq(Byte) /\ Len(c) = n + 1
      /\ c[n + 1] = 0 /\ \A i \in 1 .. n : c[i] = chars[i]
  <2>1. c \in Seq(Byte) /\ Len(c) = n + 1
    BY <1>1, <1>2, <1>3, ConcatProperties
  <2>2. \A i \in 1 .. n + 1 : c[i] = IF i <= n THEN chars[i] ELSE <<0>>[i - n]
    BY <1>1, <1>2, <1>3, ConcatProperties
  <2>3. c[n + 1] = <<0>>[n + 1 - n] /\ n + 1 - n = 1
    BY <2>2
  <2> QED
    BY <2>1, <2>2, <2>3
<1>5. PICK x : x = c \o left
  OBVIOUS
<1>6. PICK m \in Nat : m = n + 1 /\ m - 1 = n
  BY <1>2
<1>7. PICK k \in Nat : k = Len(left)
  BY <1>1
<1>8. /\ x \in Seq(Byte) /\ Len(x) = m + k
      /\ \A i \in 1 .. m : x[i] = c[i]
  <2>1. Len(c) = m /\ c \in Seq(Byte)
    BY <1>4, <1>6
  <2>2. x \in Seq(Byte) /\ Len(x) = m + k
    BY <1>5, <1>7, <2>1, ConcatProperties
  <2>3. \A i \in 1 .. m + k : x[i] = IF i <= m THEN c[i] ELSE left[i - m]
    BY <1>5, <1>7, <2>1, ConcatProperties
  <2> QED
    BY <2>2, <2>3
<1>9. FirstNull(x, m)
  BY <1>1, <1>2, <1>4, <1>6, <1>8 DEF FirstNull
<1>10. Text(x) = SubSeq(x, 1, n)
  BY <1>6, <1>8, <1>9, TextIs
<1>11. SubSeq(x, 1, n) = chars
  <2>1. PICK t : t = SubSeq(x, 1, n)
    OBVIOUS
  <2>2. n <= Len(x)
    BY <1>6, <1>8
  <2>3. t \in Seq(Byte) /\ Len(t) = n /\ \A i \in 1 .. n : t[i] = x[i]
    BY <1>8, <2>1, <2>2, FirstOf
  <2>4. \A i \in 1 .. n : t[i] = chars[i]
    BY <1>4, <1>6, <1>8, <2>3
  <2>5. t = chars
    BY <1>1, <1>2, <2>3, <2>4, SeqEqual
  <2> QED
    BY <2>1, <2>5
<1> QED
  BY <1>3, <1>5, <1>10, <1>11

\* A string without a null goes on with the string behind it.
LEMMA OpenText ==
  ASSUME NEW chars \in Seq(Byte \ {0}), NEW left \in Seq(Byte)
  PROVE  Text(chars \o left) = chars \o Text(left)
<1>1. PICK n \in Nat : n = Len(chars)
  BY LenProperties
<1>2. PICK k \in Nat : k = Len(left)
  BY LenProperties
<1>3. chars \in Seq(Byte) /\ \A i \in 1 .. n : chars[i] # 0
  <2>1. \A i \in 1 .. Len(chars) : chars[i] \in Byte \ {0}
    BY ElementOfSeq
  <2> QED
    BY <1>1, <2>1
<1>4. PICK x : x = chars \o left
  OBVIOUS
<1>5. /\ x \in Seq(Byte) /\ Len(x) = n + k
      /\ \A i \in 1 .. n + k : x[i] = IF i <= n THEN chars[i] ELSE left[i - n]
  BY <1>1, <1>2, <1>3, <1>4, ConcatProperties
<1>6. \A i \in 1 .. n : x[i] = chars[i]
  BY <1>5
<1>7. ASSUME NEW i \in 1 .. k PROVE x[n + i] = left[i]
  <2>1. n + i \in 1 .. n + k /\ ~(n + i <= n) /\ n + i - n = i
    OBVIOUS
  <2> QED
    BY <1>5, <2>1
<1>8. CASE \E i \in 1 .. k : left[i] = 0
  <2>1. PICK q \in 1 .. k : FirstNull(left, q)
    BY <1>2, <1>8, NullIsFound
  <2>2. PICK l \in Nat : l = q - 1
    BY <2>1
  <2>3. PICK s : s = SubSeq(left, 1, l)
    OBVIOUS
  <2>4. Text(left) = s
    BY <2>1, <2>2, <2>3, TextIs
  <2>5. s \in Seq(Byte) /\ Len(s) = l /\ \A i \in 1 .. l : s[i] = left[i]
    <3>1. l <= Len(left)
      BY <1>2, <2>1, <2>2
    <3> QED
      BY <2>3, <3>1, FirstOf
  <2>6. PICK p \in Nat : p = n + q
    OBVIOUS
  <2>7. FirstNull(x, p)
    <3>1. p \in 1 .. Len(x)
      BY <1>5, <2>6
    <3>2. x[p] = 0
      BY <1>7, <2>1, <2>6 DEF FirstNull
    <3>3. ASSUME NEW i \in 1 .. p - 1 PROVE x[i] # 0
      <4>1. CASE i <= n
        BY <1>3, <1>6, <4>1
      <4>2. CASE ~(i <= n)
        <5>1. PICK j \in 1 .. q - 1 : i = n + j
          <6>1. i - n \in 1 .. q - 1 /\ i = n + (i - n)
            BY <2>6, <4>2
          <6> QED
            BY <6>1
        <5>2. j \in 1 .. k /\ left[j] # 0
          BY <2>1 DEF FirstNull
        <5> QED
          BY <1>7, <5>1, <5>2
      <4> QED
        BY <4>1, <4>2
    <3> QED
      BY <3>1, <3>2, <3>3 DEF FirstNull
  <2>8. PICK r \in Nat : r = p - 1 /\ r = n + l
    BY <2>2, <2>6
  <2>9. PICK t : t = SubSeq(x, 1, r)
    OBVIOUS
  <2>10. Text(x) = t
    BY <1>5, <2>7, <2>8, <2>9, TextIs
  <2>11. t \in Seq(Byte) /\ Len(t) = r /\ \A i \in 1 .. r : t[i] = x[i]
    <3>1. r <= Len(x)
      BY <1>5, <2>1, <2>6, <2>8
    <3> QED
      BY <1>5, <2>9, <3>1, FirstOf
  <2>12. PICK both : both = chars \o s
    OBVIOUS
  <2>13. /\ both \in Seq(Byte) /\ Len(both) = n + l
         /\ \A i \in 1 .. n + l : both[i] = IF i <= n THEN chars[i] ELSE s[i - n]
    BY <1>1, <1>3, <2>5, <2>12, ConcatProperties
  <2>14. ASSUME NEW i \in 1 .. r PROVE t[i] = both[i]
    <3>1. CASE i <= n
      BY <1>6, <2>8, <2>11, <2>13, <3>1
    <3>2. CASE ~(i <= n)
      <4>1. i - n \in 1 .. l /\ i - n \in 1 .. k /\ n + (i - n) = i
        BY <2>1, <2>2, <2>8, <3>2
      <4>2. x[n + (i - n)] = left[i - n]
        BY <1>7, <4>1
      <4> QED
        BY <2>5, <2>8, <2>11, <2>13, <3>2, <4>1, <4>2
    <3> QED
      BY <3>1, <3>2
  <2>15. t = both
    BY <2>8, <2>11, <2>13, <2>14, SeqEqual
  <2> QED
    BY <1>4, <2>4, <2>10, <2>12, <2>15
<1>9. CASE ~ \E i \in 1 .. k : left[i] = 0
  <2>1. Text(left) = Append(left, Behind)
    BY <1>2, <1>9, TextIs
  <2>2. \A i \in 1 .. n + k : x[i] # 0
    <3> SUFFICES ASSUME NEW i \in 1 .. n + k PROVE x[i] # 0
      OBVIOUS
    <3>1. CASE i <= n
      BY <1>3, <1>6, <3>1
    <3>2. CASE ~(i <= n)
      <4>1. i - n \in 1 .. k /\ n + (i - n) = i
        BY <3>2
      <4> QED
        BY <1>7, <1>9, <4>1
    <3> QED
      BY <3>1, <3>2
  <2>3. Text(x) = Append(x, Behind)
    BY <1>5, <2>2, TextIs
  <2>4. /\ chars \in Seq(Int) /\ left \in Seq(Int) /\ x \in Seq(Int)
        /\ Behind \in Int /\ <<Behind>> \in Seq(Int)
    <3>1. Byte \subseteq Int
      BY Sizes DEF Byte
    <3>2. chars \in Seq(Int) /\ left \in Seq(Int) /\ x \in Seq(Int)
      <4>1. ASSUME NEW s \in Seq(Byte) PROVE s \in Seq(Int)
        <5>1. PICK l \in Nat : s \in [1 .. l -> Byte]
          BY LenProperties
        <5>2. s \in [1 .. l -> Int]
          BY <3>1, <5>1
        <5> QED
          BY <5>1, <5>2, SeqDef
      <4> QED
        BY <1>3, <1>5, <4>1
    <3>3. Behind \in Int
      BY DEF Behind
    <3>4. <<Behind>> \in Seq(Int)
      BY <3>3
    <3> QED
      BY <3>2, <3>3, <3>4
  <2>5. Append(x, Behind) = x \o <<Behind>> /\ Append(left, Behind) = left \o <<Behind>>
    BY <2>4, AppendIsConcat
  <2>6. (chars \o left) \o <<Behind>> = chars \o (left \o <<Behind>>)
    BY <2>4, ConcatAssociative
  <2> QED
    BY <1>4, <2>1, <2>3, <2>5, <2>6
<1> QED
  BY <1>8, <1>9

\* What is printed of a copy of a string is the string, and, if it is not
\* terminated, the string left behind it.
LEMMA StringIsPrinted ==
  ASSUME NEW w \in Copies, w.copy.type = CHARS
  PROVE  Printed(w.copy) = w.value.chars \o IF w.value.ended THEN << >> ELSE Text(w.left)
<1>1. PICK v \in Value : v = w.value /\ v.type = CHARS
  BY DEF Copies
<1>2. PICK left \in Seq(Byte) : left = w.left
  BY DEF Copies
<1>3. PICK chars \in Seq(Byte \ {0}) : chars = v.chars
  BY <1>1, ValueIs
<1>4. v.type # INT /\ v.type # SHORT_REAL /\ v.type # FLOAT
  BY <1>1 DEF INT, SHORT_REAL, FLOAT, CHARS
<1>5. Content(v) = chars \o (IF v.ended THEN <<0>> ELSE << >>)
  BY <1>1, <1>3, <1>4, Zenon DEF Content
<1>6. Printed(w.copy) = Text(Content(v) \o left)
  <2>1. w.copy.content = Content(v) \o left
    BY <1>1, <1>2 DEF Copies
  <2>2. w.copy.type # INT /\ w.copy.type # SHORT_REAL /\ w.copy.type # FLOAT
    BY DEF INT, SHORT_REAL, FLOAT, CHARS
  <2>3. Printed(w.copy) = Text(w.copy.content)
    BY <2>2, Zenon DEF Printed
  <2> QED
    BY <2>1, <2>3
<1>7. chars \in Seq(Byte)
  OBVIOUS
<1>8. CASE v.ended
  <2>1. Content(v) = chars \o <<0>>
    BY <1>5, <1>8
  <2>2. Printed(w.copy) = chars
    BY <1>6, <2>1, EndedText
  <2>3. chars \o << >> = chars
    BY <1>7, ConcatEmptySeq
  <2> QED
    BY <1>1, <1>3, <1>8, <2>2, <2>3
<1>9. CASE ~v.ended
  <2>1. Content(v) = chars
    BY <1>5, <1>7, <1>9, ConcatEmptySeq
  <2>2. Printed(w.copy) = chars \o Text(left)
    BY <1>6, <2>1, OpenText
  <2> QED
    BY <1>1, <1>2, <1>3, <1>9, <2>2
<1> QED
  BY <1>8, <1>9

-----------------------------------------------------------------------------
(* The invariant *)

\* Both structures start as bytes, whatever they are.
LEMMA InitPInv == Init => PInv
<1> SUFFICES ASSUME Init PROVE PInv
  OBVIOUS
<1>1. \A b \in {0, 1} : [type |-> INT, content |-> [i \in 1 .. Room |-> b]] \in Packet
  <2>1. {0, 1} \subseteq Byte
    BY Sizes DEF Byte
  <2> QED
    BY <2>1 DEF Packet, Bytes, INT, CHARS
<1> QED
  BY <1>1, EmptySeq DEF Init, PInv

\* packet after a datagram: the content, followed by what was there.
LEMMA ReceivedIsCopy ==
  ASSUME packet \in Packet, NEW v \in Published
  PROVE  /\ Received(v) \in Packet
         /\ [value |-> v, copy |-> Received(v),
             left |-> SubSeq(packet.content, Len(Content(v)) + 1, Room)] \in Copies
<1>1. v \in Value /\ v.type \in 0 .. CHARS + 1
  BY PublishedAssumption, ValueIs
<1>2. packet.content \in Bytes
  BY DEF Packet
<1>3. Content(v) \in Seq(Byte) /\ Len(Content(v)) <= Room
  <2>1. Content(v) \in Seq(Byte) /\ Len(Content(v)) <= Size
    BY <1>1, ContentFits
  <2> QED
    BY <2>1, LenProperties, Sizes
<1>4. PICK left : left = SubSeq(packet.content, Len(Content(v)) + 1, Room)
  OBVIOUS
<1>5. /\ Over(packet.content, Content(v)) \in Bytes
      /\ left \in Seq(Byte)
      /\ Over(packet.content, Content(v)) = Content(v) \o left
  BY <1>2, <1>3, <1>4, OverIs
<1>6. Received(v) \in Packet
  BY <1>1, <1>5 DEF Received, Packet
<1> QED
  BY <1>1, <1>4, <1>5, <1>6 DEF Received, Copies

\* Every step keeps the invariant.
LEMMA StepPInv == PInv /\ [Next]_vars => PInv'
<1> SUFFICES ASSUME PInv, [Next]_vars PROVE PInv'
  OBVIOUS
<1>1. CASE UNCHANGED vars
  BY <1>1 DEF vars, PInv
<1>2. ASSUME NEW v \in Published, Datagram(v) PROVE PInv'
  <2>1. PICK w : w = [value |-> v, copy |-> Received(v),
                      left |-> SubSeq(packet.content, Len(Content(v)) + 1, Room)]
    OBVIOUS
  <2>2. Received(v) \in Packet /\ w \in Copies
    BY <2>1, ReceivedIsCopy DEF PInv
  <2>3. packet' = Received(v) /\ waiting' = Append(waiting, w)
        /\ shown' = << >> /\ recv_packet' = recv_packet
    BY <1>2, <2>1 DEF Datagram
  <2>4. Append(waiting, w) \in Seq(Copies)
    BY <2>2, AppendProperties DEF PInv
  <2> QED
    BY <2>2, <2>3, <2>4 DEF PInv
<1>3. ASSUME NEW v \in Published, Unwanted(v) PROVE PInv'
  <2>1. Received(v) \in Packet
    BY ReceivedIsCopy DEF PInv
  <2> QED
    BY <1>3, <2>1 DEF Unwanted, PInv
<1>4. CASE Arrive
  <2>1. PICK m \in Copies : m = Head(waiting)
    BY <1>4, HeadTailProperties DEF Arrive, PInv
  <2>2. Tail(waiting) \in Seq(Copies)
    BY <1>4, HeadTailProperties DEF Arrive, PInv
  <2>3. packet' = packet /\ waiting' = Tail(waiting)
    BY <1>4 DEF Arrive
  <2>4. m.copy \in Packet
    BY DEF Copies
  <2>5. CASE m.copy.type \in Types
    <3>1. PICK r : r = [type |-> m.copy.type,
                        content |-> Over(recv_packet.content, Sent(m.copy))]
      OBVIOUS
    <3>2. recv_packet' = r /\ shown' = <<[message |-> m, text |-> Printed(r)]>>
      BY <1>4, <2>1, <2>5, <3>1 DEF Arrive
    <3>3. recv_packet.content \in Bytes
      BY DEF PInv, Packet
    <3>4. Over(recv_packet.content, Sent(m.copy)) \in Bytes /\ Printed(r) = Printed(m.copy)
      BY <2>4, <2>5, <3>1, <3>3, ReceivedIsPrinted
    <3>5. r \in Packet
      BY <2>4, <3>1, <3>4 DEF Packet
    <3> QED
      BY <2>2, <2>3, <2>5, <3>2, <3>4, <3>5 DEF PInv
  <2>6. CASE m.copy.type \notin Types
    BY <1>4, <2>1, <2>2, <2>3, <2>6 DEF Arrive, PInv
  <2> QED
    BY <2>5, <2>6
<1> QED
  BY <1>1, <1>2, <1>3, <1>4 DEF Next

\* So it always holds.
LEMMA Keeps == Spec => []PInv
BY InitPInv, StepPInv, PTL DEF Spec

-----------------------------------------------------------------------------
(* What is printed of a number *)

\* The fold of the first bytes, on any set of them: the last one first.
FoldsTo(n, bytes, g) ==
  g = [s \in SUBSET (1 .. n) |->
         IF s = {} THEN 0 ELSE g[s \ {Max(s)}] * Base + bytes[Max(s)]]

\* There is such a fold of any number of bytes.
LEMMA FoldsExist ==
  ASSUME NEW bytes
  PROVE  \A n \in Nat : \E g : FoldsTo(n, bytes, g)
<1>1. PICK T : T = {n \in Nat : \E g : FoldsTo(n, bytes, g)}
  OBVIOUS
<1>2. 0 \in T
  <2>1. PICK g : g = [s \in SUBSET (1 .. 0) |-> 0]
    OBVIOUS
  <2>2. \A s \in SUBSET (1 .. 0) : s = {}
    OBVIOUS
  <2>3. FoldsTo(0, bytes, g)
    BY <2>1, <2>2 DEF FoldsTo
  <2> QED
    BY <1>1, <2>3
<1>3. ASSUME NEW n \in T PROVE n + 1 \in T
  <2>1. n \in Nat
    BY <1>1
  <2>2. PICK g : FoldsTo(n, bytes, g)
    BY <1>1
  <2>3. PICK h : h = [s \in SUBSET (1 .. n + 1) |->
                        IF n + 1 \in s THEN g[s \ {n + 1}] * Base + bytes[n + 1] ELSE g[s]]
    OBVIOUS
  <2>4. ASSUME NEW s \in SUBSET (1 .. n + 1), s # {}
        PROVE  h[s] = h[s \ {Max(s)}] * Base + bytes[Max(s)]
    <3>1. CASE n + 1 \in s
      <4>1. n + 1 \in s /\ (\A y \in s : n + 1 >= y)
            /\ \A x \in s : (\A y \in s : x >= y) => x = n + 1
        BY <2>1, <3>1
      <4>2. (CHOOSE x \in s : \A y \in s : x >= y) = n + 1
        BY <4>1
      <4>3. Max(s) = n + 1
        BY <4>2 DEF Max
      <4>4. s \ {n + 1} \in SUBSET (1 .. n + 1) /\ n + 1 \notin s \ {n + 1}
        OBVIOUS
      <4>5. h[s] = g[s \ {n + 1}] * Base + bytes[n + 1]
        BY <2>3, <3>1
      <4>6. h[s \ {n + 1}] = g[s \ {n + 1}]
        BY <2>3, <4>4
      <4> QED
        BY <4>3, <4>5, <4>6
    <3>2. CASE n + 1 \notin s
      <4>1. s \in SUBSET (1 .. n)
        BY <2>1, <3>2
      <4>2. h[s] = g[s]
        BY <2>3, <3>2
      <4>3. PICK x : x = Max(s)
        OBVIOUS
      <4>4. g[s] = g[s \ {x}] * Base + bytes[x]
        BY <2>2, <2>4, <4>1, <4>3 DEF FoldsTo
      <4>5. s \ {x} \in SUBSET (1 .. n + 1) /\ n + 1 \notin s \ {x}
        BY <3>2
      <4>6. h[s \ {x}] = g[s \ {x}]
        BY <2>3, <4>5
      <4> QED
        BY <4>2, <4>3, <4>4, <4>6
    <3> QED
      BY <3>1, <3>2
  <2>5. h[{}] = 0
    <3>1. {} \in SUBSET (1 .. n + 1) /\ {} \in SUBSET (1 .. n) /\ n + 1 \notin {}
      OBVIOUS
    <3>2. h[{}] = g[{}]
      BY <2>3, <3>1
    <3>3. g[{}] = 0
      BY <2>2, <3>1 DEF FoldsTo
    <3> QED
      BY <3>2, <3>3
  <2>6. FoldsTo(n + 1, bytes, h)
    BY <2>3, <2>4, <2>5 DEF FoldsTo
  <2> QED
    BY <1>1, <2>1, <2>6
<1> QED
  BY <1>1, <1>2, <1>3, EveryNumber

\* A number is made of its bytes from the first to the last.
LEMMA NumberIs ==
  ASSUME NEW bytes \in Seq(Byte), NEW w \in Nat, w = Len(bytes)
  PROVE  \E v : /\ v[0] = 0
                /\ \A k \in 1 .. w : v[k] = v[k - 1] * Base + bytes[k]
                /\ Number(bytes) = v[w]
<1>1. DOMAIN bytes = 1 .. w
  BY LenProperties
<1>2. PICK g : FoldsTo(w, bytes, g) /\ Number(bytes) = g[1 .. w]
  <2>1. Number(bytes) = (CHOOSE g : FoldsTo(w, bytes, g))[1 .. w]
    BY <1>1 DEF Number, FoldLeft, MapThenFoldSet, FoldsTo
  <2>2. FoldsTo(w, bytes, CHOOSE g : FoldsTo(w, bytes, g))
    BY FoldsExist
  <2> QED
    BY <2>1, <2>2
<1>3. PICK v : v = [k \in 0 .. w |-> g[1 .. k]]
  OBVIOUS
<1>4. v[0] = 0
  <2>1. 0 \in 0 .. w /\ 1 .. 0 = {} /\ {} \in SUBSET (1 .. w)
    OBVIOUS
  <2>2. g[{}] = 0
    BY <1>2, <2>1 DEF FoldsTo
  <2> QED
    BY <1>3, <2>1, <2>2
<1>5. ASSUME NEW k \in 1 .. w PROVE v[k] = v[k - 1] * Base + bytes[k]
  <2>1. PICK s \in SUBSET (1 .. w) : s = 1 .. k
    OBVIOUS
  <2>2. k \in s /\ (\A y \in s : k >= y) /\ \A x \in s : (\A y \in s : x >= y) => x = k
    BY <2>1
  <2>3. (CHOOSE x \in s : \A y \in s : x >= y) = k
    BY <2>2
  <2>4. Max(s) = k
    BY <2>3 DEF Max
  <2>5. s # {} /\ s \ {k} = 1 .. k - 1
    <3>1. k \in Nat /\ k >= 1
      OBVIOUS
    <3>2. (1 .. k) \ {k} = 1 .. k - 1
      BY <3>1
    <3> QED
      BY <2>1, <2>2, <3>2
  <2>6. g[s] = g[s \ {k}] * Base + bytes[k]
    BY <1>2, <2>4, <2>5 DEF FoldsTo
  <2>7. v[k] = g[1 .. k] /\ v[k - 1] = g[1 .. k - 1]
    BY <1>3
  <2> QED
    BY <2>1, <2>5, <2>6, <2>7
<1>6. Number(bytes) = v[w]
  BY <1>2, <1>3
<1> QED
  BY <1>4, <1>5, <1>6

\* Dividing by the next smaller power gives one more digit.
LEMMA NextDigit ==
  ASSUME NEW n \in Nat, NEW q \in Nat \ {0}, NEW b \in Nat \ {0}
  PROVE  (n \div (q * b)) * b + ((n \div q) % b) = n \div q
OBVIOUS

\* The number read from the bytes of a number is that number.
LEMMA NumberOfNet ==
  ASSUME NEW w \in 1 .. Width, NEW n \in 0 .. Power[w] - 1
  PROVE  Number(Net(n, w)) = n
<1>1. w \in Nat /\ w \in 0 .. Width /\ Power[w] \in Nat \ {0}
  BY PowerIs, Sizes
<1>2. n \in Nat /\ n < Power[w]
  BY <1>1
<1>3. Net(n, w) \in Seq(Byte) /\ Len(Net(n, w)) = w
  BY <1>1, <1>2, NetIsBytes
<1>4. PICK v : /\ v[0] = 0
               /\ \A k \in 1 .. w : v[k] = v[k - 1] * Base + Net(n, w)[k]
               /\ Number(Net(n, w)) = v[w]
  BY <1>1, <1>3, NumberIs
<1>5. PICK T : T = {k \in Nat : k <= w => v[k] = n \div Power[w - k]}
  OBVIOUS
<1>6. 0 \in T
  <2>1. PICK p \in Nat \ {0} : p = Power[w]
    BY <1>1
  <2>2. n \div p = 0
    BY <1>2, <2>1
  <2>3. w - 0 = w
    BY <1>1
  <2> QED
    BY <1>4, <1>5, <2>1, <2>2, <2>3
<1>7. ASSUME NEW k \in T PROVE k + 1 \in T
  <2>1. k \in Nat
    BY <1>5
  <2>2. ASSUME k + 1 <= w PROVE v[k + 1] = n \div Power[w - (k + 1)]
    <3>1. PICK j \in 1 .. w : j = k + 1 /\ j - 1 = k
      BY <2>1, <2>2
    <3>2. PICK i \in 0 .. Width : i = w - k /\ i # 0 /\ i - 1 = w - j
      BY <1>1, <2>1, <2>2, <3>1, Sizes
    <3>3. PICK q \in Nat \ {0} : q = Power[w - j]
      <4>1. w - j \in 0 .. Width
        BY <1>1, <3>1, Sizes
      <4> QED
        BY <4>1, PowerIs
    <3>4. Power[i] = q * Base
      <4>1. Power[i] = Base * q
        BY <3>2, <3>3, PowerIs
      <4> QED
        BY <3>3, <4>1, Sizes
    <3>5. v[k] = n \div (q * Base)
      <4>1. k <= w
        BY <2>1, <2>2
      <4> QED
        BY <1>5, <3>2, <3>4, <4>1
    <3>6. Net(n, w)[j] = (n \div q) % Base
      BY <3>3 DEF Net
    <3>7. v[j] = v[k] * Base + Net(n, w)[j]
      BY <1>4, <3>1
    <3>8. Base \in Nat \ {0}
      BY Sizes
    <3>9. (n \div (q * Base)) * Base + ((n \div q) % Base) = n \div q
      BY <1>2, <3>8, NextDigit
    <3>10. v[j] = n \div q
      BY <3>5, <3>6, <3>7, <3>9
    <3> QED
      BY <3>1, <3>3, <3>10
  <2> QED
    BY <1>5, <2>1, <2>2
<1>8. T = Nat
  BY <1>5, <1>6, <1>7, EveryNumber
<1>9. v[w] = n \div Power[w - w] /\ w - w = 0
  BY <1>1, <1>5, <1>8
<1>10. n \div 1 = n
  BY <1>2
<1> QED
  BY <1>4, <1>9, <1>10, PowerIs

\* The parts of three sequences one after another.
LEMMA PartsOf ==
  ASSUME NEW a \in Seq(Byte), NEW b \in Seq(Byte), NEW c \in Seq(Byte)
  PROVE  /\ SubSeq(a \o b \o c, Len(a) + 1, Len(a) + Len(b)) = b
         /\ \A i \in 1 .. Len(a) : (a \o b \o c)[i] = a[i]
         /\ \A i \in 1 .. Len(c) : (a \o b \o c)[Len(a) + Len(b) + i] = c[i]
<1>a. PICK p \in Nat : p = Len(a)
  BY LenProperties
<1>b. PICK q \in Nat : q = Len(b)
  BY LenProperties
<1>c. PICK r \in Nat : r = Len(c)
  BY LenProperties
<1>1. PICK d : d = a \o b
  OBVIOUS
<1>2. PICK m \in Nat : m = p + q
  OBVIOUS
<1>3. /\ d \in Seq(Byte) /\ Len(d) = m
      /\ \A i \in 1 .. p + q : d[i] = IF i <= p THEN a[i] ELSE b[i - p]
  BY <1>1, <1>2, <1>a, <1>b, ConcatProperties
<1>4. PICK x : x = d \o c
  OBVIOUS
<1>5. /\ x \in Seq(Byte) /\ Len(x) = m + r
      /\ \A i \in 1 .. m + r : x[i] = IF i <= m THEN d[i] ELSE c[i - m]
  BY <1>3, <1>4, <1>c, ConcatProperties
<1>6. \A i \in 1 .. m : x[i] = d[i]
  BY <1>5
<1>7. ASSUME NEW i \in 1 .. p PROVE x[i] = a[i]
  <2>1. i \in 1 .. m /\ i \in 1 .. p + q /\ i <= p
    BY <1>2
  <2> QED
    BY <1>3, <1>6, <2>1
<1>8. ASSUME NEW i \in 1 .. r PROVE x[p + q + i] = c[i]
  <2>1. m + i \in 1 .. m + r /\ ~(m + i <= m) /\ m + i - m = i
    OBVIOUS
  <2>2. x[m + i] = c[i]
    BY <1>5, <2>1
  <2> QED
    BY <1>2, <2>2
<1>9. ASSUME NEW i \in 1 .. q PROVE x[p + i] = b[i]
  <2>1. p + i \in 1 .. m /\ p + i \in 1 .. p + q /\ ~(p + i <= p) /\ p + i - p = i
    BY <1>2
  <2> QED
    BY <1>3, <1>6, <2>1
<1>10. PICK s : s = SubSeq(x, p + 1, p + q)
  OBVIOUS
<1>11. s = b
  <2>1. p + 1 \in Int /\ p + q \in Int /\ \A i \in p + 1 .. p + q : x[i] \in Byte
    <3>1. \A i \in 1 .. m + r : x[i] \in Byte
      BY <1>5, ElementOfSeq
    <3> QED
      BY <1>2, <3>1
  <2>2. PICK l : l = Len(s)
    OBVIOUS
  <2>3. l = IF p + 1 <= p + q THEN p + q - (p + 1) + 1 ELSE 0
    BY <1>10, <2>1, <2>2, SubSeqProperties
  <2>4. l = q /\ p + q - (p + 1) + 1 = q
    BY <2>3
  <2>5. s \in Seq(Byte) /\ \A i \in 1 .. q : s[i] = x[p + 1 + i - 1]
    BY <1>10, <2>1, <2>4, SubSeqProperties
  <2>6. \A i \in 1 .. q : p + 1 + i - 1 = p + i
    OBVIOUS
  <2>7. \A i \in 1 .. q : s[i] = b[i]
    BY <1>9, <2>5, <2>6
  <2> QED
    BY <1>b, <2>2, <2>4, <2>5, <2>7, SeqEqual
<1> QED
  BY <1>a, <1>b, <1>c, <1>1, <1>4, <1>7, <1>8, <1>10, <1>11

\* An unsigned number and its negation, printed as a signed one.  That the
\* range is that of int takes an even number of numbers.
LEMMA SignedIs ==
  ASSUME NEW n \in 0 .. Modulus - 1, NEW negative \in BOOLEAN
  PROVE  LET text   == Signed(IF negative THEN (Modulus - n) % Modulus ELSE n)
             signed == IF negative THEN - n ELSE n
         IN  /\ text \in - (Modulus \div 2) .. Modulus \div 2 - 1
             /\ (text - signed) % Modulus = 0
<1>1. PICK M \in Nat \ {0} : M = Modulus
  BY PowerIs, Sizes DEF Modulus
<1>2. PICK h \in Nat : M = 2 * h
  <2>1. PICK k \in 0 .. Width : k = Width /\ k # 0 /\ k - 1 \in 0 .. Width
    BY Sizes
  <2>2. PICK p \in Nat : M = Base * p
    BY <1>1, <2>1, PowerIs DEF Modulus
  <2>3. PICK g \in Nat : Base = 2 * g
    BY Sizes
  <2>4. M = 2 * (g * p) /\ g * p \in Nat
    BY <2>2, <2>3
  <2> QED
    BY <2>4
<1>3. M \div 2 = h
  BY <1>2
<1>4. 0 % M = 0 /\ M % M = 0 /\ (- M) % M = 0 /\ \A x \in 0 .. M - 1 : x % M = x
  BY <1>1
<1>5. PICK u : u = IF negative THEN (M - n) % M ELSE n
  OBVIOUS
<1>6. u \in 0 .. M - 1 /\ (negative => u = IF n = 0 THEN 0 ELSE M - n) /\ (~negative => u = n)
  <2>1. CASE negative /\ n = 0
    <3>1. u = M % M
      BY <1>1, <1>5, <2>1
    <3> QED
      BY <1>1, <1>4, <2>1, <3>1
  <2>2. CASE negative /\ n # 0
    <3>1. M - n \in 0 .. M - 1
      BY <1>1, <2>2
    <3> QED
      BY <1>4, <1>5, <2>2, <3>1
  <2>3. CASE ~negative
    BY <1>1, <1>5, <2>3
  <2> QED
    BY <2>1, <2>2, <2>3
<1>7. PICK t : t = IF u >= h THEN u - M ELSE u
  OBVIOUS
<1>8. t \in - h .. h - 1 /\ t - u \in {0, - M}
  BY <1>1, <1>2, <1>6, <1>7
<1>9. PICK s : s = IF negative THEN - n ELSE n
  OBVIOUS
<1>10. u - s \in {0, M}
  BY <1>1, <1>6, <1>9
<1>11. t - s \in {0, M, - M}
  <2>1. t \in Int /\ u \in Int /\ s \in Int
    BY <1>6, <1>8, <1>9
  <2> QED
    BY <1>1, <1>8, <1>10, <2>1
<1>12. (t - s) % M = 0
  BY <1>4, <1>11
<1> QED
  BY <1>1, <1>3, <1>5, <1>7, <1>8, <1>9, <1>12 DEF Signed

\* What is printed of a copy of a number is the number.
LEMMA NumberIsPrinted ==
  ASSUME NEW w \in Copies
  PROVE  LET v      == w.value
             text   == Printed(w.copy)
             signed == IF v.type # SHORT_REAL /\ v.sign = 1 THEN - v.abs ELSE v.abs
         IN  /\ v.type = INT => /\ text \in - (Modulus \div 2) .. Modulus \div 2 - 1
                                /\ (text - signed) % Modulus = 0
             /\ v.type = SHORT_REAL => text = signed
             /\ v.type = FLOAT => text = <<signed, v.pow>>
<1>1. PICK v \in Value : v = w.value
  BY DEF Copies
<1>2. PICK left \in Seq(Byte) : left = w.left
  BY DEF Copies
<1>3. PICK c : c = w.copy.content
  OBVIOUS
<1>4. c = Content(v) \o left /\ w.copy.type = v.type
  BY <1>1, <1>2, <1>3 DEF Copies
<1>5. \A b \in Byte : <<b>> \in Seq(Byte) /\ Len(<<b>>) = 1 /\ <<b>>[1] = b
  OBVIOUS
<1>6. 0 \in Byte /\ 1 \in Byte
  BY Sizes DEF Byte
<1>7. Width \in 1 .. Width /\ Half \in 1 .. Width /\ Width \in 0 .. Width /\ Half \in 0 .. Width
  BY Sizes
<1>8. PICK r \in Nat : r = Len(left)
  BY LenProperties
<1>9. ASSUME v.type = INT
      PROVE  LET text   == Printed(w.copy)
                 signed == IF v.sign = 1 THEN - v.abs ELSE v.abs
             IN  /\ text \in - (Modulus \div 2) .. Modulus \div 2 - 1
                 /\ (text - signed) % Modulus = 0
  <2>1. v.sign \in Byte /\ v.abs \in 0 .. Modulus - 1 /\ v.abs \in Nat
    BY <1>6, <1>9, ValueIs
  <2>2. PICK net \in Seq(Byte) : net = Net(v.abs, Width) /\ Len(net) = Width /\ Number(net) = v.abs
    BY <1>7, <2>1, NetIsBytes, NumberOfNet DEF Modulus
  <2>3. c = <<v.sign>> \o net \o left
    BY <1>4, <1>9, <2>2 DEF Content, INT, SHORT_REAL, FLOAT, CHARS
  <2>4. c[1] = v.sign /\ SubSeq(c, 2, Width + 1) = net
    <3>1. <<v.sign>> \in Seq(Byte) /\ Len(<<v.sign>>) = 1 /\ <<v.sign>>[1] = v.sign
      BY <1>5, <2>1
    <3>2. /\ SubSeq(c, 1 + 1, 1 + Width) = net
          /\ \A i \in 1 .. 1 : c[i] = <<v.sign>>[i]
      BY <1>8, <2>2, <2>3, <3>1, PartsOf, Sizes
    <3>3. 1 + 1 = 2 /\ 1 + Width = Width + 1 /\ 1 \in 1 .. 1
      BY Sizes
    <3> QED
      BY <3>1, <3>2, <3>3
  <2>5. PICK negative \in BOOLEAN : negative = (v.sign = 1)
    OBVIOUS
  <2>6. Printed(w.copy) = Signed(IF negative THEN (Modulus - v.abs) % Modulus ELSE v.abs)
    <3>1. w.copy.type = INT
      BY <1>4, <1>9
    <3>2. w.copy.type # SHORT_REAL /\ w.copy.type # FLOAT /\ w.copy.type # CHARS
      BY <3>1 DEF INT, SHORT_REAL, FLOAT, CHARS
    <3>3. Printed(w.copy) = Signed(IF c[1] = 1 THEN (Modulus - Number(SubSeq(c, 2, Width + 1))) % Modulus
                                               ELSE Number(SubSeq(c, 2, Width + 1)))
      BY <1>3, <3>1, <3>2, Zenon DEF Printed
    <3> QED
      BY <2>2, <2>4, <2>5, <3>3
  <2> QED
    BY <2>1, <2>5, <2>6, SignedIs
<1>10. ASSUME v.type = SHORT_REAL PROVE Printed(w.copy) = v.abs
  <2>1. v.abs \in 0 .. Power[Half] - 1 /\ v.abs \in Nat
    BY <1>10, ValueIs
  <2>2. PICK net \in Seq(Byte) : net = Net(v.abs, Half) /\ Len(net) = Half /\ Number(net) = v.abs
    BY <1>7, <2>1, NetIsBytes, NumberOfNet
  <2>3. c = << >> \o net \o left
    <3>1. c = net \o left
      BY <1>4, <1>10, <2>2 DEF Content, INT, SHORT_REAL, FLOAT, CHARS
    <3> QED
      BY <2>2, <3>1, ConcatEmptySeq
  <2>4. SubSeq(c, 1, Half) = net
    <3>1. << >> \in Seq(Byte) /\ Len(<< >>) = 0
      BY EmptySeq
    <3>2. SubSeq(c, 0 + 1, 0 + Half) = net
      BY <1>8, <2>2, <2>3, <3>1, PartsOf, Sizes
    <3>3. 0 + 1 = 1 /\ 0 + Half = Half
      BY Sizes
    <3> QED
      BY <3>2, <3>3
  <2>5. Printed(w.copy) = Number(SubSeq(c, 1, Half))
    <3>1. w.copy.type = SHORT_REAL
      BY <1>4, <1>10
    <3>2. w.copy.type # INT /\ w.copy.type # FLOAT /\ w.copy.type # CHARS
      BY <3>1 DEF INT, SHORT_REAL, FLOAT, CHARS
    <3> QED
      BY <1>3, <3>1, <3>2, Zenon DEF Printed
  <2> QED
    BY <2>2, <2>4, <2>5
<1>11. ASSUME v.type = FLOAT
       PROVE  Printed(w.copy) = <<IF v.sign = 1 THEN - v.abs ELSE v.abs, v.pow>>
  <2>1. v.sign \in Byte /\ v.pow \in Byte /\ v.abs \in 0 .. Modulus - 1 /\ v.abs \in Nat
    BY <1>6, <1>11, ValueIs
  <2>2. PICK net \in Seq(Byte) : net = Net(v.abs, Width) /\ Len(net) = Width /\ Number(net) = v.abs
    BY <1>7, <2>1, NetIsBytes, NumberOfNet DEF Modulus
  <2>3. PICK behind : behind = <<v.pow>> \o left
    OBVIOUS
  <2>4. <<v.sign>> \in Seq(Byte) /\ Len(<<v.sign>>) = 1 /\ <<v.sign>>[1] = v.sign
    BY <1>5, <2>1
  <2>5. <<v.pow>> \in Seq(Byte) /\ Len(<<v.pow>>) = 1 /\ <<v.pow>>[1] = v.pow
    BY <1>5, <2>1
  <2>6. behind \in Seq(Byte) /\ Len(behind) = 1 + r /\ behind[1] = v.pow
    BY <1>8, <2>3, <2>5, ConcatProperties
  <2>7. c = <<v.sign>> \o net \o behind
    <3>1. c = <<v.sign>> \o net \o <<v.pow>> \o left
      BY <1>4, <1>11, <2>2 DEF Content, INT, SHORT_REAL, FLOAT, CHARS
    <3>2. <<v.sign>> \o net \in Seq(Byte)
      BY <2>4, ConcatProperties
    <3> QED
      BY <2>3, <2>5, <3>1, <3>2, ConcatAssociative
  <2>8. /\ SubSeq(c, 2, Width + 1) = net
        /\ c[1] = v.sign /\ c[Width + 2] = v.pow
    <3>1. /\ SubSeq(c, 1 + 1, 1 + Width) = net
          /\ \A i \in 1 .. 1 : c[i] = <<v.sign>>[i]
          /\ \A i \in 1 .. 1 + r : c[1 + Width + i] = behind[i]
      <4>1. PICK k \in Nat : k = 1 + r
        OBVIOUS
      <4>2. k = Len(behind) /\ Width \in Nat
        BY <2>6, <4>1, Sizes
      <4>3. /\ SubSeq(c, 1 + 1, 1 + Width) = net
            /\ \A i \in 1 .. 1 : c[i] = <<v.sign>>[i]
            /\ \A i \in 1 .. k : c[1 + Width + i] = behind[i]
        <5>1. PICK first \in Seq(Byte) : first = <<v.sign>> /\ Len(first) = 1
          BY <2>4
        <5>2. behind \in Seq(Byte)
          BY <2>6
        <5>3. /\ SubSeq(first \o net \o behind, Len(first) + 1, Len(first) + Len(net)) = net
              /\ \A i \in 1 .. Len(first) : (first \o net \o behind)[i] = first[i]
              /\ \A i \in 1 .. Len(behind) :
                   (first \o net \o behind)[Len(first) + Len(net) + i] = behind[i]
          BY <5>2, PartsOf, Zenon
        <5>4. first \o net \o behind = c /\ Len(net) = Width /\ Len(behind) = k
          BY <2>2, <2>7, <4>2, <5>1
        <5> QED
          BY <5>1, <5>3, <5>4
      <4> QED
        BY <4>1, <4>3
    <3>2. 1 + 1 = 2 /\ 1 + Width = Width + 1 /\ 1 + Width + 1 = Width + 2
          /\ 1 \in 1 .. 1 /\ 1 \in 1 .. 1 + r
      BY Sizes
    <3> QED
      BY <2>4, <2>6, <3>1, <3>2
  <2>9. Printed(w.copy) = <<IF c[1] = 1 THEN - Number(SubSeq(c, 2, Width + 1))
                                        ELSE Number(SubSeq(c, 2, Width + 1)), c[Width + 2]>>
    <3>1. w.copy.type = FLOAT
      BY <1>4, <1>11
    <3>2. w.copy.type # INT /\ w.copy.type # SHORT_REAL /\ w.copy.type # CHARS
      BY <3>1 DEF INT, SHORT_REAL, FLOAT, CHARS
    <3> QED
      BY <1>3, <3>1, <3>2, Zenon DEF Printed
  <2> QED
    BY <2>2, <2>8, <2>9
<1>12. INT # SHORT_REAL /\ FLOAT # SHORT_REAL
  BY DEF INT, SHORT_REAL, FLOAT
<1> QED
  BY <1>1, <1>9, <1>10, <1>11, <1>12

-----------------------------------------------------------------------------
(* The properties *)

\* recvfrom and recv_all never write behind content and its padding, and no
\* payload is longer than content (server.c:262, 34-60; subscriber.c:127-133).
THEOREM TypeCorrect == Spec => []TypeOK
<1>1. PInv => TypeOK
  <2> SUFFICES ASSUME PInv PROVE TypeOK
    OBVIOUS
  <2>1. \A n \in DOMAIN waiting : waiting[n].copy \in Packet
    <3>1. waiting \in Seq(Copies)
      BY DEF PInv
    <3>2. \A n \in DOMAIN waiting : waiting[n] \in Copies
      BY <3>1, LenProperties, ElementOfSeq
    <3> QED
      BY <3>2 DEF Copies
  <2> QED
    BY <2>1, PayloadFits DEF TypeOK, PInv, Packet, Bytes
<1> QED
  BY <1>1, Keeps, PTL

\* What the last step printed, if it printed.
LEMMA ShownIs ==
  ASSUME PInv, NEW i \in DOMAIN shown
  PROVE  /\ shown[i].message \in Copies
         /\ shown[i].message.copy.type \in Types
         /\ shown[i].text = Printed(shown[i].message.copy)
<1>1. shown # << >>
  BY EmptySeq
<1>2. PICK m \in Copies :
        m.copy.type \in Types /\ shown = <<[message |-> m, text |-> Printed(m.copy)]>>
  BY <1>1 DEF PInv
<1>3. i = 1
  BY <1>2
<1> QED
  BY <1>2, <1>3

\* The bytes send_variable sends are enough for printMessage, whatever
\* recv_packet held before (server.c:34-60, subscriber.c:127-133).
THEOREM SentIsEnough == Spec => []EnoughIsSent
<1>1. PInv => EnoughIsSent
  BY ShownIs DEF EnoughIsSent
<1> QED
  BY <1>1, Keeps, PTL

\* A terminated string is printed as it was published; one that is not is
\* followed by what an earlier datagram left behind it in packet, and nothing
\* else (server.c:262, 56-60).
THEOREM StringsFollow == Spec => []StringsFollowed
<1>1. PInv => StringsFollowed
  <2> SUFFICES ASSUME PInv, NEW i \in Printing({CHARS})
               PROVE  shown[i].text = shown[i].message.value.chars
                        \o IF shown[i].message.value.ended THEN << >> ELSE Text(shown[i].message.left)
    BY DEF StringsFollowed
  <2>1. PICK w \in Copies : w = shown[i].message /\ shown[i].text = Printed(w.copy)
    BY ShownIs DEF Printing
  <2>2. w.copy.type = CHARS
    BY <2>1 DEF Printing, Copies
  <2> QED
    BY <2>1, <2>2, StringIsPrinted
<1> QED
  BY <1>1, Keeps, PTL

\* A number comes out as it was published, an INT modulo the number of ints,
\* whatever both structures held before (server.c:34-63, subscriber.c:28-76).
THEOREM NumbersAreExact == Spec => []NumbersExact
<1>1. PInv => NumbersExact
  <2> SUFFICES ASSUME PInv, NEW i \in Printing(INT .. FLOAT)
               PROVE  LET v      == shown[i].message.value
                          text   == shown[i].text
                          signed == IF v.type # SHORT_REAL /\ v.sign = 1 THEN - v.abs ELSE v.abs
                      IN  CASE v.type = INT ->
                                 /\ text \in - (Modulus \div 2) .. Modulus \div 2 - 1
                                 /\ (text - signed) % Modulus = 0
                            [] v.type = SHORT_REAL -> text = signed
                            [] v.type = FLOAT -> text = <<signed, v.pow>>
    BY DEF NumbersExact
  <2>1. PICK w \in Copies : w = shown[i].message /\ shown[i].text = Printed(w.copy)
    BY ShownIs DEF Printing
  <2>2. w.value.type \in INT .. FLOAT
    BY <2>1 DEF Printing
  <2>3. w.value.type \in {INT, SHORT_REAL, FLOAT} /\ INT # SHORT_REAL
        /\ FLOAT # SHORT_REAL /\ INT # FLOAT
    BY <2>2 DEF INT, SHORT_REAL, FLOAT
  <2>4. CASE w.value.type = INT
    BY <2>1, <2>3, <2>4, NumberIsPrinted
  <2>5. CASE w.value.type = SHORT_REAL
    BY <2>1, <2>3, <2>5, NumberIsPrinted
  <2>6. CASE w.value.type = FLOAT
    BY <2>1, <2>3, <2>6, NumberIsPrinted
  <2> QED
    BY <2>3, <2>4, <2>5, <2>6
<1> QED
  BY <1>1, Keeps, PTL
=============================================================================
