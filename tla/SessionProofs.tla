--------------------------- MODULE SessionProofs ---------------------------
(***************************************************************************)
(* Proofs about Session, for any messages, requests, sizes, capacities and *)
(* bounds.  The invariant follows the units of either direction, from the  *)
(* sender's buffer over the connection to the receiver's: they are always  *)
(* the ones that come next.                                                *)
(***************************************************************************)
EXTENDS Session, Streams

Item == Requests \cup {ID}
Line == Requests \cup {"exit", "invalid"}

UpWidth   == [x \in Item |-> ReqUnits]
DownWidth == [m \in Msgs |-> LenUnits + Size[m]]

\* The units on this side of a receiver: what it has got of an item that is
\* not complete, and what it can still get.  One that has ended gets nothing.
UpUnits ==
  IF srv = "closed" THEN << >>
  ELSE (IF srv \in {"id", "request"} THEN inbox ELSE << >>) \o up

DownUnits ==
  IF Over THEN << >>
  ELSE (IF pc \in {"header", "body"} THEN in ELSE << >>) \o down

\* On an open connection all that was sent arrives, on one that was ended it
\* may be cut off.
UpFlow ==
  IF conn = "open" THEN Whole(UpUnits \o out, asked, Len(heard), UpWidth)
  ELSE Part(UpUnits, asked, Len(heard), UpWidth)

DownFlow ==
  IF conn = "open" THEN Whole(DownUnits \o outbox, posted, Len(printed), DownWidth)
  ELSE Part(DownUnits, posted, Len(printed), DownWidth)

\* What the buffers hold.
Shape ==
  /\ typed \in Seq(Line) /\ buffered \in Seq(Line)
  /\ out \in UnitsOf(Item) /\ up \in UnitsOf(Item) /\ inbox \in UnitsOf(Item)
  /\ outbox \in UnitsOf(Msgs) /\ down \in UnitsOf(Msgs) /\ in \in UnitsOf(Msgs)
  /\ asked \in Seq(Item) /\ heard \in Seq(Item)
  /\ posted \in Seq(Msgs) /\ printed \in Seq(Msgs)

\* Who has ended, and what poll promised to whom.
Control ==
  /\ Over => conn # "open"
  /\ srv = "closed" => conn # "open"
  /\ conn \in {"fin", "gone", "rst", "dead"} => srv = "closed"
  /\ pc \notin {"hello", "request"} /\ ~Over => out = << >>
  /\ srv # "send" => outbox = << >>
  /\ pc # "start" /\ ~Over => asked # << >>
  /\ srv = "id" => heard = << >>
  /\ "stdin" \in marks => typed # << >>
  /\ "sock" \in marks => down # << >> \/ conn # "open"
  /\ pc \in {"header", "body"} => "sock" \notin marks
  /\ conn = "open" /\ pc \in {"header", "body"} => Len(printed) < Len(posted)
  /\ conn = "open" /\ srv = "request" => Len(heard) < Len(asked)

\* The inductive invariant.
IInv == TypeOK /\ Shape /\ Control /\ UpFlow /\ DownFlow /\ JunkOnlyOnce

-----------------------------------------------------------------------------
(* The operators Session is built from *)

\* An item has as many units as send_all is told to send.
LEMMA UnitsAre ==
  ASSUME NEW S, NEW x \in S, NEW n \in Nat
  PROVE  /\ Units(x, n) \in UnitsOf(S) /\ Len(Units(x, n)) = n
         /\ \A j \in 1 .. n : Units(x, n)[j] = <<x, j>>
<1>1. Units(x, n) \in [1 .. n -> S \X Nat] /\ \A j \in 1 .. n : Units(x, n)[j] = <<x, j>>
  BY DEF Units
<1>2. Units(x, n) \in Seq(S \X Nat)
  BY <1>1, SeqDef
<1>3. DOMAIN Units(x, n) = 1 .. n /\ DOMAIN Units(x, n) = 1 .. Len(Units(x, n)) /\ Len(Units(x, n)) \in Nat
  BY <1>1, <1>2, LenProperties
<1> QED
  BY <1>1, <1>2, <1>3 DEF UnitsOf

\* Every cut leaves two parts that make up the whole.
LEMMA Parts ==
  ASSUME NEW S, NEW q \in Seq(S), NEW k \in 0 .. Len(q)
  PROVE  /\ First(q, k) \in Seq(S) /\ Len(First(q, k)) = k
         /\ \A i \in 1 .. k : First(q, k)[i] = q[i]
         /\ After(q, k) \in Seq(S) /\ Len(After(q, k)) = Len(q) - k
         /\ First(q, k) \o After(q, k) = q
<1>1. Len(q) \in Nat /\ \A i \in 1 .. Len(q) : q[i] \in S
  BY LenProperties, ElementOfSeq
<1>2. /\ First(q, k) \in Seq(S) /\ Len(First(q, k)) = k
      /\ \A i \in 1 .. k : First(q, k)[i] = q[i]
  <2>1. k \in Int /\ \A i \in 1 .. k : q[i] \in S
    BY <1>1
  <2>2. /\ SubSeq(q, 1, k) \in Seq(S)
        /\ Len(SubSeq(q, 1, k)) = IF 1 <= k THEN k - 1 + 1 ELSE 0
        /\ \A i \in 1 .. k - 1 + 1 : SubSeq(q, 1, k)[i] = q[1 + i - 1]
    BY <2>1, SubSeqProperties
  <2> QED
    BY <1>1, <2>2 DEF First
<1>3. After(q, k) \in Seq(S) /\ Len(After(q, k)) = Len(q) - k
  <2>1. k + 1 \in Int /\ Len(q) \in Int /\ \A i \in k + 1 .. Len(q) : q[i] \in S
    BY <1>1
  <2>2. /\ SubSeq(q, k + 1, Len(q)) \in Seq(S)
        /\ Len(SubSeq(q, k + 1, Len(q))) = IF k + 1 <= Len(q) THEN Len(q) - (k + 1) + 1 ELSE 0
    BY <2>1, SubSeqProperties
  <2> QED
    BY <1>1, <2>2 DEF After
<1>4. First(q, k) \o After(q, k) = q
  <2>1. 1 \in 1 .. Len(q) + 1 /\ k \in 1 - 1 .. Len(q) /\ Len(q) \in k .. Len(q)
    BY <1>1
  <2>2. SubSeq(q, 1, k) \o SubSeq(q, k + 1, Len(q)) = SubSeq(q, 1, Len(q))
    BY <2>1, ConcatAdjacentSubSeq
  <2> QED
    BY <2>2, SubSeqFull DEF First, After
<1> QED
  BY <1>2, <1>3, <1>4

\* What is moved from the front of one buffer to the end of another stays
\* where it was in the stream.
LEMMA Moved ==
  ASSUME NEW S, NEW a \in Seq(S), NEW b \in Seq(S), NEW k \in 0 .. Len(b)
  PROVE  /\ (a \o First(b, k)) \o After(b, k) = a \o b
         /\ a \o First(b, k) \in Seq(S) /\ Len(a \o First(b, k)) = Len(a) + k
<1>1. /\ First(b, k) \in Seq(S) /\ After(b, k) \in Seq(S) /\ Len(First(b, k)) = k
      /\ First(b, k) \o After(b, k) = b
  BY Parts
<1>2. (a \o First(b, k)) \o After(b, k) = a \o (First(b, k) \o After(b, k))
  <2> DEFINE f == First(b, k)
             r == After(b, k)
  <2>1. f \in Seq(S) /\ r \in Seq(S)
    BY <1>1
  <2> HIDE DEF f, r
  <2>2. (a \o f) \o r = a \o (f \o r)
    BY <2>1, ConcatAssociative
  <2> QED
    BY <2>2 DEF f, r
<1> QED
  BY <1>1, <1>2, ConcatProperties

\* An item that came as it was sent is the one that was sent.
LEMMA FramedIs ==
  ASSUME NEW S, NEW x \in S, NEW n \in Nat \ {0}, NEW units \in UnitsOf(S),
         Len(units) = n, \A j \in 1 .. n : units[j] = <<x, j>>
  PROVE  Framed(units, n) = x
<1>1. units[1] = <<x, 1>>
  OBVIOUS
<1>2. units[1][1] = x
  BY <1>1
<1>3. /\ Units(x, n) \in Seq(S \X Nat) /\ Len(Units(x, n)) = n
      /\ \A j \in 1 .. n : Units(x, n)[j] = <<x, j>>
  BY UnitsAre DEF UnitsOf
<1>4. units = Units(x, n)
  BY <1>3, SeqEqual DEF UnitsOf
<1> QED
  BY <1>2, <1>4 DEF Framed

\* The sizes are sizes, and the sums of two lengths fit.
LEMMA WidthsAre ==
  /\ UpWidth \in Widths(Item) /\ \A x \in Item : UpWidth[x] = ReqUnits
  /\ DownWidth \in Widths(Msgs) /\ \A m \in Msgs : DownWidth[m] = LenUnits + Size[m]
BY UnitsAssumption DEF UpWidth, DownWidth, Widths

\* What a reset leaves of a buffer is how it began.
LEMMA CutIs ==
  ASSUME NEW S, NEW a \in Seq(S), NEW b \in Seq(S), NEW c \in Cut(b)
  PROVE  /\ c \in Seq(S) /\ Len(c) <= Len(b)
         /\ a \o c \in Seq(S) /\ Begins(a \o c, a \o b)
<1>1. PICK k \in 0 .. Len(b) : c = First(b, k)
  BY DEF Cut
<1>2. Len(a) \in Nat /\ Len(b) \in Nat
  BY LenProperties
<1>3. c \in Seq(S) /\ Len(c) = k /\ \A i \in 1 .. k : c[i] = b[i]
  BY <1>1, Parts
<1>4. /\ a \o c \in Seq(S) /\ Len(a \o c) = Len(a) + k
      /\ \A i \in 1 .. Len(a) + k : (a \o c)[i] = IF i <= Len(a) THEN a[i] ELSE c[i - Len(a)]
  BY <1>3, ConcatProperties
<1>5. /\ Len(a \o b) = Len(a) + Len(b)
      /\ \A i \in 1 .. Len(a) + Len(b) : (a \o b)[i] = IF i <= Len(a) THEN a[i] ELSE b[i - Len(a)]
  BY ConcatProperties
<1>6. ASSUME NEW i \in 1 .. Len(a) + k
      PROVE  (a \o c)[i] = (a \o b)[i]
  <2>1. i \in 1 .. Len(a) + Len(b)
    BY <1>2
  <2>2. CASE i <= Len(a)
    BY <1>4, <1>5, <2>1, <2>2
  <2>3. CASE ~(i <= Len(a))
    <3>1. i - Len(a) \in 1 .. k
      BY <1>2, <2>3
    <3> QED
      BY <1>3, <1>4, <1>5, <2>1, <2>3, <3>1
  <2> QED
    BY <2>2, <2>3
<1> QED
  BY <1>2, <1>3, <1>4, <1>5, <1>6 DEF Begins

\* Whatever is under way comes next, on an open connection and on any other.
LEMMA UpPart ==
  ASSUME Shape, UpFlow
  PROVE  UpUnits \in UnitsOf(Item) /\ Part(UpUnits, asked, Len(heard), UpWidth)
<1>1. << >> \in UnitsOf(Item)
  BY EmptySeq DEF UnitsOf
<1>2. /\ inbox \in Seq(Item \X Nat) /\ up \in Seq(Item \X Nat)
      /\ out \in Seq(Item \X Nat) /\ << >> \in Seq(Item \X Nat)
  BY EmptySeq DEF Shape, UnitsOf
<1>3. inbox \o up \in Seq(Item \X Nat) /\ << >> \o up \in Seq(Item \X Nat)
  BY <1>2, ConcatProperties
<1>4. UpUnits \in UnitsOf(Item)
  BY <1>2, <1>3 DEF UpUnits, UnitsOf
<1>5. CASE conn = "open"
  <2>1. Whole(UpUnits \o out, asked, Len(heard), UpWidth)
    BY <1>5 DEF UpFlow
  <2>2. Part(UpUnits \o out, asked, Len(heard), UpWidth)
    BY <2>1, WholeIsPart
  <2> DEFINE w == UpUnits
  <2>3. w \in Seq(Item \X Nat)
    BY <1>4 DEF UnitsOf
  <2> HIDE DEF w
  <2>4. w \o out \in UnitsOf(Item) /\ Begins(w, w \o out)
    BY <1>2, <2>3, ConcatProperties, LenProperties DEF UnitsOf, Begins
  <2>5. asked \in Seq(Item) /\ w \in UnitsOf(Item) /\ Part(w \o out, asked, Len(heard), UpWidth)
    BY <2>2, <2>3 DEF Shape, UnitsOf, w
  <2>6. Part(w, asked, Len(heard), UpWidth)
    BY <2>4, <2>5, WidthsAre, PartLoses
  <2> QED
    BY <1>4, <2>6 DEF w
<1> QED
  BY <1>4, <1>5 DEF UpFlow

\* What is under way to the subscriber is part of what was posted.
LEMMA DownPart ==
  ASSUME Shape, DownFlow
  PROVE  DownUnits \in UnitsOf(Msgs) /\ Part(DownUnits, posted, Len(printed), DownWidth)
<1>2. /\ in \in Seq(Msgs \X Nat) /\ down \in Seq(Msgs \X Nat)
      /\ outbox \in Seq(Msgs \X Nat) /\ << >> \in Seq(Msgs \X Nat)
  BY EmptySeq DEF Shape, UnitsOf
<1>3. in \o down \in Seq(Msgs \X Nat) /\ << >> \o down \in Seq(Msgs \X Nat)
  BY <1>2, ConcatProperties
<1>4. DownUnits \in UnitsOf(Msgs)
  BY <1>2, <1>3 DEF DownUnits, UnitsOf
<1>5. CASE conn = "open"
  <2>1. Whole(DownUnits \o outbox, posted, Len(printed), DownWidth)
    BY <1>5 DEF DownFlow
  <2>2. Part(DownUnits \o outbox, posted, Len(printed), DownWidth)
    BY <2>1, WholeIsPart
  <2> DEFINE w == DownUnits
  <2>3. w \in Seq(Msgs \X Nat)
    BY <1>4 DEF UnitsOf
  <2> HIDE DEF w
  <2>4. w \o outbox \in UnitsOf(Msgs) /\ Begins(w, w \o outbox)
    BY <1>2, <2>3, ConcatProperties, LenProperties DEF UnitsOf, Begins
  <2>5. posted \in Seq(Msgs) /\ w \in UnitsOf(Msgs) /\ Part(w \o outbox, posted, Len(printed), DownWidth)
    BY <2>2, <2>3 DEF Shape, UnitsOf, w
  <2>6. Part(w, posted, Len(printed), DownWidth)
    BY <2>4, <2>5, WidthsAre, PartLoses
  <2> QED
    BY <1>4, <2>6 DEF w
<1> QED
  BY <1>4, <1>5 DEF DownFlow

\* What is left of it does, however much is lost behind.
LEMMA UpLoses ==
  ASSUME Shape, UpFlow, NEW left \in UnitsOf(Item), Begins(left, UpUnits)
  PROVE  Part(left, asked, Len(heard), UpWidth)
<1>1. asked \in Seq(Item)
  BY DEF Shape
<1> QED
  BY <1>1, UpPart, WidthsAre, PartLoses

\* A reset or an end that discards some of it keeps that.
LEMMA DownLoses ==
  ASSUME Shape, DownFlow, NEW left \in UnitsOf(Msgs), Begins(left, DownUnits)
  PROVE  Part(left, posted, Len(printed), DownWidth)
<1>1. posted \in Seq(Msgs)
  BY DEF Shape
<1> QED
  BY <1>1, DownPart, WidthsAre, PartLoses

\* All of it may be lost.
LEMMA AllLost ==
  ASSUME Shape, UpFlow, DownFlow
  PROVE  /\ Part(<< >>, asked, Len(heard), UpWidth)
         /\ Part(<< >>, posted, Len(printed), DownWidth)
<1>1. << >> \in UnitsOf(Item) /\ << >> \in UnitsOf(Msgs) /\ Len(<< >>) = 0
  BY EmptySeq DEF UnitsOf
<1>2. Begins(<< >>, UpUnits) /\ Begins(<< >>, DownUnits)
  BY <1>1, UpPart, DownPart, LenProperties DEF UnitsOf, Begins
<1>3. Part(<< >>, asked, Len(heard), UpWidth)
  BY <1>1, <1>2, UpLoses
<1>4. Part(<< >>, posted, Len(printed), DownWidth)
  BY <1>1, <1>2, DownLoses
<1> QED
  BY <1>3, <1>4

\* The subscriber sends another ID or request behind all that it has sent.
LEMMA Asks ==
  ASSUME Shape, UpFlow, NEW x \in Item, out = << >>,
         out' = Request(x), asked' = Append(asked, x),
         UpUnits' = UpUnits, UNCHANGED <<conn, heard>>
  PROVE  /\ UpFlow'
         /\ out' \in UnitsOf(Item) /\ out' # << >>
         /\ asked' \in Seq(Item) /\ asked' # << >> /\ Len(asked') = Len(asked) + 1
<1>1. asked' \in Seq(Item) /\ asked' # << >> /\ Len(asked') = Len(asked) + 1
  <2>1. asked \in Seq(Item)
    BY DEF Shape
  <2> QED
    BY <2>1, AppendProperties
<1>2. ReqUnits \in Nat \ {0}
  BY UnitsAssumption
<1>3. /\ out' \in UnitsOf(Item) /\ Len(out') = UpWidth[x]
      /\ \A j \in 1 .. UpWidth[x] : out'[j] = <<x, j>>
  BY <1>2, UnitsAre, WidthsAre DEF Request
<1>4. out' # << >>
  BY <1>2, <1>3, WidthsAre, EmptySeq
<1>5. ASSUME conn = "open" PROVE UpFlow'
  <2>1. UpUnits \in UnitsOf(Item) /\ asked \in Seq(Item)
    BY UpPart DEF Shape
  <2>2. UpUnits \o out = UpUnits
    BY <2>1, ConcatEmptySeq DEF UnitsOf
  <2>3. Whole(UpUnits, asked, Len(heard), UpWidth)
    BY <1>5, <2>2 DEF UpFlow
  <2>4. Whole(UpUnits \o out', Append(asked, x), Len(heard), UpWidth)
    BY <1>3, <2>1, <2>3, WidthsAre, WholeSends
  <2> QED
    BY <1>5, <2>4 DEF UpFlow
<1>6. ASSUME conn # "open" PROVE UpFlow'
  <2>1. Part(UpUnits, Append(asked, x), Len(heard), UpWidth)
    BY UpPart, WidthsAre, PartLater DEF Shape
  <2> QED
    BY <1>6, <2>1 DEF UpFlow
<1> QED
  BY <1>1, <1>3, <1>4, <1>5, <1>6

\* However the subscriber ends: nothing is lost in the middle.
LEMMA Leaves ==
  ASSUME IInv, ~Over, NEW how \in {"ended", "killed"}, Leave(how),
         UNCHANGED <<srv, inbox, heard, asked, posted, printed>>
  PROVE  /\ Over' /\ UpFlow' /\ DownFlow'
         /\ up' \in UnitsOf(Item) /\ Len(up') <= Len(up)
         /\ conn' # "open"
         /\ conn' \in {"left", "broken"} \/ conn' = conn
<1>1. Over' /\ conn' # "open" /\ (conn' \in {"left", "broken"} \/ conn' = conn)
  BY DEF Leave, Over
<1>2. DownFlow'
  BY <1>1, AllLost DEF IInv, DownFlow, DownUnits
<1>3. up' \in Cut(up) \/ up' = up
  BY DEF Leave
<1>4. /\ up \in Seq(Item \X Nat) /\ inbox \in Seq(Item \X Nat)
      /\ Len(up) \in Nat /\ << >> \in Seq(Item \X Nat)
  BY LenProperties, EmptySeq DEF IInv, Shape, UnitsOf
<1>5. up' \in UnitsOf(Item) /\ Len(up') <= Len(up)
  BY <1>3, <1>4, CutIs DEF UnitsOf
<1>6. UpUnits' \in UnitsOf(Item) /\ Begins(UpUnits', UpUnits)
  <2>1. CASE up' = up
    <3>1. UpUnits' = UpUnits
      BY <2>1 DEF UpUnits
    <3>2. UpUnits \in UnitsOf(Item) /\ Len(UpUnits) \in Nat
      BY UpPart, LenProperties DEF IInv, UnitsOf
    <3> QED
      BY <3>1, <3>2 DEF Begins
  <2>2. CASE up' \in Cut(up)
    <3>1. CASE srv = "closed"
      BY <1>4, <3>1, EmptySeq DEF UpUnits, UnitsOf, Begins
    <3>2. CASE srv \in {"id", "request"}
      <4>1. UpUnits = inbox \o up /\ UpUnits' = inbox \o up'
        BY <3>2 DEF UpUnits
      <4>2. inbox \o up' \in Seq(Item \X Nat) /\ Begins(inbox \o up', inbox \o up)
        BY <1>4, <2>2, CutIs
      <4> QED
        BY <4>1, <4>2 DEF UnitsOf
    <3>3. CASE srv \notin {"closed", "id", "request"}
      <4>1. UpUnits = << >> \o up /\ UpUnits' = << >> \o up'
        BY <3>3 DEF UpUnits
      <4>2. << >> \o up' \in Seq(Item \X Nat) /\ Begins(<< >> \o up', << >> \o up)
        BY <1>4, <2>2, CutIs
      <4> QED
        BY <4>1, <4>2 DEF UnitsOf
    <3> QED
      BY <3>1, <3>2, <3>3
  <2> QED
    BY <1>3, <2>1, <2>2
<1>7. Part(UpUnits', asked, Len(heard), UpWidth)
  BY <1>6, UpLoses DEF IInv
<1>8. UpFlow'
  BY <1>1, <1>7 DEF UpFlow
<1> QED
  BY <1>1, <1>2, <1>5, <1>8

-----------------------------------------------------------------------------
(* The subscriber's steps *)

\* main sends the ID: the first item of this direction.
LEMMA HelloKeeps ==
  ASSUME IInv, Hello
  PROVE  IInv'
<1>1. UpUnits' = UpUnits
  BY DEF Hello, server, UpUnits
<1>2. out = << >> /\ ID \in Item
  BY DEF IInv, Control, Hello, Over, Item
<1>3. /\ UpFlow' /\ out' \in UnitsOf(Item) /\ out' # << >>
      /\ asked' \in Seq(Item) /\ asked' # << >> /\ Len(asked') = Len(asked) + 1
  BY <1>1, <1>2, Asks DEF IInv, Hello
<1>4. DownFlow'
  BY DEF IInv, DownFlow, DownUnits, Over, Hello, server
<1>5. Shape'
  BY <1>3 DEF IInv, Shape, Hello, server
<1>6. TypeOK'
  BY <1>3 DEF IInv, TypeOK, Hello, server
<1>7. Control'
  BY <1>3 DEF IInv, TypeOK, Control, Over, Hello, server
<1>8. JunkOnlyOnce'
  BY DEF IInv, JunkOnlyOnce, Hello
<1> QED
  BY <1>3, <1>4, <1>5, <1>6, <1>7, <1>8 DEF IInv

\* poll changes nothing that is under way.
LEMMA PollKeeps ==
  ASSUME IInv, Poll
  PROVE  IInv'
<1>1. UpFlow' /\ DownFlow'
  BY DEF IInv, UpFlow, DownFlow, UpUnits, DownUnits, Over, Poll, server, history
<1>2. Shape'
  BY DEF IInv, Shape, Poll, server, history
<1>3. TypeOK'
  BY DEF IInv, TypeOK, Poll, Ready, server, history
<1>4. Control'
  BY DEF IInv, Control, Over, Poll, Ready, server, history
<1>5. JunkOnlyOnce'
  BY DEF IInv, JunkOnlyOnce, Poll
<1> QED
  BY <1>1, <1>2, <1>3, <1>4, <1>5 DEF IInv

\* A command is asked for, and put in front of send_all, at once.
LEMMA ConsoleKeeps ==
  ASSUME IInv, Console
  PROVE  IInv'
<1> DEFINE lines == IF buffered = << >> THEN typed ELSE buffered
           line  == Head(lines)
<1>1. lines \in Seq(Line) /\ lines # << >>
  BY DEF IInv, Shape, Control, Console
<1>2. line \in Line /\ buffered' \in Seq(Line) /\ typed' \in Seq(Line)
  <2>1. line \in Line /\ Tail(lines) \in Seq(Line)
    BY <1>1, HeadTailProperties
  <2>2. typed' \in Seq(Line)
    BY EmptySeq DEF IInv, Shape, Console
  <2> QED
    BY <2>1, <2>2 DEF Console
<1>3. /\ pc = "scan" /\ marks' = marks \ {"stdin"}
      /\ UNCHANGED <<in, junk, srv, outbox, inbox, down, heard, posted, printed>>
  BY DEF Console, Unserved, server
<1>4. ~Over /\ out = << >>
  BY <1>3 DEF IInv, Control, Over
<1>5. CASE line \in Requests /\ pc' = "request" /\ out' = Request(line)
           /\ asked' = Append(asked, line) /\ UNCHANGED <<conn, up>>
  <2>1. UpUnits' = UpUnits
    BY <1>3, <1>5 DEF UpUnits
  <2>2. line \in Item
    BY <1>5 DEF Item
  <2> HIDE DEF line
  <2>3. /\ UpFlow' /\ out' \in UnitsOf(Item) /\ out' # << >>
        /\ asked' \in Seq(Item) /\ asked' # << >> /\ Len(asked') = Len(asked) + 1
    BY <1>3, <1>4, <1>5, <2>1, <2>2, Asks DEF IInv
  <2>4. DownFlow'
    BY <1>3, <1>5 DEF IInv, DownFlow, DownUnits, Over
  <2>5. Shape'
    BY <1>2, <1>3, <1>5, <2>3 DEF IInv, Shape
  <2>6. TypeOK'
    BY <1>3, <1>5, <2>3 DEF IInv, TypeOK
  <2>7. Len(heard) \in Nat /\ Len(asked) \in Nat
    BY LenProperties DEF IInv, Shape
  <2>8. Control'
    BY <1>3, <1>5, <2>3, <2>7 DEF IInv, Control, Over
  <2>9. JunkOnlyOnce'
    BY <1>3, <1>5 DEF IInv, JunkOnlyOnce
  <2> QED
    BY <2>3, <2>4, <2>5, <2>6, <2>8, <2>9 DEF IInv
<1>6. CASE line = "exit" /\ Leave("ended") /\ UNCHANGED <<out, asked>>
  <2>1. /\ Over' /\ UpFlow' /\ DownFlow'
        /\ up' \in UnitsOf(Item) /\ Len(up') <= Len(up)
        /\ conn' # "open" /\ (conn' \in {"left", "broken"} \/ conn' = conn)
    BY <1>3, <1>4, <1>6, Leaves
  <2>2. Shape'
    BY <1>2, <1>3, <1>6, <2>1 DEF IInv, Shape
  <2>3. Len(up) \in Nat /\ Len(up') \in Nat /\ pc' = "ended"
    BY <1>6, <2>1, LenProperties DEF IInv, Shape, UnitsOf, Leave
  <2>4. TypeOK'
    BY <1>3, <1>6, <2>1, <2>3, UnitsAssumption DEF IInv, TypeOK
  <2>5. Control'
    BY <1>3, <1>6, <2>1, <2>3 DEF IInv, Control
  <2>6. JunkOnlyOnce'
    BY <1>3, <1>6 DEF IInv, JunkOnlyOnce, Leave
  <2> QED
    BY <2>1, <2>2, <2>4, <2>5, <2>6 DEF IInv
<1>7. CASE line = "invalid" /\ UNCHANGED <<pc, conn, up, out, asked>>
  <2>1. UpFlow' /\ DownFlow'
    BY <1>3, <1>7 DEF IInv, UpFlow, DownFlow, UpUnits, DownUnits, Over
  <2>2. Shape'
    BY <1>2, <1>3, <1>7 DEF IInv, Shape
  <2>3. TypeOK'
    BY <1>3, <1>7 DEF IInv, TypeOK
  <2>4. Control'
    BY <1>3, <1>7 DEF IInv, Control, Over
  <2>5. JunkOnlyOnce'
    BY <1>3, <1>7 DEF IInv, JunkOnlyOnce
  <2> QED
    BY <2>1, <2>2, <2>3, <2>4, <2>5 DEF IInv
<1> QED
  BY <1>5, <1>6, <1>7 DEF Console

\* A send moves units from one place to the next, or discards the rest.
LEMMA SendAllKeeps ==
  ASSUME IInv, SendAll
  PROVE  IInv'
<1>1. /\ pc \in {"hello", "request"} /\ out # << >>
      /\ UNCHANGED <<marks, typed, buffered, in, junk, srv, outbox, inbox,
                     asked, heard, posted, printed>>
  BY DEF SendAll, server, history, IInv, TypeOK
<1>2. /\ out \in Seq(Item \X Nat) /\ up \in Seq(Item \X Nat) /\ inbox \in Seq(Item \X Nat)
      /\ Len(out) \in Nat /\ Len(up) \in Nat /\ Len(up) <= UpCap /\ UpCap \in Nat
      /\ << >> \in Seq(Item \X Nat)
  BY UnitsAssumption, LenProperties, EmptySeq DEF IInv, TypeOK, Shape, UnitsOf
<1>3. CASE Sends
  <2>1. PICK k \in 1 .. AtMost(Len(out), UpCap - Len(up)) :
          up' = up \o First(out, k) /\ out' = After(out, k)
    BY <1>3 DEF Sends, Unsent
  <2>2. k \in 0 .. Len(out) /\ k <= UpCap - Len(up)
    BY <1>2 DEF AtMost
  <2>3. /\ up' \in Seq(Item \X Nat) /\ Len(up') = Len(up) + k
        /\ out' \in Seq(Item \X Nat) /\ Len(up') <= UpCap
    <3> DEFINE T == Item \X Nat
    <3>1. out \in Seq(T) /\ up \in Seq(T)
      BY <1>2
    <3> HIDE DEF T
    <3>2. First(out, k) \in Seq(T) /\ Len(First(out, k)) = k /\ After(out, k) \in Seq(T)
      BY <2>2, <3>1, Parts
    <3>3. up \o First(out, k) \in Seq(T) /\ Len(up \o First(out, k)) = Len(up) + k
      BY <3>1, <3>2, ConcatProperties
    <3>4. Len(up) + k <= UpCap
      BY <1>2, <2>2
    <3> QED
      BY <2>1, <3>2, <3>3, <3>4 DEF T
  <2>4. conn = "open" /\ UNCHANGED <<conn, down>> /\ pc' = IF out' = << >> THEN "scan" ELSE pc
    BY <1>3 DEF Sends
  <2>5. UpUnits' \o out' = UpUnits \o out
    <3>1. srv # "closed"
      BY <2>4 DEF IInv, Control
    <3> DEFINE T == Item \X Nat
               here == IF srv \in {"id", "request"} THEN inbox ELSE << >>
    <3>2. UpUnits = here \o up /\ UpUnits' = here \o (up \o First(out, k))
      BY <1>1, <2>1, <3>1 DEF UpUnits
    <3>3. here \in Seq(T) /\ up \in Seq(T) /\ out \in Seq(T) /\ First(out, k) \in Seq(T)
      BY <1>2, <2>2, Parts
    <3> HIDE DEF here, T
    <3>4. here \o (up \o First(out, k)) = (here \o up) \o First(out, k)
      <4> DEFINE f == First(out, k)
      <4>1. here \in Seq(T) /\ up \in Seq(T) /\ f \in Seq(T)
        BY <3>3
      <4> HIDE DEF f
      <4>2. (here \o up) \o f = here \o (up \o f)
        BY <4>1, ConcatAssociative
      <4> QED
        BY <4>2 DEF f
    <3>5. here \o up \in Seq(T)
      BY <3>3, ConcatProperties
    <3>6. ((here \o up) \o First(out, k)) \o After(out, k) = (here \o up) \o out
      BY <2>2, <3>3, <3>5, Moved
    <3> QED
      BY <2>1, <3>2, <3>4, <3>6
  <2>6. UpFlow'
    BY <1>1, <2>4, <2>5 DEF IInv, UpFlow
  <2>7. DownFlow'
    BY <1>1, <2>4 DEF IInv, DownFlow, DownUnits, Over
  <2>8. Shape'
    BY <1>1, <2>3, <2>4 DEF IInv, Shape, UnitsOf
  <2>9. TypeOK'
    BY <1>1, <2>3, <2>4 DEF IInv, TypeOK
  <2>10. Control'
    BY <1>1, <2>4 DEF IInv, Control, Over
  <2>11. JunkOnlyOnce'
    BY <1>1, <2>4 DEF IInv, JunkOnlyOnce
  <2> QED
    BY <2>6, <2>7, <2>8, <2>9, <2>10, <2>11 DEF IInv
<1>4. CASE SendsInVain
  <2>1. /\ conn \in {"fin", "gone", "rst", "dead"} /\ conn' \in {"fin", "gone", "rst", "dead"}
        /\ conn = "dead" => conn' = "dead"
        /\ up' = up /\ (down' = down \/ down' \in Cut(down))
        /\ pc' \in {"hello", "request", "scan", "killed"}
        /\ pc' \in {"hello", "request"} => out' # << >>
        /\ pc' = "scan" => out' = << >>
    BY <1>1, <1>4 DEF SendsInVain
  <2>2. out' \in Seq(Item \X Nat)
    <3>1. CASE \E k \in 1 .. Len(out) : out' = After(out, k)
      <4>1. PICK k \in 1 .. Len(out) : out' = After(out, k)
        BY <3>1
      <4>2. k \in 0 .. Len(out)
        BY <1>2
      <4> QED
        BY <1>2, <4>1, <4>2, Parts
    <3>2. CASE out' \in {<< >>, out}
      BY <1>2, <3>2
    <3> QED
      BY <1>4, <3>1, <3>2 DEF SendsInVain, Unsent
  <2>3. /\ down \in Seq(Msgs \X Nat) /\ << >> \in Seq(Msgs \X Nat)
        /\ Len(down) \in Nat /\ Len(down) <= DownCap /\ DownCap \in Nat
    BY UnitsAssumption, LenProperties, EmptySeq DEF IInv, TypeOK, Shape, UnitsOf
  <2>4. /\ down' \in Seq(Msgs \X Nat) /\ Len(down') <= Len(down) /\ Len(down') \in Nat
        /\ Begins(<< >> \o down', << >> \o down) /\ << >> \o down' \in Seq(Msgs \X Nat)
    <3>1. CASE down' = down
      <4>1. << >> \o down = down
        BY <2>3, ConcatEmptySeq
      <4>2. Begins(down, down)
        BY <2>3 DEF Begins
      <4> QED
        BY <2>3, <3>1, <4>1, <4>2
    <3>2. CASE down' \in Cut(down)
      <4>1. /\ down' \in Seq(Msgs \X Nat) /\ Len(down') <= Len(down)
            /\ << >> \o down' \in Seq(Msgs \X Nat) /\ Begins(<< >> \o down', << >> \o down)
        BY <2>3, <3>2, CutIs
      <4> QED
        BY <4>1, LenProperties
    <3> QED
      BY <2>1, <3>1, <3>2
  <2>5. DownFlow'
    <3>1. Part(<< >>, posted, Len(printed), DownWidth)
      BY AllLost DEF IInv
    <3>2. DownUnits = << >> \o down
      BY <1>1 DEF DownUnits, Over
    <3>3. Part(<< >> \o down', posted, Len(printed), DownWidth)
      BY <2>4, <3>2, DownLoses DEF IInv, UnitsOf
    <3>4. DownUnits' \in {<< >>, << >> \o down'}
      BY <2>1 DEF DownUnits, Over
    <3> QED
      BY <1>1, <2>1, <3>1, <3>3, <3>4 DEF DownFlow
  <2>6. UpFlow'
    BY <1>1, <2>1 DEF IInv, UpFlow, UpUnits
  <2>7. Shape'
    BY <1>1, <2>1, <2>2, <2>4 DEF IInv, Shape, UnitsOf
  <2>8. TypeOK'
    BY <1>1, <2>1, <2>3, <2>4 DEF IInv, TypeOK
  <2>9. Control'
    BY <1>1, <2>1 DEF IInv, Control, Over
  <2>10. JunkOnlyOnce'
    BY <1>1, <2>1 DEF IInv, JunkOnlyOnce
  <2> QED
    BY <2>5, <2>6, <2>7, <2>8, <2>9, <2>10 DEF IInv
<1> QED
  BY <1>3, <1>4 DEF SendAll

\* The socket's turn begins a recv_all of a length.
LEMMA SocketKeeps ==
  ASSUME IInv, Socket
  PROVE  IInv'
<1>1. /\ pc = "scan" /\ pc' = "header" /\ in' = << >> /\ marks' = marks \ {"sock"}
      /\ "sock" \in marks
      /\ UNCHANGED <<typed, buffered, out, junk, srv, outbox, inbox, conn, up, down,
                     asked, heard, posted, printed>>
  BY DEF Socket, Unserved, server, history
<1>2. DownUnits' = DownUnits
  BY <1>1 DEF DownUnits, Over
<1>3. UpFlow' /\ DownFlow'
  BY <1>1, <1>2 DEF IInv, UpFlow, DownFlow, UpUnits
<1>4. Shape'
  BY <1>1, EmptySeq DEF IInv, Shape, UnitsOf
<1>5. TypeOK'
  BY <1>1, EmptySeq, UnitsAssumption DEF IInv, TypeOK
<1>6. conn = "open" => Len(printed) < Len(posted)
  <2> SUFFICES ASSUME conn = "open" PROVE Len(printed) < Len(posted)
    OBVIOUS
  <2>1. down # << >> /\ down \in Seq(Msgs \X Nat)
    BY <1>1 DEF IInv, Control, Shape, UnitsOf
  <2>2. DownUnits = down
    BY <1>1, <2>1, ConcatEmptySeq DEF DownUnits, Over
  <2>3. posted \in Seq(Msgs) /\ DownUnits \in UnitsOf(Msgs)
        /\ Part(DownUnits, posted, Len(printed), DownWidth)
    BY DownPart DEF IInv, Shape
  <2> QED
    BY <2>1, <2>2, <2>3, WidthsAre, PartBegins
<1>7. Control'
  BY <1>1, <1>6 DEF IInv, Control, Over
<1>8. JunkOnlyOnce'
  BY <1>1 DEF IInv, JunkOnlyOnce
<1> QED
  BY <1>3, <1>4, <1>5, <1>7, <1>8 DEF IInv

\* What the subscriber receives belongs to the next message, and what it
\* prints is that message.
LEMMA ReceiveGets ==
  ASSUME IInv, Receive
  PROVE  /\ DownFlow'
         /\ in' \in UnitsOf(Msgs) /\ down' \in UnitsOf(Msgs) /\ Len(down') <= Len(down)
         /\ Len(printed) < Len(posted) /\ posted[Len(printed) + 1] \in Msgs
         /\ \/ /\ UNCHANGED printed
               /\ pc' \in {"header", "body"}
               /\ pc' = "header" => Len(in') < LenUnits
               /\ pc' = "body" => Len(in') \in LenUnits .. Wanted' - 1
            \/ /\ pc' = "scan"
               /\ printed' = Append(printed, posted[Len(printed) + 1])
<1> DEFINE T == Msgs \X Nat
           g == Len(printed)
           m == posted[g + 1]
<1>1. /\ pc \in {"header", "body"} /\ ~Over /\ down # << >>
      /\ UNCHANGED <<conn, outbox, posted>>
  BY DEF Receive, Over, server
<1>2. PICK k \in 1 .. AtMost(Len(down), Wanted - Len(in)) :
        in' = in \o First(down, k) /\ down' = After(down, k)
  BY DEF Receive
<1>3. /\ in \in Seq(T) /\ down \in Seq(T) /\ outbox \in Seq(T)
      /\ Len(in) \in Nat /\ Len(down) \in Nat
  BY LenProperties DEF IInv, Shape, UnitsOf
<1>4. LenUnits \in Nat \ {0} /\ \A x \in Msgs : Size[x] \in Nat \ {0}
  BY UnitsAssumption
<1>5. DownUnits = in \o down
  BY <1>1 DEF DownUnits
<1>6. /\ g \in Nat /\ g < Len(posted) /\ m \in Msgs
      /\ \A j \in 1 .. Len(in \o down) :
           j <= DownWidth[m] => (in \o down)[j] = <<m, j>>
  <2>1. posted \in Seq(Msgs) /\ in \o down \in UnitsOf(Msgs)
        /\ Part(in \o down, posted, g, DownWidth)
    BY <1>5, DownPart DEF IInv, Shape
  <2>2. in \o down # << >>
    BY <1>1, <1>3, ConcatEqualIffEmpty
  <2> DEFINE w == in \o down
  <2>3. w \in UnitsOf(Msgs) /\ w # << >> /\ Part(w, posted, g, DownWidth)
    BY <2>1, <2>2
  <2> HIDE DEF g, w
  <2>4. /\ g \in Nat /\ g < Len(posted) /\ posted[g + 1] \in Msgs
        /\ \A j \in 1 .. Len(w) : j <= DownWidth[posted[g + 1]] => w[j] = <<posted[g + 1], j>>
    BY <2>1, <2>3, WidthsAre, PartBegins
  <2> QED
    BY <2>4 DEF w
<1>7. DownWidth[m] = LenUnits + Size[m] /\ Size[m] \in Nat \ {0}
  BY <1>4, <1>6, WidthsAre
<1> HIDE DEF T, g, m
<1>8. \A j \in 1 .. Len(in) : j <= DownWidth[m] => in[j] = <<m, j>>
  BY <1>3, <1>6, ConcatProperties
<1>9. pc = "body" => Wanted = DownWidth[m] /\ in[1] = <<m, 1>> /\ Len(in) >= LenUnits
  <2> SUFFICES ASSUME pc = "body"
               PROVE  Wanted = DownWidth[m] /\ in[1] = <<m, 1>> /\ Len(in) >= LenUnits
    OBVIOUS
  <2>1. Len(in) >= LenUnits
    BY DEF IInv, TypeOK
  <2>2. 1 \in 1 .. Len(in) /\ 1 <= DownWidth[m]
    BY <1>3, <1>4, <1>7, <2>1
  <2>3. in[1] = <<m, 1>>
    BY <1>8, <2>2
  <2> QED
    BY <1>7, <2>1, <2>3 DEF Wanted, Length
<1>10. Wanted \in Nat /\ Wanted <= DownWidth[m] /\ (pc = "header" => Wanted = LenUnits)
  BY <1>1, <1>4, <1>7, <1>9 DEF Wanted
<1>11. k \in 0 .. Len(down) /\ Len(in) + k <= Wanted /\ k >= 1 /\ k \in Nat
  BY <1>3, <1>10 DEF AtMost
<1>12. /\ in' \in Seq(T) /\ Len(in') = Len(in) + k
       /\ down' \in Seq(T) /\ Len(down') = Len(down) - k
       /\ in' \o down' = in \o down
  <2>1. After(down, k) \in Seq(T) /\ Len(After(down, k)) = Len(down) - k
    BY <1>3, <1>11, Parts
  <2>2. /\ (in \o First(down, k)) \o After(down, k) = in \o down
        /\ in \o First(down, k) \in Seq(T) /\ Len(in \o First(down, k)) = Len(in) + k
    BY <1>3, <1>11, Moved
  <2> QED
    BY <1>2, <2>1, <2>2
<1>13. \A j \in 1 .. Len(in') : in'[j] = <<m, j>>
  <2> SUFFICES ASSUME NEW j \in 1 .. Len(in') PROVE in'[j] = <<m, j>>
    OBVIOUS
  <2>1. /\ Len(in' \o down') = Len(in') + Len(down')
        /\ \A i \in 1 .. Len(in') + Len(down') :
             (in' \o down')[i] = IF i <= Len(in') THEN in'[i] ELSE down'[i - Len(in')]
    BY <1>12, ConcatProperties
  <2>2. Len(down') \in Nat /\ Len(in') \in Nat /\ Len(in') <= Wanted
    BY <1>3, <1>11, <1>12
  <2>3. j \in 1 .. Len(in') + Len(down') /\ j <= Len(in')
    BY <2>2
  <2>4. in'[j] = (in' \o down')[j] /\ j \in 1 .. Len(in \o down)
    BY <1>12, <2>1, <2>3
  <2>5. DownWidth[m] \in Nat
    BY <1>4, <1>7
  <2>6. j <= DownWidth[m]
    BY <1>10, <2>2, <2>3, <2>5
  <2> QED
    BY <1>6, <1>12, <2>4, <2>6
<1>14. in' \in UnitsOf(Msgs) /\ down' \in UnitsOf(Msgs) /\ Len(down') <= Len(down)
  BY <1>3, <1>11, <1>12 DEF UnitsOf, T
<1>15. /\ in'[1] = <<m, 1>> /\ Len(in') \in Nat /\ Len(in') <= Wanted
       /\ (pc = "body" => Len(in') >= LenUnits)
  BY <1>3, <1>4, <1>9, <1>11, <1>12, <1>13
<1>16. ASSUME pc' \in {"header", "body"}, UNCHANGED printed
       PROVE  DownFlow'
  <2>1. DownUnits' = DownUnits
    BY <1>1, <1>5, <1>12, <1>16 DEF DownUnits, Over
  <2> QED
    BY <1>1, <1>16, <2>1 DEF IInv, DownFlow
<1>17. CASE ~Filled(in', Wanted) /\ UNCHANGED <<pc, printed>>
  <2>1. Len(in') # Wanted
    BY <1>17 DEF Filled
  <2>2. pc = "header" => Len(in') < LenUnits
    BY <1>4, <1>10, <1>15, <2>1
  <2>3. pc = "body" => Wanted' = Wanted
    BY <1>7, <1>9, <1>15, <1>17 DEF Wanted, Length
  <2>4. pc = "body" => Len(in') \in LenUnits .. Wanted - 1
    BY <1>4, <1>10, <1>15, <2>1
  <2> QED
    BY <1>1, <1>6, <1>14, <1>16, <1>17, <2>2, <2>3, <2>4 DEF m, g
<1>18. CASE pc = "header" /\ Filled(in', Wanted) /\ pc' = "body" /\ UNCHANGED printed
  <2>1. Len(in') = LenUnits
    BY <1>10, <1>18 DEF Filled
  <2>2. Wanted' = LenUnits + Size[m]
    BY <1>15, <1>18 DEF Wanted, Length
  <2>3. Len(in') \in LenUnits .. Wanted' - 1
    BY <1>4, <1>7, <2>1, <2>2
  <2> QED
    BY <1>6, <1>14, <1>16, <1>18, <2>3 DEF m, g
<1>19. CASE /\ pc = "body" /\ Filled(in', Wanted) /\ pc' = "scan"
            /\ printed' = Append(printed, Framed(in', Wanted))
  <2>1. Len(in') = DownWidth[m] /\ Wanted = DownWidth[m] /\ DownWidth[m] \in Nat \ {0}
    BY <1>4, <1>7, <1>9, <1>19 DEF Filled
  <2>2. Framed(in', Wanted) = m
    BY <1>6, <1>13, <1>14, <2>1, FramedIs
  <2>3. printed' = Append(printed, m) /\ Len(printed') = g + 1
    <3>1. printed \in Seq(Msgs)
      BY DEF IInv, Shape
    <3> QED
      BY <1>6, <1>19, <2>2, <3>1, AppendProperties DEF g
  <2>4. DownUnits' = << >> \o down' /\ << >> \o down' = down'
    BY <1>12, <1>19, ConcatEmptySeq DEF DownUnits, Over
  <2>5. posted \in Seq(Msgs)
    BY DEF IInv, Shape
  <2>6. ASSUME conn = "open"
        PROVE  Whole(down' \o outbox, posted, g + 1, DownWidth)
    <3>1. Whole((in' \o down') \o outbox, posted, g, DownWidth)
      BY <1>5, <1>12, <2>6 DEF IInv, DownFlow, g
    <3>2. (in' \o down') \o outbox = in' \o (down' \o outbox)
      <4> DEFINE a == in'
                 b == down'
      <4>1. a \in Seq(T) /\ b \in Seq(T) /\ outbox \in Seq(T)
        BY <1>3, <1>12
      <4> HIDE DEF a, b
      <4>2. (a \o b) \o outbox = a \o (b \o outbox)
        BY <4>1, ConcatAssociative
      <4> QED
        BY <4>2 DEF a, b
    <3>3. down' \o outbox \in UnitsOf(Msgs)
      BY <1>3, <1>12, ConcatProperties DEF UnitsOf, T
    <3>4. Len(in') = DownWidth[posted[g + 1]] /\ g < Len(posted)
      BY <1>6, <2>1 DEF m
    <3>5. Whole(in' \o (down' \o outbox), posted, g, DownWidth)
      BY <3>1, <3>2
    <3> QED
      BY <1>14, <2>5, <3>3, <3>4, <3>5, WidthsAre, WholeReceives
  <2>7. ASSUME conn # "open"
        PROVE  Part(down', posted, g + 1, DownWidth)
    <3>1. Part(in' \o down', posted, g, DownWidth)
      BY <1>5, <1>12, <2>7 DEF IInv, DownFlow, g
    <3>2. Len(in') = DownWidth[posted[g + 1]] /\ g < Len(posted)
      BY <1>6, <2>1 DEF m
    <3> QED
      BY <1>14, <2>5, <3>1, <3>2, WidthsAre, PartReceives
  <2>8. DownFlow'
    BY <1>1, <2>3, <2>4, <2>6, <2>7 DEF DownFlow
  <2> QED
    BY <1>6, <1>14, <1>19, <2>3, <2>8 DEF m, g
<1> QED
  BY <1>17, <1>18, <1>19 DEF Receive

\* A recv takes units; the last of a message prints it.
LEMMA ReceiveKeeps ==
  ASSUME IInv, Receive
  PROVE  IInv'
<1>1. /\ pc \in {"header", "body"} /\ pc' \in {"header", "body", "scan"} /\ ~Over
      /\ UNCHANGED <<marks, typed, buffered, out, junk, srv, outbox, inbox, conn, up,
                     asked, heard, posted>>
  BY DEF Receive, server, Over
<1>2. UpFlow'
  BY <1>1 DEF IInv, UpFlow, UpUnits
<1>3. printed' \in Seq(Msgs)
  <2>1. printed \in Seq(Msgs) /\ posted[Len(printed) + 1] \in Msgs
    BY ReceiveGets DEF IInv, Shape
  <2>2. Append(printed, posted[Len(printed) + 1]) \in Seq(Msgs)
    BY <2>1, AppendProperties
  <2> QED
    BY <2>1, <2>2, ReceiveGets
<1>4. Shape'
  BY <1>1, <1>3, ReceiveGets DEF IInv, Shape
<1>5. Len(down') <= DownCap
  <2>1. Len(down') \in Nat /\ Len(down) \in Nat /\ DownCap \in Nat
    BY ReceiveGets, LenProperties, UnitsAssumption DEF IInv, Shape, UnitsOf
  <2> QED
    BY <2>1, ReceiveGets DEF IInv, TypeOK
<1>6. TypeOK'
  BY <1>1, <1>5, ReceiveGets DEF IInv, TypeOK
<1>7. Control'
  BY <1>1, ReceiveGets DEF IInv, Control, Over
<1>8. JunkOnlyOnce'
  BY <1>1 DEF IInv, JunkOnlyOnce
<1> QED
  BY <1>2, <1>4, <1>6, <1>7, <1>8, ReceiveGets DEF IInv

\* An end or an error of recv: at most one message that was not received.
LEMMA ReceiveEndKeeps ==
  ASSUME IInv, ReceiveEnd
  PROVE  IInv'
<1>1. /\ pc \in {"header", "body"} /\ down = << >> /\ conn # "open" /\ conn' # "open"
      /\ pc' \in {"ended", "scan"}
      /\ conn' = IF conn = "rst" THEN "dead" ELSE conn
      /\ UNCHANGED <<marks, typed, buffered, out, in, srv, outbox, inbox, up, down,
                     asked, heard, posted, printed>>
  BY DEF ReceiveEnd, server, history
<1>2. UpFlow'
  BY <1>1 DEF IInv, UpFlow, UpUnits
<1>3. DownFlow'
  <2>1. << >> \o << >> = << >>
    BY EmptySeq, ConcatEmptySeq
  <2>2. DownUnits' = << >>
    BY <1>1, <2>1 DEF DownUnits, Over
  <2>3. Part(<< >>, posted, Len(printed), DownWidth)
    BY AllLost DEF IInv
  <2> QED
    BY <1>1, <2>2, <2>3 DEF DownFlow
<1>4. junk' = junk \/ (conn = "rst" /\ junk' = AtMost(junk + 1, MaxJunk))
  BY DEF ReceiveEnd, Finished
<1>5. JunkOnlyOnce' /\ junk' \in 0 .. MaxJunk
  <2>1. junk \in 0 .. 2 /\ (conn = "rst" => junk = 0)
    BY DEF IInv, TypeOK, JunkOnlyOnce, MaxJunk
  <2>2. CASE junk' = junk
    BY <1>1, <2>1, <2>2 DEF IInv, JunkOnlyOnce, MaxJunk
  <2>3. CASE conn = "rst" /\ junk' = AtMost(junk + 1, MaxJunk)
    BY <1>1, <2>1, <2>3 DEF JunkOnlyOnce, AtMost, MaxJunk
  <2> QED
    BY <1>4, <2>2, <2>3
<1>6. Shape'
  BY <1>1 DEF IInv, Shape
<1>7. TypeOK'
  BY <1>1, <1>5 DEF IInv, TypeOK
<1>8. Control'
  BY <1>1 DEF IInv, Control, Over
<1> QED
  BY <1>2, <1>3, <1>5, <1>6, <1>7, <1>8 DEF IInv

-----------------------------------------------------------------------------
(* The server's steps *)

\* A message posted is the last item still to be pushed.
LEMMA PostKeeps ==
  ASSUME IInv, NEW m \in Msgs, Post(m)
  PROVE  IInv'
<1>1. /\ srv = "idle" /\ srv' = "send" /\ outbox = << >>
      /\ outbox' = Packet(m) /\ posted' = Append(posted, m)
      /\ UNCHANGED <<pc, marks, typed, buffered, out, in, junk, inbox, conn, up, down,
                     asked, heard, printed>>
  BY DEF Post, subscriber, IInv, Control
<1>2. DownUnits' = DownUnits /\ UpUnits' = UpUnits
  BY <1>1 DEF DownUnits, UpUnits, Over
<1>3. posted' \in Seq(Msgs) /\ Len(posted') = Len(posted) + 1
  BY <1>1, AppendProperties DEF IInv, Shape
<1>4. LenUnits + Size[m] \in Nat \ {0}
  BY UnitsAssumption
<1>5. /\ outbox' \in UnitsOf(Msgs) /\ Len(outbox') = DownWidth[m]
      /\ \A j \in 1 .. DownWidth[m] : outbox'[j] = <<m, j>>
  BY <1>1, <1>4, UnitsAre, WidthsAre DEF Packet
<1>6. outbox' # << >>
  BY <1>4, <1>5, WidthsAre, EmptySeq
<1>7. DownUnits \in UnitsOf(Msgs) /\ posted \in Seq(Msgs)
  BY DownPart DEF IInv, Shape
<1>8. ASSUME conn = "open" PROVE DownFlow'
  <2>1. DownUnits \o outbox = DownUnits
    BY <1>1, <1>7, ConcatEmptySeq DEF UnitsOf
  <2>2. Whole(DownUnits, posted, Len(printed), DownWidth)
    BY <1>8, <2>1 DEF IInv, DownFlow
  <2>3. Whole(DownUnits \o outbox', Append(posted, m), Len(printed), DownWidth)
    BY <1>5, <1>7, <2>2, WidthsAre, WholeSends
  <2> QED
    BY <1>1, <1>2, <1>8, <2>3 DEF DownFlow
<1>9. ASSUME conn # "open" PROVE DownFlow'
  <2>1. Part(DownUnits, Append(posted, m), Len(printed), DownWidth)
    BY <1>7, DownPart, WidthsAre, PartLater DEF IInv
  <2> QED
    BY <1>1, <1>2, <1>9, <2>1 DEF DownFlow
<1>10. UpFlow'
  BY <1>1, <1>2 DEF IInv, UpFlow
<1>11. Shape'
  BY <1>1, <1>3, <1>5 DEF IInv, Shape
<1>12. TypeOK'
  BY <1>1, <1>6 DEF IInv, TypeOK, Wanted, Length
<1>13. Len(printed) \in Nat /\ Len(posted) \in Nat
  BY LenProperties DEF IInv, Shape
<1>14. Control'
  BY <1>1, <1>3, <1>13 DEF IInv, Control, Over
<1>15. JunkOnlyOnce'
  BY <1>1 DEF IInv, JunkOnlyOnce
<1> QED
  BY <1>8, <1>9, <1>10, <1>11, <1>12, <1>14, <1>15 DEF IInv

\* The server's send moves units from one place to the next.
LEMMA PushKeeps ==
  ASSUME IInv, Push
  PROVE  IInv'
<1> DEFINE T == Msgs \X Nat
<1>1. /\ srv = "send" /\ conn = "open" /\ srv' = IF outbox' = << >> THEN "idle" ELSE srv
      /\ UNCHANGED <<pc, marks, typed, buffered, out, in, junk, inbox, conn, up,
                     asked, heard, posted, printed>>
  BY DEF Push, subscriber, history
<1>2. PICK k \in 1 .. AtMost(Len(outbox), DownCap - Len(down)) :
        down' = down \o First(outbox, k) /\ outbox' = After(outbox, k)
  BY DEF Push, Unsent
<1>3. /\ outbox \in Seq(T) /\ down \in Seq(T) /\ in \in Seq(T) /\ << >> \in Seq(T)
      /\ Len(outbox) \in Nat /\ Len(down) \in Nat /\ Len(down) <= DownCap /\ DownCap \in Nat
  BY UnitsAssumption, LenProperties, EmptySeq DEF IInv, TypeOK, Shape, UnitsOf
<1>4. k \in 0 .. Len(outbox) /\ Len(down) + k <= DownCap /\ k >= 1
  BY <1>3 DEF AtMost
<1> HIDE DEF T
<1>5. First(outbox, k) \in Seq(T) /\ Len(First(outbox, k)) = k /\ After(outbox, k) \in Seq(T)
  BY <1>3, <1>4, Parts
<1>6. down' \in Seq(T) /\ Len(down') = Len(down) + k /\ outbox' \in Seq(T)
  <2>1. down \o First(outbox, k) \in Seq(T)
        /\ Len(down \o First(outbox, k)) = Len(down) + k
    BY <1>3, <1>5, ConcatProperties
  <2> QED
    BY <1>2, <1>5, <2>1
<1>7. DownUnits' \o outbox' = DownUnits \o outbox
  <2> DEFINE here == IF pc \in {"header", "body"} THEN in ELSE << >>
             f == First(outbox, k)
  <2>1. ~Over
    BY <1>1 DEF IInv, Control
  <2>2. DownUnits = here \o down /\ DownUnits' = here \o (down \o f)
    BY <1>1, <1>2, <2>1 DEF DownUnits, Over
  <2>3. here \in Seq(T) /\ down \in Seq(T) /\ f \in Seq(T)
    BY <1>3, <1>5
  <2> HIDE DEF here, f
  <2>4. (here \o down) \o f = here \o (down \o f)
    BY <2>3, ConcatAssociative
  <2>5. here \o down \in Seq(T)
    BY <2>3, ConcatProperties
  <2>6. ((here \o down) \o f) \o After(outbox, k) = (here \o down) \o outbox
    BY <1>3, <1>4, <2>5, Moved DEF f
  <2> QED
    BY <1>2, <2>2, <2>4, <2>6
<1>8. DownFlow'
  BY <1>1, <1>7 DEF IInv, DownFlow
<1>9. UpFlow'
  BY <1>1 DEF IInv, UpFlow, UpUnits
<1>10. Shape'
  BY <1>1, <1>6 DEF IInv, Shape, UnitsOf, T
<1>11. down' # << >>
  BY <1>3, <1>4, <1>6, EmptySeq
<1>12. TypeOK'
  BY <1>1, <1>4, <1>6 DEF IInv, TypeOK, Wanted, Length
<1>13. Control'
  BY <1>1, <1>11 DEF IInv, Control, Over
<1>14. JunkOnlyOnce'
  BY <1>1 DEF IInv, JunkOnlyOnce
<1> QED
  BY <1>8, <1>9, <1>10, <1>12, <1>13, <1>14 DEF IInv

\* A send to an ended connection discards them.
LEMMA PushInVainKeeps ==
  ASSUME IInv, PushInVain
  PROVE  IInv'
<1>1. /\ srv = "send" /\ conn # "open" /\ srv' \in {"idle", "closed"} /\ outbox' = << >>
      /\ UNCHANGED <<pc, marks, typed, buffered, out, in, junk, inbox, conn, up, down,
                     asked, heard, posted, printed>>
  BY DEF PushInVain, subscriber, history
<1>2. UpFlow'
  <2>1. UpUnits' \in {UpUnits, << >>}
    BY <1>1 DEF UpUnits
  <2>2. Part(<< >>, asked, Len(heard), UpWidth) /\ Part(UpUnits, asked, Len(heard), UpWidth)
    BY AllLost, UpPart DEF IInv
  <2> QED
    BY <1>1, <2>1, <2>2 DEF UpFlow
<1>3. DownFlow'
  BY <1>1 DEF IInv, DownFlow, DownUnits, Over
<1>4. Shape'
  BY <1>1, EmptySeq DEF IInv, Shape, UnitsOf
<1>5. TypeOK'
  BY <1>1 DEF IInv, TypeOK, Wanted, Length
<1>6. Control'
  BY <1>1 DEF IInv, Control, Over
<1>7. JunkOnlyOnce'
  BY <1>1 DEF IInv, JunkOnlyOnce
<1> QED
  BY <1>2, <1>3, <1>4, <1>5, <1>6, <1>7 DEF IInv

\* The server's turn begins a recv_all of an ID or a request, or notices an end.
LEMMA TurnKeeps ==
  ASSUME IInv, Turn
  PROVE  IInv'
<1>1. /\ srv = "idle" /\ srv' = "request" /\ inbox' = << >> /\ (up # << >> \/ conn # "open")
      /\ UNCHANGED <<pc, marks, typed, buffered, out, in, junk, outbox, conn, up, down,
                     asked, heard, posted, printed>>
  BY DEF Turn, subscriber, history
<1>2. UpUnits' = UpUnits
  BY <1>1 DEF UpUnits
<1>3. UpFlow' /\ DownFlow'
  BY <1>1, <1>2 DEF IInv, UpFlow, DownFlow, DownUnits, Over
<1>4. Shape'
  BY <1>1, EmptySeq DEF IInv, Shape, UnitsOf
<1>5. TypeOK'
  BY <1>1, EmptySeq, UnitsAssumption DEF IInv, TypeOK, Wanted, Length
<1>6. conn = "open" => Len(heard) < Len(asked)
  <2> SUFFICES ASSUME conn = "open" PROVE Len(heard) < Len(asked)
    OBVIOUS
  <2>1. up # << >> /\ up \in Seq(Item \X Nat)
    BY <1>1 DEF IInv, Shape, UnitsOf
  <2>2. UpUnits = up
    BY <1>1, <2>1, ConcatEmptySeq DEF UpUnits
  <2>3. asked \in Seq(Item) /\ UpUnits \in UnitsOf(Item)
        /\ Part(UpUnits, asked, Len(heard), UpWidth)
    BY UpPart DEF IInv, Shape
  <2> QED
    BY <2>1, <2>2, <2>3, WidthsAre, PartBegins
<1>7. Control'
  BY <1>1, <1>6 DEF IInv, Control, Over
<1>8. JunkOnlyOnce'
  BY <1>1 DEF IInv, JunkOnlyOnce
<1> QED
  BY <1>3, <1>4, <1>5, <1>7, <1>8 DEF IInv

\* What the server receives belongs to the next ID or request, and what it
\* acts on is that one.
LEMMA TakeGets ==
  ASSUME IInv, Take
  PROVE  /\ UpFlow'
         /\ inbox' \in UnitsOf(Item) /\ up' \in UnitsOf(Item) /\ Len(up') <= Len(up)
         /\ Len(heard) < Len(asked) /\ asked[Len(heard) + 1] \in Item
         /\ \/ UNCHANGED <<srv, heard>> /\ Len(inbox') < ReqUnits
            \/ srv' = "idle" /\ heard' = Append(heard, asked[Len(heard) + 1])
<1> DEFINE T == Item \X Nat
           g == Len(heard)
           r == asked[g + 1]
<1>1. srv \in {"id", "request"} /\ up # << >> /\ UNCHANGED <<conn, out, asked>>
  BY DEF Take, subscriber
<1>2. PICK k \in 1 .. AtMost(Len(up), ReqUnits - Len(inbox)) :
        inbox' = inbox \o First(up, k) /\ up' = After(up, k)
  BY DEF Take
<1>3. /\ inbox \in Seq(T) /\ up \in Seq(T) /\ out \in Seq(T)
      /\ Len(inbox) \in Nat /\ Len(up) \in Nat /\ ReqUnits \in Nat \ {0}
  BY UnitsAssumption, LenProperties DEF IInv, Shape, UnitsOf
<1>4. UpUnits = inbox \o up
  BY <1>1 DEF UpUnits
<1>5. /\ g \in Nat /\ g < Len(asked) /\ r \in Item
      /\ \A j \in 1 .. Len(inbox \o up) :
           j <= UpWidth[r] => (inbox \o up)[j] = <<r, j>>
  <2> DEFINE w == inbox \o up
  <2>1. asked \in Seq(Item) /\ w \in UnitsOf(Item) /\ Part(w, asked, g, UpWidth)
    BY <1>4, UpPart DEF IInv, Shape
  <2>2. w # << >>
    BY <1>1, <1>3, ConcatEqualIffEmpty
  <2> HIDE DEF g, w
  <2>3. /\ g \in Nat /\ g < Len(asked) /\ asked[g + 1] \in Item
        /\ \A j \in 1 .. Len(w) : j <= UpWidth[asked[g + 1]] => w[j] = <<asked[g + 1], j>>
    BY <2>1, <2>2, WidthsAre, PartBegins
  <2> QED
    BY <2>3 DEF w
<1> HIDE DEF T, g, r
<1>6. UpWidth[r] = ReqUnits
  BY <1>5, WidthsAre
<1>7. k \in 0 .. Len(up) /\ Len(inbox) + k <= ReqUnits /\ k >= 1
  BY <1>3 DEF AtMost
<1>8. /\ inbox' \in Seq(T) /\ Len(inbox') = Len(inbox) + k
      /\ up' \in Seq(T) /\ Len(up') = Len(up) - k
      /\ inbox' \o up' = inbox \o up
  <2>1. After(up, k) \in Seq(T) /\ Len(After(up, k)) = Len(up) - k
    BY <1>3, <1>7, Parts
  <2>2. /\ (inbox \o First(up, k)) \o After(up, k) = inbox \o up
        /\ inbox \o First(up, k) \in Seq(T) /\ Len(inbox \o First(up, k)) = Len(inbox) + k
    <3>1. inbox \in Seq(T) /\ up \in Seq(T) /\ k \in 0 .. Len(up)
      BY <1>3, <1>7
    <3> QED
      BY <3>1, Moved
  <2> QED
    BY <1>2, <2>1, <2>2
<1>9. \A j \in 1 .. Len(inbox') : inbox'[j] = <<r, j>>
  <2> SUFFICES ASSUME NEW j \in 1 .. Len(inbox') PROVE inbox'[j] = <<r, j>>
    OBVIOUS
  <2>1. /\ Len(inbox' \o up') = Len(inbox') + Len(up')
        /\ \A i \in 1 .. Len(inbox') + Len(up') :
             (inbox' \o up')[i] = IF i <= Len(inbox') THEN inbox'[i] ELSE up'[i - Len(inbox')]
    BY <1>8, ConcatProperties
  <2>2. Len(up') \in Nat /\ Len(inbox') \in Nat /\ Len(inbox') <= ReqUnits
    BY <1>3, <1>7, <1>8
  <2>3. j \in 1 .. Len(inbox') + Len(up') /\ j <= Len(inbox')
    BY <2>2
  <2>4. inbox'[j] = (inbox' \o up')[j] /\ j \in 1 .. Len(inbox \o up)
    BY <1>8, <2>1, <2>3
  <2>5. j <= UpWidth[r]
    BY <1>3, <1>6, <2>2, <2>3
  <2> QED
    BY <1>5, <1>8, <2>4, <2>5
<1>10. inbox' \in UnitsOf(Item) /\ up' \in UnitsOf(Item) /\ Len(up') <= Len(up)
  BY <1>3, <1>7, <1>8 DEF UnitsOf, T
<1>11. CASE ~Filled(inbox', ReqUnits) /\ UNCHANGED <<srv, heard>>
  <2>1. UpUnits' = UpUnits
    BY <1>1, <1>4, <1>8, <1>11 DEF UpUnits
  <2>2. UpFlow'
    BY <1>1, <1>11, <2>1 DEF IInv, UpFlow
  <2>3. Len(inbox') < ReqUnits
    BY <1>3, <1>7, <1>8, <1>11 DEF Filled
  <2> QED
    BY <1>5, <1>10, <1>11, <2>2, <2>3 DEF r, g
<1>12. CASE /\ Filled(inbox', ReqUnits) /\ srv' = "idle"
            /\ heard' = Append(heard, Framed(inbox', ReqUnits))
  <2>1. Len(inbox') = UpWidth[r] /\ UpWidth[r] \in Nat \ {0}
    BY <1>3, <1>6, <1>12 DEF Filled
  <2>2. Framed(inbox', ReqUnits) = r
    BY <1>5, <1>6, <1>9, <1>10, <2>1, FramedIs
  <2>3. heard' = Append(heard, r) /\ Len(heard') = g + 1
    <3>1. heard \in Seq(Item)
      BY DEF IInv, Shape
    <3> QED
      BY <1>5, <1>12, <2>2, <3>1, AppendProperties DEF g
  <2>4. UpUnits' = << >> \o up' /\ << >> \o up' = up'
    BY <1>8, <1>12, ConcatEmptySeq DEF UpUnits
  <2>5. asked \in Seq(Item)
    BY DEF IInv, Shape
  <2>6. Len(inbox') = UpWidth[asked[g + 1]] /\ g < Len(asked)
    BY <1>5, <2>1 DEF r
  <2>7. ASSUME conn = "open"
        PROVE  Whole(up' \o out, asked, g + 1, UpWidth)
    <3> DEFINE a == inbox'
               b == up'
    <3>1. a \in Seq(T) /\ b \in Seq(T) /\ out \in Seq(T)
      BY <1>3, <1>8
    <3>2. Whole((a \o b) \o out, asked, g, UpWidth)
      BY <1>4, <1>8, <2>7 DEF IInv, UpFlow, g
    <3> HIDE DEF a, b
    <3>3. (a \o b) \o out = a \o (b \o out)
      BY <3>1, ConcatAssociative
    <3>4. b \o out \in UnitsOf(Item) /\ a \in UnitsOf(Item)
      <4>1. b \o out \in Seq(T)
        <5> HIDE DEF T
        <5> QED
          BY <3>1, ConcatProperties
      <4> QED
        BY <3>1, <4>1, Zenon DEF UnitsOf, T
    <3>5. Whole(a \o (b \o out), asked, g, UpWidth)
      BY <3>2, <3>3
    <3>6. Len(a) = UpWidth[asked[g + 1]]
      BY <2>6 DEF a
    <3>7. Whole(b \o out, asked, g + 1, UpWidth)
      BY <2>5, <2>6, <3>4, <3>5, <3>6, WidthsAre, WholeReceives
    <3> QED
      BY <3>7 DEF b
  <2>8. ASSUME conn # "open"
        PROVE  Part(up', asked, g + 1, UpWidth)
    <3>1. Part(inbox' \o up', asked, g, UpWidth)
      BY <1>4, <1>8, <2>8 DEF IInv, UpFlow, g
    <3> QED
      BY <1>10, <2>5, <2>6, <3>1, WidthsAre, PartReceives
  <2>9. UpFlow'
    BY <1>1, <2>3, <2>4, <2>7, <2>8 DEF UpFlow
  <2> QED
    BY <1>5, <1>10, <1>12, <2>3, <2>9 DEF r, g
<1> QED
  BY <1>11, <1>12 DEF Take

\* The server's recv takes units; the last of an item hears it.
LEMMA TakeKeeps ==
  ASSUME IInv, Take
  PROVE  IInv'
<1>1. /\ srv \in {"id", "request"} /\ srv' \in {srv, "idle"} /\ up # << >>
      /\ UNCHANGED <<pc, marks, typed, buffered, out, in, junk, outbox, conn, down,
                     asked, posted, printed>>
  BY DEF Take, subscriber
<1>2. heard' \in Seq(Item)
  <2>1. heard \in Seq(Item) /\ asked[Len(heard) + 1] \in Item
    BY TakeGets DEF IInv, Shape
  <2>2. Append(heard, asked[Len(heard) + 1]) \in Seq(Item)
    BY <2>1, AppendProperties
  <2> QED
    BY <2>1, <2>2, TakeGets
<1>3. DownFlow'
  BY <1>1 DEF IInv, DownFlow, DownUnits, Over
<1>4. Shape'
  BY <1>1, <1>2, TakeGets DEF IInv, Shape
<1>5. Len(up') <= UpCap
  <2>1. Len(up') \in Nat /\ Len(up) \in Nat /\ UpCap \in Nat
    BY TakeGets, LenProperties, UnitsAssumption DEF IInv, Shape, UnitsOf
  <2> QED
    BY <2>1, TakeGets DEF IInv, TypeOK
<1>6. TypeOK'
  BY <1>1, <1>5, TakeGets DEF IInv, TypeOK, Wanted, Length
<1>7. Control'
  BY <1>1, TakeGets DEF IInv, Control, Over
<1>8. JunkOnlyOnce'
  BY <1>1 DEF IInv, JunkOnlyOnce
<1> QED
  BY <1>3, <1>4, <1>6, <1>7, <1>8, TakeGets DEF IInv

\* The end of a connection the server waits to receive from.
LEMMA TakeEndKeeps ==
  ASSUME IInv, TakeEnd
  PROVE  IInv'
<1>1. /\ up = << >> /\ conn # "open"
      /\ \/ srv = "id" /\ srv' = "idle" /\ conn' = "left"
         \/ srv = "request" /\ srv' = "closed" /\ conn' = conn
      /\ UNCHANGED <<pc, marks, typed, buffered, out, in, junk, outbox, inbox, up, down,
                     asked, heard, posted, printed>>
  BY DEF TakeEnd, Disconnected, subscriber, history
<1>2. UpFlow'
  <2>1. << >> \o << >> = << >>
    BY EmptySeq, ConcatEmptySeq
  <2>2. UpUnits' = << >>
    BY <1>1, <2>1 DEF UpUnits
  <2>3. Part(<< >>, asked, Len(heard), UpWidth)
    BY AllLost DEF IInv
  <2> QED
    BY <1>1, <2>2, <2>3 DEF UpFlow
<1>3. DownFlow'
  BY <1>1 DEF IInv, DownFlow, DownUnits, Over
<1>4. Shape'
  BY <1>1 DEF IInv, Shape
<1>5. TypeOK'
  BY <1>1 DEF IInv, TypeOK, Wanted, Length
<1>6. Control'
  BY <1>1 DEF IInv, Control, Over
<1>7. JunkOnlyOnce'
  BY <1>1 DEF IInv, JunkOnlyOnce, Control
<1> QED
  BY <1>2, <1>3, <1>4, <1>5, <1>6, <1>7 DEF IInv

-----------------------------------------------------------------------------
(* The steps from outside *)

\* The server closes: what is under way to it is lost, and perhaps the rest.
LEMMA CloseKeeps ==
  ASSUME IInv, Close
  PROVE  IInv'
<1>1. /\ conn = "open" /\ conn' \in {"fin", "gone", "rst"} /\ srv' = "closed"
      /\ outbox' = << >> /\ up' = << >> /\ (down' = down \/ down' \in Cut(down))
      /\ UNCHANGED <<pc, marks, typed, buffered, out, in, junk, inbox,
                     asked, heard, posted, printed>>
  BY DEF Close, subscriber, history
<1>2. ~Over
  BY <1>1 DEF IInv, Control
<1> DEFINE here == IF pc \in {"header", "body"} THEN in ELSE << >>
<1>3. /\ down \in Seq(Msgs \X Nat) /\ here \in Seq(Msgs \X Nat)
      /\ Len(down) \in Nat /\ Len(down) <= DownCap /\ DownCap \in Nat
  BY UnitsAssumption, LenProperties, EmptySeq DEF IInv, TypeOK, Shape, UnitsOf
<1>4. DownUnits = here \o down /\ DownUnits' = here \o down'
  BY <1>1, <1>2 DEF DownUnits, Over
<1> HIDE DEF here
<1>5. /\ down' \in Seq(Msgs \X Nat) /\ Len(down') <= Len(down) /\ Len(down') \in Nat
      /\ here \o down' \in Seq(Msgs \X Nat) /\ Begins(here \o down', here \o down)
  <2>1. CASE down' = down
    <3>1. here \o down \in Seq(Msgs \X Nat) /\ Len(here \o down) \in Nat
      BY <1>3, ConcatProperties, LenProperties
    <3> QED
      BY <1>3, <2>1, <3>1 DEF Begins
  <2>2. CASE down' \in Cut(down)
    <3>1. /\ down' \in Seq(Msgs \X Nat) /\ Len(down') <= Len(down)
          /\ here \o down' \in Seq(Msgs \X Nat) /\ Begins(here \o down', here \o down)
      BY <1>3, <2>2, CutIs
    <3> QED
      BY <3>1, LenProperties
  <2> QED
    BY <1>1, <2>1, <2>2
<1>6. DownFlow'
  <2>1. Part(here \o down', posted, Len(printed), DownWidth)
    BY <1>4, <1>5, DownLoses DEF IInv, UnitsOf
  <2> QED
    BY <1>1, <1>4, <2>1 DEF DownFlow
<1>7. UpFlow'
  BY <1>1, AllLost DEF IInv, UpFlow, UpUnits
<1>8. Shape'
  BY <1>1, <1>5, EmptySeq DEF IInv, Shape, UnitsOf
<1>9. TypeOK'
  <2>1. Len(up') <= UpCap /\ Len(down') <= DownCap
    BY <1>1, <1>3, <1>5, EmptySeq, UnitsAssumption
  <2> QED
    BY <1>1, <2>1 DEF IInv, TypeOK, Wanted, Length
<1>10. Control'
  BY <1>1 DEF IInv, Control, Over
<1>11. JunkOnlyOnce'
  BY <1>1 DEF IInv, JunkOnlyOnce
<1> QED
  BY <1>6, <1>7, <1>8, <1>9, <1>10, <1>11 DEF IInv

\* The subscriber is killed, wherever it is.
LEMMA KillKeeps ==
  ASSUME IInv, Kill
  PROVE  IInv'
<1>1. /\ ~Over /\ Leave("killed")
      /\ UNCHANGED <<marks, typed, buffered, out, in, junk, srv, outbox, inbox, down,
                     asked, heard, posted, printed>>
  BY DEF Kill, server, history
<1>2. /\ Over' /\ UpFlow' /\ DownFlow'
      /\ up' \in UnitsOf(Item) /\ Len(up') <= Len(up)
      /\ conn' # "open" /\ (conn' \in {"left", "broken"} \/ conn' = conn)
  BY <1>1, Leaves
<1>3. Shape'
  BY <1>1, <1>2 DEF IInv, Shape
<1>4. Len(up) \in Nat /\ Len(up') \in Nat /\ pc' = "killed"
  BY <1>1, <1>2, LenProperties DEF IInv, Shape, UnitsOf, Leave
<1>5. TypeOK'
  BY <1>1, <1>2, <1>4, UnitsAssumption DEF IInv, TypeOK
<1>6. Control'
  BY <1>1, <1>2, <1>4 DEF IInv, Control
<1>7. JunkOnlyOnce'
  BY <1>1 DEF IInv, JunkOnlyOnce, Leave
<1> QED
  BY <1>2, <1>3, <1>5, <1>6, <1>7 DEF IInv

\* A line is typed.
LEMMA TypeKeeps ==
  ASSUME IInv, NEW line \in Line, Type(line)
  PROVE  IInv'
<1>1. /\ typed' = Append(typed, line)
      /\ UNCHANGED <<pc, marks, buffered, out, in, junk, srv, outbox, inbox, conn, up, down,
                     asked, heard, posted, printed>>
  BY DEF Type, server, history
<1>2. typed' \in Seq(Line) /\ typed' # << >>
  BY <1>1, AppendProperties DEF IInv, Shape
<1>3. UpFlow' /\ DownFlow'
  BY <1>1 DEF IInv, UpFlow, DownFlow, UpUnits, DownUnits, Over
<1>4. Shape'
  BY <1>1, <1>2 DEF IInv, Shape
<1>5. TypeOK'
  BY <1>1 DEF IInv, TypeOK, Wanted, Length
<1>6. Control'
  BY <1>1, <1>2 DEF IInv, Control, Over
<1>7. JunkOnlyOnce'
  BY <1>1 DEF IInv, JunkOnlyOnce
<1> QED
  BY <1>3, <1>4, <1>5, <1>6, <1>7 DEF IInv

-----------------------------------------------------------------------------
(* The theorems *)

\* Nothing is under way at first.
LEMMA InitIInv == Init => IInv
<1> SUFFICES ASSUME Init PROVE IInv
  OBVIOUS
<1> USE DEF Init
<1>1. Shape
  BY EmptySeq DEF Shape, UnitsOf
<1>2. << >> \o << >> = << >> /\ Len(<< >>) = 0
  BY EmptySeq, ConcatEmptySeq
<1>3. UpFlow
  BY <1>2, NothingSent DEF UpFlow, UpUnits
<1>4. DownFlow
  BY <1>2, NothingSent DEF DownFlow, DownUnits, Over
<1>5. TypeOK
  BY <1>2, UnitsAssumption DEF TypeOK, MaxJunk
<1>6. Control
  BY DEF Control, Over
<1> QED
  BY <1>1, <1>3, <1>4, <1>5, <1>6 DEF IInv, JunkOnlyOnce

\* Every step keeps the invariant.
LEMMA StepKeepsIInv == IInv /\ [Next]_vars => IInv'
<1> SUFFICES ASSUME IInv, [Next]_vars PROVE IInv'
  OBVIOUS
<1>1. CASE SubscriberStep
  BY <1>1, HelloKeeps, PollKeeps, ConsoleKeeps, SendAllKeeps, SocketKeeps, ReceiveKeeps,
     ReceiveEndKeeps DEF SubscriberStep
<1>2. CASE ServerStep
  BY <1>2, PushKeeps, PushInVainKeeps, TurnKeeps, TakeKeeps, TakeEndKeeps DEF ServerStep
<1>3. CASE Outside
  BY <1>3, PostKeeps, CloseKeeps, KillKeeps, TypeKeeps DEF Outside, Line
<1>4. CASE UNCHANGED vars
  BY <1>4 DEF vars, subscriber, server, history, IInv, TypeOK, Wanted, Length, Shape, Control,
              Over, UpFlow, DownFlow, UpUnits, DownUnits, JunkOnlyOnce
<1> QED
  BY <1>1, <1>2, <1>3, <1>4 DEF Next

\* So it always holds.
LEMMA Invariance == Spec => []IInv
BY InitIInv, StepKeepsIInv, PTL DEF Spec, Safe

\* Whoever waits for the rest of an item waits for a peer that has it.
LEMMA WaitersAreServed == IInv => NoOneWaitsInVain
<1> SUFFICES ASSUME IInv, conn = "open" PROVE
       /\ pc \in {"header", "body"} /\ down = << >> => srv = "send"
       /\ srv \in {"id", "request"} /\ up = << >> => pc \in {"start", "hello", "request"}
  BY DEF NoOneWaitsInVain
<1>1. ~Over /\ srv # "closed"
  BY DEF IInv, Control
<1>2. ASSUME pc \in {"header", "body"}, down = << >>, srv # "send"
      PROVE  FALSE
  <2> DEFINE g == Len(printed)
             m == posted[g + 1]
  <2>1. in \in Seq(Msgs \X Nat) /\ in \in UnitsOf(Msgs) /\ Len(in) \in Nat
    BY LenProperties DEF IInv, Shape, UnitsOf
  <2>2. DownUnits = in
    BY <1>1, <1>2, <2>1, ConcatEmptySeq DEF DownUnits
  <2>3. outbox = << >> /\ g < Len(posted)
    BY <1>2 DEF IInv, Control
  <2>4. in \o << >> = in
    BY <2>1, ConcatEmptySeq
  <2>5. Whole(in, posted, g, DownWidth) /\ posted \in Seq(Msgs)
    BY <2>2, <2>3, <2>4 DEF IInv, DownFlow, Shape
  <2> HIDE DEF g
  <2>6. m \in Msgs /\ Len(in) >= DownWidth[m]
    BY <2>1, <2>3, <2>5, WidthsAre, WholeWaits
  <2>7. LenUnits \in Nat \ {0} /\ Size[m] \in Nat \ {0} /\ DownWidth[m] = LenUnits + Size[m]
    BY <2>6, WidthsAre, UnitsAssumption
  <2> HIDE DEF m
  <2>8. pc = "body"
    BY <1>2, <2>1, <2>6, <2>7 DEF IInv, TypeOK
  <2>9. in # << >> /\ 1 \in 1 .. Len(in) /\ 1 <= DownWidth[m]
    BY <2>1, <2>6, <2>7, EmptySeq
  <2>10. Part(in, posted, g, DownWidth)
    BY <2>5, WholeIsPart
  <2>11. \A j \in 1 .. Len(in) : j <= DownWidth[m] => in[j] = <<m, j>>
    BY <2>1, <2>5, <2>9, <2>10, WidthsAre, PartBegins DEF m
  <2>12. in[1][1] = m
    BY <2>9, <2>11
  <2> QED
    BY <2>1, <2>6, <2>7, <2>8, <2>12 DEF IInv, TypeOK, Wanted, Length
<1>3. ASSUME srv \in {"id", "request"}, up = << >>, pc \notin {"start", "hello", "request"}
      PROVE  FALSE
  <2>1. inbox \in Seq(Item \X Nat) /\ inbox \in UnitsOf(Item) /\ Len(inbox) \in Nat
    BY LenProperties DEF IInv, Shape, UnitsOf
  <2>2. UpUnits = inbox
    BY <1>3, <2>1, ConcatEmptySeq DEF UpUnits
  <2>3. out = << >> /\ asked # << >> /\ asked \in Seq(Item)
    BY <1>1, <1>3 DEF IInv, Control, Shape
  <2>4. Len(heard) < Len(asked)
    <3>1. CASE srv = "id"
      BY <2>3, <3>1, EmptySeq DEF IInv, Control
    <3>2. CASE srv = "request"
      BY <3>2 DEF IInv, Control
    <3> QED
      BY <1>3, <3>1, <3>2
  <2>5. inbox \o << >> = inbox
    BY <2>1, ConcatEmptySeq
  <2>6. Whole(inbox, asked, Len(heard), UpWidth)
    BY <2>2, <2>3, <2>5 DEF IInv, UpFlow
  <2>7. asked[Len(heard) + 1] \in Item /\ Len(inbox) >= UpWidth[asked[Len(heard) + 1]]
    BY <2>1, <2>3, <2>4, <2>6, WidthsAre, WholeWaits
  <2>8. Len(inbox) >= ReqUnits /\ Len(inbox) < ReqUnits /\ ReqUnits \in Nat
    BY <1>3, <2>7, WidthsAre, UnitsAssumption DEF IInv, TypeOK
  <2> QED
    BY <2>1, <2>8
<1> QED
  BY <1>2, <1>3

\* Whatever the connection does, both processes stay in the states that
\* subscriber.c and server.c have for it: buffers within their capacity, never
\* more units received than were asked of recv, something left to send
\* whenever send_all goes on.
THEOREM TypeCorrect == Spec => []TypeOK
<1>1. IInv => TypeOK
  BY DEF IInv
<1> QED
  BY <1>1, Invariance, PTL

\* Whatever the sizes of messages, requests and kernel buffers, and however
\* the bytes are cut up: recv_all never waits in the middle of an item while
\* the peer has nothing more of it to send.
THEOREM WaitsAreServed == Spec => []NoOneWaitsInVain
BY Invariance, WaitersAreServed, PTL

\* The subscriber prints a packet it did not receive at most once, after a
\* reset that nothing reported before.
THEOREM JunkAtMostOnce == Spec => []JunkOnlyOnce
<1>1. IInv => JunkOnlyOnce
  BY DEF IInv
<1> QED
  BY <1>1, Invariance, PTL

\* The server acts on exactly the ID and the requests that were sent, whole
\* and in order: every step of Session is one of the channel or leaves it
\* alone.
THEOREM RequestsRefine == Spec => RequestsArrive
<1>1. Init => UpLink!Init
  BY DEF Init, UpLink!Init
<1>2. IInv /\ [Next]_vars => [UpLink!Next]_<<asked, heard>>
  <2> SUFFICES ASSUME IInv, [Next]_vars PROVE UpLink!Next \/ UNCHANGED <<asked, heard>>
    OBVIOUS
  <2>1. CASE Hello
    BY <2>1 DEF Hello, UpLink!Next, UpLink!Send
  <2>2. CASE Console
    BY <2>2 DEF Console, UpLink!Next, UpLink!Send
  <2>3. CASE Take
    <3>1. /\ asked' = asked
          /\ Len(heard) < Len(asked)
          /\ heard' = heard \/ heard' = Append(heard, asked[Len(heard) + 1])
      BY <2>3, TakeGets DEF Take
    <3> QED
      BY <3>1 DEF UpLink!Next, UpLink!Receive
  <2>4. CASE Poll \/ SendAll \/ Socket \/ Receive \/ ReceiveEnd
    BY <2>4 DEF Poll, SendAll, Socket, Receive, ReceiveEnd, history
  <2>5. CASE Push \/ PushInVain \/ Turn \/ TakeEnd
    BY <2>5 DEF Push, PushInVain, Turn, TakeEnd, history
  <2>6. CASE Outside
    BY <2>6 DEF Outside, Post, Close, Kill, Type, history
  <2>7. CASE UNCHANGED vars
    BY <2>7 DEF vars, history
  <2> QED
    BY <2>1, <2>2, <2>3, <2>4, <2>5, <2>6, <2>7 DEF Next, SubscriberStep, ServerStep
<1> QED
  BY <1>1, <1>2, Invariance, PTL DEF Spec, Safe, RequestsArrive, UpLink!Spec

\* The subscriber prints exactly the messages that were sent to it, whole and
\* in order, but for what recv_packet shows after a reset (JunkOnlyOnce).
THEOREM MessagesRefine == Spec => MessagesArrive
<1>1. Init => DownLink!Init
  BY DEF Init, DownLink!Init
<1>2. IInv /\ [Next]_vars => [DownLink!Next]_<<posted, printed>>
  <2> SUFFICES ASSUME IInv, [Next]_vars PROVE DownLink!Next \/ UNCHANGED <<posted, printed>>
    OBVIOUS
  <2>1. CASE Receive
    <3>1. /\ posted' = posted
          /\ Len(printed) < Len(posted)
          /\ printed' = printed \/ printed' = Append(printed, posted[Len(printed) + 1])
      BY <2>1, ReceiveGets DEF Receive
    <3> QED
      BY <3>1 DEF DownLink!Next, DownLink!Receive
  <2>2. CASE Hello \/ Poll \/ Console \/ SendAll \/ Socket \/ ReceiveEnd
    BY <2>2 DEF Hello, Poll, Console, SendAll, Socket, ReceiveEnd, history
  <2>3. CASE ServerStep
    BY <2>3 DEF ServerStep, Push, PushInVain, Turn, Take, TakeEnd, history
  <2>4. CASE \E m \in Msgs : Post(m)
    BY <2>4 DEF Post, DownLink!Next, DownLink!Send
  <2>5. CASE Close \/ Kill \/ \E line \in Requests \cup {"exit", "invalid"} : Type(line)
    BY <2>5 DEF Close, Kill, Type, history
  <2>6. CASE UNCHANGED vars
    BY <2>6 DEF vars, history
  <2> QED
    BY <2>1, <2>2, <2>3, <2>4, <2>5, <2>6 DEF Next, SubscriberStep, Outside
<1> QED
  BY <1>1, <1>2, Invariance, PTL DEF Spec, Safe, MessagesArrive, DownLink!Spec
=============================================================================
