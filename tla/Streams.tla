------------------------------ MODULE Streams ------------------------------
(***************************************************************************)
(* Items sent as units over a stream that cuts them anywhere: what is      *)
(* under way, and how sending, receiving and losing units change it.  An   *)
(* item x is sent as the units <<x, 1>> .. <<x, width[x]>>.                *)
(*                                                                         *)
(* The units under way are described by the position at which each item    *)
(* starts in all that was ever sent, so that no step renumbers them.       *)
(***************************************************************************)
EXTENDS Integers, Sequences, SequenceTheorems, TLAPS

Widths(S) == [S -> Nat \ {0}]
UnitsOf(S) == Seq(S \X Nat)

\* p is how q begins.
Begins(p, q) == Len(p) <= Len(q) /\ \A i \in 1 .. Len(p) : p[i] = q[i]

\* items[k] starts behind the first s[k] units, and the last one ends at the
\* position s[Len(items) + 1].
Starts(s, items, width) ==
  /\ s \in [1 .. Len(items) + 1 -> Nat]
  /\ \A k \in 1 .. Len(items) : s[k + 1] = s[k] + width[items[k]]
  /\ \A k, l \in 1 .. Len(items) + 1 : k <= l => s[k] <= s[l]

\* units come next, when the first g items have been received.
Carries(units, s, items, g, width) ==
  /\ Len(units) <= s[Len(items) + 1] - s[g + 1]
  /\ \A k \in g + 1 .. Len(items) : \A j \in 1 .. width[items[k]] :
       s[k] - s[g + 1] + j <= Len(units) =>
         units[s[k] - s[g + 1] + j] = <<items[k], j>>

\* The units under way are the next ones: nothing is lost in the middle.
Part(units, items, g, width) ==
  /\ g \in 0 .. Len(items)
  /\ \E s : Starts(s, items, width) /\ Carries(units, s, items, g, width)

\* The units under way are all that was sent and not received.
Whole(units, items, g, width) ==
  /\ g \in 0 .. Len(items)
  /\ \E s : /\ Starts(s, items, width)
            /\ Carries(units, s, items, g, width)
            /\ Len(units) = s[Len(items) + 1] - s[g + 1]

-----------------------------------------------------------------------------

\* The positions are numbers, and in the order of the items.
LEMMA Positions ==
  ASSUME NEW S, NEW width \in Widths(S), NEW items \in Seq(S),
         NEW s, Starts(s, items, width)
  PROVE  /\ Len(items) \in Nat
         /\ \A k \in 1 .. Len(items) + 1 : s[k] \in Nat
         /\ \A k \in 1 .. Len(items) :
              items[k] \in S /\ width[items[k]] \in Nat \ {0} /\ s[k + 1] = s[k] + width[items[k]]
         /\ \A k, l \in 1 .. Len(items) + 1 : k <= l => s[k] <= s[l]
<1>1. Len(items) \in Nat /\ \A k \in 1 .. Len(items) : items[k] \in S
  BY LenProperties, ElementOfSeq
<1>2. \A k \in 1 .. Len(items) : width[items[k]] \in Nat \ {0}
  BY <1>1 DEF Widths
<1> QED
  BY <1>1, <1>2 DEF Starts

\* Nothing was sent yet.
LEMMA NothingSent ==
  ASSUME NEW width
  PROVE  Whole(<< >>, << >>, 0, width)
<1> DEFINE s == [k \in 1 .. 1 |-> 0]
<1>1. Len(<< >>) = 0
  BY EmptySeq
<1>2. Starts(s, << >>, width)
  BY <1>1 DEF Starts
<1>3. Carries(<< >>, s, << >>, 0, width) /\ Len(<< >>) = s[Len(<< >>) + 1] - s[0 + 1]
  BY <1>1 DEF Carries
<1> QED
  BY <1>1, <1>2, <1>3 DEF Whole

\* All of it is a part.
LEMMA WholeIsPart ==
  ASSUME NEW units, NEW items, NEW g, NEW width, Whole(units, items, g, width)
  PROVE  Part(units, items, g, width)
BY DEF Whole, Part

\* What is under way may be lost from any point on.
LEMMA PartLoses ==
  ASSUME NEW S, NEW width \in Widths(S), NEW items \in Seq(S), NEW g,
         NEW units \in UnitsOf(S), NEW left \in UnitsOf(S),
         Part(units, items, g, width), Begins(left, units)
  PROVE  Part(left, items, g, width)
<1>1. PICK s : Starts(s, items, width) /\ Carries(units, s, items, g, width)
  BY DEF Part
<1>2. Len(units) \in Nat /\ Len(left) \in Nat
  BY LenProperties DEF UnitsOf
<1>3. g \in 0 .. Len(items)
  BY DEF Part
<1>4. /\ s[Len(items) + 1] \in Nat /\ s[g + 1] \in Nat
      /\ \A k \in g + 1 .. Len(items) :
           /\ s[k] - s[g + 1] \in Nat
           /\ width[items[k]] \in Nat
  <2>1. Len(items) \in Nat /\ g + 1 \in 1 .. Len(items) + 1
    BY <1>3, LenProperties
  <2>2. ASSUME NEW k \in g + 1 .. Len(items)
        PROVE  s[k] - s[g + 1] \in Nat /\ width[items[k]] \in Nat
    <3>1. k \in 1 .. Len(items) /\ k \in 1 .. Len(items) + 1 /\ g + 1 <= k
      BY <2>1
    <3>2. s[g + 1] <= s[k] /\ s[k] \in Nat /\ s[g + 1] \in Nat
      BY <1>1, <2>1, <3>1, Positions
    <3> QED
      BY <1>1, <3>1, <3>2, Positions
  <2> QED
    BY <1>1, <2>1, <2>2, Positions
<1>5. Len(left) <= s[Len(items) + 1] - s[g + 1]
  BY <1>1, <1>2, <1>3, <1>4 DEF Carries, Begins
<1>6. ASSUME NEW k \in g + 1 .. Len(items), NEW j \in 1 .. width[items[k]],
             s[k] - s[g + 1] + j <= Len(left)
      PROVE  left[s[k] - s[g + 1] + j] = <<items[k], j>>
  <2>1. s[k] - s[g + 1] + j \in 1 .. Len(left) /\ s[k] - s[g + 1] + j <= Len(units)
    BY <1>2, <1>4, <1>6 DEF Begins
  <2>2. units[s[k] - s[g + 1] + j] = <<items[k], j>>
    BY <1>1, <2>1 DEF Carries
  <2> QED
    BY <2>1, <2>2 DEF Begins
<1> QED
  BY <1>1, <1>3, <1>5, <1>6 DEF Part, Carries

\* An item sent extends the positions.
LEMMA StartsExtend ==
  ASSUME NEW S, NEW width \in Widths(S), NEW items \in Seq(S), NEW x \in S,
         NEW s, Starts(s, items, width)
  PROVE  \E t : /\ Starts(t, Append(items, x), width)
                /\ \A k \in 1 .. Len(items) + 1 : t[k] = s[k]
                /\ t[Len(items) + 2] = s[Len(items) + 1] + width[x]
<1> DEFINE n == Len(items)
           t == [k \in 1 .. n + 2 |-> IF k = n + 2 THEN s[n + 1] + width[x] ELSE s[k]]
<1>1. /\ n \in Nat
      /\ Len(Append(items, x)) = n + 1
      /\ \A k \in 1 .. n : Append(items, x)[k] = items[k]
      /\ Append(items, x)[n + 1] = x
  BY LenProperties, AppendProperties
<1>2. width[x] \in Nat
  BY DEF Widths
<1> HIDE DEF n
<1>3. \A k \in 1 .. n + 1 : s[k] \in Nat /\ t[k] = s[k]
  BY <1>1 DEF Starts, n
<1>4. t[n + 2] = s[n + 1] + width[x]
  BY <1>1
<1>5. \A k \in 1 .. n + 1 : s[k] <= s[n + 1]
  BY <1>1 DEF Starts, n
<1>6. t \in [1 .. n + 2 -> Nat]
  <2>1. \A k \in 1 .. n + 2 : k \in 1 .. n + 1 \/ k = n + 2
    BY <1>1
  <2>2. t[n + 2] \in Nat
    <3>1. n + 1 \in 1 .. n + 1
      BY <1>1
    <3>2. s[n + 1] \in Nat
      BY <1>3, <3>1
    <3> HIDE DEF t
    <3> QED
      BY <1>2, <1>4, <3>2
  <2>3. \A k \in 1 .. n + 2 : t[k] \in Nat
    <3> HIDE DEF t
    <3> QED
      BY <1>3, <2>1, <2>2
  <2> QED
    BY <2>3
<1>7. \A k \in 1 .. n + 1 : t[k + 1] = t[k] + width[Append(items, x)[k]]
  <2> SUFFICES ASSUME NEW k \in 1 .. n + 1
               PROVE  t[k + 1] = t[k] + width[Append(items, x)[k]]
    OBVIOUS
  <2> HIDE DEF t
  <2>1. CASE k = n + 1
    BY <1>1, <1>3, <1>4, <2>1
  <2>2. CASE k \in 1 .. n
    <3>1. s[k + 1] = s[k] + width[items[k]]
      BY <2>2 DEF Starts, n
    <3>2. k + 1 \in 1 .. n + 1
      BY <1>1, <2>2
    <3> QED
      BY <1>1, <1>3, <2>2, <3>1, <3>2
  <2> QED
    BY <1>1, <2>1, <2>2
<1>8. ASSUME NEW k \in 1 .. n + 2, NEW l \in 1 .. n + 2, k <= l
      PROVE  t[k] <= t[l]
  <2> HIDE DEF t
  <2>1. CASE l = n + 2
    BY <1>1, <1>2, <1>3, <1>4, <1>5, <2>1
  <2>2. CASE l \in 1 .. n + 1
    <3>1. k \in 1 .. n + 1
      BY <1>1, <1>8, <2>2
    <3>2. s[k] <= s[l]
      BY <1>8, <2>2, <3>1 DEF Starts, n
    <3> QED
      BY <1>3, <2>2, <3>1, <3>2
  <2> QED
    BY <1>1, <2>1, <2>2
<1>9. Starts(t, Append(items, x), width)
  <2> HIDE DEF t
  <2>1. Len(Append(items, x)) = n + 1 /\ Len(Append(items, x)) + 1 = n + 2
    BY <1>1
  <2> QED
    BY <1>6, <1>7, <1>8, <2>1 DEF Starts
<1> HIDE DEF t
<1> QED
  BY <1>3, <1>4, <1>9 DEF n

\* Where the next item starts, and where those behind it do.
LEMMA NextStarts ==
  ASSUME NEW S, NEW width \in Widths(S), NEW items \in Seq(S),
         NEW s, Starts(s, items, width), NEW g \in 0 .. Len(items)
  PROVE  /\ Len(items) \in Nat
         /\ s[Len(items) + 1] \in Nat /\ s[g + 1] \in Nat
         /\ s[g + 1] <= s[Len(items) + 1]
         /\ \A k \in g + 1 .. Len(items) : s[k] - s[g + 1] \in Nat
         /\ g < Len(items) =>
              /\ items[g + 1] \in S /\ width[items[g + 1]] \in Nat \ {0}
              /\ s[g + 2] = s[g + 1] + width[items[g + 1]]
              /\ s[g + 2] <= s[Len(items) + 1]
<1>1. Len(items) \in Nat /\ g + 1 \in 1 .. Len(items) + 1 /\ Len(items) + 1 \in 1 .. Len(items) + 1
  BY LenProperties
<1>2. \A k \in g + 1 .. Len(items) : k \in 1 .. Len(items) + 1 /\ g + 1 <= k
  BY <1>1
<1>3. \A k \in g + 1 .. Len(items) : s[k] - s[g + 1] \in Nat
  <2> SUFFICES ASSUME NEW k \in g + 1 .. Len(items)
               PROVE  s[k] - s[g + 1] \in Nat
    OBVIOUS
  <2>1. s[g + 1] <= s[k] /\ s[k] \in Nat /\ s[g + 1] \in Nat
    BY <1>1, <1>2, Positions
  <2> QED
    BY <2>1
<1>4. s[Len(items) + 1] \in Nat /\ s[g + 1] \in Nat /\ s[g + 1] <= s[Len(items) + 1]
  BY <1>1, Positions
<1>5. ASSUME g < Len(items)
      PROVE  /\ items[g + 1] \in S /\ width[items[g + 1]] \in Nat \ {0}
             /\ s[g + 2] = s[g + 1] + width[items[g + 1]]
             /\ s[g + 2] <= s[Len(items) + 1]
  <2>1. g + 1 \in 1 .. Len(items) /\ (g + 1) + 1 = g + 2
        /\ g + 2 \in 1 .. Len(items) + 1 /\ g + 2 <= Len(items) + 1
    BY <1>1, <1>5
  <2> QED
    BY <1>1, <2>1, Positions
<1> QED
  BY <1>1, <1>3, <1>4, <1>5

\* An item sent behind all that is under way is under way, too.
LEMMA WholeSends ==
  ASSUME NEW S, NEW width \in Widths(S), NEW items \in Seq(S), NEW g,
         NEW units \in UnitsOf(S), NEW x \in S, NEW packet \in UnitsOf(S),
         Len(packet) = width[x], \A j \in 1 .. width[x] : packet[j] = <<x, j>>,
         Whole(units, items, g, width)
  PROVE  Whole(units \o packet, Append(items, x), g, width)
<1> DEFINE n == Len(items)
<1>1. PICK s : /\ Starts(s, items, width)
               /\ Carries(units, s, items, g, width)
               /\ Len(units) = s[n + 1] - s[g + 1]
  BY DEF Whole
<1>2. g \in 0 .. n
  BY DEF Whole
<1>3. PICK t : /\ Starts(t, Append(items, x), width)
               /\ \A k \in 1 .. n + 1 : t[k] = s[k]
               /\ t[n + 2] = s[n + 1] + width[x]
  BY <1>1, StartsExtend
<1>4. /\ n \in Nat /\ s[n + 1] \in Nat /\ s[g + 1] \in Nat
      /\ \A k \in g + 1 .. n : s[k] - s[g + 1] \in Nat
  BY <1>1, <1>2, NextStarts
<1>5. /\ Len(Append(items, x)) = n + 1
      /\ \A k \in 1 .. n : Append(items, x)[k] = items[k]
      /\ Append(items, x)[n + 1] = x
  BY AppendProperties
<1>6. /\ Len(units) \in Nat /\ Len(packet) \in Nat
      /\ Len(units \o packet) = Len(units) + Len(packet)
      /\ \A i \in 1 .. Len(units) + Len(packet) :
           (units \o packet)[i] = IF i <= Len(units) THEN units[i] ELSE packet[i - Len(units)]
  BY ConcatProperties, LenProperties DEF UnitsOf
<1> HIDE DEF n
<1>7. /\ \A k \in g + 1 .. n + 1 : t[k] = s[k]
      /\ t[g + 1] = s[g + 1]
  BY <1>2, <1>3, <1>4
<1>8. Len(units \o packet) = t[n + 2] - t[g + 1]
  BY <1>1, <1>3, <1>4, <1>6, <1>7
<1>9. ASSUME NEW k \in g + 1 .. n + 1, NEW j \in 1 .. width[Append(items, x)[k]],
             t[k] - t[g + 1] + j <= Len(units \o packet)
      PROVE  (units \o packet)[t[k] - t[g + 1] + j] = <<Append(items, x)[k], j>>
  <2>1. CASE k = n + 1
    <3>1. t[k] - t[g + 1] = Len(units) /\ j \in 1 .. Len(packet)
      BY <1>1, <1>2, <1>3, <1>4, <1>5, <1>7, <2>1
    <3>2. packet[j] = <<Append(items, x)[k], j>>
      BY <1>5, <2>1, <3>1
    <3>3. /\ Len(units) + j \in 1 .. Len(units) + Len(packet)
          /\ ~(Len(units) + j <= Len(units)) /\ (Len(units) + j) - Len(units) = j
      BY <1>6, <3>1
    <3>4. (units \o packet)[Len(units) + j] = packet[j]
      BY <1>6, <3>3
    <3> QED
      BY <3>1, <3>2, <3>4
  <2>2. CASE k \in g + 1 .. n
    <3>1. k \in 1 .. n /\ Append(items, x)[k] = items[k] /\ j \in 1 .. width[items[k]]
      BY <1>2, <1>4, <1>5, <2>2
    <3>2. t[k] - t[g + 1] = s[k] - s[g + 1] /\ s[k] - s[g + 1] \in Nat
      BY <1>4, <1>7, <2>2
    <3>3. /\ s[k + 1] = s[k] + width[items[k]] /\ s[k + 1] <= s[n + 1]
          /\ s[k + 1] \in Nat /\ s[k] \in Nat /\ width[items[k]] \in Nat
      <4>1. k + 1 \in 1 .. n + 1 /\ n + 1 \in 1 .. n + 1 /\ k + 1 <= n + 1 /\ k \in 1 .. n + 1
        BY <1>4, <3>1
      <4> QED
        BY <1>1, <3>1, <4>1, Positions DEF n
    <3> DEFINE i == s[k] - s[g + 1] + j
    <3>4. i \in 1 .. Len(units)
      <4>1. j \in Nat /\ 1 <= j /\ j <= width[items[k]]
        BY <3>1, <3>3
      <4>2. s[n + 1] \in Nat /\ s[g + 1] \in Nat
        BY <1>4
      <4>3. s[k] + j <= s[n + 1]
        BY <3>3, <4>1, <4>2
      <4>4. Len(units) = s[n + 1] - s[g + 1]
        BY <1>1
      <4>5. s[g + 1] <= s[k]
        BY <3>2, <3>3, <4>2
      <4>6. s[k] \in Nat
        BY <3>3
      <4>7. i \in Nat /\ 1 <= i /\ i <= Len(units)
        BY <4>1, <4>2, <4>3, <4>4, <4>5, <4>6
      <4> QED
        BY <1>6, <4>7
    <3>5. units[i] = <<items[k], j>>
      <4>1. s[k] - s[g + 1] + j <= Len(units)
        BY <1>6, <3>4
      <4> QED
        BY <1>1, <2>2, <3>1, <4>1 DEF Carries, n
    <3>6. i = t[k] - t[g + 1] + j
      BY <3>2
    <3> HIDE DEF i
    <3>7. (units \o packet)[i] = units[i]
      <4>1. i \in 1 .. Len(units) + Len(packet) /\ i <= Len(units)
        BY <1>6, <3>4
      <4> QED
        BY <1>6, <4>1
    <3> QED
      BY <3>1, <3>5, <3>6, <3>7
  <2>3. k = n + 1 \/ k \in g + 1 .. n
    BY <1>2, <1>4
  <2> QED
    BY <2>1, <2>2, <2>3
<1>10. Len(Append(items, x)) + 1 = n + 2 /\ g \in 0 .. Len(Append(items, x))
  BY <1>2, <1>4, <1>5
<1>11. Carries(units \o packet, t, Append(items, x), g, width)
  <2>1. Len(units \o packet) <= t[n + 2] - t[g + 1]
    BY <1>6, <1>8
  <2> QED
    BY <1>5, <1>9, <1>10, <2>1 DEF Carries
<1> QED
  BY <1>3, <1>8, <1>10, <1>11 DEF Whole

\* An item sent when the connection is over is not under way.
LEMMA PartLater ==
  ASSUME NEW S, NEW width \in Widths(S), NEW items \in Seq(S), NEW g,
         NEW units \in UnitsOf(S), NEW x \in S, Part(units, items, g, width)
  PROVE  Part(units, Append(items, x), g, width)
<1> DEFINE n == Len(items)
<1>1. PICK s : Starts(s, items, width) /\ Carries(units, s, items, g, width)
  BY DEF Part
<1>2. g \in 0 .. n
  BY DEF Part
<1>3. PICK t : /\ Starts(t, Append(items, x), width)
               /\ \A k \in 1 .. n + 1 : t[k] = s[k]
               /\ t[n + 2] = s[n + 1] + width[x]
  BY <1>1, StartsExtend
<1>4. /\ n \in Nat /\ s[n + 1] \in Nat /\ s[g + 1] \in Nat
  BY <1>1, <1>2, NextStarts
<1>5. /\ Len(Append(items, x)) = n + 1
      /\ \A k \in 1 .. n : Append(items, x)[k] = items[k]
      /\ Append(items, x)[n + 1] = x
  BY AppendProperties
<1>6. Len(units) \in Nat /\ width[x] \in Nat
  BY LenProperties DEF UnitsOf, Widths
<1> HIDE DEF n
<1>7. /\ \A k \in g + 1 .. n + 1 : t[k] = s[k]
      /\ t[g + 1] = s[g + 1]
  BY <1>2, <1>3, <1>4
<1>8. Len(units) <= s[n + 1] - s[g + 1]
  BY <1>1 DEF Carries, n
<1>9. ASSUME NEW k \in g + 1 .. n + 1, NEW j \in 1 .. width[Append(items, x)[k]],
             t[k] - t[g + 1] + j <= Len(units)
      PROVE  units[t[k] - t[g + 1] + j] = <<Append(items, x)[k], j>>
  <2>1. k # n + 1
    BY <1>2, <1>4, <1>5, <1>6, <1>7, <1>8, <1>9
  <2>2. k \in g + 1 .. n /\ k \in 1 .. n
    BY <1>2, <1>4, <2>1
  <2>3. t[k] = s[k] /\ Append(items, x)[k] = items[k]
    BY <1>4, <1>5, <1>7, <2>2
  <2> QED
    BY <1>1, <1>7, <1>9, <2>2, <2>3 DEF Carries, n
<1>10. Len(Append(items, x)) + 1 = n + 2 /\ g \in 0 .. Len(Append(items, x))
  BY <1>2, <1>4, <1>5
<1>11. Carries(units, t, Append(items, x), g, width)
  <2>1. Len(units) <= t[n + 2] - t[g + 1]
    BY <1>3, <1>4, <1>6, <1>7, <1>8
  <2> QED
    BY <1>5, <1>9, <1>10, <2>1 DEF Carries
<1> QED
  BY <1>3, <1>10, <1>11 DEF Part

\* What comes first belongs to the item that comes next.
LEMMA PartBegins ==
  ASSUME NEW S, NEW width \in Widths(S), NEW items \in Seq(S), NEW g,
         NEW units \in UnitsOf(S), units # << >>, Part(units, items, g, width)
  PROVE  /\ g \in Nat /\ g < Len(items) /\ items[g + 1] \in S
         /\ \A j \in 1 .. Len(units) :
              j <= width[items[g + 1]] => units[j] = <<items[g + 1], j>>
<1>1. PICK s : Starts(s, items, width) /\ Carries(units, s, items, g, width)
  BY DEF Part
<1>2. g \in 0 .. Len(items)
  BY DEF Part
<1>3. Len(units) \in Nat \ {0}
  BY EmptySeq DEF UnitsOf
<1>4. /\ Len(items) \in Nat /\ s[Len(items) + 1] \in Nat /\ s[g + 1] \in Nat
      /\ Len(units) <= s[Len(items) + 1] - s[g + 1]
  BY <1>1, <1>2, NextStarts DEF Carries
<1>5. g < Len(items)
  BY <1>2, <1>3, <1>4
<1>6. items[g + 1] \in S /\ width[items[g + 1]] \in Nat
  BY <1>1, <1>2, <1>5, NextStarts
<1>7. ASSUME NEW j \in 1 .. Len(units), j <= width[items[g + 1]]
      PROVE  units[j] = <<items[g + 1], j>>
  <2>1. g + 1 \in g + 1 .. Len(items) /\ j \in 1 .. width[items[g + 1]]
    BY <1>2, <1>3, <1>4, <1>5, <1>6, <1>7
  <2>2. s[g + 1] - s[g + 1] + j = j /\ j <= Len(units)
    BY <1>3, <1>4
  <2>3. s[g + 1] - s[g + 1] + j <= Len(units) => units[s[g + 1] - s[g + 1] + j] = <<items[g + 1], j>>
    BY <1>1, <2>1 DEF Carries
  <2> QED
    BY <2>2, <2>3
<1> QED
  BY <1>2, <1>4, <1>5, <1>6, <1>7

\* The next item is complete when as many units as it has came.
LEMMA CarriesOn ==
  ASSUME NEW S, NEW width \in Widths(S), NEW items \in Seq(S), NEW g \in 0 .. Len(items),
         NEW units \in UnitsOf(S), NEW rest \in UnitsOf(S), g < Len(items),
         Len(units) = width[items[g + 1]],
         NEW s, Starts(s, items, width), Carries(units \o rest, s, items, g, width)
  PROVE  /\ Carries(rest, s, items, g + 1, width)
         /\ Len(units \o rest) = s[Len(items) + 1] - s[g + 1] =>
              Len(rest) = s[Len(items) + 1] - s[g + 1 + 1]
<1>1. PICK u \in Nat : u = Len(units)
  BY LenProperties DEF UnitsOf
<1>2. PICK r \in Nat : r = Len(rest)
  BY LenProperties DEF UnitsOf
<1>3. PICK n \in Nat : n = Len(items)
  BY LenProperties
<1>4. PICK all : all = units \o rest
  OBVIOUS
<1>5. /\ Len(all) = u + r
      /\ \A i \in 1 .. r : all[u + i] = rest[i]
  <2>1. /\ Len(all) = u + r
        /\ \A i \in 1 .. u + r : all[i] = IF i <= u THEN units[i] ELSE rest[i - u]
    BY <1>1, <1>2, <1>4, ConcatProperties DEF UnitsOf
  <2>2. \A i \in 1 .. r : u + i \in 1 .. u + r /\ ~(u + i <= u) /\ u + i - u = i
    OBVIOUS
  <2> QED
    BY <2>1, <2>2
\* Where the next item and the one behind it start, and where the last ends.
<1>6. PICK first \in Nat, next \in Nat, end \in Nat :
        /\ first = s[g + 1] /\ next = s[g + 1 + 1] /\ end = s[n + 1]
        /\ next = first + u
  <2>1. g + 2 = g + 1 + 1
    BY <1>3
  <2>2. /\ s[n + 1] \in Nat /\ s[g + 1] \in Nat
        /\ s[g + 2] = s[g + 1] + u
    BY <1>1, <1>3, NextStarts
  <2> QED
    BY <1>1, <2>1, <2>2
<1>7. next = first + u /\ Len(all) = u + r
  BY <1>5, <1>6, Zenon
<1>8. /\ Len(all) <= end - first
      /\ \A k \in g + 1 .. n : \A j \in 1 .. width[items[k]] :
           s[k] - first + j <= Len(all) => all[s[k] - first + j] = <<items[k], j>>
  BY <1>3, <1>4, <1>6 DEF Carries
<1>9. ASSUME NEW k \in g + 1 + 1 .. n, NEW j \in 1 .. width[items[k]],
             s[k] - next + j <= r
      PROVE  rest[s[k] - next + j] = <<items[k], j>>
  <2>1. g + 1 \in 0 .. n /\ k \in g + 1 .. n /\ k \in 1 .. n /\ k \in 1 .. n + 1
    BY <1>3
  <2>2. width[items[k]] \in Nat /\ s[k] \in Nat
    BY <1>3, <2>1, Positions
  <2>3. PICK p \in Nat : p = s[k]
    BY <2>2
  <2>4. next <= p
    <3>1. /\ g + 1 + 1 \in 1 .. Len(items) + 1 /\ k \in 1 .. Len(items) + 1
          /\ g + 1 + 1 <= k
      BY <1>3
    <3>2. s[g + 1 + 1] <= s[k]
      BY <3>1, Positions
    <3> QED
      BY <1>6, <2>3, <3>2
  <2>5. j \in Nat /\ 1 <= j /\ p - next + j <= r
    BY <1>9, <2>2, <2>3
  <2>6. PICK i \in 1 .. r : i = p - next + j
    BY <2>4, <2>5
  <2>7. p - first + j = u + i /\ u + i <= Len(all)
    <3>1. j \in Nat /\ i \in Nat /\ i <= r /\ i = p - next + j
      BY <2>5, <2>6
    <3>2. p - first + j = u + i
      BY <1>7, <3>1
    <3> QED
      BY <1>7, <3>1, <3>2
  <2>8. all[u + i] = <<items[k], j>>
    <3>1. s[k] - first + j = u + i
      BY <2>3, <2>7
    <3> QED
      BY <1>8, <2>1, <2>7, <3>1
  <2> QED
    BY <1>5, <2>3, <2>6, <2>8
<1>10. r <= end - next
  <2>1. Len(all) <= end - first
    BY <1>8, Zenon
  <2> QED
    BY <1>7, <2>1
<1>11. Carries(rest, s, items, g + 1, width)
  <2>1. Len(rest) <= s[Len(items) + 1] - s[g + 1 + 1]
    BY <1>2, <1>3, <1>6, <1>10
  <2>2. ASSUME NEW k \in g + 1 + 1 .. Len(items), NEW j \in 1 .. width[items[k]],
               s[k] - s[g + 1 + 1] + j <= Len(rest)
        PROVE  rest[s[k] - s[g + 1 + 1] + j] = <<items[k], j>>
    BY <1>2, <1>3, <1>6, <1>9, <2>2
  <2> QED
    BY <2>1, <2>2 DEF Carries
<1>12. Len(all) = end - first => r = end - next
  BY <1>7
<1> QED
  BY <1>2, <1>3, <1>4, <1>6, <1>11, <1>12

\* If the first item under way is taken out whole, the rest is part of the
\* items behind it.
LEMMA PartReceives ==
  ASSUME NEW S, NEW width \in Widths(S), NEW items \in Seq(S), NEW g,
         NEW units \in UnitsOf(S), NEW rest \in UnitsOf(S), g < Len(items),
         Len(units) = width[items[g + 1]], Part(units \o rest, items, g, width)
  PROVE  Part(rest, items, g + 1, width)
<1>1. g \in 0 .. Len(items) /\ Len(items) \in Nat
  BY LenProperties DEF Part
<1>2. PICK s : Starts(s, items, width) /\ Carries(units \o rest, s, items, g, width)
  BY DEF Part
<1>3. Carries(rest, s, items, g + 1, width)
  BY <1>1, <1>2, CarriesOn
<1>4. g + 1 \in 0 .. Len(items)
  BY <1>1
<1> QED
  BY <1>2, <1>3, <1>4 DEF Part

\* The same if nothing has been lost.
LEMMA WholeReceives ==
  ASSUME NEW S, NEW width \in Widths(S), NEW items \in Seq(S), NEW g,
         NEW units \in UnitsOf(S), NEW rest \in UnitsOf(S), g < Len(items),
         Len(units) = width[items[g + 1]], Whole(units \o rest, items, g, width)
  PROVE  Whole(rest, items, g + 1, width)
<1>1. g \in 0 .. Len(items) /\ Len(items) \in Nat
  BY LenProperties DEF Whole
<1>2. PICK s : /\ Starts(s, items, width) /\ Carries(units \o rest, s, items, g, width)
               /\ Len(units \o rest) = s[Len(items) + 1] - s[g + 1]
  BY DEF Whole
<1>3. /\ Carries(rest, s, items, g + 1, width)
      /\ Len(rest) = s[Len(items) + 1] - s[g + 1 + 1]
  BY <1>1, <1>2, CarriesOn
<1>4. g + 1 \in 0 .. Len(items)
  BY <1>1
<1> QED
  BY <1>2, <1>3, <1>4 DEF Whole

\* What is still to be received is under way in full.
LEMMA WholeWaits ==
  ASSUME NEW S, NEW width \in Widths(S), NEW items \in Seq(S), NEW g,
         NEW units \in UnitsOf(S), g < Len(items), Whole(units, items, g, width)
  PROVE  items[g + 1] \in S /\ Len(units) >= width[items[g + 1]]
<1>1. PICK s : /\ Starts(s, items, width)
               /\ Len(units) = s[Len(items) + 1] - s[g + 1]
  BY DEF Whole
<1>2. g \in 0 .. Len(items)
  BY DEF Whole
<1>3. /\ s[Len(items) + 1] \in Nat /\ s[g + 1] \in Nat
      /\ items[g + 1] \in S /\ width[items[g + 1]] \in Nat
      /\ s[g + 2] = s[g + 1] + width[items[g + 1]]
      /\ s[g + 2] <= s[Len(items) + 1]
  BY <1>1, <1>2, NextStarts
<1> QED
  BY <1>1, <1>3
=============================================================================
