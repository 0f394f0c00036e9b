--------------------------- MODULE EventChannelProofs -----------------------
(***************************************************************************)
(* The events of the pubstack module for any number of requests, channels  *)
(* and events and any sizes of the queues and the buffer: no event is      *)
(* lost, doubled or put before an earlier one on its way.                  *)
(***************************************************************************)
EXTENDS EventChannel, SequenceTheorems, WellFoundedInduction, TLAPS

-----------------------------------------------------------------------------
(* Concatenation as an operation of its own, of which the steps below use  *)
(* these laws only.                                                        *)

Listing == Seq(Events)

Cat(s, t) == s \o t

\* Concatenation is associative and the empty sequence is neutral.
LEMMA CatLaws ==
  /\ << >> \in Listing
  /\ \A s \in Listing : Cat(s, << >>) = s /\ Cat(<< >>, s) = s
  /\ \A s, t \in Listing : Cat(s, t) \in Listing
  /\ \A s, t, u \in Listing : Cat(Cat(s, t), u) = Cat(s, Cat(t, u))
<1>1. << >> \in Listing /\ \A s \in Listing : Cat(s, << >>) = s /\ Cat(<< >>, s) = s
  BY EmptySeq, ConcatEmptySeq DEF Listing, Cat
<1>2. \A s, t \in Listing : Cat(s, t) \in Listing
  BY ConcatProperties DEF Listing, Cat
<1>3. \A s, t, u \in Listing : Cat(Cat(s, t), u) = Cat(s, Cat(t, u))
  BY ConcatAssociative DEF Listing, Cat
<1> QED
  BY Zenon, <1>1, <1>2, <1>3

\* To append is to concatenate a sequence of one event.
LEMMA CatOne ==
  ASSUME NEW s \in Listing, NEW e \in Events
  PROVE  /\ <<e>> \in Listing /\ Append(s, e) \in Listing
         /\ Append(s, e) = Cat(s, <<e>>)
<1>1. <<e>> \in Seq(Events)
  OBVIOUS
<1>2. s \in Seq(Events)
  BY DEF Listing
<1>3. Append(s, e) = s \o <<e>> /\ Append(s, e) \in Seq(Events)
  BY <1>2, AppendIsConcat, AppendProperties
<1> QED
  BY <1>1, <1>3 DEF Listing, Cat

\* A sequence is its head followed by its tail.
LEMMA CatHead ==
  ASSUME NEW s \in Listing, s # << >>
  PROVE  /\ Head(s) \in Events /\ Tail(s) \in Listing
         /\ s = Cat(<<Head(s)>>, Tail(s))
<1>0. s \in Seq(Events)
  BY DEF Listing
<1>1. Head(s) \in Events /\ Tail(s) \in Seq(Events)
  BY <1>0
<1>2. Len(s) \in Nat \ {0} /\ SubSeq(s, 1, Len(s)) = s
  BY <1>0, EmptySeq, SubSeqFull
<1>3. 1 \in 1 .. Len(s) /\ Len(s) \in 1 .. Len(s) /\ 1 + 1 = 2
  BY <1>2
<1>4. SubSeq(s, 1, Len(s)) = <<s[1]>> \o SubSeq(s, 2, Len(s))
  BY <1>0, <1>3, SubSeqRecursiveFirst
<1>5. Tail(s) = SubSeq(s, 2, Len(s)) /\ Head(s) = s[1]
  BY <1>0, TailIsSubSeq
<1> QED
  BY <1>1, <1>2, <1>4, <1>5 DEF Listing, Cat

-----------------------------------------------------------------------------
(* Flatten at both ends of a sequence of buffers.                         *)

\* A set of numbers that has an element has a least one.
LEMMA LeastNumber ==
  ASSUME NEW T \in SUBSET Nat, T # {}
  PROVE  \E m \in T : \A k \in T : m <= k
<1>1. IsWellFoundedOn({ss \in Nat \X Nat : ss[1] < ss[2]}, Nat)
  BY NatLessThanWellFounded DEF OpToRel
<1>2. PICK x \in T : \A y \in T : ~ (<<y, x>> \in {ss \in Nat \X Nat : ss[1] < ss[2]})
  BY Zenon, <1>1, WFMin
<1>3. \A y \in T : ~(y < x)
  BY Zenon, <1>2
<1> QED
  BY <1>3

\* g gives the concatenation of the first i sequences of s for i up to n.
Concats(g, s, n) == g = [i \in 1 .. n |-> IF i = 1 THEN s[i] ELSE g[i - 1] \o s[i]]

Flattener(s) == CHOOSE g : Concats(g, s, Len(s))

\* The partial concatenations exist, for sequences of any length.
LEMMA FlattenerExists ==
  ASSUME NEW s, NEW n \in Nat
  PROVE  \E g : Concats(g, s, n)
<1> DEFINE T == {k \in Nat : ~ \E g : Concats(g, s, k)}
<1> SUFFICES ASSUME T # {} PROVE FALSE
  OBVIOUS
<1>1. PICK m \in T : \A k \in T : m <= k
  BY Zenon, LeastNumber
<1>2. CASE m = 0
  <2>1. Concats([i \in {} |-> i], s, 0)
    BY DEF Concats
  <2> QED
    BY <1>2, <2>1
<1>3. CASE m # 0
  <2>1. m \in Nat \ {0} /\ m - 1 \in Nat /\ m - 1 \notin T
    BY <1>1, <1>3
  <2>2. PICK g : Concats(g, s, m - 1)
    BY <2>1
  <2> DEFINE h == [i \in 1 .. m |-> IF i = m THEN (IF m = 1 THEN s[m] ELSE g[m - 1] \o s[m]) ELSE g[i]]
  <2>3. \A i \in 1 .. m - 1 : g[i] = IF i = 1 THEN s[i] ELSE g[i - 1] \o s[i]
    BY Zenon, <2>2 DEF Concats
  <2>4. \A i \in 1 .. m : h[i] = IF i = 1 THEN s[i] ELSE h[i - 1] \o s[i]
    <3> TAKE i \in 1 .. m
    <3>1. CASE i = m /\ m = 1
      BY <3>1
    <3>2. CASE i = m /\ m # 1
      <4>0. m - 1 \in 1 .. m - 1 /\ m - 1 # m /\ m - 1 \in 1 .. m /\ m \in 1 .. m
        BY <2>1, <3>2
      <4>1. h[m] = g[m - 1] \o s[m]
        BY Zenon, <3>2, <4>0
      <4>2. h[m - 1] = g[m - 1]
        BY <4>0
      <4> QED
        BY Zenon, <3>2, <4>1, <4>2
    <3>3. CASE i # m
      <4>1. i \in 1 .. m - 1 /\ h[i] = g[i]
        BY <2>1, <3>3
      <4>2. i # 1 => i - 1 \in 1 .. m /\ i - 1 # m
        BY <2>1, <4>1
      <4>3. i # 1 => h[i - 1] = g[i - 1]
        BY <4>2
      <4> QED
        BY <2>3, <4>1, <4>3
    <3> QED
      BY Zenon, <3>1, <3>2, <3>3
  <2>5. Concats(h, s, m)
    BY Zenon, <2>4 DEF Concats
  <2> QED
    BY <1>1, <2>5
<1> QED
  BY <1>2, <1>3

\* The equations of Flatten.
LEMMA FlattenIs ==
  ASSUME NEW s \in Seq(Listing)
  PROVE  /\ s = << >> => Flatten(s) = << >>
         /\ s # << >> =>
              /\ Flatten(s) = Flattener(s)[Len(s)]
              /\ Flattener(s)[1] = s[1]
              /\ \A i \in 2 .. Len(s) : Flattener(s)[i] = Cat(Flattener(s)[i - 1], s[i])
<1>1. Len(s) \in Nat /\ (s = << >> <=> Len(s) = 0)
  OBVIOUS
<1>2. s = << >> => Flatten(s) = << >>
  BY <1>1 DEF Flatten
<1>3. ASSUME s # << >> PROVE Flatten(s) = Flattener(s)[Len(s)]
  BY <1>1, <1>3 DEF Flatten, Flattener, Concats
<1>4. Concats(Flattener(s), s, Len(s))
  BY <1>1, FlattenerExists DEF Flattener
<1> DEFINE g == Flattener(s)
<1> HIDE DEF g
<1>5. \A i \in 1 .. Len(s) : g[i] = IF i = 1 THEN s[i] ELSE Cat(g[i - 1], s[i])
  BY Zenon, <1>4 DEF Concats, g, Cat
<1>6. ASSUME s # << >> PROVE g[1] = s[1] /\ \A i \in 2 .. Len(s) : g[i] = Cat(g[i - 1], s[i])
  <2>1. 1 \in 1 .. Len(s)
    BY <1>1, <1>6
  <2>2. \A i \in 2 .. Len(s) : i \in 1 .. Len(s) /\ i # 1
    BY <1>1
  <2> QED
    BY <1>5, <2>1, <2>2, Zenon
<1> QED
  BY <1>2, <1>3, <1>6 DEF g

\* What the flattener gives is a sequence.
LEMMA FlattenerType ==
  ASSUME NEW s \in Seq(Listing), s # << >>
  PROVE  \A i \in 1 .. Len(s) : Flattener(s)[i] \in Listing
<1> DEFINE f == Flattener(s)
           T == {k \in 1 .. Len(s) : f[k] \notin Listing}
<1> SUFFICES ASSUME T # {} PROVE FALSE
  OBVIOUS
<1>0. Len(s) \in Nat /\ \A i \in 1 .. Len(s) : s[i] \in Listing
  OBVIOUS
<1>1. f[1] = s[1] /\ \A i \in 2 .. Len(s) : f[i] = Cat(f[i - 1], s[i])
  BY FlattenIs
<1> HIDE DEF f
<1>2. T \subseteq Nat
  BY <1>0
<1>3. PICK m \in T : \A k \in T : m <= k
  BY Zenon, <1>2, LeastNumber
<1>4. m \in 1 .. Len(s) /\ s[m] \in Listing
  BY <1>0, <1>3
<1>5. CASE m = 1
  BY <1>1, <1>3, <1>4, <1>5
<1>6. CASE m # 1
  <2>1. m \in 2 .. Len(s) /\ m - 1 \in 1 .. Len(s) /\ m - 1 < m /\ m \in Nat
    BY <1>0, <1>4, <1>6
  <2>2. m - 1 \notin T
    <3> HIDE DEF T
    <3> QED
      BY <1>3, <2>1
  <2>3. f[m - 1] \in Listing /\ f[m] = Cat(f[m - 1], s[m])
    BY <1>1, <2>1, <2>2
  <2>4. f[m] \in Listing
    BY ZenonT(30), <1>4, <2>3, CatLaws
  <2> QED
    BY <1>3, <2>4
<1> QED
  BY <1>5, <1>6

\* Buffers of events make a sequence of events.
LEMMA FlattenType ==
  ASSUME NEW s \in Seq(Listing)
  PROVE  Flatten(s) \in Listing
<1>1. CASE s = << >>
  BY Zenon, <1>1, FlattenIs, CatLaws
<1>2. CASE s # << >>
  <2>1. Len(s) \in 1 .. Len(s)
    BY <1>2, EmptySeq
  <2>2. Flatten(s) = Flattener(s)[Len(s)]
    BY <1>2, FlattenIs
  <2> QED
    BY <1>2, <2>1, <2>2, FlattenerType
<1> QED
  BY <1>1, <1>2

\* A buffer that is queued for the sender comes last.
LEMMA FlattenAppend ==
  ASSUME NEW s \in Seq(Listing), NEW e \in Listing
  PROVE  Flatten(Append(s, e)) = Cat(Flatten(s), e)
<1> DEFINE t == Append(s, e)
           f == Flattener(s)
           g == Flattener(t)
<1>1. /\ t \in Seq(Listing) /\ t # << >> /\ Len(t) = Len(s) + 1 /\ Len(s) \in Nat
      /\ \A i \in 1 .. Len(s) : t[i] = s[i]
      /\ t[Len(s) + 1] = e
  BY AppendProperties, LenProperties
<1>2. /\ Flatten(t) = g[Len(t)] /\ g[1] = t[1]
      /\ \A i \in 2 .. Len(t) : g[i] = Cat(g[i - 1], t[i])
  BY Zenon, <1>1, FlattenIs
<1> HIDE DEF t, f, g
<1>3. CASE s = << >>
  <2>1. Len(s) = 0 /\ Flatten(s) = << >>
    BY Zenon, <1>3, FlattenIs
  <2>2. Flatten(t) = e
    BY <1>1, <1>2, <2>1
  <2> QED
    BY <2>1, <2>2, CatLaws DEF t
<1>4. CASE s # << >>
  <2>0. Len(s) # 0
    BY <1>4, EmptySeq
  <2>1. /\ Flatten(s) = f[Len(s)] /\ f[1] = s[1]
        /\ \A i \in 2 .. Len(s) : f[i] = Cat(f[i - 1], s[i])
    BY <1>4, FlattenIs DEF f
  <2> DEFINE T == {k \in 1 .. Len(s) : f[k] # g[k]}
  <2>2. T = {}
    <3> SUFFICES ASSUME T # {} PROVE FALSE
      OBVIOUS
    <3>1. T \subseteq Nat
      BY <1>1
    <3>2. PICK m \in T : \A k \in T : m <= k
      BY Zenon, <3>1, LeastNumber
    <3>3. m \in 1 .. Len(s) /\ t[m] = s[m]
      BY <1>1, <3>2
    <3>4. CASE m = 1
      BY <1>2, <2>1, <3>2, <3>3, <3>4
    <3>5. CASE m # 1
      <4>1. m \in 2 .. Len(s) /\ m \in 2 .. Len(t) /\ m - 1 \in 1 .. Len(s) /\ m - 1 < m /\ m \in Nat
        BY <1>1, <3>3, <3>5
      <4>2. m - 1 \notin T
        <5> HIDE DEF T
        <5> QED
          BY <3>2, <4>1
      <4>3. f[m - 1] = g[m - 1]
        BY <4>1, <4>2
      <4>4. f[m] = Cat(f[m - 1], s[m]) /\ g[m] = Cat(g[m - 1], t[m])
        BY <1>2, <2>1, <4>1
      <4> QED
        BY <3>2, <3>3, <4>3, <4>4
    <3> QED
      BY <3>4, <3>5
  <2>3. Len(t) \in 2 .. Len(t) /\ Len(t) - 1 = Len(s) /\ Len(s) \in 1 .. Len(s)
    BY <1>1, <2>0
  <2>4. g[Len(t)] = Cat(g[Len(s)], e)
    BY <1>1, <1>2, <2>3
  <2>5. g[Len(s)] = f[Len(s)]
    BY <2>2, <2>3
  <2> QED
    BY <1>2, <2>1, <2>4, <2>5 DEF t
<1> QED
  BY <1>3, <1>4

\* The buffer the sender takes came first.
LEMMA FlattenHead ==
  ASSUME NEW s \in Seq(Listing), s # << >>
  PROVE  Flatten(s) = Cat(Head(s), Flatten(Tail(s)))
<1> DEFINE t == Tail(s)
           f == Flattener(s)
           g == Flattener(t)
           h == s[1]
<1>1. /\ t \in Seq(Listing) /\ Len(t) = Len(s) - 1 /\ Len(s) \in Nat \ {0}
      /\ \A i \in 1 .. Len(s) - 1 : t[i] = s[i + 1]
      /\ Head(s) = h /\ h \in Listing
  OBVIOUS
<1>2. /\ Flatten(s) = f[Len(s)] /\ f[1] = h
      /\ \A i \in 2 .. Len(s) : f[i] = Cat(f[i - 1], s[i])
  BY FlattenIs
<1> HIDE DEF t, f, g, h
<1>3. CASE t = << >>
  <2>1. Len(t) = 0 /\ Flatten(t) = << >>
    BY Zenon, <1>3, FlattenIs, EmptySeq
  <2>2. Len(s) = 1
    BY <1>1, <2>1
  <2> QED
    BY Zenon, <1>1, <1>2, <2>1, <2>2, CatLaws DEF t
<1>4. CASE t # << >>
  <2>0. Len(t) \in Nat \ {0}
    BY <1>1, <1>4, EmptySeq
  <2>1. /\ Flatten(t) = g[Len(t)] /\ g[1] = t[1]
        /\ \A i \in 2 .. Len(t) : g[i] = Cat(g[i - 1], t[i])
        /\ \A i \in 1 .. Len(t) : g[i] \in Listing /\ t[i] \in Listing
    BY <1>1, <1>4, FlattenIs, FlattenerType, ElementOfSeq DEF g
  <2> DEFINE T == {k \in 1 .. Len(t) : f[k + 1] # Cat(h, g[k])}
  <2>2. T = {}
    <3> SUFFICES ASSUME T # {} PROVE FALSE
      OBVIOUS
    <3>1. T \subseteq Nat
      BY <2>0
    <3>2. PICK m \in T : \A k \in T : m <= k
      BY Zenon, <3>1, LeastNumber
    <3>3. m \in 1 .. Len(t) /\ t[m] = s[m + 1] /\ m + 1 \in 2 .. Len(s) /\ (m + 1) - 1 = m
      BY <1>1, <2>0, <3>2
    <3>4. f[m + 1] = Cat(f[m], t[m])
      BY Zenon, <1>2, <3>3
    <3>5. CASE m = 1
      BY <1>2, <2>1, <3>2, <3>4, <3>5
    <3>6. CASE m # 1
      <4>1. m \in 2 .. Len(t) /\ m - 1 \in 1 .. Len(t) /\ m - 1 < m /\ m \in Nat /\ (m - 1) + 1 = m
        BY <2>0, <3>3, <3>6
      <4>2. m - 1 \notin T
        <5> HIDE DEF T
        <5> QED
          BY <3>2, <4>1
      <4>3. f[m] = Cat(h, g[m - 1])
        BY <4>1, <4>2
      <4>4. g[m] = Cat(g[m - 1], t[m]) /\ g[m - 1] \in Listing /\ t[m] \in Listing
        BY <2>1, <3>3, <4>1
      <4>5. f[m + 1] = Cat(h, g[m])
        <5> DEFINE gm == g[m - 1]
                   tm == t[m]
        <5>1. h \in Listing /\ gm \in Listing /\ tm \in Listing
          BY <1>1, <4>4
        <5> HIDE DEF gm, tm
        <5>2. Cat(Cat(h, gm), tm) = Cat(h, Cat(gm, tm))
          BY <5>1, CatLaws
        <5> QED
          BY <3>4, <4>3, <4>4, <5>2 DEF gm, tm
      <4> QED
        BY <3>2, <4>5
    <3> QED
      BY <3>5, <3>6
  <2>3. Len(t) \in 1 .. Len(t) /\ Len(t) + 1 = Len(s)
    BY <1>1, <2>0
  <2>4. f[Len(t) + 1] = Cat(h, g[Len(t)])
    BY <2>2, <2>3
  <2> QED
    BY <1>1, <1>2, <2>1, <2>3, <2>4 DEF t
<1> QED
  BY <1>3, <1>4

-----------------------------------------------------------------------------
(* The line of a channel: what is posted, being posted, waiting to be      *)
(* posted, in the buffer and in the queue, in the order of acceptance.     *)

Posted(a, b, q) == Cat(Cat(a, b), Flatten(q))

LineOf(a, b, q, u, h) == Cat(Cat(Posted(a, b, q), u), h)

\* The line of a channel is a sequence of events.
LEMMA LineType ==
  ASSUME NEW a \in Listing, NEW b \in Listing, NEW q \in Seq(Listing),
         NEW u \in Listing, NEW h \in Listing
  PROVE  /\ Posted(a, b, q) \in Listing
         /\ Cat(Posted(a, b, q), u) \in Listing
         /\ LineOf(a, b, q, u, h) \in Listing
         /\ LineOf(a, b, q, u, h) = Cat(Posted(a, b, q), Cat(u, h))
<1>1. Flatten(q) \in Listing
  BY FlattenType
<1> DEFINE f == Flatten(q)
           x == Cat(Cat(a, b), f)
<1> HIDE DEF f
<1>2. f \in Listing
  BY <1>1 DEF f
<1>3. x \in Listing
  BY <1>2, CatLaws
<1> HIDE DEF x
<1>4. Cat(x, u) \in Listing /\ Cat(Cat(x, u), h) \in Listing /\ Cat(Cat(x, u), h) = Cat(x, Cat(u, h))
  BY <1>3, CatLaws
<1> QED
  BY <1>3, <1>4 DEF Posted, LineOf, x, f

Put(s, e) == Append(s, e)

\* The line of a channel, cut before the buffer.
LEMMA LineSplit ==
  ASSUME NEW a \in Listing, NEW b \in Listing, NEW q \in Seq(Listing),
         NEW u \in Listing, NEW h \in Listing
  PROVE  LineOf(a, b, q, u, h) = Cat(Posted(a, b, q), Cat(u, h))
<1> DEFINE x == Posted(a, b, q)
<1>1. x \in Listing
  BY LineType
<1> HIDE DEF x
<1>2. Cat(Cat(x, u), h) = Cat(x, Cat(u, h))
  BY <1>1, CatLaws
<1> QED
  BY <1>2 DEF LineOf, x

\* An event pushed joins the line at its end.
LEMMA LinePush ==
  ASSUME NEW a \in Listing, NEW b \in Listing, NEW q \in Seq(Listing),
         NEW u \in Listing, NEW h \in Listing, NEW e \in Events
  PROVE  LineOf(a, b, q, u, Put(h, e)) = Put(LineOf(a, b, q, u, h), e)
<1> DEFINE x == Cat(Posted(a, b, q), u)
<1>1. x \in Listing /\ Cat(x, h) \in Listing
  BY LineType DEF LineOf
<1> HIDE DEF x
<1>2. /\ <<e>> \in Listing /\ Append(h, e) = Cat(h, <<e>>)
      /\ Append(Cat(x, h), e) = Cat(Cat(x, h), <<e>>)
  <2> DEFINE y == Cat(x, h)
  <2> HIDE DEF y
  <2>1. y \in Listing
    BY <1>1 DEF y
  <2>2. Append(y, e) = Cat(y, <<e>>)
    BY Zenon, <2>1, CatOne
  <2> QED
    BY Zenon, <2>2, CatOne DEF y
<1>3. Cat(x, Append(h, e)) = Append(Cat(x, h), e)
  BY <1>1, <1>2, CatLaws
<1>4. Cat(x, Put(h, e)) = Put(Cat(x, h), e)
  BY <1>3 DEF Put
<1> QED
  BY <1>4 DEF LineOf, x

\* An event that moves from the queue to the buffer keeps its place.
SplitsInto(h, e, t) == h # << >> /\ e = Head(h) /\ t = Tail(h)

\* An event that goes from the queue to the buffer keeps its place in line.
LEMMA LineMove ==
  ASSUME NEW a \in Listing, NEW b \in Listing, NEW q \in Seq(Listing),
         NEW u \in Listing, NEW h \in Listing, NEW e, NEW t, SplitsInto(h, e, t)
  PROVE  LineOf(a, b, q, Put(u, e), t) = LineOf(a, b, q, u, h)
<1> DEFINE x == Posted(a, b, q)
<1>1. x \in Listing
  BY Zenon, LineType
<1>2. e \in Events /\ t \in Listing /\ h = Cat(<<e>>, t)
  BY CatHead DEF SplitsInto
<1> HIDE DEF x
<1>3. <<e>> \in Listing /\ Put(u, e) \in Listing /\ Put(u, e) = Cat(u, <<e>>)
  BY Zenon, <1>2, CatOne DEF Put
<1>4. Cat(Put(u, e), t) = Cat(u, h)
  BY <1>2, <1>3, CatLaws
<1>5. Cat(Cat(x, Put(u, e)), t) = Cat(x, Cat(Put(u, e), t)) /\ Cat(Cat(x, u), h) = Cat(x, Cat(u, h))
  BY <1>1, <1>2, <1>3, CatLaws
<1>6. Cat(Cat(x, Put(u, e)), t) = Cat(Cat(x, u), h)
  BY <1>4, <1>5
<1> QED
  BY <1>2, <1>3, <1>6 DEF LineOf, x

\* A buffer handed to the sender keeps its place.
LEMMA LineFlush ==
  ASSUME NEW a \in Listing, NEW b \in Listing, NEW q \in Seq(Listing),
         NEW u \in Listing, NEW h \in Listing
  PROVE  LineOf(a, b, Put(q, u), << >>, h) = LineOf(a, b, q, u, h)
<1> DEFINE f == Flatten(q)
           x == Cat(a, b)
<1>1. f \in Listing /\ x \in Listing
  BY FlattenType, CatLaws
<1>2. Flatten(Put(q, u)) = Cat(f, u)
  BY FlattenAppend DEF Put
<1> HIDE DEF f, x
<1>3. Cat(Cat(x, Cat(f, u)), << >>) = Cat(Cat(x, f), u)
  BY <1>1, CatLaws
<1> QED
  BY <1>2, <1>3 DEF LineOf, Posted, f, x

\* The sender takes a buffer.
LEMMA LineNext ==
  ASSUME NEW a \in Listing, NEW q \in Seq(Listing), q # << >>, NEW u, NEW h
  PROVE  LineOf(a, Head(q), Tail(q), u, h) = LineOf(a, << >>, q, u, h)
<1> DEFINE f == Flatten(Tail(q))
           b == Head(q)
<1>1. b \in Listing /\ Tail(q) \in Seq(Listing)
  BY HeadTailProperties
<1>2. f \in Listing
  BY Zenon, <1>1, FlattenType
<1>3. Flatten(q) = Cat(b, f)
  BY FlattenHead
<1> HIDE DEF f, b
<1>4. Cat(Cat(a, b), f) = Cat(Cat(a, << >>), Cat(b, f))
  BY <1>1, <1>2, CatLaws
<1> QED
  BY <1>3, <1>4 DEF LineOf, Posted, f, b

\* A post has ended.
LEMMA LineSent ==
  ASSUME NEW a \in Listing, NEW b \in Listing, NEW q, NEW u, NEW h
  PROVE  LineOf(Cat(a, b), << >>, q, u, h) = LineOf(a, b, q, u, h)
<1>1. Cat(Cat(a, b), << >>) = Cat(a, b)
  BY CatLaws
<1> QED
  BY <1>1 DEF LineOf, Posted

-----------------------------------------------------------------------------
(* Order and elements of a line.                                           *)

Increasing(s) == \A i, j \in DOMAIN s : i < j => s[i] < s[j]

\* The next number at the end of an increasing sequence.
LEMMA IncreasingPush ==
  ASSUME NEW s \in Listing, Increasing(s), NEW n \in Nat, Range(s) \subseteq 1 .. n,
         n + 1 \in Events
  PROVE  /\ Increasing(Append(s, n + 1))
         /\ Range(Append(s, n + 1)) = Range(s) \cup {n + 1}
<1> DEFINE t == Append(s, n + 1)
<1>1. s \in Seq(Events) /\ Len(s) \in Nat /\ DOMAIN s = 1 .. Len(s)
  BY DEF Listing
<1>2. /\ DOMAIN t = 1 .. Len(s) + 1
      /\ \A i \in 1 .. Len(s) : t[i] = s[i]
      /\ t[Len(s) + 1] = n + 1
  BY <1>1
<1> HIDE DEF t
<1>3. \A i \in 1 .. Len(s) : s[i] \in 1 .. n
  BY <1>1 DEF Range
<1>4. Increasing(t)
  <2> SUFFICES ASSUME NEW i \in 1 .. Len(s) + 1, NEW j \in 1 .. Len(s) + 1, i < j
               PROVE  t[i] < t[j]
    BY <1>2 DEF Increasing
  <2>1. i \in 1 .. Len(s) /\ t[i] = s[i]
    BY <1>1, <1>2
  <2>2. CASE j = Len(s) + 1
    BY <1>2, <1>3, <2>1, <2>2
  <2>3. CASE j # Len(s) + 1
    <3>1. j \in 1 .. Len(s) /\ t[j] = s[j]
      BY <1>1, <1>2, <2>3
    <3> QED
      BY <1>1, <2>1, <3>1 DEF Increasing
  <2> QED
    BY <2>2, <2>3
<1>5. Range(t) = Range(s) \cup {n + 1}
  <2>1. 1 .. Len(s) + 1 = (1 .. Len(s)) \cup {Len(s) + 1}
    BY <1>1
  <2> QED
    BY <1>1, <1>2, <2>1 DEF Range
<1> QED
  BY <1>4, <1>5 DEF t

\* The middle of an increasing sequence is taken out.
LEMMA IncreasingDrop ==
  ASSUME NEW x \in Listing, NEW u \in Listing, NEW h \in Listing, Increasing(Cat(x, Cat(u, h)))
  PROVE  /\ Increasing(Cat(x, h))
         /\ Range(Cat(x, h)) = Range(Cat(x, Cat(u, h))) \ Range(u)
         /\ Range(u) \subseteq Range(Cat(x, Cat(u, h)))
<1> DEFINE y == Cat(x, Cat(u, h))
           z == Cat(x, h)
           m == Len(x)
           k == Len(u)
           n == Len(h)
<1>1. m \in Nat /\ k \in Nat /\ n \in Nat /\ DOMAIN u = 1 .. k
  BY DEF Listing
<1>2. /\ DOMAIN z = 1 .. m + n
      /\ \A i \in 1 .. m : z[i] = x[i]
      /\ \A i \in m + 1 .. m + n : z[i] = h[i - m]
  BY DEF Cat, Listing
<1>3. /\ DOMAIN y = 1 .. m + k + n
      /\ \A i \in 1 .. m : y[i] = x[i]
      /\ \A i \in m + 1 .. m + k : y[i] = u[i - m]
      /\ \A i \in m + k + 1 .. m + k + n : y[i] = h[i - m - k]
  <2>1. LET v == u \o h IN
        /\ v \in Seq(Events) /\ Len(v) = k + n
        /\ \A i \in 1 .. k : v[i] = u[i]
        /\ \A i \in k + 1 .. k + n : v[i] = h[i - k]
    BY DEF Listing
  <2> DEFINE v == u \o h
  <2> HIDE DEF v
  <2>2. /\ v \in Seq(Events) /\ Len(v) = k + n
        /\ \A i \in 1 .. k : v[i] = u[i]
        /\ \A i \in k + 1 .. k + n : v[i] = h[i - k]
    BY <2>1 DEF v
  <2>3. y = x \o v
    BY DEF Cat, v
  <2>4. /\ DOMAIN y = 1 .. m + k + n
        /\ \A i \in 1 .. m : y[i] = x[i]
        /\ \A i \in m + 1 .. m + k + n : y[i] = v[i - m]
    <3> HIDE DEF y
    <3>1. x \in Seq(Events) /\ v \in Seq(Events) /\ Len(x) = m /\ Len(v) = k + n
      BY <2>2 DEF Listing
    <3>2. x \o v \in Seq(Events) /\ Len(x \o v) = Len(x) + Len(v)
      BY Zenon, <3>1, ConcatProperties
    <3>3. DOMAIN (x \o v) = 1 .. m + (k + n)
      BY <3>1, <3>2
    <3>4. \A i \in 1 .. m : (x \o v)[i] = x[i]
      BY <1>1, <3>1
    <3>5. \A i \in m + 1 .. m + (k + n) : (x \o v)[i] = v[i - m]
      BY <1>1, <3>1
    <3>6. m + (k + n) = m + k + n
      BY <1>1
    <3> QED
      BY <2>3, <3>3, <3>4, <3>5, <3>6
  <2> HIDE DEF y
  <2>5. \A i \in m + 1 .. m + k : y[i] = u[i - m]
    BY <1>1, <2>2, <2>4
  <2>6. ASSUME NEW i \in m + k + 1 .. m + k + n PROVE y[i] = h[i - m - k]
    <3>1. i - m \in k + 1 .. k + n /\ i \in m + 1 .. m + k + n /\ (i - m) - k = i - m - k
      BY <1>1
    <3> QED
      BY Zenon, <2>2, <2>4, <3>1
  <2> QED
    BY <2>4, <2>5, <2>6
<1> HIDE DEF y, z, m, k, n
<1> DEFINE p(i) == IF i <= m THEN i ELSE i + k
<1>4. ASSUME NEW i \in 1 .. m + n
      PROVE  p(i) \in DOMAIN y /\ z[i] = y[p(i)] /\ p(i) \notin m + 1 .. m + k
  <2>1. CASE i <= m
    <3>1. i \in 1 .. m /\ i \in 1 .. m + k + n /\ p(i) = i /\ i \notin m + 1 .. m + k
      BY <1>1, <2>1
    <3> QED
      BY Zenon, <1>2, <1>3, <3>1
  <2>2. CASE ~(i <= m)
    <3>1. /\ i \in m + 1 .. m + n /\ p(i) = i + k /\ i + k \in m + k + 1 .. m + k + n
          /\ i + k \in 1 .. m + k + n /\ (i + k) - m - k = i - m /\ i + k \notin m + 1 .. m + k
      BY <1>1, <2>2
    <3> QED
      BY <1>2, <1>3, <3>1
  <2> QED
    BY Zenon, <2>1, <2>2
<1>5. \A i, j \in 1 .. m + n : i < j => p(i) < p(j)
  BY <1>1
<1> HIDE DEF p
<1>6. Increasing(y)
  BY DEF y
<1>7. Increasing(z)
  <2> SUFFICES ASSUME NEW i \in 1 .. m + n, NEW j \in 1 .. m + n, i < j PROVE z[i] < z[j]
    BY Zenon, <1>2 DEF Increasing
  <2>1. p(i) \in DOMAIN y /\ z[i] = y[p(i)] /\ p(j) \in DOMAIN y /\ z[j] = y[p(j)]
    BY Zenon, <1>4
  <2>2. p(i) < p(j)
    BY Zenon, <1>5
  <2> QED
    BY Zenon, <1>6, <2>1, <2>2 DEF Increasing
<1>8. ASSUME NEW i \in 1 .. k PROVE m + i \in DOMAIN y /\ y[m + i] = u[i] /\ m + i \in m + 1 .. m + k
  BY <1>1, <1>3
<1>9. Range(u) \subseteq Range(y)
  <2>1. DOMAIN u = 1 .. k
    BY <1>1
  <2> QED
    BY Zenon, <1>8, <2>1 DEF Range
<1>10. ASSUME NEW i \in DOMAIN y, NEW j \in DOMAIN y, y[i] = y[j] PROVE i = j
  <2>1. i \in Nat /\ j \in Nat /\ y[i] \in Nat
    <3>1. Cat(x, Cat(u, h)) \in Seq(Events) /\ Events \subseteq Nat
      BY CatLaws, ChannelAssumption DEF Listing, Events
    <3>2. y \in Seq(Nat)
      BY Zenon, <3>1, SeqMonotonic DEF y
    <3> QED
      BY <1>1, <1>3, <3>2
  <2> QED
    BY <1>6, <1>10, <2>1 DEF Increasing
<1>11. \A i \in 1 .. m + n : z[i] \in Range(y) /\ z[i] \notin Range(u)
  <2> TAKE i \in 1 .. m + n
  <2>1. z[i] \in Range(y)
    BY <1>4 DEF Range
  <2>2. ASSUME z[i] \in Range(u) PROVE FALSE
    <3>1. PICK l \in 1 .. k : u[l] = z[i]
      BY <1>1, <2>2 DEF Range
    <3>2. m + l = p(i)
      BY <1>4, <1>8, <1>10, <3>1
    <3> QED
      BY <1>4, <1>8, <3>2
  <2> QED
    BY <2>1, <2>2
<1>12. ASSUME NEW j \in DOMAIN y, y[j] \notin Range(u) PROVE y[j] \in Range(z)
  <2>1. j \in 1 .. m + k + n /\ j \notin m + 1 .. m + k
    <3>1. ASSUME j \in m + 1 .. m + k PROVE FALSE
      <4>1. j - m \in 1 .. k /\ y[j] = u[j - m]
        BY <1>1, <1>3, <3>1
      <4> QED
        BY <1>1, <1>12, <4>1 DEF Range
    <3> QED
      BY <1>3, <3>1
  <2>2. CASE j <= m
    <3>1. j \in 1 .. m /\ j \in 1 .. m + n
      BY <1>1, <2>1, <2>2
    <3> QED
      BY Zenon, <1>2, <1>3, <3>1 DEF Range
  <2>3. CASE j > m
    <3>1. /\ j - k \in m + 1 .. m + n /\ j \in m + k + 1 .. m + k + n
          /\ j - k \in 1 .. m + n /\ (j - k) - m = j - m - k
      BY <1>1, <2>1, <2>3
    <3>2. z[j - k] = y[j]
      BY <1>2, <1>3, <3>1
    <3> QED
      BY <1>2, <3>1, <3>2 DEF Range
  <2> QED
    BY <1>1, <2>1, <2>2, <2>3
<1>13. Range(z) = Range(y) \ Range(u)
  BY <1>2, <1>11, <1>12 DEF Range
<1> QED
  BY <1>7, <1>9, <1>13 DEF y, z

-----------------------------------------------------------------------------
(* The inductive invariant.                                                *)

\* The types of the lists of a channel and of the state of its collector.
Shapes ==
  /\ ch \in [Channels -> Listing] /\ buf \in [Channels -> Listing]
  /\ sending \in [Channels -> Listing] /\ sent \in [Channels -> Listing]
  /\ sendCh \in [Channels -> Seq(Listing)]
  /\ collector \in [Channels -> {"none", "run", "drain", "close", "ended"}]
  /\ \A p \in Pushers : pusher[p].pc # "idle" => pusher[p].chan \in Channels

\* Every event accepted is in the line of one channel or was dropped.
Placed ==
  /\ dropped \subseteq 1 .. accepted
  /\ \A c \in Channels : Increasing(Line(c)) /\ Range(Line(c)) \subseteq (1 .. accepted) \ dropped
  /\ \A e \in (1 .. accepted) \ dropped : \E c \in Channels : e \in Range(Line(c))
  /\ \A c, d \in Channels : c # d => Range(Line(c)) \cap Range(Line(d)) = {}

ChanInv == ChannelTypeOK /\ Shapes /\ Placed

\* The line of a channel in terms of its parts, before and after a step.
LEMMA LineIs ==
  \A c : /\ Line(c) = LineOf(sent[c], sending[c], sendCh[c], buf[c], ch[c])
         /\ Line(c)' = LineOf(sent'[c], sending'[c], sendCh'[c], buf'[c], ch'[c])
BY DEF Line, LineOf, Posted, Cat

\* The types of the parts of a channel.
LEMMA ChannelFacts ==
  ASSUME ChannelTypeOK, Shapes, NEW c \in Channels
  PROVE  /\ ch[c] \in Listing /\ buf[c] \in Listing /\ sending[c] \in Listing /\ sent[c] \in Listing
         /\ sendCh[c] \in Seq(Listing)
         /\ Line(c) \in Listing
         /\ accepted \in Nat
<1>1. /\ ch[c] \in Listing /\ buf[c] \in Listing /\ sending[c] \in Listing /\ sent[c] \in Listing
      /\ sendCh[c] \in Seq(Listing)
  BY DEF Shapes
<1>2. Line(c) = LineOf(sent[c], sending[c], sendCh[c], buf[c], ch[c])
  BY Zenon, LineIs
<1>3. LineOf(sent[c], sending[c], sendCh[c], buf[c], ch[c]) \in Listing
  BY Zenon, <1>1, LineType
<1>4. Line(c) \in Listing
  BY <1>2, <1>3
<1> QED
  BY <1>1, <1>4, ChannelAssumption DEF ChannelTypeOK

\* No line changes.
LEMMA PlacedSame ==
  ASSUME Placed, UNCHANGED <<accepted, dropped>>, \A c \in Channels : Line(c)' = Line(c)
  PROVE  Placed'
BY DEF Placed

\* An event is accepted by a channel.
LEMMA PlacedPush ==
  ASSUME ChannelTypeOK, Shapes, Placed, NEW c \in Channels, accepted < MaxEvents,
         accepted' = accepted + 1, UNCHANGED dropped,
         Line(c)' = Append(Line(c), accepted + 1),
         \A d \in Channels : d # c => Line(d)' = Line(d)
  PROVE  Placed'
<1> DEFINE e == accepted + 1
<1>1. /\ accepted \in Nat /\ e \in Events /\ Line(c) \in Listing
      /\ 1 .. e = (1 .. accepted) \cup {e} /\ e \notin 1 .. accepted
  BY ChannelFacts, ChannelAssumption DEF Events
<1>2. /\ dropped \subseteq 1 .. accepted
      /\ \A d \in Channels : Increasing(Line(d)) /\ Range(Line(d)) \subseteq (1 .. accepted) \ dropped
      /\ \A f \in (1 .. accepted) \ dropped : \E d \in Channels : f \in Range(Line(d))
      /\ \A a, d \in Channels : a # d => Range(Line(a)) \cap Range(Line(d)) = {}
  BY DEF Placed
<1>3. Increasing(Line(c)') /\ Range(Line(c)') = Range(Line(c)) \cup {e}
  <2>1. Range(Line(c)) \subseteq 1 .. accepted
    BY <1>2
  <2>2. Line(c) \in Listing /\ Increasing(Line(c)) /\ accepted \in Nat /\ accepted + 1 \in Events
    BY <1>1, <1>2
  <2>3. /\ Increasing(Append(Line(c), accepted + 1))
        /\ Range(Append(Line(c), accepted + 1)) = Range(Line(c)) \cup {accepted + 1}
    BY <2>1, <2>2, IncreasingPush
  <2> QED
    BY <2>3
<1> HIDE DEF e
<1>4. accepted' = e
  BY DEF e
<1>5. 1 .. accepted' = (1 .. accepted) \cup {e}
  <2>1. 1 .. accepted' = 1 .. e
    BY <1>4
  <2>2. 1 .. e = (1 .. accepted) \cup {e}
    BY <1>1
  <2> QED
    BY <2>1, <2>2, Zenon
<1>6. \A d \in Channels : /\ Increasing(Line(d)')
                          /\ Range(Line(d)') = IF d = c THEN Range(Line(d)) \cup {e} ELSE Range(Line(d))
  <2> TAKE d \in Channels
  <2>1. CASE d = c
    BY Zenon, <1>3, <2>1
  <2>2. CASE d # c
    <3>1. Line(d)' = Line(d)
      BY <2>2
    <3> QED
      BY <1>2, <2>2, <3>1
  <2> QED
    BY <2>1, <2>2
<1>7. \A d \in Channels : Range(Line(d)') \subseteq ((1 .. accepted) \cup {e}) \ dropped
  BY Zenon, <1>1, <1>2, <1>6
<1>8. \A f \in ((1 .. accepted) \cup {e}) \ dropped : \E d \in Channels : f \in Range(Line(d)')
  BY <1>2, <1>6
<1>9. \A a, d \in Channels : a # d => Range(Line(a)') \cap Range(Line(d)') = {}
  BY <1>1, <1>2, <1>6
<1> QED
  BY Zenon, <1>2, <1>5, <1>6, <1>7, <1>8, <1>9 DEF Placed

\* The buffer of a channel is dropped.
LEMMA PlacedDrop ==
  ASSUME Placed, NEW c \in Channels, NEW x \in Listing, NEW u \in Listing, NEW h \in Listing,
         UNCHANGED accepted, dropped' = dropped \cup Range(u),
         Line(c) = Cat(x, Cat(u, h)), Line(c)' = Cat(x, h),
         \A d \in Channels : d # c => Line(d)' = Line(d)
  PROVE  Placed'
<1>1. /\ dropped \subseteq 1 .. accepted
      /\ \A d \in Channels : Increasing(Line(d)) /\ Range(Line(d)) \subseteq (1 .. accepted) \ dropped
      /\ \A f \in (1 .. accepted) \ dropped : \E d \in Channels : f \in Range(Line(d))
      /\ \A a, d \in Channels : a # d => Range(Line(a)) \cap Range(Line(d)) = {}
  BY DEF Placed
<1>2. /\ Increasing(Line(c)') /\ Range(Line(c)') = Range(Line(c)) \ Range(u)
      /\ Range(u) \subseteq Range(Line(c))
  <2>1. Increasing(Cat(x, Cat(u, h)))
    BY <1>1
  <2> QED
    BY <2>1, IncreasingDrop
<1>3. \A d \in Channels : Increasing(Line(d)') /\ Range(Line(d)') = Range(Line(d)) \ Range(u)
  BY <1>1, <1>2
<1>4. dropped' \subseteq 1 .. accepted
  BY Zenon, <1>1, <1>2
<1>5. \A d \in Channels : Range(Line(d)') \subseteq (1 .. accepted) \ dropped'
  BY <1>1, <1>3
<1>6. \A f \in (1 .. accepted) \ dropped' : \E d \in Channels : f \in Range(Line(d)')
  BY <1>1, <1>3
<1>7. \A a, d \in Channels : a # d => Range(Line(a)') \cap Range(Line(d)') = {}
  BY <1>1, <1>3
<1> QED
  BY Zenon, <1>3, <1>4, <1>5, <1>6, <1>7 DEF Placed

\* The module starts with one channel that is empty (NewModule).
LEMMA InitChan == ChannelInit => ChanInv
<1> SUFFICES ASSUME ChannelInit PROVE ChanInv
  OBVIOUS
<1>0. << >> \in Listing /\ << >> \in Seq(Listing) /\ << >> \in Seq(Events) /\ << >> \in Seq(Seq(Events))
  BY CatLaws
<1>1. Shapes
  BY Zenon, <1>0 DEF ChannelInit, Shapes, NoPush
<1>2. ChannelTypeOK
  BY <1>0, ChannelAssumption DEF ChannelInit, ChannelTypeOK, NoPush
<1>3. \A c \in Channels : Line(c) = << >>
  <2>1. LineOf(<< >>, << >>, << >>, << >>, << >>) = << >>
    BY Zenon, <1>0, FlattenIs, CatLaws DEF LineOf, Posted
  <2> QED
    BY Zenon, <2>1, LineIs DEF ChannelInit
<1>4. Increasing(<< >>) /\ Range(<< >>) = {}
  BY DEF Increasing, Range
<1>5. 1 .. accepted = {} /\ dropped = {}
  BY DEF ChannelInit
<1>6. Placed
  BY <1>3, <1>4, <1>5 DEF Placed
<1> QED
  BY <1>1, <1>2, <1>6 DEF ChanInv

\* A step that leaves the lists of the channels alone.
LEMMA QuietChan ==
  ASSUME ChanInv,
         UNCHANGED <<accepted, ch, buf, sendCh, sending, sent, dropped, early>>,
         current' \in 0 .. opened' /\ opened' \in 0 .. MaxChannels,
         updater' \in {"idle", "closing", "terminating", "stopped"},
         pusher' \in [Pushers -> [pc : {"idle", "check", "push"}, chan : 0 .. MaxChannels]],
         \A p \in Pushers : pusher'[p].pc # "idle" => pusher'[p].chan \in Channels,
         collector' \in [Channels -> {"none", "run", "drain", "close", "ended"}]
  PROVE  ChanInv'
<1>1. Shapes'
  BY Zenon DEF ChanInv, Shapes
<1>2. ChannelTypeOK'
  BY Zenon DEF ChanInv, ChannelTypeOK
<1>3. \A c \in Channels : Line(c)' = Line(c)
  BY DEF Line
<1>4. Placed'
  BY <1>3, PlacedSame DEF ChanInv
<1> QED
  BY <1>1, <1>2, <1>4 DEF ChanInv

\* The collector or the sender of channel c takes a step.
Moved(c, a, b, q, u, h, k) ==
  /\ h \in Listing /\ u \in Listing /\ q \in Seq(Listing) /\ b \in Listing /\ a \in Listing
  /\ Len(h) <= QueueSize /\ Len(q) <= SendCapacity
  /\ k \in {"none", "run", "drain", "close", "ended"}
  /\ UNCHANGED <<current, opened, updater, pusher, accepted, early>>
  /\ ch' = [ch EXCEPT ![c] = h] /\ buf' = [buf EXCEPT ![c] = u] /\ sendCh' = [sendCh EXCEPT ![c] = q]
  /\ sending' = [sending EXCEPT ![c] = b] /\ sent' = [sent EXCEPT ![c] = a]
  /\ collector' = [collector EXCEPT ![c] = k]
  /\ dropped' \subseteq Events

\* A step of one channel leaves the lines of the others as they are.
LEMMA ChannelStep ==
  ASSUME ChanInv, NEW c \in Channels, NEW a, NEW b, NEW q, NEW u, NEW h, NEW k,
         Moved(c, a, b, q, u, h, k)
  PROVE  /\ ChannelTypeOK' /\ Shapes'
         /\ Line(c)' = LineOf(a, b, q, u, h)
         /\ \A d \in Channels : d # c => Line(d)' = Line(d)
<1>1. ChannelTypeOK /\ Shapes
  BY DEF ChanInv
<1> USE DEF Moved
<1>2. /\ ch'[c] = h /\ buf'[c] = u /\ sendCh'[c] = q /\ sending'[c] = b /\ sent'[c] = a /\ collector'[c] = k
      /\ \A d \in Channels \ {c} :
           /\ ch'[d] = ch[d] /\ buf'[d] = buf[d] /\ sendCh'[d] = sendCh[d]
           /\ sending'[d] = sending[d] /\ sent'[d] = sent[d] /\ collector'[d] = collector[d]
  BY Zenon, <1>1 DEF Shapes
<1>3. Shapes'
  BY Zenon, <1>1 DEF Shapes
<1>4. Listing = Seq(Events)
  BY DEF Listing
<1>5. ChannelTypeOK'
  <2>1. \A d \in Channels :
          /\ ch'[d] \in Seq(Events) /\ Len(ch'[d]) <= QueueSize
          /\ buf'[d] \in Seq(Events) /\ sending'[d] \in Seq(Events) /\ sent'[d] \in Seq(Events)
          /\ sendCh'[d] \in Seq(Seq(Events)) /\ Len(sendCh'[d]) <= SendCapacity
          /\ collector'[d] \in {"none", "run", "drain", "close", "ended"}
    BY ZenonT(30), <1>1, <1>2, <1>4 DEF ChannelTypeOK
  <2>2. /\ current' \in 0 .. opened' /\ opened' \in 0 .. MaxChannels
        /\ updater' \in {"idle", "closing", "terminating", "stopped"}
        /\ pusher' \in [Pushers -> [pc : {"idle", "check", "push"}, chan : 0 .. MaxChannels]]
        /\ accepted' \in 0 .. MaxEvents
        /\ dropped' \subseteq Events /\ early' \subseteq Events
    BY Zenon, <1>1 DEF ChannelTypeOK
  <2>3. Events' = Events /\ Channels' = Channels
    BY DEF Events, Channels
  <2> QED
    BY Zenon, <2>1, <2>2, <2>3 DEF ChannelTypeOK
<1>6. \A d \in Channels : d # c => Line(d)' = Line(d)
  BY Zenon, <1>2 DEF Line
<1>7. Line(c)' = LineOf(a, b, q, u, h)
  BY Zenon, <1>2, LineIs
<1> QED
  BY Zenon, <1>3, <1>5, <1>6, <1>7

\* A request looks its channel up and moves no event (the Log... methods).
LEMMA GetChannelChan == ASSUME ChanInv, NEW p \in Pushers, GetChannel(p) PROVE ChanInv'
<1>1. /\ pusher \in [Pushers -> [pc : {"idle", "check", "push"}, chan : 0 .. MaxChannels]]
      /\ current \in 0 .. opened /\ opened \in 0 .. MaxChannels
      /\ updater \in {"idle", "closing", "terminating", "stopped"}
      /\ collector \in [Channels -> {"none", "run", "drain", "close", "ended"}]
      /\ \A r \in Pushers : pusher[r].pc # "idle" => pusher[r].chan \in Channels
  BY Zenon DEF ChanInv, ChannelTypeOK, Shapes
<1>2. current \in Channels /\ current \in 0 .. MaxChannels
  BY <1>1, ChannelAssumption DEF GetChannel, Channels
<1>3. /\ pusher' \in [Pushers -> [pc : {"idle", "check", "push"}, chan : 0 .. MaxChannels]]
      /\ \A r \in Pushers : pusher'[r].pc # "idle" => pusher'[r].chan \in Channels
  BY Zenon, <1>1, <1>2 DEF GetChannel
<1> QED
  BY Zenon, <1>1, <1>3, QuietChan DEF GetChannel

\* A push that goes on to its second select, or is refused, moves no event.
LEMMA CheckChan ==
  ASSUME ChanInv, NEW p \in Pushers, CheckDone(p) \/ PushRefused(p)
  PROVE  ChanInv'
<1>1. /\ pusher \in [Pushers -> [pc : {"idle", "check", "push"}, chan : 0 .. MaxChannels]]
      /\ current \in 0 .. opened /\ opened \in 0 .. MaxChannels
      /\ updater \in {"idle", "closing", "terminating", "stopped"}
      /\ collector \in [Channels -> {"none", "run", "drain", "close", "ended"}]
      /\ \A r \in Pushers : pusher[r].pc # "idle" => pusher[r].chan \in Channels
      /\ 0 \in 0 .. MaxChannels
  BY ChannelAssumption DEF ChanInv, ChannelTypeOK, Shapes
<1>2. \/ pusher' = [pusher EXCEPT ![p] = NoPush]
      \/ pusher[p].pc = "check" /\ pusher' = [pusher EXCEPT ![p] = [@ EXCEPT !.pc = "push"]]
  BY DEF CheckDone, PushRefused
<1>3. /\ pusher' \in [Pushers -> [pc : {"idle", "check", "push"}, chan : 0 .. MaxChannels]]
      /\ \A r \in Pushers : pusher'[r].pc # "idle" => pusher'[r].chan \in Channels
  BY <1>1, <1>2 DEF NoPush
<1>4. UNCHANGED <<current, opened, updater, accepted, ch, buf, collector, sendCh, sending, sent, dropped, early>>
  BY DEF CheckDone, PushRefused
<1> QED
  BY Zenon, <1>1, <1>3, <1>4, QuietChan

\* Opening and closing channels moves no event (updateConfig, Close).
LEMMA UpdaterChan ==
  ASSUME ChanInv, Update \/ Terminate \/ CloseReturns
  PROVE  ChanInv'
<1>1. /\ pusher \in [Pushers -> [pc : {"idle", "check", "push"}, chan : 0 .. MaxChannels]]
      /\ current \in 0 .. opened /\ opened \in 0 .. MaxChannels
      /\ updater \in {"idle", "closing", "terminating", "stopped"}
      /\ collector \in [Channels -> {"none", "run", "drain", "close", "ended"}]
      /\ \A r \in Pushers : pusher[r].pc # "idle" => pusher[r].chan \in Channels
  BY Zenon DEF ChanInv, ChannelTypeOK, Shapes
<1>2. UNCHANGED <<pusher, accepted, ch, buf, sendCh, sending, sent, dropped, early>>
  BY Zenon DEF Update, Terminate, CloseReturns
<1>3. updater' \in {"idle", "closing", "terminating", "stopped"}
  BY Zenon, <1>1 DEF Update, Terminate, CloseReturns
<1>4. \/ Open
      \/ UNCHANGED <<opened, collector>> /\ current' \in {0, current}
  BY Zenon DEF Update, Terminate, CloseReturns
<1>5. /\ current' \in 0 .. opened' /\ opened' \in 0 .. MaxChannels
      /\ collector' \in [Channels -> {"none", "run", "drain", "close", "ended"}]
  BY <1>1, <1>4, ChannelAssumption DEF Open, Channels
<1> QED
  BY Zenon, <1>1, <1>2, <1>3, <1>5, QuietChan

\* The collector finds endCh closed, or closes done (start).
LEMMA StartDrainChan ==
  ASSUME ChanInv, NEW c \in Channels, StartDrain(c) \/ EndLoop(c)
  PROVE  ChanInv'
<1>1. /\ pusher \in [Pushers -> [pc : {"idle", "check", "push"}, chan : 0 .. MaxChannels]]
      /\ current \in 0 .. opened /\ opened \in 0 .. MaxChannels
      /\ updater \in {"idle", "closing", "terminating", "stopped"}
      /\ collector \in [Channels -> {"none", "run", "drain", "close", "ended"}]
      /\ \A r \in Pushers : pusher[r].pc # "idle" => pusher[r].chan \in Channels
  BY Zenon DEF ChanInv, ChannelTypeOK, Shapes
<1>2. collector' \in [Channels -> {"none", "run", "drain", "close", "ended"}]
  BY Zenon, <1>1 DEF StartDrain, EndLoop
<1>3. UNCHANGED <<current, opened, updater, pusher, accepted, ch, buf, sendCh, sending, sent, dropped, early>>
  BY Zenon DEF StartDrain, EndLoop
<1> QED
  BY Zenon, <1>1, <1>2, <1>3, QuietChan

\* An event that is accepted joins the line of its channel at the end (Push).
LEMMA PushChan == ASSUME ChanInv, NEW p \in Pushers, PushAccepted(p) PROVE ChanInv'
<1> DEFINE e == accepted + 1
<1>0. ChannelTypeOK /\ Shapes /\ Placed
  BY DEF ChanInv
<1>1. PICK c \in Channels : c = pusher[p].chan
  BY Zenon, <1>0 DEF Shapes, PushAccepted
<1>2. /\ ch[c] \in Listing /\ buf[c] \in Listing /\ sending[c] \in Listing /\ sent[c] \in Listing
      /\ sendCh[c] \in Seq(Listing) /\ accepted \in Nat /\ Len(ch[c]) \in Nat
  BY <1>0, <1>1, ChannelFacts DEF Listing
<1>3. /\ e \in Events /\ accepted' = e /\ accepted < MaxEvents
      /\ ch' = [ch EXCEPT ![c] = Append(@, e)]
      /\ early' \in {early, early \cup {e}}
      /\ pusher' = [pusher EXCEPT ![p] = NoPush]
      /\ Len(ch[c]) < QueueSize
      /\ UNCHANGED <<current, opened, updater, buf, collector, sendCh, sending, sent, dropped>>
  BY <1>1, <1>2, ChannelAssumption DEF PushAccepted, Events
<1> HIDE DEF e
<1>4. Append(ch[c], e) \in Listing /\ Len(Append(ch[c], e)) <= QueueSize
  BY <1>2, <1>3, ChannelAssumption, CatOne DEF Listing
<1>5. /\ pusher' \in [Pushers -> [pc : {"idle", "check", "push"}, chan : 0 .. MaxChannels]]
      /\ \A r \in Pushers : pusher'[r].pc # "idle" => pusher'[r].chan \in Channels
  BY <1>0, <1>3, ChannelAssumption DEF ChannelTypeOK, Shapes, NoPush
<1>6. ch' \in [Channels -> Listing] /\ ch'[c] = Append(ch[c], e) /\ \A d \in Channels : d # c => ch'[d] = ch[d]
  BY Zenon, <1>0, <1>1, <1>3, <1>4 DEF Shapes
<1>7. Shapes'
  BY Zenon, <1>0, <1>3, <1>5, <1>6 DEF Shapes
<1>8. ChannelTypeOK'
  <2>1. \A d \in Channels :
          /\ ch'[d] \in Seq(Events) /\ Len(ch'[d]) <= QueueSize
          /\ buf'[d] \in Seq(Events) /\ sending'[d] \in Seq(Events) /\ sent'[d] \in Seq(Events)
          /\ sendCh'[d] \in Seq(Seq(Events)) /\ Len(sendCh'[d]) <= SendCapacity
          /\ collector'[d] \in {"none", "run", "drain", "close", "ended"}
    BY ZenonT(30), <1>0, <1>3, <1>4, <1>6 DEF ChannelTypeOK, Listing
  <2>2. /\ current' \in 0 .. opened' /\ opened' \in 0 .. MaxChannels
        /\ updater' \in {"idle", "closing", "terminating", "stopped"}
        /\ accepted' \in 0 .. MaxEvents
        /\ dropped' \subseteq Events /\ early' \subseteq Events
    BY <1>0, <1>3, ChannelAssumption DEF ChannelTypeOK, Events
  <2> QED
    BY <1>5, <2>1, <2>2 DEF ChannelTypeOK
<1>9. Line(c)' = Append(Line(c), e)
  <2>1. LineOf(sent[c], sending[c], sendCh[c], buf[c], Append(ch[c], e))
          = Append(LineOf(sent[c], sending[c], sendCh[c], buf[c], ch[c]), e)
    <3>1. /\ sent[c] \in Listing /\ sending[c] \in Listing /\ sendCh[c] \in Seq(Listing)
          /\ buf[c] \in Listing /\ ch[c] \in Listing /\ e \in Events
      BY Zenon, <1>2, <1>3
    <3>2. LineOf(sent[c], sending[c], sendCh[c], buf[c], Put(ch[c], e))
            = Put(LineOf(sent[c], sending[c], sendCh[c], buf[c], ch[c]), e)
      BY <3>1, LinePush
    <3> QED
      BY Zenon, <3>2 DEF Put
  <2>2. Line(c) = LineOf(sent[c], sending[c], sendCh[c], buf[c], ch[c])
    BY Zenon, LineIs
  <2>3. Line(c)' = LineOf(sent[c], sending[c], sendCh[c], buf[c], Append(ch[c], e))
    <3>1. Line(c)' = LineOf(sent'[c], sending'[c], sendCh'[c], buf'[c], ch'[c])
      BY Zenon, LineIs
    <3>2. /\ sent'[c] = sent[c] /\ sending'[c] = sending[c] /\ sendCh'[c] = sendCh[c]
          /\ buf'[c] = buf[c] /\ ch'[c] = Append(ch[c], e)
      BY Zenon, <1>3, <1>6
    <3> QED
      BY <3>1, <3>2, Zenon
  <2> QED
    BY Zenon, <2>1, <2>2, <2>3
<1>10. \A d \in Channels : d # c => Line(d)' = Line(d)
  BY Zenon, <1>3, <1>6 DEF Line
<1>11. Placed'
  BY Zenon, <1>0, <1>1, <1>3, <1>9, <1>10, PlacedPush DEF e
<1> QED
  BY <1>7, <1>8, <1>11 DEF ChanInv

\* A buffer flushed: it joins the queue of the sender or is dropped.
LEMMA FlushLine ==
  ASSUME ChanInv, NEW c \in Channels, NEW events \in Listing, NEW h \in Listing, Len(h) <= QueueSize,
         Flush(c, events),
         NEW k \in {"none", "run", "drain", "close", "ended"},
         UNCHANGED <<current, opened, updater, pusher, accepted, sending, sent, early>>,
         ch' = [ch EXCEPT ![c] = h],
         collector' = [collector EXCEPT ![c] = k],
         Line(c) = LineOf(sent[c], sending[c], sendCh[c], events, h)
  PROVE  ChanInv'
<1>0. ChannelTypeOK /\ Shapes /\ Placed
  BY Zenon DEF ChanInv
<1>1. PICK q \in Seq(Listing), a \in Listing, b \in Listing :
        /\ q = sendCh[c] /\ a = sent[c] /\ b = sending[c] /\ Len(q) \in Nat /\ Len(q) <= SendCapacity
  <2>1. sendCh[c] \in Seq(Listing) /\ sent[c] \in Listing /\ sending[c] \in Listing
    BY Zenon, <1>0, ChannelFacts
  <2>2. Len(sendCh[c]) <= SendCapacity
    BY Zenon, <1>0 DEF ChannelTypeOK
  <2> QED
    BY <2>1, <2>2
<1>9. << >> \in Listing
  BY Zenon, CatLaws
<1>2. /\ buf' = [buf EXCEPT ![c] = << >>]
      /\ sending' = [sending EXCEPT ![c] = b] /\ sent' = [sent EXCEPT ![c] = a]
  BY Zenon, <1>0, <1>1 DEF Shapes, Flush
<1>3. Range(events) \subseteq Events /\ dropped \subseteq Events
  <2>1. \A i \in DOMAIN events : events[i] \in Events
    BY DEF Listing
  <2> QED
    BY Zenon, <1>0, <2>1 DEF Range, ChannelTypeOK
<1>4. CASE Len(q) < SendCapacity /\ events # << >>
  <2>1. sendCh' = [sendCh EXCEPT ![c] = Append(q, events)] /\ UNCHANGED dropped
    BY ZenonT(30), <1>0, <1>1, <1>4 DEF Flush, Shapes
  <2>2. Append(q, events) \in Seq(Listing) /\ Len(Append(q, events)) <= SendCapacity
    BY <1>1, <1>4, ChannelAssumption
  <2>3. /\ ChannelTypeOK' /\ Shapes'
        /\ Line(c)' = LineOf(a, b, Put(q, events), << >>, h)
        /\ \A d \in Channels : d # c => Line(d)' = Line(d)
    <3>1. PICK r \in Seq(Listing) :
            r = Put(q, events) /\ Len(r) <= SendCapacity /\ sendCh' = [sendCh EXCEPT ![c] = r]
      BY Zenon, <2>1, <2>2 DEF Put
    <3>2. dropped' \subseteq Events
      BY ZenonT(30), <1>3, <2>1
    <3>3. /\ ChannelTypeOK' /\ Shapes' /\ Line(c)' = LineOf(a, b, r, << >>, h)
          /\ \A d \in Channels : d # c => Line(d)' = Line(d)
      <4>1. Moved(c, a, b, r, << >>, h, k)
        BY Zenon, <1>2, <1>9, <3>1, <3>2 DEF Moved
      <4> QED
        BY <4>1, ChannelStep
    <3> QED
      BY Zenon, <3>1, <3>3
  <2>4. Line(c)' = Line(c)
    <3>1. LineOf(a, b, Put(q, events), << >>, h) = LineOf(a, b, q, events, h)
      BY LineFlush
    <3> QED
      BY ZenonT(30), <1>1, <2>3, <3>1
  <2>5. Placed'
    BY Zenon, <1>0, <2>1, <2>3, <2>4, PlacedSame
  <2> QED
    BY Zenon, <2>3, <2>5 DEF ChanInv
<1>5. CASE ~(Len(q) < SendCapacity /\ events # << >>)
  <2>1. sendCh' = [sendCh EXCEPT ![c] = q]
    BY Zenon, <1>0, <1>1, <1>5 DEF Flush, Shapes
  <2>2. dropped' = dropped \cup Range(events)
    <3>1. events = << >> => Range(events) = {}
      BY DEF Range
    <3> QED
      BY Zenon, <1>1, <1>5, <3>1 DEF Flush
  <2>3. /\ ChannelTypeOK' /\ Shapes'
        /\ Line(c)' = LineOf(a, b, q, << >>, h)
        /\ \A d \in Channels : d # c => Line(d)' = Line(d)
    <3>1. dropped' \subseteq Events
      BY Zenon, <1>3, <2>2
    <3>2. Moved(c, a, b, q, << >>, h, k)
      BY Zenon, <1>1, <1>2, <1>9, <2>1, <3>1 DEF Moved
    <3> QED
      BY Zenon, <3>2, ChannelStep
  <2>4. PICK x \in Listing : x = Posted(a, b, q)
    BY Zenon, LineType
  <2>5. Line(c) = Cat(x, Cat(events, h))
    <3>1. LineOf(a, b, q, events, h) = Cat(Posted(a, b, q), Cat(events, h))
      BY LineSplit
    <3> QED
      BY Zenon, <1>1, <2>4, <3>1
  <2>6. Line(c)' = Cat(x, h)
    <3>1. LineOf(a, b, q, << >>, h) = Cat(Cat(Posted(a, b, q), << >>), h)
      BY Zenon DEF LineOf
    <3>2. Cat(x, << >>) = x
      BY Zenon, <2>4, CatLaws
    <3>3. LineOf(a, b, q, << >>, h) = Cat(x, h)
      BY <2>4, <3>1, <3>2, Zenon
    <3> QED
      BY Zenon, <2>3, <3>3
  <2>7. Placed'
    BY Zenon, <1>0, <2>2, <2>3, <2>5, <2>6, PlacedDrop
  <2> QED
    BY Zenon, <2>3, <2>7 DEF ChanInv
<1> QED
  BY Zenon, <1>4, <1>5

\* The collector takes the next event, and may flush (buffer, drainPendingEvents).
LEMMA CollectChan ==
  ASSUME ChanInv, NEW c \in Channels, BufferEvent(c) \/ DrainEvent(c)
  PROVE  ChanInv'
<1>0. ChannelTypeOK /\ Shapes /\ Placed
  BY DEF ChanInv
<1>1. /\ ch[c] \in Listing /\ buf[c] \in Listing /\ sending[c] \in Listing /\ sent[c] \in Listing
      /\ sendCh[c] \in Seq(Listing) /\ Len(ch[c]) <= QueueSize /\ Len(sendCh[c]) <= SendCapacity
      /\ ch[c] # << >>
  BY Zenon, <1>0, ChannelFacts DEF ChannelTypeOK, BufferEvent, DrainEvent
<1>10. PICK g \in Listing, v \in Listing, b \in Listing, a \in Listing, q \in Seq(Listing) :
         g = ch[c] /\ v = buf[c] /\ b = sending[c] /\ a = sent[c] /\ q = sendCh[c]
  BY Zenon, <1>1
<1>2. PICK h \in Listing, u \in Listing :
        /\ h = Tail(ch[c]) /\ u = Append(buf[c], Head(ch[c]))
        /\ LineOf(a, b, q, u, h) = LineOf(a, b, q, v, g)
  <2>1. PICK e, t : e = Head(ch[c]) /\ t = Tail(ch[c])
    BY Zenon
  <2>2. /\ t \in Listing /\ Put(v, e) \in Listing
        /\ LineOf(a, b, q, Put(v, e), t) = LineOf(a, b, q, v, g)
    <3>1. g # << >> /\ e = Head(g) /\ t = Tail(g)
      BY Zenon, <1>1, <1>10, <2>1
    <3>2. e \in Events /\ t \in Listing
      BY Zenon, <3>1, CatHead
    <3>3. Put(v, e) \in Listing
      BY Zenon, <3>2, CatOne DEF Put
    <3>4. LineOf(a, b, q, Put(v, e), t) = LineOf(a, b, q, v, g)
      <4>1. SplitsInto(g, e, t)
        BY Zenon, <3>1 DEF SplitsInto
      <4> QED
        BY <4>1, LineMove
    <3> QED
      BY Zenon, <3>2, <3>3, <3>4
  <2>3. Put(v, e) = Append(buf[c], Head(ch[c]))
    BY Zenon, <1>10, <2>1 DEF Put
  <2> QED
    BY Zenon, <2>1, <2>2, <2>3
<1>3. Len(h) <= QueueSize
  BY <1>1, <1>2, ChannelAssumption DEF Listing
<1>4. Line(c) = LineOf(sent[c], sending[c], sendCh[c], u, h) /\ Line(c) = LineOf(a, b, q, u, h)
  BY Zenon, <1>2, <1>10, LineIs
<1>5. PICK k \in {"none", "run", "drain", "close", "ended"} : k = collector[c]
  BY Zenon, <1>0 DEF Shapes
<1>6. /\ ch' = [ch EXCEPT ![c] = h] /\ collector' = [collector EXCEPT ![c] = k]
      /\ sending' = [sending EXCEPT ![c] = b] /\ sent' = [sent EXCEPT ![c] = a]
      /\ UNCHANGED <<current, opened, updater, pusher, accepted, sending, sent, early>>
  BY Zenon, <1>0, <1>2, <1>5, <1>10 DEF Shapes, BufferEvent, DrainEvent
<1>7. CASE BufferEvent(c) /\ Flush(c, u)
  BY Zenon, <1>3, <1>4, <1>6, <1>7, FlushLine
<1>8. CASE ~(BufferEvent(c) /\ Flush(c, u))
  <2>1. /\ buf' = [buf EXCEPT ![c] = u] /\ sendCh' = [sendCh EXCEPT ![c] = q]
        /\ UNCHANGED dropped
    BY Zenon, <1>0, <1>2, <1>8, <1>10 DEF BufferEvent, DrainEvent, Shapes
  <2>2. dropped' \subseteq Events
    BY Zenon, <1>0, <2>1 DEF ChannelTypeOK
  <2>3. /\ ChannelTypeOK' /\ Shapes'
        /\ Line(c)' = LineOf(a, b, q, u, h)
        /\ \A d \in Channels : d # c => Line(d)' = Line(d)
    <3>1. Moved(c, a, b, q, u, h, k)
      BY Zenon, <1>1, <1>3, <1>6, <1>10, <2>1, <2>2 DEF Moved
    <3> QED
      BY Zenon, <3>1, ChannelStep
  <2>4. Placed'
    BY Zenon, <1>0, <1>4, <1>6, <2>1, <2>3, PlacedSame
  <2> QED
    BY Zenon, <2>3, <2>4 DEF ChanInv
<1> QED
  BY <1>7, <1>8

\* The buffer is passed to the sender, or dropped with its events (flush).
LEMMA FlushChan ==
  ASSUME ChanInv, NEW c \in Channels, FlushTick(c) \/ FlushLast(c)
  PROVE  ChanInv'
<1>0. ChannelTypeOK /\ Shapes
  BY DEF ChanInv
<1>1. PICK h \in Listing, u \in Listing : h = ch[c] /\ u = buf[c] /\ Len(h) <= QueueSize
  BY Zenon, <1>0, ChannelFacts DEF ChannelTypeOK
<1>2. PICK k \in {"none", "run", "drain", "close", "ended"} :
        collector' = [collector EXCEPT ![c] = k]
  BY Zenon, <1>0 DEF Shapes, FlushTick, FlushLast
<1>3. /\ Flush(c, u) /\ ch' = [ch EXCEPT ![c] = h]
      /\ UNCHANGED <<current, opened, updater, pusher, accepted, sending, sent, early>>
  BY Zenon, <1>0, <1>1 DEF Shapes, FlushTick, FlushLast
<1>4. Line(c) = LineOf(sent[c], sending[c], sendCh[c], u, h)
  BY Zenon, <1>1, LineIs
<1> QED
  BY Zenon, <1>1, <1>2, <1>3, <1>4, FlushLine

\* The sender posts one buffer after the other (sendLoop).
LEMMA SenderChan ==
  ASSUME ChanInv, NEW c \in Channels, SendNext(c) \/ SendEnds(c)
  PROVE  ChanInv'
<1>0. ChannelTypeOK /\ Shapes /\ Placed
  BY DEF ChanInv
<1>1. PICK h \in Listing, u \in Listing, b \in Listing, a \in Listing, q \in Seq(Listing) :
        /\ h = ch[c] /\ u = buf[c] /\ b = sending[c] /\ a = sent[c] /\ q = sendCh[c]
        /\ Len(h) <= QueueSize /\ Len(q) <= SendCapacity
  <2>1. /\ ch[c] \in Listing /\ buf[c] \in Listing /\ sending[c] \in Listing /\ sent[c] \in Listing
        /\ sendCh[c] \in Seq(Listing)
    BY Zenon, <1>0, ChannelFacts
  <2>2. Len(ch[c]) <= QueueSize /\ Len(sendCh[c]) <= SendCapacity
    BY Zenon, <1>0 DEF ChannelTypeOK
  <2> QED
    BY Zenon, <2>1, <2>2
<1>2. PICK k \in {"none", "run", "drain", "close", "ended"} : k = collector[c]
  BY Zenon, <1>0 DEF Shapes
<1>3. Line(c) = LineOf(a, b, q, u, h)
  BY Zenon, <1>1, LineIs
<1>4. << >> \in Listing
  BY Zenon, CatLaws
<1>5. CASE SendNext(c)
  <2>1. q # << >> /\ b = << >>
    BY Zenon, <1>1, <1>5 DEF SendNext
  <2>2. PICK d \in Listing, r \in Seq(Listing) : d = Head(q) /\ r = Tail(q) /\ Len(r) <= SendCapacity
    <3>1. Head(q) \in Listing /\ Tail(q) \in Seq(Listing) /\ Len(Tail(q)) = Len(q) - 1 /\ Len(q) \in Nat
      BY <2>1, HeadTailProperties
    <3>2. Len(Tail(q)) <= SendCapacity
      BY <1>1, <3>1, ChannelAssumption
    <3> QED
      BY Zenon, <3>1, <3>2
  <2>3. Moved(c, a, d, r, u, h, k) /\ UNCHANGED dropped
    BY Zenon, <1>0, <1>1, <1>2, <1>5, <2>2 DEF Moved, SendNext, Shapes, ChannelTypeOK
  <2>4. LineOf(a, d, r, u, h) = LineOf(a, b, q, u, h)
    BY <2>1, <2>2, LineNext
  <2>5. /\ ChannelTypeOK' /\ Shapes' /\ Line(c)' = LineOf(a, d, r, u, h)
        /\ \A x \in Channels : x # c => Line(x)' = Line(x)
    BY Zenon, <2>3, ChannelStep
  <2>6. Placed'
    BY Zenon, <1>0, <1>3, <2>3, <2>4, <2>5, PlacedSame DEF Moved
  <2> QED
    BY Zenon, <2>5, <2>6 DEF ChanInv
<1>6. CASE SendEnds(c)
  <2>1. PICK d \in Listing : d = Cat(a, b)
    BY Zenon, CatLaws
  <2>2. sent' = [sent EXCEPT ![c] = d]
    BY Zenon, <1>1, <1>6, <2>1 DEF SendEnds, Cat
  <2>3. Moved(c, d, << >>, q, u, h, k) /\ UNCHANGED dropped
    BY Zenon, <1>0, <1>1, <1>2, <1>4, <1>6, <2>2 DEF Moved, SendEnds, Shapes, ChannelTypeOK
  <2>4. LineOf(d, << >>, q, u, h) = LineOf(a, b, q, u, h)
    BY <2>1, LineSent
  <2>5. /\ ChannelTypeOK' /\ Shapes' /\ Line(c)' = LineOf(d, << >>, q, u, h)
        /\ \A x \in Channels : x # c => Line(x)' = Line(x)
    BY Zenon, <2>3, ChannelStep
  <2>6. Placed'
    BY Zenon, <1>0, <1>3, <2>3, <2>4, <2>5, PlacedSame DEF Moved
  <2> QED
    BY Zenon, <2>5, <2>6 DEF ChanInv
<1> QED
  BY <1>5, <1>6

\* Every step of the module keeps the invariant.
LEMMA StepChan == ChanInv /\ [ChannelNext]_channelVars => ChanInv'
<1> SUFFICES ASSUME ChanInv, [ChannelNext]_channelVars PROVE ChanInv'
  OBVIOUS
<1>1. CASE Update \/ Terminate \/ CloseReturns
  BY <1>1, UpdaterChan
<1>2. ASSUME NEW p \in Pushers, PusherNext(p) PROVE ChanInv'
  <2>1. CASE GetChannel(p)
    BY <2>1, GetChannelChan
  <2>2. CASE CheckDone(p) \/ PushRefused(p)
    BY <2>2, CheckChan
  <2>3. CASE PushAccepted(p)
    BY <2>3, PushChan
  <2> QED
    BY Zenon, <1>2, <2>1, <2>2, <2>3 DEF PusherNext
<1>3. ASSUME NEW c \in Channels,
             \/ BufferEvent(c) \/ FlushTick(c) \/ StartDrain(c)
             \/ DrainEvent(c) \/ FlushLast(c) \/ EndLoop(c)
             \/ SendNext(c) \/ SendEnds(c)
      PROVE  ChanInv'
  <2>1. CASE BufferEvent(c) \/ DrainEvent(c)
    BY <2>1, CollectChan
  <2>2. CASE FlushTick(c) \/ FlushLast(c)
    BY <2>2, FlushChan
  <2>3. CASE StartDrain(c) \/ EndLoop(c)
    BY <2>3, StartDrainChan
  <2>4. CASE SendNext(c) \/ SendEnds(c)
    BY <2>4, SenderChan
  <2> QED
    BY Zenon, <1>3, <2>1, <2>2, <2>3, <2>4
<1>4. CASE UNCHANGED channelVars
  <2>1. ChannelTypeOK' /\ Shapes'
    BY Zenon, <1>4 DEF ChanInv, ChannelTypeOK, Shapes, channelVars
  <2>2. \A c \in Channels : Line(c)' = Line(c)
    BY Zenon, <1>4 DEF Line, channelVars
  <2>3. Placed'
    BY Zenon, <1>4, <2>2, PlacedSame DEF ChanInv, channelVars
  <2> QED
    BY <2>1, <2>3 DEF ChanInv
<1> QED
  BY Zenon, <1>1, <1>2, <1>3, <1>4 DEF ChannelNext

\* The lists of a channel hold events, within the capacities of the two Go
\* channels, whatever requests, collectors, senders and updates do (Push,
\* start, sendLoop, updateConfig).
THEOREM ChannelTypeCorrect == ChannelSpec => []ChannelTypeOK
<1>1. ChanInv => ChannelTypeOK
  BY DEF ChanInv
<1> QED
  BY <1>1, InitChan, StepChan, PTL DEF ChannelSpec

INSTANCE FiniteSetTheorems

\* The invariant gives order and uniqueness: the lines are increasing and disjoint.
LEMMA PlacedOnce == ChanInv => InOrderAndOnce
<1> SUFFICES ASSUME ChanInv PROVE InOrderAndOnce
  OBVIOUS
<1>1. /\ dropped \subseteq 1 .. accepted
      /\ \A c \in Channels : Increasing(Line(c)) /\ Range(Line(c)) \subseteq (1 .. accepted) \ dropped
      /\ \A e \in (1 .. accepted) \ dropped : \E c \in Channels : e \in Range(Line(c))
      /\ \A c, d \in Channels : c # d => Range(Line(c)) \cap Range(Line(d)) = {}
  BY Zenon DEF ChanInv, Placed
<1>2. \A c \in Channels : \A i, j \in DOMAIN Line(c) : i < j => Line(c)[i] < Line(c)[j]
  BY Zenon, <1>1 DEF Increasing
<1>3. ASSUME NEW e \in 1 .. accepted
      PROVE  Cardinality({c \in Channels : e \in Range(Line(c))}) = IF e \in dropped THEN 0 ELSE 1
  <2>1. CASE e \in dropped
    <3>1. {c \in Channels : e \in Range(Line(c))} = {}
      BY Zenon, <1>1, <2>1
    <3> QED
      BY Zenon, <2>1, <3>1, FS_EmptySet
  <2>2. CASE e \notin dropped
    <3>1. PICK c \in Channels : e \in Range(Line(c))
      BY Zenon, <1>1, <2>2
    <3>2. {d \in Channels : e \in Range(Line(d))} = {c}
      BY Zenon, <1>1, <3>1
    <3> QED
      BY Zenon, <2>2, <3>2, FS_Singleton
  <2> QED
    BY Zenon, <2>1, <2>2
<1> QED
  BY Zenon, <1>2, <1>3 DEF InOrderAndOnce

\* Events leave a channel in the order of their acceptance, and every accepted
\* event is in one channel or was dropped, for any number of requests and
\* channels and any capacity (Push, start, flush, sendLoop).
THEOREM InOrderAndOnceHolds == ChannelSpec => []InOrderAndOnce
BY InitChan, StepChan, PlacedOnce, PTL DEF ChannelSpec
=============================================================================
