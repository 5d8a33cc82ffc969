---------------------------- MODULE RpcSink_proofs ----------------------------
(***************************************************************************)
(* The proofs about RpcSink: whatever packets the host sends, a worker     *)
(* gets the requests among them, each once, whole and in order, no job is  *)
(* leaked, and none is written beyond its memory unless the length in its  *)
(* packet, a signed number, is less than the bytes of a length.            *)
(*                                                                         *)
(* What the framing, FlattenSeq, and the length, FoldRight, compute for    *)
(* every input needs induction; SetInduction gives it without an operator  *)
(* as a parameter: the set of the numbers that have the property is shown  *)
(* to hold every number.                                                   *)
(***************************************************************************)
EXTENDS RpcSink, SequenceTheorems, WellFoundedInduction, TLAPS

\* Every set of numbers that is not empty has a least one.
LEMMA HasLeast ==
    ASSUME NEW T, T \subseteq Nat, T # {}
    PROVE  \E x \in T : \A y \in T : ~ (y < x)
<1>1. \E x \in T : \A y \in T : ~ (<<y, x>> \in OpToRel(<, Nat))
  BY NatLessThanWellFounded, WFMin, Zenon
<1>2. \A x, y \in Nat : (<<y, x>> \in OpToRel(<, Nat)) <=> y < x
  BY Zenon DEF OpToRel
<1> QED BY <1>1, <1>2, Zenon

\* Induction: the set of the numbers that have the property is all of Nat.
LEMMA SetInduction ==
    ASSUME NEW S, 0 \in S, \A n \in Nat : n \in S => n + 1 \in S
    PROVE  Nat \subseteq S
<1>1. SUFFICES ASSUME Nat \ S # {} PROVE FALSE
  OBVIOUS
<1>2. PICK x \in Nat \ S : \A y \in Nat \ S : ~ (y < x)
  BY <1>1, HasLeast, Zenon
<1>3. x # 0 /\ x - 1 \in Nat /\ x - 1 < x /\ (x - 1) + 1 = x
  BY <1>2
<1>4. x - 1 \in S
  BY <1>2, <1>3
<1> QED BY <1>2, <1>3, <1>4

Flattens(g, s, n) ==
    g = [i \in 1..n |-> IF i = 1 THEN s[i] ELSE g[i - 1] \o s[i]]

\* The recursive function of FlattenSeq exists: one for n + 1 is made of one for n.
LEMMA FlattenExists ==
    ASSUME NEW s, NEW m \in Nat
    PROVE  \E g : Flattens(g, s, m)
<1> DEFINE S == {n \in Nat : \E g : Flattens(g, s, n)}
<1>1. 0 \in S
  <2>1. Flattens([i \in 1..0 |-> 0], s, 0)
    BY DEF Flattens
  <2> QED BY <2>1
<1>2. ASSUME NEW n \in Nat, n \in S PROVE n + 1 \in S
  <2>1. PICK g : Flattens(g, s, n)
    BY <1>2
  <2> DEFINE next == IF n = 0 THEN s[1] ELSE g[n] \o s[n + 1]
             h == [i \in 1..(n + 1) |-> IF i = n + 1 THEN next ELSE g[i]]
             b == [i \in 1..(n + 1) |-> IF i = 1 THEN s[i] ELSE h[i - 1] \o s[i]]
  <2>2. ASSUME NEW i \in 1..(n + 1) PROVE h[i] = b[i]
    <3>1. CASE i = n + 1
      <4>1. CASE n = 0
        BY <3>1, <4>1
      <4>2. CASE n # 0
        <5>1. n \in 1..(n + 1) /\ n # n + 1
          BY <4>2
        <5>2. h[n] = g[n]
          BY <5>1
        <5>3. b[i] = IF i = 1 THEN s[i] ELSE h[i - 1] \o s[i]
          OBVIOUS
        <5>4. b[i] = h[n] \o s[n + 1]
          <6> HIDE DEF h, b
          <6>1. i - 1 = n /\ i # 1
            BY <3>1, <4>2
          <6> QED BY <3>1, <5>3, <6>1
        <5> QED BY <3>1, <4>2, <5>2, <5>4
      <4> QED BY <4>1, <4>2
    <3>2. CASE i # n + 1
      <4>1. i \in 1..n /\ h[i] = g[i]
        BY <3>2
      <4>2. g[i] = IF i = 1 THEN s[i] ELSE g[i - 1] \o s[i]
        BY <2>1, <4>1 DEF Flattens
      <4>3. i # 1 => h[i - 1] = g[i - 1]
        BY <3>2
      <4>4. b[i] = IF i = 1 THEN s[i] ELSE h[i - 1] \o s[i]
        OBVIOUS
      <4> QED BY <4>1, <4>2, <4>3, <4>4, Zenon
    <3> QED BY <3>1, <3>2
  <2>3. h = b
    <3> HIDE DEF next
    <3>1. DOMAIN h = 1..(n + 1) /\ DOMAIN b = 1..(n + 1)
      OBVIOUS
    <3>2. h = [i \in 1..(n + 1) |-> h[i]] /\ b = [i \in 1..(n + 1) |-> b[i]]
      OBVIOUS
    <3> HIDE DEF h, b
    <3> QED BY <2>2, <3>2, Zenon
  <2>4. Flattens(h, s, n + 1)
    BY <2>3, Zenon DEF Flattens
  <2> HIDE DEF h
  <2> QED BY <2>4
<1> HIDE DEF S
<1>3. m \in S
  BY <1>1, <1>2, SetInduction
<1> QED BY <1>3 DEF S

\* Its values, from the front on.
LEMMA FlattensAt ==
    ASSUME NEW g, NEW s, NEW n \in Nat \ {0}, Flattens(g, s, n)
    PROVE  g[1] = s[1] /\ \A i \in 2..n : g[i] = g[i - 1] \o s[i]
<1>1. \A i \in 1..n : g[i] = IF i = 1 THEN s[i] ELSE g[i - 1] \o s[i]
  BY Zenon DEF Flattens
<1>2. 1 \in 1..n /\ \A i \in 2..n : i \in 1..n /\ i # 1
  OBVIOUS
<1> QED BY <1>1, <1>2, Zenon

\* FlattenSeq takes the last of them.
LEMMA FlattenIs ==
    ASSUME NEW s, Len(s) \in Nat \ {0}
    PROVE  \E g : Flattens(g, s, Len(s)) /\ FlattenSeq(s) = g[Len(s)]
BY FlattenExists DEF Flattens, FlattenSeq

\* How FlattenSeq takes a sequence of sequences apart, from its front.
LEMMA FlattenCons ==
    ASSUME NEW A, NEW a \in Seq(A), NEW s \in Seq(Seq(A))
    PROVE  /\ FlattenSeq(s) \in Seq(A)
           /\ FlattenSeq(<<a>> \o s) = a \o FlattenSeq(s)
<1> DEFINE t == <<a>> \o s
<1>1. /\ Len(s) \in Nat /\ Len(t) = Len(s) + 1
      /\ t[1] = a /\ \A i \in 1..Len(s) : s[i] \in Seq(A) /\ t[i + 1] = s[i]
  OBVIOUS
<1> HIDE DEF t
<1>2. PICK h : Flattens(h, t, Len(t)) /\ FlattenSeq(t) = h[Len(t)]
  BY <1>1, FlattenIs
<1>3. h[1] = a /\ \A i \in 2..Len(t) : h[i] = h[i - 1] \o t[i]
  <2>1. Len(t) \in Nat \ {0} /\ Flattens(h, t, Len(t))
    BY <1>1, <1>2
  <2>2. h[1] = t[1] /\ \A i \in 2..Len(t) : h[i] = h[i - 1] \o t[i]
    BY <2>1, FlattensAt, Zenon
  <2> QED BY <1>1, <2>2
<1>4. CASE Len(s) = 0
  <2>1. s = << >> /\ FlattenSeq(s) = << >>
    BY <1>4 DEF FlattenSeq
  <2>2. FlattenSeq(t) = a
    BY <1>1, <1>2, <1>3, <1>4
  <2>3. FlattenSeq(t) = a \o FlattenSeq(s) /\ FlattenSeq(s) \in Seq(A)
    <3>1. a \o << >> = a /\ << >> \in Seq(A)
      BY ConcatEmptySeq
    <3> QED BY <2>1, <2>2, <3>1
  <2> QED BY <2>3 DEF t
<1>5. CASE Len(s) # 0
  <2>1. PICK g : Flattens(g, s, Len(s)) /\ FlattenSeq(s) = g[Len(s)]
    BY <1>1, <1>5, FlattenIs
  <2>2. g[1] = s[1] /\ \A i \in 2..Len(s) : g[i] = g[i - 1] \o s[i]
    <3>1. Len(s) \in Nat \ {0} /\ Flattens(g, s, Len(s))
      BY <1>1, <1>5, <2>1
    <3> QED BY <3>1, FlattensAt, Zenon
  <2> DEFINE S == {n \in Nat : n < Len(s) => g[n + 1] \in Seq(A) /\ h[n + 2] = a \o g[n + 1]}
  <2>3. 0 \in S
    <3>1. h[2] = h[1] \o t[2]
      <4>1. 2 \in 2..Len(t) /\ 2 - 1 = 1
        BY <1>1, <1>5
      <4> QED BY <1>3, <4>1
    <3> QED BY <1>1, <1>3, <1>5, <2>2, <3>1
  <2>4. ASSUME NEW n \in Nat, n \in S PROVE n + 1 \in S
    <3>1. CASE n + 1 >= Len(s)
      BY <1>1, <3>1
    <3>2. CASE n + 1 < Len(s)
      <4>1. g[n + 1] \in Seq(A) /\ h[n + 2] = a \o g[n + 1] /\ s[n + 2] \in Seq(A)
        BY <1>1, <2>4, <3>2
      <4>2. g[n + 2] = g[n + 1] \o s[n + 2]
        <5>1. n + 2 \in 2..Len(s) /\ (n + 2) - 1 = n + 1
          BY <1>1, <3>2
        <5> QED BY <2>2, <5>1
      <4>3. h[n + 3] = h[n + 2] \o s[n + 2]
        <5>1. n + 3 \in 2..Len(t) /\ (n + 3) - 1 = n + 2 /\ t[n + 3] = s[n + 2]
          <6>1. n + 2 \in 1..Len(s) /\ (n + 2) + 1 = n + 3
            BY <1>1, <3>2
          <6> QED BY <1>1, <3>2, <6>1
        <5> QED BY <1>3, <5>1
      <4>4. (a \o g[n + 1]) \o s[n + 2] = a \o (g[n + 1] \o s[n + 2])
        <5>1. \A x, y, z \in Seq(A) : (x \o y) \o z = x \o (y \o z)
          <6> TAKE x, y, z \in Seq(A)
          <6> QED BY ConcatAssociative, SMT
        <5> QED BY <4>1, <5>1, Zenon
      <4>5. g[n + 1] \o s[n + 2] \in Seq(A)
        BY <4>1, ConcatProperties
      <4>6. g[n + 2] \in Seq(A) /\ h[n + 3] = a \o g[n + 2]
        BY <4>1, <4>2, <4>3, <4>4, <4>5, Zenon
      <4> QED BY <4>6
    <3> QED BY <1>1, <3>1, <3>2
  <2> HIDE DEF S
  <2>5. Len(s) - 1 \in S
    <3>1. Nat \subseteq S
      BY <2>3, <2>4, SetInduction
    <3> QED BY <1>1, <1>5, <3>1
  <2>6. g[Len(s)] \in Seq(A) /\ h[Len(s) + 1] = a \o g[Len(s)]
    BY <1>1, <1>5, <2>5 DEF S
  <2>7. FlattenSeq(t) = a \o FlattenSeq(s) /\ FlattenSeq(s) \in Seq(A)
    BY <1>1, <1>2, <2>1, <2>6, Zenon
  <2> QED BY <2>7 DEF t
<1> QED BY <1>1, <1>4, <1>5

------------------------------------------------------------------------------
Bytes == 0..255

\* What the host sends in place of a byte is one or two bytes.
LEMMA EscapedIs ==
    ASSUME NEW b \in Bytes
    PROVE  /\ NeedsEscape(b) => /\ Xor20(b) \in Bytes \ {SOP, EOP, ESCAPE}
                                /\ Xor20(Xor20(b)) = b
                                /\ Escaped(b) = <<ESCAPE, Xor20(b)>>
           /\ ~ NeedsEscape(b) => /\ b \notin {SOP, EOP, ESCAPE}
                                  /\ Escaped(b) = <<b>>
           /\ Escaped(b) \in Seq(Bytes)
<1>1. CASE NeedsEscape(b)
  <2>1. b \in {122, 123, 124, 125}
    BY <1>1 DEF NeedsEscape, SOP, ESCAPE, Bytes
  <2>2. b \div 32 = 3 /\ 3 % 2 = 1
    BY <2>1
  <2>3. Xor20(b) = b - 32 /\ (b - 32) \div 32 = 2 /\ 2 % 2 = 0
    BY <2>1, <2>2 DEF Xor20
  <2>4. Xor20(b - 32) = b
    BY <2>1, <2>3 DEF Xor20
  <2>5. ESCAPE \in Bytes /\ Xor20(b) \in Bytes \ {SOP, EOP, ESCAPE}
    BY <2>1, <2>3 DEF Bytes, SOP, EOP, ESCAPE
  <2>6. Escaped(b) = <<ESCAPE, Xor20(b)>>
    BY <1>1 DEF Escaped
  <2> QED BY <1>1, <2>3, <2>4, <2>5, <2>6
<1>2. CASE ~ NeedsEscape(b)
  <2>1. b \notin {SOP, EOP, ESCAPE}
    BY <1>2 DEF NeedsEscape, SOP, EOP, ESCAPE, Bytes
  <2>2. Escaped(b) = <<b>>
    BY <1>2 DEF Escaped
  <2> QED BY <1>2, <2>1, <2>2
<1> QED BY <1>1, <1>2

\* A sequence is escaped byte by byte.
LEMMA EscapedAllIs ==
    ASSUME NEW s \in Seq(Bytes)
    PROVE  /\ EscapedAll(s) \in Seq(Bytes)
           /\ s = << >> => EscapedAll(s) = << >>
           /\ s # << >> => EscapedAll(s) = Escaped(Head(s)) \o EscapedAll(Tail(s))
<1> DEFINE E(u) == [i \in DOMAIN u |-> Escaped(u[i])]
<1>1. ASSUME NEW u \in Seq(Bytes) PROVE E(u) \in Seq(Seq(Bytes)) /\ Len(E(u)) = Len(u)
  <2>1. \A i \in 1..Len(u) : Escaped(u[i]) \in Seq(Bytes)
    BY EscapedIs
  <2> QED BY <2>1
<1>2. EscapedAll(s) \in Seq(Bytes)
  <2>1. << >> \in Seq(Bytes)
    OBVIOUS
  <2> QED BY <1>1, <2>1, FlattenCons DEF EscapedAll
<1>3. s = << >> => EscapedAll(s) = << >>
  BY <1>1 DEF EscapedAll, FlattenSeq
<1>4. ASSUME s # << >> PROVE EscapedAll(s) = Escaped(Head(s)) \o EscapedAll(Tail(s))
  <2>1. Tail(s) \in Seq(Bytes) /\ Head(s) \in Bytes /\ Escaped(Head(s)) \in Seq(Bytes)
    BY <1>4, HeadTailProperties, EscapedIs
  <2>2. E(Tail(s)) \in Seq(Seq(Bytes)) /\ E(s) \in Seq(Seq(Bytes))
    BY <1>1, <2>1
  <2>3. E(s) = <<Escaped(Head(s))>> \o E(Tail(s))
    <3> DEFINE r == <<Escaped(Head(s))>> \o E(Tail(s))
    <3>1. r \in Seq(Seq(Bytes)) /\ Len(r) = Len(s) /\ Len(E(s)) = Len(s)
      BY <1>1, <1>4, <2>1, <2>2
    <3>2. \A i \in 1..Len(s) : E(s)[i] = r[i]
      BY <1>4, <2>1
    <3> HIDE DEF r, E
    <3>3. E(s) = r
      BY <2>2, <3>1, <3>2, SeqEqual
    <3> QED BY <3>3 DEF r
  <2> HIDE DEF E
  <2>4. FlattenSeq(E(s)) = Escaped(Head(s)) \o FlattenSeq(E(Tail(s)))
    BY <2>1, <2>2, <2>3, FlattenCons
  <2> QED BY <2>4 DEF E, EscapedAll
<1> QED BY <1>2, <1>3, <1>4
------------------------------------------------------------------------------
\* g is the function by which FoldRight goes through the numbers of D.
FoldsBytes(g, s, D) ==
    g = [u \in SUBSET D |->
           IF u = {} THEN 0 ELSE s[Min(u)] + 256 * g[u \ {Min(u)}]]

\* Value(s) is what such a function makes of all the positions.
LEMMA ValueFolds ==
    ASSUME NEW s, NEW n, DOMAIN s = 1..n, NEW h, FoldsBytes(h, s, 1..n)
    PROVE  \E g : FoldsBytes(g, s, 1..n) /\ Value(s) = g[1..n] % WORD
<1>1. Value(s) = (CHOOSE g : FoldsBytes(g, s, DOMAIN s))[DOMAIN s] % WORD
  BY Zenon DEF Value, FoldRight, MapThenFoldSet, FoldsBytes
<1>2. FoldsBytes(CHOOSE g : FoldsBytes(g, s, 1..n), s, 1..n)
  BY Zenon
<1> QED BY <1>1, <1>2, Zenon

\* The element of u that FoldRight takes next.
LEMMA LeastIs ==
    ASSUME NEW u, u \subseteq Int, NEW x \in u, \A y \in u : x <= y
    PROVE  Min(u) = x
<1>1. \A y \in u : (\A z \in u : y <= z) => y = x
  OBVIOUS
<1> QED BY <1>1, Zenon DEF Min

\* There is such a function: it is extended to one more position, from the last
\* position to the first.
LEMMA FoldsExists ==
    ASSUME NEW s, NEW n \in Nat
    PROVE  \E g : FoldsBytes(g, s, 1..n)
<1> DEFINE D(m) == {i \in 1..n : i > n - m}
           S == {m \in Nat : m <= n => \E g : FoldsBytes(g, s, D(m))}
<1>1. 0 \in S
  <2>1. D(0) = {}
    OBVIOUS
  <2> DEFINE g == [u \in SUBSET {} |-> 0]
  <2>2. FoldsBytes(g, s, {})
    BY DEF FoldsBytes
  <2> HIDE DEF g
  <2>3. \E f : FoldsBytes(f, s, D(0))
    BY <2>1, <2>2
  <2> HIDE DEF D
  <2> QED BY <2>3
<1>2. ASSUME NEW m \in Nat, m \in S PROVE m + 1 \in S
  <2> SUFFICES ASSUME m + 1 <= n PROVE \E h : FoldsBytes(h, s, D(m + 1))
    OBVIOUS
  <2> DEFINE x == n - m
  <2>1. PICK g : FoldsBytes(g, s, D(m))
    BY <1>2
  <2>2. /\ D(m) \subseteq D(m + 1) /\ x \notin D(m) /\ x \in D(m + 1)
        /\ \A i \in D(m + 1) : i # x => i \in D(m)
        /\ \A i \in D(m + 1) : x <= i /\ i \in Int
    OBVIOUS
  <2> HIDE DEF D, x
  <2> DEFINE E == D(m + 1)
             h == [u \in SUBSET E |-> IF x \in u THEN s[x] + 256 * g[u \ {x}] ELSE g[u]]
             b == [u \in SUBSET E |->
                     IF u = {} THEN 0 ELSE s[Min(u)] + 256 * h[u \ {Min(u)}]]
  <2>3. ASSUME NEW u \in SUBSET E PROVE h[u] = b[u]
    <3>1. CASE x \in u
      <4>1. Min(u) = x
        BY <2>2, <3>1, LeastIs
      <4>2. u \ {x} \in SUBSET E /\ h[u \ {x}] = g[u \ {x}]
        OBVIOUS
      <4>3. h[u] = s[x] + 256 * g[u \ {x}]
        BY <3>1
      <4>4. b[u] = s[Min(u)] + 256 * h[u \ {Min(u)}]
        BY <3>1
      <4> HIDE DEF h, b
      <4> QED BY <4>1, <4>2, <4>3, <4>4
    <3>2. CASE x \notin u
      <4>1. u \in SUBSET D(m) /\ h[u] = g[u]
        BY <2>2, <3>2
      <4>2. g[u] = IF u = {} THEN 0 ELSE s[Min(u)] + 256 * g[u \ {Min(u)}]
        BY <2>1, <4>1, Zenon DEF FoldsBytes
      <4>3. u \ {Min(u)} \in SUBSET E /\ h[u \ {Min(u)}] = g[u \ {Min(u)}]
        BY <3>2
      <4>4. b[u] = IF u = {} THEN 0 ELSE s[Min(u)] + 256 * h[u \ {Min(u)}]
        OBVIOUS
      <4> HIDE DEF h, b
      <4> QED BY <4>1, <4>2, <4>3, <4>4
    <3> QED BY <3>1, <3>2
  <2>4. h = b
    <3>1. h = [u \in SUBSET E |-> h[u]] /\ b = [u \in SUBSET E |-> b[u]]
      OBVIOUS
    <3> HIDE DEF h, b
    <3> QED BY <2>3, <3>1, Zenon
  <2>5. FoldsBytes(h, s, E)
    BY <2>4, Zenon DEF FoldsBytes
  <2> HIDE DEF h
  <2> QED BY <2>5
<1> HIDE DEF S
<1>3. n \in S
  <2>1. Nat \subseteq S
    BY <1>1, <1>2, SetInduction
  <2> QED BY <2>1
<1>4. D(n) = 1..n
  OBVIOUS
<1> HIDE DEF D
<1> QED BY <1>3, <1>4 DEF S

LEMMA Remainder ==
    ASSUME NEW a \in Nat, NEW b \in Nat \ {0}
    PROVE  a % b \in 0..(b - 1)
OBVIOUS

\* A length is a number of its width, whatever bytes it is made of.
LEMMA ValueIsNat ==
    ASSUME NEW n \in Nat, NEW s \in [1..n -> Bytes]
    PROVE  Value(s) \in 0..(WORD - 1)
<1>1. PICK g : FoldsBytes(g, s, 1..n) /\ Value(s) = g[1..n] % WORD
  BY FoldsExists, ValueFolds
<1> DEFINE D(m) == {i \in 1..n : i > n - m}
           S == {m \in Nat : m <= n => \A u \in SUBSET D(m) : g[u] \in Nat}
<1>2. \A u \in SUBSET (1..n) :
        g[u] = IF u = {} THEN 0 ELSE s[Min(u)] + 256 * g[u \ {Min(u)}]
  BY <1>1, Zenon DEF FoldsBytes
<1>3. 0 \in S
  <2>1. D(0) = {}
    OBVIOUS
  <2>2. g[{}] = 0
    BY <1>2, Zenon
  <2> HIDE DEF D
  <2> QED BY <2>1, <2>2
<1>4. ASSUME NEW m \in Nat, m \in S PROVE m + 1 \in S
  <2> SUFFICES ASSUME m + 1 <= n, NEW u \in SUBSET D(m + 1) PROVE g[u] \in Nat
    OBVIOUS
  <2> DEFINE x == n - m
  <2>1. /\ D(m + 1) \subseteq 1..n /\ x \in 1..n
        /\ \A i \in D(m + 1) : i # x => i \in D(m)
        /\ \A i \in D(m + 1) : x <= i /\ i \in Int
    OBVIOUS
  <2>2. \A v \in SUBSET D(m) : g[v] \in Nat
    BY <1>4
  <2> HIDE DEF D, x
  <2>3. CASE x \in u
    <3>1. Min(u) = x
      BY <2>1, <2>3, LeastIs
    <3>2. g[u] = s[x] + 256 * g[u \ {x}]
      BY <1>2, <2>1, <2>3, <3>1
    <3>3. g[u \ {x}] \in Nat
      BY <2>1, <2>2
    <3>4. s[x] \in Nat
      <4>1. s[x] \in Bytes
        BY <2>1
      <4>2. Bytes \subseteq Nat
        BY DEF Bytes
      <4> QED BY <4>1, <4>2
    <3> QED BY <3>2, <3>3, <3>4
  <2>4. CASE x \notin u
    BY <2>1, <2>2, <2>4
  <2> QED BY <2>3, <2>4
<1> HIDE DEF S
<1>5. n \in S
  <2>1. Nat \subseteq S
    BY <1>3, <1>4, SetInduction
  <2> QED BY <2>1
<1>6. 1..n \in SUBSET D(n)
  OBVIOUS
<1> HIDE DEF D
<1>7. g[1..n] \in Nat
  BY <1>5, <1>6 DEF S
<1>8. WORD \in Nat \ {0}
  BY RpcSinkAssumption
<1> QED BY <1>1, <1>7, <1>8, Remainder, Zenon

\* What a length is as a signed number: itself, unless it is too large for one.
LEMMA SignedIs ==
    ASSUME NEW v \in 0..(WORD - 1)
    PROVE  /\ Signed(v) \in Int
           /\ Signed(v) >= 0 => Signed(v) = v
           /\ 2 * v < WORD => Signed(v) = v
BY RpcSinkAssumption DEF Signed
------------------------------------------------------------------------------
(* The invariant: the sink is between two packets, or the host's packet is *)
(* untouched, or k of its bytes p[1], ..., p[k] have been taken.           *)

Done == IF pending = NULL THEN received ELSE Append(received, pending)

\* Packet p is one that a worker is to get.
Served(p) == IsRequest(p) /\ memory
Owed(p) == IF Served(p) THEN Append(Done, p) ELSE Done

\* What the host sends of packet p after its first k bytes.
After(p, k) ==
    EscapedAll(SubSeq(p, k + 1, Len(p) - 1)) \o (<<EOP>> \o Escaped(p[Len(p)]))

\* The same, when some of the prefixes of byte k + 1 have been taken too.
Coming(p, k, eop, esc) ==
    IF esc THEN <<Xor20(p[k + 1])>> \o (IF eop THEN << >> ELSE After(p, k + 1))
           ELSE IF eop THEN Escaped(p[k + 1]) ELSE After(p, k)

\* Prefixes that byte k + 1 has.
PrefixesOf(p, k, eop, esc) ==
    /\ eop => k + 1 = Len(p)
    /\ esc => NeedsEscape(p[k + 1]) /\ (k + 1 = Len(p) => eop)

\* off, len and job are offset, length and incoming after the first k bytes of
\* p.  The job of a packet that the sink accepts so far holds those bytes; a
\* packet that gets no job is counted no further than its header.
Filled(p, k, off, len, job) ==
    IF k < HEADER
      THEN /\ off = k /\ job = NULL
           /\ \A i \in 1..k : len[i] = p[i]
      ELSE /\ len = SubSeq(p, 1, HEADER)
           /\ IF Gets(len)
                THEN /\ off = k /\ job = SubSeq(p, 1, k)
                     /\ k > HEADER => k <= Value(len)
                ELSE off = HEADER /\ job = NULL

Outside == ~ inside_packet /\ ~ escape_prefix /\ incoming = NULL

Idle == Outside /\ input = << >> /\ expected = Done

Waiting(p) == Outside /\ input = Packet(p) /\ expected = Owed(p)

Reading(p, k) ==
    /\ input = Coming(p, k, eop_prefix, escape_prefix)
    /\ PrefixesOf(p, k, eop_prefix, escape_prefix)
    /\ pending = NULL /\ expected = Owed(p)
    /\ IF inside_packet THEN Filled(p, k, offset, length, incoming)
                        ELSE incoming = NULL /\ ~ Served(p)

StageInv ==
    \/ Idle
    \/ \E p \in HostPackets : Waiting(p)
    \/ \E p \in HostPackets : \E k \in 0..(Len(p) - 1) : Reading(p, k)

\* The sink is within its memory, and then the job has room for the header, or
\* the length was less than a header has.
RoomInv ==
    /\ overrun => Signed(Value(length)) < HEADER
    /\ incoming # NULL /\ ~ overrun => Signed(Value(length)) >= HEADER

IInv ==
    /\ TypeOK
    /\ received \in Seq(Seq(Bytes))
    /\ JobFreed
    /\ RoomInv
    /\ StageInv
------------------------------------------------------------------------------
\* A sequence that starts with x.
LEMMA ConsIs ==
    ASSUME NEW A, NEW x \in A, NEW s \in Seq(A)
    PROVE  /\ <<x>> \o s \in Seq(A) /\ <<x>> \o s # << >>
           /\ Head(<<x>> \o s) = x /\ Tail(<<x>> \o s) = s
<1> DEFINE t == <<x>> \o s
<1>1. /\ t \in Seq(A) /\ Len(t) = Len(s) + 1 /\ t[1] = x
      /\ \A i \in 1..Len(s) : t[i + 1] = s[i]
  OBVIOUS
<1> HIDE DEF t
<1>2. t # << >> /\ Head(t) = x
  BY <1>1
<1>3. Tail(t) \in Seq(A) /\ Len(Tail(t)) = Len(s) /\ \A i \in 1..Len(s) : Tail(t)[i] = s[i]
  BY <1>1, <1>2, HeadTailProperties
<1>4. Tail(t) = s
  BY <1>3, SeqEqual
<1> QED BY <1>1, <1>2, <1>4 DEF t

\* A packet is a sequence of bytes, its header at least.
LEMMA PacketBytes ==
    ASSUME NEW p \in HostPackets
    PROVE  /\ p \in Seq(Bytes) /\ Len(p) \in HEADER..MaxSize
           /\ \A i \in 1..Len(p) : p[i] \in Bytes
<1>1. PICK m \in 0..MaxSize : p \in [1..m -> Data]
  BY DEF HostPackets, SeqOf
<1>2. p \in [1..m -> Bytes]
  BY <1>1, RpcSinkAssumption DEF Bytes
<1>3. MaxSize \in Nat
  BY RpcSinkAssumption, <1>1 DEF HostPackets
<1> QED BY <1>1, <1>2, <1>3, RpcSinkAssumption DEF HostPackets

\* What comes of a packet is one byte after the other, and the end prefix
\* before the last one.
LEMMA AfterIs ==
    ASSUME NEW p \in HostPackets, NEW k \in 0..(Len(p) - 1)
    PROVE  /\ After(p, k) \in Seq(Bytes)
           /\ k + 1 = Len(p) => After(p, k) = <<EOP>> \o Escaped(p[k + 1])
           /\ k + 1 < Len(p) => After(p, k) = Escaped(p[k + 1]) \o After(p, k + 1)
<1>0. /\ p \in Seq(Bytes) /\ Len(p) \in Nat /\ Len(p) > k /\ EOP \in Bytes
      /\ \A i \in 1..Len(p) : p[i] \in Bytes
  BY PacketBytes, RpcSinkAssumption DEF EOP, Bytes
<1> DEFINE last == <<EOP>> \o Escaped(p[Len(p)])
           rest(i) == SubSeq(p, i + 1, Len(p) - 1)
<1>1. last \in Seq(Bytes)
  BY <1>0, EscapedIs, ConsIs
<1>2. ASSUME NEW i \in 0..(Len(p) - 1)
      PROVE  rest(i) \in Seq(Bytes) /\ EscapedAll(rest(i)) \in Seq(Bytes)
  <2>1. \A j \in (i + 1)..(Len(p) - 1) : p[j] \in Bytes
    BY <1>0
  <2>2. rest(i) \in Seq(Bytes)
    BY <1>0, <2>1, SubSeqProperties
  <2> QED BY <2>2, EscapedAllIs
<1> HIDE DEF last
<1>3. After(p, k) \in Seq(Bytes)
  BY <1>1, <1>2, ConcatProperties DEF After, last
<1>4. ASSUME k + 1 = Len(p) PROVE After(p, k) = last
  <2>1. rest(k) = << >>
    BY <1>0, <1>4, SubSeqEmpty
  <2>2. EscapedAll(rest(k)) = << >>
    BY <1>2, <2>1, EscapedAllIs
  <2> QED BY <1>1, <2>2, ConcatEmptySeq DEF After, last
<1>5. ASSUME k + 1 < Len(p) PROVE After(p, k) = Escaped(p[k + 1]) \o After(p, k + 1)
  <2>1. k + 1 \in 0..(Len(p) - 1) /\ k + 1 \in 1..Len(p) /\ Len(p) - 1 \in (k + 1)..Len(p)
    BY <1>0, <1>5
  <2>2. Head(rest(k)) = p[k + 1] /\ Tail(rest(k)) = rest(k + 1)
    BY <1>0, <2>1, HeadTailOfSubSeq
  <2>3. rest(k) # << >>
    <3>1. \A j \in (k + 1)..(Len(p) - 1) : p[j] \in Bytes
      BY <1>0
    <3>2. Len(rest(k)) = (Len(p) - 1) - (k + 1) + 1 /\ Len(rest(k)) # 0
      BY <1>0, <1>5, <3>1, SubSeqProperties
    <3> HIDE DEF rest
    <3> QED BY <3>2, EmptySeq
  <2>4. EscapedAll(rest(k)) = Escaped(p[k + 1]) \o EscapedAll(rest(k + 1))
    BY <1>2, <2>2, <2>3, EscapedAllIs
  <2>5. Escaped(p[k + 1]) \in Seq(Bytes) /\ EscapedAll(rest(k + 1)) \in Seq(Bytes)
    BY <1>0, <1>2, <2>1, EscapedIs
  <2>6. EscapedAll(rest(k)) \o last
          = Escaped(p[k + 1]) \o (EscapedAll(rest(k + 1)) \o last)
    <3> HIDE DEF rest
    <3> QED BY <1>1, <2>4, <2>5, ConcatAssociative
  <2> QED BY <2>6 DEF After, last
<1> QED BY <1>0, <1>3, <1>4, <1>5 DEF last

\* A packet starts with SOP, and nothing else of it is one.
LEMMA PacketIs ==
    ASSUME NEW p \in HostPackets
    PROVE  /\ Packet(p) \in Seq(Bytes) /\ Packet(p) # << >>
           /\ Head(Packet(p)) = SOP /\ Tail(Packet(p)) = After(p, 0)
<1>0. /\ p \in Seq(Bytes) /\ Len(p) \in Nat \ {0} /\ EOP \in Bytes /\ SOP \in Bytes
      /\ Escaped(p[Len(p)]) \in Seq(Bytes)
  <2>1. p \in Seq(Bytes) /\ Len(p) \in Nat \ {0} /\ p[Len(p)] \in Bytes
    <3>1. Len(p) \in HEADER..MaxSize /\ p \in Seq(Bytes)
      BY PacketBytes
    <3> QED BY <3>1, RpcSinkAssumption, ElementOfSeq
  <2>2. EOP \in Bytes /\ SOP \in Bytes
    BY DEF SOP, EOP, Bytes
  <2> QED BY <2>1, <2>2, EscapedIs
<1> DEFINE all == EscapedAll(SubSeq(p, 1, Len(p) - 1))
           end == Escaped(p[Len(p)])
<1>1. all \in Seq(Bytes)
  <2>1. SubSeq(p, 1, Len(p) - 1) \in Seq(Bytes)
    BY <1>0, SubSeqProperties
  <2> QED BY <2>1, EscapedAllIs
<1>2. Packet(p) = ((<<SOP>> \o all) \o <<EOP>>) \o end
  BY DEF Packet, Front, Last
<1>3. After(p, 0) = all \o (<<EOP>> \o end) /\ After(p, 0) \in Seq(Bytes)
  BY <1>0, AfterIs DEF After
<1> HIDE DEF all, end
<1>4. Packet(p) = <<SOP>> \o After(p, 0)
  <2>1. end \in Seq(Bytes)
    BY <1>0 DEF end
  <2>2. <<SOP>> \in Seq(Bytes) /\ <<EOP>> \in Seq(Bytes)
    BY <1>0
  <2>3. <<SOP>> \o all \in Seq(Bytes) /\ <<EOP>> \o end \in Seq(Bytes)
    BY <1>1, <2>1, <2>2, ConcatProperties
  <2>4. ((<<SOP>> \o all) \o <<EOP>>) \o end = (<<SOP>> \o all) \o (<<EOP>> \o end)
    BY <2>1, <2>2, <2>3, ConcatAssociative
  <2>5. (<<SOP>> \o all) \o (<<EOP>> \o end) = <<SOP>> \o (all \o (<<EOP>> \o end))
    BY <1>1, <2>2, <2>3, ConcatAssociative
  <2> QED BY <1>2, <1>3, <2>4, <2>5
<1> QED BY <1>0, <1>3, <1>4, ConsIs

\* What the next byte of s is, and what comes after it, if s is what comes of p.
NextIs(s, p, k, eop, esc) ==
    /\ s \in Seq(Bytes) /\ s # << >> /\ Head(s) \in Bytes \ {SOP}
    /\ Head(s) = EOP => /\ ~ esc /\ PrefixesOf(p, k, TRUE, esc)
                        /\ Tail(s) = Coming(p, k, TRUE, esc)
    /\ Head(s) = ESCAPE => /\ PrefixesOf(p, k, eop, TRUE)
                           /\ Tail(s) = Coming(p, k, eop, TRUE)
    /\ Head(s) \notin {SOP, EOP, ESCAPE} =>
         /\ p[k + 1] = IF esc THEN Xor20(Head(s)) ELSE Head(s)
         /\ eop <=> k + 1 = Len(p)
         /\ Tail(s) = IF eop THEN << >> ELSE Coming(p, k + 1, FALSE, FALSE)
         /\ ~ eop => k + 1 \in 0..(Len(p) - 1) /\ PrefixesOf(p, k + 1, FALSE, FALSE)

\* Where byte k + 1 is, whichever of its prefixes are left.
LEMMA ComingIs ==
    ASSUME NEW p \in HostPackets, NEW k \in 0..(Len(p) - 1),
           NEW eop \in BOOLEAN, NEW esc \in BOOLEAN, PrefixesOf(p, k, eop, esc)
    PROVE  NextIs(Coming(p, k, eop, esc), p, k, eop, esc)
<1> SUFFICES ASSUME NEW s, s = Coming(p, k, eop, esc)
             PROVE  NextIs(s, p, k, eop, esc)
  OBVIOUS
<1> USE DEF NextIs
<1> DEFINE b == p[k + 1]
           x == Xor20(b)
           rest == IF eop THEN << >> ELSE After(p, k + 1)
<1>0. /\ Len(p) \in Nat /\ b \in Bytes
      /\ EOP \in Bytes \ {SOP, ESCAPE} /\ ESCAPE \in Bytes \ {SOP, EOP} /\ << >> \in Seq(Bytes)
  BY PacketBytes, RpcSinkAssumption DEF EOP, ESCAPE, SOP, Bytes
<1>1. Escaped(b) \in Seq(Bytes)
  BY <1>0, EscapedIs
<1>2. k + 1 # Len(p) => /\ k + 1 \in 0..(Len(p) - 1) /\ k + 1 < Len(p)
                        /\ After(p, k + 1) \in Seq(Bytes)
  BY <1>0, AfterIs
<1>3. NeedsEscape(b) => /\ x \in Bytes \ {SOP, EOP, ESCAPE} /\ Xor20(x) = b
                        /\ Escaped(b) = <<ESCAPE>> \o <<x>>
  BY <1>0, EscapedIs
<1>4. ~ NeedsEscape(b) => b \notin {SOP, EOP, ESCAPE} /\ Escaped(b) = <<b>> \o << >>
  BY <1>0, EscapedIs
<1>5. ~ eop => PrefixesOf(p, k + 1, FALSE, FALSE)
  BY DEF PrefixesOf
<1>6. CASE esc
  <2>1. /\ NeedsEscape(b) /\ (eop <=> k + 1 = Len(p)) /\ rest \in Seq(Bytes)
        /\ s = <<x>> \o rest
    BY <1>0, <1>2, <1>6 DEF PrefixesOf, Coming
  <2>2. s \in Seq(Bytes) /\ s # << >> /\ Head(s) = x /\ Tail(s) = rest
    BY <1>3, <2>1, ConsIs
  <2>3. ~ eop => rest = Coming(p, k + 1, FALSE, FALSE)
    BY DEF Coming
  <2> HIDE DEF b, x, rest
  <2> QED BY <1>2, <1>3, <1>5, <1>6, <2>1, <2>2, <2>3 DEF b, rest
<1>7. CASE ~ esc /\ eop
  <2>1. k + 1 = Len(p) /\ s = Escaped(b)
    BY <1>7 DEF PrefixesOf, Coming
  <2>2. CASE NeedsEscape(b)
    <3>1. <<x>> \in Seq(Bytes)
      BY <1>3, <2>2
    <3>2. s \in Seq(Bytes) /\ s # << >> /\ Head(s) = ESCAPE /\ Tail(s) = <<x>>
      <4> DEFINE t == <<x>>
      <4>1. s = <<ESCAPE>> \o t
        BY <1>3, <2>1, <2>2
      <4>2. t \in Seq(Bytes)
        BY <3>1
      <4> HIDE DEF t
      <4>3. s \in Seq(Bytes) /\ s # << >> /\ Head(s) = ESCAPE /\ Tail(s) = t
        BY <1>0, <4>1, <4>2, ConsIs
      <4> QED BY <4>3 DEF t
    <3>3. PrefixesOf(p, k, eop, TRUE) /\ Coming(p, k, eop, TRUE) = <<x>> \o << >>
      BY <1>7, <2>1, <2>2 DEF PrefixesOf, Coming
    <3>4. <<x>> \o << >> = <<x>>
      BY <3>1, ConcatEmptySeq
    <3> QED BY <1>0, <3>2, <3>3, <3>4
  <2>3. CASE ~ NeedsEscape(b)
    <3>1. s \in Seq(Bytes) /\ s # << >> /\ Head(s) = b /\ Tail(s) = << >>
      <4> HIDE DEF b
      <4>1. s = <<b>> \o << >>
        BY <1>4, <2>1, <2>3
      <4> QED BY <1>0, <4>1, ConsIs
    <3> QED BY <1>0, <1>4, <1>7, <2>1, <2>3, <3>1
  <2> QED BY <2>2, <2>3
<1>8. CASE ~ esc /\ ~ eop
  <2>1. s = After(p, k)
    BY <1>8 DEF Coming
  <2>2. CASE k + 1 = Len(p)
    <3>1. s = <<EOP>> \o Escaped(b)
      BY <2>1, <2>2, AfterIs
    <3>2. s \in Seq(Bytes) /\ s # << >> /\ Head(s) = EOP /\ Tail(s) = Escaped(b)
      BY <1>0, <1>1, <3>1, ConsIs
    <3>3. PrefixesOf(p, k, TRUE, esc) /\ Coming(p, k, TRUE, esc) = Escaped(b)
      BY <1>8, <2>2 DEF PrefixesOf, Coming
    <3> QED BY <1>0, <1>8, <3>2, <3>3
  <2>3. CASE k + 1 # Len(p)
    <3>1. s = Escaped(b) \o After(p, k + 1) /\ After(p, k + 1) \in Seq(Bytes)
      BY <1>2, <2>1, <2>3, AfterIs
    <3>2. CASE NeedsEscape(b)
      <4>1. <<x>> \in Seq(Bytes) /\ <<ESCAPE>> \in Seq(Bytes)
        BY <1>0, <1>3, <3>2
      <4>2. s = <<ESCAPE>> \o (<<x>> \o After(p, k + 1))
        <5> HIDE DEF b, x
        <5>1. s = (<<ESCAPE>> \o <<x>>) \o After(p, k + 1)
          BY <1>3, <3>1, <3>2
        <5> QED BY <3>1, <4>1, <5>1, ConcatAssociative
      <4>3. <<x>> \o After(p, k + 1) \in Seq(Bytes)
        BY <1>3, <3>1, <3>2, ConsIs
      <4>4. /\ s \in Seq(Bytes) /\ s # << >> /\ Head(s) = ESCAPE
            /\ Tail(s) = <<x>> \o After(p, k + 1)
        BY <1>0, <4>2, <4>3, ConsIs
      <4>5. /\ PrefixesOf(p, k, eop, TRUE)
            /\ Coming(p, k, eop, TRUE) = <<x>> \o After(p, k + 1)
        BY <1>8, <2>3, <3>2 DEF PrefixesOf, Coming
      <4> QED BY <1>0, <4>4, <4>5
    <3>3. CASE ~ NeedsEscape(b)
      <4>1. s = <<b>> \o After(p, k + 1)
        <5> HIDE DEF b
        <5>1. Escaped(b) = <<b>>
          BY <1>0, <3>3, EscapedIs
        <5> QED BY <3>1, <5>1
      <4>2. s \in Seq(Bytes) /\ s # << >> /\ Head(s) = b /\ Tail(s) = After(p, k + 1)
        <5> DEFINE t == After(p, k + 1)
        <5>1. s = <<b>> \o t /\ t \in Seq(Bytes) /\ b \in Bytes
          BY <1>0, <3>1, <4>1, Zenon
        <5> HIDE DEF b, t
        <5>2. s \in Seq(Bytes) /\ s # << >> /\ Head(s) = b /\ Tail(s) = t
          BY <5>1, ConsIs
        <5> QED BY <5>2 DEF t
      <4>3. Coming(p, k + 1, FALSE, FALSE) = After(p, k + 1)
        BY DEF Coming
      <4> QED BY <1>0, <1>2, <1>4, <1>5, <1>8, <2>3, <3>3, <4>2, <4>3
    <3> QED BY <3>2, <3>3
  <2> QED BY <2>2, <2>3
<1> QED BY <1>6, <1>7, <1>8
------------------------------------------------------------------------------
\* The constants are numbers.
LEMMA Assumed ==
    HEADER \in Nat /\ HEADER > 0 /\ MaxSize \in Nat /\ MAX_LENGTH \in Nat /\ MaxPackets \in Nat
BY RpcSinkAssumption

\* A request gets memory, if there is any.
LEMMA ServedGets ==
    ASSUME NEW p \in HostPackets
    PROVE  /\ Served(p) => Gets(SubSeq(p, 1, HEADER))
           /\ Gets(SubSeq(p, 1, HEADER)) /\ Value(SubSeq(p, 1, HEADER)) = Len(p)
                => Served(p)
<1> DEFINE v == Value(SubSeq(p, 1, HEADER))
<1>1. /\ Len(p) \in HEADER..MaxSize /\ 2 * MaxSize < WORD
      /\ JOB \in Nat /\ MAX_LENGTH \in Nat /\ WORD \in Nat \ {0}
      /\ HEADER \in Nat /\ MaxSize \in Nat
  BY PacketBytes, RpcSinkAssumption
<1>2. Len(p) \in 0..(WORD - 1) /\ 2 * Len(p) < WORD
  BY <1>1
<1>3. Signed(Len(p)) = Len(p)
  BY <1>2, SignedIs
<1> HIDE DEF v
<1>4. ASSUME v = Len(p)
      PROVE  Signed(v) + JOB >= 0 /\ (Signed(v) <= MAX_LENGTH <=> Len(p) <= MAX_LENGTH)
  BY <1>1, <1>3, <1>4
<1>5. Served(p) <=> v = Len(p) /\ Len(p) <= MAX_LENGTH /\ memory
  BY Zenon DEF Served, IsRequest, v
<1>6. Gets(SubSeq(p, 1, HEADER)) <=> Signed(v) <= MAX_LENGTH /\ Signed(v) + JOB >= 0 /\ memory
  BY Zenon DEF Gets, v
<1> QED BY <1>4, <1>5, <1>6, Zenon DEF v

\* The requests are sequences of bytes too.
LEMMA HistoryIs ==
    ASSUME IInv
    PROVE  /\ received \in Seq(Seq(Bytes)) /\ pending \in Seq(Bytes)
           /\ Done \in Seq(Seq(Bytes))
<1>1. received \in Seq(Seq(Bytes)) /\ pending \in Seq(Bytes)
  BY DEF IInv, TypeOK, Bytes
<1>2. Append(received, pending) \in Seq(Seq(Bytes))
  BY <1>1, AppendProperties
<1> QED BY <1>1, <1>2 DEF Done

\* The sink has a byte to take, so the host's packet is at its start or is being
\* taken.
LEMMA Stages ==
    ASSUME IInv
    PROVE  /\ input = << >> => Idle
           /\ input # << >> /\ Head(input) = SOP => \E p \in HostPackets : Waiting(p)
           /\ input # << >> /\ Head(input) # SOP =>
                \E p \in HostPackets : \E k \in 0..(Len(p) - 1) : Reading(p, k)
           /\ pending # NULL => Idle \/ \E p \in HostPackets : Waiting(p)
<1>1. eop_prefix \in BOOLEAN /\ escape_prefix \in BOOLEAN
  BY DEF IInv, TypeOK, framing
<1>2. ASSUME NEW p \in HostPackets, Waiting(p)
      PROVE  input # << >> /\ Head(input) = SOP
  BY <1>2, PacketIs DEF Waiting
<1>3. ASSUME NEW p \in HostPackets, NEW k \in 0..(Len(p) - 1), Reading(p, k)
      PROVE  input # << >> /\ Head(input) # SOP /\ pending = NULL
  <2>1. /\ input = Coming(p, k, eop_prefix, escape_prefix)
        /\ PrefixesOf(p, k, eop_prefix, escape_prefix) /\ pending = NULL
    BY <1>3 DEF Reading
  <2>2. NextIs(input, p, k, eop_prefix, escape_prefix)
    BY <1>1, <2>1, ComingIs
  <2>3. input # << >> /\ Head(input) \in Bytes \ {SOP}
    BY <2>2, Zenon DEF NextIs
  <2> QED BY <2>1, <2>3
<1>4. Idle => input = << >>
  BY DEF Idle
<1>5. StageInv
  BY DEF IInv
<1> QED BY <1>2, <1>3, <1>4, <1>5, Zenon DEF StageInv

\* The sink takes byte k + 1 of p itself, its escape undone.
Takes(p, k) ==
    /\ Reading(p, k) /\ Byte = p[k + 1] /\ Byte \in Bytes
    /\ eop_prefix <=> k + 1 = Len(p)
    /\ input' \in Seq(Bytes)
    /\ input' = IF eop_prefix THEN << >> ELSE Coming(p, k + 1, FALSE, FALSE)
    /\ ~ eop_prefix => k + 1 \in 0..(Len(p) - 1) /\ PrefixesOf(p, k + 1, FALSE, FALSE)

\* A byte that is no prefix is one of the packet, at its place.
LEMMA ByteIs ==
    ASSUME IInv, TakeByte
    PROVE  \E p \in HostPackets : \E k \in 0..(Len(p) - 1) : Takes(p, k)
<1>1. /\ eop_prefix \in BOOLEAN /\ escape_prefix \in BOOLEAN
      /\ input # << >> /\ Head(input) \notin {SOP, EOP, ESCAPE} /\ input' = Tail(input)
  BY DEF IInv, TypeOK, framing, TakeByte, Take
<1>2. PICK p \in HostPackets : \E k \in 0..(Len(p) - 1) : Reading(p, k)
  BY <1>1, Stages
<1>3. PICK k \in 0..(Len(p) - 1) : Reading(p, k)
  BY <1>2
<1>4. /\ input = Coming(p, k, eop_prefix, escape_prefix)
      /\ PrefixesOf(p, k, eop_prefix, escape_prefix)
  BY <1>3 DEF Reading
<1>5. /\ input \in Seq(Bytes)
      /\ p[k + 1] = IF escape_prefix THEN Xor20(Head(input)) ELSE Head(input)
      /\ eop_prefix <=> k + 1 = Len(p)
      /\ Tail(input) = IF eop_prefix THEN << >> ELSE Coming(p, k + 1, FALSE, FALSE)
      /\ ~ eop_prefix => k + 1 \in 0..(Len(p) - 1) /\ PrefixesOf(p, k + 1, FALSE, FALSE)
  <2>1. NextIs(input, p, k, eop_prefix, escape_prefix)
    BY <1>1, <1>4, ComingIs
  <2> QED BY <1>1, <2>1, Zenon DEF NextIs
<1>6. Tail(input) \in Seq(Bytes)
  BY <1>1, <1>5, HeadTailProperties
<1>7. Byte = p[k + 1]
  BY <1>5 DEF Byte
<1>8. p[k + 1] \in Bytes
  <2>1. k + 1 \in 1..Len(p)
    BY PacketBytes, Assumed
  <2> QED BY <2>1, PacketBytes
<1>9. Takes(p, k)
  BY <1>1, <1>3, <1>5, <1>6, <1>7, <1>8 DEF Takes
<1> QED BY <1>9

------------------------------------------------------------------------------
\* At the start the sink is idle.
LEMMA Initial ==
    ASSUME Init
    PROVE  IInv
<1>1. TypeOK
  <2>1. << >> \in Seq(0..255) /\ [i \in 1..HEADER |-> 0] \in [1..HEADER -> 0..255]
    BY Assumed
  <2>2. 0 \in 0..MaxSize /\ 0 \in 0..MaxPackets
    BY Assumed
  <2> QED BY <2>1, <2>2 DEF Init, TypeOK, NULL, framing
<1>2. received \in Seq(Seq(Bytes))
  BY DEF Init
<1>3. JobFreed
  BY DEF Init, JobFreed, NULL
<1>4. Idle
  BY DEF Init, Idle, Outside, Done
<1>5. RoomInv
  BY DEF Init, RoomInv
<1> QED BY <1>1, <1>2, <1>3, <1>4, <1>5 DEF IInv, StageInv

\* A packet is sent only when nothing is left of the one before.
LEMMA HostPacketStep ==
    ASSUME IInv, NEW p \in HostPackets, NEW ok \in BOOLEAN, HostPacket(p, ok)
    PROVE  IInv'
<1>e. /\ input' = Packet(p) /\ packets' = packets + 1 /\ memory' = ok /\ packets < MaxPackets
      /\ expected' = IF IsRequest(p) /\ ok THEN Append(expected, p) ELSE expected
      /\ UNCHANGED <<framing, offset, length, incoming, pending, jobs, overrun, received>>
  BY DEF HostPacket
<1>1. Idle
  BY Stages DEF HostPacket
<1>2. TypeOK'
  <2>1. Packet(p) \in Seq(0..255)
    BY PacketIs DEF Bytes
  <2>2. packets' \in 0..MaxPackets
    BY <1>e, Assumed DEF IInv, TypeOK
  <2> QED BY <1>e, <2>1, <2>2 DEF IInv, TypeOK, framing
<1>3. (received \in Seq(Seq(Bytes)))' /\ JobFreed' /\ RoomInv'
  BY <1>e DEF IInv, JobFreed, RoomInv
<1>4. Waiting(p)'
  <2>1. Done' = Done
    BY <1>e DEF Done
  <2>2. expected' = Owed(p)'
    BY <1>1, <1>e, <2>1 DEF Idle, Owed, Served
  <2> QED BY <1>1, <1>e, <2>2 DEF Waiting, Idle, Outside, framing
<1> QED BY <1>2, <1>3, <1>4 DEF IInv, StageInv

\* The start of a packet: the sink forgets what it knew of another.
LEMMA SinkSopStep ==
    ASSUME IInv, SinkSop
    PROVE  IInv'
<1>e. /\ pending = NULL /\ input # << >> /\ Head(input) = SOP /\ input' = Tail(input)
      /\ offset' = 0 /\ inside_packet' = TRUE /\ eop_prefix' = FALSE
      /\ UNCHANGED <<escape_prefix, length, incoming, pending, jobs, overrun,
                     packets, memory, expected, received>>
  BY DEF SinkSop, Take, history
<1>1. PICK p \in HostPackets : Waiting(p)
  BY <1>e, Stages
<1>2. /\ input' = After(p, 0) /\ input' \in Seq(Bytes)
      /\ 0 \in 0..(Len(p) - 1)
  <2>1. 0 \in 0..(Len(p) - 1)
    BY PacketBytes, Assumed
  <2> QED BY <1>1, <1>e, <2>1, PacketIs, AfterIs DEF Waiting
<1>3. TypeOK'
  <2>1. offset' \in 0..MaxSize
    BY <1>e, Assumed
  <2> QED BY <1>e, <1>2, <2>1 DEF IInv, TypeOK, framing, Bytes
<1>4. (received \in Seq(Seq(Bytes)))' /\ JobFreed' /\ RoomInv'
  BY <1>e DEF IInv, JobFreed, RoomInv
<1>5. Reading(p, 0)'
  <2>1. Owed(p)' = Owed(p)
    BY <1>e DEF Owed, Done, Served
  <2>2. ~ escape_prefix /\ incoming = NULL /\ expected = Owed(p)
    BY <1>1 DEF Waiting, Outside
  <2>3. Coming(p, 0, eop_prefix', escape_prefix') = After(p, 0)
    BY <1>e, <2>2 DEF Coming
  <2>4. PrefixesOf(p, 0, eop_prefix', escape_prefix')
    BY <1>e, <2>2 DEF PrefixesOf
  <2>5. Filled(p, 0, offset, length, incoming)'
    BY <1>e, <2>2, Assumed DEF Filled
  <2> QED BY <1>e, <1>2, <2>1, <2>2, <2>3, <2>4, <2>5 DEF Reading
<1> QED BY <1>2, <1>3, <1>4, <1>5 DEF IInv, StageInv

\* The end prefix comes before the last byte, escaped or not.
LEMMA SinkEopStep ==
    ASSUME IInv, SinkEop
    PROVE  IInv'
<1>e. /\ pending = NULL /\ input # << >> /\ Head(input) = EOP /\ input' = Tail(input)
      /\ eop_prefix' = TRUE
      /\ UNCHANGED <<escape_prefix, inside_packet, offset, length, incoming, pending, jobs, overrun,
                     packets, memory, expected, received>>
  BY DEF SinkEop, Take, history
<1>0. EOP # SOP /\ eop_prefix \in BOOLEAN /\ escape_prefix \in BOOLEAN
  BY DEF EOP, SOP, IInv, TypeOK, framing
<1>1. PICK p \in HostPackets : \E k \in 0..(Len(p) - 1) : Reading(p, k)
  BY <1>0, <1>e, Stages
<1>2. PICK k \in 0..(Len(p) - 1) : Reading(p, k)
  BY <1>1
<1>3. /\ input' \in Seq(Bytes) /\ input' = Coming(p, k, eop_prefix', escape_prefix')
      /\ PrefixesOf(p, k, eop_prefix', escape_prefix')
  <2>1. /\ input = Coming(p, k, eop_prefix, escape_prefix)
        /\ PrefixesOf(p, k, eop_prefix, escape_prefix)
    BY <1>2 DEF Reading
  <2>2. /\ input \in Seq(Bytes) /\ Tail(input) = Coming(p, k, TRUE, escape_prefix)
        /\ PrefixesOf(p, k, TRUE, escape_prefix)
    <3>1. NextIs(input, p, k, eop_prefix, escape_prefix)
      BY <1>0, <2>1, ComingIs
    <3> QED BY <1>0, <1>e, <3>1, Zenon DEF NextIs
  <2> QED BY <1>e, <2>2, HeadTailProperties
<1>4. TypeOK'
  BY <1>e, <1>3 DEF IInv, TypeOK, framing, Bytes
<1>5. (received \in Seq(Seq(Bytes)))' /\ JobFreed' /\ RoomInv'
  BY <1>e DEF IInv, JobFreed, RoomInv
<1>6. Reading(p, k)'
  BY <1>2, <1>3, <1>e DEF Reading, Owed, Done, Served, Filled, Gets
<1> QED BY <1>4, <1>5, <1>6 DEF IInv, StageInv

\* The escape prefix comes before a byte that needs it.
LEMMA SinkEscapeStep ==
    ASSUME IInv, SinkEscape
    PROVE  IInv'
<1>e. /\ pending = NULL /\ input # << >> /\ Head(input) = ESCAPE /\ input' = Tail(input)
      /\ escape_prefix' = TRUE
      /\ UNCHANGED <<eop_prefix, inside_packet, offset, length, incoming, pending, jobs, overrun,
                     packets, memory, expected, received>>
  BY DEF SinkEscape, Take, history
<1>0. ESCAPE # SOP /\ eop_prefix \in BOOLEAN /\ escape_prefix \in BOOLEAN
  BY DEF ESCAPE, SOP, IInv, TypeOK, framing
<1>1. PICK p \in HostPackets : \E k \in 0..(Len(p) - 1) : Reading(p, k)
  BY <1>0, <1>e, Stages
<1>2. PICK k \in 0..(Len(p) - 1) : Reading(p, k)
  BY <1>1
<1>3. /\ input' \in Seq(Bytes) /\ input' = Coming(p, k, eop_prefix', escape_prefix')
      /\ PrefixesOf(p, k, eop_prefix', escape_prefix')
  <2>1. /\ input = Coming(p, k, eop_prefix, escape_prefix)
        /\ PrefixesOf(p, k, eop_prefix, escape_prefix)
    BY <1>2 DEF Reading
  <2>2. /\ input \in Seq(Bytes) /\ Tail(input) = Coming(p, k, eop_prefix, TRUE)
        /\ PrefixesOf(p, k, eop_prefix, TRUE)
    <3>1. NextIs(input, p, k, eop_prefix, escape_prefix)
      BY <1>0, <2>1, ComingIs
    <3> QED BY <1>0, <1>e, <3>1, Zenon DEF NextIs
  <2> QED BY <1>e, <2>2, HeadTailProperties
<1>4. TypeOK'
  BY <1>e, <1>3 DEF IInv, TypeOK, framing, Bytes
<1>5. (received \in Seq(Seq(Bytes)))' /\ JobFreed' /\ RoomInv'
  BY <1>e DEF IInv, JobFreed, RoomInv
<1>6. Reading(p, k)'
  BY <1>2, <1>3, <1>e DEF Reading, Owed, Done, Served, Filled, Gets
<1> QED BY <1>4, <1>5, <1>6 DEF IInv, StageInv

\* The rest of a packet that was dropped: a worker was not to get it.
LEMMA SinkOutsideStep ==
    ASSUME IInv, SinkOutside
    PROVE  IInv'
<1>e. /\ ~ inside_packet /\ escape_prefix' = FALSE /\ pending = NULL
      /\ UNCHANGED <<eop_prefix, inside_packet, offset, length, incoming, pending, jobs, overrun,
                     packets, memory, expected, received>>
  BY DEF SinkOutside, TakeByte, Take, history
<1>0. TakeByte /\ eop_prefix \in BOOLEAN
  BY DEF SinkOutside, IInv, TypeOK, framing
<1>1. PICK p \in HostPackets : \E k \in 0..(Len(p) - 1) : Takes(p, k)
  BY <1>0, ByteIs
<1>2. PICK k \in 0..(Len(p) - 1) : Takes(p, k)
  BY <1>1
<1>t. /\ Reading(p, k) /\ Byte = p[k + 1] /\ Byte \in Bytes
      /\ eop_prefix <=> k + 1 = Len(p)
      /\ input' \in Seq(Bytes)
      /\ input' = IF eop_prefix THEN << >> ELSE Coming(p, k + 1, FALSE, FALSE)
      /\ ~ eop_prefix => k + 1 \in 0..(Len(p) - 1) /\ PrefixesOf(p, k + 1, FALSE, FALSE)
  BY <1>2 DEF Takes
<1>3. /\ incoming = NULL /\ ~ Served(p) /\ expected = Owed(p) /\ Done' = Done
      /\ Served(p)' = Served(p) /\ Owed(p)' = Owed(p)
  BY <1>t, <1>e DEF Reading, Served, Owed, Done
<1>4. TypeOK'
  BY <1>e, <1>t DEF IInv, TypeOK, framing, Bytes
<1>5. (received \in Seq(Seq(Bytes)))' /\ JobFreed' /\ RoomInv'
  BY <1>e DEF IInv, JobFreed, RoomInv
<1>6. CASE eop_prefix
  <2>1. Idle'
    BY <1>t, <1>3, <1>6, <1>e DEF Idle, Outside, Owed
  <2> QED BY <1>4, <1>5, <2>1 DEF IInv, StageInv
<1>7. CASE ~ eop_prefix
  <2>1. eop_prefix' = FALSE
    BY <1>0, <1>7, <1>e
  <2>2. Reading(p, k + 1)'
    BY <1>t, <1>3, <1>7, <1>e, <2>1 DEF Reading
  <2> QED BY <1>t, <1>4, <1>5, <1>7, <2>2 DEF IInv, StageInv
<1> QED BY <1>6, <1>7

\* A worker takes the job: it moves from pending to received.
LEMMA ServiceStep ==
    ASSUME IInv, Service
    PROVE  IInv'
<1>e. /\ pending # NULL /\ pending' = NULL
      /\ received' = Append(received, pending) /\ jobs' = jobs - 1
      /\ UNCHANGED <<input, escape_prefix, eop_prefix, inside_packet, offset, length, incoming,
                     overrun, packets, memory, expected>>
  BY DEF Service, framing
<1>1. Done' = Done
  BY <1>e DEF Done
<1>2. (received \in Seq(Seq(Bytes)))'
  <2>1. Append(received, pending) \in Seq(Seq(Bytes))
    BY HistoryIs, AppendProperties
  <2> QED BY <1>e, <2>1
<1>3. Idle \/ \E p \in HostPackets : Waiting(p)
  BY <1>e, Stages
<1>4. incoming = NULL /\ jobs = 1
  BY <1>3, <1>e DEF Idle, Waiting, Outside, IInv, JobFreed
<1>5. JobFreed' /\ TypeOK' /\ RoomInv'
  <2>1. << >> \in Seq(0..255)
    OBVIOUS
  <2> QED BY <1>4, <1>e, <2>1 DEF JobFreed, IInv, TypeOK, RoomInv, framing, NULL
<1>6. CASE Idle
  <2>1. Idle'
    BY <1>1, <1>6, <1>e DEF Idle, Outside
  <2> QED BY <1>2, <1>5, <2>1 DEF IInv, StageInv
<1>7. ASSUME NEW p \in HostPackets, Waiting(p) PROVE IInv'
  <2>1. Waiting(p)'
    BY <1>1, <1>7, <1>e DEF Waiting, Outside, Owed, Served
  <2> QED BY <1>2, <1>5, <2>1 DEF IInv, StageInv
<1> QED BY <1>3, <1>6, <1>7
------------------------------------------------------------------------------
\* The first k bytes of a packet.
LEMMA FirstBytes ==
    ASSUME NEW p \in HostPackets
    PROVE  /\ \A k \in 0..Len(p) : /\ SubSeq(p, 1, k) \in Seq(Bytes)
                                   /\ Len(SubSeq(p, 1, k)) = k
                                   /\ \A i \in 1..k : SubSeq(p, 1, k)[i] = p[i]
           /\ SubSeq(p, 1, Len(p)) = p
           /\ \A k \in 1..(Len(p) - 1) :
                Append(SubSeq(p, 1, k), p[k + 1]) = SubSeq(p, 1, k + 1)
<1>1. p \in Seq(Bytes) /\ Len(p) \in Nat /\ \A i \in 1..Len(p) : p[i] \in Bytes
  BY PacketBytes, Assumed
<1>2. ASSUME NEW k \in 0..Len(p)
      PROVE  /\ SubSeq(p, 1, k) \in Seq(Bytes) /\ Len(SubSeq(p, 1, k)) = k
             /\ \A i \in 1..k : SubSeq(p, 1, k)[i] = p[i]
  <2>1. \A i \in 1..k : p[i] \in Bytes
    BY <1>1
  <2> QED BY <1>1, <2>1, SubSeqProperties
<1>3. SubSeq(p, 1, Len(p)) = p
  BY <1>1, SubSeqFull
<1>4. ASSUME NEW k \in 1..(Len(p) - 1)
      PROVE  Append(SubSeq(p, 1, k), p[k + 1]) = SubSeq(p, 1, k + 1)
  <2> DEFINE s == SubSeq(p, 1, k)
             t == SubSeq(p, 1, k + 1)
             u == Append(s, p[k + 1])
  <2>1. k \in 0..Len(p) /\ k + 1 \in 0..Len(p) /\ p[k + 1] \in Bytes
    BY <1>1
  <2>2. s \in Seq(Bytes) /\ Len(s) = k /\ \A i \in 1..k : s[i] = p[i]
    BY <1>2, <2>1
  <2>3. t \in Seq(Bytes) /\ Len(t) = k + 1 /\ \A i \in 1..(k + 1) : t[i] = p[i]
    BY <1>2, <2>1
  <2> HIDE DEF s, t
  <2>4. /\ u \in Seq(Bytes) /\ Len(u) = k + 1 /\ u[k + 1] = p[k + 1]
        /\ \A i \in 1..k : u[i] = s[i]
    BY <2>1, <2>2, AppendProperties
  <2> HIDE DEF u
  <2>5. \A i \in 1..(k + 1) : u[i] = t[i]
    BY <2>1, <2>2, <2>3, <2>4
  <2>6. u = t
    BY <2>3, <2>4, <2>5, SeqEqual
  <2> QED BY <2>6 DEF u, s, t
<1> QED BY <1>2, <1>3, <1>4

\* The end of the sink's turn for byte k + 1 of p, whatever the byte was for.
LEMMA FinishStep ==
    ASSUME IInv, NEW p \in HostPackets, NEW k \in 0..(Len(p) - 1),
           Takes(p, k), inside_packet,
           NEW off \in 0..MaxSize, NEW len \in [1..HEADER -> Bytes], NEW job \in Seq(Bytes),
           Filled(p, k + 1, off, len, job),
           Finish(off, len, job, IF job = NULL THEN 0 ELSE 1), length' = len,
           UNCHANGED history, escape_prefix' = FALSE, overrun' \in BOOLEAN,
           overrun' => Signed(Value(len)) < HEADER,
           job # NULL /\ ~ overrun' => Signed(Value(len)) >= HEADER
    PROVE  IInv'
<1>t. /\ Reading(p, k) /\ (eop_prefix <=> k + 1 = Len(p))
      /\ input' \in Seq(Bytes)
      /\ input' = IF eop_prefix THEN << >> ELSE Coming(p, k + 1, FALSE, FALSE)
      /\ ~ eop_prefix => k + 1 \in 0..(Len(p) - 1) /\ PrefixesOf(p, k + 1, FALSE, FALSE)
  BY DEF Takes
<1>1. /\ pending = NULL /\ expected = Owed(p) /\ Done = received
      /\ received \in Seq(Seq(Bytes)) /\ eop_prefix \in BOOLEAN
      /\ packets \in 0..MaxPackets /\ memory \in BOOLEAN
  BY <1>t DEF Reading, Done, IInv, TypeOK, framing
<1>2. /\ packets' = packets /\ memory' = memory /\ expected' = expected
      /\ received' = received /\ (received \in Seq(Seq(Bytes)))'
      /\ Served(p)' = Served(p)
  BY <1>1 DEF history, Served
<1>3. CASE ~ eop_prefix
  <2>1. /\ offset' = off /\ incoming' = job /\ jobs' = IF job = NULL THEN 0 ELSE 1
        /\ eop_prefix' = eop_prefix /\ eop_prefix' = FALSE
        /\ inside_packet' = inside_packet /\ pending' = pending
    BY <1>1, <1>3 DEF Finish
  <2>2. TypeOK'
    BY <1>t, <1>1, <1>2, <2>1 DEF IInv, TypeOK, framing, Bytes
  <2>3. JobFreed'
    BY <1>1, <2>1 DEF JobFreed
  <2>4. Owed(p)' = Owed(p)
    BY <1>2, <2>1 DEF Owed, Done
  <2>5. Filled(p, k + 1, offset, length, incoming)'
    BY <1>2, <2>1 DEF Filled, Gets
  <2>6. Reading(p, k + 1)'
    BY <1>t, <1>1, <1>2, <1>3, <2>1, <2>4, <2>5 DEF Reading
  <2>7. RoomInv'
    BY <2>1 DEF RoomInv
  <2> QED BY <1>t, <1>2, <1>3, <2>2, <2>3, <2>6, <2>7 DEF IInv, StageInv
<1>4. CASE eop_prefix
  <2>1. /\ incoming' = NULL /\ offset' = 0 /\ eop_prefix' = FALSE /\ inside_packet' = FALSE
        /\ IF off = Value(len)
             THEN pending' = job /\ jobs' = IF job = NULL THEN 0 ELSE 1
             ELSE pending' = pending /\ jobs' = 0
    BY <1>4 DEF Finish, NextPacket
  <2>2. k + 1 = Len(p) /\ Len(p) >= HEADER /\ Len(p) \in Nat
    BY <1>t, <1>4, PacketBytes, Assumed
  <2>3. /\ len = SubSeq(p, 1, HEADER)
        /\ IF Gets(len) THEN off = Len(p) /\ job = p ELSE job = NULL
    BY <2>2, Assumed, FirstBytes DEF Filled
  <2>4. TypeOK'
    <3>1. << >> \in Seq(Bytes) /\ 0 \in 0..MaxSize
      BY Assumed
    <3> QED BY <1>t, <1>1, <1>2, <1>4, <2>1, <3>1 DEF TypeOK, framing, Bytes, NULL
  <2>5. JobFreed'
    BY <1>1, <2>1 DEF JobFreed
  <2>6. Served(p) => off = Value(len) /\ job = p
    BY <2>2, <2>3, ServedGets DEF Served, IsRequest
  <2>7. p # NULL
    BY <2>2, Assumed, EmptySeq DEF NULL
  <2>8. ~ Served(p) => pending' = NULL
    BY <1>1, <2>1, <2>2, <2>3, ServedGets
  <2>9. expected' = Done'
    <3>1. CASE Served(p)
      <4>1. pending' = p
        BY <2>1, <2>6, <3>1
      <4> QED BY <1>1, <1>2, <2>7, <3>1, <4>1 DEF Owed, Done
    <3>2. CASE ~ Served(p)
      BY <1>1, <1>2, <2>8, <3>2 DEF Owed, Done
    <3> QED BY <3>1, <3>2
  <2>10. Idle'
    BY <1>t, <1>4, <2>1, <2>9 DEF Idle, Outside
  <2>11. RoomInv'
    BY <2>1 DEF RoomInv
  <2> QED BY <1>2, <2>4, <2>5, <2>10, <2>11 DEF IInv, StageInv
<1> QED BY <1>3, <1>4

\* A byte of the length goes where the packet has it; the last one decides
\* about the job.
LEMMA SinkHeaderStep ==
    ASSUME IInv, SinkHeader
    PROVE  IInv'
<1>0. TakeByte /\ escape_prefix' = FALSE /\ inside_packet
  BY DEF SinkHeader, TakeByte
<1>1. PICK p \in HostPackets : \E k \in 0..(Len(p) - 1) : Takes(p, k)
  BY <1>0, ByteIs
<1>p. PICK k \in 0..(Len(p) - 1) : Takes(p, k)
  BY <1>1
<1>t. /\ Reading(p, k) /\ Byte = p[k + 1] /\ Byte \in Bytes
      /\ eop_prefix <=> k + 1 = Len(p)
      /\ input' \in Seq(Bytes)
      /\ input' = IF eop_prefix THEN << >> ELSE Coming(p, k + 1, FALSE, FALSE)
      /\ ~ eop_prefix => k + 1 \in 0..(Len(p) - 1) /\ PrefixesOf(p, k + 1, FALSE, FALSE)
  BY <1>p DEF Takes
<1>2. /\ Filled(p, k, offset, length, incoming) /\ pending = NULL /\ JobFreed
      /\ length \in [1..HEADER -> Bytes] /\ incoming \in Seq(Bytes)
  BY <1>0, <1>t DEF Reading, IInv, TypeOK, Bytes
<1>3. /\ offset = k /\ k < HEADER /\ incoming = NULL /\ jobs = 0
      /\ \A i \in 1..k : length[i] = p[i]
  BY <1>2, Assumed DEF SinkHeader, Filled, JobFreed
<1>4. /\ length' = [length EXCEPT ![k + 1] = p[k + 1]] /\ UNCHANGED history
      /\ IF k + 1 = HEADER /\ Gets(length')
           THEN Finish(k + 1, length', length', 1)
           ELSE Finish(k + 1, length', NULL, 0)
  BY <1>t, <1>3 DEF SinkHeader, Allocates
<1>o. /\ overrun' \in BOOLEAN
      /\ overrun' <=> k + 1 = HEADER /\ Gets(length') /\ Signed(Value(length')) < HEADER
  <2>1. overrun' = (Allocates(length') /\ Signed(Value(length')) < HEADER)
    BY DEF SinkHeader
  <2>2. Allocates(length') <=> k + 1 = HEADER /\ Gets(length')
    BY <1>3 DEF Allocates
  <2>3. CASE Allocates(length') /\ Signed(Value(length')) < HEADER
    <3>1. overrun' = TRUE
      BY <2>1, <2>3, Zenon
    <3> QED BY <2>2, <2>3, <3>1, Zenon
  <2>4. CASE ~ (Allocates(length') /\ Signed(Value(length')) < HEADER)
    <3>1. overrun' = FALSE
      BY <2>1, <2>4, Zenon
    <3> QED BY <2>2, <2>4, <3>1, Zenon
  <2> QED BY <2>3, <2>4
<1>5. k + 1 \in 1..HEADER /\ Len(p) \in HEADER..MaxSize
  BY <1>3, PacketBytes, Assumed
<1>6. length' \in [1..HEADER -> Bytes] /\ \A i \in 1..(k + 1) : length'[i] = p[i]
  BY <1>t, <1>2, <1>3, <1>4, <1>5
<1>7. k + 1 = HEADER => /\ length' = SubSeq(p, 1, HEADER)
                        /\ length' \in Seq(Bytes) /\ length' # NULL
  <2> SUFFICES ASSUME k + 1 = HEADER
               PROVE  length' = SubSeq(p, 1, HEADER) /\ length' \in Seq(Bytes) /\ length' # NULL
    OBVIOUS
  <2> DEFINE s == SubSeq(p, 1, HEADER)
  <2>1. s \in Seq(Bytes) /\ Len(s) = HEADER /\ \A i \in 1..HEADER : s[i] = p[i]
    BY <1>5, FirstBytes, Assumed
  <2> HIDE DEF s
  <2>2. length' \in Seq(Bytes) /\ Len(length') = HEADER
    BY <1>6, Assumed
  <2>3. length' = s
    BY <1>6, <2>1, <2>2, SeqEqual
  <2>4. length' # NULL
    BY <2>2, Assumed, EmptySeq DEF NULL
  <2> QED BY <2>2, <2>3, <2>4 DEF s
<1>8. k + 1 \in 0..MaxSize
  BY <1>5, Assumed
<1>9. Signed(Value(length')) \in Int
  BY <1>6, Assumed, ValueIsNat, SignedIs
<1>10. CASE k + 1 = HEADER /\ Gets(length')
  <2>1. Filled(p, k + 1, k + 1, length', length')
    BY <1>7, <1>10 DEF Filled
  <2>2. Finish(k + 1, length', length', IF length' = NULL THEN 0 ELSE 1)
    BY <1>4, <1>7, <1>10
  <2>3. /\ overrun' \in BOOLEAN
        /\ overrun' => Signed(Value(length')) < HEADER
        /\ ~ overrun' => Signed(Value(length')) >= HEADER
    <3>1. overrun' \in BOOLEAN /\ (overrun' <=> Signed(Value(length')) < HEADER)
      BY <1>o, <1>10, Zenon
    <3>2. ~ (Signed(Value(length')) < HEADER) => Signed(Value(length')) >= HEADER
      BY <1>9, Assumed
    <3> QED BY <3>1, <3>2, Zenon
  <2> QED BY <1>0, <1>t, <1>4, <1>6, <1>7, <1>8, <1>10, <1>p, <1>o, <2>1, <2>2, <2>3, FinishStep
<1>11. CASE ~ (k + 1 = HEADER /\ Gets(length'))
  <2>1. Filled(p, k + 1, k + 1, length', NULL)
    <3>1. CASE k + 1 = HEADER
      <4>1. ~ Gets(length') /\ ~ (k + 1 < HEADER)
        BY <1>11, <3>1, Assumed
      <4> QED BY <1>7, <3>1, <4>1, Zenon DEF Filled
    <3>2. CASE k + 1 # HEADER
      <4>1. k + 1 < HEADER
        BY <1>5, <3>2, Assumed
      <4> QED BY <1>6, <4>1 DEF Filled
    <3> QED BY <3>1, <3>2
  <2>2. Finish(k + 1, length', NULL, IF NULL = NULL THEN 0 ELSE 1) /\ NULL \in Seq(Bytes)
    BY <1>4, <1>11 DEF NULL
  <2>3. ~ overrun'
    BY <1>o, <1>11, Zenon
  <2> QED BY <1>0, <1>t, <1>4, <1>6, <1>8, <1>p, <1>o, <2>1, <2>2, <2>3, FinishStep
<1> QED BY <1>10, <1>11

\* A byte of the body goes behind the others, and there is room for it.
LEMMA SinkBodyStep ==
    ASSUME IInv, SinkBody, ~ overrun
    PROVE  IInv'
<1>0. TakeByte /\ escape_prefix' = FALSE /\ inside_packet
  BY DEF SinkBody, TakeByte
<1>1. PICK p \in HostPackets : \E k \in 0..(Len(p) - 1) : Takes(p, k)
  BY <1>0, ByteIs
<1>p. PICK k \in 0..(Len(p) - 1) : Takes(p, k)
  BY <1>1
<1>t. /\ Reading(p, k) /\ Byte = p[k + 1] /\ Byte \in Bytes
      /\ eop_prefix <=> k + 1 = Len(p)
      /\ input' \in Seq(Bytes)
      /\ input' = IF eop_prefix THEN << >> ELSE Coming(p, k + 1, FALSE, FALSE)
      /\ ~ eop_prefix => k + 1 \in 0..(Len(p) - 1) /\ PrefixesOf(p, k + 1, FALSE, FALSE)
  BY <1>p DEF Takes
<1>2. /\ Filled(p, k, offset, length, incoming) /\ pending = NULL /\ JobFreed
      /\ length \in [1..HEADER -> Bytes] /\ offset \in 0..MaxSize
  BY <1>0, <1>t DEF Reading, IInv, TypeOK, Bytes
<1>3. Len(p) \in HEADER..MaxSize /\ Len(p) \in Nat /\ k + 1 \in 0..MaxSize
  BY PacketBytes, Assumed
<1>4. /\ offset >= HEADER /\ ~ (offset >= Value(length)) /\ UNCHANGED history
      /\ length' = length
      /\ overrun' = (incoming # NULL /\ offset + 1 > Signed(Value(length)))
      /\ IF incoming = NULL THEN Finish(offset, length, NULL, jobs)
                            ELSE Finish(offset + 1, length, Append(incoming, p[k + 1]), jobs)
  BY <1>t DEF SinkBody, Full
<1>5. ~ (k < HEADER) /\ k \in Nat /\ k \in 1..(Len(p) - 1)
  BY <1>2, <1>3, <1>4, Assumed DEF Filled
<1>6. /\ length = SubSeq(p, 1, HEADER)
      /\ IF Gets(length) THEN offset = k /\ incoming = SubSeq(p, 1, k)
                         ELSE offset = HEADER /\ incoming = NULL
  BY <1>2, <1>5 DEF Filled
<1>7. SubSeq(p, 1, k) # NULL
  <2>1. Len(SubSeq(p, 1, k)) = k
    BY <1>5, FirstBytes
  <2> QED BY <1>5, <2>1, EmptySeq DEF NULL
<1>8. CASE incoming = NULL
  <2>1. Filled(p, k + 1, offset, length, NULL)
    BY <1>5, <1>6, <1>7, <1>8, Assumed DEF Filled
  <2>2. jobs = 0
    BY <1>2, <1>8 DEF JobFreed
  <2>3. Finish(offset, length, NULL, IF NULL = NULL THEN 0 ELSE 1) /\ NULL \in Seq(Bytes)
    BY <1>4, <1>8, <2>2 DEF NULL
  <2>4. ~ overrun'
    BY <1>4, <1>8
  <2> QED BY <1>0, <1>t, <1>2, <1>4, <1>p, <2>1, <2>3, <2>4, FinishStep
<1>9. CASE incoming # NULL
  <2> DEFINE job == SubSeq(p, 1, k + 1)
  <2>1. Gets(length) /\ offset = k /\ incoming = SubSeq(p, 1, k)
    BY <1>6, <1>9
  <2>2. job = Append(incoming, p[k + 1]) /\ job \in Seq(Bytes) /\ Len(job) = k + 1
    BY <1>3, <1>5, <2>1, FirstBytes
  <2>3. job # NULL
    <3> HIDE DEF job
    <3> QED BY <1>5, <2>2, EmptySeq DEF NULL
  <2>4. Value(length) \in Nat /\ Signed(Value(length)) = Value(length)
    <3>1. Value(length) \in 0..(WORD - 1)
      BY <1>2, Assumed, ValueIsNat
    <3>2. Signed(Value(length)) >= HEADER
      BY <1>9 DEF IInv, RoomInv
    <3>3. Signed(Value(length)) >= 0
      BY <3>1, <3>2, Assumed, SignedIs
    <3> QED BY <3>1, <3>3, SignedIs, RpcSinkAssumption
  <2>5. Filled(p, k + 1, k + 1, length, job)
    BY <1>4, <1>5, <1>6, <2>1, <2>4, Assumed DEF Filled
  <2>6. jobs = 1
    BY <1>2, <1>9 DEF JobFreed
  <2>7. Finish(k + 1, length, job, IF job = NULL THEN 0 ELSE 1)
    BY <1>4, <1>9, <2>1, <2>2, <2>3, <2>6
  <2>8. overrun' = FALSE /\ Signed(Value(length)) >= HEADER
    <3>1. Signed(Value(length)) >= HEADER
      BY <1>9 DEF IInv, RoomInv
    <3>2. ~ (offset + 1 > Signed(Value(length)))
      <4>1. offset \in Nat /\ ~ (offset >= Value(length))
        BY <1>2, <1>4, Assumed
      <4> QED BY <2>4, <4>1
    <3>3. overrun' = (incoming # NULL /\ offset + 1 > Signed(Value(length)))
      BY <1>4
    <3> QED BY <3>1, <3>2, <3>3, Zenon
  <2> HIDE DEF job
  <2> QED BY <1>0, <1>t, <1>2, <1>3, <1>4, <2>2, <1>p, <2>5, <2>7, <2>8, FinishStep
<1> QED BY <1>8, <1>9

\* A packet longer than its length says is no request.
LEMMA SinkTooLargeStep ==
    ASSUME IInv, SinkTooLarge
    PROVE  IInv'
<1>0. TakeByte /\ escape_prefix' = FALSE /\ inside_packet
  BY DEF SinkTooLarge, TakeByte
<1>1. PICK p \in HostPackets : \E k \in 0..(Len(p) - 1) : Takes(p, k)
  BY <1>0, ByteIs
<1>p. PICK k \in 0..(Len(p) - 1) : Takes(p, k)
  BY <1>1
<1>t. /\ Reading(p, k) /\ Byte = p[k + 1] /\ Byte \in Bytes
      /\ eop_prefix <=> k + 1 = Len(p)
      /\ input' \in Seq(Bytes)
      /\ input' = IF eop_prefix THEN << >> ELSE Coming(p, k + 1, FALSE, FALSE)
      /\ ~ eop_prefix => k + 1 \in 0..(Len(p) - 1) /\ PrefixesOf(p, k + 1, FALSE, FALSE)
  BY <1>p DEF Takes
<1>e. /\ offset >= HEADER /\ offset >= Value(length)
      /\ incoming' = NULL /\ offset' = 0 /\ eop_prefix' = FALSE /\ inside_packet' = FALSE
      /\ jobs' = IF incoming = NULL THEN jobs ELSE jobs - 1
      /\ UNCHANGED <<length, pending, overrun, packets, memory, expected, received>>
  BY DEF SinkTooLarge, NextPacket, Full, history
<1>2. /\ Filled(p, k, offset, length, incoming) /\ pending = NULL /\ JobFreed
      /\ expected = Owed(p)
      /\ length \in [1..HEADER -> Bytes] /\ offset \in 0..MaxSize
  BY <1>0, <1>t DEF Reading, IInv, TypeOK, Bytes
<1>3. ~ Served(p)
  <2>1. Len(p) \in Nat /\ k < Len(p)
    BY PacketBytes, Assumed
  <2>2. ~ (k < HEADER)
    BY <1>2, <1>e, <2>1, Assumed DEF Filled
  <2>3. /\ length = SubSeq(p, 1, HEADER)
        /\ Gets(length) => offset = k
    BY <1>2, <2>2 DEF Filled
  <2>4. Served(p) => Value(length) = Len(p) /\ Gets(length)
    BY <2>3, ServedGets DEF Served, IsRequest
  <2> QED BY <1>e, <2>1, <2>3, <2>4
<1>4. (received \in Seq(Seq(Bytes)))' /\ JobFreed' /\ RoomInv'
  BY <1>2, <1>e DEF IInv, JobFreed, RoomInv
<1>5. TypeOK'
  <2>1. << >> \in Seq(Bytes) /\ 0 \in 0..MaxSize
    BY Assumed
  <2>2. jobs' \in {0, 1}
    BY <1>2, <1>e DEF JobFreed
  <2> QED BY <1>0, <1>t, <1>e, <2>1, <2>2 DEF IInv, TypeOK, framing, Bytes, NULL
<1>6. expected' = Done' /\ ~ Served(p)' /\ expected' = Owed(p)'
  BY <1>2, <1>3, <1>e DEF Owed, Done, Served
<1>7. CASE eop_prefix
  <2>1. Idle'
    BY <1>0, <1>t, <1>6, <1>7, <1>e DEF Idle, Outside
  <2> QED BY <1>4, <1>5, <2>1 DEF IInv, StageInv
<1>8. CASE ~ eop_prefix
  <2>1. Reading(p, k + 1)'
    BY <1>0, <1>t, <1>2, <1>6, <1>8, <1>e DEF Reading
  <2> QED BY <1>t, <1>4, <1>5, <1>8, <2>1 DEF IInv, StageInv
<1> QED BY <1>7, <1>8

\* Every step keeps the invariant.
LEMMA Invariant ==
    ASSUME IInv, [Next]_vars
    PROVE  IInv'
<1>1. CASE UNCHANGED vars
  <2>1. /\ input' = input /\ escape_prefix' = escape_prefix /\ eop_prefix' = eop_prefix
        /\ inside_packet' = inside_packet /\ offset' = offset /\ length' = length
        /\ incoming' = incoming /\ pending' = pending /\ jobs' = jobs /\ packets' = packets
        /\ memory' = memory /\ expected' = expected /\ received' = received
        /\ overrun' = overrun
    BY <1>1 DEF vars, framing, history
  <2>2. TypeOK' /\ JobFreed' /\ (received \in Seq(Seq(Bytes)))' /\ RoomInv'
    BY <2>1 DEF IInv, TypeOK, framing, JobFreed, RoomInv
  <2>3. Done' = Done /\ \A p \in HostPackets : Owed(p)' = Owed(p) /\ Served(p)' = Served(p)
    BY <2>1 DEF Done, Owed, Served
  <2>4. Idle => Idle'
    BY <2>1, <2>3 DEF Idle, Outside
  <2>5. ASSUME NEW p \in HostPackets, Waiting(p) PROVE StageInv'
    <3>1. Waiting(p)'
      BY <2>1, <2>3, <2>5 DEF Waiting, Outside
    <3> QED BY <3>1 DEF StageInv
  <2>6. ASSUME NEW p \in HostPackets, NEW k \in 0..(Len(p) - 1), Reading(p, k) PROVE StageInv'
    <3>1. Filled(p, k, offset, length, incoming)' <=> Filled(p, k, offset, length, incoming)
      BY <2>1 DEF Filled, Gets
    <3>2. Reading(p, k)'
      BY <2>1, <2>3, <2>6, <3>1 DEF Reading
    <3> QED BY <3>2 DEF StageInv
  <2>7. StageInv'
    BY <2>4, <2>5, <2>6 DEF IInv, StageInv
  <2> QED BY <2>2, <2>7 DEF IInv
<1>2. CASE Next
  BY <1>2, HostPacketStep, SinkSopStep, SinkEopStep, SinkEscapeStep, SinkOutsideStep,
     SinkHeaderStep, SinkTooLargeStep, SinkBodyStep, ServiceStep DEF Next, SinkAct
<1> QED BY <1>1, <1>2

\* The invariant.
LEMMA Holds == Spec => []IInv
<1>1. Init => IInv
  BY Initial
<1>2. IInv /\ [Next]_vars => IInv'
  BY Invariant
<1> QED BY <1>1, <1>2, PTL DEF Spec

\* The variables have their types: input is always bytes, and there is at most
\* one job.
THEOREM TypeCorrect == Spec => []TypeOK
<1>1. IInv => TypeOK
  BY DEF IInv
<1> QED BY <1>1, Holds, PTL

\* Workers get the requests, each once, complete and in order, and nothing made of
\* a packet whose size is wrong.
THEOREM InOrder == Spec => []RequestsInOrder
<1>1. ASSUME IInv PROVE RequestsInOrder
  <2>0. (IF pending = NULL THEN received ELSE Append(received, pending)) = Done
    BY DEF Done
  <2> DEFINE A == Seq(Bytes)
  <2>1. Done \in Seq(A)
    BY <1>1, HistoryIs
  <2>2. ASSUME NEW s \in Seq(A) PROVE IsPrefix(s, s)
    BY DEF IsPrefix
  <2>3. ASSUME NEW p \in HostPackets PROVE IsPrefix(Done, Append(Done, p))
    <3>1. p \in A
      BY PacketBytes
    <3> HIDE DEF A
    <3>2. SubSeq(Append(Done, p), 1, Len(Done)) = SubSeq(Done, 1, Len(Done))
      BY <2>1, <3>1
    <3>3. Len(Done) <= Len(Append(Done, p))
      BY <2>1, <3>1, AppendProperties, LenProperties
    <3> QED BY <3>2, <3>3 DEF IsPrefix
  <2>4. expected = Done \/ \E p \in HostPackets : expected = Append(Done, p)
    BY <1>1 DEF IInv, StageInv, Idle, Waiting, Reading, Owed
  <2> HIDE DEF A
  <2>5. IsPrefix(Done, expected)
    BY <2>1, <2>2, <2>3, <2>4
  <2> QED BY <2>0, <2>5, Zenon DEF RequestsInOrder
<1> QED BY <1>1, Holds, PTL

\* Once everything is consumed, no request is missing, whatever packets that the
\* sink dropped came between.
THEOREM AllServed == Spec => []NothingMissing
<1>1. ASSUME IInv, input = << >>, pending = NULL PROVE received = expected
  BY <1>1, Stages DEF Idle, Done
<1>2. IInv => NothingMissing
  BY <1>1 DEF NothingMissing
<1> QED BY <1>2, Holds, PTL

\* The sink writes behind the memory of a job only for a packet whose length is
\* negative or less than its own bytes, whatever bytes follow.
THEOREM BodiesFit == Spec => []JobFits
<1>1. ASSUME IInv, incoming # NULL
      PROVE Len(incoming) = offset
  <2>0. PICK p \in HostPackets : \E k \in 0..(Len(p) - 1) : Reading(p, k)
    BY <1>1 DEF IInv, StageInv, Idle, Waiting, Outside
  <2>1. PICK k \in 0..(Len(p) - 1) : Reading(p, k)
    BY <2>0
  <2>2. k \in 0..Len(p)
    BY PacketBytes, Assumed
  <2>3. Filled(p, k, offset, length, incoming)
    BY <1>1, <2>1 DEF Reading
  <2> QED BY <1>1, <2>2, <2>3, FirstBytes DEF Filled
<1>2. IInv => JobFits
  BY <1>1 DEF JobFits, IInv, RoomInv
<1> QED BY <1>2, Holds, PTL

\* A job exists exactly while one is filled or is pending: of a host that sends
\* whole packets, one of the wrong size leaks none.
THEOREM NoLeak == Spec => []JobFreed
<1>1. IInv => JobFreed
  BY DEF IInv
<1> QED BY <1>1, Holds, PTL
====
