--------------------- MODULE HostbridgeService_proofs ----------------------
(***************************************************************************)
(* Proofs about HostbridgeService for any channels, any packets, a buffer  *)
(* of any size, chunks that end anywhere and sinks that take as few bytes  *)
(* at a time as they like: every sink gets what the host sent it, provided *)
(* that no channel number and no plain byte is one that travels escaped.   *)
(* ServiceBytes.cfg shows what becomes of the others.                      *)
(***************************************************************************)
EXTENDS HostbridgeService, SequenceTheorems, TLAPS

\* The condition: no channel number and no byte of a plain channel needs the
\* escape.  The bytes of the packets are any bytes.
Unescapable == \A c \in Registered \cup Unregistered \cup RawData : ~ NeedsEscape(c)

\* TRUE and FALSE as values: the provers take the two themselves for formulas.
Yes == TRUE
No == FALSE
Dec(inside, end, esc, part, packets) ==
    [inside |-> inside, end |-> end, esc |-> esc, part |-> part, packets |-> packets]

------------------------------------------------------------------------------
(* What a byte means.  A point of the stream is the channel selected there, *)
(* the prefix that came last, and what every channel has made of the bytes  *)
(* before: a packetized one a decoder, a plain one its data.                *)

At(sel, mode, dec) == [sel |-> sel, mode |-> mode, dec |-> dec]
Sel(c) == IF c \in Registered THEN c ELSE NONE
Mode(b) == IF b = ESCAPE THEN "esc" ELSE "plain"

Hear(c, d, b) ==
    IF c \in Packetized THEN Decode(d, b) ELSE IF b = CHANNEL THEN d ELSE Append(d, b)
Heard(s, ds, b) ==
    IF s \in Registered THEN [ds EXCEPT ![s] = Hear(s, ds[s], b)] ELSE ds

\* What channel c has got at a point, and that a later point takes none of it back.
Got(c, d) == IF c \in Packetized THEN d.packets ELSE d
StartOf(s, t) ==
    /\ Len(s) \in Nat /\ Len(t) \in Nat /\ Len(s) <= Len(t)
    /\ \A i \in 1..Len(s) : s[i] = t[i]
Before(x, y) == \A c \in Registered : StartOf(Got(c, x.dec[c]), Got(c, y.dec[c]))

\* A channel prefix: not after another prefix, and nothing to the channel before.
MovePrefix(x, b, y) ==
    /\ b = CHANNEL /\ x.mode = "plain"
    /\ x.sel \in Registered => Hear(x.sel, x.dec[x.sel], b) = x.dec[x.sel]
    /\ y = At(x.sel, "prefix", x.dec)
MoveNumber(x, b, y) ==
    /\ b \notin {SOP, EOP, CHANNEL, ESCAPE} /\ x.mode = "prefix"
    /\ y = At(Sel(b), "plain", x.dec)
MoveByte(x, b, y) ==
    /\ b # CHANNEL /\ x.mode # "prefix"
    /\ x.sel \in Raw => x.mode # "esc" /\ b \notin {SOP, EOP, ESCAPE}
    /\ y = At(x.sel, Mode(b), Heard(x.sel, x.dec, b))
Move(x, b, y) ==
    /\ b \in Bytes /\ Before(x, y)
    /\ MovePrefix(x, b, y) \/ MoveNumber(x, b, y) \/ MoveByte(x, b, y)

\* The bytes s lead from x to y: f has the points between them.
Runs(x, s, y) ==
    \E f : /\ f[0] = x /\ f[Len(s)] = y
           /\ \A i \in 1..Len(s) : Move(f[i - 1], s[i], f[i])
           /\ \A i \in 0..Len(s) : Before(f[i], y)

\* What a channel got is never taken back, from point to point.
LEMMA StartOfTransitive ==
    ASSUME NEW s, NEW t, NEW u, StartOf(s, t), StartOf(t, u)
    PROVE  StartOf(s, u) /\ StartOf(s, s) /\ StartOf(t, t)
BY DEF StartOf

LEMMA BeforeTransitive ==
    ASSUME NEW x, NEW y, NEW z, Before(x, y), Before(y, z)
    PROVE  Before(x, z)
BY StartOfTransitive DEF Before

LEMMA BeforeReflexive ==
    ASSUME NEW x, NEW y, Before(x, y)
    PROVE  Before(x, x) /\ Before(y, y)
<1>1. \A c \in Registered : StartOf(Got(c, x.dec[c]), Got(c, x.dec[c]))
  BY DEF Before, StartOf
<1>2. \A c \in Registered : StartOf(Got(c, y.dec[c]), Got(c, y.dec[c]))
  BY DEF Before, StartOf
<1> QED  BY <1>1, <1>2 DEF Before

\* Where a run leads is after where it starts.
LEMMA RunsBefore ==
    ASSUME NEW S, NEW s \in Seq(S), NEW x, NEW y, Runs(x, s, y)
    PROVE  Before(x, y)
<1>1. Len(s) \in Nat /\ 0 \in 0..Len(s)  OBVIOUS
<1> QED  BY <1>1 DEF Runs

\* No byte leads nowhere.
LEMMA RunsEmpty ==
    ASSUME NEW x
    PROVE  /\ Before(x, x) => Runs(x, << >>, x)
           /\ \A y : Runs(x, << >>, y) => y = x
<1> DEFINE f == [i \in {0} |-> x]
<1>1. f[0] = x /\ Len(<< >>) = 0 /\ \A i \in 1..0 : Move(f[i - 1], << >>[i], f[i])
  OBVIOUS
<1>2. \A i \in 0..0 : i = 0  OBVIOUS
<1> HIDE DEF f
<1>3. ASSUME Before(x, x) PROVE Runs(x, << >>, x)  BY <1>1, <1>2, <1>3 DEF Runs
<1>4. \A y : Runs(x, << >>, y) => y = x  BY DEF Runs
<1> QED  BY <1>3, <1>4

\* One byte.
LEMMA RunsOne ==
    ASSUME NEW x, NEW y, NEW b, Move(x, b, y)
    PROVE  Runs(x, <<b>>, y)
<1> DEFINE f == [i \in 0..1 |-> IF i = 0 THEN x ELSE y]
<1>1. f[0] = x /\ f[1] = y  OBVIOUS
<1> HIDE DEF f
<1>2. Len(<<b>>) = 1 /\ <<b>>[1] = b  OBVIOUS
<1>3. \A i \in 1..1 : i = 1 /\ i - 1 = 0  OBVIOUS
<1>4. \A i \in 1..Len(<<b>>) : Move(f[i - 1], <<b>>[i], f[i])
  BY <1>1, <1>2, <1>3, Zenon
<1>5. Before(x, y) /\ Before(y, y)  BY BeforeReflexive, Zenon DEF Move
<1>6. \A i \in 0..1 : i = 0 \/ i = 1  OBVIOUS
<1>7. \A i \in 0..Len(<<b>>) : Before(f[i], y)  BY <1>1, <1>2, <1>5, <1>6, Zenon
<1> QED  BY <1>1, <1>2, <1>4, <1>7, Zenon DEF Runs

\* The first byte is taken.
LEMMA RunsHead ==
    ASSUME NEW s \in Seq(Bytes), s # << >>, NEW x, NEW y, Runs(x, s, y)
    PROVE  \E z : Move(x, Head(s), z) /\ Runs(z, Tail(s), y)
<1>1. PICK f : /\ f[0] = x /\ f[Len(s)] = y
               /\ \A i \in 1..Len(s) : Move(f[i - 1], s[i], f[i])
               /\ \A i \in 0..Len(s) : Before(f[i], y)
  BY DEF Runs
<1>2. /\ Len(s) \in Nat \ {0} /\ Len(Tail(s)) = Len(s) - 1 /\ Head(s) = s[1]
      /\ \A i \in 1..(Len(s) - 1) : Tail(s)[i] = s[i + 1]
  OBVIOUS
<1> DEFINE g == [i \in 0..(Len(s) - 1) |-> f[i + 1]]
<1>3. \A i \in 0..(Len(s) - 1) : g[i] = f[i + 1]  OBVIOUS
<1> HIDE DEF g
<1>4. Move(x, Head(s), g[0])
  <2>1. g[0] = f[1] /\ 1 \in 1..Len(s) /\ 1 - 1 = 0  BY <1>2, <1>3
  <2> QED  BY <1>1, <1>2, <2>1
<1>5. g[Len(Tail(s))] = y
  <2>1. Len(s) - 1 \in 0..(Len(s) - 1) /\ (Len(s) - 1) + 1 = Len(s)  BY <1>2
  <2> QED  BY <1>1, <1>2, <1>3, <2>1
<1>6. ASSUME NEW i \in 1..Len(Tail(s)) PROVE Move(g[i - 1], Tail(s)[i], g[i])
  <2>1. /\ i \in 0..(Len(s) - 1) /\ i - 1 \in 0..(Len(s) - 1) /\ i + 1 \in 1..Len(s)
        /\ (i + 1) - 1 = i /\ (i - 1) + 1 = i /\ i \in 1..(Len(s) - 1)
    BY <1>2
  <2>2. g[i] = f[i + 1] /\ g[i - 1] = f[i] /\ Tail(s)[i] = s[i + 1]
    BY <1>2, <1>3, <2>1, Zenon
  <2>3. Move(f[i], s[i + 1], f[i + 1])  BY <1>1, <2>1
  <2> QED  BY <2>2, <2>3, Zenon
<1>7. ASSUME NEW i \in 0..Len(Tail(s)) PROVE Before(g[i], y)
  <2>1. i \in 0..(Len(s) - 1) /\ i + 1 \in 0..Len(s)  BY <1>2
  <2> QED  BY <1>1, <1>3, <2>1
<1>8. Runs(g[0], Tail(s), y)  BY <1>5, <1>6, <1>7 DEF Runs
<1> QED  BY <1>4, <1>8

\* One run after the other.
LEMMA RunsConcat ==
    ASSUME NEW S, NEW s \in Seq(S), NEW t \in Seq(S), NEW x, NEW y, NEW z,
           Runs(x, s, y), Runs(y, t, z)
    PROVE  Runs(x, s \o t, z)
<1>1. PICK f : /\ f[0] = x /\ f[Len(s)] = y
               /\ \A i \in 1..Len(s) : Move(f[i - 1], s[i], f[i])
               /\ \A i \in 0..Len(s) : Before(f[i], y)
  BY DEF Runs
<1>2. PICK g : /\ g[0] = y /\ g[Len(t)] = z
               /\ \A i \in 1..Len(t) : Move(g[i - 1], t[i], g[i])
               /\ \A i \in 0..Len(t) : Before(g[i], z)
  BY DEF Runs
<1> DEFINE n == Len(s)
           k == [i \in 0..(n + Len(t)) |-> IF i <= n THEN f[i] ELSE g[i - n]]
<1>3. /\ n \in Nat /\ Len(t) \in Nat /\ Len(s \o t) = n + Len(t)
      /\ \A i \in 1..n : (s \o t)[i] = s[i]
      /\ \A i \in 1..Len(t) : (s \o t)[n + i] = t[i]
  OBVIOUS
<1>4. /\ \A i \in 0..n : k[i] = f[i]
      /\ \A i \in 1..Len(t) : k[n + i] = g[i]
  <2>1. \A i \in 1..Len(t) : n + i \in 0..(n + Len(t)) /\ ~ (n + i <= n) /\ (n + i) - n = i
    BY <1>3
  <2>2. \A i \in 1..Len(t) : k[n + i] = IF n + i <= n THEN f[n + i] ELSE g[(n + i) - n]
    BY <2>1, Zenon
  <2>3. \A i \in 1..Len(t) : k[n + i] = g[i]  BY <2>1, <2>2
  <2>4. \A i \in 0..n : i \in 0..(n + Len(t)) /\ i <= n  BY <1>3
  <2> QED  BY <2>3, <2>4
<1> HIDE DEF k
<1>5. \A i \in 0..Len(t) : k[n + i] = g[i]
  <2>1. k[n + 0] = g[0]
    <3>1. n + 0 = n /\ n \in 0..n  BY <1>3
    <3> QED  BY <1>1, <1>2, <1>4, <3>1
  <2>2. \A i \in 0..Len(t) : i = 0 \/ i \in 1..Len(t)  BY <1>3
  <2> QED  BY <1>4, <2>1, <2>2, Zenon
<1>6. k[0] = x /\ k[Len(s \o t)] = z
  <2>1. 0 \in 0..n /\ Len(t) \in 0..Len(t)  BY <1>3
  <2> QED  BY <1>1, <1>2, <1>3, <1>4, <1>5, <2>1
<1>7. ASSUME NEW i \in 1..Len(s \o t) PROVE Move(k[i - 1], (s \o t)[i], k[i])
  <2>1. CASE i <= n
    <3>1. i \in 1..n /\ i \in 0..n /\ i - 1 \in 0..n  BY <1>3, <2>1
    <3> QED  BY <1>1, <1>3, <1>4, <3>1, Zenon
  <2>2. CASE ~ (i <= n)
    <3> DEFINE j == i - n
    <3>1. /\ j \in 1..Len(t) /\ j \in 0..Len(t) /\ j - 1 \in 0..Len(t)
          /\ n + j = i /\ n + (j - 1) = i - 1
      BY <1>3, <2>2
    <3> HIDE DEF j
    <3>2. k[i] = g[j] /\ k[i - 1] = g[j - 1] /\ (s \o t)[i] = t[j]
      BY <1>3, <1>5, <3>1, Zenon
    <3> QED  BY <1>2, <3>1, <3>2, Zenon
  <2> QED  BY <2>1, <2>2
<1>8. ASSUME NEW i \in 0..Len(s \o t) PROVE Before(k[i], z)
  <2>0. Before(y, z)  BY <1>2, <1>3
  <2>1. CASE i <= n
    <3>1. i \in 0..n  BY <1>3, <2>1
    <3>2. Before(f[i], y)  BY <1>1, <3>1
    <3>3. Before(f[i], z)  BY <2>0, <3>2, BeforeTransitive
    <3> QED  BY <1>4, <3>1, <3>3
  <2>2. CASE ~ (i <= n)
    <3> DEFINE j == i - n
    <3>1. j \in 0..Len(t) /\ n + j = i  BY <1>3, <2>2
    <3> HIDE DEF j
    <3>2. k[i] = g[j]  BY <1>5, <3>1, Zenon
    <3> QED  BY <1>2, <3>1, <3>2, Zenon
  <2> QED  BY <2>1, <2>2
<1> QED  BY <1>6, <1>7, <1>8, Zenon DEF Runs

------------------------------------------------------------------------------
(* What the host sends.                                                    *)

Items == Bytes \cup Seq(Bytes)
Typed(ds) == DOMAIN ds = Registered /\ \A c \in Registered : Got(c, ds[c]) \in Seq(Items)
With(ds, c, d) == [ds EXCEPT ![c] = d]

\* A sequence is the start of itself, and of itself with one more at its end.
LEMMA StartOfItself ==
    ASSUME NEW S, NEW s \in Seq(S)
    PROVE  StartOf(s, s) /\ \A v : StartOf(s, Append(s, v))
<1>1. Len(s) \in Nat  OBVIOUS
<1>2. ASSUME NEW v PROVE StartOf(s, Append(s, v))
  <2>1. s \in Seq(S \cup {v}) /\ v \in S \cup {v}  BY SeqMonotonic
  <2>2. /\ Len(Append(s, v)) = Len(s) + 1
        /\ \A i \in 1..Len(s) : Append(s, v)[i] = s[i]
    BY <2>1, AppendProperties
  <2> QED  BY <1>1, <2>2 DEF StartOf
<1> QED  BY <1>1, <1>2 DEF StartOf

\* A step in which the channels get nothing, and one in which channel c may.
LEMMA NothingGot ==
    ASSUME NEW ds, Typed(ds), NEW s, NEW m, NEW s2, NEW m2
    PROVE  Before(At(s, m, ds), At(s2, m2, ds))
<1>1. \A c \in Registered : StartOf(Got(c, ds[c]), Got(c, ds[c]))
  BY StartOfItself DEF Typed
<1> QED  BY <1>1 DEF Before, At

LEMMA SomethingGot ==
    ASSUME NEW ds, Typed(ds), NEW c \in Registered, NEW d, NEW d2, Got(c, d) \in Seq(Items),
           NEW v \in Items, Got(c, d2) = Got(c, d) \/ Got(c, d2) = Append(Got(c, d), v),
           NEW s, NEW m, NEW s2, NEW m2
    PROVE  /\ Before(At(s, m, With(ds, c, d)), At(s2, m2, With(ds, c, d2)))
           /\ Typed(With(ds, c, d)) /\ Typed(With(ds, c, d2))
<1>1. StartOf(Got(c, d), Got(c, d2))  BY StartOfItself
<1>2. \A k \in Registered : StartOf(Got(k, ds[k]), Got(k, ds[k]))
  BY StartOfItself DEF Typed
<1>3. /\ DOMAIN With(ds, c, d) = Registered /\ DOMAIN With(ds, c, d2) = Registered
      /\ With(ds, c, d)[c] = d /\ With(ds, c, d2)[c] = d2
      /\ \A k \in Registered \ {c} : With(ds, c, d)[k] = ds[k] /\ With(ds, c, d2)[k] = ds[k]
  BY DEF With, Typed
<1>4. \A k \in Registered : StartOf(Got(k, With(ds, c, d)[k]), Got(k, With(ds, c, d2)[k]))
  BY <1>1, <1>2, <1>3
<1>5. Got(c, d2) \in Seq(Items)  BY AppendProperties
<1>6. Typed(With(ds, c, d))  BY <1>3 DEF Typed
<1>7. Typed(With(ds, c, d2))  BY <1>3, <1>5 DEF Typed
<1> QED  BY <1>4, <1>6, <1>7 DEF Before, At

\* The delimiters of a packet, and the escape.
LEMMA DecodeStart ==
    ASSUME NEW i, NEW e, NEW x, NEW p, NEW ps
    PROVE  Decode(Dec(i, e, x, p, ps), SOP) = Dec(Yes, No, x, << >>, ps)
<1> DEFINE d == Dec(i, e, x, p, ps)
           d1 == [d EXCEPT !.inside = Yes]
           d2 == [d1 EXCEPT !.end = No]
           d3 == [d2 EXCEPT !.part = << >>]
<1>1. Decode(d, SOP) = d3
  <2>1. [d EXCEPT !.inside = TRUE, !.end = FALSE, !.part = << >>]
          = [d EXCEPT !.inside = Yes, !.end = No, !.part = << >>]
    <3> HIDE DEF d
    <3> QED  BY DEF Yes, No
  <2>2. [d EXCEPT !.inside = Yes, !.end = No, !.part = << >>] = d3
    <3> HIDE DEF d
    <3> QED  OBVIOUS
  <2> QED  BY <2>1, <2>2 DEF Decode, SOP, EOP, ESCAPE
<1>2. d1 = Dec(Yes, e, x, p, ps)  BY DEF Dec
<1> HIDE DEF d1
<1>3. d2 = Dec(Yes, No, x, p, ps)  BY <1>2 DEF Dec
<1> HIDE DEF d2
<1>4. d3 = Dec(Yes, No, x, << >>, ps)  BY <1>3 DEF Dec
<1> QED  BY <1>1, <1>4

LEMMA DecodeEnd ==
    ASSUME NEW i, NEW e, NEW x, NEW p, NEW ps
    PROVE  Decode(Dec(i, e, x, p, ps), EOP) = Dec(i, Yes, x, p, ps)
<1> DEFINE d == Dec(i, e, x, p, ps)
<1>1. Decode(d, EOP) = [d EXCEPT !.end = Yes]
  <2> HIDE DEF d
  <2> QED  BY DEF Decode, SOP, EOP, ESCAPE, Yes
<1>2. [d EXCEPT !.end = Yes] = Dec(i, Yes, x, p, ps)  BY DEF Dec
<1> QED  BY <1>1, <1>2

LEMMA DecodeEscape ==
    ASSUME NEW i, NEW e, NEW x, NEW p, NEW ps
    PROVE  Decode(Dec(i, e, x, p, ps), ESCAPE) = Dec(i, e, Yes, p, ps)
<1> DEFINE d == Dec(i, e, x, p, ps)
<1>1. Decode(d, ESCAPE) = [d EXCEPT !.esc = Yes]
  <2> HIDE DEF d
  <2> QED  BY DEF Decode, SOP, EOP, ESCAPE, Yes
<1>2. [d EXCEPT !.esc = Yes] = Dec(i, e, Yes, p, ps)  BY DEF Dec
<1> QED  BY <1>1, <1>2

\* A byte of data within a packet, the last or another.
After(e, p, ps, b) ==
    IF e = Yes THEN Dec(No, No, No, << >>, Append(ps, Append(p, b)))
    ELSE Dec(Yes, No, No, Append(p, b), ps)

LEMMA DecodeByte ==
    ASSUME NEW e \in {Yes, No}, NEW x \in {Yes, No}, NEW p, NEW ps,
           NEW b \in Bytes \ {SOP, EOP, CHANNEL, ESCAPE}
    PROVE  Decode(Dec(Yes, e, x, p, ps), b) = After(e, p, ps, IF x = Yes THEN Xor20(b) ELSE b)
<1>b. b \in Int  BY DEF Bytes
<1> DEFINE v == IF x THEN Xor20(b) ELSE b
<1>v. v = IF x = Yes THEN Xor20(b) ELSE b  BY DEF Yes, No
<1>2. CASE e = No
  <2>1. e # Yes  BY <1>2 DEF Yes, No
  <2>2. Decode(Dec(TRUE, FALSE, x, p, ps), b) = Dec(TRUE, FALSE, FALSE, Append(p, v), ps)
    BY <1>b DEF Dec, Decode
  <2> HIDE DEF v
  <2>3. Decode(Dec(Yes, No, x, p, ps), b) = Dec(Yes, No, No, Append(p, v), ps)
    BY <2>2 DEF Yes, No
  <2> QED  BY <1>2, <1>v, <2>1, <2>3 DEF After
<1>3. CASE e = Yes
  <2>2. Decode(Dec(TRUE, TRUE, x, p, ps), b)
          = Dec(FALSE, FALSE, FALSE, << >>, Append(ps, Append(p, v)))
    BY <1>b DEF Dec, Decode
  <2> HIDE DEF v
  <2>3. Decode(Dec(Yes, Yes, x, p, ps), b) = Dec(No, No, No, << >>, Append(ps, Append(p, v)))
    BY <2>2 DEF Yes, No
  <2> QED  BY <1>3, <1>v, <2>3 DEF After
<1> QED  BY <1>2, <1>3

\* Between packets a channel prefix is nothing to the decoder.
LEMMA DecodeNothing ==
    ASSUME NEW ps
    PROVE  Decode(Dec(No, No, No, << >>, ps), CHANNEL) = Dec(No, No, No, << >>, ps)
<1> DEFINE d == Dec(No, No, No, << >>, ps)
<1>1. d.inside = No  BY DEF Dec
<1>2. [d EXCEPT !.esc = No] = d  BY DEF Dec
<1> HIDE DEF d
<1>3. Decode(d, CHANNEL) = [d EXCEPT !.esc = No]
  BY <1>1 DEF Decode, CHANNEL, SOP, EOP, ESCAPE, No
<1> QED  BY <1>2, <1>3 DEF d

\* A byte as it travels: what undoes the escape gives the byte.
LEMMA EscapedIs ==
    ASSUME NEW b \in Bytes
    PROVE  \/ /\ Escaped(b) = <<b>> /\ b \notin {SOP, EOP, CHANNEL, ESCAPE}
           \/ /\ Escaped(b) = <<ESCAPE, Xor20(b)>> /\ Xor20(Xor20(b)) = b
              /\ Xor20(b) \in Bytes \ {SOP, EOP, CHANNEL, ESCAPE}
              /\ NeedsEscape(b)
<1>1. CASE NeedsEscape(b)
  <2>1. b \in {122, 123, 124, 125}  BY <1>1 DEF NeedsEscape, SOP, ESCAPE, Bytes
  <2>2. b \div 32 = 3 /\ 3 % 2 = 1  BY <2>1
  <2>3. Xor20(b) = b - 32 /\ (b - 32) \div 32 = 2 /\ 2 % 2 = 0  BY <2>1, <2>2 DEF Xor20
  <2>4. Xor20(b - 32) = b  BY <2>1, <2>3 DEF Xor20
  <2>5. Xor20(b) \in Bytes \ {SOP, EOP, CHANNEL, ESCAPE}
    BY <2>1, <2>3 DEF Bytes, SOP, EOP, CHANNEL, ESCAPE
  <2>6. Escaped(b) = <<ESCAPE, Xor20(b)>>  BY <1>1 DEF Escaped
  <2> QED  BY <1>1, <2>3, <2>4, <2>5, <2>6
<1>2. CASE ~ NeedsEscape(b)
  <2>1. b \notin {SOP, EOP, CHANNEL, ESCAPE}
    BY <1>2 DEF NeedsEscape, SOP, EOP, CHANNEL, ESCAPE, Bytes
  <2>2. Escaped(b) = <<b>>  BY <1>2 DEF Escaped
  <2> QED  BY <2>1, <2>2
<1> QED  BY <1>1, <1>2

\* Two bytes.
LEMMA RunsTwo ==
    ASSUME NEW a \in Bytes, NEW b \in Bytes, NEW x, NEW y, NEW z, Move(x, a, y), Move(y, b, z)
    PROVE  Runs(x, <<a, b>>, z)
<1>1. Runs(x, <<a>>, y) /\ Runs(y, <<b>>, z)  BY RunsOne
<1>2. <<a>> \in Seq(Bytes) /\ <<b>> \in Seq(Bytes) /\ <<a>> \o <<b>> = <<a, b>>
  <2> DEFINE u == <<a>> \o <<b>>
             v == <<a, b>>
  <2>1. v \in Seq(Bytes) /\ Len(v) = 2 /\ v[1] = a /\ v[2] = b  OBVIOUS
  <2>2. u \in Seq(Bytes) /\ Len(u) = 2 /\ u[1] = a /\ u[2] = b  OBVIOUS
  <2>3. <<a>> \in Seq(Bytes) /\ <<b>> \in Seq(Bytes)  OBVIOUS
  <2> HIDE DEF u, v
  <2>4. Len(u) = Len(v) /\ \A j \in 1..Len(u) : u[j] = v[j]  BY <2>1, <2>2
  <2>5. u = v  BY <2>1, <2>2, <2>4, SeqEqual
  <2> QED  BY <2>3, <2>5 DEF u, v
<1>3. Runs(x, <<a>> \o <<b>>, z)  BY <1>1, <1>2, RunsConcat, Zenon
<1> QED  BY <1>2, <1>3, Zenon

\* A byte on a packetized channel.
LEMMA PacketMove ==
    ASSUME NEW ds, Typed(ds), NEW c \in Packetized, NEW d, NEW d2, d.packets \in Seq(Items),
           NEW v \in Items, d2.packets = d.packets \/ d2.packets = Append(d.packets, v),
           NEW b \in Bytes \ {CHANNEL}, Decode(d, b) = d2, NEW m, m # "prefix"
    PROVE  Move(At(c, m, With(ds, c, d)), b, At(c, Mode(b), With(ds, c, d2)))
<1> DEFINE x == At(c, m, With(ds, c, d))
           y == At(c, Mode(b), With(ds, c, d2))
<1>1. c \in Registered /\ c \notin Raw  BY ServiceAssumption DEF Registered
<1>2. Got(c, d) = d.packets /\ Got(c, d2) = d2.packets /\ Hear(c, d, b) = d2
  BY DEF Got, Hear
<1>3. Before(x, y)
  BY <1>1, <1>2, SomethingGot
<1>4. Heard(c, With(ds, c, d), b) = With(ds, c, d2)
  BY <1>1, <1>2 DEF Heard, With, Typed
<1>5. x.sel = c /\ x.mode = m /\ x.dec = With(ds, c, d)  BY DEF At
<1> HIDE DEF x
<1>6. MoveByte(x, b, y)  BY <1>1, <1>4, <1>5 DEF MoveByte
<1> HIDE DEF y
<1>7. Move(x, b, y)  BY <1>3, <1>6 DEF Move
<1> QED  BY <1>7 DEF x, y

\* The start of a packet, and the mark before its last byte.
LEMMA StartRuns ==
    ASSUME NEW ds, Typed(ds), NEW c \in Packetized, NEW ps \in Seq(Items)
    PROVE  Runs(At(c, "plain", With(ds, c, Dec(No, No, No, << >>, ps))), <<SOP>>,
                At(c, "plain", With(ds, c, Dec(Yes, No, No, << >>, ps))))
<1> DEFINE d == Dec(No, No, No, << >>, ps)
           d2 == Dec(Yes, No, No, << >>, ps)
<1>1. Decode(d, SOP) = d2  BY DecodeStart
<1>2. d.packets = ps /\ d2.packets = ps  BY DEF Dec
<1>3. SOP \in Bytes \ {CHANNEL} /\ Mode(SOP) = "plain" /\ 0 \in Items
  BY DEF SOP, CHANNEL, ESCAPE, Bytes, Mode, Items
<1> HIDE DEF d, d2
<1>4. Move(At(c, "plain", With(ds, c, d)), SOP, At(c, Mode(SOP), With(ds, c, d2)))
  BY <1>1, <1>2, <1>3, PacketMove
<1> QED  BY <1>3, <1>4, RunsOne DEF d, d2

LEMMA EndRuns ==
    ASSUME NEW ds, Typed(ds), NEW c \in Packetized, NEW p, NEW ps \in Seq(Items)
    PROVE  Runs(At(c, "plain", With(ds, c, Dec(Yes, No, No, p, ps))), <<EOP>>,
                At(c, "plain", With(ds, c, Dec(Yes, Yes, No, p, ps))))
<1> DEFINE d == Dec(Yes, No, No, p, ps)
           d2 == Dec(Yes, Yes, No, p, ps)
<1>1. Decode(d, EOP) = d2  BY DecodeEnd
<1>2. d.packets = ps /\ d2.packets = ps  BY DEF Dec
<1>3. EOP \in Bytes \ {CHANNEL} /\ Mode(EOP) = "plain" /\ 0 \in Items
  BY DEF EOP, CHANNEL, ESCAPE, Bytes, Mode, Items
<1> HIDE DEF d, d2
<1>4. Move(At(c, "plain", With(ds, c, d)), EOP, At(c, Mode(EOP), With(ds, c, d2)))
  BY <1>1, <1>2, <1>3, PacketMove
<1> QED  BY <1>3, <1>4, RunsOne DEF d, d2

\* A byte of data, escaped or not.
LEMMA ByteRuns ==
    ASSUME NEW ds, Typed(ds), NEW c \in Packetized, NEW e \in {Yes, No},
           NEW p \in Seq(Bytes), NEW ps \in Seq(Items), NEW b \in Bytes
    PROVE  Runs(At(c, "plain", With(ds, c, Dec(Yes, e, No, p, ps))), Escaped(b),
                At(c, "plain", With(ds, c, After(e, p, ps, b))))
<1> DEFINE d == Dec(Yes, e, No, p, ps)
           d1 == Dec(Yes, e, Yes, p, ps)
           d2 == After(e, p, ps, b)
           v == Append(p, b)
<1>1. d.packets = ps /\ d1.packets = ps  BY DEF Dec
<1>2. d2.packets = ps \/ d2.packets = Append(ps, v)  BY DEF Dec, After
<1>3. v \in Items  BY AppendProperties DEF Items
<1>n. No # Yes  BY DEF Yes, No
<1>4. Decode(d, ESCAPE) = d1  BY DecodeEscape
<1> HIDE DEF d, d1, d2, v
<1>5. CASE Escaped(b) = <<b>> /\ b \notin {SOP, EOP, CHANNEL, ESCAPE}
  <2>1. Decode(d, b) = d2  BY <1>5, <1>n, DecodeByte DEF d, d2
  <2>2. Mode(b) = "plain" /\ b \in Bytes \ {CHANNEL}  BY <1>5 DEF Mode
  <2>3. Move(At(c, "plain", With(ds, c, d)), b, At(c, "plain", With(ds, c, d2)))
    BY <1>1, <1>2, <1>3, <2>1, <2>2, PacketMove
  <2> QED  BY <1>5, <2>3, RunsOne DEF d, d2
<1>6. CASE /\ Escaped(b) = <<ESCAPE, Xor20(b)>> /\ Xor20(Xor20(b)) = b
           /\ Xor20(b) \in Bytes \ {SOP, EOP, CHANNEL, ESCAPE}
  <2> DEFINE a == Xor20(b)
  <2>0. a \in Bytes \ {SOP, EOP, CHANNEL, ESCAPE} /\ Xor20(a) = b /\ Escaped(b) = <<ESCAPE, a>>
    BY <1>6
  <2> HIDE DEF a
  <2>1. Decode(d1, a) = d2  BY <2>0, DecodeByte DEF d1, d2
  <2>2. /\ Mode(ESCAPE) = "esc" /\ ESCAPE \in Bytes \ {CHANNEL}
        /\ Mode(a) = "plain" /\ a \in Bytes \ {CHANNEL}
    BY <2>0 DEF Mode, ESCAPE, CHANNEL, Bytes
  <2>3. Move(At(c, "plain", With(ds, c, d)), ESCAPE, At(c, "esc", With(ds, c, d1)))
    BY <1>1, <1>3, <1>4, <2>2, PacketMove
  <2>4. Move(At(c, "esc", With(ds, c, d1)), a, At(c, "plain", With(ds, c, d2)))
    BY <1>1, <1>2, <1>3, <2>1, <2>2, PacketMove
  <2>5. Runs(At(c, "plain", With(ds, c, d)), <<ESCAPE, a>>, At(c, "plain", With(ds, c, d2)))
    BY <2>2, <2>3, <2>4, RunsTwo
  <2> QED  BY <2>0, <2>5 DEF d, d2
<1> QED  BY <1>5, <1>6, EscapedIs

\* What a byte of data takes are bytes.
LEMMA EscapedBytes ==
    ASSUME NEW b \in Bytes
    PROVE  Escaped(b) \in Seq(Bytes)
<1>1. ESCAPE \in Bytes  BY DEF ESCAPE, Bytes
<1>2. CASE Escaped(b) = <<b>>  BY <1>2
<1>3. CASE Escaped(b) = <<ESCAPE, Xor20(b)>> /\ Xor20(b) \in Bytes
  <2> HIDE DEF Bytes
  <2> QED  BY <1>1, <1>3
<1> QED  BY <1>2, <1>3, EscapedIs

\* The decoder of a channel when the host has sent the bytes p of a packet.
Holding(p, ps) == IF p = << >> THEN Dec(No, No, No, << >>, ps) ELSE Dec(Yes, No, No, p, ps)
End(last) == IF last THEN Yes ELSE No

\* The delimiters are bytes.
LEMMA DelimiterBytes ==
    ASSUME NEW last \in BOOLEAN
    PROVE  Delimiters(last) \in Seq(Bytes)
<1>1. SOP \in Bytes /\ EOP \in Bytes  BY DEF SOP, EOP, Bytes
<1>2. <<SOP>> \in Seq(Bytes) /\ <<EOP>> \in Seq(Bytes) /\ << >> \in Seq(Bytes)  BY <1>1
<1> QED  BY <1>2, ConcatProperties DEF Delimiters

\* The next byte of a packet, with the delimiters before it.
LEMMA PacketRuns ==
    ASSUME NEW ds, Typed(ds), NEW c \in Packetized, NEW ps \in Seq(Items), NEW b \in Bytes,
           NEW last \in BOOLEAN, packet \in Seq(Bytes)
    PROVE  Runs(At(c, "plain", With(ds, c, Holding(packet, ps))),
                Delimiters(last) \o Escaped(b),
                At(c, "plain", With(ds, c, After(End(last), packet, ps, b))))
<1> DEFINE X(e) == At(c, "plain", With(ds, c, Dec(Yes, e, No, packet, ps)))
           x == At(c, "plain", With(ds, c, Holding(packet, ps)))
           first == IF packet = << >> THEN <<SOP>> ELSE << >>
           end == IF last THEN <<EOP>> ELSE << >>
           z == At(c, "plain", With(ds, c, After(End(last), packet, ps, b)))
<1>0. first \in Seq(Bytes) /\ end \in Seq(Bytes) /\ Escaped(b) \in Seq(Bytes)
  <2>1. <<SOP>> \in Seq(Bytes) /\ <<EOP>> \in Seq(Bytes)  BY DEF SOP, EOP, Bytes
  <2> QED  BY <2>1, EscapedBytes
<1>1. ASSUME NEW e \in {Yes, No} PROVE Before(X(e), X(e))
  <2> DEFINE d == Dec(Yes, e, No, packet, ps)
  <2>1. Got(c, d) = ps  BY DEF Got, Dec
  <2>2. c \in Registered /\ 0 \in Items  BY DEF Registered, Items, Bytes
  <2> HIDE DEF d
  <2>3. Before(At(c, "plain", With(ds, c, d)), At(c, "plain", With(ds, c, d)))
    BY <2>1, <2>2, SomethingGot
  <2> QED  BY <2>3 DEF d
<1>2. Runs(x, first, X(No))
  <2>1. CASE packet = << >>  BY <2>1, StartRuns DEF Holding
  <2>2. CASE packet # << >>
    <3>1. x = X(No) /\ first = << >>  BY <2>2 DEF Holding
    <3> HIDE DEF X, x
    <3> QED  BY <1>1, <3>1, RunsEmpty
  <2> QED  BY <2>1, <2>2
<1>3. Runs(X(No), end, X(End(last)))
  <2>1. CASE last  BY <2>1, EndRuns DEF End
  <2>2. CASE ~ last
    <3>1. End(last) = No /\ end = << >>  BY <2>2 DEF End
    <3> HIDE DEF X
    <3> QED  BY <1>1, <3>1, RunsEmpty
  <2> QED  BY <2>1, <2>2
<1>4. Runs(X(End(last)), Escaped(b), z)
  <2>1. End(last) \in {Yes, No}  BY DEF End
  <2> QED  BY <2>1, ByteRuns
<1> HIDE DEF X, x, z, first, end
<1>5. Runs(x, first \o end, X(End(last)))  BY <1>0, <1>2, <1>3, RunsConcat
<1>6. first \o end \in Seq(Bytes)  BY <1>0, ConcatProperties
<1>7. Runs(x, (first \o end) \o Escaped(b), z)  BY <1>0, <1>4, <1>5, <1>6, RunsConcat
<1> QED  BY <1>7 DEF x, z, first, end, Delimiters

\* No channel takes what the host sends to a number that nobody registered.
LEMMA OffMove ==
    ASSUME NEW ds, Typed(ds), NEW b \in Bytes \ {CHANNEL}, NEW m, m # "prefix"
    PROVE  Move(At(NONE, m, ds), b, At(NONE, Mode(b), ds))
<1>1. NONE \notin Registered /\ NONE \notin Raw
  BY ServiceAssumption DEF NONE, Registered
<1>2. Before(At(NONE, m, ds), At(NONE, Mode(b), ds))  BY NothingGot
<1>3. MoveByte(At(NONE, m, ds), b, At(NONE, Mode(b), ds))
  BY <1>1 DEF MoveByte, At, Heard
<1> QED  BY <1>2, <1>3 DEF Move

\* The same of a packet that nobody gets.
LEMMA OffRuns ==
    ASSUME NEW ds, Typed(ds), NEW b \in Bytes, NEW last \in BOOLEAN
    PROVE  Runs(At(NONE, "plain", ds), Delimiters(last) \o Escaped(b), At(NONE, "plain", ds))
<1> DEFINE x == At(NONE, "plain", ds)
           first == IF packet = << >> THEN <<SOP>> ELSE << >>
           end == IF last THEN <<EOP>> ELSE << >>
<1>0. first \in Seq(Bytes) /\ end \in Seq(Bytes) /\ Escaped(b) \in Seq(Bytes)
  <2>1. <<SOP>> \in Seq(Bytes) /\ <<EOP>> \in Seq(Bytes)  BY DEF SOP, EOP, Bytes
  <2> QED  BY <2>1, EscapedBytes
<1>1. Runs(x, << >>, x)  BY NothingGot, RunsEmpty
<1>2. Runs(x, <<SOP>>, x) /\ Runs(x, <<EOP>>, x)
  <2>1. /\ SOP \in Bytes \ {CHANNEL} /\ Mode(SOP) = "plain"
        /\ EOP \in Bytes \ {CHANNEL} /\ Mode(EOP) = "plain"
    BY DEF SOP, EOP, CHANNEL, ESCAPE, Mode, Bytes
  <2>2. Move(x, SOP, x) /\ Move(x, EOP, x)  BY <2>1, OffMove
  <2> QED  BY <2>2, RunsOne
<1>3. Runs(x, Escaped(b), x)
  <2>1. CASE Escaped(b) = <<b>> /\ b \notin {SOP, EOP, CHANNEL, ESCAPE}
    <3>1. Mode(b) = "plain" /\ b \in Bytes \ {CHANNEL}  BY <2>1 DEF Mode
    <3>2. Move(x, b, x)  BY <3>1, OffMove
    <3> QED  BY <2>1, <3>2, RunsOne
  <2>2. CASE /\ Escaped(b) = <<ESCAPE, Xor20(b)>>
             /\ Xor20(b) \in Bytes \ {SOP, EOP, CHANNEL, ESCAPE}
    <3> DEFINE a == Xor20(b)
    <3>0. a \in Bytes \ {SOP, EOP, CHANNEL, ESCAPE} /\ Escaped(b) = <<ESCAPE, a>>
      BY <2>2
    <3> HIDE DEF a
    <3>1. /\ Mode(ESCAPE) = "esc" /\ ESCAPE \in Bytes \ {CHANNEL}
          /\ Mode(a) = "plain" /\ a \in Bytes \ {CHANNEL}
      BY <3>0 DEF Mode, ESCAPE, CHANNEL, Bytes
    <3>2. Move(x, ESCAPE, At(NONE, "esc", ds)) /\ Move(At(NONE, "esc", ds), a, x)
      BY <3>1, OffMove
    <3>3. Runs(x, <<ESCAPE, a>>, x)  BY <3>1, <3>2, RunsTwo
    <3> QED  BY <3>0, <3>3
  <2> QED  BY <2>1, <2>2, EscapedIs
<1>4. Runs(x, first, x) /\ Runs(x, end, x)  BY <1>1, <1>2
<1> HIDE DEF x, first, end
<1>5. Runs(x, first \o end, x)  BY <1>0, <1>4, RunsConcat
<1>6. first \o end \in Seq(Bytes)  BY <1>0, ConcatProperties
<1>7. Runs(x, (first \o end) \o Escaped(b), x)  BY <1>0, <1>3, <1>5, <1>6, RunsConcat
<1> QED  BY <1>7 DEF x, first, end, Delimiters

\* A plain byte.
LEMMA RawRuns ==
    ASSUME NEW ds, Typed(ds), NEW c \in Raw, NEW d \in Seq(Items), NEW b \in Bytes,
           ~ NeedsEscape(b)
    PROVE  Runs(At(c, "plain", With(ds, c, d)), Escaped(b),
                At(c, "plain", With(ds, c, Append(d, b))))
<1> DEFINE x == At(c, "plain", With(ds, c, d))
           y == At(c, "plain", With(ds, c, Append(d, b)))
<1>1. c \in Registered /\ c \notin Packetized  BY ServiceAssumption DEF Registered
<1>2. b \notin {SOP, EOP, CHANNEL, ESCAPE} /\ Escaped(b) = <<b>> /\ Mode(b) = "plain"
  <2>1. Escaped(b) = <<b>> /\ b \notin {SOP, EOP, CHANNEL, ESCAPE}  BY EscapedIs
  <2> QED  BY <2>1 DEF Mode
<1>3. /\ Got(c, d) = d /\ Got(c, Append(d, b)) = Append(d, b) /\ Hear(c, d, b) = Append(d, b)
      /\ b \in Items
  BY <1>1, <1>2 DEF Got, Hear, Items
<1>4. Before(x, y)  BY <1>1, <1>3, SomethingGot
<1>5. Heard(c, With(ds, c, d), b) = With(ds, c, Append(d, b))
  BY <1>1, <1>3 DEF Heard, With, Typed
<1>6. x.sel = c /\ x.mode = "plain" /\ x.dec = With(ds, c, d)  BY DEF At
<1> HIDE DEF x
<1>7. MoveByte(x, b, y)  BY <1>2, <1>5, <1>6 DEF MoveByte
<1>8. Move(x, b, y)  BY <1>4, <1>7 DEF Move
<1> QED  BY <1>2, <1>8, RunsOne DEF x

\* A channel prefix selects the channel, whatever was selected, between packets.
LEMMA SelectRuns ==
    ASSUME NEW ds, Typed(ds), NEW c \in Bytes, ~ NeedsEscape(c), NEW s,
           s \in Registered => Hear(s, ds[s], CHANNEL) = ds[s]
    PROVE  Runs(At(s, "plain", ds), SelectChannel(c), At(Sel(c), "plain", ds))
<1> DEFINE x == At(s, "plain", ds)
           y == At(s, "prefix", ds)
           z == At(Sel(c), "plain", ds)
<1>1. CHANNEL \in Bytes  BY DEF CHANNEL, Bytes
<1>2. c \notin {SOP, EOP, CHANNEL, ESCAPE} /\ Escaped(c) = <<c>>  BY EscapedIs
<1>3. Before(x, y) /\ Before(y, z)  BY NothingGot
<1>4. /\ x.sel = s /\ x.mode = "plain" /\ x.dec = ds
      /\ y.sel = s /\ y.mode = "prefix" /\ y.dec = ds
  BY DEF At
<1> HIDE DEF x, y
<1>5. MovePrefix(x, CHANNEL, y)  BY <1>4 DEF MovePrefix, y
<1>6. MoveNumber(y, c, z)  BY <1>2, <1>4 DEF MoveNumber
<1>7. Move(x, CHANNEL, y) /\ Move(y, c, z)  BY <1>1, <1>3, <1>5, <1>6 DEF Move
<1>8. Runs(x, <<CHANNEL>>, y) /\ Runs(y, <<c>>, z)  BY <1>7, RunsOne
<1>9. <<CHANNEL>> \in Seq(Bytes) /\ <<c>> \in Seq(Bytes)  BY <1>1
<1>10. Runs(x, <<CHANNEL>> \o <<c>>, z)  BY <1>8, <1>9, RunsConcat
<1> QED  BY <1>2, <1>10 DEF SelectChannel, x

------------------------------------------------------------------------------
(* The invariant.                                                          *)

\* What the sinks have taken, and what the channels should have got when they
\* have taken everything the host sent: the point to which the stream leads.
Seen == [c \in Registered |-> IF c \in Packetized THEN delivered[c] ELSE delivered[c].data]
Meant ==
    [c \in Registered |-> IF c \in Packetized
                            THEN Holding(IF c = host THEN packet ELSE << >>, expected[c])
                            ELSE expected[c]]
Target == At(Sel(host), "plain", Meant)

\* The bytes that are scanned and not delivered, and those that are not scanned.
Position == IF sink_channel = NONE THEN index ELSE IF pc = "write" THEN from ELSE head
Ahead == SubSeq(buffer, Position + 1, index)
Todo == SubSeq(buffer, index + 1, read_len) \o input

Types ==
    /\ input \in Seq(Bytes) /\ buffer \in Seq(Bytes) /\ packet \in Seq(Bytes)
    /\ expected \in [Registered -> Seq(Items)] /\ DOMAIN delivered = Registered
    /\ host \in Registered \cup Unregistered \cup {NONE}
    /\ sink_channel \in Registered \cup {NONE}
    /\ channel_prefix \in BOOLEAN /\ escape_prefix \in BOOLEAN

\* The buffer is the chunk that read gave; a span ends before the prefix of the
\* next channel, or at the end of the chunk.
SpanEnds ==
    IF number = NONE THEN to = read_len /\ index = read_len /\ from <= to
    ELSE /\ to = index - 1 /\ index < read_len /\ from <= index
         /\ channel_prefix /\ number = Byte(index) /\ number \notin {CHANNEL, ESCAPE}
Bounds ==
    /\ read_len = Len(buffer) /\ index \in 0..read_len /\ head \in 0..index
    /\ pc \in {"read", "scan", "write"}
    /\ pc = "read" => read_len = 0
    /\ pc = "write" => from \in Nat /\ SpanEnds

\* The sinks are at the point x and the scan is at y: the bytes between lead from
\* one to the other within the selected channel, those after to the target.
Points(x, y) ==
    /\ x.sel = sink_channel /\ x.dec = Seen /\ Runs(x, Ahead, y)
    /\ y.sel = sink_channel /\ Runs(y, Todo, Target)
    /\ (y.mode = "prefix" <=> channel_prefix) /\ (y.mode = "esc" <=> escape_prefix)
    /\ \A i \in 1..Len(Ahead) : Ahead[i] = CHANNEL <=> i = Len(Ahead) /\ y.mode = "prefix"
    /\ x.mode = "prefix" => Ahead = << >>

IInv == Types /\ Bounds /\ \E x, y : Points(x, y)

\* The parts of the chunk.
LEMMA Parts ==
    ASSUME Types, Bounds
    PROVE  /\ Ahead \in Seq(Bytes) /\ Todo \in Seq(Bytes)
           /\ Position \in 0..index
           /\ Len(Ahead) = index - Position
           /\ \A i \in 1..Len(Ahead) : Ahead[i] = buffer[Position + i]
<1>1. Position \in 0..index
  <2>1. pc = "write" => from \in 0..index
    <3>1. CASE number = NONE  BY <3>1 DEF Bounds, SpanEnds
    <3>2. CASE number # NONE  BY <3>2 DEF Bounds, SpanEnds
    <3> QED  BY <3>1, <3>2
  <2> QED  BY <2>1 DEF Bounds, Position
<1>2. /\ index \in Nat /\ index <= Len(buffer) /\ Position \in Nat /\ Position <= index
      /\ Len(buffer) \in Nat /\ read_len = Len(buffer)
  BY <1>1 DEF Types, Bounds
<1> HIDE DEF Position
<1>3. /\ Ahead \in Seq(Bytes) /\ Len(Ahead) = index - Position
      /\ \A i \in 1..(index - Position) : Ahead[i] = buffer[Position + i]
  <2>1. Position + 1 \in 1..(Len(buffer) + 1) /\ index \in Position..Len(buffer)
    BY <1>2
  <2>2. /\ Ahead \in Seq(Bytes)
        /\ Len(Ahead) = IF Position + 1 <= index THEN index - (Position + 1) + 1 ELSE 0
        /\ \A i \in 1..(index - (Position + 1) + 1) : Ahead[i] = buffer[(Position + 1) + i - 1]
    BY <1>2, <2>1, SubSeqProperties DEF Types, Ahead
  <2>3. index - (Position + 1) + 1 = index - Position  BY <1>2
  <2>4. \A i \in 1..(index - Position) : (Position + 1) + i - 1 = Position + i  BY <1>2
  <2>5. Len(Ahead) = index - Position  BY <1>2, <2>2
  <2>6. \A i \in 1..(index - Position) : Ahead[i] = buffer[(Position + 1) + i - 1]
    BY <2>2, <2>3
  <2> QED  BY <2>2, <2>4, <2>5, <2>6
<1>4. SubSeq(buffer, index + 1, read_len) \in Seq(Bytes)
  <2>1. index + 1 \in 1..(Len(buffer) + 1) /\ read_len \in index..Len(buffer)  BY <1>2
  <2> QED  BY <1>2, <2>1, SubSeqProperties DEF Types
<1>5. Todo \in Seq(Bytes)  BY <1>4, ConcatProperties DEF Types, Todo
<1> QED  BY <1>1, <1>3, <1>5

\* What the channels should have got is of their types.
LEMMA MeantTyped ==
    ASSUME Types
    PROVE  Typed(Meant)
<1>1. DOMAIN Meant = Registered  BY DEF Meant
<1>2. ASSUME NEW c \in Registered PROVE Got(c, Meant[c]) \in Seq(Items)
  <2>1. expected[c] \in Seq(Items)  BY DEF Types
  <2>2. \A p : Holding(p, expected[c]).packets = expected[c]  BY DEF Holding, Dec
  <2>3. CASE c \in Packetized
    <3>1. Meant[c].packets = expected[c]  BY <2>2, <2>3 DEF Meant
    <3> QED  BY <2>1, <2>3, <3>1 DEF Got
  <2>4. CASE c \notin Packetized  BY <2>1, <2>4 DEF Got, Meant
  <2> QED  BY <2>3, <2>4
<1> QED  BY <1>1, <1>2 DEF Typed

\* The host appends to the stream.
LEMMA HostStep ==
    ASSUME IInv, NEW bytes \in Seq(Bytes), HostSends(bytes), Types', Runs(Target, bytes, Target')
    PROVE  IInv'
<1>1. PICK x : \E y : Points(x, y)  BY DEF IInv
<1>2. PICK y : Points(x, y)  BY <1>1
<1>u. /\ input' = input \o bytes
      /\ UNCHANGED <<pc, buffer, read_len, index, head, channel_prefix, escape_prefix,
                     sink_channel, from, to, number, delivered>>
  BY DEF HostSends, scanVars, writeVars
<1>3. Bounds'  BY <1>u DEF IInv, Bounds, SpanEnds, Byte
<1>4. Seen' = Seen /\ Position' = Position /\ Ahead' = Ahead
  BY <1>u DEF Seen, Position, Ahead
<1>5. Todo \in Seq(Bytes) /\ SubSeq(buffer, index + 1, read_len) \in Seq(Bytes)
  <2>0. Types /\ Bounds  BY DEF IInv
  <2>1. index + 1 \in 1..(Len(buffer) + 1) /\ read_len \in index..Len(buffer)
    BY <2>0 DEF Types, Bounds
  <2> QED  BY <2>0, <2>1, Parts, SubSeqProperties DEF Types
<1>6. Todo' = Todo \o bytes
  <2> DEFINE r == SubSeq(buffer, index + 1, read_len)
  <2>1. input \in Seq(Bytes) /\ r \in Seq(Bytes)  BY <1>5 DEF IInv, Types
  <2>2. Todo = r \o input /\ Todo' = r \o (input \o bytes)
    BY <1>u DEF Todo
  <2> HIDE DEF r
  <2>3. (r \o input) \o bytes = r \o (input \o bytes)  BY <2>1, ConcatAssociative
  <2> QED  BY <2>2, <2>3
<1>7. Runs(y, Todo \o bytes, Target')
  <2>1. Runs(y, Todo, Target)  BY <1>2 DEF Points
  <2> QED  BY <1>5, <2>1, RunsConcat
<1>8. Points(x, y)'
  <2>1. Runs(y, Todo', Target')  BY <1>6, <1>7
  <2> QED  BY <1>2, <1>4, <1>u, <2>1 DEF Points
<1> QED  BY <1>3, <1>8 DEF IInv

\* The host selects a channel.
LEMMA HostSelectStep ==
    ASSUME IInv, Unescapable, NEW c \in Registered \cup Unregistered, HostSelect(c)
    PROVE  IInv'
<1>u. /\ packet = << >> /\ HostSends(SelectChannel(c)) /\ host' = c
      /\ packet' = packet /\ expected' = expected
  BY DEF HostSelect, HostBegins
<1>v. UNCHANGED <<buffer, channel_prefix, escape_prefix, sink_channel, delivered>>
  BY <1>u DEF HostSends, scanVars
<1>1. c \in Bytes /\ ~ NeedsEscape(c)
  BY ServiceAssumption DEF Registered, Bytes, Unescapable
<1>2. SelectChannel(c) \in Seq(Bytes)
  <2>1. CHANNEL \in Bytes  BY DEF CHANNEL, Bytes
  <2>2. <<CHANNEL>> \in Seq(Bytes) /\ Escaped(c) \in Seq(Bytes)  BY <1>1, <2>1, EscapedBytes
  <2> QED  BY <2>2, ConcatProperties DEF SelectChannel
<1>3. Types'
  <2>1. input' \in Seq(Bytes)
    BY <1>u, <1>2, ConcatProperties DEF HostSends, IInv, Types
  <2> QED  BY <1>u, <1>v, <2>1 DEF IInv, Types
<1>4. Meant' = Meant
  <2>1. \A k : (IF k = c THEN packet ELSE << >>) = << >>
               /\ (IF k = host THEN packet ELSE << >>) = << >>
    BY <1>u
  <2>2. Meant = [k \in Registered |-> IF k \in Packetized THEN Holding(<< >>, expected[k])
                                      ELSE expected[k]]
    BY <2>1 DEF Meant
  <2>3. Meant' = [k \in Registered |-> IF k \in Packetized THEN Holding(<< >>, expected[k])
                                       ELSE expected[k]]
    BY <1>u, <2>1 DEF Meant
  <2> QED  BY <2>2, <2>3
<1>5. ASSUME NEW s \in Registered PROVE Hear(s, Meant[s], CHANNEL) = Meant[s]
  <2>1. CASE s \in Packetized
    <3>1. Meant[s] = Dec(No, No, No, << >>, expected[s])
      BY <1>u, <2>1 DEF Meant, Holding
    <3> QED  BY <2>1, <3>1, DecodeNothing DEF Hear
  <2>2. CASE s \notin Packetized  BY <2>2 DEF Hear
  <2> QED  BY <2>1, <2>2
<1>6. Typed(Meant)  BY MeantTyped DEF IInv
<1>7. Runs(At(Sel(host), "plain", Meant), SelectChannel(c), At(Sel(c), "plain", Meant))
  BY <1>1, <1>5, <1>6, SelectRuns
<1>8. Target' = At(Sel(c), "plain", Meant)  BY <1>u, <1>4 DEF Target
<1> QED  BY <1>u, <1>2, <1>3, <1>7, <1>8, HostStep DEF Target

\* What a byte of a packet makes of what the channels should get.
LEMMA PacketMeans ==
    ASSUME Types, NEW b \in Bytes, NEW last \in BOOLEAN, HostPacketByte(b, last)
    PROVE  /\ host \in Packetized =>
                /\ Meant = With(Meant, host, Holding(packet, expected[host]))
                /\ Meant' = With(Meant, host, After(End(last), packet, expected[host], b))
           /\ host \notin Packetized => Sel(host) = NONE /\ Meant' = Meant
<1>u. /\ host \in Packetized \cup Unregistered /\ host' = host
      /\ packet' = IF last THEN << >> ELSE Append(packet, b)
      /\ expected' = IF last /\ host \in Packetized
                     THEN [expected EXCEPT ![host] = Append(@, Append(packet, b))]
                     ELSE expected
  BY DEF HostPacketByte
<1>0. /\ Packetized \subseteq Registered /\ Unregistered \cap Registered = {}
  BY ServiceAssumption DEF Registered
<1>e. DOMAIN expected = Registered  BY DEF Types
<1>1. ASSUME host \in Packetized
      PROVE  Meant = With(Meant, host, Holding(packet, expected[host]))
  <2>1. Meant[host] = Holding(packet, expected[host])  BY <1>0, <1>1 DEF Meant
  <2> QED  BY <2>1 DEF With, Meant
<1>2. ASSUME host \in Packetized
      PROVE  Meant' = With(Meant, host, After(End(last), packet, expected[host], b))
  <2> DEFINE d == After(End(last), packet, expected[host], b)
  <2>1. Meant'[host] = d
    <3>0. Meant'[host] = Holding(packet', expected'[host])
      BY <1>0, <1>2, <1>u DEF Meant
    <3>1. CASE last
      <4>1. packet' = << >> /\ expected'[host] = Append(expected[host], Append(packet, b))
        BY <1>u, <1>0, <1>e, <1>2, <3>1
      <4>2. d = Dec(No, No, No, << >>, Append(expected[host], Append(packet, b)))
        BY <3>1 DEF After, End
      <4> QED  BY <3>0, <4>1, <4>2 DEF Holding
    <3>2. CASE ~ last
      <4>1. packet' = Append(packet, b) /\ expected' = expected  BY <1>u, <3>2
      <4>2. Append(packet, b) # << >>  BY AppendProperties DEF Types
      <4>3. No # Yes  BY DEF Yes, No
      <4>4. d = Dec(Yes, No, No, Append(packet, b), expected[host])
        BY <3>2, <4>3 DEF After, End
      <4> QED  BY <3>0, <4>1, <4>2, <4>4 DEF Holding
    <3> QED  BY <3>1, <3>2
  <2>2. ASSUME NEW k \in Registered \ {host} PROVE Meant'[k] = Meant[k]
    <3>1. expected'[k] = expected[k]  BY <1>u, <1>e
    <3> QED  BY <1>u, <2>2, <3>1 DEF Meant
  <2>3. DOMAIN Meant' = Registered /\ DOMAIN Meant = Registered  BY DEF Meant
  <2>4. Meant' = [k \in Registered |-> Meant'[k]]  BY DEF Meant
  <2> HIDE DEF d
  <2>5. With(Meant, host, d) = [k \in Registered |-> IF k = host THEN d ELSE Meant[k]]
    BY <2>3 DEF With
  <2>6. \A k \in Registered : Meant'[k] = IF k = host THEN d ELSE Meant[k]
    BY <2>1, <2>2
  <2>7. Meant' = With(Meant, host, d)  BY <2>4, <2>5, <2>6
  <2> QED  BY <2>7 DEF d
<1>3. ASSUME host \notin Packetized PROVE Sel(host) = NONE /\ Meant' = Meant
  <2>1. host \notin Registered /\ expected' = expected  BY <1>u, <1>0, <1>3
  <2>2. \A k \in Registered : k # host /\ k # host'  BY <1>u, <2>1
  <2>3. Meant = [k \in Registered |-> IF k \in Packetized THEN Holding(<< >>, expected[k])
                                      ELSE expected[k]]
    BY <2>2 DEF Meant
  <2>4. Meant' = [k \in Registered |-> IF k \in Packetized THEN Holding(<< >>, expected[k])
                                       ELSE expected[k]]
    BY <2>1, <2>2 DEF Meant
  <2> QED  BY <2>1, <2>3, <2>4 DEF Sel
<1> QED  BY <1>1, <1>2, <1>3

\* The host sends a byte of a packet, to a channel or to nobody.
LEMMA HostPacketStep ==
    ASSUME IInv, NEW b \in Data, NEW last \in BOOLEAN, HostPacketByte(b, last)
    PROVE  IInv'
<1>b. b \in Bytes  BY ServiceAssumption DEF Bytes
<1>t. Types  BY DEF IInv
<1>u. /\ host \in Packetized \cup Unregistered /\ host' = host
      /\ packet' = IF last THEN << >> ELSE Append(packet, b)
      /\ expected' = IF last /\ host \in Packetized
                     THEN [expected EXCEPT ![host] = Append(@, Append(packet, b))]
                     ELSE expected
      /\ HostSends(Delimiters(last) \o Escaped(b))
  BY DEF HostPacketByte
<1>v. UNCHANGED <<buffer, channel_prefix, escape_prefix, sink_channel, delivered>>
  BY <1>u DEF HostSends, scanVars
<1>1. Delimiters(last) \o Escaped(b) \in Seq(Bytes)
  BY <1>b, DelimiterBytes, EscapedBytes, ConcatProperties
<1>2. Append(packet, b) \in Seq(Bytes)  BY <1>b, <1>t, AppendProperties DEF Types
<1>3. Types'
  <2>1. input' \in Seq(Bytes)  BY <1>u, <1>t, <1>1, ConcatProperties DEF HostSends, Types
  <2>2. packet' \in Seq(Bytes)  BY <1>u, <1>2
  <2>3. expected' \in [Registered -> Seq(Items)]
    <3>1. CASE last /\ host \in Packetized
      <4>1. expected[host] \in Seq(Items) /\ Append(packet, b) \in Items
        BY <1>2, <1>t, <3>1 DEF Types, Registered, Items
      <4>2. Append(expected[host], Append(packet, b)) \in Seq(Items)
        BY <4>1, AppendProperties
      <4> QED  BY <1>u, <1>t, <3>1, <4>2 DEF Types
    <3>2. CASE ~ (last /\ host \in Packetized)  BY <1>u, <1>t, <3>2 DEF Types
    <3> QED  BY <3>1, <3>2
  <2> QED  BY <1>t, <1>u, <1>v, <2>1, <2>2, <2>3 DEF Types
<1>4. Typed(Meant)  BY <1>t, MeantTyped
<1>5. Runs(Target, Delimiters(last) \o Escaped(b), Target')
  <2>0. Target' = At(Sel(host), "plain", Meant')  BY <1>u DEF Target
  <2>1. CASE host \in Packetized
    <3>1. expected[host] \in Seq(Items) /\ packet \in Seq(Bytes) /\ Sel(host) = host
      BY <1>t, <2>1 DEF Types, Registered, Sel
    <3>2. Runs(At(host, "plain", With(Meant, host, Holding(packet, expected[host]))),
               Delimiters(last) \o Escaped(b),
               At(host, "plain",
                  With(Meant, host, After(End(last), packet, expected[host], b))))
      BY <1>b, <1>4, <2>1, <3>1, PacketRuns
    <3>3. /\ Target = At(host, "plain", With(Meant, host, Holding(packet, expected[host])))
          /\ Target' = At(host, "plain",
                          With(Meant, host, After(End(last), packet, expected[host], b)))
      <4>1. /\ Meant = With(Meant, host, Holding(packet, expected[host]))
            /\ Meant' = With(Meant, host, After(End(last), packet, expected[host], b))
        BY <1>b, <1>t, <2>1, PacketMeans
      <4> QED  BY <2>0, <3>1, <4>1 DEF Target
    <3> QED  BY <3>2, <3>3
  <2>2. CASE host \notin Packetized
    <3>1. Sel(host) = NONE /\ Meant' = Meant  BY <1>b, <1>t, <2>2, PacketMeans
    <3>2. Runs(At(NONE, "plain", Meant), Delimiters(last) \o Escaped(b),
               At(NONE, "plain", Meant))
      BY <1>b, <1>4, OffRuns
    <3> QED  BY <2>0, <3>1, <3>2 DEF Target
  <2> QED  BY <2>1, <2>2
<1> QED  BY <1>u, <1>1, <1>3, <1>5, HostStep

\* The host sends a plain byte.
LEMMA HostRawStep ==
    ASSUME IInv, Unescapable, NEW b \in RawData, HostRaw(b)
    PROVE  IInv'
<1>b. b \in Bytes /\ ~ NeedsEscape(b) /\ b \in Items
  BY ServiceAssumption DEF Bytes, Unescapable, Items
<1>t. Types  BY DEF IInv
<1>u. /\ host \in Raw /\ HostSends(Escaped(b)) /\ host' = host /\ packet' = packet
      /\ expected' = [expected EXCEPT ![host] = Append(@, b)]
  BY DEF HostRaw
<1>v. UNCHANGED <<buffer, channel_prefix, escape_prefix, sink_channel, delivered>>
  BY <1>u DEF HostSends, scanVars
<1>0. host \in Registered /\ host \notin Packetized /\ Sel(host) = host
  BY <1>u, ServiceAssumption DEF Registered, Sel
<1>1. Escaped(b) \in Seq(Bytes)  BY <1>b, EscapedBytes
<1>2. expected[host] \in Seq(Items) /\ Append(expected[host], b) \in Seq(Items)
  BY <1>b, <1>t, <1>0, AppendProperties DEF Types
<1>3. Types'
  <2>1. input' \in Seq(Bytes)  BY <1>u, <1>t, <1>1, ConcatProperties DEF HostSends, Types
  <2>2. expected' \in [Registered -> Seq(Items)]  BY <1>u, <1>t, <1>2 DEF Types
  <2> QED  BY <1>t, <1>u, <1>v, <2>1, <2>2 DEF Types
<1>4. Meant = With(Meant, host, expected[host])  BY <1>0 DEF Meant, With
<1>5. Meant' = With(Meant, host, Append(expected[host], b))
  <2>0. DOMAIN expected = Registered  BY <1>t DEF Types
  <2>1. Meant' = [k \in Registered |-> Meant'[k]] /\ DOMAIN Meant = Registered  BY DEF Meant
  <2>2. Meant'[host] = Append(expected[host], b)  BY <1>u, <1>0, <2>0 DEF Meant
  <2>3. ASSUME NEW k \in Registered \ {host} PROVE Meant'[k] = Meant[k]
    <3>1. expected'[k] = expected[k]  BY <1>u, <2>0, <2>3
    <3> QED  BY <1>u, <2>3, <3>1 DEF Meant
  <2>4. With(Meant, host, Append(expected[host], b))
          = [k \in Registered |-> IF k = host THEN Append(expected[host], b) ELSE Meant[k]]
    BY <2>1 DEF With
  <2> QED  BY <2>1, <2>2, <2>3, <2>4
<1>6. Typed(Meant)  BY <1>t, MeantTyped
<1>7. Runs(At(host, "plain", With(Meant, host, expected[host])), Escaped(b),
           At(host, "plain", With(Meant, host, Append(expected[host], b))))
  BY <1>b, <1>u, <1>2, <1>6, RawRuns
<1>8. Target = At(host, "plain", With(Meant, host, expected[host]))  BY <1>0, <1>4 DEF Target
<1>9. Target' = At(host, "plain", With(Meant, host, Append(expected[host], b)))
  BY <1>u, <1>0, <1>5 DEF Target
<1>10. Runs(Target, Escaped(b), Target')  BY <1>7, <1>8, <1>9
<1> QED  BY <1>u, <1>1, <1>3, <1>10, HostStep

------------------------------------------------------------------------------
(* Reading and scanning.                                                   *)

\* A sequence after a first byte.
LEMMA OneBefore ==
    ASSUME NEW S, NEW b \in S, NEW s \in Seq(S)
    PROVE  /\ <<b>> \o s \in Seq(S) /\ <<b>> \o s # << >>
           /\ Head(<<b>> \o s) = b /\ Tail(<<b>> \o s) = s
<1> DEFINE u == <<b>> \o s
<1>1. <<b>> \in Seq(S) /\ Len(<<b>>) = 1 /\ <<b>>[1] = b  OBVIOUS
<1>2. /\ u \in Seq(S) /\ Len(u) = 1 + Len(s)
      /\ \A i \in 1..(1 + Len(s)) : u[i] = IF i <= 1 THEN <<b>>[i] ELSE s[i - 1]
  BY <1>1, ConcatProperties
<1>3. Len(s) \in Nat  OBVIOUS
<1> HIDE DEF u
<1>4. u # << >> /\ u[1] = b
  <2>1. 1 \in 1..(1 + Len(s))  BY <1>3
  <2> QED  BY <1>1, <1>2, <1>3, <2>1
<1>5. Head(u) = b  BY <1>2, <1>4
<1>6. /\ Tail(u) \in Seq(S) /\ Len(Tail(u)) = Len(s)
      /\ \A i \in 1..Len(s) : Tail(u)[i] = u[i + 1]
  BY <1>2, <1>3, <1>4, HeadTailProperties
<1>7. \A i \in 1..Len(s) : Tail(u)[i] = s[i]
  <2> SUFFICES ASSUME NEW i \in 1..Len(s) PROVE Tail(u)[i] = s[i]  OBVIOUS
  <2>1. i + 1 \in 1..(1 + Len(s)) /\ ~ (i + 1 <= 1) /\ (i + 1) - 1 = i  BY <1>3
  <2> QED  BY <1>2, <1>6, <2>1
<1>8. Tail(u) = s  BY <1>6, <1>7, SeqEqual
<1> QED  BY <1>2, <1>4, <1>5, <1>8 DEF u

\* The next byte of the scan is the first that is to do.
LEMMA NextByte ==
    ASSUME Types, Bounds, index < read_len
    PROVE  /\ Byte(index) \in Bytes /\ Todo # << >> /\ Head(Todo) = Byte(index)
           /\ Tail(Todo) = SubSeq(buffer, index + 2, read_len) \o input
           /\ SubSeq(buffer, Position + 1, index + 1) = Ahead \o <<Byte(index)>>
<1> DEFINE b == Byte(index)
           r == SubSeq(buffer, index + 2, read_len)
<1>0. /\ index \in Nat /\ read_len = Len(buffer) /\ Len(buffer) \in Nat
      /\ buffer \in Seq(Bytes) /\ input \in Seq(Bytes)
  BY DEF Types, Bounds
<1>1. index + 1 \in 1..Len(buffer) /\ read_len \in (index + 1)..Len(buffer)  BY <1>0
<1>2. b \in Bytes /\ b = buffer[index + 1]  BY <1>0, <1>1, ElementOfSeq DEF Byte
<1>3. SubSeq(buffer, index + 1, read_len) = <<b>> \o r
  <2>1. SubSeq(buffer, index + 1, read_len)
          = <<buffer[index + 1]>> \o SubSeq(buffer, (index + 1) + 1, read_len)
    BY <1>0, <1>1, SubSeqRecursiveFirst
  <2>2. (index + 1) + 1 = index + 2  BY <1>0
  <2> QED  BY <1>2, <2>1, <2>2
<1>4. r \in Seq(Bytes)
  <2>1. /\ index + 2 \in Int /\ read_len \in Int
        /\ \A i \in (index + 2)..read_len : i \in 1..Len(buffer)
    BY <1>0
  <2>2. \A i \in (index + 2)..read_len : buffer[i] \in Bytes  BY <1>0, <2>1, ElementOfSeq
  <2> QED  BY <2>1, <2>2, SubSeqProperties
<1>5. Todo = <<b>> \o (r \o input)
  <2>1. <<b>> \in Seq(Bytes)  BY <1>2
  <2> HIDE DEF b, r
  <2>2. (<<b>> \o r) \o input = <<b>> \o (r \o input)
    BY <1>0, <1>4, <2>1, ConcatAssociative
  <2>3. Todo = (<<b>> \o r) \o input  BY <1>3 DEF Todo
  <2> QED  BY <2>2, <2>3
<1>6. SubSeq(buffer, Position + 1, index + 1) = Ahead \o <<b>>
  <2>0. Position \in 0..index  BY Parts
  <2>1. Position + 1 \in 1..Len(buffer) /\ index + 1 \in (Position + 1)..Len(buffer)
        /\ (index + 1) - 1 = index
    BY <1>0, <1>1, <2>0
  <2> HIDE DEF Position
  <2>2. SubSeq(buffer, Position + 1, index + 1)
          = SubSeq(buffer, Position + 1, (index + 1) - 1) \o <<buffer[index + 1]>>
    BY <1>0, <2>1, SubSeqRecursiveSecond
  <2> QED  BY <1>2, <2>1, <2>2 DEF Ahead
<1>7. r \o input \in Seq(Bytes)  BY <1>0, <1>4, ConcatProperties
<1> HIDE DEF b, r
<1>8. Todo # << >> /\ Head(Todo) = b /\ Tail(Todo) = r \o input
  BY <1>2, <1>5, <1>7, OneBefore
<1> QED  BY <1>2, <1>6, <1>8 DEF b, r

\* The next byte moves the scan on, and the rest of the stream from there to the target.
LEMMA NextMove ==
    ASSUME Types, Bounds, index < read_len, NEW x, NEW y, Points(x, y)
    PROVE  \E z : Move(y, Byte(index), z) /\ Runs(z, Tail(Todo), Target)
<1>1. Todo \in Seq(Bytes)  BY Parts
<1>2. Runs(y, Todo, Target)  BY DEF Points
<1>3. Todo # << >> /\ Head(Todo) = Byte(index)  BY NextByte
<1> QED  BY <1>1, <1>2, <1>3, RunsHead

\* With no sink nothing is delivered, and nothing waits for it.
LEMMA NobodyWaits ==
    ASSUME Types, Bounds, NEW x, NEW y, Points(x, y), Position = index
    PROVE  y = x /\ Ahead = << >> /\ Before(x, x)
<1>1. Len(Ahead) = 0 /\ Ahead \in Seq(Bytes)
  <2>1. Len(Ahead) = index - Position /\ index \in Nat /\ Ahead \in Seq(Bytes)
    BY Parts DEF Bounds
  <2> QED  BY <2>1
<1>2. Ahead = << >>  BY <1>1, EmptySeq
<1>3. Runs(x, << >>, y)  BY <1>2 DEF Points
<1>4. y = x  BY <1>3, RunsEmpty
<1>5. Before(x, y)
  <2>1. << >> \in Seq(Bytes)  OBVIOUS
  <2> QED  BY <1>3, <2>1, RunsBefore
<1> QED  BY <1>2, <1>4, <1>5

\* A step of the scan to the next byte, within the span of a channel.
LEMMA ScanStep ==
    ASSUME Types, Bounds, Types', pc = "scan", index < read_len, index' = index + 1,
           UNCHANGED <<input, hostVars, pc, buffer, read_len, head, sink_channel, writeVars,
                       delivered>>,
           NEW x, NEW y, NEW z, Points(x, y), Move(y, Byte(index), z),
           Runs(z, Tail(Todo), Target), z.sel = y.sel, y.mode # "prefix",
           z.mode = "prefix" <=> channel_prefix', z.mode = "esc" <=> escape_prefix',
           z.mode = "prefix" <=> Byte(index) = CHANNEL,
           z.dec = Heard(y.sel, y.dec, Byte(index)) \/ z.dec = y.dec
    PROVE  IInv'
<1> DEFINE b == Byte(index)
<1>u. /\ UNCHANGED <<input, host, packet, expected, pc, buffer, read_len, head, sink_channel,
                     delivered>>
  BY DEF hostVars
<1>0. index \in Nat /\ read_len \in Nat /\ Ahead \in Seq(Bytes) /\ b \in Bytes
  BY Parts, NextByte DEF Bounds, Types
<1>1. Bounds'  BY <1>u DEF Bounds
<1>2. Seen' = Seen /\ Target' = Target  BY <1>u DEF Seen, Target, Meant
<1>3. Todo' = Tail(Todo)
  <2>1. index' + 1 = index + 2  BY <1>0
  <2>2. Todo' = SubSeq(buffer, index' + 1, read_len) \o input  BY <1>u DEF Todo
  <2> QED  BY <2>1, <2>2, NextByte
<1>4. CASE sink_channel = NONE
  <2>1. Position = index /\ Position' = index'  BY <1>u, <1>4 DEF Position
  <2>2. y = x /\ Before(z, z)
    <3>1. Before(y, z)  BY DEF Move
    <3> QED  BY <2>1, <3>1, NobodyWaits, BeforeReflexive
  <2>3. Ahead' = << >>
    <3>1. index' + 1 \in Int /\ index' \in Int /\ index' < index' + 1  BY <1>0
    <3>2. Ahead' = SubSeq(buffer, index' + 1, index')  BY <1>u, <2>1 DEF Ahead
    <3> QED  BY <3>1, <3>2, SubSeqEmpty
  <2>4. z.dec = Seen
    <3>1. NONE \notin Registered  BY ServiceAssumption DEF NONE, Registered
    <3>2. y.sel = NONE /\ y.dec = Seen  BY <1>4, <2>2 DEF Points
    <3> QED  BY <3>1, <3>2 DEF Heard
  <2>5. Runs(z, << >>, z)  BY <2>2, RunsEmpty
  <2>6. z.sel = sink_channel  BY DEF Points
  <2>7. Points(z, z)'
    <3>1. \A i \in 1..Len(<< >>) : FALSE  OBVIOUS
    <3> QED  BY <1>u, <1>2, <1>3, <2>3, <2>4, <2>5, <2>6, <3>1 DEF Points
  <2> QED  BY <1>1, <2>7 DEF IInv
<1>5. CASE sink_channel # NONE
  <2>1. Position' = Position  BY <1>u, <1>5 DEF Position
  <2>2. Ahead' = Ahead \o <<b>>
    <3>1. Ahead' = SubSeq(buffer, Position + 1, index + 1)  BY <1>u, <2>1 DEF Ahead
    <3> QED  BY <3>1, NextByte
  <2>3. <<b>> \in Seq(Bytes)  BY <1>0
  <2>4. Runs(x, Ahead \o <<b>>, z)
    <3>1. Runs(x, Ahead, y) /\ Runs(y, <<b>>, z)  BY RunsOne DEF Points
    <3> QED  BY <1>0, <2>3, <3>1, RunsConcat
  <2>5. x.mode # "prefix"
    <3>1. ASSUME Ahead = << >> PROVE y = x
      <4>1. Runs(x, << >>, y)  BY <3>1 DEF Points
      <4> QED  BY <4>1, RunsEmpty
    <3> QED  BY <3>1 DEF Points
  <2>6. \A i \in 1..Len(Ahead') : Ahead'[i] = CHANNEL <=> i = Len(Ahead') /\ z.mode = "prefix"
    <3>1. /\ Len(Ahead') = Len(Ahead) + 1 /\ Len(Ahead) \in Nat
          /\ \A i \in 1..Len(Ahead) : Ahead'[i] = Ahead[i]
          /\ Ahead'[Len(Ahead) + 1] = b
      <4> DEFINE n == Len(Ahead)
      <4>1. /\ n \in Nat /\ Len(<<b>>) = 1 /\ <<b>>[1] = b
        BY <1>0
      <4>2. /\ Len(Ahead \o <<b>>) = n + Len(<<b>>)
            /\ \A i \in 1..(n + Len(<<b>>)) :
                  (Ahead \o <<b>>)[i] = IF i <= n THEN Ahead[i] ELSE <<b>>[i - n]
        BY <1>0, <2>3, ConcatProperties
      <4> HIDE DEF n, b
      <4>3. \A i \in 1..n : i \in 1..(n + 1) /\ i <= n  BY <4>1
      <4>4. n + 1 \in 1..(n + 1) /\ ~ (n + 1 <= n) /\ (n + 1) - n = 1  BY <4>1
      <4>5. /\ Len(Ahead') = n + 1
            /\ \A i \in 1..(n + 1) : Ahead'[i] = IF i <= n THEN Ahead[i] ELSE <<b>>[i - n]
        BY <2>2, <4>1, <4>2
      <4> QED  BY <4>1, <4>3, <4>4, <4>5 DEF n
    <3>2. \A i \in 1..Len(Ahead) : Ahead[i] # CHANNEL  BY DEF Points
    <3> TAKE i \in 1..Len(Ahead')
    <3>3. i \in 1..Len(Ahead) \/ i = Len(Ahead) + 1  BY <3>1
    <3>4. CASE i \in 1..Len(Ahead)
      <4>1. Ahead'[i] # CHANNEL /\ i # Len(Ahead')  BY <3>1, <3>2, <3>4
      <4> QED  BY <4>1
    <3>5. CASE i = Len(Ahead) + 1  BY <3>1, <3>5
    <3> QED  BY <3>3, <3>4, <3>5
  <2>7. z.sel = sink_channel /\ x.sel = sink_channel /\ x.dec = Seen  BY DEF Points
  <2>8. Points(x, z)'
    BY <1>u, <1>2, <1>3, <2>2, <2>4, <2>5, <2>6, <2>7 DEF Points
  <2> QED  BY <1>1, <2>8 DEF IInv
<1> QED  BY <1>4, <1>5

\* A channel prefix, an escape, and any other byte within a span.
LEMMA ChannelPrefixStep ==
    ASSUME IInv, ScanChannelPrefix
    PROVE  IInv'
<1>t. Types /\ Bounds  BY DEF IInv
<1>u. /\ pc = "scan" /\ index < read_len /\ Byte(index) = CHANNEL
      /\ channel_prefix' = TRUE /\ index' = index + 1 /\ escape_prefix' = escape_prefix
      /\ UNCHANGED <<input, hostVars, pc, buffer, read_len, head, sink_channel, writeVars,
                     delivered>>
  BY DEF ScanChannelPrefix
<1>1. PICK x : \E y : Points(x, y)  BY DEF IInv
<1>2. PICK y : Points(x, y)  BY <1>1
<1>3. PICK z : Move(y, Byte(index), z) /\ Runs(z, Tail(Todo), Target)
  BY <1>2, <1>t, <1>u, NextMove
<1>4. MovePrefix(y, Byte(index), z)
  BY <1>3, <1>u DEF Move, MoveNumber, MoveByte
<1>5. /\ y.mode = "plain" /\ z.sel = y.sel /\ z.mode = "prefix" /\ z.dec = y.dec
  BY <1>4 DEF MovePrefix, At
<1>6. ~ escape_prefix  BY <1>2, <1>5 DEF Points
<1>7. Types'  BY <1>t, <1>u DEF Types, hostVars
<1>8. (z.mode = "prefix" <=> channel_prefix') /\ (z.mode = "esc" <=> escape_prefix')
  BY <1>5, <1>6, <1>u
<1> QED  BY <1>2, <1>3, <1>5, <1>7, <1>8, <1>t, <1>u, ScanStep

LEMMA EscapePrefixStep ==
    ASSUME IInv, ScanEscapePrefix
    PROVE  IInv'
<1>t. Types /\ Bounds  BY DEF IInv
<1>u. /\ pc = "scan" /\ index < read_len /\ Byte(index) = ESCAPE
      /\ escape_prefix' = TRUE /\ index' = index + 1 /\ channel_prefix' = channel_prefix
      /\ sink_channel \notin Raw => UNCHANGED <<buffer, read_len>>
      /\ UNCHANGED <<input, hostVars, pc, head, sink_channel, writeVars, delivered>>
  BY DEF ScanEscapePrefix, IsRaw
<1>1. PICK x : \E y : Points(x, y)  BY DEF IInv
<1>2. PICK y : Points(x, y)  BY <1>1
<1>3. PICK z : Move(y, Byte(index), z) /\ Runs(z, Tail(Todo), Target)
  BY <1>2, <1>t, <1>u, NextMove
<1>e. ESCAPE # CHANNEL  BY DEF ESCAPE, CHANNEL
<1>4. MoveByte(y, Byte(index), z)
  BY <1>3, <1>u, <1>e DEF Move, MoveNumber, MovePrefix
<1>5. /\ y.mode # "prefix" /\ z.sel = y.sel /\ z.mode = "esc"
      /\ z.dec = Heard(y.sel, y.dec, Byte(index)) /\ y.sel \notin Raw
  BY <1>4, <1>u DEF MoveByte, At, Mode
<1>6. ~ channel_prefix /\ y.sel = sink_channel  BY <1>2, <1>5 DEF Points
<1>7. Types'  BY <1>t, <1>u, <1>5, <1>6 DEF Types, hostVars
<1>8. (z.mode = "prefix" <=> channel_prefix') /\ (z.mode = "esc" <=> escape_prefix')
      /\ (z.mode = "prefix" <=> Byte(index) = CHANNEL)
  BY <1>5, <1>6, <1>u, <1>e
<1>9. UNCHANGED <<input, hostVars, pc, buffer, read_len, head, sink_channel, writeVars,
                  delivered>>
  BY <1>u, <1>5, <1>6
<1> QED  BY <1>2, <1>3, <1>5, <1>7, <1>8, <1>9, <1>t, <1>u, ScanStep

LEMMA ByteStep ==
    ASSUME IInv, ScanByte
    PROVE  IInv'
<1>t. Types /\ Bounds  BY DEF IInv
<1>u. /\ pc = "scan" /\ index < read_len /\ Byte(index) \notin {CHANNEL, ESCAPE}
      /\ ~ channel_prefix /\ escape_prefix' = FALSE /\ index' = index + 1
      /\ channel_prefix' = channel_prefix
      /\ UNCHANGED <<input, hostVars, pc, head, sink_channel, writeVars, delivered>>
  BY DEF ScanByte
<1>1. PICK x : \E y : Points(x, y)  BY DEF IInv
<1>2. PICK y : Points(x, y)  BY <1>1
<1>3. PICK z : Move(y, Byte(index), z) /\ Runs(z, Tail(Todo), Target)
  BY <1>2, <1>t, <1>u, NextMove
<1>p. y.mode # "prefix" /\ y.sel = sink_channel  BY <1>2, <1>u DEF Points
<1>4. MoveByte(y, Byte(index), z)
  BY <1>3, <1>u, <1>p DEF Move, MoveNumber, MovePrefix
<1>5. /\ z.sel = y.sel /\ z.mode = "plain" /\ z.dec = Heard(y.sel, y.dec, Byte(index))
      /\ y.sel \in Raw => y.mode # "esc" /\ Byte(index) \notin {SOP, EOP, ESCAPE}
  BY <1>4, <1>u DEF MoveByte, At, Mode
<1>6. buffer' = buffer /\ read_len' = read_len
  <2>1. CASE sink_channel \in Raw
    <3>1. ~ escape_prefix  BY <1>2, <1>5, <1>p, <2>1 DEF Points
    <3>2. Unescaped = buffer /\ Plain = Byte(index)  BY <3>1 DEF Unescaped, Plain
    <3> QED  BY <1>5, <1>p, <2>1, <3>2 DEF ScanByte
  <2>2. CASE sink_channel \notin Raw
    <3>1. ~ IsRaw  BY <2>2 DEF IsRaw
    <3>2. Unescaped = buffer  BY <3>1 DEF Unescaped
    <3> QED  BY <3>1, <3>2 DEF ScanByte
  <2> QED  BY <2>1, <2>2
<1>7. Types'  BY <1>t, <1>u, <1>6 DEF Types, hostVars
<1>8. (z.mode = "prefix" <=> channel_prefix') /\ (z.mode = "esc" <=> escape_prefix')
      /\ (z.mode = "prefix" <=> Byte(index) = CHANNEL)
  BY <1>5, <1>u
<1> QED  BY <1>2, <1>3, <1>5, <1>6, <1>7, <1>8, <1>p, <1>t, <1>u, ScanStep

\* Where the sinks and the scan are does not change when the span to write is
\* chosen.
LEMMA SpanStep ==
    ASSUME IInv, pc = "scan", pc' = "write", from' = head, Bounds',
           UNCHANGED <<input, host, packet, expected, scanVars, delivered>>
    PROVE  IInv'
<1>1. PICK x : \E y : Points(x, y)  BY DEF IInv
<1>2. PICK y : Points(x, y)  BY <1>1
<1>u. UNCHANGED <<input, host, packet, expected, buffer, read_len, index, head,
                  channel_prefix, escape_prefix, sink_channel, delivered>>
  BY DEF scanVars
<1>3. Position' = Position  BY <1>u DEF Position
<1>4. Ahead' = Ahead /\ Todo' = Todo /\ Seen' = Seen /\ Target' = Target
  BY <1>3, <1>u DEF Ahead, Todo, Seen, Target, Meant
<1>5. Points(x, y)'  BY <1>2, <1>4, <1>u DEF Points
<1>6. Types'  BY <1>u DEF IInv, Types
<1> QED  BY <1>5, <1>6 DEF IInv

\* The channel number ends a span, and so does the end of the chunk.
LEMMA ChannelNumberStep ==
    ASSUME IInv, ScanChannelNumber
    PROVE  IInv'
<1>t. Types /\ Bounds  BY DEF IInv
<1>u. /\ pc = "scan" /\ index < read_len /\ Byte(index) \notin {CHANNEL, ESCAPE}
      /\ channel_prefix /\ escape_prefix' = FALSE /\ buffer' = Unescaped
      /\ from' = head /\ to' = index - 1 /\ number' = Plain /\ pc' = "write"
      /\ UNCHANGED <<input, host, packet, expected, read_len, index, head, channel_prefix,
                     sink_channel, delivered>>
  BY DEF ScanChannelNumber, WriteSpan, hostVars
<1>1. PICK x : \E y : Points(x, y)  BY DEF IInv
<1>2. PICK y : Points(x, y)  BY <1>1
<1>3. ~ escape_prefix
  <2>1. y.mode = "prefix"  BY <1>2, <1>u DEF Points
  <2>2. y.mode # "esc"  BY <2>1
  <2> QED  BY <1>2, <2>2 DEF Points
<1>4. Unescaped = buffer /\ Plain = Byte(index)  BY <1>3 DEF Unescaped, Plain
<1>5. UNCHANGED <<input, host, packet, expected, scanVars, delivered>>
  <2>1. escape_prefix' = escape_prefix  BY <1>3, <1>t, <1>u DEF Types
  <2> QED  BY <1>4, <1>u, <2>1 DEF scanVars
<1>6. Bounds'
  <2>1. Byte(index) \in Bytes /\ Byte(index) # NONE
    <3>1. Byte(index) \in Bytes  BY <1>t, <1>u, NextByte
    <3> QED  BY <3>1 DEF Bytes, NONE
  <2>2. number' = Byte(index) /\ Byte(index)' = Byte(index)
    BY <1>4, <1>5, <1>u DEF Byte, scanVars
  <2>3. from' \in Nat /\ from' <= index'  BY <1>t, <1>u DEF Bounds
  <2>4. SpanEnds'  BY <1>u, <2>1, <2>2, <2>3 DEF SpanEnds
  <2>5. read_len' = Len(buffer') /\ index' \in 0..read_len' /\ head' \in 0..index'
    BY <1>t, <1>4, <1>u DEF Bounds
  <2> QED  BY <1>u, <2>3, <2>4, <2>5 DEF Bounds
<1> QED  BY <1>5, <1>6, <1>u, SpanStep

LEMMA EndStep ==
    ASSUME IInv, ScanEnd
    PROVE  IInv'
<1>u. /\ pc = "scan" /\ index >= read_len
      /\ from' = head /\ to' = read_len /\ number' = NONE /\ pc' = "write"
      /\ UNCHANGED <<input, host, packet, expected, scanVars, delivered>>
  BY DEF ScanEnd, WriteSpan, hostVars
<1>1. Bounds'  BY <1>u DEF IInv, Bounds, SpanEnds, scanVars
<1> QED  BY <1>1, <1>u, SpanStep

\* read takes the bytes from the stream into the buffer: they stay to do.
LEMMA ReadStep ==
    ASSUME IInv, NEW n \in 1..READ_BUFFER_LEN, Read(n)
    PROVE  IInv'
<1>t. Types /\ Bounds  BY DEF IInv
<1>u. /\ pc = "read" /\ n <= Len(input)
      /\ buffer' = SubSeq(input, 1, n) /\ read_len' = n
      /\ input' = SubSeq(input, n + 1, Len(input))
      /\ index' = 0 /\ head' = 0 /\ pc' = "scan"
      /\ UNCHANGED <<host, packet, expected, channel_prefix, escape_prefix, sink_channel,
                     delivered>>
  BY DEF Read, hostVars
<1>1. PICK x : \E y : Points(x, y)  BY DEF IInv
<1>2. PICK y : Points(x, y)  BY <1>1
<1>n. n \in Nat \ {0} /\ Len(input) \in Nat /\ input \in Seq(Bytes)
  BY <1>t, ServiceAssumption DEF Types
<1>3. /\ buffer' \in Seq(Bytes) /\ Len(buffer') = n /\ input' \in Seq(Bytes)
      /\ buffer' \o input' = input
  <2>1. SubSeq(input, 1, n) \in Seq(Bytes) /\ Len(SubSeq(input, 1, n)) = n
    <3>1. \A i \in 1..n : input[i] \in Bytes  BY <1>n, <1>u, ElementOfSeq
    <3> QED  BY <1>n, <3>1, SubSeqProperties
  <2>2. SubSeq(input, n + 1, Len(input)) \in Seq(Bytes)
    <3>1. \A i \in (n + 1)..Len(input) : i \in 1..Len(input)  BY <1>n
    <3>2. \A i \in (n + 1)..Len(input) : input[i] \in Bytes  BY <1>n, <3>1, ElementOfSeq
    <3> QED  BY <1>n, <3>2, SubSeqProperties
  <2>3. SubSeq(input, 1, n) \o SubSeq(input, n + 1, Len(input)) = input
    <3>1. /\ 1 \in 1..(Len(input) + 1) /\ n \in (1 - 1)..Len(input)
          /\ Len(input) \in n..Len(input)
      BY <1>n, <1>u
    <3>2. SubSeq(input, 1, n) \o SubSeq(input, n + 1, Len(input))
            = SubSeq(input, 1, Len(input))
      BY <1>n, <3>1, ConcatAdjacentSubSeq
    <3> QED  BY <1>n, <3>2, SubSeqFull
  <2> QED  BY <1>u, <2>1, <2>2, <2>3
<1>4. Types'  BY <1>3, <1>t, <1>u DEF Types
<1>5. Bounds'  BY <1>3, <1>n, <1>u DEF Bounds
<1>6. index = 0 /\ read_len = 0 /\ buffer = << >>
  <2>1. index = 0 /\ read_len = 0 /\ Len(buffer) = 0  BY <1>t, <1>u DEF Bounds
  <2> QED  BY <2>1, <1>t, EmptySeq DEF Types
<1>7. Ahead = << >> /\ Ahead' = << >>
  <2>1. Position = index /\ Position' = 0  BY <1>6, <1>t, <1>u, Parts DEF Position, Bounds
  <2>2. Ahead = SubSeq(buffer, 0 + 1, 0) /\ Ahead' = SubSeq(buffer', 0 + 1, 0)
    BY <1>6, <1>u, <2>1 DEF Ahead
  <2> QED  BY <2>2, SubSeqEmpty
<1>8. Todo' = Todo
  <2>1. Todo = input
    <3>1. SubSeq(buffer, 0 + 1, 0) = << >>  BY SubSeqEmpty
    <3>2. Todo = << >> \o input  BY <1>6, <3>1 DEF Todo
    <3> QED  BY <1>n, <3>2, ConcatEmptySeq
  <2>2. Todo' = input
    <3>1. SubSeq(buffer', 0 + 1, n) = buffer'  BY <1>3, SubSeqFull
    <3>2. Todo' = buffer' \o input'  BY <1>u, <3>1 DEF Todo
    <3> QED  BY <1>3, <3>2
  <2> QED  BY <2>1, <2>2
<1>9. Seen' = Seen /\ Target' = Target  BY <1>u DEF Seen, Target, Meant
<1>10. Points(x, y)'  BY <1>2, <1>7, <1>8, <1>9, <1>u DEF Points
<1> QED  BY <1>4, <1>5, <1>10 DEF IInv

------------------------------------------------------------------------------
(* Writing.                                                                *)

\* What a byte makes of what the sink has taken.
LEMMA SinkTakes ==
    ASSUME NEW c \in Registered, NEW b, DOMAIN delivered = Registered,
           delivered' = [delivered EXCEPT ![c] = Taken(c, @, b)]
    PROVE  Seen' = [Seen EXCEPT ![c] = Hear(c, Seen[c], b)]
<1>1. Seen'[c] = Hear(c, Seen[c], b)
  <2>0. delivered'[c] = Taken(c, delivered[c], b)  OBVIOUS
  <2>1. CASE c \in Packetized
    <3>1. Seen[c] = delivered[c] /\ Seen'[c] = delivered'[c]  BY <2>1 DEF Seen
    <3> QED  BY <2>0, <2>1, <3>1 DEF Taken, Hear
  <2>2. CASE c \notin Packetized
    <3>1. Seen[c] = delivered[c].data /\ Seen'[c] = delivered'[c].data  BY <2>2 DEF Seen
    <3>2. delivered'[c].data
            = IF b = CHANNEL THEN delivered[c].data ELSE Append(delivered[c].data, b)
      BY <2>0, <2>2 DEF Taken
    <3> QED  BY <2>2, <3>1, <3>2 DEF Hear
  <2> QED  BY <2>1, <2>2
<1>2. ASSUME NEW k \in Registered \ {c} PROVE Seen'[k] = Seen[k]
  <2>1. delivered'[k] = delivered[k]  BY <1>2
  <2> QED  BY <1>2, <2>1 DEF Seen
<1>3. Seen' = [k \in Registered |-> Seen'[k]] /\ DOMAIN Seen = Registered  BY DEF Seen
<1>4. [Seen EXCEPT ![c] = Hear(c, Seen[c], b)]
        = [k \in Registered |-> IF k = c THEN Hear(c, Seen[c], b) ELSE Seen[k]]
  BY <1>3
<1>5. \A k \in Registered : Seen'[k] = IF k = c THEN Hear(c, Seen[c], b) ELSE Seen[k]
  BY <1>1, <1>2
<1> QED  BY <1>3, <1>4, <1>5

\* The sink takes a byte of the span.
LEMMA WriteStep ==
    ASSUME IInv, Write
    PROVE  IInv'
<1>t. Types /\ Bounds  BY DEF IInv
<1>u. /\ pc = "write" /\ sink_channel # NONE /\ from < to
      /\ delivered' = [delivered EXCEPT ![sink_channel] = Taken(sink_channel, @, Byte(from))]
      /\ from' = from + 1
      /\ UNCHANGED <<input, host, packet, expected, pc, buffer, read_len, index, head,
                     channel_prefix, escape_prefix, sink_channel, to, number>>
  BY DEF Write, hostVars, scanVars
<1>1. PICK x : \E y : Points(x, y)  BY DEF IInv
<1>2. PICK y : Points(x, y)  BY <1>1
<1> DEFINE b == Byte(from)
           c == sink_channel
<1>c. c \in Registered /\ DOMAIN delivered = Registered  BY <1>t, <1>u DEF Types
<1>3. from \in Nat /\ from < index /\ index <= Len(buffer) /\ index \in Nat
  <2>1. CASE number = NONE  BY <1>t, <1>u, <2>1 DEF Bounds, SpanEnds
  <2>2. CASE number # NONE  BY <1>t, <1>u, <2>2 DEF Bounds, SpanEnds
  <2> QED  BY <2>1, <2>2
<1>4. Types'
  <2>1. DOMAIN delivered' = Registered  BY <1>c, <1>u
  <2> QED  BY <1>t, <1>u, <2>1 DEF Types
<1>5. Bounds'
  <2>1. CASE number = NONE  BY <1>t, <1>u, <2>1 DEF Bounds, SpanEnds, Byte
  <2>2. CASE number # NONE  BY <1>t, <1>u, <2>2 DEF Bounds, SpanEnds, Byte
  <2> QED  BY <2>1, <2>2
<1>6. /\ Ahead \in Seq(Bytes) /\ Len(Ahead) = index - from /\ Ahead # << >>
      /\ Head(Ahead) = b /\ Ahead[1] = b /\ Tail(Ahead) = Ahead'
  <2>1. Position = from /\ Position' = from + 1  BY <1>u DEF Position
  <2>2. Ahead = SubSeq(buffer, from + 1, index) /\ Ahead' = SubSeq(buffer, (from + 1) + 1, index)
    BY <1>u, <2>1 DEF Ahead
  <2>3. from + 1 \in 1..Len(buffer) /\ index \in (from + 1)..Len(buffer)
    BY <1>3, <1>t DEF Types
  <2>4. Head(Ahead) = buffer[from + 1] /\ Tail(Ahead) = Ahead'
    BY <1>t, <2>2, <2>3, HeadTailOfSubSeq DEF Types
  <2>5. /\ Ahead \in Seq(Bytes) /\ Len(Ahead) = index - from
        /\ \A i \in 1..Len(Ahead) : Ahead[i] = buffer[from + i]
    BY <1>t, <2>1, Parts
  <2>6. 1 \in 1..Len(Ahead)  BY <1>3, <2>5
  <2>7. Ahead[1] = buffer[from + 1]  BY <2>5, <2>6
  <2> QED  BY <2>4, <2>5, <2>6, <2>7 DEF Byte
<1>7. PICK z : Move(x, b, z) /\ Runs(z, Ahead', y)
  <2>1. Runs(x, Ahead, y)  BY <1>2 DEF Points
  <2>2. \E z : Move(x, Head(Ahead), z) /\ Runs(z, Tail(Ahead), y)
    BY <1>6, <2>1, RunsHead
  <2> QED  BY <1>6, <2>2
<1>8. /\ Len(Ahead') = Len(Ahead) - 1 /\ Len(Ahead) \in Nat \ {0} /\ Ahead' \in Seq(Bytes)
      /\ \A i \in 1..Len(Ahead') : Ahead'[i] = Ahead[i + 1]
  <2> DEFINE a == Ahead
  <2>1. a \in Seq(Bytes) /\ a # << >> /\ Ahead' = Tail(a)  BY <1>6
  <2>2. Len(a) \in Nat \ {0}  BY <2>1, EmptySeq
  <2> HIDE DEF a
  <2>3. /\ Tail(a) \in Seq(Bytes) /\ Len(Tail(a)) = Len(a) - 1
        /\ \A i \in 1..Len(Tail(a)) : Tail(a)[i] = a[i + 1]
    BY <2>1, HeadTailProperties
  <2> QED  BY <2>1, <2>2, <2>3 DEF a
<1>9. Seen' = [Seen EXCEPT ![c] = Hear(c, Seen[c], b)]  BY <1>c, <1>u, SinkTakes
<1>10. Todo' = Todo /\ Target' = Target  BY <1>u DEF Todo, Target, Meant
<1>11. x.sel = c /\ x.dec = Seen /\ x.mode # "prefix"  BY <1>2, <1>6 DEF Points
<1>12. z.sel = c /\ z.dec = Seen' /\ (z.mode = "prefix" => Ahead' = << >>)
  <2>1. CASE b = CHANNEL
    <3>1. MovePrefix(x, b, z)  BY <1>7, <2>1 DEF Move, MoveNumber, MoveByte
    <3>2. z.sel = c /\ z.dec = Seen /\ Hear(c, Seen[c], b) = Seen[c]
      BY <1>11, <1>c, <3>1 DEF MovePrefix, At
    <3>3. Seen' = Seen
      <4>1. DOMAIN Seen = Registered /\ Seen = [k \in Registered |-> Seen[k]]  BY DEF Seen
      <4> QED  BY <1>9, <1>c, <3>2, <4>1
    <3>4. Ahead' = << >>
      <4>1. 1 \in 1..Len(Ahead) /\ Ahead[1] = CHANNEL  BY <1>6, <1>8, <2>1
      <4>2. 1 = Len(Ahead)  BY <1>2, <4>1 DEF Points
      <4>3. \A n : n = Len(Ahead) - 1 => n = 0  BY <4>2
      <4>4. Len(Ahead') = 0  BY <1>8, <4>3
      <4> QED  BY <1>8, <4>4, EmptySeq
    <3> QED  BY <3>2, <3>3, <3>4
  <2>2. CASE b # CHANNEL
    <3>1. MoveByte(x, b, z)  BY <1>7, <1>11, <2>2 DEF Move, MoveNumber, MovePrefix
    <3>2. z.sel = c /\ z.dec = Heard(c, Seen, b) /\ z.mode = Mode(b)
      BY <1>11, <3>1 DEF MoveByte, At
    <3>3. z.mode # "prefix"  BY <3>2 DEF Mode
    <3> QED  BY <1>9, <1>c, <3>2, <3>3 DEF Heard
  <2> QED  BY <2>1, <2>2
<1>13. \A i \in 1..Len(Ahead') : Ahead'[i] = CHANNEL <=> i = Len(Ahead') /\ y.mode = "prefix"
  <2> TAKE i \in 1..Len(Ahead')
  <2>1. i + 1 \in 1..Len(Ahead) /\ (i + 1 = Len(Ahead) <=> i = Len(Ahead'))  BY <1>8
  <2>2. Ahead[i + 1] = CHANNEL <=> i + 1 = Len(Ahead) /\ y.mode = "prefix"
    BY <1>2, <2>1 DEF Points
  <2> QED  BY <1>8, <2>1, <2>2
<1>14. Points(z, y)'
  BY <1>2, <1>7, <1>10, <1>12, <1>13, <1>u DEF Points
<1> QED  BY <1>4, <1>5, <1>14 DEF IInv

\* When the span is written, nothing or only the channel prefix is ahead: what the
\* sinks have taken is what the channels have made of all that was scanned.
LEMMA SpanDone ==
    ASSUME Types, Bounds, pc = "write", sink_channel = NONE \/ from >= to,
           NEW x, NEW y, Points(x, y)
    PROVE  y.dec = Seen /\ Before(y, y) /\ (number = NONE => y = x)
<1>1. CASE Position = index
  <2>1. y = x /\ Before(x, x)  BY <1>1, NobodyWaits
  <2> QED  BY <2>1 DEF Points
<1>2. CASE Position # index
  <2>1. sink_channel # NONE /\ Position = from /\ from >= to
    BY <1>2 DEF Position
  <2>2. number # NONE /\ from = index - 1 /\ index \in Nat \ {0} /\ channel_prefix
    <3>1. Position \in 0..index  BY Parts
    <3>2. CASE number = NONE
      BY <1>2, <2>1, <3>1, <3>2 DEF Bounds, SpanEnds
    <3>3. CASE number # NONE  BY <1>2, <2>1, <3>1, <3>3 DEF Bounds, SpanEnds
    <3> QED  BY <3>2, <3>3
  <2>3. /\ Ahead \in Seq(Bytes) /\ Len(Ahead) = 1
    <3>1. Ahead \in Seq(Bytes) /\ Len(Ahead) = index - Position  BY Parts
    <3> QED  BY <2>1, <2>2, <3>1
  <2>4. Ahead[1] = CHANNEL /\ y.mode = "prefix"
    <3>1. y.mode = "prefix"  BY <2>2 DEF Points
    <3>2. 1 \in 1..Len(Ahead)  BY <2>3
    <3> QED  BY <2>3, <3>1, <3>2 DEF Points
  <2>5. Ahead # << >> /\ Head(Ahead) = CHANNEL /\ Tail(Ahead) = << >>
    <3> DEFINE a == Ahead
    <3>1. a \in Seq(Bytes) /\ Len(a) = 1 /\ a[1] = CHANNEL  BY <2>3, <2>4
    <3> HIDE DEF a
    <3>2. a # << >>
      <4>1. Len(<< >>) = 0  OBVIOUS
      <4> QED  BY <3>1, <4>1
    <3>3. Tail(a) \in Seq(Bytes) /\ Len(Tail(a)) = 0  BY <3>1, <3>2, HeadTailProperties
    <3>4. Tail(a) = << >>  BY <3>3, EmptySeq
    <3> QED  BY <3>1, <3>2, <3>4 DEF a
  <2>6. PICK z : Move(x, CHANNEL, z) /\ Runs(z, << >>, y)
    <3>1. Runs(x, Ahead, y)  BY DEF Points
    <3> QED  BY <2>3, <2>5, <3>1, RunsHead
  <2>7. z = y  BY <2>6, RunsEmpty
  <2>8. MovePrefix(x, CHANNEL, y)
    BY <2>6, <2>7 DEF Move, MoveNumber, MoveByte
  <2>9. y.dec = Seen  BY <2>8 DEF MovePrefix, At, Points
  <2>10. Before(x, y)  BY <2>6, <2>7 DEF Move
  <2> QED  BY <2>2, <2>9, <2>10, BeforeReflexive
<1> QED  BY <1>1, <1>2

\* The sinks and the scan are at the same point.
LEMMA Together ==
    ASSUME Types', Bounds', NEW y, Position' = index', y.sel = sink_channel', y.dec = Seen',
           Before(y, y), Runs(y, Todo', Target'),
           y.mode = "prefix" <=> channel_prefix', y.mode = "esc" <=> escape_prefix'
    PROVE  IInv'
<1>1. Ahead' = << >>
  <2>1. Ahead' = SubSeq(buffer', index' + 1, index')  BY DEF Ahead
  <2>2. \A i \in Nat : SubSeq(buffer', i + 1, i) = << >>
    <3>1. \A i \in Nat : i + 1 \in Int /\ i \in Int /\ i < i + 1  OBVIOUS
    <3> QED  BY <3>1, SubSeqEmpty
  <2>3. index' \in Nat  BY DEF Bounds, Types
  <2> QED  BY <2>1, <2>2, <2>3
<1>2. Runs(y, << >>, y)  BY RunsEmpty
<1>3. \A i \in 1..Len(<< >>) : FALSE  OBVIOUS
<1>4. Points(y, y)'  BY <1>1, <1>2, <1>3 DEF Points
<1> QED  BY <1>4 DEF IInv

\* At the end of the chunk service returns, and else selects the new channel.
LEMMA WrittenStep ==
    ASSUME IInv, Written
    PROVE  IInv'
<1>t. Types /\ Bounds  BY DEF IInv
<1>u. /\ pc = "write" /\ (sink_channel = NONE \/ from >= to)
      /\ UNCHANGED <<input, host, packet, expected, escape_prefix, delivered>>
  BY DEF Written, hostVars
<1>1. PICK x : \E y : Points(x, y)  BY DEF IInv
<1>2. PICK y : Points(x, y)  BY <1>1
<1>3. y.dec = Seen /\ Before(y, y)  BY <1>2, <1>t, <1>u, SpanDone
<1>4. Seen' = Seen /\ Target' = Target  BY <1>u DEF Seen, Target, Meant
<1>5. /\ y.sel = sink_channel /\ Runs(y, Todo, Target)
      /\ (y.mode = "prefix" <=> channel_prefix) /\ (y.mode = "esc" <=> escape_prefix)
  BY <1>2 DEF Points
<1>i. input \in Seq(Bytes)  BY <1>t DEF Types
<1>6. CASE number = NONE
  <2>u. /\ pc' = "read" /\ buffer' = << >> /\ read_len' = 0 /\ index' = 0 /\ head' = 0
        /\ UNCHANGED <<channel_prefix, sink_channel>>
    BY <1>6 DEF Written
  <2>1. index = read_len /\ index \in Nat  BY <1>6, <1>t, <1>u DEF Bounds, SpanEnds
  <2>2. << >> \in Seq(Bytes) /\ Len(<< >>) = 0  OBVIOUS
  <2>3. Types'  BY <1>t, <1>u, <2>u, <2>2 DEF Types
  <2>4. Bounds'  BY <2>u, <2>2 DEF Bounds
  <2>5. Position' = index'  BY <2>u DEF Position
  <2>6. Todo' = Todo
    <3>1. SubSeq(buffer, index + 1, read_len) = << >>  BY <2>1, SubSeqEmpty
    <3>2. SubSeq(buffer', 0 + 1, 0) = << >>  BY SubSeqEmpty
    <3>3. Todo' = SubSeq(buffer', 0 + 1, 0) \o input  BY <1>u, <2>u DEF Todo
    <3> QED  BY <3>1, <3>2, <3>3 DEF Todo
  <2> QED  BY <1>3, <1>4, <1>5, <1>u, <2>3, <2>4, <2>5, <2>6, <2>u, Together
<1>7. CASE number # NONE
  <2>u. /\ sink_channel' = IF number \in Registered THEN number ELSE NONE
        /\ head' = index + 1 /\ index' = index + 1
        /\ channel_prefix' = FALSE /\ pc' = "scan"
        /\ UNCHANGED <<buffer, read_len>>
    BY <1>7 DEF Written
  <2>1. /\ index < read_len /\ index \in Nat /\ read_len \in Nat /\ channel_prefix
        /\ number = Byte(index) /\ number \notin {CHANNEL, ESCAPE}
    BY <1>7, <1>t, <1>u DEF Bounds, SpanEnds, Types
  <2>2. PICK z : Move(y, number, z) /\ Runs(z, Tail(Todo), Target)
    BY <1>2, <1>t, <2>1, NextMove
  <2>3. MoveNumber(y, number, z)
    BY <1>5, <2>1, <2>2 DEF Move, MovePrefix, MoveByte
  <2>4. z.sel = sink_channel' /\ z.mode = "plain" /\ z.dec = Seen'
    BY <1>3, <1>4, <2>3, <2>u DEF MoveNumber, At, Sel
  <2>5. Before(z, z)
    <3>1. Before(y, z)  BY <2>2 DEF Move
    <3> QED  BY <3>1, BeforeReflexive
  <2>6. Todo' = Tail(Todo)
    <3>1. index' + 1 = index + 2  BY <2>1, <2>u
    <3>2. Todo' = SubSeq(buffer, index' + 1, read_len) \o input  BY <1>u, <2>u DEF Todo
    <3> QED  BY <1>t, <2>1, <3>1, <3>2, NextByte
  <2>7. Types'  BY <1>t, <1>u, <2>u DEF Types
  <2>8. Bounds'  BY <1>t, <2>1, <2>u DEF Bounds
  <2>9. Position' = index'  BY <2>u DEF Position
  <2>10. ~ escape_prefix
    <3>1. y.mode = "prefix"  BY <1>5, <2>1
    <3> QED  BY <1>5, <3>1
  <2>11. (z.mode = "prefix" <=> channel_prefix') /\ (z.mode = "esc" <=> escape_prefix')
    BY <1>u, <2>4, <2>10, <2>u
  <2>12. Runs(z, Todo', Target')  BY <1>4, <2>2, <2>6
  <2> QED  BY <2>4, <2>5, <2>7, <2>8, <2>9, <2>11, <2>12, Together
<1> QED  BY <1>6, <1>7

------------------------------------------------------------------------------
(* The theorems.                                                           *)

\* The invariant holds at first and is kept.
LEMMA Initial ==
    ASSUME Init
    PROVE  IInv
<1>u. /\ input = << >> /\ host = NONE /\ packet = << >>
      /\ expected = [c \in Registered |-> << >>]
      /\ pc = "read" /\ buffer = << >> /\ read_len = 0 /\ index = 0 /\ head = 0
      /\ channel_prefix = FALSE /\ escape_prefix = FALSE /\ sink_channel = NONE
      /\ delivered = [c \in Registered |-> SinkInit(c)]
  BY DEF Init
<1>1. /\ << >> \in Seq(Bytes) /\ << >> \in Seq(Items) /\ Len(<< >>) = 0
      /\ << >> \o << >> = << >>
  OBVIOUS
<1>2. Types  BY <1>1, <1>u DEF Types
<1>3. Bounds  BY <1>1, <1>u DEF Bounds
<1>4. Ahead = << >> /\ Todo = << >>
  <2>1. SubSeq(buffer, 0 + 1, 0) = << >>  BY SubSeqEmpty
  <2> QED  BY <1>1, <1>u, <2>1 DEF Ahead, Todo, Position
<1>n. NONE \notin Registered  BY ServiceAssumption DEF NONE, Registered
<1>5. Seen = Meant
  <2>1. ASSUME NEW c \in Registered PROVE Seen[c] = Meant[c]
    <3>1. CASE c \in Packetized
      <4>1. DecoderInit = Dec(No, No, No, << >>, << >>)  BY DEF DecoderInit, Dec, No
      <4>2. Seen[c] = DecoderInit  BY <1>u, <3>1 DEF Seen, SinkInit
      <4>3. Meant[c] = Dec(No, No, No, << >>, << >>)  BY <1>u, <3>1 DEF Meant, Holding
      <4> QED  BY <4>1, <4>2, <4>3
    <3>2. CASE c \notin Packetized
      <4>1. Seen[c] = << >>  BY <1>u, <3>2 DEF Seen, SinkInit
      <4> QED  BY <1>u, <3>2, <4>1 DEF Meant
    <3> QED  BY <3>1, <3>2
  <2>2. Seen = [c \in Registered |-> Seen[c]] /\ Meant = [c \in Registered |-> Meant[c]]
    BY DEF Seen, Meant
  <2> QED  BY <2>1, <2>2
<1>6. /\ Target.sel = sink_channel /\ Target.dec = Seen /\ Target.mode = "plain"
  BY <1>5, <1>n, <1>u DEF Target, At, Sel
<1>7. Before(Target, Target)
  <2>1. Typed(Meant)  BY <1>2, MeantTyped
  <2> QED  BY <2>1, NothingGot DEF Target
<1>8. PICK y : y = Target  OBVIOUS
<1>9. Runs(y, << >>, Target)  BY <1>7, <1>8, RunsEmpty
<1>10. \A i \in 1..Len(<< >>) : FALSE  OBVIOUS
<1>11. Points(y, y)  BY <1>4, <1>6, <1>8, <1>9, <1>10, <1>u DEF Points
<1> QED  BY <1>2, <1>3, <1>11 DEF IInv

LEMMA Inductive ==
    ASSUME Unescapable, IInv, [Next]_vars
    PROVE  IInv'
<1>1. CASE Host
  BY <1>1, HostSelectStep, HostPacketStep, HostRawStep DEF Host
<1>2. CASE Service
  BY <1>2, ReadStep, ChannelPrefixStep, EscapePrefixStep, ByteStep, ChannelNumberStep, EndStep,
     WriteStep, WrittenStep
  DEF Service, Scan
<1>3. CASE UNCHANGED vars
  <2>1. UNCHANGED <<input, host, packet, expected, pc, buffer, read_len, index, head,
                    channel_prefix, escape_prefix, sink_channel, from, to, number, delivered>>
    BY <1>3 DEF vars, hostVars, scanVars, writeVars
  <2>2. /\ Position' = Position /\ Seen' = Seen /\ Target' = Target /\ Todo' = Todo
        /\ Types' /\ Bounds'
    BY <2>1 DEF Position, Seen, Target, Meant, Todo, IInv, Types, Bounds, SpanEnds, Byte
  <2>3. Ahead' = Ahead  BY <2>1, <2>2 DEF Ahead
  <2>4. PICK x : \E y : Points(x, y)  BY DEF IInv
  <2>5. PICK y : Points(x, y)  BY <2>4
  <2>6. Points(x, y)'  BY <2>1, <2>2, <2>3, <2>5 DEF Points
  <2> QED  BY <2>2, <2>6 DEF IInv
<1> QED  BY <1>1, <1>2, <1>3 DEF Next

\* The start in the words of the properties.
LEMMA StartIsPrefix ==
    ASSUME NEW s, NEW t, StartOf(s, t)
    PROVE  IsPrefix(s, t)
<1>1. Len(s) \in Nat /\ Len(t) \in Nat /\ Len(s) <= Len(t)  BY DEF StartOf
<1>2. SubSeq(s, 1, Len(s)) = SubSeq(t, 1, Len(s))  BY DEF StartOf
<1> QED  BY <1>1, <1>2 DEF IsPrefix

\* What the channels have got is the start of what they should get.
LEMMA OnTheWay ==
    ASSUME IInv
    PROVE  \A c \in Registered : StartOf(Got(c, Seen[c]), Got(c, Meant[c]))
<1>1. PICK x : \E y : Points(x, y)  BY DEF IInv
<1>2. PICK y : Points(x, y)  BY <1>1
<1>3. Ahead \in Seq(Bytes) /\ Todo \in Seq(Bytes)  BY Parts DEF IInv
<1>4. Before(x, y) /\ Before(y, Target)
  <2>1. Runs(x, Ahead, y) /\ Runs(y, Todo, Target)  BY <1>2 DEF Points
  <2> QED  BY <1>3, <2>1, RunsBefore
<1>5. Before(x, Target)  BY <1>4, BeforeTransitive
<1>6. x.dec = Seen /\ Target.dec = Meant  BY <1>2 DEF Points, Target, At
<1> QED  BY <1>5, <1>6 DEF Before

\* The same of the packets.
LEMMA MeantPackets ==
    ASSUME NEW c \in Packetized
    PROVE  Got(c, Meant[c]) = expected[c] /\ Got(c, Seen[c]) = delivered[c].packets
<1>1. c \in Registered  BY DEF Registered
<1>2. \A p : Holding(p, expected[c]).packets = expected[c]  BY DEF Holding, Dec
<1> QED  BY <1>1, <1>2 DEF Got, Meant, Seen

\* The properties follow from the invariant.
LEMMA InvariantInOrder == IInv => PacketsInOrder
<1> SUFFICES ASSUME IInv, NEW c \in Packetized
             PROVE IsPrefix(delivered[c].packets, expected[c])
  BY DEF PacketsInOrder
<1>1. StartOf(Got(c, Seen[c]), Got(c, Meant[c]))  BY OnTheWay DEF Registered
<1> QED  BY <1>1, MeantPackets, StartIsPrefix

LEMMA InvariantComplete == IInv => NothingMissing
<1> SUFFICES ASSUME IInv, Quiet, NEW c \in Packetized
             PROVE delivered[c].packets = expected[c]
  BY DEF NothingMissing
<1>1. PICK x : \E y : Points(x, y)  BY DEF IInv
<1>2. PICK y : Points(x, y)  BY <1>1
<1>3. read_len = 0 /\ index = 0 /\ head = 0 /\ input = << >> /\ pc = "read"
  BY DEF IInv, Bounds, Quiet
<1>4. y = x
  <2>1. Position = index  BY <1>3 DEF Position
  <2> QED  BY <1>2, <2>1, NobodyWaits DEF IInv
<1>5. y = Target
  <2>1. SubSeq(buffer, 0 + 1, 0) = << >>  BY SubSeqEmpty
  <2>2. Todo = << >>  BY <1>3, <2>1 DEF Todo
  <2>3. Runs(y, << >>, Target)  BY <1>2, <2>2 DEF Points
  <2> QED  BY <2>3, RunsEmpty
<1>6. Seen = Meant  BY <1>2, <1>4, <1>5 DEF Points, Target, At
<1> QED  BY <1>6, MeantPackets

LEMMA InvariantPlain == IInv => PlainInOrder
<1> SUFFICES ASSUME IInv, NEW c \in Raw PROVE IsPrefix(delivered[c].data, expected[c])
  BY DEF PlainInOrder
<1>1. c \in Registered /\ c \notin Packetized  BY ServiceAssumption DEF Registered
<1>2. StartOf(Got(c, Seen[c]), Got(c, Meant[c]))  BY <1>1, OnTheWay
<1>3. Got(c, Seen[c]) = delivered[c].data /\ Got(c, Meant[c]) = expected[c]
  BY <1>1 DEF Got, Seen, Meant
<1> QED  BY <1>2, <1>3, StartIsPrefix

LEMMA Always ==
    ASSUME Unescapable
    PROVE  Spec => []IInv
<1>1. Init => IInv  BY Initial
<1>2. IInv /\ [Next]_vars => IInv'  BY Inductive
<1> QED  BY <1>1, <1>2, PTL DEF Spec

\* Wherever the chunks end and however few bytes a sink takes at a time, what a
\* packetized sink has decoded is the start of what the host sent on its channel.
THEOREM InOrder ==
    ASSUME Unescapable
    PROVE  Spec => []PacketsInOrder
<1>1. IInv => PacketsInOrder  BY InvariantInOrder
<1> QED  BY <1>1, Always, PTL

\* When everything is read and written, the packetized sinks have every packet.
THEOREM Complete ==
    ASSUME Unescapable
    PROVE  Spec => []NothingMissing
<1>1. IInv => NothingMissing  BY InvariantComplete
<1> QED  BY <1>1, Always, PTL

\* A sink of plain bytes gets the bytes the host sent on its channel, in order, with
\* at most channel prefixes among them.
THEOREM Plainly ==
    ASSUME Unescapable
    PROVE  Spec => []PlainInOrder
<1>1. IInv => PlainInOrder  BY InvariantPlain
<1> QED  BY <1>1, Always, PTL
==============================================================================
