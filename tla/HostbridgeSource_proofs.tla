---------------------- MODULE HostbridgeSource_proofs ----------------------
(***************************************************************************)
(* Proofs about HostbridgeSource for any number of threads, channels and   *)
(* data, any size of the buffer that the code's test allows, and a device  *)
(* that takes as little of each write as it likes.  First what the bridge  *)
(* has, its lock and its buffers; then what the host makes of it.          *)
(***************************************************************************)
EXTENDS HostbridgeSource, SequenceTheorems, TLAPS

\* The types of what the bridge and its threads have.
Types ==
    /\ lock \in {0, 1} /\ source_channel_number \in Channels \cup {NONE}
    /\ pc \in [Threads -> {"idle", "lock", "prefix", "write", "fill"}]
    /\ channel \in [Threads -> Channels \cup {NONE}]
    /\ rest \in [Threads -> Seq(0..255)] /\ out \in [Threads -> Seq(0..255)]
    /\ packetize \in [Threads -> {-1, 0, 1}] /\ reset \in [Threads -> BOOLEAN]

\* The thread that has the lock: it alone has bytes in its buffer, and alone
\* changes the bridge's channel number.
Inside(t) == pc[t] \in {"prefix", "write", "fill"}
OneAtATime ==
    /\ \A t, u \in Threads : Inside(t) /\ Inside(u) => t = u
    /\ lock = 1 <=> \A t \in Threads : ~ Inside(t)
    /\ \A t \in Threads : out[t] # << >> => pc[t] \in {"write", "fill"}
    /\ \A t \in Threads : Inside(t) \/ pc[t] = "lock" => channel[t] \in Channels

\* The start of a packet goes into an empty buffer, so that writing it there does
\* not drop bytes of the channel prefix.
StartsEmpty == \A t \in Threads : pc[t] = "fill" /\ packetize[t] > 0 => out[t] = << >>

IInv == Types /\ OneAtATime /\ StartsEmpty /\ BufferFits

------------------------------------------------------------------------------
(* The bytes that the operators make.                                      *)

\* A byte travels as one or two bytes.
LEMMA EscapedBytes ==
    ASSUME NEW b \in 0..255
    PROVE  Escaped(b) \in Seq(0..255) /\ Len(Escaped(b)) <= 2
<1>1. CASE NeedsEscape(b)
  <2>1. Xor20(b) = b - 32 \/ Xor20(b) = b + 32  BY DEF Xor20
  <2>2. Xor20(b) \in 0..255  BY <1>1, <2>1 DEF NeedsEscape, SOP, ESCAPE
  <2>3. ESCAPE \in 0..255  BY DEF ESCAPE
  <2>4. Escaped(b) = <<ESCAPE, Xor20(b)>>  BY <1>1 DEF Escaped
  <2> QED  BY <2>2, <2>3, <2>4
<1>2. CASE ~ NeedsEscape(b)
  <2>1. Escaped(b) = <<b>>  BY <1>2 DEF Escaped
  <2> QED  BY <2>1
<1> QED  BY <1>1, <1>2

\* A sequence after a first byte.
LEMMA OneBefore ==
    ASSUME NEW S, NEW b \in S, NEW s \in Seq(S)
    PROVE  /\ <<b>> \o s \in Seq(S)
           /\ Len(s) <= 2 => Len(<<b>> \o s) <= 3
<1>1. <<b>> \in Seq(S) /\ Len(<<b>>) = 1  OBVIOUS
<1>2. <<b>> \o s \in Seq(S) /\ Len(<<b>> \o s) = Len(<<b>>) + Len(s)
  BY <1>1, ConcatProperties
<1>3. Len(<<b>>) = 1  BY <1>1
<1> QED  BY <1>2, <1>3

\* The channel prefix takes at most three bytes.
LEMMA PrefixBytes ==
    ASSUME NEW c \in 0..255
    PROVE  SelectChannel(c) \in Seq(0..255) /\ Len(SelectChannel(c)) <= 3
<1>1. CHANNEL \in 0..255  BY DEF CHANNEL
<1>2. Escaped(c) \in Seq(0..255) /\ Len(Escaped(c)) <= 2  BY EscapedBytes
<1>3. /\ <<CHANNEL>> \o Escaped(c) \in Seq(0..255)
      /\ Len(<<CHANNEL>> \o Escaped(c)) <= 3
  BY <1>1, <1>2, OneBefore, Zenon
<1> QED  BY <1>3, Zenon DEF SelectChannel

\* A byte of data takes at most three, if it is the last of a packet.
LEMMA FramedBytes ==
    ASSUME NEW p, NEW n, NEW b \in 0..255
    PROVE  Framed(p, n, b) \in Seq(0..255) /\ Len(Framed(p, n, b)) <= 3
<1>1. EOP \in 0..255  BY DEF EOP
<1>4. Escaped(b) \in Seq(0..255) /\ Len(Escaped(b)) <= 2  BY EscapedBytes
<1>2. CASE p # 0 /\ n = 1
  <2>1. Framed(p, n, b) = <<EOP>> \o Escaped(b)  BY <1>2 DEF Framed
  <2>2. <<EOP>> \o Escaped(b) \in Seq(0..255) /\ Len(<<EOP>> \o Escaped(b)) <= 3
    BY <1>1, <1>4, OneBefore, Zenon
  <2> QED  BY <2>1, <2>2, Zenon
<1>3. CASE ~ (p # 0 /\ n = 1)
  <2>1. Framed(p, n, b) = << >> \o Escaped(b)  BY <1>3 DEF Framed
  <2>2. Framed(p, n, b) = Escaped(b)  BY <1>4, <2>1
  <2> QED  BY <1>4, <2>2
<1> QED  BY <1>2, <1>3

\* A buffer with room for three bytes more.
LEMMA RoomFor ==
    ASSUME NEW S, NEW s \in Seq(S), NEW e \in Seq(S), Len(s) < WRITE_BUFFER_LEN,
           Len(e) <= 3
    PROVE  s \o e \in Seq(S) /\ Len(s \o e) <= WRITE_BUFFER_LEN + 2
<1>1. s \o e \in Seq(S) /\ Len(s \o e) = Len(s) + Len(e)  BY ConcatProperties
<1>2. Len(s) \in Nat /\ Len(e) \in Nat /\ Len(e) <= 3  BY LenProperties
<1>3. Len(s) + Len(e) <= WRITE_BUFFER_LEN + 2  BY <1>2, SourceAssumption
<1> QED  BY <1>1, <1>3

\* The data of a call is a sequence of bytes.
LEMMA DataBytes == SeqOf(Data, MaxLen) \subseteq Seq(0..255)
<1> SUFFICES ASSUME NEW m \in 0..MaxLen, NEW s \in [1..m -> Data]  PROVE s \in Seq(0..255)
  BY DEF SeqOf
<1>1. m \in Nat /\ Data \subseteq 0..255  BY SourceAssumption
<1>2. s \in [1..m -> 0..255]  BY <1>1
<1> QED  BY <1>1, <1>2, SeqDef

------------------------------------------------------------------------------
(* Each step keeps the invariant.                                          *)

\* A step of thread t changes nothing that another thread has.
Only(t) ==
    \A u \in Threads \ {t} :
        /\ pc'[u] = pc[u] /\ channel'[u] = channel[u] /\ rest'[u] = rest[u]
        /\ packetize'[u] = packetize[u] /\ out'[u] = out[u]

\* The conjuncts about every thread follow from those about the one that steps.
LEMMA StepOf ==
    ASSUME IInv, NEW t \in Threads, Types', Only(t),
           \/ (Inside(t)' <=> Inside(t)) /\ lock' = lock
           \/ ~ Inside(t) /\ Inside(t)' /\ lock = 1 /\ lock' = 0
           \/ Inside(t) /\ ~ Inside(t)' /\ lock' = 1,
           out'[t] # << >> => pc'[t] \in {"write", "fill"},
           pc'[t] # "idle" => channel'[t] \in Channels,
           pc'[t] = "fill" /\ packetize'[t] > 0 => out'[t] = << >>,
           out'[t] = << >> \/ Len(out'[t]) <= WRITE_BUFFER_LEN + 2
    PROVE  IInv'
<1>1. \A u \in Threads \ {t} : Inside(u)' = Inside(u)  BY DEF Only, Inside
<1>2. OneAtATime'
  <2>1. \A u, x \in Threads : Inside(u)' /\ Inside(x)' => u = x
    BY <1>1 DEF IInv, OneAtATime
  <2>2. (lock = 1 <=> \A u \in Threads : ~ Inside(u))'
    <3>1. CASE (Inside(t)' <=> Inside(t)) /\ lock' = lock  BY <1>1, <3>1 DEF IInv, OneAtATime
    <3>2. CASE Inside(t)' /\ lock' = 0  BY <3>2
    <3>3. CASE Inside(t) /\ ~ Inside(t)' /\ lock' = 1
      BY <1>1, <3>3 DEF IInv, OneAtATime
    <3> QED  BY <3>1, <3>2, <3>3
  <2>3. \A u \in Threads : out'[u] # << >> => pc'[u] \in {"write", "fill"}
    BY DEF IInv, OneAtATime, Only
  <2>4. \A u \in Threads : Inside(u)' \/ pc'[u] = "lock" => channel'[u] \in Channels
    BY <1>1 DEF IInv, OneAtATime, Only, Inside
  <2> QED  BY <2>1, <2>2, <2>3, <2>4 DEF OneAtATime
<1>3. StartsEmpty'  BY DEF IInv, StartsEmpty, Only
<1>4. BufferFits'
  <2>1. Len(<< >>) <= WRITE_BUFFER_LEN + 2  BY SourceAssumption
  <2> QED  BY <2>1 DEF IInv, BufferFits, Only
<1> QED  BY <1>2, <1>3, <1>4 DEF IInv

LEMMA CallStep ==
    ASSUME IInv, NEW t \in Threads, NEW c \in Channels, NEW data \in SeqOf(Data, MaxLen),
           NEW r \in BOOLEAN, Call(t, c, data, r)
    PROVE  IInv'
<1>1. data \in Seq(0..255)  BY DataBytes
<1>2. Types'  BY <1>1 DEF IInv, Types, Call, Goto
<1>3. Only(t)  BY DEF IInv, Types, Call, Goto, Only
<1>4. /\ ~ Inside(t) /\ ~ Inside(t)' /\ lock' = lock /\ pc'[t] = "lock"
      /\ channel'[t] \in Channels
  BY DEF IInv, Types, Call, Goto, Inside
<1>5. out[t] = << >> /\ out'[t] = << >>  BY DEF IInv, OneAtATime, Call
<1> QED  BY <1>2, <1>3, <1>4, <1>5, StepOf

LEMMA LockStep ==
    ASSUME IInv, NEW t \in Threads, Lock(t)
    PROVE  IInv'
<1>1. Types'  BY DEF IInv, Types, Lock, Goto
<1>2. Only(t)  BY DEF IInv, Types, Lock, Goto, Only
<1>3. ~ Inside(t) /\ Inside(t)' /\ lock = 1 /\ lock' = 0 /\ pc'[t] = "prefix"
  BY DEF IInv, Types, Lock, Goto, Inside
<1>4. out[t] = << >> /\ out'[t] = << >> /\ channel'[t] \in Channels
  BY DEF IInv, OneAtATime, Lock
<1> QED  BY <1>1, <1>2, <1>3, <1>4, StepOf

LEMMA SendPrefixStep ==
    ASSUME IInv, NEW t \in Threads, SendPrefix(t)
    PROVE  IInv'
<1>1. channel[t] \in Channels /\ channel[t] \in 0..255 /\ Inside(t)
  BY SourceAssumption DEF IInv, OneAtATime, SendPrefix, Inside, Channels
<1>2. SelectChannel(channel[t]) \in Seq(0..255) /\ Len(SelectChannel(channel[t])) <= 3
  BY <1>1, PrefixBytes
<1>3. Types'  BY <1>2 DEF IInv, Types, SendPrefix, Goto
<1>4. Only(t)  BY DEF IInv, Types, SendPrefix, Goto, Only
<1>5. /\ Inside(t)' /\ lock' = lock /\ pc'[t] = "write" /\ channel'[t] = channel[t]
      /\ out'[t] = SelectChannel(channel[t])
  BY DEF IInv, Types, SendPrefix, Goto, Inside
<1>6. Len(out'[t]) <= WRITE_BUFFER_LEN + 2
  <2>1. \A k \in Nat : k <= 3 => k <= WRITE_BUFFER_LEN + 2  BY SourceAssumption
  <2>2. Len(SelectChannel(channel[t])) \in Nat  BY <1>2, LenProperties
  <2> QED  BY <1>2, <1>5, <2>1, <2>2, Zenon
<1> QED  BY <1>1, <1>3, <1>4, <1>5, <1>6, StepOf

LEMMA NoPrefixStep ==
    ASSUME IInv, NEW t \in Threads, NoPrefix(t)
    PROVE  IInv'
<1>1. Types'  BY DEF IInv, Types, NoPrefix, Goto
<1>2. Only(t)  BY DEF IInv, Types, NoPrefix, Goto, Only
<1>3. Inside(t) /\ Inside(t)' /\ lock' = lock  BY DEF IInv, Types, NoPrefix, Goto, Inside
<1>4. out[t] = << >> /\ out'[t] = << >> /\ channel'[t] \in Channels /\ pc'[t] = "fill"
  BY <1>3 DEF IInv, Types, OneAtATime, NoPrefix, Goto
<1> QED  BY <1>1, <1>2, <1>3, <1>4, StepOf

LEMMA WriteStep ==
    ASSUME IInv, NEW t \in Threads, Write(t)
    PROVE  IInv'
<1>1. out[t] \in Seq(0..255) /\ out[t] # << >> /\ Len(out[t]) <= WRITE_BUFFER_LEN + 2
  BY DEF IInv, Types, BufferFits, Write
<1>2. Tail(out[t]) \in Seq(0..255) /\ Len(Tail(out[t])) <= Len(out[t])
  BY <1>1
<1>3. Types'  BY <1>2 DEF IInv, Types, Write
<1>4. Only(t)  BY DEF IInv, Types, Write, Only
<1>5. /\ Inside(t) /\ Inside(t)' /\ lock' = lock /\ pc'[t] = "write" /\ channel'[t] \in Channels
      /\ out'[t] = Tail(out[t])
  BY DEF IInv, Types, OneAtATime, Write, Inside
<1>6. Len(out'[t]) <= WRITE_BUFFER_LEN + 2
  <2>1. Len(out[t]) \in Nat /\ Len(Tail(out[t])) \in Nat  BY <1>1, <1>2
  <2> QED  BY <1>1, <1>2, <1>5, <2>1, SourceAssumption
<1> QED  BY <1>3, <1>4, <1>5, <1>6, StepOf

LEMMA WrittenStep ==
    ASSUME IInv, NEW t \in Threads, Written(t)
    PROVE  IInv'
<1>1. Inside(t) /\ channel[t] \in Channels  BY DEF IInv, OneAtATime, Written, Inside
<1>2. Types'  BY <1>1 DEF IInv, Types, Written, Goto
<1>3. Only(t)  BY DEF IInv, Types, Written, Goto, Only
<1>4. /\ Inside(t)' /\ lock' = lock /\ out'[t] = << >> /\ channel'[t] = channel[t]
      /\ pc'[t] = "fill"
  BY DEF IInv, Types, Written, Goto, Inside
<1> QED  BY <1>1, <1>2, <1>3, <1>4, StepOf

LEMMA FillStep ==
    ASSUME IInv, NEW t \in Threads, Fill(t)
    PROVE  IInv'
<1> DEFINE before == IF packetize[t] > 0 THEN <<SOP>> ELSE out[t]
           byte == Framed(packetize[t], Len(rest[t]), Head(rest[t]))
<1>r. rest[t] \in Seq(0..255) /\ rest[t] # << >>  BY DEF IInv, Types, Fill
<1>1. Head(rest[t]) \in 0..255 /\ Tail(rest[t]) \in Seq(0..255)
  BY <1>r, HeadTailProperties
<1>2. before \in Seq(0..255) /\ Len(before) < WRITE_BUFFER_LEN
  <2>1. out[t] \in Seq(0..255) /\ Len(out[t]) < WRITE_BUFFER_LEN
    BY DEF IInv, Types, Fill, Room
  <2>2. <<SOP>> \in Seq(0..255) /\ Len(<<SOP>>) < WRITE_BUFFER_LEN
    BY SourceAssumption DEF SOP
  <2> QED  BY <2>1, <2>2, Zenon
<1>3. byte \in Seq(0..255) /\ Len(byte) <= 3  BY <1>1, FramedBytes
<1>4. before \o byte \in Seq(0..255) /\ Len(before \o byte) <= WRITE_BUFFER_LEN + 2
  BY <1>2, <1>3, RoomFor, Zenon
<1>5. out' = [out EXCEPT ![t] = before \o byte]  BY DEF Fill
<1>6. Types'
  <2>1. /\ out' \in [Threads -> Seq(0..255)] /\ rest' \in [Threads -> Seq(0..255)]
        /\ packetize' \in [Threads -> {-1, 0, 1}]
    <3>1. out \in [Threads -> Seq(0..255)]  BY DEF IInv, Types
    <3>2. out' \in [Threads -> Seq(0..255)]
      <4> HIDE DEF before, byte
      <4> QED  BY <1>4, <1>5, <3>1
    <3> QED  BY <1>1, <3>2 DEF IInv, Types, Fill
  <2> QED  BY <2>1 DEF IInv, Types, Fill
<1>7. Only(t)  BY DEF IInv, Types, Fill, Only
<1>8. /\ Inside(t) /\ Inside(t)' /\ lock' = lock /\ pc'[t] = "fill" /\ channel'[t] \in Channels
  BY DEF IInv, Types, OneAtATime, Fill, Inside
<1>p. ~ packetize'[t] > 0  BY DEF IInv, Types, Fill
<1>9. Len(out'[t]) <= WRITE_BUFFER_LEN + 2  BY <1>4, <1>5 DEF IInv, Types
<1> QED  BY <1>6, <1>7, <1>8, <1>9, <1>p, StepOf

LEMMA FlushStep ==
    ASSUME IInv, NEW t \in Threads, Flush(t)
    PROVE  IInv'
<1>1. Types'  BY DEF IInv, Types, Flush, Goto
<1>2. Only(t)  BY DEF IInv, Types, Flush, Goto, Only
<1>3. /\ Inside(t) /\ Inside(t)' /\ lock' = lock /\ pc'[t] = "write" /\ channel'[t] \in Channels
      /\ Len(out'[t]) <= WRITE_BUFFER_LEN + 2
  BY DEF IInv, Types, OneAtATime, BufferFits, Flush, Goto, Inside
<1> QED  BY <1>1, <1>2, <1>3, StepOf

LEMMA UnlockStep ==
    ASSUME IInv, NEW t \in Threads, Unlock(t)
    PROVE  IInv'
<1>1. Inside(t) /\ lock = 0  BY DEF IInv, Types, OneAtATime, Unlock, Inside
<1>2. Types'  BY <1>1 DEF IInv, Types, Unlock, Goto
<1>3. Only(t)  BY DEF IInv, Types, Unlock, Goto, Only
<1>4. ~ Inside(t)' /\ lock' = 1 /\ pc'[t] = "idle" /\ out'[t] = << >>
  BY <1>1 DEF IInv, Types, Unlock, Goto, Inside
<1> QED  BY <1>1, <1>2, <1>3, <1>4, StepOf

LEMMA Initial == Init => IInv
BY SourceAssumption DEF Init, IInv, Types, OneAtATime, Inside, StartsEmpty, BufferFits, Channels, NONE

LEMMA Inductive == IInv /\ [Next]_vars => IInv'
<1> SUFFICES ASSUME IInv, [Next]_vars  PROVE IInv'
  OBVIOUS
<1>1. CASE HostRestart
  BY <1>1 DEF HostRestart, threadVars, IInv, Types, OneAtATime, Inside, StartsEmpty, BufferFits
<1>2. CASE UNCHANGED vars
  BY <1>2 DEF vars, threadVars, IInv, Types, OneAtATime, Inside, StartsEmpty, BufferFits
<1> QED
  BY <1>1, <1>2, CallStep, LockStep, SendPrefixStep, NoPrefixStep, WriteStep, WrittenStep,
     FillStep, FlushStep, UnlockStep
  DEF Next, Source

------------------------------------------------------------------------------
(* What the host makes of the bytes.                                       *)

Bytes == 0..255

\* TRUE and FALSE as values: the provers take the two themselves for formulas.
Yes == TRUE
No == FALSE

\* A decoder: between packets, when it has decoded m of the channel c, and within
\* a packet.
Dec(inside, end, esc, part, packets) ==
    [inside |-> inside, end |-> end, esc |-> esc, part |-> part, packets |-> packets]
Rested(c, m) ==
    IF c \in Packetized THEN Dec(No, No, No, << >>, m)
    ELSE Dec(No, No, No, m, << >>)
Within(ps, part, end) == Dec(Yes, end, No, part, ps)

\* The host when it is at no escape and no channel prefix.
HostAt(s, ds) == [selected |-> s, prefix |-> No, esc |-> No, decoder |-> ds]
On(ds, c, d) == HostAt(c, [ds EXCEPT ![c] = d])

\* The bytes s lead the host from h to h2: f has the states between them.
Runs(h, s, h2) ==
    \E f : /\ f[0] = h /\ f[Len(s)] = h2
           /\ \A i \in 1..Len(s) : f[i] = HostByte(f[i - 1], s[i])

\* No byte leads nowhere.
LEMMA RunsEmpty ==
    ASSUME NEW h
    PROVE  Runs(h, << >>, h) /\ \A h2 : Runs(h, << >>, h2) => h2 = h
<1> DEFINE f == [i \in {0} |-> h]
<1>1. f[0] = h /\ Len(<< >>) = 0 /\ \A i \in 1..0 : f[i] = HostByte(f[i - 1], << >>[i])
  OBVIOUS
<1> HIDE DEF f
<1>2. Runs(h, << >>, h)  BY <1>1 DEF Runs
<1>3. \A h2 : Runs(h, << >>, h2) => h2 = h  BY DEF Runs
<1> QED  BY <1>2, <1>3

\* One byte.
LEMMA RunsOne ==
    ASSUME NEW h, NEW b
    PROVE  Runs(h, <<b>>, HostByte(h, b))
<1> DEFINE f == [i \in 0..1 |-> IF i = 0 THEN h ELSE HostByte(h, b)]
<1>1. f[0] = h /\ f[1] = HostByte(f[0], b)  OBVIOUS
<1> HIDE DEF f
<1>2. Len(<<b>>) = 1 /\ <<b>>[1] = b /\ f[1] = HostByte(h, b)  BY <1>1
<1>3. \A i \in 1..1 : i = 1 /\ i - 1 = 0  OBVIOUS
<1>4. \A i \in 1..Len(<<b>>) : f[i] = HostByte(f[i - 1], <<b>>[i])
  BY <1>1, <1>2, <1>3, Zenon
<1> QED  BY <1>1, <1>2, <1>4, Zenon DEF Runs

\* The first byte is taken.
LEMMA RunsHead ==
    ASSUME NEW s \in Seq(Bytes), s # << >>, NEW h, NEW h2, Runs(h, s, h2)
    PROVE  Runs(HostByte(h, Head(s)), Tail(s), h2)
<1>1. PICK f : /\ f[0] = h /\ f[Len(s)] = h2
               /\ \A i \in 1..Len(s) : f[i] = HostByte(f[i - 1], s[i])
  BY DEF Runs
<1>2. /\ Len(s) \in Nat \ {0} /\ Len(Tail(s)) = Len(s) - 1 /\ Head(s) = s[1]
      /\ \A i \in 1..(Len(s) - 1) : Tail(s)[i] = s[i + 1]
  OBVIOUS
<1> DEFINE g == [i \in 0..(Len(s) - 1) |-> f[i + 1]]
<1>3. \A i \in 0..(Len(s) - 1) : g[i] = f[i + 1]  OBVIOUS
<1> HIDE DEF g
<1>4. g[0] = HostByte(h, Head(s))
  <2>1. g[0] = f[1] /\ 1 \in 1..Len(s) /\ 1 - 1 = 0  BY <1>2, <1>3
  <2> QED  BY <1>1, <1>2, <2>1
<1>5. g[Len(Tail(s))] = h2
  <2>1. Len(s) - 1 \in 0..(Len(s) - 1) /\ (Len(s) - 1) + 1 = Len(s)  BY <1>2
  <2> QED  BY <1>1, <1>2, <1>3, <2>1
<1>6. ASSUME NEW i \in 1..Len(Tail(s)) PROVE g[i] = HostByte(g[i - 1], Tail(s)[i])
  <2>1. /\ i \in 0..(Len(s) - 1) /\ i - 1 \in 0..(Len(s) - 1) /\ i + 1 \in 1..Len(s)
        /\ (i + 1) - 1 = i /\ (i - 1) + 1 = i /\ i \in 1..(Len(s) - 1)
    BY <1>2
  <2>2. g[i] = f[i + 1] /\ g[i - 1] = f[i] /\ Tail(s)[i] = s[i + 1]
    BY <1>2, <1>3, <2>1, Zenon
  <2>3. f[i + 1] = HostByte(f[i], s[i + 1])  BY <1>1, <2>1
  <2> QED  BY <2>2, <2>3, Zenon
<1> QED  BY <1>4, <1>5, <1>6, Zenon DEF Runs

\* One run after the other.
LEMMA RunsConcat ==
    ASSUME NEW S, NEW s \in Seq(S), NEW t \in Seq(S), NEW h, NEW h1, NEW h2,
           Runs(h, s, h1), Runs(h1, t, h2)
    PROVE  Runs(h, s \o t, h2)
<1>1. PICK f : /\ f[0] = h /\ f[Len(s)] = h1
               /\ \A i \in 1..Len(s) : f[i] = HostByte(f[i - 1], s[i])
  BY DEF Runs
<1>2. PICK g : /\ g[0] = h1 /\ g[Len(t)] = h2
               /\ \A i \in 1..Len(t) : g[i] = HostByte(g[i - 1], t[i])
  BY DEF Runs
<1> DEFINE n == Len(s)
           k == [i \in 0..(n + Len(t)) |-> IF i <= n THEN f[i] ELSE g[i - n]]
<1>3. /\ n \in Nat /\ Len(t) \in Nat /\ Len(s \o t) = n + Len(t)
      /\ \A i \in 1..n : (s \o t)[i] = s[i]
      /\ \A i \in 1..Len(t) : (s \o t)[n + i] = t[i]
  OBVIOUS
<1>4. /\ \A i \in 0..n : k[i] = f[i]
      /\ \A i \in 1..Len(t) : k[n + i] = g[i]
  <2>1. \A i \in 1..Len(t) : n + i \in 0..(n + Len(t)) /\ ~ (n + i <= n) /\ (n + i) - n = i
    BY <1>3
  <2>2. \A i \in 1..Len(t) : k[n + i] = IF n + i <= n THEN f[n + i] ELSE g[(n + i) - n]
    BY <2>1, Zenon
  <2>3. \A i \in 1..Len(t) : k[n + i] = g[i]  BY <2>1, <2>2
  <2>4. \A i \in 0..n : i \in 0..(n + Len(t)) /\ i <= n  BY <1>3
  <2> QED  BY <2>3, <2>4
<1> HIDE DEF k
<1>5. \A i \in 0..Len(t) : k[n + i] = g[i]
  <2>1. k[n + 0] = g[0]
    <3>1. n + 0 = n /\ n \in 0..n  BY <1>3
    <3> QED  BY <1>1, <1>2, <1>4, <3>1
  <2>2. \A i \in 0..Len(t) : i = 0 \/ i \in 1..Len(t)  BY <1>3
  <2> QED  BY <1>4, <2>1, <2>2, Zenon
<1>6. k[0] = h /\ k[Len(s \o t)] = h2
  <2>1. 0 \in 0..n /\ Len(t) \in 0..Len(t)  BY <1>3
  <2> QED  BY <1>1, <1>2, <1>3, <1>4, <1>5, <2>1
<1>7. ASSUME NEW i \in 1..Len(s \o t) PROVE k[i] = HostByte(k[i - 1], (s \o t)[i])
  <2>1. CASE i <= n
    <3>1. i \in 1..n /\ i \in 0..n /\ i - 1 \in 0..n  BY <1>3, <2>1
    <3> QED  BY <1>1, <1>3, <1>4, <3>1, Zenon
  <2>2. CASE ~ (i <= n)
    <3> DEFINE j == i - n
    <3>1. /\ j \in 1..Len(t) /\ j \in 0..Len(t) /\ j - 1 \in 0..Len(t)
          /\ n + j = i /\ n + (j - 1) = i - 1
      BY <1>3, <2>2
    <3> HIDE DEF j
    <3>2. k[i] = g[j] /\ k[i - 1] = g[j - 1] /\ (s \o t)[i] = t[j]
      BY <1>3, <1>5, <3>1, Zenon
    <3> QED  BY <1>2, <3>1, <3>2, Zenon
  <2> QED  BY <2>1, <2>2
<1> QED  BY <1>6, <1>7, Zenon DEF Runs

\* Two bytes.
LEMMA RunsTwo ==
    ASSUME NEW S, NEW a \in S, NEW b \in S, NEW h
    PROVE  Runs(h, <<a, b>>, HostByte(HostByte(h, a), b))
<1>1. Runs(h, <<a>>, HostByte(h, a)) /\ Runs(HostByte(h, a), <<b>>, HostByte(HostByte(h, a), b))
  BY RunsOne
<1>2. <<a>> \in Seq(S) /\ <<b>> \in Seq(S) /\ <<a>> \o <<b>> = <<a, b>>
  <2> DEFINE u == <<a>> \o <<b>>
             v == <<a, b>>
  <2>1. v \in Seq(S) /\ Len(v) = 2 /\ v[1] = a /\ v[2] = b  OBVIOUS
  <2>2. u \in Seq(S) /\ Len(u) = 2 /\ u[1] = a /\ u[2] = b  OBVIOUS
  <2>3. <<a>> \in Seq(S) /\ <<b>> \in Seq(S)  OBVIOUS
  <2> HIDE DEF u, v
  <2>4. Len(u) = Len(v) /\ \A j \in 1..Len(u) : u[j] = v[j]  BY <2>1, <2>2
  <2>5. u = v  BY <2>1, <2>2, <2>4, SeqEqual
  <2> QED  BY <2>3, <2>5 DEF u, v
<1>3. Runs(h, <<a>> \o <<b>>, HostByte(HostByte(h, a), b))  BY <1>1, <1>2, RunsConcat, Zenon
<1> QED  BY <1>2, <1>3, Zenon

\* A byte as it travels: what undoes the escape gives the byte.
LEMMA EscapedIs ==
    ASSUME NEW b \in Bytes
    PROVE  \/ /\ Escaped(b) = <<b>> /\ b \notin {SOP, EOP, CHANNEL, ESCAPE}
           \/ /\ Escaped(b) = <<ESCAPE, Xor20(b)>> /\ Xor20(Xor20(b)) = b
              /\ Xor20(b) \in Bytes \ {SOP, EOP, CHANNEL, ESCAPE}
<1>1. CASE NeedsEscape(b)
  <2>1. b \in {122, 123, 124, 125}  BY <1>1 DEF NeedsEscape, SOP, ESCAPE, Bytes
  <2>2. b \div 32 = 3 /\ 3 % 2 = 1  BY <2>1
  <2>3. Xor20(b) = b - 32 /\ (b - 32) \div 32 = 2 /\ 2 % 2 = 0  BY <2>1, <2>2 DEF Xor20
  <2>4. Xor20(b - 32) = b  BY <2>1, <2>3 DEF Xor20
  <2>5. Xor20(b) \in Bytes \ {SOP, EOP, CHANNEL, ESCAPE}
    BY <2>1, <2>3 DEF Bytes, SOP, EOP, CHANNEL, ESCAPE
  <2>6. Escaped(b) = <<ESCAPE, Xor20(b)>>  BY <1>1 DEF Escaped
  <2> QED  BY <2>3, <2>4, <2>5, <2>6
<1>2. CASE ~ NeedsEscape(b)
  <2>1. b \notin {SOP, EOP, CHANNEL, ESCAPE}
    BY <1>2 DEF NeedsEscape, SOP, EOP, CHANNEL, ESCAPE, Bytes
  <2>2. Escaped(b) = <<b>>  BY <1>2 DEF Escaped
  <2> QED  BY <2>1, <2>2
<1> QED  BY <1>1, <1>2

\* A channel prefix selects the channel, whatever was selected.
LEMMA SelectRuns ==
    ASSUME NEW c \in Bytes, NEW s, NEW ds
    PROVE  Runs(HostAt(s, ds), SelectChannel(c), HostAt(c, ds))
<1> DEFINE h(e) == [selected |-> s, prefix |-> Yes, esc |-> e, decoder |-> ds]
<1>1. HostByte(HostAt(s, ds), CHANNEL) = h(No)
  <2>1. HostByte(HostAt(s, ds), CHANNEL) = [HostAt(s, ds) EXCEPT !.prefix = Yes]
    BY DEF HostByte, CHANNEL, ESCAPE, Yes
  <2> QED  BY <2>1 DEF HostAt
<1>2. Runs(h(No), Escaped(c), HostAt(c, ds))
  <2>p. h(No).prefix = Yes /\ h(Yes).prefix = Yes /\ h(No).esc = No /\ h(Yes).esc = Yes
    OBVIOUS
  <2>1. CASE Escaped(c) = <<c>> /\ c \notin {SOP, EOP, CHANNEL, ESCAPE}
    <3>1. HostByte(h(No), c) = [h(No) EXCEPT !.prefix = No, !.esc = No, !.selected = c]
      <4> HIDE DEF h
      <4> QED  BY <2>1, <2>p DEF HostByte, Yes, No
    <3>2. HostByte(h(No), c) = HostAt(c, ds)  BY <3>1 DEF HostAt
    <3> HIDE DEF h
    <3> QED  BY <2>1, <3>2, RunsOne, Zenon
  <2>2. CASE /\ Escaped(c) = <<ESCAPE, Xor20(c)>> /\ Xor20(Xor20(c)) = c
             /\ Xor20(c) \in Bytes \ {SOP, EOP, CHANNEL, ESCAPE}
    <3>1. HostByte(h(No), ESCAPE) = h(Yes)
      <4>1. HostByte(h(No), ESCAPE) = [h(No) EXCEPT !.esc = Yes]
        <5> HIDE DEF h
        <5> QED  BY <2>p DEF HostByte, ESCAPE, CHANNEL, Yes
      <4> QED  BY <4>1
    <3>2. HostByte(h(Yes), Xor20(c)) = HostAt(c, ds)
      <4> DEFINE x == Xor20(c)
      <4>1. x \notin {CHANNEL, ESCAPE} /\ Xor20(x) = c  BY <2>2
      <4> HIDE DEF x
      <4>2. HostByte(h(Yes), x) = [h(Yes) EXCEPT !.prefix = No, !.esc = No, !.selected = c]
        <5> HIDE DEF h
        <5> QED  BY <4>1, <2>p DEF HostByte, Yes, No
      <4>3. HostByte(h(Yes), x) = HostAt(c, ds)  BY <4>2 DEF HostAt
      <4> QED  BY <4>3 DEF x
    <3>3. ESCAPE \in Bytes  BY DEF Bytes, ESCAPE
    <3> HIDE DEF h
    <3> QED  BY <2>2, <3>1, <3>2, <3>3, RunsTwo
  <2> QED  BY <2>1, <2>2, EscapedIs
<1>3. Runs(HostAt(s, ds), <<CHANNEL>>, h(No))  BY <1>1, RunsOne
<1> HIDE DEF h
<1>4. Escaped(c) \in Seq(Bytes)  BY EscapedBytes DEF Bytes
<1>5. <<CHANNEL>> \in Seq(Bytes)  BY DEF Bytes, CHANNEL
<1> QED  BY <1>2, <1>3, <1>4, <1>5, RunsConcat, Zenon DEF SelectChannel

\* On a selected channel a byte goes to the channel's decoder.
LEMMA HeardOn ==
    ASSUME NEW c \in Channels, NEW ds, DOMAIN ds = Channels, NEW d, NEW b, b # CHANNEL
    PROVE  HostByte(On(ds, c, d), b) = On(ds, c, Hear(c, d, b))
<1> DEFINE x == [ds EXCEPT ![c] = d]
           y == [x EXCEPT ![c] = Hear(c, d, b)]
<1>1. x[c] = d  OBVIOUS
<1>2. y = [ds EXCEPT ![c] = Hear(c, d, b)]  OBVIOUS
<1> HIDE DEF x
<1>3. HostByte(HostAt(c, x), b) = HostAt(c, [x EXCEPT ![c] = Hear(c, x[c], b)])
  BY DEF HostByte, HostAt, No
<1> QED  BY <1>1, <1>2, <1>3, Zenon DEF On, x, y

\* With no channel selected nothing is heard.
LEMMA HeardOff ==
    ASSUME NEW ds, NEW b, b # CHANNEL
    PROVE  HostByte(HostAt(NONE, ds), b) = HostAt(NONE, ds)
<1>1. NONE \notin Channels  BY SourceAssumption DEF Channels, NONE
<1> QED  BY <1>1 DEF HostByte, HostAt, No

\* The delimiters of a packet, and the escape.
LEMMA HearStart ==
    ASSUME NEW c \in Packetized, NEW i, NEW e, NEW x, NEW p, NEW ps
    PROVE  Hear(c, Dec(i, e, x, p, ps), SOP) = Dec(Yes, No, x, << >>, ps)
<1> DEFINE d == Dec(i, e, x, p, ps)
           d1 == [d EXCEPT !.inside = Yes]
           d2 == [d1 EXCEPT !.end = No]
           d3 == [d2 EXCEPT !.part = << >>]
<1>1. Hear(c, d, SOP) = d3
  <2>1. [d EXCEPT !.inside = TRUE, !.end = FALSE, !.part = << >>]
          = [d EXCEPT !.inside = Yes, !.end = No, !.part = << >>]
    <3> HIDE DEF d
    <3> QED  BY DEF Yes, No
  <2>2. [d EXCEPT !.inside = Yes, !.end = No, !.part = << >>] = d3
    <3> HIDE DEF d
    <3> QED  OBVIOUS
  <2> QED  BY <2>1, <2>2 DEF Hear, Decode, SOP, EOP, ESCAPE
<1>2. d1 = Dec(Yes, e, x, p, ps)  BY DEF Dec
<1> HIDE DEF d1
<1>3. d2 = Dec(Yes, No, x, p, ps)  BY <1>2 DEF Dec
<1> HIDE DEF d2
<1>4. d3 = Dec(Yes, No, x, << >>, ps)  BY <1>3 DEF Dec
<1> QED  BY <1>1, <1>4

LEMMA HearEnd ==
    ASSUME NEW c \in Packetized, NEW i, NEW e, NEW x, NEW p, NEW ps
    PROVE  Hear(c, Dec(i, e, x, p, ps), EOP) = Dec(i, Yes, x, p, ps)
<1> DEFINE d == Dec(i, e, x, p, ps)
<1>1. Hear(c, d, EOP) = [d EXCEPT !.end = Yes]
  <2> HIDE DEF d
  <2> QED  BY DEF Hear, Decode, SOP, EOP, ESCAPE, Yes
<1>2. [d EXCEPT !.end = Yes] = Dec(i, Yes, x, p, ps)  BY DEF Dec
<1> QED  BY <1>1, <1>2

LEMMA HearEscape ==
    ASSUME NEW c, NEW i, NEW e, NEW x, NEW p, NEW ps
    PROVE  Hear(c, Dec(i, e, x, p, ps), ESCAPE) = Dec(i, e, Yes, p, ps)
<1> DEFINE d == Dec(i, e, x, p, ps)
<1>1. Hear(c, d, ESCAPE) = [d EXCEPT !.esc = Yes]
  <2> HIDE DEF d
  <2> QED  BY DEF Hear, Decode, Undo, SOP, EOP, ESCAPE, Yes
<1>2. [d EXCEPT !.esc = Yes] = Dec(i, e, Yes, p, ps)  BY DEF Dec
<1> QED  BY <1>1, <1>2

\* A decoder that takes every byte for data: of a plain channel, or within a packet.
Hearing(c, i, e) ==
    IF c \in Packetized THEN i = Yes /\ e \in {Yes, No} ELSE i = No /\ e = No

\* It after the byte b of data.
After(c, e, p, ps, b) ==
    IF c \notin Packetized THEN Dec(No, No, No, Append(p, b), ps)
    ELSE IF e = Yes THEN Dec(No, No, No, << >>, Append(ps, Append(p, b)))
    ELSE Dec(Yes, No, No, Append(p, b), ps)

LEMMA HearByte ==
    ASSUME NEW c, NEW i, NEW e, Hearing(c, i, e), NEW x \in {Yes, No}, NEW p, NEW ps,
           NEW b \in Bytes \ {SOP, EOP, CHANNEL, ESCAPE}
    PROVE  Hear(c, Dec(i, e, x, p, ps), b)
             = After(c, e, p, ps, IF x = Yes THEN Xor20(b) ELSE b)
<1>b. b \in Int  BY DEF Bytes
<1> DEFINE v == IF x THEN Xor20(b) ELSE b
<1>v. v = IF x = Yes THEN Xor20(b) ELSE b  BY DEF Yes, No
<1>1. CASE c \notin Packetized
  <2>1. i = No /\ e = No  BY <1>1 DEF Hearing
  <2>2. Undo(Dec(FALSE, FALSE, x, p, ps), b) = Dec(FALSE, FALSE, FALSE, Append(p, v), ps)
    BY <1>b DEF Dec, Undo
  <2> HIDE DEF v
  <2>3. Undo(Dec(No, No, x, p, ps), b) = Dec(No, No, No, Append(p, v), ps)
    BY <2>2 DEF No
  <2> QED  BY <1>1, <1>v, <2>1, <2>3 DEF Hear, After
<1>2. CASE c \in Packetized /\ e = No
  <2>1. i = Yes /\ e # Yes  BY <1>2 DEF Hearing, Yes, No
  <2>2. Decode(Dec(TRUE, FALSE, x, p, ps), b) = Dec(TRUE, FALSE, FALSE, Append(p, v), ps)
    BY <1>b DEF Dec, Decode
  <2> HIDE DEF v
  <2>3. Decode(Dec(Yes, No, x, p, ps), b) = Dec(Yes, No, No, Append(p, v), ps)
    BY <2>2 DEF Yes, No
  <2> QED  BY <1>2, <1>v, <2>1, <2>3 DEF Hear, After
<1>3. CASE c \in Packetized /\ e = Yes
  <2>1. i = Yes  BY <1>3 DEF Hearing
  <2>2. Decode(Dec(TRUE, TRUE, x, p, ps), b)
          = Dec(FALSE, FALSE, FALSE, << >>, Append(ps, Append(p, v)))
    BY <1>b DEF Dec, Decode
  <2> HIDE DEF v
  <2>3. Decode(Dec(Yes, Yes, x, p, ps), b) = Dec(No, No, No, << >>, Append(ps, Append(p, v)))
    BY <2>2 DEF Yes, No
  <2> QED  BY <1>3, <1>v, <2>1, <2>3 DEF Hear, After
<1> QED  BY <1>1, <1>2, <1>3 DEF Hearing

LEMMA ByteRuns ==
    ASSUME NEW c \in Channels, NEW ds, DOMAIN ds = Channels, NEW b \in Bytes,
           NEW i, NEW e, Hearing(c, i, e), NEW p, NEW ps
    PROVE  Runs(On(ds, c, Dec(i, e, No, p, ps)), Escaped(b), On(ds, c, After(c, e, p, ps, b)))
<1> DEFINE h == On(ds, c, Dec(i, e, No, p, ps))
           h1 == On(ds, c, Dec(i, e, Yes, p, ps))
           h2 == On(ds, c, After(c, e, p, ps, b))
<1>1. CASE Escaped(b) = <<b>> /\ b \notin {SOP, EOP, CHANNEL, ESCAPE}
  <2>1. Hear(c, Dec(i, e, No, p, ps), b) = After(c, e, p, ps, b)
    <3>1. No # Yes  BY DEF Yes, No
    <3>2. Hear(c, Dec(i, e, No, p, ps), b)
            = After(c, e, p, ps, IF No = Yes THEN Xor20(b) ELSE b)
      BY <1>1, HearByte
    <3> QED  BY <3>1, <3>2
  <2>2. HostByte(h, b) = On(ds, c, Hear(c, Dec(i, e, No, p, ps), b))
    <3>1. b # CHANNEL  BY <1>1
    <3> QED  BY <3>1, HeardOn
  <2>3. HostByte(h, b) = h2  BY <2>1, <2>2, Zenon
  <2> QED  BY <1>1, <2>3, RunsOne, Zenon
<1>2. CASE /\ Escaped(b) = <<ESCAPE, Xor20(b)>> /\ Xor20(Xor20(b)) = b
           /\ Xor20(b) \in Bytes \ {SOP, EOP, CHANNEL, ESCAPE}
  <2> DEFINE x == Xor20(b)
  <2>1. x \in Bytes \ {SOP, EOP, CHANNEL, ESCAPE} /\ Xor20(x) = b  BY <1>2
  <2> HIDE DEF x
  <2>2. Hear(c, Dec(i, e, Yes, p, ps), x) = After(c, e, p, ps, b)
    <3>1. Hear(c, Dec(i, e, Yes, p, ps), x)
            = After(c, e, p, ps, IF Yes = Yes THEN Xor20(x) ELSE x)
      BY <2>1, HearByte
    <3> QED  BY <2>1, <3>1
  <2>3. ESCAPE # CHANNEL /\ ESCAPE \in Bytes /\ x # CHANNEL /\ x \in Bytes
    BY <2>1 DEF ESCAPE, CHANNEL, Bytes
  <2>4. HostByte(h, ESCAPE) = h1
    <3>1. HostByte(h, ESCAPE) = On(ds, c, Hear(c, Dec(i, e, No, p, ps), ESCAPE))
      BY <2>3, HeardOn
    <3>2. Hear(c, Dec(i, e, No, p, ps), ESCAPE) = Dec(i, e, Yes, p, ps)
      BY HearEscape
    <3> QED  BY <3>1, <3>2, Zenon
  <2>5. HostByte(h1, x) = h2
    <3>1. HostByte(h1, x) = On(ds, c, Hear(c, Dec(i, e, Yes, p, ps), x))
      BY <2>3, HeardOn
    <3> QED  BY <2>2, <3>1, Zenon
  <2> HIDE DEF h, h1, h2
  <2>6. Runs(h, <<ESCAPE, x>>, HostByte(HostByte(h, ESCAPE), x))  BY <2>3, RunsTwo
  <2> QED  BY <1>2, <2>4, <2>5, <2>6, Zenon DEF x, h, h2
<1> QED  BY <1>1, <1>2, EscapedIs

\* The bytes of a call between its prefix and its end: none of them is a channel
\* prefix.
LEMMA SilentRuns ==
    ASSUME NEW s \in Seq(Bytes), \A i \in 1..Len(s) : s[i] # CHANNEL, NEW ds
    PROVE  Runs(HostAt(NONE, ds), s, HostAt(NONE, ds))
<1> DEFINE f == [i \in 0..Len(s) |-> HostAt(NONE, ds)]
<1>1. /\ Len(s) \in 0..Len(s) /\ 0 \in 0..Len(s)
      /\ \A i \in 1..Len(s) : i \in 0..Len(s) /\ i - 1 \in 0..Len(s)
  OBVIOUS
<1>2. \A i \in 0..Len(s) : f[i] = HostAt(NONE, ds)  OBVIOUS
<1> HIDE DEF f
<1>3. \A i \in 1..Len(s) : HostByte(HostAt(NONE, ds), s[i]) = HostAt(NONE, ds)  BY HeardOff
<1>4. \A i \in 1..Len(s) : f[i] = HostByte(f[i - 1], s[i])  BY <1>1, <1>2, <1>3, Zenon
<1> QED  BY <1>1, <1>2, <1>4, Zenon DEF Runs

------------------------------------------------------------------------------
(* What a call still owes the host.                                        *)

\* d: the decoder of the channel c when the call's buffer is written, p: the
\* call's packetize, r: the data not yet in the buffer, e: what the host should
\* have of the channel when all of it is.
Owes(c, p, r, d, e) ==
    \/ /\ c \in Plain /\ p = 0
       /\ \E m \in Seq(Bytes) : d = Rested(c, m) /\ e = m \o r
    \/ c \in Packetized /\ r = << >> /\ d = Rested(c, e)
    \/ /\ c \in Packetized /\ r # << >> /\ p = 1
       /\ \E ps : d = Rested(c, ps) /\ e = Append(ps, r)
    \/ /\ c \in Packetized /\ r # << >> /\ p = -1
       /\ \E ps : \E part \in Seq(Bytes) :
            d = Within(ps, part, No) /\ e = Append(ps, part \o r)

\* What Fill adds to the buffer for the next byte of data.
Next1(p, r) == (IF p > 0 THEN <<SOP>> ELSE << >>) \o Framed(p, Len(r), Head(r))

\* A byte moved from what is left to what is decoded.
LEMMA MoveByte ==
    ASSUME NEW m \in Seq(Bytes), NEW r \in Seq(Bytes), r # << >>
    PROVE  /\ Head(r) \in Bytes /\ Tail(r) \in Seq(Bytes)
           /\ Append(m, Head(r)) \in Seq(Bytes)
           /\ Append(m, Head(r)) \o Tail(r) = m \o r
           /\ Tail(r) = << >> <=> Len(r) = 1
           /\ Tail(r) = << >> => Append(m, Head(r)) = m \o r
<1>1. Head(r) \in Bytes /\ Tail(r) \in Seq(Bytes) /\ Append(m, Head(r)) \in Seq(Bytes)
  OBVIOUS
<1>2. Append(m, Head(r)) \o Tail(r) = m \o r
  <2> DEFINE a == Append(m, Head(r)) \o Tail(r)
             b == m \o r
  <2>1. a \in Seq(Bytes) /\ b \in Seq(Bytes) /\ Len(a) = Len(b)  BY <1>1
  <2>2. \A i \in 1..Len(a) : a[i] = b[i]  BY <1>1
  <2> HIDE DEF a, b
  <2>3. a = b  BY <2>1, <2>2, SeqEqual
  <2> QED  BY <2>3 DEF a, b
<1>3. Tail(r) = << >> <=> Len(r) = 1
  <2>1. Len(Tail(r)) = Len(r) - 1 /\ Len(r) \in Nat  OBVIOUS
  <2>2. Len(Tail(r)) = 0 <=> Len(r) = 1  BY <2>1
  <2>3. Tail(r) = << >> <=> Len(Tail(r)) = 0  BY <1>1, EmptySeq
  <2> QED  BY <2>2, <2>3, Zenon
<1>4. Tail(r) = << >> => Append(m, Head(r)) = m \o r
  <2>1. Append(m, Head(r)) \o << >> = Append(m, Head(r))  BY <1>1, ConcatEmptySeq
  <2> QED  BY <1>2, <2>1
<1> QED  BY <1>1, <1>2, <1>3, <1>4

\* The framed byte, within a packet.
LEMMA WithinRuns ==
    ASSUME NEW c \in Packetized, NEW ds, DOMAIN ds = Channels, NEW ps, NEW e,
           NEW part \in Seq(Bytes), NEW r \in Seq(Bytes), r # << >>, NEW p \in {-1, 1},
           e = Append(ps, part \o r)
    PROVE  \E d2 : /\ Runs(On(ds, c, Within(ps, part, No)), Framed(p, Len(r), Head(r)),
                           On(ds, c, d2))
                   /\ Owes(c, -1, Tail(r), d2, e)
<1> DEFINE b == Head(r)
           m == Append(part, b)
<1>1. /\ b \in Bytes /\ Tail(r) \in Seq(Bytes) /\ m \in Seq(Bytes) /\ m \o Tail(r) = part \o r
      /\ Tail(r) = << >> <=> Len(r) = 1
      /\ Tail(r) = << >> => m = part \o r
  BY MoveByte
<1> HIDE DEF b
<1>2. Escaped(b) \in Seq(Bytes)  BY <1>1, EscapedBytes DEF Bytes
<1>c. c \in Channels  BY DEF Channels
<1>3. CASE Len(r) = 1
  <2> DEFINE d2 == Rested(c, Append(ps, m))
  <2>1. HostByte(On(ds, c, Within(ps, part, No)), EOP) = On(ds, c, Within(ps, part, Yes))
    <3>1. EOP # CHANNEL  BY DEF EOP, CHANNEL
    <3>2. HostByte(On(ds, c, Within(ps, part, No)), EOP)
            = On(ds, c, Hear(c, Within(ps, part, No), EOP))
      BY <1>c, <3>1, HeardOn
    <3>3. Hear(c, Within(ps, part, No), EOP) = Within(ps, part, Yes)
      BY HearEnd DEF Within
    <3> QED  BY <3>2, <3>3, Zenon
  <2>2. Hearing(c, Yes, Yes) /\ After(c, Yes, part, ps, b) = d2
    BY DEF Hearing, After, Rested
  <2>3. Runs(On(ds, c, Within(ps, part, Yes)), Escaped(b), On(ds, c, d2))
    BY <1>1, <1>c, <2>2, ByteRuns, Zenon DEF Within
  <2>4. Runs(On(ds, c, Within(ps, part, No)), <<EOP>>, On(ds, c, Within(ps, part, Yes)))
    BY <2>1, RunsOne
  <2>5. <<EOP>> \in Seq(Bytes)  BY DEF EOP, Bytes
  <2>6. Framed(p, Len(r), b) = <<EOP>> \o Escaped(b)
    <3>1. p # 0  OBVIOUS
    <3> QED  BY <1>3, <3>1 DEF Framed
  <2>7. Runs(On(ds, c, Within(ps, part, No)), <<EOP>> \o Escaped(b), On(ds, c, d2))
    <3> HIDE DEF d2
    <3> QED  BY <1>2, <2>3, <2>4, <2>5, RunsConcat, Zenon
  <2>8. Owes(c, -1, Tail(r), d2, e)  BY <1>1, <1>3 DEF Owes
  <2> HIDE DEF d2
  <2> QED  BY <2>6, <2>7, <2>8, Zenon DEF b
<1>4. CASE Len(r) # 1
  <2> DEFINE d2 == Within(ps, m, No)
  <2>1. Hearing(c, Yes, No) /\ After(c, No, part, ps, b) = d2
    <3>1. No # Yes  BY DEF Yes, No
    <3> QED  BY <3>1 DEF Hearing, After, Within
  <2>2. Runs(On(ds, c, Within(ps, part, No)), Escaped(b), On(ds, c, d2))
    BY <1>1, <1>c, <2>1, ByteRuns, Zenon DEF Within
  <2>3. Framed(p, Len(r), b) = Escaped(b)
    <3>1. Framed(p, Len(r), b) = << >> \o Escaped(b)  BY <1>4, Zenon DEF Framed
    <3> QED  BY <1>2, <3>1
  <2>4. Owes(c, -1, Tail(r), d2, e)
    <3>1. Tail(r) # << >> /\ e = Append(ps, m \o Tail(r))  BY <1>1, <1>4
    <3> HIDE DEF m
    <3>2. d2 = Within(ps, m, No) /\ m \in Seq(Bytes)  BY <1>1
    <3> HIDE DEF d2
    <3> QED  BY <3>1, <3>2, Zenon DEF Owes
  <2> HIDE DEF d2
  <2> QED  BY <2>2, <2>3, <2>4, Zenon DEF b
<1> QED  BY <1>3, <1>4

\* A byte of data takes the host one byte further.
LEMMA FillRuns ==
    ASSUME NEW c \in Channels, NEW ds, DOMAIN ds = Channels, NEW d, NEW e,
           NEW p, NEW r \in Seq(Bytes), r # << >>, Owes(c, p, r, d, e)
    PROVE  \E d2 : /\ Runs(On(ds, c, d), Next1(p, r), On(ds, c, d2))
                   /\ Owes(c, IF p > 0 THEN -1 ELSE p, Tail(r), d2, e)
<1>b. Head(r) \in Bytes  OBVIOUS
<1>f. Framed(p, Len(r), Head(r)) \in Seq(Bytes)  BY <1>b, FramedBytes DEF Bytes
<1>1. CASE c \in Plain /\ p = 0 /\ \E m \in Seq(Bytes) : d = Rested(c, m) /\ e = m \o r
  <2>1. PICK m \in Seq(Bytes) : d = Rested(c, m) /\ e = m \o r  BY <1>1
  <2> DEFINE d2 == Rested(c, Append(m, Head(r)))
  <2>2. c \notin Packetized  BY <1>1, SourceAssumption
  <2>3. /\ Hearing(c, No, No) /\ After(c, No, m, << >>, Head(r)) = d2
        /\ d = Dec(No, No, No, m, << >>)
    BY <2>1, <2>2 DEF Hearing, After, Rested
  <2>4. Runs(On(ds, c, d), Escaped(Head(r)), On(ds, c, d2))
    BY <1>b, <2>3, ByteRuns, Zenon
  <2>5. Next1(p, r) = Escaped(Head(r))
    <3>1. Escaped(Head(r)) \in Seq(Bytes)  BY <1>b, EscapedBytes DEF Bytes
    <3>2. Framed(p, Len(r), Head(r)) = << >> \o Escaped(Head(r))  BY <1>1 DEF Framed
    <3>3. Next1(p, r) = << >> \o Framed(p, Len(r), Head(r))  BY <1>1 DEF Next1
    <3> QED  BY <3>1, <3>2, <3>3
  <2>6. Owes(c, p, Tail(r), d2, e)
    <3>1. Append(m, Head(r)) \in Seq(Bytes) /\ e = Append(m, Head(r)) \o Tail(r)
      BY <2>1, MoveByte
    <3> QED  BY <1>1, <3>1, Zenon DEF Owes
  <2> HIDE DEF d2
  <2> QED  BY <1>1, <2>4, <2>5, <2>6
<1>2. CASE c \in Packetized /\ p = 1 /\ \E ps : d = Rested(c, ps) /\ e = Append(ps, r)
  <2>1. PICK ps : d = Rested(c, ps) /\ e = Append(ps, r)  BY <1>2
  <2>2. << >> \in Seq(Bytes) /\ << >> \o r = r /\ p \in {-1, 1}  BY <1>2, ConcatEmptySeq
  <2>3. HostByte(On(ds, c, d), SOP) = On(ds, c, Within(ps, << >>, No))
    <3>1. SOP # CHANNEL  BY DEF SOP, CHANNEL
    <3>2. c \in Packetized /\ d = Dec(No, No, No, << >>, ps)
      BY <1>2, <2>1, Zenon DEF Rested
    <3>3. HostByte(On(ds, c, d), SOP) = On(ds, c, Hear(c, d, SOP))
      BY <3>1, HeardOn
    <3>4. Hear(c, d, SOP) = Within(ps, << >>, No)
      BY <3>2, HearStart DEF Within
    <3> QED  BY <3>3, <3>4, Zenon
  <2>4. Runs(On(ds, c, d), <<SOP>>, On(ds, c, Within(ps, << >>, No)))
    BY <2>3, RunsOne
  <2>5. PICK d2 : /\ Runs(On(ds, c, Within(ps, << >>, No)), Framed(p, Len(r), Head(r)),
                          On(ds, c, d2))
                  /\ Owes(c, -1, Tail(r), d2, e)
    BY <1>2, <2>1, <2>2, WithinRuns
  <2>6. <<SOP>> \in Seq(Bytes)  BY DEF SOP, Bytes
  <2>7. Next1(p, r) = <<SOP>> \o Framed(p, Len(r), Head(r))  BY <1>2 DEF Next1
  <2>8. Runs(On(ds, c, d), Next1(p, r), On(ds, c, d2))
    BY <1>f, <2>4, <2>5, <2>6, <2>7, RunsConcat, Zenon
  <2> QED  BY <1>2, <2>5, <2>8
<1>3. CASE /\ c \in Packetized /\ p = -1
           /\ \E ps : \E part \in Seq(Bytes) :
                d = Within(ps, part, No) /\ e = Append(ps, part \o r)
  <2>1. PICK ps : \E part \in Seq(Bytes) :
                    d = Within(ps, part, No) /\ e = Append(ps, part \o r)
    BY <1>3
  <2>2. PICK part \in Seq(Bytes) : d = Within(ps, part, No) /\ e = Append(ps, part \o r)
    BY <2>1
  <2>3. PICK d2 : /\ Runs(On(ds, c, d), Framed(p, Len(r), Head(r)), On(ds, c, d2))
                  /\ Owes(c, -1, Tail(r), d2, e)
    BY <1>3, <2>2, WithinRuns
  <2>4. Next1(p, r) = Framed(p, Len(r), Head(r))
    <3>1. Next1(p, r) = << >> \o Framed(p, Len(r), Head(r))  BY <1>3 DEF Next1
    <3> QED  BY <1>f, <3>1
  <2> QED  BY <1>3, <2>3, <2>4
<1> QED  BY <1>1, <1>2, <1>3 DEF Owes
------------------------------------------------------------------------------
(* The host and the call that has the lock agree.                          *)

Busy(t) == pc[t] \in {"write", "fill"}
AllRested == [c \in Channels |-> Rested(c, expected[c])]

\* What the host is to be when the buffer of t is written: it does not hear t's
\* channel, or has of it what t does not owe.
Promise(t, h) ==
    \/ h = HostAt(NONE, AllRested)
    \/ \E d : /\ h = On(AllRested, channel[t], d)
              /\ Owes(channel[t], packetize[t], rest[t], d, expected[channel[t]])

Agrees ==
    /\ (\A t \in Threads : ~ Busy(t)) =>
          \E s \in {source_channel_number, NONE} : host = HostAt(s, AllRested)
    /\ \A t \in Threads : Busy(t) => \E h : Runs(host, out[t], h) /\ Promise(t, h)
    /\ \A t \in Threads : pc[t] = "fill" => source_channel_number = channel[t]
    /\ \A t \in Threads : pc[t] \in {"lock", "prefix"} =>
          packetize[t] = IF channel[t] \in Packetized THEN 1 ELSE 0

\* Expectations are of bytes, or of packets.
Expects ==
    /\ expected = [c \in Channels |-> expected[c]]
    /\ \A c \in Plain : expected[c] \in Seq(Bytes)

HInv == IInv /\ Expects /\ Agrees

\* While a thread has the lock, the others are outside.
LEMMA Others ==
    ASSUME HInv, NEW t \in Threads, Inside(t), Only(t)
    PROVE  \A u \in Threads \ {t} :
              ~ Busy(u) /\ ~ Busy(u)' /\ pc'[u] = pc[u] /\ pc'[u] # "fill"
BY DEF HInv, IInv, OneAtATime, Inside, Only, Busy

\* A step of the thread that has the lock, and keeps it.
LEMMA BusyStep ==
    ASSUME HInv, NEW t \in Threads, Inside(t), Only(t), Busy(t)',
           \E h : Runs(host', out'[t], h) /\ Promise(t, h)',
           pc'[t] = "fill" => source_channel_number' = channel'[t]
    PROVE  Agrees'
<1>1. \A u \in Threads \ {t} : ~ Busy(u)' /\ pc'[u] = pc[u] /\ pc'[u] # "fill"  BY Others
<1>2. \A u \in Threads : Busy(u)' => \E h : Runs(host', out'[u], h) /\ Promise(u, h)'
  BY <1>1
<1>3. \A u \in Threads : pc'[u] = "fill" => source_channel_number' = channel'[u]
  BY <1>1
<1>4. \A u \in Threads : pc'[u] \in {"lock", "prefix"} =>
          packetize'[u] = IF channel'[u] \in Packetized THEN 1 ELSE 0
  BY <1>1 DEF HInv, Agrees, Only, Busy
<1> QED  BY <1>2, <1>3, <1>4 DEF Agrees

\* When nobody is writing, the host is at rest.
LEMMA AtRest ==
    ASSUME HInv, \A t \in Threads : ~ Busy(t)
    PROVE  \E s \in {source_channel_number, NONE} : host = HostAt(s, AllRested)
BY DEF HInv, Agrees

\* The decoder at rest owes the whole of a call's data.
LEMMA OwesAll ==
    ASSUME NEW c \in Channels, NEW e, c \in Plain => e \in Seq(Bytes), NEW r \in Seq(Bytes),
           NEW p, p = IF c \in Packetized THEN 1 ELSE 0
    PROVE  Owes(c, p, r, Rested(c, e),
                IF r = << >> THEN e ELSE IF c \in Packetized THEN Append(e, r) ELSE e \o r)
<1>1. CASE c \in Packetized
  BY <1>1 DEF Owes
<1>2. CASE c \notin Packetized
  <2>1. c \in Plain /\ p = 0 /\ e \in Seq(Bytes)  BY <1>2 DEF Channels
  <2>2. e \o << >> = e  BY <2>1, ConcatEmptySeq
  <2>3. \E m \in Seq(Bytes) : /\ Rested(c, e) = Rested(c, m)
                              /\ (IF r = << >> THEN e ELSE e \o r) = m \o r
    BY <2>1, <2>2
  <2> QED  BY <1>2, <2>1, <2>3 DEF Owes
<1> QED  BY <1>1, <1>2

\* And a call that owes no more leaves it at rest.
LEMMA OwesNone ==
    ASSUME NEW c, NEW p, NEW d, NEW e, Owes(c, p, << >>, d, e)
    PROVE  d = Rested(c, e)
<1>1. ASSUME NEW m \in Seq(Bytes) PROVE m \o << >> = m  BY ConcatEmptySeq
<1> QED  BY <1>1 DEF Owes

\* The host with channel c selected and at rest, when t has just said what is
\* meant for c.
LEMMA PromiseMade ==
    ASSUME HInv, NEW t \in Threads, channel[t] \in Channels, pc[t] = "prefix",
           expected' = Meant(t, TRUE), UNCHANGED <<channel, packetize, rest>>
    PROVE  (\A h : h = HostAt(channel[t], AllRested) => Promise(t, h)') /\ Expects'
<1> DEFINE c == channel[t]
           r == rest[t]
           e == expected[c]
           d == Rested(c, e)
           e2 == IF r = << >> THEN e ELSE IF c \in Packetized THEN Append(e, r) ELSE e \o r
<1>1. /\ r \in Seq(Bytes) /\ expected = [x \in Channels |-> expected[x]]
      /\ packetize[t] = IF c \in Packetized THEN 1 ELSE 0
  BY DEF HInv, IInv, Types, Expects, Agrees, Bytes
<1>2. c \in Plain => e \in Seq(Bytes)  BY DEF HInv, Expects
<1>3. Owes(c, packetize[t], r, d, e2)
  <2> HIDE DEF c, r, e
  <2> QED  BY <1>1, <1>2, OwesAll DEF c
<1>4. expected' = [expected EXCEPT ![c] = e2]
  <2>1. CASE r = << >>
    <3>1. expected = [expected EXCEPT ![c] = expected[c]]  BY <1>1
    <3> QED  BY <2>1, <3>1 DEF Meant
  <2>2. CASE r # << >>
    BY <2>2 DEF Meant
  <2> QED  BY <2>1, <2>2
<1> HIDE DEF e2
<1>5. /\ expected' = [x \in Channels |-> expected'[x]] /\ expected'[c] = e2
      /\ \A x \in Channels \ {c} : expected'[x] = expected[x]
  BY <1>1, <1>4
<1>6. HostAt(c, AllRested) = On(AllRested', c, d)
  <2>1. AllRested = [AllRested' EXCEPT ![c] = d]  BY <1>5 DEF AllRested
  <2> QED  BY <2>1 DEF On
<1>7. ASSUME NEW h, h = HostAt(channel[t], AllRested) PROVE Promise(t, h)'
  <2>1. \E x : /\ h = On(AllRested', channel'[t], x)
               /\ Owes(channel'[t], packetize'[t], rest'[t], x, expected'[channel'[t]])
    <3> HIDE DEF d
    <3> QED  BY <1>3, <1>5, <1>6, <1>7
  <2> QED  BY <2>1 DEF Promise
<1>8. Expects'
  <2>1. c \in Plain => e2 \in Seq(Bytes)
    BY <1>1, <1>2, SourceAssumption DEF e2
  <2> QED  BY <1>5, <2>1 DEF HInv, Expects, Channels
<1> QED  BY <1>7, <1>8

------------------------------------------------------------------------------
(* Each step keeps the agreement.                                          *)

LEMMA CallAgrees ==
    ASSUME HInv, NEW t \in Threads, NEW c \in Channels, NEW data \in SeqOf(Data, MaxLen),
           NEW r \in BOOLEAN, Call(t, c, data, r)
    PROVE  Expects' /\ Agrees'
<1>1. /\ pc[t] = "idle" /\ pc' = [pc EXCEPT ![t] = "lock"]
      /\ channel' = [channel EXCEPT ![t] = c]
      /\ packetize' = [packetize EXCEPT ![t] = IF c \in Packetized THEN 1 ELSE 0]
      /\ UNCHANGED <<source_channel_number, out, host, expected>>
  BY DEF Call, Goto
<1>2. /\ \A u \in Threads \ {t} : pc'[u] = pc[u] /\ channel'[u] = channel[u]
                                 /\ packetize'[u] = packetize[u] /\ rest'[u] = rest[u]
      /\ pc'[t] = "lock" /\ channel'[t] = c
      /\ packetize'[t] = IF c \in Packetized THEN 1 ELSE 0
  BY <1>1 DEF HInv, IInv, Types, Call
<1>3. \A u \in Threads : Busy(u)' = Busy(u)  BY <1>1, <1>2 DEF Busy
<1>4. ASSUME NEW u \in Threads, Busy(u) PROVE \E h : Runs(host', out'[u], h) /\ Promise(u, h)'
  <2>1. u # t  BY <1>1, <1>4 DEF Busy
  <2>2. PICK h : Runs(host, out[u], h) /\ Promise(u, h)  BY <1>4 DEF HInv, Agrees
  <2>3. Promise(u, h)'  BY <1>1, <1>2, <2>1, <2>2 DEF Promise, AllRested
  <2> QED  BY <1>1, <2>2, <2>3
<1>5. AllRested' = AllRested /\ Expects'  BY <1>1 DEF HInv, Expects, AllRested
<1>6. (\A u \in Threads : ~ Busy(u))' =>
          \E s \in {source_channel_number', NONE} : host' = HostAt(s, AllRested')
  BY <1>1, <1>3, <1>5, AtRest
<1> QED  BY <1>1, <1>2, <1>3, <1>4, <1>5, <1>6 DEF HInv, Agrees, Busy

LEMMA LockAgrees ==
    ASSUME HInv, NEW t \in Threads, Lock(t)
    PROVE  Expects' /\ Agrees'
<1>1. /\ pc[t] = "lock" /\ pc' = [pc EXCEPT ![t] = "prefix"]
      /\ UNCHANGED <<source_channel_number, channel, rest, packetize, out, host, expected>>
  BY DEF Lock, Goto
<1>2. pc'[t] = "prefix" /\ \A u \in Threads \ {t} : pc'[u] = pc[u]
  BY <1>1 DEF HInv, IInv, Types
<1>3. \A u \in Threads : Busy(u)' = Busy(u)  BY <1>1, <1>2 DEF Busy
<1>4. ASSUME NEW u \in Threads, Busy(u) PROVE \E h : Runs(host', out'[u], h) /\ Promise(u, h)'
  <2>1. PICK h : Runs(host, out[u], h) /\ Promise(u, h)  BY <1>4 DEF HInv, Agrees
  <2>2. Promise(u, h)'  BY <1>1, <2>1 DEF Promise, AllRested
  <2> QED  BY <1>1, <2>1, <2>2
<1>5. AllRested' = AllRested /\ Expects'  BY <1>1 DEF HInv, Expects, AllRested
<1>6. (\A u \in Threads : ~ Busy(u))' =>
          \E s \in {source_channel_number', NONE} : host' = HostAt(s, AllRested')
  BY <1>1, <1>3, <1>5, AtRest
<1> QED  BY <1>1, <1>2, <1>3, <1>4, <1>5, <1>6 DEF HInv, Agrees, Busy

\* The thread in the "prefix" step has the lock, and nobody writes.
LEMMA AtPrefix ==
    ASSUME HInv, NEW t \in Threads, pc[t] = "prefix"
    PROVE  /\ Inside(t) /\ channel[t] \in Channels /\ channel[t] \in Bytes /\ out[t] = << >>
           /\ \E s \in {source_channel_number, NONE} : host = HostAt(s, AllRested)
<1>1. Inside(t) /\ channel[t] \in Channels /\ out[t] = << >>
  BY DEF HInv, IInv, OneAtATime, Inside
<1>2. \A u \in Threads : ~ Busy(u)
  BY <1>1 DEF HInv, IInv, OneAtATime, Inside, Busy
<1>3. channel[t] \in Bytes  BY <1>1, SourceAssumption DEF Channels, Bytes
<1> QED  BY <1>1, <1>2, <1>3, AtRest

LEMMA SendPrefixAgrees ==
    ASSUME HInv, NEW t \in Threads, SendPrefix(t)
    PROVE  Expects' /\ Agrees'
<1>1. /\ pc[t] = "prefix" /\ pc'[t] = "write" /\ Only(t)
      /\ out'[t] = SelectChannel(channel[t]) /\ expected' = Meant(t, TRUE)
      /\ UNCHANGED <<channel, packetize, rest, host>>
  BY DEF HInv, IInv, Types, SendPrefix, Goto, Only
<1>2. Inside(t) /\ channel[t] \in Channels /\ channel[t] \in Bytes  BY <1>1, AtPrefix
<1>3. PICK s \in {source_channel_number, NONE} : host = HostAt(s, AllRested)
  BY <1>1, AtPrefix
<1>4. PICK h : h = HostAt(channel[t], AllRested)  OBVIOUS
<1>5. Promise(t, h)' /\ Expects'  BY <1>1, <1>2, <1>4, PromiseMade
<1>6. Runs(host', out'[t], h)
  <2>1. Runs(HostAt(s, AllRested), SelectChannel(channel[t]), HostAt(channel[t], AllRested))
    BY <1>2, SelectRuns
  <2> QED  BY <1>1, <1>3, <1>4, <2>1
<1>7. Busy(t)' /\ pc'[t] # "fill"  BY <1>1 DEF Busy
<1>8. \E x : Runs(host', out'[t], x) /\ Promise(t, x)'  BY <1>5, <1>6
<1> QED  BY <1>1, <1>2, <1>5, <1>7, <1>8, BusyStep

LEMMA NoPrefixAgrees ==
    ASSUME HInv, NEW t \in Threads, NoPrefix(t)
    PROVE  Expects' /\ Agrees'
<1>1. /\ pc[t] = "prefix" /\ pc'[t] = "fill" /\ Only(t)
      /\ channel[t] = source_channel_number /\ expected' = Meant(t, InStep)
      /\ UNCHANGED <<source_channel_number, channel, packetize, rest, out, host>>
  BY DEF HInv, IInv, Types, NoPrefix, NeedsPrefix, Goto, Only
<1>2. Inside(t) /\ channel[t] \in Channels /\ out[t] = << >>  BY <1>1, AtPrefix
<1>3. PICK s \in {source_channel_number, NONE} : host = HostAt(s, AllRested)
  BY <1>1, AtPrefix
<1>4. Runs(host', out'[t], host)  BY <1>1, <1>2, RunsEmpty
<1>5. Busy(t)' /\ source_channel_number' = channel'[t]  BY <1>1 DEF Busy
<1>6. host.selected = s  BY <1>3 DEF HostAt
<1>7. CASE InStep
  <2>1. host = HostAt(channel[t], AllRested) /\ expected' = Meant(t, TRUE)
    BY <1>1, <1>3, <1>6, <1>7 DEF InStep, Meant
  <2>2. PICK h : h = HostAt(channel[t], AllRested)  OBVIOUS
  <2>3. Promise(t, h)' /\ Expects'  BY <1>1, <1>2, <2>1, <2>2, PromiseMade
  <2>4. \E x : Runs(host', out'[t], x) /\ Promise(t, x)'  BY <1>4, <2>1, <2>2, <2>3
  <2> QED  BY <1>1, <1>2, <1>5, <2>3, <2>4, BusyStep
<1>8. CASE ~ InStep
  <2>1. host = HostAt(NONE, AllRested) /\ expected' = expected
    BY <1>1, <1>3, <1>6, <1>8 DEF InStep, Meant
  <2>2. Expects' /\ AllRested' = AllRested  BY <2>1 DEF HInv, Expects, AllRested
  <2>3. PICK h : h = host  OBVIOUS
  <2>4. Promise(t, h)'  BY <2>1, <2>2, <2>3 DEF Promise
  <2>5. \E x : Runs(host', out'[t], x) /\ Promise(t, x)'  BY <1>4, <2>3, <2>4
  <2> QED  BY <1>1, <1>2, <1>5, <2>2, <2>5, BusyStep
<1> QED  BY <1>7, <1>8

\* A step that leaves the promise as it is.
LEMMA PromiseKept ==
    ASSUME HInv, NEW t \in Threads, UNCHANGED <<channel, packetize, rest, expected>>
    PROVE  /\ Expects'
           /\ \A h : Promise(t, h)' = Promise(t, h)
BY DEF HInv, Expects, Promise, AllRested

LEMMA WriteAgrees ==
    ASSUME HInv, NEW t \in Threads, Write(t)
    PROVE  Expects' /\ Agrees'
<1>1. /\ pc'[t] = "write" /\ pc[t] = "write" /\ Only(t)
      /\ out[t] # << >> /\ out'[t] = Tail(out[t]) /\ host' = HostByte(host, Head(out[t]))
      /\ UNCHANGED <<channel, packetize, rest, expected>>
  BY DEF HInv, IInv, Types, Write, Only
<1>2. Inside(t) /\ Busy(t) /\ Busy(t)' /\ out[t] \in Seq(Bytes)
  BY <1>1 DEF HInv, IInv, Types, Inside, Busy, Bytes
<1>3. PICK h : Runs(host, out[t], h) /\ Promise(t, h)  BY <1>2 DEF HInv, Agrees
<1>4. Runs(host', out'[t], h)  BY <1>1, <1>2, <1>3, RunsHead
<1>5. Expects' /\ Promise(t, h)'  BY <1>1, <1>3, PromiseKept
<1>6. \E x : Runs(host', out'[t], x) /\ Promise(t, x)'  BY <1>4, <1>5
<1> QED  BY <1>1, <1>2, <1>5, <1>6, BusyStep

LEMMA WrittenAgrees ==
    ASSUME HInv, NEW t \in Threads, Written(t) \/ Flush(t)
    PROVE  Expects' /\ Agrees'
<1>1. /\ Busy(t) /\ Only(t) /\ Busy(t)' /\ Inside(t)
      /\ UNCHANGED <<channel, packetize, rest, expected, out, host>>
      /\ pc'[t] = "fill" => source_channel_number' = channel'[t]
  BY DEF HInv, IInv, Types, Written, Flush, Goto, Only, Busy, Inside
<1>2. PICK h : Runs(host, out[t], h) /\ Promise(t, h)  BY <1>1 DEF HInv, Agrees
<1>3. Expects' /\ Promise(t, h)'  BY <1>1, <1>2, PromiseKept
<1>4. \E x : Runs(host', out'[t], x) /\ Promise(t, x)'  BY <1>1, <1>2, <1>3
<1> QED  BY <1>1, <1>3, <1>4, BusyStep

\* None of the bytes of a call's data is a channel prefix.
LEMMA SilentBytes ==
    ASSUME NEW p, NEW r \in Seq(Bytes), r # << >>
    PROVE  Next1(p, r) \in Seq(Bytes \ {CHANNEL})
<1> DEFINE S == Bytes \ {CHANNEL}
<1>h. Head(r) \in Bytes  OBVIOUS
<1>1. SOP \in S /\ EOP \in S /\ ESCAPE \in S  BY DEF Bytes, SOP, EOP, ESCAPE, CHANNEL
<1>2. Escaped(Head(r)) \in Seq(S)
  <2>1. CASE Escaped(Head(r)) = <<Head(r)>> /\ Head(r) \notin {SOP, EOP, CHANNEL, ESCAPE}
    <3>1. Head(r) \in S  BY <1>h, <2>1
    <3> HIDE DEF S
    <3>2. <<Head(r)>> \in Seq(S)  BY <3>1
    <3> QED  BY <2>1, <3>2, Zenon
  <2>2. CASE /\ Escaped(Head(r)) = <<ESCAPE, Xor20(Head(r))>>
             /\ Xor20(Head(r)) \in Bytes \ {SOP, EOP, CHANNEL, ESCAPE}
    <3>1. Xor20(Head(r)) \in S  BY <2>2
    <3> HIDE DEF S
    <3>2. <<ESCAPE, Xor20(Head(r))>> \in Seq(S)  BY <1>1, <3>1
    <3> QED  BY <2>2, <3>2, Zenon
  <2> QED  BY <1>h, <2>1, <2>2, EscapedIs
<1> HIDE DEF S
<1>3. <<SOP>> \in Seq(S) /\ <<EOP>> \in Seq(S) /\ << >> \in Seq(S)  BY <1>1
<1>4. Framed(p, Len(r), Head(r)) \in Seq(S)
  BY <1>2, <1>3, ConcatProperties DEF Framed
<1>5. Next1(p, r) \in Seq(S)  BY <1>3, <1>4, ConcatProperties DEF Next1
<1> QED  BY <1>5 DEF S

LEMMA FillAgrees ==
    ASSUME HInv, NEW t \in Threads, Fill(t)
    PROVE  Expects' /\ Agrees'
<1> DEFINE p == packetize[t]
           r == rest[t]
           c == channel[t]
<1>1. /\ pc[t] = "fill" /\ pc'[t] = "fill" /\ Only(t) /\ r # << >>
      /\ packetize'[t] = (IF p > 0 THEN -1 ELSE p) /\ rest'[t] = Tail(r)
      /\ UNCHANGED <<source_channel_number, channel, expected, host>>
  BY DEF HInv, IInv, Types, Fill, Only
<1>2. /\ Inside(t) /\ Busy(t) /\ Busy(t)' /\ out[t] \in Seq(Bytes) /\ r \in Seq(Bytes)
      /\ c \in Channels /\ source_channel_number' = channel'[t]
  BY <1>1 DEF HInv, IInv, Types, OneAtATime, Agrees, Inside, Busy, Bytes
<1>s. Next1(p, r) \in Seq(Bytes \ {CHANNEL})  BY <1>1, <1>2, SilentBytes
<1>n. Next1(p, r) \in Seq(Bytes)
  <2>1. \A s \in Seq(Bytes \ {CHANNEL}) : s \in Seq(Bytes)  OBVIOUS
  <2> QED  BY <1>s, <2>1
<1>3. out'[t] = out[t] \o Next1(p, r)
  <2> DEFINE f == Framed(p, Len(r), Head(r))
  <2>1. out'[t] = (IF p > 0 THEN <<SOP>> ELSE out[t]) \o f  BY DEF HInv, IInv, Types, Fill
  <2>2. f \in Seq(Bytes)
    <3>1. Head(r) \in Bytes  BY <1>1, <1>2
    <3>2. Head(r) \in 0..255  BY <3>1 DEF Bytes
    <3>3. f \in Seq(0..255)  BY <3>2, FramedBytes
    <3> QED  BY <3>3 DEF Bytes
  <2>3. CASE p > 0
    <3>1. out[t] = << >>  BY <1>1, <2>3 DEF HInv, IInv, StartsEmpty
    <3>2. Next1(p, r) = <<SOP>> \o f  BY <2>3 DEF Next1
    <3>3. << >> \o Next1(p, r) = Next1(p, r)  BY <1>n, ConcatEmptySeq
    <3> QED  BY <2>1, <2>3, <3>1, <3>2, <3>3
  <2>4. CASE ~ (p > 0)
    <3>1. Next1(p, r) = << >> \o f  BY <2>4 DEF Next1
    <3>2. << >> \o f = f  BY <2>2, ConcatEmptySeq
    <3> QED  BY <2>1, <2>4, <3>1, <3>2
  <2> QED  BY <2>3, <2>4
<1>4. AllRested' = AllRested /\ Expects' /\ DOMAIN AllRested = Channels
  BY <1>1 DEF HInv, Expects, AllRested
<1>5. PICK h : Runs(host, out[t], h) /\ Promise(t, h)  BY <1>2 DEF HInv, Agrees
<1>6. CASE h = HostAt(NONE, AllRested)
  <2>1. \A i \in 1..Len(Next1(p, r)) : Next1(p, r)[i] # CHANNEL
    <3>1. \A s \in Seq(Bytes \ {CHANNEL}) : \A i \in 1..Len(s) : s[i] # CHANNEL  OBVIOUS
    <3> QED  BY <1>s, <3>1
  <2>2. Runs(h, Next1(p, r), h)  BY <1>6, <1>n, <2>1, SilentRuns
  <2>3. Runs(host', out'[t], h)  BY <1>1, <1>2, <1>3, <1>5, <1>n, <2>2, RunsConcat
  <2>4. Promise(t, h)'  BY <1>4, <1>6 DEF Promise
  <2>5. \E x : Runs(host', out'[t], x) /\ Promise(t, x)'  BY <2>3, <2>4
  <2> QED  BY <1>1, <1>2, <1>4, <2>5, BusyStep
<1>7. CASE \E d : h = On(AllRested, c, d) /\ Owes(c, p, r, d, expected[c])
  <2>1. PICK d : h = On(AllRested, c, d) /\ Owes(c, p, r, d, expected[c])  BY <1>7
  <2>2. PICK d2 : /\ Runs(h, Next1(p, r), On(AllRested, c, d2))
                  /\ Owes(c, IF p > 0 THEN -1 ELSE p, Tail(r), d2, expected[c])
    <3>1. r # << >> /\ c \in Channels /\ r \in Seq(Bytes)  BY <1>1, <1>2
    <3> HIDE DEF p, r, c
    <3> QED  BY <1>4, <2>1, <3>1, FillRuns
  <2>3. PICK h2 : h2 = On(AllRested, c, d2)  OBVIOUS
  <2>4. Runs(host', out'[t], h2)
    BY <1>1, <1>2, <1>3, <1>5, <1>n, <2>2, <2>3, RunsConcat
  <2>5. Promise(t, h2)'
    <3>1. /\ h2 = On(AllRested', channel'[t], d2)
          /\ Owes(channel'[t], packetize'[t], rest'[t], d2, expected'[channel'[t]])
      BY <1>1, <1>4, <2>2, <2>3
    <3> QED  BY <3>1 DEF Promise
  <2>6. \E x : Runs(host', out'[t], x) /\ Promise(t, x)'  BY <2>4, <2>5
  <2> QED  BY <1>1, <1>2, <1>4, <2>6, BusyStep
<1> QED  BY <1>5, <1>6, <1>7 DEF Promise

LEMMA UnlockAgrees ==
    ASSUME HInv, NEW t \in Threads, Unlock(t)
    PROVE  Expects' /\ Agrees'
<1>1. /\ pc[t] = "fill" /\ pc'[t] = "idle" /\ Only(t) /\ rest[t] = << >> /\ out[t] = << >>
      /\ UNCHANGED <<source_channel_number, expected, host>>
  BY DEF HInv, IInv, Types, Unlock, Goto, Only
<1>2. Inside(t) /\ Busy(t) /\ source_channel_number = channel[t]
  BY <1>1 DEF HInv, Agrees, Inside, Busy
<1>3. PICK h : Runs(host, out[t], h) /\ Promise(t, h)  BY <1>2 DEF HInv, Agrees
<1>4. h = host
  <2>1. Runs(host, << >>, h)  BY <1>1, <1>3
  <2> QED  BY <2>1, RunsEmpty, Zenon
<1>5. AllRested' = AllRested /\ Expects'  BY <1>1 DEF HInv, Expects, AllRested
<1>6. \E s \in {source_channel_number, NONE} : host = HostAt(s, AllRested)
  <2>1. CASE h = HostAt(NONE, AllRested)
    BY <1>4, <2>1
  <2>2. CASE \E d : /\ h = On(AllRested, channel[t], d)
                    /\ Owes(channel[t], packetize[t], rest[t], d, expected[channel[t]])
    <3>1. PICK d : /\ h = On(AllRested, channel[t], d)
                   /\ Owes(channel[t], packetize[t], << >>, d, expected[channel[t]])
      BY <1>1, <2>2
    <3>2. d = Rested(channel[t], expected[channel[t]])  BY <3>1, OwesNone
    <3>3. [AllRested EXCEPT ![channel[t]] = d] = AllRested  BY <3>2 DEF AllRested
    <3>4. host = HostAt(source_channel_number, AllRested)  BY <1>2, <1>4, <3>1, <3>3 DEF On
    <3> QED  BY <3>4
  <2> QED  BY <1>3, <2>1, <2>2 DEF Promise
<1>7. \A u \in Threads : ~ Busy(u)' /\ pc'[u] # "fill"
  <2>1. ~ Busy(t)' /\ pc'[t] # "fill"  BY <1>1 DEF Busy
  <2> QED  BY <1>1, <1>2, <2>1, Others
<1>8. \A u \in Threads : pc'[u] \in {"lock", "prefix"} =>
          packetize'[u] = IF channel'[u] \in Packetized THEN 1 ELSE 0
  BY <1>1 DEF HInv, Agrees, Only
<1> QED  BY <1>1, <1>5, <1>6, <1>7, <1>8 DEF Agrees

\* The host restarts between calls.
LEMMA RestartAgrees ==
    ASSUME HInv, HostRestart
    PROVE  Expects' /\ Agrees'
<1>1. \A t \in Threads : ~ Inside(t) /\ ~ Busy(t)
  BY DEF HInv, IInv, OneAtATime, HostRestart, Inside, Busy
<1>2. PICK s \in {source_channel_number, NONE} : host = HostAt(s, AllRested)
  BY <1>1, AtRest
<1>3. host' = HostAt(NONE, AllRested)
  BY <1>2 DEF HostRestart, HostInit, HostAt, No
<1>4. AllRested' = AllRested /\ Expects'  BY DEF HInv, Expects, AllRested, HostRestart
<1>5. UNCHANGED <<pc, channel, packetize>>  BY DEF HostRestart, threadVars
<1> QED  BY <1>1, <1>3, <1>4, <1>5 DEF HInv, Agrees, Busy, Inside

LEMMA InitialHost == Init => HInv
<1> SUFFICES ASSUME Init PROVE HInv
  OBVIOUS
<1>1. \A c \in Channels : Rested(c, << >>) = DecoderInit
  BY DEF Rested, Dec, DecoderInit, No
<1>2. Expects  BY DEF Init, Expects, Channels
<1>3. \A t \in Threads : pc[t] = "idle"  BY DEF Init
<1>4. host = HostAt(NONE, AllRested)
  BY <1>1 DEF Init, HostInit, HostAt, AllRested, No
<1>5. Agrees  BY <1>3, <1>4 DEF Agrees, Busy
<1> QED  BY <1>2, <1>5, Initial DEF HInv

LEMMA InductiveHost == HInv /\ [Next]_vars => HInv'
<1> SUFFICES ASSUME HInv, [Next]_vars  PROVE HInv'
  OBVIOUS
<1>1. IInv'  BY Inductive DEF HInv
<1>2. Expects' /\ Agrees'
  <2>1. CASE UNCHANGED vars
    BY <2>1 DEF vars, threadVars, HInv, Expects, Agrees, Busy, Promise, AllRested
  <2> QED
    BY <2>1, RestartAgrees, CallAgrees, LockAgrees, SendPrefixAgrees, NoPrefixAgrees,
       WriteAgrees, WrittenAgrees, FillAgrees, UnlockAgrees
    DEF Next, Source
<1> QED  BY <1>1, <1>2 DEF HInv

------------------------------------------------------------------------------
(* The theorems.                                                           *)

\* The bytes built for one write fit in the buffer, whatever is sent on whatever
\* channel, escaped or not.
THEOREM Fits == Spec => []BufferFits
<1>1. IInv => BufferFits  BY DEF IInv
<1> QED  BY <1>1, Initial, Inductive, PTL DEF Spec

\* The lock lets one thread at a time write to the device and change the number
\* of the selected channel; the others have nothing in their buffers.
THEOREM MutualExclusion == Spec => []OneAtATime
<1>1. IInv => OneAtATime  BY DEF IInv
<1> QED  BY <1>1, Initial, Inductive, PTL DEF Spec

\* The start of a packet drops nothing from the buffer.
THEOREM NothingDropped == Spec => []StartsEmpty
<1>1. IInv => StartsEmpty  BY DEF IInv
<1> QED  BY <1>1, Initial, Inductive, PTL DEF Spec

\* The host decodes exactly the packets and bytes of the calls that it can hear, on
\* the channels that they are meant for and in the order in which they got the lock,
\* whichever threads call, however long the data is, and however little of a write
\* the device takes at a time.
THEOREM Understood == Spec => []HostUnderstands
<1>1. HInv => HostUnderstands
  <2> SUFFICES ASSUME HInv, lock = 1, NEW c \in Channels PROVE Received(c) = expected[c]
    BY DEF HostUnderstands
  <2>1. \A t \in Threads : ~ Busy(t)  BY DEF HInv, IInv, OneAtATime, Inside, Busy
  <2>2. PICK s \in {source_channel_number, NONE} : host = HostAt(s, AllRested)
    BY <2>1, AtRest
  <2>3. host.decoder[c] = Rested(c, expected[c])  BY <2>2 DEF HostAt, AllRested
  <2> QED  BY <2>3 DEF Received, Rested, Dec
<1> QED  BY <1>1, InitialHost, InductiveHost, PTL DEF Spec
==============================================================================
