-------------------------- MODULE HostbridgeSource --------------------------
(***************************************************************************)
(* The sending half of the hostbridge: threads (RPC workers, callbacks,    *)
(* applications writing to a pipe, the bridge thread answering Avalon-MM   *)
(* requests) call peridot_sw_hostbridge_gen2_source, which selects the     *)
(* channel if the host does not have it selected, and sends the data,      *)
(* escaped and framed, through a buffer of WRITE_BUFFER_LEN + 2 bytes.     *)
(* The device may take only a part of each write.                          *)
(*                                                                         *)
(* The host decodes what arrives; it may also restart and forget which     *)
(* channel is selected, after which only a call that sends the channel     *)
(* prefix again can be understood.                                         *)
(***************************************************************************)
EXTENDS AvalonSt

CONSTANTS Threads,
          Packetized,         \* numbers of the packetized channels
          Plain,              \* numbers of the channels of plain bytes (pipes)
          Data,               \* the bytes the threads send
          MaxLen,             \* bound: the longest data of a call
          WRITE_BUFFER_LEN,
          MaxCalls,           \* bound: how many calls are made
          MaxRestarts         \* bound: how often the host restarts

ASSUME SourceAssumption ==
    /\ Packetized \cap Plain = {} /\ Packetized \cup Plain \subseteq 0..255
    /\ Data \subseteq 0..255
    /\ WRITE_BUFFER_LEN \in Nat /\ WRITE_BUFFER_LEN > 1

Channels == Packetized \cup Plain
NONE == -1

VARIABLES
    lock, source_channel_number,  \* state of the bridge
    pc, channel, rest,            \* of each thread: pc, channel, data left to send,
    packetize, reset,             \*   the flags of its call,
    out,                          \*   the bytes it is handing to the device
    calls, restarts,              \* bounds
    host,                         \* the host's decoder
    expected                      \* expected[c]: what the host should receive

threadVars == <<pc, channel, rest, packetize, reset, out>>
bounds == <<calls, restarts>>
vars == <<lock, source_channel_number, threadVars, bounds, host, expected>>

------------------------------------------------------------------------------
(* The host: the channel its receiver has selected, a pending channel      *)
(* prefix and escape of the number, and the decoder of each channel.       *)

HostInit(decoders) ==
    [selected |-> NONE, prefix |-> FALSE, esc |-> FALSE, decoder |-> decoders]

\* On a channel of plain bytes only the escapes are undone.
Undo(d, b) ==
    IF b = ESCAPE THEN [d EXCEPT !.esc = TRUE]
    ELSE [d EXCEPT !.esc = FALSE, !.part = Append(@, IF d.esc THEN Xor20(b) ELSE b)]

Hear(c, d, b) == IF c \in Packetized THEN Decode(d, b) ELSE Undo(d, b)

HostByte(h, b) ==
    CASE b = CHANNEL -> [h EXCEPT !.prefix = TRUE]
      [] h.prefix /\ b = ESCAPE -> [h EXCEPT !.esc = TRUE]
      [] h.prefix /\ b \notin {CHANNEL, ESCAPE} ->
           [h EXCEPT !.prefix = FALSE, !.esc = FALSE,
                     !.selected = IF h.esc THEN Xor20(b) ELSE b]
      [] ~ h.prefix /\ b # CHANNEL /\ h.selected \in Channels ->
           [h EXCEPT !.decoder[h.selected] = Hear(h.selected, @, b)]
      [] OTHER -> h

Received(c) ==
    IF c \in Packetized THEN host.decoder[c].packets ELSE host.decoder[c].part

\* Whether the host would understand data on channel c without a prefix.
InStep == host.selected = source_channel_number

Init ==
    /\ lock = 1 /\ source_channel_number = NONE
    /\ pc = [t \in Threads |-> "idle"]
    /\ channel = [t \in Threads |-> NONE]
    /\ rest = [t \in Threads |-> << >>]
    /\ packetize = [t \in Threads |-> 0]
    /\ reset = [t \in Threads |-> FALSE]
    /\ out = [t \in Threads |-> << >>]
    /\ calls = 0 /\ restarts = 0
    /\ host = HostInit([c \in Channels |-> DecoderInit])
    /\ expected = [c \in Channels |-> << >>]

HostRestart ==
    /\ restarts < MaxRestarts /\ lock = 1
    /\ restarts' = restarts + 1
    /\ host' = HostInit(host.decoder)
    /\ UNCHANGED <<lock, source_channel_number, threadVars, calls, expected>>

------------------------------------------------------------------------------
(* peridot_sw_hostbridge_gen2_source in thread t.                          *)

Goto(t, p) == pc' = [pc EXCEPT ![t] = p]

\* The callers: a reply or an Avalon-MM answer is packetized, and the answer
\* to a "no transaction" request also asks for the prefix; a pipe is not.
Call(t, c, data, r) ==
    /\ pc[t] = "idle" /\ calls < MaxCalls
    /\ r => c \in Packetized
    /\ Goto(t, "lock")
    /\ channel' = [channel EXCEPT ![t] = c]
    /\ rest' = [rest EXCEPT ![t] = data]
    /\ packetize' = [packetize EXCEPT ![t] = IF c \in Packetized THEN 1 ELSE 0]
    /\ reset' = [reset EXCEPT ![t] = r]
    /\ calls' = calls + 1
    /\ UNCHANGED <<lock, source_channel_number, out, restarts, host, expected>>

Lock(t) ==
    /\ pc[t] = "lock" /\ lock > 0
    /\ lock' = lock - 1
    /\ Goto(t, "prefix")
    /\ UNCHANGED <<source_channel_number, channel, rest, packetize, reset, out,
                   bounds, host, expected>>

NeedsPrefix(t) == channel[t] # source_channel_number \/ reset[t]

\* What the host should make of thread t's call, if it hears the channel.
Meant(t, heard) ==
    IF ~ heard \/ rest[t] = << >> THEN expected
    ELSE [expected EXCEPT ![channel[t]] =
             IF channel[t] \in Packetized THEN Append(@, rest[t]) ELSE @ \o rest[t]]

SendPrefix(t) ==
    /\ pc[t] = "prefix" /\ NeedsPrefix(t)
    /\ out' = [out EXCEPT ![t] = SelectChannel(channel[t])]
    /\ expected' = Meant(t, TRUE)
    /\ Goto(t, "write")
    /\ UNCHANGED <<lock, source_channel_number, channel, rest, packetize, reset,
                   bounds, host>>

NoPrefix(t) ==
    /\ pc[t] = "prefix" /\ ~ NeedsPrefix(t)
    /\ expected' = Meant(t, InStep)
    /\ Goto(t, "fill")
    /\ UNCHANGED <<lock, source_channel_number, channel, rest, packetize, reset,
                   out, bounds, host>>

\* write_to_host: the device takes as many bytes as it likes, one after the
\* other.  One that takes none is asked again, which changes nothing.
Write(t) ==
    /\ pc[t] = "write" /\ out[t] # << >>
    /\ host' = HostByte(host, Head(out[t]))
    /\ out' = [out EXCEPT ![t] = Tail(@)]
    /\ UNCHANGED <<lock, source_channel_number, pc, channel, rest, packetize,
                   reset, bounds, expected>>

Written(t) ==
    /\ pc[t] = "write" /\ out[t] = << >>
    /\ source_channel_number' = channel[t]
    /\ Goto(t, "fill")
    /\ UNCHANGED <<lock, channel, rest, packetize, reset, out, bounds, host, expected>>

\* Mutant: the test of the buffer's length is off by one.
RoomOffByOne(t) == Len(out[t]) <= WRITE_BUFFER_LEN

\* "write_len < WRITE_BUFFER_LEN": up to three more bytes may follow.
Room(t) == Len(out[t]) < WRITE_BUFFER_LEN

\* Mutant: the last byte, after its end prefix, is not escaped.
LastUnescaped(p, len, b) == IF p # 0 /\ len = 1 THEN <<EOP, b>> ELSE Escaped(b)

\* One byte of data, with the end prefix before the last one.
Framed(p, len, b) == (IF p # 0 /\ len = 1 THEN <<EOP>> ELSE << >>) \o Escaped(b)

\* The next byte of data goes into the buffer, which starts with SOP the first
\* time round.
Fill(t) ==
    /\ pc[t] = "fill" /\ rest[t] # << >> /\ Room(t)
    /\ out' = [out EXCEPT ![t] =
                  (IF packetize[t] > 0 THEN <<SOP>> ELSE @)
                    \o Framed(packetize[t], Len(rest[t]), Head(rest[t]))]
    /\ packetize' = [packetize EXCEPT ![t] = IF @ > 0 THEN -1 ELSE @]
    /\ rest' = [rest EXCEPT ![t] = Tail(@)]
    /\ UNCHANGED <<lock, source_channel_number, pc, channel, reset, bounds, host,
                   expected>>

\* The buffer is full or the data used up.
Flush(t) ==
    /\ pc[t] = "fill" /\ out[t] # << >> /\ (rest[t] = << >> \/ ~ Room(t))
    /\ Goto(t, "write")
    /\ UNCHANGED <<lock, source_channel_number, channel, rest, packetize, reset,
                   out, bounds, host, expected>>

Unlock(t) ==
    /\ pc[t] = "fill" /\ rest[t] = << >> /\ out[t] = << >>
    /\ lock' = lock + 1
    /\ Goto(t, "idle")
    /\ UNCHANGED <<source_channel_number, channel, rest, packetize, reset, out,
                   bounds, host, expected>>

------------------------------------------------------------------------------
Source(t) ==
    \/ Lock(t) \/ SendPrefix(t) \/ NoPrefix(t) \/ Write(t) \/ Written(t)
    \/ Fill(t) \/ Flush(t) \/ Unlock(t)

Next ==
    \/ HostRestart
    \/ \E t \in Threads :
         \/ \E c \in Channels, data \in SeqOf(Data, MaxLen), r \in BOOLEAN : Call(t, c, data, r)
         \/ Source(t)

Spec == Init /\ [][Next]_vars

------------------------------------------------------------------------------
TypeOK ==
    /\ lock \in {0, 1} /\ source_channel_number \in Channels \cup {NONE}
    /\ pc \in [Threads -> {"idle", "lock", "prefix", "write", "fill"}]
    /\ channel \in [Threads -> Channels \cup {NONE}]
    /\ rest \in [Threads -> Seq(0..255)] /\ out \in [Threads -> Seq(0..255)]
    /\ packetize \in [Threads -> {-1, 0, 1}] /\ reset \in [Threads -> BOOLEAN]
    /\ host.selected \in Channels \cup {NONE}

\* The bytes built for one write fit in buffer[WRITE_BUFFER_LEN + 2], although
\* a last byte that needs its escape takes three.
BufferFits == \A t \in Threads : Len(out[t]) <= WRITE_BUFFER_LEN + 2

\* Between calls the host has decoded exactly the packets and bytes sent on
\* each channel, in the order in which the calls got the lock, however the
\* threads interleave and the device splits the writes; what it misses after
\* a restart is only what was sent before the next channel prefix.
HostUnderstands == lock = 1 => \A c \in Channels : Received(c) = expected[c]
==============================================================================
