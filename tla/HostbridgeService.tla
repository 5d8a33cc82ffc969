-------------------------- MODULE HostbridgeService --------------------------
(***************************************************************************)
(* The receiving half of the hostbridge, one thread running                *)
(* peridot_sw_hostbridge_gen2_service: it reads a chunk of the host's      *)
(* bytes, scans it for channel prefixes, and writes the spans between them *)
(* to the sink of the selected channel, which may take only part of a span *)
(* at a time.  channel_prefix, escape_prefix and sink_channel survive from *)
(* one chunk to the next, because a chunk can end anywhere.                *)
(***************************************************************************)
EXTENDS AvalonSt

CONSTANTS Packetized,     \* numbers of the registered packetized channels
          Raw,            \* numbers of the registered channels of plain bytes
          Unregistered,   \* numbers nobody has registered
          Data,           \* the bytes the host's packets are made of
          RawData,        \* the bytes it sends on channels of plain bytes
          READ_BUFFER_LEN,
          MaxTokens,      \* bound: how many things the host sends
          MaxPacket       \* bound: the longest packet

ASSUME ServiceAssumption ==
    /\ Packetized \cap Raw = {} /\ (Packetized \cup Raw) \cap Unregistered = {}
    /\ Packetized \cup Raw \cup Unregistered \cup Data \cup RawData \subseteq 0..255
    /\ READ_BUFFER_LEN \in Nat \ {0}

Registered == Packetized \cup Raw
NONE == -1              \* no channel

VARIABLES
    input,              \* bytes the host sent and the bridge has not read
    host,               \* the channel the host has selected
    packet,             \* the bytes of the packet it has begun to send
    tokens,             \* how many things the host has sent
    expected,           \* expected[c]: the packets or bytes meant for channel c
    pc, buffer, read_len, index, head,          \* locals of service
    channel_prefix, escape_prefix, sink_channel,  \* state of the bridge
    from, to, number,   \* a write_to_channel in progress, the channel after it
    delivered           \* delivered[c]: what sink c has made of the bytes it took

hostVars == <<host, packet, tokens, expected>>
scanVars == <<buffer, read_len, index, head, channel_prefix, escape_prefix, sink_channel>>
writeVars == <<from, to, number>>
vars == <<input, hostVars, pc, scanVars, writeVars, delivered>>

\* A packetized sink decodes packets.  A sink of plain bytes keeps all bytes it
\* takes, and of these the data, which are not channel prefixes.
SinkInit(c) ==
    IF c \in Packetized THEN DecoderInit ELSE [bytes |-> << >>, data |-> << >>]

Taken(c, d, b) ==
    IF c \in Packetized THEN Decode(d, b)
    ELSE [bytes |-> Append(d.bytes, b),
          data |-> IF b = CHANNEL THEN d.data ELSE Append(d.data, b)]

Init ==
    /\ input = << >> /\ host = NONE /\ packet = << >> /\ tokens = 0
    /\ expected = [c \in Registered |-> << >>]
    /\ pc = "read" /\ buffer = << >> /\ read_len = 0 /\ index = 0 /\ head = 0
    /\ channel_prefix = FALSE /\ escape_prefix = FALSE /\ sink_channel = NONE
    /\ from = 0 /\ to = 0 /\ number = NONE
    /\ delivered = [c \in Registered |-> SinkInit(c)]

------------------------------------------------------------------------------
(* The host: it selects a channel, and sends packets, byte by byte, or      *)
(* plain bytes.  It does not select another channel within a packet.       *)

HostSends(bytes) ==
    /\ input' = input \o bytes
    /\ UNCHANGED <<pc, scanVars, writeVars, delivered>>

\* The host begins to send something else.
HostBegins ==
    /\ packet = << >> /\ tokens < MaxTokens
    /\ tokens' = tokens + 1

HostSelect(c) ==
    /\ HostBegins /\ c # host
    /\ HostSends(SelectChannel(c))
    /\ host' = c
    /\ UNCHANGED <<packet, expected>>

\* What goes before the first byte of a packet, and before the last.
Delimiters(last) ==
    (IF packet = << >> THEN <<SOP>> ELSE << >>) \o (IF last THEN <<EOP>> ELSE << >>)

HostPacketByte(b, last) ==
    /\ host \in Packetized \cup Unregistered
    /\ last \/ Len(packet) + 1 < MaxPacket
    /\ HostBegins \/ (packet # << >> /\ UNCHANGED tokens)
    /\ HostSends(Delimiters(last) \o Escaped(b))
    /\ packet' = IF last THEN << >> ELSE Append(packet, b)
    /\ expected' = IF last /\ host \in Packetized
                     THEN [expected EXCEPT ![host] = Append(@, Append(packet, b))]
                     ELSE expected
    /\ UNCHANGED host

HostRaw(b) ==
    /\ host \in Raw /\ HostBegins
    /\ HostSends(Escaped(b))
    /\ expected' = [expected EXCEPT ![host] = Append(@, b)]
    /\ UNCHANGED <<host, packet>>

------------------------------------------------------------------------------
(* The bridge.                                                             *)

\* Mutant: a channel prefix is forgotten at the end of a chunk.
ReadForgets(n) ==
    /\ pc = "read" /\ n <= Len(input)
    /\ buffer' = SubSeq(input, 1, n) /\ read_len' = n
    /\ input' = SubSeq(input, n + 1, Len(input))
    /\ index' = 0 /\ head' = 0 /\ pc' = "scan" /\ channel_prefix' = FALSE
    /\ UNCHANGED <<hostVars, escape_prefix, sink_channel, writeVars, delivered>>

\* read returns what has arrived, up to the size of the buffer.
Read(n) ==
    /\ pc = "read" /\ n <= Len(input)
    /\ buffer' = SubSeq(input, 1, n) /\ read_len' = n
    /\ input' = SubSeq(input, n + 1, Len(input))
    /\ index' = 0 /\ head' = 0 /\ pc' = "scan"
    /\ UNCHANGED <<hostVars, channel_prefix, escape_prefix, sink_channel,
                   writeVars, delivered>>

IsRaw == sink_channel \in Raw

\* buffer[i] of the C code.
Byte(i) == buffer[i + 1]

\* The byte at index with its escape undone, and the buffer after that.
Plain == IF escape_prefix THEN Xor20(Byte(index)) ELSE Byte(index)
Unescaped ==
    IF escape_prefix /\ IsRaw THEN [buffer EXCEPT ![index + 1] = Plain] ELSE buffer

\* --read_len; memmove(buffer, buffer + 1, read_len - index)
DropByte(b) ==
    /\ read_len' = read_len - 1
    /\ buffer' = [i \in DOMAIN b |-> IF i < read_len - index THEN b[i + 1] ELSE b[i]]

ScanChannelPrefix ==
    /\ pc = "scan" /\ index < read_len /\ Byte(index) = CHANNEL
    /\ channel_prefix' = TRUE /\ index' = index + 1
    /\ UNCHANGED <<input, hostVars, pc, buffer, read_len, head, escape_prefix,
                   sink_channel, writeVars, delivered>>

ScanEscapePrefix ==
    /\ pc = "scan" /\ index < read_len /\ Byte(index) = ESCAPE
    /\ escape_prefix' = TRUE /\ index' = index + 1
    /\ IF IsRaw THEN DropByte(buffer) ELSE UNCHANGED <<buffer, read_len>>
    /\ UNCHANGED <<input, hostVars, pc, head, channel_prefix, sink_channel,
                   writeVars, delivered>>

ScanByte ==
    /\ pc = "scan" /\ index < read_len /\ Byte(index) \notin {CHANNEL, ESCAPE}
    /\ ~ channel_prefix
    /\ escape_prefix' = FALSE /\ index' = index + 1
    /\ IF IsRaw /\ Plain \in {SOP, EOP}
         THEN DropByte(Unescaped)
         ELSE buffer' = Unescaped /\ UNCHANGED read_len
    /\ UNCHANGED <<input, hostVars, pc, head, channel_prefix, sink_channel,
                   writeVars, delivered>>

\* Start to write buffer[f..t-1] to the selected channel.
WriteSpan(f, t, n) == from' = f /\ to' = t /\ number' = n /\ pc' = "write"

\* The number after a channel prefix: the span before the prefix still belongs
\* to the old channel.
ScanChannelNumber ==
    /\ pc = "scan" /\ index < read_len /\ Byte(index) \notin {CHANNEL, ESCAPE}
    /\ channel_prefix
    /\ escape_prefix' = FALSE /\ buffer' = Unescaped
    /\ WriteSpan(head, index - 1, Plain)
    /\ UNCHANGED <<input, hostVars, read_len, index, head, channel_prefix,
                   sink_channel, delivered>>

ScanEnd ==
    /\ pc = "scan" /\ index >= read_len
    /\ WriteSpan(head, read_len, NONE)
    /\ UNCHANGED <<input, hostVars, scanVars, delivered>>

\* Mutant: the rest of a span is dropped when the sink takes only part of it.
WriteOnce ==
    /\ pc = "write" /\ sink_channel # NONE /\ from < to
    /\ delivered' = [delivered EXCEPT ![sink_channel] = Taken(sink_channel, @, Byte(from))]
    /\ from' = to
    /\ UNCHANGED <<input, hostVars, pc, scanVars, to, number>>

\* write_to_channel: the sink takes the bytes of the span one after the other; a
\* call that takes several is as many steps.  A sink that takes none is asked
\* again, which changes nothing.
Write ==
    /\ pc = "write" /\ sink_channel # NONE /\ from < to
    /\ delivered' = [delivered EXCEPT ![sink_channel] = Taken(sink_channel, @, Byte(from))]
    /\ from' = from + 1
    /\ UNCHANGED <<input, hostVars, pc, scanVars, to, number>>

\* The span is written, or there is nothing to write or nobody to take it:
\* service selects the new channel, or at the end of the buffer returns.
Written ==
    /\ pc = "write" /\ (sink_channel = NONE \/ from >= to)
    /\ IF number = NONE
         THEN /\ pc' = "read" /\ buffer' = << >> /\ read_len' = 0
              /\ index' = 0 /\ head' = 0
              /\ UNCHANGED <<channel_prefix, sink_channel>>
         ELSE /\ sink_channel' = IF number \in Registered THEN number ELSE NONE
              /\ head' = index + 1 /\ index' = index + 1
              /\ channel_prefix' = FALSE /\ pc' = "scan"
              /\ UNCHANGED <<buffer, read_len>>
    /\ from' = 0 /\ to' = 0 /\ number' = NONE
    /\ UNCHANGED <<input, hostVars, escape_prefix, delivered>>

------------------------------------------------------------------------------
Scan == ScanChannelPrefix \/ ScanEscapePrefix \/ ScanByte \/ ScanChannelNumber \/ ScanEnd

Service ==
    \/ \E n \in 1..READ_BUFFER_LEN : Read(n)
    \/ Scan
    \/ Write
    \/ Written

Host ==
    \/ \E c \in Registered \cup Unregistered : HostSelect(c)
    \/ \E b \in Data, last \in BOOLEAN : HostPacketByte(b, last)
    \/ \E b \in RawData : HostRaw(b)

Next == Host \/ Service

Spec == Init /\ [][Next]_vars

------------------------------------------------------------------------------
Bytes == 0..255

TypeOK ==
    /\ input \in Seq(Bytes)
    /\ host \in Registered \cup Unregistered \cup {NONE} /\ tokens \in 0..MaxTokens
    /\ packet \in Seq(Data) /\ Len(packet) < MaxPacket
    /\ pc \in {"read", "scan", "write"}
    /\ buffer \in Seq(Bytes) /\ Len(buffer) <= READ_BUFFER_LEN
    /\ read_len \in 0..Len(buffer) /\ index \in 0..Len(buffer)
    /\ head \in 0..read_len
    /\ channel_prefix \in BOOLEAN /\ escape_prefix \in BOOLEAN
    /\ sink_channel \in Registered \cup {NONE}
    /\ from \in 0..Len(buffer) /\ to \in -1..Len(buffer)
    /\ number \in Bytes \cup {NONE}
    /\ DOMAIN delivered = Registered
    /\ \A c \in Packetized : /\ delivered[c].packets \in Seq(Seq(Bytes))
                             /\ delivered[c].part \in Seq(Bytes)
    /\ \A c \in Raw : delivered[c] \in [bytes : Seq(Bytes), data : Seq(Bytes)]

\* A packetized sink decodes the packets the host sent on its channel, each
\* once, complete and in order, wherever the chunks of read end and however
\* few bytes the sinks take at a time: what service delivers besides, such as
\* a channel prefix that ended a chunk, falls between packets.
PacketsInOrder ==
    \A c \in Packetized : IsPrefix(delivered[c].packets, expected[c])

\* Once everything is read and written, no packet is missing.
Quiet == input = << >> /\ pc = "read"
NothingMissing ==
    Quiet => \A c \in Packetized : delivered[c].packets = expected[c]

\* A channel of plain bytes gets the bytes the host sent on it, in order, with
\* at most channel prefixes among them.
PlainInOrder == \A c \in Raw : IsPrefix(delivered[c].data, expected[c])

\* "Drop special byte": what a channel of plain bytes gets is what the host
\* sent, with the special bytes of the framing dropped and the escapes undone.
SpecialBytesDropped == \A c \in Raw : IsPrefix(delivered[c].bytes, expected[c])
==============================================================================
