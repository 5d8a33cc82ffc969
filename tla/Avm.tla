-------------------------------- MODULE Avm --------------------------------
(***************************************************************************)
(* The Avalon-MM channel (peridot_sw_hostbridge_gen2_avm.c): the host      *)
(* sends transactions as packets, of a command, a reserved byte, a size    *)
(* and an address, and gets a packet back for each.  Reads of a small      *)
(* window are the only ones that are carried out; writes are refused.      *)
(*                                                                         *)
(* The size and the address have as many bytes as the constants say, most  *)
(* significant first.  The host may break off anywhere in a packet, after  *)
(* an escape prefix too, and start again with another; the bridge may      *)
(* start in the middle of what the host sends.                             *)
(***************************************************************************)
EXTENDS AvalonSt

CONSTANTS SIZE_BYTES,      \* 2 in the code
          ADDRESS_BYTES,   \* 4 in the code
          BASE, SPAN,      \* AVM_READABLE_BASE and AVM_READABLE_SPAN
          HostPackets      \* bound: the packets that the host sends

FULL == 2 + SIZE_BYTES + ADDRESS_BYTES    \* AVM_OFFSET_FULL
WRITE == FULL + 1                         \* AVM_OFFSET_WRITE
READ == FULL + 2                          \* AVM_OFFSET_READ
NOTR == FULL + 3                          \* AVM_OFFSET_NOTR

END == BASE + SPAN                        \* AVM_READABLE_END
Word == 256 ^ ADDRESS_BYTES               \* addresses are unsigned numbers below it

ASSUME AvmAssumption ==
    /\ SIZE_BYTES \in Nat \ {0} /\ ADDRESS_BYTES \in Nat \ {0}
    /\ BASE \in Nat /\ SPAN \in Nat \ {0} /\ END < Word
    /\ HostPackets \subseteq Seq(0..255) \ {<< >>}

VARIABLES
    input,       \* bytes of the host's packet that avm_sink has not consumed
    escape_prefix, eop_prefix, inside_packet, offset, buffer,
    dangling,    \* history: the host broke off at an ESCAPE, no byte came since
    packet,      \* history: the packet that has come, << >> if it broke off
    replies      \* history: what was sent to the host since

framing == <<escape_prefix, eop_prefix, inside_packet>>
vars == <<input, framing, offset, buffer, dangling, packet, replies>>

Init ==
    /\ input = << >> /\ dangling = FALSE /\ packet = << >> /\ replies = << >>
    /\ escape_prefix = FALSE /\ eop_prefix = FALSE /\ inside_packet = FALSE
    /\ offset = 0 /\ buffer = [i \in 1..FULL |-> 0]

------------------------------------------------------------------------------
(* What the bytes of a transaction mean.                                   *)

IsRead(command) == command \in {16, 20}          \* 0x10, 0x14
IsWrite(command) == command \in {0, 4}           \* 0x00, 0x04
NoTransaction == 127                             \* 0x7f

BigEndian(bytes) == FoldLeft(LAMBDA v, b : 256 * v + b, 0, bytes)
Size(b) == BigEndian(SubSeq(b, 3, 2 + SIZE_BYTES))
Address(b) == BigEndian(SubSeq(b, 3 + SIZE_BYTES, FULL))

\* command ^ 0x80
Acknowledge(command) == (command + 128) % 256

Nothing == [i \in 1..SIZE_BYTES |-> 0]

\* A reply of given bytes, or of size bytes of memory from addr on.
Bytes(s, reset) == [from |-> -1, size |-> Len(s), bytes |-> s, reset |-> reset]
Memory(addr, size) == [from |-> addr, size |-> size, bytes |-> << >>, reset |-> FALSE]

------------------------------------------------------------------------------
(* The host.                                                               *)

\* Packet p as it comes: an escape that is still waiting for its byte takes the
\* first one of p, unless that has an escape of its own.
Come(p) == IF dangling /\ ~ NeedsEscape(p[1]) THEN [p EXCEPT ![1] = Xor20(p[1])] ELSE p

\* It asks when it has its answer, or has given up.
HostSends(p) ==
    /\ input = << >>
    /\ input' = Packet(p) /\ packet' = Come(p) /\ dangling' = FALSE /\ replies' = << >>
    /\ UNCHANGED <<framing, offset, buffer>>

HostBreaksOff(p, n) ==
    /\ input = << >> /\ n < Len(Packet(p))
    /\ input' = SubSeq(Packet(p), 1, n)
    /\ dangling' = (\/ Last(input') = ESCAPE
                    \/ dangling /\ Range(input') \subseteq {SOP, EOP})
    /\ packet' = << >> /\ replies' = << >>
    /\ UNCHANGED <<framing, offset, buffer>>

\* The bridge starts while the host is sending p: the rest of p arrives.
BridgeStarts(p, n) ==
    /\ input = << >> /\ n > 1
    /\ input' = SubSeq(Packet(p), n, Len(Packet(p)))
    /\ dangling' = FALSE /\ packet' = << >> /\ replies' = << >>
    /\ escape_prefix' = FALSE /\ eop_prefix' = FALSE /\ inside_packet' = FALSE
    /\ offset' = 0 /\ buffer' = [i \in 1..FULL |-> 0]

------------------------------------------------------------------------------
(* One turn of the loop in avm_sink.                                       *)

Take(b) == input # << >> /\ b = Head(input) /\ input' = Tail(input)

\* Mutant: the end prefix of a packet that broke off is not forgotten.
SinkSopKeepsEop ==
    /\ Take(SOP)
    /\ offset' = 0 /\ inside_packet' = TRUE
    /\ UNCHANGED <<escape_prefix, eop_prefix, buffer, dangling, packet, replies>>

SinkSop ==
    /\ Take(SOP)
    /\ offset' = 0 /\ inside_packet' = TRUE /\ eop_prefix' = FALSE
    /\ UNCHANGED <<escape_prefix, buffer, dangling, packet, replies>>

SinkEop ==
    /\ Take(EOP)
    /\ eop_prefix' = TRUE
    /\ UNCHANGED <<escape_prefix, inside_packet, offset, buffer, dangling, packet, replies>>

SinkEscape ==
    /\ Take(ESCAPE)
    /\ escape_prefix' = TRUE
    /\ UNCHANGED <<eop_prefix, inside_packet, offset, buffer, dangling, packet, replies>>

\* Any other byte, and its value once its escape is undone.
TakeByte ==
    /\ input # << >> /\ Head(input) \notin {SOP, EOP, ESCAPE} /\ Take(Head(input))
    /\ escape_prefix' = FALSE
Byte == IF escape_prefix THEN Xor20(Head(input)) ELSE Head(input)

SinkOutside ==
    /\ TakeByte /\ ~ inside_packet
    /\ UNCHANGED <<eop_prefix, inside_packet, offset, buffer, dangling, packet, replies>>

Room == offset < FULL

\* buffer and offset once the byte is stored.
Stored == IF Room THEN [buffer EXCEPT ![offset + 1] = Byte] ELSE buffer
Reached == IF Room THEN offset + 1 ELSE offset

\* The last byte of the transaction decides what it is.
Decided ==
    CASE Reached # FULL     -> Reached
      [] IsWrite(Stored[1]) -> WRITE
      [] IsRead(Stored[1])  -> READ
      [] OTHER              -> NOTR

SinkByte ==
    /\ TakeByte /\ inside_packet /\ ~ eop_prefix
    /\ buffer' = Stored /\ offset' = Decided
    /\ UNCHANGED <<eop_prefix, inside_packet, dangling, packet, replies>>

InWindow(addr, size) == addr >= BASE /\ (addr + size) % Word <= END

\* What peridot_sw_hostbridge_gen2_source sends: nothing for a size of 0.
ReadReply(addr, size) ==
    CASE ~ InWindow(addr, size) -> <<Bytes(<<0>>, FALSE)>>
      [] size = 0               -> << >>
      [] OTHER                  -> <<Memory(addr, size)>>

\* The reset flag belongs to the byte that ends both the transaction and the
\* packet.
LastByte ==
    LET reset == Reached = FULL /\ Stored[1] = NoTransaction
    IN  /\ TakeByte /\ inside_packet /\ eop_prefix
        /\ eop_prefix' = FALSE /\ inside_packet' = FALSE
        /\ offset' = Decided
        /\ buffer' = [i \in 1..FULL |->
                        CASE i = 1 -> Acknowledge(Stored[1])
                          [] i = 2 -> 0
                          [] i > 2 /\ i <= 2 + SIZE_BYTES /\ Decided # READ -> 0
                          [] OTHER -> Stored[i]]
        /\ replies' = replies \o
             (IF Decided = READ
                THEN ReadReply(Address(Stored), Size(Stored))
                ELSE <<Bytes(SubSeq(buffer', 1, 2 + SIZE_BYTES), reset)>>)
        /\ UNCHANGED <<dangling, packet>>

------------------------------------------------------------------------------
Next ==
    \/ \E p \in HostPackets :
         \/ HostSends(p)
         \/ \E n \in DOMAIN Packet(p) : HostBreaksOff(p, n) \/ BridgeStarts(p, n)
    \/ SinkSop \/ SinkEop \/ SinkEscape
    \/ SinkOutside \/ SinkByte \/ LastByte

Spec == Init /\ [][Next]_vars

------------------------------------------------------------------------------
TypeOK ==
    /\ input \in Seq(0..255) /\ framing \in BOOLEAN \X BOOLEAN \X BOOLEAN
    /\ offset \in 0..NOTR \ {FULL} /\ buffer \in [1..FULL -> 0..255]
    /\ dangling \in BOOLEAN /\ packet \in Seq(0..255)

\* The answer that a whole packet is owed, by what it says and nothing else: none
\* for a read of no bytes, and one for any other.
Owed(p) ==
    LET addr == Address(p)
        size == Size(p)
    IN  CASE p = << >> -> << >>
          [] Len(p) < FULL -> <<Bytes(<<Acknowledge(p[1]), 0>> \o Nothing, FALSE)>>
          [] ~ IsRead(p[1]) ->
               <<Bytes(<<Acknowledge(p[1]), 0>> \o Nothing,
                       p[1] = NoTransaction /\ Len(p) = FULL)>>
          [] addr < BASE \/ addr + size > END -> <<Bytes(<<0>>, FALSE)>>
          [] size = 0 -> << >>
          [] OTHER -> <<Memory(addr, size)>>

\* A packet is answered by what it says, wherever an earlier one broke off: it is
\* owed at most one answer, gets exactly that once it has come whole, and nothing of
\* an earlier packet, its framing or its buffer gets into it.  One thing is left of
\* an earlier packet: SOP does not reset escape_prefix, so that after a break right
\* behind an ESCAPE the next packet comes with bit 5 of its first byte turned over,
\* if that byte is not escaped itself, and is answered as what it has become.
AnswersPacket == replies = IF input = << >> THEN Owed(packet) ELSE << >>

\* avm.c:106, "Out of range (returns 1 byte zero)": no reply has bytes from
\* outside the window.
OutOfRangeIsZero ==
    \A i \in DOMAIN replies :
        replies[i].from # -1 => replies[i].from + replies[i].size <= END
==============================================================================
