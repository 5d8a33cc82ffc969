------------------------------ MODULE AvalonSt ------------------------------
(***************************************************************************)
(* The byte framing that the host and the bridge share                     *)
(* (peridot_sw_hostbridge_gen2.h): packet delimiters, channel prefix and   *)
(* escape, and a reference decoder for the packets in a channel's bytes.   *)
(***************************************************************************)
EXTENDS Integers, Sequences, SequencesExt

SOP == 122            \* AST_SOP            0x7a
EOP == 123            \* AST_EOP_PREFIX     0x7b
CHANNEL == 124        \* AST_CHANNEL_PREFIX 0x7c
ESCAPE == 125         \* AST_ESCAPE_PREFIX  0x7d

NeedsEscape(b) == SOP <= b /\ b <= ESCAPE

\* b ^ AST_ESCAPE_XOR: flips bit 5 of the byte.
Xor20(b) == IF (b \div 32) % 2 = 1 THEN b - 32 ELSE b + 32

\* A byte as it travels.
Escaped(b) == IF NeedsEscape(b) THEN <<ESCAPE, Xor20(b)>> ELSE <<b>>
EscapedAll(s) == FlattenSeq([i \in DOMAIN s |-> Escaped(s[i])])

SelectChannel(c) == <<CHANNEL>> \o Escaped(c)

\* A packet: the end prefix comes before the last byte.
Packet(s) ==
    <<SOP>> \o EscapedAll(Front(s)) \o <<EOP>> \o Escaped(Last(s))

------------------------------------------------------------------------------
(* The decoder every packetized sink of the code contains: bytes outside a *)
(* packet are ignored, a start drops what was collected before it.         *)

DecoderInit == [inside |-> FALSE, end |-> FALSE, esc |-> FALSE,
                part |-> << >>, packets |-> << >>]

Decode(d, b) ==
    CASE b = SOP    -> [d EXCEPT !.inside = TRUE, !.end = FALSE, !.part = << >>]
      [] b = EOP    -> [d EXCEPT !.end = TRUE]
      [] b = ESCAPE -> [d EXCEPT !.esc = TRUE]
      [] OTHER ->
           LET v == IF d.esc THEN Xor20(b) ELSE b
               e == [d EXCEPT !.esc = FALSE]
               whole == Append(d.part, v)
           IN IF ~ d.inside THEN e
              ELSE IF ~ d.end THEN [e EXCEPT !.part = whole]
              ELSE [e EXCEPT !.inside = FALSE, !.end = FALSE, !.part = << >>,
                             !.packets = Append(@, whole)]
==============================================================================
