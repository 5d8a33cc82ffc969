------------------------------- MODULE MCAvm -------------------------------
(* Transactions of one size byte and one address byte, around a window of   *)
(* 16 addresses from 16 on, and packets that are too short or too long.     *)
EXTENDS Avm

\* Write, both reads, no transaction, and what an escape makes of a read, 16.
Commands == {0, 16, 20, 48, 127}
Whole == {<<c, 0, n, a>> : c \in Commands, n \in {0, 1, 16}, a \in {15, 16, 17, 125}}
Short == {<<c>> : c \in Commands} \cup {<<c, 0, 1>> : c \in Commands}
Long == {p \o <<123>> : p \in {q \in Whole : q[4] \in {16, 125}}}

MCHostPackets == Short \cup Whole \cup Long

\* Reads near the top of the address space.
TopPackets == {<<16, 0, n, a>> : n \in {1, 16}, a \in {16, 31, 250}}
=============================================================================
