----------------------------- MODULE ByteChannel -----------------------------
(***************************************************************************)
(* What a one-way byte pipe promises: the host's bytes, numbered 1, 2, 3,  *)
(* ... in the order they were sent, come out once each and in that order,  *)
(* and the channel never holds more than Limit of them.                    *)
(***************************************************************************)
EXTENDS Naturals, Sequences

CONSTANT Limit      \* how many bytes the channel can hold

VARIABLES put,      \* how many bytes the channel has taken from the host
          got       \* the bytes the application has received, oldest first

vars == <<put, got>>

Init == put = 0 /\ got = << >>

\* The channel takes some more bytes, as far as it has room.
Take ==
    /\ put' \in put..(Len(got) + Limit)
    /\ UNCHANGED got

\* The application receives the n oldest bytes it has not received yet.
Give(n) ==
    /\ got' = [i \in 1..(Len(got) + n) |-> i]
    /\ UNCHANGED put

Next == Take \/ \E n \in 0..(put - Len(got)) : Give(n)

Spec == Init /\ [][Next]_vars
==============================================================================
