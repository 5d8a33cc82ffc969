------------------------- MODULE MCHostbridgeSource -------------------------
(* A channel whose number needs an escape, a plain channel, and data with  *)
(* a byte that needs one; the threads do the same work.                    *)
EXTENDS HostbridgeSource, TLC

CONSTANTS t1, t2

MCThreads == {t1, t2}
Symmetry == Permutations(MCThreads)
MCPacketized == {ESCAPE}
MCPlain == {2}
MCData == {7, SOP}
==============================================================================
