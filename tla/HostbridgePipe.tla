--------------------------- MODULE HostbridgePipe ---------------------------
(***************************************************************************)
(* The input side of a hostbridge pipe (peridot_sw_hostbridge_gen2_pipe.c):*)
(* a ring buffer that the bridge thread fills through write_to_channel and *)
(* hostbridge_pipe_sink, and that an application thread empties through    *)
(* hostbridge_pipe_read.  sem_lock is held only around the two loads of    *)
(* the offsets, so a call is modelled as the steps between which the other *)
(* thread can run: sample the offsets, copy, publish the new offset, post  *)
(* or wait on sem_read.                                                    *)
(*                                                                         *)
(* A byte is represented by its position in the host's stream, so that     *)
(* loss, duplication and reordering are all visible.                       *)
(***************************************************************************)
EXTENDS Integers, Sequences

CONSTANTS Capacity,  \* pipe->capacity, as rounded up by mkpipe
          MaxBytes,  \* bound: how many bytes the host sends
          MaxRead    \* bound: the largest length given to read

ASSUME PipeAssumption ==
    /\ Capacity \in Nat \ {0}
    /\ MaxBytes \in Nat
    /\ MaxRead \in Nat

\* "& (capacity - 1)" is "% capacity" because mkpipe rounds up to a power of 2.
ASSUME PowerOfTwo == \E k \in 0..30 : Capacity = 2^k

VARIABLES
    buffer, read_offset, write_offset, sem_read,  \* the hostbridge_pipe
    spc, sro, swo, slen,    \* bridge thread: pc, sampled offsets, bytes left
    rpc, rro, rwo, rlen,    \* application thread: pc, sampled offsets, length
    put,                    \* bytes of the host's stream put in so far
    got                     \* what the application has read

shared == <<buffer, read_offset, write_offset, sem_read>>
sinkVars == <<spc, sro, swo, slen>>
readVars == <<rpc, rro, rwo, rlen>>
vars == <<shared, sinkVars, readVars, put, got>>

Cells == 0..(Capacity - 1)

------------------------------------------------------------------------------
(* Arithmetic on the offsets.                                              *)

\* Mutants: no cell is kept free between the offsets; the offset is not masked.
Free1NoGap(r, w) == IF r <= w THEN IF r = 0 THEN Capacity - w - 1 ELSE Capacity - w
                              ELSE r - w
Free2NoGap(r, w) == IF r <= w /\ r > 0 THEN r ELSE 0
AdvanceUnmasked(off, n1, n2) == IF n2 > 0 THEN n2 ELSE off + n1

\* hostbridge_pipe_sink: free cells after w, and at the start of the buffer.
Free1(r, w) == IF r <= w THEN IF r = 0 THEN Capacity - w - 1 ELSE Capacity - w
                         ELSE r - w - 1
Free2(r, w) == IF r <= w /\ r > 0 THEN r - 1 ELSE 0

\* hostbridge_pipe_read: unread cells after r, and at the start of the buffer.
Avail1(r, w) == IF r <= w THEN w - r ELSE Capacity - r
Avail2(r, w) == IF r <= w THEN 0 ELSE w

\* How many of len bytes fall in the first part (a cells) and the second (b).
Part1(len, a) == IF len < a THEN len ELSE a
Part2(len, a, b) == IF len < a THEN 0 ELSE IF len - a < b THEN len - a ELSE b

\* The offset after n1 bytes in the first part and n2 in the second.
Advance(off, n1, n2) == IF n2 > 0 THEN n2 ELSE (off + n1) % Capacity

\* The sizes of the two copies the sink and the read make with their samples.
S1 == Part1(slen, Free1(sro, swo))
S2 == Part2(slen, Free1(sro, swo), Free2(sro, swo))
R1 == Part1(rlen, Avail1(rro, rwo))
R2 == Part2(rlen, Avail1(rro, rwo), Avail2(rro, rwo))

------------------------------------------------------------------------------
(* mkpipe leaves the pipe empty and nobody in it.                          *)
Init ==
    /\ buffer = [i \in Cells |-> 0]
    /\ read_offset = 0 /\ write_offset = 0 /\ sem_read = 0
    /\ spc = "idle" /\ sro = 0 /\ swo = 0 /\ slen = 0
    /\ rpc = "idle" /\ rro = 0 /\ rwo = 0 /\ rlen = 0
    /\ put = 0 /\ got = << >>

(* The bridge thread.                                                      *)

\* write_to_channel is called with the next n bytes of the host's stream.
WriteToChannel(n) ==
    /\ spc = "idle" /\ put + n <= MaxBytes
    /\ spc' = "sample" /\ slen' = n
    /\ UNCHANGED <<shared, sro, swo, readVars, put, got>>

\* The sink loads both offsets and finds room.
SinkSample ==
    /\ spc = "sample"
    /\ Free1(read_offset, write_offset) # 0
    /\ spc' = "copy" /\ sro' = read_offset /\ swo' = write_offset
    /\ UNCHANGED <<shared, slen, readVars, put, got>>

\* The sink finds no room and returns 0; write_to_channel yields and retries.
SinkFull ==
    /\ spc = "sample"
    /\ Free1(read_offset, write_offset) = 0
    /\ UNCHANGED vars

SinkCopy ==
    /\ spc = "copy"
    /\ spc' = "commit"
    /\ buffer' = [i \in Cells |->
                    IF swo <= i /\ i < swo + S1 THEN put + 1 + (i - swo)
                    ELSE IF i < S2 THEN put + 1 + S1 + i
                    ELSE buffer[i]]
    /\ UNCHANGED <<read_offset, write_offset, sem_read, sro, swo, slen,
                   readVars, put, got>>

SinkCommit ==
    /\ spc = "commit"
    /\ spc' = "post"
    /\ write_offset' = Advance(swo, S1, S2)
    /\ put' = put + S1 + S2
    /\ UNCHANGED <<buffer, read_offset, sem_read, sro, swo, slen, readVars, got>>

\* The sink posts sem_read if its samples said "empty" and returns the number
\* of bytes it took; write_to_channel goes round again while some are left.
SinkReturn ==
    /\ spc = "post"
    /\ sem_read' = IF sro = swo THEN sem_read + 1 ELSE sem_read
    /\ slen' = slen - (S1 + S2)
    /\ spc' = IF slen' > 0 THEN "sample" ELSE "idle"
    /\ sro' = 0 /\ swo' = 0
    /\ UNCHANGED <<buffer, read_offset, write_offset, readVars, put, got>>

(* The application thread.                                                 *)

ReadCall(len) ==
    /\ rpc = "idle"
    /\ rpc' = "sample" /\ rlen' = len
    /\ UNCHANGED <<shared, sinkVars, rro, rwo, put, got>>

ReadSample ==
    /\ rpc = "sample"
    /\ IF read_offset = write_offset
         THEN rpc' = "wait" /\ UNCHANGED <<rro, rwo>>
         ELSE rpc' = "copy" /\ rro' = read_offset /\ rwo' = write_offset
    /\ UNCHANGED <<shared, sinkVars, rlen, put, got>>

\* ALT_SEM_PEND(pipe->sem_read, 0), then "goto retry".
ReadWake ==
    /\ rpc = "wait" /\ sem_read > 0
    /\ sem_read' = sem_read - 1
    /\ rpc' = "sample"
    /\ UNCHANGED <<buffer, read_offset, write_offset, sinkVars,
                   rro, rwo, rlen, put, got>>

ReadCopy ==
    /\ rpc = "copy"
    /\ rpc' = "commit"
    /\ got' = got \o [i \in 1..(R1 + R2) |->
                        IF i <= R1 THEN buffer[rro + i - 1] ELSE buffer[i - R1 - 1]]
    /\ UNCHANGED <<shared, sinkVars, rro, rwo, rlen, put>>

ReadCommit ==
    /\ rpc = "commit"
    /\ read_offset' = Advance(rro, R1, R2)
    /\ rpc' = "idle" /\ rro' = 0 /\ rwo' = 0 /\ rlen' = 0
    /\ UNCHANGED <<buffer, write_offset, sem_read, sinkVars, put, got>>

------------------------------------------------------------------------------
Sink == SinkSample \/ SinkFull \/ SinkCopy \/ SinkCommit \/ SinkReturn
Read == ReadSample \/ ReadWake \/ ReadCopy \/ ReadCommit

Next ==
    \/ \E n \in 1..MaxBytes : WriteToChannel(n)
    \/ SinkSample \/ SinkFull \/ SinkCopy \/ SinkCommit \/ SinkReturn
    \/ \E len \in 0..MaxRead : ReadCall(len)
    \/ ReadSample \/ ReadWake \/ ReadCopy \/ ReadCommit

Spec == Init /\ [][Next]_vars

\* The bridge thread is scheduled; the application may stop calling read.
FairSpec == Spec /\ WF_vars(Sink)

------------------------------------------------------------------------------
TypeOK ==
    /\ buffer \in [Cells -> Nat]
    /\ read_offset \in Cells /\ write_offset \in Cells
    /\ sem_read \in Nat
    /\ spc \in {"idle", "sample", "copy", "commit", "post"}
    /\ sro \in Cells /\ swo \in Cells /\ slen \in Nat
    /\ rpc \in {"idle", "sample", "wait", "copy", "commit"}
    /\ rro \in Cells /\ rwo \in Cells /\ rlen \in Nat
    /\ put \in Nat /\ got \in Seq(Nat)

\* The application reads the host's bytes in order, with none lost, repeated
\* or overwritten, although neither side holds a lock while it copies and
\* each computes its spans from offsets that may be stale.
InOrder == \A i \in 1..Len(got) : got[i] = i

\* The memcpy of the sink and the memcpy of the read never touch the same
\* cell, whichever way the two threads are preempted inside them.
WriteCells == swo..(swo + S1 - 1) \cup 0..(S2 - 1)
ReadCells == rro..(rro + R1 - 1) \cup 0..(R2 - 1)
NoTornCopy ==
    spc = "copy" /\ rpc = "copy" => WriteCells \cap ReadCells = {}

\* How many cells lie between two offsets, and the cell an offset wraps to.
Used(r, w) == IF r <= w THEN w - r ELSE Capacity - r + w
Wrap(x) == IF x < Capacity THEN x ELSE x - Capacity

\* How many bytes the application has released by publishing read_offset.
Released == IF rpc = "commit" THEN Len(got) - (R1 + R2) ELSE Len(got)

\* The cells between the offsets are as many as the bytes put in and not yet
\* released, and hold exactly those bytes.
Balance == put - Released = Used(read_offset, write_offset)
Unread ==
    \A j \in 0..(Used(read_offset, write_offset) - 1) :
        buffer[Wrap(read_offset + j)] = Released + j + 1

\* A stale sample errs on the safe side: the sink may see more used cells than
\* there still are, the read fewer unread bytes than there already are.
SinkSampled ==
    spc \in {"copy", "commit"} =>
        swo = write_offset /\ Used(read_offset, write_offset) <= Used(sro, swo)
ReadSampled ==
    rpc \in {"copy", "commit"} =>
        rro = read_offset /\ Used(rro, rwo) <= Used(read_offset, write_offset)

\* Between its copy and its commit the sink's bytes lie past write_offset.
Copied ==
    spc = "commit" =>
        \A j \in 0..(S1 + S2 - 1) : buffer[Wrap(write_offset + j)] = put + j + 1

\* Why InOrder holds: the inductive invariant of the lock-free copies.
RingInv ==
    InOrder /\ Balance /\ Unread /\ SinkSampled /\ ReadSampled /\ Copied

\* The pipe is a ByteChannel that holds one byte less than its capacity.
Channel == INSTANCE ByteChannel WITH Limit <- Capacity - 1
ChannelSpec == Channel!Spec

\* The diagrams in hostbridge_pipe_read mark every cell between r and w as
\* available, so an application asleep in read, with no post on its way from
\* the sink, has an empty pipe.
NoSleepOnData ==
    rpc = "wait" /\ sem_read = 0 /\ spc = "idle" => read_offset = write_offset

\* "Buffer overflow => Drop data": the bridge thread gets out of the pipe
\* even if nobody reads it.
OverflowDropsData == (spc # "idle") ~> (spc = "idle")
==============================================================================
