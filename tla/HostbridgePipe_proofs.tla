------------------------ MODULE HostbridgePipe_proofs ------------------------
(***************************************************************************)
(* Proofs about HostbridgePipe for every capacity and every schedule.      *)
(***************************************************************************)
EXTENDS HostbridgePipe, SequenceTheorems, TLAPS

\* Masking an offset that has not gone past the end wraps it to 0 at the end.
LEMMA MaskWraps ==
    \A x \in 0..Capacity : x % Capacity = IF x = Capacity THEN 0 ELSE x
<1> SUFFICES ASSUME NEW x \in 0..Capacity
             PROVE  x % Capacity = IF x = Capacity THEN 0 ELSE x
    OBVIOUS
<1>1. CASE x = Capacity  BY <1>1, PipeAssumption, SMT
<1>2. CASE x < Capacity  BY <1>2, PipeAssumption, SMT
<1> QED  BY <1>1, <1>2, PipeAssumption

\* Two spans of n1 and n2 cells, from off and from 0, that carry at most room
\* of the len bytes asked for, stay in the buffer, and use the second span
\* only when the first reaches the end.
Fits(off, n1, n2, len, room) ==
    /\ n1 \in Nat /\ n2 \in Nat
    /\ n1 + n2 <= len /\ n1 + n2 <= room
    /\ off + n1 <= Capacity /\ n2 < Capacity
    /\ n2 > 0 => off + n1 = Capacity

\* The spans of hostbridge_pipe_sink fit in the free space it sampled.
LEMMA SinkSpans ==
    ASSUME NEW r \in Cells, NEW w \in Cells, NEW len \in Nat
    PROVE  Fits(w, Part1(len, Free1(r, w)), Part2(len, Free1(r, w), Free2(r, w)),
                len, Capacity - 1 - Used(r, w))
  BY PipeAssumption DEF Cells, Part1, Part2, Free1, Free2, Used, Fits

\* The spans of hostbridge_pipe_read stay inside the unread bytes it sampled.
LEMMA ReadSpans ==
    ASSUME NEW r \in Cells, NEW w \in Cells, NEW len \in Nat
    PROVE  Fits(r, Part1(len, Avail1(r, w)), Part2(len, Avail1(r, w), Avail2(r, w)),
                len, Used(r, w))
  BY PipeAssumption DEF Cells, Part1, Part2, Avail1, Avail2, Used, Fits

\* Both ways the code computes a new offset amount to a wrapped addition.
LEMMA AdvanceWraps ==
    ASSUME NEW off \in Cells, NEW n1 \in Nat, NEW n2 \in Nat,
           NEW len, NEW room, Fits(off, n1, n2, len, room)
    PROVE  /\ Advance(off, n1, n2) = Wrap(off + n1 + n2)
           /\ Advance(off, n1, n2) \in Cells
<1>1. off + n1 \in 0..Capacity  BY PipeAssumption DEF Cells, Fits
<1>2. (off + n1) % Capacity = IF off + n1 = Capacity THEN 0 ELSE off + n1
  BY <1>1, MaskWraps
<1> QED  BY <1>2, PipeAssumption DEF Cells, Advance, Wrap, Fits

\* Moving an offset forward by n cells changes the distance between the
\* offsets by n.
LEMMA UsedMoves ==
    ASSUME NEW r \in Cells, NEW w \in Cells, NEW n \in Nat
    PROVE  /\ Used(r, w) \in Cells
           /\ n <= Capacity - 1 - Used(r, w) => Used(r, Wrap(w + n)) = Used(r, w) + n
           /\ n <= Used(r, w) => Used(Wrap(r + n), w) = Used(r, w) - n
           /\ Wrap(r + Used(r, w)) = w
  BY PipeAssumption DEF Cells, Used, Wrap

------------------------------------------------------------------------------
\* Every variable keeps its type; in particular the offsets stay inside the
\* buffer and write_to_channel's remaining length never goes negative.
THEOREM TypeCorrect == Spec => []TypeOK
<1>1. Init => TypeOK
  BY PipeAssumption DEF Init, TypeOK, Cells
<1>2. TypeOK /\ [Next]_vars => TypeOK'
  <2> SUFFICES ASSUME TypeOK, [Next]_vars  PROVE TypeOK'
      OBVIOUS
  <2> USE DEF TypeOK
  <2>s. Fits(swo, S1, S2, slen, Capacity - 1 - Used(sro, swo))
    BY SinkSpans DEF S1, S2
  <2>r. Fits(rro, R1, R2, rlen, Used(rro, rwo))
    BY ReadSpans DEF R1, R2
  <2>1. ASSUME NEW n \in 1..MaxBytes, WriteToChannel(n)  PROVE TypeOK'
    BY <2>1, PipeAssumption DEF WriteToChannel, shared, readVars
  <2>2. CASE SinkSample  BY <2>2 DEF SinkSample, shared, readVars
  <2>3. CASE SinkFull
    BY <2>3 DEF SinkFull, vars, shared, sinkVars, readVars
  <2>4. CASE SinkCopy
    <3>1. ASSUME NEW i \in Cells
          PROVE  (IF swo <= i /\ i < swo + S1 THEN put + 1 + (i - swo)
                  ELSE IF i < S2 THEN put + 1 + S1 + i ELSE buffer[i]) \in Nat
      <4>1. i \in Nat /\ swo \in Nat /\ S1 \in Nat /\ S2 \in Nat
        BY <2>s, PipeAssumption DEF Cells, Fits
      <4>2. buffer[i] \in Nat  BY <3>1
      <4> HIDE DEF TypeOK
      <4>3. put \in Nat  BY DEF TypeOK
      <4> QED  BY <4>1, <4>2, <4>3
    <3>2. buffer' \in [Cells -> Nat]  BY <2>4, <3>1 DEF SinkCopy
    <3> QED  BY <2>4, <3>2 DEF SinkCopy, readVars
  <2>5. CASE SinkCommit
    <3>1. Advance(swo, S1, S2) \in Cells  BY <2>s, AdvanceWraps DEF Fits
    <3> QED  BY <2>5, <2>s, <3>1 DEF Fits, SinkCommit, readVars
  <2>6. CASE SinkReturn
    <3>1. 0 \in Cells  BY PipeAssumption DEF Cells
    <3>2. slen' \in Nat /\ sem_read' \in Nat  BY <2>6, <2>s DEF SinkReturn, Fits
    <3> QED  BY <2>6, <3>1, <3>2 DEF SinkReturn, readVars
  <2>7. ASSUME NEW len \in 0..MaxRead, ReadCall(len)  PROVE TypeOK'
    BY <2>7, PipeAssumption DEF ReadCall, shared, sinkVars
  <2>8. CASE ReadSample  BY <2>8 DEF ReadSample, shared, sinkVars
  <2>9. CASE ReadWake  BY <2>9 DEF ReadWake, sinkVars
  <2>10. CASE ReadCopy
    <3> DEFINE t == [i \in 1..(R1 + R2) |->
                       IF i <= R1 THEN buffer[rro + i - 1] ELSE buffer[i - R1 - 1]]
    <3>1. ASSUME NEW i \in 1..(R1 + R2)  PROVE t[i] \in Nat
      <4>1. IF i <= R1 THEN rro + i - 1 \in Cells ELSE i - R1 - 1 \in Cells
        BY <2>r, PipeAssumption DEF Cells, Fits
      <4>2. t[i] = IF i <= R1 THEN buffer[rro + i - 1] ELSE buffer[i - R1 - 1]
        OBVIOUS
      <4> HIDE DEF t
      <4> QED  BY <4>1, <4>2
    <3>2. R1 + R2 \in Nat  BY <2>r DEF Fits
    <3>3. t \in Seq(Nat)
      BY <3>1, <3>2
    <3>4. got' \in Seq(Nat)
      BY <2>10, <3>3 DEF ReadCopy
    <3> QED  BY <2>10, <3>4 DEF ReadCopy, shared, sinkVars
  <2>11. CASE ReadCommit
    <3>1. Advance(rro, R1, R2) \in Cells  BY <2>r, AdvanceWraps DEF Fits
    <3>2. 0 \in Cells  BY PipeAssumption DEF Cells
    <3> QED  BY <2>11, <3>1, <3>2 DEF ReadCommit, sinkVars
  <2>12. CASE UNCHANGED vars
    BY <2>12 DEF vars, shared, sinkVars, readVars
  <2> QED
    BY <2>1, <2>2, <2>3, <2>4, <2>5, <2>6, <2>7, <2>8, <2>9, <2>10, <2>11, <2>12
    DEF Next
<1> QED  BY <1>1, <1>2, PTL DEF Spec

------------------------------------------------------------------------------
(* The order of the bytes.                                                 *)

\* What the sink copies lies outside the unread cells and outside itself.
LEMMA SinkMissesUnread ==
    ASSUME NEW r \in Cells, NEW w \in Cells, NEW n1 \in Nat, NEW n2 \in Nat,
           NEW len, NEW room, Fits(w, n1, n2, len, room),
           n1 + n2 <= Capacity - 1 - Used(r, w),
           NEW j \in 0..(Used(r, w) - 1)
    PROVE  /\ Wrap(r + j) \in Cells
           /\ ~ (w <= Wrap(r + j) /\ Wrap(r + j) < w + n1)
           /\ ~ (Wrap(r + j) < n2)
  BY PipeAssumption DEF Cells, Used, Wrap, Fits

\* The j-th cell past an offset lies in the first span or, past the end of the
\* buffer, in the second.
LEMMA SpanCell ==
    ASSUME NEW off \in Cells, NEW n1 \in Nat, NEW n2 \in Nat,
           NEW len, NEW room, Fits(off, n1, n2, len, room), n1 + n2 < Capacity,
           NEW j \in 0..(n1 + n2 - 1)
    PROVE  /\ Wrap(off + j) \in Cells
           /\ j < n1 => Wrap(off + j) = off + j
           /\ ~ (j < n1) => /\ Wrap(off + j) = j - n1
                            /\ Wrap(off + j) < off /\ Wrap(off + j) < n2
  BY PipeAssumption DEF Cells, Wrap, Fits

\* Walking on from an offset that has moved is walking on from where it was.
LEMMA WrapMoves ==
    ASSUME NEW r \in Cells, NEW n \in 0..Capacity, NEW j \in 0..Capacity,
           n + j < Capacity
    PROVE  Wrap(Wrap(r + n) + j) = Wrap(r + (n + j))
  BY PipeAssumption DEF Cells, Wrap

\* What holds of the sizes of the two copies in every state.
LEMMA Spans ==
    ASSUME TypeOK
    PROVE  /\ Fits(swo, S1, S2, slen, Capacity - 1 - Used(sro, swo))
           /\ Fits(rro, R1, R2, rlen, Used(rro, rwo))
           /\ S1 \in Nat /\ S2 \in Nat /\ R1 \in Nat /\ R2 \in Nat
           /\ S1 + S2 <= Capacity - 1 - Used(sro, swo)
           /\ R1 + R2 <= Used(rro, rwo)
           /\ Used(sro, swo) \in Cells /\ Used(rro, rwo) \in Cells
           /\ Used(read_offset, write_offset) \in Cells
<1>1. Fits(swo, S1, S2, slen, Capacity - 1 - Used(sro, swo))
  BY SinkSpans DEF TypeOK, S1, S2
<1>2. Fits(rro, R1, R2, rlen, Used(rro, rwo))
  BY ReadSpans DEF TypeOK, R1, R2
<1>3. /\ Used(sro, swo) \in Cells /\ Used(rro, rwo) \in Cells
      /\ Used(read_offset, write_offset) \in Cells
  <2>1. 0 \in Nat  OBVIOUS
  <2> QED  BY <2>1, UsedMoves DEF TypeOK
<1> QED  BY <1>1, <1>2, <1>3 DEF Fits

\* Steps that touch neither the buffer, the offsets nor the two histories keep
\* the order of the bytes if they keep what is known of the samples.
LEMMA QuietStep ==
    ASSUME RingInv, UNCHANGED <<buffer, read_offset, write_offset, put, got>>,
           Released' = Released, SinkSampled', ReadSampled', Copied'
    PROVE  RingInv'
  BY DEF RingInv, InOrder, Balance, Unread

\* The ring's inductive invariant: whatever the preemption, the cells between
\* the offsets hold exactly the unread bytes, in order.
THEOREM RingInvariant == Spec => []RingInv
<1>1. Init => RingInv
  <2> SUFFICES ASSUME Init  PROVE RingInv
      OBVIOUS
  <2>1. Len(got) = 0 /\ Released = 0  BY DEF Init, Released
  <2>2. Used(read_offset, write_offset) = 0  BY DEF Init, Used
  <2>3. InOrder  BY <2>1 DEF InOrder
  <2>4. Balance /\ Unread  BY <2>1, <2>2 DEF Init, Balance, Unread
  <2> QED  BY <2>3, <2>4 DEF Init, RingInv, SinkSampled, ReadSampled, Copied
<1>2. TypeOK /\ TypeOK' /\ RingInv /\ [Next]_vars => RingInv'
  <2> SUFFICES ASSUME TypeOK, TypeOK', RingInv, [Next]_vars  PROVE RingInv'
      OBVIOUS
  <2> DEFINE U == Used(read_offset, write_offset)
  <2>s. /\ Fits(swo, S1, S2, slen, Capacity - 1 - Used(sro, swo))
        /\ Fits(rro, R1, R2, rlen, Used(rro, rwo))
        /\ S1 \in Nat /\ S2 \in Nat /\ R1 \in Nat /\ R2 \in Nat
        /\ S1 + S2 <= Capacity - 1 - Used(sro, swo)
        /\ R1 + R2 <= Used(rro, rwo)
        /\ Used(sro, swo) \in Cells /\ Used(rro, rwo) \in Cells /\ U \in Cells
    BY Spans
  <2>t. /\ read_offset \in Cells /\ write_offset \in Cells
        /\ put \in Nat /\ Len(got) \in Nat /\ Released \in Int
    BY <2>s DEF TypeOK, Released
  <2>1. ASSUME NEW n \in 1..MaxBytes, WriteToChannel(n)  PROVE RingInv'
    BY <2>1, QuietStep
    DEF WriteToChannel, shared, readVars, RingInv, SinkSampled, ReadSampled,
        Copied, Released, R1, R2
  <2>2. CASE SinkSample
    BY <2>2, <2>s, QuietStep
    DEF SinkSample, shared, readVars, RingInv, SinkSampled, ReadSampled, Copied,
        Released, R1, R2, Cells
  <2>3. CASE SinkFull
    BY <2>3, QuietStep
    DEF SinkFull, vars, shared, sinkVars, readVars, RingInv, SinkSampled,
        ReadSampled, Copied, Released, R1, R2, S1, S2
  <2>4. CASE SinkCopy
    <3>1. /\ UNCHANGED <<read_offset, write_offset, put, got, sro, swo, slen,
                         rpc, rro, rwo, rlen>>
          /\ spc = "copy" /\ spc' = "commit"
      BY <2>4 DEF SinkCopy, readVars
    <3>2. swo = write_offset /\ U <= Used(sro, swo)
      BY <3>1 DEF RingInv, SinkSampled
    <3>3. Released' = Released /\ S1' = S1 /\ S2' = S2
      BY <3>1 DEF Released, R1, R2, S1, S2
    <3>4. \A i \in Cells : buffer'[i] =
              IF swo <= i /\ i < swo + S1 THEN put + 1 + (i - swo)
              ELSE IF i < S2 THEN put + 1 + S1 + i ELSE buffer[i]
      BY <2>4 DEF SinkCopy
    <3>5. Unread'
      <4> SUFFICES ASSUME NEW j \in 0..(U - 1)
                   PROVE  buffer'[Wrap(read_offset + j)] = Released + j + 1
          BY <3>1, <3>3 DEF Unread
      <4>1. S1 + S2 <= Capacity - 1 - U  BY <2>s, <3>2, PipeAssumption DEF Cells
      <4>2. /\ Wrap(read_offset + j) \in Cells
            /\ ~ (swo <= Wrap(read_offset + j) /\ Wrap(read_offset + j) < swo + S1)
            /\ ~ (Wrap(read_offset + j) < S2)
        BY <2>s, <2>t, <3>2, <4>1, SinkMissesUnread
      <4>3. buffer'[Wrap(read_offset + j)] = buffer[Wrap(read_offset + j)]
        BY <3>4, <4>2
      <4> QED  BY <4>3 DEF RingInv, Unread
    <3>6. Copied'
      <4> SUFFICES ASSUME NEW j \in 0..(S1 + S2 - 1)
                   PROVE  buffer'[Wrap(swo + j)] = put + j + 1
          BY <3>1, <3>2, <3>3 DEF Copied
      <4>1. S1 + S2 < Capacity  BY <2>s, PipeAssumption DEF Cells
      <4>2. /\ Wrap(swo + j) \in Cells
            /\ j < S1 => Wrap(swo + j) = swo + j
            /\ ~ (j < S1) => /\ Wrap(swo + j) = j - S1
                             /\ Wrap(swo + j) < swo /\ Wrap(swo + j) < S2
        BY <2>s, <2>t, <3>2, <4>1, SpanCell
      <4>3. j \in Int /\ swo \in Int  BY <2>s, <2>t, <3>2 DEF Cells
      <4>4. CASE j < S1
        BY <2>s, <2>t, <3>4, <4>2, <4>3, <4>4
      <4>5. CASE ~ (j < S1)
        BY <2>s, <2>t, <3>4, <4>2, <4>3, <4>5
      <4> QED  BY <4>4, <4>5
    <3> QED
      BY <3>1, <3>3, <3>5, <3>6
      DEF RingInv, InOrder, Balance, SinkSampled, ReadSampled
  <2>5. CASE SinkCommit
    <3>1. /\ UNCHANGED <<buffer, read_offset, got, rpc, rro, rwo, rlen>>
          /\ spc = "commit" /\ spc' = "post"
          /\ write_offset' = Advance(swo, S1, S2) /\ put' = put + S1 + S2
      BY <2>5 DEF SinkCommit, readVars
    <3>2. swo = write_offset /\ U <= Used(sro, swo)
      BY <3>1 DEF RingInv, SinkSampled
    <3>3. Released' = Released  BY <3>1 DEF Released, R1, R2
    <3>4. S1 + S2 <= Capacity - 1 - U  BY <2>s, <3>2, PipeAssumption DEF Cells
    <3>5. write_offset' = Wrap(write_offset + (S1 + S2))
      BY <2>s, <2>t, <3>1, <3>2, AdvanceWraps DEF Cells
    <3>6. U' = U + (S1 + S2)
      BY <2>s, <2>t, <3>1, <3>4, <3>5, UsedMoves
    <3>7. Unread'
      <4>u. Used(read_offset, write_offset)' = U + (S1 + S2)  BY <3>6
      <4> SUFFICES ASSUME NEW j \in 0..(Used(read_offset, write_offset)' - 1)
                   PROVE  buffer[Wrap(read_offset + j)] = Released + j + 1
          BY <3>1, <3>3 DEF Unread
      <4>j. j \in 0..(U + (S1 + S2) - 1)  BY <2>s, <4>u DEF Cells
      <4> HIDE DEF U
      <4>1. CASE j < U  BY <2>s, <4>j, <4>1 DEF RingInv, Unread, U, Cells
      <4>2. CASE ~ (j < U)
        <5>1. /\ j - U \in 0..(S1 + S2 - 1) /\ U \in 0..Capacity
              /\ j - U \in 0..Capacity /\ U + (j - U) = j /\ j < Capacity
          BY <2>s, <3>4, <4>j, <4>2, PipeAssumption DEF Cells
        <5>2. Wrap(read_offset + U) = write_offset
          BY <2>t, UsedMoves, 0 \in Nat DEF U
        <5>3. Wrap(write_offset + (j - U)) = Wrap(read_offset + j)
          BY <2>t, <5>1, <5>2, WrapMoves
        <5>4. buffer[Wrap(write_offset + (j - U))] = put + (j - U) + 1
          BY <3>1, <5>1 DEF RingInv, Copied
        <5>5. put - Released = U  BY DEF RingInv, Balance, U
        <5>6. put + (j - U) + 1 = Released + j + 1
          BY <2>s, <2>t, <4>j, <5>5 DEF Cells
        <5> QED  BY <5>3, <5>4, <5>6
      <4> QED  BY <4>1, <4>2
    <3>8. Balance'
      BY <2>s, <2>t, <3>1, <3>3, <3>6 DEF RingInv, Balance, Cells
    <3>9. ReadSampled'
      BY <2>s, <3>1, <3>6 DEF RingInv, ReadSampled, Cells
    <3> QED
      BY <3>1, <3>7, <3>8, <3>9 DEF RingInv, InOrder, SinkSampled, Copied
  <2>6. CASE SinkReturn
    BY <2>6, QuietStep
    DEF SinkReturn, readVars, RingInv, SinkSampled, ReadSampled, Copied,
        Released, R1, R2
  <2>7. ASSUME NEW len \in 0..MaxRead, ReadCall(len)  PROVE RingInv'
    BY <2>7, QuietStep
    DEF ReadCall, shared, sinkVars, RingInv, SinkSampled, ReadSampled, Copied,
        Released, S1, S2
  <2>8. CASE ReadSample
    BY <2>8, <2>s, QuietStep
    DEF ReadSample, shared, sinkVars, RingInv, SinkSampled, ReadSampled, Copied,
        Released, S1, S2, Cells
  <2>9. CASE ReadWake
    BY <2>9, QuietStep
    DEF ReadWake, sinkVars, RingInv, SinkSampled, ReadSampled, Copied, Released,
        S1, S2
  <2>10. CASE ReadCopy
    <3> DEFINE t == [i \in 1..(R1 + R2) |->
                       IF i <= R1 THEN buffer[rro + i - 1] ELSE buffer[i - R1 - 1]]
    <3>1. /\ UNCHANGED <<buffer, read_offset, write_offset, put, rro, rwo, rlen,
                         spc, sro, swo, slen>>
          /\ rpc = "copy" /\ rpc' = "commit" /\ got' = got \o t
      BY <2>10 DEF ReadCopy, shared, sinkVars
    <3>2. rro = read_offset /\ R1 + R2 <= U /\ Released = Len(got)
      BY <2>s, <3>1 DEF RingInv, ReadSampled, Released, Cells
    <3>3. t \in Seq(Nat) /\ Len(t) = R1 + R2 /\ got \in Seq(Nat)
      <4>1. \A k \in 1..(R1 + R2) : t[k] \in Nat
        <5> SUFFICES ASSUME NEW k \in 1..(R1 + R2)  PROVE t[k] \in Nat
            OBVIOUS
        <5>1. IF k <= R1 THEN rro + k - 1 \in Cells ELSE k - R1 - 1 \in Cells
          BY <2>s, <2>t, <3>2, PipeAssumption DEF Cells, Fits
        <5>2. t[k] = IF k <= R1 THEN buffer[rro + k - 1] ELSE buffer[k - R1 - 1]
          OBVIOUS
        <5> HIDE DEF t
        <5> QED  BY <5>1, <5>2 DEF TypeOK
      <4>2. R1 + R2 \in Nat  BY <2>s
      <4>3. t \in Seq(Nat) /\ Len(t) = R1 + R2  BY <4>1, <4>2
      <4> QED  BY <4>3 DEF TypeOK
    <3>4. \A k \in 1..(R1 + R2) : t[k] = Len(got) + k
      <4> SUFFICES ASSUME NEW k \in 1..(R1 + R2)  PROVE t[k] = Len(got) + k
          OBVIOUS
      <4>1. k - 1 \in 0..(R1 + R2 - 1) /\ k - 1 \in 0..(U - 1) /\ R1 + R2 < Capacity
        BY <2>s, <3>2, PipeAssumption DEF Cells
      <4>2. /\ k - 1 < R1 => Wrap(rro + (k - 1)) = rro + (k - 1)
            /\ ~ (k - 1 < R1) => Wrap(rro + (k - 1)) = (k - 1) - R1
        BY <2>s, <2>t, <3>2, <4>1, SpanCell
      <4>3. t[k] = buffer[Wrap(rro + (k - 1))]
        <5>1. t[k] = IF k <= R1 THEN buffer[rro + k - 1] ELSE buffer[k - R1 - 1]
          OBVIOUS
        <5> HIDE DEF t
        <5>2. /\ rro + k - 1 = rro + (k - 1) /\ k - R1 - 1 = (k - 1) - R1
              /\ k <= R1 <=> k - 1 < R1
          BY <2>s, <2>t, <3>2 DEF Cells
        <5> QED  BY <4>2, <5>1, <5>2
      <4> HIDE DEF t
      <4> QED  BY <2>t, <3>2, <4>1, <4>3 DEF RingInv, Unread
    <3> HIDE DEF t
    <3>5. InOrder'
      <4> SUFFICES ASSUME NEW i \in 1..Len(got \o t)  PROVE (got \o t)[i] = i
          BY <3>1 DEF InOrder
      <4>1. CASE i <= Len(got)
        BY <2>t, <3>3, <4>1 DEF RingInv, InOrder
      <4>2. CASE ~ (i <= Len(got))
        <5>1. i - Len(got) \in 1..(R1 + R2) /\ (got \o t)[i] = t[i - Len(got)]
          BY <2>s, <2>t, <3>3, <4>2
        <5> QED  BY <2>t, <3>4, <5>1
      <4> QED  BY <4>1, <4>2
    <3>6. Released' = Released
      <4>1. R1' = R1 /\ R2' = R2  BY <3>1 DEF R1, R2
      <4>2. Len(got \o t) = Len(got) + Len(t)  BY <3>3
      <4>3. Len(got') = Len(got) + (R1 + R2)  BY <3>1, <3>3, <4>2
      <4> QED  BY <2>s, <2>t, <3>1, <3>2, <4>1, <4>3 DEF Released
    <3> QED
      BY <3>1, <3>5, <3>6
      DEF RingInv, Balance, Unread, SinkSampled, ReadSampled, Copied, S1, S2
  <2>11. CASE ReadCommit
    <3>1. /\ UNCHANGED <<buffer, write_offset, put, got, spc, sro, swo, slen>>
          /\ rpc = "commit" /\ rpc' = "idle"
          /\ read_offset' = Advance(rro, R1, R2)
      BY <2>11 DEF ReadCommit, sinkVars
    <3>2. rro = read_offset /\ R1 + R2 <= U
      BY <2>s, <3>1 DEF RingInv, ReadSampled, Cells
    <3>3. Released' = Released + (R1 + R2)
      BY <2>s, <2>t, <3>1 DEF Released
    <3>4. read_offset' = Wrap(read_offset + (R1 + R2))
      BY <2>s, <2>t, <3>1, <3>2, AdvanceWraps DEF Cells
    <3>5. U' = U - (R1 + R2)
      BY <2>s, <2>t, <3>1, <3>2, <3>4, UsedMoves
    <3>6. Unread'
      <4> SUFFICES ASSUME NEW j \in 0..(U - (R1 + R2) - 1)
                   PROVE  buffer[Wrap(Wrap(read_offset + (R1 + R2)) + j)]
                            = Released + (R1 + R2) + j + 1
          BY <3>1, <3>3, <3>4, <3>5 DEF Unread
      <4>1. /\ (R1 + R2) + j \in 0..(U - 1) /\ R1 + R2 \in 0..Capacity
            /\ j \in 0..Capacity /\ (R1 + R2) + j < Capacity
        BY <2>s, PipeAssumption DEF Cells
      <4>2. Wrap(Wrap(read_offset + (R1 + R2)) + j) = Wrap(read_offset + ((R1 + R2) + j))
        BY <2>t, <4>1, WrapMoves
      <4>3. buffer[Wrap(read_offset + ((R1 + R2) + j))] = Released + ((R1 + R2) + j) + 1
        BY <4>1 DEF RingInv, Unread
      <4> QED  BY <2>s, <2>t, <4>2, <4>3
    <3>7. Balance'
      BY <2>s, <2>t, <3>1, <3>3, <3>5 DEF RingInv, Balance, Cells
    <3>8. SinkSampled'
      BY <2>s, <3>1, <3>5 DEF RingInv, SinkSampled, Cells
    <3> QED
      BY <3>1, <3>6, <3>7, <3>8 DEF RingInv, InOrder, ReadSampled, Copied, S1, S2
  <2>12. CASE UNCHANGED vars
    BY <2>12, QuietStep
    DEF vars, shared, sinkVars, readVars, RingInv, SinkSampled,
        ReadSampled, Copied, Released, R1, R2, S1, S2
  <2> QED
    BY <2>1, <2>2, <2>3, <2>4, <2>5, <2>6, <2>7, <2>8, <2>9, <2>10, <2>11, <2>12
    DEF Next
<1> QED  BY <1>1, <1>2, TypeCorrect, PTL DEF Spec

\* hostbridge_pipe_read delivers the host's bytes in order, with none lost,
\* repeated or overwritten.
THEOREM BytesInOrder == Spec => []InOrder
<1>1. RingInv => InOrder  BY DEF RingInv
<1> QED  BY <1>1, RingInvariant, PTL

\* The two memcpys never overlap, so it does not matter that neither thread
\* holds sem_lock while it copies.
THEOREM CopiesDisjoint == Spec => []NoTornCopy
<1>1. TypeOK /\ RingInv => NoTornCopy
  <2> SUFFICES ASSUME TypeOK, RingInv, spc = "copy", rpc = "copy",
                      NEW i \in WriteCells, i \in ReadCells
               PROVE  FALSE
      BY DEF NoTornCopy
  <2>1. /\ swo = write_offset /\ rro = read_offset
        /\ Used(rro, rwo) <= Used(rro, swo) /\ Used(rro, swo) <= Used(sro, swo)
    BY DEF RingInv, SinkSampled, ReadSampled
  <2>2. rro \in Cells /\ swo \in Cells /\ rwo \in Cells /\ sro \in Cells
    BY DEF TypeOK
  <2>3. /\ S1 + S2 <= Capacity - 1 - Used(rro, swo)
        /\ R1 + R2 <= Used(rro, swo) /\ Used(rro, swo) \in Cells
    BY <2>1, <2>2, Spans, PipeAssumption DEF Cells
  <2>4. PICK j \in 0..(R1 + R2 - 1) : i = Wrap(rro + j)
    <3>1. CASE i \in rro..(rro + R1 - 1)
      <4>1. i - rro \in 0..(R1 + R2 - 1) /\ i = Wrap(rro + (i - rro))
        BY <2>2, <3>1, Spans, PipeAssumption DEF Cells, Fits, Wrap
      <4> QED  BY <4>1
    <3>2. CASE i \in 0..(R2 - 1)
      <4>1. R1 + i \in 0..(R1 + R2 - 1) /\ i = Wrap(rro + (R1 + i))
        BY <2>2, <3>2, Spans, PipeAssumption DEF Cells, Fits, Wrap
      <4> QED  BY <4>1
    <3> QED  BY <3>1, <3>2 DEF ReadCells
  <2>5. j \in 0..(Used(rro, swo) - 1)
    BY <2>3, Spans DEF Cells
  <2>6. ~ (swo <= i /\ i < swo + S1) /\ ~ (i < S2)
    BY <2>2, <2>3, <2>4, <2>5, Spans, SinkMissesUnread
  <2> QED  BY <2>2, <2>6, Spans DEF WriteCells, Cells
<1> QED  BY <1>1, TypeCorrect, RingInvariant, PTL

\* The ring with its stale samples implements the abstract byte channel: its
\* users may think of a pipe as a queue of Capacity - 1 bytes.
THEOREM ImplementsByteChannel == Spec => ChannelSpec
<1>1. Init => Channel!Init
  BY DEF Init, Channel!Init
<1>2. TypeOK /\ TypeOK' /\ RingInv /\ RingInv' /\ [Next]_vars
        => [Channel!Next]_(Channel!vars)
  <2> SUFFICES ASSUME TypeOK, TypeOK', RingInv, RingInv', [Next]_vars
               PROVE  [Channel!Next]_(Channel!vars)
      OBVIOUS
  <2>1. CASE SinkCommit
    <3>1. /\ put' = put + S1 + S2 /\ UNCHANGED <<got, rpc, rro, rwo, rlen>>
          /\ S1 \in Nat /\ S2 \in Nat /\ R1 \in Nat /\ R2 \in Nat
      BY <2>1, Spans DEF SinkCommit, readVars
    <3>2. put' - Released' <= Capacity - 1 /\ Released' = Released
      <4>1. Used(read_offset, write_offset)' \in Cells
        BY UsedMoves, 0 \in Nat DEF TypeOK
      <4>2. put' - Released' = Used(read_offset, write_offset)'
        BY DEF RingInv, Balance
      <4> QED
        BY <3>1, <4>1, <4>2, PipeAssumption DEF Cells, Released, R1, R2
    <3>3. Released <= Len(got) /\ Released \in Int /\ Len(got) \in Nat /\ put \in Nat
      <4>1. Len(got) \in Nat /\ put \in Nat  BY DEF TypeOK
      <4> QED  BY <3>1, <4>1 DEF Released
    <3>4. put' \in put..(Len(got) + (Capacity - 1))
      BY <3>1, <3>2, <3>3, PipeAssumption
    <3> QED  BY <3>1, <3>4 DEF Channel!Next, Channel!Take
  <2>2. CASE ReadCopy
    <3>1. /\ put' = put /\ rpc = "copy" /\ rpc' = "commit"
          /\ UNCHANGED <<read_offset, rro, rwo, rlen>>
      BY <2>2 DEF ReadCopy, shared
    <3>2. Released = Len(got) /\ Released' = Len(got') - (R1 + R2)
      BY <3>1 DEF Released, R1, R2
    <3>3. put - Released = Used(read_offset, write_offset)
          /\ put' - Released' = Used(read_offset, write_offset)
      BY <2>2 DEF RingInv, Balance, ReadCopy, shared
    <3>4. R1 + R2 \in 0..Used(read_offset, write_offset)
      BY <3>1, Spans DEF RingInv, ReadSampled, Cells
    <3>5. Len(got') = Len(got) + (R1 + R2)
      <4>1. /\ put \in Nat /\ Len(got) \in Nat /\ Len(got') \in Nat
            /\ R1 + R2 \in Nat /\ Used(read_offset, write_offset) \in Int
        <5>1. put \in Nat /\ got \in Seq(Nat) /\ got' \in Seq(Nat)  BY DEF TypeOK
        <5> QED  BY <3>4, <5>1, Spans, LenProperties DEF Cells
      <4> QED  BY <3>1, <3>2, <3>3, <4>1
    <3>6. got' = [i \in 1..Len(got') |-> i]
      <4>1. got' = [i \in 1..Len(got') |-> got'[i]]
        <5>1. got' \in Seq(Nat)  BY DEF TypeOK
        <5>2. got' \in [1..Len(got') -> Nat]  BY <5>1, LenProperties
        <5> QED  BY <5>2, Zenon
      <4>2. \A i \in 1..Len(got') : got'[i] = i  BY DEF RingInv, InOrder
      <4> QED  BY <4>1, <4>2, Zenon
    <3>7. R1 + R2 \in 0..(put - Len(got))
      BY <3>2, <3>3, <3>4
    <3> QED  BY <3>1, <3>5, <3>6, <3>7 DEF Channel!Next, Channel!Give
  <2>3. ASSUME NEW n \in 1..MaxBytes, WriteToChannel(n)  PROVE UNCHANGED <<put, got>>
    BY <2>3 DEF WriteToChannel
  <2>4. ASSUME NEW len \in 0..MaxRead, ReadCall(len)  PROVE UNCHANGED <<put, got>>
    BY <2>4 DEF ReadCall
  <2>5. CASE \/ SinkSample \/ SinkFull \/ SinkCopy \/ SinkReturn
             \/ ReadSample \/ ReadWake \/ ReadCommit \/ UNCHANGED vars
    BY <2>5
    DEF SinkSample, SinkFull, SinkCopy, SinkReturn, ReadSample, ReadWake,
        ReadCommit, vars, Channel!vars
  <2> QED  BY <2>1, <2>2, <2>3, <2>4, <2>5 DEF Next, Channel!vars
<1> QED
  BY <1>1, <1>2, TypeCorrect, RingInvariant, PTL
  DEF Spec, ChannelSpec, Channel!Spec
==============================================================================
