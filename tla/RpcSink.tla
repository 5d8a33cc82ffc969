------------------------------- MODULE RpcSink -------------------------------
(***************************************************************************)
(* How peridot_rpc_server_sink puts a request together from the bytes of   *)
(* its channel: it undoes the framing, takes the length of the packet from *)
(* its first bytes, allocates a job that long, fills it, and publishes it  *)
(* in pending_job if the packet ends where its length says.  It stops, in  *)
(* the middle of what it was given, as soon as a job is pending, and the   *)
(* bridge offers the rest again.                                           *)
(*                                                                         *)
(* The host sends whole packets, of any size from HEADER bytes on: what a  *)
(* shorter one does is in RpcServer.  The length a packet starts with is   *)
(* any number, and the code takes it for a signed one: a negative length,  *)
(* or one below HEADER, makes the sink write behind the memory of its job. *)
(* From there on the code is undefined, and the model stops.               *)
(***************************************************************************)
EXTENDS AvalonSt

CONSTANTS HEADER,        \* bytes of the length, 4 in the code
          WORD,          \* how many values those bytes have, 2^32 in the code
          JOB,           \* sizeof(rpcsrv_job), which does not count the data
          MAX_LENGTH,    \* PERIDOT_RPCSRV_MAX_REQUEST_LENGTH
          Data,          \* bytes that packets are made of
          MaxPackets,    \* bound: how many packets the host sends
          MaxSize        \* bound: the longest packet

ASSUME RpcSinkAssumption ==
    /\ HEADER \in Nat \ {0} /\ MaxSize \in Nat /\ HEADER <= MaxSize
    /\ WORD \in Nat \ {0} /\ WORD = 256 ^ HEADER
    /\ JOB \in Nat /\ MAX_LENGTH \in Nat
    /\ 2 * MAX_LENGTH < WORD /\ 2 * MaxSize < WORD
    /\ MaxPackets \in Nat
    /\ Data \subseteq 0..255

VARIABLES
    input,              \* bytes of the packet that the sink has not consumed
    escape_prefix, eop_prefix, inside_packet, offset, length,
    incoming, pending,  \* bytes of incoming_job and pending_job, NULL for none
    jobs,               \* how many jobs are allocated
    overrun,            \* a byte was written behind the memory of incoming
    packets, memory,    \* packets sent; whether there is memory for the last one
    expected, received  \* history: requests sent, and those a worker took

NULL == << >>           \* no job: a job holds its header at least

framing == <<escape_prefix, eop_prefix, inside_packet>>
history == <<packets, memory, expected, received>>
vars == <<input, framing, offset, length, incoming, pending, jobs, overrun, history>>

Init ==
    /\ input = << >>
    /\ escape_prefix = FALSE /\ eop_prefix = FALSE /\ inside_packet = FALSE
    /\ offset = 0 /\ length = [i \in 1..HEADER |-> 0]
    /\ incoming = NULL /\ pending = NULL /\ jobs = 0 /\ overrun = FALSE
    /\ packets = 0 /\ memory = TRUE /\ expected = << >> /\ received = << >>

\* state.length.value, its bytes in little-endian order, as the comparisons
\* with state.offset, a size_t, take it,
Value(bytes) == FoldRight(LAMBDA b, v : b + 256 * v, bytes, 0) % WORD

\* and as it is declared, an alt_32.
Signed(v) == IF 2 * v < WORD THEN v ELSE v - WORD

\* The length passes the limit, and malloc(sizeof(rpcsrv_job) + length) returns
\* memory: a sum below zero is nearly all of the address space.
Gets(len) ==
    /\ Signed(Value(len)) <= MAX_LENGTH
    /\ Signed(Value(len)) + JOB >= 0
    /\ memory

------------------------------------------------------------------------------
\* A packet is a request if its first bytes say how long it is and the server
\* accepts that length.
IsRequest(p) == Value(SubSeq(p, 1, HEADER)) = Len(p) /\ Len(p) <= MAX_LENGTH

HostPackets == {p \in SeqOf(Data, MaxSize) : Len(p) >= HEADER}

\* The host sends packet p; ok: there will be memory for it.
HostPacket(p, ok) ==
    /\ input = << >> /\ packets < MaxPackets
    /\ input' = Packet(p)
    /\ packets' = packets + 1 /\ memory' = ok
    /\ expected' = IF IsRequest(p) /\ ok THEN Append(expected, p) ELSE expected
    /\ UNCHANGED <<framing, offset, length, incoming, pending, jobs, overrun, received>>

------------------------------------------------------------------------------
(* One turn of the loop in the sink.                                       *)

\* The next byte, which is consumed only while no job is pending.
Take(b) == pending = NULL /\ input # << >> /\ b = Head(input) /\ input' = Tail(input)

\* Mutant: the end prefix of an earlier packet is not forgotten.
SinkSopKeepsEop ==
    /\ Take(SOP)
    /\ offset' = 0 /\ inside_packet' = TRUE
    /\ UNCHANGED <<escape_prefix, eop_prefix, length, incoming, pending, jobs, overrun,
                   history>>

SinkSop ==
    /\ Take(SOP)
    /\ offset' = 0 /\ inside_packet' = TRUE /\ eop_prefix' = FALSE
    /\ UNCHANGED <<escape_prefix, length, incoming, pending, jobs, overrun, history>>

SinkEop ==
    /\ Take(EOP)
    /\ eop_prefix' = TRUE
    /\ UNCHANGED <<escape_prefix, inside_packet, offset, length, incoming, pending,
                   jobs, overrun, history>>

SinkEscape ==
    /\ Take(ESCAPE)
    /\ escape_prefix' = TRUE
    /\ UNCHANGED <<eop_prefix, inside_packet, offset, length, incoming, pending,
                   jobs, overrun, history>>

\* Any other byte, and its value once its escape is undone.
TakeByte ==
    /\ input # << >> /\ Head(input) \notin {SOP, EOP, ESCAPE} /\ Take(Head(input))
    /\ escape_prefix' = FALSE
Byte == IF escape_prefix THEN Xor20(Head(input)) ELSE Head(input)

\* drop_packet and next_packet: no job is left, the next packet is awaited.
NextPacket == incoming' = NULL /\ offset' = 0 /\ eop_prefix' = FALSE /\ inside_packet' = FALSE

SinkOutside ==
    /\ TakeByte
    /\ ~ inside_packet
    /\ UNCHANGED <<eop_prefix, inside_packet, offset, length, incoming, pending,
                   jobs, overrun, history>>

\* Mutant: the job of a packet that ends too early is not freed.
FinishNoFree(off, len, job, n) ==
    IF ~ eop_prefix
      THEN /\ offset' = off /\ incoming' = job /\ jobs' = n
           /\ UNCHANGED <<eop_prefix, inside_packet, pending>>
      ELSE /\ NextPacket
           /\ jobs' = n
           /\ IF off = Value(len) THEN pending' = job ELSE UNCHANGED pending

\* Mutant: a packet that ends too early is not dropped.
FinishAnySize(off, len, job, n) ==
    IF ~ eop_prefix
      THEN /\ offset' = off /\ incoming' = job /\ jobs' = n
           /\ UNCHANGED <<eop_prefix, inside_packet, pending>>
      ELSE NextPacket /\ pending' = job /\ jobs' = n

\* After a byte of the packet: offset, length, the job and the number of jobs
\* are off, len, job and n.  At the packet's end the job is published or freed.
Finish(off, len, job, n) ==
    IF ~ eop_prefix
      THEN /\ offset' = off /\ incoming' = job /\ jobs' = n
           /\ UNCHANGED <<eop_prefix, inside_packet, pending>>
      ELSE /\ NextPacket
           /\ IF off = Value(len)
                THEN pending' = job /\ jobs' = n
                ELSE UNCHANGED pending /\ jobs' = IF job = NULL THEN n ELSE n - 1

\* The bytes of the length are complete, and there is a job for it.
Allocates(len) == offset + 1 = HEADER /\ Gets(len)

\* A byte of the length; the last one allocates the job, and data.words[0] goes
\* into it, however small it is.
SinkHeader ==
    /\ TakeByte
    /\ inside_packet /\ offset < HEADER
    /\ length' = [length EXCEPT ![offset + 1] = Byte]
    /\ overrun' = (Allocates(length') /\ Signed(Value(length')) < HEADER)
    /\ IF Allocates(length')
         THEN Finish(offset + 1, length', length', jobs + 1)
         ELSE Finish(offset + 1, length', incoming, jobs)
    /\ UNCHANGED history

\* Mutant: one more byte fits.
FullOffByOne == offset > Value(length)

Full == offset >= Value(length)

\* "Packet data too large"
SinkTooLarge ==
    /\ TakeByte
    /\ inside_packet /\ offset >= HEADER /\ Full
    /\ NextPacket
    /\ jobs' = IF incoming = NULL THEN jobs ELSE jobs - 1
    /\ UNCHANGED <<length, pending, overrun, history>>

SinkBody ==
    /\ TakeByte
    /\ inside_packet /\ offset >= HEADER /\ ~ Full
    /\ overrun' = (incoming # NULL /\ offset + 1 > Signed(Value(length)))
    /\ IF incoming = NULL THEN Finish(offset, length, NULL, jobs)
                          ELSE Finish(offset + 1, length, Append(incoming, Byte), jobs)
    /\ UNCHANGED <<length, history>>

------------------------------------------------------------------------------
\* A worker takes the job, and frees it after it has answered.
Service ==
    /\ pending # NULL
    /\ received' = Append(received, pending)
    /\ pending' = NULL /\ jobs' = jobs - 1
    /\ UNCHANGED <<input, framing, offset, length, incoming, overrun, packets, memory,
                   expected>>

SinkAct ==
    \/ SinkSop \/ SinkEop \/ SinkEscape
    \/ SinkOutside \/ SinkHeader \/ SinkTooLarge \/ SinkBody

Next ==
    /\ ~ overrun
    /\ \/ \E p \in HostPackets, ok \in BOOLEAN : HostPacket(p, ok)
       \/ SinkAct
       \/ Service

Spec == Init /\ [][Next]_vars

------------------------------------------------------------------------------
TypeOK ==
    /\ input \in Seq(0..255)
    /\ framing \in BOOLEAN \X BOOLEAN \X BOOLEAN
    /\ offset \in 0..MaxSize /\ length \in [1..HEADER -> 0..255]
    /\ incoming \in Seq(0..255) /\ pending \in Seq(0..255)
    /\ jobs \in {0, 1} /\ overrun \in BOOLEAN
    /\ packets \in 0..MaxPackets /\ memory \in BOOLEAN

\* The workers get the requests the host sent, each once, complete and in
\* order, and nothing made of a packet whose size is wrong, whatever byte the
\* sink stopped at because a job was pending.
RequestsInOrder ==
    IsPrefix(IF pending = NULL THEN received ELSE Append(received, pending), expected)

\* Once everything is consumed, no request is missing: a packet that was dropped
\* leaves nothing behind that spoils the next one.
NothingMissing == input = << >> /\ pending = NULL => received = expected

\* The bytes put into a job go where offset says, and the sink writes behind the
\* memory of a job only for a packet whose length, as a signed number, is less
\* than the bytes of the length: no other packet, whatever its length says and
\* however many bytes follow, makes it do so.
JobFits ==
    /\ incoming # NULL => Len(incoming) = offset
    /\ overrun => Signed(Value(length)) < HEADER

\* There is a job exactly while one is being filled or is pending: of a host that
\* sends whole packets, one that is too short or too long for its length is
\* dropped, at whatever byte, without leaking the job it got.
JobFreed == jobs = IF incoming # NULL \/ pending # NULL THEN 1 ELSE 0
==============================================================================
