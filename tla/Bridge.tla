-------------------------------- MODULE Bridge --------------------------------
(***************************************************************************)
(* The bridge as a whole: one thread takes what the host sends, byte by    *)
(* byte in the order in which it was sent, and hands each byte to the sink *)
(* of the channel that the host has selected (service, find_channel and    *)
(* write_to_channel of peridot_sw_hostbridge_gen2.c).  A sink that does    *)
(* not take its byte is offered it again, and nobody else gets anything    *)
(* meanwhile: the RPC server's sink takes none while a job is pending, and *)
(* a pipe's none while the pipe is full.                                   *)
(*                                                                         *)
(* The channels are the RPC server, as in RpcServer, and the pipes that    *)
(* threads make with mkpipe while the bridge is running, each of which     *)
(* keeps the promise of ByteChannel, and no better one: its sink wakes the *)
(* reader only if it found the pipe empty before it put the byte in.  A    *)
(* pipe is read by an application thread, or by RPC methods: then a worker *)
(* cannot return from a call before its byte has come through the same     *)
(* bridge as the requests.                                                 *)
(***************************************************************************)
EXTENDS RpcServer, FiniteSets

CONSTANTS Makers,       \* threads that call mkpipe; a pipe is named by its maker
          Numbers,      \* the channel numbers they may ask for
          RPC_CHANNEL,  \* PERIDOT_RPCSRV_CHANNEL
          Limit,        \* how many bytes a pipe can hold
          Setups,       \* the configurations, see below
          Patient,      \* whether the host minds how many requests are unanswered
          Reselects     \* whether it selects a new channel before its first byte

ASSUME BridgeAssumption ==
    /\ {"head", "rpc", "end", "none"} \cap Makers = {}
    /\ RPC_CHANNEL \in Nat /\ Numbers \subseteq Nat \ {RPC_CHANNEL}
    /\ Setups \subseteq
          [workers : SUBSET Workers,    \* the worker threads
           packets : 0..MaxPackets,     \* how many packets the host sends
           requests : SUBSET Requests,  \* what they may ask for
           sizes : SUBSET Sizes,
           makers : SUBSET Makers,      \* the threads that make a pipe
           bytes : Nat,                 \* bound: how many bytes the host sends to each
           reader : {"app", "method"}]  \* who reads the pipes
    /\ Limit \in Nat \ {0}
    /\ Patient \in BOOLEAN /\ Reselects \in BOOLEAN

VARIABLES
    setup,                  \* the configuration
    next,                   \* next[c]: where the next pointer of channel c, or of "head",
                            \*   which is state.channels, points to
    channels,               \* the channels that are reached from state.channels
    mpc, number, prev,      \* each maker: its pc, its channel's number, the pointer
                            \*   that it has walked to
    raced,                  \* history: makers that were registering at the same time
    wire,                   \* the byte the host has sent and no sink has taken
    selected, sink_channel, \* the number of the last channel prefix, the channel
    put, got,               \* of each pipe, as in ByteChannel
    posts, asleep,          \* of each pipe: sem_read, and whether its reader waits for it
    missed,                 \* history: pipes with a byte put in after the sink had seen
                            \*   another that was read meanwhile, and unread since
    ppc,                    \* bridge thread: the place in the sink of a pipe
    offered,                \* offered[m]: bytes that will find the pipe m, in it or sent
    reads                   \* reads[p]: the pipe that p's method has still to read

makerVars == <<next, channels, mpc, number, prev, raced>>
pipeVars == <<put, got, posts, asleep, missed, ppc>>
hostVars == <<wire, selected, sink_channel, offered>>
bridgeVars == <<setup, makerVars, hostVars, pipeVars, reads>>
allVars == <<vars, bridgeVars>>

Pipe(m) == INSTANCE ByteChannel WITH put <- put[m], got <- got[m]

NoNumber == -1
Quiet == [to |-> NoNumber, select |-> FALSE]
Nodes == Makers \cup {"head", "rpc"}

BridgeInit ==
    /\ Init
    /\ setup \in Setups
    /\ next = [c \in Nodes |-> IF c = "head" THEN "rpc" ELSE "end"]
    /\ channels = <<"rpc">>
    /\ mpc = [m \in Makers |-> "idle"] /\ raced = {}
    /\ number = [m \in Makers |-> NoNumber] /\ prev = [m \in Makers |-> "head"]
    /\ wire = Quiet /\ selected = RPC_CHANNEL /\ sink_channel = "rpc"
    /\ put = [m \in Makers |-> 0] /\ got = [m \in Makers |-> << >>]
    /\ posts = [m \in Makers |-> 0] /\ asleep = [m \in Makers |-> FALSE]
    /\ missed = {} /\ ppc = "out"
    /\ offered = [m \in Makers |-> 0]
    /\ reads = [p \in Packets |-> "none"]

------------------------------------------------------------------------------
(* mkpipe and register_channel in the thread m.                            *)

Making(m) == mpc[m] \in {"walk", "link"}
Others(m) == {o \in Makers : o # m /\ Making(o)}

Mkpipe(m, n) ==
    /\ m \in setup.makers /\ mpc[m] = "idle"
    /\ number' = [number EXCEPT ![m] = n]
    /\ mpc' = [mpc EXCEPT ![m] = "walk"]
    /\ raced' = IF Others(m) = {} THEN raced ELSE raced \cup Others(m) \cup {m}
    /\ UNCHANGED <<vars, setup, next, channels, prev, hostVars, pipeVars, reads>>

NumberOf(c) == IF c = "rpc" THEN RPC_CHANNEL ELSE number[c]

\* Mutant: a number that is taken is not noticed.
TakenNot(m) == FALSE

\* The channel that m has come to has the number that m asks for.
Taken(m) == NumberOf(next[prev[m]]) = number[m]

\* One step along the list.
Walk(m) ==
    /\ mpc[m] = "walk" /\ next[prev[m]] # "end"
    /\ IF Taken(m)
         THEN mpc' = [mpc EXCEPT ![m] = "EEXIST"] /\ UNCHANGED prev
         ELSE prev' = [prev EXCEPT ![m] = next[@]] /\ UNCHANGED mpc
    /\ UNCHANGED <<vars, setup, next, channels, number, raced, hostVars, pipeVars, reads>>

WalkEnd(m) ==
    /\ mpc[m] = "walk" /\ next[prev[m]] = "end"
    /\ mpc' = [mpc EXCEPT ![m] = "link"]
    /\ UNCHANGED <<vars, setup, next, channels, number, prev, raced, hostVars, pipeVars, reads>>

\* "*prev = channel": what another thread has linked there meanwhile is lost, and
\* so is m's own channel if the one that prev is in has been lost.  A byte
\* underway gets to the pipe if its channel is still to be looked up.
Link(m) ==
    /\ mpc[m] = "link"
    /\ next' = [next EXCEPT ![prev[m]] = m]
    /\ \/ \E i \in DOMAIN channels :
             channels[i] = prev[m] /\ channels' = Append(SubSeq(channels, 1, i), m)
       \/ (\A i \in DOMAIN channels : channels[i] # prev[m]) /\ UNCHANGED channels
    /\ mpc' = [mpc EXCEPT ![m] = "made"]
    /\ offered' = [offered EXCEPT ![m] = IF wire = [to |-> number[m], select |-> TRUE]
                                           THEN 1 ELSE 0]
    /\ UNCHANGED <<vars, setup, number, prev, raced, wire, selected, sink_channel, pipeVars,
                   reads>>

Register(m) == Walk(m) \/ WalkEnd(m) \/ Link(m)

\* find_channel: the first channel of the list with that number.
Find(n) ==
    LET found == {i \in DOMAIN channels : NumberOf(channels[i]) = n}
    IN IF found = {} THEN "none"
       ELSE channels[CHOOSE i \in found : \A j \in found : i <= j]

------------------------------------------------------------------------------
(* The host.                                                               *)

\* The host sends a byte to channel n, after a channel prefix if another channel
\* is selected or this one is new.
HostSends(n, new) ==
    /\ wire = Quiet
    /\ wire' = [to |-> n, select |-> n # selected \/ (new /\ Reselects)]
    /\ UNCHANGED <<vars, setup, makerVars, selected, sink_channel, pipeVars, reads>>

\* Requests sent and not answered; a notification never is.
Unanswered == {p \in 1..cur : sent[p] = << >>}

\* A patient host begins a packet only while the workers and pending_job have
\* room for it.
MayBegin ==
    /\ cur < setup.packets
    /\ Patient => Cardinality(Unanswered) <= Cardinality(setup.workers)

HostRequest ==
    /\ spc \in {"idle", "post"} => MayBegin
    /\ HostSends(RPC_CHANNEL, FALSE) /\ UNCHANGED offered

\* A method that reads m still lacks its byte.
Lacks(m) == offered[m] = Len(got[m]) /\ \E p \in Packets : reads[p] = m

\* The pipes that are made under the number of m: bytes to the number are for
\* each of them as far as the host knows.
Namesakes(m) == {o \in Makers : mpc[o] = "made" /\ number[o] = number[m]}

HostPipe(m) ==
    /\ mpc[m] = "made" /\ offered[m] < setup.bytes
    /\ setup.reader = "app" \/ Lacks(m)
    /\ HostSends(number[m], \E o \in Namesakes(m) : offered[o] = 0)
    /\ offered' = [o \in Makers |-> IF o \in Namesakes(m) THEN offered[o] + 1 ELSE offered[o]]

\* The host does not know that the pipe is not yet made.
HostEarly(m) ==
    /\ Making(m) /\ Find(number[m]) = "none" /\ setup.bytes > 0
    /\ HostSends(number[m], FALSE) /\ UNCHANGED offered

Host == HostRequest \/ \E m \in Makers : HostPipe(m) \/ HostEarly(m)

------------------------------------------------------------------------------
(* The bridge thread.                                                      *)

\* Whether it is inside a sink's call.
InSink == spc = "post" \/ ppc # "out"

\* The channel prefix and the number before the byte.
SelectChannel ==
    /\ wire.select /\ ~ InSink
    /\ wire' = [to |-> wire.to, select |-> FALSE]
    /\ selected' = wire.to /\ sink_channel' = Find(wire.to)
    /\ UNCHANGED <<vars, setup, makerVars, offered, pipeVars, reads>>

\* The byte is one for the sink, and the sink takes it.
Offered(sink) == wire # Quiet /\ ~ wire.select /\ sink_channel = sink

Takes(sink) ==
    /\ Offered(sink)
    /\ wire' = Quiet
    /\ UNCHANGED <<setup, makerVars, selected, sink_channel, offered>>

Sinks(sink) == ~ InSink /\ Takes(sink)

\* A byte for nobody.
Drop == Sinks("none") /\ UNCHANGED <<vars, pipeVars, reads>>

\* What the method of a request reads: nothing, or one byte of a pipe that no
\* other unfinished request reads.
MayRead(r) ==
    {"none"} \cup
    {m \in Makers : /\ setup.reader = "method" /\ r.call = "sync"
                    /\ mpc[m] = "made" /\ Len(got[m]) < setup.bytes
                    /\ \A p \in Packets : reads[p] # m}

RpcSop(r, s, m) ==
    /\ Sinks("rpc") /\ m \in MayRead(r)
    /\ SinkSop(r, s)
    /\ reads' = [reads EXCEPT ![cur + 1] = m]
    /\ UNCHANGED pipeVars

\* A dropped packet's method does not run.
RpcByte ==
    /\ Sinks("rpc")
    /\ SinkHeader \/ SinkBare \/ SinkAccept \/ SinkDrop
    /\ reads' = IF spc' = "idle" THEN [reads EXCEPT ![cur] = "none"] ELSE reads
    /\ UNCHANGED pipeVars

\* The rest of the sink's call, in which the bridge thread does nothing else.
RpcPost == SinkPost /\ UNCHANGED bridgeVars

\* Mutant: a full pipe drops the byte ("Buffer overflow => Drop data").
PipeSampleDrops(m) ==
    /\ ~ InSink
    /\ IF put[m] < Len(got[m]) + Limit
         THEN /\ Offered(m)
              /\ ppc' = IF put[m] = Len(got[m]) THEN "empty" ELSE "data"
              /\ UNCHANGED <<setup, makerVars, hostVars>>
         ELSE Takes(m) /\ UNCHANGED ppc
    /\ UNCHANGED <<vars, put, got, posts, asleep, missed, reads>>

\* hostbridge_pipe_sink loads the offsets and finds room; whether they said that
\* the pipe is empty, it remembers.  While it finds none it is called again.
PipeSample(m) ==
    /\ ~ InSink /\ Offered(m)
    /\ put[m] < Len(got[m]) + Limit
    /\ ppc' = IF put[m] = Len(got[m]) THEN "empty" ELSE "data"
    /\ UNCHANGED <<vars, setup, makerVars, hostVars, put, got, posts, asleep, missed, reads>>

\* It copies the byte and publishes the offset.
PipeByte(m) ==
    /\ ppc \in {"empty", "data"} /\ Takes(m)
    /\ put' = [put EXCEPT ![m] = @ + 1] /\ UNCHANGED got
    /\ Pipe(m)!Take
    /\ ppc' = IF ppc = "empty" THEN "post" ELSE "out"
    /\ missed' = IF ppc = "data" /\ put[m] = Len(got[m]) THEN missed \cup {m} ELSE missed
    /\ UNCHANGED <<vars, posts, asleep, reads>>

\* Mutant: the reader is not woken.
PipePostNot(m) ==
    /\ ppc = "post" /\ sink_channel = m
    /\ ppc' = "out"
    /\ UNCHANGED <<vars, setup, makerVars, hostVars, put, got, posts, asleep, missed, reads>>

\* It wakes the reader of a pipe that was empty.
PipePost(m) ==
    /\ ppc = "post" /\ sink_channel = m
    /\ posts' = [posts EXCEPT ![m] = @ + 1] /\ ppc' = "out"
    /\ UNCHANGED <<vars, setup, makerVars, hostVars, put, got, asleep, missed, reads>>

BridgeThread ==
    \/ SelectChannel \/ Drop \/ RpcByte \/ RpcPost
    \/ \E r \in setup.requests, s \in setup.sizes, m \in Makers \cup {"none"} : RpcSop(r, s, m)
    \/ \E m \in Makers : PipeSample(m) \/ PipeByte(m) \/ PipePost(m)

------------------------------------------------------------------------------
(* The readers of the pipes, and the RPC server's threads.                 *)

\* Somebody reads n bytes of the pipe m.
Read(m, n) ==
    /\ ~ asleep[m] /\ Len(got[m]) + n <= put[m]
    /\ got' = [got EXCEPT ![m] = [i \in 1..(Len(@) + n) |-> i]]
    /\ UNCHANGED put
    /\ Pipe(m)!Give(n)
    /\ missed' = missed \ {m}
    /\ UNCHANGED <<posts, asleep, ppc>>

\* The pipe is empty: the reader waits for sem_read, and looks again.
Sleep(m) ==
    /\ ~ asleep[m] /\ put[m] = Len(got[m])
    /\ asleep' = [asleep EXCEPT ![m] = TRUE]
    /\ UNCHANGED <<put, got, posts, missed, ppc>>

Wake(m) ==
    /\ asleep[m] /\ posts[m] > 0
    /\ posts' = [posts EXCEPT ![m] = @ - 1]
    /\ asleep' = [asleep EXCEPT ![m] = FALSE]
    /\ UNCHANGED <<put, got, missed, ppc>>

\* The application thread of the pipe m reads it again and again.
Application(m) ==
    /\ setup.reader = "app" /\ mpc[m] = "made"
    /\ Sleep(m) \/ Wake(m) \/ \E n \in 1..Limit : Read(m, n)
    /\ UNCHANGED <<vars, setup, makerVars, hostVars, reads>>

\* The job of worker w has its method waiting for a pipe.
Reading(w) == wpc[w] = "call" /\ reads[wjob[w]] # "none"

MethodRead(w) ==
    /\ Reading(w)
    /\ \E m \in Makers :
          /\ m = reads[wjob[w]]
          /\ \/ Read(m, 1) /\ reads' = [reads EXCEPT ![wjob[w]] = "none"]
             \/ (Sleep(m) \/ Wake(m)) /\ UNCHANGED reads
    /\ UNCHANGED <<vars, setup, makerVars, hostVars>>

Worker(w) ==
    /\ w \in setup.workers
    /\ \/ MethodRead(w)
       \/ ~ Reading(w) /\ Service(w) /\ UNCHANGED bridgeVars

Callbacks(p) == Agent(p) /\ UNCHANGED bridgeVars

BridgeNext ==
    \/ \E m \in Makers : Register(m) \/ \E n \in Numbers : Mkpipe(m, n)
    \/ Host
    \/ BridgeThread
    \/ \E m \in Makers : Application(m)
    \/ \E w \in Workers : Worker(w)
    \/ \E p \in Packets : Callbacks(p)

BridgeSpec == BridgeInit /\ [][BridgeNext]_allVars

\* Threads are scheduled; an application goes on reading its pipe, as far as it is
\* awake, and the host sends the byte that a method lacks.  It need not send
\* anything else.
FairBridgeSpec ==
    /\ BridgeSpec
    /\ WF_allVars(BridgeThread)
    /\ \A m \in Makers :
          /\ WF_allVars(Register(m))
          /\ WF_allVars(Application(m))
          /\ WF_allVars(Lacks(m) /\ HostPipe(m))
    /\ \A w \in Workers : WF_allVars(Worker(w))
    /\ \A p \in Packets : WF_allVars(Callbacks(p))

------------------------------------------------------------------------------
\* A channel whose registration has succeeded, while no other thread registered
\* one, is the one that the bridge finds under its number ever after, however many
\* threads race for the list then: it is never cut off, and nobody gets its number.
RegisteredIsFound ==
    \A m \in Makers \ raced : mpc[m] = "made" => Find(number[m]) = m

\* "Register channel": it is registered whatever other threads do meanwhile.
RacedIsFound == \A m \in Makers : mpc[m] = "made" => Find(number[m]) = m

\* Bytes for the pipe m that are on the wire.
OnWire(m) == IF mpc[m] = "made" /\ wire.to = number[m] THEN 1 ELSE 0

\* Every byte that the host has sent to such a pipe since it was made is in the
\* pipe or still on the wire: none is dropped, at a full pipe neither, and none
\* goes to another channel.
NothingLost ==
    \A m \in Makers \ raced : offered[m] \in put[m]..(put[m] + OnWire(m))

\* The reader of the pipe m has emptied it after the sink had found it not empty,
\* and has gone to sleep on the byte that the sink then put in.
Overslept(m) == asleep[m] /\ posts[m] = 0 /\ m \in missed

\* The host is held up for ever by nothing else than a reader that oversleeps:
\* whatever it has sent is taken in the end, although a pending job or a full pipe
\* stops the bridge for all channels, and a method that waits for a pipe keeps its
\* worker from taking the next job.
WireFlows == wire # Quiet ~> (wire = Quiet \/ \E m \in Makers : Overslept(m))

------------------------------------------------------------------------------
(* Why the safety properties hold when the host selects new channels.      *)

Targets == Makers \cup {"rpc", "none"}

BridgeTypeOK ==
    /\ setup \in Setups
    /\ next \in [Nodes -> Makers \cup {"rpc", "end"}]
    /\ channels \in Seq(Makers \cup {"rpc"})
    /\ mpc \in [Makers -> {"idle", "walk", "link", "made", "EEXIST"}]
    /\ number \in [Makers -> Numbers \cup {NoNumber}]
    /\ \A m \in Makers : mpc[m] # "idle" => number[m] \in Numbers
    /\ prev \in [Makers -> Nodes] /\ raced \subseteq Makers
    /\ wire \in [to : Nat, select : BOOLEAN] \cup {Quiet} /\ selected \in Nat /\ sink_channel \in Targets
    /\ put \in [Makers -> Nat] /\ offered \in [Makers -> Nat]

\* channels is the list that the pointers make, from state.channels on; only what
\* is registered is in it, or was and has been cut off.
ListInv ==
    /\ Len(channels) > 0 /\ channels[1] = "rpc" /\ next["head"] = "rpc"
    /\ \A i, j \in DOMAIN channels : channels[i] = channels[j] => i = j
    /\ \A i \in DOMAIN channels :
          next[channels[i]] = IF i = Len(channels) THEN "end" ELSE channels[i + 1]
    /\ \A i \in DOMAIN channels : channels[i] = "rpc" \/ mpc[channels[i]] = "made"
    /\ \A m \in Makers :
          /\ mpc[m] # "made" => next[m] = "end"
          /\ prev[m] \in Makers => mpc[prev[m]] = "made"
          /\ mpc[m] = "idle" => prev[m] = "head"
          /\ mpc[m] = "link" => prev[m] # "head"
    /\ \A c \in Nodes : next[c] \in Makers => mpc[next[c]] = "made"

\* The i-th channel is m, the first with its number, and whoever is about to link
\* has walked past all that are before it.
Found(m, i) ==
    /\ channels[i] = m
    /\ \A j \in 1..(i - 1) :
          /\ NumberOf(channels[j]) # number[m]
          /\ \A o \in Makers : mpc[o] = "link" => prev[o] # channels[j]

\* m has walked past i channels of the list, to the last if it is about to link.
Walked(m, i) ==
    /\ prev[m] = IF i = 0 THEN "head" ELSE channels[i]
    /\ \A j \in 1..i : NumberOf(channels[j]) # number[m]
    /\ mpc[m] = "link" => i = Len(channels)

\* Who registers alone walks the list itself, and stays in it.
AloneInv ==
    \A m \in Makers \ raced :
        /\ Making(m) => Others(m) = {} /\ \E i \in 0..Len(channels) : Walked(m, i)
        /\ mpc[m] = "made" => \E i \in DOMAIN channels : Found(m, i)

\* What the bridge thread has selected is what the host thinks it has.
WireInv ==
    /\ wire = Quiet \/ wire.select \/ wire.to = selected
    /\ sink_channel = "rpc" => selected = RPC_CHANNEL
    /\ \A m \in Makers :
          /\ sink_channel = m => mpc[m] = "made" /\ selected = number[m]
          /\ mpc[m] # "made" => offered[m] = 0 /\ put[m] = 0
    /\ \A m \in Makers \ raced :
          mpc[m] = "made" =>
                /\ \/ offered[m] = put[m]
                   \/ wire.to = number[m] /\ offered[m] = put[m] + 1
                /\ wire.to = number[m] /\ (wire.select \/ sink_channel = m) =>
                      offered[m] = put[m] + 1
                /\ selected = number[m] /\ ~ wire.select /\ offered[m] > 0 =>
                      sink_channel = m
==============================================================================
