------------------------------ MODULE RpcServer ------------------------------
(***************************************************************************)
(* The RPC server of peridot_rpc_server.c in its multi-threaded build: the *)
(* bridge thread assembles packets into jobs and publishes them one at a   *)
(* time in pending_job; worker threads wait on sem, take the job, run the  *)
(* method and reply; an asynchronous method keeps the job and a callback   *)
(* replies later from a thread of its own.                                 *)
(*                                                                         *)
(* pending_job is not protected by a lock: loading it and clearing it are  *)
(* two steps, and so are publishing a job and posting sem.  A job is named *)
(* by the number of the packet it was allocated for, so a job that is used *)
(* after it was freed, freed twice, answered twice or leaked is visible.   *)
(* The bytes of a packet are the business of the packet assembly; here a   *)
(* packet is its header, its body and its end.                             *)
(***************************************************************************)
EXTENDS Integers, Sequences

CONSTANTS Workers,      \* the threads that call peridot_rpc_server_service
          MaxPackets,   \* bound: how many packets the host sends
          SurplusPosts  \* whether a packet may post sem without a job

ASSUME RpcAssumption ==
    /\ MaxPackets \in Nat
    /\ SurplusPosts \in BOOLEAN

Packets == 1..MaxPackets
NULL == 0

\* What a request asks for: it is malformed (does not parse or is no JSON-RPC
\* request) or calls an unknown, a synchronous or an asynchronous method; and
\* whether it has an id (a notification has none).
Requests == [call : {"malformed", "unknown", "sync", "async"}, id : BOOLEAN]

\* "ok": as long as its header says; "bare": the same, and only a header;
\* "big": longer than the server accepts; "wrong": ends too early or goes on too
\* long; "runt": ends inside the header at an offset that happens to equal the
\* (partly stale) length.
Sizes == {"ok", "bare", "big", "wrong"} \cup (IF SurplusPosts THEN {"runt"} ELSE {})

VARIABLES
    cur, spc, size,         \* bridge thread: packet number, place in it, its size
    request,                \* request[p]: what packet p asks for
    incoming, pending,      \* state.incoming_job, state.pending_job
    sem,                    \* state.sem
    mem,                    \* mem[p]: the memory of the job of packet p
    wpc, wjob, wres,        \* worker threads: pc, job, outcome to reply
    parked, sending,        \* async method: jobs it keeps, replies being sent
    accepted,               \* history: packets that became a pending job
    sent, lost              \* history: replies sent, and dropped for memory

sinkVars == <<cur, spc, size>>
workerVars == <<wpc, wjob, wres>>
asyncVars == <<parked, sending>>
history == <<accepted, sent, lost>>
vars == <<sinkVars, request, incoming, pending, sem, mem, workerVars,
          asyncVars, history>>

Init ==
    /\ cur = 0 /\ spc = "idle" /\ size = "ok"
    /\ request = [p \in Packets |-> [call |-> "sync", id |-> TRUE]]
    /\ incoming = NULL /\ pending = NULL /\ sem = 0
    /\ mem = [p \in Packets |-> "unused"]
    /\ wpc = [w \in Workers |-> "wait"]
    /\ wjob = [w \in Workers |-> NULL]
    /\ wres = [w \in Workers |-> "none"]
    /\ parked = {} /\ sending = {}
    /\ accepted = {} /\ sent = [p \in Packets |-> << >>] /\ lost = {}

------------------------------------------------------------------------------
(* peridot_rpc_server_sink, in the bridge thread.  Every byte is consumed  *)
(* only while no job is pending.                                           *)

\* What is only a header has no request in it.
SinkSop(r, s) ==
    /\ spc = "idle" /\ pending = NULL /\ cur < MaxPackets
    /\ s = "bare" => r.call = "malformed"
    /\ spc' = "header" /\ cur' = cur + 1 /\ size' = s
    /\ request' = [request EXCEPT ![cur + 1] = r]
    /\ UNCHANGED <<incoming, pending, sem, mem, workerVars, asyncVars, history>>

\* The fourth byte of the header: a job is allocated unless the packet is too
\* long or malloc fails.
SinkHeader ==
    /\ spc = "header" /\ pending = NULL /\ size \notin {"runt", "bare"}
    /\ spc' = "body"
    /\ \/ size # "big" /\ incoming' = cur /\ mem' = [mem EXCEPT ![cur] = "live"]
       \/ size # "big" /\ incoming' = NULL /\ UNCHANGED mem
       \/ size = "big" /\ UNCHANGED <<incoming, mem>>
    /\ UNCHANGED <<cur, size, request, pending, sem, workerVars, asyncVars, history>>

\* The last byte of a packet whose offset has reached its length.
SinkAccept ==
    /\ pending = NULL
    /\ \/ spc = "body" /\ size = "ok" /\ incoming # NULL
       \/ spc = "header" /\ size = "runt"
    /\ pending' = incoming /\ incoming' = NULL
    /\ spc' = "post"
    /\ accepted' = accepted \cup ({incoming} \ {NULL})
    /\ UNCHANGED <<cur, size, request, sem, mem, workerVars, asyncVars, sent, lost>>

\* A packet of the header alone ends with the byte at which its job is allocated:
\* offset is its length by then, with a job or without one.
SinkBare ==
    /\ spc = "header" /\ pending = NULL /\ size = "bare"
    /\ pending' \in {cur} \cup (IF SurplusPosts THEN {NULL} ELSE {})
    /\ mem' = IF pending' = NULL THEN mem ELSE [mem EXCEPT ![cur] = "live"]
    /\ accepted' = accepted \cup ({pending'} \ {NULL})
    /\ spc' = "post"
    /\ UNCHANGED <<cur, size, request, incoming, sem, workerVars, asyncVars, sent, lost>>

\* Mutant: the job is published and no worker is told.
SinkPostForgotten ==
    /\ spc = "post"
    /\ spc' = "idle"
    /\ UNCHANGED <<cur, size, request, incoming, pending, sem, mem, workerVars,
                   asyncVars, history>>

SinkPost ==
    /\ spc = "post"
    /\ sem' = sem + 1 /\ spc' = "idle"
    /\ UNCHANGED <<cur, size, request, incoming, pending, mem, workerVars,
                   asyncVars, history>>

Free(j) == [mem EXCEPT ![j] = "freed"]

\* drop_packet: a wrong size, or no job to put the bytes in.
SinkDrop ==
    /\ spc = "body" /\ pending = NULL /\ (size = "wrong" \/ incoming = NULL)
    /\ mem' = IF incoming = NULL THEN mem ELSE Free(incoming)
    /\ incoming' = NULL
    /\ spc' = "idle"
    /\ UNCHANGED <<cur, size, request, pending, sem, workerVars, asyncVars, history>>

------------------------------------------------------------------------------
(* peridot_rpc_server_service, in a worker thread.                         *)

Goto(w, pc) == wpc' = [wpc EXCEPT ![w] = pc]

Wait(w) ==
    /\ wpc[w] = "wait" /\ sem > 0
    /\ sem' = sem - 1
    /\ Goto(w, "load")
    /\ UNCHANGED <<sinkVars, request, incoming, pending, mem, wjob, wres,
                   asyncVars, history>>

Load(w) ==
    /\ wpc[w] = "load"
    /\ wjob' = [wjob EXCEPT ![w] = pending]
    /\ Goto(w, "clear")
    /\ UNCHANGED <<sinkVars, request, incoming, pending, sem, mem, wres,
                   asyncVars, history>>

\* Mutant: the slot is not cleared.
ClearNot(w) ==
    /\ wpc[w] = "clear"
    /\ Goto(w, IF wjob[w] = NULL THEN "wait" ELSE "call")
    /\ UNCHANGED <<sinkVars, request, incoming, pending, sem, mem, wjob, wres,
                   asyncVars, history>>

\* A worker that finds no job returns.
Clear(w) ==
    /\ wpc[w] = "clear"
    /\ pending' = NULL
    /\ Goto(w, IF wjob[w] = NULL THEN "wait" ELSE "call")
    /\ UNCHANGED <<sinkVars, request, incoming, sem, mem, wjob, wres,
                   asyncVars, history>>

\* Mutant: the worker keeps the pointer to the job it is done with.
LeaveStale(w) == Goto(w, "wait") /\ wres' = [wres EXCEPT ![w] = "none"] /\ UNCHANGED wjob

\* Worker w is done with its job.
Leave(w) ==
    /\ Goto(w, "wait")
    /\ wjob' = [wjob EXCEPT ![w] = NULL]
    /\ wres' = [wres EXCEPT ![w] = "none"]

\* The request is malformed: it is answered whether or not it has an id.
Malformed(w) ==
    /\ wpc[w] = "call" /\ request[wjob[w]].call = "malformed"
    /\ Goto(w, "reply")
    /\ wres' = [wres EXCEPT ![w] = "error"]
    /\ UNCHANGED <<sinkVars, request, incoming, pending, sem, mem, wjob,
                   asyncVars, history>>

\* How a method call can turn out; an asynchronous one only gets here when the
\* method refuses the request.
Outcomes(call) == IF call = "sync" THEN {"result", "error"} ELSE {"error"}

\* Mutants: every request is answered; none is.
AnsweredAlways(p) == TRUE
AnsweredNever(p) == FALSE

\* Whether the request in the job of packet p has an id to reply to.
HasId(p) == request[p].id

\* The method has run (or does not exist): reply, or for a notification free
\* the job and return.
Called(w, res) ==
    /\ wpc[w] = "call" /\ request[wjob[w]].call \in {"unknown", "sync", "async"}
    /\ res \in Outcomes(request[wjob[w]].call)
    /\ \/ /\ HasId(wjob[w])
          /\ Goto(w, "reply") /\ wres' = [wres EXCEPT ![w] = res]
          /\ UNCHANGED <<wjob, mem>>
       \/ ~ HasId(wjob[w]) /\ Leave(w) /\ mem' = Free(wjob[w])
    /\ UNCHANGED <<sinkVars, request, incoming, pending, sem, asyncVars, history>>

\* The asynchronous method keeps the job; its callback may run at once.
Park(w) ==
    /\ wpc[w] = "call" /\ request[wjob[w]].call = "async"
    /\ parked' = parked \cup {wjob[w]}
    /\ Goto(w, "queued")
    /\ UNCHANGED <<sinkVars, request, incoming, pending, sem, mem, wjob, wres,
                   sending, history>>

\* "Successfully queued": the service returns without touching the job.
Queued(w) ==
    /\ wpc[w] = "queued"
    /\ Leave(w)
    /\ UNCHANGED <<sinkVars, request, incoming, pending, sem, mem, asyncVars,
                   history>>

------------------------------------------------------------------------------
(* send_reply, which both a worker and a callback run.                     *)

\* A result that finds no memory becomes an error; an error that finds none is
\* dropped.
Built(res) == IF res = "result" THEN {"result", "error", "lost"} ELSE {"error", "lost"}

\* Build the reply and free the job.
Reply(w, out) ==
    /\ wpc[w] = "reply" /\ out \in Built(wres[w])
    /\ mem' = Free(wjob[w])
    /\ IF out = "lost"
         THEN Leave(w) /\ lost' = lost \cup {wjob[w]}
         ELSE /\ Goto(w, "send") /\ wres' = [wres EXCEPT ![w] = out]
              /\ UNCHANGED <<wjob, lost>>
    /\ UNCHANGED <<sinkVars, request, incoming, pending, sem, asyncVars,
                   accepted, sent>>

\* Hand the reply to the bridge.
Send(w) ==
    /\ wpc[w] = "send"
    /\ sent' = [sent EXCEPT ![wjob[w]] = Append(@, wres[w])]
    /\ Leave(w)
    /\ UNCHANGED <<sinkVars, request, incoming, pending, sem, mem, asyncVars,
                   accepted, lost>>

\* async_reply: the job's id is looked up again, and a notification only freed.
Callback(p, res, out) ==
    /\ p \in parked /\ out \in Built(res)
    /\ parked' = parked \ {p}
    /\ mem' = Free(p)
    /\ IF HasId(p)
         THEN IF out = "lost" THEN lost' = lost \cup {p} /\ UNCHANGED sending
                              ELSE sending' = sending \cup {<<p, out>>} /\ UNCHANGED lost
         ELSE UNCHANGED <<sending, lost>>
    /\ UNCHANGED <<sinkVars, request, incoming, pending, sem, workerVars,
                   accepted, sent>>

CallbackSend(m) ==
    /\ m \in sending
    /\ sending' = sending \ {m}
    /\ sent' = [sent EXCEPT ![m[1]] = Append(@, m[2])]
    /\ UNCHANGED <<sinkVars, request, incoming, pending, sem, mem, workerVars,
                   parked, accepted, lost>>

------------------------------------------------------------------------------
Sink == SinkHeader \/ SinkBare \/ SinkAccept \/ SinkPost \/ SinkDrop

Service(w) ==
    \/ Wait(w) \/ Load(w) \/ Clear(w) \/ Malformed(w)
    \/ \E res \in {"result", "error"} : Called(w, res)
    \/ Park(w) \/ Queued(w)
    \/ \E out \in {"result", "error", "lost"} : Reply(w, out)
    \/ Send(w)

Agent(p) ==
    \/ \E res \in {"result", "error"}, out \in {"result", "error", "lost"} :
          Callback(p, res, out)
    \/ \E out \in {"result", "error"} : CallbackSend(<<p, out>>)

Next ==
    \/ \E r \in Requests, s \in Sizes : SinkSop(r, s)
    \/ Sink
    \/ \E w \in Workers : Service(w)
    \/ \E p \in Packets : Agent(p)

Spec == Init /\ [][Next]_vars

\* Threads are scheduled, methods return and asynchronous ones call back; the
\* host need not send anything.
FairSpec ==
    /\ Spec
    /\ WF_vars(SinkPost)
    /\ \A w \in Workers : WF_vars(Service(w))
    /\ \A p \in Packets : WF_vars(Agent(p))

------------------------------------------------------------------------------
Pcs == {"wait", "load", "clear", "call", "queued", "reply", "send"}

TypeOK ==
    /\ cur \in 0..MaxPackets /\ spc \in {"idle", "header", "body", "post"}
    /\ size \in {"ok", "bare", "big", "wrong", "runt"}
    /\ request \in [Packets -> Requests]
    /\ incoming \in Packets \cup {NULL} /\ pending \in Packets \cup {NULL}
    /\ sem \in Nat
    /\ mem \in [Packets -> {"unused", "live", "freed"}]
    /\ wpc \in [Workers -> Pcs]
    /\ wjob \in [Workers -> Packets \cup {NULL}]
    /\ wres \in [Workers -> {"none", "result", "error"}]
    /\ parked \subseteq Packets
    /\ sending \subseteq Packets \X {"result", "error"}
    /\ accepted \subseteq Packets /\ lost \subseteq Packets
    /\ sent \in [Packets -> Seq({"result", "error"})]

\* Worker w is responsible for the job of packet p: it has cleared the slot it
\* loaded the job from, and has neither freed the job nor given it away.
Holds(w, p) == wjob[w] = p /\ wpc[w] \in {"call", "reply"}

\* Every live job is owned by the sink, the slot, an asynchronous method or a
\* worker, who will free it, and by only one of them, and no freed job is: a
\* job is never leaked, handled twice or freed twice, although pending_job is
\* handed over without a lock.
OneOwner ==
    \A p \in Packets :
        /\ mem[p] = "live" <=>
              \/ incoming = p \/ pending = p \/ p \in parked
              \/ \E w \in Workers : Holds(w, p)
        /\ ~ (incoming = p /\ pending = p)
        /\ p \in parked => incoming # p /\ pending # p
        /\ \A w \in Workers : Holds(w, p) =>
              /\ incoming # p /\ pending # p /\ p \notin parked
              /\ \A v \in Workers : Holds(v, p) => v = w

\* Worker w is about to hand a reply to packet p to the bridge.
Sending(w, p) == wjob[w] = p /\ wpc[w] = "send"

\* The job of packet p is freed and no reply to it is on its way.
Finished(p) ==
    /\ mem[p] = "freed"
    /\ \A w \in Workers : ~ Sending(w, p)
    /\ \A m \in sending : m[1] # p

Contract == INSTANCE RpcContract

\* At most one answer to a request, and none to a notification.
ContractSpec == Contract!Spec

\* A request that should be answered is answered exactly once by the time its job
\* is finished, or never, if memory ran out twice while the reply was built.
Answered ==
    \A p \in accepted :
        Finished(p) /\ Contract!WantsAnswer(request[p])
          => Len(sent[p]) = IF p \in lost THEN 0 ELSE 1

\* Every job published in pending_job is eventually finished, so that the
\* bridge thread, which waits for the slot, can go on.
JobsFinish == \A p \in Packets : pending = p ~> Finished(p)

\* "Invalid packet size => drop packet": a dropped packet wakes no worker, so
\* sem counts pending jobs only.
PostsAreJobs == sem > 0 => pending # NULL

------------------------------------------------------------------------------
(* Why OneOwner holds when no post is surplus.                             *)

\* Worker w has passed sem_wait and not yet cleared pending_job.
Taking(w) == wpc[w] \in {"load", "clear"}

\* While a job is pending there is one token for it, on its way from the sink
\* through sem to the worker that takes it.
SlotInv ==
    /\ sem \in {0, 1}
    /\ pending # NULL <=> spc = "post" \/ sem = 1 \/ \E w \in Workers : Taking(w)
    /\ spc = "post" => sem = 0 /\ \A w \in Workers : ~ Taking(w)
    /\ sem = 1 => \A w \in Workers : ~ Taking(w)
    /\ \A v, w \in Workers : Taking(v) /\ Taking(w) => v = w
    /\ \A w \in Workers : wpc[w] = "clear" => wjob[w] = pending

\* The sink has a job only inside a packet, and only that packet's.
SinkInv ==
    /\ size # "runt" /\ (size = "bare" => spc # "body")
    /\ spc # "idle" => cur \in Packets
    /\ spc # "body" => incoming = NULL
    /\ incoming \in {NULL, cur}
    /\ \A p \in Packets : p > cur \/ (p = cur /\ spc = "header") => mem[p] = "unused"
    /\ \A p \in accepted : p <= cur /\ mem[p] # "unused" /\ p # incoming

\* A worker has a job exactly while it is not waiting for one.
WorkerInv ==
    \A w \in Workers :
        /\ wpc[w] \in {"wait", "load"} => wjob[w] = NULL
        /\ wpc[w] \notin {"wait", "load"} => wjob[w] \in accepted
        /\ wpc[w] \in {"reply", "send"} =>
              wres[w] # "none" /\ Contract!WantsAnswer(request[wjob[w]])

\* A reply is sent by one thread, for a freed job that was not answered before.
ReplyInv ==
    /\ pending # NULL => pending \in accepted
    /\ \A p \in parked : p \in accepted /\ request[p].call = "async"
    /\ \A m \in sending :
          /\ m[1] \in accepted /\ Contract!WantsAnswer(request[m[1]])
          /\ mem[m[1]] = "freed" /\ sent[m[1]] = << >>
          /\ \A n \in sending : m[1] = n[1] => m = n
          /\ \A w \in Workers : ~ Sending(w, m[1])
    /\ \A p \in Packets :
          /\ mem[p] # "freed" => sent[p] = << >> /\ p \notin lost
          /\ Len(sent[p]) <= 1
          /\ p \in lost => /\ sent[p] = << >>
                           /\ \A m \in sending : m[1] # p
                           /\ \A w \in Workers : ~ Sending(w, p)
          /\ \A w \in Workers : Sending(w, p) =>
                /\ mem[p] = "freed" /\ sent[p] = << >>
                /\ \A v \in Workers : Sending(v, p) => v = w

RpcInv == SlotInv /\ SinkInv /\ WorkerInv /\ OneOwner /\ ReplyInv
==============================================================================
