---------------------------- MODULE Bridge_proofs ----------------------------
(***************************************************************************)
(* First, what the RPC server promises by itself: proofs about RpcServer   *)
(* for any number of workers and packets, when no post is surplus.         *)
(*                                                                         *)
(* Then, what it and the pipes promise in the running bridge: the server   *)
(* keeps all that was proved of it alone, since every step of the bridge   *)
(* is one of its steps or none; a channel that was registered alone stays  *)
(* registered; and no byte of its pipe is lost when the host selects a new *)
(* channel before it writes to it.                                         *)
(***************************************************************************)
EXTENDS Bridge, SequenceTheorems, WellFoundedInduction, TLAPS

------------------------------------------------------------------------------
(* The RPC server by itself.                                               *)

\* No step breaks the hand-over invariant.
LEMMA Inductive ==
    ASSUME SurplusPosts = FALSE, TypeOK, RpcInv, [Next]_vars
    PROVE  TypeOK' /\ RpcInv'
<1> USE RpcAssumption DEF NULL
<1>1. ASSUME NEW r \in Requests, NEW s \in Sizes, SinkSop(r, s)
      PROVE  TypeOK' /\ RpcInv'
  <2>e. /\ \A p \in Packets : p # cur + 1 => request'[p] = request[p]
        /\ \A p \in accepted : p \in Packets /\ p # cur + 1
        /\ UNCHANGED <<incoming, pending, mem, wpc, wjob, wres, parked, sending,
                       accepted, sent, lost>>
    BY <1>1 DEF SinkSop, workerVars, asyncVars, history, TypeOK, RpcInv, SinkInv, Packets
  <2>1. TypeOK'
    <3>1. request' \in [Packets -> Requests]  BY <1>1 DEF SinkSop, TypeOK
    <3> QED
      BY <1>1, <3>1
      DEF SinkSop, Sizes, workerVars, asyncVars, history, TypeOK, Packets
  <2>2. SlotInv'
    BY <1>1 DEF SinkSop, Sizes, workerVars, asyncVars, history, RpcInv,
        TypeOK, SlotInv, Taking
  <2>3. SinkInv'
    BY <1>1 DEF SinkSop, Sizes, workerVars, asyncVars, history, RpcInv,
        TypeOK, SinkInv, Packets
  <2>4. WorkerInv'
    BY <2>e DEF RpcInv, WorkerInv, Contract!WantsAnswer
  <2>5. OneOwner'
    BY <1>1 DEF SinkSop, Sizes, workerVars, asyncVars, history, RpcInv,
        TypeOK, OneOwner, Holds
  <2>6. ReplyInv'
    BY <2>e DEF RpcInv, ReplyInv, Sending, Contract!WantsAnswer
  <2> QED  BY <2>1, <2>2, <2>3, <2>4, <2>5, <2>6 DEF RpcInv
<1>2. CASE SinkHeader
  <2>e. /\ cur \in Packets /\ mem[cur] = "unused" /\ incoming = NULL /\ pending = NULL
        /\ \/ incoming' = cur /\ mem' = [mem EXCEPT ![cur] = "live"]
           \/ incoming' = NULL /\ mem' = mem
        /\ UNCHANGED <<pending, wpc, wjob, wres, parked, sending, accepted, sent, lost, request>>
    BY <1>2 DEF SinkHeader, workerVars, asyncVars, history, TypeOK, RpcInv, SinkInv, Packets
  <2>1. TypeOK'
    <3>1. mem' \in [Packets -> {"unused", "live", "freed"}]  BY <2>e DEF TypeOK
    <3> QED
      BY <1>2, <2>e, <3>1 DEF SinkHeader, workerVars, asyncVars, history, TypeOK
  <2>2. SlotInv'
    BY <1>2 DEF SinkHeader, workerVars, asyncVars, history, RpcInv, TypeOK,
        SlotInv, Taking
  <2>3. SinkInv'
    <3>1. /\ spc = "header" /\ size \notin {"runt", "bare"} /\ cur' = cur /\ size' = size
          /\ spc' = "body"
      BY <1>2, <2>e DEF SinkHeader, RpcInv, SinkInv
    <3>2. \A p \in Packets : p # cur => mem'[p] = mem[p]
      BY <2>e DEF TypeOK
    <3>3. \A p \in Packets : p > cur => mem'[p] = "unused"
      BY <2>e, <3>1, <3>2 DEF RpcInv, SinkInv, Packets
    <3>4. cur \notin accepted  BY <2>e DEF RpcInv, SinkInv
    <3>5. \A p \in accepted : p =< cur /\ mem'[p] # "unused" /\ p # incoming'
      BY <2>e, <3>2, <3>4 DEF RpcInv, SinkInv, TypeOK, Packets
    <3> QED  BY <2>e, <3>1, <3>3, <3>5 DEF SinkInv
  <2>4. WorkerInv'
    BY <1>2 DEF SinkHeader, workerVars, asyncVars, history, RpcInv, TypeOK,
        WorkerInv, Contract!WantsAnswer
  <2>5. OneOwner'
    <3>1. CASE mem' = mem /\ incoming' = NULL
      BY <2>e, <3>1 DEF RpcInv, OneOwner, Holds, Packets
    <3>2. CASE incoming' = cur /\ mem' = [mem EXCEPT ![cur] = "live"]
      <4>1. mem'[cur] = "live" /\ \A p \in Packets : p # cur => mem'[p] = mem[p]
        BY <2>e, <3>2 DEF TypeOK
      <4>2. \A p \in Packets : mem[p] = "live" => p # cur  BY <2>e
      <4>3. cur # NULL  BY <2>e DEF Packets
      <4>4. cur \notin parked /\ \A w \in Workers : ~ Holds(w, cur)
        BY <2>e DEF RpcInv, OneOwner
      <4> QED  BY <2>e, <3>2, <4>1, <4>2, <4>3, <4>4 DEF RpcInv, OneOwner, Holds
    <3> QED  BY <2>e, <3>1, <3>2
  <2>6. ReplyInv'
    <3>1. \A p \in Packets : /\ mem'[p] = "freed" <=> mem[p] = "freed"
                             /\ p = cur => mem[p] # "freed"
      BY <2>e DEF TypeOK
    <3>2. \A w \in Workers, p \in Packets : Sending(w, p)' <=> Sending(w, p)
      BY <2>e DEF Sending
    <3>3. accepted \subseteq Packets  BY DEF TypeOK
    <3>4. ASSUME NEW m \in sending'
          PROVE  /\ m[1] \in accepted' /\ Contract!WantsAnswer(request'[m[1]])
                 /\ mem'[m[1]] = "freed" /\ sent'[m[1]] = << >>
                 /\ \A n \in sending' : m[1] = n[1] => m = n
                 /\ \A w \in Workers : ~ Sending(w, m[1])'
      BY <2>e, <3>1, <3>2, <3>3, <3>4 DEF RpcInv, ReplyInv
    <3>5. ASSUME NEW p \in Packets
          PROVE  /\ mem'[p] # "freed" => sent'[p] = << >> /\ p \notin lost'
                 /\ Len(sent'[p]) <= 1
                 /\ p \in lost' => /\ sent'[p] = << >>
                                   /\ \A m \in sending' : m[1] # p
                                   /\ \A w \in Workers : ~ Sending(w, p)'
                 /\ \A w \in Workers : Sending(w, p)' =>
                       /\ mem'[p] = "freed" /\ sent'[p] = << >>
                       /\ \A v \in Workers : Sending(v, p)' => v = w
      BY <2>e, <3>1, <3>2 DEF RpcInv, ReplyInv
    <3>6. /\ pending' # NULL => pending' \in accepted'
          /\ \A p \in parked' : p \in accepted' /\ request'[p].call = "async"
      BY <2>e DEF RpcInv, ReplyInv
    <3> QED  BY <2>e, <3>3, <3>4, <3>5, <3>6 DEF ReplyInv, TypeOK
  <2> QED  BY <2>1, <2>2, <2>3, <2>4, <2>5, <2>6 DEF RpcInv
<1>3. CASE SinkAccept
  <2>e. /\ spc = "body" /\ incoming = cur /\ cur \in Packets /\ mem[cur] # "unused"
        /\ pending = NULL /\ pending' = cur /\ incoming' = NULL /\ spc' = "post"
        /\ accepted' = accepted \cup {cur}
        /\ UNCHANGED <<cur, size, sem, mem, wpc, wjob, wres>>
    <3>1. spc = "body" /\ incoming # NULL /\ incoming = cur
      BY <1>3 DEF SinkAccept, RpcInv, SinkInv
    <3>2. mem[cur] = "live"
      BY <3>1 DEF RpcInv, OneOwner, TypeOK
    <3> QED  BY <1>3, <3>1, <3>2 DEF SinkAccept, workerVars, TypeOK
  <2>1. TypeOK'
    BY <1>3 DEF SinkAccept, workerVars, asyncVars, history, RpcInv, TypeOK,
        Packets, Pcs
  <2>2. SlotInv'
    BY <2>e DEF RpcInv, SlotInv, Taking, Packets
  <2>3. SinkInv'
    <3>1. accepted \subseteq Packets  BY DEF TypeOK
    <3> QED  BY <2>e, <3>1 DEF RpcInv, SinkInv, TypeOK, Packets
  <2>4. WorkerInv'
    BY <1>3 DEF SinkAccept, workerVars, asyncVars, history, RpcInv, TypeOK,
        WorkerInv, Contract!WantsAnswer
  <2>5. OneOwner'
    BY <1>3 DEF SinkAccept, workerVars, asyncVars, history, RpcInv, TypeOK,
        OneOwner, Holds
  <2>6. ReplyInv'
    BY <1>3 DEF SinkAccept, workerVars, asyncVars, history, RpcInv, TypeOK,
        ReplyInv, Sending, Contract!WantsAnswer
  <2> QED  BY <2>1, <2>2, <2>3, <2>4, <2>5, <2>6 DEF RpcInv
<1>18. CASE SinkBare
  <2>e. /\ spc = "header" /\ cur \in Packets /\ cur # NULL /\ mem[cur] = "unused"
        /\ cur \notin accepted /\ incoming = NULL /\ incoming' = NULL
        /\ pending = NULL /\ pending' = cur /\ spc' = "post"
        /\ mem' = [mem EXCEPT ![cur] = "live"] /\ accepted' = accepted \cup {cur}
        /\ UNCHANGED <<cur, size, request, sem, wpc, wjob, wres, parked, sending, sent, lost>>
    <3>1. cur # NULL  BY <1>18 DEF SinkBare, RpcInv, SinkInv, Packets
    <3>2. pending' = cur  BY <1>18 DEF SinkBare
    <3>3. spc = "header" /\ pending = NULL  BY <1>18 DEF SinkBare
    <3>4. cur \in Packets /\ mem[cur] = "unused" /\ cur \notin accepted /\ incoming = NULL
      BY <3>1, <3>3 DEF RpcInv, SinkInv
    <3> QED
      BY <1>18, <3>1, <3>2, <3>3, <3>4 DEF SinkBare, workerVars, asyncVars
  <2>m. /\ mem'[cur] = "live" /\ \A p \in Packets : p # cur => mem'[p] = mem[p]
        /\ mem' \in [Packets -> {"unused", "live", "freed"}]
    BY <2>e DEF TypeOK
  <2>1. TypeOK'
    BY <2>e, <2>m DEF TypeOK
  <2>2. SlotInv'
    BY <2>e DEF RpcInv, SlotInv, Taking
  <2>3. SinkInv'
    <3>1. \A p \in Packets : p > cur => mem'[p] = "unused"
      BY <2>e, <2>m DEF RpcInv, SinkInv, Packets
    <3>2. \A p \in accepted' : p <= cur /\ mem'[p] # "unused" /\ p # incoming'
      BY <2>e, <2>m DEF RpcInv, SinkInv, TypeOK, Packets
    <3> QED  BY <2>e, <3>1, <3>2 DEF RpcInv, SinkInv, Packets
  <2>4. WorkerInv'
    BY <2>e DEF RpcInv, WorkerInv
  <2>5. OneOwner'
    <3>1. cur \notin parked /\ \A w \in Workers : ~ Holds(w, cur)
      BY <2>e DEF RpcInv, OneOwner
    <3> QED  BY <2>e, <2>m, <3>1 DEF RpcInv, OneOwner, Holds
  <2>6. ReplyInv'
    <3>1. \A p \in Packets : mem'[p] = "freed" <=> mem[p] = "freed"
      BY <2>e, <2>m
    <3>2. \A m \in sending : m[1] \in Packets  BY DEF TypeOK
    <3> QED  BY <2>e, <3>1, <3>2 DEF RpcInv, ReplyInv, Sending
  <2> QED  BY <2>1, <2>2, <2>3, <2>4, <2>5, <2>6 DEF RpcInv
<1>4. CASE SinkPost
  <2>1. TypeOK'
    BY <1>4 DEF SinkPost, workerVars, asyncVars, history, RpcInv, TypeOK,
        Packets, Pcs
  <2>2. SlotInv'
    BY <1>4 DEF SinkPost, workerVars, asyncVars, history, RpcInv, TypeOK,
        SlotInv, Taking
  <2>3. SinkInv'
    BY <1>4 DEF SinkPost, workerVars, asyncVars, history, RpcInv, TypeOK,
        SinkInv, Packets
  <2>4. WorkerInv'
    BY <1>4 DEF SinkPost, workerVars, asyncVars, history, RpcInv, TypeOK,
        WorkerInv, Contract!WantsAnswer
  <2>5. OneOwner'
    BY <1>4 DEF SinkPost, workerVars, asyncVars, history, RpcInv, TypeOK,
        OneOwner, Holds
  <2>6. ReplyInv'
    BY <1>4 DEF SinkPost, workerVars, asyncVars, history, RpcInv, TypeOK,
        ReplyInv, Sending, Contract!WantsAnswer
  <2> QED  BY <2>1, <2>2, <2>3, <2>4, <2>5, <2>6 DEF RpcInv
<1>5. CASE SinkDrop
  <2>e. /\ incoming' = NULL /\ UNCHANGED <<pending, parked, wpc, wjob>>
        /\ \A p \in Packets : mem'[p] = IF p = incoming THEN "freed" ELSE mem[p]
    BY <1>5 DEF SinkDrop, Free, workerVars, asyncVars, TypeOK, Packets
  <2>1. TypeOK'
    BY <1>5 DEF SinkDrop, Free, workerVars, asyncVars, history, RpcInv,
        TypeOK, Packets, Pcs
  <2>2. SlotInv'
    BY <1>5 DEF SinkDrop, Free, workerVars, asyncVars, history, RpcInv,
        TypeOK, SlotInv, Taking
  <2>3. SinkInv'
    <3>1. /\ UNCHANGED <<size, cur, accepted>> /\ spc = "body" /\ spc' = "idle"
      BY <1>5 DEF SinkDrop, history
    <3>2. \A p \in Packets : p > cur => p # incoming
      BY DEF RpcInv, SinkInv, TypeOK, Packets
    <3>3. accepted \subseteq Packets  BY DEF TypeOK
    <3>4. \A p \in Packets : mem[p] = "unused" <=> mem'[p] = "unused" \/ (p = incoming /\ mem[p] = "unused")
      BY <2>e
    <3> QED  BY <2>e, <3>1, <3>2, <3>3, <3>4 DEF RpcInv, SinkInv, Packets
  <2>4. WorkerInv'
    BY <1>5 DEF SinkDrop, Free, workerVars, asyncVars, history, RpcInv,
        TypeOK, WorkerInv, Contract!WantsAnswer
  <2>5. OneOwner'
    BY <2>e DEF RpcInv, OneOwner, Holds, Packets
  <2>6. ReplyInv'
    BY <1>5 DEF SinkDrop, Free, workerVars, asyncVars, history, RpcInv,
        TypeOK, ReplyInv, Sending, Contract!WantsAnswer
  <2> QED  BY <2>1, <2>2, <2>3, <2>4, <2>5, <2>6 DEF RpcInv
<1>6. ASSUME NEW w \in Workers, Wait(w)  PROVE TypeOK' /\ RpcInv'
  <2>1. TypeOK'
    BY <1>6 DEF Wait, Goto, sinkVars, asyncVars, history, RpcInv, TypeOK,
        Packets, Pcs
  <2>2. SlotInv'
    BY <1>6 DEF Wait, Goto, sinkVars, asyncVars, history, RpcInv, TypeOK,
        SlotInv, Taking
  <2>3. SinkInv'
    BY <1>6 DEF Wait, Goto, sinkVars, asyncVars, history, RpcInv, TypeOK,
        SinkInv, Packets
  <2>4. WorkerInv'
    BY <1>6 DEF Wait, Goto, sinkVars, asyncVars, history, RpcInv, TypeOK,
        WorkerInv, Contract!WantsAnswer
  <2>5. OneOwner'
    BY <1>6 DEF Wait, Goto, sinkVars, asyncVars, history, RpcInv, TypeOK,
        OneOwner, Holds
  <2>6. ReplyInv'
    BY <1>6 DEF Wait, Goto, sinkVars, asyncVars, history, RpcInv, TypeOK,
        ReplyInv, Sending, Contract!WantsAnswer
  <2> QED  BY <2>1, <2>2, <2>3, <2>4, <2>5, <2>6 DEF RpcInv
<1>7. ASSUME NEW w \in Workers, Load(w)  PROVE TypeOK' /\ RpcInv'
  <2>e. /\ wpc'[w] = "clear" /\ wjob'[w] = pending /\ pending \in accepted
        /\ wpc[w] = "load"
        /\ \A v \in Workers : v # w => wpc'[v] = wpc[v] /\ wjob'[v] = wjob[v]
        /\ UNCHANGED <<wres, accepted, request, mem, incoming, pending, parked>>
    BY <1>7 DEF Load, Goto, asyncVars, history, TypeOK, RpcInv, SlotInv, Taking, ReplyInv
  <2>1. TypeOK'
    BY <1>7 DEF Load, Goto, sinkVars, asyncVars, history, RpcInv, TypeOK,
        Packets, Pcs
  <2>2. SlotInv'
    BY <1>7 DEF Load, Goto, sinkVars, asyncVars, history, RpcInv, TypeOK,
        SlotInv, Taking
  <2>3. SinkInv'
    BY <1>7 DEF Load, Goto, sinkVars, asyncVars, history, RpcInv, TypeOK,
        SinkInv, Packets
  <2>4. WorkerInv'
    BY <2>e DEF RpcInv, WorkerInv
  <2>5. OneOwner'
    BY <2>e DEF RpcInv, OneOwner, Holds
  <2>6. ReplyInv'
    BY <1>7 DEF Load, Goto, sinkVars, asyncVars, history, RpcInv, TypeOK,
        ReplyInv, Sending, Contract!WantsAnswer
  <2> QED  BY <2>1, <2>2, <2>3, <2>4, <2>5, <2>6 DEF RpcInv
<1>8. ASSUME NEW w \in Workers, Clear(w)  PROVE TypeOK' /\ RpcInv'
  <2>e. /\ wjob[w] = pending /\ pending \in Packets /\ wpc'[w] = "call" /\ wpc[w] = "clear"
        /\ pending' = NULL /\ UNCHANGED <<wjob, mem, incoming, parked>>
        /\ \A v \in Workers : v # w => wpc'[v] = wpc[v]
    BY <1>8 DEF Clear, Goto, asyncVars, TypeOK, RpcInv, SlotInv, Taking
  <2>1. TypeOK'
    BY <1>8 DEF Clear, Goto, sinkVars, asyncVars, history, RpcInv, TypeOK,
        Packets, Pcs
  <2>2. SlotInv'
    BY <1>8 DEF Clear, Goto, sinkVars, asyncVars, history, RpcInv, TypeOK,
        SlotInv, Taking
  <2>3. SinkInv'
    BY <1>8 DEF Clear, Goto, sinkVars, asyncVars, history, RpcInv, TypeOK,
        SinkInv, Packets
  <2>4. WorkerInv'
    BY <1>8 DEF Clear, Goto, sinkVars, asyncVars, history, RpcInv, TypeOK,
        WorkerInv, Contract!WantsAnswer
  <2>5. OneOwner'
    BY <2>e DEF RpcInv, OneOwner, Holds, Packets
  <2>6. ReplyInv'
    BY <1>8 DEF Clear, Goto, sinkVars, asyncVars, history, RpcInv, TypeOK,
        ReplyInv, Sending, Contract!WantsAnswer
  <2> QED  BY <2>1, <2>2, <2>3, <2>4, <2>5, <2>6 DEF RpcInv
<1>9. ASSUME NEW w \in Workers, Malformed(w)  PROVE TypeOK' /\ RpcInv'
  <2>1. TypeOK'
    BY <1>9 DEF Malformed, Goto, sinkVars, asyncVars, history, RpcInv,
        TypeOK, Packets, Pcs
  <2>2. SlotInv'
    BY <1>9 DEF Malformed, Goto, sinkVars, asyncVars, history, RpcInv,
        TypeOK, SlotInv, Taking
  <2>3. SinkInv'
    BY <1>9 DEF Malformed, Goto, sinkVars, asyncVars, history, RpcInv,
        TypeOK, SinkInv, Packets
  <2>4. WorkerInv'
    BY <1>9 DEF Malformed, Goto, sinkVars, asyncVars, history, RpcInv,
        TypeOK, WorkerInv, Contract!WantsAnswer
  <2>5. OneOwner'
    BY <1>9 DEF Malformed, Goto, sinkVars, asyncVars, history, RpcInv,
        TypeOK, OneOwner, Holds
  <2>6. ReplyInv'
    BY <1>9 DEF Malformed, Goto, sinkVars, asyncVars, history, RpcInv,
        TypeOK, ReplyInv, Sending, Contract!WantsAnswer
  <2> QED  BY <2>1, <2>2, <2>3, <2>4, <2>5, <2>6 DEF RpcInv
<1>10. ASSUME NEW w \in Workers, NEW res \in {"result", "error"}, Called(w, res)
      PROVE  TypeOK' /\ RpcInv'
  <2>h. wjob[w] \in Packets /\ wjob[w] \in accepted /\ wjob[w] # NULL
    BY <1>10 DEF Called, TypeOK, RpcInv, WorkerInv, Packets
  <2>e. /\ Holds(w, wjob[w]) /\ res \in {"result", "error"}
        /\ \A v \in Workers : v # w =>
              wpc'[v] = wpc[v] /\ wjob'[v] = wjob[v] /\ wres'[v] = wres[v]
        /\ UNCHANGED <<cur, spc, size, request, incoming, pending, sem, parked, sending,
                       accepted, sent, lost>>
        /\ wpc' \in [Workers -> Pcs] /\ wjob' \in [Workers -> Packets \cup {NULL}]
        /\ wres' \in [Workers -> {"none", "result", "error"}]
    <3>1. UNCHANGED <<cur, spc, size, request, incoming, pending, sem, parked, sending,
                      accepted, sent, lost>>
      BY <1>10 DEF Called, HasId, sinkVars, asyncVars, history
    <3>2. Holds(w, wjob[w])  BY <1>10 DEF Called, HasId, Holds
    <3>3. CASE Goto(w, "reply") /\ wres' = [wres EXCEPT ![w] = res] /\ UNCHANGED wjob
      BY <3>1, <3>2, <3>3 DEF Goto, Pcs, TypeOK
    <3>4. CASE Leave(w)  BY <3>1, <3>2, <3>4 DEF Goto, Leave, Pcs, TypeOK
    <3> QED  BY <1>10, <3>3, <3>4 DEF Called, HasId
  <2>c. \/ /\ request[wjob[w]].id /\ mem' = mem
           /\ wpc'[w] = "reply" /\ wjob'[w] = wjob[w] /\ wres'[w] = res
        \/ /\ \A p \in Packets : mem'[p] = IF p = wjob[w] THEN "freed" ELSE mem[p]
           /\ mem' \in [Packets -> {"unused", "live", "freed"}]
           /\ wpc'[w] = "wait" /\ wjob'[w] = NULL /\ wres'[w] = "none"
    BY <1>10, <2>h DEF Called, HasId, Goto, Leave, Free, TypeOK
  <2>1. TypeOK'
    BY <2>e, <2>c DEF TypeOK
  <2>2. SlotInv'
    BY <2>e, <2>c DEF RpcInv, SlotInv, Taking, Holds
  <2>3. SinkInv'
    <3>1. mem[wjob[w]] # "unused"  BY <2>h DEF RpcInv, SinkInv
    <3>2. \A p \in Packets : mem'[p] = "unused" <=> mem[p] = "unused"
      BY <2>c, <3>1
    <3>3. accepted \subseteq Packets  BY DEF TypeOK
    <3> QED  BY <2>e, <2>h, <3>2, <3>3 DEF RpcInv, SinkInv
  <2>4. WorkerInv'
    BY <2>e, <2>c, <2>h DEF RpcInv, WorkerInv, Contract!WantsAnswer
  <2>5. OneOwner'
    <3>1. mem[wjob[w]] = "live"  BY <2>e, <2>h DEF RpcInv, OneOwner
    <3> QED  BY <2>e, <2>c, <2>h, <3>1 DEF RpcInv, OneOwner, Holds
  <2>6. ReplyInv'
    <3>1. mem[wjob[w]] = "live"  BY <2>e, <2>h DEF RpcInv, OneOwner
    <3>2. \A m \in sending : m[1] \in Packets  BY DEF TypeOK
    <3> QED  BY <2>e, <2>c, <2>h, <3>1, <3>2 DEF RpcInv, ReplyInv, Sending
  <2> QED  BY <2>1, <2>2, <2>3, <2>4, <2>5, <2>6 DEF RpcInv
<1>11. ASSUME NEW w \in Workers, Park(w)  PROVE TypeOK' /\ RpcInv'
  <2>h. wjob[w] \in Packets /\ wjob[w] \in accepted /\ wjob[w] # NULL
    <3>1. wpc[w] \notin {"wait", "load"}  BY <1>11 DEF Park
    <3>2. wjob[w] \in accepted  BY <3>1 DEF RpcInv, WorkerInv
    <3> QED  BY <3>2 DEF TypeOK, Packets
  <2>e. /\ wpc[w] = "call" /\ wpc'[w] = "queued" /\ parked' = parked \cup {wjob[w]}
        /\ request[wjob[w]].call = "async"
        /\ \A v \in Workers : v # w => wpc'[v] = wpc[v]
        /\ UNCHANGED <<request, incoming, pending, mem, wjob, sending, accepted, sent, lost>>
    BY <1>11 DEF Park, Goto, history, TypeOK
  <2>1. TypeOK'
    BY <1>11, <2>h DEF Park, Goto, sinkVars, history, TypeOK, Pcs
  <2>2. SlotInv'
    BY <1>11 DEF Park, Goto, sinkVars, asyncVars, history, RpcInv, TypeOK,
        SlotInv, Taking
  <2>3. SinkInv'
    BY <1>11 DEF Park, Goto, sinkVars, asyncVars, history, RpcInv, TypeOK,
        SinkInv, Packets
  <2>4. WorkerInv'
    BY <1>11 DEF Park, Goto, sinkVars, asyncVars, history, RpcInv, TypeOK,
        WorkerInv, Contract!WantsAnswer
  <2>5. OneOwner'
    BY <1>11 DEF Park, Goto, sinkVars, asyncVars, history, RpcInv, TypeOK,
        OneOwner, Holds
  <2>6. ReplyInv'
    BY <2>e, <2>h DEF RpcInv, ReplyInv, Sending
  <2> QED  BY <2>1, <2>2, <2>3, <2>4, <2>5, <2>6 DEF RpcInv
<1>12. ASSUME NEW w \in Workers, Queued(w)  PROVE TypeOK' /\ RpcInv'
  <2>e. /\ wpc[w] = "queued" /\ wpc'[w] = "wait"
        /\ \A v \in Workers : v # w => wpc'[v] = wpc[v] /\ wjob'[v] = wjob[v]
        /\ UNCHANGED <<incoming, pending, mem, parked>>
    BY <1>12 DEF Queued, Goto, Leave, asyncVars, TypeOK
  <2>1. TypeOK'
    BY <1>12 DEF Queued, Goto, Leave, sinkVars, asyncVars, history, RpcInv,
        TypeOK, Packets, Pcs
  <2>2. SlotInv'
    BY <1>12 DEF Queued, Goto, Leave, sinkVars, asyncVars, history, RpcInv,
        TypeOK, SlotInv, Taking
  <2>3. SinkInv'
    BY <1>12 DEF Queued, Goto, Leave, sinkVars, asyncVars, history, RpcInv,
        TypeOK, SinkInv, Packets
  <2>4. WorkerInv'
    BY <1>12 DEF Queued, Goto, Leave, sinkVars, asyncVars, history, RpcInv,
        TypeOK, WorkerInv, Contract!WantsAnswer
  <2>5. OneOwner'
    BY <2>e DEF RpcInv, OneOwner, Holds
  <2>6. ReplyInv'
    BY <1>12 DEF Queued, Goto, Leave, sinkVars, asyncVars, history, RpcInv,
        TypeOK, ReplyInv, Sending, Contract!WantsAnswer
  <2> QED  BY <2>1, <2>2, <2>3, <2>4, <2>5, <2>6 DEF RpcInv
<1>13. ASSUME NEW w \in Workers, NEW out \in {"result", "error", "lost"}, Reply(w, out)
      PROVE  TypeOK' /\ RpcInv'
  <2>h. wjob[w] \in Packets /\ wjob[w] \in accepted /\ wjob[w] # NULL
    BY <1>13 DEF Reply, TypeOK, RpcInv, WorkerInv, Packets
  <2>e. /\ Holds(w, wjob[w]) /\ wpc[w] = "reply"
        /\ \A v \in Workers : v # w =>
              wpc'[v] = wpc[v] /\ wjob'[v] = wjob[v] /\ wres'[v] = wres[v]
        /\ UNCHANGED <<cur, spc, size, request, incoming, pending, sem, parked, sending,
                       accepted, sent>>
        /\ \A p \in Packets : mem'[p] = IF p = wjob[w] THEN "freed" ELSE mem[p]
        /\ mem' \in [Packets -> {"unused", "live", "freed"}]
    BY <1>13, <2>h DEF Reply, Goto, Leave, Free, Holds, sinkVars, asyncVars, TypeOK
  <2>c. /\ \/ wpc'[w] = "wait" /\ wjob'[w] = NULL
           \/ wpc'[w] = "send" /\ wjob'[w] = wjob[w] /\ wres'[w] \in {"result", "error"}
        /\ wpc' \in [Workers -> Pcs] /\ wjob' \in [Workers -> Packets \cup {NULL}]
        /\ wres' \in [Workers -> {"none", "result", "error"}] /\ lost' \subseteq Packets
        /\ lost' = lost \/ (lost' = lost \cup {wjob[w]} /\ wpc'[w] = "wait")
    BY <1>13, <2>h DEF Reply, Built, Goto, Leave, Pcs, TypeOK
  <2>1. TypeOK'
    BY <2>e, <2>c DEF TypeOK
  <2>2. SlotInv'
    BY <2>e, <2>c DEF RpcInv, SlotInv, Taking
  <2>3. SinkInv'
    BY <2>e, <2>h DEF RpcInv, SinkInv, TypeOK
  <2>4. WorkerInv'
    BY <2>e, <2>c, <2>h DEF RpcInv, WorkerInv
  <2>5. OneOwner'
    <3>1. mem[wjob[w]] = "live"  BY <2>e, <2>h DEF RpcInv, OneOwner
    <3> QED  BY <2>e, <2>c, <2>h, <3>1 DEF RpcInv, OneOwner, Holds
  <2>6. ReplyInv'
    <3>1. mem[wjob[w]] = "live"  BY <2>e, <2>h DEF RpcInv, OneOwner
    <3>2. \A m \in sending : m[1] \in Packets  BY DEF TypeOK
    <3>3. /\ sent[wjob[w]] = << >> /\ wjob[w] \notin lost
          /\ \A m \in sending : m[1] # wjob[w]
          /\ \A v \in Workers : ~ Sending(v, wjob[w])
      BY <2>h, <3>1 DEF RpcInv, ReplyInv
    <3>4. ASSUME NEW v \in Workers, NEW p \in Packets
          PROVE  Sending(v, p)' <=> Sending(v, p) \/ (v = w /\ p = wjob[w] /\ wpc'[w] = "send")
      <4>1. CASE v = w
        <5>1. ~ Sending(w, p)  BY <2>e DEF Sending
        <5>2. Sending(w, p)' <=> wpc'[w] = "send" /\ wjob'[w] = p  BY DEF Sending
        <5> QED  BY <2>c, <4>1, <5>1, <5>2
      <4>2. CASE v # w  BY <2>e, <4>2 DEF Sending
      <4> QED  BY <4>1, <4>2
    <3>5. /\ pending' # NULL => pending' \in accepted'
          /\ \A p \in parked' : p \in accepted' /\ request'[p].call = "async"
      BY <2>e DEF RpcInv, ReplyInv
    <3>6. ASSUME NEW m \in sending'
          PROVE  /\ m[1] \in Packets
                 /\ m[1] \in accepted' /\ Contract!WantsAnswer(request'[m[1]])
                 /\ mem'[m[1]] = "freed" /\ sent'[m[1]] = << >>
                 /\ \A n \in sending' : m[1] = n[1] => m = n
                 /\ \A v \in Workers : ~ Sending(v, m[1])'
      BY <2>e, <3>2, <3>3, <3>4, <3>6 DEF RpcInv, ReplyInv
    <3>7. ASSUME NEW p \in Packets
          PROVE  /\ mem'[p] # "freed" => sent'[p] = << >> /\ p \notin lost'
                 /\ Len(sent'[p]) <= 1
                 /\ p \in lost' => /\ sent'[p] = << >>
                                   /\ \A m \in sending' : m[1] # p
                                   /\ \A v \in Workers : ~ Sending(v, p)'
                 /\ \A v \in Workers : Sending(v, p)' =>
                       /\ mem'[p] = "freed" /\ sent'[p] = << >>
                       /\ \A u \in Workers : Sending(u, p)' => u = v
      <4>1. CASE p = wjob[w]
        BY <2>e, <2>c, <2>h, <3>3, <3>4, <4>1
      <4>2. CASE p # wjob[w]
        BY <2>e, <2>c, <3>4, <4>2 DEF RpcInv, ReplyInv
      <4> QED  BY <4>1, <4>2
    <3> QED  BY <3>5, <3>6, <3>7 DEF ReplyInv
  <2> QED  BY <2>1, <2>2, <2>3, <2>4, <2>5, <2>6 DEF RpcInv
<1>14. ASSUME NEW w \in Workers, Send(w)  PROVE TypeOK' /\ RpcInv'
  <2>h. wjob[w] \in Packets /\ wjob[w] \in accepted /\ wjob[w] # NULL
    BY <1>14 DEF Send, TypeOK, RpcInv, WorkerInv, Packets
  <2>1. TypeOK'
    <3>1. wres[w] \in {"result", "error"}
      BY <1>14 DEF Send, RpcInv, WorkerInv, TypeOK
    <3>2. sent' \in [Packets -> Seq({"result", "error"})]
      BY <1>14, <2>h, <3>1 DEF Send, TypeOK
    <3> QED
      BY <1>14, <3>2 DEF Send, Goto, Leave, Pcs, sinkVars, asyncVars, TypeOK
  <2>2. SlotInv'
    BY <1>14 DEF Send, Goto, Leave, sinkVars, asyncVars, history, RpcInv,
        TypeOK, SlotInv, Taking
  <2>3. SinkInv'
    BY <1>14 DEF Send, Goto, Leave, sinkVars, asyncVars, history, RpcInv,
        TypeOK, SinkInv, Packets
  <2>4. WorkerInv'
    BY <1>14 DEF Send, Goto, Leave, sinkVars, asyncVars, history, RpcInv,
        TypeOK, WorkerInv, Contract!WantsAnswer
  <2>5. OneOwner'
    BY <1>14 DEF Send, Goto, Leave, sinkVars, asyncVars, history, RpcInv,
        TypeOK, OneOwner, Holds
  <2>6. ReplyInv'
    <3>1. /\ UNCHANGED <<request, pending, mem, parked, sending, accepted, lost>>
          /\ wpc[w] = "send" /\ wpc'[w] = "wait"
          /\ \A v \in Workers : v # w => wpc'[v] = wpc[v] /\ wjob'[v] = wjob[v]
          /\ \A p \in Packets : p # wjob[w] => sent'[p] = sent[p]
          /\ sent'[wjob[w]] = Append(sent[wjob[w]], wres[w])
      BY <1>14, <2>h DEF Send, Goto, Leave, sinkVars, asyncVars, TypeOK
    <3>2. /\ Sending(w, wjob[w]) /\ sent[wjob[w]] = << >>
          /\ mem[wjob[w]] = "freed" /\ wjob[w] \notin lost
          /\ \A m \in sending : m[1] # wjob[w]
          /\ \A v \in Workers : Sending(v, wjob[w]) => v = w
      BY <2>h, <3>1 DEF RpcInv, ReplyInv, Sending
    <3>3. Len(sent'[wjob[w]]) = 1  BY <3>1, <3>2
    <3>4. \A v \in Workers, p \in Packets : Sending(v, p)' => Sending(v, p) /\ p # wjob[w]
      BY <3>1, <3>2 DEF Sending
    <3>5. accepted \subseteq Packets /\ \A m \in sending : m[1] \in Packets
      BY DEF TypeOK
    <3>6. /\ pending' # NULL => pending' \in accepted'
          /\ \A p \in parked' : p \in accepted' /\ request'[p].call = "async"
      BY <3>1 DEF RpcInv, ReplyInv
    <3>7. ASSUME NEW m \in sending'
          PROVE  /\ m[1] \in accepted' /\ Contract!WantsAnswer(request'[m[1]])
                 /\ mem'[m[1]] = "freed" /\ sent'[m[1]] = << >>
                 /\ \A n \in sending' : m[1] = n[1] => m = n
                 /\ \A v \in Workers : ~ Sending(v, m[1])'
      BY <3>1, <3>2, <3>4, <3>5, <3>7 DEF RpcInv, ReplyInv
    <3>8. ASSUME NEW p \in Packets
          PROVE  /\ mem'[p] # "freed" => sent'[p] = << >> /\ p \notin lost'
                 /\ Len(sent'[p]) <= 1
                 /\ p \in lost' => /\ sent'[p] = << >>
                                   /\ \A m \in sending' : m[1] # p
                                   /\ \A v \in Workers : ~ Sending(v, p)'
                 /\ \A v \in Workers : Sending(v, p)' =>
                       /\ mem'[p] = "freed" /\ sent'[p] = << >>
                       /\ \A u \in Workers : Sending(u, p)' => u = v
      <4>1. CASE p = wjob[w]
        <5>1. \A v \in Workers : ~ Sending(v, p)'  BY <3>4, <4>1
        <5>2. p \notin lost' /\ mem'[p] = "freed"  BY <3>1, <3>2, <4>1
        <5>3. Len(sent'[p]) = 1  BY <3>3, <4>1, Zenon
        <5>4. Len(sent'[p]) <= 1  BY <5>3
        <5> QED  BY <5>1, <5>2, <5>4
      <4>2. CASE p # wjob[w]
        BY <3>1, <3>4, <4>2 DEF RpcInv, ReplyInv
      <4> QED  BY <4>1, <4>2
    <3> QED  BY <3>6, <3>7, <3>8 DEF ReplyInv
  <2> QED  BY <2>1, <2>2, <2>3, <2>4, <2>5, <2>6 DEF RpcInv
<1>15. ASSUME NEW p \in Packets, NEW res \in {"result", "error"},
             NEW out \in {"result", "error", "lost"}, Callback(p, res, out)
      PROVE  TypeOK' /\ RpcInv'
  <2>e. /\ p \in parked /\ p \in accepted /\ parked' = parked \ {p}
        /\ \A q \in Packets : mem'[q] = IF q = p THEN "freed" ELSE mem[q]
        /\ mem' \in [Packets -> {"unused", "live", "freed"}]
        /\ UNCHANGED <<cur, spc, size, request, incoming, pending, sem, wpc, wjob, wres,
                       accepted, sent>>
    BY <1>15 DEF Callback, HasId, Free, sinkVars, workerVars, TypeOK, RpcInv, ReplyInv
  <2>c. /\ sending' = sending \/ (request[p].id /\ sending' = sending \cup {<<p, out>>})
        /\ lost' = lost \/ (lost' = lost \cup {p} /\ sending' = sending)
        /\ lost' \subseteq Packets /\ sending' \subseteq Packets \X {"result", "error"}
    BY <1>15 DEF Callback, HasId, Built, TypeOK
  <2>1. TypeOK'
    BY <2>e, <2>c DEF TypeOK
  <2>2. SlotInv'
    BY <2>e DEF RpcInv, SlotInv, Taking
  <2>3. SinkInv'
    BY <2>e DEF RpcInv, SinkInv, TypeOK
  <2>4. WorkerInv'
    BY <2>e DEF RpcInv, WorkerInv
  <2>5. OneOwner'
    BY <2>e DEF RpcInv, OneOwner, Holds
  <2>6. ReplyInv'
    <3>1. mem[p] = "live"  BY <2>e DEF RpcInv, OneOwner
    <3>2. \A m \in sending : m[1] \in Packets /\ m[1] # p
      BY <3>1 DEF TypeOK, RpcInv, ReplyInv
    <3>3. \A m \in sending' : m \in sending \/ (m[1] = p /\ m = <<p, out>> /\ request[p].id)
      BY <2>c
    <3>4. \A m \in sending' :
            /\ m[1] \in accepted /\ Contract!WantsAnswer(request[m[1]])
            /\ mem'[m[1]] = "freed" /\ sent[m[1]] = << >>
            /\ \A n \in sending' : m[1] = n[1] => m = n
            /\ \A w \in Workers : ~ Sending(w, m[1])
      BY <2>e, <3>1, <3>2, <3>3 DEF RpcInv, ReplyInv, Contract!WantsAnswer
    <3>5. /\ \A v \in Workers, q \in Packets : Sending(v, q)' <=> Sending(v, q)
          /\ \A v \in Workers : ~ Sending(v, p)
          /\ sent[p] = << >> /\ p \notin lost
      BY <2>e, <3>1 DEF RpcInv, ReplyInv, Sending
    <3>6. ASSUME NEW q \in lost'
          PROVE  /\ sent[q] = << >>
                 /\ \A m \in sending' : m[1] # q
                 /\ \A v \in Workers : ~ Sending(v, q)'
      <4>1. q \in Packets  BY <2>c, <3>6
      <4>2. CASE q = p
        BY <2>c, <3>2, <3>5, <3>6, <4>1, <4>2
      <4>3. CASE q # p
        <5>1. q \in lost  BY <2>c, <3>6, <4>3
        <5> QED  BY <3>3, <3>5, <4>1, <4>3, <5>1 DEF RpcInv, ReplyInv
      <4> QED  BY <4>2, <4>3
    <3>7. \A q \in Packets : mem'[q] # "freed" => mem[q] # "freed" /\ q # p /\ q \notin lost'
      BY <2>c, <2>e DEF RpcInv, ReplyInv
    <3>8. ASSUME NEW q \in Packets
          PROVE  /\ mem'[q] # "freed" => sent'[q] = << >> /\ q \notin lost'
                 /\ Len(sent'[q]) <= 1
                 /\ q \in lost' => /\ sent'[q] = << >>
                                   /\ \A m \in sending' : m[1] # q
                                   /\ \A v \in Workers : ~ Sending(v, q)'
                 /\ \A v \in Workers : Sending(v, q)' =>
                       /\ mem'[q] = "freed" /\ sent'[q] = << >>
                       /\ \A u \in Workers : Sending(u, q)' => u = v
      BY <2>e, <3>5, <3>6, <3>7 DEF RpcInv, ReplyInv
    <3>9. /\ pending' # NULL => pending' \in accepted'
          /\ \A q \in parked' : q \in accepted' /\ request'[q].call = "async"
      BY <2>e DEF RpcInv, ReplyInv
    <3>10. \A m \in sending' : m[1] \in Packets
      BY <2>c
    <3> QED  BY <2>e, <3>4, <3>5, <3>8, <3>9, <3>10 DEF ReplyInv
  <2> QED  BY <2>1, <2>2, <2>3, <2>4, <2>5, <2>6 DEF RpcInv
<1>16. ASSUME NEW p \in Packets, NEW out \in {"result", "error"}, CallbackSend(<<p, out>>)
      PROVE  TypeOK' /\ RpcInv'
  <2>1. TypeOK'
    BY <1>16 DEF CallbackSend, sinkVars, workerVars, history, RpcInv, TypeOK,
        Packets, Pcs
  <2>2. SlotInv'
    BY <1>16 DEF CallbackSend, sinkVars, workerVars, history, RpcInv, TypeOK,
        SlotInv, Taking
  <2>3. SinkInv'
    BY <1>16 DEF CallbackSend, sinkVars, workerVars, history, RpcInv, TypeOK,
        SinkInv, Packets
  <2>4. WorkerInv'
    BY <1>16 DEF CallbackSend, sinkVars, workerVars, history, RpcInv, TypeOK,
        WorkerInv, Contract!WantsAnswer
  <2>5. OneOwner'
    BY <1>16 DEF CallbackSend, sinkVars, workerVars, history, RpcInv, TypeOK,
        OneOwner, Holds
  <2>6. ReplyInv'
    BY <1>16 DEF CallbackSend, sinkVars, workerVars, history, RpcInv, TypeOK,
        ReplyInv, Sending, Contract!WantsAnswer
  <2> QED  BY <2>1, <2>2, <2>3, <2>4, <2>5, <2>6 DEF RpcInv
<1>17. CASE UNCHANGED vars
  <2>1. TypeOK'
    BY <1>17 DEF vars, sinkVars, workerVars, asyncVars, history, RpcInv,
        TypeOK, Packets, Pcs
  <2>2. SlotInv'
    BY <1>17 DEF vars, sinkVars, workerVars, asyncVars, history, RpcInv,
        TypeOK, SlotInv, Taking
  <2>3. SinkInv'
    BY <1>17 DEF vars, sinkVars, workerVars, asyncVars, history, RpcInv,
        TypeOK, SinkInv, Packets
  <2>4. WorkerInv'
    BY <1>17 DEF vars, sinkVars, workerVars, asyncVars, history, RpcInv,
        TypeOK, WorkerInv, Contract!WantsAnswer
  <2>5. OneOwner'
    BY <1>17 DEF vars, sinkVars, workerVars, asyncVars, history, RpcInv,
        TypeOK, OneOwner, Holds
  <2>6. ReplyInv'
    BY <1>17 DEF vars, sinkVars, workerVars, asyncVars, history, RpcInv,
        TypeOK, ReplyInv, Sending, Contract!WantsAnswer
  <2> QED  BY <2>1, <2>2, <2>3, <2>4, <2>5, <2>6 DEF RpcInv
<1> QED
    BY <1>1, <1>2, <1>3, <1>4, <1>5, <1>6, <1>7, <1>8, <1>9, <1>10, <1>11,
        <1>12, <1>13, <1>14, <1>15, <1>16, <1>17, <1>18 DEF Next, Sink, Service,
        Agent

\* If no packet posts sem without a job (a packet of the header alone whose malloc
\* fails does), the hand-over invariant holds however the threads are scheduled.
THEOREM RpcInvariant ==
    ASSUME SurplusPosts = FALSE
    PROVE  Spec => [](TypeOK /\ RpcInv)
<1>1. Init => TypeOK /\ RpcInv
  <2> SUFFICES ASSUME Init  PROVE TypeOK /\ RpcInv
      OBVIOUS
  <2> USE RpcAssumption DEF Init, NULL
  <2>1. TypeOK
    <3>1. << >> \in Seq({"result", "error"})  OBVIOUS
    <3>2. request \in [Packets -> Requests]  BY DEF Requests
    <3> QED  BY <3>1, <3>2 DEF TypeOK, Pcs
  <2>2. SlotInv  BY DEF SlotInv, Taking
  <2>3. SinkInv /\ WorkerInv  BY DEF SinkInv, WorkerInv
  <2>4. OneOwner  BY DEF OneOwner, Holds, Packets
  <2>5. ReplyInv  BY DEF ReplyInv, Sending
  <2> QED  BY <2>1, <2>2, <2>3, <2>4, <2>5 DEF RpcInv
<1>2. (TypeOK /\ RpcInv) /\ [Next]_vars => (TypeOK /\ RpcInv)'
  BY Inductive
<1> QED  BY <1>1, <1>2, PTL DEF Spec

\* Then no job is leaked, handled by two threads or freed twice, although
\* pending_job is read and cleared without a lock.
THEOREM JobHasOneOwner ==
    ASSUME SurplusPosts = FALSE
    PROVE  Spec => []OneOwner
<1>1. RpcInv => OneOwner  BY DEF RpcInv
<1> QED  BY <1>1, RpcInvariant, PTL

\* Then the server keeps its contract: it answers an accepted request at most once
\* and a well-formed notification never.
THEOREM ImplementsContract ==
    ASSUME SurplusPosts = FALSE
    PROVE  Spec => ContractSpec
<1>1. Init => Contract!Init
  BY DEF Init, Contract!Init
<1>2. TypeOK /\ RpcInv /\ [Next]_vars => [Contract!Next]_(Contract!vars)
  <2> SUFFICES ASSUME TypeOK, RpcInv, [Next]_vars
               PROVE  [Contract!Next]_(Contract!vars)
      OBVIOUS
  <2> USE DEF Contract!vars
  <2>1. ASSUME NEW r \in Requests, NEW s \in Sizes, SinkSop(r, s)
        PROVE  Contract!Send
    <3>1. \A p \in accepted : p \in Packets /\ p # cur + 1
      BY DEF TypeOK, RpcInv, SinkInv, Packets
    <3> QED  BY <2>1, <3>1 DEF SinkSop, history, TypeOK, Contract!Send
  <2>2. CASE SinkAccept
    <3>1. /\ accepted' = accepted \cup {incoming} /\ incoming \in Packets
          /\ incoming \notin accepted /\ UNCHANGED <<request, sent>>
      BY <2>2 DEF SinkAccept, TypeOK, RpcInv, SinkInv
    <3> QED  BY <3>1 DEF Contract!Next, Contract!Accept
  <2>8. CASE SinkBare
    <3>1. pending' = cur  BY <2>8, SurplusPosts = FALSE DEF SinkBare
    <3>2. cur # NULL /\ cur \in Packets /\ cur \notin accepted
      BY <2>8 DEF SinkBare, RpcInv, SinkInv, Packets, NULL
    <3> QED  BY <2>8, <3>1, <3>2 DEF SinkBare, Contract!Next, Contract!Accept
  <2>3. ASSUME NEW w \in Workers, Send(w)  PROVE Contract!Next
    <3>1. /\ wjob[w] \in Packets /\ wjob[w] \in accepted
          /\ wres[w] \in Contract!Answers /\ Contract!WantsAnswer(request[wjob[w]])
      BY <2>3 DEF Send, TypeOK, RpcInv, WorkerInv, Contract!Answers
    <3>2. sent[wjob[w]] = << >>
      BY <2>3, <3>1 DEF Send, RpcInv, ReplyInv, Sending
    <3>3. sent' = [sent EXCEPT ![wjob[w]] = <<wres[w]>>]
      BY <2>3, <3>1, <3>2 DEF Send, TypeOK
    <3> QED  BY <2>3, <3>1, <3>2, <3>3 DEF Send, Contract!Next, Contract!Answer
  <2>4. ASSUME NEW p \in Packets, NEW out \in {"result", "error"},
               CallbackSend(<<p, out>>)
        PROVE  Contract!Next
    <3>1. p \in accepted /\ sent[p] = << >> /\ Contract!WantsAnswer(request[p])
      BY <2>4 DEF CallbackSend, RpcInv, ReplyInv
    <3>2. sent' = [sent EXCEPT ![p] = <<out>>]
      BY <2>4, <3>1 DEF CallbackSend, TypeOK
    <3> QED
      BY <2>4, <3>1, <3>2
      DEF CallbackSend, Contract!Next, Contract!Answer, Contract!Answers
  <2>5. ASSUME NEW w \in Workers,
               \/ Wait(w) \/ Load(w) \/ Clear(w) \/ Malformed(w)
               \/ \E res \in {"result", "error"} : Called(w, res)
               \/ Park(w) \/ Queued(w)
               \/ \E out \in {"result", "error", "lost"} : Reply(w, out)
        PROVE  UNCHANGED <<request, accepted, sent>>
    BY <2>5
    DEF Wait, Load, Clear, Malformed, Called, HasId, Park, Queued, Reply, history
  <2>6. ASSUME NEW p \in Packets, NEW res \in {"result", "error"},
               NEW out \in {"result", "error", "lost"}, Callback(p, res, out)
        PROVE  UNCHANGED <<request, accepted, sent>>
    BY <2>6 DEF Callback, HasId
  <2>7. CASE SinkHeader \/ SinkPost \/ SinkDrop \/ UNCHANGED vars
    BY <2>7 DEF SinkHeader, SinkPost, SinkDrop, vars, history
  <2> QED
    BY <2>1, <2>2, <2>3, <2>4, <2>5, <2>6, <2>7, <2>8
    DEF Next, Sink, Service, Agent, Contract!Next
<1> QED
  BY <1>1, <1>2, RpcInvariant, PTL DEF Spec, ContractSpec, Contract!Spec

\* Then a request that should be answered has been answered exactly once by the
\* time its job is finished, or never if memory ran out twice (send_reply).
THEOREM RequestsAnswered ==
    ASSUME SurplusPosts = FALSE
    PROVE  Spec => []Answered
<1> DEFINE Some == \A p \in accepted :
                      Finished(p) /\ Contract!WantsAnswer(request[p])
                        => sent[p] # << >> \/ p \in lost
<1>1. Init => Some  BY DEF Init
<1>2. TypeOK /\ RpcInv /\ Some /\ [Next]_vars => Some'
  <2> SUFFICES ASSUME TypeOK, RpcInv, Some, [Next]_vars,
                      NEW p \in accepted', Contract!WantsAnswer(request[p])',
                      (sent[p] = << >>)', (p \notin lost)'
               PROVE  ~ Finished(p)'
      OBVIOUS
  <2>a. p \in Packets /\ accepted \subseteq Packets
    BY Inductive DEF TypeOK
  <2>b. ASSUME p \in accepted, Contract!WantsAnswer(request[p]), sent[p] = << >>,
               p \notin lost
        PROVE  ~ Finished(p)
    BY <2>b
  <2> HIDE DEF Some
  <2>1. ASSUME NEW r \in Requests, NEW s \in Sizes, SinkSop(r, s)
        PROVE  ~ Finished(p)'
    <3>1. p \in accepted /\ request'[p] = request[p]
      BY <2>1, <2>a DEF SinkSop, history, TypeOK, RpcInv, SinkInv, Packets
    <3>2. ~ Finished(p)
      BY <2>1, <2>b, <3>1 DEF SinkSop, history, Contract!WantsAnswer
    <3> QED
      BY <2>1, <3>2
      DEF SinkSop, workerVars, asyncVars, Finished, Sending
  <2>2. CASE SinkAccept
    <3>1. CASE p \in accepted
      BY <2>2, <2>b, <3>1
      DEF SinkAccept, workerVars, asyncVars, Finished, Sending, Contract!WantsAnswer
    <3>2. CASE p \notin accepted
      <4>1. mem[p] # "freed" /\ mem' = mem
        BY <2>2, <2>a, <3>2 DEF SinkAccept, RpcInv, OneOwner
      <4> QED  BY <4>1 DEF Finished
    <3> QED  BY <3>1, <3>2
  <2>11. CASE SinkBare
    <3>1. CASE p \in accepted
      <4>1. p # cur  BY <2>11, <3>1 DEF SinkBare, RpcInv, SinkInv
      <4>2. mem'[p] = mem[p]  BY <2>11, <2>a, <4>1 DEF SinkBare, TypeOK
      <4> QED
        BY <2>11, <2>b, <3>1, <4>2
        DEF SinkBare, workerVars, asyncVars, Finished, Sending, Contract!WantsAnswer
    <3>2. CASE p \notin accepted
      <4>1. p = cur /\ pending' = cur  BY <2>11, <3>2 DEF SinkBare
      <4>2. cur # NULL  BY <2>11 DEF SinkBare, RpcInv, SinkInv, Packets, NULL
      <4>3. mem'[p] = "live"  BY <2>11, <2>a, <4>1, <4>2 DEF SinkBare, TypeOK
      <4> QED  BY <4>3 DEF Finished
    <3> QED  BY <3>1, <3>2
  <2>3. CASE SinkDrop
    <3>1. p \in accepted /\ p # incoming /\ ~ Finished(p)
      BY <2>3, <2>b DEF SinkDrop, history, RpcInv, SinkInv, Contract!WantsAnswer
    <3> QED
      BY <2>3, <2>a, <3>1
      DEF SinkDrop, Free, workerVars, asyncVars, Finished, Sending, TypeOK
  <2>4. CASE SinkHeader \/ SinkPost \/ UNCHANGED vars
    <3>1. p \in accepted /\ ~ Finished(p)
      BY <2>4, <2>b
      DEF SinkHeader, SinkPost, vars, history, Contract!WantsAnswer
    <3>2. mem[p] # "freed" => mem'[p] # "freed"
      BY <2>4, <2>a DEF SinkHeader, SinkPost, vars, TypeOK
    <3> QED
      BY <2>4, <3>1, <3>2
      DEF SinkHeader, SinkPost, vars, workerVars, asyncVars, Finished, Sending
  <2>5. ASSUME NEW w \in Workers,
               \/ Wait(w) \/ Load(w) \/ Clear(w) \/ Malformed(w)
               \/ Park(w) \/ Queued(w)
        PROVE  ~ Finished(p)'
    <3>1. UNCHANGED <<request, mem, sending, sent, lost, accepted>>
      BY <2>5 DEF Wait, Load, Clear, Malformed, Park, Queued, asyncVars, history
    <3>2. /\ wpc[w] # "send"
          /\ \A v \in Workers : v # w => wpc'[v] = wpc[v] /\ wjob'[v] = wjob[v]
      BY <2>5
      DEF Wait, Load, Clear, Malformed, Park, Queued, Goto, Leave, TypeOK
    <3> QED
      BY <2>b, <3>1, <3>2 DEF Finished, Sending, Contract!WantsAnswer
  <2>6. ASSUME NEW w \in Workers, NEW res \in {"result", "error"}, Called(w, res)
        PROVE  ~ Finished(p)'
    <3>1. /\ UNCHANGED <<request, sending, sent, lost, accepted>>
          /\ wpc[w] # "send"
          /\ \A v \in Workers : v # w => wpc'[v] = wpc[v] /\ wjob'[v] = wjob[v]
      BY <2>6 DEF Called, HasId, Goto, Leave, asyncVars, history, TypeOK
    <3>2. ~ Finished(p)  BY <2>b, <3>1 DEF Contract!WantsAnswer
    <3>3. mem[p] # "freed" => mem'[p] # "freed"
      BY <2>6, <2>a, <3>1 DEF Called, HasId, Free, TypeOK, Contract!WantsAnswer
    <3> QED  BY <3>1, <3>2, <3>3 DEF Finished, Sending
  <2>7. ASSUME NEW w \in Workers, NEW out \in {"result", "error", "lost"},
               Reply(w, out)
        PROVE  ~ Finished(p)'
    <3>1. /\ UNCHANGED <<request, sending, sent, accepted>>
          /\ wpc[w] = "reply" /\ (lost' = lost \/ lost' = lost \cup {wjob[w]})
          /\ \A v \in Workers : v # w => wpc'[v] = wpc[v] /\ wjob'[v] = wjob[v]
      BY <2>7 DEF Reply, Goto, Leave, asyncVars, TypeOK
    <3>2. ~ Finished(p)  BY <2>b, <3>1 DEF Contract!WantsAnswer
    <3>3. CASE p = wjob[w]
      <4>1. wpc'[w] = "send" /\ wjob'[w] = p
        BY <2>7, <3>3 DEF Reply, Goto, TypeOK
      <4> QED  BY <4>1 DEF Finished, Sending
    <3>4. CASE p # wjob[w]
      <4>1. mem'[p] = mem[p]  BY <2>7, <3>4 DEF Reply, Free, TypeOK
      <4> QED  BY <3>1, <3>2, <4>1 DEF Finished, Sending
    <3> QED  BY <3>3, <3>4
  <2>8. ASSUME NEW w \in Workers, Send(w)  PROVE ~ Finished(p)'
    <3>1. /\ UNCHANGED <<request, mem, sending, lost, accepted>>
          /\ sent' = [sent EXCEPT ![wjob[w]] = Append(@, wres[w])]
          /\ \A v \in Workers : v # w => wpc'[v] = wpc[v] /\ wjob'[v] = wjob[v]
      BY <2>8 DEF Send, Goto, Leave, asyncVars, TypeOK
    <3>2. p # wjob[w]
      <4> SUFFICES ASSUME p = wjob[w]  PROVE FALSE
          OBVIOUS
      <4>1. sent[p] = << >> /\ sent'[p] = Append(sent[p], wres[w])
        BY <2>8, <2>a, <3>1 DEF Send, RpcInv, ReplyInv, Sending, TypeOK
      <4> QED  BY <4>1
    <3>3. sent'[p] = sent[p]  BY <2>a, <3>1, <3>2 DEF TypeOK
    <3> QED
      BY <2>b, <3>1, <3>2, <3>3 DEF Finished, Sending, Contract!WantsAnswer
  <2>9. ASSUME NEW q \in Packets, NEW res \in {"result", "error"},
               NEW out \in {"result", "error", "lost"}, Callback(q, res, out)
        PROVE  ~ Finished(p)'
    <3>1. /\ UNCHANGED <<request, wpc, wjob, sent, accepted>>
          /\ sending \subseteq sending' /\ lost \subseteq lost'
          /\ p # q => mem'[p] = mem[p]
      BY <2>9, <2>a DEF Callback, HasId, Free, workerVars, TypeOK
    <3>2. ASSUME p = q  PROVE <<p, out>> \in sending'
      <4>1. request[p].id
        BY <2>9, <3>1, <3>2 DEF Callback, HasId, RpcInv, ReplyInv, Contract!WantsAnswer
      <4> QED  BY <2>9, <3>2, <4>1 DEF Callback, HasId
    <3>3. ASSUME p = q  PROVE ~ Finished(p)'
      BY <3>2, <3>3 DEF Finished
    <3>4. ASSUME p # q  PROVE ~ Finished(p)'
      BY <2>b, <3>1, <3>4 DEF Finished, Sending, Contract!WantsAnswer
    <3> QED  BY <3>3, <3>4
  <2>10. ASSUME NEW q \in Packets, NEW out \in {"result", "error"},
                CallbackSend(<<q, out>>)
         PROVE  ~ Finished(p)'
    <3>1. /\ UNCHANGED <<request, mem, wpc, wjob, lost, accepted>>
          /\ sending' = sending \ {<<q, out>>}
          /\ sent' = [sent EXCEPT ![q] = Append(@, out)] /\ sent[q] = << >>
      BY <2>10 DEF CallbackSend, workerVars, RpcInv, ReplyInv
    <3>2. p # q
      <4> SUFFICES ASSUME p = q  PROVE FALSE
          OBVIOUS
      <4>1. sent'[p] = Append(<< >>, out)  BY <2>a, <3>1 DEF TypeOK
      <4> QED  BY <4>1
    <3>3. sent'[p] = sent[p]  BY <2>a, <3>1, <3>2 DEF TypeOK
    <3> QED
      BY <2>b, <3>1, <3>2, <3>3 DEF Finished, Sending, Contract!WantsAnswer
  <2> QED
    BY <2>1, <2>2, <2>3, <2>4, <2>5, <2>6, <2>7, <2>8, <2>9, <2>10, <2>11
    DEF Next, Sink, Service, Agent
<1>3. TypeOK /\ RpcInv /\ Some => Answered
  <2> SUFFICES ASSUME TypeOK, RpcInv, Some, NEW p \in accepted, Finished(p),
                      Contract!WantsAnswer(request[p])
               PROVE  Len(sent[p]) = IF p \in lost THEN 0 ELSE 1
      BY DEF Answered
  <2>1. /\ p \in Packets /\ sent[p] \in Seq({"result", "error"})
        /\ Len(sent[p]) <= 1 /\ (p \in lost => sent[p] = << >>)
    BY DEF TypeOK, RpcInv, ReplyInv
  <2>2. sent[p] # << >> \/ p \in lost  OBVIOUS
  <2> HIDE DEF Some
  <2>3. CASE p \in lost  BY <2>1, <2>3
  <2>4. CASE p \notin lost
    <3>1. sent[p] # << >>  BY <2>2, <2>4
    <3>2. Len(sent[p]) \in Nat \ {0}
      BY <2>1, <3>1, EmptySeq, Zenon
    <3>3. \A n \in Nat \ {0} : n <= 1 => n = 1  OBVIOUS
    <3>4. Len(sent[p]) = 1  BY <2>1, <3>2, <3>3, Zenon
    <3> QED  BY <2>4, <3>4, Zenon
  <2> QED  BY <2>3, <2>4
<1> HIDE DEF Some
<1> QED  BY <1>1, <1>2, <1>3, RpcInvariant, PTL DEF Spec

------------------------------------------------------------------------------
(* The server and the pipes in the bridge.                                 *)

LEMMA SetupStays == BridgeSpec => [](setup \in Setups)
<1>1. BridgeInit => setup \in Setups  BY DEF BridgeInit
<1>2. setup \in Setups /\ [BridgeNext]_allVars => (setup \in Setups)'
  <2>1. [BridgeNext]_allVars => UNCHANGED setup
    BY DEF BridgeNext, Register, Mkpipe, Walk, WalkEnd, Link, Host, HostRequest, HostPipe,
           HostEarly, HostSends, BridgeThread, SelectChannel, Sinks, Takes, Drop, RpcSop,
           RpcByte, RpcPost, PipeSample, PipeByte, PipePost, Application, MethodRead, Worker,
           Callbacks, allVars, bridgeVars
  <2> QED  BY <2>1
<1> QED  BY <1>1, <1>2, PTL DEF BridgeSpec

LEMMA StepOfServer ==
    ASSUME setup \in Setups, [BridgeNext]_allVars
    PROVE  [Next]_vars
<1>s. /\ setup.workers \subseteq Workers
      /\ setup.requests \subseteq Requests /\ setup.sizes \subseteq Sizes
  BY BridgeAssumption
<1>1. CASE \E m \in Makers : Register(m) \/ \E n \in Numbers : Mkpipe(m, n)
  BY <1>1 DEF Register, Mkpipe, Walk, WalkEnd, Link
<1>2. CASE Host
  BY <1>2 DEF Host, HostRequest, HostPipe, HostEarly, HostSends
<1>3. CASE BridgeThread
  <2>1. CASE SelectChannel \/ Drop \/ \E m \in Makers : PipeSample(m) \/ PipeByte(m) \/ PipePost(m)
    BY <2>1 DEF SelectChannel, Drop, PipeSample, PipeByte, PipePost
  <2>2. CASE RpcByte \/ RpcPost
    BY <2>2 DEF RpcByte, RpcPost, Next, Sink
  <2>3. CASE \E r \in setup.requests, s \in setup.sizes, m \in Makers \cup {"none"} :
                RpcSop(r, s, m)
    BY <2>3, <1>s DEF RpcSop, Next
  <2> QED  BY <1>3, <2>1, <2>2, <2>3 DEF BridgeThread
<1>4. CASE \E m \in Makers : Application(m)
  BY <1>4 DEF Application
<1>5. CASE \E w \in Workers : Worker(w)
  BY <1>5 DEF Worker, MethodRead, Next
<1>6. CASE \E p \in Packets : Callbacks(p)
  BY <1>6 DEF Callbacks, Next
<1>7. CASE UNCHANGED allVars
  BY <1>7 DEF allVars
<1> QED  BY <1>1, <1>2, <1>3, <1>4, <1>5, <1>6, <1>7 DEF BridgeNext

\* The RPC server in the bridge is the RPC server: whatever the bridge thread,
\* the pipes and their readers do, it only takes steps of its own
\* (peridot_rpc_server_sink is called for its channel and for no other).
THEOREM BridgeIsServer == BridgeSpec => Spec
<1>1. BridgeInit => Init  BY DEF BridgeInit
<1>2. setup \in Setups /\ [BridgeNext]_allVars => [Next]_vars
  BY StepOfServer
<1> QED  BY <1>1, <1>2, SetupStays, PTL DEF BridgeSpec, Spec

\* In the running bridge too every job has one owner, and the slot pending_job
\* one token, if no packet posts sem without a job.
THEOREM BridgeRpcInv ==
    ASSUME SurplusPosts = FALSE
    PROVE  BridgeSpec => []RpcInv
BY BridgeIsServer, RpcInvariant, PTL

\* In the running bridge too no request is answered twice, and no notification,
\* if no packet posts sem without a job.
THEOREM BridgeKeepsContract ==
    ASSUME SurplusPosts = FALSE
    PROVE  BridgeSpec => ContractSpec
BY BridgeIsServer, ImplementsContract, PTL

\* In the running bridge too a finished request has been answered exactly once, or
\* never if memory ran out twice, if no packet posts sem without a job.
THEOREM BridgeAnswers ==
    ASSUME SurplusPosts = FALSE
    PROVE  BridgeSpec => []Answered
BY BridgeIsServer, RequestsAnswered, PTL

------------------------------------------------------------------------------
(* Registration.                                                           *)

LEMMA Constants ==
    /\ RPC_CHANNEL \in Nat /\ RPC_CHANNEL \notin Numbers
    /\ Numbers \subseteq Nat /\ NoNumber \notin Nat
    /\ "head" \notin Makers /\ "rpc" \notin Makers /\ "end" \notin Makers /\ "none" \notin Makers
BY BridgeAssumption DEF NoNumber

\* Every set of numbers that is not empty has a least one.
LEMMA HasLeast ==
    ASSUME NEW T, T \subseteq Nat, T # {}
    PROVE  \E x \in T : \A y \in T : ~ (y < x)
<1>1. \E x \in T : \A y \in T : ~ (<<y, x>> \in OpToRel(<, Nat))
  BY NatLessThanWellFounded, WFMin, Zenon
<1>2. \A x, y \in Nat : (<<y, x>> \in OpToRel(<, Nat)) <=> y < x
  BY Zenon DEF OpToRel
<1> QED BY <1>1, <1>2, Zenon

\* find_channel finds the first channel with the number, or there is none.
LEMMA FindFirst ==
    ASSUME BridgeTypeOK, NEW n
    PROVE  \/ Find(n) = "none" /\ \A i \in DOMAIN channels : NumberOf(channels[i]) # n
           \/ \E i \in DOMAIN channels :
                 /\ Find(n) = channels[i] /\ NumberOf(channels[i]) = n
                 /\ \A j \in 1..(i - 1) : NumberOf(channels[j]) # n
<1> DEFINE found == {i \in DOMAIN channels : NumberOf(channels[i]) = n}
           first == CHOOSE i \in found : \A j \in found : i <= j
<1>1. CASE found = {}
  BY <1>1 DEF Find
<1>2. CASE found # {}
  <2>1. DOMAIN channels = 1..Len(channels) /\ Len(channels) \in Nat
    BY DEF BridgeTypeOK
  <2>2. found \subseteq Nat  BY <2>1
  <2>3. \E i \in found : \A j \in found : ~ (j < i)  BY <1>2, <2>2, HasLeast
  <2>4. \E i \in found : \A j \in found : i <= j  BY <2>2, <2>3
  <2>5. first \in found /\ \A j \in found : first <= j  BY <2>4, Zenon
  <2>6. Find(n) = channels[first]  BY <1>2 DEF Find
  <2>7. ASSUME NEW j \in 1..(first - 1)  PROVE NumberOf(channels[j]) # n
    <3>1. first \in Nat /\ first <= Len(channels)  BY <2>1, <2>5
    <3>2. j \in DOMAIN channels /\ ~ (first <= j)  BY <2>1, <3>1
    <3> QED  BY <2>5, <3>2
  <2> QED  BY <2>5, <2>6, <2>7
<1> QED  BY <1>1, <1>2

LEMMA FindWhat ==
    ASSUME BridgeTypeOK, ListInv, NEW n
    PROVE  \/ Find(n) = "none"
           \/ Find(n) = "rpc" /\ n = RPC_CHANNEL
           \/ \E m \in Makers : Find(n) = m /\ mpc[m] = "made" /\ number[m] = n
<1>1. CASE Find(n) = "none"  BY <1>1
<1>2. CASE \E i \in DOMAIN channels : Find(n) = channels[i] /\ NumberOf(channels[i]) = n
  <2>1. PICK i \in DOMAIN channels : Find(n) = channels[i] /\ NumberOf(channels[i]) = n
    BY <1>2
  <2>2. channels[i] \in Makers \cup {"rpc"}  BY DEF BridgeTypeOK
  <2> QED  BY <2>1, <2>2 DEF ListInv, NumberOf
<1> QED  BY <1>1, <1>2, FindFirst

LEMMA TypeStep ==
    ASSUME BridgeTypeOK, ListInv, [BridgeNext]_allVars
    PROVE  BridgeTypeOK'
<1> USE Constants DEF BridgeTypeOK
<1>1. ASSUME NEW m \in Makers, NEW n \in Numbers, Mkpipe(m, n)
      PROVE  BridgeTypeOK'
  BY <1>1 DEF Mkpipe, hostVars, pipeVars, Making, Others
<1>2. ASSUME NEW m \in Makers, Walk(m) \/ WalkEnd(m)
      PROVE  BridgeTypeOK'
  <2>1. mpc' \in [Makers -> {"idle", "walk", "link", "made", "EEXIST"}]
    BY <1>2 DEF Walk, WalkEnd
  <2>2. \A o \in Makers : mpc'[o] # "idle" => mpc[o] # "idle"
    BY <1>2 DEF Walk, WalkEnd
  <2>3. prev' \in [Makers -> Nodes]
    <3>1. \/ prev' = prev
          \/ next[prev[m]] # "end" /\ prev' = [prev EXCEPT ![m] = next[prev[m]]]
      BY <1>2 DEF Walk, WalkEnd
    <3>2. next[prev[m]] # "end" => next[prev[m]] \in Nodes  BY DEF Nodes
    <3> QED  BY <3>1, <3>2
  <2> QED  BY <1>2, <2>1, <2>2, <2>3 DEF Walk, WalkEnd, hostVars, pipeVars
<1>3. ASSUME NEW m \in Makers, Link(m)
      PROVE  BridgeTypeOK'
  <2>1. channels' \in Seq(Makers \cup {"rpc"})
    <3>1. CASE UNCHANGED channels  BY <3>1
    <3>2. ASSUME NEW i \in DOMAIN channels, channels' = Append(SubSeq(channels, 1, i), m)
          PROVE  channels' \in Seq(Makers \cup {"rpc"})
      <4>1. SubSeq(channels, 1, i) \in Seq(Makers \cup {"rpc"})
        BY SubSeqProperties
      <4> QED  BY <3>2, <4>1
    <3> QED  BY <1>3, <3>1, <3>2 DEF Link
  <2>2. /\ mpc' \in [Makers -> {"idle", "walk", "link", "made", "EEXIST"}]
        /\ offered' \in [Makers -> Nat]
        /\ next' \in [Nodes -> Makers \cup {"rpc", "end"}]
        /\ \A o \in Makers : mpc'[o] # "idle" => mpc[o] # "idle"
    BY <1>3 DEF Link
  <2> QED  BY <1>3, <2>1, <2>2 DEF Link, pipeVars
<1>4. ASSUME Host
      PROVE  BridgeTypeOK'
  <2>1. ASSUME NEW n \in Nat, NEW new \in BOOLEAN, HostSends(n, new),
               offered' \in [Makers -> Nat]
        PROVE  BridgeTypeOK'
    BY <2>1 DEF HostSends, makerVars, pipeVars
  <2>2. CASE HostRequest
    <3>1. HostSends(RPC_CHANNEL, FALSE) /\ UNCHANGED offered  BY <2>2 DEF HostRequest
    <3> QED  BY <2>1, <3>1
  <2>3. ASSUME NEW m \in Makers, HostPipe(m) \/ HostEarly(m)
        PROVE  BridgeTypeOK'
    <3>1. number[m] \in Nat
      BY <2>3 DEF HostPipe, HostEarly, Making
    <3>2. offered' \in [Makers -> Nat]
      <4>1. CASE HostPipe(m)  BY <4>1 DEF HostPipe
      <4>2. CASE HostEarly(m)  BY <4>2 DEF HostEarly
      <4> QED  BY <2>3, <4>1, <4>2
    <3>3. \E new \in BOOLEAN : HostSends(number[m], new)
      BY <2>3 DEF HostPipe, HostEarly
    <3> QED  BY <2>1, <3>1, <3>2, <3>3
  <2> QED  BY <1>4, <2>2, <2>3 DEF Host
<1>5. ASSUME SelectChannel
      PROVE  BridgeTypeOK'
  <2>1. wire' \in [to : Nat, select : BOOLEAN] /\ selected' \in Nat
    <3>1. wire \in [to : Nat, select : BOOLEAN]  BY <1>5 DEF SelectChannel, Quiet
    <3> QED  BY <1>5, <3>1 DEF SelectChannel
  <2>2. sink_channel' \in Targets
    BY <1>5, FindWhat DEF SelectChannel, Targets
  <2> QED  BY <1>5, <2>1, <2>2 DEF SelectChannel, makerVars, pipeVars
<1>6. ASSUME NEW sink, Takes(sink), UNCHANGED put
      PROVE  BridgeTypeOK'
  BY <1>6 DEF Takes, Quiet, makerVars
<1>7. ASSUME NEW m \in Makers, PipeByte(m)
      PROVE  BridgeTypeOK'
  BY <1>7 DEF PipeByte, Takes, Quiet, makerVars
<1>8. CASE UNCHANGED <<setup, makerVars, hostVars, put>>
  BY <1>8 DEF makerVars, hostVars
<1>9. ASSUME NEW m \in Makers, PipeSample(m) \/ PipePost(m)
      PROVE  BridgeTypeOK'
  BY <1>8, <1>9 DEF PipeSample, PipePost
<1>10. ASSUME NEW m \in Makers, Application(m)
       PROVE  BridgeTypeOK'
  BY <1>8, <1>10 DEF Application, Read, Sleep, Wake
<1>11. ASSUME NEW w \in Workers, Worker(w)
       PROVE  BridgeTypeOK'
  <2>1. CASE MethodRead(w)  BY <1>8, <2>1 DEF MethodRead, Read, Sleep, Wake
  <2>2. CASE UNCHANGED bridgeVars  BY <1>8, <2>2 DEF bridgeVars, pipeVars
  <2> QED  BY <1>11, <2>1, <2>2 DEF Worker
<1>12. CASE UNCHANGED bridgeVars
  BY <1>8, <1>12 DEF bridgeVars, pipeVars
<1>13. ASSUME BridgeThread
       PROVE  BridgeTypeOK'
  <2>1. CASE Drop  BY <1>6, <2>1 DEF Drop, Sinks, pipeVars
  <2>2. CASE RpcByte  BY <1>6, <2>2 DEF RpcByte, Sinks, pipeVars
  <2>3. CASE RpcPost  BY <1>12, <2>3 DEF RpcPost
  <2>4. CASE \E r \in setup.requests, s \in setup.sizes, m \in Makers \cup {"none"} :
                RpcSop(r, s, m)
    BY <1>6, <2>4 DEF RpcSop, Sinks, pipeVars
  <2> QED  BY <1>13, <1>5, <1>7, <1>9, <2>1, <2>2, <2>3, <2>4 DEF BridgeThread
<1> QED
  BY <1>1, <1>2, <1>3, <1>4, <1>10, <1>11, <1>12, <1>13
  DEF BridgeNext, Register, Callbacks, allVars

\* Every step but those of the makers leaves the list alone.
LEMMA ListAlone ==
    ASSUME [BridgeNext]_allVars
    PROVE  \/ \E m \in Makers, n \in Numbers : Mkpipe(m, n)
           \/ \E m \in Makers : Walk(m) \/ WalkEnd(m) \/ Link(m)
           \/ UNCHANGED makerVars
<1>1. CASE Host  BY <1>1 DEF Host, HostRequest, HostPipe, HostEarly, HostSends
<1>2. CASE BridgeThread
  BY <1>2 DEF BridgeThread, SelectChannel, Sinks, Takes, Drop, RpcSop, RpcByte, RpcPost,
              PipeSample, PipeByte, PipePost, bridgeVars
<1>3. CASE \E w \in Workers : Worker(w)
  BY <1>3 DEF Worker, MethodRead, bridgeVars
<1> QED
  BY <1>1, <1>2, <1>3
  DEF BridgeNext, Register, Application, Callbacks, allVars, bridgeVars

\* What Link does to the list: it cuts off what is behind the channel that m has
\* come to, or leaves the list as it is.
LEMMA LinkList ==
    ASSUME BridgeTypeOK, NEW m \in Makers, Link(m)
    PROVE  \/ /\ UNCHANGED channels
              /\ \A i \in DOMAIN channels : channels[i] # prev[m]
           \/ \E k \in DOMAIN channels :
                 /\ channels[k] = prev[m]
                 /\ Len(channels') = k + 1 /\ channels'[k + 1] = m
                 /\ \A i \in 1..k : channels'[i] = channels[i]
<1> SUFFICES ASSUME NEW k \in DOMAIN channels, channels[k] = prev[m],
                    channels' = Append(SubSeq(channels, 1, k), m)
             PROVE  /\ Len(channels') = k + 1 /\ channels'[k + 1] = m
                    /\ \A i \in 1..k : channels'[i] = channels[i]
    BY DEF Link
<1>1. channels \in Seq(Makers \cup {"rpc"}) /\ k \in 1..Len(channels)  BY DEF BridgeTypeOK
<1> DEFINE s == SubSeq(channels, 1, k)
<1>2. s \in Seq(Makers \cup {"rpc"}) /\ Len(s) = k /\ \A i \in 1..k : s[i] = channels[i]
  BY <1>1, SubSeqProperties
<1>3. channels' = Append(s, m)  OBVIOUS
<1> HIDE DEF s
<1> QED  BY <1>1, <1>2, <1>3

LEMMA ListStep ==
    ASSUME BridgeTypeOK, ListInv, [BridgeNext]_allVars
    PROVE  ListInv'
<1> USE Constants
<1>1. ASSUME NEW m \in Makers, NEW n \in Numbers, Mkpipe(m, n)
      PROVE  ListInv'
  BY <1>1 DEF Mkpipe, ListInv, BridgeTypeOK
<1>2. ASSUME NEW m \in Makers, Walk(m)
      PROVE  ListInv'
  <2>1. /\ UNCHANGED <<channels, next>> /\ mpc[m] = "walk"
        /\ mpc'[m] \in {"walk", "EEXIST"}
        /\ prev'[m] = prev[m] \/ (prev'[m] = next[prev[m]] /\ next[prev[m]] # "end")
        /\ \A o \in Makers : o # m => mpc'[o] = mpc[o] /\ prev'[o] = prev[o]
    BY <1>2 DEF Walk, BridgeTypeOK
  <2>2. next[prev[m]] \in Makers \cup {"rpc", "end"} /\ prev[m] \in Nodes
    BY DEF BridgeTypeOK
  <2>3. prev'[m] \in Makers => mpc[prev'[m]] = "made"
    BY <2>1, <2>2 DEF ListInv
  <2>4. \A o \in Makers : mpc'[o] = "made" <=> mpc[o] = "made"
    BY <2>1
  <2>5. \A o \in Makers : prev'[o] \in Makers => mpc'[prev'[o]] = "made"
    BY <2>1, <2>3, <2>4 DEF ListInv
  <2>6. \A i \in DOMAIN channels' : channels'[i] = "rpc" \/ mpc'[channels'[i]] = "made"
    <3>1. \A i \in DOMAIN channels : channels[i] \in Makers \cup {"rpc"}  BY DEF BridgeTypeOK
    <3> QED  BY <2>1, <2>4, <3>1 DEF ListInv
  <2> QED  BY <2>1, <2>4, <2>5, <2>6 DEF ListInv
<1>3. ASSUME NEW m \in Makers, WalkEnd(m)
      PROVE  ListInv'
  <2>1. /\ UNCHANGED <<channels, next, prev>>
        /\ mpc[m] = "walk" /\ next[prev[m]] = "end" /\ mpc' = [mpc EXCEPT ![m] = "link"]
    BY <1>3 DEF WalkEnd
  <2>2. prev[m] # "head"  BY <2>1 DEF ListInv
  <2> QED  BY <2>1, <2>2 DEF ListInv, BridgeTypeOK
<1>4. ASSUME NEW m \in Makers, Link(m)
      PROVE  ListInv'
  <2>1. /\ UNCHANGED prev
        /\ mpc[m] = "link" /\ mpc' = [mpc EXCEPT ![m] = "made"]
        /\ next' = [next EXCEPT ![prev[m]] = m]
    BY <1>4 DEF Link
  <2>2. /\ prev[m] # "head" /\ prev[m] \in Nodes /\ prev[m] # m
        /\ prev[m] \in Makers => mpc[prev[m]] = "made"
        /\ next[m] = "end"
    BY <2>1 DEF ListInv, BridgeTypeOK
  <2>3. /\ next'[m] = "end" /\ next'["head"] = "rpc" /\ next'[prev[m]] = m
        /\ \A c \in Nodes : c # prev[m] => next'[c] = next[c]
    BY <2>1, <2>2 DEF ListInv, BridgeTypeOK, Nodes
  <2>4. /\ mpc'[m] = "made"
        /\ \A o \in Makers : o # m => mpc'[o] = mpc[o]
    BY <2>1 DEF BridgeTypeOK
  <2>5. /\ \A o \in Makers : mpc'[o] # "made" => next'[o] = "end"
        /\ \A o \in Makers : prev[o] \in Makers => mpc'[prev[o]] = "made"
        /\ \A o \in Makers : mpc'[o] = "idle" => prev[o] = "head"
        /\ \A o \in Makers : mpc'[o] = "link" => prev[o] # "head"
        /\ \A c \in Nodes : next'[c] \in Makers => mpc'[next'[c]] = "made"
    BY <2>2, <2>3, <2>4 DEF ListInv, Nodes
  <2>6. /\ Len(channels) \in Nat /\ DOMAIN channels = 1..Len(channels)
        /\ Len(channels') \in Nat /\ DOMAIN channels' = 1..Len(channels')
        /\ \A i \in DOMAIN channels : channels[i] \in Nodes /\ channels[i] # m
    <3>1. BridgeTypeOK'  BY TypeStep
    <3>2. channels \in Seq(Makers \cup {"rpc"}) /\ channels' \in Seq(Makers \cup {"rpc"})
      BY <3>1 DEF BridgeTypeOK
    <3>3. \A i \in DOMAIN channels : channels[i] \in Nodes  BY <3>2 DEF Nodes
    <3>4. \A i \in DOMAIN channels : channels[i] # m  BY <2>1 DEF ListInv
    <3> QED  BY <3>2, <3>3, <3>4
  <2>7. CASE /\ UNCHANGED channels
             /\ \A i \in DOMAIN channels : channels[i] # prev[m]
    <3>1. \A i \in DOMAIN channels :
             next'[channels[i]] = IF i = Len(channels) THEN "end" ELSE channels[i + 1]
      BY <2>3, <2>6, <2>7 DEF ListInv
    <3>2. \A i \in DOMAIN channels : channels[i] = "rpc" \/ mpc'[channels[i]] = "made"
      BY <2>4, <2>6 DEF ListInv, Nodes
    <3>3. \A i, j \in DOMAIN channels : channels[i] = channels[j] => i = j
      BY DEF ListInv
    <3> QED  BY <2>1, <2>3, <2>5, <2>7, <3>1, <3>2, <3>3 DEF ListInv
  <2>8. ASSUME NEW k \in DOMAIN channels,
               /\ channels[k] = prev[m]
               /\ Len(channels') = k + 1 /\ channels'[k + 1] = m
               /\ \A i \in 1..k : channels'[i] = channels[i]
        PROVE  ListInv'
    <3>1. /\ k \in Nat /\ k > 0
          /\ \A i \in DOMAIN channels' : i \in Nat /\ (i \in 1..k \/ i = k + 1)
          /\ \A i \in 1..k : i \in DOMAIN channels /\ i \in Nat /\ i # k + 1
      BY <2>6, <2>8
    <3>2. \A i, j \in DOMAIN channels' : channels'[i] = channels'[j] => i = j
      BY <2>6, <2>8, <3>1 DEF ListInv
    <3>3. ASSUME NEW i \in DOMAIN channels'
          PROVE  next'[channels'[i]] = IF i = Len(channels') THEN "end" ELSE channels'[i + 1]
      <4>1. CASE i = k + 1  BY <2>3, <2>8, <4>1
      <4>2. CASE i = k  BY <2>3, <2>8, <3>1, <4>2
      <4>3. CASE i \in 1..k /\ i # k
        <5>1. i + 1 \in 1..k /\ i # Len(channels) /\ i # Len(channels') /\ k \in Nat
          BY <2>6, <2>8, <3>1, <4>3
        <5>2. channels[i] # prev[m]  BY <2>8, <3>1, <4>3 DEF ListInv
        <5>3. next[channels[i]] = channels[i + 1]  BY <3>1, <4>3, <5>1 DEF ListInv
        <5> QED  BY <2>3, <2>6, <2>8, <3>1, <4>3, <5>1, <5>2, <5>3
      <4> QED  BY <3>1, <3>3, <4>1, <4>2, <4>3
    <3>4. \A i \in DOMAIN channels' : channels'[i] = "rpc" \/ mpc'[channels'[i]] = "made"
      <4>1. \A i \in DOMAIN channels : channels[i] = "rpc" \/ mpc'[channels[i]] = "made"
        BY <2>4, <2>6 DEF ListInv, Nodes
      <4> QED  BY <2>4, <2>8, <3>1, <4>1
    <3>5. Len(channels') > 0 /\ channels'[1] = "rpc"
      BY <2>8, <3>1 DEF ListInv
    <3> QED  BY <2>1, <2>3, <2>5, <3>2, <3>3, <3>4, <3>5 DEF ListInv
  <2> QED  BY <1>4, <2>7, <2>8, LinkList
<1>5. CASE UNCHANGED makerVars
  BY <1>5 DEF makerVars, ListInv
<1> QED  BY <1>1, <1>2, <1>3, <1>4, <1>5, ListAlone

\* Who registers alone is not disturbed, and a registered channel is not cut off
\* by those who race behind it.
LEMMA AloneStep ==
    ASSUME BridgeTypeOK, ListInv, AloneInv, [BridgeNext]_allVars
    PROVE  AloneInv'
<1> USE Constants
<1>t. /\ Len(channels) \in Nat /\ Len(channels) > 0 /\ DOMAIN channels = 1..Len(channels)
      /\ \A i \in DOMAIN channels : channels[i] \in Makers \cup {"rpc"}
  BY DEF BridgeTypeOK, ListInv
<1>m. ASSUME NEW o \in Makers \ raced, NEW m \in Makers, m # o, Making(m)
      PROVE  ~ Making(o)
  BY <1>m DEF AloneInv, Others
<1>1. ASSUME NEW m \in Makers, NEW n \in Numbers, Mkpipe(m, n)
      PROVE  AloneInv'
  <2>1. /\ UNCHANGED <<next, channels, prev>> /\ mpc[m] = "idle"
        /\ mpc' = [mpc EXCEPT ![m] = "walk"] /\ number' = [number EXCEPT ![m] = n]
        /\ raced' = IF Others(m) = {} THEN raced ELSE raced \cup Others(m) \cup {m}
    BY <1>1 DEF Mkpipe
  <2>2. \A i \in DOMAIN channels : channels[i] # m /\ NumberOf(channels[i])' = NumberOf(channels[i])
    <3>1. \A i \in DOMAIN channels : channels[i] # m  BY <2>1 DEF ListInv
    <3>2. \A o \in Makers : o # m => number'[o] = number[o]  BY <2>1 DEF BridgeTypeOK
    <3> QED  BY <1>t, <2>1, <3>1, <3>2 DEF NumberOf
  <2>3. raced \subseteq raced'  BY <2>1
  <2>4. ASSUME NEW o \in Makers, o \notin raced', o # m
        PROVE  /\ Making(o)' => FALSE
               /\ mpc'[o] = "made" => \E i \in DOMAIN channels' : Found(o, i)'
    <3>1. Making(o)' <=> Making(o)  BY <2>1, <2>4 DEF Making, BridgeTypeOK
    <3>2. ~ Making(o)  BY <2>1, <2>4 DEF Others
    <3>3. ASSUME mpc'[o] = "made"
          PROVE  \E i \in DOMAIN channels' : Found(o, i)'
      <4>1. mpc[o] = "made" /\ o \notin raced /\ number'[o] = number[o]
        BY <2>1, <2>3, <2>4, <3>3 DEF BridgeTypeOK
      <4>2. PICK i \in DOMAIN channels : Found(o, i)  BY <4>1 DEF AloneInv
      <4>3. \A q \in Makers : mpc'[q] = "link" => mpc[q] = "link"  BY <2>1 DEF BridgeTypeOK
      <4>4. \A j \in 1..(i - 1) : j \in DOMAIN channels  BY <1>t
      <4>5. Found(o, i)'  BY <2>1, <2>2, <4>1, <4>2, <4>3, <4>4 DEF Found
      <4> QED  BY <2>1, <4>5
    <3> QED  BY <3>1, <3>2, <3>3
  <2>5. ASSUME m \notin raced'
        PROVE  /\ Making(m)' => Others(m)' = {} /\ \E i \in 0..Len(channels)' : Walked(m, i)'
               /\ mpc'[m] = "made" => FALSE
    <3>1. Others(m) = {} /\ Others(m)' = Others(m)
      BY <2>1, <2>5 DEF Others, Making, BridgeTypeOK
    <3>2. prev[m] = "head" /\ mpc'[m] = "walk"  BY <2>1 DEF ListInv, BridgeTypeOK
    <3>3. Walked(m, 0)'  BY <2>1, <3>2 DEF Walked
    <3> QED  BY <1>t, <2>1, <3>1, <3>2, <3>3
  <2> QED  BY <2>4, <2>5 DEF AloneInv
\* A step of m along the list or off it, which is no registration.
<1>2. ASSUME NEW m \in Makers, Making(m), UNCHANGED <<next, channels, number, raced>>,
             mpc'[m] # "made", \A o \in Makers : o # m => mpc'[o] = mpc[o] /\ prev'[o] = prev[o],
             \A j \in DOMAIN channels :
                mpc'[m] = "link" /\ prev'[m] = channels[j] => j = Len(channels),
             m \notin raced /\ Making(m)' => \E i \in 0..Len(channels) : Walked(m, i)'
      PROVE  AloneInv'
  <2>1. \A c \in Makers \cup {"rpc"} : NumberOf(c)' = NumberOf(c)  BY <1>2 DEF NumberOf
  <2>2. ASSUME NEW o \in Makers, o \notin raced, mpc'[o] = "made"
        PROVE  \E i \in DOMAIN channels' : Found(o, i)'
    <3>1. o # m /\ mpc[o] = "made"  BY <1>2, <2>2
    <3>2. PICK i \in DOMAIN channels : Found(o, i)  BY <2>2, <3>1 DEF AloneInv
    <3>3. \A j \in 1..(i - 1) : j \in DOMAIN channels /\ j # Len(channels)
      <4> DEFINE n == Len(channels)
      <4>1. n \in Nat /\ i \in 1..n /\ DOMAIN channels = 1..n  BY <1>t
      <4> HIDE DEF n
      <4>2. \A j \in 1..(i - 1) : j \in 1..n /\ j # n  BY <4>1
      <4> QED  BY <4>1, <4>2 DEF n
    <3>4. Found(o, i)'  BY <1>2, <2>1, <1>t, <3>2, <3>3 DEF Found
    <3> QED  BY <1>2, <3>4
  <2>3. ASSUME NEW o \in Makers, o \notin raced, Making(o)'
        PROVE  Others(o)' = {} /\ \E i \in 0..Len(channels)' : Walked(o, i)'
    <3>1. o = m  BY <1>2, <1>m, <2>3 DEF Making
    <3>2. Others(m) = {}  BY <1>2, <2>3, <3>1 DEF AloneInv
    <3>3. Others(m)' = {}  BY <1>2, <3>2 DEF Others, Making
    <3> QED  BY <1>2, <2>3, <3>1, <3>3
  <2> QED  BY <1>2, <2>2, <2>3 DEF AloneInv
<1>3. ASSUME NEW m \in Makers, Walk(m)
      PROVE  AloneInv'
  <2>1. /\ mpc[m] = "walk" /\ next[prev[m]] # "end" /\ UNCHANGED <<next, channels, number, raced>>
        /\ \A o \in Makers : o # m => mpc'[o] = mpc[o] /\ prev'[o] = prev[o]
        /\ mpc'[m] \in {"walk", "EEXIST"}
        /\ mpc'[m] = "walk" => prev'[m] = next[prev[m]] /\ ~ Taken(m)
    BY <1>3 DEF Walk, BridgeTypeOK
  <2>2. ASSUME m \notin raced, mpc'[m] = "walk"
        PROVE  \E i \in 0..Len(channels) : Walked(m, i)'
    <3>1. PICK i \in 0..Len(channels) : Walked(m, i)
      BY <2>1, <2>2 DEF AloneInv, Making
    <3>2. i # Len(channels) /\ next[prev[m]] = channels[i + 1]
      <4>1. CASE i = 0  BY <1>t, <3>1, <4>1 DEF Walked, ListInv
      <4>2. CASE i # 0
        <5>1. i \in DOMAIN channels  BY <1>t, <4>2
        <5> QED  BY <2>1, <3>1, <4>2, <5>1 DEF Walked, ListInv
      <4> QED  BY <4>1, <4>2
    <3>3. i + 1 \in 0..Len(channels) /\ i + 1 # 0 /\ \A j \in 1..(i + 1) : j \in 1..i \/ j = i + 1
      BY <1>t, <3>2
    <3>4. NumberOf(channels[i + 1]) # number[m]
      BY <2>1, <2>2, <3>2 DEF Taken
    <3>5. \A c \in Makers \cup {"rpc"} : NumberOf(c)' = NumberOf(c)  BY <2>1 DEF NumberOf
    <3>6. \A j \in 1..(i + 1) : channels[j] \in Makers \cup {"rpc"}  BY <1>t, <3>3
    <3>7. Walked(m, i + 1)'
      BY <2>1, <2>2, <3>1, <3>2, <3>3, <3>4, <3>5, <3>6 DEF Walked
    <3> QED  BY <3>3, <3>7
  <2> QED  BY <1>2, <2>1, <2>2 DEF Making
<1>4. ASSUME NEW m \in Makers, WalkEnd(m)
      PROVE  AloneInv'
  <2>1. /\ mpc[m] = "walk" /\ next[prev[m]] = "end"
        /\ UNCHANGED <<next, channels, number, raced, prev>>
        /\ \A o \in Makers : o # m => mpc'[o] = mpc[o]
        /\ mpc'[m] = "link"
    BY <1>4 DEF WalkEnd, BridgeTypeOK
  <2>2. \A j \in DOMAIN channels : prev[m] = channels[j] => j = Len(channels)
    <3> SUFFICES ASSUME NEW j \in DOMAIN channels, prev[m] = channels[j], j # Len(channels)
                 PROVE  FALSE
        OBVIOUS
    <3>1. next[channels[j]] = channels[j + 1] /\ j + 1 \in DOMAIN channels
      BY <1>t DEF ListInv
    <3> QED  BY <1>t, <2>1, <3>1
  <2>3. ASSUME m \notin raced
        PROVE  \E i \in 0..Len(channels) : Walked(m, i)'
    <3>1. PICK i \in 0..Len(channels) : Walked(m, i)
      BY <2>1, <2>3 DEF AloneInv, Making
    <3>2. i # 0  BY <2>1, <3>1 DEF Walked, ListInv
    <3>3. i \in DOMAIN channels  BY <1>t, <3>2
    <3>4. i = Len(channels)  BY <2>2, <3>1, <3>2, <3>3 DEF Walked
    <3>5. \A c \in Makers \cup {"rpc"} : NumberOf(c)' = NumberOf(c)  BY <2>1 DEF NumberOf
    <3>6. \A j \in 1..i : channels[j] \in Makers \cup {"rpc"}  BY <1>t
    <3>7. Walked(m, i)'  BY <2>1, <3>1, <3>4, <3>5, <3>6 DEF Walked
    <3> QED  BY <3>7
  <2> QED  BY <1>2, <2>1, <2>2, <2>3 DEF Making
<1>5. ASSUME NEW m \in Makers, Link(m)
      PROVE  AloneInv'
  <2>1. /\ mpc[m] = "link" /\ mpc'[m] = "made" /\ UNCHANGED <<number, prev, raced>>
        /\ \A o \in Makers : o # m => mpc'[o] = mpc[o]
    BY <1>5 DEF Link, BridgeTypeOK
  <2>2. \A c \in Makers \cup {"rpc"} : NumberOf(c)' = NumberOf(c)  BY <2>1 DEF NumberOf
  <2>3. ASSUME NEW o \in Makers, o \notin raced
        PROVE  ~ Making(o)'
    BY <1>m, <2>1, <2>3 DEF Making
  <2>4. ASSUME NEW o \in Makers, o \notin raced, mpc'[o] = "made", o # m
        PROVE  \E i \in DOMAIN channels' : Found(o, i)'
    <3>1. PICK i \in DOMAIN channels : Found(o, i)  BY <2>1, <2>4 DEF AloneInv
    <3>2. \A j \in 1..(i - 1) :
             channels[j] \in Makers \cup {"rpc"} /\ channels[j] # prev[m]
      BY <1>t, <2>1, <3>1 DEF Found
    <3>3. i \in DOMAIN channels' /\ \A j \in 1..i : channels'[j] = channels[j]
      <4>1. CASE UNCHANGED channels  BY <4>1
      <4>2. ASSUME NEW k \in DOMAIN channels, channels[k] = prev[m], Len(channels') = k + 1,
                   \A j \in 1..k : channels'[j] = channels[j]
            PROVE  i \in DOMAIN channels' /\ \A j \in 1..i : channels'[j] = channels[j]
        <5>1. k \notin 1..(i - 1)  BY <3>2, <4>2
        <5>2. i \in 1..k  BY <1>t, <5>1
        <5>3. BridgeTypeOK'  BY TypeStep
        <5>4. DOMAIN channels' = 1..(k + 1)  BY <4>2, <5>3 DEF BridgeTypeOK
        <5>5. k \in Nat /\ i \in Nat  BY <1>t
        <5> QED  BY <4>2, <5>2, <5>4, <5>5
      <4> QED  BY <1>5, <4>1, <4>2, LinkList
    <3>4. \A j \in 1..(i - 1) : j \in 1..i /\ i \in 1..i  BY <1>t
    <3>5. i \in 1..i  BY <1>t
    <3>6. \A j \in 1..(i - 1) :
             /\ NumberOf(channels[j])' # number'[o]
             /\ \A q \in Makers : mpc'[q] = "link" => prev'[q] # channels'[j]
      <4>1. \A j \in 1..(i - 1) : NumberOf(channels[j])' = NumberOf(channels[j])
        BY <2>1, <3>3, <3>4 DEF NumberOf
      <4> QED  BY <2>1, <3>1, <3>2, <3>3, <3>4, <4>1 DEF Found
    <3>7. Found(o, i)'  BY <3>1, <3>3, <3>5, <3>6 DEF Found
    <3> QED  BY <3>3, <3>7
  <2>5. ASSUME m \notin raced
        PROVE  \E i \in DOMAIN channels' : Found(m, i)'
    <3>1. Others(m) = {} /\ \E i \in 0..Len(channels) : Walked(m, i)
      BY <2>1, <2>5 DEF AloneInv, Making
    <3>2. Walked(m, Len(channels))  BY <2>1, <3>1 DEF Walked
    <3>3. prev[m] = channels[Len(channels)] /\ Len(channels) \in DOMAIN channels
      BY <1>t, <3>2 DEF Walked
    <3>4. PICK k \in DOMAIN channels :
             /\ channels[k] = prev[m]
             /\ Len(channels') = k + 1 /\ channels'[k + 1] = m
             /\ \A i \in 1..k : channels'[i] = channels[i]
      BY <1>5, <3>3, LinkList
    <3>5. k = Len(channels)  BY <3>3, <3>4 DEF ListInv
    <3>6. DOMAIN channels' = 1..(k + 1)
      <4>1. BridgeTypeOK'  BY TypeStep
      <4> QED  BY <3>4, <4>1 DEF BridgeTypeOK
    <3>7. \A q \in Makers : mpc'[q] # "link"
      BY <2>1, <3>1 DEF Others, Making
    <3>8. \A j \in 1..((k + 1) - 1) : j \in 1..k /\ channels[j] \in Makers \cup {"rpc"}
      BY <1>t, <3>5
    <3>9. \A j \in 1..((k + 1) - 1) : NumberOf(channels[j])' # number'[m]
      <4>1. \A j \in 1..((k + 1) - 1) : NumberOf(channels[j])' = NumberOf(channels[j])
        BY <2>1, <3>4, <3>8 DEF NumberOf
      <4> QED  BY <2>1, <3>2, <3>5, <3>8, <4>1 DEF Walked
    <3>10. Found(m, k + 1)'  BY <3>4, <3>7, <3>9 DEF Found
    <3>11. k + 1 \in 1..(k + 1)  BY <1>t, <3>5
    <3> QED  BY <3>6, <3>10, <3>11
  <2> QED  BY <2>1, <2>3, <2>4, <2>5 DEF AloneInv
<1>6. CASE UNCHANGED makerVars
  BY <1>6 DEF makerVars, AloneInv, Walked, Found, NumberOf, Making, Others
<1> QED  BY <1>1, <1>3, <1>4, <1>5, <1>6, ListAlone

LEMMA ListHolds == BridgeSpec => [](BridgeTypeOK /\ ListInv /\ AloneInv)
<1>1. BridgeInit => BridgeTypeOK /\ ListInv /\ AloneInv
  <2> SUFFICES ASSUME BridgeInit  PROVE BridgeTypeOK /\ ListInv /\ AloneInv
      OBVIOUS
  <2>1. BridgeTypeOK
    BY Constants DEF BridgeInit, BridgeTypeOK, Nodes, Targets, Quiet, NoNumber
  <2>2. ListInv
    BY Constants DEF BridgeInit, ListInv, Nodes
  <2>3. AloneInv
    BY DEF BridgeInit, AloneInv, Making
  <2> QED  BY <2>1, <2>2, <2>3
<1>2. BridgeTypeOK /\ ListInv /\ AloneInv /\ [BridgeNext]_allVars
         => BridgeTypeOK' /\ ListInv' /\ AloneInv'
  BY TypeStep, ListStep, AloneStep
<1> QED  BY <1>1, <1>2, PTL DEF BridgeSpec

LEMMA AloneIsFound ==
    ASSUME BridgeTypeOK, ListInv, AloneInv
    PROVE  RegisteredIsFound
<1> SUFFICES ASSUME NEW m \in Makers \ raced, mpc[m] = "made"
             PROVE  Find(number[m]) = m
    BY DEF RegisteredIsFound
<1>1. PICK i \in DOMAIN channels : Found(m, i)  BY DEF AloneInv
<1>2. channels[i] = m /\ NumberOf(channels[i]) = number[m]
  BY <1>1, Constants DEF Found, NumberOf
<1>3. PICK k \in DOMAIN channels :
         /\ Find(number[m]) = channels[k] /\ NumberOf(channels[k]) = number[m]
         /\ \A j \in 1..(k - 1) : NumberOf(channels[j]) # number[m]
  BY <1>2, FindFirst
<1>4. DOMAIN channels \subseteq Nat \ {0}  BY DEF BridgeTypeOK
<1>5. ~ (k \in 1..(i - 1)) /\ ~ (i \in 1..(k - 1))
  BY <1>1, <1>2, <1>3 DEF Found
<1>6. k = i  BY <1>4, <1>5
<1> QED  BY <1>2, <1>3, <1>6

\* A pipe that mkpipe has made while no other thread made one is found under its
\* number for good, however many threads race for the list afterwards
\* (register_channel and find_channel).
THEOREM RegisteredStays == BridgeSpec => []RegisteredIsFound
BY ListHolds, AloneIsFound, PTL

------------------------------------------------------------------------------
(* The bytes of the pipes.                                                 *)

\* No pipe has the number of the RPC server.
LEMMA PipeNumber ==
    ASSUME BridgeTypeOK, NEW m \in Makers, mpc[m] # "idle"
    PROVE  number[m] \in Nat /\ number[m] # RPC_CHANNEL /\ number[m] # NoNumber
BY Constants DEF BridgeTypeOK

\* The host sends a byte to a channel that is no pipe yet, or is not one at all.
LEMMA WireOther ==
    ASSUME BridgeTypeOK, WireInv, NEW n \in Nat, HostSends(n, FALSE), UNCHANGED offered,
           \A m \in Makers \ raced : mpc[m] = "made" => number[m] # n
    PROVE  WireInv'
<1>1. /\ wire = Quiet /\ wire' = [to |-> n, select |-> n # selected]
      /\ UNCHANGED <<mpc, number, raced, selected, sink_channel, put, offered>>
  BY DEF HostSends, makerVars, pipeVars
<1>2. wire.to = NoNumber /\ wire.select = FALSE /\ NoNumber \notin Nat
  BY <1>1 DEF Quiet, NoNumber
<1>3. wire'.to = n /\ wire'.select = (n # selected)  BY <1>1
<1>4. ASSUME NEW m \in Makers \ raced, mpc[m] = "made"
      PROVE  /\ offered[m] = put[m] /\ wire'.to # number[m]
             /\ selected = number[m] /\ offered[m] > 0 => sink_channel = m
  <2>1. number[m] # NoNumber  BY <1>4, PipeNumber
  <2> QED  BY <1>2, <1>3, <1>4, <2>1 DEF WireInv
<1> QED  BY <1>1, <1>3, <1>4 DEF WireInv

LEMMA WireStep ==
    ASSUME Reselects, BridgeTypeOK, ListInv, AloneInv, WireInv, [BridgeNext]_allVars
    PROVE  WireInv'
<1> USE Constants
<1>1. ASSUME NEW m \in Makers, mpc[m] # "made", mpc'[m] # "made",
             \A o \in Makers \ {m} : mpc'[o] = mpc[o] /\ number'[o] = number[o],
             raced \subseteq raced', UNCHANGED <<hostVars, put>>
      PROVE  WireInv'
  <2>1. UNCHANGED <<wire, selected, sink_channel, offered, put>>  BY <1>1 DEF hostVars
  <2>2. sink_channel # m /\ offered[m] = 0 /\ put[m] = 0  BY <1>1 DEF WireInv
  <2> QED  BY <1>1, <2>1, <2>2 DEF WireInv
<1>2. ASSUME NEW m \in Makers, Link(m)
      PROVE  WireInv'
  <2>1. /\ mpc[m] = "link" /\ mpc' = [mpc EXCEPT ![m] = "made"]
        /\ UNCHANGED <<number, raced, wire, selected, sink_channel, put>>
        /\ \A o \in Makers \ {m} : offered'[o] = offered[o]
        /\ offered'[m] = IF wire = [to |-> number[m], select |-> TRUE] THEN 1 ELSE 0
    BY <1>2 DEF Link, pipeVars, BridgeTypeOK
  <2>2. offered[m] = 0 /\ put[m] = 0 /\ sink_channel # m
    BY <2>1 DEF WireInv
  <2>3. wire.to = number[m] /\ wire.select => wire = [to |-> number[m], select |-> TRUE]
    BY DEF BridgeTypeOK, Quiet
  <2>4. /\ mpc'[m] = "made"
        /\ \A o \in Makers \ {m} : mpc'[o] = mpc[o]
    BY <2>1 DEF BridgeTypeOK
  <2> QED  BY <2>1, <2>2, <2>3, <2>4 DEF WireInv
<1>3. ASSUME HostRequest
      PROVE  WireInv'
  <2>1. \A m \in Makers \ raced : mpc[m] = "made" => number[m] # RPC_CHANNEL  BY PipeNumber
  <2> QED  BY <1>3, <2>1, WireOther DEF HostRequest
<1>4. ASSUME NEW m \in Makers, HostEarly(m)
      PROVE  WireInv'
  <2>1. number[m] \in Nat  BY <1>4, PipeNumber DEF HostEarly, Making
  <2>2. \A o \in Makers \ raced : mpc[o] = "made" => number[o] # number[m]
    BY <1>4, AloneIsFound DEF HostEarly, RegisteredIsFound
  <2> QED  BY <1>4, <2>1, <2>2, WireOther DEF HostEarly
<1>5. ASSUME NEW m \in Makers, HostPipe(m)
      PROVE  WireInv'
  <2>1. /\ mpc[m] = "made" /\ wire = Quiet
        /\ wire'.to = number[m]
        /\ wire'.select = (number[m] # selected \/ \E o \in Namesakes(m) : offered[o] = 0)
        /\ UNCHANGED <<mpc, number, raced, selected, sink_channel, put>>
        /\ \A o \in Makers :
              offered'[o] = IF o \in Namesakes(m) THEN offered[o] + 1 ELSE offered[o]
    BY <1>5 DEF HostPipe, HostSends, makerVars, pipeVars, BridgeTypeOK
  <2>2. wire.to = NoNumber /\ wire.select = FALSE
    BY <2>1 DEF Quiet, NoNumber
  <2>3. ASSUME NEW o \in Makers \ raced, mpc[o] = "made"
        PROVE  /\ offered[o] = put[o] /\ offered[o] \in Nat
               /\ selected = number[o] /\ offered[o] # 0 => sink_channel = o
    <3>1. number[o] # NoNumber  BY <2>3, PipeNumber
    <3>2. offered[o] \in Nat  BY DEF BridgeTypeOK
    <3>3. offered[o] = put[o]  BY <2>2, <2>3, <3>1 DEF WireInv
    <3>4. selected = number[o] /\ offered[o] > 0 => sink_channel = o
      BY <2>2, <2>3 DEF WireInv
    <3> QED  BY <3>2, <3>3, <3>4
  <2>4. ASSUME NEW o \in Makers \ raced, mpc[o] = "made"
        PROVE  /\ \/ offered'[o] = put[o]
                  \/ wire'.to = number[o] /\ offered'[o] = put[o] + 1
               /\ wire'.to = number[o] => offered'[o] = put[o] + 1
               /\ selected = number[o] /\ ~ wire'.select /\ offered'[o] > 0 => sink_channel = o
    <3>1. CASE number[o] = number[m]
      <4>1. o \in Namesakes(m)  BY <2>4, <3>1 DEF Namesakes
      <4>2. ~ wire'.select => offered[o] # 0  BY <2>1, <4>1, Zenon
      <4> QED  BY <2>1, <2>3, <2>4, <3>1, <4>1, <4>2
    <3>2. CASE number[o] # number[m]
      <4>1. offered'[o] = offered[o]  BY <2>1, <3>2 DEF Namesakes
      <4>2. offered[o] = put[o] /\ offered[o] \in Nat  BY <2>3, <2>4
      <4>3. offered[o] > 0 => offered[o] # 0  BY <4>2
      <4> QED  BY <2>1, <2>3, <2>4, <3>2, <4>1, <4>3
    <3> QED  BY <3>1, <3>2
  <2>5. wire'.select \/ wire'.to = selected  BY <2>1
  <2>6. \A o \in Makers : mpc[o] # "made" => offered'[o] = 0 /\ put[o] = 0
    BY <2>1 DEF WireInv, Namesakes
  <2> QED  BY <2>1, <2>4, <2>5, <2>6 DEF WireInv
<1>6. ASSUME SelectChannel
      PROVE  WireInv'
  <2>1. /\ wire.select /\ wire'.to = wire.to /\ ~ wire'.select
        /\ selected' = wire.to /\ sink_channel' = Find(wire.to)
        /\ UNCHANGED <<mpc, number, raced, offered, put>>
    BY <1>6 DEF SelectChannel, makerVars, pipeVars
  <2>2. \A m \in Makers \ raced : mpc[m] = "made" /\ number[m] = wire.to => Find(wire.to) = m
    BY AloneIsFound DEF RegisteredIsFound
  <2>3. /\ Find(wire.to) = "rpc" => wire.to = RPC_CHANNEL
        /\ \A m \in Makers : Find(wire.to) = m => mpc[m] = "made" /\ number[m] = wire.to
    BY FindWhat
  <2> QED  BY <2>1, <2>2, <2>3 DEF WireInv
<1>7. ASSUME NEW sink \in {"none", "rpc"}, Takes(sink), UNCHANGED put
      PROVE  WireInv'
  <2>1. /\ wire # Quiet /\ ~ wire.select /\ sink_channel = sink /\ wire' = Quiet
        /\ UNCHANGED <<mpc, number, raced, selected, sink_channel, offered, put>>
    BY <1>7 DEF Takes, Offered, makerVars
  <2>2. wire'.to = NoNumber /\ ~ wire'.select
    BY <2>1 DEF Quiet
  <2>3. ASSUME NEW m \in Makers \ raced, mpc[m] = "made"
        PROVE  offered[m] = put[m] /\ number[m] # NoNumber
    <3>1. sink_channel # m /\ wire.to = selected  BY <2>1 DEF WireInv
    <3>2. ~ (selected = number[m] /\ offered[m] > 0)  BY <2>1, <2>3, <3>1 DEF WireInv
    <3>3. offered[m] \in Nat /\ put[m] \in Nat  BY DEF BridgeTypeOK
    <3>4. offered[m] = put[m] \/ (wire.to = number[m] /\ offered[m] = put[m] + 1)
      BY <2>3 DEF WireInv
    <3>5. offered[m] = put[m]  BY <3>1, <3>2, <3>3, <3>4
    <3> QED  BY <2>3, <3>5, PipeNumber
  <2>4. \A m \in Makers \ raced : mpc[m] = "made" /\ selected = number[m] /\ offered[m] > 0 =>
           sink_channel = m
    BY <2>1 DEF WireInv
  <2> QED  BY <2>1, <2>2, <2>3, <2>4 DEF WireInv
<1>8. ASSUME NEW m \in Makers, PipeByte(m)
      PROVE  WireInv'
  <2>1. /\ wire # Quiet /\ ~ wire.select /\ sink_channel = m /\ wire' = Quiet
        /\ UNCHANGED <<mpc, number, raced, selected, sink_channel, offered>>
        /\ put'[m] = put[m] + 1
        /\ \A o \in Makers \ {m} : put'[o] = put[o]
    BY <1>8 DEF PipeByte, Takes, Offered, makerVars, BridgeTypeOK
  <2>2. wire'.to = NoNumber /\ ~ wire'.select
    BY <2>1 DEF Quiet
  <2>3. mpc[m] = "made" /\ wire.to = selected /\ selected = number[m]
    BY <2>1 DEF WireInv
  <2>4. m \notin raced => offered[m] = put[m] + 1
    BY <2>1, <2>3 DEF WireInv
  <2>5. ASSUME NEW o \in Makers \ raced, mpc[o] = "made", o # m
        PROVE  offered[o] = put[o]
    <3>1. ~ (selected = number[o] /\ offered[o] > 0)  BY <2>1, <2>5 DEF WireInv
    <3>2. offered[o] \in Nat /\ put[o] \in Nat  BY DEF BridgeTypeOK
    <3>3. offered[o] = put[o] \/ (wire.to = number[o] /\ offered[o] = put[o] + 1)
      BY <2>5 DEF WireInv
    <3> QED  BY <2>3, <3>1, <3>2, <3>3
  <2>6. ASSUME NEW o \in Makers \ raced, mpc[o] = "made"
        PROVE  /\ offered[o] = put'[o] /\ number[o] # NoNumber
               /\ selected = number[o] /\ offered[o] > 0 => sink_channel = o
    <3>1. number[o] # NoNumber  BY <2>6, PipeNumber
    <3>2. offered[o] = put'[o]  BY <2>1, <2>4, <2>5, <2>6
    <3>3. selected = number[o] /\ offered[o] > 0 => sink_channel = o
      BY <2>1, <2>6 DEF WireInv
    <3> QED  BY <3>1, <3>2, <3>3
  <2>7. \A o \in Makers : mpc[o] # "made" => offered[o] = 0 /\ put'[o] = 0
    BY <2>1, <2>3 DEF WireInv
  <2> QED  BY <2>1, <2>2, <2>3, <2>6, <2>7 DEF WireInv
<1>9. CASE UNCHANGED <<makerVars, hostVars, put>>
  BY <1>9 DEF makerVars, hostVars, WireInv
<1>10. ASSUME NEW m \in Makers, NEW n \in Numbers, Mkpipe(m, n)
       PROVE  WireInv'
  <2>1. raced \subseteq raced' /\ UNCHANGED <<hostVars, put>>  BY <1>10 DEF Mkpipe, pipeVars
  <2> QED  BY <1>1, <1>10, <2>1 DEF Mkpipe, BridgeTypeOK
<1>11. ASSUME NEW m \in Makers, Walk(m) \/ WalkEnd(m)
       PROVE  WireInv'
  BY <1>1, <1>11 DEF Walk, WalkEnd, BridgeTypeOK, pipeVars
<1>12. CASE BridgeThread
  <2>1. CASE Drop  BY <1>7, <2>1 DEF Drop, Sinks, pipeVars
  <2>2. CASE RpcByte  BY <1>7, <2>2 DEF RpcByte, Sinks, pipeVars
  <2>3. CASE RpcPost  BY <1>9, <2>3 DEF RpcPost, bridgeVars, pipeVars
  <2>4. CASE \E r \in setup.requests, s \in setup.sizes, m \in Makers \cup {"none"} :
                RpcSop(r, s, m)
    BY <1>7, <2>4 DEF RpcSop, Sinks, pipeVars
  <2>5. CASE \E m \in Makers : PipeSample(m) \/ PipePost(m)
    BY <1>9, <2>5 DEF PipeSample, PipePost
  <2> QED  BY <1>12, <1>6, <1>8, <2>1, <2>2, <2>3, <2>4, <2>5 DEF BridgeThread
<1>13. CASE \E m \in Makers : Application(m)
  BY <1>9, <1>13 DEF Application, Read, Sleep, Wake
<1>14. CASE \E w \in Workers : Worker(w)
  <2>1. CASE \E w \in Workers : MethodRead(w)
    BY <1>9, <2>1 DEF MethodRead, Read, Sleep, Wake
  <2> QED  BY <1>9, <1>14, <2>1 DEF Worker, bridgeVars, pipeVars
<1>15. CASE UNCHANGED bridgeVars  BY <1>9, <1>15 DEF bridgeVars, pipeVars
<1> QED
  BY <1>2, <1>3, <1>4, <1>5, <1>10, <1>11, <1>12, <1>13, <1>14, <1>15
  DEF BridgeNext, Register, Host, Callbacks, allVars

\* When the host selects a new channel before it writes to it, every byte sent to
\* a pipe that was registered alone is in it or on the wire, whatever the other
\* channels do, however often the pipe is full, and whoever registers a channel
\* afterwards.
THEOREM PipesLoseNothing ==
    ASSUME Reselects
    PROVE  BridgeSpec => []NothingLost
<1>1. BridgeInit => WireInv
  BY Constants DEF BridgeInit, WireInv, Quiet
<1>2. Reselects /\ BridgeTypeOK /\ ListInv /\ AloneInv /\ WireInv /\ [BridgeNext]_allVars
         => WireInv'
  BY WireStep
<1>3. BridgeTypeOK /\ WireInv => NothingLost
  <2> SUFFICES ASSUME BridgeTypeOK, WireInv, NEW m \in Makers \ raced
               PROVE  offered[m] \in put[m]..(put[m] + OnWire(m))
      BY DEF NothingLost
  <2>1. offered[m] \in Nat /\ put[m] \in Nat  BY DEF BridgeTypeOK
  <2>2. CASE mpc[m] # "made"
    BY <2>1, <2>2 DEF WireInv, OnWire
  <2>3. CASE mpc[m] = "made"
    <3>1. offered[m] = put[m] \/ (wire.to = number[m] /\ offered[m] = put[m] + 1)
      BY <2>3 DEF WireInv
    <3> QED  BY <2>1, <2>3, <3>1 DEF OnWire
  <2> QED  BY <2>2, <2>3
<1> QED  BY <1>1, <1>2, <1>3, ListHolds, PTL DEF BridgeSpec
==============================================================================
