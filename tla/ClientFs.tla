------------------------------- MODULE ClientFs -------------------------------
(***************************************************************************)
(* The descriptor table of peridot_client_fs.c: the host opens, uses and   *)
(* closes files through virtual descriptors, indices into vfd_list, and    *)
(* may ask for all of them to be closed (fs.cleanup).  Each request runs   *)
(* in an RPC worker thread, and several do at once.                        *)
(*                                                                         *)
(* sem_lock is held only while a slot is looked for and by the cleanup;    *)
(* the other accesses to vfd_list are single loads and stores, and an open *)
(* or a close marks its slot before it calls the operating system.         *)
(***************************************************************************)
EXTENDS Integers, FiniteSets

CONSTANTS Workers,
          MAX_FDS,       \* PERIDOT_CLIENT_FS_MAX_FDS
          Fds,           \* descriptors of the operating system
          MaxRequests,   \* bound: how many requests the host makes
          Careful        \* whether the host keeps conflicting requests apart

ASSUME FsAssumption ==
    /\ MAX_FDS \in Nat \ {0} /\ MaxRequests \in Nat
    /\ Fds \subseteq Nat /\ Careful \in BOOLEAN

Slots == 0..(MAX_FDS - 1)
VFD_FREE == -1
VFD_ALLOC == -2
VFD_CANCELED == -3
NONE == -1               \* no slot, no descriptor, no request
Requests == 1..MaxRequests

VARIABLES
    vfd_list, sem_lock,      \* the table and its lock
    os,                      \* os[fd]: the request that opened fd, or NONE
    wpc, method, vfd, fd,    \* of each worker: its pc and the handler's locals
    request, file,           \*   its request; which request opened its fd
    requests,                \* bound: how many requests were made
    handles,                 \* the descriptors the host has been given
    overlap,                 \* workers whose open overlaps a cleanup
    doomed, swept,           \* history: opens that a cleanup must undo, has undone
    abandoned                \* history: descriptors whose close was refused, unnoticed

table == <<vfd_list, sem_lock>>
workerVars == <<wpc, method, vfd, fd, request, file>>
hostVars == <<requests, handles, overlap>>
history == <<doomed, swept, abandoned>>
vars == <<table, os, workerVars, hostVars, history>>

Init ==
    /\ vfd_list = [v \in Slots |-> VFD_FREE] /\ sem_lock = 1
    /\ os = [d \in Fds |-> NONE]
    /\ wpc = [w \in Workers |-> "idle"] /\ method = [w \in Workers |-> "none"]
    /\ vfd = [w \in Workers |-> NONE] /\ fd = [w \in Workers |-> NONE]
    /\ request = [w \in Workers |-> NONE] /\ file = [w \in Workers |-> NONE]
    /\ requests = 0 /\ handles = {} /\ overlap = {}
    /\ doomed = [w \in Workers |-> {}] /\ swept = {} /\ abandoned = {}

Goto(w, pc) == wpc' = [wpc EXCEPT ![w] = pc]
Put(v, x) == vfd_list' = [vfd_list EXCEPT ![v] = x]

------------------------------------------------------------------------------
(* The host.                                                               *)

Running(ms) == {w \in Workers : method[w] \in ms}

\* Worker w takes a request of the host.
Take(w, m, v, pc) ==
    /\ wpc[w] = "idle" /\ requests < MaxRequests
    /\ requests' = requests + 1
    /\ Goto(w, pc)
    /\ method' = [method EXCEPT ![w] = m]
    /\ vfd' = [vfd EXCEPT ![w] = v]
    /\ request' = [request EXCEPT ![w] = requests + 1]
    /\ UNCHANGED <<table, os, fd, file, swept, abandoned>>

\* The path is allowed and there is memory for the result.
TakeOpen(w) ==
    /\ Take(w, "open", NONE, "pend")
    /\ overlap' = IF Running({"cleanup"}) # {} THEN overlap \cup {w} ELSE overlap
    /\ UNCHANGED <<handles, doomed>>

\* A careful host uses a descriptor it was given, for one request at a time,
\* and not while a cleanup runs.
TakeUse(w, m, v) ==
    /\ Take(w, m, v, "get_fd")
    /\ Careful => /\ v \in handles
                  /\ \A x \in Running({"close", "read"}) : vfd[x] # v
                  /\ Running({"cleanup"}) = {}
    /\ UNCHANGED <<handles, overlap, doomed>>

\* It forgets what it was given, and what opens under way may still give it.
TakeCleanup(w) ==
    /\ Take(w, "cleanup", 0, "pend")
    /\ Careful => Running({"close", "read"}) = {}
    /\ handles' = {}
    /\ overlap' = overlap \cup Running({"open"})
    /\ UNCHANGED doomed

\* Worker w answers.
Leave(w) ==
    /\ Goto(w, "idle")
    /\ method' = [method EXCEPT ![w] = "none"]
    /\ vfd' = [vfd EXCEPT ![w] = NONE]
    /\ fd' = [fd EXCEPT ![w] = NONE]
    /\ request' = [request EXCEPT ![w] = NONE]
    /\ file' = [file EXCEPT ![w] = NONE]
    /\ overlap' = overlap \ {w}
    /\ UNCHANGED requests

------------------------------------------------------------------------------
(* fs.open                                                                 *)

\* Opens that have a slot, or are about to publish their descriptor in it.
Opening == {request[w] : w \in {x \in Workers : wpc[x] \in {"open", "publish"}}}
Listed == {os[vfd_list[v]] : v \in {u \in Slots : vfd_list[u] \in Fds}}

\* ALT_SEM_PEND(sem_lock, 0), in an open or a cleanup.
Pend(w) ==
    /\ wpc[w] = "pend" /\ sem_lock > 0
    /\ sem_lock' = sem_lock - 1
    /\ vfd' = [vfd EXCEPT ![w] = 0]
    /\ IF method[w] = "open"
         THEN Goto(w, "scan") /\ UNCHANGED doomed
         ELSE /\ Goto(w, "sweep")
              /\ doomed' = [doomed EXCEPT ![w] = (Listed \cup Opening) \ {NONE}]
    /\ UNCHANGED <<vfd_list, os, method, fd, request, file, hostVars, swept, abandoned>>

\* One turn of the loop in alloc_vfd.
ScanNext(w) ==
    /\ wpc[w] = "scan" /\ vfd[w] \in Slots /\ vfd_list[vfd[w]] # VFD_FREE
    /\ vfd' = [vfd EXCEPT ![w] = @ + 1]
    /\ UNCHANGED <<table, os, wpc, method, fd, request, file, hostVars, history>>

ScanFound(w) ==
    /\ wpc[w] = "scan" /\ vfd[w] \in Slots /\ vfd_list[vfd[w]] = VFD_FREE
    /\ Put(vfd[w], VFD_ALLOC)
    /\ sem_lock' = sem_lock + 1
    /\ Goto(w, "open")
    /\ UNCHANGED <<os, method, vfd, fd, request, file, hostVars, history>>

\* Mutant: the early return keeps the lock.
ScanFullLocked(w) ==
    /\ wpc[w] = "scan" /\ vfd[w] \notin Slots
    /\ Leave(w)
    /\ UNCHANGED <<table, os, handles, history>>

\* EMFILE
ScanFull(w) ==
    /\ wpc[w] = "scan" /\ vfd[w] \notin Slots
    /\ sem_lock' = sem_lock + 1
    /\ Leave(w)
    /\ UNCHANGED <<vfd_list, os, handles, history>>

OsOpen(w, d) ==
    /\ wpc[w] = "open" /\ os[d] = NONE
    /\ os' = [os EXCEPT ![d] = request[w]]
    /\ fd' = [fd EXCEPT ![w] = d] /\ file' = [file EXCEPT ![w] = request[w]]
    /\ Goto(w, "publish")
    /\ UNCHANGED <<table, method, vfd, request, hostVars, history>>

\* Mutant: the slot is not given back.
OsOpenFailsSlotLost(w) ==
    /\ wpc[w] = "open"
    /\ Leave(w)
    /\ UNCHANGED <<table, os, handles, history>>

\* open fails, and free_vfd gives the slot back.
OsOpenFails(w) ==
    /\ wpc[w] = "open"
    /\ Put(vfd[w], VFD_FREE)
    /\ Leave(w)
    /\ UNCHANGED <<sem_lock, os, handles, history>>

\* Mutant: the cancellation is overlooked.
PublishAlways(w) ==
    /\ wpc[w] = "publish"
    /\ Put(vfd[w], fd[w]) /\ Leave(w)
    /\ handles' = IF w \in overlap THEN handles ELSE handles \cup {vfd[w]}
    /\ UNCHANGED <<sem_lock, os, history>>

\* With interrupts off: the slot gets the descriptor unless a cleanup has
\* cancelled the open, which then closes the descriptor itself.
Publish(w) ==
    /\ wpc[w] = "publish"
    /\ IF vfd_list[vfd[w]] = VFD_ALLOC
         THEN /\ Put(vfd[w], fd[w]) /\ Leave(w)
              /\ handles' = IF w \in overlap THEN handles ELSE handles \cup {vfd[w]}
         ELSE /\ Put(vfd[w], VFD_FREE) /\ Goto(w, "discard")
              /\ UNCHANGED <<method, vfd, fd, request, file, hostVars>>
    /\ UNCHANGED <<sem_lock, os, history>>

\* close whose result the caller ignores.
CloseIgnored(w) ==
    \/ os' = [os EXCEPT ![fd[w]] = NONE] /\ UNCHANGED abandoned
    \/ abandoned' = abandoned \cup {fd[w]} /\ UNCHANGED os

Discard(w) ==
    /\ wpc[w] = "discard"
    /\ CloseIgnored(w)
    /\ Leave(w)
    /\ UNCHANGED <<table, handles, doomed, swept>>

------------------------------------------------------------------------------
(* fs.close, and fs.read for every method that uses a descriptor.          *)

\* get_fd: load the slot; EBADF if it holds no descriptor.
GetFd(w) ==
    /\ wpc[w] = "get_fd"
    /\ LET d == vfd_list[vfd[w]] IN
         IF d < 0
           THEN Leave(w) /\ UNCHANGED handles
           ELSE /\ fd' = [fd EXCEPT ![w] = d]
                /\ file' = [file EXCEPT ![w] = os[d]]
                /\ Goto(w, IF method[w] = "close" THEN "mark" ELSE "use")
                /\ UNCHANGED <<method, vfd, request, hostVars>>
    /\ UNCHANGED <<table, os, history>>

\* Mutant: the slot is freed before the descriptor is closed.
MarkFree(w) ==
    /\ wpc[w] = "mark"
    /\ Put(vfd[w], VFD_FREE)
    /\ Goto(w, "close")
    /\ UNCHANGED <<sem_lock, os, method, vfd, fd, request, file, hostVars, history>>

Mark(w) ==
    /\ wpc[w] = "mark"
    /\ Put(vfd[w], VFD_ALLOC)
    /\ Goto(w, "close")
    /\ UNCHANGED <<sem_lock, os, method, vfd, fd, request, file, hostVars, history>>

\* close works, or it fails and leaves the descriptor as it was.
OsClose(w) ==
    /\ wpc[w] = "close"
    /\ \/ os[fd[w]] # NONE /\ os' = [os EXCEPT ![fd[w]] = NONE] /\ Goto(w, "free")
       \/ UNCHANGED os /\ Goto(w, "restore")
    /\ UNCHANGED <<table, method, vfd, fd, request, file, hostVars, history>>

\* The host does not use the descriptor again.
FreeSlot(w) ==
    /\ wpc[w] = "free"
    /\ Put(vfd[w], VFD_FREE)
    /\ handles' = handles \ {vfd[w]}
    /\ Leave(w)
    /\ UNCHANGED <<sem_lock, os, history>>

Restore(w) ==
    /\ wpc[w] = "restore"
    /\ Put(vfd[w], fd[w])
    /\ Leave(w)
    /\ UNCHANGED <<sem_lock, os, handles, history>>

\* The method checks its other parameters and calls the operating system, or
\* is refused before that; in either case the request ends.
Use(w) ==
    /\ wpc[w] = "use"
    /\ Leave(w)
    /\ UNCHANGED <<table, os, handles, history>>

------------------------------------------------------------------------------
(* fs.cleanup, which holds sem_lock throughout.                            *)

\* The slot lists descriptor d, which is to be closed; or it lists none.
Swept(w, d) ==
    /\ fd' = [fd EXCEPT ![w] = d] /\ file' = [file EXCEPT ![w] = os[d]]
    /\ Goto(w, "unlist") /\ UNCHANGED vfd
SweepNext(w) == vfd' = [vfd EXCEPT ![w] = @ + 1] /\ UNCHANGED <<wpc, fd, file>>

\* With interrupts off: load the slot, and cancel an open under way.
Sweep(w) ==
    /\ wpc[w] = "sweep" /\ vfd[w] \in Slots
    /\ LET d == vfd_list[vfd[w]] IN
         /\ IF d = VFD_ALLOC THEN Put(vfd[w], VFD_CANCELED) ELSE UNCHANGED vfd_list
         /\ IF d >= 0 THEN Swept(w, d) ELSE SweepNext(w)
    /\ UNCHANGED <<sem_lock, os, method, request, hostVars, history>>

\* Mutant: the slot still lists the descriptor.
UnlistNot(w) ==
    /\ wpc[w] = "unlist"
    /\ Goto(w, "sweep_close")
    /\ UNCHANGED <<table, os, method, vfd, fd, request, file, hostVars, history>>

Unlist(w) ==
    /\ wpc[w] = "unlist"
    /\ Put(vfd[w], VFD_FREE)
    /\ Goto(w, "sweep_close")
    /\ UNCHANGED <<sem_lock, os, method, vfd, fd, request, file, hostVars, history>>

SweepClose(w) ==
    /\ wpc[w] = "sweep_close"
    /\ CloseIgnored(w)
    /\ vfd' = [vfd EXCEPT ![w] = @ + 1]
    /\ fd' = [fd EXCEPT ![w] = NONE] /\ file' = [file EXCEPT ![w] = NONE]
    /\ Goto(w, "sweep")
    /\ UNCHANGED <<table, method, request, hostVars, doomed, swept>>

SweepEnd(w) ==
    /\ wpc[w] = "sweep" /\ vfd[w] \notin Slots
    /\ sem_lock' = sem_lock + 1
    /\ swept' = swept \cup doomed[w]
    /\ doomed' = [doomed EXCEPT ![w] = {}]
    /\ Leave(w)
    /\ UNCHANGED <<vfd_list, os, handles, abandoned>>

------------------------------------------------------------------------------
Handler(w) ==
    \/ Pend(w)
    \/ ScanNext(w) \/ ScanFound(w) \/ ScanFull(w)
    \/ \E d \in Fds : OsOpen(w, d)
    \/ OsOpenFails(w) \/ Publish(w) \/ Discard(w)
    \/ GetFd(w) \/ Mark(w) \/ OsClose(w) \/ FreeSlot(w) \/ Restore(w) \/ Use(w)
    \/ Sweep(w) \/ Unlist(w) \/ SweepClose(w) \/ SweepEnd(w)

Next ==
    \E w \in Workers :
        \/ TakeOpen(w) \/ TakeCleanup(w)
        \/ \E v \in Slots, m \in {"read", "close"} : TakeUse(w, m, v)
        \/ Handler(w)

Spec == Init /\ [][Next]_vars

\* The workers are scheduled; the host need not ask for anything.
FairSpec == Spec /\ \A w \in Workers : WF_vars(Handler(w))

------------------------------------------------------------------------------
Pcs == {"idle", "pend", "scan", "open", "publish", "discard", "get_fd", "use",
        "mark", "close", "free", "restore", "sweep", "unlist", "sweep_close"}

TypeOK ==
    /\ vfd_list \in [Slots -> {VFD_FREE, VFD_ALLOC, VFD_CANCELED} \cup Fds]
    /\ sem_lock \in {0, 1}
    /\ os \in [Fds -> Requests \cup {NONE}]
    /\ wpc \in [Workers -> Pcs]
    /\ method \in [Workers -> {"none", "open", "close", "read", "cleanup"}]
    /\ vfd \in [Workers -> -1..MAX_FDS] /\ fd \in [Workers -> Fds \cup {NONE}]
    /\ request \in [Workers -> Requests \cup {NONE}]
    /\ file \in [Workers -> Requests \cup {NONE}]
    /\ requests \in 0..MaxRequests /\ handles \subseteq Slots
    /\ overlap \subseteq Workers
    /\ doomed \in [Workers -> SUBSET Requests] /\ swept \subseteq Requests
    /\ abandoned \subseteq Fds

Open == {d \in Fds : os[d] # NONE}

\* The slots that list descriptor d, and the workers that are about to list,
\* close or restore it.
ListedAt(d) == {v \in Slots : vfd_list[v] = d}
InHandsOf(d) ==
    {w \in Workers : fd[w] = d /\ wpc[w] \in {"publish", "discard", "close", "restore",
                                              "sweep_close"}}

\* An open file is listed in one slot, or in the hands of one worker that will
\* list or close it, or its close was refused without anybody looking; and
\* only open files are listed.  So no file is leaked and none closed twice.
OneOwner ==
    \A d \in Fds :
        Cardinality(ListedAt(d)) + Cardinality(InHandsOf(d))
            + (IF d \in abandoned THEN 1 ELSE 0) = (IF d \in Open THEN 1 ELSE 0)

\* The file that a handler opened or got from the table is still open, and is
\* the one its descriptor stands for, until the handler has used, listed or
\* closed it: it was not closed under its hands, nor its number reused.
RightFile ==
    \A w \in Workers :
        wpc[w] \in {"use", "mark", "close", "publish", "discard", "unlist", "sweep_close"}
          => file[w] # NONE /\ os[fd[w]] = file[w]

\* No file that was open, or being opened, when a cleanup began is listed
\* after it, even if the open was between its two accesses to the slot.
CleanupSticks == swept \cap Listed = {}

\* A slot that is marked has a worker that will free it or list a file in it.
MarkedInUse ==
    \A v \in Slots :
        vfd_list[v] \in {VFD_ALLOC, VFD_CANCELED} =>
            \E w \in Workers :
                vfd[w] = v /\ wpc[w] \in {"open", "publish", "close", "free", "restore"}

\* Every request is answered: sem_lock is released on every way out of it, and
\* no handler waits for another one's slot.
RequestsEnd == \A w \in Workers : wpc[w] # "idle" ~> wpc[w] = "idle"

\* "Maximum number of file descriptors can be opened simultaniously."
AtMostMaxFds == Cardinality(Open) <= MAX_FDS
==============================================================================
