--------------------------- MODULE ClientFs_proofs ---------------------------
(***************************************************************************)
(* Proofs about ClientFs, for any number of workers, slots and descriptors *)
(* of the operating system, when the host keeps conflicting requests       *)
(* apart; and about PathCheck, for lists and paths of any length.          *)
(***************************************************************************)
EXTENDS ClientFs, PathCheck, FiniteSetTheorems, SequenceTheorems, WellFoundedInduction,
        TLAPS

\* What a worker does at each place of a handler.
MethodInv ==
    \A w \in Workers :
        /\ wpc[w] = "idle" <=> method[w] = "none"
        /\ wpc[w] = "pend" => method[w] \in {"open", "cleanup"}
        /\ wpc[w] \in {"scan", "open", "publish", "discard"} => method[w] = "open"
        /\ wpc[w] = "get_fd" => method[w] \in {"read", "close"}
        /\ wpc[w] = "use" => method[w] = "read"
        /\ wpc[w] \in {"mark", "close", "free", "restore"} => method[w] = "close"
        /\ wpc[w] \in {"sweep", "unlist", "sweep_close"} => method[w] = "cleanup"

\* One worker has sem_lock at most.
HasLock(w) == wpc[w] \in {"scan", "sweep", "unlist", "sweep_close"}
LockInv ==
    /\ \A w, x \in Workers : HasLock(w) /\ HasLock(x) => w = x
    /\ sem_lock = 1 <=> \A w \in Workers : ~ HasLock(w)

\* The slots that workers have marked, and that no two workers have marked one.
Marks(w) == wpc[w] \in {"open", "publish", "close", "free", "restore"}
SlotInv ==
    /\ \A w \in Workers :
         /\ wpc[w] \in {"scan", "sweep"} => vfd[w] \in Nat
         /\ Marks(w) \/ wpc[w] \in {"unlist", "sweep_close"} => vfd[w] \in Slots
         /\ wpc[w] \in {"open", "publish"} => vfd_list[vfd[w]] \in {VFD_ALLOC, VFD_CANCELED}
         /\ wpc[w] \in {"close", "free", "restore"} => vfd_list[vfd[w]] = VFD_ALLOC
    /\ \A w, x \in Workers : Marks(w) /\ Marks(x) /\ vfd[w] = vfd[x] => w = x
    /\ \A v \in Slots : vfd_list[v] \in {VFD_ALLOC, VFD_CANCELED} =>
          \E w \in Workers : Marks(w) /\ vfd[w] = v

\* What a careful host may rely on: a descriptor that it has been given lists a
\* file, or its one user is closing it; and no cleanup runs while it has any.
Uses(w) == method[w] \in {"close", "read"}
HandleInv ==
    /\ \A v \in handles :
         \/ vfd_list[v] \in Fds
         \/ \E w \in Workers : wpc[w] \in {"close", "free", "restore"} /\ vfd[w] = v
    /\ \A w \in Workers : Uses(w) => vfd[w] \in handles
    /\ \A w, x \in Workers : Uses(w) /\ Uses(x) /\ vfd[w] = vfd[x] => w = x
    /\ \A w \in Workers : method[w] = "cleanup" =>
          /\ handles = {}
          /\ \A x \in Workers : method[x] = "open" => x \in overlap

\* The files: who has one in hand, and who has one that is listed.
InHand(w) == wpc[w] \in {"publish", "discard", "close", "restore", "sweep_close"}
AtListed(w) == wpc[w] \in {"use", "mark", "unlist"}
FileInv ==
    \A w \in Workers :
        /\ InHand(w) => fd[w] \in Fds /\ file[w] # NONE /\ os[fd[w]] = file[w]
        /\ AtListed(w) => /\ fd[w] \in Fds /\ vfd[w] \in Slots /\ vfd_list[vfd[w]] = fd[w]
                          /\ file[w] = os[fd[w]]
        /\ wpc[w] = "publish" => file[w] = request[w]

\* OneOwner, without counting.
ListedOnce == \A u, v \in Slots : vfd_list[u] \in Fds /\ vfd_list[u] = vfd_list[v] => u = v
HeldOnce == \A w, x \in Workers : InHand(w) /\ InHand(x) /\ fd[w] = fd[x] => w = x
NotBoth == \A w \in Workers, v \in Slots : InHand(w) => vfd_list[v] # fd[w]
AbandonedOnly ==
    \A d \in abandoned :
        /\ os[d] # NONE
        /\ \A v \in Slots : vfd_list[v] # d
        /\ \A w \in Workers : InHand(w) => fd[w] # d
ListedOpen == \A v \in Slots : vfd_list[v] \in Fds => os[vfd_list[v]] # NONE
IsListed(d) == \E v \in Slots : vfd_list[v] = d
IsHeld(d) == \E w \in Workers : InHand(w) /\ fd[w] = d
OpenOwned == \A d \in Fds : os[d] # NONE => d \in abandoned \/ IsListed(d) \/ IsHeld(d)
OwnerInv == ListedOnce /\ HeldOnce /\ NotBoth /\ AbandonedOnly /\ ListedOpen /\ OpenOwned

\* The numbers of requests: an open that has no slot yet is unknown to cleanups.
RequestInv ==
    /\ \A w \in Workers : wpc[w] # "idle" => request[w] \in 1..requests
    /\ \A w, x \in Workers :
          wpc[w] # "idle" /\ wpc[x] # "idle" /\ request[w] = request[x] => w = x
    /\ \A d \in Fds : os[d] # NONE => os[d] \in 1..requests
    /\ \A r \in swept : r \in 1..requests
    /\ \A w \in Workers : \A r \in doomed[w] : r \in 1..requests
    /\ \A w \in Workers : wpc[w] \in {"pend", "scan"} =>
         /\ request[w] \notin swept
         /\ \A x \in Workers : request[w] \notin doomed[x]
         /\ \A d \in Fds : os[d] # request[w]

\* A cleanup leaves no descriptor and no open that may list one behind it.
SweepInv ==
    \A w \in Workers :
        wpc[w] \in {"sweep", "unlist", "sweep_close"} =>
            \A v \in Slots : v < vfd[w] \/ (wpc[w] = "sweep_close" /\ v = vfd[w]) =>
                vfd_list[v] \in {VFD_FREE, VFD_CANCELED}

\* No file of a request that a cleanup must undo is, or will be, listed.
SweptInv ==
    /\ \A v \in Slots : vfd_list[v] \in Fds => os[vfd_list[v]] \notin swept
    /\ \A w \in Workers :
         /\ wpc[w] \in {"open", "publish"} /\ vfd_list[vfd[w]] = VFD_ALLOC =>
               request[w] \notin swept
         /\ wpc[w] \in {"mark", "close", "restore"} => file[w] \notin swept

IInv ==
    /\ MethodInv /\ LockInv /\ SlotInv /\ HandleInv
    /\ FileInv /\ OwnerInv /\ RequestInv /\ SweepInv /\ SweptInv
------------------------------------------------------------------------------
(* What the actions do, one worker and one slot at a time.                 *)

\* Worker w gets new locals, and the others keep theirs.
Moves(w, pc, m, v, d, r, f) ==
    /\ wpc'[w] = pc /\ method'[w] = m /\ vfd'[w] = v /\ fd'[w] = d
    /\ request'[w] = r /\ file'[w] = f
    /\ \A x \in Workers \ {w} :
         /\ wpc'[x] = wpc[x] /\ method'[x] = method[x] /\ vfd'[x] = vfd[x] /\ fd'[x] = fd[x]
         /\ request'[x] = request[x] /\ file'[x] = file[x]
Leaves(w) == Moves(w, "idle", "none", NONE, NONE, NONE, NONE) /\ overlap' = overlap \ {w}
Goes(w, pc) == Moves(w, pc, method[w], vfd[w], fd[w], request[w], file[w])

\* Slot v gets x, and descriptor d is request r's.
Puts(v, x) == vfd_list'[v] = x /\ \A u \in Slots \ {v} : vfd_list'[u] = vfd_list[u]
OsPuts(d, r) == os'[d] = r /\ \A e \in Fds \ {d} : os'[e] = os[e]

\* The host asks for an open, which no cleanup knows of yet.
LEMMA TakeOpenStep ==
    ASSUME Careful, TypeOK, IInv, NEW w \in Workers, TakeOpen(w)
    PROVE  TypeOK' /\ IInv'
<1> USE FsAssumption
<1>e. /\ wpc[w] = "idle"
      /\ Moves(w, "pend", "open", NONE, fd[w], requests + 1, file[w])
      /\ requests' = requests + 1 /\ requests' \in 1..MaxRequests
      /\ overlap' = IF Running({"cleanup"}) # {} THEN overlap \cup {w} ELSE overlap
      /\ UNCHANGED <<table, os, handles, history>>
  BY DEF IInv, TypeOK, TakeOpen, history, Goto, Take, Moves
<1>0. TypeOK'
  BY <1>e DEF IInv, TakeOpen, table, Goto, Take, NONE, Requests, TypeOK, Pcs
<1>1. MethodInv'
  BY <1>e DEF IInv, Moves, MethodInv
<1>2. LockInv'
  BY <1>e DEF IInv, Moves, table, LockInv, HasLock
<1>3. SlotInv'
  BY <1>e DEF IInv, Moves, table, SlotInv, Marks
<1>4. HandleInv'
  BY <1>e DEF IInv, Moves, table, HandleInv, Uses, Running
<1>5. FileInv'
  BY <1>e DEF IInv, Moves, table, FileInv, InHand, AtListed
<1>6. OwnerInv'
  BY <1>e DEF IInv, Moves, table, history, InHand, OwnerInv, ListedOnce, HeldOnce, NotBoth,
       AbandonedOnly, ListedOpen, OpenOwned, IsListed, IsHeld
<1>7. RequestInv'
  BY <1>e DEF IInv, TypeOK, Moves, history, VFD_ALLOC, NONE, RequestInv
<1>8. SweepInv'
  BY <1>e DEF IInv, Moves, table, SweepInv
<1>9. SweptInv'
  BY <1>e DEF IInv, Moves, table, history, SweptInv
<1> QED  BY <1>0, <1>1, <1>2, <1>3, <1>4, <1>5, <1>6, <1>7, <1>8, <1>9 DEF IInv

\* The host uses or closes a descriptor that nobody else uses.
LEMMA TakeUseStep ==
    ASSUME Careful, TypeOK, IInv, NEW w \in Workers, NEW v \in Slots, NEW m \in {"read",
           "close"}, TakeUse(w, m, v)
    PROVE  TypeOK' /\ IInv'
<1> USE FsAssumption
<1>e. /\ wpc[w] = "idle"
      /\ Moves(w, "get_fd", m, v, fd[w], requests + 1, file[w])
      /\ requests' = requests + 1 /\ requests' \in 1..MaxRequests
      /\ v \in handles
      /\ \A x \in Workers : Uses(x) => vfd[x] # v
      /\ \A x \in Workers : method[x] # "cleanup"
      /\ UNCHANGED <<table, os, handles, overlap, history>>
  BY DEF IInv, TypeOK, TakeUse, Running, Uses, history, Goto, Take, Moves
<1>0. TypeOK'
  BY <1>e DEF IInv, TakeUse, table, Goto, Take, Slots, Requests, TypeOK, Pcs
<1>1. MethodInv'
  BY <1>e DEF IInv, Moves, MethodInv
<1>2. LockInv'
  BY <1>e DEF IInv, Moves, table, LockInv, HasLock
<1>3. SlotInv'
  BY <1>e DEF IInv, Moves, table, SlotInv, Marks
<1>4. HandleInv'
  BY <1>e DEF IInv, Moves, table, HandleInv, Uses
<1>5. FileInv'
  BY <1>e DEF IInv, Moves, table, FileInv, InHand, AtListed
<1>6. OwnerInv'
  BY <1>e DEF IInv, Moves, table, history, MethodInv, InHand, OwnerInv, ListedOnce, HeldOnce,
       NotBoth, AbandonedOnly, ListedOpen, OpenOwned, IsListed, IsHeld
<1>7. RequestInv'
  BY <1>e DEF IInv, TypeOK, Moves, table, history, RequestInv
<1>8. SweepInv'
  BY <1>e DEF IInv, Moves, table, SweepInv
<1>9. SweptInv'
  BY <1>e DEF IInv, Moves, table, history, SweptInv
<1> QED  BY <1>0, <1>1, <1>2, <1>3, <1>4, <1>5, <1>6, <1>7, <1>8, <1>9 DEF IInv

\* The host asks for a cleanup when it has no descriptor and uses none.
LEMMA TakeCleanupStep ==
    ASSUME Careful, TypeOK, IInv, NEW w \in Workers, TakeCleanup(w)
    PROVE  TypeOK' /\ IInv'
<1> USE FsAssumption
<1>e. /\ wpc[w] = "idle"
      /\ Moves(w, "pend", "cleanup", 0, fd[w], requests + 1, file[w])
      /\ requests' = requests + 1 /\ requests' \in 1..MaxRequests
      /\ handles' = {}
      /\ \A x \in Workers : ~ Uses(x)
      /\ overlap' = overlap \cup {x \in Workers : method[x] = "open"}
      /\ UNCHANGED <<table, os, history>>
  BY DEF IInv, TypeOK, TakeCleanup, Running, Uses, history, Goto, Take, Moves
<1>0. TypeOK'
  BY <1>e DEF IInv, TakeCleanup, table, Goto, Take, Requests, TypeOK, Pcs
<1>1. MethodInv'
  BY <1>e DEF IInv, Moves, MethodInv
<1>2. LockInv'
  BY <1>e DEF IInv, Moves, table, LockInv, HasLock
<1>3. SlotInv'
  BY <1>e DEF IInv, Moves, table, SlotInv, Marks
<1>4. HandleInv'
  BY <1>e DEF IInv, Moves, HandleInv, Uses
<1>5. FileInv'
  BY <1>e DEF IInv, Moves, table, FileInv, InHand, AtListed
<1>6. OwnerInv'
  BY <1>e DEF IInv, Moves, table, history, InHand, OwnerInv, ListedOnce, HeldOnce, NotBoth,
       AbandonedOnly, ListedOpen, OpenOwned, IsListed, IsHeld
<1>7. RequestInv'
  BY <1>e DEF IInv, TypeOK, Moves, history, NONE, RequestInv
<1>8. SweepInv'
  BY <1>e DEF IInv, Moves, table, SweepInv
<1>9. SweptInv'
  BY <1>e DEF IInv, Moves, table, history, SweptInv
<1> QED  BY <1>0, <1>1, <1>2, <1>3, <1>4, <1>5, <1>6, <1>7, <1>8, <1>9 DEF IInv

\* The one worker that gets the lock begins its scan or its sweep; a sweep notes
\* what it must close.
LEMMA PendStep ==
    ASSUME Careful, TypeOK, IInv, NEW w \in Workers, Pend(w)
    PROVE  TypeOK' /\ IInv'
<1> USE FsAssumption
<1>e. /\ wpc[w] = "pend" /\ sem_lock = 1 /\ sem_lock' = 0
      /\ UNCHANGED <<vfd_list, os, hostVars, swept, abandoned>>
      /\ \/ /\ method[w] = "open" /\ UNCHANGED doomed
            /\ Moves(w, "scan", "open", 0, fd[w], request[w], file[w])
         \/ /\ method[w] = "cleanup"
            /\ Moves(w, "sweep", "cleanup", 0, fd[w], request[w], file[w])
            /\ doomed'[w] = (Listed \cup Opening) \ {NONE}
            /\ \A x \in Workers \ {w} : doomed'[x] = doomed[x]
  <2>1. /\ wpc[w] = "pend" /\ sem_lock = 1 /\ sem_lock' = 0
        /\ UNCHANGED <<vfd_list, os, hostVars, swept, abandoned, method, fd, request, file>>
    BY DEF Pend, TypeOK
  <2>2. CASE method[w] = "open"
    BY <2>1, <2>2 DEF Pend, Goto, Moves, TypeOK
  <2>3. CASE method[w] = "cleanup"
    <3>1. Moves(w, "sweep", "cleanup", 0, fd[w], request[w], file[w])
      BY <2>1, <2>3 DEF Pend, Goto, Moves, TypeOK
    <3>2. doomed' = [doomed EXCEPT ![w] = (Listed \cup Opening) \ {NONE}]
      BY <2>3 DEF Pend
    <3> QED  BY <2>1, <2>3, <3>1, <3>2 DEF TypeOK
  <2> QED  BY <2>1, <2>2, <2>3 DEF IInv, MethodInv
<1>d. \A r \in (Listed \cup Opening) \ {NONE} :
        \/ \E d \in Fds : os[d] = r
        \/ \E x \in Workers : wpc[x] \in {"open", "publish"} /\ request[x] = r
  BY DEF Listed, Opening
<1>r. \A r \in (Listed \cup Opening) \ {NONE} : r \in 1..requests
  BY <1>d DEF IInv, RequestInv
<1>0. TypeOK'
  <2>1. doomed' \in [Workers -> SUBSET Requests]
    <3>1. (Listed \cup Opening) \ {NONE} \subseteq Requests  BY <1>r DEF TypeOK, Requests
    <3> QED  BY <3>1 DEF Pend, TypeOK
  <2>2. wpc' \in [Workers -> Pcs] /\ vfd' \in [Workers -> -1..MAX_FDS]
    BY DEF Pend, TypeOK, Pcs, Goto
  <2> QED  BY <1>e, <2>1, <2>2 DEF Pend, hostVars, TypeOK
<1>1. MethodInv'
  BY <1>e DEF IInv, Moves, MethodInv
<1>2. LockInv'
  BY <1>e DEF IInv, Moves, LockInv, HasLock
<1>3. SlotInv'
  BY <1>e DEF IInv, Moves, SlotInv, Marks
<1>4. HandleInv'
  BY <1>e DEF IInv, Moves, hostVars, HandleInv, Uses
<1>5. FileInv'
  BY <1>e DEF IInv, Moves, FileInv, InHand, AtListed
<1>6. OwnerInv'
  BY <1>e DEF IInv, Moves, FileInv, InHand, OwnerInv, ListedOnce, HeldOnce, NotBoth,
       AbandonedOnly, ListedOpen, OpenOwned, IsListed, IsHeld
<1>7. RequestInv'
  <2>1. \A x \in Workers : wpc'[x] # "idle" <=> wpc[x] # "idle"  BY <1>e DEF Moves
  <2>2. request' = request  BY DEF Pend
  <2>3. \A x \in Workers : \A r \in doomed'[x] :
          r \in doomed[x] \/ r \in (Listed \cup Opening) \ {NONE}
    BY <1>e
  <2>4. ASSUME NEW x \in Workers, wpc'[x] \in {"pend", "scan"},
               NEW r \in (Listed \cup Opening) \ {NONE}
        PROVE  request[x] # r
    BY <1>d, <1>e, <2>4 DEF IInv, RequestInv, Moves
  <2>5. \A x \in Workers : wpc'[x] \in {"pend", "scan"} => wpc[x] \in {"pend", "scan"}
    BY <1>e DEF Moves
  <2> QED  BY <1>e, <1>r, <2>1, <2>2, <2>3, <2>4, <2>5 DEF IInv, RequestInv, hostVars
<1>8. SweepInv'
  BY <1>e DEF IInv, Moves, SweepInv, Slots
<1>9. SweptInv'
  BY <1>e DEF IInv, Moves, SweptInv
<1> QED  BY <1>0, <1>1, <1>2, <1>3, <1>4, <1>5, <1>6, <1>7, <1>8, <1>9 DEF IInv

\* The slot is taken: the scan goes on.
LEMMA ScanNextStep ==
    ASSUME Careful, TypeOK, IInv, NEW w \in Workers, ScanNext(w)
    PROVE  TypeOK' /\ IInv'
<1> USE FsAssumption
<1>e. /\ wpc[w] = "scan" /\ vfd[w] \in Slots
      /\ Moves(w, "scan", method[w], vfd[w] + 1, fd[w], request[w], file[w])
      /\ UNCHANGED <<table, os, hostVars, history>>
  BY DEF IInv, TypeOK, ScanNext, Moves
<1>0. TypeOK'
  BY <1>e DEF IInv, ScanNext, table, hostVars, history, Slots, TypeOK
<1>1. MethodInv'
  BY <1>e DEF IInv, Moves, MethodInv
<1>2. LockInv'
  BY <1>e DEF IInv, Moves, table, LockInv, HasLock
<1>3. SlotInv'
  BY <1>e DEF IInv, Moves, table, SlotInv, Marks
<1>4. HandleInv'
  BY <1>e DEF IInv, Moves, table, hostVars, MethodInv, HandleInv, Uses
<1>5. FileInv'
  BY <1>e DEF IInv, Moves, table, FileInv, InHand, AtListed
<1>6. OwnerInv'
  BY <1>e DEF IInv, Moves, table, history, InHand, OwnerInv, ListedOnce, HeldOnce, NotBoth,
       AbandonedOnly, ListedOpen, OpenOwned, IsListed, IsHeld
<1>7. RequestInv'
  BY <1>e DEF IInv, Moves, hostVars, history, NONE, RequestInv
<1>8. SweepInv'
  BY <1>e DEF IInv, Moves, table, SweepInv
<1>9. SweptInv'
  BY <1>e DEF IInv, Moves, table, history, SweptInv
<1> QED  BY <1>0, <1>1, <1>2, <1>3, <1>4, <1>5, <1>6, <1>7, <1>8, <1>9 DEF IInv

\* The slot is free: nobody had marked it, and now this worker has.
LEMMA ScanFoundStep ==
    ASSUME Careful, TypeOK, IInv, NEW w \in Workers, ScanFound(w)
    PROVE  TypeOK' /\ IInv'
<1> USE FsAssumption
<1>e. /\ wpc[w] = "scan" /\ vfd[w] \in Slots /\ vfd_list[vfd[w]] = VFD_FREE
      /\ Goes(w, "open")
      /\ Puts(vfd[w], VFD_ALLOC)
      /\ sem_lock = 0 /\ sem_lock' = 1
      /\ UNCHANGED <<os, hostVars, history>>
  BY DEF IInv, TypeOK, ScanFound, LockInv, HasLock, Goto, Put, Moves, Goes, Puts
<1>0. TypeOK'
  BY <1>e DEF IInv, ScanFound, hostVars, history, Goto, Put, TypeOK, Pcs
<1>1. MethodInv'
  BY <1>e DEF IInv, Moves, Goes, MethodInv
<1>2. LockInv'
  BY <1>e DEF IInv, Moves, Goes, LockInv, HasLock
<1>3. SlotInv'
  BY <1>e DEF IInv, Moves, Goes, Puts, VFD_FREE, VFD_ALLOC, VFD_CANCELED, SlotInv, Marks
<1>4. HandleInv'
  BY <1>e DEF IInv, TypeOK, Moves, Goes, Puts, hostVars, VFD_FREE, HandleInv, Uses
<1>5. FileInv'
  BY <1>e DEF IInv, Moves, Goes, Puts, VFD_FREE, FileInv, InHand, AtListed
<1>6. OwnerInv'
  BY <1>e DEF IInv, TypeOK, Moves, Goes, Puts, history, VFD_FREE, VFD_ALLOC, NONE, InHand,
       OwnerInv, ListedOnce, HeldOnce, NotBoth, AbandonedOnly, ListedOpen, OpenOwned, IsListed,
       IsHeld
<1>7. RequestInv'
  BY <1>e DEF IInv, Moves, Goes, hostVars, history, RequestInv
<1>8. SweepInv'
  BY <1>e DEF IInv, Moves, Goes, SweepInv, LockInv, HasLock
<1>9. SweptInv'
  BY <1>e DEF IInv, Moves, Goes, Puts, history, VFD_FREE, VFD_ALLOC, VFD_CANCELED, SweptInv,
       RequestInv, SlotInv, Marks
<1> QED  BY <1>0, <1>1, <1>2, <1>3, <1>4, <1>5, <1>6, <1>7, <1>8, <1>9 DEF IInv

\* No slot is free, and nothing is left behind.
LEMMA ScanFullStep ==
    ASSUME Careful, TypeOK, IInv, NEW w \in Workers, ScanFull(w)
    PROVE  TypeOK' /\ IInv'
<1> USE FsAssumption
<1>e. /\ wpc[w] = "scan"
      /\ Leaves(w)
      /\ sem_lock = 0 /\ sem_lock' = 1
      /\ UNCHANGED <<vfd_list, os, handles, requests, history>>
  BY DEF IInv, TypeOK, ScanFull, LockInv, HasLock, Goto, Leave, Moves, Leaves
<1>0. TypeOK'
  BY <1>e DEF IInv, ScanFull, history, Goto, Leave, NONE, TypeOK, Pcs
<1>1. MethodInv'
  BY <1>e DEF IInv, Moves, Leaves, MethodInv
<1>2. LockInv'
  BY <1>e DEF IInv, Moves, Leaves, LockInv, HasLock
<1>3. SlotInv'
  BY <1>e DEF IInv, Moves, Leaves, SlotInv, Marks
<1>4. HandleInv'
  BY <1>e DEF IInv, Moves, Leaves, HandleInv, Uses
<1>5. FileInv'
  BY <1>e DEF IInv, Moves, Leaves, FileInv, InHand, AtListed
<1>6. OwnerInv'
  <2>h. \A x \in Workers : InHand(x)' <=> InHand(x) /\ x # w
    BY <1>e DEF InHand, Moves, Leaves
  <2>f. \A x \in Workers : InHand(x) => x # w /\ fd'[x] = fd[x]
    BY <1>e DEF InHand, Moves, Leaves
  <2>1. ListedOnce'  BY <1>e DEF IInv, OwnerInv, ListedOnce
  <2>2. HeldOnce'  BY <2>h, <2>f DEF IInv, OwnerInv, HeldOnce
  <2>3. NotBoth'  BY <1>e, <2>h, <2>f DEF IInv, OwnerInv, NotBoth
  <2>4. AbandonedOnly'  BY <1>e, <2>h, <2>f DEF IInv, OwnerInv, AbandonedOnly, history
  <2>5. ListedOpen'  BY <1>e DEF IInv, OwnerInv, ListedOpen
  <2>6. OpenOwned'
    BY <1>e, <2>h, <2>f DEF IInv, OwnerInv, OpenOwned, IsListed, IsHeld, history
  <2> QED  BY <2>1, <2>2, <2>3, <2>4, <2>5, <2>6 DEF OwnerInv
<1>7. RequestInv'
  BY <1>e DEF IInv, Moves, Leaves, history, RequestInv
<1>8. SweepInv'
  BY <1>e DEF IInv, Moves, Leaves, SweepInv
<1>9. SweptInv'
  BY <1>e DEF IInv, Moves, Leaves, history, SweptInv
<1> QED  BY <1>0, <1>1, <1>2, <1>3, <1>4, <1>5, <1>6, <1>7, <1>8, <1>9 DEF IInv

\* The system gives a descriptor that was closed, so that nobody has it.
LEMMA OsOpenStep ==
    ASSUME Careful, TypeOK, IInv, NEW w \in Workers, NEW d \in Fds, OsOpen(w, d)
    PROVE  TypeOK' /\ IInv'
<1> USE FsAssumption
<1>e. /\ wpc[w] = "open" /\ os[d] = NONE
      /\ Moves(w, "publish", method[w], vfd[w], d, request[w], request[w])
      /\ OsPuts(d, request[w]) /\ request[w] \in 1..requests
      /\ UNCHANGED <<table, hostVars, history>>
  BY DEF OsOpen, Goto, Moves, OsPuts, TypeOK, IInv, RequestInv
<1>o. /\ \A x \in Workers \ {w} : InHand(x) \/ AtListed(x) => fd[x] \in Fds \ {d}
      /\ \A v \in Slots : vfd_list[v] # d
  BY <1>e DEF IInv, FileInv, OwnerInv, ListedOpen
<1>k. /\ \A x \in Workers \ {w} : InHand(x) \/ AtListed(x) => os'[fd[x]] = os[fd[x]]
      /\ \A v \in Slots : vfd_list[v] \in Fds => os'[vfd_list[v]] = os[vfd_list[v]]
  BY <1>e, <1>o DEF OsPuts
<1>0. TypeOK'
  BY <1>e DEF IInv, OsOpen, table, hostVars, history, Goto, TypeOK, Pcs
<1>1. MethodInv'
  BY <1>e DEF IInv, Moves, MethodInv
<1>2. LockInv'
  BY <1>e DEF IInv, Moves, table, LockInv, HasLock
<1>3. SlotInv'
  BY <1>e DEF IInv, Moves, table, SlotInv, Marks
<1>4. HandleInv'
  BY <1>e DEF IInv, Moves, table, hostVars, HandleInv, Uses
<1>5. FileInv'
  BY <1>e, <1>o, <1>k DEF IInv, Moves, table, NONE, FileInv, InHand, AtListed, OsPuts
<1>6. OwnerInv'
  <2>1. ListedOnce'  BY <1>e DEF IInv, OwnerInv, ListedOnce, table
  <2>2. HeldOnce'  BY <1>e, <1>o DEF IInv, OwnerInv, HeldOnce, InHand, Moves
  <2>3. NotBoth'  BY <1>e, <1>o DEF IInv, OwnerInv, NotBoth, InHand, Moves, table
  <2>4. AbandonedOnly'
    <3> SUFFICES ASSUME NEW a \in abandoned
                 PROVE  /\ os'[a] # NONE
                        /\ \A v \in Slots : vfd_list[v] # a
                        /\ \A x \in Workers : InHand(x)' => fd'[x] # a
      BY <1>e DEF AbandonedOnly, table, history
    <3>1. /\ a \in Fds \ {d} /\ os[a] # NONE
          /\ \A v \in Slots : vfd_list[v] # a
          /\ \A x \in Workers : InHand(x) => fd[x] # a
      BY <1>e DEF IInv, TypeOK, OwnerInv, AbandonedOnly
    <3>2. os'[a] # NONE  BY <1>e, <3>1 DEF OsPuts
    <3>3. \A x \in Workers : InHand(x)' => fd'[x] # a  BY <1>e, <3>1 DEF InHand, Moves
    <3> QED  BY <3>1, <3>2, <3>3
  <2>5. ListedOpen'  BY <1>e, <1>k DEF IInv, OwnerInv, ListedOpen, table
  <2>6. OpenOwned'
    BY <1>e DEF IInv, OwnerInv, OpenOwned, IsListed, IsHeld, InHand, Moves, OsPuts, table, history
  <2> QED  BY <2>1, <2>2, <2>3, <2>4, <2>5, <2>6 DEF OwnerInv
<1>7. RequestInv'
  BY <1>e DEF IInv, Moves, OsPuts, hostVars, history, RequestInv
<1>8. SweepInv'
  BY <1>e DEF IInv, Moves, table, SweepInv
<1>9. SweptInv'
  BY <1>e, <1>o, <1>k DEF IInv, Moves, table, history, SweptInv
<1> QED  BY <1>0, <1>1, <1>2, <1>3, <1>4, <1>5, <1>6, <1>7, <1>8, <1>9 DEF IInv

\* The mark is taken away.
LEMMA OsOpenFailsStep ==
    ASSUME Careful, TypeOK, IInv, NEW w \in Workers, OsOpenFails(w)
    PROVE  TypeOK' /\ IInv'
<1> USE FsAssumption
<1>e. /\ wpc[w] = "open" /\ vfd[w] \in Slots
      /\ Leaves(w)
      /\ Puts(vfd[w], VFD_FREE)
      /\ UNCHANGED <<sem_lock, os, handles, requests, history>>
  BY DEF IInv, TypeOK, OsOpenFails, SlotInv, Marks, Goto, Put, Leave, Moves, Leaves, Puts
<1>0. TypeOK'
  BY <1>e DEF IInv, OsOpenFails, history, Goto, Put, Leave, NONE, TypeOK, Pcs
<1>1. MethodInv'
  BY <1>e DEF IInv, Moves, Leaves, MethodInv
<1>2. LockInv'
  BY <1>e DEF IInv, Moves, Leaves, LockInv, HasLock
<1>3. SlotInv'
  BY <1>e DEF IInv, Moves, Leaves, Puts, VFD_FREE, VFD_ALLOC, VFD_CANCELED, SlotInv, Marks
<1>4. HandleInv'
  BY <1>e DEF IInv, TypeOK, Moves, Leaves, Puts, VFD_ALLOC, VFD_CANCELED, HandleInv, Uses, SlotInv
<1>5. FileInv'
  BY <1>e DEF IInv, Moves, Leaves, Puts, VFD_ALLOC, VFD_CANCELED, FileInv, InHand, AtListed,
       SlotInv
<1>6. OwnerInv'
  <2>1. ListedOnce'  BY <1>e DEF IInv, Moves, Puts, VFD_FREE, OwnerInv, ListedOnce
  <2>2. HeldOnce'  BY <1>e DEF IInv, Moves, Leaves, InHand, OwnerInv, HeldOnce
  <2>3. NotBoth'  BY <1>e DEF IInv, Moves, Leaves, Puts, VFD_FREE, FileInv, InHand, OwnerInv,
        NotBoth
  <2>4. AbandonedOnly'  BY <1>e DEF IInv, TypeOK, Moves, Leaves, Puts, history, VFD_FREE,
        InHand, OwnerInv, AbandonedOnly
  <2>5. ListedOpen'  BY <1>e DEF IInv, Moves, Puts, VFD_FREE, OwnerInv, ListedOpen
  <2>6. OpenOwned'  BY <1>e DEF IInv, Moves, Leaves, Puts, history, VFD_ALLOC, VFD_CANCELED,
        SlotInv, InHand, OwnerInv, OpenOwned, IsListed, IsHeld
  <2> QED  BY <2>1, <2>2, <2>3, <2>4, <2>5, <2>6 DEF OwnerInv
<1>7. RequestInv'
  BY <1>e DEF IInv, Moves, Leaves, Puts, history, RequestInv
<1>8. SweepInv'
  BY <1>e DEF IInv, Moves, Leaves, Puts, SweepInv, LockInv
<1>9. SweptInv'
  BY <1>e DEF IInv, Moves, Leaves, Puts, history, VFD_FREE, SweptInv, SlotInv, Marks
<1> QED  BY <1>0, <1>1, <1>2, <1>3, <1>4, <1>5, <1>6, <1>7, <1>8, <1>9 DEF IInv

\* The file is listed, unless a cleanup has canceled the slot meanwhile.
LEMMA PublishStep ==
    ASSUME Careful, TypeOK, IInv, NEW w \in Workers, Publish(w)
    PROVE  TypeOK' /\ IInv'
<1> USE FsAssumption
<1>e. /\ wpc[w] = "publish" /\ vfd[w] \in Slots
      /\ \/ /\ vfd_list[vfd[w]] = VFD_ALLOC /\ Leaves(w) /\ Puts(vfd[w], fd[w])
            /\ handles' = IF w \in overlap THEN handles ELSE handles \cup {vfd[w]}
         \/ /\ vfd_list[vfd[w]] # VFD_ALLOC /\ Goes(w, "discard") /\ Puts(vfd[w], VFD_FREE)
            /\ UNCHANGED <<handles, overlap>>
      /\ UNCHANGED <<sem_lock, os, requests, history>>
  BY DEF IInv, TypeOK, Publish, SlotInv, Marks, hostVars, Goto, Put, Leave, Moves, Leaves, Goes,
       Puts
<1>0. TypeOK'
  <2>1. /\ vfd_list' \in [Slots -> {VFD_FREE, VFD_ALLOC, VFD_CANCELED} \cup Fds]
        /\ sem_lock' \in {0, 1} /\ os' \in [Fds -> Requests \cup {NONE}]
    BY <1>e DEF Publish, TypeOK, IInv, Put, FileInv, InHand
  <2>2. /\ wpc' \in [Workers -> Pcs]
        /\ method' \in [Workers -> {"none", "open", "close", "read", "cleanup"}]
        /\ vfd' \in [Workers -> -1..MAX_FDS] /\ fd' \in [Workers -> Fds \cup {NONE}]
        /\ request' \in [Workers -> Requests \cup {NONE}]
        /\ file' \in [Workers -> Requests \cup {NONE}]
    <3>1. CASE Leave(w)  BY <3>1 DEF Leave, TypeOK, Pcs, Goto, NONE
    <3>2. CASE Goto(w, "discard") /\ UNCHANGED <<method, vfd, fd, request, file>>
      BY <3>2 DEF TypeOK, Pcs, Goto
    <3> QED  BY <3>1, <3>2 DEF Publish
  <2>3. /\ requests' \in 0..MaxRequests /\ handles' \subseteq Slots /\ overlap' \subseteq Workers
        /\ doomed' \in [Workers -> SUBSET Requests] /\ swept' \subseteq Requests
        /\ abandoned' \subseteq Fds
    BY <1>e DEF TypeOK, history, Moves, Leaves, IInv
  <2> QED  BY <2>1, <2>2, <2>3 DEF TypeOK
<1>1. MethodInv'
  BY <1>e DEF IInv, Moves, Leaves, Goes, MethodInv
<1>2. LockInv'
  BY <1>e DEF IInv, Moves, Leaves, Goes, LockInv, HasLock
<1>3. SlotInv'
  BY <1>e DEF IInv, TypeOK, Moves, Leaves, Goes, Puts, VFD_FREE, VFD_ALLOC, VFD_CANCELED, NONE,
       SlotInv, Marks
<1>4. HandleInv'
  BY <1>e DEF IInv, TypeOK, Moves, Leaves, Goes, Puts, VFD_CANCELED, MethodInv, HandleInv, Uses,
       FileInv, InHand, SlotInv
<1>5. FileInv'
  BY <1>e DEF IInv, Moves, Leaves, Goes, Puts, VFD_ALLOC, VFD_CANCELED, FileInv, InHand,
       AtListed, SlotInv
<1>6. OwnerInv'
  BY <1>e DEF IInv, TypeOK, Moves, Leaves, Goes, Puts, history, VFD_FREE, VFD_ALLOC,
       VFD_CANCELED, FileInv, InHand, OwnerInv, ListedOnce, HeldOnce, NotBoth, AbandonedOnly,
       ListedOpen, OpenOwned, IsListed, IsHeld, SlotInv, Marks
<1>7. RequestInv'
  BY <1>e DEF IInv, TypeOK, Moves, Leaves, Goes, Puts, history, RequestInv
<1>8. SweepInv'
  BY <1>e DEF IInv, SweepInv, Moves, Leaves, Goes, Puts, VFD_FREE, VFD_ALLOC, VFD_CANCELED
<1>9. SweptInv'
  BY <1>e DEF IInv, Moves, Leaves, Goes, Puts, history, VFD_FREE, SweptInv, FileInv, InHand,
       SlotInv, Marks
<1> QED  BY <1>0, <1>1, <1>2, <1>3, <1>4, <1>5, <1>6, <1>7, <1>8, <1>9 DEF IInv

\* The file that must not be listed is closed, or abandoned.
LEMMA DiscardStep ==
    ASSUME Careful, TypeOK, IInv, NEW w \in Workers, Discard(w)
    PROVE  TypeOK' /\ IInv'
<1> USE FsAssumption
<1>e. /\ wpc[w] = "discard" /\ Leaves(w) /\ UNCHANGED <<table, handles, requests, doomed, swept>>
      /\ \/ OsPuts(fd[w], NONE) /\ UNCHANGED abandoned
         \/ abandoned' = abandoned \cup {fd[w]} /\ UNCHANGED os
  <2>1. wpc[w] = "discard" /\ UNCHANGED <<table, handles, requests, doomed, swept>>
    BY DEF Discard, Leave
  <2>2. Leaves(w)  BY DEF Discard, Leave, Goto, TypeOK, Leaves, Moves
  <2>3. \/ OsPuts(fd[w], NONE) /\ UNCHANGED abandoned
        \/ abandoned' = abandoned \cup {fd[w]} /\ UNCHANGED os
    BY <2>1 DEF Discard, CloseIgnored, OsPuts, TypeOK, IInv, FileInv, InHand
  <2> QED  BY <2>1, <2>2, <2>3
<1>o. /\ \A x \in Workers \ {w} : InHand(x) \/ AtListed(x) => fd[x] \in Fds \ {fd[w]}
      /\ \A v \in Slots : vfd_list[v] # fd[w]
  BY <1>e DEF IInv, FileInv, OwnerInv, HeldOnce, NotBoth, InHand
<1>k. /\ \A x \in Workers \ {w} : InHand(x) \/ AtListed(x) => os'[fd[x]] = os[fd[x]]
      /\ \A v \in Slots : vfd_list[v] \in Fds => os'[vfd_list[v]] = os[vfd_list[v]]
  BY <1>e, <1>o DEF OsPuts
<1>0. TypeOK'
  <2>1. /\ vfd_list' \in [Slots -> {VFD_FREE, VFD_ALLOC, VFD_CANCELED} \cup Fds]
        /\ sem_lock' \in {0, 1} /\ os' \in [Fds -> Requests \cup {NONE}]
    BY <1>e DEF Discard, CloseIgnored, TypeOK, IInv, table
  <2>2. /\ wpc' \in [Workers -> Pcs]
        /\ method' \in [Workers -> {"none", "open", "close", "read", "cleanup"}]
        /\ vfd' \in [Workers -> -1..MAX_FDS] /\ fd' \in [Workers -> Fds \cup {NONE}]
        /\ request' \in [Workers -> Requests \cup {NONE}]
        /\ file' \in [Workers -> Requests \cup {NONE}]
    BY <1>e DEF Discard, Leave, TypeOK, Pcs, Goto, NONE
  <2>3. /\ requests' \in 0..MaxRequests /\ handles' \subseteq Slots /\ overlap' \subseteq Workers
        /\ doomed' \in [Workers -> SUBSET Requests] /\ swept' \subseteq Requests
        /\ abandoned' \subseteq Fds
    BY <1>e DEF Discard, Leave, CloseIgnored, TypeOK, Moves, Leaves, IInv, FileInv, InHand
  <2> QED  BY <2>1, <2>2, <2>3 DEF TypeOK
<1>1. MethodInv'
  BY <1>e DEF IInv, Moves, Leaves, MethodInv
<1>2. LockInv'
  BY <1>e DEF IInv, Moves, Leaves, table, LockInv, HasLock
<1>3. SlotInv'
  BY <1>e DEF IInv, Moves, Leaves, table, SlotInv, Marks
<1>4. HandleInv'
  BY <1>e DEF IInv, Moves, Leaves, table, HandleInv, Uses
<1>5. FileInv'
  BY <1>e, <1>o, <1>k DEF IInv, Leaves, Moves, table, FileInv, InHand, AtListed
<1>6. OwnerInv'
  <2>1. ListedOnce'  BY <1>e DEF IInv, OwnerInv, ListedOnce, table
  <2>2. HeldOnce'  BY <1>e, <1>o DEF IInv, OwnerInv, HeldOnce, InHand, Leaves, Moves
  <2>3. NotBoth'  BY <1>e, <1>o DEF IInv, OwnerInv, NotBoth, InHand, Leaves, Moves, table
  <2>4. AbandonedOnly'
    <3>1. \A x \in Workers : InHand(x)' => x # w /\ InHand(x) /\ fd'[x] = fd[x]
      BY <1>e DEF Leaves, Moves, InHand
    <3>2. \A d \in abandoned : d \in Fds /\ d # fd[w]
      BY <1>e DEF IInv, OwnerInv, AbandonedOnly, InHand, TypeOK
    <3>3. os[fd[w]] # NONE  BY <1>e DEF IInv, FileInv, InHand
    <3> QED
      <4>1. \A d \in abandoned : os'[d] # NONE  BY <1>e, <3>2 DEF IInv, OwnerInv, AbandonedOnly,
            OsPuts
      <4>2. fd[w] \in abandoned' => fd[w] \in abandoned \/ os'[fd[w]] # NONE  BY <1>e, <3>3
      <4>3. \A d \in abandoned' : d \in abandoned \/ d = fd[w]  BY <1>e
      <4>4. \A d \in abandoned' : os'[d] # NONE  BY <4>1, <4>2, <4>3
      <4>5. \A d \in abandoned' : \A v \in Slots : vfd_list'[v] # d
        BY <1>e, <1>o, <4>3 DEF IInv, OwnerInv, AbandonedOnly, table
      <4>6. ASSUME NEW d \in abandoned', NEW x \in Workers, InHand(x)'  PROVE  fd'[x] # d
        BY <1>o, <3>1, <4>3, <4>6 DEF IInv, OwnerInv, AbandonedOnly
      <4> QED  BY <4>4, <4>5, <4>6 DEF AbandonedOnly
  <2>5. ListedOpen'  BY <1>e, <1>k DEF IInv, OwnerInv, ListedOpen, table
  <2>6. OpenOwned'
    <3>1. \A x \in Workers \ {w} : InHand(x) => InHand(x)' /\ fd'[x] = fd[x]
      BY <1>e DEF Leaves, Moves, InHand
    <3>2. ASSUME NEW d \in Fds, os'[d] # NONE, d # fd[w]
          PROVE  d \in abandoned' \/ IsListed(d)' \/ IsHeld(d)'
      <4>1. os[d] # NONE  BY <1>e, <3>2 DEF OsPuts
      <4> QED  BY <1>e, <3>1, <3>2, <4>1 DEF IInv, OwnerInv, OpenOwned, IsListed, IsHeld, table
    <3>3. ASSUME NEW d \in Fds, os'[d] # NONE, d = fd[w]
          PROVE  d \in abandoned' \/ IsHeld(d)'
      BY <1>e, <3>3 DEF Moves, OsPuts
    <3> QED  BY <3>2, <3>3 DEF OpenOwned
  <2> QED  BY <2>1, <2>2, <2>3, <2>4, <2>5, <2>6 DEF OwnerInv
<1>7. RequestInv'
  BY <1>e DEF IInv, Moves, Leaves, OsPuts, NONE, RequestInv
<1>8. SweepInv'
  BY <1>e DEF IInv, Moves, Leaves, table, SweepInv
<1>9. SweptInv'
  BY <1>e, <1>o, <1>k DEF IInv, Leaves, Moves, table, SweptInv
<1> QED  BY <1>0, <1>1, <1>2, <1>3, <1>4, <1>5, <1>6, <1>7, <1>8, <1>9 DEF IInv

\* The descriptor that is listed gives the file.
LEMMA GetFdStep ==
    ASSUME Careful, TypeOK, IInv, NEW w \in Workers, GetFd(w)
    PROVE  TypeOK' /\ IInv'
<1> USE FsAssumption
<1>e. /\ wpc[w] = "get_fd"
      /\ \/ Leaves(w)
         \/ /\ vfd_list[vfd[w]] \in Fds /\ vfd[w] \in Slots
            /\ Moves(w, IF method[w] = "close" THEN "mark" ELSE "use", method[w], vfd[w],
                     vfd_list[vfd[w]], request[w], os[vfd_list[vfd[w]]])
            /\ UNCHANGED overlap
      /\ UNCHANGED <<table, os, handles, requests, history>>
  BY DEF IInv, TypeOK, GetFd, HandleInv, MethodInv, Uses, hostVars, Goto, Leave, Moves, Leaves
<1>0. TypeOK'
  <2>1. /\ vfd_list' \in [Slots -> {VFD_FREE, VFD_ALLOC, VFD_CANCELED} \cup Fds]
        /\ sem_lock' \in {0, 1} /\ os' \in [Fds -> Requests \cup {NONE}]
    BY <1>e DEF TypeOK, IInv, table
  <2>2. /\ wpc' \in [Workers -> Pcs]
        /\ method' \in [Workers -> {"none", "open", "close", "read", "cleanup"}]
        /\ vfd' \in [Workers -> -1..MAX_FDS] /\ fd' \in [Workers -> Fds \cup {NONE}]
        /\ request' \in [Workers -> Requests \cup {NONE}]
        /\ file' \in [Workers -> Requests \cup {NONE}]
    <3>1. CASE Leave(w)  BY <3>1 DEF Leave, TypeOK, Pcs, Goto, NONE
    <3>2. CASE /\ fd' = [fd EXCEPT ![w] = vfd_list[vfd[w]]] /\ vfd_list[vfd[w]] \in Fds
               /\ file' = [file EXCEPT ![w] = os[vfd_list[vfd[w]]]]
               /\ Goto(w, IF method[w] = "close" THEN "mark" ELSE "use")
               /\ UNCHANGED <<method, vfd, request>>
      BY <3>2 DEF TypeOK, Pcs, Goto
    <3> QED  BY <1>e, <3>1, <3>2 DEF GetFd, IInv, HandleInv, Uses, MethodInv
  <2>3. /\ requests' \in 0..MaxRequests /\ handles' \subseteq Slots /\ overlap' \subseteq Workers
        /\ doomed' \in [Workers -> SUBSET Requests] /\ swept' \subseteq Requests
        /\ abandoned' \subseteq Fds
    BY <1>e DEF TypeOK, history, Moves, Leaves, IInv
  <2> QED  BY <2>1, <2>2, <2>3 DEF TypeOK
<1>1. MethodInv'
  BY <1>e DEF IInv, Moves, Leaves, MethodInv
<1>2. LockInv'
  BY <1>e DEF IInv, Moves, Leaves, table, LockInv, HasLock
<1>3. SlotInv'
  BY <1>e DEF IInv, Moves, Leaves, table, SlotInv, Marks
<1>4. HandleInv'
  BY <1>e DEF IInv, Moves, Leaves, table, HandleInv, Uses
<1>5. FileInv'
  BY <1>e DEF IInv, Moves, Leaves, table, FileInv, InHand, AtListed
<1>6. OwnerInv'
  BY <1>e DEF IInv, Moves, Leaves, table, history, NONE, InHand, OwnerInv, ListedOnce, HeldOnce,
       NotBoth, AbandonedOnly, ListedOpen, OpenOwned, IsListed, IsHeld
<1>7. RequestInv'
  BY <1>e DEF IInv, Moves, Leaves, table, history, RequestInv
<1>8. SweepInv'
  BY <1>e DEF IInv, Moves, Leaves, table, SweepInv
<1>9. SweptInv'
  BY <1>e DEF IInv, Moves, Leaves, table, history, SweptInv
<1> QED  BY <1>0, <1>1, <1>2, <1>3, <1>4, <1>5, <1>6, <1>7, <1>8, <1>9 DEF IInv

\* The one user of the slot takes the file out of the table into its hands.
LEMMA MarkStep ==
    ASSUME Careful, TypeOK, IInv, NEW w \in Workers, Mark(w)
    PROVE  TypeOK' /\ IInv'
<1> USE FsAssumption
<1>e. /\ wpc[w] = "mark" /\ vfd[w] \in Slots
      /\ Goes(w, "close")
      /\ Puts(vfd[w], VFD_ALLOC)
      /\ UNCHANGED <<sem_lock, os, hostVars, history>>
  BY DEF IInv, TypeOK, Mark, FileInv, AtListed, Goto, Put, Moves, Goes, Puts
<1>0. TypeOK'
  BY <1>e DEF IInv, Mark, hostVars, history, Goto, Put, TypeOK, Pcs
<1>1. MethodInv'
  BY <1>e DEF IInv, Moves, Goes, MethodInv
<1>2. LockInv'
  BY <1>e DEF IInv, Moves, Goes, LockInv, HasLock
<1>3. SlotInv'
  BY <1>e DEF IInv, Moves, Goes, Puts, VFD_ALLOC, VFD_CANCELED, SlotInv, Marks, FileInv, AtListed
<1>4. HandleInv'
  BY <1>e DEF IInv, TypeOK, Moves, Goes, Puts, hostVars, HandleInv, Uses
<1>5. FileInv'
  BY <1>e DEF IInv, Moves, Goes, Puts, MethodInv, FileInv, InHand, AtListed, OwnerInv,
       ListedOpen, HandleInv, Uses
<1>6. OwnerInv'
  BY <1>e DEF IInv, TypeOK, Moves, Goes, Puts, history, VFD_ALLOC, VFD_CANCELED, MethodInv,
       FileInv, InHand, AtListed, OwnerInv, ListedOnce, HeldOnce, NotBoth, AbandonedOnly,
       ListedOpen, OpenOwned, IsListed, IsHeld, SlotInv
<1>7. RequestInv'
  BY <1>e DEF IInv, Moves, Goes, Puts, hostVars, history, RequestInv
<1>8. SweepInv'
  BY <1>e DEF IInv, Moves, Goes, Puts, VFD_FREE, VFD_CANCELED, MethodInv, SweepInv, FileInv,
       AtListed, InHand
<1>9. SweptInv'
  BY <1>e DEF IInv, Moves, Goes, Puts, history, VFD_ALLOC, VFD_CANCELED, SweptInv, FileInv,
       AtListed, SlotInv, Marks
<1> QED  BY <1>0, <1>1, <1>2, <1>3, <1>4, <1>5, <1>6, <1>7, <1>8, <1>9 DEF IInv

\* The file is closed, or still in hand.
LEMMA OsCloseStep ==
    ASSUME Careful, TypeOK, IInv, NEW w \in Workers, OsClose(w)
    PROVE  TypeOK' /\ IInv'
<1> USE FsAssumption
<1>e. /\ wpc[w] = "close" /\ UNCHANGED <<table, hostVars, history>>
      /\ \/ Goes(w, "free") /\ OsPuts(fd[w], NONE)
         \/ Goes(w, "restore") /\ UNCHANGED os
  <2>1. /\ wpc[w] = "close" /\ UNCHANGED <<table, hostVars, history>>
        /\ \/ os' = [os EXCEPT ![fd[w]] = NONE] /\ Goto(w, "free")
           \/ UNCHANGED os /\ Goto(w, "restore")
    BY DEF OsClose
  <2>2. OsPuts(fd[w], NONE) \/ UNCHANGED os
    BY <2>1 DEF OsPuts, TypeOK, IInv, FileInv, InHand
  <2>3. ASSUME NEW pc, Goto(w, pc)  PROVE Goes(w, pc)
    BY <2>3 DEF OsClose, Goto, Goes, Moves, TypeOK
  <2> QED  BY <2>1, <2>2, <2>3 DEF TypeOK, IInv, FileInv, InHand
<1>o. /\ \A x \in Workers \ {w} : InHand(x) \/ AtListed(x) => fd[x] \in Fds \ {fd[w]}
      /\ \A v \in Slots : vfd_list[v] # fd[w]
  BY <1>e DEF IInv, FileInv, OwnerInv, HeldOnce, NotBoth, InHand
<1>k. /\ \A x \in Workers \ {w} : InHand(x) \/ AtListed(x) => os'[fd[x]] = os[fd[x]]
      /\ \A v \in Slots : vfd_list[v] \in Fds => os'[vfd_list[v]] = os[vfd_list[v]]
  BY <1>e, <1>o DEF OsPuts
<1>0. TypeOK'
  BY <1>e DEF IInv, OsClose, FileInv, InHand, table, workerVars, hostVars, history, Goto, Put,
       Leave, Take, VFD_FREE, VFD_ALLOC, VFD_CANCELED, NONE, Slots, Requests, TypeOK, Pcs,
       AtListed, Listed, Opening
<1>1. MethodInv'
  BY <1>e DEF IInv, Moves, Goes, MethodInv
<1>2. LockInv'
  BY <1>e DEF IInv, Moves, Goes, table, LockInv, HasLock
<1>3. SlotInv'
  BY <1>e DEF IInv, Moves, Goes, table, SlotInv, Marks
<1>4. HandleInv'
  BY <1>e DEF IInv, Moves, Goes, table, hostVars, HandleInv, Uses
<1>5. FileInv'
  BY <1>e, <1>o, <1>k DEF IInv, Goes, Moves, table, FileInv, InHand, AtListed
<1>6. OwnerInv'
  <2>1. ListedOnce'  BY <1>e DEF IInv, OwnerInv, ListedOnce, table
  <2>2. HeldOnce'  BY <1>e, <1>o DEF IInv, OwnerInv, HeldOnce, InHand, Goes, Moves
  <2>3. NotBoth'  BY <1>e, <1>o DEF IInv, OwnerInv, NotBoth, InHand, Goes, Moves, table
  <2>4. AbandonedOnly'
    <3>1. \A x \in Workers : InHand(x)' => InHand(x) /\ fd'[x] = fd[x]
      BY <1>e DEF Goes, Moves, InHand
    <3>2. \A d \in abandoned : d \in Fds /\ d # fd[w]
      BY <1>e DEF IInv, OwnerInv, AbandonedOnly, InHand, TypeOK
    <3>3. \A d \in abandoned : os'[d] = os[d]
      BY <1>e, <3>2 DEF OsPuts
    <3>4. abandoned' = abandoned /\ vfd_list' = vfd_list
      BY <1>e DEF table, history
    <3> QED  BY <3>1, <3>3, <3>4 DEF IInv, OwnerInv, AbandonedOnly
  <2>5. ListedOpen'  BY <1>e, <1>k DEF IInv, OwnerInv, ListedOpen, table
  <2>6. OpenOwned'
    <3>1. \A x \in Workers \ {w} : InHand(x) => InHand(x)' /\ fd'[x] = fd[x]
      BY <1>e DEF Goes, Moves, InHand
    <3>2. ASSUME NEW d \in Fds, os'[d] # NONE, d # fd[w]
          PROVE  d \in abandoned' \/ IsListed(d)' \/ IsHeld(d)'
      <4>1. os[d] # NONE  BY <1>e, <3>2 DEF OsPuts
      <4> QED  BY <1>e, <3>1, <3>2, <4>1 DEF IInv, OwnerInv, OpenOwned, IsListed, IsHeld, table,
            history
    <3>3. ASSUME NEW d \in Fds, os'[d] # NONE, d = fd[w]
          PROVE  d \in abandoned' \/ IsHeld(d)'
      BY <1>e, <3>3 DEF Goes, Moves, InHand, IsHeld, OsPuts
    <3> QED  BY <3>2, <3>3 DEF OpenOwned
  <2> QED  BY <2>1, <2>2, <2>3, <2>4, <2>5, <2>6 DEF OwnerInv
<1>7. RequestInv'
  BY <1>e DEF IInv, Moves, Goes, OsPuts, hostVars, history, NONE, RequestInv
<1>8. SweepInv'
  BY <1>e DEF IInv, Moves, Goes, table, SweepInv
<1>9. SweptInv'
  BY <1>e, <1>o, <1>k DEF IInv, Goes, Moves, table, history, SweptInv
<1> QED  BY <1>0, <1>1, <1>2, <1>3, <1>4, <1>5, <1>6, <1>7, <1>8, <1>9 DEF IInv

\* The slot is free again, and the host no longer has it.
LEMMA FreeSlotStep ==
    ASSUME Careful, TypeOK, IInv, NEW w \in Workers, FreeSlot(w)
    PROVE  TypeOK' /\ IInv'
<1> USE FsAssumption
<1>e. /\ wpc[w] = "free" /\ vfd[w] \in Slots
      /\ Leaves(w)
      /\ Puts(vfd[w], VFD_FREE)
      /\ handles' = handles \ {vfd[w]}
      /\ UNCHANGED <<sem_lock, os, requests, history>>
  BY DEF IInv, TypeOK, FreeSlot, SlotInv, Marks, Goto, Put, Leave, Moves, Leaves, Puts
<1>0. TypeOK'
  <2>1. /\ vfd_list' \in [Slots -> {VFD_FREE, VFD_ALLOC, VFD_CANCELED} \cup Fds]
        /\ sem_lock' \in {0, 1} /\ os' \in [Fds -> Requests \cup {NONE}]
    BY <1>e DEF FreeSlot, TypeOK, IInv, Put
  <2>2. /\ wpc' \in [Workers -> Pcs]
        /\ method' \in [Workers -> {"none", "open", "close", "read", "cleanup"}]
        /\ vfd' \in [Workers -> -1..MAX_FDS] /\ fd' \in [Workers -> Fds \cup {NONE}]
        /\ request' \in [Workers -> Requests \cup {NONE}]
        /\ file' \in [Workers -> Requests \cup {NONE}]
    BY <1>e DEF FreeSlot, Leave, TypeOK, Pcs, Goto, NONE
  <2>3. /\ requests' \in 0..MaxRequests /\ handles' \subseteq Slots /\ overlap' \subseteq Workers
        /\ doomed' \in [Workers -> SUBSET Requests] /\ swept' \subseteq Requests
        /\ abandoned' \subseteq Fds
    BY <1>e DEF TypeOK, history, Moves, Leaves, IInv
  <2> QED  BY <2>1, <2>2, <2>3 DEF TypeOK
<1>1. MethodInv'
  BY <1>e DEF IInv, Moves, Leaves, MethodInv
<1>2. LockInv'
  BY <1>e DEF IInv, Moves, Leaves, LockInv, HasLock
<1>3. SlotInv'
  BY <1>e DEF IInv, Moves, Leaves, Puts, VFD_FREE, VFD_ALLOC, VFD_CANCELED, SlotInv, Marks
<1>4. HandleInv'
  BY <1>e DEF IInv, TypeOK, Moves, Leaves, Puts, MethodInv, HandleInv, Uses
<1>5. FileInv'
  BY <1>e DEF IInv, Moves, Leaves, Puts, VFD_ALLOC, FileInv, InHand, AtListed, SlotInv
<1>6. OwnerInv'
  BY <1>e DEF IInv, TypeOK, Moves, Leaves, Puts, history, VFD_FREE, VFD_ALLOC, VFD_CANCELED,
       MethodInv, FileInv, InHand, OwnerInv, ListedOnce, HeldOnce, NotBoth, AbandonedOnly,
       ListedOpen, OpenOwned, IsListed, IsHeld, SlotInv
<1>7. RequestInv'
  BY <1>e DEF IInv, Moves, Leaves, history, RequestInv
<1>8. SweepInv'
  BY <1>e DEF IInv, Moves, Leaves, Puts, SweepInv, LockInv
<1>9. SweptInv'
  BY <1>e DEF IInv, Moves, Leaves, Puts, history, VFD_FREE, SweptInv, SlotInv, Marks
<1> QED  BY <1>0, <1>1, <1>2, <1>3, <1>4, <1>5, <1>6, <1>7, <1>8, <1>9 DEF IInv

\* The file goes back into the slot, which nobody else has touched.
LEMMA RestoreStep ==
    ASSUME Careful, TypeOK, IInv, NEW w \in Workers, Restore(w)
    PROVE  TypeOK' /\ IInv'
<1> USE FsAssumption
<1>e. /\ wpc[w] = "restore" /\ vfd[w] \in Slots
      /\ Leaves(w)
      /\ Puts(vfd[w], fd[w])
      /\ UNCHANGED <<sem_lock, os, handles, requests, history>>
  BY DEF IInv, TypeOK, Restore, SlotInv, Marks, Goto, Put, Leave, Moves, Leaves, Puts
<1>0. TypeOK'
  BY <1>e DEF IInv, Restore, history, Goto, Put, Leave, VFD_FREE, NONE, TypeOK, Pcs
<1>1. MethodInv'
  BY <1>e DEF IInv, Moves, Leaves, MethodInv
<1>2. LockInv'
  BY <1>e DEF IInv, Moves, Leaves, LockInv, HasLock
<1>3. SlotInv'
  BY <1>e DEF IInv, TypeOK, Moves, Leaves, Puts, VFD_ALLOC, VFD_CANCELED, NONE, SlotInv, Marks
<1>4. HandleInv'
  BY <1>e DEF IInv, TypeOK, Moves, Leaves, Puts, HandleInv, Uses, FileInv, InHand
<1>5. FileInv'
  BY <1>e DEF IInv, Moves, Leaves, Puts, VFD_ALLOC, FileInv, InHand, AtListed, SlotInv
<1>6. OwnerInv'
  BY <1>e DEF IInv, Moves, Leaves, Puts, history, VFD_FREE, VFD_ALLOC, MethodInv, FileInv,
       InHand, AtListed, OwnerInv, ListedOnce, HeldOnce, NotBoth, AbandonedOnly, ListedOpen,
       OpenOwned, IsListed, IsHeld, SlotInv, Marks
<1>7. RequestInv'
  <2>1. \A x \in Workers : wpc'[x] # "idle" =>
          x # w /\ wpc'[x] = wpc[x] /\ request'[x] = request[x]
    BY <1>e DEF Moves, Leaves
  <2>2. os' = os /\ requests' = requests /\ swept' = swept /\ doomed' = doomed
    BY <1>e DEF history
  <2> QED  BY <2>1, <2>2 DEF IInv, RequestInv
<1>8. SweepInv'
  BY <1>e DEF IInv, Moves, Leaves, MethodInv, SweepInv, LockInv, HandleInv, Uses
<1>9. SweptInv'
  BY <1>e DEF IInv, Moves, Leaves, Puts, history, SweptInv, FileInv, InHand, SlotInv, Marks
<1> QED  BY <1>0, <1>1, <1>2, <1>3, <1>4, <1>5, <1>6, <1>7, <1>8, <1>9 DEF IInv

\* The user lets go of the file.
LEMMA UseStep ==
    ASSUME Careful, TypeOK, IInv, NEW w \in Workers, Use(w)
    PROVE  TypeOK' /\ IInv'
<1> USE FsAssumption
<1>e. /\ wpc[w] = "use"
      /\ Leaves(w)
      /\ UNCHANGED <<table, os, handles, requests, history>>
  BY DEF IInv, TypeOK, Use, Goto, Leave, Moves, Leaves
<1>0. TypeOK'
  BY <1>e DEF IInv, Use, table, history, Goto, Leave, NONE, TypeOK, Pcs
<1>1. MethodInv'
  BY <1>e DEF IInv, Moves, Leaves, MethodInv
<1>2. LockInv'
  BY <1>e DEF IInv, Moves, Leaves, table, LockInv, HasLock
<1>3. SlotInv'
  BY <1>e DEF IInv, Moves, Leaves, table, SlotInv, Marks
<1>4. HandleInv'
  BY <1>e DEF IInv, Moves, Leaves, table, HandleInv, Uses
<1>5. FileInv'
  BY <1>e DEF IInv, Moves, Leaves, table, FileInv, InHand, AtListed
<1>6. OwnerInv'
  BY <1>e DEF IInv, Moves, Leaves, table, history, InHand, OwnerInv, ListedOnce, HeldOnce,
       NotBoth, AbandonedOnly, ListedOpen, OpenOwned, IsListed, IsHeld
<1>7. RequestInv'
  BY <1>e DEF IInv, Moves, Leaves, table, history, RequestInv
<1>8. SweepInv'
  BY <1>e DEF IInv, Moves, Leaves, table, SweepInv
<1>9. SweptInv'
  BY <1>e DEF IInv, Moves, Leaves, table, history, SweptInv
<1> QED  BY <1>0, <1>1, <1>2, <1>3, <1>4, <1>5, <1>6, <1>7, <1>8, <1>9 DEF IInv

\* The cleanup takes what is listed, cancels what is marked and passes the rest.
LEMMA SweepStep ==
    ASSUME Careful, TypeOK, IInv, NEW w \in Workers, Sweep(w)
    PROVE  TypeOK' /\ IInv'
<1> USE FsAssumption
<1>e. /\ wpc[w] = "sweep" /\ vfd[w] \in Slots /\ UNCHANGED <<sem_lock, os, hostVars, history>>
      /\ \/ /\ vfd_list[vfd[w]] \in Fds /\ UNCHANGED vfd_list
            /\ Moves(w, "unlist", method[w], vfd[w], vfd_list[vfd[w]], request[w],
                     os[vfd_list[vfd[w]]])
         \/ /\ vfd_list[vfd[w]] = VFD_ALLOC /\ Puts(vfd[w], VFD_CANCELED)
            /\ Moves(w, "sweep", method[w], vfd[w] + 1, fd[w], request[w], file[w])
         \/ /\ vfd_list[vfd[w]] \in {VFD_FREE, VFD_CANCELED} /\ UNCHANGED vfd_list
            /\ Moves(w, "sweep", method[w], vfd[w] + 1, fd[w], request[w], file[w])
  <2>1. /\ wpc[w] = "sweep" /\ vfd[w] \in Slots
        /\ UNCHANGED <<sem_lock, os, method, request, hostVars, history>>
    BY DEF Sweep
  <2>2. CASE vfd_list[vfd[w]] \in Fds
    <3>1. vfd_list[vfd[w]] >= 0 /\ vfd_list[vfd[w]] # VFD_ALLOC
      <4>1. vfd_list[vfd[w]] \in Nat  BY <2>2, FsAssumption DEF FsAssumption
      <4> QED  BY <4>1 DEF VFD_ALLOC
    <3>2. Swept(w, vfd_list[vfd[w]]) /\ UNCHANGED vfd_list  BY <3>1 DEF Sweep
    <3> QED  BY <2>1, <2>2, <3>2 DEF Swept, Goto, Moves, TypeOK
  <2>3. CASE vfd_list[vfd[w]] \notin Fds
    <3>1. /\ SweepNext(w)
          /\ vfd_list' = IF vfd_list[vfd[w]] = VFD_ALLOC
                            THEN [vfd_list EXCEPT ![vfd[w]] = VFD_CANCELED]
                                                         ELSE vfd_list
      BY <2>1, <2>3 DEF Sweep, Put, TypeOK, VFD_FREE, VFD_ALLOC, VFD_CANCELED
    <3>2. Moves(w, "sweep", method[w], vfd[w] + 1, fd[w], request[w], file[w])
      BY <2>1, <3>1 DEF SweepNext, Moves, TypeOK
    <3>3. vfd_list[vfd[w]] \in {VFD_FREE, VFD_ALLOC, VFD_CANCELED}  BY <2>1, <2>3 DEF TypeOK
    <3> QED  BY <2>1, <3>1, <3>2, <3>3 DEF Puts, TypeOK
  <2> QED  BY <2>1, <2>2, <2>3
<1>0. TypeOK'
  <2>1. /\ vfd_list' \in [Slots -> {VFD_FREE, VFD_ALLOC, VFD_CANCELED} \cup Fds]
        /\ sem_lock' \in {0, 1} /\ os' \in [Fds -> Requests \cup {NONE}]
    BY <1>e DEF Sweep, TypeOK, IInv, Put
  <2>2. /\ wpc' \in [Workers -> Pcs]
        /\ method' \in [Workers -> {"none", "open", "close", "read", "cleanup"}]
        /\ vfd' \in [Workers -> -1..MAX_FDS] /\ fd' \in [Workers -> Fds \cup {NONE}]
        /\ request' \in [Workers -> Requests \cup {NONE}]
        /\ file' \in [Workers -> Requests \cup {NONE}]
    <3>1. CASE Swept(w, vfd_list[vfd[w]]) /\ vfd_list[vfd[w]] \in Fds
      BY <3>1 DEF Sweep, Swept, TypeOK, Pcs, Goto
    <3>2. CASE SweepNext(w)
      BY <1>e, <3>2 DEF Sweep, SweepNext, TypeOK, Slots
    <3> QED  BY <1>e, <3>1, <3>2 DEF Sweep, VFD_FREE, VFD_ALLOC, VFD_CANCELED
  <2>3. /\ requests' \in 0..MaxRequests /\ handles' \subseteq Slots /\ overlap' \subseteq Workers
        /\ doomed' \in [Workers -> SUBSET Requests] /\ swept' \subseteq Requests
        /\ abandoned' \subseteq Fds
    BY <1>e DEF TypeOK, hostVars, history, Moves, IInv
  <2> QED  BY <2>1, <2>2, <2>3 DEF TypeOK
<1>1. MethodInv'
  BY <1>e DEF IInv, Moves, MethodInv
<1>2. LockInv'
  BY <1>e DEF IInv, Moves, LockInv, HasLock
<1>3. SlotInv'
  BY <1>e DEF IInv, Moves, Puts, MethodInv, SlotInv, Marks, HandleInv, Uses
<1>4. HandleInv'
  BY <1>e DEF IInv, Moves, hostVars, MethodInv, HandleInv, Uses
<1>5. FileInv'
  BY <1>e DEF IInv, Moves, Puts, VFD_ALLOC, FileInv, InHand, AtListed
<1>6. OwnerInv'
  BY <1>e DEF IInv, TypeOK, Moves, Puts, hostVars, history, VFD_ALLOC, VFD_CANCELED, NONE,
       InHand, OwnerInv, ListedOnce, HeldOnce, NotBoth, AbandonedOnly, ListedOpen, OpenOwned,
       IsListed, IsHeld
<1>7. RequestInv'
  BY <1>e DEF IInv, TypeOK, Moves, hostVars, history, RequestInv
<1>8. SweepInv'
  <2>1. \A x \in Workers \ {w} : wpc'[x] \notin {"sweep", "unlist", "sweep_close"}
    BY <1>e DEF IInv, LockInv, HasLock, Moves
  <2>2. \A v \in Slots : v < vfd[w] => vfd_list[v] \in {VFD_FREE, VFD_CANCELED}
    BY <1>e DEF IInv, SweepInv
  <2>3. \A v \in Slots : v < vfd[w] => vfd_list'[v] \in {VFD_FREE, VFD_CANCELED}
    BY <1>e, <2>2 DEF Puts
  <2>4. wpc'[w] = "sweep" =>
          vfd'[w] = vfd[w] + 1 /\ vfd_list'[vfd[w]] \in {VFD_FREE, VFD_CANCELED}
    BY <1>e DEF Moves, Puts
  <2>5. wpc'[w] # "sweep" => wpc'[w] = "unlist" /\ vfd'[w] = vfd[w]
    BY <1>e DEF Moves
  <2> QED  BY <1>e, <2>1, <2>3, <2>4, <2>5 DEF SweepInv, Slots
<1>9. SweptInv'
  BY <1>e DEF IInv, Moves, Puts, history, VFD_CANCELED, SweptInv, SlotInv, Marks
<1> QED  BY <1>0, <1>1, <1>2, <1>3, <1>4, <1>5, <1>6, <1>7, <1>8, <1>9 DEF IInv

\* The cleanup takes the file out of the table into its hands.
LEMMA UnlistStep ==
    ASSUME Careful, TypeOK, IInv, NEW w \in Workers, Unlist(w)
    PROVE  TypeOK' /\ IInv'
<1> USE FsAssumption
<1>e. /\ wpc[w] = "unlist" /\ vfd[w] \in Slots
      /\ Goes(w, "sweep_close")
      /\ Puts(vfd[w], VFD_FREE)
      /\ UNCHANGED <<sem_lock, os, hostVars, history>>
  BY DEF IInv, TypeOK, Unlist, FileInv, AtListed, Goto, Put, Moves, Goes, Puts
<1>0. TypeOK'
  BY <1>e DEF IInv, Unlist, hostVars, history, Goto, Put, TypeOK, Pcs
<1>1. MethodInv'
  BY <1>e DEF IInv, Moves, Goes, MethodInv
<1>2. LockInv'
  BY <1>e DEF IInv, Moves, Goes, LockInv, HasLock
<1>3. SlotInv'
  BY <1>e DEF IInv, Moves, Goes, Puts, VFD_FREE, VFD_ALLOC, VFD_CANCELED, SlotInv, Marks,
       FileInv, AtListed
<1>4. HandleInv'
  BY <1>e DEF IInv, Moves, Goes, hostVars, MethodInv, HandleInv, Uses
<1>5. FileInv'
  BY <1>e DEF IInv, Moves, Goes, MethodInv, FileInv, InHand, AtListed, OwnerInv, ListedOpen,
       HandleInv, Uses, LockInv, HasLock
<1>6. OwnerInv'
  <2>1. ListedOnce'  BY <1>e DEF IInv, Moves, Puts, VFD_FREE, OwnerInv, ListedOnce
  <2>2. HeldOnce'  BY <1>e DEF IInv, Moves, Goes, FileInv, InHand, AtListed, OwnerInv, HeldOnce,
        NotBoth
  <2>3. NotBoth'  BY <1>e DEF IInv, Moves, Goes, Puts, VFD_FREE, FileInv, InHand, AtListed,
        OwnerInv, NotBoth, ListedOnce
  <2>4. AbandonedOnly'  BY <1>e DEF IInv, TypeOK, Moves, Goes, Puts, history, VFD_FREE, FileInv,
        InHand, AtListed, OwnerInv, AbandonedOnly
  <2>5. ListedOpen'  BY <1>e DEF IInv, Moves, Puts, VFD_FREE, OwnerInv, ListedOpen
  <2>6. OpenOwned'  BY <1>e DEF IInv, Moves, Goes, Puts, history, FileInv, InHand, AtListed,
        OwnerInv, OpenOwned, IsListed, IsHeld
  <2> QED  BY <2>1, <2>2, <2>3, <2>4, <2>5, <2>6 DEF OwnerInv
<1>7. RequestInv'
  BY <1>e DEF IInv, Moves, Goes, hostVars, history, RequestInv
<1>8. SweepInv'
  BY <1>e DEF IInv, Moves, Goes, Puts, SweepInv, SlotInv
<1>9. SweptInv'
  BY <1>e DEF IInv, Moves, Goes, Puts, history, VFD_FREE, VFD_ALLOC, SweptInv, SlotInv, Marks
<1> QED  BY <1>0, <1>1, <1>2, <1>3, <1>4, <1>5, <1>6, <1>7, <1>8, <1>9 DEF IInv

\* The file is closed, or abandoned, and the slot is behind the cleanup.
LEMMA SweepCloseStep ==
    ASSUME Careful, TypeOK, IInv, NEW w \in Workers, SweepClose(w)
    PROVE  TypeOK' /\ IInv'
<1> USE FsAssumption
<1>e. /\ wpc[w] = "sweep_close" /\ vfd[w] \in Slots
      /\ Moves(w, "sweep", method[w], vfd[w] + 1, NONE, request[w], NONE)
      /\ UNCHANGED <<table, hostVars, doomed, swept>>
      /\ \/ OsPuts(fd[w], NONE) /\ UNCHANGED abandoned
         \/ abandoned' = abandoned \cup {fd[w]} /\ UNCHANGED os
  <2>1. /\ wpc[w] = "sweep_close" /\ vfd[w] \in Slots
        /\ UNCHANGED <<table, hostVars, doomed, swept>>
    BY DEF SweepClose, IInv, SlotInv
  <2>2. Moves(w, "sweep", method[w], vfd[w] + 1, NONE, request[w], NONE)
    BY DEF SweepClose, Goto, TypeOK, Moves
  <2>3. \/ OsPuts(fd[w], NONE) /\ UNCHANGED abandoned
        \/ abandoned' = abandoned \cup {fd[w]} /\ UNCHANGED os
    BY <2>1 DEF SweepClose, CloseIgnored, OsPuts, TypeOK, IInv, FileInv, InHand
  <2> QED  BY <2>1, <2>2, <2>3
<1>o. /\ \A x \in Workers \ {w} : InHand(x) \/ AtListed(x) => fd[x] \in Fds \ {fd[w]}
      /\ \A v \in Slots : vfd_list[v] # fd[w]
  BY <1>e DEF IInv, FileInv, OwnerInv, HeldOnce, NotBoth, InHand
<1>k. /\ \A x \in Workers \ {w} : InHand(x) \/ AtListed(x) => os'[fd[x]] = os[fd[x]]
      /\ \A v \in Slots : vfd_list[v] \in Fds => os'[vfd_list[v]] = os[vfd_list[v]]
  BY <1>e, <1>o DEF OsPuts
<1>0. TypeOK'
  <2>1. /\ vfd_list' \in [Slots -> {VFD_FREE, VFD_ALLOC, VFD_CANCELED} \cup Fds]
        /\ sem_lock' \in {0, 1} /\ os' \in [Fds -> Requests \cup {NONE}]
    BY <1>e DEF SweepClose, CloseIgnored, TypeOK, IInv, table
  <2>2. /\ wpc' \in [Workers -> Pcs]
        /\ method' \in [Workers -> {"none", "open", "close", "read", "cleanup"}]
        /\ vfd' \in [Workers -> -1..MAX_FDS] /\ fd' \in [Workers -> Fds \cup {NONE}]
        /\ request' \in [Workers -> Requests \cup {NONE}]
        /\ file' \in [Workers -> Requests \cup {NONE}]
    BY <1>e DEF SweepClose, TypeOK, Pcs, Goto, Slots
  <2>3. /\ requests' \in 0..MaxRequests /\ handles' \subseteq Slots /\ overlap' \subseteq Workers
        /\ doomed' \in [Workers -> SUBSET Requests] /\ swept' \subseteq Requests
        /\ abandoned' \subseteq Fds
    BY <1>e DEF SweepClose, CloseIgnored, TypeOK, hostVars, Moves, IInv, FileInv, InHand
  <2> QED  BY <2>1, <2>2, <2>3 DEF TypeOK
<1>1. MethodInv'
  BY <1>e DEF IInv, Moves, MethodInv
<1>2. LockInv'
  BY <1>e DEF IInv, Moves, table, LockInv, HasLock
<1>3. SlotInv'
  BY <1>e DEF IInv, TypeOK, Moves, table, SlotInv, Marks
<1>4. HandleInv'
  BY <1>e DEF IInv, Moves, hostVars, MethodInv, HandleInv, Uses
<1>5. FileInv'
  BY <1>e, <1>o, <1>k DEF IInv, Moves, table, FileInv, InHand, AtListed
<1>6. OwnerInv'
  <2>1. ListedOnce'  BY <1>e DEF IInv, OwnerInv, ListedOnce, table
  <2>2. HeldOnce'  BY <1>e, <1>o DEF IInv, OwnerInv, HeldOnce, InHand, Moves
  <2>3. NotBoth'  BY <1>e, <1>o DEF IInv, OwnerInv, NotBoth, InHand, Moves, table
  <2>4. AbandonedOnly'
    <3>1. \A x \in Workers : InHand(x)' => x # w /\ InHand(x) /\ fd'[x] = fd[x]
      BY <1>e DEF Moves, InHand
    <3>2. \A d \in abandoned : d \in Fds /\ d # fd[w]
      BY <1>e DEF IInv, OwnerInv, AbandonedOnly, InHand, TypeOK
    <3>3. os[fd[w]] # NONE  BY <1>e DEF IInv, FileInv, InHand
    <3> QED
      BY <1>e, <1>o, <3>1, <3>2, <3>3 DEF IInv, OwnerInv, AbandonedOnly, OsPuts, table
  <2>5. ListedOpen'  BY <1>e, <1>k DEF IInv, OwnerInv, ListedOpen, table
  <2>6. OpenOwned'
    <3>1. \A x \in Workers \ {w} : InHand(x) => InHand(x)' /\ fd'[x] = fd[x]
      BY <1>e DEF Moves, InHand
    <3>2. ASSUME NEW d \in Fds, os'[d] # NONE, d # fd[w]
          PROVE  d \in abandoned' \/ IsListed(d)' \/ IsHeld(d)'
      <4>1. os[d] # NONE  BY <1>e, <3>2 DEF OsPuts
      <4> QED  BY <1>e, <3>1, <3>2, <4>1 DEF IInv, OwnerInv, OpenOwned, IsListed, IsHeld, table
    <3>3. ASSUME NEW d \in Fds, os'[d] # NONE, d = fd[w]
          PROVE  d \in abandoned' \/ IsHeld(d)'
      BY <1>e, <3>3 DEF Moves, OsPuts
    <3> QED  BY <3>2, <3>3 DEF OpenOwned
  <2> QED  BY <2>1, <2>2, <2>3, <2>4, <2>5, <2>6 DEF OwnerInv
<1>7. RequestInv'
  BY <1>e DEF IInv, Moves, OsPuts, hostVars, NONE, RequestInv
<1>8. SweepInv'
  BY <1>e DEF IInv, Moves, OsPuts, table, SweepInv, Slots
<1>9. SweptInv'
  BY <1>e, <1>o, <1>k DEF IInv, Moves, table, SweptInv
<1> QED  BY <1>0, <1>1, <1>2, <1>3, <1>4, <1>5, <1>6, <1>7, <1>8, <1>9 DEF IInv

\* Nothing is behind the cleanup that it had to undo.
LEMMA SweepEndStep ==
    ASSUME Careful, TypeOK, IInv, NEW w \in Workers, SweepEnd(w)
    PROVE  TypeOK' /\ IInv'
<1> USE FsAssumption
<1>e. /\ wpc[w] = "sweep" /\ \A v \in Slots : v < vfd[w]
      /\ Leaves(w)
      /\ sem_lock = 0 /\ sem_lock' = 1
      /\ swept' = swept \cup doomed[w]
      /\ doomed'[w] = {} /\ \A x \in Workers \ {w} : doomed'[x] = doomed[x]
      /\ UNCHANGED <<vfd_list, os, handles, requests, abandoned>>
  BY DEF IInv, TypeOK, SweepEnd, LockInv, HasLock, SlotInv, Goto, Leave, Slots, Moves, Leaves
<1>0. TypeOK'
  <2>1. /\ vfd_list' \in [Slots -> {VFD_FREE, VFD_ALLOC, VFD_CANCELED} \cup Fds]
        /\ sem_lock' \in {0, 1} /\ os' \in [Fds -> Requests \cup {NONE}]
    BY <1>e DEF TypeOK, IInv
  <2>2. /\ wpc' \in [Workers -> Pcs]
        /\ method' \in [Workers -> {"none", "open", "close", "read", "cleanup"}]
        /\ vfd' \in [Workers -> -1..MAX_FDS] /\ fd' \in [Workers -> Fds \cup {NONE}]
        /\ request' \in [Workers -> Requests \cup {NONE}]
        /\ file' \in [Workers -> Requests \cup {NONE}]
    BY <1>e DEF SweepEnd, Leave, TypeOK, Pcs, Goto, NONE
  <2>3. /\ requests' \in 0..MaxRequests /\ handles' \subseteq Slots /\ overlap' \subseteq Workers
        /\ doomed' \in [Workers -> SUBSET Requests] /\ swept' \subseteq Requests
        /\ abandoned' \subseteq Fds
    BY <1>e DEF SweepEnd, TypeOK, Moves, Leaves, IInv
  <2> QED  BY <2>1, <2>2, <2>3 DEF TypeOK
<1>1. MethodInv'
  BY <1>e DEF IInv, Moves, Leaves, MethodInv
<1>2. LockInv'
  BY <1>e DEF IInv, Moves, Leaves, LockInv, HasLock
<1>3. SlotInv'
  BY <1>e DEF IInv, Moves, Leaves, SlotInv, Marks
<1>4. HandleInv'
  BY <1>e DEF IInv, Moves, Leaves, HandleInv, Uses
<1>5. FileInv'
  BY <1>e DEF IInv, Moves, Leaves, FileInv, InHand, AtListed
<1>6. OwnerInv'
  BY <1>e DEF IInv, Moves, Leaves, InHand, OwnerInv, ListedOnce, HeldOnce, NotBoth,
       AbandonedOnly, ListedOpen, OpenOwned, IsListed, IsHeld
<1>7. RequestInv'
  BY <1>e DEF IInv, Moves, Leaves, RequestInv
<1>8. SweepInv'
  BY <1>e DEF IInv, Moves, SweepInv
<1>9. SweptInv'
  BY <1>e DEF IInv, Moves, Leaves, VFD_FREE, VFD_ALLOC, VFD_CANCELED, SweptInv, SweepInv,
       FileInv, AtListed, SlotInv, Marks
<1> QED  BY <1>0, <1>1, <1>2, <1>3, <1>4, <1>5, <1>6, <1>7, <1>8, <1>9 DEF IInv

------------------------------------------------------------------------------
(* The invariant is inductive.                                             *)

LEMMA Initial == Init => TypeOK /\ IInv
<1> SUFFICES ASSUME Init PROVE TypeOK /\ IInv
  OBVIOUS
<1> USE FsAssumption DEF Init, VFD_FREE, VFD_ALLOC, VFD_CANCELED, NONE
<1>1. TypeOK
  BY DEF TypeOK, Pcs, Requests
<1>2. MethodInv /\ LockInv /\ SweepInv
  BY DEF MethodInv, LockInv, HasLock, SweepInv
<1>3. SlotInv /\ HandleInv /\ FileInv
  BY DEF SlotInv, Marks, HandleInv, Uses, FileInv, InHand, AtListed
<1>4. OwnerInv
  BY DEF OwnerInv, ListedOnce, HeldOnce, NotBoth, AbandonedOnly, ListedOpen, OpenOwned, InHand
<1>5. RequestInv /\ SweptInv
  BY DEF RequestInv, SweptInv
<1> QED BY <1>1, <1>2, <1>3, <1>4, <1>5 DEF IInv

\* A step that changes nothing.
LEMMA Stutters ==
    ASSUME TypeOK, IInv, UNCHANGED vars
    PROVE  TypeOK' /\ IInv'
<1> USE DEF vars, table, workerVars, hostVars, history
<1>1. TypeOK'
  BY DEF TypeOK
<1>2. MethodInv' /\ LockInv' /\ SweepInv'
  BY DEF IInv, MethodInv, LockInv, HasLock, SweepInv
<1>3. SlotInv' /\ HandleInv' /\ FileInv'
  BY DEF IInv, SlotInv, Marks, HandleInv, Uses, FileInv, InHand, AtListed
<1>4. OwnerInv'
  BY DEF IInv, OwnerInv, ListedOnce, HeldOnce, NotBoth, AbandonedOnly, ListedOpen, OpenOwned,
         IsListed, IsHeld, InHand
<1>5. RequestInv' /\ SweptInv'
  BY DEF IInv, RequestInv, SweptInv
<1> QED BY <1>1, <1>2, <1>3, <1>4, <1>5 DEF IInv

LEMMA Inductive == Careful /\ TypeOK /\ IInv /\ [Next]_vars => TypeOK' /\ IInv'
<1> SUFFICES ASSUME Careful, TypeOK, IInv, [Next]_vars PROVE TypeOK' /\ IInv'
  OBVIOUS
<1>1. ASSUME NEW w \in Workers, TakeOpen(w) \/ TakeCleanup(w) PROVE TypeOK' /\ IInv'
  BY <1>1, TakeOpenStep, TakeCleanupStep
<1>2. ASSUME NEW w \in Workers, NEW v \in Slots, NEW m \in {"read", "close"}, TakeUse(w, m, v)
      PROVE  TypeOK' /\ IInv'
  BY <1>2, TakeUseStep
<1>3. ASSUME NEW w \in Workers, Handler(w) PROVE TypeOK' /\ IInv'
  BY <1>3, PendStep, ScanNextStep, ScanFoundStep, ScanFullStep, OsOpenStep, OsOpenFailsStep,
     PublishStep, DiscardStep, GetFdStep, MarkStep, OsCloseStep, FreeSlotStep, RestoreStep, UseStep,
     SweepStep, UnlistStep, SweepCloseStep, SweepEndStep DEF Handler
<1>4. CASE UNCHANGED vars
  BY <1>4, Stutters
<1> QED BY <1>1, <1>2, <1>3, <1>4 DEF Next

LEMMA Invariant == Careful => (Spec => [](TypeOK /\ IInv))
<1> SUFFICES ASSUME Careful PROVE Spec => [](TypeOK /\ IInv)
  OBVIOUS
<1>1. Init => TypeOK /\ IInv
  BY Initial
<1>2. TypeOK /\ IInv /\ [Next]_vars => (TypeOK /\ IInv)'
  BY Inductive
<1> QED BY <1>1, <1>2, PTL DEF Spec

------------------------------------------------------------------------------
(* What a host that keeps conflicting requests apart may rely on.          *)

\* The table, the descriptors and the handlers' locals are of their types, for any
\* number of workers, slots and descriptors.
THEOREM TypeCorrect == Careful => (Spec => []TypeOK)
<1> SUFFICES ASSUME Careful PROVE Spec => []TypeOK
  OBVIOUS
<1> QED BY Invariant, PTL

\* The file that a handler works on is open, and is its descriptor's, until the
\* handler is done: no close or cleanup takes it away between two of its steps.
THEOREM FilesStay == Careful => (Spec => []RightFile)
<1> SUFFICES ASSUME Careful PROVE Spec => []RightFile
  OBVIOUS
<1>1. TypeOK /\ IInv => RightFile
  BY FsAssumption DEF IInv, FileInv, InHand, AtListed, OwnerInv, ListedOpen, RightFile
<1> QED BY <1>1, Invariant, PTL

\* A marked slot is never forgotten: some handler will free it or list a file in it.
THEOREM MarksAreUsed == Careful => (Spec => []MarkedInUse)
<1> SUFFICES ASSUME Careful PROVE Spec => []MarkedInUse
  OBVIOUS
<1>1. IInv => MarkedInUse
  BY DEF IInv, SlotInv, Marks, MarkedInUse
<1> QED BY <1>1, Invariant, PTL

\* What a cleanup was to close is not listed again, whichever opens it overlapped.
THEOREM SweptStaysSwept == Careful => (Spec => []CleanupSticks)
<1> SUFFICES ASSUME Careful PROVE Spec => []CleanupSticks
  OBVIOUS
<1>1. IInv => CleanupSticks
  BY DEF IInv, SweptInv, CleanupSticks, Listed
<1> QED BY <1>1, Invariant, PTL

\* A set of which two members are never different is empty or has one member.
LEMMA CountUpToOne ==
    ASSUME NEW S, \A x, y \in S : x = y
    PROVE  Cardinality(S) = IF S = {} THEN 0 ELSE 1
<1>1. CASE S = {}
  BY <1>1, FS_EmptySet
<1>2. CASE S # {}
  <2>1. PICK x \in S : S = {x}
    BY <1>2
  <2> QED BY <1>2, <2>1, FS_Singleton
<1> QED BY <1>1, <1>2

\* Every open file is in exactly one place: nothing is leaked or closed twice.
THEOREM OneOwnerEach == Careful => (Spec => []OneOwner)
<1> SUFFICES ASSUME Careful PROVE Spec => []OneOwner
  OBVIOUS
<1>1. TypeOK /\ IInv => OneOwner
  <2> SUFFICES ASSUME TypeOK, IInv, NEW d \in Fds
               PROVE  Cardinality(ListedAt(d)) + Cardinality(InHandsOf(d))
                        + (IF d \in abandoned THEN 1 ELSE 0) = (IF d \in Open THEN 1 ELSE 0)
    BY DEF OneOwner
  <2>1. Cardinality(ListedAt(d)) = IF ListedAt(d) = {} THEN 0 ELSE 1
    <3>1. \A u, v \in ListedAt(d) : u = v
      BY DEF ListedAt, IInv, OwnerInv, ListedOnce
    <3> QED BY <3>1, CountUpToOne
  <2>2. Cardinality(InHandsOf(d)) = IF InHandsOf(d) = {} THEN 0 ELSE 1
    <3>1. \A w, x \in InHandsOf(d) : w = x
      BY DEF InHandsOf, InHand, IInv, OwnerInv, HeldOnce
    <3> QED BY <3>1, CountUpToOne
  <2>3. ListedAt(d) # {} <=> IsListed(d)
    BY DEF ListedAt, IsListed
  <2>4. InHandsOf(d) # {} <=> IsHeld(d)
    BY DEF InHandsOf, IsHeld, InHand
  <2>5. ~ (IsListed(d) /\ IsHeld(d)) /\ (d \in abandoned => ~ IsListed(d) /\ ~ IsHeld(d))
    BY DEF IInv, OwnerInv, NotBoth, AbandonedOnly, IsListed, IsHeld
  <2>6. IsListed(d) \/ IsHeld(d) \/ d \in abandoned => d \in Open
    BY DEF IInv, OwnerInv, ListedOpen, AbandonedOnly, FileInv, IsListed, IsHeld, Open
  <2>7. d \in Open => IsListed(d) \/ IsHeld(d) \/ d \in abandoned
    BY DEF IInv, OwnerInv, OpenOwned, Open
  <2>8. CASE IsListed(d)
    BY <2>1, <2>2, <2>3, <2>4, <2>5, <2>6, <2>8
  <2>9. CASE IsHeld(d)
    BY <2>1, <2>2, <2>3, <2>4, <2>5, <2>6, <2>9
  <2>10. CASE ~ IsListed(d) /\ ~ IsHeld(d)
    BY <2>1, <2>2, <2>3, <2>4, <2>6, <2>7, <2>10
  <2> QED BY <2>8, <2>9, <2>10
<1> QED BY <1>1, Invariant, PTL

------------------------------------------------------------------------------
(* The allowed paths.  FoldLeft goes through a sequence by a function that *)
(* it chooses; what that function is at each position follows by induction *)
(* over the positions, and so what add_list makes of a list.               *)

\* Every set of numbers that is not empty has a least one.
LEMMA HasLeast ==
    ASSUME NEW T, T \subseteq Nat, T # {}
    PROVE  \E x \in T : \A y \in T : ~ (y < x)
<1>1. \E x \in T : \A y \in T : ~ (<<y, x>> \in OpToRel(<, Nat))
  BY NatLessThanWellFounded, WFMin, Zenon
<1>2. \A x, y \in Nat : (<<y, x>> \in OpToRel(<, Nat)) <=> y < x
  BY Zenon DEF OpToRel
<1> QED BY <1>1, <1>2, Zenon

\* Induction: the set of the numbers that have the property is all of Nat.
LEMMA SetInduction ==
    ASSUME NEW S, 0 \in S, \A n \in Nat : n \in S => n + 1 \in S
    PROVE  Nat \subseteq S
<1>1. SUFFICES ASSUME Nat \ S # {} PROVE FALSE
  OBVIOUS
<1>2. PICK x \in Nat \ S : \A y \in Nat \ S : ~ (y < x)
  BY <1>1, HasLeast, Zenon
<1>3. x # 0 /\ x - 1 \in Nat /\ x - 1 < x /\ (x - 1) + 1 = x
  BY <1>2
<1>4. x - 1 \in S
  BY <1>2, <1>3
<1> QED BY <1>2, <1>3, <1>4

\* g is the function by which FoldLeft goes through the positions of D.
Walks(g, s, m, D) ==
    g = [u \in SUBSET D |->
           IF u = {} THEN Begun
           ELSE Scan(g[u \ {Max(u)}], s[Max(u)], m)]

\* The position that FoldLeft takes last.
LEMMA GreatestIs ==
    ASSUME NEW n \in Nat
    PROVE  /\ Max(1..(n + 1)) = n + 1 /\ (1..(n + 1)) \ {n + 1} = 1..n
           /\ 1..(n + 1) # {}
<1>1. \A x \in 1..(n + 1) : (\A y \in 1..(n + 1) : x >= y) => x = n + 1
  OBVIOUS
<1>2. n + 1 \in 1..(n + 1) /\ \A y \in 1..(n + 1) : n + 1 >= y
  OBVIOUS
<1>3. Max(1..(n + 1)) = n + 1
  BY <1>1, <1>2, Zenon DEF Max
<1> QED BY <1>3

\* There is such a function: it is extended by one position after the other.
LEMMA WalksExist ==
    ASSUME NEW s, NEW m, NEW n \in Nat
    PROVE  \E g : Walks(g, s, m, 1..n)
<1> DEFINE S == {k \in Nat : \E g : Walks(g, s, m, 1..k)}
<1>1. 0 \in S
  <2> DEFINE g == [u \in SUBSET {} |-> Begun]
  <2>1. Walks(g, s, m, {})
    BY DEF Walks
  <2>2. 1..0 = {}
    OBVIOUS
  <2> HIDE DEF g
  <2> QED BY <2>1, <2>2
<1>2. ASSUME NEW k \in Nat, k \in S PROVE k + 1 \in S
  <2>1. PICK g : Walks(g, s, m, 1..k)
    BY <1>2
  <2> DEFINE x == k + 1
             E == 1..x
             h == [u \in SUBSET E |-> IF x \in u THEN Scan(g[u \ {x}], s[x], m) ELSE g[u]]
             b == [u \in SUBSET E |->
                     IF u = {} THEN Begun ELSE Scan(h[u \ {Max(u)}], s[Max(u)], m)]
  <2>2. x \notin 1..k /\ x \in E /\ \A i \in E : i # x => i \in 1..k
    OBVIOUS
  <2>3. ASSUME NEW u \in SUBSET E, x \in u PROVE Max(u) = x
    <3>1. \A y \in u : x >= y
      BY <2>3
    <3>2. \A y \in u : (\A z \in u : y >= z) => y = x
      BY <2>3
    <3> HIDE DEF x, E
    <3> QED BY <2>3, <3>1, <3>2, Zenon DEF Max
  <2> HIDE DEF x, E
  <2>4. ASSUME NEW u \in SUBSET E PROVE h[u] = b[u]
    <3>1. CASE x \in u
      <4>1. u \ {x} \in SUBSET E /\ h[u \ {x}] = g[u \ {x}]
        OBVIOUS
      <4>2. h[u] = Scan(g[u \ {x}], s[x], m)
        BY <3>1
      <4>3. b[u] = Scan(h[u \ {Max(u)}], s[Max(u)], m)
        BY <3>1
      <4> HIDE DEF h, b
      <4> QED BY <2>3, <3>1, <4>1, <4>2, <4>3
    <3>2. CASE x \notin u
      <4>1. u \in SUBSET (1..k) /\ h[u] = g[u]
        BY <2>2, <3>2
      <4>2. g[u] = IF u = {} THEN Begun ELSE Scan(g[u \ {Max(u)}], s[Max(u)], m)
        BY <2>1, <4>1, Zenon DEF Walks
      <4>3. u \ {Max(u)} \in SUBSET E /\ h[u \ {Max(u)}] = g[u \ {Max(u)}]
        BY <3>2
      <4>4. b[u] = IF u = {} THEN Begun ELSE Scan(h[u \ {Max(u)}], s[Max(u)], m)
        OBVIOUS
      <4> HIDE DEF h, b
      <4> QED BY <4>1, <4>2, <4>3, <4>4
    <3> QED BY <3>1, <3>2
  <2>5. h = b
    <3>1. h = [u \in SUBSET E |-> h[u]] /\ b = [u \in SUBSET E |-> b[u]]
      OBVIOUS
    <3> HIDE DEF h, b
    <3> QED BY <2>4, <3>1, Zenon
  <2>6. Walks(h, s, m, E)
    BY <2>5, Zenon DEF Walks
  <2> HIDE DEF h
  <2> QED BY <2>6 DEF E, x
<1> HIDE DEF S
<1>3. n \in S
  BY <1>1, <1>2, SetInduction
<1> QED BY <1>3 DEF S

\* Its values, from the front on.
LEMMA WalksAt ==
    ASSUME NEW g, NEW s, NEW m, NEW n \in Nat, Walks(g, s, m, 1..n)
    PROVE  /\ g[1..0] = Begun
           /\ \A i \in Nat : i < n => g[1..(i + 1)] = Scan(g[1..i], s[i + 1], m)
<1>1. \A u \in SUBSET (1..n) :
        g[u] = IF u = {} THEN Begun ELSE Scan(g[u \ {Max(u)}], s[Max(u)], m)
  BY Zenon DEF Walks
<1>2. 1..0 = {} /\ {} \in SUBSET (1..n)
  OBVIOUS
<1>3. ASSUME NEW i \in Nat, i < n PROVE g[1..(i + 1)] = Scan(g[1..i], s[i + 1], m)
  <2>1. 1..(i + 1) \in SUBSET (1..n)
    BY <1>3
  <2> QED BY <1>1, <2>1, GreatestIs, Zenon
<1> QED BY <1>1, <1>2, <1>3, Zenon

------------------------------------------------------------------------------
\* The characters of a list.
Chars == Names \cup {"/", ":"}

\* add_list is such a walk over the list and a colon behind it.
LEMMA AddListWalks ==
    ASSUME NEW list \in Seq(Chars), NEW m
    PROVE  LET s == Append(list, ":")
           IN  \E g : Walks(g, s, m, 1..Len(s)) /\ AddList(list, m) = g[1..Len(s)].found
<1> DEFINE s == Append(list, ":")
<1>1. /\ AddList(list, m) = (CHOOSE g : Walks(g, s, m, DOMAIN s))[DOMAIN s].found
  BY Zenon DEF AddList, FoldLeft, MapThenFoldSet, Walks
<1>2. s \in Seq(Chars)
  BY DEF Chars
<1> HIDE DEF s
<1>3. DOMAIN s = 1..Len(s) /\ Len(s) \in Nat
  BY <1>2, LenProperties
<1>4. \E g : Walks(g, s, m, 1..Len(s))
  BY <1>3, WalksExist
<1>5. Walks(CHOOSE g : Walks(g, s, m, 1..Len(s)), s, m, 1..Len(s))
  BY <1>4, Zenon
<1>6. \E g : Walks(g, s, m, 1..Len(s)) /\ AddList(list, m) = g[1..Len(s)].found
  BY <1>1, <1>3, <1>5, Zenon
<1> QED BY <1>6 DEF s

\* What add_path can make.
Entries == {Entry(x, m) : x \in Seq(Chars), m \in Modes}

\* A name of s, from a to b: it ends before a colon, and starts behind one.
Span(s, a, b) ==
    /\ a <= b /\ s[b + 1] = ":" /\ (a = 1 \/ s[a - 1] = ":")
    /\ \A j \in a..b : s[j] # ":"

\* found is what there is of the names of s that end before k.
Finds(s, k, found, m) ==
    /\ found \in Seq(Entries)
    /\ \A i \in 1..Len(found) : \E a, b \in 1..Len(s) :
          b < k /\ Span(s, a, b) /\ found[i] = Entry(SubSeq(s, a, b), m)
    /\ \A a, b \in 1..Len(s) : b < k /\ Span(s, a, b) =>
          \E i \in 1..Len(found) : found[i] = Entry(SubSeq(s, a, b), m)

\* d is what the walk knows after n characters, the last colon of which is at k.
Knows(s, n, k, d, m) ==
    /\ k \in 0..n /\ (k = 0 \/ s[k] = ":")
    /\ \A j \in (k + 1)..n : s[j] # ":"
    /\ d = [name |-> SubSeq(s, k + 1, n), found |-> d.found]
    /\ Finds(s, k, d.found, m)

\* Another character that is no colon.
LEMMA ScanChar ==
    ASSUME NEW s \in Seq(Chars), NEW m \in Modes, NEW n \in Nat, n < Len(s), NEW k,
           NEW d, Knows(s, n, k, d, m), s[n + 1] # ":"
    PROVE  Knows(s, n + 1, k, Scan(d, s[n + 1], m), m)
<1> DEFINE e == Scan(d, s[n + 1], m)
<1>1. k \in 0..n /\ k \in Nat /\ Len(s) \in Nat
  BY DEF Knows
<1>2. e = [name |-> Append(SubSeq(s, k + 1, n), s[n + 1]), found |-> d.found]
  <2> DEFINE f == d.found
             t == SubSeq(s, k + 1, n)
  <2>1. d = [name |-> t, found |-> f]
    BY Zenon DEF Knows
  <2> HIDE DEF f, t
  <2>2. [d EXCEPT !.name = Append(@, s[n + 1])] = [name |-> Append(t, s[n + 1]), found |-> f]
    BY <2>1
  <2>3. e = [name |-> Append(t, s[n + 1]), found |-> f]
    BY <2>2, Zenon DEF Scan
  <2> QED BY <2>3 DEF f, t
<1>3. Append(SubSeq(s, k + 1, n), s[n + 1]) = SubSeq(s, k + 1, n + 1)
  <2>1. \A i \in (k + 1)..(n + 1) : s[i] \in Chars
    BY <1>1
  <2>2. \A i \in (k + 1)..n : s[i] \in Chars
    BY <1>1
  <2> DEFINE t == SubSeq(s, k + 1, n)
             u == SubSeq(s, k + 1, n + 1)
  <2>3. t \in Seq(Chars) /\ Len(t) = n - k /\ \A i \in 1..(n - k) : t[i] = s[k + i]
    <3>1. /\ t \in Seq(Chars) /\ Len(t) = IF k + 1 <= n THEN n - (k + 1) + 1 ELSE 0
          /\ \A i \in 1..(n - (k + 1) + 1) : t[i] = s[(k + 1) + i - 1]
      BY <1>1, <2>2, SubSeqProperties
    <3> HIDE DEF t
    <3> QED BY <1>1, <3>1
  <2>4. u \in Seq(Chars) /\ Len(u) = n - k + 1 /\ \A i \in 1..(n - k + 1) : u[i] = s[k + i]
    <3>1. /\ u \in Seq(Chars) /\ Len(u) = IF k + 1 <= n + 1 THEN (n + 1) - (k + 1) + 1 ELSE 0
          /\ \A i \in 1..((n + 1) - (k + 1) + 1) : u[i] = s[(k + 1) + i - 1]
      BY <1>1, <2>1, SubSeqProperties
    <3> HIDE DEF u
    <3> QED BY <1>1, <3>1
  <2> HIDE DEF t, u
  <2>5. s[n + 1] \in Chars
    BY <1>1
  <2> DEFINE v == Append(t, s[n + 1])
  <2>6. /\ v \in Seq(Chars) /\ Len(v) = n - k + 1
        /\ \A i \in 1..(n - k) : v[i] = t[i]
        /\ v[n - k + 1] = s[n + 1]
    BY <1>1, <2>3, <2>5, AppendProperties
  <2> HIDE DEF v
  <2>7. \A i \in 1..(n - k + 1) : v[i] = u[i]
    <3> TAKE i \in 1..(n - k + 1)
    <3>1. CASE i = n - k + 1
      <4>1. k + (n - k + 1) = n + 1
        BY <1>1
      <4> QED BY <1>1, <2>4, <2>6, <3>1, <4>1
    <3>2. CASE i # n - k + 1
      BY <1>1, <2>3, <2>4, <2>6, <3>2
    <3> QED BY <3>1, <3>2
  <2>8. v = u
    BY <2>4, <2>6, <2>7, SeqEqual
  <2> QED BY <2>8 DEF t, u, v
<1>4. \A j \in (k + 1)..(n + 1) : s[j] # ":"
  BY <1>1 DEF Knows
<1> HIDE DEF e
<1>5. e = [name |-> SubSeq(s, k + 1, n + 1), found |-> e.found] /\ e.found = d.found
  BY <1>2, <1>3
<1>6. k \in 0..(n + 1)
  BY <1>1
<1> QED BY <1>4, <1>5, <1>6, Zenon DEF Knows, e

\* A colon ends the name that has been begun, if there is one.
LEMMA ScanColon ==
    ASSUME NEW s \in Seq(Chars), NEW m \in Modes, NEW n \in Nat, n < Len(s), NEW k,
           NEW d, Knows(s, n, k, d, m), s[n + 1] = ":"
    PROVE  Knows(s, n + 1, n + 1, Scan(d, s[n + 1], m), m)
<1> DEFINE e == Scan(d, s[n + 1], m)
           t == SubSeq(s, k + 1, n)
<1>1. /\ k \in 0..n /\ k \in Nat /\ Len(s) \in Nat
      /\ (k = 0 \/ s[k] = ":") /\ \A j \in (k + 1)..n : s[j] # ":"
  BY DEF Knows
<1>2. /\ d.found \in Seq(Entries)
      /\ \A i \in 1..Len(d.found) : \E a, b \in 1..Len(s) :
            b < k /\ Span(s, a, b) /\ d.found[i] = Entry(SubSeq(s, a, b), m)
      /\ \A a, b \in 1..Len(s) : b < k /\ Span(s, a, b) =>
            \E i \in 1..Len(d.found) : d.found[i] = Entry(SubSeq(s, a, b), m)
  BY Zenon DEF Knows, Finds
<1>3. d.name = t
  BY DEF Knows
<1>4. t \in Seq(Chars) /\ Len(t) = n - k
  <2>1. \A i \in (k + 1)..n : s[i] \in Chars
    BY <1>1
  <2>2. t \in Seq(Chars) /\ Len(t) = IF k + 1 <= n THEN n - (k + 1) + 1 ELSE 0
    BY <1>1, <2>1, SubSeqProperties
  <2> HIDE DEF t
  <2> QED BY <1>1, <2>2
<1>5. e = [name |-> << >>,
           found |-> IF t = << >> THEN d.found ELSE Append(d.found, Entry(t, m))]
  BY <1>3 DEF Scan
<1>6. SubSeq(s, (n + 1) + 1, n + 1) = << >>
  <2>1. (n + 1) + 1 \in Int /\ n + 1 \in Int /\ n + 1 < (n + 1) + 1
    OBVIOUS
  <2> QED BY <2>1, SubSeqEmpty
<1>7. \A a, b \in 1..Len(s) :
        b < n + 1 /\ Span(s, a, b) => b < k \/ (a = k + 1 /\ b = n /\ k < n)
  <2> SUFFICES ASSUME NEW a \in 1..Len(s), NEW b \in 1..Len(s), b < n + 1, Span(s, a, b),
                      ~ b < k
               PROVE  a = k + 1 /\ b = n /\ k < n
    OBVIOUS
  <2>1. /\ a <= b /\ s[b + 1] = ":" /\ (a = 1 \/ s[a - 1] = ":")
        /\ \A j \in a..b : s[j] # ":"
    BY DEF Span
  <2>2. b # k
    <3>1. b \in a..b
      BY <2>1
    <3> QED BY <1>1, <2>1, <3>1
  <2>3. b = n
    <3>1. b < n => b + 1 \in (k + 1)..n
      BY <1>1, <2>2
    <3> QED BY <1>1, <2>1, <3>1
  <2>4. ~ a <= k
    <3>1. a <= k => k \in a..b /\ k # 0
      BY <1>1, <2>3
    <3> QED BY <1>1, <2>1, <3>1
  <2>5. ~ a > k + 1
    <3>1. a > k + 1 => a - 1 \in (k + 1)..n /\ a # 1
      BY <1>1, <2>1, <2>3
    <3> QED BY <1>1, <2>1, <3>1
  <2> QED BY <1>1, <2>1, <2>2, <2>3, <2>4, <2>5
<1>8. \A b \in 1..Len(s) : b < k => b < n + 1
  BY <1>1
<1>10. CASE t = << >>
  <2>1. k = n
    BY <1>1, <1>4, <1>10
  <2>2. e.found = d.found
    BY <1>5, <1>10
  <2>3. \A a, b \in 1..Len(s) : b < n + 1 /\ Span(s, a, b) => b < k
    BY <1>7, <2>1
  <2>4. Finds(s, n + 1, e.found, m)
    <3> HIDE DEF e
    <3> DEFINE f == d.found
    <3>1. /\ f \in Seq(Entries)
          /\ \A i \in 1..Len(f) : \E a, b \in 1..Len(s) :
                b < k /\ Span(s, a, b) /\ f[i] = Entry(SubSeq(s, a, b), m)
          /\ \A a, b \in 1..Len(s) : b < k /\ Span(s, a, b) =>
                \E i \in 1..Len(f) : f[i] = Entry(SubSeq(s, a, b), m)
      BY <1>2, Zenon
    <3> HIDE DEF f
    <3>2. Finds(s, n + 1, f, m)
      <4>1. \A i \in 1..Len(f) : \E a, b \in 1..Len(s) :
              b < n + 1 /\ Span(s, a, b) /\ f[i] = Entry(SubSeq(s, a, b), m)
        BY <1>8, <3>1, Zenon
      <4>2. \A a, b \in 1..Len(s) : b < n + 1 /\ Span(s, a, b) =>
              \E i \in 1..Len(f) : f[i] = Entry(SubSeq(s, a, b), m)
        BY <2>3, <3>1, Zenon
      <4> QED BY <3>1, <4>1, <4>2, Zenon DEF Finds
    <3> QED BY <2>2, <3>2 DEF f
  <2>5. e = [name |-> << >>, found |-> e.found]
    BY <1>5 DEF e
  <2>6. n + 1 \in 0..(n + 1) /\ \A j \in ((n + 1) + 1)..(n + 1) : s[j] # ":"
    OBVIOUS
  <2> HIDE DEF e
  <2>7. Knows(s, n + 1, n + 1, e, m)
    BY <1>6, <2>4, <2>5, <2>6, Zenon DEF Knows
  <2> QED BY <2>7 DEF e
<1>11. CASE t # << >>
  <2>1. k < n
    BY <1>1, <1>4, <1>11
  <2> DEFINE x == Entry(t, m)
             f == Append(d.found, x)
  <2>2. e.found = f
    BY <1>5, <1>11
  <2>3. x \in Entries
    <3> HIDE DEF t
    <3> QED BY <1>4 DEF Entries
  <2>4. /\ f \in Seq(Entries) /\ Len(f) = Len(d.found) + 1 /\ Len(d.found) \in Nat
        /\ \A i \in 1..Len(d.found) : f[i] = d.found[i]
        /\ f[Len(d.found) + 1] = x
    BY <1>2, <2>3, AppendProperties
  <2>5. Span(s, k + 1, n)
    <3>1. k + 1 = 1 \/ s[(k + 1) - 1] = ":"
      BY <1>1
    <3> QED BY <1>1, <2>1, <3>1 DEF Span
  <2>6. k + 1 \in 1..Len(s) /\ n \in 1..Len(s) /\ n < n + 1
    BY <1>1, <2>1
  <2> HIDE DEF f, e
  <2>7. ASSUME NEW i \in 1..Len(f)
        PROVE  \E a, b \in 1..Len(s) :
                 b < n + 1 /\ Span(s, a, b) /\ f[i] = Entry(SubSeq(s, a, b), m)
    <3>1. CASE i = Len(d.found) + 1
      BY <2>4, <2>5, <2>6, <3>1, Zenon DEF x, t
    <3>2. CASE i # Len(d.found) + 1
      <4>1. i \in 1..Len(d.found)
        BY <2>4, <3>2
      <4> QED BY <1>2, <1>8, <2>4, <4>1, Zenon
    <3> QED BY <3>1, <3>2
  <2>8. ASSUME NEW a \in 1..Len(s), NEW b \in 1..Len(s), b < n + 1, Span(s, a, b)
        PROVE  \E i \in 1..Len(f) : f[i] = Entry(SubSeq(s, a, b), m)
    <3>1. CASE b < k
      <4>2. PICK i \in 1..Len(d.found) : d.found[i] = Entry(SubSeq(s, a, b), m)
        BY <1>2, <2>8, <3>1, Zenon
      <4>3. i \in 1..Len(f)
        BY <2>4
      <4> QED BY <2>4, <4>2, <4>3, Zenon
    <3>2. CASE a = k + 1 /\ b = n
      <4>1. Len(d.found) + 1 \in 1..Len(f)
        BY <2>4
      <4> QED BY <2>4, <3>2, <4>1, Zenon DEF x, t
    <3> QED BY <1>7, <2>8, <3>1, <3>2
  <2>9. Finds(s, n + 1, e.found, m)
    BY <2>2, <2>4, <2>7, <2>8, Zenon DEF Finds
  <2>10. e = [name |-> << >>, found |-> e.found]
    BY <1>5 DEF e
  <2>11. n + 1 \in 0..(n + 1) /\ \A j \in ((n + 1) + 1)..(n + 1) : s[j] # ":"
    OBVIOUS
  <2>12. Knows(s, n + 1, n + 1, e, m)
    BY <1>6, <1>11, <2>9, <2>10, <2>11, <1>1, Zenon DEF Knows
  <2> QED BY <2>12 DEF e
<1> QED BY <1>10, <1>11

\* The names in a list, as NamesIn has them.
InList(list, a, b) ==
    /\ a - 1 \in {0, Len(list) + 1} \/ list[a - 1] = ":"
    /\ b + 1 \in {0, Len(list) + 1} \/ list[b + 1] = ":"
    /\ a <= b /\ \A k \in a..b : list[k] # ":"

\* NamesIn in those words.
LEMMA NamesInList ==
    ASSUME NEW list, NEW name
    PROVE  name \in NamesIn(list) <=>
             \E a, b \in 1..Len(list) : InList(list, a, b) /\ name = SubSeq(list, a, b)
<1>1. ASSUME NEW a \in 1..Len(list), NEW b \in 1..Len(list), InList(list, a, b)
      PROVE  SubSeq(list, a, b) \in NamesIn(list)
  <2> DEFINE s == <<a, b>>
  <2>1. s \in (1..Len(list)) \X (1..Len(list)) /\ s[1] = a /\ s[2] = b
    OBVIOUS
  <2> HIDE DEF s
  <2> QED BY <1>1, <2>1, Zenon DEF NamesIn, InList
<1>2. ASSUME name \in NamesIn(list)
      PROVE  \E a, b \in 1..Len(list) : InList(list, a, b) /\ name = SubSeq(list, a, b)
  <2>1. PICK s \in (1..Len(list)) \X (1..Len(list)) :
             InList(list, s[1], s[2]) /\ name = SubSeq(list, s[1], s[2])
    BY <1>2, Zenon DEF NamesIn, InList
  <2>2. s[1] \in 1..Len(list) /\ s[2] \in 1..Len(list)
    OBVIOUS
  <2> QED BY <2>1, <2>2, Zenon
<1> QED BY <1>1, <1>2, Zenon

\* Behind the last name of a list add_list finds the end as it finds a colon.
LEMMA SpansAreNames ==
    ASSUME NEW list \in Seq(Chars), NEW s, s = Append(list, ":")
    PROVE  /\ \A a, b \in 1..Len(s) :
                b < Len(s) /\ Span(s, a, b) => SubSeq(s, a, b) \in NamesIn(list)
           /\ \A name \in NamesIn(list) : \E a, b \in 1..Len(s) :
                b < Len(s) /\ Span(s, a, b) /\ name = SubSeq(s, a, b)
<1> DEFINE n == Len(list)
<1>1. /\ s \in Seq(Chars) /\ n \in Nat /\ Len(s) = n + 1 /\ s[n + 1] = ":"
      /\ \A i \in 1..n : s[i] = list[i]
  <2>1. ":" \in Chars
    BY DEF Chars
  <2> QED BY <2>1, AppendProperties
<1> HIDE DEF n
<1>2. ASSUME NEW a \in 1..n, NEW b \in 1..n
      PROVE  Span(s, a, b) <=> InList(list, a, b)
  <2>1. a # 1 => a - 1 \in 1..n /\ a - 1 # n + 1
    BY <1>1
  <2>2. b # n => b + 1 \in 1..n
    BY <1>1
  <2>3. s[b + 1] = ":" <=> b + 1 \in {0, n + 1} \/ list[b + 1] = ":"
    BY <1>1, <2>2
  <2>4. (a = 1 \/ s[a - 1] = ":") <=> a - 1 \in {0, n + 1} \/ list[a - 1] = ":"
    BY <1>1, <2>1
  <2>5. \A k \in a..b : k \in 1..n /\ s[k] = list[k]
    BY <1>1
  <2> QED BY <2>3, <2>4, <2>5, Zenon DEF Span, InList, n
<1>3. ASSUME NEW a \in 1..n, NEW b \in 1..n
      PROVE  SubSeq(s, a, b) = SubSeq(list, a, b)
  <2> DEFINE t == SubSeq(s, a, b)
             u == SubSeq(list, a, b)
  <2>1. \A i \in a..b : i \in 1..n /\ s[i] \in Chars /\ list[i] \in Chars /\ s[i] = list[i]
    <3>1. \A i \in a..b : i \in 1..n /\ i \in 1..Len(s)
      BY <1>1
    <3> QED BY <1>1, <3>1, ElementOfSeq
  <2>2. /\ t \in Seq(Chars) /\ Len(t) = IF a <= b THEN b - a + 1 ELSE 0
        /\ \A i \in 1..(b - a + 1) : t[i] = s[a + i - 1]
    BY <1>1, <2>1, SubSeqProperties
  <2>3. /\ u \in Seq(Chars) /\ Len(u) = IF a <= b THEN b - a + 1 ELSE 0
        /\ \A i \in 1..(b - a + 1) : u[i] = list[a + i - 1]
    BY <1>1, <2>1, SubSeqProperties
  <2> HIDE DEF t, u
  <2>4. \A i \in 1..Len(t) : t[i] = u[i]
    BY <1>1, <2>1, <2>2, <2>3
  <2>5. t = u
    BY <2>2, <2>3, <2>4, SeqEqual
  <2> QED BY <2>5 DEF t, u
<1>4. ASSUME NEW a \in 1..Len(s), NEW b \in 1..Len(s), b < Len(s), Span(s, a, b)
      PROVE  SubSeq(s, a, b) \in NamesIn(list)
  <2>1. a \in 1..n /\ b \in 1..n
    BY <1>1, <1>4 DEF Span
  <2> QED BY <1>2, <1>3, <1>4, <2>1, NamesInList, Zenon DEF n
<1>5. ASSUME NEW name \in NamesIn(list)
      PROVE  \E a, b \in 1..Len(s) : b < Len(s) /\ Span(s, a, b) /\ name = SubSeq(s, a, b)
  <2>1. PICK a \in 1..n : \E b \in 1..n : InList(list, a, b) /\ name = SubSeq(list, a, b)
    BY NamesInList, Zenon DEF n
  <2>2. PICK b \in 1..n : InList(list, a, b) /\ name = SubSeq(list, a, b)
    BY <2>1
  <2>3. a \in 1..Len(s) /\ b \in 1..Len(s) /\ b < Len(s)
    BY <1>1
  <2> QED BY <1>2, <1>3, <2>2, <2>3, Zenon
<1> QED BY <1>4, <1>5, Zenon

\* add_list makes an entry of each name in the list, and of nothing else.
LEMMA AddListIs ==
    ASSUME NEW list \in Seq(Chars), NEW m \in Modes
    PROVE  /\ AddList(list, m) \in Seq(Entries)
           /\ \A i \in 1..Len(AddList(list, m)) :
                \E name \in NamesIn(list) : AddList(list, m)[i] = Entry(name, m)
           /\ \A name \in NamesIn(list) :
                \E i \in 1..Len(AddList(list, m)) : AddList(list, m)[i] = Entry(name, m)
<1> DEFINE s == Append(list, ":")
           n == Len(s)
<1>1. /\ s \in Seq(Chars) /\ n \in Nat /\ n = Len(list) + 1 /\ s[n] = ":"
      /\ DOMAIN s = 1..n
  <2>1. ":" \in Chars
    BY DEF Chars
  <2>2. s \in Seq(Chars) /\ Len(s) = Len(list) + 1 /\ s[Len(list) + 1] = ":"
    BY <2>1, AppendProperties
  <2> QED BY <2>2, LenProperties
<1>s. s = Append(list, ":")
  OBVIOUS
<1>n. n = Len(s)
  OBVIOUS
<1> HIDE DEF s, n
<1>3. PICK g : Walks(g, s, m, 1..n) /\ AddList(list, m) = g[1..n].found
  BY AddListWalks, Zenon DEF s, n
<1>4. /\ g[1..0] = Begun
      /\ \A i \in Nat : i < n => g[1..(i + 1)] = Scan(g[1..i], s[i + 1], m)
  BY <1>1, <1>3, WalksAt
<1> DEFINE S == {i \in Nat : i <= n => \E k : Knows(s, i, k, g[1..i], m)}
<1>5. 0 \in S
  <2>1. Begun = [name |-> << >>, found |-> Begun.found] /\ Begun.found = << >>
    BY DEF Begun
  <2>2. Finds(s, 0, << >>, m)
    <3>1. << >> \in Seq(Entries) /\ Len(<< >>) = 0
      OBVIOUS
    <3>2. \A i \in 1..Len(<< >>) : FALSE
      OBVIOUS
    <3>3. \A b \in 1..Len(s) : ~ b < 0
      BY <1>1, <1>n
    <3> QED BY <3>1, <3>2, <3>3, Zenon DEF Finds
  <2>3. SubSeq(s, 0 + 1, 0) = << >>
    BY SubSeqEmpty
  <2>4. 0 \in 0..0 /\ \A j \in (0 + 1)..0 : s[j] # ":"
    OBVIOUS
  <2>5. Knows(s, 0, 0, Begun, m)
    BY <2>1, <2>2, <2>3, <2>4, Zenon DEF Knows
  <2> QED BY <1>4, <2>5
<1>6. ASSUME NEW i \in Nat, i \in S PROVE i + 1 \in S
  <2> SUFFICES ASSUME i + 1 <= n PROVE \E k : Knows(s, i + 1, k, g[1..(i + 1)], m)
    OBVIOUS
  <2>1. PICK k : Knows(s, i, k, g[1..i], m)
    BY <1>1, <1>6
  <2>2. g[1..(i + 1)] = Scan(g[1..i], s[i + 1], m) /\ i < Len(s)
    BY <1>1, <1>4, <1>n
  <2>3. CASE s[i + 1] = ":"
    BY <1>1, <2>1, <2>2, <2>3, ScanColon
  <2>4. CASE s[i + 1] # ":"
    BY <1>1, <2>1, <2>2, <2>4, ScanChar
  <2> QED BY <2>3, <2>4
<1> HIDE DEF S
<1>7. n \in S
  BY <1>1, <1>5, <1>6, SetInduction
<1>8. PICK k : Knows(s, n, k, g[1..n], m)
  BY <1>1, <1>7 DEF S
<1>9. k = n
  <2>1. k \in 0..n /\ \A j \in (k + 1)..n : s[j] # ":"
    BY <1>8, Zenon DEF Knows
  <2>2. k # n => n \in (k + 1)..n
    BY <1>1, <2>1
  <2> QED BY <1>1, <2>1, <2>2
<1> DEFINE found == AddList(list, m)
<1>10. found = g[1..n].found
  BY <1>3
<1> HIDE DEF found
<1>11. Finds(s, n, found, m)
  BY <1>8, <1>9, <1>10 DEF Knows
<1>12. /\ found \in Seq(Entries)
       /\ \A i \in 1..Len(found) : \E a, b \in 1..n :
             b < n /\ Span(s, a, b) /\ found[i] = Entry(SubSeq(s, a, b), m)
       /\ \A a, b \in 1..n : b < n /\ Span(s, a, b) =>
             \E i \in 1..Len(found) : found[i] = Entry(SubSeq(s, a, b), m)
  BY <1>11, <1>n, Zenon DEF Finds
<1>13. /\ \A a, b \in 1..n : b < n /\ Span(s, a, b) => SubSeq(s, a, b) \in NamesIn(list)
       /\ \A name \in NamesIn(list) : \E a, b \in 1..n :
             b < n /\ Span(s, a, b) /\ name = SubSeq(s, a, b)
  BY <1>s, <1>n, SpansAreNames
<1>14. \A i \in 1..Len(found) : \E name \in NamesIn(list) : found[i] = Entry(name, m)
  BY <1>12, <1>13, Zenon
<1>15. ASSUME NEW name \in NamesIn(list)
       PROVE  \E i \in 1..Len(found) : found[i] = Entry(name, m)
  <2>1. PICK a, b \in 1..n : b < n /\ Span(s, a, b) /\ name = SubSeq(s, a, b)
    BY <1>13
  <2>2. PICK i \in 1..Len(found) : found[i] = Entry(SubSeq(s, a, b), m)
    BY <1>12, <2>1, Zenon
  <2> QED BY <2>1, <2>2, Zenon
<1> QED BY <1>12, <1>14, <1>15, Zenon DEF found

------------------------------------------------------------------------------
\* The characters of a name and of a path.
NameChars == Names \cup {"/"}

\* Names and paths have no colon in them, and no NUL.
LEMMA CharsAre ==
    /\ NameChars \subseteq Chars /\ "/" # NUL
    /\ \A c \in NameChars : c # NUL /\ c # ":"
    /\ \A c \in Chars : c # ":" => c \in NameChars
BY PathAssumption DEF NameChars, Chars, NUL

\* The lists and the paths that the model has.
LEMMA ListsAre ==
    /\ \A s \in Lists : s \in Seq(Chars) /\ Tidy(s)
    /\ \A s \in Paths : s \in Seq(NameChars) /\ Tidy(s)
<1>1. \A S : \A n \in Nat : \A s \in SeqOf(S, n) : s \in Seq(S)
  BY DEF SeqOf
<1> QED BY <1>1, PathAssumption, Zenon DEF Lists, Paths, Chars, NameChars

\* A name that a list can have: a path of one character at least.
IsName(name) == name \in Seq(NameChars) /\ name # << >> /\ Tidy(name)

\* The names in a list are such names.
LEMMA NameIs ==
    ASSUME NEW list \in Lists, NEW name \in NamesIn(list)
    PROVE  IsName(name)
<1>1. list \in Seq(Chars) /\ Len(list) \in Nat /\ Tidy(list)
  BY ListsAre, LenProperties
<1>2. PICK a, b \in 1..Len(list) : InList(list, a, b) /\ name = SubSeq(list, a, b)
  BY NamesInList, Zenon
<1>3. a <= b /\ \A k \in a..b : list[k] # ":"
  BY <1>2 DEF InList
<1>4. \A k \in a..b : list[k] \in NameChars
  <2>1. \A k \in a..b : k \in 1..Len(list)
    BY <1>1
  <2> QED BY <1>1, <1>3, <2>1, CharsAre, ElementOfSeq
<1>5. /\ name \in Seq(NameChars) /\ Len(name) = b - a + 1
      /\ \A i \in 1..(b - a + 1) : name[i] = list[a + i - 1]
  BY <1>1, <1>2, <1>3, <1>4, SubSeqProperties
<1>6. name # << >>
  BY <1>1, <1>3, <1>5
<1>7. Tidy(name)
  <2> SUFFICES ASSUME NEW i \in 2..Len(name) PROVE name[i - 1] # "/" \/ name[i] # "/"
    BY DEF Tidy
  <2> DEFINE j == a + i - 1
  <2>1. j \in 2..Len(list) /\ j - 1 = a + (i - 1) - 1
    BY <1>1, <1>3, <1>5
  <2>2. name[i] = list[j] /\ name[i - 1] = list[j - 1]
    BY <1>1, <1>3, <1>5
  <2> HIDE DEF j
  <2>3. list[j - 1] # "/" \/ list[j] # "/"
    BY <1>1, <2>1 DEF Tidy
  <2> QED BY <2>2, <2>3
<1> QED BY <1>5, <1>6, <1>7 DEF IsName

\* IsPrefix, character by character.
LEMMA PrefixIs ==
    ASSUME NEW A, NEW s \in Seq(A), NEW t \in Seq(A)
    PROVE  IsPrefix(s, t) <=> Len(s) <= Len(t) /\ \A i \in 1..Len(s) : s[i] = t[i]
<1>1. Len(s) \in Nat /\ Len(t) \in Nat
  OBVIOUS
<1>2. \A i \in 1..Len(s) : s[i] \in A
  OBVIOUS
<1> DEFINE u == SubSeq(s, 1, Len(s))
           v == SubSeq(t, 1, Len(s))
<1>3. u \in Seq(A) /\ Len(u) = Len(s) /\ \A i \in 1..Len(s) : u[i] = s[i]
  <2>1. /\ u \in Seq(A) /\ Len(u) = IF 1 <= Len(s) THEN Len(s) - 1 + 1 ELSE 0
        /\ \A i \in 1..(Len(s) - 1 + 1) : u[i] = s[1 + i - 1]
    BY <1>1, <1>2, SubSeqProperties
  <2> HIDE DEF u
  <2> QED BY <1>1, <2>1
<1>4. CASE Len(s) <= Len(t)
  <2>1. \A i \in 1..Len(s) : t[i] \in A
    BY <1>1, <1>4
  <2>2. v \in Seq(A) /\ Len(v) = Len(s) /\ \A i \in 1..Len(s) : v[i] = t[i]
    <3>1. /\ v \in Seq(A) /\ Len(v) = IF 1 <= Len(s) THEN Len(s) - 1 + 1 ELSE 0
          /\ \A i \in 1..(Len(s) - 1 + 1) : v[i] = t[1 + i - 1]
      BY <1>1, <2>1, SubSeqProperties
    <3> HIDE DEF v
    <3> QED BY <1>1, <3>1
  <2> HIDE DEF u, v
  <2>3. ASSUME \A i \in 1..Len(s) : s[i] = t[i] PROVE u = v
    BY <1>3, <2>2, <2>3, SeqEqual
  <2>4. ASSUME u = v PROVE \A i \in 1..Len(s) : s[i] = t[i]
    BY <1>3, <2>2, <2>4
  <2> QED BY <1>4, <2>3, <2>4 DEF IsPrefix, u, v
<1>5. CASE ~ Len(s) <= Len(t)
  BY <1>5 DEF IsPrefix
<1> QED BY <1>4, <1>5

\* An entry has the name, or the name without its slash.
LEMMA EntryIs ==
    ASSUME NEW name, IsName(name), NEW m
    PROVE  LET e == Entry(name, m)
           IN  /\ e.mode = m /\ e.name \in Seq(NameChars)
               /\ Last(name) # "/" => e.name = name /\ ~ e.dir
               /\ Last(name) = "/" =>
                    /\ e.dir /\ e.name = Front(name) /\ Len(e.name) = Len(name) - 1
                    /\ \A i \in 1..(Len(name) - 1) : e.name[i] = name[i]
<1> DEFINE f == Front(name)
<1>1. name \in Seq(NameChars) /\ Len(name) \in Nat \ {0}
  BY DEF IsName
<1>2. /\ f \in Seq(NameChars) /\ Len(f) = Len(name) - 1
      /\ \A i \in 1..(Len(name) - 1) : f[i] = name[i]
  <2> DEFINE n == Len(name) - 1
  <2>1. n \in Nat /\ \A i \in 1..n : name[i] \in NameChars
    BY <1>1
  <2>2. f = SubSeq(name, 1, n)
    BY DEF Front
  <2> HIDE DEF f, n
  <2>3. /\ f \in Seq(NameChars) /\ Len(f) = IF 1 <= n THEN n - 1 + 1 ELSE 0
        /\ \A i \in 1..(n - 1 + 1) : f[i] = name[1 + i - 1]
    BY <2>1, <2>2, SubSeqProperties
  <2>4. f \in Seq(NameChars) /\ Len(f) = n /\ \A i \in 1..n : f[i] = name[i]
    BY <2>1, <2>3
  <2> QED BY <2>4 DEF n
<1>3. CASE Last(name) = "/"
  <2>1. Entry(name, m) = [name |-> f, dir |-> TRUE, mode |-> m]
    BY <1>3 DEF Entry
  <2> HIDE DEF f
  <2>2. Entry(name, m).dir /\ Entry(name, m).name = f /\ Entry(name, m).mode = m
    BY <2>1
  <2> QED BY <1>2, <1>3, <2>2 DEF f
<1>4. CASE Last(name) # "/"
  <2>1. Entry(name, m) = [name |-> name, dir |-> FALSE, mode |-> m]
    BY <1>4 DEF Entry
  <2>2. ~ Entry(name, m).dir /\ Entry(name, m).name = name /\ Entry(name, m).mode = m
    BY <2>1
  <2> QED BY <1>1, <1>4, <2>2
<1> QED BY <1>3, <1>4

\* A character of the path, as validate_path sees it.
LEMMA CharIs ==
    ASSUME NEW p \in Seq(NameChars), NEW i \in Nat
    PROVE  /\ i < Len(p) => Char(p, i) = p[i + 1] /\ Char(p, i) # NUL
           /\ i >= Len(p) => Char(p, i) = NUL
<1>1. i < Len(p) => p[i + 1] \in NameChars
  OBVIOUS
<1> QED BY <1>1, CharsAre DEF Char

\* If the entry of a name decides about a path, the name covers it.
LEMMA DecidesIsCovers ==
    ASSUME NEW name, IsName(name), NEW m, NEW p \in Seq(NameChars),
           Matches(Entry(name, m), p), EndsName(Entry(name, m), p)
    PROVE  Covers(name, p)
<1> DEFINE e == Entry(name, m)
           n == Len(name)
<1>1. name \in Seq(NameChars) /\ n \in Nat \ {0} /\ Len(p) \in Nat
  BY DEF IsName
<1>2. /\ e.name \in Seq(NameChars) /\ IsPrefix(e.name, p)
      /\ Char(p, Len(e.name)) = NUL \/ (e.dir /\ Char(p, Len(e.name)) = "/")
  BY EntryIs DEF Matches, EndsName
<1>3. Len(e.name) <= Len(p) /\ \A i \in 1..Len(e.name) : e.name[i] = p[i]
  BY <1>2, PrefixIs
<1>4. Char(p, Len(e.name)) = NUL => p = e.name
  <2> SUFFICES ASSUME Char(p, Len(e.name)) = NUL PROVE p = e.name
    OBVIOUS
  <2>1. Len(e.name) \in Nat
    BY <1>2
  <2>2. ~ Len(e.name) < Len(p)
    BY <2>1, CharIs
  <2>3. Len(e.name) = Len(p)
    BY <1>1, <1>3, <2>1, <2>2
  <2> HIDE DEF e
  <2> QED BY <1>2, <1>3, <2>3, SeqEqual
<1>5. CASE Last(name) # "/"
  BY <1>2, <1>4, <1>5, EntryIs DEF Covers
<1>6. CASE Last(name) = "/" /\ Char(p, Len(e.name)) = NUL
  BY <1>4, <1>6, EntryIs DEF Covers
<1>7. CASE Last(name) = "/" /\ Char(p, Len(e.name)) # NUL
  <2>1. Len(e.name) = n - 1 /\ \A i \in 1..(n - 1) : e.name[i] = name[i]
    BY <1>7, EntryIs
  <2>2. n - 1 \in Nat /\ n - 1 < Len(p) /\ p[(n - 1) + 1] = "/"
    <3>1. n - 1 \in Nat /\ Char(p, n - 1) = "/" /\ Char(p, n - 1) # NUL
      BY <1>1, <1>2, <1>7, <2>1
    <3> HIDE DEF n, e
    <3> QED BY <1>1, <3>1, CharIs
  <2>3. name[n] = "/"
    BY <1>7 DEF Last
  <2> HIDE DEF n, e
  <2>4. \A i \in 1..n : name[i] = p[i]
    <3> TAKE i \in 1..n
    <3>1. i # n => i \in 1..(n - 1)
      BY <1>1
    <3>2. (n - 1) + 1 = n
      BY <1>1
    <3> QED BY <1>3, <2>1, <2>2, <2>3, <3>1, <3>2
  <2>5. n <= Len(p)
    BY <1>1, <2>2
  <2>6. IsPrefix(name, p)
    BY <1>1, <2>4, <2>5, PrefixIs DEF n
  <2> QED BY <1>7, <2>6 DEF Covers
<1> QED BY <1>5, <1>6, <1>7

\* The other way round: the entry of a name that covers a path decides about it,
\* if the walk gets there.
LEMMA CoversDecides ==
    ASSUME NEW name, IsName(name), NEW m, NEW p \in Seq(NameChars), p # << >>,
           Covers(name, p)
    PROVE  Matches(Entry(name, m), p) /\ EndsName(Entry(name, m), p)
<1> DEFINE e == Entry(name, m)
           n == Len(name)
<1>1. name \in Seq(NameChars) /\ n \in Nat \ {0} /\ Len(p) \in Nat \ {0}
  BY DEF IsName
<1>2. e.name \in Seq(NameChars) /\ Len(e.name) \in Nat
  BY EntryIs
<1>3. Length(p) = IF p[Len(p)] = "/" THEN Len(p) - 1 ELSE Len(p)
  BY DEF Length, Last
<1>4. CASE Last(name) # "/"
  <2>1. p = name /\ e.name = name
    BY <1>4, EntryIs DEF Covers
  <2>2. Length(p) = Len(p)
    BY <1>3, <1>4, <2>1 DEF Last
  <2>3. IsPrefix(e.name, p)
    BY <1>1, <2>1, PrefixIs
  <2>4. Char(p, Len(p)) = NUL
    BY <1>1, CharIs
  <2> QED BY <1>1, <2>1, <2>2, <2>3, <2>4 DEF Matches, EndsName
<1>5. CASE Last(name) = "/"
  <2>1. /\ e.dir /\ e.name = Front(name) /\ Len(e.name) = n - 1
        /\ \A i \in 1..(n - 1) : e.name[i] = name[i]
    BY <1>5, EntryIs
  <2>2. name[n] = "/"
    BY <1>5 DEF Last
  <2>3. CASE p = Front(name)
    <3>1. p = e.name /\ Len(p) = n - 1
      BY <2>1, <2>3
    <3>2. p[Len(p)] # "/"
      <4>1. n \in 2..n /\ n - 1 \in 1..(n - 1)
        BY <1>1, <3>1
      <4>2. name[n - 1] # "/" \/ name[n] # "/"
        BY <1>1, <4>1 DEF IsName, Tidy
      <4> QED BY <2>1, <2>2, <3>1, <4>1, <4>2
    <3>3. IsPrefix(e.name, p)
      BY <1>2, <3>1, PrefixIs
    <3>4. Char(p, Len(p)) = NUL
      BY <1>1, CharIs
    <3> QED BY <1>1, <1>3, <3>1, <3>2, <3>3, <3>4 DEF Matches, EndsName
  <2>4. CASE p # Front(name)
    <3>1. n <= Len(p) /\ \A i \in 1..n : name[i] = p[i]
      <4>1. p = name => n <= Len(p) /\ \A i \in 1..n : name[i] = p[i]
        BY <1>1
      <4>2. IsPrefix(name, p) => n <= Len(p) /\ \A i \in 1..n : name[i] = p[i]
        BY <1>1, PrefixIs
      <4> QED BY <2>4, <4>1, <4>2 DEF Covers
    <3>2. Len(e.name) <= Length(p)
      BY <1>1, <1>3, <2>1, <3>1
    <3>3. Len(e.name) <= Len(p) /\ \A i \in 1..Len(e.name) : e.name[i] = p[i]
      <4>1. \A i \in 1..(n - 1) : i \in 1..n
        BY <1>1
      <4> QED BY <1>1, <2>1, <3>1, <4>1
    <3>4. IsPrefix(e.name, p)
      BY <1>2, <3>3, PrefixIs
    <3>5. Char(p, Len(e.name)) = "/"
      <4>1. n - 1 \in Nat /\ n - 1 < Len(p) /\ (n - 1) + 1 = n /\ n \in 1..n
        BY <1>1, <3>1
      <4>2. Char(p, n - 1) = p[(n - 1) + 1]
        BY <4>1, CharIs
      <4> QED BY <2>1, <2>2, <3>1, <4>1, <4>2
    <3> QED BY <2>1, <3>2, <3>4, <3>5 DEF Matches, EndsName
  <2> QED BY <2>3, <2>4
<1> QED BY <1>4, <1>5

\* An entry that matches a path has a name that the path starts with.
LEMMA MatchesStarts ==
    ASSUME NEW name, IsName(name), NEW m, NEW p, Matches(Entry(name, m), p)
    PROVE  Starts(name, p)
BY EntryIs DEF Matches, Starts

\* Each call of add_path is for a name of one of the three arguments, and each name
\* has one.
LEMMA EntriesAre ==
    ASSUME rw \in Seq(Chars), ro \in Seq(Chars), wo \in Seq(Chars)
    PROVE  /\ AllEntries \in Seq(Entries)
           /\ \A i \in 1..Len(AllEntries) : \E g \in Given : \E name \in NamesIn(g[1]) :
                AllEntries[i] = Entry(name, g[2])
           /\ \A g \in Given : \A name \in NamesIn(g[1]) : \E i \in 1..Len(AllEntries) :
                AllEntries[i] = Entry(name, g[2])
<1> DEFINE a == AddList(rw, "RDWR")
           b == AddList(ro, "RDONLY")
           c == AddList(wo, "WRONLY")
           Made(es, list, m) ==
             /\ es \in Seq(Entries)
             /\ \A i \in 1..Len(es) : \E name \in NamesIn(list) : es[i] = Entry(name, m)
             /\ \A name \in NamesIn(list) : \E i \in 1..Len(es) : es[i] = Entry(name, m)
<1>1. Made(a, rw, "RDWR") /\ Made(b, ro, "RDONLY") /\ Made(c, wo, "WRONLY")
  <2>1. "RDWR" \in Modes /\ "RDONLY" \in Modes /\ "WRONLY" \in Modes
    BY DEF Modes
  <2> QED BY <2>1, AddListIs, Zenon
<1>2. AllEntries = (a \o b) \o c
  BY DEF AllEntries
<1>3. a \in Seq(Entries) /\ b \in Seq(Entries) /\ c \in Seq(Entries)
  BY <1>1
<1> HIDE DEF a, b, c, Made
<1> DEFINE d == a \o b
           all == AllEntries
<1>4. /\ d \in Seq(Entries) /\ Len(d) = Len(a) + Len(b)
      /\ \A i \in 1..(Len(a) + Len(b)) : d[i] = IF i <= Len(a) THEN a[i] ELSE b[i - Len(a)]
  BY <1>3, ConcatProperties
<1> HIDE DEF d
<1>5. /\ all \in Seq(Entries) /\ Len(all) = Len(d) + Len(c)
      /\ \A i \in 1..(Len(d) + Len(c)) : all[i] = IF i <= Len(d) THEN d[i] ELSE c[i - Len(d)]
  BY <1>2, <1>3, <1>4, ConcatProperties DEF d
<1> HIDE DEF all
<1>6. Len(a) \in Nat /\ Len(b) \in Nat /\ Len(c) \in Nat
  BY <1>3, LenProperties
<1>7. \A i \in 1..Len(all) :
        \/ \E j \in 1..Len(a) : all[i] = a[j]
        \/ \E j \in 1..Len(b) : all[i] = b[j]
        \/ \E j \in 1..Len(c) : all[i] = c[j]
  <2> TAKE i \in 1..Len(all)
  <2>1. CASE i <= Len(a)
    <3>1. i \in 1..Len(a) /\ i <= Len(d) /\ all[i] = d[i] /\ d[i] = a[i]
      BY <1>4, <1>5, <1>6, <2>1
    <3> QED BY <3>1
  <2>2. CASE i > Len(a) /\ i <= Len(d)
    <3>1. i - Len(a) \in 1..Len(b) /\ all[i] = b[i - Len(a)]
      BY <1>4, <1>5, <1>6, <2>2
    <3> QED BY <3>1
  <2>3. CASE i > Len(d)
    <3>1. i - Len(d) \in 1..Len(c) /\ all[i] = c[i - Len(d)]
      BY <1>4, <1>5, <1>6, <2>3
    <3> QED BY <3>1
  <2> QED BY <1>4, <1>6, <2>1, <2>2, <2>3
<1>8. /\ \A j \in 1..Len(a) : \E i \in 1..Len(all) : all[i] = a[j]
      /\ \A j \in 1..Len(b) : \E i \in 1..Len(all) : all[i] = b[j]
      /\ \A j \in 1..Len(c) : \E i \in 1..Len(all) : all[i] = c[j]
  <2>1. \A j \in 1..Len(a) : j \in 1..Len(all) /\ all[j] = a[j]
    BY <1>4, <1>5, <1>6
  <2>2. \A j \in 1..Len(b) : Len(a) + j \in 1..Len(all) /\ all[Len(a) + j] = b[j]
    BY <1>4, <1>5, <1>6
  <2>3. \A j \in 1..Len(c) : Len(d) + j \in 1..Len(all) /\ all[Len(d) + j] = c[j]
    <3> TAKE j \in 1..Len(c)
    <3> DEFINE i == Len(d) + j
    <3>1. i \in 1..Len(all) /\ ~ i <= Len(d) /\ i - Len(d) = j
      BY <1>4, <1>5, <1>6
    <3> HIDE DEF i
    <3>2. all[i] = c[i - Len(d)]
      BY <1>5, <3>1
    <3> QED BY <3>1, <3>2 DEF i
  <2> QED BY <2>1, <2>2, <2>3, Zenon
<1> DEFINE A == <<rw, "RDWR">>
           B == <<ro, "RDONLY">>
           C == <<wo, "WRONLY">>
<1>9. /\ A \in Given /\ B \in Given /\ C \in Given
      /\ \A g \in Given : g = A \/ g = B \/ g = C
  BY DEF Given
<1>10. /\ A[1] = rw /\ A[2] = "RDWR" /\ B[1] = ro /\ B[2] = "RDONLY"
       /\ C[1] = wo /\ C[2] = "WRONLY"
  OBVIOUS
<1> HIDE DEF A, B, C
<1>11. Made(a, A[1], A[2]) /\ Made(b, B[1], B[2]) /\ Made(c, C[1], C[2])
  BY <1>1, <1>10
<1>12. \A i \in 1..Len(all) : \E g \in Given : \E name \in NamesIn(g[1]) :
         all[i] = Entry(name, g[2])
  <2> TAKE i \in 1..Len(all)
  <2>1. ASSUME NEW j \in 1..Len(a), all[i] = a[j]
        PROVE  \E name \in NamesIn(A[1]) : all[i] = Entry(name, A[2])
    BY <1>11, <2>1, Zenon DEF Made
  <2>2. ASSUME NEW j \in 1..Len(b), all[i] = b[j]
        PROVE  \E name \in NamesIn(B[1]) : all[i] = Entry(name, B[2])
    BY <1>11, <2>2, Zenon DEF Made
  <2>3. ASSUME NEW j \in 1..Len(c), all[i] = c[j]
        PROVE  \E name \in NamesIn(C[1]) : all[i] = Entry(name, C[2])
    BY <1>11, <2>3, Zenon DEF Made
  <2> QED BY <1>7, <1>9, <2>1, <2>2, <2>3, Zenon
<1> DEFINE Within(es) == \A j \in 1..Len(es) : \E i \in 1..Len(all) : all[i] = es[j]
           Gone(g) == \A name \in NamesIn(g[1]) :
             \E i \in 1..Len(all) : all[i] = Entry(name, g[2])
<1>13. Within(a) /\ Within(b) /\ Within(c)
  BY <1>8
<1>14. ASSUME NEW es, NEW g, Made(es, g[1], g[2]), Within(es) PROVE Gone(g)
  <2> TAKE name \in NamesIn(g[1])
  <2>1. PICK j \in 1..Len(es) : es[j] = Entry(name, g[2])
    BY <1>14, Zenon DEF Made
  <2> QED BY <1>14, <2>1, Zenon
<1> HIDE DEF Within, Gone
<1>15. Gone(A) /\ Gone(B) /\ Gone(C)
  BY <1>11, <1>13, <1>14, Zenon
<1>16. \A g \in Given : \A name \in NamesIn(g[1]) : \E i \in 1..Len(all) :
         all[i] = Entry(name, g[2])
  BY <1>9, <1>15, Zenon DEF Gone
<1> QED BY <1>5, <1>12, <1>16, Zenon DEF all

------------------------------------------------------------------------------
\* The entries at which the walk of validate_path may stop.
Deciding(es, p, m) ==
    {i \in DOMAIN es : Matches(es[i], p) /\ (~ Grants(es[i], m) \/ EndsName(es[i], p))}

\* The first entry that decides.
LEMMA FirstDecides ==
    ASSUME NEW es \in Seq(Entries), NEW p, NEW m
    PROVE  /\ Validate(es, p, m) <=>
                p # << >> /\ Deciding(es, p, m) # {} /\ Grants(es[Min(Deciding(es, p, m))], m)
           /\ Deciding(es, p, m) # {} => Min(Deciding(es, p, m)) \in Deciding(es, p, m)
           /\ Deciding(es, p, m) \subseteq 1..Len(es)
<1>1. Deciding(es, p, m) \subseteq 1..Len(es)
  BY LenProperties DEF Deciding
<1>2. ASSUME NEW T, T \subseteq 1..Len(es), T # {} PROVE Min(T) \in T
  <2>1. T \subseteq Nat
    BY <1>2
  <2>2. PICK x \in T : \A y \in T : ~ (y < x)
    BY <1>2, <2>1, HasLeast
  <2>3. \A y \in T : x <= y
    BY <2>1, <2>2
  <2> QED BY <2>3, Zenon DEF Min
<1>3. Validate(es, p, m) <=>
        p # << >> /\ Deciding(es, p, m) # {} /\ Grants(es[Min(Deciding(es, p, m))], m)
  BY Zenon DEF Validate, Deciding
<1> QED BY <1>1, <1>2, <1>3

\* The inductive invariant: each entry of the lists is there or lost, and the result
\* is what the walk over those that are there says.
Arguments ==
    /\ rw \in Lists /\ ro \in Lists /\ wo \in Lists
    /\ path \in Paths /\ mode \in Modes

Kept ==
    /\ Len(entries) \in Nat /\ entries = [i \in 1..Len(entries) |-> entries[i]]
    /\ \A i \in 1..Len(entries) : \E j \in 1..Len(AllEntries) : entries[i] = AllEntries[j]
    /\ \A j \in 1..Len(AllEntries) :
         \/ \E i \in 1..Len(entries) : entries[i] = AllEntries[j]
         \/ AllEntries[j] \in lost

PathInv ==
    /\ Arguments
    /\ result # "init" => Kept
    /\ result = "allowed" => Validate(entries, path, mode)
    /\ result = "refused" => ~ Validate(entries, path, mode)

\* The invariant holds.
THEOREM PathInvariant == PathSpec => []PathInv
<1>1. PathInit => PathInv
  BY DEF PathInit, PathInv, Arguments
<1>2. PathInv /\ [PathNext]_pathVars => PathInv'
  <2> SUFFICES ASSUME PathInv, [PathNext]_pathVars PROVE PathInv'
    OBVIOUS
  <2>1. CASE AddLists
    <3>1. /\ result' = "none" /\ UNCHANGED <<rw, ro, wo, path, mode>>
          /\ lost' = Range(AllEntries) \ Range(entries')
      BY <2>1 DEF AddLists, lists
    <3>2. PICK n \in 0..Len(AllEntries) : \E kept \in [1..n -> DOMAIN AllEntries] :
            entries' = [i \in 1..n |-> AllEntries[kept[i]]]
      BY <2>1 DEF AddLists
    <3>3. PICK kept \in [1..n -> DOMAIN AllEntries] :
            entries' = [i \in 1..n |-> AllEntries[kept[i]]]
      BY <3>2
    <3>4. Arguments' /\ AllEntries' = AllEntries
      BY <3>1 DEF PathInv, Arguments, AllEntries
    <3>5. AllEntries \in Seq(Entries)
      <4>1. rw \in Seq(Chars) /\ ro \in Seq(Chars) /\ wo \in Seq(Chars)
        BY ListsAre DEF PathInv, Arguments
      <4> QED BY <4>1, EntriesAre
    <3>6. Kept'
      <4> DEFINE all == AllEntries
                 es == entries'
      <4>1. all \in Seq(Entries) /\ Len(all) \in Nat /\ DOMAIN all = 1..Len(all)
        BY <3>5, LenProperties
      <4> HIDE DEF all
      <4>2. kept \in [1..n -> 1..Len(all)] /\ es = [i \in 1..n |-> all[kept[i]]] /\ n \in Nat
        BY <3>2, <3>3, <4>1 DEF all
      <4> HIDE DEF es
      <4>3. Len(es) = n /\ DOMAIN es = 1..n /\ es = [i \in 1..n |-> es[i]]
            /\ \A i \in 1..n : es[i] = all[kept[i]]
        BY <4>2
      <4>4. \A i \in 1..n : \E j \in 1..Len(all) : es[i] = all[j]
        BY <4>2, <4>3
      <4>5. \A j \in 1..Len(all) : (\E i \in 1..n : es[i] = all[j]) \/ all[j] \in lost'
        <5> TAKE j \in 1..Len(all)
        <5>1. lost' = Range(all) \ Range(es)
          BY <3>1 DEF all, es
        <5>2. all[j] \in Range(all)
          BY <4>1, Zenon DEF Range
        <5>3. all[j] \in Range(es) => \E i \in 1..n : es[i] = all[j]
          BY <4>3, Zenon DEF Range
        <5> QED BY <5>1, <5>2, <5>3
      <4>6. AllEntries' = all
        BY <3>4 DEF all
      <4> QED BY <4>2, <4>3, <4>4, <4>5, <4>6, Zenon DEF Kept, es
    <3> QED BY <3>1, <3>4, <3>6 DEF PathInv
  <2>2. CASE ValidatePath
    <3>1. /\ result = "none" /\ UNCHANGED <<entries, lost, rw, ro, wo, path, mode>>
          /\ result' = IF Validate(entries, path, mode) THEN "allowed" ELSE "refused"
      BY <2>2 DEF ValidatePath, lists
    <3>2. Arguments' /\ Kept'
      BY <3>1 DEF PathInv, Arguments, AllEntries, Kept
    <3>3. Validate(entries, path, mode)' <=> Validate(entries, path, mode)
      BY <3>1
    <3> QED BY <3>1, <3>2, <3>3, Zenon DEF PathInv
  <2>3. CASE UNCHANGED pathVars
    BY <2>3 DEF pathVars, PathInv, Arguments, AllEntries, Kept, lists
  <2> QED BY <2>1, <2>2, <2>3 DEF PathNext
<1> QED BY <1>1, <1>2, PTL DEF PathSpec

\* What the entries are of, and what the path is.
LEMMA EntriesOf ==
    ASSUME PathInv, result # "init"
    PROVE  /\ entries \in Seq(Entries) /\ path \in Seq(NameChars)
           /\ \A g \in Given : \A name \in NamesIn(g[1]) : IsName(name)
           /\ \A i \in 1..Len(entries) : \E g \in Given : \E name \in NamesIn(g[1]) :
                entries[i] = Entry(name, g[2])
           /\ \A g \in Given : \A name \in NamesIn(g[1]) :
                \/ \E i \in 1..Len(entries) : entries[i] = Entry(name, g[2])
                \/ Entry(name, g[2]) \in lost
<1>1. /\ rw \in Lists /\ ro \in Lists /\ wo \in Lists /\ path \in Paths
      /\ Kept
  BY DEF PathInv, Arguments
<1>2. \A g \in Given : g[1] \in Lists
  BY <1>1 DEF Given
<1>3. \A g \in Given : \A name \in NamesIn(g[1]) : IsName(name)
  BY <1>2, NameIs
<1>4. path \in Seq(NameChars) /\ rw \in Seq(Chars) /\ ro \in Seq(Chars) /\ wo \in Seq(Chars)
  BY <1>1, ListsAre
<1>5. /\ AllEntries \in Seq(Entries)
      /\ \A i \in 1..Len(AllEntries) : \E g \in Given : \E name \in NamesIn(g[1]) :
           AllEntries[i] = Entry(name, g[2])
      /\ \A g \in Given : \A name \in NamesIn(g[1]) : \E i \in 1..Len(AllEntries) :
           AllEntries[i] = Entry(name, g[2])
  BY <1>4, EntriesAre, Zenon
<1>6. entries \in Seq(Entries)
  <2>1. \A i \in 1..Len(AllEntries) : AllEntries[i] \in Entries
    BY <1>5, ElementOfSeq
  <2>2. Len(entries) \in Nat /\ entries = [i \in 1..Len(entries) |-> entries[i]]
        /\ \A i \in 1..Len(entries) : entries[i] \in Entries
    BY <1>1, <2>1, Zenon DEF Kept
  <2> QED BY <2>2
<1>7. \A i \in 1..Len(entries) : \E g \in Given : \E name \in NamesIn(g[1]) :
        entries[i] = Entry(name, g[2])
  <2> TAKE i \in 1..Len(entries)
  <2>1. PICK j \in 1..Len(AllEntries) : entries[i] = AllEntries[j]
    BY <1>1, Zenon DEF Kept
  <2>2. PICK g \in Given : \E name \in NamesIn(g[1]) : AllEntries[j] = Entry(name, g[2])
    BY <1>5, Zenon
  <2> QED BY <2>1, <2>2, Zenon
<1>8. \A g \in Given : \A name \in NamesIn(g[1]) :
        \/ \E i \in 1..Len(entries) : entries[i] = Entry(name, g[2])
        \/ Entry(name, g[2]) \in lost
  <2> TAKE g \in Given
  <2> TAKE name \in NamesIn(g[1])
  <2>1. PICK j \in 1..Len(AllEntries) : AllEntries[j] = Entry(name, g[2])
    BY <1>5, Zenon
  <2>2. \/ \E i \in 1..Len(entries) : entries[i] = AllEntries[j]
        \/ AllEntries[j] \in lost
    BY <1>1, Zenon DEF Kept
  <2> QED BY <2>1, <2>2, Zenon
<1> QED BY <1>3, <1>4, <1>6, <1>7, <1>8, Zenon

\* A path that is allowed is listed, in a list that gives the access.
THEOREM Allowed == PathSpec => []AllowedIsListed
<1>1. ASSUME PathInv PROVE AllowedIsListed
  <2> SUFFICES ASSUME result = "allowed"
               PROVE  \E g \in Given : Gives(g) /\ ListedIn(g[1], path)
    BY DEF AllowedIsListed
  <2>0. entries \in Seq(Entries) /\ path \in Seq(NameChars) /\ Validate(entries, path, mode)
    BY <1>1, EntriesOf DEF PathInv
  <2> DEFINE j == Min(Deciding(entries, path, mode))
  <2>1. /\ j \in Deciding(entries, path, mode) /\ j \in 1..Len(entries)
        /\ Grants(entries[j], mode)
    BY <2>0, FirstDecides
  <2>2. Matches(entries[j], path) /\ EndsName(entries[j], path)
    BY <2>1 DEF Deciding
  <2> HIDE DEF j
  <2>3. PICK g \in Given : \E name \in NamesIn(g[1]) : entries[j] = Entry(name, g[2])
    BY <1>1, <2>1, EntriesOf
  <2>4. PICK name \in NamesIn(g[1]) : entries[j] = Entry(name, g[2])
    BY <2>3
  <2>5. IsName(name)
    BY <1>1, EntriesOf
  <2>6. Covers(name, path)
    BY <2>0, <2>2, <2>4, <2>5, DecidesIsCovers
  <2>7. Gives(g)
    <3>1. Entry(name, g[2]).mode = g[2]
      BY <2>5, EntryIs
    <3> QED BY <2>1, <2>4, <3>1 DEF Grants, Gives
  <2> QED BY <2>6, <2>7 DEF ListedIn
<1> QED BY <1>1, PathInvariant, PTL

\* A listed path is refused only for a name that it starts with and that is in a
\* list without the access, or for want of memory for every entry that allows it.
THEOREM Refused == PathSpec => []RefusedForAName
<1>1. ASSUME PathInv PROVE RefusedForAName
  <2> SUFFICES ASSUME result = "refused", path # << >>,
                      NEW g \in Given, Gives(g), ~ NoneAllows(g)
               PROVE  \E h \in Given : ~ Gives(h) /\
                        \E name \in NamesIn(h[1]) : Starts(name, path)
    BY Zenon DEF RefusedForAName
  <2>0. entries \in Seq(Entries) /\ path \in Seq(NameChars) /\ ~ Validate(entries, path, mode)
    BY <1>1, EntriesOf DEF PathInv
  <2>1. PICK name \in NamesIn(g[1]) : Covers(name, path) /\ Entry(name, g[2]) \notin lost
    BY Zenon DEF NoneAllows
  <2>2. PICK i \in 1..Len(entries) : entries[i] = Entry(name, g[2])
    BY <1>1, <2>1, EntriesOf
  <2>3. IsName(name)
    BY <1>1, EntriesOf
  <2>4. Matches(entries[i], path) /\ EndsName(entries[i], path)
    BY <2>0, <2>1, <2>2, <2>3, CoversDecides
  <2>5. i \in Deciding(entries, path, mode)
    BY <2>0, <2>4, LenProperties DEF Deciding
  <2> DEFINE j == Min(Deciding(entries, path, mode))
  <2>6. /\ j \in Deciding(entries, path, mode) /\ j \in 1..Len(entries)
        /\ ~ Grants(entries[j], mode)
    BY <2>0, <2>5, FirstDecides
  <2>7. Matches(entries[j], path)
    BY <2>6 DEF Deciding
  <2> HIDE DEF j
  <2>8. PICK h \in Given : \E other \in NamesIn(h[1]) : entries[j] = Entry(other, h[2])
    BY <1>1, <2>6, EntriesOf
  <2>9. PICK other \in NamesIn(h[1]) : entries[j] = Entry(other, h[2])
    BY <2>8
  <2>10. IsName(other)
    BY <1>1, EntriesOf
  <2>11. Starts(other, path)
    BY <2>7, <2>9, <2>10, MatchesStarts
  <2>12. ~ Gives(h)
    <3>1. Entry(other, h[2]).mode = h[2]
      BY <2>10, EntryIs
    <3> QED BY <2>6, <2>9, <3>1 DEF Grants, Gives
  <2> QED BY <2>11, <2>12
<1> QED BY <1>1, PathInvariant, PTL
==============================================================================
