------------------------------ MODULE NamedFifo ------------------------------
(***************************************************************************)
(* A named FIFO (named_fifo.c): threads open, close, read and write one    *)
(* ring buffer.  read and write are mirror images of each other and are    *)
(* modelled as one call of the side R or W.  What a byte is does not       *)
(* matter, only where the offsets are.  Threads run as in the multi-       *)
(* threaded build, where ALT_SEM is a counting semaphore.                  *)
(*                                                                         *)
(* A call without the access it needs, and one of no bytes, returns at     *)
(* once and changes nothing: neither is a step.  Without lock_common only  *)
(* Test reads the offsets and GiveUp and Retry a flag, each of which one   *)
(* assignment sets, so that what a call does under the lock is one step.   *)
(***************************************************************************)
EXTENDS Integers, FiniteSets

CONSTANTS Threads,
          NonBlocking,   \* the threads that open with O_NONBLOCK
          Capacity,      \* of the buffer, a power of two
          MaxOpens       \* bound: how often a thread opens the FIFO

Sides == {"R", "W"}      \* _FREAD and _FWRITE
Other(s) == IF s = "R" THEN "W" ELSE "R"

ASSUME NamedFifoAssumption ==
    /\ IsFiniteSet(Threads) /\ NonBlocking \subseteq Threads
    /\ Capacity \in Nat \ {0} /\ MaxOpens \in Nat

VARIABLES
    users,          \* dev->readers and dev->writers
    closed,         \* the flags READER_CLOSED and WRITER_CLOSED
    full,           \* the flag BUFFER_FULL
    pos,            \* read_offset and write_offset
    lock_common, sem,
    fd,             \* the access of a thread's descriptor, {} if it has none
    pc, op, len,    \* where each thread is in its call, and the call's length
    opens, drained  \* history: opens per thread; last closes per side

calls == <<fd, pc, op, len, opens>>
vars == <<users, closed, full, pos, lock_common, sem, calls, drained>>

Init ==
    /\ users = [s \in Sides |-> 0] /\ closed = {} /\ full = FALSE
    /\ pos = [s \in Sides |-> 0]
    /\ lock_common = 1 /\ sem = [s \in Sides |-> 0]
    /\ fd = [t \in Threads |-> {}]
    /\ pc = [t \in Threads |-> "idle"] /\ op = [t \in Threads |-> "open"]
    /\ len = [t \in Threads |-> 0]
    /\ opens = [t \in Threads |-> 0] /\ drained = [s \in Sides |-> 0]

At(t, here) == pc[t] = here
Goto(t, there) == pc' = [pc EXCEPT ![t] = there]

\* The call returns.
Return(t) ==
    /\ Goto(t, "idle")
    /\ op' = [op EXCEPT ![t] = "open"] /\ len' = [len EXCEPT ![t] = 0]

------------------------------------------------------------------------------
(* The calls.  Open first tells the FIFO which descriptor it makes.        *)

Open(t, access) ==
    /\ At(t, "idle") /\ fd[t] = {} /\ opens[t] < MaxOpens
    /\ fd' = [fd EXCEPT ![t] = access]
    /\ opens' = [opens EXCEPT ![t] = @ + 1]
    /\ op' = [op EXCEPT ![t] = "open"] /\ Goto(t, "pend")
    /\ UNCHANGED <<users, closed, full, pos, lock_common, sem, len, drained>>

Close(t) ==
    /\ At(t, "idle") /\ fd[t] # {}
    /\ op' = [op EXCEPT ![t] = "close"] /\ Goto(t, "pend")
    /\ UNCHANGED <<users, closed, full, pos, lock_common, sem, fd, len, opens, drained>>

Transfer(t, s, n) ==
    /\ At(t, "idle") /\ s \in fd[t]
    /\ op' = [op EXCEPT ![t] = s] /\ len' = [len EXCEPT ![t] = n] /\ Goto(t, "wait")
    /\ UNCHANGED <<users, closed, full, pos, lock_common, sem, fd, opens, drained>>

------------------------------------------------------------------------------
(* read and write, up to the copy of the bytes.                            *)

\* ALT_SEM_PEND(sem_reader) or ALT_SEM_PEND(sem_writer)
Wait(t) ==
    /\ At(t, "wait") /\ sem[op[t]] > 0
    /\ sem' = [sem EXCEPT ![op[t]] = @ - 1] /\ Goto(t, "test")
    /\ UNCHANGED <<users, closed, full, pos, lock_common, fd, op, len, opens, drained>>

\* "No data to read now", "No space to write now": the same test in both.
NothingLeft == pos["R"] = pos["W"] /\ ~ full

\* What the two parts of the buffer from an offset to the other's amount to.
Extent(s) ==
    IF pos[s] < pos[Other(s)] THEN pos[Other(s)] - pos[s]
                              ELSE Capacity - pos[s] + pos[Other(s)]

Test(t) ==
    /\ At(t, "test")
    /\ IF NothingLeft
         THEN /\ sem' = [sem EXCEPT ![op[t]] = @ + 1]
              /\ Goto(t, "stuck") /\ UNCHANGED len
         ELSE /\ len' = [len EXCEPT ![t] = IF @ < Extent(op[t]) THEN @ ELSE Extent(op[t])]
              /\ Goto(t, "pend") /\ UNCHANGED sem
    /\ UNCHANGED <<users, closed, full, pos, lock_common, fd, op, opens, drained>>

\* The FIFO's other end is closed, or the call may not block: it returns.
GiveUp(t) ==
    /\ At(t, "stuck")
    /\ Other(op[t]) \in closed \/ t \in NonBlocking
    /\ Return(t)
    /\ UNCHANGED <<users, closed, full, pos, lock_common, sem, fd, opens, drained>>

Retry(t) ==
    /\ At(t, "stuck")
    /\ Other(op[t]) \notin closed /\ t \notin NonBlocking
    /\ Goto(t, "wait")
    /\ UNCHANGED <<users, closed, full, pos, lock_common, sem, fd, op, len, opens, drained>>

------------------------------------------------------------------------------
(* What each call does while it holds lock_common.                         *)

Pend(t) ==
    /\ At(t, "pend") /\ lock_common = 1
    /\ lock_common' = 0 /\ Goto(t, "locked")
    /\ UNCHANGED <<users, closed, full, pos, sem, fd, op, len, opens, drained>>

\* Mutant: an open forgets that its side was closed before.
OpenLockedStale(t) ==
    /\ users' = [s \in Sides |-> IF s \in fd[t] THEN users[s] + 1 ELSE users[s]]
    /\ lock_common' = 1
    /\ UNCHANGED <<closed, full, pos, sem, fd, drained>>

OpenLocked(t) ==
    /\ users' = [s \in Sides |-> IF s \in fd[t] THEN users[s] + 1 ELSE users[s]]
    /\ closed' = closed \ fd[t]
    /\ lock_common' = 1
    /\ UNCHANGED <<full, pos, sem, fd, drained>>

\* Mutant: every close posts, not only the last one of its side.
LastAlways(t) == fd[t]

\* The sides that lose their last user.
LastOf(t) == {s \in fd[t] : users[s] = 1}

CloseLocked(t) ==
    /\ users' = [s \in Sides |-> IF s \in fd[t] THEN users[s] - 1 ELSE users[s]]
    /\ closed' = closed \cup LastOf(t)
    /\ sem' = [s \in Sides |-> IF s \in LastOf(t) THEN sem[s] + 1 ELSE sem[s]]
    /\ drained' = [s \in Sides |-> IF s \in fd[t] /\ users[s] = 1
                                     THEN drained[s] + 1 ELSE drained[s]]
    /\ fd' = [fd EXCEPT ![t] = {}]
    /\ lock_common' = 1
    /\ UNCHANGED <<full, pos>>

\* The end of a read or a write.  A write does not give lock_common back.
TransferLocked(t) ==
    /\ pos' = [pos EXCEPT ![op[t]] = (@ + len[t]) % Capacity]
    /\ full' = (op[t] = "W" /\ (full \/ pos'["R"] = pos'["W"]))
    /\ lock_common' = IF op[t] = "R" THEN 1 ELSE 0
    /\ sem' = [s \in Sides |-> sem[s] + 1]
    /\ UNCHANGED <<users, closed, fd, drained>>

Locked(t) ==
    /\ At(t, "locked")
    /\ CASE op[t] = "open"  -> OpenLocked(t)
         [] op[t] = "close" -> CloseLocked(t)
         [] OTHER           -> TransferLocked(t)
    /\ Return(t)
    /\ UNCHANGED opens

------------------------------------------------------------------------------
Accesses == (SUBSET Sides) \ {{}}

\* What a thread does in a call, as opposed to making one.
Step(t) == Wait(t) \/ Test(t) \/ GiveUp(t) \/ Retry(t) \/ Pend(t) \/ Locked(t)

Next ==
    \E t \in Threads :
        \/ \E access \in Accesses : Open(t, access)
        \/ Close(t)
        \/ \E s \in Sides, n \in 1..Capacity : Transfer(t, s, n)
        \/ Step(t)

Spec == Init /\ [][Next]_vars

\* The semaphores are fair: who waits for one that is posted again and again
\* gets it.
FairSpec == Spec /\ \A t \in Threads : SF_vars(Step(t))

------------------------------------------------------------------------------
TypeOK ==
    /\ users \in [Sides -> 0..Cardinality(Threads)] /\ closed \subseteq Sides
    /\ full \in BOOLEAN /\ pos \in [Sides -> 0..(Capacity - 1)]
    /\ lock_common \in {0, 1} /\ sem \in [Sides -> Nat]
    /\ fd \in [Threads -> SUBSET Sides]
    /\ pc \in [Threads -> {"idle", "wait", "test", "stuck", "pend", "locked"}]
    /\ op \in [Threads -> {"open", "close"} \cup Sides]
    /\ len \in [Threads -> 0..Capacity]
    /\ opens \in [Threads -> 0..MaxOpens] /\ drained \in [Sides -> Nat]

\* The threads that the FIFO counts as users of side s: an open counts once it
\* has had the lock, a close until then.
UsersOf(s) ==
    {t \in Threads : s \in fd[t] /\ ~ (op[t] = "open" /\ pc[t] # "idle")}

\* The counts are right whatever opens and closes overlap, and the flag of a
\* side says exactly that all its users have gone.
ClosedIsNoUser ==
    \A s \in Sides :
        /\ users[s] = Cardinality(UsersOf(s))
        /\ s \in closed <=> users[s] = 0 /\ drained[s] > 0

\* The threads that hold the semaphore of side s.
Inside(s) == {t \in Threads : op[t] = s /\ pc[t] = "test"}

\* A side's semaphore is worth as many calls at once as its last user has closed
\* it: none at first, and more than one later, though it guards the offset.
OnlyLastClosePosts == \A s \in Sides : sem[s] + Cardinality(Inside(s)) = drained[s]

\* A blocking call gives up only if nobody has the other end open.
EndOfFifo ==
    [][\A t \in Threads \ NonBlocking :
          GiveUp(t) => users[Other(op[t])] = 0]_vars

\* named_fifo.c:152, "No space to write now": a write finds no space only if the
\* buffer is full.
NoSpaceIsFull == \A t \in Threads : pc[t] = "stuck" /\ op[t] = "W" => full

\* named_fifo.c:84, "Closed pipe (No writer)": a read with no writer left, and
\* none to come, returns.
EofReachesReader ==
    \A t \in Threads :
        (pc[t] = "wait" /\ op[t] = "R")
            ~> (pc[t] = "idle" \/ "W" \notin closed)
==============================================================================
