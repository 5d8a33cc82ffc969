-------------------------- MODULE NamedFifo_proofs --------------------------
(***************************************************************************)
(* Proofs about NamedFifo for any set of threads that opens, closes, reads *)
(* and writes the FIFO, blocking or not, and any capacity.                 *)
(***************************************************************************)
EXTENDS NamedFifo, FiniteSetTheorems, TLAPS

\* What a thread does at each place of a call.
CallInv ==
    \A t \in Threads :
        /\ pc[t] = "idle" => op[t] = "open"
        /\ pc[t] \in {"wait", "test", "stuck"} <=> op[t] \in Sides
        /\ op[t] \in Sides => op[t] \in fd[t]
        /\ fd[t] = {} => pc[t] = "idle"

\* lock_common keeps all but one thread out.
LockInv ==
    /\ \A t, u \in Threads : At(t, "locked") /\ At(u, "locked") => t = u
    /\ lock_common = 1 => \A t \in Threads : ~ At(t, "locked")

\* The offsets never part: the test that keeps a read from an empty buffer keeps
\* a write from it too, so that no call gets as far as copying a byte.
IInv == CallInv /\ LockInv /\ NothingLeft /\ ClosedIsNoUser /\ OnlyLastClosePosts

------------------------------------------------------------------------------
(* The counted sets.                                                       *)

\* A set of threads is finite, and has no more of them than there are.
LEMMA Counted ==
    ASSUME NEW S, S \subseteq Threads
    PROVE  /\ IsFiniteSet(S) /\ Cardinality(S) \in 0..Cardinality(Threads)
           /\ Cardinality(S) = 0 <=> S = {}
<1>1. IsFiniteSet(Threads)  BY NamedFifoAssumption
<1>2. IsFiniteSet(S) /\ Cardinality(S) <= Cardinality(Threads)  BY <1>1, FS_Subset
<1> QED  BY <1>1, <1>2, FS_CardinalityType, FS_EmptySet

\* One thread more, and one less.
LEMMA CountedChange ==
    ASSUME NEW S, S \subseteq Threads, NEW t
    PROVE  /\ t \notin S => Cardinality(S \cup {t}) = Cardinality(S) + 1
           /\ t \in S => Cardinality(S \ {t}) = Cardinality(S) - 1
BY Counted, FS_AddElement, FS_RemoveElement

------------------------------------------------------------------------------
(* Each step keeps the invariant.                                          *)

\* A step that changes none of what the counts are of.
LEMMA KeepsCounts ==
    ASSUME IInv, UNCHANGED <<users, closed, drained, sem>>,
           \A s \in Sides : UsersOf(s)' = UsersOf(s) /\ Inside(s)' = Inside(s)
    PROVE  ClosedIsNoUser' /\ OnlyLastClosePosts'
BY DEF IInv, ClosedIsNoUser, OnlyLastClosePosts

\* A thread makes a call, has the lock, or returns without any bytes or tries
\* again: nothing that is counted changes.
LEMMA QuietStep ==
    ASSUME TypeOK, IInv, NEW t \in Threads,
           \/ \E access \in Accesses : Open(t, access)
           \/ Close(t)
           \/ \E s \in Sides, n \in 1..Capacity : Transfer(t, s, n)
           \/ GiveUp(t) \/ Retry(t) \/ Pend(t)
    PROVE  TypeOK' /\ IInv'
<1> USE NamedFifoAssumption
<1>1. TypeOK' /\ CallInv'
  <2>1. ASSUME NEW access \in Accesses, Open(t, access)  PROVE TypeOK' /\ CallInv'
    <3>1. /\ pc[t] = "idle" /\ pc' = [pc EXCEPT ![t] = "pend"] /\ op' = [op EXCEPT ![t] = "open"]
          /\ fd' = [fd EXCEPT ![t] = access]
          /\ opens' = [opens EXCEPT ![t] = @ + 1] /\ opens[t] < MaxOpens
          /\ UNCHANGED <<users, closed, full, pos, lock_common, sem, len, drained>>
      BY <2>1 DEF Open, At, Goto
    <3>2. access \subseteq Sides /\ access # {}  BY <2>1 DEF Accesses
    <3>3. TypeOK'  BY <3>1, <3>2 DEF TypeOK
    <3>4. CallInv'  BY <3>1, <3>2 DEF TypeOK, IInv, CallInv, Sides
    <3> QED  BY <3>3, <3>4
  <2>2. CASE Close(t)  BY <2>2 DEF TypeOK, IInv, CallInv, Sides, Close, At, Goto
  <2>3. ASSUME NEW s \in Sides, NEW n \in 1..Capacity, Transfer(t, s, n)  PROVE TypeOK' /\ CallInv'
    BY <2>3 DEF TypeOK, IInv, CallInv, Sides, Transfer, At, Goto
  <2>4. CASE GiveUp(t)  BY <2>4 DEF TypeOK, IInv, CallInv, Sides, GiveUp, At, Goto, Return
  <2>5. CASE Retry(t)  BY <2>5 DEF TypeOK, IInv, CallInv, Retry, At, Goto
  <2>6. CASE Pend(t)  BY <2>6 DEF TypeOK, IInv, CallInv, Pend, At, Goto
  <2> QED  BY <2>1, <2>2, <2>3, <2>4, <2>5, <2>6
<1>3. LockInv'
  BY DEF TypeOK, IInv, LockInv, Open, Close, Transfer, GiveUp, Retry, Pend, At, Goto, Return
<1>4. NothingLeft'
  BY DEF IInv, NothingLeft, Open, Close, Transfer, GiveUp, Retry, Pend
<1>5. UNCHANGED <<users, closed, drained, sem>>
  BY DEF Open, Close, Transfer, GiveUp, Retry, Pend
<1>6. ASSUME NEW s \in Sides  PROVE  UsersOf(s)' = UsersOf(s) /\ Inside(s)' = Inside(s)
  BY <1>6 DEF TypeOK, IInv, CallInv, Sides, Open, Close, Transfer, GiveUp, Retry, Pend, At, Goto, Return,
      UsersOf, Inside
<1> QED  BY <1>1, <1>3, <1>4, <1>5, <1>6, KeepsCounts DEF IInv

\* The semaphore passes into a thread's hands.
LEMMA WaitStep ==
    ASSUME TypeOK, IInv, NEW t \in Threads, Wait(t)
    PROVE  TypeOK' /\ IInv'
<1>1. op[t] \in Sides /\ sem[op[t]] > 0 /\ pc[t] = "wait"
  BY DEF Wait, At, IInv, CallInv
<1>2. /\ pc' = [pc EXCEPT ![t] = "test"] /\ sem' = [sem EXCEPT ![op[t]] = @ - 1]
      /\ UNCHANGED <<users, closed, full, pos, lock_common, fd, op, len, opens, drained>>
  BY DEF Wait, Goto
<1>3. TypeOK'  BY <1>1, <1>2 DEF TypeOK
<1>4. CallInv' /\ LockInv' /\ NothingLeft'
  BY <1>1, <1>2 DEF TypeOK, IInv, CallInv, LockInv, NothingLeft, At
<1>5. ClosedIsNoUser'
  <2>1. \A s \in Sides : UsersOf(s)' = UsersOf(s)
    BY <1>1, <1>2 DEF UsersOf, TypeOK, Sides
  <2> QED  BY <1>2, <2>1 DEF IInv, ClosedIsNoUser
<1>6. OnlyLastClosePosts'
  <2> SUFFICES ASSUME NEW s \in Sides  PROVE (sem[s] + Cardinality(Inside(s)) = drained[s])'
    BY DEF OnlyLastClosePosts
  <2>1. sem[s] + Cardinality(Inside(s)) = drained[s] /\ drained'[s] = drained[s]
    BY <1>2 DEF IInv, OnlyLastClosePosts
  <2>2. CASE s = op[t]
    <3>1. Inside(s)' = Inside(s) \cup {t} /\ t \notin Inside(s)
      BY <1>1, <1>2, <2>2 DEF Inside, TypeOK
    <3>2. Cardinality(Inside(s)') = Cardinality(Inside(s)) + 1  BY <3>1, CountedChange DEF Inside, UsersOf
    <3>3. sem'[s] = sem[s] - 1  BY <1>2, <2>2 DEF TypeOK
    <3> QED  BY <2>1, <3>2, <3>3, Counted DEF TypeOK, Inside
  <2>3. CASE s # op[t]
    <3>1. Inside(s)' = Inside(s)  BY <1>1, <1>2, <2>3 DEF Inside, TypeOK
    <3>2. sem'[s] = sem[s]  BY <1>2, <2>3 DEF TypeOK
    <3> QED  BY <2>1, <3>1, <3>2
  <2> QED  BY <2>2, <2>3
<1> QED  BY <1>3, <1>4, <1>5, <1>6 DEF IInv

\* The test finds nothing, and the semaphore is given back.
LEMMA TestStep ==
    ASSUME TypeOK, IInv, NEW t \in Threads, Test(t)
    PROVE  TypeOK' /\ IInv'
<1>1. op[t] \in Sides /\ pc[t] = "test" /\ NothingLeft
  BY DEF Test, At, IInv, CallInv
<1>2. /\ pc' = [pc EXCEPT ![t] = "stuck"] /\ sem' = [sem EXCEPT ![op[t]] = @ + 1]
      /\ UNCHANGED <<users, closed, full, pos, lock_common, fd, op, len, opens, drained>>
  BY <1>1 DEF Test, Goto
<1>3. TypeOK'  BY <1>1, <1>2 DEF TypeOK
<1>4. CallInv' /\ LockInv' /\ NothingLeft'
  BY <1>1, <1>2 DEF TypeOK, IInv, CallInv, LockInv, NothingLeft, At
<1>5. ClosedIsNoUser'
  <2>1. \A s \in Sides : UsersOf(s)' = UsersOf(s)
    BY <1>1, <1>2 DEF UsersOf, TypeOK, Sides
  <2> QED  BY <1>2, <2>1 DEF IInv, ClosedIsNoUser
<1>6. OnlyLastClosePosts'
  <2> SUFFICES ASSUME NEW s \in Sides  PROVE (sem[s] + Cardinality(Inside(s)) = drained[s])'
    BY DEF OnlyLastClosePosts
  <2>1. sem[s] + Cardinality(Inside(s)) = drained[s] /\ drained'[s] = drained[s]
    BY <1>2 DEF IInv, OnlyLastClosePosts
  <2>2. CASE s = op[t]
    <3>1. Inside(s)' = Inside(s) \ {t} /\ t \in Inside(s)
      BY <1>1, <1>2, <2>2 DEF Inside, TypeOK
    <3>2. Cardinality(Inside(s)') = Cardinality(Inside(s)) - 1  BY <3>1, CountedChange DEF Inside, UsersOf
    <3>3. sem'[s] = sem[s] + 1  BY <1>2, <2>2 DEF TypeOK
    <3> QED  BY <2>1, <3>2, <3>3, Counted DEF TypeOK, Inside
  <2>3. CASE s # op[t]
    <3>1. Inside(s)' = Inside(s)  BY <1>1, <1>2, <2>3 DEF Inside, TypeOK
    <3>2. sem'[s] = sem[s]  BY <1>2, <2>3 DEF TypeOK
    <3> QED  BY <2>1, <3>1, <3>2
  <2> QED  BY <2>2, <2>3
<1> QED  BY <1>3, <1>4, <1>5, <1>6 DEF IInv

\* What an open and a close have in common: the thread returns, with the access
\* it has from then on, and only the two sides' numbers change besides.
LEMMA ReturnsLocked ==
    ASSUME TypeOK, IInv, NEW t \in Threads, At(t, "locked"), Return(t),
           fd' = fd \/ fd' = [fd EXCEPT ![t] = {}],
           lock_common' = 1, UNCHANGED <<full, pos, opens>>
    PROVE  /\ CallInv' /\ LockInv' /\ NothingLeft'
           /\ \A s \in Sides : Inside(s)' = Inside(s)
<1>1. CallInv'  BY DEF TypeOK, IInv, CallInv, Sides, At, Return, Goto
<1>2. LockInv'  BY DEF TypeOK, IInv, LockInv, At, Return, Goto
<1>3. NothingLeft'  BY DEF IInv, NothingLeft
<1>4. \A s \in Sides : Inside(s)' = Inside(s)  BY DEF TypeOK, Inside, Sides, At, Return, Goto
<1> QED  BY <1>1, <1>2, <1>3, <1>4

\* An open counts the thread on the sides it opens.
LEMMA OpenStep ==
    ASSUME TypeOK, IInv, NEW t \in Threads, At(t, "locked"), op[t] = "open",
           OpenLocked(t), Return(t), UNCHANGED opens
    PROVE  TypeOK' /\ IInv'
<1>1. /\ users' = [s \in Sides |-> IF s \in fd[t] THEN users[s] + 1 ELSE users[s]]
      /\ closed' = closed \ fd[t] /\ lock_common' = 1
      /\ UNCHANGED <<full, pos, sem, fd, drained>>
  BY DEF OpenLocked
<1>2. /\ CallInv' /\ LockInv' /\ NothingLeft'
      /\ \A s \in Sides : Inside(s)' = Inside(s)
  BY <1>1, ReturnsLocked
<1>3. OnlyLastClosePosts'  BY <1>1, <1>2 DEF IInv, OnlyLastClosePosts
<1>4. ASSUME NEW s \in Sides
      PROVE  /\ users'[s] = Cardinality(UsersOf(s)')
             /\ s \in closed' <=> users'[s] = 0 /\ drained'[s] > 0
  <2>1. users[s] = Cardinality(UsersOf(s)) /\ (s \in closed <=> users[s] = 0 /\ drained[s] > 0)
    BY DEF IInv, ClosedIsNoUser
  <2>2. CASE s \in fd[t]
    <3>1. UsersOf(s)' = UsersOf(s) \cup {t} /\ t \notin UsersOf(s)
      BY <1>1, <2>2 DEF UsersOf, TypeOK, At, Return, Goto
    <3>2. Cardinality(UsersOf(s)') = Cardinality(UsersOf(s)) + 1  BY <3>1, CountedChange DEF Inside, UsersOf
    <3> QED  BY <1>1, <2>1, <2>2, <3>2, Counted DEF UsersOf
  <2>3. CASE s \notin fd[t]
    <3>1. UsersOf(s)' = UsersOf(s)  BY <1>1, <2>3 DEF UsersOf, TypeOK, At, Return, Goto
    <3> QED  BY <1>1, <2>1, <2>3, <3>1
  <2> QED  BY <2>2, <2>3
<1>5. ClosedIsNoUser'  BY <1>4 DEF ClosedIsNoUser
<1>6. TypeOK'
  <2>1. ASSUME NEW s \in Sides  PROVE users'[s] \in 0..Cardinality(Threads)
    <3>1. UsersOf(s)' \subseteq Threads  BY DEF UsersOf
    <3> QED  BY <1>4, <3>1, Counted
  <2>2. users' \in [Sides -> 0..Cardinality(Threads)]  BY <1>1, <2>1
  <2> QED  BY <1>1, <2>2, NamedFifoAssumption DEF TypeOK, Return, Goto
<1> QED  BY <1>2, <1>3, <1>5, <1>6 DEF IInv

\* A close, and the flag and the post of a side's last one.
LEMMA CloseStep ==
    ASSUME TypeOK, IInv, NEW t \in Threads, At(t, "locked"), op[t] = "close",
           CloseLocked(t), Return(t), UNCHANGED opens
    PROVE  TypeOK' /\ IInv'
<1>1. /\ users' = [s \in Sides |-> IF s \in fd[t] THEN users[s] - 1 ELSE users[s]]
      /\ closed' = closed \cup LastOf(t) /\ lock_common' = 1
      /\ sem' = [s \in Sides |-> IF s \in LastOf(t) THEN sem[s] + 1 ELSE sem[s]]
      /\ drained' = [s \in Sides |-> IF s \in LastOf(t) THEN drained[s] + 1 ELSE drained[s]]
      /\ fd' = [fd EXCEPT ![t] = {}]
      /\ UNCHANGED <<full, pos>>
  BY DEF CloseLocked, LastOf, TypeOK
<1>2. /\ CallInv' /\ LockInv' /\ NothingLeft'
      /\ \A s \in Sides : Inside(s)' = Inside(s)
  BY <1>1, ReturnsLocked
<1>3. OnlyLastClosePosts'
  <2> SUFFICES ASSUME NEW s \in Sides  PROVE (sem[s] + Cardinality(Inside(s)) = drained[s])'
    BY DEF OnlyLastClosePosts
  <2>1. /\ sem[s] + Cardinality(Inside(s)) = drained[s] /\ Cardinality(Inside(s)) \in Nat
        /\ Inside(s)' = Inside(s)
    BY <1>2, Counted DEF IInv, OnlyLastClosePosts, Inside
  <2> QED  BY <1>1, <2>1 DEF TypeOK
<1>4. ASSUME NEW s \in Sides
      PROVE  /\ users'[s] = Cardinality(UsersOf(s)')
             /\ s \in closed' <=> users'[s] = 0 /\ drained'[s] > 0
  <2>1. users[s] = Cardinality(UsersOf(s)) /\ (s \in closed <=> users[s] = 0 /\ drained[s] > 0)
    BY DEF IInv, ClosedIsNoUser
  <2>2. users[s] \in Nat /\ drained[s] \in Nat  BY DEF TypeOK
  <2>3. CASE s \in fd[t]
    <3>1. UsersOf(s)' = UsersOf(s) \ {t} /\ t \in UsersOf(s)
      BY <1>1, <2>3 DEF UsersOf, TypeOK, At, Return, Goto
    <3>2. Cardinality(UsersOf(s)') = users[s] - 1  BY <2>1, <3>1, CountedChange DEF UsersOf
    <3>3. users[s] # 0  BY <2>1, <3>1, Counted DEF UsersOf
    <3>4. users'[s] = users[s] - 1  BY <1>1, <2>3
    <3>5. CASE users[s] = 1  BY <1>1, <2>2, <2>3, <3>2, <3>4, <3>5 DEF LastOf
    <3>6. CASE users[s] # 1
      BY <1>1, <2>1, <2>2, <2>3, <3>2, <3>3, <3>4, <3>6 DEF LastOf
    <3> QED  BY <3>5, <3>6
  <2>4. CASE s \notin fd[t]
    <3>1. UsersOf(s)' = UsersOf(s)  BY <1>1, <2>4 DEF UsersOf, TypeOK, At, Return, Goto
    <3> QED  BY <1>1, <2>1, <2>4, <3>1 DEF LastOf
  <2> QED  BY <2>3, <2>4
<1>5. ClosedIsNoUser'  BY <1>4 DEF ClosedIsNoUser
<1>6. TypeOK'
  <2>1. ASSUME NEW s \in Sides  PROVE users'[s] \in 0..Cardinality(Threads)
    <3>1. UsersOf(s)' \subseteq Threads  BY DEF UsersOf
    <3> QED  BY <1>4, <3>1, Counted
  <2>2. users' \in [Sides -> 0..Cardinality(Threads)]  BY <1>1, <2>1
  <2> QED  BY <1>1, <2>2, NamedFifoAssumption DEF TypeOK, Return, Goto, LastOf
<1> QED  BY <1>2, <1>3, <1>5, <1>6 DEF IInv

\* No read or write gets to what it does under the lock.
LEMMA LockedStep ==
    ASSUME TypeOK, IInv, NEW t \in Threads, Locked(t)
    PROVE  TypeOK' /\ IInv'
<1>1. op[t] \in {"open", "close"} /\ At(t, "locked") /\ Return(t) /\ UNCHANGED opens
  BY DEF Locked, At, TypeOK, IInv, CallInv
<1>2. CASE op[t] = "open"  BY <1>1, <1>2, OpenStep DEF Locked
<1>3. CASE op[t] = "close"  BY <1>1, <1>3, CloseStep DEF Locked
<1> QED  BY <1>1, <1>2, <1>3

------------------------------------------------------------------------------
(* The theorems.                                                           *)

LEMMA Initial == Init => TypeOK /\ IInv
<1> SUFFICES ASSUME Init  PROVE TypeOK /\ IInv
  OBVIOUS
<1>1. \A s \in Sides : UsersOf(s) = {} /\ Inside(s) = {}  BY DEF Init, UsersOf, Inside
<1>2. Cardinality(Threads) \in Nat  BY NamedFifoAssumption, FS_CardinalityType
<1>3. TypeOK
  <2>1. /\ users \in [Sides -> 0..Cardinality(Threads)] /\ pos \in [Sides -> 0..(Capacity - 1)]
        /\ sem \in [Sides -> Nat] /\ drained \in [Sides -> Nat]
    BY <1>2, NamedFifoAssumption DEF Init
  <2>2. /\ fd \in [Threads -> SUBSET Sides] /\ len \in [Threads -> 0..Capacity]
        /\ opens \in [Threads -> 0..MaxOpens] /\ op \in [Threads -> {"open", "close"} \cup Sides]
        /\ pc \in [Threads -> {"idle", "wait", "test", "stuck", "pend", "locked"}]
    BY NamedFifoAssumption DEF Init
  <2> QED  BY <2>1, <2>2 DEF Init, TypeOK
<1>4. Cardinality({}) = 0  BY FS_EmptySet
<1>6. ClosedIsNoUser /\ OnlyLastClosePosts
  BY <1>1, <1>4 DEF Init, ClosedIsNoUser, OnlyLastClosePosts
<1>5. CallInv /\ LockInv /\ NothingLeft
  BY DEF Init, CallInv, LockInv, NothingLeft, At, Sides
<1> QED  BY <1>3, <1>5, <1>6 DEF IInv

LEMMA Inductive == TypeOK /\ IInv /\ [Next]_vars => TypeOK' /\ IInv'
<1> SUFFICES ASSUME TypeOK, IInv, [Next]_vars  PROVE TypeOK' /\ IInv'
  OBVIOUS
<1>1. CASE Next
  BY <1>1, QuietStep, WaitStep, TestStep, LockedStep DEF Next, Step
<1>2. CASE UNCHANGED vars
  BY <1>2 DEF vars, calls, TypeOK, IInv, CallInv, LockInv, At, NothingLeft, ClosedIsNoUser,
      OnlyLastClosePosts, UsersOf, Inside
<1> QED  BY <1>1, <1>2

\* Every variable keeps its type; a side has no more users than there are threads.
THEOREM TypeCorrect == Spec => []TypeOK
BY Initial, Inductive, PTL DEF Spec

\* The counts of readers and writers are right whatever opens and closes overlap,
\* and a side's flag says that its last user has gone and nobody has come since.
THEOREM Counts == Spec => []ClosedIsNoUser
<1>1. IInv => ClosedIsNoUser  BY DEF IInv
<1> QED  BY <1>1, Initial, Inductive, PTL DEF Spec

\* The semaphore of a side, with the calls that hold it, is worth the number of
\* times its last user has closed it: nothing else gives anybody a turn, and a
\* side that was closed twice lets two calls in at once.
THEOREM Turns == Spec => []OnlyLastClosePosts
<1>1. IInv => OnlyLastClosePosts  BY DEF IInv
<1> QED  BY <1>1, Initial, Inductive, PTL DEF Spec

\* A blocking read or write returns without any bytes only if the FIFO's other
\* end has no user.
THEOREM GivesUpAtEnd == Spec => EndOfFifo
<1>1. TypeOK /\ IInv =>
        \A t \in Threads \ NonBlocking : GiveUp(t) => users[Other(op[t])] = 0
  BY DEF TypeOK, IInv, CallInv, ClosedIsNoUser, GiveUp, At, Other, Sides
<1>2. TypeOK /\ IInv =>
        [\A t \in Threads \ NonBlocking : GiveUp(t) => users[Other(op[t])] = 0]_vars
  BY <1>1
<1> QED  BY <1>2, Initial, Inductive, PTL DEF Spec, EndOfFifo

\* No call ever copies a byte: the offsets stay equal and the buffer is never
\* marked full, for a write takes that for "no space" as a read does for "no data".
THEOREM NothingMoves == Spec => []NothingLeft
<1>1. IInv => NothingLeft  BY DEF IInv
<1> QED  BY <1>1, Initial, Inductive, PTL DEF Spec
==============================================================================
