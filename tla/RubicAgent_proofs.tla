--------------------------- MODULE RubicAgent_proofs ---------------------------
(***************************************************************************)
(* Proofs about RubicAgent, for any number of workers, requests and        *)
(* configurations, when one caller at a time is in queue and the host is   *)
(* patient.                                                                *)
(***************************************************************************)
EXTENDS RubicAgent, SequenceTheorems, TLAPS

\* One RPC worker thread runs queue, and the host makes "start" only when nothing
\* is unanswered.
OneAtATime == Patient /\ \A c, d \in Callers : c = d

Unanswered(j) == j \in 1..made /\ answers[j] = << >>

\* The requests, and the answers that they have got.
Replies == {"error", "tid 0", "null", "result"}
AnswersOK == answers \in [Jobs -> Seq(Replies)]
JobsInv ==
    /\ setup \in Setups
    /\ made <= MaxJobs
    /\ request \in [Jobs -> Requests]
    /\ AnswersOK
    /\ \A j \in Jobs : j > made => answers[j] = << >>

\* A job in a worker waits for its answer, in one place only.
Waits(a, j) == context[a] = j \/ callback_context[a] = j
PlacesInv ==
    /\ \A a \in Agents, j \in Jobs : Waits(a, j) => Unanswered(j)
    /\ \A a, b \in Agents : context[a] # NULL /\ context[a] = context[b] => a = b
    /\ \A a, b \in Agents :
          callback_context[a] # NULL /\ callback_context[a] = callback_context[b] => a = b
    /\ \A a, b \in Agents : context[a] # NULL => context[a] # callback_context[b]

\* The caller has a job that waits nowhere else until it is put into a worker; a
\* "start" for any worker is then the only job that waits.
Queuing(c) == qpc[c] \in {"lock", "test", "set", "busy"}
TidInv == \A c \in Callers : qpc[c] # "idle" => tid[c] \in Agents
QueuingInv ==
    \A c \in Callers : Queuing(c) =>
        /\ Unanswered(queuing[c])
        /\ \A a \in Agents : ~ Waits(a, queuing[c])
AloneInv ==
    \A c \in Callers : Queuing(c) => Directed(c) \/ \A a \in Agents : context[a] = NULL
SetInv ==
    \A c \in Callers : qpc[c] = "set" =>
        /\ context[tid[c]] = NULL
        /\ Directed(c) \/ state[tid[c]] = "IDLE"

\* A worker's state at each place of its loop.
AgentInv ==
    \A a \in Agents :
        /\ state[a] = "IDLE" => apc[a] \in {"lock", "top", "unlock", "wait", "take"}
        /\ state[a] = "AUTOBOOT" =>
              setup.autoboot /\ apc[a] \in {"lock", "top"} /\ job[a] = NULL /\ ~ initialized[a]
        /\ apc[a] \in {"lock", "unlock", "wait", "take", "error"} => ~ initialized[a]
        /\ apc[a] = "run" /\ state[a] = "STARTING" => ~ initialized[a]

\* The job that a program was started for is still in context.
StartInv ==
    \A a \in Agents : apc[a] = "error" \/ (apc[a] = "run" /\ state[a] = "STARTING") =>
        /\ job[a] # NULL => context[a] = job[a]
        /\ setup.autoboot \/ job[a] # NULL

\* A worker is woken once for a job at most.
SemInv ==
    \A a \in Agents :
        /\ sem[a] <= made
        /\ \A c \in Callers : Queuing(c) \/ qpc[c] \in {"unlock", "post"} => sem[a] < made

IInv ==
    /\ JobsInv /\ PlacesInv /\ TidInv /\ QueuingInv /\ AloneInv /\ SetInv
    /\ AgentInv /\ StartInv /\ SemInv /\ AnsweredOnce /\ Kept
------------------------------------------------------------------------------
(* What the actions do, one worker, one caller and one job at a time.      *)

\* The sets of workers and jobs, and what a configuration holds.
LEMMA Numbers ==
    /\ WORKER_THREADS \in Nat \ {0} /\ MaxJobs \in Nat
    /\ 0 \in Agents /\ Agents \subseteq Nat
    /\ NULL \notin Jobs /\ NONE \notin Agents
    /\ Jobs \subseteq Nat /\ \A j \in Nat \ {0} : j <= MaxJobs <=> j \in Jobs
BY AgentAssumption DEF Agents, Jobs, NULL, NONE

\* A configuration is one of those that AgentAssumption allows.
LEMMA SetupsAreSound ==
    ASSUME NEW s \in Setups
    PROVE  s.agents \subseteq Agents /\ s.jobs \in 0..MaxJobs /\ s.requests \subseteq Requests
BY AgentAssumption

\* Worker a gets a new state, pc and locals, and the others keep theirs.
Works(a, s, pc, j, i) ==
    /\ state'[a] = s /\ apc'[a] = pc /\ job'[a] = j /\ initialized'[a] = i
    /\ \A b \in Agents \ {a} : /\ state'[b] = state[b] /\ apc'[b] = apc[b] /\ job'[b] = job[b]
                               /\ initialized'[b] = initialized[b]
Goes(a, pc) == Works(a, state[a], pc, job[a], initialized[a])

\* Two jobs wait in worker a, and what waits in the others stays.
Holds(a, x, y) ==
    /\ context'[a] = x /\ callback_context'[a] = y
    /\ \A b \in Agents \ {a} :
          context'[b] = context[b] /\ callback_context'[b] = callback_context[b]

\* Caller c gets a new pc and new locals.
Calls(c, pc, t, j) ==
    /\ qpc'[c] = pc /\ tid'[c] = t /\ queuing'[c] = j
    /\ \A d \in Callers \ {c} : qpc'[d] = qpc[d] /\ tid'[d] = tid[d] /\ queuing'[d] = queuing[d]

\* Job j, if there is one, gets its answer.
Answered(j) ==
    /\ AnswersOK'
    /\ j # NULL => answers[j] = << >> /\ answers'[j] # << >> /\ Len(answers'[j]) <= 1
    /\ \A k \in Jobs \ {j} : answers'[k] = answers[k]

\* A sequence of one element.
LEMMA OneElement ==
    ASSUME NEW S, NEW x \in S
    PROVE  Append(<< >>, x) \in Seq(S) /\ Append(<< >>, x) # << >> /\ Len(Append(<< >>, x)) <= 1
<1>1. << >> \in Seq(S) /\ Len(<< >>) = 0
  OBVIOUS
<1>2. Append(<< >>, x) \in Seq(S) /\ Len(Append(<< >>, x)) = 1 /\ Append(<< >>, x) # << >>
  BY <1>1, AppendProperties
<1> QED BY <1>2

\* The first answer to a job is the only one.
LEMMA FirstAnswer ==
    ASSUME AnswersOK, NEW j \in Jobs \cup {NULL}, j # NULL => answers[j] = << >>,
           NEW what \in Replies,
           IF j = NULL THEN UNCHANGED answers ELSE Answer(j, what)
    PROVE  Answered(j)
<1>1. CASE j = NULL
  BY <1>1, Numbers DEF Answered, AnswersOK
<1>2. CASE j # NULL
  <2>1. Append(<< >>, what) \in Seq(Replies) /\ Append(<< >>, what) # << >>
        /\ Len(Append(<< >>, what)) <= 1
    BY OneElement
  <2>2. answers'[j] = Append(<< >>, what) /\ \A k \in Jobs \ {j} : answers'[k] = answers[k]
    BY <1>2 DEF Answer, AnswersOK
  <2>3. answers' \in [Jobs -> Seq(Replies)]
    BY <1>2, <2>1 DEF Answer, AnswersOK
  <2> QED BY <1>2, <2>1, <2>2, <2>3 DEF Answered, AnswersOK
<1> QED BY <1>1, <1>2

\* A new job waits nowhere yet; a caller whose request names no worker and is no
\* "start" answers it at once, and does not look for a worker.
LEMMA QueueStep ==
    ASSUME OneAtATime, TypeOK, IInv, NEW c \in Callers, NEW r \in setup.requests, Queue(c, r)
    PROVE  TypeOK' /\ IInv'
<1> USE Numbers
<1>s. /\ setup.agents \subseteq Agents /\ setup.jobs \in 0..MaxJobs /\ r \in Requests
      /\ made \in Nat /\ made < setup.jobs
  BY SetupsAreSound DEF IInv, JobsInv, TypeOK, Queue
<1>j. made + 1 \in Jobs /\ made + 1 # NULL /\ answers[made + 1] = << >>
  BY <1>s DEF IInv, JobsInv
<1>t. PICK t \in Agents : t = IF r.tid = NONE THEN 0 ELSE r.tid
  BY <1>s DEF Requests
<1>p. PICK pc \in {"lock", "return"} :
        /\ qpc' = [qpc EXCEPT ![c] = pc]
        /\ pc = "lock" => UNCHANGED answers /\ (r.tid = NONE => r.name = "start")
        /\ pc = "return" => Answer(made + 1, "error")
  BY DEF Queue, QGoto
<1>a. pc = "return" => Answered(made + 1)
  BY <1>j, <1>p, FirstAnswer DEF Replies, IInv, JobsInv
<1>e. /\ qpc[c] = "idle" /\ Calls(c, pc, t, made + 1)
      /\ made' = made + 1
      /\ request'[made + 1] = r /\ \A j \in Jobs \ {made + 1} : request'[j] = request[j]
      /\ request' \in [Jobs -> Requests]
      /\ pc = "lock" => /\ UNCHANGED answers
                        /\ r.tid = NONE => \A j \in 1..made : answers[j] # << >>
      /\ pc = "return" => Answered(made + 1)
      /\ UNCHANGED <<setup, shared, agentVars, queued>>
  <2>1. qpc[c] = "idle" /\ made' = made + 1 /\ UNCHANGED <<setup, shared, agentVars, queued>>
    BY DEF Queue
  <2>2. Calls(c, pc, t, made + 1)
    BY <1>t, <1>p DEF Queue, Calls, TypeOK
  <2>3. request' = [request EXCEPT ![made + 1] = r] /\ request \in [Jobs -> Requests]
    BY DEF Queue, IInv, JobsInv
  <2>4. Patient /\ r.name = "start" => \A j \in 1..made : answers[j] # << >>
    BY DEF Queue
  <2>5. Patient
    BY DEF OneAtATime
  <2>6. /\ request'[made + 1] = r /\ \A j \in Jobs \ {made + 1} : request'[j] = request[j]
        /\ request' \in [Jobs -> Requests]
    BY <1>s, <1>j, <2>3
  <2> QED BY <1>a, <1>p, <2>1, <2>2, <2>4, <2>5, <2>6
<1>0. TypeOK'
  <2>1. made' \in 0..MaxJobs
    BY <1>s, <1>e
  <2>2. qpc' \in [Callers -> {"idle", "lock", "test", "set", "unlock", "post", "busy", "return"}]
    BY <1>p DEF TypeOK
  <2>3. tid' \in [Callers -> Agents \cup {NONE}] /\ queuing' \in [Callers -> Jobs \cup {NULL}]
    BY <1>j, <1>t DEF TypeOK
  <2> QED BY <1>e, <2>1, <2>2, <2>3 DEF TypeOK, shared, agentVars
<1>1. JobsInv'
  <2>1. setup' \in Setups /\ made' <= MaxJobs /\ request' \in [Jobs -> Requests]
    BY <1>s, <1>e DEF IInv, JobsInv
  <2>2. AnswersOK'
    BY <1>e, <1>p DEF IInv, JobsInv, AnswersOK, Answered
  <2>3. ASSUME NEW j \in Jobs, j > made' PROVE answers'[j] = << >>
    <3>1. made' = made + 1 /\ made \in Nat /\ j \in Nat
      BY <1>s, <1>e
    <3>2. answers[j] = << >> /\ j # made + 1
      BY <2>3, <3>1 DEF IInv, JobsInv
    <3> QED BY <1>e, <1>p, <3>2 DEF Answered
  <2> QED BY <2>1, <2>2, <2>3 DEF JobsInv
<1>2. PlacesInv'
  BY <1>e DEF TypeOK, IInv, PlacesInv, Waits, Unanswered, Answered, shared
<1>3. TidInv'
  BY <1>e DEF IInv, TidInv, Calls
<1>4. QueuingInv'
  <2> SUFFICES ASSUME NEW d \in Callers, Queuing(d)'
               PROVE  Unanswered(queuing[d])' /\ \A a \in Agents : ~ Waits(a, queuing[d])'
    BY DEF QueuingInv
  <2>1. d = c
    BY DEF OneAtATime
  <2>2. pc = "lock" /\ queuing'[d] = made + 1
    BY <1>e, <1>p, <2>1 DEF Calls, Queuing
  <2>3. Unanswered(queuing[d])'
    BY <1>s, <1>j, <1>e, <2>2 DEF Unanswered
  <2>4. ASSUME NEW a \in Agents PROVE ~ Waits(a, made + 1)
    <3>1. ~ Unanswered(made + 1)
      BY <1>s DEF Unanswered
    <3> QED BY <1>j, <3>1 DEF IInv, PlacesInv
  <2> QED BY <1>e, <2>2, <2>3, <2>4 DEF Waits, shared
<1>5. AloneInv'
  <2> SUFFICES ASSUME NEW d \in Callers, Queuing(d)', ~ Directed(d)', NEW a \in Agents
               PROVE  context'[a] = NULL
    BY DEF AloneInv
  <2>1. d = c
    BY DEF OneAtATime
  <2>2. pc = "lock" /\ queuing'[d] = made + 1
    BY <1>e, <1>p, <2>1 DEF Calls, Queuing
  <2>3. r.tid = NONE
    BY <1>e, <2>2 DEF Directed
  <2>4. \A j \in Jobs : ~ Unanswered(j)
    BY <1>e, <2>2, <2>3 DEF Unanswered
  <2>5. context[a] = NULL
    BY <2>4 DEF IInv, PlacesInv, Waits, TypeOK
  <2> QED BY <1>e, <2>5 DEF shared
<1>6. SetInv'
  BY <1>e DEF IInv, SetInv, OneAtATime, Calls
<1>7. AgentInv'
  BY <1>e DEF TypeOK, IInv, AgentInv, shared, agentVars
<1>8. StartInv'
  BY <1>e DEF IInv, StartInv, shared, agentVars
<1>9. SemInv'
  BY <1>e DEF TypeOK, IInv, SemInv, shared
<1>10. AnsweredOnce'
  BY <1>e DEF TypeOK, IInv, AnsweredOnce, Answered
<1>11. Kept'
  <2> SUFFICES ASSUME ~ setup'.autoboot, NEW j \in queued'
               PROVE  \/ answers'[j] # << >>
                      \/ \E a \in Agents : context'[a] = j \/ callback_context'[a] = j
    BY DEF Kept
  <2>1. /\ j \in queued /\ setup' = setup
        /\ context' = context /\ callback_context' = callback_context
    BY <1>e DEF shared
  <2>2. answers[j] # << >> \/ \E a \in Agents : context[a] = j \/ callback_context[a] = j
    BY <2>1 DEF IInv, Kept
  <2>3. answers[j] # << >> => answers'[j] = answers[j]
    BY <1>j, <1>e, <2>1 DEF TypeOK, Answered
  <2> QED BY <2>1, <2>2, <2>3
<1> QED BY <1>0, <1>1, <1>2, <1>3, <1>4, <1>5, <1>6, <1>7, <1>8, <1>9, <1>10, <1>11 DEF IInv

\* The caller gets the mutex: only the mutex and its place change.
LEMMA QLockStep ==
    ASSUME OneAtATime, TypeOK, IInv, NEW c \in Callers, QLock(c)
    PROVE  TypeOK' /\ IInv'
<1> USE Numbers
<1>e. /\ qpc[c] = "lock" /\ Calls(c, "test", tid[c], queuing[c])
      /\ UNCHANGED <<setup, state, sem, context, callback_context, agentVars, request, made,
                     history>>
  BY Numbers DEF QLock, IInv, TypeOK, Calls, QGoto
<1>0. TypeOK'
  BY <1>e DEF QLock, TypeOK, Unlock, ReplyError, Goto, QGoto, shared, agentVars, callerVars,
       history
<1>1. JobsInv'
  BY <1>e DEF IInv, JobsInv, AnswersOK, history
<1>2. PlacesInv'
  BY <1>e DEF IInv, PlacesInv, Waits, Unanswered, history
<1>3. TidInv'
  BY <1>e DEF IInv, TidInv, Calls
<1>4. QueuingInv'
  BY <1>e DEF TypeOK, IInv, QueuingInv, Queuing, Waits, Unanswered, Calls, history
<1>5. AloneInv'
  BY <1>e DEF IInv, AloneInv, Queuing, Directed, Calls
<1>6. SetInv'
  BY <1>e DEF IInv, SetInv, OneAtATime, Calls
<1>7. AgentInv'
  BY <1>e DEF IInv, AgentInv, agentVars
<1>8. StartInv'
  BY <1>e DEF TypeOK, IInv, StartInv, agentVars
<1>9. SemInv'
  BY <1>e DEF IInv, SemInv, Queuing
<1>10. AnsweredOnce'
  BY <1>e DEF TypeOK, IInv, AnsweredOnce, history
<1>11. Kept'
  BY <1>e DEF IInv, Kept, history
<1> QED BY <1>0, <1>1, <1>2, <1>3, <1>4, <1>5, <1>6, <1>7, <1>8, <1>9, <1>10, <1>11 DEF IInv

\* The worker's context is empty, or the worker is idle: then it has no job, since
\* a "start" for any worker is the only job that waits.
LEMMA QTestStep ==
    ASSUME OneAtATime, TypeOK, IInv, NEW c \in Callers, QTest(c)
    PROVE  TypeOK' /\ IInv'
<1> USE Numbers
<1>e. /\ qpc[c] = "test"
      /\ \E pc \in {"set", "busy"} :
           /\ Calls(c, pc, tid[c], queuing[c])
           /\ pc = "set" => IF Directed(c) THEN context[tid[c]] = NULL ELSE state[tid[c]] = "IDLE"
      /\ UNCHANGED <<setup, shared, agentVars, request, made, history>>
  BY Numbers DEF QTest, IInv, TypeOK, Calls, QGoto
<1>0. TypeOK'
  BY <1>e DEF QTest, TypeOK, QGoto, shared, agentVars, history
<1>1. JobsInv'
  BY <1>e DEF IInv, JobsInv, AnswersOK, history
<1>2. PlacesInv'
  BY <1>e DEF IInv, PlacesInv, Waits, Unanswered, shared, history
<1>3. TidInv'
  BY <1>e DEF IInv, TidInv, Calls
<1>4. QueuingInv'
  BY <1>e DEF IInv, QueuingInv, Queuing, Waits, Unanswered, Calls, shared, history
<1>5. AloneInv'
  BY <1>e DEF IInv, AloneInv, Queuing, Directed, Calls, shared
<1>6. SetInv'
  <2> SUFFICES ASSUME NEW d \in Callers, qpc'[d] = "set"
               PROVE  context'[tid'[d]] = NULL /\ (Directed(d)' \/ state'[tid'[d]] = "IDLE")
    BY DEF SetInv
  <2>1. d = c
    BY DEF OneAtATime
  <2>2. Directed(c)' <=> Directed(c)
    BY <1>e DEF Directed, Calls
  <2>3. CASE Directed(c)
    BY <1>e, <2>1, <2>2, <2>3 DEF Calls, shared
  <2>4. CASE ~ Directed(c)
    <3>1. tid[c] \in Agents /\ context[tid[c]] = NULL
      BY <1>e, <2>4 DEF IInv, TidInv, AloneInv, Queuing
    <3> QED BY <1>e, <2>1, <2>4, <3>1 DEF Calls, shared
  <2> QED BY <2>3, <2>4
<1>7. AgentInv'
  BY <1>e DEF IInv, AgentInv, shared, agentVars
<1>8. StartInv'
  BY <1>e DEF IInv, StartInv, shared, agentVars
<1>9. SemInv'
  BY <1>e DEF IInv, SemInv, Queuing, shared
<1>10. AnsweredOnce'
  BY <1>e DEF TypeOK, IInv, AnsweredOnce, history
<1>11. Kept'
  BY <1>e DEF IInv, Kept, shared, history
<1> QED BY <1>0, <1>1, <1>2, <1>3, <1>4, <1>5, <1>6, <1>7, <1>8, <1>9, <1>10, <1>11 DEF IInv

\* The job goes from the caller into the context, where it waits alone.
LEMMA QSetStep ==
    ASSUME OneAtATime, TypeOK, IInv, NEW c \in Callers, QSet(c)
    PROVE  TypeOK' /\ IInv'
<1> USE Numbers
<1>e. /\ qpc[c] = "set" /\ Calls(c, "unlock", tid[c], queuing[c])
      /\ tid[c] \in Agents /\ queuing[c] \in Jobs
      /\ Holds(tid[c], queuing[c], callback_context[tid[c]])
      /\ \/ Directed(c) /\ UNCHANGED state
         \/ /\ ~ Directed(c) /\ state'[tid[c]] = "STARTING"
            /\ \A a \in Agents \ {tid[c]} : state'[a] = state[a]
      /\ queued' = queued \cup {queuing[c]}
      /\ UNCHANGED <<setup, sem, agentVars, request, made, answers, ranOn>>
  BY Numbers DEF QSet, IInv, TypeOK, TidInv, QueuingInv, Unanswered, Queuing, Holds, Calls, QGoto
<1>0. TypeOK'
  BY <1>e DEF QSet, TypeOK, Unlock, ReplyError, Goto, QGoto, shared, agentVars, callerVars,
       history
<1>1. JobsInv'
  BY <1>e DEF IInv, JobsInv, AnswersOK
<1>2. PlacesInv'
  <2> USE <1>e DEF IInv, TypeOK, PlacesInv
  <2>0. Unanswered(queuing[c]) /\ \A b \in Agents : ~ Waits(b, queuing[c])
    BY DEF QueuingInv, Queuing
  <2>1. ASSUME NEW b \in Agents, NEW j \in Jobs, Waits(b, j)' PROVE Unanswered(j)'
    <3>1. Waits(b, j) \/ j = queuing[c]
      BY <2>1 DEF Waits, Holds
    <3>2. Unanswered(j)
      BY <2>0, <3>1
    <3> QED BY <3>2 DEF Unanswered
  <2>2. ASSUME NEW b \in Agents, NEW d \in Agents, context'[b] # NULL, context'[b] = context'[d]
        PROVE  b = d
    BY <2>0, <2>2 DEF Waits, Holds
  <2>3. ASSUME NEW b \in Agents, NEW d \in Agents,
               callback_context'[b] # NULL, callback_context'[b] = callback_context'[d]
        PROVE  b = d
    BY <2>3 DEF Holds
  <2>4. ASSUME NEW b \in Agents, NEW d \in Agents, context'[b] # NULL
        PROVE  context'[b] # callback_context'[d]
    BY <2>0, <2>4 DEF Waits, Holds
  <2> QED BY <2>1, <2>2, <2>3, <2>4
<1>3. TidInv'
  BY <1>e DEF IInv, TidInv, Calls
<1>4. QueuingInv'
  BY <1>e DEF IInv, QueuingInv, Queuing, OneAtATime, Calls
<1>5. AloneInv'
  BY <1>e DEF IInv, AloneInv, Queuing, OneAtATime, Calls
<1>6. SetInv'
  BY <1>e DEF IInv, SetInv, OneAtATime, Calls
<1>7. AgentInv'
  BY <1>e DEF IInv, AgentInv, SetInv, agentVars
<1>8. StartInv'
  BY <1>e DEF IInv, StartInv, AgentInv, SetInv, Holds, agentVars
<1>9. SemInv'
  BY <1>e DEF TypeOK, IInv, SemInv, Queuing
<1>10. AnsweredOnce'
  BY <1>e DEF IInv, AnsweredOnce
<1>11. Kept'
  <2> SUFFICES ASSUME ~ setup.autoboot, NEW j \in queued', answers[j] = << >>
               PROVE  \E b \in Agents : context'[b] = j \/ callback_context'[b] = j
    BY <1>e DEF Kept
  <2>1. CASE j = queuing[c]
    BY <1>e, <2>1 DEF Holds
  <2>2. CASE j # queuing[c]
    <3>1. j \in queued /\ j \in Jobs
      BY <1>e, <2>2 DEF TypeOK
    <3>2. PICK b \in Agents : context[b] = j \/ callback_context[b] = j
      BY <3>1 DEF IInv, Kept
    <3>3. context[tid[c]] = NULL
      BY <1>e DEF IInv, SetInv
    <3>4. context'[b] = j \/ callback_context'[b] = j
      BY <1>e, <3>1, <3>2, <3>3 DEF Holds
    <3> QED BY <3>4
  <2> QED BY <2>1, <2>2
<1> QED BY <1>0, <1>1, <1>2, <1>3, <1>4, <1>5, <1>6, <1>7, <1>8, <1>9, <1>10, <1>11 DEF IInv

\* The caller lets the mutex go: only the mutex and its place change.
LEMMA QUnlockStep ==
    ASSUME OneAtATime, TypeOK, IInv, NEW c \in Callers, QUnlock(c)
    PROVE  TypeOK' /\ IInv'
<1> USE Numbers
<1>e. /\ qpc[c] = "unlock" /\ Calls(c, "post", tid[c], queuing[c])
      /\ UNCHANGED <<setup, state, sem, context, callback_context, agentVars, request, made,
                     history>>
  BY Numbers DEF QUnlock, IInv, TypeOK, Calls, QGoto
<1>0. TypeOK'
  BY <1>e DEF QUnlock, TypeOK, Unlock, QGoto, agentVars, history
<1>1. JobsInv'
  BY <1>e DEF IInv, JobsInv, AnswersOK, agentVars, history
<1>2. PlacesInv'
  BY <1>e DEF IInv, PlacesInv, Waits, Unanswered, history
<1>3. TidInv'
  BY <1>e DEF IInv, TidInv, Calls
<1>4. QueuingInv'
  BY <1>e DEF IInv, QueuingInv, Queuing, OneAtATime, Calls
<1>5. AloneInv'
  BY <1>e DEF IInv, AloneInv, Queuing, OneAtATime, Calls
<1>6. SetInv'
  BY <1>e DEF IInv, SetInv, OneAtATime, Calls
<1>7. AgentInv'
  BY <1>e DEF IInv, AgentInv, agentVars
<1>8. StartInv'
  BY <1>e DEF TypeOK, IInv, StartInv, agentVars
<1>9. SemInv'
  BY <1>e DEF IInv, SemInv, agentVars, history
<1>10. AnsweredOnce'
  BY <1>e DEF IInv, AnsweredOnce, history
<1>11. Kept'
  BY <1>e DEF IInv, Kept, history
<1> QED BY <1>0, <1>1, <1>2, <1>3, <1>4, <1>5, <1>6, <1>7, <1>8, <1>9, <1>10, <1>11 DEF IInv

\* The worker is woken for the job: there are fewer wakes than jobs.
LEMMA QPostStep ==
    ASSUME OneAtATime, TypeOK, IInv, NEW c \in Callers, QPost(c)
    PROVE  TypeOK' /\ IInv'
<1> USE Numbers
<1>e. /\ qpc[c] = "post" /\ Calls(c, "return", tid[c], queuing[c])
      /\ tid[c] \in Agents
      /\ sem'[tid[c]] = sem[tid[c]] + 1 /\ \A a \in Agents \ {tid[c]} : sem'[a] = sem[a]
      /\ UNCHANGED <<setup, state, context, callback_context, agentVars, request, made, history>>
  BY Numbers DEF QPost, IInv, TypeOK, TidInv, Calls, QGoto
<1>0. TypeOK'
  <2>1. sem[tid[c]] \in Nat /\ sem[tid[c]] < made /\ made \in 0..MaxJobs
    <3>1. sem[tid[c]] \in 0..MaxJobs /\ made \in 0..MaxJobs
      <4>1. tid[c] \in Agents
        BY <1>e
      <4> QED BY <4>1 DEF TypeOK
    <3>2. sem[tid[c]] < made
      BY <1>e DEF IInv, SemInv
    <3> QED BY <3>1, <3>2
  <2>2. sem[tid[c]] + 1 \in 0..MaxJobs
    BY <2>1
  <2>3. sem' \in [Agents -> 0..MaxJobs]
    BY <2>2 DEF QPost, TypeOK
  <2> QED BY <1>e, <2>3 DEF QPost, TypeOK, QGoto, agentVars, history
<1>1. JobsInv'
  BY <1>e DEF IInv, JobsInv, AnswersOK, agentVars, history
<1>2. PlacesInv'
  BY <1>e DEF IInv, PlacesInv, Waits, Unanswered, history
<1>3. TidInv'
  BY <1>e DEF IInv, TidInv, Calls
<1>4. QueuingInv'
  BY <1>e DEF IInv, QueuingInv, Queuing, OneAtATime, Calls
<1>5. AloneInv'
  BY <1>e DEF IInv, AloneInv, Queuing, OneAtATime, Calls
<1>6. SetInv'
  BY <1>e DEF IInv, SetInv, OneAtATime, Calls
<1>7. AgentInv'
  BY <1>e DEF IInv, AgentInv, agentVars
<1>8. StartInv'
  BY <1>e DEF IInv, StartInv, agentVars
<1>9. SemInv'
  BY <1>e DEF TypeOK, IInv, SemInv, Queuing, OneAtATime, Calls
<1>10. AnsweredOnce'
  BY <1>e DEF IInv, AnsweredOnce, history
<1>11. Kept'
  BY <1>e DEF IInv, Kept, history
<1> QED BY <1>0, <1>1, <1>2, <1>3, <1>4, <1>5, <1>6, <1>7, <1>8, <1>9, <1>10, <1>11 DEF IInv

\* The next worker is tried, or the job gets its only answer from the caller.
LEMMA QBusyStep ==
    ASSUME OneAtATime, TypeOK, IInv, NEW c \in Callers, QBusy(c)
    PROVE  TypeOK' /\ IInv'
<1> USE Numbers
<1>a. /\ queuing[c] \in Jobs /\ queuing[c] \in 1..made /\ answers[queuing[c]] = << >>
      /\ tid[c] \in Agents
  BY DEF TypeOK, IInv, JobsInv, QueuingInv, Queuing, TidInv, Unanswered, QBusy
<1>b. \/ /\ ~ Directed(c) /\ tid[c] + 1 \in Agents /\ UNCHANGED answers
         /\ qpc' = [qpc EXCEPT ![c] = "lock"] /\ tid' = [tid EXCEPT ![c] = tid[c] + 1]
      \/ Answered(queuing[c]) /\ qpc' = [qpc EXCEPT ![c] = "return"] /\ UNCHANGED tid
  <2>1. CASE ~ Directed(c) /\ tid[c] + 1 \in setup.agents
    BY <2>1, SetupsAreSound DEF QBusy, QGoto, IInv, JobsInv
  <2>2. CASE ~ (~ Directed(c) /\ tid[c] + 1 \in setup.agents)
    <3>1. Answer(queuing[c], "error") /\ qpc' = [qpc EXCEPT ![c] = "return"] /\ UNCHANGED tid
      BY <2>2 DEF QBusy, QGoto
    <3> QED BY <1>a, <3>1, FirstAnswer DEF Replies, IInv, JobsInv
  <2> QED BY <2>1, <2>2
<1>e. /\ qpc[c] = "busy" /\ queuing[c] \in Jobs
      /\ \/ /\ ~ Directed(c) /\ tid[c] + 1 \in Agents
            /\ Calls(c, "lock", tid[c] + 1, queuing[c]) /\ UNCHANGED answers
         \/ Calls(c, "return", tid[c], queuing[c]) /\ Answered(queuing[c])
      /\ UNCHANGED <<setup, state, sem, context, callback_context, agentVars, request, made,
                     queued, ranOn>>
  BY <1>a, <1>b DEF QBusy, IInv, TypeOK, Calls
<1>0. TypeOK'
  <2>1. mutex' \in [Agents -> {"free", "worker"} \cup Callers]
    BY DEF QBusy, Unlock, TypeOK
  <2>2. qpc' \in [Callers -> {"idle", "lock", "test", "set", "unlock", "post", "busy", "return"}]
        /\ tid' \in [Callers -> Agents \cup {NONE}]
    BY <1>b DEF TypeOK
  <2> QED BY <2>1, <2>2, <1>e DEF QBusy, TypeOK, agentVars
<1>1. JobsInv'
  <2>1. setup' \in Setups /\ made' <= MaxJobs /\ request' \in [Jobs -> Requests]
    BY <1>e DEF IInv, JobsInv
  <2>2. AnswersOK'
    BY <1>e DEF IInv, JobsInv, AnswersOK, Answered
  <2>3. ASSUME NEW j \in Jobs, j > made' PROVE answers'[j] = << >>
    <3>1. made' = made /\ made \in Nat /\ j \in Nat
      BY <1>e DEF TypeOK
    <3>2. answers[j] = << >>
      BY <2>3, <3>1 DEF IInv, JobsInv
    <3>3. j = queuing[c] => answers'[j] = answers[j]
      BY <1>a, <2>3, <3>1
    <3>4. j # queuing[c] => answers'[j] = answers[j]
      BY <1>e DEF Answered
    <3> QED BY <3>2, <3>3, <3>4
  <2> QED BY <2>1, <2>2, <2>3 DEF JobsInv
<1>2. PlacesInv'
  BY <1>e DEF TypeOK, IInv, PlacesInv, Waits, Unanswered, JobsInv, QueuingInv, Queuing,
       OneAtATime, Calls, Answered, agentVars
<1>3. TidInv'
  BY <1>e DEF IInv, TidInv, Calls
<1>4. QueuingInv'
  BY <1>e DEF IInv, QueuingInv, Queuing, Waits, Unanswered, OneAtATime, Calls, agentVars
<1>5. AloneInv'
  BY <1>e DEF TypeOK, IInv, AloneInv, Queuing, Directed, QueuingInv, Unanswered, OneAtATime,
       Calls, Answered, agentVars
<1>6. SetInv'
  BY <1>e DEF IInv, SetInv, OneAtATime, Calls
<1>7. AgentInv'
  BY <1>e DEF TypeOK, IInv, AgentInv, agentVars
<1>8. StartInv'
  BY <1>e DEF IInv, StartInv, agentVars
<1>9. SemInv'
  BY <1>e DEF TypeOK, IInv, SemInv, Queuing
<1>10. AnsweredOnce'
  BY <1>e DEF IInv, AnsweredOnce, Answered
<1>11. Kept'
  <2> SUFFICES ASSUME ~ setup.autoboot, NEW j \in queued, answers'[j] = << >>
               PROVE  \E b \in Agents : context'[b] = j \/ callback_context'[b] = j
    BY <1>e DEF Kept
  <2>1. answers[j] = << >>
    BY <1>a, <1>b DEF Answered, TypeOK
  <2>2. PICK b \in Agents : context[b] = j \/ callback_context[b] = j
    BY <2>1 DEF IInv, Kept
  <2> QED BY <1>e, <2>2
<1> QED BY <1>0, <1>1, <1>2, <1>3, <1>4, <1>5, <1>6, <1>7, <1>8, <1>9, <1>10, <1>11 DEF IInv

\* The caller leaves; its job waits in a worker or has its answer.
LEMMA QReturnStep ==
    ASSUME OneAtATime, TypeOK, IInv, NEW c \in Callers, QReturn(c)
    PROVE  TypeOK' /\ IInv'
<1> USE Numbers
<1>e. /\ qpc[c] = "return" /\ Calls(c, "idle", NONE, NULL)
      /\ UNCHANGED <<setup, shared, agentVars, request, made, history>>
  BY Numbers DEF QReturn, IInv, TypeOK, Calls, QGoto
<1>0. TypeOK'
  BY <1>e DEF QReturn, TypeOK, QGoto, shared, agentVars, history
<1>1. JobsInv'
  BY <1>e DEF IInv, JobsInv, AnswersOK, history
<1>2. PlacesInv'
  BY <1>e DEF IInv, PlacesInv, Waits, Unanswered, shared, history
<1>3. TidInv'
  BY <1>e DEF IInv, TidInv, Calls
<1>4. QueuingInv'
  BY <1>e DEF IInv, QueuingInv, Queuing, OneAtATime, Calls
<1>5. AloneInv'
  BY <1>e DEF IInv, AloneInv, Queuing, OneAtATime, Calls
<1>6. SetInv'
  BY <1>e DEF IInv, SetInv, OneAtATime, Calls
<1>7. AgentInv'
  BY <1>e DEF IInv, AgentInv, shared, agentVars
<1>8. StartInv'
  BY <1>e DEF IInv, StartInv, shared, agentVars
<1>9. SemInv'
  BY <1>e DEF IInv, SemInv, Queuing, Calls, shared, history
<1>10. AnsweredOnce'
  BY <1>e DEF IInv, AnsweredOnce, history
<1>11. Kept'
  BY <1>e DEF IInv, Kept, shared, history
<1> QED BY <1>0, <1>1, <1>2, <1>3, <1>4, <1>5, <1>6, <1>7, <1>8, <1>9, <1>10, <1>11 DEF IInv

\* The worker gets the mutex: only the mutex and its place change.
LEMMA LockStep ==
    ASSUME OneAtATime, TypeOK, IInv, NEW a \in Agents, Lock(a)
    PROVE  TypeOK' /\ IInv'
<1> USE Numbers
<1>e. /\ apc[a] = "lock" /\ Goes(a, "top")
      /\ UNCHANGED <<setup, sem, context, callback_context, callerVars, request, made, history>>
  BY Numbers DEF Lock, IInv, TypeOK, Works, Goes, Goto
<1>0. TypeOK'
  BY <1>e DEF Lock, TypeOK, Goto, callerVars, history
<1>1. JobsInv'
  BY <1>e DEF IInv, JobsInv, AnswersOK, history
<1>2. PlacesInv'
  BY <1>e DEF TypeOK, IInv, PlacesInv, Waits, Unanswered, history
<1>3. TidInv'
  BY <1>e DEF IInv, TidInv, callerVars
<1>4. QueuingInv'
  BY <1>e DEF IInv, QueuingInv, Queuing, Waits, Unanswered, callerVars, history
<1>5. AloneInv'
  BY <1>e DEF IInv, AloneInv, Queuing, Directed, callerVars
<1>6. SetInv'
  <2>1. \A b \in Agents : state[b] = "IDLE" /\ context[b] = NULL =>
          state'[b] = "IDLE" /\ context'[b] = NULL
    BY <1>e DEF Works, Goes
  <2> QED BY <1>e, <2>1 DEF IInv, SetInv, TidInv, Directed, callerVars
<1>7. AgentInv'
  BY <1>e DEF IInv, AgentInv, Works, Goes
<1>8. StartInv'
  BY <1>e DEF IInv, StartInv, Works, Goes
<1>9. SemInv'
  BY <1>e DEF IInv, SemInv, Queuing, callerVars
<1>10. AnsweredOnce'
  BY <1>e DEF IInv, AnsweredOnce, history
<1>11. Kept'
  BY <1>e DEF IInv, Kept, history
<1> QED BY <1>0, <1>1, <1>2, <1>3, <1>4, <1>5, <1>6, <1>7, <1>8, <1>9, <1>10, <1>11 DEF IInv

\* A worker that becomes idle forgets the job it has run; what waits in its
\* context stays.
LEMMA TopIdleStep ==
    ASSUME OneAtATime, TypeOK, IInv, NEW a \in Agents, TopIdle(a)
    PROVE  TypeOK' /\ IInv'
<1> USE Numbers
<1>e. /\ apc[a] = "top"
      /\ \/ state[a] = "AUTOBOOT" /\ Works(a, "IDLE", "top", NULL, FALSE)
         \/ Works(a, "IDLE", "unlock", NULL, FALSE)
      /\ UNCHANGED <<setup, sem, context, callback_context, callerVars, request, made, history>>
  BY Numbers DEF TopIdle, IInv, TypeOK, Works, Goto
<1>0. TypeOK'
  BY <1>e DEF TopIdle, TypeOK, Goto, callerVars, history
<1>1. JobsInv'
  BY <1>e DEF IInv, JobsInv, AnswersOK, history
<1>2. PlacesInv'
  BY <1>e DEF IInv, PlacesInv, Waits, Unanswered, callerVars, history
<1>3. TidInv'
  BY <1>e DEF IInv, TidInv, callerVars
<1>4. QueuingInv'
  BY <1>e DEF TypeOK, IInv, QueuingInv, Queuing, Waits, Unanswered, callerVars, history
<1>5. AloneInv'
  BY <1>e DEF IInv, AloneInv, Queuing, Directed, callerVars
<1>6. SetInv'
  <2>1. \A b \in Agents : state[b] = "IDLE" /\ context[b] = NULL =>
          state'[b] = "IDLE" /\ context'[b] = NULL
    BY <1>e DEF Works
  <2> QED BY <1>e, <2>1 DEF IInv, SetInv, TidInv, Directed, callerVars
<1>7. AgentInv'
  BY <1>e DEF IInv, AgentInv, Works
<1>8. StartInv'
  BY <1>e DEF IInv, StartInv, Works, history
<1>9. SemInv'
  BY <1>e DEF IInv, SemInv, Queuing, callerVars
<1>10. AnsweredOnce'
  BY <1>e DEF IInv, AnsweredOnce, history
<1>11. Kept'
  BY <1>e DEF IInv, Kept, history
<1> QED BY <1>0, <1>1, <1>2, <1>3, <1>4, <1>5, <1>6, <1>7, <1>8, <1>9, <1>10, <1>11 DEF IInv

\* A worker with a boot program starts it without a job.
LEMMA TopAutoBootStep ==
    ASSUME OneAtATime, TypeOK, IInv, NEW a \in Agents, NEW pc \in {"run", "error"},
           TopAutoBoot(a, pc)
    PROVE  TypeOK' /\ IInv'
<1> USE Numbers
<1>e. /\ apc[a] = "top" /\ state[a] = "AUTOBOOT"
      /\ Works(a, "STARTING", pc, job[a], initialized[a])
      /\ UNCHANGED <<setup, sem, context, callback_context, callerVars, request, made, history>>
  BY Numbers DEF TopAutoBoot, IInv, TypeOK, Works, Goto
<1>0. TypeOK'
  BY <1>e DEF TopAutoBoot, TypeOK, Unlock, Goto, callerVars, history
<1>1. JobsInv'
  BY <1>e DEF TypeOK, IInv, JobsInv, AnswersOK, callerVars, history
<1>2. PlacesInv'
  BY <1>e DEF IInv, PlacesInv, Waits, Unanswered, QueuingInv, history
<1>3. TidInv'
  BY <1>e DEF IInv, TidInv, callerVars
<1>4. QueuingInv'
  BY <1>e DEF IInv, QueuingInv, Queuing, Waits, Unanswered, JobsInv, callerVars, history
<1>5. AloneInv'
  BY <1>e DEF IInv, AloneInv, Queuing, Directed, callerVars
<1>6. SetInv'
  <2>1. \A b \in Agents : state[b] = "IDLE" /\ context[b] = NULL =>
          state'[b] = "IDLE" /\ context'[b] = NULL
    BY <1>e DEF Works
  <2> QED BY <1>e, <2>1 DEF IInv, SetInv, TidInv, Directed, callerVars
<1>7. AgentInv'
  BY <1>e DEF IInv, AgentInv, Works
<1>8. StartInv'
  BY <1>e DEF TypeOK, IInv, StartInv, AgentInv, Works
<1>9. SemInv'
  BY <1>e DEF IInv, SemInv, Queuing, callerVars
<1>10. AnsweredOnce'
  BY <1>e DEF IInv, AnsweredOnce, history
<1>11. Kept'
  BY <1>e DEF IInv, Kept, history
<1> QED BY <1>0, <1>1, <1>2, <1>3, <1>4, <1>5, <1>6, <1>7, <1>8, <1>9, <1>10, <1>11 DEF IInv

\* The worker lets the mutex go: only the mutex and its place change.
LEMMA TopUnlockStep ==
    ASSUME OneAtATime, TypeOK, IInv, NEW a \in Agents, TopUnlock(a)
    PROVE  TypeOK' /\ IInv'
<1> USE Numbers
<1>e. /\ apc[a] = "unlock" /\ Goes(a, "wait")
      /\ UNCHANGED <<setup, sem, context, callback_context, callerVars, request, made, history>>
  BY Numbers DEF TopUnlock, IInv, TypeOK, Works, Goes, Goto
<1>0. TypeOK'
  BY <1>e DEF TopUnlock, TypeOK, Unlock, Goto, callerVars, history
<1>1. JobsInv'
  BY <1>e DEF IInv, JobsInv, AnswersOK, history
<1>2. PlacesInv'
  BY <1>e DEF TypeOK, IInv, PlacesInv, Waits, Unanswered, JobsInv, QueuingInv, Queuing,
       callerVars, history
<1>3. TidInv'
  BY <1>e DEF IInv, TidInv, callerVars
<1>4. QueuingInv'
  BY <1>e DEF TypeOK, IInv, QueuingInv, Queuing, PlacesInv, Waits, Unanswered, callerVars, history
<1>5. AloneInv'
  BY <1>e DEF IInv, AloneInv, Queuing, Directed, callerVars, history
<1>6. SetInv'
  <2>1. \A b \in Agents : state[b] = "IDLE" /\ context[b] = NULL =>
          state'[b] = "IDLE" /\ context'[b] = NULL
    BY <1>e DEF Works, Goes
  <2> QED BY <1>e, <2>1 DEF IInv, SetInv, TidInv, Directed, callerVars
<1>7. AgentInv'
  BY <1>e DEF TypeOK, IInv, AgentInv, Works, Goes
<1>8. StartInv'
  BY <1>e DEF IInv, StartInv, Works, Goes
<1>9. SemInv'
  BY <1>e DEF IInv, SemInv, Queuing, callerVars
<1>10. AnsweredOnce'
  BY <1>e DEF IInv, AnsweredOnce, history
<1>11. Kept'
  BY <1>e DEF IInv, Kept, history
<1> QED BY <1>0, <1>1, <1>2, <1>3, <1>4, <1>5, <1>6, <1>7, <1>8, <1>9, <1>10, <1>11 DEF IInv

\* The worker is woken.
LEMMA WaitStep ==
    ASSUME OneAtATime, TypeOK, IInv, NEW a \in Agents, Wait(a)
    PROVE  TypeOK' /\ IInv'
<1> USE Numbers
<1>e. /\ apc[a] = "wait" /\ Goes(a, "take")
      /\ sem[a] > 0 /\ sem'[a] = sem[a] - 1 /\ \A b \in Agents \ {a} : sem'[b] = sem[b]
      /\ UNCHANGED <<setup, context, callback_context, callerVars, request, made, history>>
  BY Numbers DEF Wait, IInv, TypeOK, Works, Goes, Goto
<1>0. TypeOK'
  BY <1>e DEF Wait, TypeOK, Goto, callerVars, history
<1>1. JobsInv'
  BY <1>e DEF IInv, JobsInv, AnswersOK, history
<1>2. PlacesInv'
  BY <1>e DEF TypeOK, IInv, PlacesInv, Waits, Unanswered, history
<1>3. TidInv'
  BY <1>e DEF IInv, TidInv, callerVars
<1>4. QueuingInv'
  BY <1>e DEF IInv, QueuingInv, Queuing, Waits, Unanswered, callerVars, history
<1>5. AloneInv'
  BY <1>e DEF IInv, AloneInv, Queuing, Directed, callerVars
<1>6. SetInv'
  <2>1. \A b \in Agents : state[b] = "IDLE" /\ context[b] = NULL =>
          state'[b] = "IDLE" /\ context'[b] = NULL
    BY <1>e DEF Works, Goes
  <2> QED BY <1>e, <2>1 DEF IInv, SetInv, TidInv, Directed, callerVars
<1>7. AgentInv'
  BY <1>e DEF TypeOK, IInv, AgentInv, Works, Goes
<1>8. StartInv'
  BY <1>e DEF TypeOK, IInv, StartInv, Works, Goes
<1>9. SemInv'
  BY <1>e DEF TypeOK, IInv, SemInv, Queuing, callerVars
<1>10. AnsweredOnce'
  BY <1>e DEF IInv, AnsweredOnce, history
<1>11. Kept'
  BY <1>e DEF IInv, Kept, history
<1> QED BY <1>0, <1>1, <1>2, <1>3, <1>4, <1>5, <1>6, <1>7, <1>8, <1>9, <1>10, <1>11 DEF IInv

\* The job that is taken stays in context, unanswered, while the program starts.
LEMMA TakeStep ==
    ASSUME OneAtATime, TypeOK, IInv, NEW a \in Agents, Take(a)
    PROVE  TypeOK' /\ IInv'
<1> USE Numbers
<1>e. /\ apc[a] = "take"
      /\ \/ context[a] = NULL /\ Works(a, state[a], "top", context[a], initialized[a])
         \/ /\ context[a] # NULL
            /\ \E pc \in {"run", "error"} : Works(a, "STARTING", pc, context[a], initialized[a])
      /\ UNCHANGED <<setup, sem, context, callback_context, callerVars, request, made, history>>
  BY Numbers DEF Take, IInv, TypeOK, Works, Goto
<1>0. TypeOK'
  BY <1>e DEF Take, TypeOK, Goto, callerVars, history
<1>1. JobsInv'
  BY <1>e DEF IInv, JobsInv, AnswersOK, history
<1>2. PlacesInv'
  BY <1>e DEF TypeOK, IInv, PlacesInv, Waits, Unanswered, history
<1>3. TidInv'
  BY <1>e DEF IInv, TidInv, callerVars
<1>4. QueuingInv'
  BY <1>e DEF IInv, QueuingInv, Queuing, Waits, Unanswered, callerVars, history
<1>5. AloneInv'
  BY <1>e DEF IInv, AloneInv, Queuing, Directed, QueuingInv, callerVars
<1>6. SetInv'
  <2>1. \A b \in Agents : state[b] = "IDLE" /\ context[b] = NULL =>
          state'[b] = "IDLE" /\ context'[b] = NULL
    BY <1>e DEF Works
  <2> QED BY <1>e, <2>1 DEF IInv, SetInv, TidInv, Directed, callerVars
<1>7. AgentInv'
  BY <1>e DEF IInv, AgentInv, Works
<1>8. StartInv'
  BY <1>e DEF IInv, StartInv, Works
<1>9. SemInv'
  BY <1>e DEF IInv, SemInv, Queuing, callerVars
<1>10. AnsweredOnce'
  BY <1>e DEF IInv, AnsweredOnce, history
<1>11. Kept'
  BY <1>e DEF IInv, Kept, history
<1> QED BY <1>0, <1>1, <1>2, <1>3, <1>4, <1>5, <1>6, <1>7, <1>8, <1>9, <1>10, <1>11 DEF IInv

\* The job that was taken gets its only answer and leaves the context.
LEMMA InvalidStep ==
    ASSUME OneAtATime, TypeOK, IInv, NEW a \in Agents, Invalid(a)
    PROVE  TypeOK' /\ IInv'
<1> USE Numbers
<1>s. apc[a] = "error"
  BY DEF Invalid
<1>a. Answered(job[a]) /\ (job[a] # NULL => job[a] \in 1..made)
  <2>1. AnswersOK /\ job[a] \in Jobs \cup {NULL}
    BY DEF TypeOK, IInv, JobsInv
  <2>2. job[a] # NULL => Unanswered(job[a])
    BY <2>1, <1>s DEF TypeOK, IInv, StartInv, PlacesInv, Waits
  <2>3. IF job[a] = NULL THEN UNCHANGED answers ELSE Answer(job[a], "error")
    BY DEF Invalid, ReplyError
  <2> QED BY <2>1, <2>2, <2>3, FirstAnswer DEF Replies, Unanswered
<1>e. /\ apc[a] = "error" /\ Goes(a, "callback")
      /\ Holds(a, NULL, callback_context[a])
      /\ job[a] # NULL => context[a] = job[a]
      /\ job[a] # NULL \/ setup.autoboot
      /\ Answered(job[a])
      /\ UNCHANGED <<setup, sem, callerVars, request, made, queued, ranOn>>
  BY <1>a DEF Invalid, IInv, TypeOK, StartInv, Works, Goes, Holds, ReplyError, Goto
<1>0. TypeOK'
  BY <1>e DEF Invalid, TypeOK, ReplyError, Goto, callerVars
<1>1. JobsInv'
  <2>1. setup' \in Setups /\ made' <= MaxJobs /\ request' \in [Jobs -> Requests]
    BY <1>e DEF IInv, JobsInv
  <2>2. AnswersOK'
    BY <1>e DEF IInv, Answered
  <2>3. ASSUME NEW j \in Jobs, j > made' PROVE answers'[j] = << >>
    <3>1. made' = made /\ made \in Nat /\ j \in Nat
      BY <1>e DEF TypeOK
    <3>2. answers[j] = << >>
      BY <2>3, <3>1 DEF IInv, JobsInv
    <3>3. j = job[a] => answers'[j] = answers[j]
      BY <1>a, <2>3, <3>1
    <3>4. j # job[a] => answers'[j] = answers[j]
      BY <1>e DEF Answered
    <3> QED BY <3>2, <3>3, <3>4
  <2> QED BY <2>1, <2>2, <2>3 DEF JobsInv
<1>2. PlacesInv'
  <2> USE <1>e DEF IInv, TypeOK, PlacesInv
  <2>1. ASSUME NEW b \in Agents, NEW j \in Jobs, Waits(b, j)' PROVE Unanswered(j)'
    <3>1. Waits(b, j)
      BY <2>1 DEF Waits, Holds
    <3>2. Unanswered(j) /\ made' = made
      BY <3>1
    <3>3. j # job[a]
      BY <2>1, <3>1, <1>a DEF Waits, Holds
    <3>4. answers'[j] = answers[j]
      BY <3>3 DEF Answered
    <3> QED BY <3>1, <3>2, <3>4 DEF Unanswered
  <2>2. ASSUME NEW b \in Agents, NEW d \in Agents, context'[b] # NULL, context'[b] = context'[d]
        PROVE  b = d
    BY <2>2 DEF Holds
  <2>3. ASSUME NEW b \in Agents, NEW d \in Agents,
               callback_context'[b] # NULL, callback_context'[b] = callback_context'[d]
        PROVE  b = d
    BY <2>3 DEF Holds
  <2>4. ASSUME NEW b \in Agents, NEW d \in Agents, context'[b] # NULL
        PROVE  context'[b] # callback_context'[d]
    BY <2>4 DEF Holds
  <2> QED BY <2>1, <2>2, <2>3, <2>4
<1>3. TidInv'
  BY <1>e DEF IInv, TidInv, callerVars
<1>4. QueuingInv'
  BY <1>e DEF TypeOK, IInv, QueuingInv, Queuing, Waits, Unanswered, Holds, Answered, callerVars
<1>5. AloneInv'
  BY <1>e DEF IInv, AloneInv, Queuing, Directed, Holds, callerVars
<1>6. SetInv'
  BY <1>e DEF TypeOK, IInv, SetInv, TidInv, Directed, Works, Goes, Holds, callerVars
<1>7. AgentInv'
  BY <1>e DEF IInv, AgentInv, Works, Goes
<1>8. StartInv'
  BY <1>e DEF IInv, StartInv, Works, Goes, Holds
<1>9. SemInv'
  BY <1>e DEF IInv, SemInv, Queuing, callerVars
<1>10. AnsweredOnce'
  BY <1>e DEF TypeOK, IInv, AnsweredOnce, Answered, callerVars
<1>11. Kept'
  BY <1>e DEF TypeOK, IInv, Kept, StartInv, Works, Goes, Holds, Answered, callerVars
<1> QED BY <1>0, <1>1, <1>2, <1>3, <1>4, <1>5, <1>6, <1>7, <1>8, <1>9, <1>10, <1>11 DEF IInv

\* The same when the runner has returned without notify_init: in any other state
\* the context is left alone.
LEMMA ReturnStep ==
    ASSUME OneAtATime, TypeOK, IInv, NEW a \in Agents, Return(a)
    PROVE  TypeOK' /\ IInv'
<1> USE Numbers
<1>k. PICK k \in Jobs \cup {NULL} : k = IF state[a] = "STARTING" THEN job[a] ELSE NULL
  BY DEF TypeOK
<1>a. Answered(k) /\ (k # NULL => context[a] = k /\ k \in 1..made)
  <2>1. AnswersOK /\ apc[a] = "run"
    BY DEF IInv, JobsInv, Return
  <2>2. k # NULL => Unanswered(k) /\ context[a] = k
    BY <1>k, <2>1 DEF IInv, StartInv, PlacesInv, Waits
  <2>3. IF k = NULL THEN UNCHANGED answers ELSE Answer(k, "error")
    BY <1>k DEF Return, ReplyError
  <2> QED BY <2>1, <2>2, <2>3, FirstAnswer DEF Replies, Unanswered
<1>e. /\ apc[a] = "run" /\ Goes(a, "callback")
      /\ Holds(a, IF state[a] = "STARTING" THEN NULL ELSE context[a], callback_context[a])
      /\ k # NULL => context[a] = k
      /\ IF state[a] = "STARTING" THEN k # NULL \/ setup.autoboot ELSE k = NULL
      /\ Answered(k)
      /\ UNCHANGED <<setup, sem, callerVars, request, made, queued, ranOn>>
  BY <1>k, <1>a DEF Return, IInv, TypeOK, StartInv, Works, Goes, Holds, ReplyError, Goto
<1>0. TypeOK'
  BY <1>e DEF Return, TypeOK, ReplyError, Goto, callerVars
<1>1. JobsInv'
  <2>1. setup' \in Setups /\ made' <= MaxJobs /\ request' \in [Jobs -> Requests]
    BY <1>e DEF IInv, JobsInv
  <2>2. AnswersOK'
    BY <1>e DEF IInv, Answered
  <2>3. ASSUME NEW j \in Jobs, j > made' PROVE answers'[j] = << >>
    <3>1. made' = made /\ made \in Nat /\ j \in Nat
      BY <1>e DEF TypeOK
    <3>2. answers[j] = << >>
      BY <2>3, <3>1 DEF IInv, JobsInv
    <3>3. j = k => answers'[j] = answers[j]
      BY <1>a, <2>3, <3>1
    <3>4. j # k => answers'[j] = answers[j]
      BY <1>e DEF Answered
    <3> QED BY <3>2, <3>3, <3>4
  <2> QED BY <2>1, <2>2, <2>3 DEF JobsInv
<1>2. PlacesInv'
  <2> USE <1>e DEF IInv, TypeOK, PlacesInv
  <2>1. ASSUME NEW b \in Agents, NEW j \in Jobs, Waits(b, j)' PROVE Unanswered(j)'
    <3>1. Waits(b, j)
      BY <2>1 DEF Waits, Holds
    <3>2. Unanswered(j) /\ made' = made
      BY <3>1
    <3>3. j # k
      BY <2>1, <3>1, <1>a DEF Waits, Holds
    <3>4. answers'[j] = answers[j]
      BY <3>3 DEF Answered
    <3> QED BY <3>1, <3>2, <3>4 DEF Unanswered
  <2>2. ASSUME NEW b \in Agents, NEW d \in Agents, context'[b] # NULL, context'[b] = context'[d]
        PROVE  b = d
    BY <2>2 DEF Holds
  <2>3. ASSUME NEW b \in Agents, NEW d \in Agents,
               callback_context'[b] # NULL, callback_context'[b] = callback_context'[d]
        PROVE  b = d
    BY <2>3 DEF Holds
  <2>4. ASSUME NEW b \in Agents, NEW d \in Agents, context'[b] # NULL
        PROVE  context'[b] # callback_context'[d]
    BY <2>4 DEF Holds
  <2> QED BY <2>1, <2>2, <2>3, <2>4
<1>3. TidInv'
  BY <1>e DEF IInv, TidInv, callerVars
<1>4. QueuingInv'
  BY <1>e DEF TypeOK, IInv, QueuingInv, Queuing, Waits, Unanswered, Holds, Answered, callerVars
<1>5. AloneInv'
  BY <1>e DEF IInv, AloneInv, Queuing, Directed, Holds, callerVars
<1>6. SetInv'
  <2> SUFFICES ASSUME NEW c \in Callers, qpc'[c] = "set"
               PROVE  context'[tid'[c]] = NULL /\ (Directed(c)' \/ state'[tid'[c]] = "IDLE")
    BY DEF SetInv
  <2>1. qpc'[c] = qpc[c] /\ tid'[c] = tid[c] /\ (Directed(c)' <=> Directed(c))
    BY <1>e DEF callerVars, Directed
  <2>2. tid[c] \in Agents
    BY <2>1 DEF IInv, TidInv
  <2>3. context[tid[c]] = NULL /\ (Directed(c) \/ state[tid[c]] = "IDLE")
    BY <2>1 DEF IInv, SetInv
  <2>4. context'[tid[c]] = NULL /\ state'[tid[c]] = state[tid[c]]
    BY <1>e, <2>2, <2>3 DEF Holds, Goes, Works
  <2> QED BY <2>1, <2>3, <2>4
<1>7. AgentInv'
  BY <1>e DEF IInv, AgentInv, Works, Goes
<1>8. StartInv'
  BY <1>e DEF IInv, StartInv, Works, Goes, Holds
<1>9. SemInv'
  BY <1>e DEF IInv, SemInv, Queuing, callerVars
<1>10. AnsweredOnce'
  BY <1>e DEF TypeOK, IInv, AnsweredOnce, Answered, callerVars
<1>11. Kept'
  <2> SUFFICES ASSUME ~ setup.autoboot, NEW j \in queued, answers'[j] = << >>
               PROVE  \E b \in Agents : context'[b] = j \/ callback_context'[b] = j
    BY <1>e DEF Kept
  <2>1. j \in Jobs /\ j # NULL
    BY DEF TypeOK
  <2>2. j # k /\ answers[j] = << >>
    BY <1>e, <2>1 DEF Answered
  <2>3. PICK b \in Agents : context[b] = j \/ callback_context[b] = j
    BY <2>2 DEF IInv, Kept
  <2>4. context'[b] = j \/ callback_context'[b] = j
    BY <1>e, <2>1, <2>2, <2>3 DEF Holds
  <2> QED BY <2>4
<1> QED BY <1>0, <1>1, <1>2, <1>3, <1>4, <1>5, <1>6, <1>7, <1>8, <1>9, <1>10, <1>11 DEF IInv

\* A callback gets its only answer and leaves callback_context.
LEMMA CallbackStep ==
    ASSUME OneAtATime, TypeOK, IInv, NEW a \in Agents, Callback(a)
    PROVE  TypeOK' /\ IInv'
<1> USE Numbers
<1>a. /\ Answered(callback_context[a])
      /\ callback_context[a] # NULL => callback_context[a] \in 1..made
  <2>1. AnswersOK /\ callback_context[a] \in Jobs \cup {NULL}
    BY DEF TypeOK, IInv, JobsInv
  <2>2. callback_context[a] # NULL => Unanswered(callback_context[a])
    BY <2>1 DEF TypeOK, IInv, PlacesInv, Waits
  <2>3. IF callback_context[a] = NULL THEN UNCHANGED answers
                                      ELSE Answer(callback_context[a], "result")
    BY DEF Callback
  <2> QED BY <2>1, <2>2, <2>3, FirstAnswer DEF Replies, Unanswered
<1>e. /\ apc[a] = "callback" /\ Goes(a, "top")
      /\ Holds(a, context[a], NULL)
      /\ Answered(callback_context[a])
      /\ UNCHANGED <<setup, sem, callerVars, request, made, queued, ranOn>>
  BY <1>a DEF Callback, IInv, TypeOK, Works, Goes, Holds, Goto
<1>0. TypeOK'
  BY <1>e DEF Callback, TypeOK, Goto, callerVars
<1>1. JobsInv'
  <2>1. setup' \in Setups /\ made' <= MaxJobs /\ request' \in [Jobs -> Requests]
    BY <1>e DEF IInv, JobsInv
  <2>2. AnswersOK'
    BY <1>e DEF IInv, Answered
  <2>3. ASSUME NEW j \in Jobs, j > made' PROVE answers'[j] = << >>
    <3>1. made' = made /\ made \in Nat /\ j \in Nat
      BY <1>e DEF TypeOK
    <3>2. answers[j] = << >>
      BY <2>3, <3>1 DEF IInv, JobsInv
    <3>3. j = callback_context[a] => answers'[j] = answers[j]
      BY <1>a, <2>3, <3>1
    <3>4. j # callback_context[a] => answers'[j] = answers[j]
      BY <1>e DEF Answered
    <3> QED BY <3>2, <3>3, <3>4
  <2> QED BY <2>1, <2>2, <2>3 DEF JobsInv
<1>2. PlacesInv'
  <2> USE <1>e DEF IInv, TypeOK, PlacesInv
  <2>1. ASSUME NEW b \in Agents, NEW j \in Jobs, Waits(b, j)' PROVE Unanswered(j)'
    <3>1. Waits(b, j)
      BY <2>1 DEF Waits, Holds
    <3>2. Unanswered(j) /\ made' = made
      BY <3>1
    <3>3. j # callback_context[a]
      BY <2>1, <3>1 DEF Waits, Holds
    <3>4. answers'[j] = answers[j]
      BY <3>3 DEF Answered
    <3> QED BY <3>1, <3>2, <3>4 DEF Unanswered
  <2>2. ASSUME NEW b \in Agents, NEW d \in Agents, context'[b] # NULL, context'[b] = context'[d]
        PROVE  b = d
    BY <2>2 DEF Holds
  <2>3. ASSUME NEW b \in Agents, NEW d \in Agents,
               callback_context'[b] # NULL, callback_context'[b] = callback_context'[d]
        PROVE  b = d
    BY <2>3 DEF Holds
  <2>4. ASSUME NEW b \in Agents, NEW d \in Agents, context'[b] # NULL
        PROVE  context'[b] # callback_context'[d]
    BY <2>4 DEF Holds
  <2> QED BY <2>1, <2>2, <2>3, <2>4
<1>3. TidInv'
  BY <1>e DEF IInv, TidInv, callerVars
<1>4. QueuingInv'
  BY <1>e DEF TypeOK, IInv, QueuingInv, Queuing, JobsInv, Holds, Answered, callerVars
<1>5. AloneInv'
  BY <1>e DEF IInv, AloneInv, Queuing, Directed, Holds, callerVars
<1>6. SetInv'
  <2> SUFFICES ASSUME NEW c \in Callers, qpc'[c] = "set"
               PROVE  context'[tid'[c]] = NULL /\ (Directed(c)' \/ state'[tid'[c]] = "IDLE")
    BY DEF SetInv
  <2>1. qpc'[c] = qpc[c] /\ tid'[c] = tid[c] /\ (Directed(c)' <=> Directed(c))
    BY <1>e DEF callerVars, Directed
  <2>2. tid[c] \in Agents
    BY <2>1 DEF IInv, TidInv
  <2>3. context[tid[c]] = NULL /\ (Directed(c) \/ state[tid[c]] = "IDLE")
    BY <2>1 DEF IInv, SetInv
  <2>4. context'[tid[c]] = NULL /\ state'[tid[c]] = state[tid[c]]
    BY <1>e, <2>2, <2>3 DEF Holds, Goes, Works
  <2> QED BY <2>1, <2>3, <2>4
<1>7. AgentInv'
  BY <1>e DEF IInv, AgentInv, Works, Goes
<1>8. StartInv'
  BY <1>e DEF IInv, StartInv, Works, Goes, Holds
<1>9. SemInv'
  BY <1>e DEF IInv, SemInv, Queuing, callerVars
<1>10. AnsweredOnce'
  BY <1>e DEF IInv, AnsweredOnce, Answered, callerVars
<1>11. Kept'
  <2> SUFFICES ASSUME ~ setup.autoboot, NEW j \in queued, answers'[j] = << >>
               PROVE  \E b \in Agents : context'[b] = j \/ callback_context'[b] = j
    BY <1>e DEF Kept
  <2>1. j \in Jobs /\ j # NULL
    BY DEF TypeOK
  <2>2. j # callback_context[a] /\ answers[j] = << >>
    BY <1>e, <2>1 DEF Answered
  <2>3. PICK b \in Agents : context[b] = j \/ callback_context[b] = j
    BY <2>2 DEF IInv, Kept
  <2>4. context'[b] = j \/ callback_context'[b] = j
    BY <1>e, <2>2, <2>3 DEF Holds
  <2> QED BY <2>4
<1> QED BY <1>0, <1>1, <1>2, <1>3, <1>4, <1>5, <1>6, <1>7, <1>8, <1>9, <1>10, <1>11 DEF IInv

\* What is in context gets its only answer and leaves the context: with one caller
\* it is the job that was started.
LEMMA NotifyInitStep ==
    ASSUME OneAtATime, TypeOK, IInv, NEW a \in Agents, NEW ok \in BOOLEAN, NotifyInit(a, ok)
    PROVE  TypeOK' /\ IInv'
<1> USE Numbers
<1>a. Answered(context[a]) /\ (context[a] # NULL => context[a] \in 1..made)
  <2>1. AnswersOK /\ context[a] \in Jobs \cup {NULL}
    BY DEF TypeOK, IInv, JobsInv
  <2>2. context[a] # NULL => Unanswered(context[a])
    BY <2>1 DEF TypeOK, IInv, PlacesInv, Waits
  <2>3. IF context[a] = NULL THEN UNCHANGED answers
        ELSE Answer(context[a], IF ok THEN "tid 0" ELSE "error")
    BY DEF NotifyInit
  <2> QED BY <2>1, <2>2, <2>3, FirstAnswer DEF Replies, Unanswered
<1>e. /\ apc[a] = "run" /\ state[a] = "STARTING" /\ ~ initialized[a]
      /\ \E s \in {"RUNNING", "FAILED"} : Works(a, s, "run", job[a], TRUE)
      /\ Holds(a, NULL, callback_context[a])
      /\ Answered(context[a])
      /\ UNCHANGED <<setup, sem, callerVars, request, made, queued>>
  BY <1>a DEF NotifyInit, IInv, TypeOK, JobsInv, PlacesInv, TidInv, QueuingInv, StartInv, Waits,
       Unanswered, Queuing, Directed, Works, Holds, ReplyError, Goto, QGoto, shared, agentVars,
       callerVars, history
<1>0. TypeOK'
  BY <1>e DEF NotifyInit, TypeOK, Unlock, ReplyError, Goto, QGoto, shared, agentVars,
       callerVars, history
<1>1. JobsInv'
  <2>1. setup' \in Setups /\ made' <= MaxJobs /\ request' \in [Jobs -> Requests]
    BY <1>e DEF IInv, JobsInv
  <2>2. AnswersOK'
    BY <1>e DEF IInv, Answered
  <2>3. ASSUME NEW j \in Jobs, j > made' PROVE answers'[j] = << >>
    <3>1. made' = made /\ made \in Nat /\ j \in Nat
      BY <1>e DEF TypeOK
    <3>2. answers[j] = << >>
      BY <2>3, <3>1 DEF IInv, JobsInv
    <3>3. j = context[a] => answers'[j] = answers[j]
      BY <1>a, <2>3, <3>1
    <3>4. j # context[a] => answers'[j] = answers[j]
      BY <1>e DEF Answered
    <3> QED BY <3>2, <3>3, <3>4
  <2> QED BY <2>1, <2>2, <2>3 DEF JobsInv
<1>2. PlacesInv'
  <2> USE <1>e DEF IInv, TypeOK, PlacesInv
  <2>1. ASSUME NEW b \in Agents, NEW j \in Jobs, Waits(b, j)' PROVE Unanswered(j)'
    <3>1. Waits(b, j)
      BY <2>1 DEF Waits, Holds
    <3>2. Unanswered(j) /\ made' = made
      BY <3>1
    <3>3. j # context[a]
      BY <2>1, <3>1 DEF Waits, Holds
    <3>4. answers'[j] = answers[j]
      BY <3>3 DEF Answered
    <3> QED BY <3>1, <3>2, <3>4 DEF Unanswered
  <2>2. ASSUME NEW b \in Agents, NEW d \in Agents, context'[b] # NULL, context'[b] = context'[d]
        PROVE  b = d
    BY <2>2 DEF Holds
  <2>3. ASSUME NEW b \in Agents, NEW d \in Agents,
               callback_context'[b] # NULL, callback_context'[b] = callback_context'[d]
        PROVE  b = d
    BY <2>3 DEF Holds
  <2>4. ASSUME NEW b \in Agents, NEW d \in Agents, context'[b] # NULL
        PROVE  context'[b] # callback_context'[d]
    BY <2>4 DEF Holds
  <2> QED BY <2>1, <2>2, <2>3, <2>4
<1>3. TidInv'
  BY <1>e DEF IInv, TidInv, callerVars
<1>4. QueuingInv'
  BY <1>e DEF TypeOK, IInv, QueuingInv, Queuing, Waits, Unanswered, Holds, Answered, callerVars
<1>5. AloneInv'
  BY <1>e DEF IInv, AloneInv, Queuing, Directed, Holds, callerVars
<1>6. SetInv'
  BY <1>e DEF IInv, SetInv, TidInv, Directed, Works, Holds, callerVars
<1>7. AgentInv'
  BY <1>e DEF IInv, AgentInv, Works
<1>8. StartInv'
  BY <1>e DEF IInv, StartInv, Works, Holds
<1>9. SemInv'
  BY <1>e DEF IInv, SemInv, Queuing, callerVars
<1>10. AnsweredOnce'
  BY <1>e DEF IInv, AnsweredOnce, Answered
<1>11. Kept'
  <2> SUFFICES ASSUME ~ setup.autoboot, NEW j \in queued, answers'[j] = << >>
               PROVE  \E b \in Agents : context'[b] = j \/ callback_context'[b] = j
    BY <1>e DEF Kept
  <2>1. j \in Jobs /\ j # NULL
    BY DEF TypeOK
  <2>2. j # context[a] /\ answers[j] = << >>
    BY <1>e, <2>1 DEF Answered
  <2>3. PICK b \in Agents : context[b] = j \/ callback_context[b] = j
    BY <2>2 DEF IInv, Kept
  <2>4. context'[b] = j \/ callback_context'[b] = j
    BY <1>e, <2>1, <2>2, <2>3 DEF Holds
  <2> QED BY <2>4
<1> QED BY <1>0, <1>1, <1>2, <1>3, <1>4, <1>5, <1>6, <1>7, <1>8, <1>9, <1>10, <1>11 DEF IInv

\* A request leaves the context for its answer, or for callback_context.
LEMMA CooperateStep ==
    ASSUME OneAtATime, TypeOK, IInv, NEW a \in Agents, Cooperate(a)
    PROVE  TypeOK' /\ IInv'
<1> USE Numbers
<1>k. PICK k \in {context[a], NULL} :
        /\ IF k = NULL THEN UNCHANGED answers ELSE \E r \in Replies : Answer(k, r)
        /\ \/ k = context[a] /\ UNCHANGED callback_context
           \/ /\ k = NULL /\ callback_context[a] = NULL
              /\ callback_context' = [callback_context EXCEPT ![a] = context[a]]
  <2>1. context[a] # NULL
    BY DEF Cooperate
  <2> QED BY <2>1 DEF Cooperate, Replies
<1>a. Answered(k) /\ (k # NULL => k \in 1..made)
  <2>1. AnswersOK /\ context[a] \in Jobs /\ k \in Jobs \cup {NULL}
    BY DEF TypeOK, IInv, JobsInv
  <2>2. k # NULL => Unanswered(k)
    BY <1>k, <2>1 DEF IInv, PlacesInv, Waits
  <2>3. CASE k = NULL
    BY <1>k, <2>1, <2>3, FirstAnswer DEF Replies, Unanswered
  <2>4. CASE k # NULL
    <3>1. PICK r \in Replies : Answer(k, r)
      BY <1>k, <2>4
    <3> QED BY <2>1, <2>2, <2>4, <3>1, FirstAnswer DEF Unanswered
  <2> QED BY <2>3, <2>4
<1>e. /\ apc[a] = "run" /\ initialized[a] /\ context[a] # NULL
      /\ \E s \in {state[a], "ABORTING"} : Works(a, s, "run", job[a], initialized[a])
      /\ \/ k = context[a] /\ Holds(a, NULL, callback_context[a])
         \/ k = NULL /\ callback_context[a] = NULL /\ Holds(a, NULL, context[a])
      /\ Answered(k)
      /\ UNCHANGED <<setup, sem, callerVars, request, made, queued, ranOn>>
  BY <1>k, <1>a DEF Cooperate, IInv, TypeOK, Works, Holds, agentVars
<1>0. TypeOK'
  BY <1>e DEF Cooperate, TypeOK, agentVars, callerVars
<1>1. JobsInv'
  <2>1. setup' \in Setups /\ made' <= MaxJobs /\ request' \in [Jobs -> Requests]
    BY <1>e DEF IInv, JobsInv
  <2>2. AnswersOK'
    BY <1>e DEF IInv, Answered
  <2>3. ASSUME NEW j \in Jobs, j > made' PROVE answers'[j] = << >>
    <3>1. made' = made /\ made \in Nat /\ j \in Nat
      BY <1>e DEF TypeOK
    <3>2. answers[j] = << >>
      BY <2>3, <3>1 DEF IInv, JobsInv
    <3>3. j = k => answers'[j] = answers[j]
      BY <1>a, <2>3, <3>1
    <3>4. j # k => answers'[j] = answers[j]
      BY <1>e DEF Answered
    <3> QED BY <3>2, <3>3, <3>4
  <2> QED BY <2>1, <2>2, <2>3 DEF JobsInv
<1>2. PlacesInv'
  <2> USE <1>e DEF IInv, TypeOK, PlacesInv
  <2>1. ASSUME NEW b \in Agents, NEW j \in Jobs, Waits(b, j)' PROVE Unanswered(j)'
    <3>1. Waits(b, j)
      BY <2>1 DEF Waits, Holds
    <3>2. Unanswered(j) /\ made' = made
      BY <3>1
    <3>3. j # k
      BY <2>1, <3>1 DEF Waits, Holds
    <3>4. answers'[j] = answers[j]
      BY <3>3 DEF Answered
    <3> QED BY <3>1, <3>2, <3>4 DEF Unanswered
  <2>2. ASSUME NEW b \in Agents, NEW d \in Agents, context'[b] # NULL, context'[b] = context'[d]
        PROVE  b = d
    BY <2>2 DEF Holds
  <2>3. ASSUME NEW b \in Agents, NEW d \in Agents,
               callback_context'[b] # NULL, callback_context'[b] = callback_context'[d]
        PROVE  b = d
    BY <2>3 DEF Holds
  <2>4. ASSUME NEW b \in Agents, NEW d \in Agents, context'[b] # NULL
        PROVE  context'[b] # callback_context'[d]
    BY <2>4 DEF Holds
  <2> QED BY <2>1, <2>2, <2>3, <2>4
<1>3. TidInv'
  BY <1>e DEF IInv, TidInv, callerVars
<1>4. QueuingInv'
  <2>1. ASSUME NEW c \in Callers, Queuing(c)' 
               PROVE  Unanswered(queuing[c])' /\ \A b \in Agents : ~ Waits(b, queuing[c])'
    <3>1. /\ Queuing(c) /\ queuing'[c] = queuing[c] /\ Unanswered(queuing[c])
          /\ \A b \in Agents : ~ Waits(b, queuing[c])
      BY <1>e, <2>1 DEF IInv, QueuingInv, Queuing, callerVars
    <3>2. queuing[c] # context[a]
      BY <3>1 DEF Waits
    <3>3. ASSUME NEW b \in Agents PROVE ~ Waits(b, queuing[c])'
      <4>1. ~ Waits(b, queuing[c]) /\ queuing[c] # NULL
        BY <3>1 DEF Unanswered, TypeOK
      <4>2. CASE b = a
        BY <1>e, <3>1, <3>2, <4>1, <4>2 DEF Waits, Holds
      <4>3. CASE b # a
        BY <1>e, <3>1, <4>1, <4>3 DEF Waits, Holds
      <4> QED BY <4>2, <4>3
    <3>4. answers'[queuing[c]] = << >> /\ made' = made
      BY <1>e, <3>1, <3>2 DEF TypeOK, Answered, Unanswered
    <3> QED BY <3>1, <3>3, <3>4 DEF Unanswered
  <2> QED BY <2>1 DEF QueuingInv
<1>5. AloneInv'
  BY <1>e DEF IInv, AloneInv, Queuing, Directed, callerVars
<1>6. SetInv'
  <2>1. \A b \in Agents : context[b] = NULL => context'[b] = NULL
    BY <1>e DEF Holds
  <2>2. \A b \in Agents : state[b] = "IDLE" => b # a
    BY <1>e DEF IInv, AgentInv
  <2> QED BY <1>e, <2>1, <2>2 DEF IInv, SetInv, TidInv, Directed, Works, callerVars
<1>7. AgentInv'
  BY <1>e DEF IInv, AgentInv, Works
<1>8. StartInv'
  BY <1>e DEF IInv, StartInv, AgentInv, Works, Holds
<1>9. SemInv'
  BY <1>e DEF IInv, SemInv, Queuing, callerVars
<1>10. AnsweredOnce'
  BY <1>e DEF TypeOK, IInv, AnsweredOnce, Answered, callerVars
<1>11. Kept'
  <2> SUFFICES ASSUME ~ setup.autoboot, NEW j \in queued, answers'[j] = << >>
               PROVE  \E b \in Agents : context'[b] = j \/ callback_context'[b] = j
    BY <1>e DEF Kept
  <2>1. j \in Jobs /\ j # NULL
    BY DEF TypeOK
  <2>2. j # k /\ answers[j] = << >>
    BY <1>e, <2>1 DEF Answered
  <2>3. PICK b \in Agents : context[b] = j \/ callback_context[b] = j
    BY <2>2 DEF IInv, Kept
  <2>4. context'[b] = j \/ callback_context'[b] = j
    BY <1>e, <2>1, <2>2, <2>3 DEF Holds
  <2> QED BY <2>4
<1> QED BY <1>0, <1>1, <1>2, <1>3, <1>4, <1>5, <1>6, <1>7, <1>8, <1>9, <1>10, <1>11 DEF IInv

------------------------------------------------------------------------------
(* The invariant is inductive.                                             *)

\* At the start there is no job, and every worker is idle or boots.
LEMMA Initial == OneAtATime /\ Init => TypeOK /\ IInv
<1> SUFFICES ASSUME OneAtATime, Init PROVE TypeOK /\ IInv
  OBVIOUS
<1> USE Numbers
<1>1. TypeOK
  BY DEF Init, TypeOK
<1>2. JobsInv
  <2>1. AnswersOK /\ \A j \in Jobs : answers[j] = << >>
    BY DEF Init, AnswersOK
  <2> QED BY <2>1 DEF Init, JobsInv, Requests
<1>3. PlacesInv
  BY DEF Init, PlacesInv, Waits
<1>4. TidInv /\ QueuingInv /\ AloneInv /\ SetInv
  BY DEF Init, TidInv, QueuingInv, AloneInv, SetInv, Queuing
<1>5. AgentInv /\ StartInv
  BY DEF Init, AgentInv, StartInv
<1>6. SemInv
  BY DEF Init, SemInv, Queuing
<1>7. AnsweredOnce
  BY DEF Init, AnsweredOnce
<1>8. Kept
  BY DEF Init, Kept
<1> QED BY <1>1, <1>2, <1>3, <1>4, <1>5, <1>6, <1>7, <1>8 DEF IInv

\* Every step of a caller, a worker or a runner keeps the invariant.
LEMMA Inductive == OneAtATime /\ TypeOK /\ IInv /\ [Next]_vars => TypeOK' /\ IInv'
<1> SUFFICES ASSUME OneAtATime, TypeOK, IInv, [Next]_vars PROVE TypeOK' /\ IInv'
  OBVIOUS
<1>1. ASSUME NEW c \in Callers, NEW r \in setup.requests, Queue(c, r) PROVE TypeOK' /\ IInv'
  BY <1>1, QueueStep
<1>2. ASSUME NEW c \in Callers, Caller(c) PROVE TypeOK' /\ IInv'
  BY <1>2, QLockStep, QTestStep, QSetStep, QUnlockStep, QPostStep, QBusyStep,
       QReturnStep DEF Caller
<1>3. ASSUME NEW a \in setup.agents, Agent(a) PROVE TypeOK' /\ IInv'
  <2>1. a \in Agents
    BY SetupsAreSound DEF IInv, JobsInv
  <2>2. BootOutcomes \subseteq {"run", "error"}
    BY DEF BootOutcomes
  <2>3. CASE \E pc \in BootOutcomes : TopAutoBoot(a, pc)
    BY <2>1, <2>2, <2>3, TopAutoBootStep
  <2> QED BY <1>3, <2>1, <2>3, LockStep, TopIdleStep, TopUnlockStep, WaitStep, TakeStep,
        InvalidStep, ReturnStep, CallbackStep DEF Agent
<1>4. ASSUME NEW a \in setup.agents, Runner(a) PROVE TypeOK' /\ IInv'
  <2>1. a \in Agents
    BY SetupsAreSound DEF IInv, JobsInv
  <2> QED BY <1>4, <2>1, NotifyInitStep, CooperateStep DEF Runner
<1>5. CASE UNCHANGED vars
  <2>1. TypeOK'
    BY <1>5 DEF vars, shared, agentVars, callerVars, history, TypeOK
  <2>2. JobsInv' /\ PlacesInv' /\ AnsweredOnce' /\ Kept'
    BY <1>5 DEF vars, shared, history, IInv, JobsInv, AnswersOK, PlacesInv, Waits, Unanswered,
         AnsweredOnce, Kept
  <2>3. TidInv' /\ QueuingInv' /\ AloneInv' /\ SetInv'
    BY <1>5 DEF vars, shared, callerVars, history, IInv, TidInv, QueuingInv, AloneInv, SetInv,
         Waits, Unanswered, Queuing, Directed
  <2>4. AgentInv' /\ StartInv' /\ SemInv'
    BY <1>5 DEF vars, shared, agentVars, callerVars, IInv, AgentInv, StartInv, SemInv, Queuing
  <2> QED BY <2>1, <2>2, <2>3, <2>4 DEF IInv
<1> QED BY <1>1, <1>2, <1>3, <1>4, <1>5 DEF Next

------------------------------------------------------------------------------
\* With one caller and a patient host, the worker's and the callers' state is of
\* its type, for any number of workers and requests and any configuration.
THEOREM TypeCorrect == OneAtATime => (Spec => []TypeOK)
<1> SUFFICES ASSUME OneAtATime PROVE Spec => []TypeOK
  OBVIOUS
<1>1. Init => TypeOK /\ IInv
  BY Initial
<1>2. TypeOK /\ IInv /\ [Next]_vars => (TypeOK /\ IInv)'
  BY Inductive
<1> QED BY <1>1, <1>2, PTL DEF Spec

\* The invariant, of which the theorems below are parts.
LEMMA Invariant == OneAtATime => (Spec => []IInv)
<1> SUFFICES ASSUME OneAtATime PROVE Spec => []IInv
  OBVIOUS
<1>1. Init => TypeOK /\ IInv
  BY Initial
<1>2. TypeOK /\ IInv /\ [Next]_vars => (TypeOK /\ IInv)'
  BY Inductive
<1> QED BY <1>1, <1>2, PTL DEF Spec

\* No request gets two answers, although a job passes from the caller through
\* context and callback_context without a lock: it is always in one place only.
THEOREM OneAnswer == OneAtATime => (Spec => []AnsweredOnce)
<1> SUFFICES ASSUME OneAtATime PROVE Spec => []AnsweredOnce
  OBVIOUS
<1>1. IInv => AnsweredOnce
  BY DEF IInv
<1> QED BY <1>1, Invariant, PTL

\* The comment of worker_thread is right: when a runner returns without having
\* called notify_init, the job that it was started for has no answer.
THEOREM StartStaysAlive == OneAtATime => (Spec => []StartAlive)
<1> SUFFICES ASSUME OneAtATime PROVE Spec => []StartAlive
  OBVIOUS
<1>1. TypeOK /\ IInv => StartAlive
  <2> SUFFICES ASSUME TypeOK, IInv, NEW a \in Agents, apc[a] = "run", state[a] = "STARTING",
                      job[a] # NULL
               PROVE  answers[job[a]] = << >> /\ context[a] = job[a]
    BY DEF StartAlive
  <2>1. context[a] = job[a] /\ job[a] \in Jobs
    BY DEF TypeOK, IInv, StartInv
  <2> QED BY <2>1 DEF IInv, PlacesInv, Waits, Unanswered
<1> QED BY <1>1, TypeCorrect, Invariant, PTL

\* A job that queue has accepted is answered, or waits in a worker (without a boot
\* program).
THEOREM JobsAreKept == OneAtATime => (Spec => []Kept)
<1> SUFFICES ASSUME OneAtATime PROVE Spec => []Kept
  OBVIOUS
<1>1. IInv => Kept
  BY DEF IInv
<1> QED BY <1>1, Invariant, PTL
==============================================================================
