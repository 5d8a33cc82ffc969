------------------------------ MODULE RubicAgent ------------------------------
(***************************************************************************)
(* The worker threads of rubic_agent.c and the RPC method "rubic.queue".   *)
(* A "start" request is put into an idle worker, which runs a program      *)
(* through a runtime's runner; requests for a worker ("abort", "callback") *)
(* are put there too, and the runner picks them up when it calls           *)
(* cooperate.  Every request that queue accepts is an asynchronous RPC     *)
(* job, which somebody has to answer.                                      *)
(*                                                                         *)
(* A mutex protects a worker's state and context, but the worker comes     *)
(* round its loop without it after a spurious wakeup and after an invalid  *)
(* request, and unlocks it all the same; and the calls of the runner do    *)
(* not take it.                                                            *)
(***************************************************************************)
EXTENDS Integers, Sequences, BootJson

CONSTANTS WORKER_THREADS,   \* RUBIC_AGENT_WORKER_THREADS
          Callers,          \* RPC worker threads, which run queue
          MaxJobs,          \* bound: how many requests the host makes
          Setups,           \* the configurations, see below
          Patient           \* the host makes "start" only when nothing is unanswered

Agents == 0..(WORKER_THREADS - 1)
NULL == 0                   \* no job
NONE == -1                  \* no worker

\* valid: names a runtime and a program.
Requests == [name : {"start", "abort", "callback"}, tid : Agents \cup {NONE}, valid : BOOLEAN]

ASSUME AgentAssumption ==
    /\ WORKER_THREADS \in Nat \ {0} /\ MaxJobs \in Nat
    /\ Patient \in BOOLEAN
    /\ Setups \subseteq
          [agents : SUBSET Agents,        \* the worker threads that are started
           autoboot : BOOLEAN,            \* whether worker 0 runs the boot program
           jobs : 0..MaxJobs,             \* how many requests the host makes
           requests : SUBSET Requests]    \* what it may ask for

Jobs == 1..MaxJobs

VARIABLES
    setup,                 \* the configuration
    state, mutex, sem, context, callback_context,  \* of each worker
    apc, job,              \* of each worker: its pc, the job it took
    initialized,           \*   whether its runner has called notify_init
    qpc, tid, queuing,     \* of each caller: its pc, the worker, the job
    request,               \* request[j]: what job j asks for
    made,                  \* how many requests were made
    queued,                \* history: jobs that queue accepted
    answers,               \* history: answers[j]: the answers to job j
    ranOn                  \* history: the worker that ran job j

shared == <<state, mutex, sem, context, callback_context>>
agentVars == <<apc, job, initialized>>
callerVars == <<qpc, tid, queuing>>
history == <<queued, answers, ranOn>>
vars == <<setup, shared, agentVars, callerVars, request, made, history>>

Init ==
    /\ setup \in Setups
    /\ state = [a \in Agents |-> IF setup.autoboot /\ a = 0 THEN "AUTOBOOT" ELSE "IDLE"]
    /\ mutex = [a \in Agents |-> "free"] /\ sem = [a \in Agents |-> 0]
    /\ context = [a \in Agents |-> NULL] /\ callback_context = [a \in Agents |-> NULL]
    /\ apc = [a \in Agents |-> "lock"] /\ job = [a \in Agents |-> NULL]
    /\ initialized = [a \in Agents |-> FALSE]
    /\ qpc = [c \in Callers |-> "idle"] /\ tid = [c \in Callers |-> NONE]
    /\ queuing = [c \in Callers |-> NULL]
    /\ request = [j \in Jobs |-> [name |-> "start", tid |-> NONE, valid |-> TRUE]]
    /\ made = 0 /\ queued = {}
    /\ answers = [j \in Jobs |-> << >>] /\ ranOn = [j \in Jobs |-> NONE]

Goto(a, pc) == apc' = [apc EXCEPT ![a] = pc]
QGoto(c, pc) == qpc' = [qpc EXCEPT ![c] = pc]

\* pthread_mutex_unlock by a thread that does not own the mutex is undefined:
\* it may do nothing or release it all the same.
Unlock(a, thread) ==
    \/ mutex' = [mutex EXCEPT ![a] = "free"]
    \/ mutex[a] # thread /\ UNCHANGED mutex

\* peridot_rpc_server_async_callback
Answer(j, what) == answers' = [answers EXCEPT ![j] = Append(@, what)]

------------------------------------------------------------------------------
(* rubic_agent_method_queue in RPC worker thread c.                        *)

Queue(c, r) ==
    /\ qpc[c] = "idle" /\ made < setup.jobs
    /\ Patient /\ r.name = "start" => \A j \in 1..made : answers[j] # << >>
    /\ made' = made + 1
    /\ request' = [request EXCEPT ![made + 1] = r]
    /\ queuing' = [queuing EXCEPT ![c] = made + 1]
    /\ tid' = [tid EXCEPT ![c] = IF r.tid = NONE THEN 0 ELSE r.tid]
    /\ IF r.tid # NONE \/ r.name = "start"
         THEN QGoto(c, "lock") /\ UNCHANGED answers
         ELSE QGoto(c, "return") /\ Answer(made + 1, "error")
    /\ UNCHANGED <<setup, shared, agentVars, queued, ranOn>>

\* Whether the request names a worker; else the first idle one is looked for.
Directed(c) == request[queuing[c]].tid # NONE

QLock(c) ==
    /\ qpc[c] = "lock" /\ mutex[tid[c]] = "free"
    /\ mutex' = [mutex EXCEPT ![tid[c]] = c]
    /\ QGoto(c, "test")
    /\ UNCHANGED <<setup, state, sem, context, callback_context, agentVars, tid, queuing,
                   request, made, history>>

\* Mutant: a request that is waiting is not looked for.
QTestNot(c) ==
    /\ qpc[c] = "test"
    /\ QGoto(c, IF Directed(c) \/ state[tid[c]] = "IDLE" THEN "set" ELSE "busy")
    /\ UNCHANGED <<setup, shared, agentVars, tid, queuing, request, made, history>>

QTest(c) ==
    /\ qpc[c] = "test"
    /\ QGoto(c, IF IF Directed(c) THEN context[tid[c]] = NULL
                                  ELSE state[tid[c]] = "IDLE" THEN "set" ELSE "busy")
    /\ UNCHANGED <<setup, shared, agentVars, tid, queuing, request, made, history>>

\* The job is put into the worker, whatever was there.
QSet(c) ==
    /\ qpc[c] = "set"
    /\ context' = [context EXCEPT ![tid[c]] = queuing[c]]
    /\ state' = IF Directed(c) THEN state ELSE [state EXCEPT ![tid[c]] = "STARTING"]
    /\ queued' = queued \cup {queuing[c]}
    /\ QGoto(c, "unlock")
    /\ UNCHANGED <<setup, mutex, sem, callback_context, agentVars, tid, queuing, request,
                   made, answers, ranOn>>

QUnlock(c) ==
    /\ qpc[c] = "unlock"
    /\ Unlock(tid[c], c)
    /\ QGoto(c, "post")
    /\ UNCHANGED <<setup, state, sem, context, callback_context, agentVars, tid, queuing,
                   request, made, history>>

\* Mutant: the worker is not woken.
QPostNot(c) ==
    /\ qpc[c] = "post"
    /\ QGoto(c, "return")
    /\ UNCHANGED <<setup, shared, agentVars, tid, queuing, request, made, history>>

QPost(c) ==
    /\ qpc[c] = "post"
    /\ sem' = [sem EXCEPT ![tid[c]] = @ + 1]
    /\ QGoto(c, "return")
    /\ UNCHANGED <<setup, state, mutex, context, callback_context, agentVars, tid, queuing,
                   request, made, history>>

\* The next worker is tried, or there is none: EBUSY.
QBusy(c) ==
    /\ qpc[c] = "busy"
    /\ Unlock(tid[c], c)
    /\ IF ~ Directed(c) /\ tid[c] + 1 \in setup.agents
         THEN QGoto(c, "lock") /\ tid' = [tid EXCEPT ![c] = @ + 1] /\ UNCHANGED answers
         ELSE QGoto(c, "return") /\ Answer(queuing[c], "error") /\ UNCHANGED tid
    /\ UNCHANGED <<setup, state, sem, context, callback_context, agentVars, queuing, request,
                   made, queued, ranOn>>

QReturn(c) ==
    /\ qpc[c] = "return"
    /\ QGoto(c, "idle")
    /\ tid' = [tid EXCEPT ![c] = NONE] /\ queuing' = [queuing EXCEPT ![c] = NULL]
    /\ UNCHANGED <<setup, shared, agentVars, request, made, history>>

------------------------------------------------------------------------------
(* worker_thread of worker a.                                              *)

Lock(a) ==
    /\ apc[a] = "lock" /\ mutex[a] = "free"
    /\ mutex' = [mutex EXCEPT ![a] = "worker"]
    /\ Goto(a, "top")
    /\ UNCHANGED <<setup, state, sem, context, callback_context, job, initialized, callerVars,
                   request, made, history>>

\* The loop starts again: the worker is idle, or is to run the boot program,
\* if there is one (parse_boot_json).
TopIdle(a) ==
    /\ apc[a] = "top"
    /\ state' = [state EXCEPT ![a] = "IDLE"]
    /\ job' = [job EXCEPT ![a] = NULL]
    /\ initialized' = [initialized EXCEPT ![a] = FALSE]
    /\ Goto(a, IF state[a] = "AUTOBOOT" THEN "top" ELSE "unlock")
    /\ UNCHANGED <<setup, mutex, sem, context, callback_context, callerVars, request, made, history>>

\* What comes of a boot.json that names a file: a program that is run, or the
\* name of a runtime that does not exist.  A parser that has left its buffer may
\* find either, or nothing.
BootOutcomes ==
    LET parsed == {ParseBootJson(Written(object, << >>, comma)) : object \in BootObjects, comma \in Commas}
    IN UNION {CASE boot = Astray -> {"run", "error"}
                [] boot # Astray /\ boot.runtime = MISSING -> {"error"}
                [] OTHER -> {"run"} : boot \in parsed \ {BootNothing}}

TopAutoBoot(a, pc) ==
    /\ apc[a] = "top" /\ state[a] = "AUTOBOOT"
    /\ state' = [state EXCEPT ![a] = "STARTING"]
    /\ Unlock(a, "worker")
    /\ Goto(a, pc)
    /\ UNCHANGED <<setup, sem, context, callback_context, job, initialized, callerVars,
                   request, made, history>>

TopUnlock(a) ==
    /\ apc[a] = "unlock"
    /\ Unlock(a, "worker")
    /\ Goto(a, "wait")
    /\ UNCHANGED <<setup, state, sem, context, callback_context, job, initialized, callerVars,
                   request, made, history>>

Wait(a) ==
    /\ apc[a] = "wait" /\ sem[a] > 0
    /\ sem' = [sem EXCEPT ![a] = @ - 1]
    /\ Goto(a, "take")
    /\ UNCHANGED <<setup, state, mutex, context, callback_context, job, initialized,
                   callerVars, request, made, history>>

\* Between lock and unlock: load the context, whose request is then looked at.
Take(a) ==
    /\ apc[a] = "take" /\ mutex[a] = "free"
    /\ job' = [job EXCEPT ![a] = context[a]]
    /\ IF context[a] = NULL
         THEN Goto(a, "top") /\ UNCHANGED state
         ELSE /\ Goto(a, IF request[context[a]].valid THEN "run" ELSE "error")
              /\ state' = [state EXCEPT ![a] = "STARTING"]
    /\ UNCHANGED <<setup, mutex, sem, context, callback_context, initialized, callerVars,
                   request, made, history>>

\* reply_error: the job of "start", if there is one, fails.
ReplyError(a) ==
    /\ context' = [context EXCEPT ![a] = NULL]
    /\ IF job[a] = NULL THEN UNCHANGED answers ELSE Answer(job[a], "error")

\* "invalid request", without the mutex
Invalid(a) ==
    /\ apc[a] = "error"
    /\ ReplyError(a)
    /\ Goto(a, "callback")
    /\ UNCHANGED <<setup, state, mutex, sem, callback_context, job, initialized, callerVars,
                   request, made, queued, ranOn>>

\* The runner returns.
Return(a) ==
    /\ apc[a] = "run" /\ mutex[a] = "free"
    /\ mutex' = [mutex EXCEPT ![a] = "worker"]
    /\ IF state[a] = "STARTING" THEN ReplyError(a) ELSE UNCHANGED <<context, answers>>
    /\ Goto(a, "callback")
    /\ UNCHANGED <<setup, state, sem, callback_context, job, initialized, callerVars,
                   request, made, queued, ranOn>>

\* A callback request gets the result of the run.
Callback(a) ==
    /\ apc[a] = "callback"
    /\ callback_context' = [callback_context EXCEPT ![a] = NULL]
    /\ IF callback_context[a] = NULL THEN UNCHANGED answers
                                     ELSE Answer(callback_context[a], "result")
    /\ Goto(a, "top")
    /\ UNCHANGED <<setup, state, mutex, sem, context, job, initialized, callerVars, request,
                   made, queued, ranOn>>

------------------------------------------------------------------------------
(* What the runner calls, without the mutex.                               *)

\* Mutant: the state stays STARTING when there is no memory.
NotifyInitStarting(a, ok) ==
    /\ apc[a] = "run" /\ ~ initialized[a] /\ state[a] = "STARTING"
    /\ initialized' = [initialized EXCEPT ![a] = TRUE]
    /\ IF context[a] = NULL
         THEN UNCHANGED <<answers, ranOn>>
         ELSE /\ Answer(context[a], IF ok THEN "tid 0" ELSE "error")
              /\ ranOn' = [ranOn EXCEPT ![context[a]] = a]
    /\ context' = [context EXCEPT ![a] = NULL]
    /\ state' = IF ok THEN [state EXCEPT ![a] = "RUNNING"] ELSE state
    /\ UNCHANGED <<setup, mutex, sem, callback_context, apc, job, callerVars, request, made, queued>>

\* notify_init answers "start"; it fails if there is no memory.  thread_index,
\* which it reports, is zero in every worker.  For the boot program it gives the
\* callback no job, which finds no id in it and frees nothing.
NotifyInit(a, ok) ==
    /\ apc[a] = "run" /\ ~ initialized[a] /\ state[a] = "STARTING"
    /\ initialized' = [initialized EXCEPT ![a] = TRUE]
    /\ IF context[a] = NULL
         THEN UNCHANGED <<answers, ranOn>>
         ELSE /\ Answer(context[a], IF ok THEN "tid 0" ELSE "error")
              /\ ranOn' = [ranOn EXCEPT ![context[a]] = a]
    /\ context' = [context EXCEPT ![a] = NULL]
    /\ state' = [state EXCEPT ![a] = IF ok THEN "RUNNING" ELSE "FAILED"]
    /\ UNCHANGED <<setup, mutex, sem, callback_context, apc, job, callerVars, request, made, queued>>

\* Mutant: the context is not cleared.
CooperateKeeps(a) ==
    /\ apc[a] = "run" /\ initialized[a] /\ context[a] # NULL
    /\ request[context[a]].name = "abort"
    /\ state' = [state EXCEPT ![a] = "ABORTING"]
    /\ Answer(context[a], "null")
    /\ UNCHANGED <<setup, callback_context, mutex, sem, context, agentVars, callerVars, request,
                   made, queued, ranOn>>

Cooperate(a) ==
    /\ apc[a] = "run" /\ initialized[a] /\ context[a] # NULL
    /\ context' = [context EXCEPT ![a] = NULL]
    /\ LET name == request[context[a]].name IN
         \/ /\ name = "abort"
            /\ state' = [state EXCEPT ![a] = "ABORTING"]
            /\ Answer(context[a], "null")
            /\ UNCHANGED callback_context
         \/ /\ name = "callback" /\ callback_context[a] = NULL
            /\ callback_context' = [callback_context EXCEPT ![a] = context[a]]
            /\ UNCHANGED <<state, answers>>
         \/ /\ name = "start" \/ (name = "callback" /\ callback_context[a] # NULL)
            /\ Answer(context[a], "error")
            /\ UNCHANGED <<state, callback_context>>
    /\ UNCHANGED <<setup, mutex, sem, agentVars, callerVars, request, made, queued, ranOn>>

------------------------------------------------------------------------------
Caller(c) ==
    \/ QLock(c) \/ QTest(c) \/ QSet(c) \/ QUnlock(c) \/ QPost(c) \/ QBusy(c) \/ QReturn(c)

Agent(a) ==
    \/ Lock(a) \/ TopIdle(a) \/ TopUnlock(a) \/ Wait(a) \/ Take(a)
    \/ \E pc \in BootOutcomes : TopAutoBoot(a, pc)
    \/ Invalid(a) \/ Return(a) \/ Callback(a)

Runner(a) == (\E ok \in BOOLEAN : NotifyInit(a, ok)) \/ Cooperate(a)

Next ==
    \/ \E c \in Callers, r \in setup.requests : Queue(c, r)
    \/ \E c \in Callers : Caller(c)
    \/ \E a \in setup.agents : Agent(a) \/ Runner(a)

Spec == Init /\ [][Next]_vars

\* The threads are scheduled, and the programs that are run end.
FairSpec ==
    /\ Spec
    /\ \A c \in Callers : WF_vars(Caller(c))
    /\ \A a \in Agents : SF_vars(a \in setup.agents /\ Agent(a))

------------------------------------------------------------------------------
TypeOK ==
    /\ state \in [Agents -> {"IDLE", "STARTING", "RUNNING", "ABORTING", "FAILED", "AUTOBOOT"}]
    /\ mutex \in [Agents -> {"free", "worker"} \cup Callers]
    /\ sem \in [Agents -> 0..MaxJobs]
    /\ context \in [Agents -> Jobs \cup {NULL}]
    /\ callback_context \in [Agents -> Jobs \cup {NULL}]
    /\ apc \in [Agents -> {"lock", "top", "unlock", "wait", "take", "run", "error", "callback"}]
    /\ job \in [Agents -> Jobs \cup {NULL}] /\ initialized \in [Agents -> BOOLEAN]
    /\ qpc \in [Callers -> {"idle", "lock", "test", "set", "unlock", "post", "busy", "return"}]
    /\ tid \in [Callers -> Agents \cup {NONE}] /\ queuing \in [Callers -> Jobs \cup {NULL}]
    /\ made \in 0..MaxJobs /\ queued \subseteq Jobs

\* No request is answered twice, although the runner takes requests out of
\* context without the mutex and the worker may take one again after the run.
AnsweredOnce == \A j \in Jobs : Len(answers[j]) <= 1

\* "context for "start" still alive": when a runner returns in state STARTING,
\* the job that it was started for has not been answered, so that it may be.
StartAlive ==
    \A a \in Agents : apc[a] = "run" /\ state[a] = "STARTING" /\ job[a] # NULL
        => answers[job[a]] = << >> /\ context[a] = job[a]

\* "Job will free by async_callback": a job that queue has accepted stays in
\* somebody's hands until it is answered.
\* (Except one that waits while the boot program fails to start.)
Kept ==
    ~ setup.autoboot => \A j \in queued :
        \/ answers[j] # << >>
        \/ \E a \in Agents : context[a] = j \/ callback_context[a] = j

\* Every request is answered, if there is no boot program.
JobsAnswered == \A j \in Jobs : ~ setup.autoboot /\ j \in queued ~> answers[j] # << >>

\* A worker that is about to boot runs what boot.json asks for, or nothing:
\* whatever was in the buffer before the file, and whatever its strings and other
\* values look like.  A file that was cut off runs nothing, unless it fills the
\* buffer and ends there right behind a backslash, a colon or a string: for those
\* the parser goes on behind its buffer, and nothing is claimed.
BootsRight ==
    \A a \in Agents : apc[a] = "top" /\ state[a] = "AUTOBOOT" => AllBootAsWritten

\* An object that names a file boots it.
BootsWhatIsNamed ==
    \A a \in Agents : apc[a] = "top" /\ state[a] = "AUTOBOOT" =>
        \A object \in BootObjects : ParseBootJson(Written(object, << >>, Comma)) = Asked(object)

\* "Abort request always succeeds with "null" response", if it is accepted.
AbortSucceeds ==
    \A j \in queued : request[j].name = "abort" => answers[j] \in {<< >>, <<"null">>}

\* "Queue request to specific worker thread": the thread that "start" reports is
\* the one that runs the program.
TidIsRight ==
    \A j \in Jobs : answers[j] = <<"tid 0">> => ranOn[j] = 0
==============================================================================
