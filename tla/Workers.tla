------------------------------ MODULE Workers ------------------------------
(***************************************************************************)
(* ThreadPool, ConcurrentQueue and WaitGroup working together. A main      *)
(* thread counts NTasks tasks into a wait group, enqueues them, waits for  *)
(* the group and destroys the pool, while another thread enqueues one more *)
(* task at any time. A task pushes a result to a concurrent queue and then *)
(* calls done(); consumers take the results with wait_and_pop.             *)
(*                                                                         *)
(* What a function does under its mutex is one step. A thread that waits   *)
(* on a condition variable is "blocked" until it is notified or wakes up   *)
(* spuriously; then it evaluates the condition again.                      *)
(***************************************************************************)
EXTENDS Integers, Sequences, FiniteSets

CONSTANTS PoolThreads,  \* the threads in workers_
          Consumers,    \* the threads that pop results
          NTasks,       \* how many tasks the main thread enqueues
          Quota         \* how many results each consumer takes

ASSUME WorkersAssumption == /\ IsFiniteSet(PoolThreads) /\ IsFiniteSet(Consumers)
                            /\ NTasks \in Nat \ {0} /\ Quota \in Nat

LateTask == NTasks + 1
Tasks == 1..LateTask

VARIABLES
    mainPc,   \* the next step of the main thread
    sent,     \* how many tasks it has enqueued
    latePc,   \* the next step of the thread with the late task
    poolPc,   \* the next step of each pool thread
    job,      \* the task that it has taken (0: none)
    tasks,    \* tasks_ of the pool
    stopped,  \* stop_
    counter,  \* counter_ of the wait group
    results,  \* queue_ of the concurrent queue
    consPc,   \* the next step of each consumer
    taken,    \* the results that each consumer has popped
    ran       \* history: how often each task has been run

pool == <<poolPc, job, tasks, stopped, ran>>
queue == <<results, consPc, taken>>
workersVars == <<mainPc, sent, latePc, counter, pool, queue>>

WorkersInit == /\ mainPc = "add" /\ sent = 0 /\ latePc = "enqueue"
               /\ poolPc = [t \in PoolThreads |-> "check"]
               /\ job = [t \in PoolThreads |-> 0]
               /\ tasks = <<>> /\ stopped = FALSE
               /\ counter = 0
               /\ results = <<>>
               /\ consPc = [c \in Consumers |-> "check"]
               /\ taken = [c \in Consumers |-> <<>>]
               /\ ran = [x \in Tasks |-> 0]

-----------------------------------------------------------------------------
(* Condition variables: the blocked threads of pc that a notification wakes.*)
NotifyOne(pc) == LET blocked == {t \in DOMAIN pc : pc[t] = "blocked"}
                 IN  IF blocked = {} THEN {pc}
                     ELSE {[pc EXCEPT ![t] = "check"] : t \in blocked}

NotifyAll(pc) == [t \in DOMAIN pc |-> IF pc[t] = "blocked" THEN "check" ELSE pc[t]]

-----------------------------------------------------------------------------
(* WaitGroup. add() and done() wake the main thread at zero.                *)
AtZero(pc) == IF counter' = 0 /\ pc = "blocked" THEN "wait" ELSE pc

Add == /\ mainPc = "add" /\ mainPc' = "enqueue"
       /\ counter' = counter + NTasks
       /\ UNCHANGED <<sent, latePc, pool, queue>>

Done(t) == /\ poolPc[t] = "done" /\ counter > 0
           /\ counter' = counter - 1
           /\ mainPc' = AtZero(mainPc)
           /\ poolPc' = [poolPc EXCEPT ![t] = "check"]
           /\ UNCHANGED <<sent, latePc, job, tasks, stopped, ran, queue>>

\* Variant: wait() lets one task be outstanding.
WaitForAllButOne == /\ mainPc = "wait"
                    /\ mainPc' = IF counter <= 1 THEN "stop" ELSE "blocked"
                    /\ UNCHANGED <<sent, latePc, counter, pool, queue>>

Wait == /\ mainPc = "wait"
        /\ mainPc' = IF counter = 0 THEN "stop" ELSE "blocked"
        /\ UNCHANGED <<sent, latePc, counter, pool, queue>>

-----------------------------------------------------------------------------
(* ThreadPool::enqueue: under the mutex, then the notification. It throws   *)
(* if the pool is stopped.                                                  *)
Enqueue == /\ mainPc = "enqueue" /\ ~stopped
           /\ tasks' = Append(tasks, sent + 1)
           /\ sent' = sent + 1
           /\ mainPc' = "notify"
           /\ UNCHANGED <<latePc, counter, poolPc, job, stopped, ran, queue>>

EnqueueNotify == /\ mainPc = "notify"
                 /\ mainPc' = IF sent < NTasks THEN "enqueue" ELSE "wait"
                 /\ poolPc' \in NotifyOne(poolPc)
                 /\ UNCHANGED <<sent, latePc, counter, job, tasks, stopped, ran, queue>>

EnqueueLate == /\ latePc = "enqueue" /\ mainPc # "end"
               /\ IF stopped
                  THEN latePc' = "threw" /\ UNCHANGED tasks
                  ELSE latePc' = "notify" /\ tasks' = Append(tasks, LateTask)
               /\ UNCHANGED <<mainPc, sent, counter, poolPc, job, stopped, ran, queue>>

EnqueueLateNotify == /\ latePc = "notify" /\ latePc' = "accepted"
                     /\ poolPc' \in NotifyOne(poolPc)
                     /\ UNCHANGED <<mainPc, sent, counter, job, tasks, stopped, ran, queue>>

\* Variant: a stopped pool leaves its remaining tasks.
TakeUntilStopped(t) ==
    /\ poolPc[t] = "check"
    /\ IF stopped
       THEN poolPc' = [poolPc EXCEPT ![t] = "exit"] /\ UNCHANGED <<job, tasks>>
       ELSE IF tasks = <<>>
       THEN poolPc' = [poolPc EXCEPT ![t] = "blocked"] /\ UNCHANGED <<job, tasks>>
       ELSE /\ poolPc' = [poolPc EXCEPT ![t] = "run"]
            /\ job' = [job EXCEPT ![t] = Head(tasks)]
            /\ tasks' = Tail(tasks)
    /\ UNCHANGED <<mainPc, sent, latePc, counter, stopped, ran, queue>>

(* The loop of a pool thread: wait for a task or the stop; leave if stopped *)
(* and nothing is left; otherwise take the first task and run it.           *)
Take(t) ==
    /\ poolPc[t] = "check"
    /\ IF ~stopped /\ tasks = <<>>
       THEN poolPc' = [poolPc EXCEPT ![t] = "blocked"] /\ UNCHANGED <<job, tasks>>
       ELSE IF tasks = <<>>
       THEN poolPc' = [poolPc EXCEPT ![t] = "exit"] /\ UNCHANGED <<job, tasks>>
       ELSE /\ poolPc' = [poolPc EXCEPT ![t] = "run"]
            /\ job' = [job EXCEPT ![t] = Head(tasks)]
            /\ tasks' = Tail(tasks)
    /\ UNCHANGED <<mainPc, sent, latePc, counter, stopped, ran, queue>>

(* ~ThreadPool: set the flag under the mutex, notify all, join all.         *)
Stop == /\ mainPc = "stop" /\ mainPc' = "notifyall"
        /\ stopped' = TRUE
        /\ UNCHANGED <<sent, latePc, counter, poolPc, job, tasks, ran, queue>>

\* Variant: the destructor notifies one thread.
StopNotifyOne == /\ mainPc = "notifyall" /\ mainPc' = "join"
                 /\ poolPc' \in NotifyOne(poolPc)
                 /\ UNCHANGED <<sent, latePc, counter, job, tasks, stopped, ran, queue>>

StopNotify == /\ mainPc = "notifyall" /\ mainPc' = "join"
              /\ poolPc' = NotifyAll(poolPc)
              /\ UNCHANGED <<sent, latePc, counter, job, tasks, stopped, ran, queue>>

Join == /\ mainPc = "join" /\ \A t \in PoolThreads : poolPc[t] = "exit"
        /\ mainPc' = "end"
        /\ UNCHANGED <<sent, latePc, counter, pool, queue>>

-----------------------------------------------------------------------------
(* ConcurrentQueue. A task pushes its result, and notifies after the mutex  *)
(* is released; the late task does nothing.                                 *)
Push(t) == /\ poolPc[t] = "run"
           /\ ran' = [ran EXCEPT ![job[t]] = @ + 1]
           /\ job' = [job EXCEPT ![t] = 0]
           /\ IF job[t] = LateTask
              THEN poolPc' = [poolPc EXCEPT ![t] = "check"] /\ UNCHANGED results
              ELSE /\ poolPc' = [poolPc EXCEPT ![t] = "pushed"]
                   /\ results' = Append(results, job[t])
           /\ UNCHANGED <<mainPc, sent, latePc, counter, tasks, stopped, consPc, taken>>

\* Variant: push() does not notify.
PushQuietly(t) == /\ poolPc[t] = "pushed"
                  /\ poolPc' = [poolPc EXCEPT ![t] = "done"]
                  /\ UNCHANGED <<mainPc, sent, latePc, counter, job, tasks, stopped, ran, queue>>

PushNotify(t) == /\ poolPc[t] = "pushed"
                 /\ poolPc' = [poolPc EXCEPT ![t] = "done"]
                 /\ consPc' \in NotifyOne(consPc)
                 /\ UNCHANGED <<mainPc, sent, latePc, counter, job, tasks, stopped, ran,
                                results, taken>>

WaitAndPop(c) ==
    /\ consPc[c] = "check" /\ Len(taken[c]) < Quota
    /\ IF results = <<>>
       THEN consPc' = [consPc EXCEPT ![c] = "blocked"] /\ UNCHANGED <<results, taken>>
       ELSE /\ taken' = [taken EXCEPT ![c] = Append(@, Head(results))]
            /\ results' = Tail(results)
            /\ UNCHANGED consPc
    /\ UNCHANGED <<mainPc, sent, latePc, counter, pool>>

(* try_pop, which a consumer may use instead; it has no effect on an empty  *)
(* queue.                                                                   *)
TryPop(c) ==
    /\ consPc[c] = "check" /\ Len(taken[c]) < Quota /\ results # <<>>
    /\ taken' = [taken EXCEPT ![c] = Append(@, Head(results))]
    /\ results' = Tail(results)
    /\ UNCHANGED <<mainPc, sent, latePc, counter, pool, consPc>>

SpuriousWakeup ==
    \/ /\ mainPc = "blocked" /\ mainPc' = "wait"
       /\ UNCHANGED <<sent, latePc, counter, pool, queue>>
    \/ /\ \E t \in PoolThreads : poolPc[t] = "blocked" /\ poolPc' = [poolPc EXCEPT ![t] = "check"]
       /\ UNCHANGED <<mainPc, sent, latePc, counter, job, tasks, stopped, ran, queue>>
    \/ /\ \E c \in Consumers : consPc[c] = "blocked" /\ consPc' = [consPc EXCEPT ![c] = "check"]
       /\ UNCHANGED <<mainPc, sent, latePc, counter, pool, results, taken>>

-----------------------------------------------------------------------------
MainThread == Add \/ Wait \/ Enqueue \/ EnqueueNotify \/ Stop \/ StopNotify \/ Join
PoolThread(t) == Take(t) \/ Push(t) \/ PushNotify(t) \/ Done(t)

WorkersNext == \/ MainThread
               \/ EnqueueLate \/ EnqueueLateNotify
               \/ \E t \in PoolThreads : PoolThread(t)
               \/ \E c \in Consumers : WaitAndPop(c) \/ TryPop(c)
               \/ SpuriousWakeup

WorkersSpec == WorkersInit /\ [][WorkersNext]_workersVars

-----------------------------------------------------------------------------
(* wait() returns only when every counted task has called done(), and so    *)
(* has pushed its result; no result is popped twice or lost.                *)
WaitMeansDone ==
    mainPc \in {"stop", "notifyall", "join", "end"} =>
        \A x \in 1..NTasks :
            Cardinality({i \in DOMAIN results : results[i] = x})
            + Cardinality({p \in Consumers \X (1..Quota) :
                             p[2] <= Len(taken[p[1]]) /\ taken[p[1]][p[2]] = x}) = 1

(* A task that was accepted is run, although the pool is being destroyed    *)
(* and notifications may find nobody waiting.                               *)
AcceptedTaskRuns == (latePc = "accepted") ~> (ran[LateTask] = 1)

(* wait() and the destructor return: nobody sleeps through the notification *)
(* that is meant for it.                                                    *)
PoolShutsDown == (mainPc = "enqueue") ~> (mainPc = "end")

(* Consumers get their results: wait_and_pop does not sleep while there is  *)
(* something to pop.                                                        *)
ResultsArrive == \A c \in Consumers : (mainPc = "enqueue") ~> (Len(taken[c]) = Quota)

-----------------------------------------------------------------------------
(* The inductive invariant behind WaitMeansDone.                            *)
WorkersTypes ==
    /\ mainPc \in {"add", "enqueue", "notify", "wait", "blocked", "stop", "notifyall", "join", "end"}
    /\ sent \in 0..NTasks /\ latePc \in {"enqueue", "notify", "accepted", "threw"}
    /\ poolPc \in [PoolThreads -> {"check", "blocked", "run", "pushed", "done", "exit"}]
    /\ job \in [PoolThreads -> 0..LateTask] /\ tasks \in Seq(Tasks)
    /\ counter \in Nat /\ ran \in [Tasks -> {0, 1}]
    /\ results \in Seq(1..NTasks) /\ taken \in [Consumers -> Seq(1..NTasks)]
    /\ consPc \in [Consumers -> {"check", "blocked"}]

Holds(s, x) == \E i \in DOMAIN s : s[i] = x
NoRepeat(s) == \A i, j \in DOMAIN s : s[i] = s[j] => i = j

(* A task is in one place until it has run, and only if it was enqueued.    *)
Enqueued(x) == x <= sent \/ (x = LateTask /\ latePc # "enqueue")

TaskInv ==
    /\ NoRepeat(tasks)
    /\ \A x \in Tasks : Holds(tasks, x) => ran[x] = 0 /\ Enqueued(x)
    /\ \A x \in Tasks : ran[x] # 0 => Enqueued(x)
    /\ \A t \in PoolThreads : poolPc[t] = "run" =>
          /\ job[t] \in Tasks /\ ran[job[t]] = 0 /\ Enqueued(job[t]) /\ ~Holds(tasks, job[t])
          /\ \A u \in PoolThreads : poolPc[u] = "run" /\ job[u] = job[t] => u = t

(* A result is in one place from when its task has run.                     *)
ResultInv ==
    /\ NoRepeat(results)
    /\ \A c \in Consumers :
          /\ NoRepeat(taken[c]) /\ Len(taken[c]) <= Quota
          /\ \A x \in 1..NTasks : Holds(taken[c], x) =>
                ~Holds(results, x) /\ \A d \in Consumers : Holds(taken[d], x) => d = c
    /\ \A x \in 1..NTasks :
          ran[x] # 0 <=> Holds(results, x) \/ \E c \in Consumers : Holds(taken[c], x)

(* The wait group counts the tasks that are to run or to call done().       *)
Outstanding == {x \in 1..NTasks : ran[x] = 0}
Pushing == {t \in PoolThreads : poolPc[t] \in {"pushed", "done"}}

CountInv ==
    /\ mainPc = "add" => sent = 0 /\ counter = 0 /\ Pushing = {}
    /\ mainPc # "add" => counter = Cardinality(Outstanding) + Cardinality(Pushing)
    /\ mainPc = "enqueue" => sent < NTasks
    /\ mainPc \in {"stop", "notifyall", "join", "end"} => counter = 0

WorkersInv == WorkersTypes /\ TaskInv /\ ResultInv /\ CountInv

-----------------------------------------------------------------------------
Awake(t) == poolPc[t] \in {"check", "run", "pushed", "done"}
Asleep == {t \in PoolThreads : poolPc[t] = "blocked"}
Pushed == {t \in PoolThreads : poolPc[t] = "pushed"}
Ready == {c \in Consumers : consPc[c] = "check" /\ Len(taken[c]) < Quota}
AsleepInPop == {c \in Consumers : consPc[c] = "blocked"}

(* Notifications are sent outside the mutexes, and yet nobody sleeps while  *)
(* nobody is left to wake it: while wait() sleeps, a thread of the pool is  *)
(* awake or about to be notified, and while ~ThreadPool joins, the threads  *)
(* that have not ended are awake. While a consumer sleeps in wait_and_pop,  *)
(* every result in the queue has a notification to come or another consumer *)
(* that is about to pop. This is what the liveness of the pool rests on.    *)
NobodySleepsOn ==
    /\ mainPc = "blocked" =>
          PoolThreads = {} \/ latePc = "notify" \/ \E t \in PoolThreads : Awake(t)
    /\ mainPc = "join" => \A t \in PoolThreads : Awake(t) \/ poolPc[t] = "exit"
    /\ AsleepInPop # {} => Len(results) <= Cardinality(Pushed) + Cardinality(Ready)

(* The inductive invariant behind it: who is still to be notified of a      *)
(* task, of the stop, of the counter and of a result.                       *)
TasksNoticed ==
    tasks # <<>> /\ Asleep # {} =>
        mainPc = "notify" \/ latePc = "notify" \/ \E t \in PoolThreads : Awake(t)

StopNoticed == stopped /\ Asleep # {} => mainPc = "notifyall"

ZeroNoticed == mainPc = "blocked" => counter # 0

ResultsNoticed ==
    /\ AsleepInPop # {} => Len(results) <= Cardinality(Pushed) + Cardinality(Ready)
    /\ \A c \in AsleepInPop : Len(taken[c]) < Quota

(* Threads end when nothing is left and nothing more is accepted; what was  *)
(* enqueued is in the queue, with a thread, or has run.                     *)
EndInv ==
    /\ stopped <=> mainPc \in {"notifyall", "join", "end"}
    /\ mainPc \in {"wait", "blocked"} => sent = NTasks
    /\ \A t \in PoolThreads : poolPc[t] = "exit" => stopped /\ tasks = <<>>

Somewhere(x) == \/ Holds(tasks, x) \/ ran[x] # 0
                \/ \E t \in PoolThreads : poolPc[t] = "run" /\ job[t] = x

PlaceInv == \A x \in 1..NTasks : x <= sent => Somewhere(x)

WakeInv == TasksNoticed /\ StopNoticed /\ ZeroNoticed /\ ResultsNoticed /\ EndInv /\ PlaceInv
=============================================================================
