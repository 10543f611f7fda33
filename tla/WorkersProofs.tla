---------------------------- MODULE WorkersProofs ----------------------------
(***************************************************************************)
(* For any number of pool threads, consumers and tasks: when wait() of the *)
(* wait group has returned, the result of every counted task is in the     *)
(* queue or has been popped, once. WorkersInv says where each task and     *)
(* each result is and what the wait group counts; the steps that move      *)
(* neither a task nor a result preserve it for one reason, Still. And      *)
(* nobody sleeps while nobody is left to wake it: WakeInv says which       *)
(* notification is still to come.                                          *)
(***************************************************************************)
EXTENDS Workers, FiniteSetTheorems, TLAPS

-----------------------------------------------------------------------------
(* ThreadPool, ConcurrentQueue and WaitGroup.                               *)

LEMMA AppendHolds ==
    ASSUME NEW S, NEW s \in Seq(S), NEW y \in S
    PROVE  /\ \A x : Holds(Append(s, y), x) <=> Holds(s, x) \/ x = y
           /\ NoRepeat(s) /\ ~Holds(s, y) => NoRepeat(Append(s, y))
<1> DEFINE a == Append(s, y)
           n == Len(s)
<1>1. /\ n \in Nat /\ DOMAIN s = 1..n /\ DOMAIN a = 1..(n + 1)
      /\ a[n + 1] = y /\ \A i \in 1..n : a[i] = s[i]
  OBVIOUS
<1>2. 1..(n + 1) = (1..n) \cup {n + 1}
  BY <1>1
<1> HIDE DEF a, n
<1>3. \A x : Holds(a, x) <=> Holds(s, x) \/ x = y
  BY <1>1, <1>2, Zenon DEF Holds
<1>4. ASSUME NoRepeat(s), ~Holds(s, y), NEW i \in DOMAIN a, NEW j \in DOMAIN a, a[i] = a[j]
      PROVE  i = j
  <2>1. CASE i \in 1..n /\ j \in 1..n
    BY <1>1, <1>4, <2>1, Zenon DEF NoRepeat
  <2>2. CASE i \in 1..n /\ j = n + 1
    BY <1>1, <1>4, <2>2, Zenon DEF Holds
  <2>3. CASE i = n + 1 /\ j \in 1..n
    BY <1>1, <1>4, <2>3, Zenon DEF Holds
  <2>4. (i \in 1..n \/ i = n + 1) /\ (j \in 1..n \/ j = n + 1)
    BY <1>1, <1>2, Zenon
  <2> QED BY <2>1, <2>2, <2>3, <2>4, Zenon
<1>5. NoRepeat(s) /\ ~Holds(s, y) => NoRepeat(a)
  BY <1>4, Zenon DEF NoRepeat
<1> QED BY <1>3, <1>5, Zenon DEF a

LEMMA TailHolds ==
    ASSUME NEW S, NEW s \in Seq(S), s # <<>>
    PROVE  /\ Head(s) \in S /\ Tail(s) \in Seq(S)
           /\ \A x : Holds(s, x) <=> Holds(Tail(s), x) \/ x = Head(s)
           /\ NoRepeat(s) => NoRepeat(Tail(s)) /\ ~Holds(Tail(s), Head(s))
<1> DEFINE r == Tail(s)
           h == Head(s)
           n == Len(r)
<1>1. /\ n \in Nat /\ DOMAIN r = 1..n /\ DOMAIN s = 1..(n + 1) /\ h = s[1]
      /\ \A i \in 1..n : r[i] = s[i + 1] /\ i + 1 \in 1..(n + 1) /\ i + 1 # 1
      /\ 1 \in 1..(n + 1)
      /\ h \in S /\ r \in Seq(S)
  OBVIOUS
<1>2. \A i \in 1..(n + 1) : i = 1 \/ \E j \in 1..n : i = j + 1
  <2> SUFFICES ASSUME NEW i \in 1..(n + 1), i # 1 PROVE \E j \in 1..n : i = j + 1
    OBVIOUS
  <2>1. i - 1 \in 1..n /\ i = (i - 1) + 1
    BY <1>1
  <2> QED BY <2>1
<1>3. \A i, j \in 1..n : i + 1 = j + 1 => i = j
  BY <1>1
<1> HIDE DEF r, h, n
<1>4. \A x : Holds(s, x) <=> Holds(r, x) \/ x = h
  <2>1. ASSUME NEW i \in DOMAIN s PROVE Holds(r, s[i]) \/ s[i] = h
    <3>1. CASE i = 1
      BY <1>1, <3>1, Zenon
    <3>2. CASE i # 1
      <4>1. PICK j \in 1..n : i = j + 1
        BY <1>1, <1>2, <3>2, Zenon
      <4> QED BY <1>1, <4>1, Zenon DEF Holds
    <3> QED BY <3>1, <3>2
  <2>2. Holds(s, h) /\ \A i \in DOMAIN r : Holds(s, r[i])
    BY <1>1, Zenon DEF Holds
  <2> QED BY <2>1, <2>2, Zenon DEF Holds
<1>5. NoRepeat(s) => NoRepeat(r)
  BY <1>1, <1>3, Zenon DEF NoRepeat
<1>6. NoRepeat(s) => ~Holds(r, h)
  BY <1>1, Zenon DEF NoRepeat, Holds
<1> QED BY <1>1, <1>4, <1>5, <1>6, Zenon DEF r, h

(* Steps that move no task and no result.                                   *)
Still ==
    /\ UNCHANGED <<sent, job, tasks, ran, results, taken, counter>>
    /\ latePc # "enqueue" => latePc' # "enqueue"
    /\ mainPc' = "add" <=> mainPc = "add"
    /\ mainPc' = "enqueue" => sent < NTasks
    /\ mainPc' \in {"stop", "notifyall", "join", "end"} => counter = 0
    /\ \A t \in PoolThreads :
          /\ poolPc'[t] = "run" <=> poolPc[t] = "run"
          /\ poolPc'[t] \in {"pushed", "done"} <=> poolPc[t] \in {"pushed", "done"}

LEMMA QuietStep == WorkersInv /\ WorkersTypes' /\ Still => WorkersInv'
<1> SUFFICES ASSUME WorkersInv, WorkersTypes', Still PROVE WorkersInv'
  OBVIOUS
<1>1. \A x : Enqueued(x) => Enqueued(x)'
  BY Zenon DEF Still, Enqueued
<1>3. TaskInv'
  <2>1. /\ \A x : Holds(tasks, x)' <=> Holds(tasks, x)
        /\ NoRepeat(tasks)' <=> NoRepeat(tasks)
    BY DEF Still, Holds, NoRepeat
  <2>2. ran' = ran /\ job' = job /\ \A t \in PoolThreads : poolPc'[t] = "run" <=> poolPc[t] = "run"
    BY DEF Still
  <2> QED BY <1>1, <2>1, <2>2 DEF WorkersInv, TaskInv
<1>4. ResultInv'
  <2>1. results' = results /\ taken' = taken /\ ran' = ran
    BY DEF Still
  <2> QED BY <2>1 DEF WorkersInv, ResultInv, Holds, NoRepeat
<1>5. Outstanding' = Outstanding /\ Pushing' = Pushing
  BY Zenon DEF Still, Outstanding, Pushing
<1>6. CountInv'
  BY <1>5, Zenon DEF WorkersInv, CountInv, Still
<1> QED BY <1>3, <1>4, <1>6, Zenon DEF WorkersInv

(* A notification wakes blocked threads only.                               *)
LEMMA Notified ==
    ASSUME NEW S, NEW P, "check" \in P, NEW pc \in [S -> P], NEW q,
           q \in NotifyOne(pc) \/ q = NotifyAll(pc)
    PROVE  q \in [S -> P] /\ \A t \in S : q[t] = pc[t] \/ (pc[t] = "blocked" /\ q[t] = "check")
<1>1. CASE q \in NotifyOne(pc)
  <2>1. q = pc \/ \E t \in S : pc[t] = "blocked" /\ q = [pc EXCEPT ![t] = "check"]
    BY <1>1 DEF NotifyOne
  <2> QED BY <2>1
<1>2. CASE q = NotifyAll(pc)
  BY <1>2 DEF NotifyAll
<1> QED BY <1>1, <1>2

LEMMA MainQuiet ==
    ASSUME WorkersInv, Wait \/ Stop \/ Join \/ EnqueueNotify \/ StopNotify \/ EnqueueLateNotify
    PROVE  WorkersInv'
<1> DEFINE P == {"check", "blocked", "run", "pushed", "done", "exit"}
<1>1. WorkersTypes /\ CountInv /\ poolPc \in [PoolThreads -> P]
  BY DEF WorkersInv, WorkersTypes
<1>2. /\ poolPc' \in [PoolThreads -> P]
      /\ \A t \in PoolThreads : poolPc'[t] = poolPc[t]
                                 \/ (poolPc[t] = "blocked" /\ poolPc'[t] = "check")
  <2>1. poolPc' = poolPc \/ poolPc' \in NotifyOne(poolPc) \/ poolPc' = NotifyAll(poolPc)
    BY DEF Wait, Stop, Join, EnqueueNotify, StopNotify, EnqueueLateNotify, pool
  <2>2. "check" \in P
    OBVIOUS
  <2> HIDE DEF P
  <2> QED BY <1>1, <2>1, <2>2, Notified
<1>3. /\ UNCHANGED <<sent, job, tasks, ran, results, taken, counter, consPc>>
      /\ \/ latePc' = latePc
         \/ latePc' = "accepted"
  BY DEF Wait, Stop, Join, EnqueueNotify, StopNotify, EnqueueLateNotify, pool, queue
<1>4. /\ mainPc' = mainPc \/ mainPc' \in {"stop", "blocked", "notifyall", "end", "enqueue", "wait", "join"}
      /\ mainPc' = "add" <=> mainPc = "add"
      /\ mainPc' = "enqueue" => sent < NTasks
      /\ mainPc' \in {"stop", "notifyall", "join", "end"} => counter = 0
  BY <1>1 DEF Wait, Stop, Join, EnqueueNotify, StopNotify, EnqueueLateNotify, CountInv
<1>5. WorkersTypes'
  BY <1>1, <1>2, <1>3, <1>4 DEF WorkersTypes
<1>6. Still
  BY <1>2, <1>3, <1>4 DEF Still
<1> QED BY <1>5, <1>6, QuietStep

LEMMA OtherQuiet ==
    ASSUME WorkersInv, SpuriousWakeup \/ \E t \in PoolThreads : PushNotify(t)
    PROVE  WorkersInv'
<1> DEFINE P == {"check", "blocked", "run", "pushed", "done", "exit"}
<1>1. WorkersTypes /\ CountInv /\ poolPc \in [PoolThreads -> P]
      /\ consPc \in [Consumers -> {"check", "blocked"}]
  BY DEF WorkersInv, WorkersTypes
<1>2. /\ UNCHANGED <<sent, job, tasks, ran, results, taken, counter, latePc>>
      /\ mainPc' = mainPc \/ (mainPc = "blocked" /\ mainPc' = "wait")
  BY DEF SpuriousWakeup, PushNotify, pool, queue
<1>3. /\ poolPc' \in [PoolThreads -> P]
      /\ \A t \in PoolThreads : \/ poolPc'[t] = poolPc[t]
                                \/ poolPc[t] = "blocked" /\ poolPc'[t] = "check"
                                \/ poolPc[t] = "pushed" /\ poolPc'[t] = "done"
  <2>1. \/ poolPc' = poolPc
        \/ \E t \in PoolThreads : poolPc[t] = "blocked" /\ poolPc' = [poolPc EXCEPT ![t] = "check"]
        \/ \E t \in PoolThreads : poolPc[t] = "pushed" /\ poolPc' = [poolPc EXCEPT ![t] = "done"]
    BY DEF SpuriousWakeup, PushNotify, pool
  <2> QED BY <1>1, <2>1
<1>4. consPc' \in [Consumers -> {"check", "blocked"}]
  <2>1. consPc' = consPc \/ consPc' \in NotifyOne(consPc)
          \/ \E c \in Consumers : consPc' = [consPc EXCEPT ![c] = "check"]
    BY DEF SpuriousWakeup, PushNotify, queue
  <2> QED BY <1>1, <2>1, Notified, ZenonT(40)
<1>5. WorkersTypes'
  BY <1>1, <1>2, <1>3, <1>4 DEF WorkersTypes
<1>6. Still
  BY <1>1, <1>2, <1>3 DEF Still, CountInv
<1> QED BY <1>5, <1>6, QuietStep

(* The wait group: add() and done().                                        *)
LEMMA OutstandingFinite ==
    /\ IsFiniteSet(Outstanding) /\ IsFiniteSet(Pushing) /\ IsFiniteSet(1..NTasks)
    /\ Cardinality(1..NTasks) = NTasks
    /\ Cardinality(Outstanding) \in Nat /\ Cardinality(Pushing) \in Nat
<1>1. NTasks \in Nat /\ IsFiniteSet(PoolThreads)
  BY WorkersAssumption
<1>2. IsFiniteSet(1..NTasks) /\ Cardinality(1..NTasks) = NTasks
  BY <1>1, FS_Interval
<1>3. Outstanding \subseteq 1..NTasks /\ Pushing \subseteq PoolThreads
  BY Zenon DEF Outstanding, Pushing
<1>4. IsFiniteSet(Outstanding) /\ IsFiniteSet(Pushing)
  BY <1>1, <1>2, <1>3, FS_Subset, Zenon
<1> QED BY <1>2, <1>4, FS_CardinalityType

LEMMA AddStep == ASSUME WorkersInv, Add PROVE WorkersInv'
<1>1. /\ WorkersTypes /\ TaskInv /\ ResultInv /\ CountInv
      /\ mainPc = "add" /\ mainPc' = "enqueue" /\ counter' = counter + NTasks
      /\ UNCHANGED <<sent, latePc, poolPc, job, tasks, ran, results, taken, consPc>>
      /\ NTasks \in Nat \ {0}
  BY WorkersAssumption DEF WorkersInv, Add, pool, queue
<1>2. sent = 0 /\ counter = 0 /\ Pushing = {}
  BY <1>1 DEF CountInv
<1>3. WorkersTypes'
  BY <1>1 DEF WorkersTypes
<1>4. TaskInv' /\ ResultInv'
  BY <1>1 DEF TaskInv, ResultInv, Enqueued, Holds, NoRepeat
<1>5. Outstanding = 1..NTasks
  <2>1. ASSUME NEW x \in 1..NTasks PROVE x \in Tasks /\ ~Enqueued(x)
    BY <1>1, <1>2 DEF Tasks, LateTask, Enqueued
  <2>2. \A x \in 1..NTasks : ran[x] = 0
    BY <1>1, <2>1, Zenon DEF TaskInv
  <2> QED BY <2>2, Zenon DEF Outstanding
<1>6. Outstanding' = Outstanding /\ Pushing' = Pushing
  BY <1>1 DEF Outstanding, Pushing
<1>7. counter' = Cardinality(Outstanding)' + Cardinality(Pushing)'
  <2>1. Cardinality(Pushing) = 0
    BY <1>2, FS_EmptySet
  <2>2. Cardinality(Outstanding) = NTasks
    BY <1>5, OutstandingFinite, Zenon
  <2> QED BY <1>1, <1>2, <1>6, <2>1, <2>2
<1>8. CountInv'
  BY <1>1, <1>2, <1>7 DEF CountInv
<1> QED BY <1>3, <1>4, <1>8, Zenon DEF WorkersInv

LEMMA DoneStep == ASSUME WorkersInv, NEW t \in PoolThreads, Done(t) PROVE WorkersInv'
<1>1. /\ WorkersTypes /\ TaskInv /\ ResultInv /\ CountInv
      /\ poolPc[t] = "done" /\ poolPc' = [poolPc EXCEPT ![t] = "check"]
      /\ counter > 0 /\ counter' = counter - 1
      /\ UNCHANGED <<sent, latePc, job, tasks, ran, results, taken, consPc>>
  BY DEF WorkersInv, Done, queue
<1>2. /\ mainPc' = mainPc \/ (mainPc = "blocked" /\ mainPc' = "wait")
      /\ counter \in Nat /\ counter' \in Nat
  BY <1>1 DEF Done, AtZero, WorkersTypes
<1>3. WorkersTypes'
  BY <1>1, <1>2 DEF WorkersTypes
<1>4. \A u \in PoolThreads : /\ poolPc'[u] = "run" <=> poolPc[u] = "run"
                             /\ u # t => poolPc'[u] = poolPc[u]
      /\ poolPc'[t] = "check"
  BY <1>1 DEF WorkersTypes
<1>5. TaskInv' /\ ResultInv'
  <2>1. TaskInv'
    BY <1>1, <1>4 DEF TaskInv, Enqueued, Holds, NoRepeat
  <2>2. ResultInv'
    BY <1>1 DEF ResultInv, Holds, NoRepeat
  <2> QED BY <2>1, <2>2
<1>6. Outstanding' = Outstanding /\ Pushing' = Pushing \ {t} /\ t \in Pushing
  <2>1. Outstanding' = Outstanding
    BY <1>1 DEF Outstanding
  <2>2. t \in Pushing
    BY <1>1 DEF Pushing
  <2>3. Pushing' = Pushing \ {t}
    BY <1>4 DEF Pushing
  <2> QED BY <2>1, <2>2, <2>3
<1>7. mainPc # "add"
  BY <1>1, <1>6 DEF CountInv
<1>8. counter' = Cardinality(Outstanding)' + Cardinality(Pushing)'
  <2>1. Cardinality(Pushing \ {t}) = Cardinality(Pushing) - 1
    BY <1>6, OutstandingFinite, FS_RemoveElement, Zenon
  <2>2. counter = Cardinality(Outstanding) + Cardinality(Pushing)
    BY <1>1, <1>7 DEF CountInv
  <2> QED BY <1>1, <1>6, <2>1, <2>2, OutstandingFinite
<1>9. CountInv'
  BY <1>1, <1>2, <1>7, <1>8 DEF CountInv
<1> QED BY <1>3, <1>5, <1>9, Zenon DEF WorkersInv

-----------------------------------------------------------------------------
(* Tasks: enqueue, and the loop of a pool thread.                           *)

(* What a new task at the end of the list of tasks preserves.               *)
LEMMA Appended ==
    ASSUME WorkersInv, NEW x \in Tasks, ~Enqueued(x), tasks' = Append(tasks, x), Enqueued(x)',
           \A y \in Tasks : Enqueued(y) => Enqueued(y)',
           UNCHANGED <<poolPc, job, ran>>
    PROVE  TaskInv' /\ tasks' \in Seq(Tasks)
<1>1. WorkersTypes /\ TaskInv /\ tasks \in Seq(Tasks)
  BY DEF WorkersInv, WorkersTypes
<1>2. ran[x] = 0 /\ ~Holds(tasks, x) /\ ran[x] \in {0, 1}
  BY <1>1, Zenon DEF TaskInv, WorkersTypes
<1>3. /\ tasks' \in Seq(Tasks)
      /\ \A y : Holds(tasks', y) <=> Holds(tasks, y) \/ y = x
      /\ NoRepeat(tasks')
  BY <1>1, <1>2, AppendHolds DEF TaskInv
<1>4. \A y \in Tasks : Holds(tasks', y) => ran'[y] = 0 /\ Enqueued(y)'
  BY <1>1, <1>2, <1>3, Zenon DEF TaskInv
<1>5. \A y \in Tasks : ran'[y] # 0 => Enqueued(y)'
  BY <1>1, Zenon DEF TaskInv
<1>6. ASSUME NEW t \in PoolThreads, poolPc'[t] = "run"
      PROVE  (/\ job[t] \in Tasks /\ ran[job[t]] = 0 /\ Enqueued(job[t]) /\ ~Holds(tasks, job[t])
              /\ \A u \in PoolThreads : poolPc[u] = "run" /\ job[u] = job[t] => u = t)'
  <2>1. /\ job[t] \in Tasks /\ ran[job[t]] = 0 /\ Enqueued(job[t]) /\ ~Holds(tasks, job[t])
        /\ \A u \in PoolThreads : poolPc[u] = "run" /\ job[u] = job[t] => u = t
    BY <1>1, <1>6, Zenon DEF TaskInv
  <2>2. job[t] # x
    BY <2>1, Zenon
  <2>3. Enqueued(job[t])' /\ ~Holds(tasks', job[t])
    BY <1>3, <2>1, <2>2 DEF Enqueued
  <2>4. ran' = ran /\ poolPc' = poolPc /\ job' = job
    OBVIOUS
  <2> QED BY <2>1, <2>3, <2>4
<1> QED BY <1>3, <1>4, <1>5, <1>6, Zenon DEF TaskInv

LEMMA EnqueueStep == ASSUME WorkersInv, Enqueue PROVE WorkersInv'
<1>1. /\ WorkersTypes /\ ResultInv /\ CountInv
      /\ mainPc = "enqueue" /\ mainPc' = "notify" /\ sent' = sent + 1
      /\ tasks' = Append(tasks, sent + 1)
      /\ UNCHANGED <<latePc, poolPc, job, ran, counter, results, taken, consPc>>
  BY DEF WorkersInv, Enqueue, queue
<1>2. sent \in 0..NTasks /\ sent < NTasks /\ NTasks \in Nat
  BY <1>1, WorkersAssumption DEF WorkersTypes, CountInv
<1>3. PICK x \in Tasks : x = sent + 1
  BY <1>2 DEF Tasks, LateTask
<1>10. ~Enqueued(x) /\ Enqueued(x)' /\ tasks' = Append(tasks, x)
  BY <1>1, <1>2, <1>3 DEF Enqueued, LateTask
<1>4. \A y \in Tasks : Enqueued(y) => Enqueued(y)'
  BY <1>1, <1>2 DEF Enqueued, Tasks
<1>5. TaskInv' /\ tasks' \in Seq(Tasks)
  BY <1>1, <1>10, <1>4, Appended
<1>6. WorkersTypes'
  BY <1>1, <1>2, <1>5 DEF WorkersTypes
<1>7. ResultInv'
  BY <1>1 DEF ResultInv, Holds, NoRepeat
<1>8. Outstanding' = Outstanding /\ Pushing' = Pushing
  BY <1>1 DEF Outstanding, Pushing
<1>9. CountInv'
  BY <1>1, <1>8, Zenon DEF CountInv
<1> QED BY <1>5, <1>6, <1>7, <1>9, Zenon DEF WorkersInv

LEMMA EnqueueLateStep == ASSUME WorkersInv, EnqueueLate PROVE WorkersInv'
<1>1. /\ WorkersTypes /\ ResultInv /\ CountInv
      /\ latePc = "enqueue" /\ latePc' \in {"threw", "notify"}
      /\ UNCHANGED <<mainPc, sent, poolPc, job, ran, counter, results, taken, consPc>>
  BY DEF WorkersInv, EnqueueLate, queue
<1>2. CASE UNCHANGED tasks
  <2>1. WorkersTypes'
    BY <1>1, <1>2 DEF WorkersTypes
  <2>2. Still
    BY <1>1, <1>2 DEF Still, CountInv
  <2> QED BY <2>1, <2>2, QuietStep
<1>3. CASE tasks' = Append(tasks, LateTask)
  <2>1. sent \in 0..NTasks /\ NTasks \in Nat
    BY <1>1, WorkersAssumption DEF WorkersTypes
  <2>2. LateTask \in Tasks /\ ~Enqueued(LateTask) /\ Enqueued(LateTask)'
    BY <1>1, <2>1 DEF Enqueued, Tasks, LateTask
  <2>3. \A y \in Tasks : Enqueued(y) => Enqueued(y)'
    BY <1>1 DEF Enqueued
  <2>4. TaskInv' /\ tasks' \in Seq(Tasks)
    BY <1>1, <1>3, <2>2, <2>3, Appended
  <2>5. WorkersTypes'
    BY <1>1, <2>4 DEF WorkersTypes
  <2>6. ResultInv'
    BY <1>1 DEF ResultInv, Holds, NoRepeat
  <2>7. Outstanding' = Outstanding /\ Pushing' = Pushing
    BY <1>1 DEF Outstanding, Pushing
  <2>8. CountInv'
    BY <1>1, <2>7, Zenon DEF CountInv
  <2> QED BY <2>4, <2>5, <2>6, <2>8, Zenon DEF WorkersInv
<1> QED BY <1>2, <1>3 DEF EnqueueLate

LEMMA TakeStep == ASSUME WorkersInv, NEW t \in PoolThreads, Take(t) PROVE WorkersInv'
<1>1. /\ WorkersTypes /\ TaskInv /\ ResultInv /\ CountInv /\ tasks \in Seq(Tasks)
      /\ poolPc[t] = "check"
      /\ UNCHANGED <<mainPc, sent, latePc, ran, counter, results, taken, consPc>>
  BY DEF WorkersInv, WorkersTypes, Take, queue
<1>2. CASE UNCHANGED <<job, tasks>> /\ poolPc' \in {[poolPc EXCEPT ![t] = s] : s \in {"blocked", "exit"}}
  <2>1. PICK s \in {"blocked", "exit"} : poolPc' = [poolPc EXCEPT ![t] = s]
    BY <1>2
  <2>2. WorkersTypes'
    BY <1>1, <1>2, <2>1 DEF WorkersTypes
  <2>3. \A u \in PoolThreads : poolPc'[u] = IF u = t THEN s ELSE poolPc[u]
    BY <1>1, <2>1, Zenon DEF WorkersTypes
  <2>4. Still
    BY <1>1, <1>2, <2>3 DEF Still, CountInv
  <2> QED BY <2>2, <2>4, QuietStep
<1>3. CASE /\ tasks # <<>> /\ poolPc' = [poolPc EXCEPT ![t] = "run"]
           /\ job' = [job EXCEPT ![t] = Head(tasks)] /\ tasks' = Tail(tasks)
  <2>1. PICK x \in Tasks : x = Head(tasks)
    BY <1>1, <1>3, TailHolds
  <2>2. /\ tasks' \in Seq(Tasks) /\ NoRepeat(tasks') /\ ~Holds(tasks', x)
        /\ \A y : Holds(tasks, y) <=> Holds(tasks', y) \/ y = x
    BY <1>1, <1>3, <2>1, TailHolds DEF TaskInv
  <2>3. /\ \A u \in PoolThreads : /\ poolPc'[u] = IF u = t THEN "run" ELSE poolPc[u]
                                  /\ job'[u] = IF u = t THEN x ELSE job[u]
    BY <1>1, <1>3, <2>1 DEF WorkersTypes
  <2>4. ran[x] = 0 /\ Enqueued(x) /\ Holds(tasks, x)
    BY <1>1, <2>2, Zenon DEF TaskInv
  <2>5. \A y : Enqueued(y)' <=> Enqueued(y)
    BY <1>1 DEF Enqueued
  <2>6. /\ \A y \in Tasks : Holds(tasks', y) => ran'[y] = 0 /\ Enqueued(y)'
        /\ \A y \in Tasks : ran'[y] # 0 => Enqueued(y)'
    BY <1>1, <2>2, <2>5 DEF TaskInv
  <2>7. ASSUME NEW u \in PoolThreads, poolPc'[u] = "run"
        PROVE  (/\ job[u] \in Tasks /\ ran[job[u]] = 0 /\ Enqueued(job[u]) /\ ~Holds(tasks, job[u])
                /\ \A v \in PoolThreads : poolPc[v] = "run" /\ job[v] = job[u] => v = u)'
    <3>1. CASE u = t
      <4>1. job'[u] = x
        BY <2>3, <3>1
      <4>2. \A v \in PoolThreads : poolPc[v] = "run" => job[v] # x
        BY <1>1, <2>4, Zenon DEF TaskInv
      <4>3. \A v \in PoolThreads : poolPc'[v] = "run" /\ job'[v] = x => v = u
        BY <2>3, <4>2, <3>1
      <4>4. Enqueued(job[u])'
        BY <4>1, <2>4, <2>5, <1>1 DEF Enqueued
      <4> QED BY <1>1, <2>2, <2>4, <4>1, <4>3, <4>4
    <3>2. CASE u # t
      <4>1. job'[u] = job[u] /\ poolPc[u] = "run"
        BY <2>3, <3>2, <2>7
      <4>2. /\ job[u] \in Tasks /\ ran[job[u]] = 0 /\ Enqueued(job[u]) /\ ~Holds(tasks, job[u])
            /\ \A v \in PoolThreads : poolPc[v] = "run" /\ job[v] = job[u] => v = u
        BY <1>1, <4>1, Zenon DEF TaskInv
      <4>3. job[u] # x /\ ~Holds(tasks', job[u])
        BY <2>2, <2>4, <4>2, Zenon
      <4>4. \A v \in PoolThreads : poolPc'[v] = "run" /\ job'[v] = job[u] => v = u
        BY <2>3, <4>2, <4>3, Zenon
      <4>5. Enqueued(job[u])'
        BY <4>1, <4>2, <1>1 DEF Enqueued
      <4> QED BY <1>1, <4>1, <4>2, <4>3, <4>4, <4>5
    <3> QED BY <3>1, <3>2
  <2>8. TaskInv'
    BY <2>2, <2>6, <2>7, Zenon DEF TaskInv
  <2>9. WorkersTypes'
    <3>1. x \in 0..LateTask
      BY WorkersAssumption DEF Tasks, LateTask
    <3> QED BY <1>1, <1>3, <2>1, <2>2, <3>1, Zenon DEF WorkersTypes
  <2>10. ResultInv'
    <3>1. results' = results /\ taken' = taken /\ ran' = ran
      BY <1>1
    <3> QED BY <1>1, <3>1, Zenon DEF ResultInv
  <2>11. Outstanding' = Outstanding /\ Pushing' = Pushing
    <3>1. Pushing' = Pushing
      BY <1>1, <2>3 DEF Pushing
    <3> QED BY <1>1, <3>1 DEF Outstanding
  <2>12. CountInv'
    BY <1>1, <2>11, Zenon DEF CountInv
  <2> QED BY <2>8, <2>9, <2>10, <2>12, Zenon DEF WorkersInv
<1> QED BY <1>1, <1>2, <1>3 DEF Take

(* A task runs: it leaves the pool, and its result enters the queue.        *)
LEMMA PushTasks ==
    ASSUME WorkersInv, NEW t \in PoolThreads, NEW j \in Tasks, poolPc[t] = "run", job[t] = j,
           ran' = [ran EXCEPT ![j] = @ + 1], job' = [job EXCEPT ![t] = 0],
           NEW s, s # "run", poolPc' = [poolPc EXCEPT ![t] = s],
           UNCHANGED <<sent, latePc, tasks>>
    PROVE  /\ TaskInv'
           /\ \A x \in Tasks : ran'[x] = IF x = j THEN 1 ELSE ran[x]
           /\ ran' \in [Tasks -> {0, 1}]
<1>1. TaskInv /\ ran \in [Tasks -> {0, 1}] /\ DOMAIN poolPc = PoolThreads /\ DOMAIN job = PoolThreads
  BY DEF WorkersInv, WorkersTypes
<1>2. /\ ran[j] = 0 /\ Enqueued(j) /\ ~Holds(tasks, j)
      /\ \A u \in PoolThreads : poolPc[u] = "run" /\ job[u] = j => u = t
  BY <1>1, Zenon DEF TaskInv
<1>3. /\ \A x \in Tasks : ran'[x] = IF x = j THEN 1 ELSE ran[x]
      /\ ran' \in [Tasks -> {0, 1}]
  BY <1>1, <1>2
<1>4. /\ \A u \in PoolThreads : poolPc'[u] = IF u = t THEN s ELSE poolPc[u]
      /\ \A u \in PoolThreads : job'[u] = IF u = t THEN 0 ELSE job[u]
  BY <1>1
<1>5. tasks' = tasks /\ \A x : Enqueued(x)' <=> Enqueued(x)
  BY DEF Enqueued
<1>6. /\ \A x \in Tasks : Holds(tasks', x) => ran'[x] = 0 /\ Enqueued(x)'
      /\ \A x \in Tasks : ran'[x] # 0 => Enqueued(x)'
  <2>1. \A x \in Tasks : Holds(tasks', x) => ran'[x] = 0 /\ Enqueued(x)'
    BY <1>1, <1>2, <1>3, <1>5 DEF TaskInv
  <2>2. \A x \in Tasks : ran'[x] # 0 => Enqueued(x)'
    BY <1>1, <1>2, <1>3, <1>5 DEF TaskInv
  <2> QED BY <2>1, <2>2
<1>7. ASSUME NEW u \in PoolThreads, poolPc'[u] = "run"
      PROVE  (/\ job[u] \in Tasks /\ ran[job[u]] = 0 /\ Enqueued(job[u]) /\ ~Holds(tasks, job[u])
              /\ \A v \in PoolThreads : poolPc[v] = "run" /\ job[v] = job[u] => v = u)'
  <2>1. u # t /\ poolPc[u] = "run" /\ job'[u] = job[u]
    BY <1>4, <1>7
  <2>2. /\ job[u] \in Tasks /\ ran[job[u]] = 0 /\ Enqueued(job[u]) /\ ~Holds(tasks, job[u])
        /\ \A v \in PoolThreads : poolPc[v] = "run" /\ job[v] = job[u] => v = u
    BY <1>1, <2>1, Zenon DEF TaskInv
  <2>3. job[u] # j
    BY <1>2, <2>1, Zenon
  <2>4. ran'[job[u]] = 0
    BY <1>3, <2>2, <2>3
  <2>5. \A v \in PoolThreads : poolPc'[v] = "run" /\ job'[v] = job[u] => v = u
    BY <1>4, <2>2
  <2>6. Enqueued(job[u])'
    BY <2>1, <2>2 DEF Enqueued
  <2> QED BY <1>5, <2>1, <2>2, <2>4, <2>5, <2>6
<1>8. NoRepeat(tasks')
  BY <1>1, <1>5 DEF TaskInv
<1>9. TaskInv'
  BY <1>6, <1>7, <1>8, Zenon DEF TaskInv
<1> QED BY <1>3, <1>9

LEMMA PushResult ==
    ASSUME WorkersInv, NEW j \in 1..NTasks, ran[j] = 0,
           \A x \in Tasks : ran'[x] = IF x = j THEN 1 ELSE ran[x],
           results' = Append(results, j), taken' = taken
    PROVE  ResultInv' /\ results' \in Seq(1..NTasks)
<1>1. ResultInv /\ results \in Seq(1..NTasks) /\ NTasks \in Nat
  BY WorkersAssumption DEF WorkersInv, WorkersTypes
<1>2. ~Holds(results, j) /\ \A c \in Consumers : ~Holds(taken[c], j)
  BY <1>1, Zenon DEF ResultInv
<1>3. /\ results' \in Seq(1..NTasks)
      /\ \A x : Holds(results', x) <=> Holds(results, x) \/ x = j
      /\ NoRepeat(results')
  BY <1>1, <1>2, AppendHolds DEF ResultInv
<1>4. ASSUME NEW c \in Consumers
      PROVE  (/\ NoRepeat(taken[c]) /\ Len(taken[c]) <= Quota
              /\ \A x \in 1..NTasks : Holds(taken[c], x) =>
                    ~Holds(results, x) /\ \A d \in Consumers : Holds(taken[d], x) => d = c)'
  <2>1. /\ NoRepeat(taken[c]) /\ Len(taken[c]) <= Quota
        /\ \A x \in 1..NTasks : Holds(taken[c], x) =>
              ~Holds(results, x) /\ \A d \in Consumers : Holds(taken[d], x) => d = c
    BY <1>1, Zenon DEF ResultInv
  <2>2. \A x \in 1..NTasks : Holds(taken[c], x) => ~Holds(results', x)
    BY <1>2, <1>3, <2>1, Zenon
  <2> QED BY <2>1, <2>2
<1>5. \A x \in 1..NTasks : x \in Tasks /\ (x = j => ran'[x] = 1) /\ (x # j => ran'[x] = ran[x])
  BY <1>1 DEF Tasks, LateTask
<1>6. ASSUME NEW x \in 1..NTasks
      PROVE  (ran[x] # 0 <=> Holds(results, x) \/ \E c \in Consumers : Holds(taken[c], x))'
  <2>1. ran[x] # 0 <=> Holds(results, x) \/ \E c \in Consumers : Holds(taken[c], x)
    BY <1>1, Zenon DEF ResultInv
  <2>2. CASE x = j
    BY <1>3, <1>5, <2>2
  <2>3. CASE x # j
    BY <1>3, <1>5, <2>1, <2>3
  <2> QED BY <2>2, <2>3
<1> QED BY <1>3, <1>4, <1>6, Zenon DEF ResultInv

LEMMA PushStep == ASSUME WorkersInv, NEW t \in PoolThreads, Push(t) PROVE WorkersInv'
<1>1. /\ WorkersTypes /\ TaskInv /\ ResultInv /\ CountInv /\ NTasks \in Nat
      /\ poolPc[t] = "run" /\ job' = [job EXCEPT ![t] = 0]
      /\ UNCHANGED <<mainPc, sent, latePc, counter, tasks, consPc, taken>>
  BY WorkersAssumption DEF WorkersInv, Push
<1>2. PICK j \in Tasks : /\ j = job[t] /\ ran[j] = 0 /\ Enqueued(j)
                         /\ ran' = [ran EXCEPT ![j] = @ + 1]
  BY <1>1, Zenon DEF Push, TaskInv
<1>3. job' \in [PoolThreads -> 0..LateTask]
  BY <1>1 DEF WorkersTypes, LateTask
<1>4. CASE j = LateTask
  <2>1. poolPc' = [poolPc EXCEPT ![t] = "check"] /\ UNCHANGED results
    BY <1>2, <1>4 DEF Push
  <2>2. /\ TaskInv' /\ ran' \in [Tasks -> {0, 1}]
        /\ \A x \in Tasks : ran'[x] = IF x = j THEN 1 ELSE ran[x]
    BY <1>1, <1>2, <2>1, PushTasks, Zenon
  <2>3. \A x \in 1..NTasks : ran'[x] = ran[x]
    BY <1>1, <1>4, <2>2 DEF Tasks, LateTask
  <2>4. ResultInv'
    <3>1. \A x \in 1..NTasks : ran'[x] # 0 <=> Holds(results, x) \/ \E c \in Consumers : Holds(taken[c], x)
      BY <1>1, <2>3 DEF ResultInv
    <3>2. results' = results /\ taken' = taken
      BY <1>1, <2>1
    <3> QED BY <1>1, <3>1, <3>2 DEF ResultInv
  <2>5. Outstanding' = Outstanding
    BY <2>3 DEF Outstanding
  <2>6. Pushing' = Pushing
    <3>1. \A u \in PoolThreads : poolPc'[u] = IF u = t THEN "check" ELSE poolPc[u]
      BY <1>1, <2>1 DEF WorkersTypes
    <3> QED BY <1>1, <3>1 DEF Pushing
  <2>7. CountInv'
    BY <1>1, <2>5, <2>6, Zenon DEF CountInv
  <2>8. WorkersTypes'
    BY <1>1, <1>3, <2>1, <2>2 DEF WorkersTypes
  <2> QED BY <2>2, <2>4, <2>7, <2>8, Zenon DEF WorkersInv
<1>5. CASE j # LateTask
  <2>1. poolPc' = [poolPc EXCEPT ![t] = "pushed"] /\ results' = Append(results, j)
    BY <1>2, <1>5 DEF Push
  <2>2. /\ TaskInv' /\ ran' \in [Tasks -> {0, 1}]
        /\ \A x \in Tasks : ran'[x] = IF x = j THEN 1 ELSE ran[x]
    BY <1>1, <1>2, <2>1, PushTasks, Zenon
  <2>3. j \in 1..NTasks
    BY <1>1, <1>5 DEF Tasks, LateTask
  <2>4. ResultInv' /\ results' \in Seq(1..NTasks)
    BY <1>1, <1>2, <2>1, <2>2, <2>3, PushResult, Zenon
  <2>5. mainPc # "add"
    BY <1>1, <1>2, <1>5, <2>3 DEF CountInv, Enqueued
  <2>6. Outstanding' = Outstanding \ {j} /\ j \in Outstanding
    <3>1. \A x \in 1..NTasks : ran'[x] = IF x = j THEN 1 ELSE ran[x]
      BY <1>1, <2>2 DEF Tasks, LateTask
    <3> QED BY <1>2, <2>3, <3>1 DEF Outstanding
  <2>7. Pushing' = Pushing \cup {t} /\ t \notin Pushing
    <3>1. \A u \in PoolThreads : poolPc'[u] = IF u = t THEN "pushed" ELSE poolPc[u]
      BY <1>1, <2>1 DEF WorkersTypes
    <3> QED BY <1>1, <3>1 DEF Pushing
  <2>8. /\ Cardinality(Outstanding \ {j}) = Cardinality(Outstanding) - 1
        /\ Cardinality(Pushing \cup {t}) = Cardinality(Pushing) + 1
    BY <2>6, <2>7, OutstandingFinite, FS_RemoveElement, FS_AddElement, Zenon
  <2>9. counter' = Cardinality(Outstanding)' + Cardinality(Pushing)'
    <3>1. counter = Cardinality(Outstanding) + Cardinality(Pushing)
      BY <1>1, <2>5 DEF CountInv
    <3> QED BY <1>1, <2>6, <2>7, <2>8, <3>1, OutstandingFinite
  <2>10. CountInv'
    BY <1>1, <2>5, <2>9, Zenon DEF CountInv
  <2>11. WorkersTypes'
    BY <1>1, <1>3, <2>1, <2>2, <2>4 DEF WorkersTypes
  <2> QED BY <2>2, <2>4, <2>10, <2>11, Zenon DEF WorkersInv
<1> QED BY <1>4, <1>5

(* A consumer takes the first result.                                       *)
LEMMA PopStep ==
    ASSUME WorkersInv, NEW c \in Consumers, Len(taken[c]) < Quota, results # <<>>,
           taken' = [taken EXCEPT ![c] = Append(@, Head(results))], results' = Tail(results),
           UNCHANGED <<mainPc, sent, latePc, counter, pool, consPc>>
    PROVE  WorkersInv'
<1>1. /\ WorkersTypes /\ TaskInv /\ ResultInv /\ CountInv /\ Quota \in Nat
      /\ results \in Seq(1..NTasks) /\ taken \in [Consumers -> Seq(1..NTasks)]
      /\ UNCHANGED <<mainPc, sent, latePc, counter, consPc, poolPc, job, tasks, ran>>
  BY WorkersAssumption DEF WorkersInv, WorkersTypes, pool
<1>2. PICK h \in 1..NTasks : h = Head(results)
  BY <1>1, TailHolds, Zenon
<1>3. /\ results' \in Seq(1..NTasks)
      /\ \A x : Holds(results, x) <=> Holds(results', x) \/ x = h
      /\ NoRepeat(results') /\ ~Holds(results', h)
  BY <1>1, <1>2, TailHolds DEF ResultInv
<1>4. \A d \in Consumers : ~Holds(taken[d], h)
  BY <1>1, <1>3, Zenon DEF ResultInv
<1>5. /\ taken' \in [Consumers -> Seq(1..NTasks)]
      /\ taken'[c] = Append(taken[c], h) /\ \A d \in Consumers \ {c} : taken'[d] = taken[d]
      /\ taken[c] \in Seq(1..NTasks) /\ Len(taken'[c]) <= Quota
  BY <1>1, <1>2
<1>6. /\ \A x : Holds(taken'[c], x) <=> Holds(taken[c], x) \/ x = h
      /\ NoRepeat(taken'[c])
  BY <1>1, <1>4, <1>5, AppendHolds DEF ResultInv
<1>7. \A d \in Consumers : \A x : Holds(taken'[d], x) <=> Holds(taken[d], x) \/ (x = h /\ d = c)
  BY <1>4, <1>5, <1>6, Zenon
<1>8. ASSUME NEW d \in Consumers
      PROVE  (/\ NoRepeat(taken[d]) /\ Len(taken[d]) <= Quota
              /\ \A x \in 1..NTasks : Holds(taken[d], x) =>
                    ~Holds(results, x) /\ \A e \in Consumers : Holds(taken[e], x) => e = d)'
  <2>1. /\ NoRepeat(taken[d]) /\ Len(taken[d]) <= Quota
        /\ \A x \in 1..NTasks : Holds(taken[d], x) =>
              ~Holds(results, x) /\ \A e \in Consumers : Holds(taken[e], x) => e = d
    BY <1>1, Zenon DEF ResultInv
  <2>2. NoRepeat(taken'[d]) /\ Len(taken'[d]) <= Quota
    BY <1>5, <1>6, <2>1
  <2>3. ASSUME NEW x \in 1..NTasks, Holds(taken'[d], x)
        PROVE  ~Holds(results', x) /\ \A e \in Consumers : Holds(taken'[e], x) => e = d
    <3>1. CASE x = h
      BY <1>3, <1>4, <1>7, <2>3, <3>1
    <3>2. CASE x # h
      BY <1>3, <1>7, <2>1, <2>3, <3>2, Zenon
    <3> QED BY <3>1, <3>2
  <2> QED BY <2>2, <2>3
<1>9. ASSUME NEW x \in 1..NTasks
      PROVE  (ran[x] # 0 <=> Holds(results, x) \/ \E d \in Consumers : Holds(taken[d], x))'
  <2>1. ran[x] # 0 <=> Holds(results, x) \/ \E d \in Consumers : Holds(taken[d], x)
    BY <1>1, Zenon DEF ResultInv
  <2>2. Holds(results, x) \/ (\E d \in Consumers : Holds(taken[d], x))
          <=> Holds(results', x) \/ (\E d \in Consumers : Holds(taken'[d], x))
    BY <1>3, <1>7, Zenon
  <2> QED BY <1>1, <2>1, <2>2
<1>10. ResultInv'
  BY <1>3, <1>8, <1>9, Zenon DEF ResultInv
<1>11. WorkersTypes'
  BY <1>1, <1>3, <1>5, Zenon DEF WorkersTypes
<1>12. TaskInv'
  BY <1>1 DEF TaskInv, Enqueued, Holds, NoRepeat
<1>13. Outstanding' = Outstanding /\ Pushing' = Pushing
  BY <1>1 DEF Outstanding, Pushing
<1>14. CountInv'
  BY <1>1, <1>13, Zenon DEF CountInv
<1> QED BY <1>10, <1>11, <1>12, <1>14, Zenon DEF WorkersInv

LEMMA ConsumerStep == ASSUME WorkersInv, NEW c \in Consumers, WaitAndPop(c) \/ TryPop(c)
                      PROVE  WorkersInv'
<1>1. CASE /\ consPc' = [consPc EXCEPT ![c] = "blocked"] /\ UNCHANGED <<results, taken>>
           /\ UNCHANGED <<mainPc, sent, latePc, counter, pool>>
  <2>1. WorkersTypes'
    BY <1>1 DEF WorkersInv, WorkersTypes, pool
  <2>2. Still
    BY <1>1 DEF Still, WorkersInv, CountInv, pool
  <2> QED BY <2>1, <2>2, QuietStep
<1>2. CASE /\ Len(taken[c]) < Quota /\ results # <<>>
           /\ taken' = [taken EXCEPT ![c] = Append(@, Head(results))] /\ results' = Tail(results)
           /\ UNCHANGED <<mainPc, sent, latePc, counter, pool, consPc>>
  BY <1>2, PopStep, Zenon
<1> QED BY <1>1, <1>2 DEF WaitAndPop, TryPop

-----------------------------------------------------------------------------
LEMMA WorkersStart == WorkersInit => WorkersInv
<1> SUFFICES ASSUME WorkersInit PROVE WorkersInv
  OBVIOUS
<1>1. NTasks \in Nat \ {0} /\ Quota \in Nat /\ 1..NTasks \subseteq Tasks
  BY WorkersAssumption DEF Tasks, LateTask
<1>2. WorkersTypes
  BY <1>1 DEF WorkersInit, WorkersTypes, LateTask
<1>3. \A x : ~Holds(tasks, x) /\ ~Holds(results, x) /\ \A c \in Consumers : ~Holds(taken[c], x)
  BY DEF WorkersInit, Holds
<1>4. NoRepeat(tasks) /\ NoRepeat(results) /\ \A c \in Consumers : NoRepeat(taken[c]) /\ Len(taken[c]) = 0
  BY DEF WorkersInit, NoRepeat
<1>5. (\A x \in Tasks : ran[x] = 0) /\ (\A t \in PoolThreads : poolPc[t] = "check")
  BY DEF WorkersInit
<1>6. TaskInv
  BY <1>3, <1>4, <1>5 DEF TaskInv
<1>7. ResultInv
  <2>1. (\A c \in Consumers : Len(taken[c]) <= Quota) /\ (\A x \in 1..NTasks : ran[x] = 0)
    BY <1>1, <1>4, <1>5
  <2> QED BY <1>3, <1>4, <2>1, Zenon DEF ResultInv
<1>8. CountInv
  BY <1>5 DEF WorkersInit, CountInv, Pushing
<1> QED BY <1>2, <1>6, <1>7, <1>8 DEF WorkersInv

LEMMA WorkersStep == WorkersInv /\ [WorkersNext]_workersVars => WorkersInv'
<1> SUFFICES ASSUME WorkersInv, [WorkersNext]_workersVars PROVE WorkersInv'
  OBVIOUS
<1>1. CASE UNCHANGED workersVars
  <2>1. WorkersTypes'
    BY <1>1 DEF WorkersInv, WorkersTypes, workersVars, pool, queue
  <2>2. Still
    BY <1>1 DEF Still, WorkersInv, CountInv, workersVars, pool, queue
  <2> QED BY <2>1, <2>2, QuietStep
<1>2. CASE MainThread
  BY <1>2, AddStep, MainQuiet, EnqueueStep, Zenon DEF MainThread
<1>3. CASE EnqueueLate \/ EnqueueLateNotify
  BY <1>3, EnqueueLateStep, MainQuiet, Zenon
<1>4. CASE \E t \in PoolThreads : PoolThread(t)
  BY <1>4, TakeStep, PushStep, OtherQuiet, DoneStep, Zenon DEF PoolThread
<1>5. CASE \E c \in Consumers : WaitAndPop(c) \/ TryPop(c)
  BY <1>5, ConsumerStep, Zenon
<1>6. CASE SpuriousWakeup
  BY <1>6, OtherQuiet, Zenon
<1> QED BY <1>1, <1>2, <1>3, <1>4, <1>5, <1>6, Zenon DEF WorkersNext

(* The tasks, the results and the count agree, for any number of threads,   *)
(* consumers and tasks.                                                     *)
THEOREM WorkersInvariant == WorkersSpec => []WorkersInv
BY WorkersStart, WorkersStep, PTL DEF WorkersSpec

(* With the count at zero every counted task has run and its result is in   *)
(* one place.                                                               *)
LEMMA ZeroMeansDone == WorkersInv => WaitMeansDone
<1> SUFFICES ASSUME WorkersInv, mainPc \in {"stop", "notifyall", "join", "end"}, NEW x \in 1..NTasks
             PROVE  Cardinality({i \in DOMAIN results : results[i] = x})
                    + Cardinality({p \in Consumers \X (1..Quota) :
                         p[2] <= Len(taken[p[1]]) /\ taken[p[1]][p[2]] = x}) = 1
  BY DEF WaitMeansDone
<1> DEFINE R == {i \in DOMAIN results : results[i] = x}
           T == {p \in Consumers \X (1..Quota) :
                   p[2] <= Len(taken[p[1]]) /\ taken[p[1]][p[2]] = x}
<1>1. /\ ResultInv /\ CountInv /\ Quota \in Nat
      /\ results \in Seq(1..NTasks) /\ taken \in [Consumers -> Seq(1..NTasks)]
  BY WorkersAssumption DEF WorkersInv, WorkersTypes
<1>2. ran[x] # 0
  <2>1. Cardinality(Outstanding) = 0
    BY <1>1, OutstandingFinite DEF CountInv
  <2>2. Outstanding = {}
    BY <2>1, OutstandingFinite, FS_EmptySet
  <2> QED BY <2>2 DEF Outstanding
<1>3. \A p \in T : /\ p[1] \in Consumers /\ p[2] \in DOMAIN taken[p[1]] /\ taken[p[1]][p[2]] = x
                   /\ p = <<p[1], p[2]>>
  BY <1>1
<1>4. \A c \in Consumers : \A i \in DOMAIN taken[c] : taken[c][i] = x => <<c, i>> \in T
  <2> SUFFICES ASSUME NEW c \in Consumers, NEW i \in DOMAIN taken[c], taken[c][i] = x
               PROVE  <<c, i>> \in T
    OBVIOUS
  <2>1. Len(taken[c]) <= Quota /\ taken[c] \in Seq(1..NTasks)
    BY <1>1 DEF ResultInv
  <2>2. i \in 1..Quota /\ i <= Len(taken[c])
    BY <1>1, <2>1
  <2> QED BY <2>2
<1>5. R \subseteq DOMAIN results /\ \A i \in DOMAIN results : i \in R <=> results[i] = x
  OBVIOUS
<1>9. SUFFICES Cardinality(R) + Cardinality(T) = 1
  OBVIOUS
<1> HIDE DEF R, T
<1>6. Holds(results, x) \/ \E c \in Consumers : Holds(taken[c], x)
  BY <1>1, <1>2, Zenon DEF ResultInv
<1>7. CASE Holds(results, x)
  <2>1. PICK i \in DOMAIN results : results[i] = x
    BY <1>7 DEF Holds
  <2>2. R = {i}
    <3>1. \A j \in R : j = i
      BY <1>1, <1>5, <2>1 DEF ResultInv, NoRepeat
    <3> QED BY <1>5, <2>1, <3>1, Zenon
  <2>3. \A c \in Consumers : ~Holds(taken[c], x)
    BY <1>1, <1>7, Zenon DEF ResultInv
  <2>4. T = {}
    BY <1>3, <2>3, Zenon DEF Holds
  <2>5. Cardinality(R) = 1 /\ Cardinality(T) = 0
    BY <2>2, <2>4, FS_Singleton, FS_EmptySet, Zenon
  <2> QED BY <2>5
<1>8. CASE \E c \in Consumers : Holds(taken[c], x)
  <2>1. PICK c \in Consumers : \E i \in DOMAIN taken[c] : taken[c][i] = x
    BY <1>8 DEF Holds
  <2>2. PICK i \in DOMAIN taken[c] : taken[c][i] = x
    BY <2>1
  <2>3. /\ ~Holds(results, x) /\ \A d \in Consumers : Holds(taken[d], x) => d = c
        /\ NoRepeat(taken[c])
    BY <1>1, <2>1, Zenon DEF ResultInv, Holds
  <2>4. R = {}
    BY <1>5, <2>3, Zenon DEF Holds
  <2>5. \A p \in T : p[1] = c /\ p[2] = i
    BY <1>3, <2>2, <2>3, ZenonT(40) DEF Holds, NoRepeat
  <2>6. \A p \in T : p = <<c, i>>
    BY <1>3, <2>5
  <2>7. T = {<<c, i>>}
    BY <1>4, <2>2, <2>6, Zenon
  <2>8. Cardinality(R) = 0 /\ Cardinality(T) = 1
    BY <2>4, <2>7, FS_Singleton, FS_EmptySet, Zenon
  <2> QED BY <2>8
<1> QED BY <1>6, <1>7, <1>8

(* WaitGroup::wait returns only when every counted task has pushed its      *)
(* result and called done(), for any number of pool threads, consumers and  *)
(* tasks; no result is lost or popped twice.                                *)
THEOREM WaitAlwaysMeansDone == WorkersSpec => []WaitMeansDone
<1> QED BY WorkersInvariant, ZeroMeansDone, PTL

-----------------------------------------------------------------------------
(* notify_one wakes a thread if one sleeps, notify_all every one.           *)
LEMMA OneWoken ==
    ASSUME NEW S, NEW P, NEW pc \in [S -> P], NEW q, q \in NotifyOne(pc)
    PROVE  \/ q = pc /\ \A t \in S : pc[t] # "blocked"
           \/ \E u \in S : pc[u] = "blocked" /\ q = [pc EXCEPT ![u] = "check"]
BY DEF NotifyOne

LEMMA AllWoken ==
    ASSUME NEW S, NEW P, NEW pc \in [S -> P], NEW q, q = NotifyAll(pc)
    PROVE  \A t \in S : q[t] # "blocked" /\ (pc[t] # "blocked" => q[t] = pc[t])
BY DEF NotifyAll

LEMMA PoolWakes ==
    ASSUME WorkersTypes
    PROVE  /\ poolPc' \in NotifyOne(poolPc) =>
                /\ \/ poolPc' = poolPc /\ \A t \in PoolThreads : poolPc[t] # "blocked"
                   \/ \E u \in PoolThreads : poolPc[u] = "blocked" /\ poolPc' = [poolPc EXCEPT ![u] = "check"]
                /\ \A t \in PoolThreads : poolPc'[t] = "blocked" => poolPc[t] = "blocked"
           /\ poolPc' = NotifyAll(poolPc) =>
                \A t \in PoolThreads : poolPc'[t] # "blocked" /\ (poolPc[t] # "blocked" => poolPc'[t] = poolPc[t])
<1>1. PICK P : poolPc \in [PoolThreads -> P]
  BY Zenon DEF WorkersTypes
<1>3. poolPc' \in NotifyOne(poolPc) =>
          \/ poolPc' = poolPc /\ \A t \in PoolThreads : poolPc[t] # "blocked"
          \/ \E u \in PoolThreads : poolPc[u] = "blocked" /\ poolPc' = [poolPc EXCEPT ![u] = "check"]
  BY <1>1, OneWoken
<1>4. ASSUME NEW u \in PoolThreads, poolPc' = [poolPc EXCEPT ![u] = "check"]
      PROVE  \A t \in PoolThreads : poolPc'[t] = "blocked" => poolPc[t] = "blocked"
  BY <1>1, <1>4
<1>5. poolPc' = NotifyAll(poolPc) =>
          \A t \in PoolThreads : poolPc'[t] # "blocked" /\ (poolPc[t] # "blocked" => poolPc'[t] = poolPc[t])
  BY <1>1, AllWoken
<1> QED BY <1>3, <1>4, <1>5, Zenon

(* A notification changes nothing for the threads that do not sleep.        *)
LEMMA PoolRests ==
    ASSUME WorkersTypes, poolPc' \in NotifyOne(poolPc) \/ poolPc' = NotifyAll(poolPc), NEW t \in PoolThreads
    PROVE  poolPc'[t] = poolPc[t] \/ (poolPc[t] = "blocked" /\ poolPc'[t] = "check")
<1>1. PICK P : poolPc \in [PoolThreads -> P] /\ "check" \in P
  BY Zenon DEF WorkersTypes
<1> QED BY <1>1, Notified

(* The steps of the pool's threads, by what becomes of the thread.          *)
Moves(t, s) == poolPc' = [poolPc EXCEPT ![t] = s]

LEMMA MovesTo ==
    ASSUME WorkersTypes, NEW t \in PoolThreads, NEW s, Moves(t, s)
    PROVE  poolPc'[t] = s /\ \A u \in PoolThreads : u # t => poolPc'[u] = poolPc[u]
BY Zenon DEF WorkersTypes, Moves

LEMMA PoolMoves ==
    ASSUME WorkersTypes, NEW t \in PoolThreads, PoolThread(t)
    PROVE  \/ \E s \in {"check", "run", "pushed", "done"} : Moves(t, s)
           \/ Moves(t, "blocked") /\ ~stopped /\ tasks = <<>> /\ tasks' = tasks
           \/ Moves(t, "exit") /\ stopped /\ tasks = <<>> /\ tasks' = tasks
<1>1. CASE Take(t)
  BY <1>1, Zenon DEF Take, Moves
<1>2. CASE Push(t)
  BY <1>2, Zenon DEF Push, Moves
<1>3. CASE PushNotify(t) \/ Done(t)
  BY <1>3, Zenon DEF PushNotify, Done, Moves
<1> QED BY <1>1, <1>2, <1>3, Zenon DEF PoolThread, WorkersTypes

LEMMA PoolKeeps ==
    ASSUME NEW t \in PoolThreads, PoolThread(t)
    PROVE  /\ UNCHANGED <<sent, latePc, stopped>>
           /\ mainPc' = mainPc \/ (mainPc = "blocked" /\ mainPc' = "wait")
BY Zenon DEF PoolThread, Take, Push, PushNotify, Done, AtZero

(* Somebody will see a task that is in the queue.                           *)
LEMMA TasksNoticedStep ==
    ASSUME WorkersTypes, TasksNoticed, [WorkersNext]_workersVars
    PROVE  TasksNoticed'
<1>0. ASSUME NEW t \in PoolThreads, poolPc'[t] \in {"check", "run", "pushed", "done"}
      PROVE  TasksNoticed'
  BY <1>0, Zenon DEF TasksNoticed, Awake
<1>1. ASSUME UNCHANGED <<tasks, poolPc, latePc>>, mainPc = "notify" => mainPc' = "notify"
      PROVE  TasksNoticed'
  BY <1>1, Zenon DEF TasksNoticed, Awake, Asleep
<1>2. CASE Enqueue \/ EnqueueLate
  <2>1. CASE Enqueue
    BY <2>1, Zenon DEF Enqueue, TasksNoticed
  <2>2. CASE EnqueueLate /\ stopped
    <3>1. UNCHANGED <<tasks, poolPc, mainPc>> /\ latePc # "notify"
      BY <2>2, Zenon DEF EnqueueLate
    <3> QED BY <3>1, Zenon DEF TasksNoticed, Awake, Asleep
  <2>3. CASE EnqueueLate /\ ~stopped
    BY <2>3, Zenon DEF EnqueueLate, TasksNoticed
  <2> QED BY <1>2, <2>1, <2>2, <2>3, Zenon
<1>3. CASE EnqueueNotify \/ EnqueueLateNotify
  <2>1. poolPc' \in NotifyOne(poolPc)
    BY <1>3, Zenon DEF EnqueueNotify, EnqueueLateNotify
  <2>2. CASE poolPc' = poolPc /\ \A t \in PoolThreads : poolPc[t] # "blocked"
    BY <2>2, Zenon DEF TasksNoticed, Asleep
  <2>3. ASSUME NEW u \in PoolThreads, poolPc' = [poolPc EXCEPT ![u] = "check"] PROVE TasksNoticed'
    <3>1. poolPc'[u] = "check"
      BY <2>3, Zenon DEF WorkersTypes
    <3> QED BY <1>0, <3>1, Zenon
  <2> QED BY <2>1, <2>2, <2>3, PoolWakes, Zenon
<1>4. CASE StopNotify
  <2>1. \A t \in PoolThreads : poolPc'[t] # "blocked"
    BY <1>4, PoolWakes, Zenon DEF StopNotify
  <2> QED BY <2>1, Zenon DEF TasksNoticed, Asleep
<1>5. ASSUME NEW t \in PoolThreads, PoolThread(t) PROVE TasksNoticed'
  <2>1. CASE tasks' = <<>>
    BY <2>1, Zenon DEF TasksNoticed
  <2>2. CASE tasks' # <<>>
    <3>1. PICK s \in {"check", "run", "pushed", "done"} : Moves(t, s)
      BY <1>5, <2>2, PoolMoves, Zenon
    <3> QED BY <1>0, <3>1, MovesTo, Zenon
  <2> QED BY <2>1, <2>2, Zenon
<1>6. CASE SpuriousWakeup
  <2>1. ASSUME NEW t \in PoolThreads, Moves(t, "check") PROVE TasksNoticed'
    BY <1>0, <2>1, MovesTo, Zenon
  <2> QED BY <1>1, <1>6, <2>1, Zenon DEF SpuriousWakeup, pool, Moves
<1>7. CASE Add \/ Wait \/ Stop \/ Join
  BY <1>1, <1>7, Zenon DEF Add, Wait, Stop, Join, pool
<1>8. CASE \E c \in Consumers : WaitAndPop(c) \/ TryPop(c)
  BY <1>1, <1>8, Zenon DEF WaitAndPop, TryPop, pool
<1>9. CASE UNCHANGED workersVars
  BY <1>1, <1>9, Zenon DEF workersVars, pool
<1> QED BY <1>2, <1>3, <1>4, <1>5, <1>6, <1>7, <1>8, <1>9, Zenon DEF WorkersNext, MainThread

(* Whoever sleeps when the flag is set will be notified.                    *)
LEMMA StopNoticedStep ==
    ASSUME WorkersTypes, StopNoticed, [WorkersNext]_workersVars
    PROVE  StopNoticed'
<1>1. ASSUME UNCHANGED stopped, mainPc = "notifyall" => mainPc' = "notifyall",
             \A t \in PoolThreads : poolPc'[t] = "blocked" => poolPc[t] = "blocked"
      PROVE  StopNoticed'
  BY <1>1, Zenon DEF StopNoticed, Asleep
<1>2. CASE Enqueue \/ EnqueueLate \/ Add \/ Wait \/ Join
  BY <1>1, <1>2, Zenon DEF Enqueue, EnqueueLate, Add, Wait, Join, pool
<1>3. CASE EnqueueNotify \/ EnqueueLateNotify
  <2>1. poolPc' \in NotifyOne(poolPc)
    BY <1>3, Zenon DEF EnqueueNotify, EnqueueLateNotify
  <2>2. \A t \in PoolThreads : poolPc'[t] = "blocked" => poolPc[t] = "blocked"
    BY <2>1, PoolWakes, Zenon
  <2> QED BY <1>1, <1>3, <2>2, Zenon DEF EnqueueNotify, EnqueueLateNotify
<1>4. CASE StopNotify
  <2>1. \A t \in PoolThreads : poolPc'[t] # "blocked"
    BY <1>4, PoolWakes, Zenon DEF StopNotify
  <2> QED BY <2>1, Zenon DEF StopNoticed, Asleep
<1>5. ASSUME NEW t \in PoolThreads, PoolThread(t) PROVE StopNoticed'
  <2>1. UNCHANGED stopped /\ (mainPc = "notifyall" => mainPc' = "notifyall")
    BY <1>5, PoolKeeps, Zenon
  <2>2. CASE stopped
    <3>1. PICK s \in {"check", "run", "pushed", "done", "exit"} : Moves(t, s)
      BY <1>5, <2>2, PoolMoves, Zenon
    <3>2. poolPc'[t] # "blocked" /\ \A u \in PoolThreads : u # t => poolPc'[u] = poolPc[u]
      BY <3>1, MovesTo, Zenon
    <3> QED BY <1>1, <2>1, <3>2, Zenon
  <2>3. CASE ~stopped
    BY <2>1, <2>3, Zenon DEF StopNoticed
  <2> QED BY <2>2, <2>3, Zenon
<1>6. CASE SpuriousWakeup
  <2>1. ASSUME NEW t \in PoolThreads, Moves(t, "check")
        PROVE  \A u \in PoolThreads : poolPc'[u] = "blocked" => poolPc[u] = "blocked"
    BY <2>1, MovesTo, Zenon
  <2> QED BY <1>1, <1>6, <2>1, Zenon DEF SpuriousWakeup, pool, Moves
<1>7. CASE Stop
  BY <1>7, Zenon DEF Stop, StopNoticed
<1>8. CASE \E c \in Consumers : WaitAndPop(c) \/ TryPop(c)
  BY <1>1, <1>8, Zenon DEF WaitAndPop, TryPop, pool
<1>9. CASE UNCHANGED workersVars
  BY <1>1, <1>9, Zenon DEF workersVars, pool
<1> QED BY <1>2, <1>3, <1>4, <1>5, <1>6, <1>7, <1>8, <1>9, Zenon DEF WorkersNext, MainThread

(* wait() does not sleep at zero.                                           *)
LEMMA ZeroNoticedStep ==
    ASSUME ZeroNoticed, [WorkersNext]_workersVars
    PROVE  ZeroNoticed'
<1>1. CASE MainThread
  BY <1>1, Zenon DEF MainThread, Add, Wait, Enqueue, EnqueueNotify, Stop, StopNotify, Join, ZeroNoticed
<1>2. CASE EnqueueLate \/ EnqueueLateNotify
  BY <1>2, Zenon DEF EnqueueLate, EnqueueLateNotify, ZeroNoticed
<1>3. ASSUME NEW t \in PoolThreads, PoolThread(t) PROVE ZeroNoticed'
  BY <1>3, Zenon DEF PoolThread, Take, Push, PushNotify, Done, AtZero, ZeroNoticed
<1>4. CASE \E c \in Consumers : WaitAndPop(c) \/ TryPop(c)
  BY <1>4, Zenon DEF WaitAndPop, TryPop, ZeroNoticed
<1>5. CASE SpuriousWakeup \/ UNCHANGED workersVars
  BY <1>5, Zenon DEF SpuriousWakeup, workersVars, ZeroNoticed
<1> QED BY <1>1, <1>2, <1>3, <1>4, <1>5, Zenon DEF WorkersNext

(* Threads end only when nothing is left, and main waits when all is sent.  *)
LEMMA EndInvStep ==
    ASSUME WorkersTypes, EndInv, [WorkersNext]_workersVars
    PROVE  EndInv'
<1>1. ASSUME UNCHANGED <<stopped, sent, tasks>>, mainPc' = mainPc \/ (mainPc = "blocked" /\ mainPc' = "wait"),
             \A t \in PoolThreads : poolPc'[t] = "exit" => poolPc[t] = "exit" \/ (stopped /\ tasks = <<>>)
      PROVE  EndInv'
  BY <1>1, Zenon DEF EndInv
<1>2. CASE Enqueue \/ EnqueueLate
  <2>1. CASE Enqueue
    BY <2>1, Zenon DEF Enqueue, EndInv
  <2>2. CASE EnqueueLate /\ stopped
    BY <1>1, <2>2, Zenon DEF EnqueueLate
  <2>3. CASE EnqueueLate /\ ~stopped
    BY <2>3, Zenon DEF EnqueueLate, EndInv
  <2> QED BY <1>2, <2>1, <2>2, <2>3, Zenon
<1>3. CASE EnqueueNotify \/ EnqueueLateNotify \/ StopNotify
  <2>1. \A t \in PoolThreads : poolPc'[t] = "exit" => poolPc[t] = "exit"
    BY <1>3, PoolRests, Zenon DEF EnqueueNotify, EnqueueLateNotify, StopNotify
  <2>2. CASE EnqueueLateNotify
    BY <1>1, <2>1, <2>2, Zenon DEF EnqueueLateNotify
  <2>3. CASE EnqueueNotify
    <3>1. sent < NTasks \/ sent = NTasks
      BY WorkersAssumption DEF WorkersTypes
    <3> QED BY <2>1, <2>3, <3>1, Zenon DEF EnqueueNotify, EndInv
  <2>4. CASE StopNotify
    BY <2>1, <2>4, Zenon DEF StopNotify, EndInv
  <2> QED BY <1>3, <2>2, <2>3, <2>4, Zenon
<1>4. CASE Add \/ Wait \/ Stop \/ Join
  <2>1. CASE Add
    BY <2>1, Zenon DEF Add, pool, EndInv
  <2>2. CASE Wait
    BY <2>2, Zenon DEF Wait, pool, EndInv
  <2>3. CASE Stop
    BY <2>3, Zenon DEF Stop, EndInv
  <2>4. CASE Join
    BY <2>4, Zenon DEF Join, pool, EndInv
  <2> QED BY <1>4, <2>1, <2>2, <2>3, <2>4, Zenon
<1>5. ASSUME NEW t \in PoolThreads, PoolThread(t) PROVE EndInv'
  <2>1. /\ UNCHANGED <<sent, stopped>>
        /\ mainPc' = mainPc \/ (mainPc = "blocked" /\ mainPc' = "wait")
    BY <1>5, PoolKeeps, Zenon
  <2>2. \A u \in PoolThreads : poolPc'[u] = "exit" => poolPc[u] = "exit" \/ (stopped /\ tasks = <<>>)
    <3>1. PICK s : Moves(t, s) /\ (s = "exit" => stopped /\ tasks = <<>>)
      BY <1>5, PoolMoves
    <3> QED BY <3>1, MovesTo, Zenon
  <2>3. tasks = <<>> => tasks' = <<>>
    BY <1>5, Zenon DEF PoolThread, Take, Push, PushNotify, Done
  <2> QED BY <2>1, <2>2, <2>3, Zenon DEF EndInv
<1>6. CASE SpuriousWakeup
  <2>1. ASSUME NEW t \in PoolThreads, Moves(t, "check")
        PROVE  \A u \in PoolThreads : poolPc'[u] = "exit" => poolPc[u] = "exit"
    BY <2>1, MovesTo, Zenon
  <2> QED BY <1>1, <1>6, <2>1, Zenon DEF SpuriousWakeup, pool, Moves
<1>7. CASE \E c \in Consumers : WaitAndPop(c) \/ TryPop(c)
  BY <1>1, <1>7, Zenon DEF WaitAndPop, TryPop, pool
<1>8. CASE UNCHANGED workersVars
  BY <1>1, <1>8, Zenon DEF workersVars, pool
<1> QED BY <1>2, <1>3, <1>4, <1>5, <1>6, <1>7, <1>8, Zenon DEF WorkersNext, MainThread

(* A task that was enqueued does not disappear before it has run.           *)
LEMMA PlaceInvStep ==
    ASSUME WorkersTypes, PlaceInv, [WorkersNext]_workersVars
    PROVE  PlaceInv'
<1>1. ASSUME sent' = sent, \A x \in 1..NTasks : Somewhere(x) => Somewhere(x)'
      PROVE  PlaceInv'
  BY <1>1, Zenon DEF PlaceInv
<1>2. ASSUME UNCHANGED <<tasks, ran, job>>, NEW x,
             \A t \in PoolThreads : poolPc[t] = "run" => poolPc'[t] = "run"
      PROVE  Somewhere(x) => Somewhere(x)'
  BY <1>2, Zenon DEF Somewhere, Holds
<1>3. CASE Enqueue \/ EnqueueLate
  <2>1. CASE UNCHANGED <<tasks, ran, job, poolPc, sent>>
    BY <1>1, <1>2, <2>1, Zenon
  <2>2. ASSUME NEW y \in Tasks, tasks' = Append(tasks, y), UNCHANGED <<ran, job, poolPc>>
        PROVE  Holds(tasks, y)' /\ \A x : Somewhere(x) => Somewhere(x)'
    <3>1. \A x : Holds(tasks, x)' <=> Holds(tasks, x) \/ x = y
      <4>1. \A x : Holds(Append(tasks, y), x) <=> Holds(tasks, x) \/ x = y
        BY AppendHolds, Zenon DEF WorkersTypes
      <4>2. \A x : Holds(tasks, x)' <=> Holds(Append(tasks, y), x)
        BY <2>2, Zenon DEF Holds
      <4> QED BY <4>1, <4>2, Zenon
    <3> QED BY <2>2, <3>1, Zenon DEF Somewhere
  <2>3. CASE Enqueue
    <3>1. sent + 1 \in Tasks \/ sent = NTasks
      BY WorkersAssumption DEF WorkersTypes, Tasks, LateTask
    <3>2. LateTask \in Tasks
      BY WorkersAssumption DEF Tasks, LateTask
    <3>3. sent + 1 \in Tasks
      BY <3>1, <3>2, Zenon DEF LateTask
    <3>4. PICK y \in Tasks : y = sent + 1
      BY <3>3, Zenon
    <3>5. Holds(tasks, y)' /\ (\A x : Somewhere(x) => Somewhere(x)') /\ sent' = sent + 1
      BY <2>2, <2>3, <3>4, Zenon DEF Enqueue
    <3>6. ASSUME NEW x \in 1..NTasks, x <= sent' PROVE x <= sent \/ x = y
      BY <3>4, <3>5, <3>6, WorkersAssumption DEF WorkersTypes
    <3> QED BY <3>5, <3>6, Zenon DEF PlaceInv, Somewhere
  <2>4. CASE EnqueueLate
    <3>1. LateTask \in Tasks
      BY WorkersAssumption DEF Tasks, LateTask
    <3> QED BY <1>1, <2>1, <2>2, <2>4, <3>1, Zenon DEF EnqueueLate
  <2> QED BY <1>3, <2>3, <2>4, Zenon
<1>4. CASE EnqueueNotify \/ EnqueueLateNotify \/ StopNotify
  BY <1>1, <1>2, <1>4, PoolRests, Zenon DEF EnqueueNotify, EnqueueLateNotify, StopNotify
<1>5. CASE Add \/ Wait \/ Stop \/ Join
  BY <1>1, <1>2, <1>5, Zenon DEF Add, Wait, Stop, Join, pool
<1>6. ASSUME NEW t \in PoolThreads, PushNotify(t) \/ Done(t) PROVE PlaceInv'
  <2>1. \A u \in PoolThreads : poolPc[u] = "run" => poolPc'[u] = "run"
    BY <1>6, Zenon DEF PushNotify, Done, WorkersTypes
  <2> QED BY <1>1, <1>2, <1>6, <2>1, Zenon DEF PushNotify, Done
<1>7. ASSUME NEW t \in PoolThreads, Take(t) PROVE PlaceInv'
  <2>1. poolPc[t] = "check" /\ UNCHANGED <<sent, ran>>
    BY <1>7, Zenon DEF Take
  <2>2. CASE tasks = <<>>
    <3>1. UNCHANGED <<tasks, job>> /\ \A u \in PoolThreads : poolPc[u] = "run" => poolPc'[u] = "run"
      BY <1>7, <2>1, <2>2, Zenon DEF Take, WorkersTypes
    <3> QED BY <1>1, <1>2, <2>1, <3>1, Zenon
  <2>3. CASE tasks # <<>>
    <3>1. /\ Moves(t, "run") /\ job' = [job EXCEPT ![t] = Head(tasks)] /\ tasks' = Tail(tasks)
      BY <1>7, <2>3, Zenon DEF Take, Moves
    <3>2. /\ poolPc'[t] = "run" /\ job'[t] = Head(tasks)
          /\ \A u \in PoolThreads : u # t => poolPc'[u] = poolPc[u] /\ job'[u] = job[u]
      BY <3>1, MovesTo, Zenon DEF WorkersTypes
    <3>3. \A x : Holds(tasks, x) => Holds(tasks, x)' \/ x = Head(tasks)
      <4>1. \A x : Holds(tasks, x) <=> Holds(Tail(tasks), x) \/ x = Head(tasks)
        BY <2>3, TailHolds, Zenon DEF WorkersTypes
      <4> QED BY <3>1, <4>1, Zenon DEF Holds
    <3> QED BY <1>1, <2>1, <3>2, <3>3, Zenon DEF Somewhere
  <2> QED BY <2>2, <2>3, Zenon
<1>8. ASSUME NEW t \in PoolThreads, Push(t) PROVE PlaceInv'
  <2>1. /\ UNCHANGED <<sent, tasks>> /\ ran' = [ran EXCEPT ![job[t]] = @ + 1]
        /\ \A u \in PoolThreads : u # t => poolPc'[u] = poolPc[u] /\ job'[u] = job[u]
    BY <1>8, Zenon DEF Push, WorkersTypes
  <2>2. \A x \in Tasks : ran'[x] = IF x = job[t] THEN ran[x] + 1 ELSE ran[x]
    BY <2>1, Zenon DEF WorkersTypes
  <2>3. \A x \in Tasks : (ran[x] # 0 \/ x = job[t] => ran'[x] # 0)
    BY <2>2 DEF WorkersTypes
  <2>4. 1..NTasks \subseteq Tasks
    BY WorkersAssumption DEF Tasks, LateTask
  <2>5. \A x : Holds(tasks, x) => Holds(tasks, x)'
    BY <2>1, Zenon DEF Holds
  <2> QED BY <1>1, <2>1, <2>3, <2>4, <2>5, Zenon DEF Somewhere
<1>9. CASE SpuriousWakeup
  <2>1. ASSUME NEW t \in PoolThreads, poolPc[t] = "blocked", Moves(t, "check")
        PROVE  \A u \in PoolThreads : poolPc[u] = "run" => poolPc'[u] = "run"
    BY <2>1, MovesTo, Zenon
  <2> QED BY <1>1, <1>2, <1>9, <2>1, Zenon DEF SpuriousWakeup, pool, Moves
<1>10. CASE (\E c \in Consumers : WaitAndPop(c) \/ TryPop(c)) \/ UNCHANGED workersVars
  BY <1>1, <1>2, <1>10, Zenon DEF WaitAndPop, TryPop, pool, workersVars
<1> QED BY <1>3, <1>4, <1>5, <1>6, <1>7, <1>8, <1>9, <1>10, Zenon DEF WorkersNext, MainThread, PoolThread

(* Whoever sleeps in wait_and_pop has enough notifications to come.         *)
LEMMA CountsFinite ==
    /\ IsFiniteSet(Pushed) /\ IsFiniteSet(Ready)
    /\ Cardinality(Pushed) \in Nat /\ Cardinality(Ready) \in Nat
<1>1. Pushed \in SUBSET PoolThreads /\ Ready \in SUBSET Consumers
  BY Zenon DEF Pushed, Ready
<1>2. IsFiniteSet(Pushed) /\ IsFiniteSet(Ready)
  BY <1>1, WorkersAssumption, FS_Subset, Zenon
<1>3. Cardinality(Pushed) \in Nat /\ Cardinality(Ready) \in Nat
  BY <1>2, FS_CardinalityType, Zenon
<1> QED BY <1>2, <1>3, Zenon

(* The steps that leave queue and consumers as they are.                    *)
LEMMA QueueRests ==
    ASSUME ResultsNoticed, UNCHANGED <<results, taken, consPc>>,
           \A t \in PoolThreads : poolPc'[t] = "pushed" <=> poolPc[t] = "pushed"
    PROVE  ResultsNoticed'
<1>1. Pushed' = Pushed /\ Ready' = Ready /\ AsleepInPop' = AsleepInPop
  BY Zenon DEF Pushed, Ready, AsleepInPop
<1> QED BY <1>1, Zenon DEF ResultsNoticed

LEMMA PushNoticed ==
    ASSUME WorkersTypes, ResultsNoticed, NEW t \in PoolThreads, Push(t), job[t] # LateTask
    PROVE  ResultsNoticed'
<1>1. /\ poolPc[t] = "run" /\ Moves(t, "pushed") /\ results' = Append(results, job[t])
      /\ UNCHANGED <<consPc, taken>>
  BY Zenon DEF Push, Moves
<1>2. Ready' = Ready /\ AsleepInPop' = AsleepInPop
  BY <1>1, Zenon DEF Ready, AsleepInPop
<1>3. Pushed' = Pushed \cup {t} /\ t \notin Pushed
  BY <1>1, MovesTo, Zenon DEF Pushed
<1>4. Cardinality(Pushed') = Cardinality(Pushed) + 1
  BY <1>3, CountsFinite, FS_AddElement, Zenon
<1>5. Len(results) \in Nat /\ Len(results') = Len(results) + 1
  <2>1. PICK S : results \in Seq(S)
    BY Zenon DEF WorkersTypes
  <2>2. PICK x : results' = Append(results, x)
    BY <1>1, Zenon
  <2> QED BY <2>1, <2>2
<1>6. AsleepInPop # {} => Len(results') <= Cardinality(Pushed') + Cardinality(Ready)
  BY <1>4, <1>5, CountsFinite DEF ResultsNoticed
<1> QED BY <1>1, <1>2, <1>6, Zenon DEF ResultsNoticed

(* push() notifies: the notification becomes a consumer that is about to    *)
(* pop, unless nobody sleeps.                                               *)
LEMMA PushNotifyNoticed ==
    ASSUME WorkersTypes, ResultsNoticed, NEW t \in PoolThreads, PushNotify(t)
    PROVE  ResultsNoticed'
<1>1. /\ poolPc[t] = "pushed" /\ Moves(t, "done") /\ consPc' \in NotifyOne(consPc)
      /\ UNCHANGED <<results, taken>>
  BY Zenon DEF PushNotify, Moves
<1>2. \/ consPc' = consPc /\ \A c \in Consumers : consPc[c] # "blocked"
      \/ \E u \in Consumers : consPc[u] = "blocked" /\ consPc' = [consPc EXCEPT ![u] = "check"]
  <2>1. PICK P : consPc \in [Consumers -> P]
    BY Zenon DEF WorkersTypes
  <2> QED BY <1>1, <2>1, OneWoken
<1>3. CASE consPc' = consPc /\ \A c \in Consumers : consPc[c] # "blocked"
  <2>1. AsleepInPop' = {}
    BY <1>3, Zenon DEF AsleepInPop
  <2> QED BY <2>1, Zenon DEF ResultsNoticed
<1>4. ASSUME NEW u \in Consumers, consPc[u] = "blocked", consPc' = [consPc EXCEPT ![u] = "check"]
      PROVE  ResultsNoticed'
  <2>1. Pushed' = Pushed \ {t} /\ t \in Pushed
    <3>1. poolPc'[t] = "done" /\ \A v \in PoolThreads : v # t => poolPc'[v] = poolPc[v]
      BY <1>1, MovesTo, Zenon
    <3>2. poolPc'[t] # "pushed"
      BY <3>1, Zenon
    <3> QED BY <1>1, <3>1, <3>2, Zenon DEF Pushed
  <2>2. Cardinality(Pushed') = Cardinality(Pushed) - 1
    BY <2>1, CountsFinite, FS_RemoveElement, Zenon
  <2>3. consPc'[u] = "check" /\ \A c \in Consumers : c # u => consPc'[c] = consPc[c]
    BY <1>4, Zenon DEF WorkersTypes
  <2>4. u \in AsleepInPop /\ Len(taken[u]) < Quota
    BY <1>4, Zenon DEF AsleepInPop, ResultsNoticed
  <2>5. Ready' = Ready \cup {u} /\ u \notin Ready /\ AsleepInPop' = AsleepInPop \ {u}
    <3>1. AsleepInPop' = AsleepInPop \ {u}
      BY <2>3, Zenon DEF AsleepInPop
    <3>2. Ready' = Ready \cup {u} /\ u \notin Ready
      <4>1. taken' = taken
        BY <1>1, Zenon
      <4> QED BY <1>4, <2>3, <2>4, <4>1, Zenon DEF Ready
    <3> QED BY <3>1, <3>2, Zenon
  <2>6. Cardinality(Ready') = Cardinality(Ready) + 1
    BY <2>5, CountsFinite, FS_AddElement, Zenon
  <2>7. Cardinality(Pushed') + Cardinality(Ready') = Cardinality(Pushed) + Cardinality(Ready)
    BY <2>2, <2>6, CountsFinite
  <2>8. Len(results) <= Cardinality(Pushed) + Cardinality(Ready)
    BY <2>4, Zenon DEF ResultsNoticed
  <2> QED BY <1>1, <2>5, <2>7, <2>8, Zenon DEF ResultsNoticed
<1> QED BY <1>2, <1>3, <1>4, Zenon

(* A consumer that pops was ready, and at most it is no longer.             *)
LEMMA PopNoticed ==
    ASSUME WorkersTypes, ResultsNoticed, NEW c \in Consumers, consPc[c] = "check", results # <<>>,
           taken' = [taken EXCEPT ![c] = Append(@, Head(results))], results' = Tail(results),
           UNCHANGED <<poolPc, consPc>>
    PROVE  ResultsNoticed'
<1>1. Pushed' = Pushed /\ AsleepInPop' = AsleepInPop /\ c \notin AsleepInPop
  BY Zenon DEF Pushed, AsleepInPop
<1>2. \A d \in Consumers : d # c => taken'[d] = taken[d]
  BY Zenon DEF WorkersTypes
<1>3. Cardinality(Ready) <= Cardinality(Ready') + 1
  <2>1. Ready \ {c} \in SUBSET Ready'
    BY <1>2, Zenon DEF Ready
  <2>2. IsFiniteSet(Ready')
    <3>1. Ready' \in SUBSET Consumers
      BY Zenon DEF Ready
    <3> QED BY <3>1, WorkersAssumption, FS_Subset, Zenon
  <2>3. Cardinality(Ready \ {c}) <= Cardinality(Ready')
    BY <2>1, <2>2, FS_Subset, Zenon
  <2>4. Cardinality(Ready \ {c}) = IF c \in Ready THEN Cardinality(Ready) - 1 ELSE Cardinality(Ready)
    BY CountsFinite, FS_RemoveElement, Zenon
  <2>5. Cardinality(Ready') \in Nat
    BY <2>2, FS_CardinalityType, Zenon
  <2> QED BY <2>3, <2>4, <2>5, CountsFinite
<1>4. Len(results) \in Nat /\ Len(results') = Len(results) - 1 /\ Cardinality(Ready') \in Nat
  <2>1. PICK S : results \in Seq(S)
    BY Zenon DEF WorkersTypes
  <2>2. Len(results) \in Nat /\ Len(results') = Len(results) - 1
    BY <2>1
  <2>3. Ready' \in SUBSET Consumers
    BY Zenon DEF Ready
  <2> QED BY <2>2, <2>3, WorkersAssumption, FS_Subset, FS_CardinalityType, Zenon
<1>5. AsleepInPop # {} => Len(results') <= Cardinality(Pushed) + Cardinality(Ready')
  BY <1>3, <1>4, CountsFinite DEF ResultsNoticed
<1>6. \A d \in AsleepInPop : taken'[d] = taken[d]
  BY <1>1, <1>2, Zenon DEF AsleepInPop
<1> QED BY <1>1, <1>5, <1>6, Zenon DEF ResultsNoticed

LEMMA ConsumerWakes ==
    ASSUME WorkersTypes, ResultsNoticed, NEW c \in Consumers, consPc[c] = "blocked",
           consPc' = [consPc EXCEPT ![c] = "check"], UNCHANGED <<poolPc, results, taken>>
    PROVE  ResultsNoticed'
<1>1. consPc'[c] = "check" /\ \A d \in Consumers : d # c => consPc'[d] = consPc[d]
  BY Zenon DEF WorkersTypes
<1>2. AsleepInPop' = AsleepInPop \ {c} /\ c \in AsleepInPop /\ Pushed' = Pushed
  BY <1>1, Zenon DEF AsleepInPop, Pushed
<1>3. Ready \in SUBSET Ready' /\ Ready' \in SUBSET Consumers
  BY <1>1, Zenon DEF Ready
<1>4. Cardinality(Ready) <= Cardinality(Ready') /\ Cardinality(Ready') \in Nat
  BY <1>3, WorkersAssumption, FS_Subset, FS_CardinalityType, Zenon
<1>5. Len(results) <= Cardinality(Pushed) + Cardinality(Ready)
  BY <1>2, Zenon DEF ResultsNoticed
<1>6. Len(results) \in Nat
  <2>1. PICK S : results \in Seq(S)
    BY Zenon DEF WorkersTypes
  <2> QED BY <2>1
<1>7. Len(results) <= Cardinality(Pushed) + Cardinality(Ready')
  BY <1>4, <1>5, <1>6, CountsFinite
<1> QED BY <1>2, <1>7, Zenon DEF ResultsNoticed

LEMMA ConsumerNoticed ==
    ASSUME WorkersTypes, ResultsNoticed, NEW c \in Consumers, WaitAndPop(c) \/ TryPop(c)
    PROVE  ResultsNoticed'
<1>1. CASE results = <<>>
  <2>1. /\ consPc' = [consPc EXCEPT ![c] = "blocked"] /\ Len(taken[c]) < Quota
        /\ UNCHANGED <<results, taken, poolPc>>
    BY <1>1, Zenon DEF WaitAndPop, TryPop, pool
  <2>2. \A d \in Consumers : d # c => consPc'[d] = consPc[d]
    BY <2>1, Zenon DEF WorkersTypes
  <2>3. \A d \in AsleepInPop' : Len(taken'[d]) < Quota
    BY <2>1, <2>2, Zenon DEF AsleepInPop, ResultsNoticed
  <2>4. Len(results') = 0
    BY <1>1, <2>1
  <2>5. Pushed' \in SUBSET PoolThreads /\ Ready' \in SUBSET Consumers
    BY Zenon DEF Pushed, Ready
  <2>6. Cardinality(Pushed') \in Nat /\ Cardinality(Ready') \in Nat
    BY <2>5, WorkersAssumption, FS_Subset, FS_CardinalityType, Zenon
  <2>7. Len(results') <= Cardinality(Pushed') + Cardinality(Ready')
    BY <2>4, <2>6
  <2> QED BY <2>3, <2>7, Zenon DEF ResultsNoticed
<1>2. CASE results # <<>>
  BY <1>2, PopNoticed, Zenon DEF WaitAndPop, TryPop, pool
<1> QED BY <1>1, <1>2, Zenon

LEMMA ResultsNoticedStep ==
    ASSUME WorkersTypes, ResultsNoticed, [WorkersNext]_workersVars
    PROVE  ResultsNoticed'
<1>1. CASE Enqueue \/ EnqueueLate \/ Add \/ Wait \/ Stop \/ Join
  BY <1>1, QueueRests, Zenon DEF Enqueue, EnqueueLate, Add, Wait, Stop, Join, pool, queue
<1>2. CASE EnqueueNotify \/ EnqueueLateNotify \/ StopNotify
  <2>1. \A t \in PoolThreads : poolPc'[t] = "pushed" <=> poolPc[t] = "pushed"
    BY <1>2, PoolRests, Zenon DEF EnqueueNotify, EnqueueLateNotify, StopNotify
  <2> QED BY <1>2, <2>1, QueueRests, Zenon DEF EnqueueNotify, EnqueueLateNotify, StopNotify, queue
<1>3. ASSUME NEW t \in PoolThreads, PoolThread(t) PROVE ResultsNoticed'
  <2>1. CASE Take(t)
    <3>1. poolPc[t] = "check" /\ \E s \in {"blocked", "run", "exit"} : Moves(t, s)
      BY <2>1, Zenon DEF Take, Moves
    <3>2. \A u \in PoolThreads : poolPc'[u] = "pushed" <=> poolPc[u] = "pushed"
      BY <3>1, MovesTo, Zenon
    <3> QED BY <2>1, <3>2, QueueRests, Zenon DEF Take, queue
  <2>2. CASE Done(t)
    <3>1. poolPc[t] = "done" /\ Moves(t, "check")
      BY <2>2, Zenon DEF Done, Moves
    <3>2. \A u \in PoolThreads : poolPc'[u] = "pushed" <=> poolPc[u] = "pushed"
      BY <3>1, MovesTo, Zenon
    <3> QED BY <2>2, <3>2, QueueRests, Zenon DEF Done, queue
  <2>3. CASE Push(t) /\ job[t] = LateTask
    <3>1. poolPc[t] = "run" /\ Moves(t, "check") /\ UNCHANGED <<results, taken, consPc>>
      BY <2>3, Zenon DEF Push, Moves
    <3>2. \A u \in PoolThreads : poolPc'[u] = "pushed" <=> poolPc[u] = "pushed"
      BY <3>1, MovesTo, Zenon
    <3> QED BY <3>1, <3>2, QueueRests, Zenon
  <2> QED BY <1>3, <2>1, <2>2, <2>3, PushNoticed, PushNotifyNoticed, Zenon DEF PoolThread
<1>4. CASE \E c \in Consumers : WaitAndPop(c) \/ TryPop(c)
  BY <1>4, ConsumerNoticed, Zenon
<1>5. CASE SpuriousWakeup
  <2>1. ASSUME NEW t \in PoolThreads, poolPc[t] = "blocked", Moves(t, "check"), UNCHANGED queue
        PROVE  ResultsNoticed'
    <3>1. \A u \in PoolThreads : poolPc'[u] = "pushed" <=> poolPc[u] = "pushed"
      BY <2>1, MovesTo, Zenon
    <3> QED BY <2>1, <3>1, QueueRests, Zenon DEF queue
  <2>2. ASSUME NEW c \in Consumers, consPc[c] = "blocked", consPc' = [consPc EXCEPT ![c] = "check"],
               UNCHANGED <<poolPc, results, taken>>
        PROVE  ResultsNoticed'
    BY <2>2, ConsumerWakes, Zenon
  <2>3. CASE UNCHANGED <<pool, queue>>
    BY <2>3, QueueRests, Zenon DEF pool, queue
  <2> QED BY <1>5, <2>1, <2>2, <2>3, Zenon DEF SpuriousWakeup, pool, Moves
<1>6. CASE UNCHANGED workersVars
  BY <1>6, QueueRests, Zenon DEF workersVars, pool, queue
<1> QED BY <1>1, <1>2, <1>3, <1>4, <1>5, <1>6, Zenon DEF WorkersNext, MainThread

(* The program begins with everybody awake.                                 *)
LEMMA WakeStart == WorkersInit => WakeInv
<1> SUFFICES ASSUME WorkersInit PROVE WakeInv
  OBVIOUS
<1>1. TasksNoticed /\ StopNoticed /\ ZeroNoticed
  BY Zenon DEF WorkersInit, TasksNoticed, StopNoticed, ZeroNoticed
<1>2. EndInv
  BY Zenon DEF WorkersInit, EndInv
<1>3. AsleepInPop = {}
  BY Zenon DEF WorkersInit, AsleepInPop
<1>4. ResultsNoticed
  BY <1>3, Zenon DEF ResultsNoticed
<1>5. PlaceInv
  BY DEF WorkersInit, PlaceInv
<1> QED BY <1>1, <1>2, <1>4, <1>5, Zenon DEF WakeInv

(* While wait() sleeps, what the counter counts is on its way.              *)
LEMMA WaitIsWoken ==
    ASSUME WorkersInv, WakeInv, mainPc = "blocked", PoolThreads # {}, latePc # "notify"
    PROVE  \E t \in PoolThreads : Awake(t)
<1>1. CASE Pushing # {}
  BY <1>1, Zenon DEF Pushing, Awake
<1>2. CASE Pushing = {}
  <2>1. counter # 0 /\ counter = Cardinality(Outstanding) + Cardinality(Pushing)
    BY Zenon DEF WakeInv, ZeroNoticed, WorkersInv, CountInv
  <2>2. Cardinality(Pushing) = 0 /\ Cardinality({}) = 0
    BY <1>2, FS_EmptySet, Zenon
  <2>3. Outstanding # {}
    BY <2>1, <2>2
  <2>4. PICK x \in 1..NTasks : ran[x] = 0
    BY <2>3, Zenon DEF Outstanding
  <2>5. x <= sent
    BY <2>4, WorkersAssumption DEF WakeInv, EndInv
  <2>6. Holds(tasks, x) \/ \E t \in PoolThreads : poolPc[t] = "run" /\ job[t] = x
    BY <2>4, <2>5, Zenon DEF WakeInv, PlaceInv, Somewhere
  <2>7. CASE Holds(tasks, x)
    <3>1. tasks # <<>>
      BY <2>7 DEF Holds
    <3>2. ASSUME NEW t \in PoolThreads, ~Awake(t) PROVE t \in Asleep
      <4>1. poolPc[t] # "exit"
        BY <3>1, Zenon DEF WakeInv, EndInv
      <4> QED BY <3>2, <4>1, Zenon DEF Awake, Asleep, WorkersInv, WorkersTypes
    <3> QED BY <3>1, <3>2, Zenon DEF WakeInv, TasksNoticed
  <2> QED BY <2>6, <2>7, Zenon DEF Awake
<1> QED BY <1>1, <1>2

LEMMA NobodyForgotten == WorkersInv /\ WakeInv => NobodySleepsOn
<1> SUFFICES ASSUME WorkersInv, WakeInv PROVE NobodySleepsOn
  OBVIOUS
<1>1. ASSUME mainPc = "join", NEW t \in PoolThreads PROVE Awake(t) \/ poolPc[t] = "exit"
  <2>1. stopped
    BY <1>1, Zenon DEF WakeInv, EndInv
  <2>2. poolPc[t] # "blocked"
    BY <1>1, <2>1, Zenon DEF WakeInv, StopNoticed, Asleep
  <2> QED BY <2>2, Zenon DEF Awake, WorkersInv, WorkersTypes
<1> QED BY <1>1, WaitIsWoken, Zenon DEF NobodySleepsOn, WakeInv, ResultsNoticed

(* Nobody sleeps while nobody is left to wake it, for any number of         *)
(* threads, consumers and tasks.                                            *)
THEOREM NobodyEverSleepsOn == WorkersSpec => []NobodySleepsOn
<1>1. WorkersInv /\ WakeInv /\ [WorkersNext]_workersVars => WakeInv'
  <2> SUFFICES ASSUME WorkersInv, WakeInv, [WorkersNext]_workersVars PROVE WakeInv'
    OBVIOUS
  <2>1. WorkersTypes
    BY Zenon DEF WorkersInv
  <2> QED BY <2>1, TasksNoticedStep, StopNoticedStep, ZeroNoticedStep, ResultsNoticedStep, EndInvStep,
             PlaceInvStep, Zenon DEF WakeInv
<1> QED BY <1>1, WakeStart, WorkersInvariant, NobodyForgotten, PTL DEF WorkersSpec
=============================================================================
