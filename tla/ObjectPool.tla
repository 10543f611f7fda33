----------------------------- MODULE ObjectPool -----------------------------
(***************************************************************************)
(* ObjectPool, whose vector of free objects is guarded by a Spinlock.      *)
(* Threads acquire objects and give back objects that they hold. Reading   *)
(* the last object and removing it are two steps, as in the code: only the *)
(* lock keeps another thread from coming between them.                     *)
(***************************************************************************)
EXTENDS Integers, Sequences

CONSTANTS Threads,
          MaxObjects  \* bound of the number of objects made

ASSUME ObjectPoolAssumption == MaxObjects \in Nat

VARIABLES
    flag,   \* flag_ of the spinlock
    step,   \* the next step of each thread
    gives,  \* the object that a thread in release() gives back
    seen,   \* the object that a thread in acquire() has read
    held,   \* the objects that each thread holds
    free,   \* pool_
    made    \* the number of objects made; they are 1 .. made

objectPoolVars == <<flag, step, gives, seen, held, free, made>>

ObjectPoolInit == /\ flag = FALSE
                  /\ step = [t \in Threads |-> "idle"]
                  /\ gives = [t \in Threads |-> 0]
                  /\ seen = [t \in Threads |-> 0]
                  /\ held = [t \in Threads |-> {}]
                  /\ free = <<>> /\ made = 0

Goes(t, next) == step' = [step EXCEPT ![t] = next]

CallAcquire(t) == /\ step[t] = "idle" /\ Goes(t, "lock")
                  /\ gives' = [gives EXCEPT ![t] = 0]
                  /\ UNCHANGED <<flag, seen, held, free, made>>

CallRelease(t, x) == /\ step[t] = "idle" /\ x \in held[t] /\ Goes(t, "lock")
                     /\ gives' = [gives EXCEPT ![t] = x]
                     /\ UNCHANGED <<flag, seen, held, free, made>>

\* Variant: test and set are not one operation.
SpinTestFirst(t) == /\ \/ step[t] = "lock" /\ ~flag /\ Goes(t, "set") /\ UNCHANGED flag
                       \/ step[t] = "set" /\ flag' = TRUE /\ Goes(t, "locked")
                    /\ UNCHANGED <<gives, seen, held, free, made>>

(* lock(): test_and_set until it finds the flag clear; unlock().            *)
SpinLock(t) == /\ step[t] = "lock" /\ ~flag
               /\ flag' = TRUE
               /\ Goes(t, "locked")
               /\ UNCHANGED <<gives, seen, held, free, made>>

Unlock(t) == /\ step[t] = "unlock" /\ Goes(t, "idle")
             /\ flag' = FALSE
             /\ UNCHANGED <<gives, seen, held, free, made>>

(* acquire(): a new object, or the last one of the vector.                  *)
New(t) == /\ step[t] = "locked" /\ gives[t] = 0 /\ free = <<>> /\ made < MaxObjects
          /\ made' = made + 1
          /\ held' = [held EXCEPT ![t] = @ \cup {made + 1}]
          /\ Goes(t, "unlock")
          /\ UNCHANGED <<flag, gives, seen, free>>

Back(t) == /\ step[t] = "locked" /\ gives[t] = 0 /\ free # <<>>
           /\ seen' = [seen EXCEPT ![t] = free[Len(free)]]
           /\ Goes(t, "pop")
           /\ UNCHANGED <<flag, gives, held, free, made>>

PopBack(t) == /\ step[t] = "pop" /\ Goes(t, "unlock")
              /\ free' = SubSeq(free, 1, Len(free) - 1)
              /\ held' = [held EXCEPT ![t] = @ \cup {seen[t]}]
              /\ UNCHANGED <<flag, gives, seen, made>>

(* release(): append the object to the vector.                              *)
PushBack(t) == /\ step[t] = "locked" /\ gives[t] # 0
               /\ free' = Append(free, gives[t])
               /\ held' = [held EXCEPT ![t] = @ \ {gives[t]}]
               /\ Goes(t, "unlock")
               /\ UNCHANGED <<flag, gives, seen, made>>

ObjectPoolNext ==
    \E t \in Threads : \/ CallAcquire(t) \/ \E x \in held[t] : CallRelease(t, x)
                       \/ SpinLock(t) \/ Unlock(t)
                       \/ New(t) \/ Back(t) \/ PopBack(t) \/ PushBack(t)

ObjectPoolSpec == ObjectPoolInit /\ [][ObjectPoolNext]_objectPoolVars

-----------------------------------------------------------------------------
(* An object is in one place: with one thread, or once in the vector.       *)
ObjectsInOnePlace ==
    /\ \A t, u \in Threads : t # u => held[t] \cap held[u] = {}
    /\ \A i \in DOMAIN free : \A t \in Threads : free[i] \notin held[t]
    /\ \A i, j \in DOMAIN free : free[i] = free[j] => i = j

(* The inductive invariant behind it: at most one thread is between lock()  *)
(* and unlock(), and then the flag is set; the object that a thread is      *)
(* about to remove is still the last one, and the one it gives back is its  *)
(* own.                                                                     *)
Inside == {"locked", "pop", "unlock"}

LockInv ==
    /\ flag \in BOOLEAN /\ step \in [Threads -> {"idle", "lock"} \cup Inside]
    /\ \A t \in Threads : step[t] \in Inside => flag
    /\ \A t, u \in Threads : step[t] \in Inside /\ step[u] \in Inside => t = u

PoolInv ==
    /\ made \in Nat /\ gives \in [Threads -> Nat] /\ seen \in [Threads -> Nat]
    /\ held \in [Threads -> SUBSET (1..made)] /\ free \in Seq(1..made)
    /\ \A t \in Threads :
        /\ step[t] \in {"lock", "locked"} /\ gives[t] # 0 => gives[t] \in held[t]
        /\ step[t] = "pop" => free # <<>> /\ seen[t] = free[Len(free)]
    /\ ObjectsInOnePlace

ObjectPoolInv == LockInv /\ PoolInv
=============================================================================
