----------------------------- MODULE PartsProofs -----------------------------
(***************************************************************************)
(* Proofs, for every value of the constants, about the parts around the    *)
(* engine that stand on their own. ObjectPool: an object is never in two   *)
(* places. Arena: blocks in use never overlap. Ownership: every bson_t has *)
(* one owner and every string is freed once. Uuid: the text of a generated *)
(* _id keeps the bits that were drawn. Iteration: a loop visits every      *)
(* field once, in order. Stopwatch: the elapsed time is the time it ran.   *)
(* Users: the authentication cache and the table of user records agree.    *)
(* Each theorem follows from the inductive invariant of its module.        *)
(***************************************************************************)
EXTENDS ObjectPool, Arena, Ownership, Uuid, Iteration, Stopwatch, Users, TLAPS

(* Taking the lock, and the steps outside it.                               *)
LEMMA LockSteps ==
    ASSUME LockInv, NEW t \in Threads,
           CallAcquire(t) \/ (\E x \in held[t] : CallRelease(t, x)) \/ SpinLock(t) \/ Unlock(t)
             \/ New(t) \/ Back(t) \/ PopBack(t) \/ PushBack(t)
    PROVE  LockInv'
<1> USE DEF LockInv, Inside, Goes
<1>1. CASE CallAcquire(t) BY <1>1 DEF CallAcquire
<1>2. ASSUME NEW x \in held[t], CallRelease(t, x) PROVE LockInv' BY <1>2 DEF CallRelease
<1>3. CASE SpinLock(t) BY <1>3 DEF SpinLock
<1>4. CASE Unlock(t) BY <1>4, Zenon DEF Unlock
<1>5. CASE New(t) BY <1>5 DEF New
<1>6. CASE Back(t) BY <1>6 DEF Back
<1>7. CASE PopBack(t) BY <1>7 DEF PopBack
<1>8. CASE PushBack(t) BY <1>8, Zenon DEF PushBack
<1> QED BY <1>1, <1>2, <1>3, <1>4, <1>5, <1>6, <1>7, <1>8

(* The steps that do not touch the vector or what threads hold.             *)
LEMMA PoolKept ==
    ASSUME LockInv, PoolInv, NEW t \in Threads,
           CallAcquire(t) \/ (\E x \in held[t] : CallRelease(t, x)) \/ SpinLock(t) \/ Unlock(t)
             \/ Back(t)
    PROVE  PoolInv'
<1> USE DEF LockInv, PoolInv, ObjectsInOnePlace, Inside, Goes
<1>1. CASE CallAcquire(t) BY <1>1 DEF CallAcquire
<1>2. ASSUME NEW x \in held[t], CallRelease(t, x) PROVE PoolInv' BY <1>2 DEF CallRelease
<1>3. CASE SpinLock(t) BY <1>3 DEF SpinLock
<1>4. CASE Unlock(t) BY <1>4 DEF Unlock
<1>5. CASE Back(t) BY <1>5, SMTT(30) DEF Back
<1> QED BY <1>1, <1>2, <1>3, <1>4, <1>5, Zenon

(* A new object is nowhere yet.                                             *)
LEMMA NewStep ==
    ASSUME LockInv, PoolInv, NEW t \in Threads, New(t)
    PROVE  PoolInv'
BY DEF LockInv, PoolInv, ObjectsInOnePlace, Inside, Goes, New

(* The object that is taken leaves the vector in the same step. It is the   *)
(* one that was read, because no other thread has been inside.              *)
LEMMA PopStep ==
    ASSUME LockInv, PoolInv, NEW t \in Threads, PopBack(t)
    PROVE  PoolInv'
<1> DEFINE n == Len(free)
<1>1. /\ free \in Seq(1..made) /\ free # <<>> /\ seen[t] = free[n] /\ n \in Nat /\ n > 0
      /\ n \in DOMAIN free /\ DOMAIN free = 1..n
  BY DEF PoolInv, PopBack
<1>2. made' = made /\ held' = [held EXCEPT ![t] = @ \cup {free[n]}] /\ free' = SubSeq(free, 1, n - 1)
  BY <1>1 DEF PopBack
<1>3. free' \in Seq(1..made') /\ Len(free') = n - 1 /\ \A i \in 1..(n - 1) : free'[i] = free[i]
  <2> DEFINE S == 1..made
  <2> HIDE DEF S
  <2>0. free \in Seq(S)
    BY <1>1 DEF S
  <2>1. \A i \in 1..(n - 1) : free[i] \in S
    BY <2>0
  <2>2. free' \in Seq(S) /\ Len(free') = IF 1 <= n - 1 THEN (n - 1) - 1 + 1 ELSE 0
    BY <1>1, <1>2, <2>0, <2>1
  <2>3. \A i \in 1..(n - 1) : free'[i] = free[i]
    BY <1>1, <1>2
  <2> QED BY <1>1, <1>2, <2>2, <2>3 DEF S
<1>4. /\ held \in [Threads -> SUBSET (1..made)] /\ ObjectsInOnePlace
      /\ \A u \in Threads : \A x : x \in held'[u] <=> x \in held[u] \/ (u = t /\ x = free[n])
  BY <1>2 DEF PoolInv
<1>5. \A u, v \in Threads : u # v => held'[u] \cap held'[v] = {}
  BY <1>1, <1>4 DEF ObjectsInOnePlace
<1>6. \A i \in DOMAIN free' : i \in DOMAIN free /\ i # n /\ free'[i] = free[i]
  <2>1. DOMAIN free' = 1..(n - 1)
    BY <1>3
  <2> QED BY <1>1, <1>3, <2>1
<1>7. ObjectsInOnePlace'
  BY <1>1, <1>4, <1>5, <1>6 DEF ObjectsInOnePlace
<1>8. \A u \in Threads : step'[u] # "pop" /\ (step'[u] \in {"lock", "locked"} => step'[u] = step[u] /\ held'[u] = held[u])
  BY <1>2 DEF PopBack, PoolInv, LockInv, Inside, Goes
<1>9. \A u \in Threads :
        /\ step'[u] \in {"lock", "locked"} /\ gives'[u] # 0 => gives'[u] \in held'[u]
        /\ step'[u] = "pop" => free' # <<>> /\ seen'[u] = free'[Len(free')]
  BY <1>8, Zenon DEF PoolInv, PopBack
<1>10. held' \in [Threads -> SUBSET (1..made')]
  <2>1. free[n] \in 1..made
    <3> DEFINE S == 1..made
    <3> HIDE DEF S
    <3>1. free \in Seq(S)
      BY <1>1 DEF S
    <3>2. n \in 1..Len(free)
      BY <1>1
    <3>3. free[n] \in S
      BY <3>1, <3>2
    <3> QED BY <3>3 DEF S
  <2> QED BY <1>2, <1>4, <2>1
<1> QED BY <1>2, <1>3, <1>7, <1>9, <1>10, Zenon DEF PoolInv, PopBack

(* The object that is given back was the thread's own.                      *)
LEMMA PushStep ==
    ASSUME LockInv, PoolInv, NEW t \in Threads, PushBack(t)
    PROVE  PoolInv'
<1> USE DEF LockInv, PoolInv, Inside, Goes, PushBack
<1>1. gives[t] \in held[t] /\ free \in Seq(1..made) /\ gives[t] \in 1..made
  OBVIOUS
<1>2. /\ free' \in Seq(1..made') /\ Len(free') = Len(free) + 1
      /\ free'[Len(free) + 1] = gives[t]
      /\ \A i \in 1..Len(free) : free'[i] = free[i]
  BY <1>1
<1>3. ObjectsInOnePlace'
  BY <1>1, <1>2, SMTT(30) DEF ObjectsInOnePlace
<1> QED BY <1>1, <1>2, <1>3

(* No object is held by two threads, or held and free at once.              *)
THEOREM ObjectPoolSafe == ObjectPoolSpec => []ObjectsInOnePlace
<1>1. ObjectPoolInit => ObjectPoolInv
  <2>1. ObjectPoolInit => LockInv
    BY Zenon DEF ObjectPoolInit, LockInv, Inside
  <2>2. ObjectPoolInit => ObjectsInOnePlace
    BY DEF ObjectPoolInit, ObjectsInOnePlace
  <2>3. ObjectPoolInit => made \in Nat /\ gives \in [Threads -> Nat] /\ seen \in [Threads -> Nat]
    BY DEF ObjectPoolInit
  <2>4. ObjectPoolInit => held \in [Threads -> SUBSET (1..made)] /\ free \in Seq(1..made)
    BY DEF ObjectPoolInit
  <2>5. ObjectPoolInit => \A t \in Threads : step[t] = "idle"
    BY Zenon DEF ObjectPoolInit
  <2> QED BY <2>1, <2>2, <2>3, <2>4, <2>5 DEF ObjectPoolInv, PoolInv
<1>2. ASSUME ObjectPoolInv, [ObjectPoolNext]_objectPoolVars PROVE ObjectPoolInv'
  <2>1. CASE UNCHANGED objectPoolVars
    BY <1>2, <2>1 DEF objectPoolVars, ObjectPoolInv, LockInv, PoolInv, ObjectsInOnePlace
  <2>2. CASE ObjectPoolNext
    BY <1>2, <2>2, LockSteps, PoolKept, NewStep, PopStep, PushStep
    DEF ObjectPoolNext, ObjectPoolInv
  <2> QED BY <1>2, <2>1, <2>2
<1>3. ObjectPoolInv => ObjectsInOnePlace
  BY DEF ObjectPoolInv, PoolInv
<1> QED BY <1>1, <1>2, <1>3, PTL DEF ObjectPoolSpec

-----------------------------------------------------------------------------
(* What the SMT solver knows of division by a constant.                     *)
LEMMA Division ==
    ASSUME NEW a \in Nat \ {0}, NEW x \in Nat
    PROVE  x % a \in 0..(a - 1) /\ x \div a \in Int /\ x = a * (x \div a) + (x % a)
OBVIOUS

LEMMA Multiples ==
    ASSUME NEW a \in Nat \ {0}, NEW q \in Int
    PROVE  (a * q) % a = 0
OBVIOUS

(* The padding is a natural number, and with it the offset is aligned.      *)
LEMMA PaddingAligns ==
    ASSUME NEW at \in Nat, NEW a \in Nat \ {0}
    PROVE  Padding(at, a) \in Nat /\ (at + Padding(at, a)) % a = 0
<1> DEFINE r == at % a
           q == at \div a
<1>1. r \in 0..(a - 1) /\ q \in Int /\ at = a * q + r
  BY Division
<1>2. CASE r = 0
  <2>1. (a - r) % a = 0 BY <1>2, SMT
  <2> QED BY <1>1, <1>2, <2>1 DEF Padding
<1>3. CASE r # 0
  <2>1. a - r \in 1..(a - 1) BY <1>1, <1>3
  <2>2. (a - r) % a = a - r BY <2>1, SMT
  <2>3. at + (a - r) = a * (q + 1) BY <1>1, SMT
  <2>4. (a * (q + 1)) % a = 0
    <3>1. q + 1 \in Int BY <1>1
    <3> QED BY <3>1, Multiples
  <2>5. (at + (a - r)) % a = 0 BY <2>3, <2>4, Zenon
  <2> QED BY <2>1, <2>2, <2>5 DEF Padding
<1> QED BY <1>2, <1>3

(* A block behind everything in use keeps the invariant.                    *)
LEMMA AppendBlock ==
    ASSUME PlacedInv, current \in Nat, offset \in Nat, NEW chunk \in Nat, NEW at \in Nat, NEW bytes \in Nat, NEW alignment \in Nat,
           current <= chunk, chunk = current => offset <= at, at + bytes <= ChunkSize,
           at % alignment = 0,
           blocks' = Append(blocks, Block(chunk, at, bytes, alignment)),
           current' = chunk, offset' = at + bytes, chunks' \in Nat, chunk < chunks'
    PROVE  PlacedInv'
<1> DEFINE R == [chunk : Nat, at : Nat, bytes : Nat, alignment : Nat]
           new == Block(chunk, at, bytes, alignment)
           n == Len(blocks)
<1>1. new \in R /\ new.chunk = chunk /\ new.at = at /\ new.bytes = bytes /\ new.alignment = alignment
  BY DEF Block
<1>2. blocks \in Seq(R) /\ current \in Nat /\ offset \in Nat /\ ChunkSize \in Nat
  BY ArenaAssumption DEF PlacedInv
<1>3. \A b \in R : b.chunk \in Nat /\ b.at \in Nat /\ b.bytes \in Nat
  OBVIOUS
<1>4. blocks' = Append(blocks, new)
  OBVIOUS
<1> HIDE DEF R, new
<1>5. n \in Nat /\ DOMAIN blocks = 1..n /\ \A i \in 1..n : blocks[i] \in R
  BY <1>2
<1>6. /\ blocks' \in Seq(R) /\ DOMAIN blocks' = 1..(n + 1) /\ blocks'[n + 1] = new
      /\ \A i \in 1..n : blocks'[i] = blocks[i]
  BY <1>1, <1>2, <1>4
<1>7. \A i \in DOMAIN blocks' : (i = n + 1 /\ blocks'[i] = new) \/ (i \in DOMAIN blocks /\ blocks'[i] = blocks[i])
  BY <1>5, <1>6
<1>8. \A i \in DOMAIN blocks :
        /\ blocks[i].chunk <= current /\ blocks[i].at + blocks[i].bytes <= ChunkSize
        /\ blocks[i].chunk = current => blocks[i].at + blocks[i].bytes <= offset
  BY DEF PlacedInv
<1>9. ASSUME NEW i \in DOMAIN blocks
      PROVE  /\ ~Overlap(blocks[i], new) /\ ~Overlap(new, blocks[i])
             /\ blocks[i].chunk <= chunk
             /\ blocks[i].chunk = chunk => blocks[i].at + blocks[i].bytes <= at + bytes
  <2> DEFINE b == blocks[i]
  <2>1. /\ b.chunk \in Nat /\ b.at \in Nat /\ b.bytes \in Nat
        /\ b.chunk <= current /\ (b.chunk = current => b.at + b.bytes <= offset)
    BY <1>3, <1>5, <1>8
  <2> HIDE DEF b
  <2>2. b.chunk <= chunk /\ (b.chunk = chunk => b.at + b.bytes <= at)
    BY <1>2, <2>1, SMTT(30)
  <2>3. ~Overlap(b, new) /\ ~Overlap(new, b)
    BY <1>1, <2>1, <2>2 DEF Overlap
  <2> QED BY <2>1, <2>2, <2>3 DEF b
<1>10. Disjoint'
  <2>1. \A i, j \in DOMAIN blocks : i # j => ~Overlap(blocks[i], blocks[j])
    BY DEF PlacedInv, Disjoint
  <2>2. \A i, j \in DOMAIN blocks' : i # j => ~Overlap(blocks'[i], blocks'[j])
    BY <1>5, <1>7, <1>9, <2>1, SMTT(30)
  <2> QED BY <2>2, Zenon DEF Disjoint, Overlap
<1>11. \A i \in DOMAIN blocks' :
         /\ blocks'[i].chunk <= current'
         /\ blocks'[i].at + blocks'[i].bytes <= ChunkSize
         /\ blocks'[i].chunk = current' => blocks'[i].at + blocks'[i].bytes <= offset'
  BY <1>1, <1>7, <1>8, <1>9, SMTT(30)
<1>12. current' \in Nat /\ offset' \in Nat /\ current' < chunks' /\ offset' <= ChunkSize
  BY <1>2
<1>13. blocks' \in Seq([chunk : Nat, at : Nat, bytes : Nat, alignment : Nat])
  BY <1>6 DEF R
<1>14. Aligned'
  <2>1. \A i \in DOMAIN blocks : blocks[i].at % blocks[i].alignment = 0
    BY DEF PlacedInv, Aligned
  <2>2. new.at % new.alignment = 0
    BY <1>1, Zenon
  <2>3. \A i \in DOMAIN blocks' : blocks'[i].at % blocks'[i].alignment = 0
    BY <1>7, <2>1, <2>2, Zenon
  <2> QED BY <2>3, Zenon DEF Aligned
<1> QED BY <1>10, <1>11, <1>12, <1>13, <1>14, Zenon DEF PlacedInv

(* Blocks in use lie inside their chunks, are aligned and never overlap,    *)
(* unless add_chunk() has thrown since the last reset().                    *)
THEOREM ArenaSafe == ArenaSpec => []BlocksSound
<1>1. ArenaInit => ArenaInv
  <2>1. ArenaInit => PlacedInv /\ chunks \in Nat \ {0} /\ current \in Nat /\ offset \in Nat
    BY ArenaAssumption DEF ArenaInit, PlacedInv, Disjoint, Aligned
  <2> QED BY <2>1, Zenon DEF ArenaInit, ArenaInv
<1>2. ASSUME ArenaInv, [ArenaNext]_arenaVars PROVE ArenaInv'
  <2>0. chunks \in Nat \ {0} /\ current \in Nat /\ offset \in Nat /\ thrown \in BOOLEAN
    BY <1>2 DEF ArenaInv
  <2>1. ASSUME NEW bytes \in 0..MaxBytes, NEW alignment \in Alignments, Allocate(bytes, alignment)
        PROVE  ArenaInv'
    <3>1. bytes \in Nat /\ alignment \in Nat \ {0} /\ offset \in Nat /\ ChunkSize \in Nat
      BY <2>0, ArenaAssumption
    <3>2. Padding(offset, alignment) \in Nat /\ (offset + Padding(offset, alignment)) % alignment = 0
      BY <3>1, PaddingAligns, Zenon
    <3> DEFINE at == offset + Padding(offset, alignment)
    <3>3. /\ offset + (bytes + Padding(offset, alignment)) <= ChunkSize
          /\ \E chunk \in ChunkAt(current, chunks) :
                blocks' = Append(blocks, Block(chunk, at, bytes, alignment))
          /\ offset' = at + bytes /\ chunks' = chunks /\ current' = current /\ thrown' = thrown
      BY <2>1 DEF Allocate
    <3>4. at \in Nat /\ offset <= at /\ at + bytes <= ChunkSize /\ at + bytes \in Nat
      BY <3>1, <3>2, <3>3
    <3>5. at % alignment = 0
      BY <3>2, Zenon
    <3> HIDE DEF at
    <3>6. ASSUME ~thrown PROVE PlacedInv'
      <4>1. PlacedInv /\ current < chunks /\ current <= current
        BY <1>2, <2>0, <3>6 DEF ArenaInv, PlacedInv
      <4>2. blocks' = Append(blocks, Block(current, at, bytes, alignment))
        BY <3>3, <4>1, Zenon DEF ChunkAt
      <4> QED BY <2>0, <3>1, <3>3, <3>4, <3>5, <4>1, <4>2, AppendBlock, Zenon
    <3> QED BY <2>0, <3>3, <3>4, <3>6, Zenon DEF ArenaInv
  <2>2. ASSUME NEW bytes \in 0..MaxBytes, NEW alignment \in Alignments, AllocateNext(bytes, alignment)
        PROVE  ArenaInv'
    <3>1. bytes \in Nat /\ alignment \in Nat \ {0} /\ offset \in Nat /\ ChunkSize \in Nat
      BY <2>0, ArenaAssumption
    <3>2. Padding(offset, alignment) \in Nat /\ Padding(0, alignment) = 0
      <4>1. Padding(offset, alignment) \in Nat
        BY <3>1, PaddingAligns, Zenon
      <4>2. Padding(0, alignment) = 0
        BY <3>1, SMT DEF Padding
      <4> QED BY <4>1, <4>2
    <3>3. /\ bytes <= ChunkSize /\ current' = current + 1 /\ offset' = 0 + bytes
          /\ \E chunk \in ChunkAt(current', chunks') :
                blocks' = Append(blocks, Block(chunk, 0, bytes, alignment))
          /\ chunks' = IF current + 1 >= chunks THEN chunks + 1 ELSE chunks
          /\ thrown' = thrown
      <4>1. bytes <= ChunkSize
        BY <2>2, <3>1, <3>2 DEF AllocateNext, GoesOn
      <4> QED BY <2>2, <3>2, <4>1, Zenon DEF AllocateNext
    <3>4. /\ current + 1 \in Nat /\ current <= current + 1 /\ current + 1 # current
          /\ chunks' \in Nat \ {0} /\ 0 + bytes <= ChunkSize /\ 0 + bytes \in Nat
          /\ current < chunks => current + 1 < chunks'
      BY <2>0, <3>1, <3>3
    <3>5. 0 % alignment = 0
      BY <3>1
    <3>6. ASSUME ~thrown PROVE PlacedInv'
      <4>1. PlacedInv /\ current' < chunks'
        BY <1>2, <3>3, <3>4, <3>6, Zenon DEF ArenaInv, PlacedInv
      <4>2. blocks' = Append(blocks, Block(current + 1, 0, bytes, alignment))
        BY <3>3, <4>1, Zenon DEF ChunkAt
      <4> QED BY <2>0, <3>1, <3>3, <3>4, <3>5, <4>1, <4>2, AppendBlock
    <3> QED BY <2>0, <3>3, <3>4, <3>6, Zenon DEF ArenaInv
  <2>3. ASSUME NEW bytes \in 0..MaxBytes, NEW alignment \in Alignments, AddChunkThrows(bytes, alignment)
        PROVE  ArenaInv'
    BY <2>0, <2>3 DEF AddChunkThrows, ArenaInv
  <2>4. CASE Reset
    <3>1. PlacedInv' /\ chunks' \in Nat \ {0} /\ current' \in Nat /\ offset' \in Nat
      BY <2>0, <2>4, ArenaAssumption DEF Reset, PlacedInv, Disjoint, Aligned
    <3> QED BY <2>4, <3>1, Zenon DEF Reset, ArenaInv
  <2>5. CASE UNCHANGED arenaVars
    BY <1>2, <2>5 DEF arenaVars, ArenaInv, PlacedInv, Disjoint, Aligned
  <2> QED BY <1>2, <2>1, <2>2, <2>3, <2>4, <2>5 DEF ArenaNext
<1>3. ArenaInv => BlocksSound
  <2> SUFFICES ASSUME PlacedInv, current \in Nat, chunks \in Nat
               PROVE  /\ Disjoint /\ Aligned
                      /\ \A i \in DOMAIN blocks : /\ blocks[i].chunk < chunks
                                                 /\ blocks[i].at + blocks[i].bytes <= ChunkSize
    BY DEF ArenaInv, BlocksSound
  <2>1. ASSUME NEW i \in DOMAIN blocks
        PROVE  blocks[i].chunk < chunks /\ blocks[i].at + blocks[i].bytes <= ChunkSize
    <3> DEFINE R == [chunk : Nat, at : Nat, bytes : Nat, alignment : Nat]
    <3>1. blocks[i].chunk \in Nat
      <4>1. blocks \in Seq(R)
        BY Zenon DEF PlacedInv
      <4>2. \A b \in R : b.chunk \in Nat
        OBVIOUS
      <4> HIDE DEF R
      <4>3. blocks[i] \in R
        BY <2>1, <4>1
      <4> QED BY <4>2, <4>3, Zenon
    <3>2. /\ blocks[i].chunk <= current /\ current < chunks
          /\ blocks[i].at + blocks[i].bytes <= ChunkSize
      BY <2>1, Zenon DEF PlacedInv
    <3> QED BY <3>1, <3>2
  <2> QED BY <2>1, Zenon DEF PlacedInv
<1> QED BY <1>1, <1>2, <1>3, PTL DEF ArenaSpec

-----------------------------------------------------------------------------
(* The pointers: what the invariant says of them.                           *)
PtrInv == /\ owns \in [Slots -> Cells \cup {Gone, Nil}] /\ live \subseteq Cells
          /\ SoleOwner

(* A slot that takes a free address, giving up what it had.                 *)
LEMMA SlotTakes ==
    ASSUME PtrInv, NEW s \in Slots, NEW c \in Cells \ (live \ {owns[s]}),
           c \notin raw,
           owns' = [owns EXCEPT ![s] = c], live' = (live \ {owns[s]}) \cup {c}, raw' = raw
    PROVE  PtrInv'
BY OwnershipAssumption DEF PtrInv, SoleOwner

(* A slot whose object takes over what another one has.                     *)
LEMMA SlotTakesOver ==
    ASSUME PtrInv, NEW s \in Slots, NEW o \in Slots, s # o, owns[o] # Gone,
           owns' = [owns EXCEPT ![s] = owns[o], ![o] = Nil],
           live' = live \ {owns[s]}, raw' = raw
    PROVE  PtrInv'
BY OwnershipAssumption DEF PtrInv, SoleOwner

LEMMA DocSteps ==
    ASSUME PtrInv, DocNext
    PROVE  PtrInv'
<1>0. /\ \A s \in Slots : owns[s] \notin raw
      /\ raw \subseteq live /\ live \subseteq Cells
      /\ Gone \notin live /\ Nil \notin live
  BY OwnershipAssumption DEF PtrInv, SoleOwner
<1>1. CASE NewRaw BY <1>1, OwnershipAssumption DEF NewRaw, PtrInv, SoleOwner
<1>2. ASSUME NEW s \in Slots, Construct(s) PROVE PtrInv'
  <2>1. PICK c \in Cells \ live : owns' = [owns EXCEPT ![s] = c] /\ live' = live \cup {c}
    BY <1>2, Zenon DEF Construct
  <2>2. live = live \ {owns[s]} BY <1>0, <1>2 DEF Construct, Exists
  <2>3. raw' = raw BY <1>2 DEF Construct
  <2> QED BY <1>0, <2>1, <2>2, <2>3, SlotTakes, Zenon
<1>3. ASSUME NEW s \in Slots, Wrap(s) PROVE PtrInv'
  BY <1>3, OwnershipAssumption DEF Wrap, Exists, PtrInv, SoleOwner
<1>4. ASSUME NEW s \in Slots, Destruct(s) PROVE PtrInv'
  BY <1>4, OwnershipAssumption DEF Destruct, Exists, PtrInv, SoleOwner
<1>5. ASSUME NEW s \in Slots, Parse(s) PROVE PtrInv'
  <2>1. PICK c \in Cells \ live : /\ owns' = [owns EXCEPT ![s] = c]
                                  /\ live' = (live \ {owns[s]}) \cup {c}
    BY <1>5, Zenon DEF Parse
  <2>2. raw' = raw BY <1>5 DEF Parse
  <2> QED BY <1>0, <2>1, <2>2, SlotTakes, Zenon
<1>6. ASSUME NEW s \in Slots, NEW o \in Slots, CopyConstruct(s, o) PROVE PtrInv'
  <2>1. PICK c \in Cells \ live : owns' = [owns EXCEPT ![s] = c] /\ live' = live \cup {c}
    BY <1>6, Zenon DEF CopyConstruct
  <2>2. live = live \ {owns[s]} BY <1>0, <1>6 DEF CopyConstruct, Exists
  <2>3. raw' = raw BY <1>6 DEF CopyConstruct
  <2> QED BY <1>0, <2>1, <2>2, <2>3, SlotTakes, Zenon
<1>7. ASSUME NEW s \in Slots, NEW o \in Slots, CopyAssign(s, o) PROVE PtrInv'
  <2>1. raw' = raw BY <1>7 DEF CopyAssign
  <2>2. CASE s = o BY <1>7, <2>1, <2>2 DEF CopyAssign, PtrInv, SoleOwner
  <2>3. CASE s # o
    <3>1. PICK c \in Cells \ (live \ {owns[s]}) :
             owns' = [owns EXCEPT ![s] = c] /\ live' = (live \ {owns[s]}) \cup {c}
      BY <1>7, <2>3 DEF CopyAssign
    <3>2. c \notin raw BY <1>0, <3>1
    <3> QED BY <2>1, <3>1, <3>2, SlotTakes, Zenon
  <2> QED BY <2>2, <2>3
<1>8. ASSUME NEW s \in Slots, NEW o \in Slots, MoveConstruct(s, o) PROVE PtrInv'
  <2>1. live = live \ {owns[s]} BY <1>0, <1>8 DEF MoveConstruct, Exists
  <2> QED BY <1>8, <2>1, SlotTakesOver, Zenon DEF MoveConstruct, Exists
<1>9. ASSUME NEW s \in Slots, NEW o \in Slots, MoveAssign(s, o) PROVE PtrInv'
  <2>1. CASE s = o BY <1>9, <2>1 DEF MoveAssign, PtrInv, SoleOwner
  <2>2. CASE s # o BY <1>9, <2>2, SlotTakesOver DEF MoveAssign, Exists
  <2> QED BY <2>1, <2>2
<1>10. ASSUME NEW s \in Slots, NEW o \in Slots, Finalize(s, o) PROVE PtrInv'
  <2>1. live = live \ {owns[o]} BY <1>0, <1>10, Zenon DEF Finalize, Exists
  <2> QED BY <1>10, <2>1, SlotTakesOver, Zenon DEF Finalize, Exists
<1> QED
  BY <1>1, <1>2, <1>3, <1>4, <1>5, <1>6, <1>7, <1>8, <1>9, <1>10, Zenon DEF DocNext

(* The strings: what the invariant says of them.                            *)
TextInv == /\ frees \in Nat
           /\ call \in {"found", "updated", "parse"} => frees = 0
           /\ call = "updated" /\ text = "[]" => count = 0
           /\ FreedOnce

LEMMA TextSteps ==
    ASSUME TextInv, TextNext
    PROVE  TextInv'
<1> USE DEF TextInv, FreedOnce
<1>1. CASE FindCall BY <1>1 DEF FindCall, Texts
<1>2. CASE FindEnd BY <1>2 DEF FindEnd, Free
<1>3. CASE UpdateCall BY <1>3 DEF UpdateCall, Texts
<1>4. CASE UpdateEmpty BY <1>4 DEF UpdateEmpty, FreeUpdateResult, Free
<1>5. CASE UpdateParsed BY <1>5 DEF UpdateParsed, FreeUpdateResult, Free
<1>6. CASE Return BY <1>6 DEF Return
<1> QED BY <1>1, <1>2, <1>3, <1>4, <1>5, <1>6 DEF TextNext

LEMMA OwnershipInvariant == OwnershipSpec => []OwnershipInv
<1>1. OwnershipInit => OwnershipInv
  BY DEF OwnershipInit, OwnershipInv, SoleOwner, FreedOnce
<1>2. OwnershipInv <=> PtrInv /\ TextInv BY DEF OwnershipInv, PtrInv, TextInv
<1>3. OwnershipInv' <=> PtrInv' /\ TextInv' BY DEF OwnershipInv, PtrInv, TextInv
<1>4. OwnershipInv /\ [OwnershipNext]_ownershipVars => OwnershipInv'
  <2> SUFFICES ASSUME PtrInv, TextInv, [OwnershipNext]_ownershipVars PROVE PtrInv' /\ TextInv'
    BY <1>2, <1>3
  <2>1. CASE DocNext
    <3>1. UNCHANGED textVars
      BY <2>1, Zenon DEF DocNext, NewRaw, Construct, Wrap, Destruct, Parse, CopyConstruct,
                  CopyAssign, MoveConstruct, MoveAssign, Finalize
    <3> QED BY <2>1, <3>1, DocSteps, Zenon DEF TextInv, FreedOnce, textVars
  <2>2. CASE TextNext
    <3>1. UNCHANGED docVars
      BY <2>2, Zenon
         DEF TextNext, FindCall, FindEnd, UpdateCall, UpdateEmpty, UpdateParsed, Return
    <3> QED BY <2>2, <3>1, TextSteps DEF PtrInv, SoleOwner, docVars
  <2>3. CASE UNCHANGED ownershipVars
    BY <2>3 DEF PtrInv, SoleOwner, TextInv, FreedOnce, ownershipVars, docVars, textVars
  <2> QED BY <2>1, <2>2, <2>3 DEF OwnershipNext
<1> QED BY <1>1, <1>4, PTL DEF OwnershipSpec

(* Document and its callers never share, lose or free twice a bson_t.       *)
THEOREM EveryBsonHasOneOwner == OwnershipSpec => []SoleOwner
<1>1. OwnershipInv => SoleOwner BY DEF OwnershipInv
<1> QED BY <1>1, OwnershipInvariant, PTL

(* Core frees every string it gets from Rust once.                          *)
THEOREM EveryStringFreedOnce == OwnershipSpec => []FreedOnce
<1>1. OwnershipInv => FreedOnce BY Zenon DEF OwnershipInv
<1> QED BY <1>1, OwnershipInvariant, PTL

-----------------------------------------------------------------------------
(* Where the digits of the two numbers are in the text.                     *)
LEMMA DigitsInText ==
    ASSUME NEW p \in Number64, NEW q \in Number64
    PROVE  /\ \A j \in 0..7 : Format(p, q)[j] = p[j]
           /\ \A j \in 8..11 : Format(p, q)[j + 1] = p[j]
           /\ \A j \in 12..15 : Format(p, q)[j + 2] = p[j]
           /\ \A j \in 0..3 : Format(p, q)[j + 19] = q[j]
           /\ \A j \in 4..15 : Format(p, q)[j + 20] = q[j]
           /\ \A i \in {8, 13, 18, 23} : Format(p, q)[i] = Hyphen
<1>1. \A j \in 0..7 : Format(p, q)[j] = p[j] BY DEF Format
<1>2. \A j \in 8..11 : Format(p, q)[j + 1] = p[j] BY DEF Format
<1>3. \A j \in 12..15 : Format(p, q)[j + 2] = p[j] BY DEF Format
<1>4. \A j \in 0..3 : Format(p, q)[j + 19] = q[j] BY DEF Format
<1>5. \A j \in 4..15 : Format(p, q)[j + 20] = q[j] BY DEF Format
<1>6. \A i \in {8, 13, 18, 23} : Format(p, q)[i] = Hyphen BY DEF Format
<1> QED BY <1>1, <1>2, <1>3, <1>4, <1>5, <1>6, Zenon

(* The text tells two pairs of numbers apart.                               *)
LEMMA FormatInjective ==
    ASSUME NEW p \in Number64, NEW q \in Number64, NEW r \in Number64, NEW s \in Number64,
           Format(p, q) = Format(r, s)
    PROVE  p = r /\ q = s
<1>1. \A j \in 0..15 : p[j] = r[j]
  <2>1. \A j \in 0..7 : p[j] = r[j] BY DigitsInText
  <2>2. \A j \in 8..11 : p[j] = r[j] BY DigitsInText
  <2>3. \A j \in 12..15 : p[j] = r[j] BY DigitsInText
  <2> QED BY <2>1, <2>2, <2>3
<1>2. \A j \in 0..15 : q[j] = s[j]
  <2>1. \A j \in 0..3 : q[j] = s[j] BY DigitsInText, SMTT(30)
  <2>2. \A j \in 4..15 : q[j] = s[j] BY DigitsInText
  <2> QED BY <2>1, <2>2, SMTT(30)
<1> QED BY <1>1, <1>2 DEF Number64

(* Two numbers are the same if their digits are.                            *)
LEMMA SameDigits ==
    ASSUME NEW f \in Number64, NEW g \in Number64
    PROVE  f = g <=> f[0] = g[0] /\ \A j \in 1..15 : f[j] = g[j]
<1>1. f = g <=> \A j \in 0..15 : f[j] = g[j] BY DEF Number64
<1> QED BY <1>1

(* The masks leave digits, and what they overwrite is what RandomBits       *)
(* leaves out.                                                              *)
LEMMA Masks ==
    ASSUME NEW p \in Number64, NEW r \in Number64
    PROVE  /\ SetVersion(p) \in Number64 /\ SetVariant(p) \in Number64
           /\ SetVersion(p)[12] = 4 /\ SetVariant(p)[0] \in 8..11
           /\ SetVersion(p) = SetVersion(r) <=> [p EXCEPT ![12] = 0] = [r EXCEPT ![12] = 0]
           /\ SetVariant(p) = SetVariant(r) <=> [p EXCEPT ![0] = @ % 4] = [r EXCEPT ![0] = @ % 4]
<1>1. p[0] \in 0..15 /\ p[0] % 4 \in 0..3 /\ r[0] % 4 \in 0..3
  BY DEF Number64
<1>2. SetVersion(p) \in Number64 /\ SetVersion(p)[12] = 4 BY DEF SetVersion, Number64
<1>3. SetVariant(p) \in Number64 /\ SetVariant(p)[0] \in 8..11 BY <1>1 DEF SetVariant, Number64
<1>4. SetVersion(p) = SetVersion(r) <=> \A j \in 0..15 : j # 12 => p[j] = r[j]
  BY Zenon DEF SetVersion, Number64
<1>5. [p EXCEPT ![12] = 0] = [r EXCEPT ![12] = 0] <=> \A j \in 0..15 : j # 12 => p[j] = r[j]
  BY Zenon DEF Number64
<1>6. SetVariant(p) = SetVariant(r)
        <=> p[0] % 4 = r[0] % 4 /\ \A j \in 1..15 : p[j] = r[j]
  <2> DEFINE f == SetVariant(p)
             g == SetVariant(r)
  <2>1. /\ f \in Number64 /\ f[0] = 8 + (p[0] % 4) /\ \A j \in 1..15 : f[j] = p[j]
        /\ g \in Number64 /\ g[0] = 8 + (r[0] % 4) /\ \A j \in 1..15 : g[j] = r[j]
    BY <1>1 DEF SetVariant, Number64
  <2> HIDE DEF f, g
  <2>2. f = g <=> f[0] = g[0] /\ \A j \in 1..15 : f[j] = g[j] BY <2>1, SameDigits
  <2>3. f = g <=> p[0] % 4 = r[0] % 4 /\ \A j \in 1..15 : p[j] = r[j] BY <1>1, <2>1, <2>2, SMTT(30)
  <2> QED BY <2>3 DEF f, g
<1>7. [p EXCEPT ![0] = @ % 4] = [r EXCEPT ![0] = @ % 4]
        <=> p[0] % 4 = r[0] % 4 /\ \A j \in 1..15 : p[j] = r[j]
  <2> DEFINE f == [p EXCEPT ![0] = @ % 4]
             g == [r EXCEPT ![0] = @ % 4]
  <2>1. /\ f \in Number64 /\ f[0] = p[0] % 4 /\ \A j \in 1..15 : f[j] = p[j]
        /\ g \in Number64 /\ g[0] = r[0] % 4 /\ \A j \in 1..15 : g[j] = r[j]
    BY <1>1 DEF Number64
  <2> HIDE DEF f, g
  <2>2. f = g <=> f[0] = g[0] /\ \A j \in 1..15 : f[j] = g[j] BY <2>1, SameDigits
  <2>3. f = g <=> p[0] % 4 = r[0] % 4 /\ \A j \in 1..15 : p[j] = r[j] BY <2>1, <2>2, Zenon
  <2> QED BY <2>3 DEF f, g
<1> QED BY <1>2, <1>3, <1>4, <1>5, <1>6, <1>7, Zenon

(* What the invariant says, of any two draws.                               *)
LEMMA AnyTwoDraws ==
    ASSUME NEW a \in Draw, NEW b \in Draw
    PROVE  /\ \A i \in 0..35 : GenerateV4(b)[i] = Hyphen <=> i \in {8, 13, 18, 23}
           /\ GenerateV4(b)[14] = 4 /\ GenerateV4(b)[19] \in 8..11
           /\ GenerateV4(a) = GenerateV4(b) <=> RandomBits(a) = RandomBits(b)
<1> DEFINE p == SetVersion(b[1])
           q == SetVariant(b[2])
<1>1. a[1] \in Number64 /\ a[2] \in Number64 /\ b[1] \in Number64 /\ b[2] \in Number64
  BY DEF Draw, Number64
<1>2. p \in Number64 /\ q \in Number64 /\ p[12] = 4 /\ q[0] \in 8..11 BY <1>1, Masks, Zenon
<1>3. GenerateV4(b) = Format(p, q) BY DEF GenerateV4
<1> HIDE DEF p, q
<1>4. Format(p, q)[14] = 4 /\ Format(p, q)[19] \in 8..11
  <2>1. Format(p, q)[12 + 2] = p[12] /\ Format(p, q)[0 + 19] = q[0] BY <1>2, DigitsInText, SMTT(30)
  <2> QED BY <1>2, <2>1
<1>5. \A i \in 0..35 : Format(p, q)[i] = Hyphen <=> i \in {8, 13, 18, 23}
  <2>1. \A j \in 0..15 : p[j] # Hyphen /\ q[j] # Hyphen BY <1>2 DEF Number64, Hyphen
  <2> QED BY <2>1 DEF Format
<1>6. GenerateV4(a) = GenerateV4(b) <=> RandomBits(a) = RandomBits(b)
  <2>1. GenerateV4(a) = GenerateV4(b)
          <=> SetVersion(a[1]) = SetVersion(b[1]) /\ SetVariant(a[2]) = SetVariant(b[2])
    <3>1. SetVersion(a[1]) \in Number64 /\ SetVariant(a[2]) \in Number64 BY <1>1, Masks, Zenon
    <3>2. SetVersion(b[1]) \in Number64 /\ SetVariant(b[2]) \in Number64 BY <1>1, Masks, Zenon
    <3> QED BY <3>1, <3>2, FormatInjective DEF GenerateV4
  <2>2. RandomBits(a) = RandomBits(b)
          <=> /\ [a[1] EXCEPT ![12] = 0] = [b[1] EXCEPT ![12] = 0]
              /\ [a[2] EXCEPT ![0] = @ % 4] = [b[2] EXCEPT ![0] = @ % 4]
    BY DEF RandomBits
  <2>3. SetVersion(a[1]) = SetVersion(b[1])
          <=> [a[1] EXCEPT ![12] = 0] = [b[1] EXCEPT ![12] = 0]
    BY <1>1, Masks, Zenon
  <2>4. SetVariant(a[2]) = SetVariant(b[2])
          <=> [a[2] EXCEPT ![0] = @ % 4] = [b[2] EXCEPT ![0] = @ % 4]
    BY <1>1, Masks, ZenonT(30)
  <2> QED BY <2>1, <2>2, <2>3, <2>4, Zenon
<1> QED BY <1>3, <1>4, <1>5, <1>6, Zenon

(* Whatever two calls draw, a generated _id has its form and keeps the      *)
(* random bits.                                                             *)
THEOREM RandomBitsAlwaysKept == UuidSpec => []RandomBitsKept
<1> DEFINE DrawInv == one \in Draw /\ other \in Draw
<1>1. UuidInit => DrawInv BY UuidAssumption DEF UuidInit, Draw, Number64
<1>2. DrawInv /\ [DrawOther]_uuidVars => DrawInv'
  <2> SUFFICES ASSUME DrawInv, [DrawOther]_uuidVars PROVE DrawInv' OBVIOUS
  <2>1. ASSUME NEW k \in 1..2, NEW i \in 0..15, NEW v \in 0..15
        PROVE  [one EXCEPT ![k][i] = v] \in Draw
    BY Zenon DEF Draw, Number64
  <2> QED BY <2>1, ZenonT(40) DEF DrawOther, uuidVars
<1>3. DrawInv => RandomBitsKept BY AnyTwoDraws DEF RandomBitsKept
<1> QED BY <1>1, <1>2, <1>3, PTL DEF UuidSpec

-----------------------------------------------------------------------------
(* A round of the loop, whichever increment it uses.                        *)
LEMMA RoundIs == IterationNext => /\ it.valid /\ keys' = Append(keys, Key(it))
                                  /\ it' = [valid |-> it.at < fields, at |-> it.at + 1]
                                  /\ fields' = fields
  BY Zenon DEF IterationNext, Round, RoundPost, PostIncrement, Increment, Same, End

(* Behind the position of begin(), a loop over the fields of a document     *)
(* comes past all of them in order.                                         *)
THEOREM FieldsAlwaysInOrder == IterationSpec => []FieldsInOrder
<1>1. IterationInit => IterationInv
  <2> SUFFICES ASSUME IterationInit PROVE IterationInv
    OBVIOUS
  <2>1. /\ fields \in NullDoc..MaxFields /\ fields \in Int
        /\ keys \in Seq(Int) /\ Len(keys) = 0 /\ \A i \in 2..Len(keys) : keys[i] = i - 1
    BY IterationAssumption DEF IterationInit, NullDoc
  <2>2. it \in [valid : BOOLEAN, at : Nat] /\ it.at = 0
    BY DEF IterationInit, Begin
  <2>3. IF it.valid THEN fields # NullDoc /\ it.at <= fields ELSE it.at = fields + 1
    <3>1. it.valid <=> fields # NullDoc
      BY Zenon DEF IterationInit, Begin
    <3> QED BY <2>1, <2>2, <3>1 DEF NullDoc
  <2> QED BY <2>1, <2>2, <2>3 DEF IterationInv
<1>2. IterationInv /\ [IterationNext]_iterationVars => IterationInv'
  <2> SUFFICES ASSUME IterationInv, [IterationNext]_iterationVars PROVE IterationInv'
    OBVIOUS
  <2>1. CASE UNCHANGED iterationVars
    BY <2>1, Zenon DEF iterationVars, IterationInv
  <2>2. CASE IterationNext
    <3> DEFINE shown == Key(it)
    <3>1. /\ it.valid /\ keys' = Append(keys, shown) /\ fields' = fields
          /\ it' = [valid |-> it.at < fields, at |-> it.at + 1]
      BY <2>2, RoundIs, Zenon
    <3>2. /\ fields \in Int /\ it.at \in Nat /\ it.at = Len(keys) /\ keys \in Seq(Int)
          /\ fields # NullDoc /\ it.at <= fields /\ \A i \in 2..Len(keys) : keys[i] = i - 1
      BY <3>1, IterationAssumption DEF IterationInv, NullDoc
    <3>3. shown \in Int /\ (it.at # 0 => shown = it.at)
      BY <3>1, <3>2 DEF Key, HeaderBytes
    <3> HIDE DEF shown
    <3>4. keys' \in Seq(Int) /\ Len(keys') = it.at + 1 /\ \A i \in 2..(it.at + 1) : keys'[i] = i - 1
      BY <3>1, <3>2, <3>3
    <3>5. /\ it' \in [valid : BOOLEAN, at : Nat] /\ it'.at = it.at + 1
          /\ IF it'.valid THEN it'.at <= fields ELSE it'.at = fields + 1
      <4>1. it'.valid <=> it.at < fields
        BY <3>1, Zenon
      <4>2. it'.at = it.at + 1 /\ it' \in [valid : BOOLEAN, at : Nat]
        <5>1. (it.at < fields) \in BOOLEAN /\ it.at + 1 \in Nat
          BY <3>2
        <5> QED BY <3>1, <5>1, Zenon
      <4> QED BY <3>2, <4>1, <4>2
    <3> QED BY <3>1, <3>2, <3>4, <3>5 DEF IterationInv
  <2> QED BY <2>1, <2>2
<1>3. IterationInv => FieldsInOrder
  <2> SUFFICES ASSUME IterationInv PROVE FieldsInOrder
    OBVIOUS
  <2>1. /\ fields \in Int /\ \A i \in 2..Len(keys) : keys[i] = i - 1
        /\ ~it.valid => Len(keys) = fields + 1
    BY IterationAssumption DEF IterationInv, NullDoc
  <2>2. ASSUME ~it.valid PROVE {keys[i] : i \in 2..Len(keys)} = 1..fields
    <3>1. ASSUME NEW k \in 1..fields PROVE \E i \in 2..Len(keys) : k = keys[i]
      <4>1. k + 1 \in 2..Len(keys) /\ keys[k + 1] = k
        BY <2>1, <2>2
      <4> QED BY <4>1
    <3>2. ASSUME NEW i \in 2..Len(keys) PROVE keys[i] \in 1..fields
      BY <2>1, <2>2
    <3> QED BY <3>1, <3>2
  <2> QED BY <2>1, <2>2, Zenon DEF FieldsInOrder, Same, End
<1> QED BY <1>1, <1>2, <1>3, PTL DEF IterationSpec

(* elapsed_ns() is the time during which the watch has been running, if the *)
(* clock was not set meanwhile.                                             *)
THEOREM ElapsedAlwaysExact == StopwatchSpec => []ElapsedExact
<1>1. StopwatchInit => StopwatchInv
  BY DEF StopwatchInit, StopwatchInv, ElapsedExact, Elapsed
<1>2. StopwatchInv /\ [StopwatchNext]_stopwatchVars => StopwatchInv'
  <2> SUFFICES ASSUME StopwatchInv, [StopwatchNext]_stopwatchVars PROVE StopwatchInv'
    OBVIOUS
  <2> USE DEF StopwatchInv, ElapsedExact, Elapsed
  <2>1. CASE StartWatch
    BY <2>1 DEF StartWatch
  <2>2. CASE StopWatch
    <3>1. sofar + (clock - started) \in Int
      OBVIOUS
    <3> QED BY <2>2, <3>1, Zenon DEF StopWatch
  <2>3. CASE ResetWatch
    <3>1. 0 \in Nat /\ 0 \in Int
      OBVIOUS
    <3> QED BY <2>3, <3>1, Zenon DEF ResetWatch
  <2>4. CASE ClockTick
    BY <2>4 DEF ClockTick
  <2>5. ASSUME NEW now \in 0..MaxClock, ClockSet(now) PROVE StopwatchInv'
    <3>1. now \in Int /\ adjusted + 1 \in Nat /\ adjusted + 1 # 0
      OBVIOUS
    <3> QED BY <2>5, <3>1, Zenon DEF ClockSet
  <2>6. CASE UNCHANGED stopwatchVars
    BY <2>6 DEF stopwatchVars
  <2> QED BY <2>1, <2>2, <2>3, <2>4, <2>5, <2>6 DEF StopwatchNext
<1>3. StopwatchInv => ElapsedExact
  BY DEF StopwatchInv
<1> QED BY <1>1, <1>2, <1>3, PTL DEF StopwatchSpec

-----------------------------------------------------------------------------
(* The records that requests ask for.                                       *)
LEMMA RequestFacts ==
    ASSUME NEW c \in Requests
    PROVE  /\ c[1] \in UserKeys /\ c[2] \in Roles /\ c = <<c[1], c[2]>>
           /\ c # NoRecord /\ c[2] # Absent
BY UsersAssumption DEF NoRecord

(* add_user keeps the users there are and adds the new one.                 *)
LEMMA AddUserFacts ==
    ASSUME NEW c \in Users, NEW k \in UserKeys, NEW r \in Roles
    PROVE  /\ AddUser(c, k, r) \in Users
           /\ AddUser(c, k, r)[k] = IF c[k] = Absent THEN r ELSE c[k]
           /\ \A i \in UserKeys : i # k => AddUser(c, k, r)[i] = c[i]
BY DEF AddUser, Users

(* A record that is read has a role, and ADMIN, READ_WRITE and READ_ONLY    *)
(* are read as they were written.                                           *)
LEMMA LoadedFacts ==
    ASSUME NEW r \in Roles \cup {Absent}
    PROVE  /\ LoadedRole(r) \in Roles \cup {Absent}
           /\ (LoadedRole(r) = Absent) <=> (r = Absent)
           /\ r # "NONE" => LoadedRole(r) = r
BY UsersAssumption DEF LoadedRole, Roles

(* Writing a record changes that record or nothing.                         *)
LEMMA PutFacts ==
    ASSUME stored \in Users, NEW k \in UserKeys, NEW r \in Roles, Put(k, r)
    PROVE  /\ stored' \in Users
           /\ \A i \in UserKeys : stored'[i] = stored[i] \/ (i = k /\ stored'[i] = r)
           /\ ~failed' => stored'[k] = r
BY DEF Put, Users

(* The records of failures keep their types.                                *)
LEMMA FailedType == failed \in BOOLEAN /\ short \in BOOLEAN /\ [UsersNext]_usersVars
                       => failed' \in BOOLEAN /\ short' \in BOOLEAN
BY ZenonT(40)
   DEF UsersNext, usersVars, CreateCached, CreateStored, Put, Start, Bootstrap, Shutdown, Crash, ProcessEnds

-----------------------------------------------------------------------------
(* Every recorded user is known: the invariant is inductive.                *)
LEMMA InitKnown == UsersInit => KnownInv
BY UsersAssumption, Zenon DEF UsersInit, KnownInv, StoredUserKnown, UsersTypeOK, NoUsers, Users, Idle

(* Every step keeps it: create_user caches a user before it is recorded.    *)
LEMMA NextKnown == KnownInv /\ [UsersNext]_usersVars => KnownInv'
<1> SUFFICES ASSUME KnownInv, [UsersNext]_usersVars PROVE KnownInv'
  OBVIOUS
<1> USE DEF KnownInv, StoredUserKnown
<1>0. failed' \in BOOLEAN /\ short' \in BOOLEAN
  BY FailedType, Zenon DEF UsersTypeOK
<1>1. ASSUME NEW t \in UserThreads, NEW c \in Requests, CreateCached(t, c[1], c[2])
      PROVE  KnownInv'
  <2>1. /\ UNCHANGED <<up, stored, disk, booting, failed, short>> /\ up
        /\ cache' = AddUser(cache, c[1], c[2])
        /\ pending' = [pending EXCEPT ![t] = c]
    BY <1>1, RequestFacts, Zenon DEF CreateCached
  <2>2. /\ cache' \in Users /\ cache'[c[1]] # Absent
        /\ \A k \in UserKeys : cache[k] # Absent => cache'[k] # Absent
    BY <2>1, RequestFacts, AddUserFacts, SMTT(30) DEF UsersTypeOK
  <2>3. UsersTypeOK'
    BY <1>0, <2>1, <2>2, Zenon DEF UsersTypeOK
  <2>4. \A w \in UserThreads : pending'[w] # NoRecord => cache'[pending'[w][1]] # Absent
    BY <2>1, <2>2, RequestFacts, Zenon DEF UsersTypeOK
  <2> QED
    BY <2>1, <2>2, <2>3, <2>4, UsersAssumption
<1>2. ASSUME NEW t \in UserThreads, CreateStored(t) PROVE KnownInv'
  <2> DEFINE c == pending[t]
  <2>1. /\ UNCHANGED <<up, cache, disk, booting, short>> /\ c \in Requests
        /\ pending' = [pending EXCEPT ![t] = NoRecord] /\ Put(c[1], c[2])
    BY <1>2 DEF CreateStored, UsersTypeOK
  <2>2. /\ stored' \in Users
        /\ \A k \in UserKeys : stored'[k] = stored[k] \/ k = c[1]
    <3>1. stored \in Users /\ c[1] \in UserKeys /\ c[2] \in Roles
      BY <2>1, RequestFacts, Zenon DEF UsersTypeOK
    <3> HIDE DEF KnownInv
    <3> QED
      BY <2>1, <3>1, PutFacts
  <2>3. UsersTypeOK' /\ up
    BY <1>0, <2>1, <2>2, <1>2, Zenon DEF UsersTypeOK, CreateStored, Idle
  <2>4. \A w \in UserThreads : pending'[w] # NoRecord => pending'[w] = pending[w]
    BY <2>1, Zenon DEF UsersTypeOK
  <2>5. ~short => \A k \in UserKeys : stored'[k] # Absent => cache[k] # Absent
    BY <1>2, <2>2, <2>3, Zenon DEF CreateStored
  <2> QED
    BY <2>1, <2>3, <2>4, <2>5, Zenon
<1>3. ASSUME NEW read \in SUBSET UserKeys, Start(read) PROVE KnownInv'
  <2> DEFINE loaded == Loaded(read)
  <2>1. /\ loaded \in Users
        /\ ~short' => \A k \in UserKeys : disk[k] # Absent => loaded[k] # Absent
    <3>1. \A k \in UserKeys : disk[k] \in Roles \cup {Absent}
      BY DEF UsersTypeOK, Users
    <3>2. \A k \in UserKeys : loaded[k] = IF k \in read THEN LoadedRole(disk[k]) ELSE Absent
      BY Zenon DEF Loaded
    <3>3. loaded \in Users
      BY <3>1, LoadedFacts, Zenon DEF Users, Loaded
    <3>4. ASSUME ~short', NEW k \in UserKeys, disk[k] # Absent PROVE loaded[k] # Absent
      <4>1. k \in read
        BY <1>3, <3>4, Zenon DEF Start
      <4> QED BY <3>1, <3>2, <3>4, <4>1, LoadedFacts, Zenon
    <3> QED BY <3>3, <3>4, Zenon
  <2>2. /\ ~up /\ up' = TRUE /\ UNCHANGED <<stored, disk, pending, failed>>
        /\ booting' = (loaded = NoUsers)
        /\ cache' = IF loaded = NoUsers THEN AddUser(NoUsers, Root, "ADMIN") ELSE loaded
        /\ stored = disk /\ pending = Idle
    BY <1>3, Zenon DEF Start
  <2> HIDE DEF loaded
  <2>3. /\ cache' \in Users
        /\ \A k \in UserKeys : loaded[k] # Absent => cache'[k] # Absent
        /\ booting' => cache'[Root] # Absent
    <3>1. CASE loaded = NoUsers
      <4>1. cache' = AddUser(loaded, Root, "ADMIN") /\ "ADMIN" \in Roles /\ Root \in UserKeys
        BY <2>2, <3>1, UsersAssumption DEF Roles
      <4>2. /\ AddUser(loaded, Root, "ADMIN") \in Users
            /\ AddUser(loaded, Root, "ADMIN")[Root] = IF loaded[Root] = Absent THEN "ADMIN" ELSE loaded[Root]
        BY <2>1, <4>1, AddUserFacts, Zenon
      <4>3. \A k \in UserKeys : loaded[k] = Absent
        BY <3>1, Zenon DEF NoUsers
      <4>4. "ADMIN" # Absent
        BY <4>1, UsersAssumption, Zenon
      <4> QED BY <4>1, <4>2, <4>3, <4>4, Zenon
    <3>2. CASE loaded # NoUsers
      BY <2>1, <2>2, <3>2, Zenon
    <3> QED
      BY <3>1, <3>2, Zenon
  <2>4. UsersTypeOK'
    BY <1>0, <2>2, <2>3 DEF UsersTypeOK
  <2> QED
    BY <2>1, <2>2, <2>3, <2>4 DEF Idle
<1>4. CASE Bootstrap
  <2>1. /\ UNCHANGED <<up, cache, disk, pending, short>> /\ booting' = FALSE /\ booting
        /\ stored' \in Users
        /\ \A k \in UserKeys : stored'[k] = stored[k] \/ k = Root
    BY <1>4, PutFacts, UsersAssumption DEF Bootstrap, UsersTypeOK, Roles
  <2> QED
    BY <1>0, <2>1, Zenon DEF UsersTypeOK
<1>5. CASE Shutdown \/ Crash
  <2>1. /\ up' = FALSE /\ stored' = disk' /\ disk' \in {stored, disk}
        /\ cache' = NoUsers /\ booting' = FALSE /\ pending' = Idle
    BY <1>5, Zenon DEF Shutdown, Crash, ProcessEnds
  <2> QED
    BY <1>0, <2>1, Zenon DEF UsersTypeOK, Users, NoUsers, Idle
<1>6. CASE UNCHANGED usersVars
  BY <1>6 DEF usersVars, UsersTypeOK
<1> QED
  BY <1>1, <1>2, <1>3, <1>4, <1>5, <1>6, Zenon DEF UsersNext

-----------------------------------------------------------------------------
(* Under the conditions of RolesAgree the second invariant is inductive.    *)

(* One key, one role; and no role is NONE.                                  *)
LEMMA OneRoleEach ==
    ASSUME PlainRequests, NEW k \in UserKeys, NEW r, NEW s,
           <<k, r>> \in Granted, <<k, s>> \in Granted
    PROVE  r = s /\ r # "NONE"
BY Zenon DEF PlainRequests, Granted

(* It holds when there is no user.                                          *)
LEMMA InitAgree == UsersInit => AgreeInv
BY DEF UsersInit, AgreeInv, NoUsers

(* Every step keeps it, crashes between cache and table included.           *)
LEMMA NextAgree ==
    PlainRequests /\ ~failed' /\ KnownInv /\ AgreeInv /\ [UsersNext]_usersVars => AgreeInv'
<1> SUFFICES ASSUME PlainRequests, ~failed', KnownInv, AgreeInv, [UsersNext]_usersVars
             PROVE  AgreeInv'
  OBVIOUS
<1>1. Root \in UserKeys /\ "ADMIN" \in Roles /\ "ADMIN" # Absent /\ <<Root, "ADMIN">> \in Granted
  BY UsersAssumption DEF Roles, Granted
<1>2. ASSUME NEW t \in UserThreads, NEW c \in Requests, CreateCached(t, c[1], c[2])
      PROVE  AgreeInv'
  <2>1. /\ UNCHANGED <<up, stored, disk, booting, failed, short>> /\ up /\ ~booting
        /\ cache' = AddUser(cache, c[1], c[2])
        /\ pending' = [pending EXCEPT ![t] = c] /\ pending[t] = NoRecord
    BY <1>2, RequestFacts, Zenon DEF CreateCached
  <2>2. /\ \A k \in UserKeys : cache'[k] = cache[k] \/ (k = c[1] /\ cache'[k] = c[2])
        /\ \A k \in UserKeys : cache[k] # Absent => cache'[k] = cache[k]
    <3>1. c[1] \in UserKeys /\ c[2] \in Roles /\ cache \in Users
      BY RequestFacts, Zenon DEF KnownInv, UsersTypeOK
    <3> QED
      BY <2>1, <3>1 DEF AddUser, Users
  <2>3. pending'[t] = c /\ \A w \in UserThreads : pending[w] # NoRecord => pending'[w] = pending[w]
    BY <2>1 DEF KnownInv, UsersTypeOK
  <2>4. <<c[1], c[2]>> \in Granted
    BY RequestFacts DEF Granted
  <2>5. \A k \in UserKeys : cache'[k] # Absent => <<k, cache'[k]>> \in Granted
    BY <2>2, <2>4, Zenon DEF AgreeInv
  <2>6. \A k \in UserKeys : cache'[k] # Absent
           => stored[k] # Absent \/ \E w \in UserThreads : pending'[w] # NoRecord /\ pending'[w][1] = k
    <3> SUFFICES ASSUME NEW k \in UserKeys, cache'[k] # Absent, stored[k] = Absent
                 PROVE  \E w \in UserThreads : pending'[w] # NoRecord /\ pending'[w][1] = k
      OBVIOUS
    <3>1. CASE k = c[1]
      BY <2>3, <3>1, RequestFacts
    <3>2. CASE k # c[1]
      <4>1. PICK w \in UserThreads : pending[w] # NoRecord /\ pending[w][1] = k
        BY <2>1, <2>2, <3>2 DEF AgreeInv
      <4> QED
        BY <2>3, <4>1
    <3> QED
      BY <3>1, <3>2
  <2> QED
    BY <1>1, <2>1, <2>2, <2>5, <2>6, Zenon DEF AgreeInv
<1>3. ASSUME NEW t \in UserThreads, CreateStored(t) PROVE AgreeInv'
  <2> DEFINE c == pending[t]
  <2>1. /\ UNCHANGED <<up, cache, disk, booting, short>> /\ c \in Requests /\ up
        /\ pending' = [pending EXCEPT ![t] = NoRecord] /\ Put(c[1], c[2])
    BY <1>3 DEF CreateStored, KnownInv, UsersTypeOK, Idle
  <2>2. /\ \A k \in UserKeys : stored'[k] = stored[k] \/ (k = c[1] /\ stored'[k] = c[2])
        /\ stored'[c[1]] = c[2] /\ c[1] \in UserKeys /\ c[2] # Absent
        /\ <<c[1], c[2]>> \in Granted
    BY <2>1, RequestFacts, PutFacts, SMTT(30) DEF KnownInv, UsersTypeOK, Granted
  <2>3. \A w \in UserThreads : w # t => pending'[w] = pending[w]
    BY <2>1 DEF KnownInv, UsersTypeOK
  <2>4. \A k \in UserKeys : stored'[k] # Absent => <<k, stored'[k]>> \in Granted
    BY <2>2, ZenonT(40) DEF AgreeInv
  <2>5. \A k \in UserKeys : cache[k] # Absent
           => \/ stored'[k] # Absent
              \/ \E w \in UserThreads : pending'[w] # NoRecord /\ pending'[w][1] = k
              \/ booting /\ k = Root
    <3> SUFFICES ASSUME NEW k \in UserKeys, cache[k] # Absent, stored'[k] = Absent, ~(booting /\ k = Root)
                 PROVE  \E w \in UserThreads : pending'[w] # NoRecord /\ pending'[w][1] = k
      BY Zenon
    <3>1. k # c[1]
      BY <2>2, Zenon
    <3>2. stored[k] = Absent
      BY <2>2, <3>1, Zenon
    <3>3. PICK w \in UserThreads : pending[w] # NoRecord /\ pending[w][1] = k
      BY <1>1, <2>1, <3>2, Zenon DEF AgreeInv
    <3>4. w # t
      BY <3>1, <3>3, Zenon
    <3>5. pending'[w] = pending[w]
      BY <2>3, <3>4, Zenon
    <3> QED BY <3>3, <3>5, Zenon
  <2>6. ~booting => stored'[Root] = "ADMIN"
    BY <1>1, <2>1, <2>2, OneRoleEach, ZenonT(40) DEF AgreeInv
  <2> QED
    BY <2>1, <2>4, <2>5, <2>6, Zenon DEF AgreeInv
<1>4. ASSUME NEW read \in SUBSET UserKeys, Start(read) PROVE AgreeInv'
  <2> DEFINE loaded == Loaded(read)
  <2>1. \A k \in UserKeys : loaded[k] = IF k \in read THEN disk[k] ELSE Absent
    <3> SUFFICES ASSUME NEW k \in UserKeys PROVE LoadedRole(disk[k]) = disk[k]
      BY Zenon DEF Loaded
    <3>1. disk[k] \in Roles \cup {Absent}
      BY DEF KnownInv, UsersTypeOK, Users
    <3>2. disk[k] # Absent => disk[k] # "NONE"
      BY OneRoleEach, Zenon DEF AgreeInv
    <3> QED
      BY <3>1, <3>2, LoadedFacts
  <2>2. /\ ~up /\ up' = TRUE /\ UNCHANGED <<stored, disk, pending, failed>>
        /\ booting' = (loaded = NoUsers)
        /\ cache' = IF loaded = NoUsers THEN AddUser(NoUsers, Root, "ADMIN") ELSE loaded
        /\ stored = disk /\ pending = Idle
        /\ ~short' => \A k \in UserKeys : k \in read \/ disk[k] = Absent
    BY <1>4, Zenon DEF Start, KnownInv
  <2> HIDE DEF loaded
  <2>3. CASE loaded = NoUsers
    <3>1. /\ cache'[Root] = "ADMIN"
          /\ \A k \in UserKeys : k # Root => cache'[k] = Absent
      <4>1. NoUsers \in Users /\ cache' = AddUser(NoUsers, Root, "ADMIN")
        BY <2>2, <2>3, Zenon DEF NoUsers, Users
      <4>2. \A k \in UserKeys : NoUsers[k] = Absent
        BY Zenon DEF NoUsers
      <4> QED
        BY <1>1, <4>1, <4>2, Zenon DEF AddUser, Users
    <3>2. booting' = TRUE
      BY <2>2, <2>3, Zenon
    <3> QED
      BY <1>1, <2>2, <3>1, <3>2, Zenon DEF AgreeInv
  <2>4. CASE loaded # NoUsers
    <3>1. cache' = loaded /\ booting' = FALSE
      BY <2>2, <2>4, Zenon
    <3>2. disk # NoUsers
      <4> SUFFICES ASSUME disk = NoUsers PROVE loaded = NoUsers
        BY <2>4, Zenon
      <4>1. \A k \in UserKeys : loaded[k] = Absent
        BY <2>1, Zenon DEF NoUsers
      <4> QED BY <4>1, Zenon DEF loaded, Loaded, NoUsers
    <3>3. disk[Root] = "ADMIN"
      BY <3>2, Zenon DEF AgreeInv
    <3>4. ~short' => loaded[Root] = "ADMIN"
      BY <1>1, <2>1, <2>2, <3>3, Zenon
    <3>5. \A k \in UserKeys : loaded[k] # Absent => loaded[k] = disk[k]
      BY <2>1, Zenon
    <3> QED
      BY <2>2, <3>1, <3>3, <3>4, <3>5, Zenon DEF AgreeInv
  <2> QED
    BY <2>3, <2>4
<1>5. CASE Bootstrap
  <2>1. /\ UNCHANGED <<up, cache, disk, pending, short>> /\ booting' = FALSE /\ booting /\ up
        /\ stored'[Root] = "ADMIN"
        /\ \A k \in UserKeys : stored'[k] = stored[k] \/ k = Root
    BY <1>1, <1>5, PutFacts DEF Bootstrap, KnownInv, UsersTypeOK
  <2> QED
    BY <1>1, <2>1, Zenon DEF AgreeInv
<1>6. CASE Shutdown \/ Crash
  <2>1. /\ up /\ up' = FALSE /\ stored' = disk' /\ cache' = NoUsers
        /\ disk' = disk \/ (disk' = stored /\ ~booting)
    BY <1>6, Zenon DEF Shutdown, Crash, ProcessEnds
  <2> QED
    BY <2>1, Zenon DEF AgreeInv, NoUsers
<1>7. CASE UNCHANGED usersVars
  BY <1>7, Zenon DEF usersVars, AgreeInv
<1> QED
  BY <1>2, <1>3, <1>4, <1>5, <1>6, <1>7 DEF UsersNext

-----------------------------------------------------------------------------
(* A failed write is never forgotten.                                       *)
LEMMA FailedStays == [UsersNext]_usersVars /\ ~failed' => ~failed
BY
   DEF UsersNext, usersVars, CreateCached, CreateStored, Put, Start, Bootstrap, Shutdown, Crash, ProcessEnds

(* In every reachable state the invariants hold.                            *)
THEOREM UsersInvariance == UsersSpec => []UsersInv
<1>1. UsersInit => UsersInv
  BY InitKnown, InitAgree DEF UsersInv
<1>2. UsersInv /\ [UsersNext]_usersVars => UsersInv'
  BY NextKnown, NextAgree, FailedStays DEF UsersInv, PlainRequests
<1> QED
  BY <1>1, <1>2, PTL DEF UsersSpec

(* Whatever threads create users, and whatever writes and processes fail,   *)
(* every user with a record is known to the cache of a process that could   *)
(* read the whole table.                                                    *)
THEOREM RecordedUserKnown == UsersSpec => []StoredUserKnown
<1>1. UsersInv => StoredUserKnown
  BY DEF UsersInv, KnownInv, StoredUserKnown
<1> QED
  BY <1>1, UsersInvariance, PTL

(* With one role for each key, no failing write and the whole table read,   *)
(* the cache and the table agree between calls, and there is always an      *)
(* administrator.                                                           *)
THEOREM CacheAgrees == UsersSpec => []RolesAgree
<1>1. ASSUME UsersInv, Quiet, PlainRequests, ~failed, ~short PROVE cache = stored
  <2>1. ASSUME NEW k \in UserKeys PROVE cache[k] = stored[k]
    <3>1. cache[k] # Absent <=> stored[k] # Absent
      BY <1>1 DEF UsersInv, KnownInv, StoredUserKnown, AgreeInv, Quiet, Idle
    <3>2. cache[k] # Absent => <<k, cache[k]>> \in Granted /\ <<k, stored[k]>> \in Granted
      BY <1>1, <3>1, Zenon DEF UsersInv, AgreeInv
    <3> QED
      BY <1>1, <3>1, <3>2, OneRoleEach, Zenon
  <2> QED
    BY <1>1, <2>1 DEF UsersInv, KnownInv, UsersTypeOK, Users
<1>2. ASSUME UsersInv, up, PlainRequests, ~failed, ~short
      PROVE  \E k \in UserKeys : Authenticate(k) = "ADMIN"
  <2>1. cache[Root] = "ADMIN"
    BY <1>2 DEF UsersInv, AgreeInv
  <2>2. Root \in UserKeys /\ "ADMIN" # Absent
    BY UsersAssumption DEF Roles
  <2> QED
    BY <2>1, <2>2, ZenonT(40) DEF Authenticate
<1>3. UsersInv => RolesAgree
  BY <1>1, <1>2, Zenon DEF RolesAgree
<1> QED
  BY <1>3, UsersInvariance, PTL
=============================================================================
