---------------------------- MODULE ServerProofs ----------------------------
(***************************************************************************)
(* The server and the shell. For any number of connections and             *)
(* descriptors, and any interleaving of accepts, workers, signals and      *)
(* stop(): a worker never meets the connection of another client behind    *)
(* its own descriptor, main does not return while a worker runs, and a     *)
(* worker that waits can be woken. The first two follow from ServerInv,    *)
(* the third from ServerInv and WaitInv, which every step preserves. Of    *)
(* the shell, for lines of any length: the objects that were typed are     *)
(* what it sends, because its counter of braces meets zero for the first   *)
(* time where the object ends.                                             *)
(***************************************************************************)
EXTENDS Server, Shell, FiniteSetTheorems, WellFoundedInduction, TLAPS

(* Nothing has been accepted when the daemon begins.                        *)
LEMMA InitServerInv == Init => ServerInv
<1> SUFFICES ASSUME Init PROVE ServerInv
  OBVIOUS
<1>1. ServerTypeOK
  BY Zenon DEF Init, ServerTypeOK, Ended
<1>2. PhaseInv
  BY DEF Init, PhaseInv
<1>3. ASSUME NEW c \in Conns PROVE WorkerInv(c)
  BY DEF Init, WorkerInv, UsesDescriptor
<1> QED BY <1>1, <1>2, <1>3 DEF ServerInv

(* What clients and the sender of the signal do.                            *)
LEMMA ClientSteps ==
    ASSUME ServerInv, NEW c \in Conns, Signal \/ Connect(c) \/ Disconnect(c)
    PROVE  ServerInv'
<1>1. CASE Signal
  BY <1>1
     DEF Signal, ServerInv, PhaseInv, WorkerInv, ServerTypeOK, UsesDescriptor, Ended, world, kernel, registry
<1>2. CASE Connect(c)
  BY <1>2
     DEF Connect, ServerInv, PhaseInv, WorkerInv, ServerTypeOK, UsesDescriptor, Ended, control, kernel, registry
<1>3. CASE Disconnect(c)
  BY <1>3
     DEF Disconnect, ServerInv, PhaseInv, WorkerInv, ServerTypeOK, UsesDescriptor, Ended, control, kernel, registry
<1> QED BY <1>1, <1>2, <1>3

(* The steps of main outside the accept.                                    *)
LEMMA MainSteps ==
    ASSUME ServerInv,
           Begin \/ RunListen \/ RunFlag \/ RunLoop \/ RunAcceptFails
             \/ JoinSignal \/ Destroy \/ DestroyMembers
    PROVE  ServerInv'
<1> USE DEF ServerInv, PhaseInv, WorkerInv, ServerTypeOK, UsesDescriptor, Ended, Alive, world, kernel, registry
<1>1. CASE Begin BY <1>1 DEF Begin
<1>2. CASE RunListen BY <1>2 DEF RunListen
<1>3. CASE RunFlag BY <1>3 DEF RunFlag
<1>4. CASE RunLoop BY <1>4 DEF RunLoop
<1>5. CASE RunAcceptFails BY <1>5 DEF RunAcceptFails
<1>6. CASE JoinSignal BY <1>6 DEF JoinSignal
<1>7. CASE Destroy
  <2>1. ServerTypeOK' BY <1>7, Zenon DEF Destroy
  <2>2. PhaseInv' BY <1>7 DEF Destroy
  <2>3. ASSUME NEW d \in Conns PROVE WorkerInv(d)' BY <1>7 DEF Destroy
  <2> QED BY <2>1, <2>2, <2>3, Zenon
<1>8. CASE DestroyMembers BY <1>8 DEF DestroyMembers
<1> QED BY <1>1, <1>2, <1>3, <1>4, <1>5, <1>6, <1>7, <1>8, Zenon

(* accept gives a free number, which no worker is still using: a worker     *)
(* whose number is free lost it to stop(), and then nothing is accepted.    *)
LEMMA AcceptStep ==
    ASSUME ServerInv, NEW c \in Conns, NEW f \in Fds, RunAccept(c, f)
    PROVE  ServerInv'
<1>1. ServerTypeOK'
  BY ServerAssumption DEF ServerInv, PhaseInv, WorkerInv, RunAccept, ServerTypeOK, Ended, registry
<1>2. ASSUME NEW d \in Conns, d # c, wpc[d] \in UsesDescriptor
      PROVE  owner[fd[d]] = d /\ fd[d] \in Fds /\ fd[d] # f
  BY <1>2, ServerAssumption
     DEF ServerInv, PhaseInv, WorkerInv, RunAccept, ServerTypeOK, UsesDescriptor
<1>3. ASSUME NEW d \in Conns, d # c, wpc'[d] \in UsesDescriptor
      PROVE  owner'[fd'[d]] = d
  BY <1>2, <1>3 DEF ServerInv, PhaseInv, WorkerInv, RunAccept, ServerTypeOK
<1>4. wpc'[c] = "accepted" /\ fd'[c] = f /\ owner'[f] = c
  BY DEF ServerInv, PhaseInv, WorkerInv, RunAccept, ServerTypeOK
<1>5. \A d \in Conns : wpc'[d] \in UsesDescriptor => owner'[fd'[d]] = d
  BY <1>3, <1>4 DEF ServerInv, PhaseInv, WorkerInv, RunAccept
<1>6. \A d \in Conns : /\ wpc'[d] # "none" => fd'[d] \in Fds
                       /\ wpc'[d] \notin {"none", "accepted"} => d \in threads'
                       /\ wpc'[d] = "accepted" => main' = "spawn" /\ d = c
                       /\ peer'[d] \in {"away", "queued"} => wpc'[d] = "none"
  BY DEF ServerInv, PhaseInv, WorkerInv, RunAccept, ServerTypeOK, registry
<1>7. wpc[c] # "done"
  BY DEF ServerInv, PhaseInv, WorkerInv, RunAccept
<1>8. \A d \in Conns : d \in joined' => wpc'[d] = "done"
  BY <1>7 DEF ServerInv, PhaseInv, WorkerInv, RunAccept, ServerTypeOK, registry
<1>9. PhaseInv'
  BY DEF ServerInv, PhaseInv, WorkerInv, RunAccept, registry
<1>10. ASSUME NEW d \in Conns PROVE WorkerInv(d)'
  BY <1>5, <1>6, <1>8 DEF WorkerInv, UsesDescriptor
<1> QED BY <1>1, <1>9, <1>10, Zenon DEF ServerInv

(* The new thread is recorded before it takes a step.                       *)
LEMMA SpawnStep ==
    ASSUME ServerInv, NEW c \in Conns, RunSpawn(c)
    PROVE  ServerInv'
<1>1. ServerTypeOK'
  BY DEF ServerInv, PhaseInv, WorkerInv, RunSpawn, ServerTypeOK, Ended, kernel
<1>2. \A d \in Conns : wpc[d] = "accepted" => d = c
  BY DEF ServerInv, PhaseInv, WorkerInv, RunSpawn
<1>3. \A d \in Conns : wpc'[d] # "accepted" \/ main' = "terminated"
  BY <1>2 DEF ServerInv, PhaseInv, WorkerInv, RunSpawn, ServerTypeOK
<1>4. \A d \in Conns \ {c} : wpc'[d] = wpc[d]
  BY DEF ServerInv, PhaseInv, WorkerInv, RunSpawn, ServerTypeOK
<1>5. wpc'[c] \in {"none", "accepted", "register"} /\ (wpc'[c] = "register" => c \in threads')
  BY DEF ServerInv, PhaseInv, WorkerInv, RunSpawn, ServerTypeOK
<1>6. \A d \in Conns : /\ wpc'[d] \notin {"none", "accepted"} => d \in threads'
                       /\ d \in joined' => wpc'[d] = "done"
                       /\ wpc'[d] # "none" => fd'[d] \in Fds
                       /\ peer'[d] \in {"away", "queued"} => wpc'[d] = "none"
  BY <1>4, <1>5 DEF ServerInv, PhaseInv, WorkerInv, RunSpawn
<1>7. \A d \in Conns : wpc'[d] \in UsesDescriptor =>
         \/ owner'[fd'[d]] = d
         \/ owner'[fd'[d]] \in {Free, File} /\ listener' = "closed" /\ d \in shut'
  BY <1>4, <1>5 DEF ServerInv, PhaseInv, WorkerInv, RunSpawn, UsesDescriptor, kernel
<1>8. \A d, e \in Conns : wpc'[d] = "accepted" /\ wpc'[e] = "accepted" => d = e
  BY <1>2, <1>4 DEF ServerInv, PhaseInv, WorkerInv, RunSpawn
<1>9. PhaseInv'
  BY DEF ServerInv, PhaseInv, WorkerInv, RunSpawn, kernel
<1>10. ASSUME NEW d \in Conns PROVE WorkerInv(d)'
  BY <1>3, <1>6, <1>7, <1>8 DEF WorkerInv, UsesDescriptor
<1> QED BY <1>1, <1>9, <1>10, Zenon DEF ServerInv

(* The steps of the signal thread and of stop().                            *)
LEMMA StopSteps ==
    ASSUME ServerInv, StopStep
    PROVE  ServerInv'
<1> USE DEF ServerInv, PhaseInv, WorkerInv, ServerTypeOK, UsesDescriptor, Ended, Alive, world, kernel, registry, control
<1>1. CASE SigWait
  <2>1. ServerTypeOK' BY <1>1, Zenon DEF SigWait
  <2>2. PhaseInv' BY <1>1 DEF SigWait
  <2>3. ASSUME NEW d \in Conns PROVE WorkerInv(d)' BY <1>1 DEF SigWait
  <2> QED BY <2>1, <2>2, <2>3, Zenon
<1>2. CASE StopListener BY <1>2, SMTT(15) DEF StopListener
<1>3. CASE StopLock BY <1>3 DEF StopLock
<1>4. CASE StopSocket
  <2>1. ServerTypeOK' BY <1>4, ServerAssumption, Zenon DEF StopSocket
  <2>2. PhaseInv' BY <1>4 DEF StopSocket
  <2>3. ASSUME NEW d \in Conns PROVE WorkerInv(d)' BY <1>4, ServerAssumption DEF StopSocket
  <2> QED BY <2>1, <2>2, <2>3, Zenon
<1>5. CASE StopUnlock BY <1>5 DEF StopUnlock
<1>6. CASE StopIterate BY <1>6 DEF StopIterate
<1>7. CASE StopReturn
  <2>1. ServerTypeOK' BY <1>7, Zenon DEF StopReturn
  <2>2. PhaseInv' BY <1>7 DEF StopReturn
  <2>3. ASSUME NEW d \in Conns PROVE WorkerInv(d)' BY <1>7 DEF StopReturn
  <2> QED BY <2>1, <2>2, <2>3, Zenon
<1>8. ASSUME NEW c \in Conns, StopJoin(c) PROVE ServerInv'
  BY <1>8 DEF StopJoin
<1> QED BY <1>1, <1>2, <1>3, <1>4, <1>5, <1>6, <1>7, <1>8, Zenon DEF StopStep

(* The steps of a worker. Its close cannot free the number of another       *)
(* connection, because the number is its own or nobody's.                   *)
LEMMA WorkerSteps ==
    ASSUME ServerInv, NEW c \in Conns,
           WorkerStep(c) \/ Receive(c) \/ Send(c) \/ (\E f \in Fds : StorageOpens(c, f))
    PROVE  ServerInv'
<1> USE ServerAssumption
    DEF ServerInv, PhaseInv, WorkerInv, ServerTypeOK, UsesDescriptor, Ended, Alive, Goto, kernel, registry, control
<1>1. CASE Register(c) BY <1>1, SMTT(30) DEF Register
<1>2. CASE WorkerLoop(c) BY <1>2, SMTT(30) DEF WorkerLoop
<1>3. CASE Receive(c) BY <1>3 DEF Receive
<1>4. CASE ReceiveEnd(c) BY <1>4, SMTT(30) DEF ReceiveEnd
<1>5. CASE ProcessRequest(c) BY <1>5, SMTT(30) DEF ProcessRequest
<1>6. CASE Send(c) BY <1>6, SMTT(30) DEF Send, AfterSend
<1>7. CASE SendFails(c) BY <1>7, SMTT(30) DEF SendFails, AfterSend
<1>8. CASE Close(c) BY <1>8, SMTT(30) DEF Close
<1>9. CASE Erase(c) BY <1>9, SMTT(30) DEF Erase
<1>10. ASSUME NEW f \in Fds, StorageOpens(c, f) PROVE ServerInv'
  BY <1>10 DEF StorageOpens
<1> QED BY <1>1, <1>2, <1>3, <1>4, <1>5, <1>6, <1>7, <1>8, <1>9, <1>10, ZenonT(40) DEF WorkerStep

(* ServerInv holds in every reachable state.                                *)
THEOREM ServerInvariant == Spec => []ServerInv
<1>1. ServerInv /\ [Next]_vars => ServerInv'
  <2> SUFFICES ASSUME ServerInv, [Next]_vars PROVE ServerInv'
    OBVIOUS
  <2>1. CASE MainStep
    BY <2>1, MainSteps, SpawnStep DEF MainStep
  <2>2. CASE StopStep
    BY <2>2, StopSteps
  <2>3. CASE \E c \in Conns : WorkerStep(c)
    BY <2>3, WorkerSteps
  <2>4. CASE Environment
    <3>1. CASE Signal
      BY <3>1, SMTT(30)
         DEF Signal, ServerInv, PhaseInv, WorkerInv, ServerTypeOK, UsesDescriptor, Ended, world, kernel, registry
    <3> QED BY <2>4, <3>1, ClientSteps, WorkerSteps, AcceptStep, MainSteps, Zenon DEF Environment
  <2>5. CASE UNCHANGED vars
    BY <2>5
       DEF vars, world, control, kernel, registry, ServerInv, PhaseInv, WorkerInv, ServerTypeOK, UsesDescriptor, Ended
  <2> QED BY <2>1, <2>2, <2>3, <2>4, <2>5 DEF Next
<1> QED BY <1>1, InitServerInv, PTL DEF Spec

(* A worker never uses or closes the connection of another client.          *)
THEOREM DescriptorsNeverMixed == Spec => []OwnConnection
<1>1. ServerInv => OwnConnection
  BY DEF ServerInv, WorkerInv, OwnConnection
<1> QED BY <1>1, ServerInvariant, PTL

(* What remains when main returns: every recorded thread has been joined,   *)
(* so a state in which main has returned has no running worker.             *)
THEOREM ExitWaitsForWorkers == Spec => []NoWorkerAfterExit
<1>1. ServerInv => NoWorkerAfterExit
  BY Zenon DEF ServerInv, PhaseInv, WorkerInv, NoWorkerAfterExit
<1> QED BY <1>1, ServerInvariant, PTL

-----------------------------------------------------------------------------
(* Every set of natural numbers that is not empty has a least element: what *)
(* a recursive function computes is shown by the least counterexample.      *)
LEMMA LeastNat ==
    ASSUME NEW S, S \subseteq Nat, S # {}
    PROVE  \E x \in S : \A y \in S : x <= y
<1>1. PICK x \in S : \A y \in S : <<y, x>> \notin OpToRel(<, Nat)
  BY NatLessThanWellFounded, WFMin, Zenon
<1>2. \A y \in S : ~(y < x)
  BY <1>1, Zenon DEF OpToRel
<1>3. \A y \in S : x <= y
  BY <1>2
<1> QED BY <1>3, Zenon

(* One step of the removal: what is kept of s up to i, from what is kept up *)
(* to i - 1.                                                                *)
Kept(g, s, f, i) == IF i = 0 THEN <<>>
                    ELSE IF s[i] = f THEN g[i - 1]
                    ELSE Append(g[i - 1], s[i])

(* The function that Without defines by recursion exists.                   *)
LEMMA KeptExists ==
    ASSUME NEW s \in Seq(Fds), NEW f
    PROVE  \E g : g = [i \in 0..Len(s) |-> Kept(g, s, f, i)]
<1> DEFINE Good(n) == \E g : g = [i \in 0..n |-> Kept(g, s, f, i)]
           bad == {n \in Nat : ~Good(n)}
<1>1. Good(0)
  <2> DEFINE g == [i \in 0..0 |-> <<>>]
  <2>1. g = [i \in 0..0 |-> Kept(g, s, f, i)]
    BY DEF Kept
  <2> QED BY <2>1
<1>2. ASSUME NEW n \in Nat, Good(n) PROVE Good(n + 1)
  <2>1. PICK g : g = [i \in 0..n |-> Kept(g, s, f, i)]
    BY <1>2
  <2> DEFINE h == [i \in 0..(n + 1) |-> IF i = n + 1 THEN Kept(g, s, f, i) ELSE g[i]]
  <2>2. \A i \in 0..(n + 1) : h[i] = Kept(h, s, f, i)
    <3>1. \A i \in 0..n : h[i] = g[i]
      OBVIOUS
    <3>2. \A i \in 0..n : g[i] = Kept(g, s, f, i)
      BY <2>1
    <3>3. \A i \in 0..(n + 1) : Kept(h, s, f, i) = Kept(g, s, f, i)
      BY <3>1 DEF Kept
    <3>4. h[n + 1] = Kept(g, s, f, n + 1)
      OBVIOUS
    <3> HIDE DEF h
    <3> QED BY <3>1, <3>2, <3>3, <3>4
  <2>3. h = [i \in 0..(n + 1) |-> Kept(h, s, f, i)]
    BY <2>2
  <2> QED BY <2>3, Zenon
<1> HIDE DEF Good
<1>3. bad = {}
  <2> SUFFICES ASSUME bad # {} PROVE FALSE
    OBVIOUS
  <2>1. PICK n \in bad : \A m \in bad : n <= m
    BY LeastNat, Zenon
  <2>2. n \in Nat /\ n # 0 /\ ~Good(n)
    BY <1>1
  <2>3. n - 1 \in Nat /\ n - 1 \notin bad
    BY <2>1, <2>2
  <2> QED BY <1>2, <2>2, <2>3
<1>4. Good(Len(s))
  BY <1>3
<1> QED BY <1>4 DEF Good

(* The elements of a sequence after an Append.                              *)
LEMMA AppendHas ==
    ASSUME NEW t \in Seq(Fds), NEW y \in Fds
    PROVE  \A x : (\E i \in 1..Len(Append(t, y)) : Append(t, y)[i] = x)
                     <=> (\E i \in 1..Len(t) : t[i] = x) \/ x = y
<1>1. /\ Len(Append(t, y)) = Len(t) + 1 /\ Len(t) \in Nat
      /\ Append(t, y)[Len(t) + 1] = y
      /\ \A i \in 1..Len(t) : Append(t, y)[i] = t[i]
  OBVIOUS
<1> QED BY <1>1

(* erase(std::remove(...)) leaves exactly the other entries.                *)
LEMMA WithoutFacts ==
    ASSUME NEW s \in Seq(Fds), NEW f
    PROVE  /\ Without(s, f) \in Seq(Fds)
           /\ \A x \in Fds : (\E i \in DOMAIN Without(s, f) : Without(s, f)[i] = x)
                               <=> x # f /\ \E i \in DOMAIN s : s[i] = x
<1> DEFINE upto == CHOOSE g : g = [i \in 0..Len(s) |-> Kept(g, s, f, i)]
           Has(t, x) == \E i \in 1..Len(t) : t[i] = x
           Good(n) == /\ upto[n] \in Seq(Fds)
                      /\ \A x \in Fds : Has(upto[n], x) <=> x # f /\ \E i \in 1..n : s[i] = x
           bad == {n \in 0..Len(s) : ~Good(n)}
<1>1. upto = [i \in 0..Len(s) |-> Kept(upto, s, f, i)]
  BY KeptExists, ZenonT(40)
<1>2. Without(s, f) = upto[Len(s)]
  BY Zenon DEF Without, Kept
<1> HIDE DEF upto
<1>3. \A n \in 0..Len(s) : upto[n] = Kept(upto, s, f, n)
  BY <1>1
<1>4. Good(0)
  <2>1. 0 \in 0..Len(s)
    OBVIOUS
  <2>2. upto[0] = <<>>
    BY <1>3, <2>1, Zenon DEF Kept
  <2> QED BY <2>2
<1>5. ASSUME NEW n \in Nat, n < Len(s), Good(n) PROVE Good(n + 1)
  <2>1. upto[n + 1] = IF s[n + 1] = f THEN upto[n] ELSE Append(upto[n], s[n + 1])
    BY <1>3, <1>5 DEF Kept
  <2>2. s[n + 1] \in Fds
    BY <1>5
  <2>3. CASE s[n + 1] = f
    BY <1>5, <2>1, <2>3, SMTT(30)
  <2>4. CASE s[n + 1] # f
    <3>1. upto[n + 1] = Append(upto[n], s[n + 1]) /\ upto[n] \in Seq(Fds)
      BY <1>5, <2>1, <2>4
    <3>2. \A x : Has(Append(upto[n], s[n + 1]), x) <=> Has(upto[n], x) \/ x = s[n + 1]
      BY <3>1, <2>2, AppendHas, Zenon
    <3>3. \A x : (\E i \in 1..(n + 1) : s[i] = x) <=> (\E i \in 1..n : s[i] = x) \/ x = s[n + 1]
      BY <1>5
    <3>4. upto[n + 1] \in Seq(Fds)
      BY <2>2, <3>1
    <3> HIDE DEF Has
    <3> QED BY <1>5, <2>4, <3>1, <3>2, <3>3, <3>4, Zenon
  <2> QED BY <2>3, <2>4, Zenon
<1> HIDE DEF Good
<1>6. bad = {}
  <2> SUFFICES ASSUME bad # {} PROVE FALSE
    OBVIOUS
  <2>0. bad \subseteq Nat
    OBVIOUS
  <2>1. PICK n \in bad : \A m \in bad : n <= m
    BY <2>0, LeastNat, Zenon
  <2>2. n \in 0..Len(s) /\ n # 0 /\ ~Good(n)
    BY <1>4
  <2>3. n - 1 \in Nat /\ n - 1 < Len(s) /\ n - 1 \in 0..Len(s) /\ n - 1 \notin bad
    BY <2>1, <2>2
  <2> QED BY <1>5, <2>2, <2>3
<1>7. Good(Len(s))
  BY <1>6
<1>8. upto[Len(s)] \in Seq(Fds) /\ \A x \in Fds : Has(upto[Len(s)], x) <=> x # f /\ \E i \in 1..Len(s) : s[i] = x
  BY <1>7 DEF Good
<1>9. DOMAIN s = 1..Len(s) /\ DOMAIN upto[Len(s)] = 1..Len(upto[Len(s)])
  BY <1>8
<1> QED BY <1>2, <1>8, <1>9, Zenon
(* A step that takes no worker into the part where it can block, and takes  *)
(* nothing from the list, the history or the phase, keeps WaitInv.          *)
LEMMA KeepsKnown ==
    ASSUME ServerInv, WaitInv, UNCHANGED <<sockets, shut, lost>>,
           \A c \in Conns : wpc'[c] \in Registered \ {"erase"}
                              => wpc[c] \in Registered \ {"erase"} /\ fd'[c] = fd[c],
           \A c \in Conns : wpc'[c] \in {"recv", "request", "send", "goodbye"}
                              => running \/ wpc[c] \in {"recv", "request", "send", "goodbye"},
           running \/ stop \in {"listener", "lock", "sockets"}
                   => running' \/ stop' \in {"listener", "lock", "sockets"}
    PROVE  WaitInv'
BY DEF WaitInv, KnownInv, Listed, Registered

(* The steps of main and its environment. A worker that is accepted or      *)
(* spawned is not in that part yet.                                         *)
LEMMA MainKnown ==
    ASSUME ServerInv, WaitInv,
           Signal \/ Begin \/ RunListen \/ RunFlag \/ RunLoop \/ RunAcceptFails
             \/ JoinSignal \/ Destroy \/ DestroyMembers
             \/ \E c \in Conns : \/ Connect(c) \/ Disconnect(c) \/ RunSpawn(c)
                                 \/ \E f \in Fds : RunAccept(c, f)
    PROVE  WaitInv'
<1>1. UNCHANGED <<sockets, shut, lost>>
  BY Zenon DEF Signal, Begin, RunListen, RunFlag, RunLoop, RunAcceptFails, JoinSignal, Destroy,
         DestroyMembers, Connect, Disconnect, RunSpawn, RunAccept, world, kernel, registry
<1>2. ASSUME NEW c \in Conns, wpc'[c] \in Registered
      PROVE  wpc'[c] = wpc[c] /\ fd'[c] = fd[c]
  <2>1. CASE UNCHANGED <<wpc, fd>>
    BY <2>1
  <2>2. ASSUME NEW d \in Conns, NEW f \in Fds, RunAccept(d, f) PROVE wpc'[c] = wpc[c] /\ fd'[c] = fd[c]
    BY <1>2, <2>2 DEF RunAccept, Registered, ServerInv, ServerTypeOK
  <2>3. ASSUME NEW d \in Conns, RunSpawn(d) PROVE wpc'[c] = wpc[c] /\ fd'[c] = fd[c]
    BY <1>2, <2>3, Zenon DEF RunSpawn, Registered, ServerInv, ServerTypeOK
  <2> QED BY <2>1, <2>2, <2>3, Zenon
    DEF Signal, Begin, RunListen, RunFlag, RunLoop, RunAcceptFails, JoinSignal, Destroy,
        DestroyMembers, Connect, Disconnect, world, kernel
<1>3. running \/ stop \in {"listener", "lock", "sockets"}
        => running' \/ stop' \in {"listener", "lock", "sockets"}
  BY Zenon DEF Signal, Begin, RunListen, RunFlag, RunLoop, RunAcceptFails, JoinSignal, Destroy,
         DestroyMembers, Connect, Disconnect, RunSpawn, RunAccept, control, ServerInv, PhaseInv
<1> QED BY <1>1, <1>2, <1>3, KeepsKnown, Zenon DEF Registered

(* The steps of stop(). What it takes from the list it shuts down, for the  *)
(* number still stands for the worker's own connection; when the list is    *)
(* empty no worker that was not shut down can block.                        *)
LEMMA StopKnown ==
    ASSUME ServerInv, WaitInv, StopStep
    PROVE  WaitInv'
<1>1. CASE SigWait \/ StopListener \/ StopLock \/ StopReturn \/ StopIterate \/ \E c \in Conns : StopJoin(c)
  <2>1. UNCHANGED <<sockets, shut, lost, wpc, fd>>
    BY <1>1, Zenon
       DEF SigWait, StopListener, StopLock, StopReturn, StopIterate, StopJoin, world, kernel, registry
  <2>2. running \/ stop \in {"listener", "lock", "sockets"}
          => running' \/ stop' \in {"listener", "lock", "sockets"}
    BY <1>1, Zenon
       DEF SigWait, StopListener, StopLock, StopReturn, StopIterate, StopJoin, control,
                ServerInv, PhaseInv
  <2> QED BY <2>1, <2>2, KeepsKnown, Zenon
<1>2. CASE StopSocket
  <2> DEFINE f == Head(sockets)
  <2>1. /\ sockets' = Tail(sockets) /\ sockets # <<>> /\ f \in Fds
        /\ shut' = shut \cup ({owner[f]} \cap Conns)
        /\ UNCHANGED <<running, stop, wpc, fd, lost>>
    BY <1>2 DEF StopSocket, WaitInv, control
  <2>2. /\ sockets' \in Seq(Fds)
        /\ \A x : (\E i \in DOMAIN sockets : sockets[i] = x)
                    => x = f \/ \E i \in DOMAIN sockets' : sockets'[i] = x
    <3>1. sockets \in Seq(Fds)
      BY DEF WaitInv
    <3>2. \A i \in DOMAIN sockets : i = 1 \/ (i - 1 \in DOMAIN sockets' /\ sockets'[i - 1] = sockets[i])
      BY <2>1, <3>1
    <3>3. sockets' \in Seq(Fds) /\ 1 \in DOMAIN sockets /\ f = sockets[1]
      BY <2>1, <3>1
    <3> HIDE DEF f
    <3> QED BY <3>2, <3>3, Zenon
  <2>3. ASSUME NEW c \in Conns, wpc[c] \in Registered \ {"erase"}, fd[c] = f, c \notin shut
        PROVE  c \in shut'
    BY <2>1, <2>3 DEF ServerInv, WorkerInv, UsesDescriptor, Registered
  <2> HIDE DEF f
  <2>4. ASSUME NEW c \in Conns PROVE KnownInv(c)'
    BY <2>1, <2>2, <2>3, Zenon DEF WaitInv, KnownInv, Listed
  <2> QED BY <2>2, <2>4 DEF WaitInv
<1>3. CASE StopUnlock
  <2>1. /\ sockets = <<>> /\ UNCHANGED <<sockets, shut, lost, wpc, fd>>
    BY <1>3 DEF StopUnlock, world, kernel, registry
  <2>2. \A c \in Conns : c \notin shut \cup lost => wpc[c] \notin Registered \ {"erase"}
    BY <2>1 DEF WaitInv, KnownInv, Listed
  <2> QED BY <2>1, <2>2 DEF WaitInv, KnownInv, Listed, Registered
<1> QED BY <1>1, <1>2, <1>3, Zenon DEF StopStep

(* The steps of the workers. The one that erases a number leaves the others *)
(* listed, or records whom it has made to get lost.                         *)
LEMMA WorkerKnown ==
    ASSUME ServerInv, WaitInv, NEW c \in Conns,
           WorkerStep(c) \/ Receive(c) \/ Send(c) \/ (\E f \in Fds : StorageOpens(c, f))
    PROVE  WaitInv'
<1>1. CASE Register(c)
  <2>1. /\ sockets' = Append(sockets, fd[c]) /\ UNCHANGED <<running, stop, fd, shut, lost>>
        /\ wpc' = [wpc EXCEPT ![c] = "loop"] /\ fd[c] \in Fds /\ sockets \in Seq(Fds)
    BY <1>1 DEF Register, Goto, control, kernel, ServerInv, WorkerInv, WaitInv
  <2>2. /\ sockets' \in Seq(Fds)
        /\ \A x : (\E i \in DOMAIN sockets' : sockets'[i] = x)
                    <=> (\E i \in DOMAIN sockets : sockets[i] = x) \/ x = fd[c]
    <3>1. sockets' \in Seq(Fds) /\ DOMAIN sockets' = 1..Len(sockets') /\ DOMAIN sockets = 1..Len(sockets)
      BY <2>1, SMTT(30)
    <3>2. \A x : (\E i \in 1..Len(sockets') : sockets'[i] = x)
                   <=> (\E i \in 1..Len(sockets) : sockets[i] = x) \/ x = fd[c]
      BY <2>1, AppendHas
    <3> QED BY <3>1, <3>2, Zenon
  <2>3. ASSUME NEW d \in Conns PROVE KnownInv(d)'
    <3>1. IF d = c THEN wpc'[d] = "loop" ELSE wpc'[d] = wpc[d]
      BY <2>1 DEF ServerInv, ServerTypeOK
    <3>2. (Listed(d) \/ d = c) => Listed(d)'
      BY <2>1, <2>2, Zenon DEF Listed
    <3> QED BY <2>1, <3>1, <3>2 DEF WaitInv, KnownInv, Registered
  <2> QED BY <2>2, <2>3, Zenon DEF WaitInv
<1>2. CASE Erase(c)
  <2>1. /\ sockets' = Without(sockets, fd[c]) /\ UNCHANGED <<running, stop, fd, shut>>
        /\ lost' = lost \cup {d \in Conns \ {c} : wpc[d] \in Registered /\ fd[d] = fd[c]}
        /\ wpc' = [wpc EXCEPT ![c] = "done"] /\ sockets \in Seq(Fds)
    BY <1>2, Zenon DEF Erase, Goto, control, kernel, WaitInv
  <2>2. /\ sockets' \in Seq(Fds)
        /\ \A x \in Fds : (\E i \in DOMAIN sockets' : sockets'[i] = x)
                            <=> x # fd[c] /\ \E i \in DOMAIN sockets : sockets[i] = x
    BY <2>1, WithoutFacts, SMTT(30)
  <2>3. ASSUME NEW d \in Conns PROVE KnownInv(d)'
    <3>1. wpc'[d] \in Registered => wpc'[d] = wpc[d] /\ fd[d] \in Fds /\ d # c
      BY <2>1, Zenon DEF Registered, ServerInv, ServerTypeOK, WorkerInv
    <3> QED BY <2>1, <2>2, <3>1, Zenon DEF WaitInv, KnownInv, Listed, Registered
  <2> QED BY <2>2, <2>3 DEF WaitInv
<1>3. CASE /\ ~Register(c) /\ ~Erase(c)
  <2> DEFINE Others == \/ WorkerLoop(c) \/ ReceiveEnd(c) \/ ProcessRequest(c) \/ SendFails(c)
                       \/ Close(c) \/ Receive(c) \/ Send(c) \/ \E f \in Fds : StorageOpens(c, f)
  <2>1. Others
    BY <1>3, ZenonT(40) DEF WorkerStep
  <2>2. UNCHANGED <<sockets, shut, lost, running, stop, fd>>
    BY <2>1, ZenonT(40)
       DEF WorkerLoop, ReceiveEnd, ProcessRequest, SendFails, Close, Receive, Send, StorageOpens,
                control, kernel, registry
  <2>3. /\ \A d \in Conns \ {c} : wpc'[d] = wpc[d]
        /\ wpc'[c] \in Registered \ {"erase"} => wpc[c] \in Registered \ {"erase"}
        /\ wpc'[c] \in {"recv", "request", "send", "goodbye"}
             => running \/ wpc[c] \in {"recv", "request", "send", "goodbye"}
    BY <2>1
       DEF WorkerLoop, ReceiveEnd, ProcessRequest, SendFails, Close, Receive, Send, StorageOpens,
                Goto, AfterSend, Registered, ServerInv, ServerTypeOK
  <2> QED BY <2>2, <2>3, KeepsKnown
<1> QED BY <1>1, <1>2, <1>3, Zenon

(* A worker that waits for its client can always be woken by stop(), unless *)
(* the worker of an earlier connection has erased its entry.                *)
THEOREM WaitingAlwaysKnown == Spec => []WaitingIsKnown
<1>1. Init => WaitInv
  BY DEF Init, WaitInv, KnownInv, Registered
<1>2. ASSUME ServerInv, WaitInv, [Next]_vars PROVE WaitInv'
  <2>1. CASE MainStep
    BY <1>2, <2>1, MainKnown, Zenon DEF MainStep
  <2>2. CASE StopStep
    BY <1>2, <2>2, StopKnown
  <2>3. CASE \E c \in Conns : WorkerStep(c)
    BY <1>2, <2>3, WorkerKnown
  <2>4. CASE Environment
    BY <1>2, <2>4, MainKnown, WorkerKnown, Zenon DEF Environment
  <2>5. CASE UNCHANGED vars
    BY <1>2, <2>5, KeepsKnown DEF vars, world, control, kernel, registry
  <2> QED BY <1>2, <2>1, <2>2, <2>3, <2>4, <2>5 DEF Next
<1>3. WaitInv => WaitingIsKnown
  BY DEF WaitInv, KnownInv, WaitingIsKnown, Connected, Registered
<1> QED BY <1>1, <1>2, <1>3, ServerInvariant, PTL DEF Spec

-----------------------------------------------------------------------------
(* The shell takes a line apart.                                            *)

(* Min takes that element.                                                  *)
LEMMA MinOfNats ==
    ASSUME NEW S, S \subseteq Nat, S # {}
    PROVE  Min(S) \in S /\ \A y \in S : Min(S) <= y
<1>1. PICK x \in S : \A y \in S : x <= y
  BY LeastNat, Zenon
<1> QED BY <1>1, Zenon DEF Min

(* What holds of 0, and of n + 1 if of n, holds up to m.                    *)
LEMMA Upward ==
    ASSUME NEW m \in Nat, NEW G, 0 \in G, \A n \in 0..(m - 1) : n \in G => n + 1 \in G
    PROVE  \A n \in 0..m : n \in G
<1> DEFINE bad == {n \in 0..m : n \notin G}
<1> SUFFICES ASSUME bad # {} PROVE FALSE
  OBVIOUS
<1>1. bad \subseteq Nat
  OBVIOUS
<1>2. Min(bad) \in bad /\ \A y \in bad : Min(bad) <= y
  BY <1>1, MinOfNats, Zenon
<1>3. PICK x \in bad : \A y \in bad : x <= y
  BY <1>2, Zenon
<1>4. x - 1 \in 0..(m - 1) /\ x - 1 \notin bad
  BY <1>3
<1>5. x - 1 \in G
  BY <1>4
<1> QED BY <1>3, <1>4, <1>5

Count(s, b, f, t) == Cardinality({i \in f..t : s[i] = b})

(* What a character adds to the counter of find_matching_brace.             *)
Weight(c) == IF c = OpenChar THEN 1 ELSE IF c = CloseChar THEN -1 ELSE 0

(* Counting one more character.                                             *)
LEMMA CountStep ==
    ASSUME NEW s, NEW b, NEW f \in Nat, NEW t \in Nat, f <= t + 1
    PROVE  /\ Count(s, b, f, t) \in Nat
           /\ s[t + 1] = b => Count(s, b, f, t + 1) = Count(s, b, f, t) + 1
           /\ s[t + 1] # b => Count(s, b, f, t + 1) = Count(s, b, f, t)
           /\ f = t + 1 => Count(s, b, f, t) = 0
<1> DEFINE S == {i \in f..t : s[i] = b}
           T == {i \in f..(t + 1) : s[i] = b}
<1>1. S \subseteq f..t /\ t + 1 \notin S
  OBVIOUS
<1>2. f \in Int /\ t \in Int /\ f..(t + 1) = (f..t) \cup {t + 1}
  OBVIOUS
<1>3. s[t + 1] = b => T = S \cup {t + 1}
  BY <1>2, Zenon
<1>4. s[t + 1] # b => T = S
  BY <1>2, Zenon
<1>5. f = t + 1 => f..t = {}
  OBVIOUS
<1>6. Count(s, b, f, t) = Cardinality(S) /\ Count(s, b, f, t + 1) = Cardinality(T)
  BY Zenon DEF Count
<1> HIDE DEF S, T
<1>7. IsFiniteSet(S)
  <2>1. IsFiniteSet(f..t)
    BY <1>2, FS_Interval
  <2> QED BY <1>1, <2>1, FS_Subset, Zenon
<1>8. Cardinality(S) \in Nat /\ (f = t + 1 => Cardinality(S) = 0)
  <2>1. f = t + 1 => S = {}
    BY <1>1, <1>5, Zenon
  <2> QED BY <1>7, <2>1, FS_CardinalityType, FS_EmptySet
<1>9. s[t + 1] = b => Cardinality(T) = Cardinality(S) + 1
  BY <1>1, <1>3, <1>7, FS_AddElement
<1> QED BY <1>4, <1>6, <1>8, <1>9

(* The counter of find_matching_brace begins at zero and follows the        *)
(* braces.                                                                  *)
LEMMA BalanceStep ==
    ASSUME NEW s, NEW f \in Nat, NEW t \in Nat, f <= t + 1
    PROVE  /\ Balance(s, f, t) \in Int
           /\ Balance(s, f, t + 1) = Balance(s, f, t) + Weight(s[t + 1])
           /\ f = t + 1 => Balance(s, f, t) = 0
<1> DEFINE o == Count(s, OpenChar, f, t)
           c == Count(s, CloseChar, f, t)
           p == Count(s, OpenChar, f, t + 1)
           q == Count(s, CloseChar, f, t + 1)
           w == Weight(s[t + 1])
<1>1. Balance(s, f, t) = o - c /\ Balance(s, f, t + 1) = p - q
  BY Zenon DEF Balance, Count
<1>2. o \in Nat /\ c \in Nat /\ (f = t + 1 => o = 0 /\ c = 0)
  BY CountStep
<1>3. \/ p = o + 1 /\ q = c /\ w = 1
      \/ p = o /\ q = c + 1 /\ w = -1
      \/ p = o /\ q = c /\ w = 0
  <2>1. CASE s[t + 1] = OpenChar
    <3>1. s[t + 1] # CloseChar /\ w = 1
      BY <2>1, Zenon DEF Weight, OpenChar, CloseChar
    <3> QED BY <2>1, <3>1, CountStep, Zenon
  <2>2. CASE s[t + 1] = CloseChar
    <3>1. s[t + 1] # OpenChar /\ w = -1
      BY <2>2, Zenon DEF Weight, OpenChar, CloseChar
    <3> QED BY <2>2, <3>1, CountStep, Zenon
  <2>3. CASE s[t + 1] # OpenChar /\ s[t + 1] # CloseChar
    <3>1. w = 0
      BY <2>3, Zenon DEF Weight
    <3> QED BY <2>3, <3>1, CountStep, Zenon
  <2> QED BY <2>1, <2>2, <2>3, Zenon
<1> HIDE DEF o, c, p, q
<1>4. Balance(s, f, t) \in Int /\ Balance(s, f, t + 1) = Balance(s, f, t) + w
  <2> HIDE DEF w
  <2> QED BY <1>1, <1>2, <1>3
<1>5. f = t + 1 => Balance(s, f, t) = 0
  BY <1>1, <1>2
<1> QED BY <1>4, <1>5

(* The counter depends on the characters only.                              *)
IsPart(r, n, s, d) == \A i \in 1..n : r[i] = s[d + i]
SameBalance(r, n, s, d) == \A i \in 0..n : Balance(r, 1, i) = Balance(s, d + 1, d + i)

LEMMA SameBraces ==
    ASSUME NEW s, NEW r, NEW d \in Nat, NEW n \in Nat, IsPart(r, n, s, d)
    PROVE  SameBalance(r, n, s, d)
<1> SUFFICES ASSUME \A i \in 1..n : r[i] = s[d + i]
             PROVE  \A i \in 0..n : Balance(r, 1, i) = Balance(s, d + 1, d + i)
  BY Zenon DEF IsPart, SameBalance
<1> DEFINE G == {i \in 0..n : Balance(r, 1, i) = Balance(s, d + 1, d + i)}
<1>1. 0 \in G
  <2>1. ASSUME NEW t \in Nat, NEW q PROVE Balance(q, t + 1, t) = 0
    <3>1. PICK u \in Nat : u = t + 1 /\ u <= t + 1
      OBVIOUS
    <3> QED BY <3>1, BalanceStep, Zenon
  <2>2. Balance(r, 0 + 1, 0) = 0 /\ Balance(s, d + 1, d) = 0 /\ 0 + 1 = 1 /\ d + 0 = d
    BY <2>1
  <2> QED BY <2>2
<1>2. ASSUME NEW i \in 0..(n - 1), i \in G PROVE i + 1 \in G
  <2>1. /\ Balance(r, 1, i) = Balance(s, d + 1, d + i)
        /\ i \in Nat /\ d + i \in Nat /\ 1 <= i + 1 /\ d + 1 <= d + i + 1
        /\ i + 1 \in 0..n /\ r[i + 1] = s[d + i + 1]
    BY <1>2
  <2>2. PICK k \in Nat : k = d + i
    BY <2>1
  <2>3. Balance(r, 1, i + 1) = Balance(s, d + 1, k + 1)
    BY <2>1, <2>2, BalanceStep
  <2>4. k + 1 = d + (i + 1)
    BY <2>2
  <2> QED BY <2>1, <2>3, <2>4
<1> HIDE DEF G
<1>3. \A i \in 0..n : i \in G
  BY <1>1, <1>2, Upward
<1> QED BY <1>3 DEF G

(* An object ends where the counter is zero for the first time.             *)
LEMMA StaysPositive ==
    ASSUME NEW s, NEW f \in Nat \ {0}, NEW e \in Nat, s[f] = OpenChar,
           \A i \in f..e : ~(s[i] = CloseChar /\ Balance(s, f, i) = 0)
    PROVE  \A i \in f..e : Balance(s, f, i) > 0
<1> SUFFICES ASSUME f <= e PROVE \A i \in f..e : Balance(s, f, i) > 0
  OBVIOUS
<1> DEFINE m == e - f
           G == {n \in 0..m : Balance(s, f, f + n) > 0}
<1>1. m \in Nat
  OBVIOUS
<1>2. 0 \in G
  <2>1. PICK t \in Nat : t + 1 = f
    OBVIOUS
  <2>2. Balance(s, f, t) = 0 /\ Balance(s, f, t + 1) = Balance(s, f, t) + Weight(s[t + 1])
    BY <2>1, BalanceStep
  <2>3. Weight(s[t + 1]) = 1
    BY <2>1, Zenon DEF Weight
  <2>4. Balance(s, f, f + 0) = 1
    BY <2>1, <2>2, <2>3
  <2> QED BY <1>1, <2>4
<1>3. ASSUME NEW n \in 0..(m - 1), n \in G PROVE n + 1 \in G
  <2>1. PICK t \in Nat : t = f + n /\ t + 1 \in f..e /\ f <= t + 1 /\ t + 1 = f + (n + 1)
    OBVIOUS
  <2>2. /\ Balance(s, f, t) \in Int /\ Balance(s, f, t) > 0
        /\ Balance(s, f, t + 1) = Balance(s, f, t) + Weight(s[t + 1])
    BY <1>3, <2>1, BalanceStep
  <2>3. Weight(s[t + 1]) \in {-1, 0, 1} /\ (Weight(s[t + 1]) = -1 => s[t + 1] = CloseChar)
    BY DEF Weight
  <2>4. Weight(s[t + 1]) = -1 => Balance(s, f, t + 1) # 0
    BY <2>1, <2>3, Zenon
  <2>5. Balance(s, f, t + 1) > 0
    BY <2>2, <2>3, <2>4
  <2> QED BY <2>1, <2>5
<1> HIDE DEF G
<1>4. \A n \in 0..m : n \in G
  BY <1>1, <1>2, <1>3, Upward
<1>5. ASSUME NEW i \in f..e PROVE Balance(s, f, i) > 0
  <2>1. i - f \in 0..m /\ f + (i - f) = i
    OBVIOUS
  <2> QED BY <1>4, <2>1 DEF G
<1> QED BY <1>5

(* Where find_matching_brace stops.                                         *)
LEMMA MatchingBrace ==
    ASSUME NEW s, NEW f \in Nat \ {0}, Len(s) \in Nat, FindMatchingBrace(s, f) # 0
    PROVE  LET e == FindMatchingBrace(s, f)
           IN  /\ e \in f..Len(s) /\ s[e] = CloseChar /\ Balance(s, f, e) = 0
               /\ \A i \in f..(e - 1) : ~(s[i] = CloseChar /\ Balance(s, f, i) = 0)
<1> DEFINE ends == {i \in f..Len(s) : s[i] = CloseChar /\ Balance(s, f, i) = 0}
           e == FindMatchingBrace(s, f)
<1>1. e = IF ends = {} THEN 0 ELSE Min(ends)
  BY Zenon DEF FindMatchingBrace
<1>2. ends \subseteq Nat /\ ends \subseteq f..Len(s)
  OBVIOUS
<1>3. ends # {} /\ e = Min(ends)
  BY <1>1, Zenon
<1>4. e \in ends /\ \A y \in ends : e <= y
  BY <1>2, <1>3, MinOfNats, Zenon
<1>5. ASSUME NEW i \in f..(e - 1), s[i] = CloseChar, Balance(s, f, i) = 0 PROVE FALSE
  <2> HIDE DEF e
  <2>1. e \in f..Len(s) /\ i \in f..Len(s) /\ i < e
    BY <1>2, <1>4, <1>5
  <2>2. i \in ends
    BY <1>5, <2>1, Zenon
  <2> HIDE DEF ends
  <2> QED BY <1>2, <1>4, <2>1, <2>2
<1> QED BY <1>4, <1>5, Zenon

LEMMA ObjectEnds ==
    ASSUME NEW s, NEW f \in Nat \ {0}, Len(s) \in Nat, NEW x \in f..Len(s), s[f] = OpenChar,
           \A i \in f..(x - 1) : Balance(s, f, i) > 0, Balance(s, f, x) = 0
    PROVE  FindMatchingBrace(s, f) = x
<1> DEFINE ends == {i \in f..Len(s) : s[i] = CloseChar /\ Balance(s, f, i) = 0}
<1>1. PICK t \in Nat : t + 1 = x
  OBVIOUS
<1>2. /\ Balance(s, f, t) \in Int /\ Balance(s, f, x) = Balance(s, f, t) + Weight(s[x])
      /\ f = t + 1 => Balance(s, f, t) = 0
  <2>1. f <= t + 1 /\ f \in Nat
    BY <1>1
  <2>2. /\ Balance(s, f, t) \in Int /\ Balance(s, f, t + 1) = Balance(s, f, t) + Weight(s[t + 1])
        /\ f = t + 1 => Balance(s, f, t) = 0
    BY <2>1, BalanceStep, ZenonT(40)
  <2> QED BY <1>1, <2>2
<1>3. /\ Weight(s[x]) \in {-1, 0, 1} /\ (Weight(s[x]) = -1 => s[x] = CloseChar)
      /\ x = f => Weight(s[x]) = 1
  BY DEF Weight
<1>4. Balance(s, f, t) >= 0 /\ (x # f => Balance(s, f, t) > 0)
  BY <1>1, <1>2
<1>5. Weight(s[x]) = -1
  BY <1>1, <1>2, <1>3, <1>4
<1>6. x \in ends
  BY <1>3, <1>5, Zenon
<1>7. ends \subseteq Nat
  OBVIOUS
<1>8. \A y \in ends : y >= x
  <2> SUFFICES ASSUME NEW y \in ends, ~(y >= x) PROVE FALSE
    OBVIOUS
  <2>1. y \in f..(x - 1) /\ Balance(s, f, y) = 0
    BY <1>1
  <2>2. Balance(s, f, y) > 0
    BY <2>1, Zenon
  <2> QED BY <2>1, <2>2
<1>9. FindMatchingBrace(s, f) = Min(ends)
  BY <1>6, Zenon DEF FindMatchingBrace
<1> HIDE DEF ends
<1>10. Min(ends) \in ends /\ \A y \in ends : Min(ends) <= y
  BY <1>6, <1>7, MinOfNats, Zenon
<1>11. PICK y \in ends : y = Min(ends) /\ y <= x
  BY <1>6, <1>10, Zenon
<1>12. x \in Nat /\ y \in Nat /\ y >= x
  BY <1>6, <1>7, <1>8
<1> QED BY <1>9, <1>11, <1>12

(* The parts of a text.                                                     *)
LEMMA PartOf ==
    ASSUME NEW S, NEW s \in Seq(S), NEW f \in 1..Len(s), NEW e \in f..Len(s)
    PROVE  /\ SubSeq(s, f, e) \in Seq(S) /\ SubSeq(s, f, e) # <<>>
           /\ Len(SubSeq(s, f, e)) = e - f + 1 /\ Head(SubSeq(s, f, e)) = s[f]
           /\ \A i \in 1..(e - f + 1) : SubSeq(s, f, e)[i] = s[(f - 1) + i]
           /\ \A i \in 0..(e - f + 1) :
                 Balance(SubSeq(s, f, e), 1, i) = Balance(s, f, (f - 1) + i)
<1> DEFINE r == SubSeq(s, f, e)
           n == e - f + 1
           d == f - 1
<1>1. n \in Nat \ {0} /\ d \in Nat /\ d + 1 = f /\ d + n = e
  OBVIOUS
<1>2. r \in Seq(S) /\ Len(r) = n /\ \A i \in 1..n : r[i] = s[d + i]
  OBVIOUS
<1> HIDE DEF r, n, d
<1>3. r # <<>> /\ Head(r) = r[1] /\ r[1] = s[f]
  <2>1. r # <<>> /\ Head(r) = r[1]
    BY <1>1, <1>2
  <2>2. 1 \in 1..n
    BY <1>1
  <2>3. r[1] = s[d + 1]
    BY <1>2, <2>2, Zenon
  <2> QED BY <1>1, <2>1, <2>3, Zenon
<1>4. \A i \in 0..n : Balance(r, 1, i) = Balance(s, d + 1, d + i)
  <2>1. n \in Nat /\ d \in Nat /\ IsPart(r, n, s, d)
    BY <1>1, <1>2 DEF IsPart
  <2>2. SameBalance(r, n, s, d)
    BY <2>1, SameBraces, Zenon
  <2> QED BY <2>2, Zenon DEF SameBalance
<1>5. \A i \in 0..n : Balance(r, 1, i) = Balance(s, f, d + i)
  BY <1>1, <1>4
<1> QED BY <1>2, <1>3, <1>5, Zenon DEF r, n, d

(* An object to find_matching_brace, which counts every brace.              *)
Delimited(s) == /\ s # <<>> /\ Head(s) = OpenChar
                /\ \A i \in 1..Len(s) - 1 : Balance(s, 1, i) > 0
                /\ Balance(s, 1, Len(s)) = 0

(* It is one where no string holds a brace.                                 *)
LEMMA CountsAlike ==
    ASSUME NEW S, NEW s \in Seq(S), PlainStrings(s)
    PROVE  IsObject(s) <=> Delimited(s)
<1>1. Len(s) \in Nat /\ DOMAIN s = 1..Len(s)
  OBVIOUS
<1>2. ASSUME NEW n \in 0..Len(s) PROVE Depth(s, n) = Balance(s, 1, n)
  <2>1. \A i \in 1..n : i \in DOMAIN s
    BY <1>1
  <2>2. \A i \in 1..n : s[i] \in {OpenChar, CloseChar} => ~InString(s, i)
    BY <2>1, Zenon DEF PlainStrings
  <2>3. {i \in 1..n : s[i] = OpenChar /\ ~InString(s, i)} = {i \in 1..n : s[i] = OpenChar}
    BY <2>2, Zenon
  <2>4. {i \in 1..n : s[i] = CloseChar /\ ~InString(s, i)} = {i \in 1..n : s[i] = CloseChar}
    BY <2>2, Zenon
  <2> QED BY <2>3, <2>4, Zenon DEF Depth, Balance
<1>3. Len(s) \in 0..Len(s) /\ \A i \in 1..Len(s) - 1 : i \in 0..Len(s)
  BY <1>1
<1> QED BY <1>2, <1>3, Zenon DEF IsObject, Delimited

(* An object that is a part of a text, and the brace that ends it.          *)
LEMMA ObjectInText ==
    ASSUME NEW S, NEW s \in Seq(S), NEW f \in 1..Len(s), NEW e \in f..Len(s)
    PROVE  Delimited(SubSeq(s, f, e)) <=> s[f] = OpenChar /\ FindMatchingBrace(s, f) = e
<1> DEFINE r == SubSeq(s, f, e)
           n == e - f + 1
           d == f - 1
<1>1. /\ r # <<>> /\ Len(r) = n /\ Head(r) = s[f]
      /\ \A i \in 0..n : Balance(r, 1, i) = Balance(s, f, d + i)
  BY PartOf, ZenonT(40)
<1>2. n \in Nat \ {0} /\ d \in Nat /\ d + 1 = f /\ d + n = e /\ f \in Nat \ {0} /\ Len(s) \in Nat
  OBVIOUS
<1>3. Delimited(r) <=> /\ s[f] = OpenChar /\ \A i \in 1..(n - 1) : Balance(r, 1, i) > 0
                      /\ Balance(r, 1, n) = 0
  BY <1>1, Zenon DEF Delimited
<1> HIDE DEF r, n, d
<1>4. Balance(r, 1, n) = Balance(s, f, e)
  BY <1>1, <1>2
<1>5. (\A i \in 1..(n - 1) : Balance(r, 1, i) > 0) <=> \A i \in f..(e - 1) : Balance(s, f, i) > 0
  <2>1. ASSUME \A i \in 1..(n - 1) : Balance(r, 1, i) > 0, NEW i \in f..(e - 1)
        PROVE  Balance(s, f, i) > 0
    <3>1. PICK k \in 1..(n - 1) : d + k = i
      <4>1. i - d \in 1..(n - 1) /\ d + (i - d) = i
        BY <1>2
      <4> QED BY <4>1
    <3>2. k \in 0..n
      BY <1>2
    <3> QED BY <1>1, <2>1, <3>1, <3>2
  <2>2. ASSUME \A i \in f..(e - 1) : Balance(s, f, i) > 0, NEW k \in 1..(n - 1)
        PROVE  Balance(r, 1, k) > 0
    <3>1. d + k \in f..(e - 1) /\ k \in 0..n
      BY <1>2
    <3> QED BY <1>1, <2>2, <3>1
  <2> QED BY <2>1, <2>2
<1>6. ASSUME s[f] = OpenChar, \A i \in f..(e - 1) : Balance(s, f, i) > 0, Balance(s, f, e) = 0
      PROVE  FindMatchingBrace(s, f) = e
  BY <1>2, <1>6, ObjectEnds
<1>7. ASSUME s[f] = OpenChar, FindMatchingBrace(s, f) = e
      PROVE  Balance(s, f, e) = 0 /\ \A i \in f..(e - 1) : Balance(s, f, i) > 0
  <2>1. e # 0 /\ e - 1 \in Nat
    BY <1>2
  <2>2. Balance(s, f, e) = 0 /\ \A i \in f..(e - 1) : ~(s[i] = CloseChar /\ Balance(s, f, i) = 0)
    BY <1>2, <1>7, <2>1, MatchingBrace
  <2> QED BY <1>2, <1>7, <2>1, <2>2, StaysPositive
<1> QED BY <1>3, <1>4, <1>5, <1>6, <1>7 DEF r

-----------------------------------------------------------------------------
(* trim returns a text.                                                     *)
LEMMA Between ==
    ASSUME NEW S, NEW s \in Seq(S), NEW T, T \subseteq DOMAIN s, T # {}
    PROVE  SubSeq(s, Min(T), Max(T)) \in Seq(S)
<1> DEFINE U == {n \in Nat : \A y \in T : y <= n}
<1>1. T \subseteq 1..Len(s) /\ Len(s) \in Nat /\ T \subseteq Nat
  OBVIOUS
<1>2. Len(s) \in U /\ U \subseteq Nat
  BY <1>1
<1>3. PICK m \in U : \A n \in U : m <= n
  BY <1>2, MinOfNats, Zenon
<1>4. m \in T
  <2> SUFFICES ASSUME m \notin T PROVE FALSE
    OBVIOUS
  <2>1. PICK y \in T : TRUE
    OBVIOUS
  <2>2. y \in 1..Len(s) /\ y <= m /\ m \in Nat
    BY <1>1, <1>3
  <2>3. m - 1 \in U
    BY <1>1, <1>3, <2>2
  <2> QED BY <1>3, <2>2, <2>3
<1>5. \A y \in T : m >= y
  BY <1>1
<1> HIDE DEF U
<1>6. Max(T) \in T
  BY <1>4, <1>5, Zenon DEF Max
<1>7. Min(T) \in T
  BY <1>1, MinOfNats, Zenon
<1>8. PICK f \in 1..Len(s), e \in 1..Len(s) : f = Min(T) /\ e = Max(T)
  BY <1>1, <1>6, <1>7, Zenon
<1>9. SubSeq(s, f, e) \in Seq(S)
  OBVIOUS
<1> QED BY <1>8, <1>9, Zenon

LEMMA TrimIsText ==
    ASSUME NEW S, NEW s \in Seq(S)
    PROVE  Trim(s) \in Seq(S)
<1> DEFINE solid == {i \in DOMAIN s : s[i] # " "}
<1>1. Trim(s) = IF solid = {} THEN <<>> ELSE SubSeq(s, Min(solid), Max(solid))
  BY Zenon DEF Trim
<1>2. solid \subseteq DOMAIN s
  BY Zenon
<1> HIDE DEF solid
<1>3. <<>> \in Seq(S)
  OBVIOUS
<1> QED BY <1>1, <1>2, <1>3, Between, Zenon

-----------------------------------------------------------------------------
(* find and update.                                                         *)
LEMMA FindAsTyped ==
    ASSUME NEW S, NEW a \in Seq(S), Delimited(a)
    PROVE  FindRequest(a).first = a
<1>1. a # <<>> /\ Head(a) = OpenChar
  BY Zenon DEF Delimited
<1>2. 1 \in 1..Len(a) /\ Len(a) \in 1..Len(a) /\ Len(a) # 0 /\ SubSeq(a, 1, Len(a)) = a
  BY <1>1
<1>3. FindMatchingBrace(a, 1) = Len(a)
  <2>1. Delimited(SubSeq(a, 1, Len(a)))
    BY <1>2, Zenon
  <2> QED BY <1>2, <2>1, ObjectInText, Zenon
<1>4. FindRequest(a) = Request("find", a, <<>>)
  BY <1>1, <1>2, <1>3, Zenon DEF FindRequest
<1> QED BY <1>4 DEF Request

(* The two parts of an update, if it is sent.                               *)
LEMMA UpdateParts ==
    ASSUME NEW S, NEW a \in Seq(S), UpdateRequest(a) # NoRequest
    PROVE  \E end \in 1..Len(a), start \in 1..Len(a), last \in 1..Len(a) :
              /\ end = FindMatchingBrace(a, 1) /\ last = FindMatchingBrace(a, start)
              /\ start \in (end + 1)..Len(a) /\ a[start] = OpenChar
              /\ \A k \in (end + 1)..Len(a) : a[k] = OpenChar => start <= k
              /\ last \in start..Len(a)
              /\ UpdateRequest(a) = Request("update", SubSeq(a, 1, end), SubSeq(a, start, last))
<1> DEFINE end == FindMatchingBrace(a, 1)
           starts == {i \in (end + 1)..Len(a) : a[i] = OpenChar}
           start == Min(starts)
           last == FindMatchingBrace(a, start)
<1>1. UpdateRequest(a) = IF end = 0 \/ starts = {} THEN NoRequest
                         ELSE IF last = 0 THEN NoRequest
                         ELSE Request("update", SubSeq(a, 1, end), SubSeq(a, start, last))
  BY Zenon DEF UpdateRequest
<1>2. /\ end # 0 /\ starts # {} /\ last # 0
      /\ UpdateRequest(a) = Request("update", SubSeq(a, 1, end), SubSeq(a, start, last))
  BY <1>1, Zenon
<1>3. Len(a) \in Nat
  OBVIOUS
<1>4. end \in 1..Len(a)
  BY <1>2, <1>3, MatchingBrace
<1>5. starts \subseteq Nat /\ starts \subseteq (end + 1)..Len(a)
  BY <1>4
<1>6. start \in starts /\ \A k \in starts : start <= k
  BY <1>2, <1>5, MinOfNats, Zenon
<1>7. start \in (end + 1)..Len(a) /\ a[start] = OpenChar
      /\ \A k \in (end + 1)..Len(a) : a[k] = OpenChar => start <= k
  BY <1>6, Zenon
<1> HIDE DEF end, starts, start
<1>8. start \in 1..Len(a) /\ start \in Nat \ {0}
  BY <1>3, <1>4, <1>7
<1>9. last \in start..Len(a)
  BY <1>2, <1>3, <1>8, MatchingBrace
<1>10. last \in 1..Len(a)
  BY <1>3, <1>8, <1>9
<1> HIDE DEF last
<1> QED BY <1>2, <1>4, <1>7, <1>8, <1>9, <1>10, Zenon DEF end, last

LEMMA UpdateAsTyped ==
    ASSUME NEW S, NEW a \in Seq(S), NEW r, r = UpdateRequest(a), r # NoRequest
    PROVE  /\ \A i, j \in DOMAIN a :
                /\ i < j /\ Delimited(SubSeq(a, 1, i)) /\ Delimited(SubSeq(a, j, Len(a)))
                /\ \A k \in i + 1..j - 1 : a[k] \notin {OpenChar, CloseChar}
                => r.first = SubSeq(a, 1, i) /\ r.second = SubSeq(a, j, Len(a))
           /\ r.second \in Seq(S) /\ Delimited(r.second)
           /\ Balance(r.first, 1, Len(r.first)) = 0
<1>1. PICK end \in 1..Len(a), start \in 1..Len(a), last \in 1..Len(a) :
              /\ end = FindMatchingBrace(a, 1) /\ last = FindMatchingBrace(a, start)
              /\ start \in (end + 1)..Len(a) /\ a[start] = OpenChar
              /\ \A k \in (end + 1)..Len(a) : a[k] = OpenChar => start <= k
              /\ last \in start..Len(a)
              /\ UpdateRequest(a) = Request("update", SubSeq(a, 1, end), SubSeq(a, start, last))
  BY UpdateParts, Zenon
<1>2. r.first = SubSeq(a, 1, end) /\ r.second = SubSeq(a, start, last)
  <2>1. r = Request("update", SubSeq(a, 1, end), SubSeq(a, start, last))
    BY <1>1, Zenon
  <2> QED BY <2>1 DEF Request
<1>3. Len(a) \in Nat /\ DOMAIN a = 1..Len(a) /\ 1 \in 1..Len(a)
  BY <1>1
<1>4. r.second \in Seq(S) /\ Delimited(r.second)
  <2>1. SubSeq(a, start, last) \in Seq(S)
    BY <1>1, PartOf, Zenon
  <2>2. Delimited(SubSeq(a, start, last))
    BY <1>1, ObjectInText, Zenon
  <2> QED BY <1>2, <2>1, <2>2, Zenon
<1>5. Balance(r.first, 1, Len(r.first)) = 0
  <2>1. 1 \in Nat \ {0} /\ end # 0
    BY <1>1
  <2>2. Balance(a, 1, end) = 0
    BY <1>1, <1>3, <2>1, MatchingBrace
  <2>3. /\ Len(SubSeq(a, 1, end)) = end - 1 + 1
        /\ \A i \in 0..(end - 1 + 1) : Balance(SubSeq(a, 1, end), 1, i) = Balance(a, 1, (1 - 1) + i)
    BY <1>3, PartOf, ZenonT(40)
  <2>4. end - 1 + 1 = end /\ (1 - 1) + end = end /\ end \in 0..end
    BY <1>1
  <2>5. Balance(SubSeq(a, 1, end), 1, end) = Balance(a, 1, end)
    BY <2>3, <2>4
  <2>6. Len(SubSeq(a, 1, end)) = end
    BY <2>3, <2>4
  <2> QED BY <1>2, <2>2, <2>5, <2>6, Zenon
<1>6. ASSUME NEW i \in DOMAIN a, NEW j \in DOMAIN a, i < j,
             Delimited(SubSeq(a, 1, i)), Delimited(SubSeq(a, j, Len(a))),
             \A k \in i + 1..j - 1 : a[k] \notin {OpenChar, CloseChar}
      PROVE  r.first = SubSeq(a, 1, i) /\ r.second = SubSeq(a, j, Len(a))
  <2>1. i \in 1..Len(a) /\ j \in 1..Len(a) /\ Len(a) \in j..Len(a) /\ j \in (i + 1)..Len(a)
    BY <1>3, <1>6
  <2>2. end = i
    BY <1>1, <1>3, <1>6, <2>1, ObjectInText, Zenon
  <2>3. a[j] = OpenChar /\ FindMatchingBrace(a, j) = Len(a)
    BY <1>6, <2>1, ObjectInText, Zenon
  <2>4. start = j
    <3>1. start <= j
      BY <1>1, <2>1, <2>2, <2>3
    <3>2. ~(start < j)
      <4> SUFFICES ASSUME start < j PROVE FALSE
        OBVIOUS
      <4>1. start \in (i + 1)..(j - 1)
        BY <1>1, <2>1, <2>2
      <4>2. a[start] # OpenChar
        BY <1>6, <4>1
      <4> QED BY <1>1, <4>2
    <3> QED BY <1>1, <2>1, <3>1, <3>2
  <2> QED BY <1>1, <1>2, <2>2, <2>3, <2>4, Zenon
<1> QED BY <1>4, <1>5, <1>6, Zenon

(* The loop of the shell.                                                   *)
LEMMA ArgumentsAreText ==
    ASSUME NEW l \in Lines
    PROVE  l.args \in Seq(Chars)
<1>1. l.args \in Text \/ l.args \in {<<>>, <<OpenChar, CloseChar>>}
  <2>1. \A W, A : l \in [word : W, args : A] => l.args \in A
    OBVIOUS
  <2> QED BY <2>1, Zenon DEF Lines
<1>2. ASSUME l.args \in Text PROVE l.args \in Seq(Chars)
  <2>1. PICK n \in 0..MaxArgs : l.args \in [1..n -> Chars]
    BY <1>2, Zenon DEF Text
  <2>2. n \in Nat
    BY ShellAssumption
  <2> QED BY <2>1, <2>2
<1>3. <<>> \in Seq(Chars) /\ <<OpenChar, CloseChar>> \in Seq(Chars)
  BY DEF Chars
<1> QED BY <1>1, <1>2, <1>3, Zenon

LEMMA ShellStep == ShellInv /\ [ShellNext]_shellVars => ShellInv'
<1> SUFFICES ASSUME ShellInv, [ShellNext]_shellVars PROVE ShellInv'
  OBVIOUS
<1> USE DEF ShellInv
<1>1. CASE ReadLine
  BY <1>1, Zenon DEF ReadLine
<1>2. CASE EndOfInput \/ Answer
  BY <1>2, Zenon DEF EndOfInput, Answer
<1>3. CASE Control
  BY <1>3, Zenon DEF Control
<1>4. CASE Command
  BY <1>4, Zenon DEF Command
<1>5. CASE UNCHANGED shellVars
  BY <1>5, Zenon DEF shellVars
<1> QED BY <1>1, <1>2, <1>3, <1>4, <1>5, Zenon DEF ShellNext

LEMMA AskedAsTyped == ShellInv => RequestAsTyped
<1> SUFFICES ASSUME ShellInv, repl = "answer" PROVE RequestAsTyped
  BY Zenon DEF RequestAsTyped
<1>1. line \in Lines /\ asked = ProcessCommand(line) /\ asked # NoRequest
  BY Zenon DEF ShellInv
<1> DEFINE a == Trim(line.args)
<1>2. a \in Seq(Chars)
  BY <1>1, ArgumentsAreText, TrimIsText, Zenon
<1>3. line.word = "find" => asked = FindRequest(a)
  BY <1>1, Zenon DEF ProcessCommand
<1>4. line.word = "update" => asked = UpdateRequest(a)
  BY <1>1, Zenon DEF ProcessCommand
<1> HIDE DEF a
<1>5. line.word = "find" /\ IsObject(a) /\ PlainStrings(a) => asked.first = a
  BY <1>2, <1>3, FindAsTyped, CountsAlike, Zenon
<1>6. ASSUME line.word = "update"
      PROVE  /\ \A i, j \in DOMAIN a :
                  /\ i < j /\ Delimited(SubSeq(a, 1, i)) /\ Delimited(SubSeq(a, j, Len(a)))
                  /\ \A k \in i + 1..j - 1 : a[k] \notin {OpenChar, CloseChar}
                  => asked.first = SubSeq(a, 1, i) /\ asked.second = SubSeq(a, j, Len(a))
             /\ asked.second \in Seq(Chars) /\ Delimited(asked.second)
             /\ Balance(asked.first, 1, Len(asked.first)) = 0
  <2>1. asked = UpdateRequest(a) /\ asked # NoRequest
    BY <1>1, <1>4, <1>6, Zenon
  <2> QED BY <1>2, <2>1, UpdateAsTyped, ZenonT(40)
<1>7. ASSUME line.word = "update", NEW i \in DOMAIN a, NEW j \in DOMAIN a, i < j,
             IsObject(SubSeq(a, 1, i)), PlainStrings(SubSeq(a, 1, i)),
             IsObject(SubSeq(a, j, Len(a))), PlainStrings(SubSeq(a, j, Len(a))),
             \A k \in i + 1..j - 1 : a[k] \notin {OpenChar, CloseChar}
      PROVE  asked.first = SubSeq(a, 1, i) /\ asked.second = SubSeq(a, j, Len(a))
  <2>1. SubSeq(a, 1, i) \in Seq(Chars) /\ SubSeq(a, j, Len(a)) \in Seq(Chars)
    <3>1. 1 \in 1..Len(a) /\ i \in 1..Len(a) /\ j \in 1..Len(a) /\ Len(a) \in j..Len(a)
      BY <1>2
    <3> QED BY <1>2, <3>1, PartOf, Zenon
  <2>2. Delimited(SubSeq(a, 1, i)) /\ Delimited(SubSeq(a, j, Len(a)))
    BY <1>7, <2>1, CountsAlike, Zenon
  <2> QED BY <1>6, <1>7, <2>2, Zenon
<1>8. line.word = "update" /\ PlainStrings(asked.second) => IsObject(asked.second)
  BY <1>6, CountsAlike, Zenon
<1> QED BY <1>5, <1>6, <1>7, <1>8, ZenonT(40) DEF RequestAsTyped, a

(* The shell sends what was typed, for lines of any length whose strings    *)
(* hold no braces.                                                          *)
THEOREM RequestAlwaysAsTyped == ShellSpec => []RequestAsTyped
<1>1. ShellInit => ShellInv
  BY Zenon DEF ShellInit, ShellInv
<1> QED BY <1>1, ShellStep, AskedAsTyped, PTL DEF ShellSpec
=============================================================================
