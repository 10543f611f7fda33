--------------------------- MODULE SessionProofs ---------------------------
(***************************************************************************)
(* For any number of clients, connections and payloads and any window. A   *)
(* request is carried out only if no response to the same payload was      *)
(* stored within the window: workers look up, carry out and store in three *)
(* steps, so that several may store the same payload, but the entry of a   *)
(* payload is never older than its last stored response unless that        *)
(* response has left the window, which CacheInv says. And a call returns   *)
(* the answer to its own request: unless a reader took a part of a         *)
(* message, client and worker of a connection are in step, with at most    *)
(* one message between them, which AnswerInv says. No call waits for       *)
(* nothing, on any connection: the client that waits has its end open, so  *)
(* that requests become work and work becomes responses until the server   *)
(* closes, which WayInv says. Before any session, for any configuration    *)
(* file: the programs serve with the settings that they were given.        *)
(***************************************************************************)
EXTENDS Session, Startup, TLAPS

(* The three steps that touch the clock, the cache or its history.          *)
LEMMA LookupKeepsCacheInv ==
    ASSUME CacheInv, NEW c \in Conns, GetCachedResponse(c)
    PROVE  CacheInv'
<1> DEFINE r == wreq[c].body
           hit == r \in DOMAIN cache /\ ~Expired(cache[r])
<1>1. now' = now /\ stored' = stored
  BY DEF GetCachedResponse
<1>0. wpc' \in [Conns -> Steps]
  BY DEF GetCachedResponse, CacheInv, Steps
<1>2. CASE hit
  <2>1. cache' = cache
    BY <1>2 DEF GetCachedResponse
  <2> QED BY <1>0, <1>1, <2>1 DEF CacheInv
<1>3. CASE ~hit
  <2>1. cache' = [x \in DOMAIN cache \ {r} |-> cache[x]]
    BY <1>3 DEF GetCachedResponse
  <2>2. \A x \in DOMAIN cache' : x \in DOMAIN cache /\ cache'[x] = cache[x]
    BY <2>1
  <2>3. ASSUME NEW e \in stored, e[1] = r, r \in DOMAIN cache, e[2] <= cache[r].at
        PROVE  now - e[2] >= Window
    BY <1>3, <2>3, SessionAssumption DEF CacheInv, Expired
  <2>4. ASSUME NEW e \in stored
        PROVE  /\ e[2] \in Nat /\ e[2] <= now
               /\ \/ now - e[2] >= Window
                  \/ e[1] \in DOMAIN cache' /\ e[2] <= cache'[e[1]].at
    BY <2>1, <2>3 DEF CacheInv
  <2> QED BY <1>0, <1>1, <2>2, <2>4 DEF CacheInv
<1> QED BY <1>2, <1>3

LEMMA StoreKeepsCacheInv ==
    ASSUME CacheInv, NEW c \in Conns, CacheResponse(c)
    PROVE  CacheInv'
<1> DEFINE r == wreq[c].body
<1>1. /\ now' = now /\ stored' = stored \cup {<<r, now>>}
      /\ cache' = [x \in DOMAIN cache \cup {r} |->
                     IF x = r THEN [at |-> now, response |-> wout[c]] ELSE cache[x]]
  BY DEF CacheResponse
<1>2. /\ DOMAIN cache' = DOMAIN cache \cup {r}
      /\ cache'[r].at = now
      /\ \A x \in DOMAIN cache \ {r} : cache'[x] = cache[x]
  BY <1>1
<1>3. /\ now' \in Nat /\ wpc' \in [Conns -> Steps]
      /\ \A x \in DOMAIN cache' : cache'[x].at \in Nat /\ cache'[x].at <= now'
  BY <1>1, <1>2 DEF CacheInv, CacheResponse, Steps
<1>4. ASSUME NEW e \in stored'
      PROVE  /\ e[2] \in Nat /\ e[2] <= now'
             /\ \/ now' - e[2] >= Window
                \/ e[1] \in DOMAIN cache' /\ e[2] <= cache'[e[1]].at
  <2>1. CASE e \in stored
    BY <1>1, <1>2, <2>1 DEF CacheInv
  <2>2. CASE e = <<r, now>>
    BY <1>1, <1>2, <2>2 DEF CacheInv
  <2> QED BY <1>1, <2>1, <2>2
<1> QED BY <1>3, <1>4 DEF CacheInv

LEMMA TickKeepsCacheInv ==
    ASSUME CacheInv, Tick
    PROVE  CacheInv'
BY SessionAssumption DEF CacheInv, Tick, server, worker

(* CacheInv holds in every reachable state.                                 *)
THEOREM CacheInvariant == Spec => []CacheInv
<1>1. Init => CacheInv
  BY DEF Init, CacheInv, Steps
<1>2. ASSUME CacheInv, [Next]_vars PROVE CacheInv'
  <2>1. ASSUME UNCHANGED <<cache, stored, now>>, wpc' \in [Conns -> Steps]
        PROVE  CacheInv'
    BY <1>2, <2>1 DEF CacheInv
  <2>2. wpc \in [Conns -> Steps]
    BY <1>2 DEF CacheInv
  <2>3. ASSUME NEW k \in Clients,
               ClientSends(k) \/ ClientConnects(k) \/ Receive(k) \/ ReceiveFails(k)
        PROVE  CacheInv'
    <3>1. CASE \E r \in Requests : SendRequest(k, r)
      BY <2>1, <2>2, <3>1 DEF SendRequest, Steps, server
    <3>2. CASE \E r \in Requests : ConnectFails(k, r) \/ SendFails(k, r)
      BY <2>1, <2>2, <3>2 DEF ConnectFails, SendFails, server, worker
    <3>3. CASE Receive(k) \/ ReceiveFails(k)
      BY <2>1, <2>2, <3>3 DEF Receive, ReceiveFails, server, worker
    <3>4. CASE ClientConnects(k)
      BY <2>1, <2>2, <3>4 DEF ClientConnects, ConnectServer, DisconnectServer, Steps, server, worker
    <3> QED BY <2>3, <3>1, <3>2, <3>3, <3>4 DEF ClientSends
  <2>4. ASSUME NEW c \in Conns, WorkerStep(c)
        PROVE  CacheInv'
    <3>1. CASE WorkerReceive(c) BY <2>1, <2>2, <3>1 DEF WorkerReceive, Steps, server
    <3>2. CASE WorkerHangup(c) BY <2>1, <2>2, <3>2 DEF WorkerHangup, Steps, WorkerCloses, server
    <3>3. CASE GetCachedResponse(c) BY <1>2, <3>3, LookupKeepsCacheInv
    <3>4. CASE ProcessRequest(c) BY <2>1, <2>2, <3>4 DEF ProcessRequest, Steps
    <3>5. CASE CacheResponse(c) BY <1>2, <3>5, StoreKeepsCacheInv
    <3>6. CASE SendResponse(c)
      BY <2>1, <2>2, <3>6 DEF SendResponse, Steps, WorkerCloses, server
    <3> QED BY <2>4, <3>1, <3>2, <3>3, <3>4, <3>5, <3>6 DEF WorkerStep
  <2>5. CASE Crash
    BY <1>2, <2>5 DEF Crash, Steps, WorkerCloses, CacheInv
  <2>6. CASE Tick
    BY <1>2, <2>6, TickKeepsCacheInv
  <2>7. CASE UNCHANGED vars
    BY <2>1, <2>2, <2>7 DEF vars, server, worker
  <2> QED BY <1>2, <2>3, <2>4, <2>5, <2>6, <2>7 DEF Next
<1> QED BY <1>1, <1>2, PTL DEF Spec

(* Only the lookup of a connection sends its request on to be carried out.  *)
LEMMA OnlyLookupDispatches ==
    ASSUME CacheInv, Next, NEW c \in Conns, wpc[c] = "lookup", wpc'[c] = "dispatch"
    PROVE  GetCachedResponse(c)
<1>1. wpc \in [Conns -> Steps] /\ wpc' # wpc
  BY DEF CacheInv
<1>2. ASSUME NEW k \in Clients,
             ClientSends(k) \/ ClientConnects(k) \/ Receive(k) \/ ReceiveFails(k)
      PROVE  FALSE
  <2>1. ASSUME NEW r \in Requests, SendRequest(k, r)
        PROVE  FALSE
    BY <1>1, <2>1 DEF SendRequest
  <2>2. ASSUME NEW r \in Requests, ConnectFails(k, r) \/ SendFails(k, r)
        PROVE  FALSE
    BY <1>1, <2>2 DEF ConnectFails, SendFails, worker
  <2>3. CASE Receive(k) \/ ReceiveFails(k)
    BY <1>1, <2>3 DEF Receive, ReceiveFails, worker
  <2>4. CASE ClientConnects(k)
    BY <1>1, <2>4 DEF ClientConnects, ConnectServer, DisconnectServer, worker
  <2> QED BY <1>2, <2>1, <2>2, <2>3, <2>4, Zenon DEF ClientSends
<1>3. ASSUME NEW d \in Conns, WorkerStep(d), ~(d = c /\ GetCachedResponse(c))
      PROVE  FALSE
  <2>1. CASE WorkerReceive(d) BY <1>1, <2>1 DEF WorkerReceive
  <2>2. CASE WorkerHangup(d) BY <1>1, <2>2 DEF WorkerHangup, WorkerCloses
  <2>3. CASE GetCachedResponse(d)
    <3>1. d # c
      BY <1>3, <2>3
    <3> QED BY <1>1, <2>3, <3>1 DEF GetCachedResponse
  <2>4. CASE ProcessRequest(d) BY <1>1, <2>4 DEF ProcessRequest
  <2>5. CASE CacheResponse(d) BY <1>1, <2>5 DEF CacheResponse
  <2>6. CASE SendResponse(d) BY <1>1, <2>6 DEF SendResponse, WorkerCloses
  <2> QED BY <1>3, <2>1, <2>2, <2>3, <2>4, <2>5, <2>6, Zenon DEF WorkerStep
<1>4. CASE Crash
  BY <1>4 DEF Crash, Steps, WorkerCloses
<1>5. CASE Tick
  BY <1>1, <1>5 DEF Tick, worker
<1> QED BY <1>2, <1>3, <1>4, <1>5, Zenon DEF Next

(* The cache does what it is for, except for requests that overlap.         *)
THEOREM RepeatsAnsweredAlways == Spec => RepeatsAreAnswered
<1>1. ASSUME CacheInv, [Next]_vars PROVE [CarriedOutIfNew]_vars
  <2>1. CASE UNCHANGED vars
    BY <2>1
  <2>2. CASE Next
    <3>1. SUFFICES ASSUME NEW c \in Conns, wpc[c] = "lookup", wpc'[c] = "dispatch",
                          NEW e \in stored, e[1] = wreq[c].body
                   PROVE  now - e[2] >= Window
      BY DEF CarriedOutIfNew
    <3>2. GetCachedResponse(c)
      BY <1>1, <2>2, <3>1, OnlyLookupDispatches
    <3>3. ~(wreq[c].body \in DOMAIN cache /\ ~Expired(cache[wreq[c].body]))
      BY <1>1, <3>1, <3>2 DEF GetCachedResponse, CacheInv
    <3> QED BY <1>1, <3>1, <3>3, SessionAssumption DEF CacheInv, Expired
  <2> QED BY <1>1, <2>1, <2>2
<1> QED BY <1>1, CacheInvariant, PTL DEF Spec, RepeatsAreAnswered

-----------------------------------------------------------------------------
(* The pieces of one message.                                               *)
LEMMA PiecesFacts ==
    ASSUME NEW id, NEW body, NEW n \in Nat \ {0}
    PROVE  /\ Pieces(id, body, n) # <<>> /\ Len(Pieces(id, body, n)) = n
           /\ <<>> \o Pieces(id, body, n) = Pieces(id, body, n)
           /\ OneMessage(Pieces(id, body, n), id)
<1> DEFINE ps == Pieces(id, body, n)
<1>1. ps = [i \in 1..n |-> [id |-> id, body |-> body, part |-> i, of |-> n]]
  BY DEF Pieces
<1>2. ps \in Seq([id : {id}, body : {body}, part : Nat, of : {n}])
  BY <1>1
<1>3. Len(ps) = n /\ ps # <<>> /\ ps[1].body = body
  <2>1. Len(ps) = n
    BY <1>1
  <2>2. ps[1].body = body
    BY <1>1
  <2> QED BY <2>1, <2>2
<1> HIDE DEF ps
<1>4. <<>> \o ps = ps
  BY <1>2
<1>5. OneMessage(ps, id)
  BY <1>3 DEF OneMessage, ps
<1> QED BY <1>3, <1>4, <1>5 DEF ps

(* A reader who is given no torn message by a stream that holds one message *)
(* has taken all of it.                                                     *)
LEMMA TakenWhole ==
    ASSUME NEW ps, NEW id, OneMessage(ps, id), NEW n \in 1..Len(ps),
           Assemble(SubSeq(ps, 1, n)).body # Garbled
    PROVE  /\ Assemble(SubSeq(ps, 1, n)).id = id
           /\ SubSeq(ps, n + 1, Len(ps)) = <<>>
<1> DEFINE m == Len(ps)
           b == ps[1].body
           q == SubSeq(ps, 1, n)
<1>1. m \in Nat \ {0} /\ ps = [i \in 1..m |-> [id |-> id, body |-> b, part |-> i, of |-> m]]
  BY DEF OneMessage, Pieces
<1>0. n \in 1..m /\ Len(ps) = m
  OBVIOUS
<1> HIDE DEF m, b
<1>2. ps \in Seq([id : {id}, body : {b}, part : Nat, of : {m}])
  <2> DEFINE R == [id : {id}, body : {b}, part : Nat, of : {m}]
  <2>1. \A i \in 1..m : [id |-> id, body |-> b, part |-> i, of |-> m] \in R
    BY <1>1
  <2> HIDE DEF R
  <2>2. ps \in [1..m -> R]
    BY <1>1, <2>1, Zenon
  <2>3. ps \in Seq(R)
    BY <1>1, <2>2
  <2> QED BY <2>3 DEF R
<1>3. q[1] = ps[1] /\ Len(q) = n /\ ps[1].id = id /\ ps[1].of = m /\ ps[1].body = b
  BY <1>0, <1>1, <1>2
<1>4. q = Pieces(id, b, m) /\ Assemble(q).id = id
  <2>1. Assemble(q) = [id |-> q[1].id, body |-> IF q = Pieces(q[1].id, q[1].body, q[1].of)
                                                 THEN q[1].body ELSE Garbled]
    BY Zenon DEF Assemble
  <2> HIDE DEF q
  <2>2. Assemble(q).body # Garbled => q = Pieces(q[1].id, q[1].body, q[1].of)
    BY <2>1
  <2>3. Assemble(q).id = id
    BY <1>3, <2>1
  <2>4. Assemble(q).body # Garbled
    BY DEF q
  <2> QED BY <1>3, <2>2, <2>3, <2>4
<1>5. n = m
  BY <1>1, <1>3, <1>4, PiecesFacts
<1>6. SubSeq(ps, n + 1, m) = <<>>
  BY <1>1, <1>2, <1>5
<1> QED BY <1>0, <1>4, <1>6

(* A client's step leaves the other clients in step.                        *)
LEMMA ClientFrame ==
    ASSUME AnswerInv, NEW k \in Clients, SocketInv', torn \subseteq torn',
           \A j \in Clients \ {k} : /\ sock'[j] = sock[j] /\ call'[j] = call[j]
                                    /\ j \in waiting' <=> j \in waiting,
           \A d \in Conns : \/ d = sock[k] \/ d = sock'[k]
                            \/ /\ up'[d] = up[d] /\ down'[d] = down[d]
                               /\ wpc'[d] = wpc[d] /\ wreq'[d] = wreq[d],
           sock'[k] # None /\ sock'[k] \notin torn' => InStep(k, sock[k])'
    PROVE  AnswerInv'
<1>1. ASSUME NEW j \in Clients, j # k, sock'[j] # None, sock'[j] \notin torn'
      PROVE  InStep(j, sock[j])'
  <2>1. /\ sock'[j] = sock[j] /\ call'[j] = call[j] /\ (j \in waiting' <=> j \in waiting)
        /\ sock[j] \in Conns /\ sock[j] \notin torn /\ sock[j] # None
    BY <1>1 DEF AnswerInv, SocketInv
  <2>2. sock[j] # sock[k] /\ sock[j] # sock'[k]
    BY <1>1, <2>1, SMTT(30) DEF AnswerInv, SocketInv
  <2>3. /\ up'[sock[j]] = up[sock[j]] /\ down'[sock[j]] = down[sock[j]]
        /\ wpc'[sock[j]] = wpc[sock[j]] /\ wreq'[sock[j]] = wreq[sock[j]]
    BY <2>1, <2>2, Zenon
  <2>4. InStep(j, sock[j])
    BY <1>1, <2>1, Zenon DEF AnswerInv
  <2> QED BY <2>1, <2>3, <2>4 DEF InStep, Resting
<1> QED BY <1>1, Zenon DEF AnswerInv

(* A worker's step concerns the client of its connection only.              *)
LEMMA WorkerFrame ==
    ASSUME AnswerInv, NEW c \in Conns, SocketInv', torn \subseteq torn',
           UNCHANGED <<sock, call, waiting>>,
           \A d \in Conns \ {c} : /\ up'[d] = up[d] /\ down'[d] = down[d]
                                  /\ wpc'[d] = wpc[d] /\ wreq'[d] = wreq[d],
           \A k \in Clients : sock[k] = c /\ c \notin torn' => InStep(k, c)'
    PROVE  AnswerInv'
<1>1. ASSUME NEW k \in Clients, sock[k] # None, sock[k] \notin torn', sock[k] # c
      PROVE  InStep(k, sock[k])'
  <2>1. sock[k] \in Conns \ {c} /\ InStep(k, sock[k])
    BY <1>1 DEF AnswerInv, SocketInv
  <2> QED BY <2>1 DEF InStep, Resting
<1> QED BY <1>1, Zenon DEF AnswerInv
(* A client that closes its socket has nothing on its way any more.         *)
LEMMA CloseStep ==
    ASSUME AnswerInv, NEW k \in Clients, ClientCloses(k), sock[k] # None, torn \subseteq torn',
           DOMAIN call' = Clients, \A j \in Clients \ {k} : call'[j] = call[j],
           \A j \in Clients \ {k} : j \in waiting' <=> j \in waiting, k \notin waiting',
           UNCHANGED <<up, wpc, wreq, opened>>
    PROVE  AnswerInv'
<1>1. /\ sock'[k] = None /\ \A j \in Clients \ {k} : sock'[j] = sock[j]
      /\ sock' \in [Clients -> Conns \cup {None}]
      /\ DOMAIN down' = Conns /\ down'[sock[k]] = <<>>
      /\ \A d \in Conns : d # sock[k] => down'[d] = down[d]
  BY DEF ClientCloses, AnswerInv, SocketInv
<1>2. \A c \in Conns : c > opened => down'[c] = <<>>
  BY <1>1, Zenon DEF AnswerInv, SocketInv
<1>3. SocketInv'
  BY <1>1, <1>2 DEF AnswerInv, SocketInv, None
<1> QED BY <1>1, <1>3, ClientFrame

(* connect() gives the client a connection on which there is nothing.       *)
LEMMA ConnectStep ==
    ASSUME AnswerInv, NEW k \in Clients, ConnectServer(k)
    PROVE  AnswerInv'
<1> DEFINE c == opened + 1
<1>0. /\ sock \in [Clients -> Conns \cup {None}] /\ opened \in Nat
      /\ DOMAIN wpc = Conns /\ \A j \in Clients : sock[j] <= opened
      /\ \A d \in Conns : d > opened => up[d] = <<>> /\ down[d] = <<>>
  BY Zenon DEF AnswerInv, SocketInv
<1>1. /\ c \in Conns /\ c # None /\ opened' = c /\ sock[k] = None /\ k \notin waiting
      /\ sock'[k] = c /\ \A j \in Clients \ {k} : sock'[j] = sock[j]
      /\ sock' \in [Clients -> Conns \cup {None}]
      /\ UNCHANGED <<call, waiting, up, down, wreq, torn>>
      /\ wpc'[c] = "recv" /\ DOMAIN wpc' = Conns /\ \A d \in Conns : d # c => wpc'[d] = wpc[d]
  <2>1. c # None
    BY <1>0 DEF None
  <2> HIDE DEF c
  <2> QED BY <1>0, <2>1, Zenon DEF ConnectServer, c
<1>2. up[c] = <<>> /\ down[c] = <<>>
  <2>1. c > opened
    BY <1>0
  <2> QED BY <1>0, <1>1, <2>1, Zenon
<1>3. \A j \in Clients \ {k} : sock'[j] # c /\ sock'[j] <= opened'
  <2> SUFFICES ASSUME NEW j \in Clients \ {k} PROVE sock[j] # c /\ sock[j] <= c
    BY <1>1, Zenon
  <2>1. sock[j] \in Nat /\ sock[j] <= opened
    BY <1>0, SessionAssumption DEF Conns, None
  <2> QED BY <1>0, <2>1
<1>4. SocketInv'
  <2>1. \A d \in Conns : d > opened' => d > opened /\ d # c
    <3>1. opened' = opened + 1 /\ opened \in Nat /\ Conns \subseteq Nat
      BY <1>0, <1>1, SessionAssumption DEF Conns
    <3> QED BY <3>1
  <2>2. \A i, j \in Clients : sock'[i] = sock'[j] /\ sock'[i] # None => i = j
    <3> SUFFICES ASSUME NEW i \in Clients, NEW j \in Clients, sock'[i] = sock'[j], sock'[i] # None
                 PROVE  i = j
      BY Zenon
    <3>1. (i = k => j = k) /\ (j = k => i = k)
      BY <1>1, <1>3, Zenon
    <3>2. i # k /\ j # k => sock[i] = sock[j] /\ sock[i] # None
      BY <1>1, Zenon
    <3> QED BY <3>1, <3>2, Zenon DEF AnswerInv, SocketInv
  <2>3. opened' \in Nat /\ sock'[k] <= opened'
    BY <1>0, <1>1
  <2>4. \A j \in Clients : j \in waiting' => sock'[j] # None
    BY <1>1, Zenon DEF AnswerInv, SocketInv
  <2> HIDE DEF c
  <2> QED BY <1>1, <1>3, <2>1, <2>2, <2>3, <2>4, Zenon DEF AnswerInv, SocketInv
<1>5. InStep(k, sock[k])'
  BY <1>1, <1>2 DEF InStep, Resting
<1> HIDE DEF c
<1> QED BY <1>1, <1>4, <1>5, ClientFrame

(* A request is sent on a connection on which there is nothing.             *)
LEMMA SendStep ==
    ASSUME AnswerInv, NEW k \in Clients, NEW r \in Requests, SendRequest(k, r)
    PROVE  AnswerInv'
<1> DEFINE new == sock[k] = None
<1>0. PICK c : c = IF new THEN opened + 1 ELSE sock[k]
  BY Zenon
<1>1. /\ c \in Conns /\ k \notin waiting
      /\ sock' = [sock EXCEPT ![k] = c] /\ opened' = IF new THEN c ELSE opened
      /\ wpc' = IF new THEN [wpc EXCEPT ![c] = "recv"] ELSE wpc
      /\ \/ up' = up
         \/ up' = [up EXCEPT ![c] = @ \o Pieces(calls + 1, r, Size[r])]
      /\ waiting' = waiting \cup {k} /\ UNCHANGED <<down, wreq, torn>>
      /\ call' = [call EXCEPT ![k] = [id |-> calls + 1, body |-> r]]
  BY <1>0, Zenon DEF SendRequest, NextCall
<1>2. c # None
  BY <1>1, SessionAssumption, SMTT(30) DEF Conns, None
<1>3. c \notin torn => up[c] = <<>> /\ down[c] = <<>> /\ Resting(c)'
  <2>1. CASE new
    <3>1. c > opened
      <4>1. c = opened + 1 /\ opened \in Nat
        BY <1>0, <2>1, Zenon DEF AnswerInv, SocketInv
      <4> QED BY <4>1
    <3>2. up[c] = <<>> /\ down[c] = <<>>
      BY <1>1, <3>1, Zenon DEF AnswerInv, SocketInv
    <3>3. wpc'[c] = "recv"
      BY <1>1, <2>1, Zenon DEF AnswerInv, SocketInv
    <3> QED BY <3>2, <3>3, Zenon DEF Resting
  <2>2. CASE ~new
    <3>1. c = sock[k] /\ wpc' = wpc
      BY <1>0, <1>1, <2>2, Zenon
    <3>2. c \notin torn => InStep(k, c)
      BY <2>2, <3>1, Zenon DEF AnswerInv
    <3> QED BY <1>1, <3>1, <3>2, Zenon DEF InStep, Resting
  <2> QED BY <2>1, <2>2
<1>4. /\ sock'[k] = c /\ \A j \in Clients \ {k} : sock'[j] = sock[j] /\ sock'[j] # c
      /\ sock' \in [Clients -> Conns \cup {None}] /\ opened' \in Nat
      /\ opened \in Nat /\ opened <= opened' /\ c <= opened'
      /\ \A j \in Clients : sock'[j] <= opened'
  <2>1. /\ sock \in [Clients -> Conns \cup {None}] /\ opened \in Nat
        /\ \A j \in Clients : sock[j] <= opened
        /\ \A i, j \in Clients : sock[i] = sock[j] /\ sock[i] # None => i = j
    BY Zenon DEF AnswerInv, SocketInv
  <2>2. sock'[k] = c /\ \A j \in Clients \ {k} : sock'[j] = sock[j]
    BY <1>1, <2>1, Zenon
  <2>3. sock' \in [Clients -> Conns \cup {None}]
    BY <1>1, <2>1, Zenon
  <2>4. opened' \in Nat /\ opened <= opened' /\ c <= opened'
    BY <1>0, <1>1, <2>1 DEF Conns
  <2>5. \A j \in Clients \ {k} : sock[j] # c
    <3>1. CASE new BY <1>0, <2>1, <3>1
    <3>2. CASE ~new BY <1>0, <2>1, <3>2, Zenon
    <3> QED BY <3>1, <3>2
  <2>6. \A j \in Clients : sock'[j] <= opened'
    BY <2>1, <2>2, <2>4 DEF None, Conns
  <2> QED BY <2>1, <2>2, <2>3, <2>4, <2>5, <2>6, Zenon
<1>5. /\ DOMAIN up' = Conns /\ DOMAIN wpc' = Conns /\ DOMAIN call' = Clients
      /\ \A d \in Conns : d # c => up'[d] = up[d] /\ wpc'[d] = wpc[d]
      /\ \A j \in Clients \ {k} : call'[j] = call[j]
      /\ call'[k].id = calls + 1
  BY <1>1 DEF AnswerInv, SocketInv
<1>6. SocketInv'
  <2>1. \A d \in Conns : d > opened' => d > opened /\ d # c
    BY <1>4 DEF Conns
  <2>2. \A i, j \in Clients : sock'[i] = sock'[j] /\ sock'[i] # None => i = j
    BY <1>4 DEF AnswerInv, SocketInv
  <2>3. \A j \in Clients : j \in waiting' => sock'[j] # None
    BY <1>1, <1>2, <1>4 DEF AnswerInv, SocketInv
  <2> HIDE DEF new
  <2> QED BY <1>1, <1>4, <1>5, <2>1, <2>2, <2>3, ZenonT(40) DEF AnswerInv, SocketInv
<1>7. c \notin torn => InStep(k, c)'
  <2> SUFFICES ASSUME c \notin torn PROVE InStep(k, c)'
    OBVIOUS
  <2>1. Size[r] \in Nat \ {0}
    BY SessionAssumption
  <2>2. up'[c] = <<>> \/ up'[c] = Pieces(calls + 1, r, Size[r])
    <3>1. <<>> \o Pieces(calls + 1, r, Size[r]) = Pieces(calls + 1, r, Size[r])
      BY <2>1, PiecesFacts, Zenon
    <3>2. up'[c] = up[c] \/ up'[c] = up[c] \o Pieces(calls + 1, r, Size[r])
      BY <1>1, Zenon DEF AnswerInv, SocketInv
    <3> QED BY <1>3, <3>1, <3>2, Zenon
  <2>3. up'[c] # <<>> => OneMessage(up'[c], calls + 1)
    BY <2>1, <2>2, PiecesFacts, Zenon
  <2> HIDE DEF new
  <2> QED BY <1>1, <1>3, <1>5, <2>3, Zenon DEF InStep, OneMessage
<1> HIDE DEF new
<1>8. InStep(k, sock[k])' <=> InStep(k, c)'
  BY <1>4 DEF InStep, Resting, OneMessage
<1> QED BY <1>1, <1>4, <1>5, <1>6, <1>7, <1>8, ClientFrame

(* The client gets a whole response, and with it all there is.              *)
LEMMA ReceiveStep ==
    ASSUME AnswerInv, NEW k \in Clients, Receive(k)
    PROVE  AnswerInv'
<1>0. PICK c : c = sock[k]
  OBVIOUS
<1>1. PICK n \in 1..Len(down[c]) :
        /\ torn' = IF Assemble(SubSeq(down[c], 1, n)).body = Garbled THEN torn \cup {c} ELSE torn
        /\ IF call[k].body.action = "exit" THEN ClientCloses(k)
           ELSE /\ down' = [down EXCEPT ![c] = SubSeq(@, n + 1, Len(@))]
                /\ UNCHANGED <<sock, clientEnd>>
  BY <1>0, ZenonT(40) DEF Receive
<1>2. /\ k \in waiting /\ waiting' = waiting \ {k} /\ torn \subseteq torn' /\ c \in Conns /\ c # None
      /\ UNCHANGED <<call, up, opened, wpc, wreq>>
  <2>1. k \in waiting /\ waiting' = waiting \ {k} /\ UNCHANGED <<call, up, opened, wpc, wreq>>
    BY Zenon DEF Receive, worker
  <2>2. torn \subseteq torn'
    BY <1>1, Zenon
  <2>3. c \in Conns /\ c # None
    BY <1>0, <2>1, Zenon DEF AnswerInv, SocketInv
  <2> QED BY <2>1, <2>2, <2>3, Zenon
<1>3. CASE call[k].body.action = "exit"
  BY <1>0, <1>1, <1>2, <1>3, CloseStep, Zenon DEF AnswerInv, SocketInv
<1>4. CASE call[k].body.action # "exit"
  <2>1. /\ sock' = sock /\ DOMAIN down' = Conns
        /\ down'[c] = SubSeq(down[c], n + 1, Len(down[c]))
        /\ \A d \in Conns : d # c => down'[d] = down[d]
    BY <1>1, <1>2, <1>4, Zenon DEF AnswerInv, SocketInv
  <2>2. SocketInv'
    <3>1. \A d \in Conns : d > opened => d # c
      BY <1>0 DEF AnswerInv, SocketInv, Conns
    <3> QED BY <1>2, <2>1, <3>1, Zenon DEF AnswerInv, SocketInv
  <2>3. ASSUME c \notin torn' PROVE InStep(k, c)'
    <3>1. Assemble(SubSeq(down[c], 1, n)).body # Garbled /\ InStep(k, c)
      BY <1>0, <1>1, <1>2, <2>3, Zenon DEF AnswerInv
    <3>2. down[c] # <<>>
      <4> SUFFICES ASSUME down[c] = <<>> PROVE FALSE
        BY Zenon
      <4> QED BY <1>1
    <3>3. OneMessage(down[c], call[k].id) /\ Resting(c) /\ up[c] = <<>>
      BY <3>1, <3>2, Zenon DEF InStep
    <3>4. down'[c] = <<>>
      BY <2>1, <3>1, <3>3, TakenWhole
    <3> QED BY <1>2, <3>3, <3>4, Zenon DEF InStep, Resting
  <2>4. sock'[k] \notin torn' => InStep(k, sock[k])'
    BY <1>0, <2>1, <2>3
  <2> QED BY <1>0, <1>2, <2>1, <2>2, <2>4, ClientFrame, Zenon
<1> QED BY <1>3, <1>4
(* The steps of the worker. It takes the whole request, and sends the       *)
(* response when nothing else is on the connection.                         *)
LEMMA TakeStep ==
    ASSUME AnswerInv, NEW c \in Conns, WorkerReceive(c)
    PROVE  AnswerInv'
<1> DEFINE got(n) == Assemble(SubSeq(up[c], 1, n))
<1>1. PICK n \in 1..Len(up[c]) :
        /\ wreq' = [wreq EXCEPT ![c] = got(n)]
        /\ up' = [up EXCEPT ![c] = SubSeq(@, n + 1, Len(@))]
        /\ torn' = IF got(n).body = Garbled THEN torn \cup {c} ELSE torn
        /\ \E step \in {"send", "lookup"} : wpc' = [wpc EXCEPT ![c] = step]
  BY Zenon DEF WorkerReceive
<1>2. wpc[c] = "recv" /\ UNCHANGED <<sock, call, waiting, opened, down>> /\ torn \subseteq torn'
  BY <1>1, Zenon DEF WorkerReceive, client
<1>3. /\ DOMAIN up' = Conns /\ DOMAIN wpc' = Conns /\ DOMAIN wreq' = Conns
      /\ wreq'[c] = got(n) /\ up'[c] = SubSeq(up[c], n + 1, Len(up[c]))
      /\ \A d \in Conns \ {c} : up'[d] = up[d] /\ wpc'[d] = wpc[d] /\ wreq'[d] = wreq[d]
      /\ wpc'[c] \in {"send", "lookup"}
  BY <1>1 DEF AnswerInv, SocketInv
<1>4. SocketInv'
  BY <1>2, <1>3, Zenon DEF AnswerInv, SocketInv
<1>5. ASSUME NEW k \in Clients, sock[k] = c, c \notin torn' PROVE InStep(k, c)'
  <2>1. InStep(k, c) /\ got(n).body # Garbled
    BY <1>1, <1>5, SessionAssumption DEF AnswerInv, Conns, None
  <2>2. up[c] # <<>>
    <3> SUFFICES ASSUME up[c] = <<>> PROVE FALSE
      OBVIOUS
    <3> QED BY <1>1
  <2>3. OneMessage(up[c], call[k].id) /\ down[c] = <<>> /\ k \in waiting
    BY <2>1, <2>2, Zenon DEF InStep
  <2>4. wreq'[c].id = call[k].id /\ up'[c] = <<>>
    <3>1. got(n).id = call[k].id /\ SubSeq(up[c], n + 1, Len(up[c])) = <<>>
      BY <2>1, <2>3, TakenWhole, ZenonT(60)
    <3> QED BY <1>3, <3>1, Zenon
  <2> HIDE DEF got
  <2> QED BY <1>2, <1>3, <2>3, <2>4 DEF InStep, Resting
<1> HIDE DEF got
<1> QED BY <1>2, <1>3, <1>4, <1>5, WorkerFrame

LEMMA ReplyStep ==
    ASSUME AnswerInv, NEW c \in Conns, SendResponse(c)
    PROVE  AnswerInv'
<1> DEFINE ps == Pieces(wreq[c].id, wout[c], ResponseSize(wreq[c].body))
<1>1. /\ wpc[c] = "send" /\ UNCHANGED <<sock, call, waiting, opened, torn>>
      /\ down' = down \/ down' = [down EXCEPT ![c] = @ \o ps]
  BY Zenon DEF SendResponse, client
<1>2. /\ DOMAIN up' = Conns /\ DOMAIN wpc' = Conns /\ DOMAIN wreq' = Conns
      /\ \A d \in Conns \ {c} : up'[d] = up[d] /\ wpc'[d] = wpc[d] /\ wreq'[d] = wreq[d]
      /\ up'[c] \in {<<>>, up[c]} /\ wpc'[c] \in {"none", "recv"}
  BY SMTT(30) DEF SendResponse, WorkerCloses, AnswerInv, SocketInv
<1>3. /\ DOMAIN down' = Conns /\ \A d \in Conns \ {c} : down'[d] = down[d]
      /\ down'[c] \in {down[c], down[c] \o ps}
  BY <1>1, Zenon DEF AnswerInv, SocketInv
<1>4. SocketInv'
  BY <1>1, <1>2, <1>3, ZenonT(40) DEF AnswerInv, SocketInv
<1>5. ASSUME NEW k \in Clients, sock[k] = c, c \notin torn' PROVE InStep(k, c)'
  <2>1. InStep(k, c) /\ ~Resting(c)
    BY <1>1, <1>5, SessionAssumption DEF AnswerInv, Conns, None, Resting
  <2>2. up[c] = <<>> /\ down[c] = <<>> /\ wreq[c].id = call[k].id /\ k \in waiting
    BY <2>1, Zenon DEF InStep
  <2>3. <<>> \o ps = ps /\ OneMessage(ps, call[k].id)
    <3>1. ResponseSize(wreq[c].body) \in Nat \ {0}
      BY SessionAssumption DEF ResponseSize
    <3> QED BY <2>2, <3>1, PiecesFacts
  <2> HIDE DEF ps
  <2>4. down'[c] = <<>> \/ OneMessage(down'[c], call[k].id)
    BY <1>3, <2>2, <2>3
  <2> QED BY <1>1, <1>2, <2>2, <2>4 DEF InStep, Resting, OneMessage
<1> HIDE DEF ps
<1> QED BY <1>1, <1>2, <1>3, <1>4, <1>5, WorkerFrame, Zenon

(* What remains of a step that only moves the worker on.                    *)
LEMMA ServeStep ==
    ASSUME AnswerInv, NEW c \in Conns, GetCachedResponse(c) \/ ProcessRequest(c) \/ CacheResponse(c)
    PROVE  AnswerInv'
<1>1. UNCHANGED <<sock, call, waiting, opened, up, down, wreq, torn>>
  BY Zenon DEF GetCachedResponse, ProcessRequest, CacheResponse, client, wire
<1>2. /\ ~Resting(c) /\ wpc'[c] \notin {"none", "recv"} /\ DOMAIN wpc' = Conns
      /\ \A d \in Conns \ {c} : wpc'[d] = wpc[d]
  BY DEF GetCachedResponse, ProcessRequest, CacheResponse, AnswerInv, SocketInv, Resting
<1>3. \A d \in Conns : d > opened => wpc'[d] = "none"
  BY <1>2, Zenon DEF AnswerInv, SocketInv, Resting
<1>4. SocketInv'
  BY <1>1, <1>2, <1>3, Zenon DEF AnswerInv, SocketInv
<1>5. ASSUME NEW k \in Clients, sock[k] = c, c \notin torn' PROVE InStep(k, c)'
  <2>1. InStep(k, c)
    BY <1>1, <1>5, SessionAssumption DEF AnswerInv, Conns, None
  <2> QED BY <1>1, <1>2, <2>1, Zenon DEF InStep, Resting
<1> QED BY <1>1, <1>2, <1>4, <1>5, WorkerFrame, Zenon

(* A worker that hangs up, or a crash, only takes messages away.            *)
LEMMA HangupStep ==
    ASSUME AnswerInv, NEW cs \in SUBSET Conns, WorkerCloses(cs),
           UNCHANGED <<sock, call, waiting, opened, down, torn>>
    PROVE  AnswerInv'
<1>1. /\ DOMAIN up' = Conns /\ DOMAIN wpc' = Conns /\ DOMAIN wreq' = Conns
      /\ \A d \in Conns : \/ up'[d] = <<>> /\ wpc'[d] = "none"
                          \/ up'[d] = up[d] /\ wpc'[d] = wpc[d] /\ wreq'[d] = wreq[d]
  BY Zenon DEF WorkerCloses, AnswerInv, SocketInv
<1>2. SocketInv'
  BY <1>1, ZenonT(40) DEF AnswerInv, SocketInv
<1>3. ASSUME NEW k \in Clients, NEW c \in Conns, InStep(k, c) PROVE InStep(k, c)'
  BY <1>1, <1>3, Zenon DEF InStep, Resting, OneMessage
<1>4. \A k \in Clients : sock[k] # None => sock[k] \in Conns
  BY DEF AnswerInv, SocketInv
<1> QED BY <1>2, <1>3, <1>4, Zenon DEF AnswerInv

(* Client and worker of a connection are in step.                           *)
THEOREM AnswerInvariant == Spec => []AnswerInv
<1>1. Init => AnswerInv
  BY DEF Init, AnswerInv, SocketInv, None, NoCall
<1>2. ASSUME AnswerInv, [Next]_vars PROVE AnswerInv'
  <2>1. ASSUME UNCHANGED <<sock, call, waiting, opened, up, down, wpc, wreq, torn>> PROVE AnswerInv'
    BY <1>2, <2>1, Zenon DEF AnswerInv, SocketInv, InStep, Resting, OneMessage
  <2>2. ASSUME NEW k \in Clients, ClientSends(k) PROVE AnswerInv'
    <3>1. ASSUME NEW r \in Requests, ConnectFails(k, r) PROVE AnswerInv'
      <4>1. /\ sock[k] = None /\ UNCHANGED <<sock, waiting, opened, up, down, wpc, wreq, torn>>
            /\ DOMAIN call' = Clients /\ \A j \in Clients \ {k} : call'[j] = call[j]
        BY <1>2, <3>1 DEF ConnectFails, NextCall, AnswerInv, SocketInv, wire, worker
      <4>2. SocketInv'
        BY <1>2, <4>1, Zenon DEF AnswerInv, SocketInv
      <4> QED BY <1>2, <4>1, <4>2, ClientFrame, Zenon
    <3>2. ASSUME NEW r \in Requests, SendFails(k, r) PROVE AnswerInv'
      <4>1. /\ sock[k] # None /\ ClientCloses(k) /\ k \notin waiting
            /\ UNCHANGED <<waiting, opened, up, wpc, wreq, torn>>
            /\ DOMAIN call' = Clients /\ \A j \in Clients \ {k} : call'[j] = call[j]
        BY <1>2, <3>2 DEF SendFails, NextCall, AnswerInv, SocketInv, worker
      <4> QED BY <1>2, <4>1, CloseStep, Zenon
    <3> QED BY <1>2, <2>2, <3>1, <3>2, SendStep, Zenon DEF ClientSends
  <2>3. ASSUME NEW k \in Clients, ClientConnects(k) PROVE AnswerInv'
    <3>1. CASE DisconnectServer(k)
      <4>1. /\ sock[k] # None /\ ClientCloses(k) /\ k \notin waiting
            /\ UNCHANGED <<call, waiting, opened, up, wpc, wreq, torn>>
        BY <3>1 DEF DisconnectServer, worker
      <4>2. DOMAIN call' = Clients
        BY <1>2, <4>1 DEF AnswerInv, SocketInv
      <4> QED BY <1>2, <4>1, <4>2, CloseStep
    <3> QED BY <1>2, <2>3, <3>1, ConnectStep DEF ClientConnects
  <2>4. ASSUME NEW k \in Clients, ReceiveFails(k) PROVE AnswerInv'
    <3>1. /\ sock[k] # None /\ ClientCloses(k) /\ waiting' = waiting \ {k}
          /\ UNCHANGED <<call, opened, up, wpc, wreq, torn>> /\ DOMAIN call' = Clients
      BY <1>2, <2>4 DEF ReceiveFails, worker, AnswerInv, SocketInv
    <3> QED BY <1>2, <3>1, CloseStep, Zenon
  <2>5. ASSUME NEW c \in Conns, WorkerStep(c) PROVE AnswerInv'
    <3>1. CASE WorkerHangup(c)
      BY <1>2, <3>1, HangupStep DEF WorkerHangup, client
    <3> QED BY <1>2, <2>5, <3>1, TakeStep, ServeStep, ReplyStep DEF WorkerStep
  <2>6. CASE Crash
    BY <1>2, <2>6, HangupStep DEF Crash, client
  <2>7. CASE Tick \/ UNCHANGED vars
    BY <2>1, <2>7 DEF Tick, vars, client, wire, worker
  <2> QED BY <1>2, <2>2, <2>3, <2>4, <2>5, <2>6, <2>7, ReceiveStep, Zenon DEF Next
<1> QED BY <1>1, <1>2, PTL DEF Spec

(* Nobody gets the response to an earlier call, on whatever connection,     *)
(* unless a reader has got a part of a message on it.                       *)
THEOREM AnswersAreOwn == Spec => []OwnAnswer
<1>1. ASSUME AnswerInv PROVE OwnAnswer
  <2> SUFFICES ASSUME NEW k \in Clients, sock[k] # None, sock[k] \notin torn,
                      NEW i \in DOMAIN down[sock[k]]
               PROVE  k \in waiting /\ down[sock[k]][i].id = call[k].id
    BY DEF OwnAnswer
  <2>1. InStep(k, sock[k]) /\ down[sock[k]] # <<>>
    BY <1>1 DEF AnswerInv
  <2>2. k \in waiting /\ OneMessage(down[sock[k]], call[k].id)
    BY <2>1, Zenon DEF InStep
  <2> QED BY <2>2 DEF OneMessage, Pieces
<1> QED BY <1>1, AnswerInvariant, PTL
-----------------------------------------------------------------------------
(* Streams and sequences.                                                   *)
LEMMA SeqIsStream ==
    ASSUME NEW S, NEW s \in Seq(S)
    PROVE  IsStream(s)
BY DEF IsStream

LEMMA StreamIsSeq ==
    ASSUME NEW s, IsStream(s)
    PROVE  \E S : s \in Seq(S)
<1> DEFINE S == {s[i] : i \in 1..Len(s)}
<1>1. Len(s) \in Nat /\ s = [i \in 1..Len(s) |-> s[i]]
  BY Zenon DEF IsStream
<1>2. s \in Seq(S)
  <2>1. PICK n \in Nat : n = Len(s)
    BY <1>1, Zenon
  <2>2. s \in [1..n -> S]
    BY <1>1, <2>1, Zenon
  <2> HIDE DEF S
  <2> QED BY <2>2
<1> QED BY <1>2, Zenon

LEMMA StreamGrows ==
    ASSUME NEW s, IsStream(s), NEW id, NEW body, NEW n \in Nat \ {0}
    PROVE  IsStream(s \o Pieces(id, body, n)) /\ s \o Pieces(id, body, n) # <<>>
<1> DEFINE ps == Pieces(id, body, n)
<1>1. PICK S : s \in Seq(S)
  BY StreamIsSeq, Zenon
<1>2. ps = [i \in 1..n |-> [id |-> id, body |-> body, part |-> i, of |-> n]]
  BY Zenon DEF Pieces
<1>3. ps \in Seq([id : {id}, body : {body}, part : Nat, of : {n}])
  BY <1>2
<1>4. Len(ps) = n
  BY <1>2
<1>5. PICK T : ps \in Seq(T)
  BY <1>3, Zenon
<1> HIDE DEF ps
<1>6. s \in Seq(S \cup T) /\ ps \in Seq(S \cup T)
  BY <1>1, <1>5
<1>7. s \o ps \in Seq(S \cup T) /\ s \o ps # <<>>
  BY <1>4, <1>6
<1> QED BY <1>7, SeqIsStream, Zenon DEF ps

LEMMA StreamShrinks ==
    ASSUME NEW s, IsStream(s), NEW n \in 1..Len(s)
    PROVE  IsStream(SubSeq(s, n + 1, Len(s)))
<1>1. PICK S : s \in Seq(S)
  BY StreamIsSeq, Zenon
<1>2. SubSeq(s, n + 1, Len(s)) \in Seq(S)
  BY <1>1
<1> QED BY <1>2, SeqIsStream, Zenon

LEMMA EmptyStream == IsStream(<<>>)
BY DEF IsStream

(* A client that waits has a connection.                                    *)
LEMMA WaitingConn ==
    ASSUME AnswerInv, NEW k \in Clients, k \in waiting
    PROVE  sock[k] \in Conns
<1>1. sock[k] \in Conns \cup {None}
  BY Zenon DEF AnswerInv, SocketInv
<1>2. sock[k] # None
  BY Zenon DEF AnswerInv, SocketInv
<1> QED BY <1>1, <1>2, Zenon

(* A step that touches one connection.                                      *)
LEMMA WayFrame ==
    ASSUME AnswerInv, WayInv, NEW c \in Conns, waiting' \subseteq Clients,
           \A k \in Clients : sock'[k] # None => sock'[k] \in clientEnd',
           \A d \in Conns : d # c => /\ up'[d] = up[d] /\ down'[d] = down[d] /\ wpc'[d] = wpc[d]
                                     /\ d \in serverEnd' => d \in serverEnd,
           IsStream(up'[c]), IsStream(down'[c]), c \in serverEnd' => wpc'[c] # "none",
           \A j \in waiting' : sock'[j] # c => j \in waiting /\ sock'[j] = sock[j],
           \A j \in waiting' : sock'[j] = c /\ c \in serverEnd' => UnderWay(c)'
    PROVE  WayInv'
<1>1. \A d \in Conns : IsStream(up'[d]) /\ IsStream(down'[d])
  BY Zenon DEF WayInv
<1>2. ASSUME NEW j \in waiting', sock'[j] \in serverEnd' PROVE UnderWay(sock[j])'
  <2>1. CASE sock'[j] = c
    <3>1. UnderWay(c)'
      BY <1>2, <2>1, Zenon
    <3> QED BY <2>1, <3>1, Zenon DEF UnderWay, Resting
  <2>2. CASE sock'[j] # c
    <3>1. j \in waiting /\ j \in Clients /\ sock'[j] = sock[j]
      BY <2>2, Zenon DEF WayInv
    <3>2. sock[j] \in Conns
      BY <3>1, WaitingConn, Zenon
    <3>3. /\ up'[sock[j]] = up[sock[j]] /\ down'[sock[j]] = down[sock[j]]
          /\ wpc'[sock[j]] = wpc[sock[j]] /\ sock[j] \in serverEnd
      <4>1. PICK d \in Conns : d = sock[j]
        BY <3>2, Zenon
      <4>2. d # c /\ d \in serverEnd'
        BY <1>2, <2>2, <3>1, <4>1, Zenon
      <4>3. /\ up'[d] = up[d] /\ down'[d] = down[d] /\ wpc'[d] = wpc[d]
            /\ d \in serverEnd' => d \in serverEnd
        BY <4>2, Zenon
      <4> QED BY <4>1, <4>2, <4>3, Zenon
    <3>4. UnderWay(sock[j])
      BY <3>1, <3>3, Zenon DEF WayInv, CallUnderWay
    <3> QED BY <3>1, <3>3, <3>4, Zenon DEF UnderWay, Resting
  <2> QED BY <2>1, <2>2, Zenon
<1>3. CallUnderWay'
  BY <1>2, Zenon DEF CallUnderWay
<1>4. ASSUME NEW d \in Conns, d \in serverEnd' PROVE wpc'[d] # "none"
  <2>1. CASE d = c
    BY <1>4, <2>1, Zenon
  <2>2. CASE d # c
    <3>1. wpc'[d] = wpc[d] /\ d \in serverEnd
      BY <1>4, <2>2, Zenon
    <3> QED BY <3>1, Zenon DEF WayInv
  <2> QED BY <2>1, <2>2, Zenon
<1> QED BY <1>1, <1>3, <1>4, Zenon DEF WayInv

LEMMA WayRests ==
    ASSUME WayInv, UNCHANGED <<waiting, sock, up, down, wpc, clientEnd, serverEnd>>
    PROVE  WayInv'
BY Zenon DEF WayInv, CallUnderWay, UnderWay, Resting

(* The other clients have other connections.                                *)
LEMMA OtherSocks ==
    ASSUME AnswerInv, NEW k \in Clients, NEW j \in Clients, j # k, sock[k] # None
    PROVE  sock[j] # sock[k] /\ sock[k] \in Conns
BY Zenon DEF AnswerInv, SocketInv

(* The client closes its end, and does not wait any more.                   *)
LEMMA CloseWay ==
    ASSUME AnswerInv, WayInv, NEW k \in Clients, sock[k] # None, ClientCloses(k),
           k \notin waiting', waiting' \subseteq waiting, UNCHANGED <<up, serverEnd, wpc>>
    PROVE  WayInv'
<1>1. PICK c \in Conns : c = sock[k]
  BY Zenon DEF AnswerInv, SocketInv
<1>2. /\ sock'[k] = None /\ \A j \in Clients : j # k => sock'[j] = sock[j]
      /\ clientEnd' = clientEnd \ {c}
      /\ down'[c] = <<>> /\ \A d \in Conns : d # c => down'[d] = down[d]
  BY <1>1, Zenon DEF ClientCloses, AnswerInv, SocketInv
<1>3. waiting' \subseteq Clients
  BY Zenon DEF WayInv
<1>4. \A j \in Clients : j # k => sock'[j] # c
  BY <1>1, <1>2, OtherSocks, Zenon
<1>5. ASSUME NEW j \in Clients, sock'[j] # None PROVE sock'[j] \in clientEnd'
  <2>1. j # k
    BY <1>2, <1>5, Zenon
  <2> QED BY <1>2, <1>4, <1>5, <2>1, Zenon DEF WayInv
<1>6. IsStream(up'[c]) /\ IsStream(down'[c]) /\ (c \in serverEnd' => wpc'[c] # "none")
  BY <1>2, EmptyStream, Zenon DEF WayInv
<1>7. \A j \in waiting' : j \in Clients /\ j # k /\ j \in waiting /\ sock'[j] = sock[j] /\ sock'[j] # c
  BY <1>2, <1>3, <1>4, Zenon
<1> QED BY <1>2, <1>3, <1>5, <1>6, <1>7, WayFrame, Zenon

LEMMA ReceiveWay ==
    ASSUME AnswerInv, WayInv, NEW k \in Clients, Receive(k)
    PROVE  WayInv'
<1>1. k \in waiting /\ waiting' = waiting \ {k} /\ sock[k] # None /\ UNCHANGED <<up, serverEnd, wpc>>
  BY Zenon DEF Receive, worker, AnswerInv, SocketInv
<1>2. CASE call[k].body.action = "exit"
  <2>1. ClientCloses(k)
    BY <1>2, Zenon DEF Receive
  <2> QED BY <1>1, <2>1, CloseWay, Zenon
<1>3. CASE call[k].body.action # "exit"
  <2>1. PICK c \in Conns : c = sock[k]
    BY <1>1, Zenon DEF AnswerInv, SocketInv
  <2>2. PICK n \in 1..Len(down[c]) : down' = [down EXCEPT ![c] = SubSeq(@, n + 1, Len(@))]
    BY <1>3, <2>1, Zenon DEF Receive
  <2>3. UNCHANGED <<sock, clientEnd>>
    BY <1>3, Zenon DEF Receive
  <2>4. /\ down'[c] = SubSeq(down[c], n + 1, Len(down[c]))
        /\ \A d \in Conns : d # c => down'[d] = down[d]
    BY <2>2, Zenon DEF AnswerInv, SocketInv
  <2>5. IsStream(up'[c]) /\ IsStream(down'[c]) /\ (c \in serverEnd' => wpc'[c] # "none")
    BY <1>1, <2>4, StreamShrinks, Zenon DEF WayInv
  <2>6. waiting' \subseteq Clients /\ \A j \in Clients : sock'[j] # None => sock'[j] \in clientEnd'
    BY <1>1, <2>3, Zenon DEF WayInv
  <2>7. \A j \in waiting' : j \in waiting /\ sock'[j] = sock[j] /\ sock'[j] # c
    BY <1>1, <2>1, <2>3, <2>6, OtherSocks, Zenon
  <2> QED BY <1>1, <2>4, <2>5, <2>6, <2>7, WayFrame, Zenon
<1> QED BY <1>2, <1>3, Zenon

(* A connection that is new to everybody.                                   *)
LEMMA NewSock ==
    ASSUME AnswerInv, NEW k \in Clients
    PROVE  sock[k] # opened + 1
BY DEF AnswerInv, SocketInv, None, Conns

LEMMA ConnectWay ==
    ASSUME AnswerInv, WayInv, NEW k \in Clients, ConnectServer(k)
    PROVE  WayInv'
<1>1. PICK c \in Conns : c = opened + 1
  BY Zenon DEF ConnectServer
<1>2. /\ k \notin waiting /\ sock' = [sock EXCEPT ![k] = c]
      /\ clientEnd' = clientEnd \cup {c} /\ serverEnd' = serverEnd \cup {c}
      /\ wpc' = [wpc EXCEPT ![c] = "recv"] /\ UNCHANGED <<waiting, up, down>>
  BY <1>1, Zenon DEF ConnectServer
<1>3. sock'[k] = c /\ \A j \in Clients : j # k => sock'[j] = sock[j] /\ sock[j] # c
  BY <1>1, <1>2, NewSock, Zenon DEF AnswerInv, SocketInv
<1>4. \A d \in Conns : d # c => wpc'[d] = wpc[d] /\ (d \in serverEnd' => d \in serverEnd)
  BY <1>2, Zenon DEF AnswerInv, SocketInv
<1>5. wpc'[c] # "none"
  <2>1. wpc'[c] = "recv"
    BY <1>2, Zenon DEF AnswerInv, SocketInv
  <2> QED BY <2>1
<1>6. waiting' \subseteq Clients /\ IsStream(up'[c]) /\ IsStream(down'[c])
  BY <1>2, Zenon DEF WayInv
<1>7. ASSUME NEW j \in Clients, sock'[j] # None PROVE sock'[j] \in clientEnd'
  <2>1. c \in clientEnd' /\ \A d \in clientEnd : d \in clientEnd'
    BY <1>2
  <2>2. CASE j = k
    <3>1. sock'[j] = c
      BY <1>3, <2>2, Zenon
    <3> QED BY <2>1, <3>1
  <2>3. CASE j # k
    <3>1. sock'[j] = sock[j]
      BY <1>3, <2>3, Zenon
    <3>2. sock[j] \in clientEnd
      BY <1>7, <3>1, Zenon DEF WayInv
    <3> QED BY <2>1, <3>1, <3>2
  <2> QED BY <2>2, <2>3, Zenon
<1>8. \A j \in waiting' : j \in waiting /\ sock'[j] = sock[j] /\ sock'[j] # c
  BY <1>2, <1>3, <1>6, Zenon
<1> QED BY <1>2, <1>4, <1>6, <1>7, <1>8, <1>5, WayFrame, Zenon

(* Sending puts the request on the connection, unless the server is gone.   *)
LEMMA SendWay ==
    ASSUME SessionAssumption, AnswerInv, WayInv,
           NEW k \in Clients, NEW r \in Requests, SendRequest(k, r)
    PROVE  WayInv'
<1>1. PICK c \in Conns : c = IF sock[k] = None THEN opened + 1 ELSE sock[k]
  BY Zenon DEF SendRequest
<1>2. /\ sock' = [sock EXCEPT ![k] = c] /\ clientEnd' = clientEnd \cup {c}
      /\ serverEnd' = (IF sock[k] = None THEN serverEnd \cup {c} ELSE serverEnd)
      /\ wpc' = (IF sock[k] = None THEN [wpc EXCEPT ![c] = "recv"] ELSE wpc)
      /\ up' = (IF c \in serverEnd' THEN [up EXCEPT ![c] = @ \o Pieces(calls + 1, r, Size[r])] ELSE up)
      /\ waiting' = waiting \cup {k} /\ down' = down
  BY <1>1, Zenon DEF SendRequest
<1>3. \A j \in Clients : j # k => sock[j] # c
  BY <1>1, NewSock, OtherSocks, Zenon
<1>4. sock'[k] = c /\ \A j \in Clients : j # k => sock'[j] = sock[j] /\ sock'[j] # c
  BY <1>2, <1>3, Zenon DEF AnswerInv, SocketInv
<1>5. \A d \in Conns : d # c => /\ up'[d] = up[d] /\ down'[d] = down[d] /\ wpc'[d] = wpc[d]
                                /\ d \in serverEnd' => d \in serverEnd
  <2>1. \A d \in Conns : d # c => up'[d] = up[d]
    BY <1>2, Zenon DEF AnswerInv, SocketInv
  <2>2. \A d \in Conns : d # c => wpc'[d] = wpc[d]
    BY <1>2, Zenon DEF AnswerInv, SocketInv
  <2>3. \A d \in Conns : d # c => (d \in serverEnd' => d \in serverEnd)
    BY <1>2, Zenon
  <2> QED BY <1>2, <2>1, <2>2, <2>3, Zenon
<1>6. IsStream(up[c]) /\ IsStream(down'[c]) /\ waiting' \subseteq Clients
  BY <1>2, Zenon DEF WayInv
<1>7. c \in serverEnd' => wpc'[c] # "none"
  <2>1. CASE sock[k] = None
    <3>1. wpc'[c] = "recv"
      BY <1>2, <2>1, Zenon DEF AnswerInv, SocketInv
    <3> QED BY <3>1
  <2>2. CASE sock[k] # None
    BY <1>2, <2>2, Zenon DEF WayInv
  <2> QED BY <2>1, <2>2, Zenon
<1>8. IsStream(up'[c]) /\ (c \in serverEnd' => UnderWay(c)')
  <2>1. CASE c \in serverEnd'
    <3>1. up'[c] = up[c] \o Pieces(calls + 1, r, Size[r])
      BY <1>2, <2>1, Zenon DEF AnswerInv, SocketInv
    <3>2. Size[r] \in Nat \ {0}
      BY Zenon DEF SessionAssumption
    <3>3. IsStream(up'[c]) /\ up'[c] # <<>>
      BY <1>6, <3>1, <3>2, StreamGrows, Zenon
    <3> QED BY <1>7, <2>1, <3>3, Zenon DEF UnderWay
  <2>2. CASE c \notin serverEnd'
    BY <1>2, <1>6, <2>2, Zenon
  <2> QED BY <2>1, <2>2, Zenon
<1>9. ASSUME NEW j \in Clients, sock'[j] # None PROVE sock'[j] \in clientEnd'
  <2>1. c \in clientEnd' /\ \A d \in clientEnd : d \in clientEnd'
    BY <1>2
  <2>2. CASE j = k
    <3>1. sock'[j] = c
      BY <1>4, <2>2, Zenon
    <3> QED BY <2>1, <3>1
  <2>3. CASE j # k
    <3>1. sock'[j] = sock[j]
      BY <1>4, <2>3, Zenon
    <3>2. sock[j] \in clientEnd
      BY <1>9, <3>1, Zenon DEF WayInv
    <3> QED BY <2>1, <3>1, <3>2
  <2> QED BY <2>2, <2>3, Zenon
<1>10. \A j \in waiting' : sock'[j] # c => j \in waiting /\ sock'[j] = sock[j]
  BY <1>2, <1>4, <1>6, Zenon
<1> QED BY <1>5, <1>6, <1>8, <1>9, <1>10, <1>7, WayFrame, Zenon

(* The worker works on what it has received.                                *)
LEMMA ServeWay ==
    ASSUME AnswerInv, WayInv, NEW c \in Conns, IsStream(up'[c]), wpc'[c] \notin {"none", "recv"},
           \A d \in Conns : d # c => up'[d] = up[d] /\ wpc'[d] = wpc[d],
           UNCHANGED <<sock, waiting, down, clientEnd, serverEnd>>
    PROVE  WayInv'
<1>1. UnderWay(c)'
  BY Zenon DEF UnderWay, Resting
<1>2. /\ waiting' \subseteq Clients /\ IsStream(down'[c])
      /\ \A j \in Clients : sock'[j] # None => sock'[j] \in clientEnd'
  BY Zenon DEF WayInv
<1> QED BY <1>1, <1>2, WayFrame, Zenon

LEMMA TakeWay ==
    ASSUME AnswerInv, WayInv, NEW c \in Conns, WorkerReceive(c)
    PROVE  WayInv'
<1>1. PICK n \in 1..Len(up[c]) :
        /\ up' = [up EXCEPT ![c] = SubSeq(@, n + 1, Len(@))]
        /\ wpc' = [wpc EXCEPT ![c] = "send"] \/ wpc' = [wpc EXCEPT ![c] = "lookup"]
  BY Zenon DEF WorkerReceive
<1>2. up'[c] = SubSeq(up[c], n + 1, Len(up[c])) /\ \A d \in Conns : d # c => up'[d] = up[d]
  BY <1>1, Zenon DEF AnswerInv, SocketInv
<1>3. wpc'[c] \in {"send", "lookup"} /\ \A d \in Conns : d # c => wpc'[d] = wpc[d]
  BY <1>1, Zenon DEF AnswerInv, SocketInv
<1>4. wpc'[c] \notin {"none", "recv"}
  BY <1>3
<1>5. IsStream(up'[c])
  BY <1>2, StreamShrinks, Zenon DEF WayInv
<1>6. UNCHANGED <<sock, waiting, down, clientEnd, serverEnd>>
  BY Zenon DEF WorkerReceive, client
<1> QED BY <1>2, <1>3, <1>4, <1>5, <1>6, ServeWay, Zenon

LEMMA WorkWay ==
    ASSUME AnswerInv, WayInv, NEW c \in Conns,
           GetCachedResponse(c) \/ ProcessRequest(c) \/ CacheResponse(c)
    PROVE  WayInv'
<1>1. UNCHANGED <<sock, waiting, up, down, clientEnd, serverEnd>>
  BY Zenon DEF GetCachedResponse, ProcessRequest, CacheResponse, client, wire
<1>2. PICK s \in {"send", "dispatch", "store"} : wpc' = [wpc EXCEPT ![c] = s]
  BY Zenon DEF GetCachedResponse, ProcessRequest, CacheResponse
<1>3. wpc'[c] = s /\ \A d \in Conns : d # c => wpc'[d] = wpc[d]
  BY <1>2, Zenon DEF AnswerInv, SocketInv
<1>4. wpc'[c] \notin {"none", "recv"}
  BY <1>3
<1>5. IsStream(up'[c])
  BY <1>1, Zenon DEF WayInv
<1> QED BY <1>1, <1>3, <1>4, <1>5, ServeWay, Zenon

(* The worker answers. The client that waits has its end open, so that the  *)
(* answer reaches it.                                                       *)
LEMMA ReplyWay ==
    ASSUME SessionAssumption, AnswerInv, WayInv, NEW c \in Conns, SendResponse(c)
    PROVE  WayInv'
<1>1. UNCHANGED <<sock, waiting, clientEnd>>
  BY Zenon DEF SendResponse, client
<1>2. \A d \in Conns : d # c => down'[d] = down[d]
  BY Zenon DEF SendResponse, AnswerInv, SocketInv
<1>3. /\ up'[c] = <<>> \/ up'[c] = up[c]
      /\ \A d \in Conns : d # c => up'[d] = up[d] /\ wpc'[d] = wpc[d] /\ (d \in serverEnd' => d \in serverEnd)
  <2>1. CASE wreq[c].body.action = "exit"
    <3>1. WorkerCloses({c})
      BY <2>1, Zenon DEF SendResponse
    <3> QED BY <3>1, Zenon DEF WorkerCloses
  <2>2. CASE wreq[c].body.action # "exit"
    <3>1. wpc' = [wpc EXCEPT ![c] = "recv"] /\ serverEnd' = serverEnd /\ up' = up
      BY <2>2, Zenon DEF SendResponse
    <3> QED BY <3>1, Zenon DEF AnswerInv, SocketInv
  <2> QED BY <2>1, <2>2, Zenon
<1>4. IsStream(up'[c])
  BY <1>3, EmptyStream, Zenon DEF WayInv
<1>5. IsStream(down'[c]) /\ (c \in clientEnd => down'[c] # <<>>)
  <2>1. CASE c \in clientEnd
    <3>1. PICK n \in Nat \ {0} : n = ResponseSize(wreq[c].body)
      <4>1. CASE wreq[c].body \in Requests
        BY <4>1, Zenon DEF ResponseSize, SessionAssumption
      <4>2. CASE wreq[c].body \notin Requests
        <5>1. 1 \in Nat \ {0}
          OBVIOUS
        <5> QED BY <4>2, <5>1, Zenon DEF ResponseSize
      <4> QED BY <4>1, <4>2, Zenon
    <3>2. down'[c] = down[c] \o Pieces(wreq[c].id, wout[c], n)
      BY <2>1, <3>1, Zenon DEF SendResponse, AnswerInv, SocketInv
    <3>3. IsStream(down[c])
      BY Zenon DEF WayInv
    <3> QED BY <3>2, <3>3, StreamGrows, Zenon
  <2>2. CASE c \notin clientEnd
    <3>1. down'[c] = down[c]
      BY <2>2, Zenon DEF SendResponse
    <3> QED BY <2>2, <3>1, Zenon DEF WayInv
  <2> QED BY <2>1, <2>2, Zenon
<1>6. c \in serverEnd' => wpc'[c] # "none"
  <2>1. CASE wreq[c].body.action = "exit"
    <3>1. c \notin serverEnd'
      BY <2>1, Zenon DEF SendResponse, WorkerCloses
    <3> QED BY <3>1, Zenon
  <2>2. CASE wreq[c].body.action # "exit"
    <3>1. wpc'[c] = "recv"
      BY <2>2, Zenon DEF SendResponse, AnswerInv, SocketInv
    <3> QED BY <3>1
  <2> QED BY <2>1, <2>2, Zenon
<1>7. ASSUME NEW j \in waiting', sock'[j] = c, c \in serverEnd' PROVE UnderWay(c)'
  <2>1. j \in Clients /\ sock[j] = c /\ c # None
    <3>1. c # None
      BY DEF Conns, None
    <3> QED BY <1>1, <1>7, <3>1, Zenon DEF WayInv
  <2>2. c \in clientEnd
    BY <2>1, Zenon DEF WayInv
  <2> QED BY <1>5, <1>7, <1>6, <2>2, Zenon DEF UnderWay
<1>8. waiting' \subseteq Clients /\ \A j \in Clients : sock'[j] # None => sock'[j] \in clientEnd'
  BY <1>1, Zenon DEF WayInv
<1>9. \A j \in waiting' : j \in waiting /\ sock'[j] = sock[j]
  BY <1>1, Zenon
<1> QED BY <1>2, <1>3, <1>4, <1>5, <1>7, <1>8, <1>9, <1>6, WayFrame, Zenon

(* A connection that the server has closed ends the wait.                   *)
LEMMA ServerClosesWay ==
    ASSUME AnswerInv, WayInv, NEW cs, WorkerCloses(cs), UNCHANGED <<sock, waiting, down, clientEnd>>
    PROVE  WayInv'
<1>1. /\ serverEnd' = serverEnd \ cs
      /\ \A c \in Conns : up'[c] = (IF c \in cs THEN <<>> ELSE up[c])
      /\ \A c \in Conns : wpc'[c] = (IF c \in cs THEN "none" ELSE wpc[c])
  BY Zenon DEF WorkerCloses
<1>2. ASSUME NEW c \in Conns PROVE IsStream(up'[c]) /\ IsStream(down'[c])
  BY <1>1, EmptyStream, Zenon DEF WayInv
<1>3. ASSUME NEW j \in waiting', sock'[j] \in serverEnd' PROVE UnderWay(sock[j])'
  <2>1. j \in waiting /\ j \in Clients /\ sock'[j] = sock[j] /\ sock[j] \in serverEnd /\ sock[j] \notin cs
    BY <1>1, <1>3, Zenon DEF WayInv
  <2>2. sock[j] \in Conns
    BY <2>1, WaitingConn, Zenon
  <2>3. up'[sock[j]] = up[sock[j]] /\ wpc'[sock[j]] = wpc[sock[j]]
    BY <1>1, <2>1, <2>2, Zenon
  <2>4. UnderWay(sock[j])
    BY <2>1, Zenon DEF WayInv, CallUnderWay
  <2> QED BY <2>1, <2>3, <2>4, Zenon DEF UnderWay, Resting
<1>4. CallUnderWay'
  BY <1>3, Zenon DEF CallUnderWay
<1>5. waiting' \subseteq Clients /\ \A k \in Clients : sock'[k] # None => sock'[k] \in clientEnd'
  BY Zenon DEF WayInv
<1>6. ASSUME NEW c \in Conns, c \in serverEnd' PROVE wpc'[c] # "none"
  <2>1. c \in serverEnd /\ c \notin cs
    BY <1>1, <1>6, Zenon
  <2>2. wpc'[c] = wpc[c]
    BY <1>1, <2>1, Zenon
  <2> QED BY <2>1, <2>2, Zenon DEF WayInv
<1> QED BY <1>2, <1>4, <1>5, <1>6, Zenon DEF WayInv

(* No client waits for nothing: while the server has the connection of a    *)
(* waiting client open, the connection has a worker, and the request, the   *)
(* work on it or the response is under way, also on connections where       *)
(* messages were read in parts.                                             *)
THEOREM CallsAlwaysUnderWay == Spec => []CallUnderWay
<1>1. Init => WayInv
  <2>1. ASSUME Init PROVE WayInv
    <3>1. waiting = {} /\ \A k \in Clients : sock[k] = None
      BY <2>1, Zenon DEF Init
    <3>2. \A c \in Conns : up[c] = <<>> /\ down[c] = <<>>
      BY <2>1, Zenon DEF Init
    <3>3. serverEnd = {}
      BY <2>1, Zenon DEF Init
    <3> QED BY <3>1, <3>2, <3>3, EmptyStream, Zenon DEF WayInv, CallUnderWay
  <2> QED BY <2>1, Zenon
<1>2. ASSUME AnswerInv, WayInv, [Next]_vars PROVE WayInv'
  <2>1. ASSUME NEW k \in Clients, ClientSends(k) PROVE WayInv'
    <3>1. ASSUME NEW r \in Requests, ConnectFails(k, r) PROVE WayInv'
      <4>1. UNCHANGED <<waiting, sock, up, down, wpc, clientEnd, serverEnd>>
        BY <3>1, Zenon DEF ConnectFails, wire, worker
      <4> QED BY <1>2, <4>1, WayRests, Zenon
    <3>2. ASSUME NEW r \in Requests, SendFails(k, r) PROVE WayInv'
      <4>1. /\ sock[k] # None /\ ClientCloses(k) /\ k \notin waiting /\ waiting' = waiting
            /\ UNCHANGED <<up, serverEnd, wpc>>
        BY <3>2, Zenon DEF SendFails, NextCall, worker
      <4>2. k \notin waiting' /\ waiting' \subseteq waiting
        BY <4>1, Zenon
      <4> QED BY <1>2, <4>1, <4>2, CloseWay, Zenon
    <3> QED BY <1>2, <2>1, <3>1, <3>2, SendWay, SessionAssumption, Zenon DEF ClientSends
  <2>2. ASSUME NEW k \in Clients, ClientConnects(k) PROVE WayInv'
    <3>1. CASE DisconnectServer(k)
      <4>1. /\ sock[k] # None /\ ClientCloses(k) /\ k \notin waiting /\ waiting' = waiting
            /\ UNCHANGED <<up, serverEnd, wpc>>
        BY <3>1, Zenon DEF DisconnectServer, worker
      <4>2. k \notin waiting' /\ waiting' \subseteq waiting
        BY <4>1, Zenon
      <4> QED BY <1>2, <4>1, <4>2, CloseWay, Zenon
    <3> QED BY <1>2, <2>2, <3>1, ConnectWay, Zenon DEF ClientConnects
  <2>3. ASSUME NEW k \in Clients, ReceiveFails(k) PROVE WayInv'
    <3>1. /\ k \in waiting /\ waiting' = waiting \ {k} /\ ClientCloses(k)
          /\ UNCHANGED <<up, serverEnd, wpc>>
      BY <2>3, Zenon DEF ReceiveFails, worker
    <3>2. sock[k] # None
      BY <1>2, <3>1, Zenon DEF AnswerInv, SocketInv
    <3>3. k \notin waiting' /\ waiting' \subseteq waiting
      BY <3>1, Zenon
    <3> QED BY <1>2, <3>1, <3>2, <3>3, CloseWay, Zenon
  <2>4. ASSUME NEW c \in Conns, WorkerStep(c) PROVE WayInv'
    <3>1. CASE WorkerHangup(c)
      <4>1. WorkerCloses({c}) /\ UNCHANGED <<sock, waiting, down, clientEnd>>
        BY <3>1, Zenon DEF WorkerHangup, client
      <4> QED BY <1>2, <4>1, ServerClosesWay, Zenon
    <3>2. CASE SendResponse(c)
      BY <1>2, <3>2, ReplyWay, SessionAssumption, Zenon
    <3> QED BY <1>2, <2>4, <3>1, <3>2, TakeWay, WorkWay, Zenon DEF WorkerStep
  <2>5. CASE Crash
    <3>1. WorkerCloses(Conns) /\ UNCHANGED <<sock, waiting, down, clientEnd>>
      BY <2>5, Zenon DEF Crash, client
    <3> QED BY <1>2, <3>1, ServerClosesWay, Zenon
  <2>6. CASE Tick \/ UNCHANGED vars
    <3>1. UNCHANGED <<waiting, sock, up, down, wpc, clientEnd, serverEnd>>
      BY <2>6, Zenon DEF Tick, vars, client, wire, worker
    <3> QED BY <1>2, <3>1, WayRests, Zenon
  <2> QED BY <1>2, <2>1, <2>2, <2>3, <2>4, <2>5, <2>6, ReceiveWay, Zenon DEF Next
<1>3. WayInv => CallUnderWay
  BY Zenon DEF WayInv
<1> QED BY <1>1, <1>2, <1>3, AnswerInvariant, PTL DEF Spec

-----------------------------------------------------------------------------
(* The settings of a program that starts.                                   *)
(* A line more: it is the last of its kind.                                 *)
LEMMA LinesGrow ==
    ASSUME NEW n \in Nat
    PROVE  /\ PathLines(n) \subseteq 1..n /\ PortLines(n) \subseteq 1..n
           /\ PathLines(n + 1) = IF file[n + 1].db # "none" THEN PathLines(n) \cup {n + 1} ELSE PathLines(n)
           /\ PortLines(n + 1) = IF file[n + 1].db = "none" /\ file[n + 1].port.kind \in {"number", "word"}
                                 THEN PortLines(n) \cup {n + 1} ELSE PortLines(n)
<1>1. 1..(n + 1) = (1..n) \cup {n + 1}
  OBVIOUS
<1> QED BY <1>1, Zenon DEF PathLines, PortLines

LEMMA LastLine ==
    ASSUME NEW n \in Nat, NEW S, S \subseteq 1..n
    PROVE  IsLast(n + 1, S \cup {n + 1}) /\ n + 1 \in S \cup {n + 1}
BY DEF IsLast

LEMMA ArgumentFacts ==
    ASSUME arg \in DaemonArguments \cup ShellArguments
    PROVE  /\ arg.port.kind = "none" => arg.port = NoPort
           /\ arg.mode # "positional" => arg.path = DefaultPath
           /\ arg.mode = "--config" => arg.port = NoPort
           /\ ~ValidPort(NoPort)
  BY DEF DaemonArguments, ShellArguments, PortTexts, NoPort, ValidPort

(* A line of the configuration file is parsed.                              *)
LEMMA ConfigLineStep == StartupInv /\ ConfigLine => StartupInv'
<1> SUFFICES ASSUME StartupInv, ConfigLine PROVE StartupInv'
  OBVIOUS
<1> DEFINE l == file[at + 1]
<1>1. /\ boot = "config" /\ at < Len(file) /\ at' = at + 1 /\ UNCHANGED <<arg, file>>
      /\ at \in Nat /\ Len(file) \in Nat /\ arg.port = NoPort /\ Configured(at)
      /\ l \in ConfigLines
  BY DEF StartupInv, ConfigLine
<1>2. at' \in 0..Len(file)
  BY <1>1
<1>3. CASE l.db # "none"
  <2>1. path' = PathOf(l.db) /\ UNCHANGED <<port, boot>>
    BY <1>3, Zenon DEF ConfigLine
  <2>2. PathLines(at + 1) = PathLines(at) \cup {at + 1} /\ PortLines(at + 1) = PortLines(at)
    BY <1>1, <1>3, LinesGrow, Zenon
  <2>3. IsLast(at + 1, PathLines(at + 1)) /\ at + 1 \in PathLines(at + 1)
    <3>1. PathLines(at) \subseteq 1..at
      BY <1>1, LinesGrow, Zenon
    <3> QED BY <1>1, <2>2, <3>1, LastLine, Zenon
  <2>4. /\ PathLines(at)' = PathLines(at + 1) /\ PortLines(at)' = PortLines(at + 1)
    BY <1>1 DEF PathLines, PortLines
  <2>5. Configured(at)'
    <3>1. \E i \in PathLines(at)' : IsLast(i, PathLines(at)') /\ path' = PathOf(file'[i].db)
      BY <1>1, <2>1, <2>3, <2>4, Zenon
    <3>2. PathLines(at)' # {} /\ PortLines(at)' = PortLines(at) /\ file' = file /\ arg' = arg /\ port' = port
      BY <1>1, <2>1, <2>2, <2>3, <2>4, Zenon
    <3> QED BY <1>1, <3>1, <3>2, Zenon DEF Configured
  <2> QED BY <1>1, <1>2, <2>1, <2>5, Zenon DEF StartupInv
<1>4. CASE l.db = "none"
  <2>1. /\ path' = path
        /\ port' = IF ValidPort(l.port) THEN l.port.n ELSE port
        /\ boot' = IF l.port.kind \in {"none", "blank"} \/ ValidPort(l.port) THEN boot ELSE "exit1"
    BY <1>4, Zenon DEF ConfigLine
  <2>2. PathLines(at)' = PathLines(at)
    <3>1. PathLines(at + 1) = PathLines(at)
      BY <1>1, <1>4, LinesGrow, Zenon
    <3> QED BY <1>1, <3>1 DEF PathLines
  <2>3. CASE ValidPort(l.port)
    <3>1. PortLines(at + 1) = PortLines(at) \cup {at + 1}
      BY <1>1, <1>4, <2>3, LinesGrow, Zenon DEF ValidPort
    <3>2. IsLast(at + 1, PortLines(at + 1)) /\ at + 1 \in PortLines(at + 1)
      <4>1. PortLines(at) \subseteq 1..at
        BY <1>1, LinesGrow, Zenon
      <4> QED BY <1>1, <3>1, <4>1, LastLine, Zenon
    <3>3. PortLines(at)' = PortLines(at + 1)
      BY <1>1 DEF PortLines
    <3>4. Configured(at)'
      <4>1. \E i \in PortLines(at)' : IsLast(i, PortLines(at)') /\ port' = file'[i].port.n
        BY <1>1, <2>1, <2>3, <3>2, <3>3, Zenon
      <4>2. /\ PortLines(at)' # {} /\ PathLines(at)' = PathLines(at) /\ path' = path
            /\ file' = file /\ arg' = arg
        BY <1>1, <2>1, <2>2, <3>2, <3>3, Zenon
      <4>3. \A i \in PortLines(at)' : ValidPort(file'[i].port)
        BY <1>1, <2>3, <3>1, <3>3, Zenon DEF Configured
      <4> QED BY <1>1, <4>1, <4>2, <4>3, Zenon DEF Configured
    <3> QED BY <1>1, <1>2, <2>1, <2>3, <3>4, Zenon DEF StartupInv
  <2>4. CASE l.port.kind \in {"none", "blank"}
    <3>1. PortLines(at + 1) = PortLines(at) /\ ~ValidPort(l.port)
      <4>1. l.port.kind \notin {"number", "word"}
        BY <2>4
      <4> QED BY <1>1, <4>1, LinesGrow, Zenon DEF ValidPort
    <3>2. PortLines(at)' = PortLines(at)
      BY <1>1, <3>1 DEF PortLines
    <3>3. Configured(at)'
      BY <1>1, <2>1, <2>2, <3>1, <3>2, Zenon DEF Configured
    <3> QED BY <1>1, <1>2, <2>1, <2>4, <3>3, Zenon DEF StartupInv
  <2>5. CASE ~ValidPort(l.port) /\ l.port.kind \notin {"none", "blank"}
    <3>1. boot' = "exit1"
      BY <2>1, <2>5, Zenon
    <3> QED BY <1>1, <1>2, <3>1 DEF StartupInv
  <2> QED BY <2>3, <2>4, <2>5, Zenon
<1> QED BY <1>3, <1>4, Zenon

LEMMA StartupStep == StartupInv /\ [StartupNext]_startupVars => StartupInv'
<1> SUFFICES ASSUME StartupInv, [StartupNext]_startupVars PROVE StartupInv'
  OBVIOUS
<1>0. arg \in DaemonArguments \cup ShellArguments
  BY DEF StartupInv
<1>1. CASE Daemon \/ ShellMain
  <2>1. /\ file = <<>> /\ at = 0 /\ path = DefaultPath /\ port = DefaultPort
        /\ UNCHANGED <<arg, file, at>> /\ file \in Seq(ConfigLines)
    BY <1>1 DEF StartupInv, Daemon, ShellMain
  <2>2. /\ port' = IF ValidPort(arg.port) THEN arg.port.n ELSE port
        /\ boot' \in {"open", "serve", "exit0", "exit1"}
        /\ boot' \in {"open", "serve"} => path' = arg.path /\ (arg.port = NoPort \/ ValidPort(arg.port))
    BY <1>0, <1>1, <2>1, ArgumentFacts DEF Daemon, ShellMain
  <2>3. ASSUME boot' \in {"open", "serve"} PROVE Configured(at)'
    <3>1. PathLines(at)' = {} /\ PortLines(at)' = {}
      BY <2>1 DEF PathLines, PortLines
    <3> QED BY <1>0, <2>1, <2>2, <2>3, <3>1, ArgumentFacts, Zenon DEF Configured
  <2>4. at' = Len(file') /\ at' \in 0..Len(file')
    BY <2>1
  <2> QED BY <1>0, <2>1, <2>2, <2>3, <2>4 DEF StartupInv
<1>2. CASE OpenConfig
  <2>1. /\ file = <<>> /\ at = 0 /\ path = DefaultPath /\ port = DefaultPort
        /\ UNCHANGED <<arg, at, path, port>> /\ arg.mode = "--config"
    BY <1>2 DEF StartupInv, OpenConfig
  <2>2. CASE boot' = "exit1" /\ UNCHANGED file
    BY <2>1, <2>2 DEF StartupInv
  <2>3. CASE file' \in UNION {[1..n -> ConfigLines] : n \in 0..MaxConfig} /\ boot' = "config"
    <3>1. PICK n \in 0..MaxConfig : file' \in [1..n -> ConfigLines]
      BY <2>3, Zenon
    <3>2. file' \in Seq(ConfigLines) /\ Len(file') \in Nat
      <4>1. n \in Nat
        BY StartupAssumption
      <4> HIDE DEF ConfigLines
      <4> QED BY <3>1, <4>1
    <3>3. PathLines(at)' = {} /\ PortLines(at)' = {}
      BY <2>1 DEF PathLines, PortLines
    <3>4. Configured(at)'
      BY <1>0, <2>1, <3>3, ArgumentFacts, Zenon DEF Configured
    <3>5. at' \in 0..Len(file')
      BY <2>1, <3>2
    <3> QED BY <1>0, <2>1, <2>3, <3>2, <3>4, <3>5, ArgumentFacts DEF StartupInv
  <2> QED BY <1>2, <2>2, <2>3, Zenon DEF OpenConfig
<1>3. CASE ConfigLine
  BY <1>3, ConfigLineStep
<1>4. CASE ConfigEnd \/ OpenDatabase \/ ServeEnds \/ UNCHANGED startupVars
  <2>1. UNCHANGED <<arg, file, at, path, port>>
    BY <1>4, Zenon DEF ConfigEnd, OpenDatabase, ServeEnds, startupVars
  <2>2. Configured(at)' <=> Configured(at)
    BY <2>1 DEF Configured, PathLines, PortLines
  <2>3. \/ boot = "config" /\ at = Len(file) /\ boot' = "open"
        \/ boot = "open" /\ boot' \in {"serve", "exit1"}
        \/ boot' \in {"exit0", "exit1"}
        \/ boot' = boot
    BY <1>4 DEF ConfigEnd, OpenDatabase, ServeEnds, startupVars
  <2> QED BY <2>1, <2>2, <2>3 DEF StartupInv
<1> QED BY <1>1, <1>2, <1>3, <1>4 DEF StartupNext

(* A program serves with the settings that it was given.                    *)
THEOREM AlwaysServesAsConfigured == StartupSpec => []ServesAsConfigured
<1>1. StartupInit => StartupInv
  BY DEF StartupInit, StartupInv
<1>2. StartupInv => ServesAsConfigured
  BY DEF StartupInv, ServesAsConfigured
<1> QED BY <1>1, <1>2, StartupStep, PTL DEF StartupSpec
=============================================================================
