------------------------------ MODULE Session ------------------------------
(***************************************************************************)
(* A request on its way: AevumClient and its Connection, the two byte      *)
(* streams of a TCP connection, handle_client and process_request in the   *)
(* server, and the RequestCache that answers repeated requests. The        *)
(* database is abstracted to whether an operation succeeds.                *)
(*                                                                         *)
(* A message enters a stream in one or more pieces. Nothing delimits       *)
(* messages: a reader takes whatever pieces have arrived.                  *)
(***************************************************************************)
EXTENDS Naturals, Sequences, FiniteSets

CONSTANTS Clients,    \* AevumClient objects
          MaxConns,   \* bound of the number of TCP connections
          Requests,   \* payloads: [action, key]
          Role,       \* the role that authenticate() finds for a key
          Window,     \* cache_window_ms_ in ticks
          MaxTime,    \* bound of the clock
          MaxCalls,   \* bound of the number of calls
          Size        \* in how many pieces a payload, or its response, travels

ASSUME SessionAssumption == /\ Window \in Nat \ {0} /\ MaxTime \in Nat
                            /\ MaxCalls \in Nat /\ MaxConns \in Nat
                            /\ Size \in [Requests -> Nat \ {0}]

VARIABLES
    sock,     \* socket_fd_ of each client: its connection, or none
    call,     \* the last call of each client
    waiting,  \* the clients that are blocked in recv
    calls,    \* the number of calls so far
    up, down, \* what is in flight on each connection, to the server and back
    clientEnd, serverEnd, \* the connections that each side has open
    opened,   \* the number of connections made so far
    wpc,      \* the next step of the worker of each connection
    wreq,     \* the request that it has received
    wout,     \* the response that it will send
    cache,    \* cache_: for each payload, when its response was stored, and the response
    now,      \* the clock
    stored,   \* history: <<payload, time>> of every cache_response since the server started
    torn      \* history: the connections on which a reader took a part of a message

client == <<sock, call, waiting, calls>>
wire == <<up, down, clientEnd, serverEnd, opened>>
worker == <<wpc, wreq, wout>>
server == <<cache, stored>>
vars == <<client, wire, worker, server, now, torn>>

Conns == 1..MaxConns
None == 0               \* no socket

Garbled == [action |-> "garbled", key |-> "none"]  \* bytes that are not one whole message
Steps == {"none", "recv", "lookup", "dispatch", "store", "send"}  \* of a worker

NoCall == [id |-> 0, body |-> Garbled]

(* The pieces of a message of a call, and what a reader of pieces has got.  *)
Pieces(id, body, n) == [i \in 1..n |-> [id |-> id, body |-> body, part |-> i, of |-> n]]

Assemble(ps) == LET p == ps[1]
                IN  [id |-> p.id, body |-> IF ps = Pieces(p.id, p.body, p.of) THEN p.body ELSE Garbled]

Init == /\ sock = [k \in Clients |-> None]
        /\ call = [k \in Clients |-> NoCall] /\ waiting = {}
        /\ calls = 0
        /\ up = [c \in Conns |-> <<>>] /\ down = [c \in Conns |-> <<>>]
        /\ clientEnd = {} /\ serverEnd = {} /\ opened = 0
        /\ wpc = [c \in Conns |-> "none"]
        /\ wreq = [c \in Conns |-> NoCall]
        /\ wout = [c \in Conns |-> Garbled]
        /\ cache = [r \in {} |-> 0]
        /\ now = 0 /\ stored = {} /\ torn = {}

-----------------------------------------------------------------------------
(* A close drops what is on its way to the side that closes.                *)
ClientCloses(k) == /\ sock' = [sock EXCEPT ![k] = None]
                   /\ clientEnd' = clientEnd \ {sock[k]}
                   /\ down' = [down EXCEPT ![sock[k]] = <<>>]

WorkerCloses(cs) == /\ serverEnd' = serverEnd \ cs
                    /\ up' = [c \in Conns |-> IF c \in cs THEN <<>> ELSE up[c]]
                    /\ wpc' = [c \in Conns |-> IF c \in cs THEN "none" ELSE wpc[c]]
                    /\ wreq' = [c \in Conns |-> IF c \in cs THEN NoCall ELSE wreq[c]]
                    /\ wout' = [c \in Conns |-> IF c \in cs THEN Garbled ELSE wout[c]]

(* send_request, up to recv. The result is a failure if the connection      *)
(* cannot be made or the data cannot be sent.                               *)
NextCall(k, r) == /\ k \notin waiting /\ calls < MaxCalls
                  /\ calls' = calls + 1
                  /\ call' = [call EXCEPT ![k] = [id |-> calls + 1, body |-> r]]

ConnectFails(k, r) ==
    /\ NextCall(k, r)
    /\ sock[k] = None /\ r.action # "exit"
    /\ UNCHANGED <<sock, waiting, wire, worker, server, now, torn>>

SendFails(k, r) ==
    /\ NextCall(k, r)
    /\ sock[k] # None
    /\ ClientCloses(k)
    /\ UNCHANGED <<waiting, up, serverEnd, opened, worker, server, now, torn>>

(* connect() without a request, and ~Connection without the exit command.   *)
ConnectServer(k) ==
    /\ k \notin waiting /\ sock[k] = None /\ opened + 1 \in Conns
    /\ sock' = [sock EXCEPT ![k] = opened + 1]
    /\ opened' = opened + 1
    /\ clientEnd' = clientEnd \cup {opened + 1} /\ serverEnd' = serverEnd \cup {opened + 1}
    /\ wpc' = [wpc EXCEPT ![opened + 1] = "recv"]
    /\ UNCHANGED <<call, waiting, calls, up, down, wreq, wout, server, now, torn>>

DisconnectServer(k) ==
    /\ k \notin waiting /\ sock[k] # None
    /\ ClientCloses(k)
    /\ UNCHANGED <<call, waiting, calls, up, serverEnd, opened, worker, server, now, torn>>

(* disconnect() sends the exit command only on an open connection.          *)
SendRequest(k, r) ==
    LET new == sock[k] = None
        c == IF new THEN opened + 1 ELSE sock[k]
    IN  /\ NextCall(k, r)
        /\ c \in Conns /\ (new => r.action # "exit")
        /\ sock' = [sock EXCEPT ![k] = c]
        /\ opened' = IF new THEN c ELSE opened
        /\ clientEnd' = clientEnd \cup {c}
        /\ serverEnd' = IF new THEN serverEnd \cup {c} ELSE serverEnd
        /\ wpc' = IF new THEN [wpc EXCEPT ![c] = "recv"] ELSE wpc
        /\ up' = IF c \in serverEnd' THEN [up EXCEPT ![c] = @ \o Pieces(calls + 1, r, Size[r])]
                 ELSE up
        /\ waiting' = waiting \cup {k}
        /\ UNCHANGED <<down, wreq, wout, server, now, torn>>

(* recv gives what has arrived of the server's response. After the exit     *)
(* command the client closes its socket.                                    *)
Receive(k) ==
    /\ k \in waiting /\ waiting' = waiting \ {k}
    /\ \E n \in 1..Len(down[sock[k]]) :
        /\ torn' = IF Assemble(SubSeq(down[sock[k]], 1, n)).body = Garbled
                   THEN torn \cup {sock[k]} ELSE torn
        /\ IF call[k].body.action = "exit"
           THEN ClientCloses(k)
           ELSE /\ down' = [down EXCEPT ![sock[k]] = SubSeq(@, n + 1, Len(@))]
                /\ UNCHANGED <<sock, clientEnd>>
    /\ UNCHANGED <<call, calls, up, serverEnd, opened, worker, server, now>>

\* Variant: a failed recv leaves the connection open.
ReceiveFailsOpen(k) ==
    /\ k \in waiting /\ waiting' = waiting \ {k}
    /\ UNCHANGED <<sock, call, calls, wire, worker, server, now, torn>>

(* recv fails: the server closed the connection, or the network failed.     *)
ReceiveFails(k) ==
    /\ k \in waiting /\ waiting' = waiting \ {k}
    /\ ClientCloses(k)
    /\ UNCHANGED <<call, calls, up, serverEnd, opened, worker, server, now, torn>>

-----------------------------------------------------------------------------
(* handle_client: receive, process, send, until the client is gone.         *)
WorkerReceive(c) ==
    /\ wpc[c] = "recv"
    /\ \E n \in 1..Len(up[c]) :
        LET got == Assemble(SubSeq(up[c], 1, n))
        IN  /\ wreq' = [wreq EXCEPT ![c] = got]
            /\ up' = [up EXCEPT ![c] = SubSeq(@, n + 1, Len(@))]
            /\ torn' = IF got.body = Garbled THEN torn \cup {c} ELSE torn
            /\ IF got.body.action \in {"exit", "health"}
               THEN /\ wpc' = [wpc EXCEPT ![c] = "send"]
                    /\ wout' = [wout EXCEPT ![c] = [status |-> "ok"]]
               ELSE /\ wpc' = [wpc EXCEPT ![c] = "lookup"]
                    /\ UNCHANGED wout
    /\ UNCHANGED <<client, down, clientEnd, serverEnd, opened, server, now>>

WorkerHangup(c) ==
    /\ wpc[c] = "recv" /\ up[c] = <<>> /\ c \notin clientEnd
    /\ WorkerCloses({c})
    /\ UNCHANGED <<client, down, clientEnd, opened, server, now, torn>>

(* get_cached_response: an entry younger than the window is the answer; an  *)
(* older one is erased.                                                     *)
Expired(e) == now - e.at >= Window

GetCachedResponse(c) ==
    /\ wpc[c] = "lookup"
    /\ LET r == wreq[c].body
           hit == r \in DOMAIN cache /\ ~Expired(cache[r])
       IN  /\ wpc' = [wpc EXCEPT ![c] = IF hit THEN "send" ELSE "dispatch"]
           /\ wout' = IF hit THEN [wout EXCEPT ![c] = cache[r].response] ELSE wout
           /\ cache' = IF hit THEN cache ELSE [x \in DOMAIN cache \ {r} |-> cache[x]]
    /\ UNCHANGED <<client, wire, wreq, stored, now, torn>>

DataActions == {"insert", "find", "update", "count", "delete"}
AdminActions == {"set_schema", "metrics", "config", "create_user"}

(* The possible results of process_request after the cache: parse, then the *)
(* action and the key, then the role, then the action itself. Data actions  *)
(* and unknown ones are stored in the cache, whether they succeed or not.   *)
Result(status, caches) == [status |-> status, caches |-> caches]

Results(r) ==
    CASE r.action \in {"garbled", "missing"} -> {Result("error", FALSE)}
      [] Role[r.key] = "NONE" -> {Result("error", FALSE)}
      [] r.action \in {"find", "count"} -> {Result("ok", TRUE)}
      [] r.action \in DataActions -> {Result("ok", TRUE), Result("error", TRUE)}
      [] r.action \in AdminActions /\ Role[r.key] # "ADMIN" -> {Result("error", FALSE)}
      [] r.action \in AdminActions -> {Result("ok", FALSE), Result("error", FALSE)}
      [] OTHER -> {Result("error", TRUE)}

\* Variant: an error leaves process_request without a response.
ProcessRequestSilent(c) ==
    /\ wpc[c] = "dispatch"
    /\ \E result \in Results(wreq[c].body) :
        /\ wout' = [wout EXCEPT ![c] = [status |-> result.status]]
        /\ wpc' = [wpc EXCEPT ![c] = IF result.caches THEN "store"
                                     ELSE IF result.status = "ok" THEN "send" ELSE "recv"]
    /\ UNCHANGED <<client, wire, wreq, cache, stored, now, torn>>

ProcessRequest(c) ==
    /\ wpc[c] = "dispatch"
    /\ \E result \in Results(wreq[c].body) :
        /\ wout' = [wout EXCEPT ![c] = [status |-> result.status]]
        /\ wpc' = [wpc EXCEPT ![c] = IF result.caches THEN "store" ELSE "send"]
    /\ UNCHANGED <<client, wire, wreq, cache, stored, now, torn>>

\* Variant: an entry that is there already is kept, with its time.
CacheResponseOnce(c) ==
    /\ wpc[c] = "store"
    /\ LET r == wreq[c].body
       IN  /\ cache' = IF r \in DOMAIN cache THEN cache
                       ELSE [x \in DOMAIN cache \cup {r} |->
                               IF x = r THEN [at |-> now, response |-> wout[c]] ELSE cache[x]]
           /\ stored' = stored \cup {<<r, now>>}
    /\ wpc' = [wpc EXCEPT ![c] = "send"]
    /\ UNCHANGED <<client, wire, wreq, wout, now, torn>>

CacheResponse(c) ==
    /\ wpc[c] = "store"
    /\ LET r == wreq[c].body
       IN  /\ cache' = [x \in DOMAIN cache \cup {r} |->
                          IF x = r THEN [at |-> now, response |-> wout[c]] ELSE cache[x]]
           /\ stored' = stored \cup {<<r, now>>}
    /\ wpc' = [wpc EXCEPT ![c] = "send"]
    /\ UNCHANGED <<client, wire, wreq, wout, now, torn>>

ResponseSize(r) == IF r \in Requests THEN Size[r] ELSE 1

(* The response is sent, or lost if the client is gone; after the exit      *)
(* command the worker closes the connection.                                *)
SendResponse(c) ==
    /\ wpc[c] = "send"
    /\ down' = IF c \in clientEnd
               THEN [down EXCEPT ![c] = @ \o Pieces(wreq[c].id, wout[c], ResponseSize(wreq[c].body))]
               ELSE down
    /\ IF wreq[c].body.action = "exit"
       THEN WorkerCloses({c})
       ELSE /\ wpc' = [wpc EXCEPT ![c] = "recv"]
            /\ wreq' = [wreq EXCEPT ![c] = NoCall]
            /\ wout' = [wout EXCEPT ![c] = Garbled]
            /\ UNCHANGED <<serverEnd, up>>
    /\ UNCHANGED <<client, clientEnd, opened, server, now, torn>>

(* The daemon stops and is started again: connections and cache are gone.   *)
Crash == /\ WorkerCloses(Conns)
         /\ cache' = [r \in {} |-> 0] /\ stored' = {}
         /\ UNCHANGED <<client, down, clientEnd, opened, now, torn>>

Tick == /\ now < MaxTime /\ now' = now + 1
        /\ UNCHANGED <<client, wire, worker, server, torn>>

-----------------------------------------------------------------------------
ClientSends(k) == \E r \in Requests : \/ ConnectFails(k, r)
                                      \/ SendFails(k, r)
                                      \/ SendRequest(k, r)

ClientConnects(k) == ConnectServer(k) \/ DisconnectServer(k)

WorkerStep(c) == \/ WorkerReceive(c) \/ WorkerHangup(c) \/ GetCachedResponse(c)
                 \/ ProcessRequest(c) \/ CacheResponse(c) \/ SendResponse(c)

(* recv of the client returns: with data, or because the server has closed. *)
ClientReturns(k) == \/ Receive(k)
                    \/ sock[k] \notin serverEnd /\ ReceiveFails(k)

Next == \/ \E k \in Clients : \/ ClientSends(k) \/ ClientConnects(k)
                            \/ Receive(k) \/ ReceiveFails(k)
        \/ \E c \in Conns : WorkerStep(c)
        \/ Crash \/ Tick

Spec == Init /\ [][Next]_vars

(* Workers run, and recv returns when there is something to return. Clients *)
(* need not send, the clock need not advance.                               *)
FairSpec == /\ Spec
            /\ \A c \in Conns : WF_vars(WorkerStep(c))
            /\ \A k \in Clients : WF_vars(ClientReturns(k))

-----------------------------------------------------------------------------
(* Whatever is on its way to a client is the response to the call that it   *)
(* is waiting for, not a late response to an earlier one, although calls    *)
(* are cut short and repeated: an error closes the connection, and with it  *)
(* whatever is in flight. The exception is a connection on which a reader   *)
(* has got a part of a message: from then on responses may be out of step.  *)
OwnAnswer ==
    \A k \in Clients : sock[k] # None /\ sock[k] \notin torn =>
        \A i \in DOMAIN down[sock[k]] : k \in waiting /\ down[sock[k]][i].id = call[k].id

(* The inductive invariant behind it. A connection number is used once, by  *)
(* one client. On a connection that is in step at most one whole message is *)
(* somewhere: on its way to the server, at its worker, or on its way back;  *)
(* it belongs to the call that is waiting, and there is none when no call   *)
(* is.                                                                      *)
Resting(c) == wpc[c] \in {"none", "recv"}

OneMessage(ps, id) == LET n == Len(ps)
                      IN  n \in Nat \ {0} /\ ps = Pieces(id, ps[1].body, n)

SocketInv ==
    /\ sock \in [Clients -> Conns \cup {None}] /\ opened \in Nat
    /\ DOMAIN call = Clients /\ DOMAIN up = Conns /\ DOMAIN down = Conns
    /\ DOMAIN wpc = Conns /\ DOMAIN wreq = Conns
    /\ \A j, k \in Clients : sock[j] = sock[k] /\ sock[j] # None => j = k
    /\ \A k \in Clients : sock[k] <= opened /\ (k \in waiting => sock[k] # None)
    /\ \A c \in Conns : c > opened => up[c] = <<>> /\ down[c] = <<>> /\ wpc[c] = "none"

InStep(k, c) ==
    /\ k \notin waiting => up[c] = <<>> /\ down[c] = <<>> /\ Resting(c)
    /\ up[c] # <<>> => OneMessage(up[c], call[k].id) /\ down[c] = <<>> /\ Resting(c)
    /\ down[c] # <<>> => OneMessage(down[c], call[k].id) /\ Resting(c)
    /\ ~Resting(c) => wreq[c].id = call[k].id

AnswerInv ==
    /\ SocketInv
    /\ \A k \in Clients : sock[k] # None /\ sock[k] \notin torn => InStep(k, sock[k])

(* A request is carried out only if no response to the same payload was     *)
(* stored within the window, by whichever connection.                       *)
CarriedOutIfNew ==
    \A c \in Conns : wpc[c] = "lookup" /\ wpc'[c] = "dispatch" =>
        \A e \in stored : e[1] = wreq[c].body => now - e[2] >= Window

RepeatsAreAnswered == [][CarriedOutIfNew]_vars

(* The inductive invariant behind it: a response stored less than a window  *)
(* ago is covered by an entry that is at least as recent.                   *)
CacheInv ==
    /\ now \in Nat /\ wpc \in [Conns -> Steps]
    /\ \A r \in DOMAIN cache : cache[r].at \in Nat /\ cache[r].at <= now
    /\ \A e \in stored : /\ e[2] \in Nat /\ e[2] <= now
                         /\ \/ now - e[2] >= Window
                            \/ e[1] \in DOMAIN cache /\ e[2] <= cache[e[1]].at

(* Every call returns, with a response or an error.                         *)
EveryCallReturns == \A k \in Clients : (k \in waiting) ~> (k \notin waiting)

(* What it rests on: recv has no timeout, but no client waits for nothing.  *)
(* Unless the server has closed the connection, it has a worker, and the    *)
(* request, the work on it or the response is under way, also if messages   *)
(* were read in parts, and whichever path process_request has taken.        *)
UnderWay(c) == wpc[c] # "none" /\ (up[c] # <<>> \/ down[c] # <<>> \/ ~Resting(c))

CallUnderWay == \A k \in waiting : sock[k] \in serverEnd => UnderWay(sock[k])

(* The inductive invariant behind it: responses are not dropped, because    *)
(* the client has its end open, and every message has pieces.               *)
IsStream(s) == Len(s) \in Nat /\ s = [i \in 1..Len(s) |-> s[i]]

WayInv ==
    /\ waiting \subseteq Clients
    /\ \A k \in Clients : sock[k] # None => sock[k] \in clientEnd
    /\ \A c \in Conns : IsStream(up[c]) /\ IsStream(down[c])
    /\ \A c \in Conns : c \in serverEnd => wpc[c] # "none"
    /\ CallUnderWay

(* request_cache.hpp: the cache "prevents duplicate operations from network *)
(* retries". Two connections never carry out the same data request at once. *)
RetriesNotRepeated ==
    \A c, d \in Conns :
        /\ c # d /\ wpc[c] = "store" /\ wpc[d] = "store"
        /\ wout[c].status = "ok" /\ wout[d].status = "ok"
        => wreq[c].body # wreq[d].body
=============================================================================
