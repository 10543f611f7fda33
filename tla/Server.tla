------------------------------- MODULE Server -------------------------------
(***************************************************************************)
(* The life of the daemon: main, the thread that waits for a termination   *)
(* signal, the accept loop of Server::run, one worker thread for each      *)
(* connection (handle_client) and Server::stop, with the file descriptors  *)
(* that the kernel hands out, takes back and hands out again.              *)
(*                                                                         *)
(* Descriptors are numbers that a close makes available to the next accept *)
(* or to the next file that storage opens. Whoever uses or closes a number *)
(* meets what it stands for at that moment.                                *)
(***************************************************************************)
EXTENDS Naturals, Sequences

CONSTANTS Conns,  \* connections that clients may open, each handled by a worker
          Fds,    \* descriptor numbers
          Free,   \* what a number stands for: nothing,
          File,   \*   a file of the storage engine, or a connection
          NoFd    \* the descriptor of a connection that was never accepted

ASSUME ServerAssumption == /\ Free \notin Conns /\ File \notin Conns
                           /\ Free # File /\ NoFd \notin Fds

VARIABLES
    main,     \* the next step of main
    sig,      \* the next step of the signal thread
    pending,  \* has a termination signal been sent and not been taken?
    running,  \* is_running_
    listener, \* the listening socket
    stop,     \* the next step of stop()
    waitFor,  \* the threads that the loop of stop() will join
    peer,     \* what each client has done
    wpc,      \* the next step of the worker of each connection
    fd,       \* client_socket of each worker
    owner,    \* what each descriptor number stands for
    shut,     \* connections shut down by stop()
    sockets,  \* client_sockets_
    threads,  \* the connections whose thread is in worker_threads_
    joined,   \* the threads that have been joined
    lost      \* history: connections whose entry another worker has erased

control == <<main, sig, pending, running, listener, stop, waitFor>>
kernel == <<owner, shut>>
registry == <<sockets, threads, joined, lost>>
world == <<peer, wpc, fd, kernel, registry>>
vars == <<control, world>>

Ended == {"exited", "terminated", "killed"}

Alive == main \notin Ended

(* Types of the variables.                                                  *)
ServerTypeOK ==
    /\ main \in {"begin", "listen", "flag", "loop", "accept", "spawn", "join",
                 "destroy", "stopping", "members"} \cup Ended
    /\ sig \in {"unborn", "wait", "stopping", "done"}
    /\ pending \in BOOLEAN /\ running \in BOOLEAN
    /\ listener \in {"none", "open", "closed"}
    /\ stop \in {"no", "listener", "lock", "sockets", "iterate", "join"}
    /\ waitFor \subseteq Conns
    /\ peer \in [Conns -> {"away", "queued", "open", "gone"}]
    /\ wpc \in [Conns -> {"none", "accepted", "register", "loop", "recv", "request",
                          "send", "goodbye", "close", "erase", "done"}]
    /\ fd \in [Conns -> Fds \cup {NoFd}]
    /\ owner \in [Fds -> Conns \cup {Free, File}]
    /\ shut \subseteq Conns /\ threads \subseteq Conns /\ joined \subseteq Conns /\ lost \subseteq Conns

Init == /\ main = "begin" /\ sig = "unborn" /\ pending = FALSE
        /\ running = FALSE /\ listener = "none" /\ stop = "no" /\ waitFor = {}
        /\ peer = [c \in Conns |-> "away"]
        /\ wpc = [c \in Conns |-> "none"]
        /\ fd = [c \in Conns |-> NoFd]
        /\ owner = [f \in Fds |-> Free] /\ shut = {}
        /\ sockets = <<>> /\ threads = {} /\ joined = {} /\ lost = {}

-----------------------------------------------------------------------------
(* Clients and the operating system.                                        *)
Signal == /\ Alive /\ ~pending
          /\ pending' = TRUE
          /\ UNCHANGED <<main, sig, running, listener, stop, waitFor, world>>

Connect(c) == /\ Alive /\ listener = "open" /\ peer[c] = "away"
              /\ peer' = [peer EXCEPT ![c] = "queued"]
              /\ UNCHANGED <<control, wpc, fd, kernel, registry>>

Disconnect(c) == /\ Alive /\ peer[c] = "open"
                 /\ peer' = [peer EXCEPT ![c] = "gone"]
                 /\ UNCHANGED <<control, wpc, fd, kernel, registry>>

-----------------------------------------------------------------------------
(* main: block the signals, read the arguments, construct Core and Server,  *)
(* publish the server and start the signal thread; or return an error.      *)
Begin == /\ main = "begin"
         /\ \/ main' = "listen" /\ sig' = "wait"
            \/ main' = "exited" /\ UNCHANGED sig
         /\ UNCHANGED <<pending, running, listener, stop, waitFor, world>>

(* run: create, bind and listen, or throw; then set the flag and loop. When *)
(* run throws, main detaches the signal thread and unwinds.                 *)
RunListen == /\ main = "listen"
             /\ \/ main' = "flag" /\ listener' = "open"
                \/ main' = "destroy" /\ UNCHANGED listener
             /\ UNCHANGED <<sig, pending, running, stop, waitFor, world>>

RunFlag == /\ main = "flag" /\ main' = "loop"
           /\ running' = TRUE
           /\ UNCHANGED <<sig, pending, listener, stop, waitFor, world>>

RunLoop == /\ main = "loop"
           /\ main' = IF running THEN "accept" ELSE "join"
           /\ UNCHANGED <<sig, pending, running, listener, stop, waitFor, world>>

RunAccept(c, f) ==
    /\ main = "accept" /\ main' = "spawn"
    /\ listener = "open" /\ peer[c] = "queued" /\ owner[f] = Free
    /\ peer' = [peer EXCEPT ![c] = "open"]
    /\ wpc' = [wpc EXCEPT ![c] = "accepted"]
    /\ fd' = [fd EXCEPT ![c] = f]
    /\ owner' = [owner EXCEPT ![f] = c]
    /\ UNCHANGED <<sig, pending, running, listener, stop, waitFor, shut, registry>>

(* accept returns an error: because stop closed the socket, or at any time. *)
RunAcceptFails == /\ main = "accept" /\ main' = "loop"
                  /\ UNCHANGED <<sig, pending, running, listener, stop, waitFor, world>>

(* The new thread is appended to worker_threads_. If stop() is iterating    *)
(* over that vector the append may move it: the process may abort. If no    *)
(* thread can be created, run throws and the descriptor stays open.         *)
RunSpawn(c) ==
    /\ main = "spawn" /\ wpc[c] = "accepted"
    /\ \/ /\ main' = "loop"
          /\ threads' = threads \cup {c}
          /\ wpc' = [wpc EXCEPT ![c] = "register"]
       \/ /\ stop = "join" /\ main' = "terminated"
          /\ UNCHANGED <<threads, wpc>>
       \/ /\ main' = "destroy"
          /\ wpc' = [wpc EXCEPT ![c] = "none"]
          /\ UNCHANGED threads
    /\ UNCHANGED <<sig, pending, running, listener, stop, waitFor, peer, fd, kernel,
                   sockets, joined, lost>>

JoinSignal == /\ main = "join" /\ sig = "done"
              /\ main' = "destroy"
              /\ UNCHANGED <<sig, pending, running, listener, stop, waitFor, world>>

(* ~Server: stop the server if it runs, then destroy the members. The       *)
(* destructor of a thread that was not joined ends the process.             *)
Destroy == /\ main = "destroy"
           /\ IF running
              THEN main' = "stopping" /\ running' = FALSE /\ stop' = "listener"
              ELSE main' = "members" /\ UNCHANGED <<running, stop>>
           /\ UNCHANGED <<sig, pending, listener, waitFor, world>>

DestroyMembers == /\ main = "members"
                  /\ main' = IF threads = joined THEN "exited" ELSE "terminated"
                  /\ UNCHANGED <<sig, pending, running, listener, stop, waitFor, world>>
-----------------------------------------------------------------------------
(* The signal thread takes one signal and calls stop().                     *)
SigWait == /\ Alive /\ sig = "wait" /\ pending
           /\ pending' = FALSE
           /\ IF running
              THEN sig' = "stopping" /\ running' = FALSE /\ stop' = "listener"
              ELSE sig' = "done" /\ UNCHANGED <<running, stop>>
           /\ UNCHANGED <<main, listener, waitFor, world>>

(* stop(): close the listening socket; under the mutex of client_sockets_   *)
(* shut down and close every descriptor in it; join the threads that are in *)
(* worker_threads_ when the loop begins.                                    *)
\* Variant: the listening socket is closed after the clients' sockets.
StopListenerLater == /\ Alive /\ stop = "listener" /\ stop' = "lock"
                     /\ UNCHANGED <<main, sig, pending, running, listener, waitFor, world>>

StopListener == /\ Alive /\ stop = "listener" /\ stop' = "lock"
                /\ listener' = "closed"
                /\ UNCHANGED <<main, sig, pending, running, waitFor, world>>

StopLock == /\ Alive /\ stop = "lock" /\ stop' = "sockets"
            /\ UNCHANGED <<main, sig, pending, running, listener, waitFor, world>>

\* Variant: the descriptor is closed without a shutdown.
StopSocketCloses == /\ Alive /\ stop = "sockets" /\ sockets # <<>>
                    /\ owner' = [owner EXCEPT ![Head(sockets)] = Free]
                    /\ sockets' = Tail(sockets)
                    /\ UNCHANGED <<control, peer, wpc, fd, shut, threads, joined, lost>>

StopSocket == /\ Alive /\ stop = "sockets" /\ sockets # <<>>
              /\ shut' = shut \cup ({owner[Head(sockets)]} \cap Conns)
              /\ owner' = [owner EXCEPT ![Head(sockets)] = Free]
              /\ sockets' = Tail(sockets)
              /\ UNCHANGED <<control, peer, wpc, fd, threads, joined, lost>>

StopUnlock == /\ Alive /\ stop = "sockets" /\ sockets = <<>>
              /\ stop' = "iterate"
              /\ UNCHANGED <<main, sig, pending, running, listener, waitFor, world>>

StopIterate == /\ Alive /\ stop = "iterate" /\ stop' = "join"
               /\ waitFor' = threads
               /\ UNCHANGED <<main, sig, pending, running, listener, world>>

\* Variant: the threads are detached instead of joined.
StopDetach(c) == /\ Alive /\ stop = "join" /\ c \in waitFor \ joined
                 /\ joined' = joined \cup {c}
                 /\ UNCHANGED <<control, peer, wpc, fd, kernel, sockets, threads, lost>>

StopJoin(c) == /\ Alive /\ stop = "join" /\ c \in waitFor \ joined
               /\ wpc[c] = "done"
               /\ joined' = joined \cup {c}
               /\ UNCHANGED <<control, peer, wpc, fd, kernel, sockets, threads, lost>>

StopReturn == /\ Alive /\ stop = "join" /\ waitFor \subseteq joined
              /\ stop' = "no"
              /\ sig' = IF main = "stopping" THEN sig ELSE "done"
              /\ main' = IF main = "stopping" THEN "members" ELSE main
              /\ UNCHANGED <<pending, running, listener, waitFor, world>>

-----------------------------------------------------------------------------
(* handle_client. The mutex is free except while stop() closes descriptors. *)
Goto(c, step) == wpc' = [wpc EXCEPT ![c] = step]

Register(c) == /\ Alive /\ wpc[c] = "register" /\ stop # "sockets"
               /\ sockets' = Append(sockets, fd[c])
               /\ Goto(c, "loop")
               /\ UNCHANGED <<control, peer, fd, kernel, threads, joined, lost>>

\* Variant: the loop of the worker does not look at is_running_.
WorkerLoopForever(c) == /\ Alive /\ wpc[c] = "loop"
                        /\ Goto(c, "recv")
                        /\ UNCHANGED <<control, peer, fd, kernel, registry>>

WorkerLoop(c) == /\ Alive /\ wpc[c] = "loop"
                 /\ Goto(c, IF running THEN "recv" ELSE "close")
                 /\ UNCHANGED <<control, peer, fd, kernel, registry>>

(* The connection carries data in both directions. A close by itself does   *)
(* not wake a thread that is blocked on the descriptor; a shutdown does.    *)
Connected(c) == peer[c] = "open" /\ c \notin shut

(* recv returns a request, or the exit command, when the client sends one;  *)
(* it returns nothing once the client is gone or the connection shut down.  *)
Receive(c) == /\ Alive /\ wpc[c] = "recv" /\ Connected(c)
              /\ Goto(c, "request") \/ Goto(c, "goodbye")
              /\ UNCHANGED <<control, peer, fd, kernel, registry>>

ReceiveEnd(c) == /\ Alive /\ wpc[c] = "recv" /\ ~Connected(c)
                 /\ Goto(c, "close")
                 /\ UNCHANGED <<control, peer, fd, kernel, registry>>

(* process_request. Storage may open a file on behalf of it. An exception   *)
(* that leaves it also leaves the thread and ends the process.              *)
StorageOpens(c, f) == /\ Alive /\ wpc[c] = "request" /\ owner[f] = Free
                      /\ owner' = [owner EXCEPT ![f] = File]
                      /\ UNCHANGED <<control, peer, wpc, fd, shut, registry>>

ProcessRequest(c) ==
    /\ Alive /\ wpc[c] = "request"
    /\ \/ Goto(c, "send") /\ UNCHANGED main
       \/ main' = "terminated" /\ UNCHANGED wpc
    /\ UNCHANGED <<sig, pending, running, listener, stop, waitFor, peer, fd, kernel,
                   registry>>

AfterSend(c) == IF wpc[c] = "goodbye" THEN "close" ELSE "loop"

(* The answer is sent as the client reads it. If the client is gone or the  *)
(* connection was shut down, send fails, and unless the descriptor was      *)
(* closed before the call it also raises SIGPIPE, which nothing ignores.    *)
Send(c) == /\ Alive /\ wpc[c] \in {"send", "goodbye"} /\ Connected(c)
           /\ Goto(c, AfterSend(c))
           /\ UNCHANGED <<control, peer, fd, kernel, registry>>

SendFails(c) ==
    /\ Alive /\ wpc[c] \in {"send", "goodbye"} /\ ~Connected(c)
    /\ \/ Goto(c, AfterSend(c)) /\ UNCHANGED main
       \/ main' = "killed" /\ UNCHANGED wpc
    /\ UNCHANGED <<sig, pending, running, listener, stop, waitFor, peer, fd, kernel,
                   registry>>

(* The deferred cleanup: close the descriptor, then erase its number, and   *)
(* with it the entry of a later connection that was given the same number.  *)
Close(c) == /\ Alive /\ wpc[c] = "close"
            /\ owner' = [owner EXCEPT ![fd[c]] = Free]
            /\ Goto(c, "erase")
            /\ UNCHANGED <<control, peer, fd, shut, registry>>

Registered == {"loop", "recv", "request", "send", "goodbye", "close", "erase"}

(* erase(std::remove(...)): every entry with that number goes, the others   *)
(* keep their order.                                                        *)
Without(s, f) ==
    LET upto[i \in 0..Len(s)] == IF i = 0 THEN <<>>
                                 ELSE IF s[i] = f THEN upto[i - 1]
                                 ELSE Append(upto[i - 1], s[i])
    IN  upto[Len(s)]

Erase(c) == /\ Alive /\ wpc[c] = "erase" /\ stop # "sockets"
            /\ sockets' = Without(sockets, fd[c])
            /\ lost' = lost \cup {d \in Conns \ {c} : wpc[d] \in Registered /\ fd[d] = fd[c]}
            /\ Goto(c, "done")
            /\ UNCHANGED <<control, peer, fd, kernel, threads, joined>>

-----------------------------------------------------------------------------
(* What each thread does by itself; what it does when a client lets it; and *)
(* what clients, the sender of the signal and failures do.                  *)
MainStep == \/ Begin \/ RunListen \/ RunFlag \/ RunLoop
            \/ listener = "closed" /\ RunAcceptFails
            \/ \E c \in Conns : RunSpawn(c)
            \/ JoinSignal \/ Destroy \/ DestroyMembers

StopStep == \/ SigWait
            \/ StopListener \/ StopLock \/ StopSocket \/ StopUnlock \/ StopIterate \/ StopReturn
            \/ \E c \in Conns : StopJoin(c)

WorkerStep(c) == \/ Register(c) \/ WorkerLoop(c) \/ ReceiveEnd(c) \/ ProcessRequest(c)
                 \/ SendFails(c) \/ Close(c) \/ Erase(c)

Environment == \/ Signal
               \/ \E c \in Conns : \/ Connect(c) \/ Disconnect(c) \/ Receive(c) \/ Send(c)
                                  \/ \E f \in Fds : RunAccept(c, f) \/ StorageOpens(c, f)
               \/ listener = "open" /\ RunAcceptFails

Next == MainStep \/ StopStep \/ (\E c \in Conns : WorkerStep(c)) \/ Environment

Spec == Init /\ [][Next]_vars

(* The operating system runs every thread that can take a step. Nothing is  *)
(* assumed about clients: they may never send, read or disconnect.          *)
FairSpec == /\ Spec
            /\ WF_vars(MainStep) /\ WF_vars(StopStep)
            /\ \A c \in Conns : WF_vars(WorkerStep(c))

-----------------------------------------------------------------------------
(* A worker never reads from, writes to or closes the connection of another *)
(* client, although stop() and the worker close the same number and numbers *)
(* are reused: when stop() closes a worker's descriptor, the listening      *)
(* socket is closed already and the number cannot be given to a client.     *)
UsesDescriptor == {"accepted", "register", "loop", "recv", "request", "send", "goodbye", "close"}

OwnConnection ==
    \A c \in Conns : wpc[c] \in UsesDescriptor => owner[fd[c]] \in {c, Free, File}

(* The daemon does not return from main, destroying Core, while a worker    *)
(* may still use it.                                                        *)
NoWorkerAfterExit ==
    main = "exited" => \A c \in Conns : wpc[c] \in {"none", "done"}

(* The descriptor of c is in client_sockets_.                               *)
Listed(c) == \E i \in DOMAIN sockets : sockets[i] = fd[c]

(* A worker that waits for its client can be woken: while the server runs   *)
(* or stop() has still to go through client_sockets_, it is in that list,   *)
(* and from then on nobody waits. The exception is a connection whose entry *)
(* another worker has erased.                                               *)
WaitingIsKnown ==
    \A c \in Conns :
        wpc[c] \in {"recv", "send", "goodbye"} /\ Connected(c) /\ c \notin lost
        => /\ Listed(c)
           /\ running \/ stop \in {"listener", "lock", "sockets"}

(* The inductive invariant behind the first two. The phases of main and of  *)
(* stop() agree with the flag and the listening socket; a worker whose      *)
(* descriptor is not its own any more was shut down, and no client can get  *)
(* the number; a thread is recorded before it runs and joined after it.     *)
PhaseInv ==
    /\ main = "begin" => threads = {}
    /\ main = "exited" => threads \subseteq joined
    /\ main \in {"begin", "listen"} => listener = "none"
    /\ main \in {"begin", "listen", "flag"} => ~running /\ stop = "no"
    /\ stop # "no" => ~running
    /\ stop \in {"lock", "sockets", "iterate", "join"} => listener = "closed"

WorkerInv(c) ==
    /\ peer[c] \in {"away", "queued"} => wpc[c] = "none"
    /\ wpc[c] # "none" => fd[c] \in Fds
    /\ wpc[c] \in UsesDescriptor =>
          \/ owner[fd[c]] = c
          \/ owner[fd[c]] \in {Free, File} /\ listener = "closed" /\ c \in shut
    /\ wpc[c] = "accepted" => /\ main \in {"spawn", "terminated", "killed"}
                              /\ \A d \in Conns : wpc[d] = "accepted" => d = c
    /\ wpc[c] \notin {"none", "accepted"} => c \in threads
    /\ c \in joined => wpc[c] = "done"

ServerInv == ServerTypeOK /\ PhaseInv /\ \A c \in Conns : WorkerInv(c)

(* The one behind WaitingIsKnown. From its registration until it closes its *)
(* descriptor a worker is listed, and it enters the part in which it can    *)
(* block only while the server runs: when stop() has emptied the list,      *)
(* every such worker was shut down.                                         *)
KnownInv(c) ==
    c \notin shut \cup lost =>
      /\ wpc[c] \in Registered \ {"erase"} => Listed(c)
      /\ wpc[c] \in {"recv", "request", "send", "goodbye"}
            => running \/ stop \in {"listener", "lock", "sockets"}

WaitInv == sockets \in Seq(Fds) /\ \A c \in Conns : KnownInv(c)

(* stop() returns, or the process is over, whatever clients do, unless the *)
(* entry of a connection was erased by the worker of an earlier one.        *)
StopCompletes == (stop # "no") ~> (stop = "no" \/ ~Alive \/ lost # {})

(* server.cpp says that stop() shuts down all active client sockets "to     *)
(* unblock any worker threads waiting on recv" and then joins all workers:  *)
(* it always returns.                                                       *)
StopAlwaysCompletes == (stop # "no") ~> (stop = "no" \/ ~Alive)
=============================================================================
