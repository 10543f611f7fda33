------------------------------ MODULE MCParts ------------------------------
(* The parts that share no state with each other, for TLC: the utility      *)
(* classes, the entry points of the programs, the users and the query       *)
(* engine. A behaviour exercises the part chosen in its initial state and   *)
(* leaves the others alone.                                                 *)
EXTENDS Workers, ObjectPool, Arena, Ownership, Stopwatch, Startup, Shell, Users, Paging,
        Uuid, Iteration, TLC

CONSTANTS root, u1, u2

(* Users: one role for each key.                                            *)
OneRole == {<<root, "ADMIN">>, <<u1, "READ_ONLY">>, <<u2, "READ_WRITE">>}

-----------------------------------------------------------------------------
(* The query engine                                                        *)

Number(n) == [type |-> "number", rank |-> n, form |-> 0]
Float(n) == [type |-> "number", rank |-> n, form |-> 1]
String(n) == [type |-> "string", rank |-> n, form |-> 0]
Array(n) == [type |-> "array", rank |-> 0, form |-> n]

(* Three documents: _id, a field of any type or none, a field of numbers.   *)
FirstFields == {<<>>} \cup {(1 :> v) : v \in {Null, Number(1), Float(1), String(1), Array(1), Array(2)}}
SomeFields == {<<>>, (1 :> Null), (1 :> Number(1)), (1 :> Array(1))}
Docs(id, n, options) == {(0 :> id) @@ a @@ (2 :> Number(n % 2)) : a \in options}
StringIds == [docs : {<<a, b, c>> : a \in Docs(String(1), 1, FirstFields),
                                    b \in Docs(String(0), 0, FirstFields),
                                    c \in Docs(String(2), 2, SomeFields)},
              primary : {<<String(1), String(0), String(2)>>}]

(* The same with a number, twice or once, in place of an _id.               *)
NumberIds == [docs : {<<a, b, c>> : a \in Docs(Number(1), 1, SomeFields),
                                    b \in Docs(String(0), 0, SomeFields),
                                    c \in Docs(Number(1), 2, {<<>>}) \cup Docs(Number(2), 2, {<<>>})},
              primary : {<<String(4), String(0), String(5)>>}]
MCCollections == StringIds \cup NumberIds

MCSelections == {<<>>, (0 :> Literal(String(1))), (0 :> Literal(String(1))) @@ (1 :> Literal(Number(1))),
                 (0 :> Literal(Number(1))), (0 :> Literal(String(4))),
                 (2 :> Operators("$lte" :> Number(0))), (1 :> Operators("$type" :> String(1))),
                 (1 :> Operators(("$gte" :> Number(1)) @@ ("$ne" :> Float(1))))}
MCSortOrders == {<<>>, (0 :> 1), (0 :> 1) @@ (2 :> -1), (1 :> -1),
                 (1 :> 0) @@ (2 :> 1), (1 :> 1) @@ (2 :> 1)}
MCProjections == {<<>>, (0 :> "off"), (1 :> "on"), (0 :> "off") @@ (1 :> "on"),
                  (0 :> "on"), (1 :> "off") @@ (2 :> "on"), (2 :> "other")}
MCChanges == {(1 :> Number(1)), (2 :> Number(1)), (1 :> Null) @@ (2 :> Number(0))}
MCNames == (0 :> "number") @@ (1 :> "number") @@ (2 :> "other")

-----------------------------------------------------------------------------
VARIABLE part

allVars == <<part, workersVars, objectPoolVars, arenaVars, ownershipVars, stopwatchVars,
             startupVars, shellVars, usersVars, pagingVars, uuidVars, iterationVars>>

PartNames == {"workers", "objects", "arena", "ownership", "stopwatch", "startup",
              "shell", "users", "paging", "uuid", "iteration"}

(* The initial states of a part that is not exercised: one is enough.       *)
StartupIdle == StartupInit /\ arg = [mode |-> "default", path |-> DefaultPath, port |-> NoPort]
PagingIdle == /\ data = <<>> /\ primary = <<>>
              /\ ask = [query |-> <<>>, sort |-> <<>>, limit |-> 1]
              /\ pages = <<>> /\ skip = 0 /\ done = TRUE
UuidIdle == UuidInit /\ one[1][0] = 0
IterationIdle == IterationInit /\ fields = 0

Init == /\ part \in PartNames
        /\ WorkersInit /\ ObjectPoolInit /\ ArenaInit /\ OwnershipInit /\ StopwatchInit
        /\ ShellInit /\ UsersInit
        /\ IF part = "startup" THEN StartupInit ELSE StartupIdle
        /\ IF part = "paging" THEN PagingInit ELSE PagingIdle
        /\ IF part = "uuid" THEN UuidInit ELSE UuidIdle
        /\ IF part = "iteration" THEN IterationInit ELSE IterationIdle

(* The variables that a step of a part leaves alone.                        *)
OtherWorkers == UNCHANGED <<objectPoolVars, arenaVars, ownershipVars, stopwatchVars,
                            startupVars, shellVars, usersVars, pagingVars, uuidVars,
                            iterationVars>>
OtherObjectPool == UNCHANGED <<workersVars, arenaVars, ownershipVars, stopwatchVars,
                               startupVars, shellVars, usersVars, pagingVars, uuidVars,
                               iterationVars>>
OtherArena == UNCHANGED <<workersVars, objectPoolVars, ownershipVars, stopwatchVars,
                          startupVars, shellVars, usersVars, pagingVars, uuidVars,
                          iterationVars>>
OtherOwnership == UNCHANGED <<workersVars, objectPoolVars, arenaVars, stopwatchVars,
                              startupVars, shellVars, usersVars, pagingVars, uuidVars,
                              iterationVars>>
OtherStopwatch == UNCHANGED <<workersVars, objectPoolVars, arenaVars, ownershipVars,
                              startupVars, shellVars, usersVars, pagingVars, uuidVars,
                              iterationVars>>
OtherStartup == UNCHANGED <<workersVars, objectPoolVars, arenaVars, ownershipVars,
                            stopwatchVars, shellVars, usersVars, pagingVars, uuidVars,
                            iterationVars>>
OtherShell == UNCHANGED <<workersVars, objectPoolVars, arenaVars, ownershipVars,
                          stopwatchVars, startupVars, usersVars, pagingVars, uuidVars,
                          iterationVars>>
OtherUsers == UNCHANGED <<workersVars, objectPoolVars, arenaVars, ownershipVars,
                          stopwatchVars, startupVars, shellVars, pagingVars, uuidVars,
                          iterationVars>>
OtherPaging == UNCHANGED <<workersVars, objectPoolVars, arenaVars, ownershipVars,
                           stopwatchVars, startupVars, shellVars, usersVars, uuidVars,
                           iterationVars>>
OtherUuid == UNCHANGED <<workersVars, objectPoolVars, arenaVars, ownershipVars,
                         stopwatchVars, startupVars, shellVars, usersVars, pagingVars,
                         iterationVars>>
OtherIteration == UNCHANGED <<workersVars, objectPoolVars, arenaVars, ownershipVars,
                              stopwatchVars, startupVars, shellVars, usersVars, pagingVars,
                              uuidVars>>

Only(p, move) == part = p /\ move /\ UNCHANGED part

Next == \/ Only("workers", WorkersNext) /\ OtherWorkers
        \/ Only("objects", ObjectPoolNext) /\ OtherObjectPool
        \/ Only("arena", ArenaNext) /\ OtherArena
        \/ Only("ownership", OwnershipNext) /\ OtherOwnership
        \/ Only("stopwatch", StopwatchNext) /\ OtherStopwatch
        \/ Only("startup", StartupNext) /\ OtherStartup
        \/ Only("shell", ShellNext) /\ OtherShell
        \/ Only("users", UsersNext) /\ OtherUsers
        \/ Only("paging", PagingNext) /\ OtherPaging
        \/ Only("uuid", DrawOther) /\ OtherUuid
        \/ Only("iteration", IterationNext) /\ OtherIteration

(* The operating system runs every thread of Workers that can take a step.  *)
Runs(thread) == Only("workers", thread) /\ OtherWorkers

FairSpec == /\ Init /\ [][Next]_allVars
            /\ WF_allVars(Runs(MainThread)) /\ WF_allVars(Runs(EnqueueLateNotify))
            /\ \A t \in PoolThreads : WF_allVars(Runs(PoolThread(t)))
            /\ \A c \in Consumers : WF_allVars(Runs(WaitAndPop(c)))
=============================================================================
