SPECIFICATION FairSpec
CONSTANTS
    Conns = {c1, c2}
    Fds = {f1, f2}
    Free = Free
    File = File
    NoFd = NoFd
INVARIANTS OwnConnection NoWorkerAfterExit WaitingIsKnown
PROPERTY StopCompletes
CHECK_DEADLOCK FALSE
