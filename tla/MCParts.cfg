SPECIFICATION FairSpec
CONSTANTS
    PoolThreads = {t1, t2}
    Consumers = {d1, d2}
    NTasks = 2
    Quota = 1
    Threads = {u1, u2, u3}
    MaxObjects = 2
    ChunkSize = 5
    Alignments = {1, 2, 4}
    MaxBytes = 6
    MaxChunks = 3
    MaxBlocks = 3
    Slots = {s1, s2, s3}
    Cells = {c1, c2, c3, c4}
    Gone = Gone
    Nil = Nil
    MaxClock = 4
    MaxSets = 1
    MaxPort = 3
    DefaultPort = 2
    DefaultPath = "aevum_data"
    Paths = {"p"}
    MaxConfig = 2
    MaxArgs = 7
    root = root
    u1 = u1
    u2 = u2
    UserKeys = {root, u1, u2}
    Root = root
    Absent = Absent
    UserThreads = {w1, w2}
    Requests <- OneRole
    Keys = {0, 1, 2}
    IdKey = 0
    Names <- MCNames
    Int32 = 4
    Collections <- MCCollections
    Selections <- MCSelections
    SortOrders <- MCSortOrders
    Limits = {1, 2}
    Projections <- MCProjections
    Changes <- MCChanges
    Fillers = {0, 9, 15}
    MaxFields = 4
INVARIANTS WaitMeansDone ObjectsInOnePlace BlocksSound
    SoleOwner FreedOnce ElapsedExact ServesAsConfigured RequestAsTyped
    RolesAgree StoredUserKnown
    PagesFitTogether SelectionsAgree SortIsConsistent
    UpdateRepeats ProjectionKeepsId
    RandomBitsKept FieldsInOrder
PROPERTIES AcceptedTaskRuns PoolShutsDown ResultsArrive
CHECK_DEADLOCK FALSE
