SPECIFICATION FairSpec
CONSTANTS
    k1 = k1
    k2 = k2
    v1 = v1
    v2 = v2
    t1 = t1
    t2 = t2
    Ids = {k1, k2}
    EmptyId = EmptyId
    NonString = NonString
    Vals = {v1, v2}
    TaggedVals = {}
    FieldText <- TwoTexts
    Missing = Missing
    Keep = Keep
    NoSchema = NoSchema
    Threads = {t1, t2}
    NoThread = NoThread
    Inserts <- PlainInserts
    Queries <- KeyQueries
    Updates <- AllUpdates
    NewSchemas = {}
    FaultsAllowed = {"put", "insert", "load"}
    InitialDefs = TRUE
    LoadsBeforeIndexes = FALSE
INVARIANT IndexComplete
PROPERTIES LockReleased ImplementsDocumentStore
