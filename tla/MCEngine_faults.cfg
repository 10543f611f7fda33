SPECIFICATION Spec
CONSTANTS
    k1 = k1
    k2 = k2
    v1 = v1
    v2 = v2
    t1 = t1
    t2 = t2
    Ids = {k1, k2}
    EmptyId = EmptyId
    NonString = NonString
    Vals = {v1, v2}
    TaggedVals = {}
    FieldText <- TextInV1
    Missing = Missing
    Keep = Keep
    NoSchema = NoSchema
    Threads = {t1, t2}
    NoThread = NoThread
    Inserts <- SomeInserts
    Queries <- SomeQueries
    Updates <- ValUpdates
    NewSchemas <- StrictSchema
    FaultsAllowed = {"put", "remove", "drop", "open", "insert", "load"}
    InitialDefs = FALSE
    LoadsBeforeIndexes = FALSE
SYMMETRY Symmetry
INVARIANTS FullInv Mirror StoredIsVisible
PROPERTY UpdateKeepsDocs
