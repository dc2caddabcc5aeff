SPECIFICATION FairSpec
CONSTANTS
    Key = {1, 2}
    Data = {""}
    c1 = c1
    c2 = c2
    purge = purge
    Client = {c1, c2}
    Reader <- MCReader
    MaxId = 2
INVARIANTS
    StoreIsSound
    IterationMissesNothing
PROPERTIES
    MapSpec
    EntriesExpire
