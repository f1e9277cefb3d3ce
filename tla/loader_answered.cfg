\* Two resolvers, two ids to a batch: timers against full batches.
CONSTANTS
    Reader = {p, q}
    Key = {k, l}
    Version = {v}
    Batch = {b, c}
    MaxBatch = 2
    NoBatch = NoBatch
    Nobody = Nobody
    NotCached = NotCached
    NotAsked = NotAsked
SPECIFICATION FairSpec
INVARIANTS
    TypeOK
    EndedOnce
    WithinLimit
    NobodyForgotten
    IInv
PROPERTIES
    KeysFrozen
    ImplementsPublicUsers
    EveryLoadAnswered
