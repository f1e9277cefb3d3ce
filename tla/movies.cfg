\* Two imports and the job over two movies.
CONSTANTS
    Movie = {m1, m2}
    Fetch = {p, q}
    Nobody = Nobody
SPECIFICATION FairSpec
INVARIANTS
    NobodyStuck
    IInv
PROPERTIES
    NoLostUpdate
    ImportAllOrNothing
    EveryFetchAnswered
    StopsWhenAsked
