\* Two queries and a mutation of about ten positions each.
\* An operation that has been answered is over.
CONSTANTS
    Operation <- MCOperation
    Field <- MCField
    Element <- MCElement
    ParentOf <- MCParentOf
    Under <- MCUnder
    Coordinate <- MCCoordinate
    Index <- MCIndex
    ShowingOf <- MCShowingOf
SPECIFICATION FairSpec
INVARIANTS
    NobodyStuck
    HandoverNoticed
    IInv
PROPERTIES
    ImplementsResponse
    EveryOperationAnswered
CHECK_DEADLOCK FALSE
