SPECIFICATION FairSpec
CONSTANTS
    Nodes <- MCNodes
    neighbors <- MCneighbors
    Setups <- MCSetups
CHECK_DEADLOCK FALSE
INVARIANTS
    NeighborsAnswered
    OneTurn
    RequestKept
PROPERTY EntryEnds
