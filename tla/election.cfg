SPECIFICATION FairSpec
CONSTANTS
    N = 4
    Infinity = 100
    Node <- Id
    Meshes <- Graphs
    OneHop <- MCOneHop
    TwoHop <- MCTwoHop
    Smear1 <- MCSmear1
    Smear2 <- MCSmear2
    HoldoffExp <- ZeroOne
    Base = 5
    First <- FirstById
    Types <- BothTypes
    MaxAdvertised = 1
    Period = 7
    Horizon = 36
    Stamps <- LongMessages
INVARIANTS NoSharedSlot KnowledgeSound ElectionEnds RoutesLead
PROPERTIES ImplementsControlAccess EveryNodeTransmits
