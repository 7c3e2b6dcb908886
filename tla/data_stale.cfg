SPECIFICATION Spec
CONSTANTS
    f = f
    g = g
    h = h
    Flow <- ThreeFlows
    Serv <- Services
    Weight <- Weights
    Header <- Headers
    Fsh = 1
    MinSize = 3
    FsnSize = 2
    roundDuration = 10
    Sizes <- Lengths
    Grants = {5, 8}
    Configs <- SomeConfigs
INVARIANT UnfinishedPointsToFlow
