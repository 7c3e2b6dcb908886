SPECIFICATION Spec
CONSTANTS
    C = 3
    N = 3
    T = 2
    H = 2
    Neighbors = {"a", "b"}
    Grants <- SomeGrants
    Configs <- SomeConfigs
    MaxFrame = 7
INVARIANTS
    ListensOnChannel
