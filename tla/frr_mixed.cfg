\* The three services on the same links, in small messages: UGS has a minislot for
\* each of its flows, the others take what is left or borrow it.
CONSTANTS
    n1 = n1
    n2 = n2
    n3 = n3
    n4 = n4
    None = None
    Node <- Nodes
    Nbr <- Chain
    Demand <- Mixed
    Horizon = 4
    Slots = 4
    UintMod = 1024
    Margin = 0
    Persist = 2
    LookAhead = 1
    NrtpsMin = 4
    Room = 20
    Handshake = 2
    SymPerSlot = 2
    Preamble = 1
    Alpha = 1
    MinGap = 2
    MaxGap = 2
    Lossy = {}
    MaxFrame = 6
SPECIFICATION Spec
CHECK_DEADLOCK FALSE
INVARIANTS
    TypeOK
    WaitsOnce
    GrantsEnd
    UgsInEveryRow
    NoTableCollision
