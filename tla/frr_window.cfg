\* Best effort with grants of several frames that the look-ahead row ends, messages
\* so small that grants and confirmations wait for the next one, and a node in the
\* middle of the chain that may lose any message, which others then hear.
CONSTANTS
    n1 = n1
    n2 = n2
    n3 = n3
    n4 = n4
    None = None
    Node <- Nodes
    Nbr <- Chain
    Demand <- BestEffort
    Horizon = 11
    Slots = 2
    UintMod = 1024
    Margin = 0
    Persist = 4
    LookAhead = 3
    NrtpsMin = 1
    Room = 9
    Handshake = 4
    SymPerSlot = 2
    Preamble = 1
    Alpha = 1
    MinGap = 2
    MaxGap = 2
    Lossy = {n3}
    MaxFrame = 7
SPECIFICATION Spec
CHECK_DEADLOCK FALSE
INVARIANTS
    TablesMatchHandshake
    ConfirmedWasGranted
    RequestsResume
    OnlyLiveFramesMarked
PROPERTIES
    GrantsFit
