\* Best effort with grants of one frame, which the look-ahead row covers: the
\* messages and the ends of frames are steps of the handshake of Reservation.
CONSTANTS
    n1 = n1
    n2 = n2
    n3 = n3
    n4 = n4
    None = None
    Node <- Nodes
    Nbr <- Chain
    Demand <- BestEffort
    Horizon = 4
    Slots = 3
    UintMod = 1024
    Margin = 0
    Persist = 1
    LookAhead = 0
    NrtpsMin = 1
    Room = 100
    Handshake = 2
    SymPerSlot = 2
    Preamble = 1
    Alpha = 1
    MinGap = 2
    MaxGap = 2
    Lossy = {}
    MaxFrame = 6
SPECIFICATION Spec
CHECK_DEADLOCK FALSE
INVARIANTS
    NoCollision
PROPERTIES
    ImplementsReservation
