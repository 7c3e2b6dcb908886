SPECIFICATION Spec
CONSTANTS
    a = a
    b = b
    c = c
    x = x
    k0 = k0
    k1 = k1
    Source = {a, b, c}
    Neighbor = {a, b}
    Channel = {k0, k1}
    Kinds <- MCKinds
    MaxRun = 1
    MaxHeld = 3
    OldAge = 4
    Setups <- MCSetups
SYMMETRY MCSymmetry
INVARIANTS
    GarbledIsDropped
    WholeIsDecoded
PROPERTY PendingKept
