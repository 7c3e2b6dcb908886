\* Five nodes that compete for the same cell.
CONSTANTS
    a = a
    b = b
    c = c
    d = d
    e = e
    Node <- MCNode
    Nbr <- MCNbr
    Cell = {1}
SPECIFICATION Spec
INVARIANTS
    IInv
    NoCollision
