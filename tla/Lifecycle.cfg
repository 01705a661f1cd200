SPECIFICATION Spec
CONSTANTS
    Process = {p1, p2}
    Object = {o1, o2}
    NoObject = none
    Build = {"v1", "v2"}
    Size <- MCSize
    Version <- MCVersion
VIEW MCView
SYMMETRY MCSymmetry
INVARIANTS
    TypeOK
    AttachedIsInitialized
    NothingLeaks
    AvailableIsOpened
