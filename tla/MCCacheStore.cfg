SPECIFICATION Spec
CONSTANTS
    Puts = {p1, p2}
    Gets = {g1}
    Clears = {c1, c2}
    Keys = {k1}
    None = None
    Miss = Miss
    TTL = 0
    Horizon = 1
    Outages = 1
INVARIANTS
    NamesAreWhole
    TempsAreOwned
    RemovalsAddUp
    ClearIsThorough
PROPERTIES
    ImplementsMap
SYMMETRY Symmetry
CHECK_DEADLOCK FALSE
