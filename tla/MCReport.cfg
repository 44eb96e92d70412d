SPECIFICATION Spec
CONSTANTS
    Categories = {"families", "tags"}
    Texts = 3
    Pool <- MCPool
    MaxPulses = 3
    MaxCount = 4
    MaxReferences = 2
    Limits = {0, 1, 3}
    Tops <- MCTops
    DefaultLimit = 2
    DefaultTop = 2
INVARIANTS
    VotesAreReports
    ListedAreNewest
    TrimIsHonest
    RankingIsStable
CHECK_DEADLOCK FALSE
