CONSTANTS
    p1 = p1
    p2 = p2
    right = right
    wrong1 = wrong1
    wrong2 = wrong2
    alice = alice
    g1 = g1
    k1 = k1
    NoRow = NoRow
    Fresh = Fresh
    Games = {g1}
    Players = {alice}
    RoundsIn <- Rounds
    Posts = 2
    Choices = {right, wrong1, wrong2}
    Target = right
    MaxWrong = 2
    RoundExpiry = 1
    GameExpiry = 1
    Slots = {p1, p2}
    Keys = {k1}
    Retried = {"advance", "hint"}
    MaxClock = 1
SYMMETRY Interchangeable
SPECIFICATION Spec
INVARIANTS TypeOK RunOnce RoundLedger ScoreIsSum NothingLeftOpen
PROPERTY SettledStands
CHECK_DEADLOCK FALSE
