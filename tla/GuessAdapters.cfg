CONSTANTS
    right = right
    wrong1 = wrong1
    wrong2 = wrong2
    alice = alice
    bob = bob
    g1 = g1
    NoRow = NoRow
    Games = {g1}
    Players = {alice, bob}
    RoundsIn <- Rounds
    Posts = 3
    Choices = {right, wrong1, wrong2}
    Target = right
    MaxWrong = 2
    RoundExpiry = 1
    GameExpiry = 2
    MaxTokens = 2
    MaxTime = 3
SYMMETRY Interchangeable
SPECIFICATION BothSpec
INVARIANT SameGameKept
PROPERTY AnswersAgree
CHECK_DEADLOCK FALSE
