\* One tab, no losses, a session that outlives the round.
SPECIFICATION PlaySpec
CONSTANTS
    Games = {g}
    Players = {s1, s2, s3, s4}
    RoundsIn <- MCRoundsIn
    Posts = 1
    Choices = {a, b}
    Target = a
    MaxWrong = 1
    RoundExpiry = 1
    GameExpiry = 2
    NoRow = NoRow
    Tabs = {t1}
    SessionAge = 3
    RotateAge = 3
    MaxClock = 1
    MaxTrouble = 0
PROPERTY ReachesResults
CHECK_DEADLOCK FALSE
