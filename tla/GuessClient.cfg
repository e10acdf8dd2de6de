\* Two tabs on one cookie jar, one daily game of one round, one call lost or refused.
SPECIFICATION Spec
CONSTANTS
    Games = {g}
    Players = {s1, s2, s3, s4}
    RoundsIn <- MCRoundsIn
    Posts = 1
    Choices = {a, b}
    Target = a
    MaxWrong = 1
    RoundExpiry = 1
    GameExpiry = 1
    NoRow = NoRow
    Tabs = {t1, t2}
    SessionAge = 1
    RotateAge = 1
    MaxClock = 1
    MaxTrouble = 1
INVARIANTS
    OneClickOneEffect
    ShownSettledIsSettled
    AnswerStaysHidden
CHECK_DEADLOCK FALSE
