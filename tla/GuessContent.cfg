SPECIFICATION Spec
CONSTANTS
    u1 = u1  u2 = u2  p1 = p1  p2 = p2  p3 = p3  fair = fair  poor = poor
    Users = {u1, u2}
    Posts = {p1, p2, p3}
    Author <- MCAuthor
    Recent = {p1, p3}
    FirstText <- MCFirstText
    Texts = {fair, poor}
    Metrics <- MCMetrics
    Bots = {}
    Curated = {p1, p2}
    Moderators = {m1, m2}
    Imports = {i1, i2}
    Players = {q1, q2}
    Conns = {c1, c2}
    NoRow = NoRow
    PageSize = 2
    Rounds = 1
    FreeRounds = 2
    PostsPerRound = 1
    ChoicesPerRound = 2
    MinApproved = 1
    MaxDay = 2
    MaxRuns = 2
    MaxEvents = 4
SYMMETRY Symmetry
CHECK_DEADLOCK FALSE
INVARIANTS
    TypeOK
    OneImportAtATime
    SuccessCountsItsPosts
    RevisionsTellHistory
    EveryoneGetsTheDay
PROPERTIES
    DecidedWhatWasRead
