\* Two tabs of one browser, three calls in flight, two clicks, one mishap.
SPECIFICATION ConsoleSpec
CONSTANTS
    t1 = t1
    t2 = t2
    r1 = r1
    r2 = r2
    x = x
    y = y
    Tabs = {t1, t2}
    Slots = {k1, k2, k3}
    Scenes <- MCScenes
    Links = {l1, l2}
    Rows = {r1, r2}
    Catalog <- MCCatalog
    NoRow = NoRow
    MaxShots = 2
    MaxClicks = 2
    MaxTrouble = 1
    Sessions = 5
SYMMETRY SlotSymmetry
INVARIANTS
    ConsoleTypeOK
    
    NothingHidden
    OneDecisionApplied
CHECK_DEADLOCK FALSE
