CONSTANTS
    m1 = m1
    m2 = m2
    Request = {m1, m2}
    Decisions = {"approve", "reject", "delete"}
    MaxDecisions = 4
SYMMETRY Moderators
SPECIFICATION Spec
INVARIANTS TypeOK RowsAgree BuildSurvives
CHECK_DEADLOCK FALSE
