CONSTANTS
    Workers = {w1, w2}
    MaxUpdates = 2
    None = None
    Conns = {c1, c2}
    Env = {"overlap", "redis", "mysql", "removed", "left"}
SPECIFICATION Spec
SYMMETRY Symmetry
INVARIANTS
    StaleOnlyIfKnown
    AnswersFresh
CHECK_DEADLOCK FALSE
