CONSTANTS
    Workers = {w1, w2}
    Tokens = {t1, t2}
    Passwords = {p1, p2}
    None = None
    TokenSet = TokenSet
    MaxChanges = 1
    Conns = {c1, c2}
    Env = {"overlap", "redis", "mysql", "left"}
SPECIFICATION Spec
SYMMETRY Symmetry
INVARIANTS
    TrackedUnlessRaced
    LogoutEnds
    OnlyOverlapsSurvive
CHECK_DEADLOCK FALSE
