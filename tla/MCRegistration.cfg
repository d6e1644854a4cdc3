CONSTANTS
    r1 = r1
    r2 = r2
    u1 = u1
    u2 = u2
    l1 = l1
    ann = ann
    mail = mail
    empty = empty
    Requests = {r1, r2, u1, u2, l1}
    Kind <- Kinds
    Name <- Names
    Email <- Emails
    Conns = {c1, c2}
    None = None
    Env = {"lost", "errors"}
SPECIFICATION Spec
INVARIANTS
    NoLeftovers
    AllOrNothing
PROPERTIES
    LoginsFindTheRegistered
CHECK_DEADLOCK FALSE
