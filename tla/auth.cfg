SPECIFICATION Spec
CONSTANTS
    Slots = {s1, s2}
    Clients = {c1, c2}
    Users = {u1}
    Passwords = {p1, p2}
    Tokens = {t1, t2, t3}
    Lifetime = 1
    MaxTime = 2
    None = None
SYMMETRY Symmetric
INVARIANTS
    TypeOK
    SessionNeverForks
    SessionKept
PROPERTIES
    ImplementsSessions
