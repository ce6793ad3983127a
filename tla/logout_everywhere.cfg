SPECIFICATION Spec
CONSTANTS
    None = None
    p1 = p1   p2 = p2   c1 = c1   c2 = c2   c3 = c3   c4 = c4
    f1 = f1   f2 = f2   t1 = t1   t2 = t2   t3 = t3
    Calls = {c1, c2, c3, c4}
    Families = {f1, f2}
    Tokens = {t1, t2, t3}
    Passwords = {p1, p2}
    MaxSecret = 2
    MaxEra = 2
    Scenes = {"devices"}
    Ops <- MCOps
    User0 <- MCUser0
SYMMETRY Alike
CHECK_DEADLOCK FALSE
INVARIANT SweepSeesAll
