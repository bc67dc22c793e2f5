CONSTANTS
    Users = {ann}
    Jars = {b1}
    Requests = {r1, r2}
    Tokens = {t1, t2, t3}
    Links = {l1}
    MaxPassword = 3
    None = None
    Keep = Keep
SPECIFICATION Spec
SYMMETRY Sym
INVARIANT LinkWorksOnce
