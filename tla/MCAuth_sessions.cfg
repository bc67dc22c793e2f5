CONSTANTS
    Users = {ann}
    Jars = {b1}
    Requests = {r1, r2}
    Tokens = {t1, t2, t3}
    Links = {l1, l2}
    MaxPassword = 2
    None = None
    Keep = Keep
SPECIFICATION Spec
CONSTRAINT Budget
SYMMETRY Sym
INVARIANTS TypeOK OneLiveTokenPerSession ResetEndsSessions EndedStaysEnded JarHoldsSession
PROPERTIES SessionsImplemented ReplacedLinkDies
