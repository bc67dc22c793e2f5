SPECIFICATION Spec
CONSTANTS
  Clients = {c1, c2, c3}
  Limit = 2
  Window = 3
  TicksPerSecond = 2
  MaxClients = 2
SYMMETRY Sym
INVARIANTS TypeOK WindowBound DequesBounded LruOrder RetryAfterHonoured
