SPECIFICATION Spec
CONSTANTS
  None = None
  FirstYear = 2024
  LastYear = 2025
  Requests = {r1, r2}
  Configs <- MCConfigs
  Updates <- MCUpdates
  Today0 <- MCToday0
  Days <- MCDays
SYMMETRY Sym
CHECK_DEADLOCK FALSE
PROPERTY ExpenseAdvancesDue
