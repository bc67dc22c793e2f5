SPECIFICATION Spec
CONSTANTS
  None = None
  FirstYear = 2022
  LastYear = 2028
  Configs <- MCConfigs
  FirstDays <- MCFirstDays
  Delays <- MCDelays
  Horizon <- MCHorizon
INVARIANTS DueIsNextMatch PeriodicKeepsCycle SpendIsThisMonths
CHECK_DEADLOCK FALSE
