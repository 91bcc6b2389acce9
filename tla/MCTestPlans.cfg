SPECIFICATION Spec
CONSTANTS
  Plans = {p1}
  Tickers = {t1, t2}
  Settings <- MCSettings
  RetryLimit = 1
  MaxClock = 1
  ClockLag = 1
  MaxManual = 1
  MaxEdits = 1
  MaxDeaths = 0
INVARIANTS NoOverlap DispatchedOnce OccurrenceOnce
PROPERTIES VerdictIsEarned NothingStale
SYMMETRY Symmetry
VIEW LiveState
