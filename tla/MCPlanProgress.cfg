SPECIFICATION FairSpec
CONSTANTS
  Plans = {p1}
  Tickers = {t1, t2}
  Settings <- MCSettings
  RetryLimit = 1
  MaxClock = 1
  ClockLag = 0
  MaxManual = 0
  MaxEdits = 1
  MaxDeaths = 1
PROPERTIES PlansProgress
