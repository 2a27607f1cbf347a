SPECIFICATION MCStandingSpec
CONSTANTS
  c1 = c1
  c2 = c2
  c3 = c3
  c4 = c4
  Nobody = Nobody
  Callers <- FourCallers
  Fresh <- OneFresh
  Gated = TRUE
  Checkers = {k1, k2}
  Askers = {o1}
  NoProc = none
  Corpse = corpse
  MaxIntents = 2
  Kinds <- SomeKinds
  ConsumedCap = 1
  MaxOcc = 2
  MaxTasks = 6
  MaxFaults = 1
  Tickers = {t1, t2}
  Keepers = {e1}
  NoTick = none
  DeadTick = corpse
  Recs = {r1}
  MaxTries = 2
  MaxOlder = 1
  MaxLost = 1
  MaxChanges = 3
  Dogs = {d1, d2}
  MaxEpisodes = 3
INVARIANTS StandingTypeOK SentOnlyIfGranted FiredOncePerFault HaltsAtCeiling
PROPERTIES OneOpenEffect HistoryKept Fires OrderHolds Converges FirstTripKept
CHECK_DEADLOCK FALSE
