SPECIFICATION HistorySpec
CONSTANTS
  v1 = v1
  v2 = v2
  Histories = {v1, v2}
  Ages = {1, 3, 4}
  Slack = 2
  MaxTime = 13
INVARIANTS
  NearestIsSaved
CHECK_DEADLOCK FALSE
