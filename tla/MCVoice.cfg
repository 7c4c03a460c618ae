SPECIFICATION FairSpec
CONSTANTS
  QueueSize = 2
  MaxNotices = 1
  None = None
  Pipes = {p1, p2}
  Tokens <- MCTokens
  Scenarios <- MCScenarios
INVARIANTS MonitoredCapture NoOrphanFiles HeardOnce
PROPERTIES PowerAuthorized Stops Listens NoticeSettled DarkAgain
CHECK_DEADLOCK FALSE
