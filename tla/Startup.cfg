CONSTANTS
  Cases <- MCCases
  Second = 2
  MAX_DURATION = 20
  InstantLimit = 40
  MAX_BUFFER_SIZE = 128
  MIN_SIZE = 68
  PER_CORE_MBPS = 1500
  PER_USER_KBPS = 200
  PER_SESSION_KB = 200
  MEM_BUDGET_PCT = 50
  FD_RESERVE_DEFAULT = 1024
  FD_PER_SESSION = 2
  MaxU64 = 2147483647
SPECIFICATION StartupSpec
INVARIANTS
  AcceptedIsUsable
  AutoIsSafe
CHECK_DEADLOCK FALSE
