CONSTANTS
  web = web
  dns = dns
  game = game
  direct = direct
  bound = bound
  p1 = p1
  p2 = p2
  DefaultDirect = direct
  MaxCache = 2
  MaxErrors = 2
  BufLimit = 1
  IdleTimeout = 1
  Interval = 1
CHECK_DEADLOCK FALSE
CONSTANTS
  Targets = {web, dns, game}
  Handlers = {direct, bound, p1, p2}
  DirectHandlers = {direct, bound}
  UdpHandlers = {p1, p2}
  Routes <- MCRoutes
SPECIFICATION FairSpec
INVARIANTS
  NeverThroughAnotherProxy
  NoPacketLeftBehind
  IdleEnds
PROPERTY KickedEnds
