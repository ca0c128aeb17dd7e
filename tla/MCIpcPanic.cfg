CONSTANTS
  Requesters = {r1, r2, r3}
  Daemons = {d1}
  Tickets = {t1, t2}
  NoTicket = NoTicket
  MaxRequests = 3
  Kinds = {"wait"}
  MaxFree = 2
  MaxTickets = 0
  NoAlerts = FALSE
  DeathCauses = {"close", "timeout"}
  Faults = {}
  RacyTicketer = FALSE
  ReuseMemory = FALSE
SPECIFICATION Spec
SYMMETRY Symmetric
CHECK_DEADLOCK FALSE
INVARIANT NoReuseUnrefreshed
