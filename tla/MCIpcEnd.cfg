CONSTANTS
  Requesters = {r1, r2}
  Daemons = {d1}
  Tickets = {t1, t2, t3}
  NoTicket = NoTicket
  MaxRequests = 2
  Kinds = {"wait"}
  MaxFree = 2
  MaxTickets = 1
  NoAlerts = FALSE
  DeathCauses = {"kill", "timeout", "ioctl", "shortread"}
  Faults = {"signal"}
  RacyTicketer = FALSE
  ReuseMemory = FALSE
SPECIFICATION KernelSpec
CHECK_DEADLOCK FALSE
 
PROPERTIES DrainReleasesAll RequestsAreServed RequestsEndInTime
