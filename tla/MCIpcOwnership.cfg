SPECIFICATION Spec
CONSTANTS
  Requesters = {r1, r2}
  Daemons = {d1}
  Tickets = {t1, t2}
  NoTicket = NoTicket
  MaxRequests = 3
  Kinds = {"wait", "background", "forget"}
  MaxFree = 1
  MaxTickets = 0
  NoAlerts = FALSE
  DeathCauses = {"close"}
  Faults = {"signal", "pull", "copy", "make"}
  RacyTicketer = FALSE
  ReuseMemory = FALSE
SYMMETRY Symmetric
INVARIANTS NoReuseUnrefreshed FreeListSound NoLeak OwnAnswer UniqueReserved TypeOK
PROPERTIES DisarmsOwnRequest ImplementsFuseRequest
CHECK_DEADLOCK FALSE
