SPECIFICATION FairSpec
CONSTANTS
  u1 = u1
  u2 = u2
  admin = admin
  None = None
  Workers = {w1, w2, w3}
  Users <- Managers
  Admins <- Managers
  Desks = {d1}
  Dates = {t1}
  BookingIds = {b1, b2}
  Kinds <- RetireKinds
CHECK_DEADLOCK FALSE
INVARIANTS NoBookingOnRetiredDesk
PROPERTIES LedgerSpec EveryRequestEnds
