SPECIFICATION Spec
CONSTANTS
  u1 = u1
  u2 = u2
  admin = admin
  None = None
  Workers = {w1, w2}
  Users <- MemberAnd
  Admins <- Managers
  Desks = {d1}
  Dates = {t1}
  BookingIds = {b1, b2}
  Kinds <- FloorKinds
CHECK_DEADLOCK FALSE
PROPERTIES DraftNeverBooked
