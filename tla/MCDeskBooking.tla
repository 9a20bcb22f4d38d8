----------------------------- MODULE MCDeskBooking -----------------------------
(***************************************************************************)
(* Instances of DeskBooking for TLC.  A member and an admin book, cancel   *)
(* and retire; the admin is also a booker.                                 *)
(***************************************************************************)
EXTENDS DeskBooking, TLC

CONSTANTS u1, u2, admin

Everyone  == {u1, u2, admin}
MemberAnd == {u1, admin}
Managers  == {admin}

DeactivationKinds == {"book", "deleteDesk", "patchDesk"}

FloorKinds == {"book", "patchFloor"}

RetireKinds == {"book", "cancel", "deleteDesk", "retireDesk"}

\* Workers, desks, dates and row ids are told apart by nothing.
Symmetric == Permutations(Workers) \cup Permutations(Desks)
               \cup Permutations(Dates) \cup Permutations(BookingIds)
================================================================================
