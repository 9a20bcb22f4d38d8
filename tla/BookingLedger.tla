----------------------------- MODULE BookingLedger -----------------------------
(***************************************************************************)
(* What desk booking promises, with every request taking effect at one     *)
(* instant: a set of open desks and a set of live bookings, each one       *)
(* booking a row [desk, user, date].  Booking needs an open desk that is   *)
(* free on that date and a user without a desk on that date; retiring a    *)
(* desk closes it for good and cancels what was booked on it, in the same  *)
(* step.  DeskBooking implements this with row locks, statements that each *)
(* see what is committed when they start, and copies read before the lock. *)
(***************************************************************************)
CONSTANTS Users, Desks, Dates

VARIABLES open,     \* the desks that are in service
          booked    \* the bookings in force

ledgerVars == <<open, booked>>

Entry == [desk : Desks, user : Users, date : Dates]

\* Two entries that may not be in force together: one desk or one user on a date.
Clash(e, f) == e.date = f.date /\ (e.desk = f.desk \/ e.user = f.user)

Init == open = Desks /\ booked = {}

Book(e) ==
  /\ e.desk \in open
  /\ \A f \in booked : ~Clash(e, f)
  /\ booked' = booked \cup {e}
  /\ UNCHANGED open

Cancel(e) ==
  /\ e \in booked
  /\ booked' = booked \ {e}
  /\ UNCHANGED open

Retire(d) ==
  /\ d \in open
  /\ open' = open \ {d}
  /\ booked' = {e \in booked : e.desk # d}

Next == \/ \E e \in Entry : Book(e) \/ Cancel(e)
        \/ \E d \in Desks : Retire(d)

Spec == Init /\ [][Next]_ledgerVars
================================================================================
