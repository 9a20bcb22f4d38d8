--------------------------- MODULE MCBookingPages ---------------------------
(* Instances of BookingPages.                                               *)
EXTENDS BookingPages, TLC

CONSTANTS d1, d2, d3, r1, o1, f1, other

Arrival(p, office, floor, date, desk) ==
    [page |-> p, office |-> office, floor |-> floor, date |-> date, desk |-> desk]

\* A link from the menu, "book again" of a desk, and "my bookings".
MCArrivals ==
    {Arrival("room", Nothing, Nothing, Nothing, Nothing),
     Arrival("desk", o1, f1, 0, d1),
     Arrival("mine", Nothing, Nothing, Nothing, Nothing)}

MCLastPairs == {Nothing, [office |-> o1, floor |-> f1], [office |-> other, floor |-> f1]}

\* From inside the window to after it.
MCOtherTimes == {<<2, 5>>}
============================================================================
