---------------------------- MODULE MCReservation ----------------------------
(***************************************************************************)
(* Instances of Reservation for TLC: one provider, appointments on a clock *)
(* of a few ticks.                                                         *)
(***************************************************************************)
EXTENDS Reservation, TLC

\* All bookings ask for the same provider and the same interval.
MCProviderOf == [b \in Bookings |-> "provider"]
MCStartOf    == [b \in Bookings |-> 2]
MCEndOf      == [b \in Bookings |-> 3]

\* Bookings, orders and handlers are interchangeable.
Symmetric == Permutations(Bookings) \cup Permutations(Orders)
               \cup Permutations(Handlers)

=============================================================================
