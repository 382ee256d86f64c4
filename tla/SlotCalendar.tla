---------------------------- MODULE SlotCalendar ----------------------------
(***************************************************************************)
(* What the bookings table promises about time slots, and nothing else:    *)
(* a booking is granted its slot only while no conflicting booking holds   *)
(* one, one booking at a time, and may give it back at any time.  How a    *)
(* booking comes to ask for its slot (a new reservation, a late payment)   *)
(* and why it lets go of it is left open.                                  *)
(***************************************************************************)
CONSTANTS
  Bookings,   \* who may hold a slot
  Conflicts   \* pairs of bookings whose slots overlap at one provider

VARIABLE held \* bookings that hold their slot

Init == held = {}

Grant(b) ==
  /\ b \notin held
  /\ \A c \in held : <<b, c>> \notin Conflicts
  /\ held' = held \cup {b}

Release(b) ==
  /\ b \in held
  /\ held' = held \ {b}

Next == \E b \in Bookings : Grant(b) \/ Release(b)

Spec == Init /\ [][Next]_held

=============================================================================
