--------------------------- MODULE StatusMachines ---------------------------
(***************************************************************************)
(* The two status machines of the domain layer: the enums of the Prisma    *)
(* schema and the transition tables every service consults before it       *)
(* writes a status.  "NONE" is not a status of the program: it stands for  *)
(* a row that does not exist yet.                                          *)
(***************************************************************************)

BookingStatus == {"PENDING_PAYMENT", "CONFIRMED", "PAYMENT_FAILED",
                  "COMPLETED", "CANCELLED", "EXPIRED"}

PaymentStatus == {"CREATED", "PENDING", "SUCCESS", "FAILED", "REFUNDED"}

BookingRowStatus == BookingStatus \cup {"NONE"}
PaymentRowStatus == PaymentStatus \cup {"NONE"}

VALID_BOOKING_TRANSITIONS ==
  [s \in BookingStatus |->
     CASE s = "PENDING_PAYMENT" ->
            {"CONFIRMED", "PAYMENT_FAILED", "CANCELLED", "EXPIRED"}
       [] s = "CONFIRMED"       -> {"COMPLETED", "CANCELLED"}
       [] s = "PAYMENT_FAILED"  -> {"PENDING_PAYMENT", "EXPIRED"}
       [] OTHER                 -> {}]

\* (Mutant: the table is not consulted, the status only has to change.)
DiffersFrom(current, next) == current \in BookingStatus /\ current # next

canTransitionBooking(current, next) ==
  current \in BookingStatus /\ next \in VALID_BOOKING_TRANSITIONS[current]

VALID_PAYMENT_TRANSITIONS ==
  [s \in PaymentStatus |->
     CASE s = "CREATED" -> {"PENDING", "SUCCESS", "FAILED"}
       [] s = "PENDING" -> {"SUCCESS", "FAILED"}
       [] s = "SUCCESS" -> {"REFUNDED"}
       [] OTHER         -> {}]

\* Unlike its booking counterpart it accepts an idempotent transition.
canTransitionPayment(current, next) ==
  \/ current = next
  \/ current \in PaymentStatus /\ next \in VALID_PAYMENT_TRANSITIONS[current]

\* The statuses covered by the exclusion constraint's WHERE clause: a booking
\* in one of them holds its time slot.
HoldsSlot == {"PENDING_PAYMENT", "CONFIRMED"}

=============================================================================
