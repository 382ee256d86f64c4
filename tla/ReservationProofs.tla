-------------------------- MODULE ReservationProofs --------------------------
(***************************************************************************)
(* Proofs about Reservation, for every number of bookings, orders and      *)
(* handlers.  ReservationInv is inductive; the theorems at the end follow. *)
(***************************************************************************)
EXTENDS Reservation, TLAPS

-----------------------------------------------------------------------------
(* What the elementary row updates do *)

LEMMA IdleRow == Idle \in Request
BY DEF Idle, Request, Step, BookingRowStatus, PaymentRowStatus

\* Goto moves one handler and touches no other.
LEMMA GotoRow ==
  ASSUME TypeOK, NEW h \in Handlers, NEW step \in Step, Goto(h, step)
  PROVE  /\ req' \in [Handlers -> Request]
         /\ req'[h] = [req[h] EXCEPT !.pc = step]
         /\ \A g \in Handlers \ {h} : req'[g] = req[g]
<1>1. [req[h] EXCEPT !.pc = step] \in Request
  BY DEF TypeOK, Request
<1>2. req' = [req EXCEPT ![h] = [req[h] EXCEPT !.pc = step]]
  BY DEF Goto
<1> QED BY <1>1, <1>2 DEF TypeOK

\* Return resets one handler and touches no other.
LEMMA ReturnRow ==
  ASSUME TypeOK, NEW h \in Handlers, Return(h)
  PROVE  /\ req' \in [Handlers -> Request]
         /\ req'[h] = Idle
         /\ \A g \in Handlers \ {h} : req'[g] = req[g]
BY IdleRow DEF TypeOK, Return

\* updateStatus on a booking changes the status of that booking only.
LEMMA BookingStatusRow ==
  ASSUME TypeOK, NEW b \in Bookings \cup {None},
         NEW status \in BookingRowStatus, UpdateBookingStatus(b, status)
  PROVE  /\ booking' \in [Bookings -> BookingRow]
         /\ b \in Bookings => booking'[b].status = status
         /\ \A c \in Bookings \ {b} : booking'[c] = booking[c]
BY DEF TypeOK, UpdateBookingStatus, BookingRow

\* updateStatus on a payment changes the status of that payment only.
LEMMA PaymentStatusRow ==
  ASSUME TypeOK, NEW o \in Orders \cup {None},
         NEW status \in PaymentRowStatus, UpdatePaymentStatus(o, status)
  PROVE  /\ payment' \in [Orders -> PaymentRow]
         /\ o \in Orders => payment'[o].status = status
         /\ \A x \in Orders : payment'[x].booking = payment[x].booking
         /\ \A x \in Orders \ {o} : payment'[x] = payment[x]
BY DEF TypeOK, UpdatePaymentStatus, PaymentRow

LEMMA PaymentSucceedsRow ==
  ASSUME TypeOK, NEW o \in Orders \cup {None}, PaymentSucceeds(o)
  PROVE  /\ payment' \in [Orders -> PaymentRow]
         /\ o \in Orders => payment'[o].status = "SUCCESS"
         /\ \A x \in Orders : payment'[x].booking = payment[x].booking
         /\ \A x \in Orders \ {o} : payment'[x] = payment[x]
BY DEF TypeOK, PaymentSucceeds, PaymentRow, PaymentRowStatus, PaymentStatus

\* The order and the booking a handler names.
LEMMA HandlerRow ==
  ASSUME TypeOK, NEW h \in Handlers
  PROVE  /\ req[h].o \in Orders \cup {None}
         /\ req[h].b \in Bookings \cup {None}
BY DEF TypeOK, Request

\* Emitted events are events, and carry what they were emitted for.
LEMMA EmitsRow ==
  ASSUME NEW kinds, NEW o \in Orders \cup {None}, NEW ok \in BOOLEAN,
         NEW ev \in Emits(kinds, o, ok)
  PROVE  ev \in Event /\ ev.kind \in kinds /\ ev.order = o
BY InputAssumption DEF Emits, Event

LEMMA AttemptFailedRow ==
  ASSUME NEW job \in Job
  PROVE  AttemptFailed(job) \in Job
<1>1. (IF job.attempts + 1 < Attempts THEN "delayed" ELSE "failed") \in JobState
  BY DEF JobState
<1>2. job.attempts + 1 \in Nat
  BY DEF Job
<1> QED BY <1>1, <1>2 DEF AttemptFailed, Job

\* Records with two fields replaced, and the record of a new refund request.
LEMMA RequestOrder ==
  ASSUME NEW r \in Request, NEW step \in Step, NEW o \in Orders \cup {None}
  PROVE  [r EXCEPT !.pc = step, !.o = o] \in Request
BY DEF Request

LEMMA RequestSeen ==
  ASSUME NEW r \in Request, NEW step \in Step, NEW s \in BookingRowStatus
  PROVE  [r EXCEPT !.pc = step, !.seenB = s] \in Request
BY DEF Request

LEMMA RequestRefund ==
  ASSUME NEW b \in Bookings, NEW o \in Orders, NEW s \in BookingRowStatus,
         NEW amount \in Nat
  PROVE  [Idle EXCEPT !.pc = "refund_gateway", !.b = b, !.o = o,
                      !.seenB = s, !.amount = amount] \in Request
BY DEF Idle, Request, Step, PaymentRowStatus

LEMMA BookingInserted ==
  ASSUME NEW r \in BookingRow, NEW s \in BookingRowStatus,
         NEW o \in Orders \cup {None}
  PROVE  [r EXCEPT !.status = s, !.latest = o] \in BookingRow
BY DEF BookingRow

LEMMA BookingLatest ==
  ASSUME NEW r \in BookingRow, NEW o \in Orders \cup {None}
  PROVE  [r EXCEPT !.latest = o] \in BookingRow
BY DEF BookingRow

LEMMA PaymentFailed ==
  ASSUME NEW r \in PaymentRow
  PROVE  [r EXCEPT !.status = "FAILED", !.gatewayPaymentId = TRUE] \in PaymentRow
BY DEF PaymentRow, PaymentRowStatus, PaymentStatus

-----------------------------------------------------------------------------

\* Every step keeps every table, queue and handler well typed.
LEMMA StepTypes ==
  ASSUME ReservationInv, Next
  PROVE  TypeOK'
<1> USE BoundsAssumption, CalendarAssumption, InputAssumption
    DEF ReservationInv, dbVars, queueVars, gatewayVars
<1>1. ASSUME NEW h \in Handlers, NEW b \in Bookings, NEW o \in Orders, CreateStart(h, b, o) PROVE TypeOK'
  <2>1. req' \in [Handlers -> Request]
    BY <1>1 DEF CreateStart, TypeOK, Request, Idle, Step, BookingRowStatus, BookingStatus, PaymentRowStatus, PaymentStatus
  <2>2. ordered' \subseteq Orders
    BY <1>1 DEF CreateStart, CreateGatewayOrder, TypeOK
  <2> QED BY <2>1, <2>2, <1>1 DEF CreateStart, TypeOK
<1>2. ASSUME NEW h \in Handlers, CreateCommit(h) PROVE TypeOK'
  <2>1. booking' \in [Bookings -> BookingRow]
    <3>1. [booking[req[h].b] EXCEPT !.status = "PENDING_PAYMENT",
                                    !.latest = req[h].o] \in BookingRow
      BY <1>2, HandlerRow, BookingInserted
      DEF CreateCommit, At, HandlerBound, TypeOK, BookingRowStatus, BookingStatus
    <3> QED BY <1>2, <3>1 DEF CreateCommit, TypeOK
  <2>2. payment' \in [Orders -> PaymentRow]
    BY <1>2 DEF CreateCommit, TypeOK, PaymentRow, Request, PaymentRowStatus, PaymentStatus
  <2>3. req' \in [Handlers -> Request]
    BY <1>2, GotoRow DEF CreateCommit, Step
  <2> QED BY <2>1, <2>2, <2>3, <1>2 DEF CreateCommit, TypeOK
<1>3. ASSUME NEW h \in Handlers, CreateConflict(h) PROVE TypeOK'
  <2>1. req' \in [Handlers -> Request]
    BY <1>3, ReturnRow DEF CreateConflict
  <2> QED BY <2>1, <1>3 DEF CreateConflict, TypeOK
<1>4. ASSUME NEW h \in Handlers, CreateSchedule(h) PROVE TypeOK'
  <2>1. expireJob' \in [Bookings -> Job]
    <3>1. [state |-> "delayed", due |-> now + PaymentWindow, attempts |-> 0]
            \in Job
      BY DEF TypeOK, Job, JobState
    <3> QED BY <1>4, <3>1 DEF CreateSchedule, TypeOK
  <2>2. req' \in [Handlers -> Request]
    BY <1>4, ReturnRow DEF CreateSchedule
  <2> QED BY <2>1, <2>2, <1>4 DEF CreateSchedule, TypeOK
<1>5. ASSUME NEW h \in Handlers, NEW b \in Bookings, OrderRead(h, b) PROVE TypeOK'
  <2>1. req' \in [Handlers -> Request]
    BY <1>5 DEF OrderRead, TypeOK, Request, Idle, Step, BookingRowStatus, BookingStatus, PaymentRowStatus, PaymentStatus
  <2> QED BY <2>1, <1>5 DEF OrderRead, TypeOK
<1>6. ASSUME NEW h \in Handlers, OrderReuse(h) PROVE TypeOK'
  <2>1. req' \in [Handlers -> Request]
    BY <1>6, ReturnRow DEF OrderReuse
  <2> QED BY <2>1, <1>6 DEF OrderReuse, TypeOK
<1>7. ASSUME NEW h \in Handlers, NEW o \in Orders, OrderCreate(h, o) PROVE TypeOK'
  <2>1. req' \in [Handlers -> Request]
    <3>1. [req[h] EXCEPT !.pc = "order_insert", !.o = o] \in Request
      BY RequestOrder DEF TypeOK, Step
    <3> QED BY <1>7, <3>1 DEF OrderCreate, TypeOK
  <2>2. ordered' \subseteq Orders
    BY <1>7 DEF OrderCreate, CreateGatewayOrder, TypeOK
  <2> QED BY <2>1, <2>2, <1>7 DEF OrderCreate, TypeOK
<1>8. ASSUME NEW h \in Handlers, OrderInsert(h) PROVE TypeOK'
  <2>1. booking' \in [Bookings -> BookingRow]
    <3>1. [booking[req[h].b] EXCEPT !.latest = req[h].o] \in BookingRow
      <4>1. booking[req[h].b] \in BookingRow /\ req[h].o \in Orders \cup {None}
        BY <1>8, HandlerRow DEF OrderInsert, At, HandlerBound, TypeOK
      <4> QED BY <4>1, BookingLatest
    <3> QED BY <1>8, <3>1 DEF OrderInsert, TypeOK
  <2>2. payment' \in [Orders -> PaymentRow]
    BY <1>8 DEF OrderInsert, TypeOK, PaymentRow, Request, PaymentRowStatus, PaymentStatus
  <2>3. req' \in [Handlers -> Request]
    BY <1>8, ReturnRow DEF OrderInsert
  <2> QED BY <2>1, <2>2, <2>3, <1>8 DEF OrderInsert, TypeOK
<1>9. ASSUME NEW h \in Handlers, NEW o \in Orders, VerifyRead(h, o) PROVE TypeOK'
  <2>1. req' \in [Handlers -> Request]
    BY <1>9 DEF VerifyRead, TypeOK, RowsLinked, Request, Idle, Step, BookingRowStatus, BookingStatus, PaymentRowStatus, PaymentStatus
  <2> QED BY <2>1, <1>9 DEF VerifyRead, TypeOK
<1>10. ASSUME NEW h \in Handlers, VerifyCommit(h) PROVE TypeOK'
  <2>1. booking' \in [Bookings -> BookingRow]
    BY <1>10, BookingStatusRow, HandlerRow DEF VerifyCommit, BookingRowStatus, BookingStatus
  <2>2. payment' \in [Orders -> PaymentRow]
    BY <1>10, PaymentSucceedsRow, HandlerRow DEF VerifyCommit
  <2>3. req' \in [Handlers -> Request]
    BY <1>10, GotoRow DEF VerifyCommit, Step
  <2> QED BY <2>1, <2>2, <2>3, <1>10 DEF VerifyCommit, TypeOK
<1>11. ASSUME NEW h \in Handlers, VerifyConflict(h) PROVE TypeOK'
  <2>1. req' \in [Handlers -> Request]
    BY <1>11, ReturnRow DEF VerifyConflict
  <2> QED BY <2>1, <1>11 DEF VerifyConflict, TypeOK
<1>12. ASSUME NEW h \in Handlers, NEW ev \in sent, WebhookIgnore(h, ev) PROVE TypeOK'
  <2>1. events' \subseteq Event
    BY <1>12 DEF WebhookIgnore, TypeOK
  <2> QED BY <2>1, <1>12 DEF WebhookIgnore, TypeOK
<1>13. ASSUME NEW h \in Handlers, NEW ev \in sent, WebhookRead(h, ev) PROVE TypeOK'
  <2>1. req' \in [Handlers -> Request]
    BY <1>13 DEF WebhookRead, TypeOK, RowsLinked, PaymentRow, Request, Idle, Step, BookingRowStatus, BookingStatus
  <2> QED BY <2>1, <1>13 DEF WebhookRead, TypeOK
<1>14. ASSUME NEW h \in Handlers, WebhookBegin(h) PROVE TypeOK'
  <2>1. req' \in [Handlers -> Request]
    <3>1. booking[req[h].b].status \in BookingRowStatus
      BY <1>14 DEF WebhookBegin, At, HandlerBound, TypeOK, BookingRow
    <3>2. [req[h] EXCEPT !.pc = "webhook_tx",
                         !.seenB = booking[req[h].b].status] \in Request
      BY <3>1, RequestSeen DEF TypeOK, Step
    <3> QED BY <1>14, <3>2 DEF WebhookBegin, TypeOK
  <2> QED BY <2>1, <1>14 DEF WebhookBegin, TypeOK
<1>15. ASSUME NEW h \in Handlers, WebhookDuplicate(h) PROVE TypeOK'
  <2>1. req' \in [Handlers -> Request]
    BY <1>15, ReturnRow DEF WebhookDuplicate
  <2> QED BY <2>1, <1>15 DEF WebhookDuplicate, TypeOK
<1>16. ASSUME NEW h \in Handlers, WebhookConfirm(h) PROVE TypeOK'
  <2>1. booking' \in [Bookings -> BookingRow]
    BY <1>16, BookingStatusRow, HandlerRow DEF WebhookConfirm, BookingRowStatus, BookingStatus
  <2>2. payment' \in [Orders -> PaymentRow]
    BY <1>16, PaymentSucceedsRow, HandlerRow DEF WebhookConfirm
  <2>3. events' \subseteq Event
    BY <1>16 DEF WebhookConfirm, RecordEvent, TypeOK, HandlerBound, WebhookSteps, At
  <2>4. req' \in [Handlers -> Request]
    BY <1>16, GotoRow DEF WebhookConfirm, Step
  <2> QED BY <2>1, <2>2, <2>3, <2>4, <1>16 DEF WebhookConfirm, TypeOK
<1>17. ASSUME NEW h \in Handlers, WebhookConflict(h) PROVE TypeOK'
  <2>1. req' \in [Handlers -> Request]
    BY <1>17, ReturnRow DEF WebhookConflict
  <2> QED BY <2>1, <1>17 DEF WebhookConflict, TypeOK
<1>18. ASSUME NEW h \in Handlers, WebhookFlag(h) PROVE TypeOK'
  <2>1. payment' \in [Orders -> PaymentRow]
    BY <1>18, PaymentSucceedsRow, HandlerRow DEF WebhookFlag
  <2>2. events' \subseteq Event
    BY <1>18 DEF WebhookFlag, RecordEvent, TypeOK, HandlerBound, WebhookSteps, At
  <2>3. flagged' \subseteq Orders
    BY <1>18 DEF WebhookFlag, TypeOK, HandlerBound, PaymentSteps, WebhookSteps, At
  <2>4. req' \in [Handlers -> Request]
    BY <1>18, ReturnRow DEF WebhookFlag
  <2> QED BY <2>1, <2>2, <2>3, <2>4, <1>18 DEF WebhookFlag, TypeOK
<1>19. ASSUME NEW h \in Handlers, WebhookFailed(h) PROVE TypeOK'
  <2>1. payment' \in [Orders -> PaymentRow]
    <3>1. ASSUME NEW x \in Orders
          PROVE  [payment[x] EXCEPT !.status = "FAILED",
                                    !.gatewayPaymentId = TRUE] \in PaymentRow
      BY PaymentFailed DEF TypeOK
    <3> QED BY <1>19, <3>1 DEF WebhookFailed, TypeOK
  <2>2. events' \subseteq Event
    BY <1>19 DEF WebhookFailed, RecordEvent, TypeOK, HandlerBound, WebhookSteps, At
  <2>3. req' \in [Handlers -> Request]
    BY <1>19, ReturnRow DEF WebhookFailed
  <2> QED BY <2>1, <2>2, <2>3, <1>19 DEF WebhookFailed, TypeOK
<1>20. ASSUME NEW h \in Handlers, WebhookRefunded(h) PROVE TypeOK'
  <2>1. payment' \in [Orders -> PaymentRow]
    BY <1>20, PaymentStatusRow, HandlerRow DEF WebhookRefunded, PaymentRowStatus, PaymentStatus
  <2>2. events' \subseteq Event
    BY <1>20 DEF WebhookRefunded, RecordEvent, TypeOK, HandlerBound, WebhookSteps, At
  <2>3. req' \in [Handlers -> Request]
    BY <1>20, ReturnRow DEF WebhookRefunded
  <2> QED BY <2>1, <2>2, <2>3, <1>20 DEF WebhookRefunded, TypeOK
<1>21. ASSUME NEW h \in Handlers, WebhookNoEffect(h) PROVE TypeOK'
  <2>1. events' \subseteq Event
    BY <1>21 DEF WebhookNoEffect, RecordEvent, TypeOK, HandlerBound, WebhookSteps, At
  <2>2. req' \in [Handlers -> Request]
    BY <1>21, ReturnRow DEF WebhookNoEffect
  <2> QED BY <2>1, <2>2, <1>21 DEF WebhookNoEffect, TypeOK
<1>22. ASSUME NEW h \in Handlers, ConfirmRemoveExpire(h) PROVE TypeOK'
  <2>1. expireJob' \in [Bookings -> Job]
    BY <1>22 DEF ConfirmRemoveExpire, TypeOK, NoJob, Job, JobState
  <2>2. req' \in [Handlers -> Request]
    BY <1>22, GotoRow, ReturnRow DEF ConfirmRemoveExpire, Step
  <2>3. dropped' \subseteq Bookings
    BY <1>22 DEF ConfirmRemoveExpire, Drop, TypeOK, HandlerBound, At
  <2> QED BY <2>1, <2>2, <2>3, <1>22 DEF ConfirmRemoveExpire, TypeOK
<1>23. ASSUME NEW h \in Handlers, ConfirmAddOverdue(h) PROVE TypeOK'
  <2>1. overdueJob' \in [Bookings -> Job]
    BY <1>23 DEF ConfirmAddOverdue, TypeOK, OverdueAt, Job, JobState, HandlerBound, At
  <2>2. req' \in [Handlers -> Request]
    BY <1>23, GotoRow DEF ConfirmAddOverdue, Step
  <2> QED BY <2>1, <2>2, <1>23 DEF ConfirmAddOverdue, TypeOK
<1>24. ASSUME NEW h \in Handlers, ConfirmNotify(h) PROVE TypeOK'
  <2>1. reminders' \subseteq Bookings
    BY <1>24 DEF ConfirmNotify, TypeOK, HandlerBound, At
  <2>2. req' \in [Handlers -> Request]
    BY <1>24, ReturnRow DEF ConfirmNotify
  <2> QED BY <2>1, <2>2, <1>24 DEF ConfirmNotify, TypeOK
<1>25. ASSUME NEW h \in Handlers, NEW b \in Bookings, CancelRead(h, b) PROVE TypeOK'
  <2>1. req' \in [Handlers -> Request]
    BY <1>25 DEF CancelRead, TypeOK, Request, Idle, Step, BookingRowStatus, BookingStatus, PaymentRowStatus, PaymentStatus
  <2> QED BY <2>1, <1>25 DEF CancelRead, TypeOK
<1>26. ASSUME NEW h \in Handlers, CancelCommit(h) PROVE TypeOK'
  <2>1. booking' \in [Bookings -> BookingRow]
    BY <1>26, BookingStatusRow, HandlerRow DEF CancelCommit, BookingRowStatus, BookingStatus
  <2>2. req' \in [Handlers -> Request]
    BY <1>26, GotoRow DEF CancelCommit, Step
  <2> QED BY <2>1, <2>2, <1>26 DEF CancelCommit, TypeOK
<1>27. ASSUME NEW h \in Handlers, CancelRemoveExpire(h) PROVE TypeOK'
  <2>1. expireJob' \in [Bookings -> Job]
    BY <1>27 DEF CancelRemoveExpire, TypeOK, NoJob, Job, JobState
  <2>2. req' \in [Handlers -> Request]
    BY <1>27, GotoRow, ReturnRow DEF CancelRemoveExpire, Step
  <2> QED BY <2>1, <2>2, <1>27 DEF CancelRemoveExpire, TypeOK
<1>28. ASSUME NEW h \in Handlers, CancelRemoveOverdue(h) PROVE TypeOK'
  <2>1. overdueJob' \in [Bookings -> Job]
    BY <1>28 DEF CancelRemoveOverdue, TypeOK, NoJob, Job, JobState
  <2>2. req' \in [Handlers -> Request]
    BY <1>28, GotoRow, ReturnRow DEF CancelRemoveOverdue, Step
  <2>3. dropped' \subseteq Bookings
    BY <1>28 DEF CancelRemoveOverdue, Drop, TypeOK, HandlerBound, At
  <2> QED BY <2>1, <2>2, <2>3, <1>28 DEF CancelRemoveOverdue, TypeOK
<1>29. ASSUME NEW h \in Handlers, CancelNotify(h) PROVE TypeOK'
  <2>1. reminders' \subseteq Bookings
    BY <1>29 DEF CancelNotify, TypeOK
  <2>2. req' \in [Handlers -> Request]
    BY <1>29, ReturnRow DEF CancelNotify
  <2>3. dropped' \subseteq Bookings
    BY <1>29 DEF CancelNotify, Drop, TypeOK, HandlerBound, At
  <2> QED BY <2>1, <2>2, <2>3, <1>29 DEF CancelNotify, TypeOK
<1>30. ASSUME NEW h \in Handlers, NEW b \in Bookings, CompleteRead(h, b) PROVE TypeOK'
  <2>1. req' \in [Handlers -> Request]
    BY <1>30 DEF CompleteRead, TypeOK, Request, Idle, Step, BookingRowStatus, BookingStatus, PaymentRowStatus, PaymentStatus
  <2> QED BY <2>1, <1>30 DEF CompleteRead, TypeOK
<1>31. ASSUME NEW h \in Handlers, CompleteCommit(h) PROVE TypeOK'
  <2>1. booking' \in [Bookings -> BookingRow]
    BY <1>31, BookingStatusRow, HandlerRow DEF CompleteCommit, BookingRowStatus, BookingStatus
  <2>2. req' \in [Handlers -> Request]
    BY <1>31, GotoRow DEF CompleteCommit, Step
  <2> QED BY <2>1, <2>2, <1>31 DEF CompleteCommit, TypeOK
<1>32. ASSUME NEW h \in Handlers, CompleteRemoveOverdue(h) PROVE TypeOK'
  <2>1. overdueJob' \in [Bookings -> Job]
    BY <1>32 DEF CompleteRemoveOverdue, TypeOK, NoJob, Job, JobState
  <2>2. req' \in [Handlers -> Request]
    BY <1>32, ReturnRow DEF CompleteRemoveOverdue
  <2>3. dropped' \subseteq Bookings
    BY <1>32 DEF CompleteRemoveOverdue, Drop, TypeOK, HandlerBound, At
  <2> QED BY <2>1, <2>2, <2>3, <1>32 DEF CompleteRemoveOverdue, TypeOK
<1>33. ASSUME NEW h \in Handlers, NEW o \in Orders, NEW amount \in 0..(Price + 1), RefundRead(h, o, amount) PROVE TypeOK'
  <2>1. req' \in [Handlers -> Request]
    <3>1. /\ payment[o].booking \in Bookings
          /\ booking[payment[o].booking].status \in BookingRowStatus
      BY <1>33 DEF RefundRead, RowsLinked, TypeOK, BookingRow
    <3>2. [Idle EXCEPT !.pc = "refund_gateway", !.b = payment[o].booking,
                       !.o = o, !.seenB = booking[payment[o].booking].status,
                       !.amount = amount] \in Request
      <4>1. amount \in Nat
        OBVIOUS
      <4> QED BY <3>1, <4>1, RequestRefund
    <3> QED BY <1>33, <3>2 DEF RefundRead, TypeOK
  <2> QED BY <2>1, <1>33 DEF RefundRead, TypeOK
<1>34. ASSUME NEW h \in Handlers, RefundGateway(h) PROVE TypeOK'
  <2>1. refunds' \in [Orders -> [count : Nat, total : Nat]]
    BY <1>34 DEF RefundGateway, TypeOK, HandlerBound, PaymentSteps, WebhookSteps, At, Request
  <2>2. sent' \subseteq Event
    <3>1. RefundEvents(req[h].o) \subseteq Event
      BY HandlerRow DEF RefundEvents, Event, Kinds
    <3> QED BY <1>34, <3>1 DEF RefundGateway, TypeOK
  <2>3. req' \in [Handlers -> Request]
    BY <1>34, GotoRow DEF RefundGateway, Step
  <2> QED BY <2>1, <2>2, <2>3, <1>34 DEF RefundGateway, TypeOK
<1>35. ASSUME NEW h \in Handlers, RefundCommit(h) PROVE TypeOK'
  <2>1. payment' \in [Orders -> PaymentRow]
    BY <1>35, PaymentStatusRow, HandlerRow DEF RefundCommit, PaymentRowStatus, PaymentStatus
  <2>2. booking' \in [Bookings -> BookingRow]
    BY <1>35, BookingStatusRow, HandlerRow DEF RefundCommit, TypeOK, BookingRowStatus, BookingStatus
  <2>3. req' \in [Handlers -> Request]
    BY <1>35, ReturnRow DEF RefundCommit
  <2> QED BY <2>1, <2>2, <2>3, <1>35 DEF RefundCommit, TypeOK
<1>36. ASSUME NEW b \in Bookings, ExpireStart(b) PROVE TypeOK'
  <2>1. expireJob' \in [Bookings -> Job]
    BY <1>36 DEF ExpireStart, TypeOK, Job, JobState
  <2> QED BY <2>1, <1>36 DEF ExpireStart, TypeOK
<1>37. ASSUME NEW b \in Bookings, ExpireRead(b) PROVE TypeOK'
  <2>1. expireJob' \in [Bookings -> Job]
    BY <1>37 DEF ExpireRead, TypeOK, Job, JobState
  <2> QED BY <2>1, <1>37 DEF ExpireRead, TypeOK
<1>38. ASSUME NEW b \in Bookings, ExpireCommit(b) PROVE TypeOK'
  <2>1. booking' \in [Bookings -> BookingRow]
    BY <1>38, BookingStatusRow, HandlerRow DEF ExpireCommit, TypeOK, BookingRowStatus, BookingStatus
  <2>2. payment' \in [Orders -> PaymentRow]
    BY <1>38 DEF ExpireCommit, TypeOK, PaymentRow, PaymentRowStatus, PaymentStatus
  <2>3. expireJob' \in [Bookings -> Job]
    BY <1>38 DEF ExpireCommit, TypeOK, Job, JobState
  <2> QED BY <2>1, <2>2, <2>3, <1>38 DEF ExpireCommit, TypeOK
<1>39. ASSUME NEW b \in Bookings, ExpireFails(b) PROVE TypeOK'
  <2>1. expireJob' \in [Bookings -> Job]
    BY <1>39, AttemptFailedRow DEF ExpireFails, TypeOK
  <2>2. faults' \in 0..MaxFaults
    BY <1>39 DEF ExpireFails, TypeOK
  <2> QED BY <2>1, <2>2, <1>39 DEF ExpireFails, TypeOK
<1>40. ASSUME NEW b \in Bookings, OverdueStart(b) PROVE TypeOK'
  <2>1. overdueJob' \in [Bookings -> Job]
    BY <1>40 DEF OverdueStart, TypeOK, Job, JobState
  <2> QED BY <2>1, <1>40 DEF OverdueStart, TypeOK
<1>41. ASSUME NEW b \in Bookings, OverdueRead(b) PROVE TypeOK'
  <2>1. overdueJob' \in [Bookings -> Job]
    BY <1>41 DEF OverdueRead, TypeOK, Job, JobState
  <2> QED BY <2>1, <1>41 DEF OverdueRead, TypeOK
<1>42. ASSUME NEW b \in Bookings, OverdueCommit(b) PROVE TypeOK'
  <2>1. booking' \in [Bookings -> BookingRow]
    BY <1>42 DEF OverdueCommit, TypeOK, BookingRow
  <2>2. overdueJob' \in [Bookings -> Job]
    BY <1>42 DEF OverdueCommit, TypeOK, Job, JobState
  <2> QED BY <2>1, <2>2, <1>42 DEF OverdueCommit, TypeOK
<1>43. ASSUME NEW b \in Bookings, OverdueFails(b) PROVE TypeOK'
  <2>1. overdueJob' \in [Bookings -> Job]
    BY <1>43, AttemptFailedRow DEF OverdueFails, TypeOK
  <2>2. faults' \in 0..MaxFaults
    BY <1>43 DEF OverdueFails, TypeOK
  <2> QED BY <2>1, <2>2, <1>43 DEF OverdueFails, TypeOK
<1>44. ASSUME NEW o \in Orders, NEW ok \in AmountMatches, GatewayCapture(o, ok) PROVE TypeOK'
  <2>1. paid' \subseteq Orders
    BY <1>44 DEF GatewayCapture, TypeOK
  <2>2. sent' \subseteq Event
    BY <1>44, EmitsRow DEF GatewayCapture, TypeOK
  <2> QED BY <2>1, <2>2, <1>44 DEF GatewayCapture, TypeOK
<1>45. ASSUME NEW o \in Orders, GatewayAttemptFails(o) PROVE TypeOK'
  <2>1. sent' \subseteq Event
    BY <1>45, EmitsRow DEF GatewayAttemptFails, TypeOK
  <2> QED BY <2>1, <1>45 DEF GatewayAttemptFails, TypeOK
<1>46. ASSUME NEW o \in Orders \cup {None}, GatewayUnrelated(o) PROVE TypeOK'
  <2>1. sent' \subseteq Event
    BY <1>46, EmitsRow DEF GatewayUnrelated, TypeOK
  <2> QED BY <2>1, <1>46 DEF GatewayUnrelated, TypeOK
<1>47. ASSUME Tick PROVE TypeOK'
  <2>1. now' \in 0..Horizon
    BY <1>47 DEF Tick, TypeOK
  <2> QED BY <2>1, <1>47 DEF Tick, TypeOK
<1>48. ASSUME NEW h \in Handlers, HandlerFails(h) PROVE TypeOK'
  <2>1. req' \in [Handlers -> Request]
    BY <1>48, ReturnRow DEF HandlerFails
  <2>2. faults' \in 0..MaxFaults
    BY <1>48 DEF HandlerFails, TypeOK
  <2>3. dropped' \subseteq Bookings
    BY <1>48 DEF HandlerFails, Drop, TypeOK, HandlerBound, At, SchedulingSteps
  <2> QED BY <2>1, <2>2, <2>3, <1>48 DEF HandlerFails, TypeOK
<1> QED
  BY <1>1, <1>2, <1>3, <1>4, <1>5, <1>6, <1>7, <1>8, <1>9, <1>10, <1>11, <1>12, <1>13, <1>14, <1>15, <1>16, <1>17, <1>18, <1>19, <1>20, <1>21, <1>22, <1>23, <1>24, <1>25, <1>26, <1>27, <1>28, <1>29, <1>30, <1>31, <1>32, <1>33, <1>34, <1>35, <1>36, <1>37, <1>38, <1>39, <1>40, <1>41, <1>42, <1>43, <1>44, <1>45, <1>46, <1>47, <1>48
  DEF Next, Receive, Continue, Worker, WorkerFails, Gateway

-----------------------------------------------------------------------------
(* Frame conditions *)

ledgerVars == <<booking, payment, ordered, paid, refunds, sent>>

\* What the rows and the gateway never take back.
Grows ==
  /\ ordered \subseteq ordered'
  /\ paid \subseteq paid'
  /\ sent \subseteq sent'
  /\ \A o \in Orders : payment[o].status # "NONE" =>
       payment'[o].status # "NONE" /\ payment'[o].booking = payment[o].booking
  /\ \A o \in Orders : refunds[o].count > 0 => refunds'[o].count > 0

\* A step of h leaves the other handlers alone and inserts no row that one of
\* them is about to insert.
Spares(h) ==
  \A g \in Handlers \ {h} :
    /\ req'[g] = req[g]
    /\ req[g].pc \in InsertingSteps => payment'[req[g].o].status = "NONE"

LEMMA PaidForGood ==
  ASSUME ReservationInv, Grows, NEW b, WasPaid(b)
  PROVE  WasPaid(b)'
<1>1. PICK o \in paid : payment[o].booking = b
  BY DEF WasPaid
<1>2. o \in paid' /\ payment'[o].booking = b
  BY <1>1 DEF Grows, ReservationInv, RowsLinked, TypeOK
<1> QED BY <1>2 DEF WasPaid

\* A handler that does not move keeps what it relies on.
LEMMA BoundKept ==
  ASSUME ReservationInv, Grows, NEW g \in Handlers, req'[g] = req[g],
         req[g].pc \in InsertingSteps => payment'[req[g].o].status = "NONE"
  PROVE  HandlerBound(g)'
<1>1. HandlerBound(g)
  BY DEF ReservationInv
<1>2. \A b : WasPaid(b) => \E o \in paid' : payment'[o].booking = b
  BY PaidForGood DEF WasPaid
<1>3. req[g].pc = "complete_tx" =>
        \E o \in paid' : payment'[o].booking = req[g].b
  BY <1>1, <1>2 DEF HandlerBound
<1>4. (req[g].pc = "complete_tx" => WasPaid(req[g].b))'
  BY <1>3 DEF WasPaid
<1> QED
  BY <1>1, <1>4
  DEF HandlerBound, Grows, ReservationInv, TypeOK, PaymentSteps, WebhookSteps

LEMMA DistinctKept ==
  ASSUME ReservationInv, NEW h \in Handlers, Spares(h),
         req'[h].pc \in InsertingSteps =>
           \A g \in Handlers \ {h} :
             req[g].pc \in InsertingSteps => req[g].o # req'[h].o
  PROVE  InsertsDistinct'
BY DEF ReservationInv, InsertsDistinct, Spares

\* A step in which one handler moves keeps what all handlers rely on, once the
\* mover has been dealt with.
LEMMA HandlersKept ==
  ASSUME ReservationInv, Grows, NEW h \in Handlers, Spares(h),
         HandlerBound(h)'
  PROVE  \A g \in Handlers : HandlerBound(g)'
<1> SUFFICES ASSUME NEW g \in Handlers \ {h} PROVE HandlerBound(g)'
  OBVIOUS
<1> QED BY BoundKept DEF Spares

\* A step in which no handler moves.
LEMMA NobodyMoves ==
  ASSUME ReservationInv, Grows, UNCHANGED req,
         \A g \in Handlers : req[g].pc \in InsertingSteps =>
           payment'[req[g].o].status = "NONE"
  PROVE  (\A g \in Handlers : HandlerBound(g)') /\ InsertsDistinct'
<1>1. \A g \in Handlers : HandlerBound(g)'
  BY BoundKept
<1>2. InsertsDistinct'
  BY DEF ReservationInv, InsertsDistinct
<1> QED BY <1>1, <1>2

LEMMA LedgerUntouched ==
  ASSUME ReservationInv, UNCHANGED ledgerVars
  PROVE  /\ Grows /\ RowsLinked' /\ EventsAreTrue'
         /\ LedgerIsTrue' /\ ConfirmedWasPaid'
<1>1. Grows
  BY DEF Grows, ledgerVars
<1>2. RowsLinked' /\ EventsAreTrue' /\ LedgerIsTrue'
  BY DEF ReservationInv, ledgerVars, RowsLinked, EventsAreTrue, LedgerIsTrue,
         IsCapture
<1>3. ConfirmedWasPaid'
  BY DEF ReservationInv, ledgerVars, ConfirmedWasPaid, WasPaid
<1> QED BY <1>1, <1>2, <1>3

\* Moving h without touching rows or gateway.
LEMMA QuietMove ==
  ASSUME ReservationInv, TypeOK', UNCHANGED ledgerVars, NEW h \in Handlers,
         \A g \in Handlers \ {h} : req'[g] = req[g],
         HandlerBound(h)', req'[h].pc \notin InsertingSteps
  PROVE  ReservationInv'
<1>1. Spares(h)
  BY DEF Spares, ReservationInv, HandlerBound, ledgerVars
<1> QED
  BY <1>1, LedgerUntouched, HandlersKept, DistinctKept DEF ReservationInv

\* An idle handler relies on nothing, and one past its commit only on the name
\* of its booking.
LEMMA IdleBound ==
  ASSUME NEW h \in Handlers, req'[h] = Idle
  PROVE  HandlerBound(h)' /\ req'[h].pc \notin InsertingSteps
BY DEF HandlerBound, Idle, InsertingSteps, PaymentSteps, WebhookSteps

PostCommitSteps ==
  {"create_schedule", "confirm_rmExpire", "confirm_addOverdue",
   "confirm_notify", "cancel_rmExpire", "cancel_rmOverdue", "cancel_notify",
   "complete_rmOverdue"}

LEMMA PostCommitBound ==
  ASSUME ReservationInv, NEW h \in Handlers, NEW step \in PostCommitSteps,
         ~At(h, "idle"), Goto(h, step)
  PROVE  /\ HandlerBound(h)'
         /\ req'[h].pc \notin InsertingSteps
         /\ \A g \in Handlers \ {h} : req'[g] = req[g]
<1>1. req[h].b \in Bookings
  BY DEF ReservationInv, HandlerBound, At
<1>2. /\ req'[h] = [req[h] EXCEPT !.pc = step]
      /\ \A g \in Handlers \ {h} : req'[g] = req[g]
  <2>1. step \in Step
    BY DEF PostCommitSteps, Step
  <2> QED BY <2>1, GotoRow DEF ReservationInv
<1>3. req'[h].pc = step /\ req'[h].b = req[h].b
  BY <1>2 DEF ReservationInv, TypeOK, Request
<1> QED
  BY <1>1, <1>2, <1>3
  DEF HandlerBound, PostCommitSteps, InsertingSteps, PaymentSteps, WebhookSteps

-----------------------------------------------------------------------------
(* Steps that only move a handler *)

LEMMA QuietReturn ==
  ASSUME ReservationInv, TypeOK', UNCHANGED ledgerVars, NEW h \in Handlers,
         Return(h)
  PROVE  ReservationInv'
<1>1. req'[h] = Idle /\ \A g \in Handlers \ {h} : req'[g] = req[g]
  BY ReturnRow DEF ReservationInv
<1> QED BY <1>1, IdleBound, QuietMove

LEMMA QuietGoto ==
  ASSUME ReservationInv, TypeOK', UNCHANGED ledgerVars, NEW h \in Handlers,
         NEW step \in PostCommitSteps, ~At(h, "idle"), Goto(h, step)
  PROVE  ReservationInv'
BY PostCommitBound, QuietMove

LEMMA QuietStay ==
  ASSUME ReservationInv, TypeOK', UNCHANGED <<ledgerVars, req>>
  PROVE  ReservationInv'
<1>1. UNCHANGED ledgerVars /\ UNCHANGED req /\ UNCHANGED payment
  BY DEF ledgerVars
<1>2. \A g \in Handlers : req[g].pc \in InsertingSteps =>
        payment'[req[g].o].status = "NONE"
  BY <1>1 DEF ReservationInv, HandlerBound
<1> QED BY <1>1, <1>2, LedgerUntouched, NobodyMoves DEF ReservationInv

-----------------------------------------------------------------------------
(* Commits *)

\* The writes of a transaction, as far as the invariant can tell: no payment
\* row appears or changes its booking, money is recorded only where it moved,
\* and a booking is confirmed or completed only if it was paid.
SoundWrite ==
  /\ UNCHANGED gatewayVars
  /\ \A x \in Orders :
       /\ payment'[x].booking = payment[x].booking
       /\ payment'[x].status = "NONE" <=> payment[x].status = "NONE"
       /\ payment'[x].status \in {"SUCCESS", "REFUNDED"} =>
            payment'[x].status = payment[x].status \/ x \in paid
       /\ payment'[x].status = "REFUNDED" =>
            payment[x].status = "REFUNDED" \/ refunds[x].count > 0
  /\ \A b \in Bookings :
       booking'[b].status \in {"CONFIRMED", "COMPLETED"} =>
         booking[b].status \in {"CONFIRMED", "COMPLETED"} \/ WasPaid(b)

LEMMA WriteKeepsRows ==
  ASSUME ReservationInv, SoundWrite
  PROVE  /\ Grows /\ RowsLinked' /\ EventsAreTrue'
         /\ LedgerIsTrue' /\ ConfirmedWasPaid'
         /\ \A g \in Handlers : req[g].pc \in InsertingSteps =>
              payment'[req[g].o].status = "NONE"
<1>1. Grows
  BY DEF Grows, SoundWrite, gatewayVars
<1>2. RowsLinked'
  BY DEF SoundWrite, ReservationInv, RowsLinked, gatewayVars, TypeOK
<1>3. EventsAreTrue'
  BY DEF SoundWrite, ReservationInv, EventsAreTrue, IsCapture, gatewayVars
<1>4. LedgerIsTrue'
  BY DEF SoundWrite, ReservationInv, LedgerIsTrue, gatewayVars
<1>5. ConfirmedWasPaid'
  <2> SUFFICES ASSUME NEW b \in Bookings,
                      booking'[b].status \in {"CONFIRMED", "COMPLETED"}
               PROVE  WasPaid(b)'
    BY DEF ConfirmedWasPaid, WasPaid
  <2>1. WasPaid(b)
    BY DEF SoundWrite, ReservationInv, ConfirmedWasPaid
  <2> QED BY <1>1, <2>1, PaidForGood
<1>6. ASSUME NEW g \in Handlers, req[g].pc \in InsertingSteps
      PROVE  payment'[req[g].o].status = "NONE"
  <2>1. req[g].o \in Orders /\ payment[req[g].o].status = "NONE"
    BY <1>6 DEF ReservationInv, HandlerBound, TypeOK
  <2> QED BY <2>1 DEF SoundWrite
<1> QED BY <1>1, <1>2, <1>3, <1>4, <1>5, <1>6

LEMMA CommitReturns ==
  ASSUME ReservationInv, TypeOK', SoundWrite, NEW h \in Handlers, Return(h)
  PROVE  ReservationInv'
<1>1. /\ req'[h] = Idle
      /\ \A g \in Handlers \ {h} : req'[g] = req[g]
  BY ReturnRow DEF ReservationInv
<1>2. Spares(h)
  BY <1>1, WriteKeepsRows DEF Spares
<1>3. HandlerBound(h)' /\ req'[h].pc \notin InsertingSteps
  BY <1>1, IdleBound
<1> QED
  BY <1>2, <1>3, WriteKeepsRows, HandlersKept, DistinctKept DEF ReservationInv

LEMMA CommitContinues ==
  ASSUME ReservationInv, TypeOK', SoundWrite, NEW h \in Handlers,
         NEW step \in PostCommitSteps, ~At(h, "idle"), Goto(h, step)
  PROVE  ReservationInv'
<1>1. /\ HandlerBound(h)' /\ req'[h].pc \notin InsertingSteps
      /\ \A g \in Handlers \ {h} : req'[g] = req[g]
  BY PostCommitBound
<1>2. Spares(h)
  BY <1>1, WriteKeepsRows DEF Spares
<1> QED
  BY <1>1, <1>2, WriteKeepsRows, HandlersKept, DistinctKept DEF ReservationInv

LEMMA CommitOfWorker ==
  ASSUME ReservationInv, TypeOK', SoundWrite, UNCHANGED req
  PROVE  ReservationInv'
BY WriteKeepsRows, NobodyMoves DEF ReservationInv

\* The payment and the booking a handler works on, before it commits.
LEMMA WorksOn ==
  ASSUME ReservationInv, NEW h \in Handlers, req[h].pc \in PaymentSteps
  PROVE  /\ req[h].o \in Orders /\ req[h].b \in Bookings
         /\ payment[req[h].o].status # "NONE"
         /\ payment[req[h].o].booking = req[h].b
BY DEF ReservationInv, HandlerBound, PaymentSteps, WebhookSteps

\* A captured order of its booking is what a capture webhook works on.
LEMMA CaptureIsPaid ==
  ASSUME ReservationInv, NEW h \in Handlers, At(h, "webhook_tx"),
         IsCapture(req[h].ev)
  PROVE  req[h].o \in paid /\ WasPaid(req[h].b)
<1>1. req[h].ev \in sent /\ req[h].ev.order = req[h].o
  BY DEF ReservationInv, HandlerBound, At, WebhookSteps
<1>2. req[h].o \in paid
  BY <1>1 DEF ReservationInv, EventsAreTrue
<1>3. payment[req[h].o].booking = req[h].b
  BY WorksOn DEF At, PaymentSteps, WebhookSteps
<1> QED BY <1>2, <1>3 DEF WasPaid

\* What the writes of a commit do to statuses and bookings.
LEMMA ConfirmsRow ==
  ASSUME ReservationInv, NEW b \in Bookings, NEW status \in BookingRowStatus,
         UpdateBookingStatus(b, status)
  PROVE  \A c \in Bookings :
           booking'[c].status = IF c = b THEN status ELSE booking[c].status
BY BookingStatusRow DEF ReservationInv

LEMMA SucceedsRow ==
  ASSUME ReservationInv, NEW o \in Orders, PaymentSucceeds(o)
  PROVE  \A x \in Orders :
           /\ payment'[x].booking = payment[x].booking
           /\ payment'[x].status = IF x = o THEN "SUCCESS"
                                   ELSE payment[x].status
BY PaymentSucceedsRow DEF ReservationInv

LEMMA RefundsRow ==
  ASSUME ReservationInv, NEW o \in Orders, UpdatePaymentStatus(o, "REFUNDED")
  PROVE  \A x \in Orders :
           /\ payment'[x].booking = payment[x].booking
           /\ payment'[x].status = IF x = o THEN "REFUNDED"
                                   ELSE payment[x].status
BY PaymentStatusRow DEF ReservationInv, PaymentRowStatus, PaymentStatus

\* Only a CONFIRMED booking can be completed.
LEMMA ConfirmedOnly ==
  ASSUME NEW s, canTransitionBooking(s, "COMPLETED")
  PROVE  s = "CONFIRMED"
BY DEF canTransitionBooking, VALID_BOOKING_TRANSITIONS, BookingStatus

-----------------------------------------------------------------------------
(* The invariant is inductive *)

\* Every step of the specification preserves ReservationInv.
LEMMA StepInv ==
  ASSUME ReservationInv, Next
  PROVE  ReservationInv'
<1>t. TypeOK'
  BY StepTypes
<1> USE <1>t
<1>1. ASSUME NEW h \in Handlers, NEW b \in Bookings, NEW o \in Orders, CreateStart(h, b, o) PROVE ReservationInv'
  <2> DEFINE r == [Idle EXCEPT !.pc = "create_tx", !.b = b, !.o = o]
  <2>1. req'[h] = r /\ \A g \in Handlers \ {h} : req'[g] = req[g]
    BY <1>1 DEF CreateStart, ReservationInv, TypeOK
  <2>2. r.pc = "create_tx" /\ r.o = o /\ r.b \in Bookings
    BY <1>1 DEF Idle
  <2>3. o \notin ordered /\ ordered' = ordered \cup {o}
    BY <1>1 DEF CreateStart, CreateGatewayOrder
  <2>4. payment[o].status = "NONE"
    BY <2>3 DEF ReservationInv, RowsLinked
  <2>5. UNCHANGED <<booking, payment, paid, refunds, sent>>
    BY <1>1 DEF CreateStart, dbVars
  <2>6. Grows
    BY <2>3, <2>5 DEF Grows
  <2>7. RowsLinked' /\ EventsAreTrue' /\ LedgerIsTrue'
    BY <2>3, <2>5 DEF ReservationInv, RowsLinked, EventsAreTrue, LedgerIsTrue,
                      IsCapture
  <2>8. ConfirmedWasPaid'
    BY <2>5 DEF ReservationInv, ConfirmedWasPaid, WasPaid
  <2>9. HandlerBound(h)'
    BY <2>1, <2>2, <2>3, <2>4, <2>5
    DEF HandlerBound, InsertingSteps, PaymentSteps, WebhookSteps
  <2>10. Spares(h)
    BY <2>1, <2>5 DEF Spares, ReservationInv, HandlerBound
  <2>11. InsertsDistinct'
    <3>1. \A g \in Handlers \ {h} :
            req[g].pc \in InsertingSteps => req[g].o # req'[h].o
      BY <2>1, <2>2, <2>3 DEF ReservationInv, HandlerBound
    <3> QED BY <2>10, <3>1, DistinctKept
  <2> QED
    BY <2>6, <2>7, <2>8, <2>9, <2>10, <2>11, HandlersKept DEF ReservationInv
<1>2. ASSUME NEW h \in Handlers, CreateCommit(h) PROVE ReservationInv'
  <2>1. /\ req[h].b \in Bookings /\ req[h].o \in ordered /\ req[h].o \in Orders
        /\ payment[req[h].o].status = "NONE" /\ req[h].o \notin paid
    BY <1>2 DEF CreateCommit, At, ReservationInv, HandlerBound,
      InsertingSteps, RowsLinked, TypeOK
  <2>2. UNCHANGED gatewayVars
    BY <1>2 DEF CreateCommit
  <2>3. /\ payment'[req[h].o].status = "CREATED"
        /\ payment'[req[h].o].booking = req[h].b
        /\ \A x \in Orders \ {req[h].o} : payment'[x] = payment[x]
    BY <1>2, <2>1 DEF CreateCommit, ReservationInv, TypeOK
  <2>4. \A c \in Bookings : booking'[c].status \in {"CONFIRMED", "COMPLETED"} =>
          booking'[c].status = booking[c].status
    BY <1>2, <2>1 DEF CreateCommit, ReservationInv, TypeOK, BookingRow
  <2>5. Grows
    BY <2>1, <2>2, <2>3 DEF Grows, gatewayVars
  <2>6. RowsLinked' /\ EventsAreTrue' /\ LedgerIsTrue'
    BY <2>1, <2>2, <2>3 DEF ReservationInv, RowsLinked, EventsAreTrue,
      LedgerIsTrue, IsCapture, gatewayVars, TypeOK
  <2>7. ConfirmedWasPaid'
    <3> SUFFICES ASSUME NEW c \in Bookings,
                        booking'[c].status \in {"CONFIRMED", "COMPLETED"}
                 PROVE  WasPaid(c)'
      BY DEF ConfirmedWasPaid, WasPaid
    <3>1. WasPaid(c)
      BY <2>4 DEF ReservationInv, ConfirmedWasPaid
    <3> QED BY <2>5, <3>1, PaidForGood
  <2>8. /\ HandlerBound(h)' /\ req'[h].pc \notin InsertingSteps
        /\ \A g \in Handlers \ {h} : req'[g] = req[g]
    BY <1>2, PostCommitBound DEF CreateCommit, At, PostCommitSteps
  <2>9. Spares(h)
    <3> SUFFICES ASSUME NEW g \in Handlers \ {h}, req[g].pc \in InsertingSteps
                 PROVE  payment'[req[g].o].status = "NONE"
      BY <2>8 DEF Spares
    <3>1. /\ req[g].o \in Orders \ {req[h].o}
          /\ payment[req[g].o].status = "NONE"
      BY <1>2 DEF CreateCommit, At, InsertingSteps, ReservationInv,
        InsertsDistinct,
                HandlerBound, TypeOK
    <3> QED BY <2>3, <3>1
  <2> QED
    BY <2>5, <2>6, <2>7, <2>8, <2>9, HandlersKept, DistinctKept
    DEF ReservationInv
<1>3. ASSUME NEW h \in Handlers, CreateConflict(h) PROVE ReservationInv'
  BY <1>3, QuietReturn DEF CreateConflict, dbVars, queueVars, gatewayVars,
    ledgerVars
<1>4. ASSUME NEW h \in Handlers, CreateSchedule(h) PROVE ReservationInv'
  BY <1>4, QuietReturn DEF CreateSchedule, dbVars, queueVars, gatewayVars,
    ledgerVars
<1>5. ASSUME NEW h \in Handlers, NEW b \in Bookings, OrderRead(h, b) PROVE ReservationInv'
  <2> DEFINE r == [Idle EXCEPT !.pc = "order_check", !.b = b]
  <2>1. req'[h] = r /\ \A g \in Handlers \ {h} : req'[g] = req[g]
    BY <1>5 DEF OrderRead, ReservationInv, TypeOK
  <2>2. b \in Bookings
    BY <1>5 DEF OrderRead
  <2>3. r.pc = "order_check" /\ r.b = b
    BY DEF Idle
  <2>4. UNCHANGED ledgerVars
    BY <1>5 DEF OrderRead, dbVars, queueVars, gatewayVars, ledgerVars
  <2>5. HandlerBound(h)' /\ req'[h].pc \notin InsertingSteps
    BY <2>1, <2>2, <2>3, <2>4 DEF HandlerBound, InsertingSteps, PaymentSteps,
                                  WebhookSteps, ledgerVars
  <2> QED BY <2>1, <2>4, <2>5, QuietMove
<1>6. ASSUME NEW h \in Handlers, OrderReuse(h) PROVE ReservationInv'
  BY <1>6, QuietReturn DEF OrderReuse, dbVars, queueVars, gatewayVars,
    ledgerVars
<1>7. ASSUME NEW h \in Handlers, NEW o \in Orders, OrderCreate(h, o) PROVE ReservationInv'
  <2> DEFINE r == [req[h] EXCEPT !.pc = "order_insert", !.o = o]
  <2>1. req'[h] = r /\ \A g \in Handlers \ {h} : req'[g] = req[g]
    BY <1>7 DEF OrderCreate, ReservationInv, TypeOK
  <2>2. r.pc = "order_insert" /\ r.o = o /\ r.b \in Bookings
    BY <1>7 DEF OrderCreate, At, ReservationInv, HandlerBound, TypeOK, Request
  <2>3. o \notin ordered /\ ordered' = ordered \cup {o}
    BY <1>7 DEF OrderCreate, CreateGatewayOrder
  <2>4. payment[o].status = "NONE"
    BY <2>3 DEF ReservationInv, RowsLinked
  <2>5. UNCHANGED <<booking, payment, paid, refunds, sent>>
    BY <1>7 DEF OrderCreate, dbVars
  <2>6. Grows
    BY <2>3, <2>5 DEF Grows
  <2>7. RowsLinked' /\ EventsAreTrue' /\ LedgerIsTrue'
    BY <2>3, <2>5 DEF ReservationInv, RowsLinked, EventsAreTrue, LedgerIsTrue,
                      IsCapture
  <2>8. ConfirmedWasPaid'
    BY <2>5 DEF ReservationInv, ConfirmedWasPaid, WasPaid
  <2>9. HandlerBound(h)'
    BY <2>1, <2>2, <2>3, <2>4, <2>5
    DEF HandlerBound, InsertingSteps, PaymentSteps, WebhookSteps
  <2>10. Spares(h)
    BY <2>1, <2>5 DEF Spares, ReservationInv, HandlerBound
  <2>11. InsertsDistinct'
    <3>1. \A g \in Handlers \ {h} :
            req[g].pc \in InsertingSteps => req[g].o # req'[h].o
      BY <2>1, <2>2, <2>3 DEF ReservationInv, HandlerBound
    <3> QED BY <2>10, <3>1, DistinctKept
  <2> QED
    BY <2>6, <2>7, <2>8, <2>9, <2>10, <2>11, HandlersKept DEF ReservationInv
<1>8. ASSUME NEW h \in Handlers, OrderInsert(h) PROVE ReservationInv'
  <2>1. /\ req[h].b \in Bookings /\ req[h].o \in ordered /\ req[h].o \in Orders
        /\ payment[req[h].o].status = "NONE" /\ req[h].o \notin paid
    BY <1>8 DEF OrderInsert, At, ReservationInv, HandlerBound, InsertingSteps,
      RowsLinked, TypeOK
  <2>2. UNCHANGED gatewayVars
    BY <1>8 DEF OrderInsert
  <2>3. /\ payment'[req[h].o].status = "CREATED"
        /\ payment'[req[h].o].booking = req[h].b
        /\ \A x \in Orders \ {req[h].o} : payment'[x] = payment[x]
    BY <1>8, <2>1 DEF OrderInsert, ReservationInv, TypeOK
  <2>4. \A c \in Bookings : booking'[c].status \in {"CONFIRMED", "COMPLETED"} =>
          booking'[c].status = booking[c].status
    BY <1>8, <2>1 DEF OrderInsert, ReservationInv, TypeOK, BookingRow
  <2>5. Grows
    BY <2>1, <2>2, <2>3 DEF Grows, gatewayVars
  <2>6. RowsLinked' /\ EventsAreTrue' /\ LedgerIsTrue'
    BY <2>1, <2>2, <2>3 DEF ReservationInv, RowsLinked, EventsAreTrue,
      LedgerIsTrue, IsCapture, gatewayVars, TypeOK
  <2>7. ConfirmedWasPaid'
    <3> SUFFICES ASSUME NEW c \in Bookings,
                        booking'[c].status \in {"CONFIRMED", "COMPLETED"}
                 PROVE  WasPaid(c)'
      BY DEF ConfirmedWasPaid, WasPaid
    <3>1. WasPaid(c)
      BY <2>4 DEF ReservationInv, ConfirmedWasPaid
    <3> QED BY <2>5, <3>1, PaidForGood
  <2>8. /\ HandlerBound(h)' /\ req'[h].pc \notin InsertingSteps
        /\ \A g \in Handlers \ {h} : req'[g] = req[g]
    BY <1>8, ReturnRow, IdleBound DEF OrderInsert, ReservationInv
  <2>9. Spares(h)
    <3> SUFFICES ASSUME NEW g \in Handlers \ {h}, req[g].pc \in InsertingSteps
                 PROVE  payment'[req[g].o].status = "NONE"
      BY <2>8 DEF Spares
    <3>1. /\ req[g].o \in Orders \ {req[h].o}
          /\ payment[req[g].o].status = "NONE"
      BY <1>8 DEF OrderInsert, At, InsertingSteps, ReservationInv,
        InsertsDistinct,
                HandlerBound, TypeOK
    <3> QED BY <2>3, <3>1
  <2> QED
    BY <2>5, <2>6, <2>7, <2>8, <2>9, HandlersKept, DistinctKept
    DEF ReservationInv
<1>9. ASSUME NEW h \in Handlers, NEW o \in Orders, VerifyRead(h, o) PROVE ReservationInv'
  <2> DEFINE r == [Idle EXCEPT !.pc = "verify_tx",
                            !.b = payment[o].booking, !.o = o]
  <2>1. req'[h] = r /\ \A g \in Handlers \ {h} : req'[g] = req[g]
    BY <1>9 DEF VerifyRead, ReservationInv, TypeOK
  <2>2. payment[o].booking \in Bookings /\ o \in paid /\ payment[o].status # "NONE"
    BY <1>9 DEF VerifyRead, ValidSignature, ReservationInv, RowsLinked
  <2>3. r.pc = "verify_tx" /\ r.b = payment[o].booking /\ r.o = o
    BY DEF Idle
  <2>4. UNCHANGED ledgerVars
    BY <1>9 DEF VerifyRead, dbVars, queueVars, gatewayVars, ledgerVars
  <2>5. HandlerBound(h)' /\ req'[h].pc \notin InsertingSteps
    BY <2>1, <2>2, <2>3, <2>4 DEF HandlerBound, InsertingSteps, PaymentSteps,
                                  WebhookSteps, ledgerVars
  <2> QED BY <2>1, <2>4, <2>5, QuietMove
<1>10. ASSUME NEW h \in Handlers, VerifyCommit(h) PROVE ReservationInv'
  <2>1. /\ req[h].o \in Orders /\ req[h].b \in Bookings
        /\ payment[req[h].o].status # "NONE"
        /\ payment[req[h].o].booking = req[h].b
    BY <1>10, WorksOn DEF VerifyCommit, At, PaymentSteps
  <2>2. req[h].o \in paid
    BY <1>10 DEF VerifyCommit, At, ReservationInv, HandlerBound
  <2>3. WasPaid(req[h].b)
    BY <2>1, <2>2 DEF WasPaid
  <2>4. PaymentSucceeds(req[h].o) /\ UpdateBookingStatus(req[h].b, "CONFIRMED")
    BY <1>10 DEF VerifyCommit
  <2>5. SoundWrite
    <3>1. UNCHANGED gatewayVars
      BY <1>10 DEF VerifyCommit
    <3> QED
      BY <2>1, <2>2, <2>3, <2>4, <3>1, ConfirmsRow, SucceedsRow
      DEF SoundWrite, BookingRowStatus, BookingStatus
  <2> QED BY <1>10, <2>5, CommitContinues DEF VerifyCommit, At, PostCommitSteps
<1>11. ASSUME NEW h \in Handlers, VerifyConflict(h) PROVE ReservationInv'
  BY <1>11, QuietReturn DEF VerifyConflict, dbVars, queueVars, gatewayVars,
    ledgerVars
<1>12. ASSUME NEW h \in Handlers, NEW ev \in sent, WebhookIgnore(h, ev) PROVE ReservationInv'
  BY <1>12, QuietStay DEF WebhookIgnore, dbVars, queueVars, gatewayVars,
    ledgerVars
<1>13. ASSUME NEW h \in Handlers, NEW ev \in sent, WebhookRead(h, ev) PROVE ReservationInv'
  <2> DEFINE r == [Idle EXCEPT !.pc = "webhook_begin", !.ev = ev, !.o = ev.order,
                            !.b = payment[ev.order].booking,
                            !.seenP = payment[ev.order].status]
  <2>1. req'[h] = r /\ \A g \in Handlers \ {h} : req'[g] = req[g]
    BY <1>13 DEF WebhookRead, ReservationInv, TypeOK
  <2>2. /\ payment[ev.order].booking \in Bookings /\ ev.order \in Orders
        /\ payment[ev.order].status # "NONE" /\ ev \in sent
    BY <1>13 DEF WebhookRead, ReservationInv, RowsLinked
  <2>3. /\ r.pc = "webhook_begin" /\ r.b = payment[ev.order].booking
        /\ r.o = ev.order /\ r.ev = ev
    BY DEF Idle
  <2>4. UNCHANGED ledgerVars
    BY <1>13 DEF WebhookRead, dbVars, queueVars, gatewayVars, ledgerVars
  <2>5. HandlerBound(h)' /\ req'[h].pc \notin InsertingSteps
    BY <2>1, <2>2, <2>3, <2>4 DEF HandlerBound, InsertingSteps, PaymentSteps,
                                  WebhookSteps, ledgerVars
  <2> QED BY <2>1, <2>4, <2>5, QuietMove
<1>14. ASSUME NEW h \in Handlers, WebhookBegin(h) PROVE ReservationInv'
  <2> DEFINE r == [req[h] EXCEPT !.pc = "webhook_tx",
                                 !.seenB = booking[req[h].b].status]
  <2>1. req'[h] = r /\ \A g \in Handlers \ {h} : req'[g] = req[g]
    BY <1>14 DEF WebhookBegin, ReservationInv, TypeOK
  <2>2. r.pc = "webhook_tx" /\ r.b = req[h].b /\ r.o = req[h].o /\ r.ev = req[h].ev
    BY DEF ReservationInv, TypeOK, Request
  <2>3. HandlerBound(h) /\ req[h].pc = "webhook_begin"
    BY <1>14 DEF WebhookBegin, At, ReservationInv
  <2>4. HandlerBound(h)' /\ req'[h].pc \notin InsertingSteps
    BY <1>14, <2>1, <2>2, <2>3
    DEF WebhookBegin, HandlerBound, InsertingSteps, PaymentSteps,
        WebhookSteps, dbVars, gatewayVars
  <2> QED BY <1>14, <2>1, <2>4, QuietMove DEF WebhookBegin, dbVars, queueVars,
    gatewayVars, ledgerVars
<1>15. ASSUME NEW h \in Handlers, WebhookDuplicate(h) PROVE ReservationInv'
  BY <1>15, QuietReturn DEF WebhookDuplicate, dbVars, queueVars, gatewayVars,
    ledgerVars
<1>16. ASSUME NEW h \in Handlers, WebhookConfirm(h) PROVE ReservationInv'
  <2>1. /\ req[h].o \in Orders /\ req[h].b \in Bookings
        /\ payment[req[h].o].status # "NONE"
    BY <1>16, WorksOn DEF WebhookConfirm, At, PaymentSteps, WebhookSteps
  <2>2. req[h].o \in paid /\ WasPaid(req[h].b)
    BY <1>16, CaptureIsPaid DEF WebhookConfirm
  <2>3. PaymentSucceeds(req[h].o) /\ UpdateBookingStatus(req[h].b, "CONFIRMED")
    BY <1>16 DEF WebhookConfirm
  <2>4. SoundWrite
    <3>1. UNCHANGED gatewayVars
      BY <1>16 DEF WebhookConfirm
    <3> QED
      BY <2>1, <2>2, <2>3, <3>1, ConfirmsRow, SucceedsRow
      DEF SoundWrite, BookingRowStatus, BookingStatus
  <2> QED BY <1>16, <2>4, CommitContinues DEF WebhookConfirm, At,
    PostCommitSteps
<1>17. ASSUME NEW h \in Handlers, WebhookConflict(h) PROVE ReservationInv'
  BY <1>17, QuietReturn DEF WebhookConflict, dbVars, queueVars, gatewayVars,
    ledgerVars
<1>18. ASSUME NEW h \in Handlers, WebhookFlag(h) PROVE ReservationInv'
  <2>1. req[h].o \in Orders /\ payment[req[h].o].status # "NONE"
    BY <1>18, WorksOn DEF WebhookFlag, At, PaymentSteps, WebhookSteps
  <2>2. req[h].o \in paid
    BY <1>18, CaptureIsPaid DEF WebhookFlag
  <2>3. PaymentSucceeds(req[h].o) /\ UNCHANGED <<booking, gatewayVars>>
    BY <1>18 DEF WebhookFlag
  <2>4. SoundWrite
    BY <2>1, <2>2, <2>3, SucceedsRow DEF SoundWrite
  <2> QED BY <1>18, <2>4, CommitReturns DEF WebhookFlag
<1>19. ASSUME NEW h \in Handlers, WebhookFailed(h) PROVE ReservationInv'
  <2>1. req[h].o \in Orders /\ payment[req[h].o].status # "NONE"
    BY <1>19, WorksOn DEF WebhookFailed, At, PaymentSteps, WebhookSteps
  <2>2. UNCHANGED <<booking, gatewayVars>>
    BY <1>19 DEF WebhookFailed
  <2>3. \A x \in Orders :
          /\ payment'[x].booking = payment[x].booking
          /\ payment'[x].status = IF x = req[h].o THEN "FAILED"
                                  ELSE payment[x].status
    BY <1>19 DEF WebhookFailed, ReservationInv, TypeOK, PaymentRow
  <2>4. SoundWrite
    BY <2>1, <2>2, <2>3 DEF SoundWrite
  <2> QED BY <1>19, <2>4, CommitReturns DEF WebhookFailed
<1>20. ASSUME NEW h \in Handlers, WebhookRefunded(h) PROVE ReservationInv'
  <2>1. req[h].o \in Orders /\ payment[req[h].o].status # "NONE"
    BY <1>20, WorksOn DEF WebhookRefunded, At, PaymentSteps, WebhookSteps
  <2>2. req[h].o \in paid /\ refunds[req[h].o].count > 0
    BY <1>20 DEF WebhookRefunded, At, ReservationInv, HandlerBound,
      WebhookSteps,
              EventsAreTrue
  <2>3. UpdatePaymentStatus(req[h].o, "REFUNDED") /\ UNCHANGED <<booking, gatewayVars>>
    BY <1>20 DEF WebhookRefunded
  <2>4. SoundWrite
    BY <2>1, <2>2, <2>3, RefundsRow DEF SoundWrite
  <2> QED BY <1>20, <2>4, CommitReturns DEF WebhookRefunded
<1>21. ASSUME NEW h \in Handlers, WebhookNoEffect(h) PROVE ReservationInv'
  BY <1>21, QuietReturn DEF WebhookNoEffect, dbVars, queueVars, gatewayVars,
    ledgerVars
<1>22. ASSUME NEW h \in Handlers, ConfirmRemoveExpire(h) PROVE ReservationInv'
  BY <1>22, QuietGoto, QuietReturn DEF ConfirmRemoveExpire, At,
    PostCommitSteps,
    dbVars, queueVars, gatewayVars, ledgerVars
<1>23. ASSUME NEW h \in Handlers, ConfirmAddOverdue(h) PROVE ReservationInv'
  BY <1>23, QuietGoto DEF ConfirmAddOverdue, At, PostCommitSteps,
    dbVars, queueVars, gatewayVars, ledgerVars
<1>24. ASSUME NEW h \in Handlers, ConfirmNotify(h) PROVE ReservationInv'
  BY <1>24, QuietReturn DEF ConfirmNotify, dbVars, queueVars, gatewayVars,
    ledgerVars
<1>25. ASSUME NEW h \in Handlers, NEW b \in Bookings, CancelRead(h, b) PROVE ReservationInv'
  <2> DEFINE r == [Idle EXCEPT !.pc = "cancel_tx", !.b = b]
  <2>1. req'[h] = r /\ \A g \in Handlers \ {h} : req'[g] = req[g]
    BY <1>25 DEF CancelRead, ReservationInv, TypeOK
  <2>2. b \in Bookings
    BY <1>25 DEF CancelRead
  <2>3. r.pc = "cancel_tx" /\ r.b = b
    BY DEF Idle
  <2>4. UNCHANGED ledgerVars
    BY <1>25 DEF CancelRead, dbVars, queueVars, gatewayVars, ledgerVars
  <2>5. HandlerBound(h)' /\ req'[h].pc \notin InsertingSteps
    BY <2>1, <2>2, <2>3, <2>4 DEF HandlerBound, InsertingSteps, PaymentSteps,
                                  WebhookSteps, ledgerVars
  <2> QED BY <2>1, <2>4, <2>5, QuietMove
<1>26. ASSUME NEW h \in Handlers, CancelCommit(h) PROVE ReservationInv'
  <2>1. req[h].b \in Bookings
    BY <1>26 DEF CancelCommit, At, ReservationInv, HandlerBound
  <2>2. UpdateBookingStatus(req[h].b, "CANCELLED") /\ UNCHANGED <<payment, gatewayVars>>
    BY <1>26 DEF CancelCommit
  <2>3. SoundWrite
    BY <2>1, <2>2, ConfirmsRow
    DEF SoundWrite, BookingRowStatus, BookingStatus
  <2> QED BY <1>26, <2>3, CommitContinues DEF CancelCommit, At, PostCommitSteps
<1>27. ASSUME NEW h \in Handlers, CancelRemoveExpire(h) PROVE ReservationInv'
  BY <1>27, QuietGoto, QuietReturn DEF CancelRemoveExpire, At, PostCommitSteps,
    dbVars, queueVars, gatewayVars, ledgerVars
<1>28. ASSUME NEW h \in Handlers, CancelRemoveOverdue(h) PROVE ReservationInv'
  BY <1>28, QuietGoto, QuietReturn DEF CancelRemoveOverdue, At,
    PostCommitSteps,
    dbVars, queueVars, gatewayVars, ledgerVars
<1>29. ASSUME NEW h \in Handlers, CancelNotify(h) PROVE ReservationInv'
  BY <1>29, QuietReturn DEF CancelNotify, dbVars, queueVars, gatewayVars,
    ledgerVars
<1>30. ASSUME NEW h \in Handlers, NEW b \in Bookings, CompleteRead(h, b) PROVE ReservationInv'
  <2> DEFINE r == [Idle EXCEPT !.pc = "complete_tx", !.b = b]
  <2>1. req'[h] = r /\ \A g \in Handlers \ {h} : req'[g] = req[g]
    BY <1>30 DEF CompleteRead, ReservationInv, TypeOK
  <2>2. WasPaid(b)
    BY <1>30, ConfirmedOnly DEF CompleteRead, ReservationInv, ConfirmedWasPaid
  <2>3. \E o \in paid' : payment'[o].booking = b
    BY <1>30, <2>2 DEF WasPaid, CompleteRead, dbVars, gatewayVars
  <2>4. r.b = b /\ r.pc = "complete_tx"
    BY DEF Idle
  <2>5. (WasPaid(req[h].b))'
    BY <2>1, <2>3, <2>4 DEF WasPaid
  <2>6. HandlerBound(h)' /\ req'[h].pc \notin InsertingSteps
    BY <2>1, <2>4, <2>5 DEF HandlerBound, InsertingSteps, PaymentSteps,
                            WebhookSteps
  <2> QED BY <1>30, <2>1, <2>6, QuietMove DEF CompleteRead, dbVars, queueVars,
    gatewayVars, ledgerVars
<1>31. ASSUME NEW h \in Handlers, CompleteCommit(h) PROVE ReservationInv'
  <2>1. req[h].b \in Bookings /\ WasPaid(req[h].b)
    BY <1>31 DEF CompleteCommit, At, ReservationInv, HandlerBound
  <2>2. UpdateBookingStatus(req[h].b, "COMPLETED") /\ UNCHANGED <<payment, gatewayVars>>
    BY <1>31 DEF CompleteCommit
  <2>3. SoundWrite
    BY <2>1, <2>2, ConfirmsRow
    DEF SoundWrite, BookingRowStatus, BookingStatus
  <2> QED BY <1>31, <2>3, CommitContinues DEF CompleteCommit, At,
    PostCommitSteps
<1>32. ASSUME NEW h \in Handlers, CompleteRemoveOverdue(h) PROVE ReservationInv'
  BY <1>32, QuietReturn DEF CompleteRemoveOverdue, dbVars, queueVars,
    gatewayVars, ledgerVars
<1>33. ASSUME NEW h \in Handlers, NEW o \in Orders, NEW amount \in 0..(Price + 1), RefundRead(h, o, amount) PROVE ReservationInv'
  <2> DEFINE r == [Idle EXCEPT !.pc = "refund_gateway",
                            !.b = payment[o].booking, !.o = o,
                            !.seenB = booking[payment[o].booking].status,
                            !.amount = amount]
  <2>1. req'[h] = r /\ \A g \in Handlers \ {h} : req'[g] = req[g]
    BY <1>33 DEF RefundRead, ReservationInv, TypeOK
  <2>2. payment[o].booking \in Bookings /\ o \in paid /\ payment[o].status # "NONE"
    BY <1>33 DEF RefundRead, ReservationInv, RowsLinked, LedgerIsTrue
  <2>3. r.pc = "refund_gateway" /\ r.b = payment[o].booking /\ r.o = o
    BY DEF Idle
  <2>4. UNCHANGED ledgerVars
    BY <1>33 DEF RefundRead, dbVars, queueVars, gatewayVars, ledgerVars
  <2>5. HandlerBound(h)' /\ req'[h].pc \notin InsertingSteps
    BY <2>1, <2>2, <2>3, <2>4 DEF HandlerBound, InsertingSteps, PaymentSteps,
                                  WebhookSteps, ledgerVars
  <2> QED BY <2>1, <2>4, <2>5, QuietMove
<1>34. ASSUME NEW h \in Handlers, RefundGateway(h) PROVE ReservationInv'
  <2>1. /\ req[h].o \in Orders /\ req[h].b \in Bookings
        /\ payment[req[h].o].status # "NONE"
        /\ payment[req[h].o].booking = req[h].b
    BY <1>34, WorksOn DEF RefundGateway, At, PaymentSteps
  <2>2. req[h].o \in paid
    BY <1>34 DEF RefundGateway, At, ReservationInv, HandlerBound
  <2>3. /\ req'[h].pc = "refund_tx"
        /\ req'[h].b = req[h].b /\ req'[h].o = req[h].o
        /\ \A g \in Handlers \ {h} : req'[g] = req[g]
    <3>1. "refund_tx" \in Step
      BY DEF Step
    <3>2. /\ req'[h] = [req[h] EXCEPT !.pc = "refund_tx"]
          /\ \A g \in Handlers \ {h} : req'[g] = req[g]
      BY <1>34, <3>1, GotoRow DEF RefundGateway, ReservationInv
    <3> QED BY <3>2 DEF ReservationInv, TypeOK, Request
  <2>4. UNCHANGED <<booking, payment, ordered, paid>>
    BY <1>34 DEF RefundGateway, dbVars
  <2>5. /\ refunds'[req[h].o].count > 0
        /\ \A x \in Orders \ {req[h].o} : refunds'[x] = refunds[x]
    BY <1>34, <2>1 DEF RefundGateway, ReservationInv, TypeOK
  <2>6. /\ sent \subseteq sent'
        /\ \A e \in sent' \ sent : e.kind = "refund.processed" /\ e.order = req[h].o
    BY <1>34 DEF RefundGateway, RefundEvents
  <2>7. Grows
    BY <2>4, <2>5, <2>6 DEF Grows
  <2>8. RowsLinked'
    BY <2>4 DEF ReservationInv, RowsLinked
  <2>9. LedgerIsTrue'
    BY <2>4, <2>5 DEF ReservationInv, LedgerIsTrue
  <2>10. EventsAreTrue'
    <3> SUFFICES ASSUME NEW e \in sent'
                 PROVE  /\ IsCapture(e) => e.order \in paid'
                        /\ e.kind = "refund.processed" =>
                             e.order \in paid' /\ refunds'[e.order].count > 0
      BY DEF EventsAreTrue, IsCapture
    <3>1. CASE e \in sent
      BY <3>1, <2>4, <2>7 DEF ReservationInv, EventsAreTrue, Grows, TypeOK
    <3>2. CASE e \notin sent
      BY <3>2, <2>2, <2>4, <2>5, <2>6 DEF IsCapture
    <3> QED BY <3>1, <3>2
  <2>11. ConfirmedWasPaid'
    BY <2>4 DEF ReservationInv, ConfirmedWasPaid, WasPaid
  <2>12. HandlerBound(h)' /\ req'[h].pc \notin InsertingSteps
    BY <2>1, <2>2, <2>3, <2>4, <2>5
    DEF HandlerBound, InsertingSteps, PaymentSteps, WebhookSteps
  <2>13. Spares(h)
    BY <2>3, <2>4 DEF Spares, ReservationInv, HandlerBound
  <2> QED
    BY <2>7, <2>8, <2>9, <2>10, <2>11, <2>12, <2>13, HandlersKept, DistinctKept
    DEF ReservationInv
<1>35. ASSUME NEW h \in Handlers, RefundCommit(h) PROVE ReservationInv'
  <2>1. /\ req[h].o \in Orders /\ req[h].b \in Bookings
        /\ payment[req[h].o].status # "NONE"
    BY <1>35, WorksOn DEF RefundCommit, At, PaymentSteps
  <2>2. req[h].o \in paid /\ refunds[req[h].o].count > 0
    BY <1>35 DEF RefundCommit, At, ReservationInv, HandlerBound
  <2>3. UpdatePaymentStatus(req[h].o, "REFUNDED") /\ UNCHANGED gatewayVars
    BY <1>35 DEF RefundCommit
  <2>4. \A b \in Bookings : booking'[b].status # "CANCELLED" =>
          booking'[b].status = booking[b].status
    BY <1>35, <2>1, ConfirmsRow
    DEF RefundCommit, BookingRowStatus, BookingStatus, BookingStatusRow
  <2>5. SoundWrite
    BY <2>1, <2>2, <2>3, <2>4, RefundsRow DEF SoundWrite
  <2> QED BY <1>35, <2>5, CommitReturns DEF RefundCommit
<1>36. ASSUME NEW b \in Bookings, ExpireStart(b) PROVE ReservationInv'
  BY <1>36, QuietStay DEF ExpireStart, dbVars, queueVars, gatewayVars,
    ledgerVars
<1>37. ASSUME NEW b \in Bookings, ExpireRead(b) PROVE ReservationInv'
  BY <1>37, QuietStay DEF ExpireRead, dbVars, queueVars, gatewayVars,
    ledgerVars
<1>38. ASSUME NEW b \in Bookings, ExpireCommit(b) PROVE ReservationInv'
  <2>1. UNCHANGED gatewayVars /\ UNCHANGED req
    BY <1>38 DEF ExpireCommit
  <2>2. \A c \in Bookings : booking'[c].status \in {"CONFIRMED", "COMPLETED"} =>
          booking'[c].status = booking[c].status
    BY <1>38, ConfirmsRow DEF ExpireCommit, BookingRowStatus, BookingStatus
  <2>3. \A x \in Orders :
          /\ payment'[x].booking = payment[x].booking
          /\ \/ payment'[x].status = payment[x].status
             \/ payment'[x].status = "FAILED" /\ payment[x].status # "NONE"
    <3>1. ASSUME NEW x \in Orders
          PROVE  LET failed == [payment[x] EXCEPT !.status = "FAILED"] IN
                   failed.booking = payment[x].booking /\ failed.status = "FAILED"
      BY DEF ReservationInv, TypeOK, PaymentRow
    <3> QED BY <1>38, <3>1 DEF ExpireCommit
  <2>4. SoundWrite
    BY <2>1, <2>2, <2>3 DEF SoundWrite
  <2> QED BY <2>1, <2>4, CommitOfWorker
<1>39. ASSUME NEW b \in Bookings, ExpireFails(b) PROVE ReservationInv'
  BY <1>39, QuietStay DEF ExpireFails, dbVars, queueVars, gatewayVars,
    ledgerVars
<1>40. ASSUME NEW b \in Bookings, OverdueStart(b) PROVE ReservationInv'
  BY <1>40, QuietStay DEF OverdueStart, dbVars, queueVars, gatewayVars,
    ledgerVars
<1>41. ASSUME NEW b \in Bookings, OverdueRead(b) PROVE ReservationInv'
  BY <1>41, QuietStay DEF OverdueRead, dbVars, queueVars, gatewayVars,
    ledgerVars
<1>42. ASSUME NEW b \in Bookings, OverdueCommit(b) PROVE ReservationInv'
  <2>1. UNCHANGED gatewayVars /\ UNCHANGED payment /\ UNCHANGED req
    BY <1>42 DEF OverdueCommit
  <2>2. \A c \in Bookings : booking'[c].status = booking[c].status
    BY <1>42 DEF OverdueCommit, ReservationInv, TypeOK, BookingRow
  <2>3. SoundWrite
    BY <2>1, <2>2 DEF SoundWrite
  <2> QED BY <2>1, <2>3, CommitOfWorker
<1>43. ASSUME NEW b \in Bookings, OverdueFails(b) PROVE ReservationInv'
  BY <1>43, QuietStay DEF OverdueFails, dbVars, queueVars, gatewayVars,
    ledgerVars
<1>44. ASSUME NEW o \in Orders, NEW ok \in AmountMatches, GatewayCapture(o, ok) PROVE ReservationInv'
  <2>1. UNCHANGED <<booking, payment, ordered, refunds, req>>
    BY <1>44 DEF GatewayCapture, dbVars
  <2>2. payment[o].status # "NONE" /\ paid' = paid \cup {o}
    BY <1>44 DEF GatewayCapture
  <2>3. /\ sent \subseteq sent'
        /\ \A e \in sent' \ sent : e.kind \in {"payment.captured", "order.paid"} /\ e.order = o
    BY <1>44, EmitsRow, InputAssumption DEF GatewayCapture
  <2>4. Grows
    BY <2>1, <2>2, <2>3 DEF Grows
  <2>5. RowsLinked'
    BY <2>1, <2>2 DEF ReservationInv, RowsLinked
  <2>6. LedgerIsTrue'
    BY <2>1, <2>2 DEF ReservationInv, LedgerIsTrue
  <2>7. EventsAreTrue'
    <3> SUFFICES ASSUME NEW e \in sent'
                 PROVE  /\ IsCapture(e) => e.order \in paid'
                        /\ e.kind = "refund.processed" =>
                             e.order \in paid' /\ refunds'[e.order].count > 0
      BY DEF EventsAreTrue, IsCapture
    <3>1. CASE e \in sent
      BY <3>1, <2>1, <2>2 DEF ReservationInv, EventsAreTrue
    <3>2. CASE e \notin sent
      BY <3>2, <2>2, <2>3 DEF IsCapture
    <3> QED BY <3>1, <3>2
  <2>8. ConfirmedWasPaid'
    BY <2>1, <2>2 DEF ReservationInv, ConfirmedWasPaid, WasPaid
  <2>9. \A g \in Handlers : req[g].pc \in InsertingSteps =>
          payment'[req[g].o].status = "NONE"
    BY <2>1 DEF ReservationInv, HandlerBound
  <2> QED
    BY <2>1, <2>4, <2>5, <2>6, <2>7, <2>8, <2>9, NobodyMoves DEF ReservationInv
<1>45. ASSUME NEW o \in Orders, GatewayAttemptFails(o) PROVE ReservationInv'
  <2>1. UNCHANGED <<booking, payment, ordered, refunds, req>>
    BY <1>45 DEF GatewayAttemptFails, dbVars
  <2>2. paid' = paid
    BY <1>45 DEF GatewayAttemptFails
  <2>3. /\ sent \subseteq sent'
        /\ \A e \in sent' \ sent : e.kind = "payment.failed"
    <3>1. o \in Orders \cup {None} /\ TRUE \in BOOLEAN
      OBVIOUS
    <3>2. sent' = sent \cup Emits({"payment.failed"}, o, TRUE)
      BY <1>45 DEF GatewayAttemptFails
    <3>3. \A e \in Emits({"payment.failed"}, o, TRUE) : e.kind \in {"payment.failed"}
      BY <3>1, EmitsRow
    <3> QED BY <3>2, <3>3
  <2>4. Grows
    BY <2>1, <2>2, <2>3 DEF Grows
  <2>5. RowsLinked'
    BY <2>1, <2>2 DEF ReservationInv, RowsLinked
  <2>6. LedgerIsTrue'
    BY <2>1, <2>2 DEF ReservationInv, LedgerIsTrue
  <2>7. EventsAreTrue'
    <3> SUFFICES ASSUME NEW e \in sent'
                 PROVE  /\ IsCapture(e) => e.order \in paid'
                        /\ e.kind = "refund.processed" =>
                             e.order \in paid' /\ refunds'[e.order].count > 0
      BY DEF EventsAreTrue, IsCapture
    <3>1. CASE e \in sent
      BY <3>1, <2>1, <2>2 DEF ReservationInv, EventsAreTrue
    <3>2. CASE e \notin sent
      BY <3>2, <2>2, <2>3 DEF IsCapture
    <3> QED BY <3>1, <3>2
  <2>8. ConfirmedWasPaid'
    BY <2>1, <2>2 DEF ReservationInv, ConfirmedWasPaid, WasPaid
  <2>9. \A g \in Handlers : req[g].pc \in InsertingSteps =>
          payment'[req[g].o].status = "NONE"
    BY <2>1 DEF ReservationInv, HandlerBound
  <2> QED
    BY <2>1, <2>4, <2>5, <2>6, <2>7, <2>8, <2>9, NobodyMoves DEF ReservationInv
<1>46. ASSUME NEW o \in Orders \cup {None}, GatewayUnrelated(o) PROVE ReservationInv'
  <2>1. UNCHANGED <<booking, payment, ordered, refunds, req>>
    BY <1>46 DEF GatewayUnrelated, dbVars
  <2>2. paid' = paid
    BY <1>46 DEF GatewayUnrelated
  <2>3. /\ sent \subseteq sent'
        /\ \A e \in sent' \ sent : e.kind = "payment.authorized"
    BY <1>46, EmitsRow DEF GatewayUnrelated
  <2>4. Grows
    BY <2>1, <2>2, <2>3 DEF Grows
  <2>5. RowsLinked'
    BY <2>1, <2>2 DEF ReservationInv, RowsLinked
  <2>6. LedgerIsTrue'
    BY <2>1, <2>2 DEF ReservationInv, LedgerIsTrue
  <2>7. EventsAreTrue'
    <3> SUFFICES ASSUME NEW e \in sent'
                 PROVE  /\ IsCapture(e) => e.order \in paid'
                        /\ e.kind = "refund.processed" =>
                             e.order \in paid' /\ refunds'[e.order].count > 0
      BY DEF EventsAreTrue, IsCapture
    <3>1. CASE e \in sent
      BY <3>1, <2>1, <2>2 DEF ReservationInv, EventsAreTrue
    <3>2. CASE e \notin sent
      BY <3>2, <2>2, <2>3 DEF IsCapture
    <3> QED BY <3>1, <3>2
  <2>8. ConfirmedWasPaid'
    BY <2>1, <2>2 DEF ReservationInv, ConfirmedWasPaid, WasPaid
  <2>9. \A g \in Handlers : req[g].pc \in InsertingSteps =>
          payment'[req[g].o].status = "NONE"
    BY <2>1 DEF ReservationInv, HandlerBound
  <2> QED
    BY <2>1, <2>4, <2>5, <2>6, <2>7, <2>8, <2>9, NobodyMoves DEF ReservationInv
<1>47. ASSUME Tick PROVE ReservationInv'
  BY <1>47, QuietStay DEF Tick, dbVars, queueVars, gatewayVars, ledgerVars
<1>48. ASSUME NEW h \in Handlers, HandlerFails(h) PROVE ReservationInv'
  BY <1>48, QuietReturn DEF HandlerFails, dbVars, queueVars, gatewayVars,
    ledgerVars
<1> QED
  BY <1>1, <1>2, <1>3, <1>4, <1>5, <1>6, <1>7, <1>8, <1>9, <1>10, <1>11,
    <1>12, <1>13, <1>14, <1>15, <1>16, <1>17, <1>18, <1>19, <1>20, <1>21,
    <1>22, <1>23, <1>24, <1>25, <1>26, <1>27, <1>28, <1>29, <1>30, <1>31,
    <1>32, <1>33, <1>34, <1>35, <1>36, <1>37, <1>38, <1>39, <1>40, <1>41,
    <1>42, <1>43, <1>44, <1>45, <1>46, <1>47, <1>48
  DEF Next, Receive, Continue, Worker, WorkerFails, Gateway

\* The initial state satisfies ReservationInv.
LEMMA InitInv ==
  ASSUME Init
  PROVE  ReservationInv
<1> USE BoundsAssumption DEF Init
<1>1. TypeOK
  <2>1. /\ booking \in [Bookings -> BookingRow]
        /\ payment \in [Orders -> PaymentRow]
    BY DEF BookingRow, PaymentRow, BookingRowStatus, PaymentRowStatus
  <2>2. NoJob \in Job
    BY DEF NoJob, Job, JobState
  <2>3. /\ refunds \in [Orders -> [count : Nat, total : Nat]]
        /\ req \in [Handlers -> Request]
    BY IdleRow
  <2>4. now \in 0..Horizon /\ faults \in 0..MaxFaults
    OBVIOUS
  <2> QED BY <2>1, <2>2, <2>3, <2>4 DEF TypeOK
<1>2. RowsLinked /\ EventsAreTrue /\ LedgerIsTrue /\ ConfirmedWasPaid
  BY DEF RowsLinked, EventsAreTrue, LedgerIsTrue, ConfirmedWasPaid
<1>3. (\A h \in Handlers : HandlerBound(h)) /\ InsertsDistinct
  BY DEF HandlerBound, InsertsDistinct, Idle, InsertingSteps, PaymentSteps,
         WebhookSteps
<1> QED BY <1>1, <1>2, <1>3 DEF ReservationInv

\* Stuttering preserves it.
LEMMA StutterInv ==
  ASSUME ReservationInv, UNCHANGED vars
  PROVE  ReservationInv'
<1>1. TypeOK'
  BY DEF ReservationInv, TypeOK, vars, dbVars, queueVars, gatewayVars
<1> QED
  BY <1>1, QuietStay DEF vars, dbVars, queueVars, gatewayVars, ledgerVars

-----------------------------------------------------------------------------
(* Theorems *)

\* ReservationInv holds in every reachable state.
THEOREM ReservationInvariance == Spec => []ReservationInv
<1>1. Init => ReservationInv
  BY InitInv
<1>2. ReservationInv /\ [Next]_vars => ReservationInv'
  BY StepInv, StutterInv
<1> QED BY <1>1, <1>2, PTL DEF Spec

\* Every table, queue and handler stays well typed.
THEOREM TypeCorrect == Spec => []TypeOK
<1>1. ReservationInv => TypeOK
  BY DEF ReservationInv
<1> QED BY <1>1, ReservationInvariance, PTL

\* A booking is CONFIRMED or COMPLETED only if the gateway captured an order
\* of it, whatever the interleaving of clients, webhooks, workers and faults.
THEOREM ConfirmedIsPaid == Spec => []ConfirmedWasPaid
<1>1. ReservationInv => ConfirmedWasPaid
  BY DEF ReservationInv
<1> QED BY <1>1, ReservationInvariance, PTL

\* Payment rows never record money that did not move at the gateway.
THEOREM LedgerTruth == Spec => []LedgerIsTrue
<1>1. ReservationInv => LedgerIsTrue
  BY DEF ReservationInv
<1> QED BY <1>1, ReservationInvariance, PTL

-----------------------------------------------------------------------------
(* Slots *)

\* The slot part of one step: at most one booking changes whether it holds its
\* slot, and one that starts to hold it found it free.
SlotStep ==
  \/ \A c \in Bookings :
       booking'[c].status \in HoldsSlot <=> booking[c].status \in HoldsSlot
  \/ \E b \in Bookings :
       /\ \A c \in Bookings \ {b} : booking'[c].status = booking[c].status
       /\ booking'[b].status \in HoldsSlot => SlotFree(b)

\* A commit that writes one status.
LEMMA StatusSlotStep ==
  ASSUME ReservationInv, NEW b \in Bookings, NEW status \in BookingRowStatus,
         UpdateBookingStatus(b, status), status \in HoldsSlot => SlotFree(b)
  PROVE  SlotStep
<1>1. \A c \in Bookings :
        booking'[c].status = IF c = b THEN status ELSE booking[c].status
  BY ConfirmsRow
<1> QED BY <1>1 DEF SlotStep

LEMMA SameSlotStep ==
  ASSUME UNCHANGED booking
  PROVE  SlotStep
BY DEF SlotStep

LEMMA StepSlot ==
  ASSUME ReservationInv, Next
  PROVE  SlotStep
<1> USE DEF dbVars, queueVars, gatewayVars
<1>1. ASSUME NEW h \in Handlers, Receive(h) PROVE SlotStep
  BY <1>1, SameSlotStep
  DEF Receive, CreateStart, OrderRead, VerifyRead, WebhookIgnore, WebhookRead,
      CancelRead, CompleteRead, RefundRead
<1>2. ASSUME NEW h \in Handlers, Continue(h) PROVE SlotStep
  <2>1. CASE CreateCommit(h)
    <3>1. req[h].b \in Bookings
      BY <2>1 DEF CreateCommit, At, ReservationInv, HandlerBound
    <3>2. \A c \in Bookings \ {req[h].b} : booking'[c] = booking[c]
      BY <2>1 DEF CreateCommit, ReservationInv, TypeOK
    <3> QED BY <2>1, <3>1, <3>2 DEF CreateCommit, SlotStep
  <2>2. CASE OrderInsert(h)
    BY <2>2 DEF OrderInsert, SlotStep, ReservationInv, TypeOK, BookingRow
  <2>3. CASE VerifyCommit(h)
    BY <2>3, WorksOn, StatusSlotStep
    DEF VerifyCommit, At, PaymentSteps, BookingRowStatus, BookingStatus
  <2>4. CASE WebhookConfirm(h)
    BY <2>4, WorksOn, StatusSlotStep
    DEF WebhookConfirm, At, PaymentSteps, WebhookSteps, BookingRowStatus,
        BookingStatus
  <2>5. CASE CancelCommit(h)
    BY <2>5, StatusSlotStep
    DEF CancelCommit, At, ReservationInv, HandlerBound, BookingRowStatus,
        BookingStatus, HoldsSlot
  <2>6. CASE CompleteCommit(h)
    BY <2>6, StatusSlotStep
    DEF CompleteCommit, At, ReservationInv, HandlerBound, BookingRowStatus,
        BookingStatus, HoldsSlot
  <2>7. CASE RefundCommit(h)
    BY <2>7, WorksOn, StatusSlotStep, SameSlotStep
    DEF RefundCommit, At, PaymentSteps, BookingRowStatus, BookingStatus,
        HoldsSlot
  <2>8. CASE UNCHANGED booking
    BY <2>8, SameSlotStep
  <2> QED
    BY <1>2, <2>1, <2>2, <2>3, <2>4, <2>5, <2>6, <2>7, <2>8
    DEF Continue, CreateConflict, CreateSchedule, OrderReuse, OrderCreate,
        VerifyConflict, WebhookBegin, WebhookDuplicate, WebhookConflict,
        WebhookFlag, WebhookFailed, WebhookRefunded, WebhookNoEffect,
        ConfirmRemoveExpire, ConfirmAddOverdue, ConfirmNotify,
        CancelRemoveExpire, CancelRemoveOverdue, CancelNotify,
        CompleteRemoveOverdue, RefundGateway
<1>3. ASSUME NEW h \in Handlers, HandlerFails(h) PROVE SlotStep
  BY <1>3, SameSlotStep DEF HandlerFails
<1>4. ASSUME NEW b \in Bookings, Worker(b) PROVE SlotStep
  <2>1. CASE ExpireCommit(b)
    BY <2>1, StatusSlotStep, SameSlotStep
    DEF ExpireCommit, BookingRowStatus, BookingStatus, HoldsSlot
  <2>2. CASE OverdueCommit(b)
    BY <2>2 DEF OverdueCommit, SlotStep, ReservationInv, TypeOK, BookingRow
  <2>3. CASE UNCHANGED booking
    BY <2>3, SameSlotStep
  <2> QED
    BY <1>4, <2>1, <2>2, <2>3
    DEF Worker, ExpireStart, ExpireRead, OverdueStart, OverdueRead
<1>5. ASSUME NEW b \in Bookings, WorkerFails(b) PROVE SlotStep
  BY <1>5, SameSlotStep DEF WorkerFails, ExpireFails, OverdueFails
<1>6. CASE Gateway
  BY <1>6, SameSlotStep
  DEF Gateway, GatewayCapture, GatewayAttemptFails, GatewayUnrelated
<1>7. CASE Tick
  BY <1>7, SameSlotStep DEF Tick
<1> QED BY <1>1, <1>2, <1>3, <1>4, <1>5, <1>6, <1>7 DEF Next

\* Two bookings that hold their slots never overlap, for every calendar.
THEOREM NeverDoubleBooked == Spec => []NoDoubleBooking
<1>1. Init => NoDoubleBooking
  BY DEF Init, NoDoubleBooking, HoldsSlot
<1>2. ASSUME ReservationInv, NoDoubleBooking, [Next]_vars
      PROVE  NoDoubleBooking'
  <2>1. CASE UNCHANGED vars
    BY <1>2, <2>1 DEF vars, dbVars, NoDoubleBooking
  <2>2. CASE Next
    <3>1. SlotStep
      BY <1>2, <2>2, StepSlot
    <3> SUFFICES ASSUME NEW b \in Bookings, NEW c \in Bookings, b # c,
                        booking'[b].status \in HoldsSlot,
                        booking'[c].status \in HoldsSlot
                 PROVE  ~Overlap(b, c)
      BY DEF NoDoubleBooking, Overlap
    <3>2. Overlap(b, c) <=> Overlap(c, b)
      BY DEF Overlap
    <3> QED BY <1>2, <3>1, <3>2 DEF SlotStep, SlotFree, NoDoubleBooking
  <2> QED BY <1>2, <2>1, <2>2
<1> QED BY <1>1, <1>2, ReservationInvariance, PTL DEF Spec

\* The reservation core implements the calendar of slots.
THEOREM CalendarRefinement == Spec => ImplementsCalendar
<1>1. Init => Calendar!Init
  BY DEF Init, Calendar!Init, Held, HoldsSlot
<1>2. ASSUME ReservationInv, [Next]_vars
      PROVE  [Calendar!Next]_Held
  <2>1. CASE UNCHANGED vars
    BY <2>1 DEF vars, dbVars, Held
  <2>2. CASE Next
    <3>1. SlotStep
      BY <1>2, <2>2, StepSlot
    <3>2. CASE \A c \in Bookings :
                 booking'[c].status \in HoldsSlot <=>
                   booking[c].status \in HoldsSlot
      BY <3>2 DEF Held
    <3>3. ASSUME NEW b \in Bookings,
                 \A c \in Bookings \ {b} :
                   booking'[c].status = booking[c].status,
                 booking'[b].status \in HoldsSlot => SlotFree(b)
          PROVE  [Calendar!Next]_Held
      <4>1. CASE b \notin Held /\ b \in Held'
        <5>1. Held' = Held \cup {b}
          BY <3>3, <4>1 DEF Held
        <5>2. \A c \in Held : <<b, c>> \notin ConflictPairs
          BY <3>3, <4>1 DEF Held, SlotFree, ConflictPairs
        <5>3. Calendar!Grant(b)
          BY <4>1, <5>1, <5>2 DEF Calendar!Grant
        <5> QED BY <5>3 DEF Calendar!Next
      <4>2. CASE b \in Held /\ b \notin Held'
        <5>1. Held' = Held \ {b}
          BY <3>3, <4>2 DEF Held
        <5> QED BY <4>2, <5>1 DEF Calendar!Next, Calendar!Release
      <4>3. CASE b \in Held <=> b \in Held'
        <5>1. Held' = Held
          BY <3>3, <4>3 DEF Held
        <5> QED BY <5>1
      <4> QED BY <4>1, <4>2, <4>3
    <3> QED BY <3>1, <3>2, <3>3 DEF SlotStep
  <2> QED BY <1>2, <2>1, <2>2
<1> QED
  BY <1>1, <1>2, ReservationInvariance, PTL
  DEF Spec, ImplementsCalendar, Calendar!Spec

-----------------------------------------------------------------------------
(* Webhook deliveries and expiration *)

\* The handlers inside a webhook transaction, and the recorded events: a step
\* either leaves them as they are, adds one undisputed delivery, or ends one
\* delivery, recording its own event or none.
LEMMA EventStep ==
  ASSUME ReservationInv, EventAppliedOnce, Next
  PROVE  EventAppliedOnce'
<1> USE DEF dbVars, queueVars, gatewayVars
<1>1. ASSUME NEW h \in Handlers,
             \A g \in Handlers \ {h} : req'[g] = req[g],
             req'[h].pc # "webhook_tx",
             \/ UNCHANGED events
             \/ At(h, "webhook_tx") /\ events' = events \cup {req[h].ev}
      PROVE  EventAppliedOnce'
  BY <1>1 DEF EventAppliedOnce, At
<1>2. ASSUME NEW h \in Handlers, Return(h),
             \/ UNCHANGED events
             \/ At(h, "webhook_tx") /\ events' = events \cup {req[h].ev}
      PROVE  EventAppliedOnce'
  BY <1>1, <1>2, ReturnRow DEF ReservationInv, Idle
<1>3. ASSUME NEW h \in Handlers, NEW step \in Step \ {"webhook_tx"},
             Goto(h, step),
             \/ UNCHANGED events
             \/ At(h, "webhook_tx") /\ events' = events \cup {req[h].ev}
      PROVE  EventAppliedOnce'
  <2>1. req \in [Handlers -> Request]
    BY DEF ReservationInv, TypeOK
  <2>2. req'[h] = [req[h] EXCEPT !.pc = step]
    BY <1>3, <2>1 DEF Goto
  <2>3. req'[h].pc = step
    BY <2>1, <2>2 DEF Request
  <2>4. \A g \in Handlers \ {h} : req'[g] = req[g]
    BY <1>3, <2>1 DEF Goto
  <2> QED BY <1>1, <1>3, <2>3, <2>4
<1>4. ASSUME UNCHANGED <<req, events>> PROVE EventAppliedOnce'
  BY <1>4 DEF EventAppliedOnce, At
<1>5. ASSUME NEW h \in Handlers, Receive(h) PROVE EventAppliedOnce'
  <2>1. CASE \E ev \in sent : WebhookIgnore(h, ev)
    <3>1. PICK ev \in sent : WebhookIgnore(h, ev)
      BY <2>1
    <3>2. /\ UNCHANGED req /\ events' = events \cup {ev}
          /\ ev.order \in Orders => payment[ev.order].status = "NONE"
      BY <3>1 DEF WebhookIgnore
    <3>3. ASSUME NEW g \in Handlers, At(g, "webhook_tx") PROVE req[g].ev # ev
      BY <3>2, <3>3
      DEF At, ReservationInv, HandlerBound, PaymentSteps, WebhookSteps
    <3> QED BY <3>2, <3>3 DEF EventAppliedOnce, At
  <2>2. req \in [Handlers -> Request]
    BY DEF ReservationInv, TypeOK
  <2>3. CASE \E b \in Bookings, o \in Orders : CreateStart(h, b, o)
    <3>1. /\ \A g \in Handlers \ {h} : req'[g] = req[g]
          /\ req'[h].pc = "create_tx" /\ UNCHANGED events
      BY <2>3, <2>2 DEF CreateStart, Idle
    <3> QED BY <1>1, <3>1
  <2>4. CASE \E b \in Bookings :
               OrderRead(h, b) \/ CancelRead(h, b) \/ CompleteRead(h, b)
    <3>1. /\ \A g \in Handlers \ {h} : req'[g] = req[g]
          /\ req'[h].pc \in {"order_check", "cancel_tx", "complete_tx"}
          /\ UNCHANGED events
      BY <2>4, <2>2 DEF OrderRead, CancelRead, CompleteRead, Idle
    <3> QED BY <1>1, <3>1
  <2>5. CASE \E o \in Orders : VerifyRead(h, o)
    <3>1. /\ \A g \in Handlers \ {h} : req'[g] = req[g]
          /\ req'[h].pc = "verify_tx" /\ UNCHANGED events
      BY <2>5, <2>2 DEF VerifyRead, Idle
    <3> QED BY <1>1, <3>1
  <2>6. CASE \E ev \in sent : WebhookRead(h, ev)
    <3>1. /\ \A g \in Handlers \ {h} : req'[g] = req[g]
          /\ req'[h].pc = "webhook_begin" /\ UNCHANGED events
      BY <2>6, <2>2 DEF WebhookRead, Idle
    <3> QED BY <1>1, <3>1
  <2>7. CASE \E o \in Orders, amount \in 0..(Price + 1) :
               RefundRead(h, o, amount)
    <3>1. /\ \A g \in Handlers \ {h} : req'[g] = req[g]
          /\ req'[h].pc = "refund_gateway" /\ UNCHANGED events
      BY <2>7, <2>2 DEF RefundRead, Idle
    <3> QED BY <1>1, <3>1
  <2> QED
    BY <1>5, <2>1, <2>3, <2>4, <2>5, <2>6, <2>7 DEF Receive
<1>6. ASSUME NEW h \in Handlers, Continue(h) PROVE EventAppliedOnce'
  <2>1. CASE WebhookBegin(h)
    <3>1. /\ \A g \in Handlers \ {h} : req'[g] = req[g]
          /\ req'[h].ev = req[h].ev
          /\ req[h].ev \notin events /\ UNCHANGED events
          /\ InsertNotBlocked(h)
      BY <2>1 DEF WebhookBegin, ReservationInv, TypeOK, Request
    <3> QED BY <3>1 DEF InsertNotBlocked, EventAppliedOnce, At
  <2>2. CASE \E o \in Orders : OrderCreate(h, o)
    <3>1. PICK o \in Orders : OrderCreate(h, o)
      BY <2>2
    <3>2. /\ \A g \in Handlers \ {h} : req'[g] = req[g]
          /\ req'[h].pc = "order_insert" /\ UNCHANGED events
      BY <3>1 DEF OrderCreate, ReservationInv, TypeOK, Request
    <3> QED BY <1>1, <3>2
  <2>3. CASE \/ CreateConflict(h) \/ CreateSchedule(h) \/ OrderReuse(h)
             \/ OrderInsert(h) \/ VerifyConflict(h) \/ WebhookDuplicate(h)
             \/ WebhookConflict(h) \/ WebhookFlag(h) \/ WebhookFailed(h)
             \/ WebhookRefunded(h) \/ WebhookNoEffect(h) \/ ConfirmNotify(h)
             \/ CancelNotify(h) \/ CompleteRemoveOverdue(h)
             \/ RefundCommit(h)
    BY <2>3, <1>2
    DEF CreateConflict, CreateSchedule, OrderReuse, OrderInsert,
        VerifyConflict, WebhookDuplicate, WebhookConflict, WebhookFlag,
        WebhookFailed, WebhookRefunded, WebhookNoEffect, RecordEvent,
        ConfirmNotify, CancelNotify, CompleteRemoveOverdue,
        RefundCommit
  <2>4. CASE \/ CreateCommit(h) \/ VerifyCommit(h) \/ WebhookConfirm(h)
             \/ ConfirmAddOverdue(h) \/ CancelCommit(h) \/ CompleteCommit(h)
             \/ RefundGateway(h)
    BY <2>4, <1>3
    DEF CreateCommit, VerifyCommit, WebhookConfirm, RecordEvent,
        ConfirmAddOverdue, CancelCommit, CompleteCommit, RefundGateway, Step
  <2>5. CASE ConfirmRemoveExpire(h) \/ CancelRemoveExpire(h)
               \/ CancelRemoveOverdue(h)
    BY <2>5, <1>2, <1>3
    DEF ConfirmRemoveExpire, CancelRemoveExpire, CancelRemoveOverdue, Step
  <2> QED BY <1>6, <2>1, <2>2, <2>3, <2>4, <2>5 DEF Continue
<1>7. ASSUME NEW h \in Handlers, HandlerFails(h) PROVE EventAppliedOnce'
  BY <1>2, <1>7 DEF HandlerFails
<1>8. CASE (\E b \in Bookings : Worker(b) \/ WorkerFails(b)) \/ Gateway \/ Tick
  BY <1>4, <1>8
  DEF Worker, WorkerFails, Gateway, Tick, ExpireStart, ExpireRead,
      ExpireCommit, ExpireFails, OverdueStart, OverdueRead, OverdueCommit,
      OverdueFails, GatewayCapture, GatewayAttemptFails, GatewayUnrelated
<1> QED BY <1>5, <1>6, <1>7, <1>8 DEF Next

\* The effects of a webhook event are applied at most once, for any number of
\* concurrent deliveries.
THEOREM EventsAppliedOnce == Spec => []EventAppliedOnce
<1>1. Init => EventAppliedOnce
  BY DEF Init, EventAppliedOnce, At, Idle
<1>2. ReservationInv /\ EventAppliedOnce /\ UNCHANGED vars => EventAppliedOnce'
  BY DEF vars, dbVars, EventAppliedOnce, At
<1>3. ReservationInv /\ EventAppliedOnce /\ [Next]_vars => EventAppliedOnce'
  BY <1>2, EventStep
<1> QED BY <1>1, <1>3, ReservationInvariance, PTL DEF Spec

\* A status written by anything but the expiration worker is not EXPIRED.
LEMMA OtherWriters ==
  ASSUME ReservationInv, NEW b \in Bookings, NEW status \in BookingRowStatus,
         UpdateBookingStatus(b, status), status # "EXPIRED",
         NEW c \in Bookings, booking'[c].status = "EXPIRED"
  PROVE  booking[c].status = "EXPIRED"
BY ConfirmsRow

\* Expiration never overwrites an outcome and leaves no payment of the booking
\* open.
THEOREM ExpiryIsSafe == Spec => ExpiryNeverOverwrites
<1> DEFINE A == \A b \in Bookings :
                  booking'[b].status = "EXPIRED"
                    /\ booking[b].status # "EXPIRED" =>
                    /\ booking[b].status = "PENDING_PAYMENT"
                    /\ \A o \in Orders : payment[o].booking = b =>
                         payment'[o].status \notin {"CREATED", "PENDING"}
<1>1. ASSUME ReservationInv, Next PROVE A
  <2> USE DEF dbVars
  <2>1. ASSUME UNCHANGED booking PROVE A
    BY <2>1
  <2>2. ASSUME NEW h \in Handlers, Receive(h) PROVE A
    BY <2>1, <2>2
    DEF Receive, CreateStart, OrderRead, VerifyRead, WebhookIgnore,
        WebhookRead, CancelRead, CompleteRead, RefundRead
  <2>3. ASSUME NEW h \in Handlers, Continue(h) PROVE A
    <3>1. CASE CreateCommit(h) \/ OrderInsert(h)
      <4>1. booking \in [Bookings -> BookingRow]
        BY <1>1 DEF ReservationInv, TypeOK
      <4>2. CASE CreateCommit(h)
        BY <4>1, <4>2 DEF CreateCommit, BookingRow
      <4>3. CASE OrderInsert(h)
        BY <4>1, <4>3 DEF OrderInsert, BookingRow
      <4> QED BY <3>1, <4>2, <4>3
    <3>2. CASE VerifyCommit(h) \/ WebhookConfirm(h) \/ RefundCommit(h)
      BY <1>1, <3>2, <2>1, WorksOn, OtherWriters
      DEF VerifyCommit, WebhookConfirm, RefundCommit, At, PaymentSteps,
          WebhookSteps, BookingRowStatus, BookingStatus
    <3>3. CASE CancelCommit(h) \/ CompleteCommit(h)
      BY <1>1, <3>3, OtherWriters
      DEF CancelCommit, CompleteCommit, At, ReservationInv, HandlerBound,
          BookingRowStatus, BookingStatus
    <3>4. CASE UNCHANGED booking
      BY <2>1, <3>4
    <3> QED
      BY <2>3, <3>1, <3>2, <3>3, <3>4
      DEF Continue, CreateConflict, CreateSchedule, OrderReuse, OrderCreate,
          VerifyConflict, WebhookBegin, WebhookDuplicate, WebhookConflict,
          WebhookFlag, WebhookFailed, WebhookRefunded, WebhookNoEffect,
          ConfirmRemoveExpire, ConfirmAddOverdue, ConfirmNotify,
          CancelRemoveExpire, CancelRemoveOverdue, CancelNotify,
          CompleteRemoveOverdue, RefundGateway
  <2>4. ASSUME NEW b \in Bookings, ExpireCommit(b) PROVE A
    <3>1. CASE ~StillPending(b)
      BY <2>1, <2>4, <3>1 DEF ExpireCommit
    <3>2. CASE StillPending(b)
      <4>1. \A c \in Bookings :
              booking'[c].status = IF c = b THEN "EXPIRED"
                                   ELSE booking[c].status
        BY <1>1, <2>4, <3>2, ConfirmsRow
        DEF ExpireCommit, BookingRowStatus, BookingStatus
      <4>2. ASSUME NEW o \in Orders
            PROVE  [payment[o] EXCEPT !.status = "FAILED"].status = "FAILED"
        BY <1>1 DEF ReservationInv, TypeOK, PaymentRow
      <4>3. \A o \in Orders : payment[o].booking = b =>
              payment'[o].status \notin {"CREATED", "PENDING"}
        BY <2>4, <3>2, <4>2 DEF ExpireCommit
      <4> QED BY <3>2, <4>1, <4>3 DEF StillPending
    <3> QED BY <3>1, <3>2
  <2>5. ASSUME NEW b \in Bookings, OverdueCommit(b) PROVE A
    BY <1>1, <2>5 DEF OverdueCommit, ReservationInv, TypeOK, BookingRow
  <2>6. CASE UNCHANGED booking
    BY <2>1, <2>6
  <2> QED
    BY <1>1, <2>2, <2>3, <2>4, <2>5, <2>6
    DEF Next, Worker, WorkerFails, Gateway, HandlerFails, Tick, ExpireStart,
        ExpireRead, ExpireFails, OverdueStart, OverdueRead, OverdueFails,
        GatewayCapture, GatewayAttemptFails, GatewayUnrelated
<1>2. ReservationInv /\ [Next]_vars => [A]_vars
  BY <1>1
<1> QED BY <1>2, ReservationInvariance, PTL DEF Spec, ExpiryNeverOverwrites

-----------------------------------------------------------------------------
(* The life of a booking, and the refunds that are due *)

\* What a handler knows of its booking: it is still to be inserted, or it is
\* there for good; and once a webhook has seen it past PENDING_PAYMENT it does
\* not come back.
HandlerLife(h) ==
  /\ req[h].pc = "create_tx" => booking[req[h].b].status = "NONE"
  /\ req[h].pc \notin {"idle", "create_tx"} => booking[req[h].b].status # "NONE"
  /\ req[h].pc = "webhook_tx" /\ req[h].seenB # "PENDING_PAYMENT" =>
       booking[req[h].b].status # "PENDING_PAYMENT"

\* No booking is inserted twice.
CreatesDistinct ==
  \A g, h \in Handlers :
    g # h /\ req[g].pc = "create_tx" /\ req[h].pc = "create_tx" => req[g].b # req[h].b

\* The strengthening of FlaggedMoneyIsCaptured: payments are of bookings that
\* were inserted, and no handler is about to make a flagged booking pending.
LifeInv ==
  /\ \A o \in Orders : payment[o].status # "NONE" =>
       booking[payment[o].booking].status # "NONE"
  /\ \A h \in Handlers : HandlerLife(h)
  /\ CreatesDistinct
  /\ FlaggedMoneyIsCaptured

\* A worker has taken the job up.
TakenUp(job) == job.state \notin {"none", "delayed"}

\* The strengthening of ReviewOnlyWhenOverdue: an overdue check is due at the
\* end of the appointment plus the grace period, and runs no earlier.
OverdueChecksWait ==
  \A b \in Bookings :
    /\ overdueJob[b].state # "none" => overdueJob[b].due = OverdueAt(b)
    /\ TakenUp(overdueJob[b]) => overdueJob[b].due <= now

\* What almost every step does to the tables: a booking that is there may leave
\* PENDING_PAYMENT but never enters it, payments are inserted for bookings that
\* are there, and captured money is flagged on bookings past PENDING_PAYMENT.
RowsAge ==
  /\ \A b \in Bookings :
       \/ booking'[b].status = booking[b].status
       \/ /\ booking[b].status # "NONE"
          /\ booking'[b].status \notin {"NONE", "PENDING_PAYMENT"}
  /\ \A o \in Orders :
       /\ payment[o].status # "NONE" => payment'[o].booking = payment[o].booking
       /\ payment[o].status = "NONE" /\ payment'[o].status # "NONE" =>
            /\ payment'[o].booking \in Bookings
            /\ booking[payment'[o].booking].status # "NONE"
  /\ paid \subseteq paid'
  /\ \A o \in flagged' \ flagged :
       /\ o \in paid
       /\ booking[payment[o].booking].status \notin {"NONE", "PENDING_PAYMENT"}

LEMMA RowsKept ==
  ASSUME UNCHANGED <<booking, payment, flagged>>, paid \subseteq paid'
  PROVE  RowsAge
BY DEF RowsAge

LEMMA LifeKept ==
  ASSUME ReservationInv, LifeInv, RowsAge, CreatesDistinct',
         \A h \in Handlers : req'[h] = req[h] \/ HandlerLife(h)'
  PROVE  LifeInv'
<1>1. /\ \A o \in Orders : payment[o].status # "NONE" => payment[o].booking \in Bookings
      /\ \A o \in paid : o \in Orders /\ payment[o].status # "NONE"
      /\ \A h \in Handlers : req[h].pc # "idle" => req[h].b \in Bookings
  BY DEF ReservationInv, RowsLinked, TypeOK, HandlerBound
<1>2. \A b \in Bookings :
        /\ booking[b].status # "NONE" => booking'[b].status # "NONE"
        /\ booking[b].status = "NONE" => booking'[b].status = "NONE"
        /\ booking[b].status \notin {"NONE", "PENDING_PAYMENT"} =>
             booking'[b].status \notin {"NONE", "PENDING_PAYMENT"}
        /\ booking[b].status # "PENDING_PAYMENT" => booking'[b].status # "PENDING_PAYMENT"
  BY DEF RowsAge
<1>3. \A o \in Orders : payment'[o].status # "NONE" =>
        booking'[payment'[o].booking].status # "NONE"
  BY <1>1, <1>2 DEF RowsAge, LifeInv
<1>4. FlaggedMoneyIsCaptured'
  <2> SUFFICES ASSUME NEW o \in flagged'
               PROVE  /\ o \in paid'
                      /\ booking'[payment'[o].booking].status
                           \notin {"NONE", "PENDING_PAYMENT"}
    BY DEF FlaggedMoneyIsCaptured
  <2>1. o \in paid /\ booking[payment[o].booking].status \notin {"NONE", "PENDING_PAYMENT"}
    BY DEF RowsAge, LifeInv, FlaggedMoneyIsCaptured
  <2>2. /\ o \in Orders /\ payment[o].booking \in Bookings
        /\ payment'[o].booking = payment[o].booking
    BY <1>1, <2>1 DEF RowsAge
  <2> QED BY <1>2, <2>1, <2>2 DEF RowsAge
<1>5. ASSUME NEW h \in Handlers, req'[h] = req[h] PROVE HandlerLife(h)'
  <2>1. HandlerLife(h)
    BY DEF LifeInv
  <2> QED BY <1>1, <1>2, <1>5, <2>1 DEF HandlerLife
<1> QED BY <1>3, <1>4, <1>5 DEF LifeInv

\* One handler moves, to anything but the two steps with a stake of their own.
LEMMA LifeMove ==
  ASSUME ReservationInv, LifeInv, RowsAge, NEW h \in Handlers,
         \A g \in Handlers \ {h} : req'[g] = req[g],
         \/ req'[h].pc = "idle"
         \/ /\ req'[h].pc \notin {"create_tx", "webhook_tx"}
            /\ req'[h].b \in Bookings /\ booking[req'[h].b].status # "NONE"
  PROVE  LifeInv'
<1>1. CreatesDistinct'
  BY DEF LifeInv, CreatesDistinct
<1>2. HandlerLife(h)'
  BY DEF HandlerLife, RowsAge
<1> QED BY <1>1, <1>2, LifeKept

LEMMA LifeReturn ==
  ASSUME ReservationInv, LifeInv, RowsAge, NEW h \in Handlers, Return(h)
  PROVE  LifeInv'
<1>1. req'[h].pc = "idle" /\ \A g \in Handlers \ {h} : req'[g] = req[g]
  BY ReturnRow DEF ReservationInv, Idle
<1> QED BY <1>1, LifeMove

LEMMA LifeGoto ==
  ASSUME ReservationInv, LifeInv, RowsAge, NEW h \in Handlers,
         req[h].pc \notin {"idle", "create_tx"},
         NEW step \in Step \ {"create_tx", "webhook_tx"}, Goto(h, step)
  PROVE  LifeInv'
<1>1. /\ req'[h] = [req[h] EXCEPT !.pc = step]
      /\ \A g \in Handlers \ {h} : req'[g] = req[g]
  BY GotoRow DEF ReservationInv
<1>2. req'[h].pc = step /\ req'[h].b = req[h].b
  BY <1>1 DEF ReservationInv, TypeOK, Request
<1>3. req[h].b \in Bookings /\ booking[req[h].b].status # "NONE"
  BY DEF ReservationInv, HandlerBound, LifeInv, HandlerLife
<1> QED BY <1>1, <1>2, <1>3, LifeMove

LEMMA LifeStay ==
  ASSUME ReservationInv, LifeInv, RowsAge, UNCHANGED req
  PROVE  LifeInv'
<1>1. CreatesDistinct'
  BY DEF LifeInv, CreatesDistinct
<1> QED BY <1>1, LifeKept

\* A status written to a booking that is there.
LEMMA StatusAges ==
  ASSUME ReservationInv, NEW b \in Bookings, booking[b].status # "NONE",
         NEW status \in BookingRowStatus \ {"NONE", "PENDING_PAYMENT"},
         UpdateBookingStatus(b, status)
  PROVE  \A c \in Bookings :
           \/ booking'[c].status = booking[c].status
           \/ /\ booking[c].status # "NONE"
              /\ booking'[c].status \notin {"NONE", "PENDING_PAYMENT"}
BY ConfirmsRow

\* The booking of a handler past its insert.
LEMMA LifeOf ==
  ASSUME ReservationInv, LifeInv, NEW h \in Handlers,
         req[h].pc \notin {"idle", "create_tx"}
  PROVE  req[h].b \in Bookings /\ booking[req[h].b].status # "NONE"
BY DEF ReservationInv, HandlerBound, LifeInv, HandlerLife

\* New requests.
LEMMA ReceiveLife ==
  ASSUME ReservationInv, LifeInv, NEW h \in Handlers, Receive(h)
  PROVE  LifeInv'
<1> USE DEF dbVars, gatewayVars
<1>1. req \in [Handlers -> Request]
  BY DEF ReservationInv, TypeOK
<1>2. CASE \E b \in Bookings, o \in Orders : CreateStart(h, b, o)
  <2>1. PICK b \in Bookings, o \in Orders : CreateStart(h, b, o)
    BY <1>2
  <2>2. /\ req'[h].pc = "create_tx" /\ req'[h].b = b
        /\ \A g \in Handlers \ {h} : req'[g] = req[g]
    BY <1>1, <2>1 DEF CreateStart, Idle
  <2>3. UNCHANGED <<booking, payment, flagged>> /\ paid' = paid
    BY <2>1 DEF CreateStart
  <2>4. /\ booking[b].status = "NONE"
        /\ \A g \in Handlers : req[g].pc = "create_tx" => req[g].b # b
    BY <2>1 DEF CreateStart, At
  <2>5. CreatesDistinct'
    BY <2>2, <2>4 DEF LifeInv, CreatesDistinct
  <2>6. HandlerLife(h)'
    BY <2>2, <2>3, <2>4 DEF HandlerLife
  <2> QED BY <2>2, <2>3, <2>5, <2>6, RowsKept, LifeKept
<1>3. ASSUME NEW b \in Bookings, OrderRead(h, b) \/ CancelRead(h, b) \/ CompleteRead(h, b)
      PROVE  LifeInv'
  <2>1. /\ req'[h].pc \in {"order_check", "cancel_tx", "complete_tx"} /\ req'[h].b = b
        /\ \A g \in Handlers \ {h} : req'[g] = req[g]
    BY <1>1, <1>3 DEF OrderRead, CancelRead, CompleteRead, Idle
  <2>2. UNCHANGED <<booking, payment, flagged>> /\ paid' = paid
    BY <1>3 DEF OrderRead, CancelRead, CompleteRead
  <2>3. booking[b].status # "NONE"
    BY <1>3 DEF OrderRead, CancelRead, CompleteRead, canTransitionBooking, BookingStatus
  <2> QED BY <2>1, <2>2, <2>3, RowsKept, LifeMove
<1>4. ASSUME NEW o \in Orders, payment[o].status # "NONE",
             req'[h].b = payment[o].booking,
             req'[h].pc \in {"verify_tx", "webhook_begin", "refund_gateway"},
             \A g \in Handlers \ {h} : req'[g] = req[g],
             UNCHANGED <<booking, payment, flagged>>, paid' = paid
      PROVE  LifeInv'
  <2>1. payment[o].booking \in Bookings /\ booking[payment[o].booking].status # "NONE"
    BY <1>4 DEF ReservationInv, RowsLinked, LifeInv
  <2> QED BY <1>4, <2>1, RowsKept, LifeMove
<1>5. CASE \E o \in Orders : VerifyRead(h, o)
  BY <1>1, <1>4, <1>5 DEF VerifyRead, Idle
<1>6. CASE \E ev \in sent : WebhookRead(h, ev)
  BY <1>1, <1>4, <1>6 DEF WebhookRead, Idle
<1>7. CASE \E o \in Orders, amount \in 0..(Price + 1) : RefundRead(h, o, amount)
  BY <1>1, <1>4, <1>7 DEF RefundRead, Idle
<1>8. CASE \E ev \in sent : WebhookIgnore(h, ev)
  BY <1>8, RowsKept, LifeStay DEF WebhookIgnore
<1> QED BY <1>2, <1>3, <1>5, <1>6, <1>7, <1>8 DEF Receive

\* createBooking commits: a booking that nobody else knows of yet, and its first
\* payment.
LEMMA CreateCommitLife ==
  ASSUME ReservationInv, LifeInv, NEW h \in Handlers, CreateCommit(h)
  PROVE  LifeInv'
<1>1. PICK b, o : b = req[h].b /\ o = req[h].o
  OBVIOUS
<1>2. /\ req[h].pc = "create_tx" /\ b \in Bookings /\ o \in Orders
      /\ payment[o].status = "NONE" /\ booking[b].status = "NONE"
  BY <1>1 DEF CreateCommit, At, ReservationInv, HandlerBound, InsertingSteps, TypeOK,
              LifeInv, HandlerLife
<1>3. /\ booking'[b].status = "PENDING_PAYMENT"
      /\ \A c \in Bookings \ {b} : booking'[c] = booking[c]
  BY <1>1, <1>2 DEF CreateCommit, ReservationInv, TypeOK, BookingRow
<1>4. /\ payment'[o].booking = b
      /\ \A x \in Orders \ {o} : payment'[x] = payment[x]
  BY <1>1, <1>2 DEF CreateCommit, ReservationInv, TypeOK
<1>5. UNCHANGED <<flagged, paid>> /\ Goto(h, "create_schedule")
  BY DEF CreateCommit, gatewayVars
<1>6. /\ req'[h].pc = "create_schedule" /\ req'[h].b = b
      /\ \A g \in Handlers \ {h} : req'[g] = req[g]
  <2>1. "create_schedule" \in Step
    BY DEF Step
  <2>2. /\ req'[h] = [req[h] EXCEPT !.pc = "create_schedule"]
        /\ \A g \in Handlers \ {h} : req'[g] = req[g]
    BY <1>5, <2>1, GotoRow DEF ReservationInv
  <2> QED BY <1>1, <2>2 DEF ReservationInv, TypeOK, Request
<1>7. \A x \in Orders : payment[x].status # "NONE" =>
        payment[x].booking \in Bookings \ {b}
  BY <1>2 DEF LifeInv, ReservationInv, RowsLinked
<1>8. \A x \in Orders : payment'[x].status # "NONE" =>
        booking'[payment'[x].booking].status # "NONE"
  BY <1>3, <1>4, <1>7 DEF LifeInv
<1>9. FlaggedMoneyIsCaptured'
  <2>1. \A x \in flagged : x \in paid /\ x \in Orders /\ payment[x].status # "NONE"
    BY DEF LifeInv, FlaggedMoneyIsCaptured, ReservationInv, RowsLinked, TypeOK
  <2>2. \A x \in flagged : payment'[x] = payment[x] /\ payment[x].booking \in Bookings \ {b}
    BY <1>2, <1>4, <1>7, <2>1
  <2> QED BY <1>3, <1>5, <2>1, <2>2 DEF LifeInv, FlaggedMoneyIsCaptured
<1>10. CreatesDistinct'
  BY <1>6 DEF LifeInv, CreatesDistinct
<1>11. ASSUME NEW g \in Handlers PROVE HandlerLife(g)'
  <2>1. CASE g = h
    BY <1>2, <1>3, <1>6, <2>1 DEF HandlerLife
  <2>2. CASE g # h /\ req[g].pc # "idle"
    <3>1. HandlerLife(g) /\ req[g].b \in Bookings
      BY <2>2 DEF LifeInv, ReservationInv, HandlerBound
    <3>2. req[g].b # b
      BY <1>1, <1>2, <2>2, <3>1 DEF LifeInv, HandlerLife, CreatesDistinct
    <3> QED BY <1>3, <1>6, <2>2, <3>1, <3>2 DEF HandlerLife
  <2>3. CASE g # h /\ req[g].pc = "idle"
    BY <1>6, <2>3 DEF HandlerLife
  <2> QED BY <2>1, <2>2, <2>3
<1> QED BY <1>8, <1>9, <1>10, <1>11 DEF LifeInv

\* The commits of verifyClientPayment, the webhook, cancellation, completion
\* and refund, and the insert of another payment order.
LEMMA CommitLife ==
  ASSUME ReservationInv, LifeInv, NEW h \in Handlers,
         \/ OrderInsert(h) \/ VerifyCommit(h) \/ WebhookConfirm(h) \/ WebhookFlag(h)
         \/ WebhookFailed(h) \/ WebhookRefunded(h) \/ CancelCommit(h)
         \/ CompleteCommit(h) \/ RefundCommit(h)
  PROVE  LifeInv'
<1> USE DEF gatewayVars
<1>1. ASSUME At(h, "verify_tx") \/ At(h, "webhook_tx") \/ At(h, "refund_tx")
      PROVE  /\ req[h].o \in Orders /\ req[h].b \in Bookings
             /\ booking[req[h].b].status # "NONE"
             /\ req[h].pc \notin {"idle", "create_tx"}
             /\ payment[req[h].o].status # "NONE"
             /\ payment[req[h].o].booking = req[h].b
  BY <1>1, WorksOn, LifeOf DEF At, PaymentSteps, WebhookSteps
<1>2. CASE OrderInsert(h)
  <2>1. PICK b, o : b = req[h].b /\ o = req[h].o
    OBVIOUS
  <2>2. /\ b \in Bookings /\ o \in Orders /\ booking[b].status # "NONE"
        /\ payment[o].status = "NONE"
    BY <1>2, <2>1, LifeOf
    DEF OrderInsert, At, ReservationInv, HandlerBound, InsertingSteps, TypeOK
  <2>3. \A c \in Bookings : booking'[c].status = booking[c].status
    BY <1>2, <2>1 DEF OrderInsert, ReservationInv, TypeOK, BookingRow
  <2>4. payment'[o].booking = b /\ \A x \in Orders \ {o} : payment'[x] = payment[x]
    BY <1>2, <2>1, <2>2 DEF OrderInsert, ReservationInv, TypeOK
  <2>5. RowsAge
    BY <1>2, <2>2, <2>3, <2>4 DEF RowsAge, OrderInsert
  <2> QED BY <1>2, <2>5, LifeReturn DEF OrderInsert
<1>3. ASSUME VerifyCommit(h) \/ WebhookConfirm(h) PROVE LifeInv'
  <2>1. /\ At(h, "verify_tx") \/ At(h, "webhook_tx")
        /\ PaymentSucceeds(req[h].o) /\ UpdateBookingStatus(req[h].b, "CONFIRMED")
        /\ Goto(h, "confirm_rmExpire") /\ UNCHANGED <<flagged, paid>>
    BY <1>3 DEF VerifyCommit, WebhookConfirm
  <2>2. RowsAge
    BY <1>1, <2>1, StatusAges, SucceedsRow
    DEF RowsAge, BookingRowStatus, BookingStatus
  <2> QED BY <1>1, <2>1, <2>2, LifeGoto DEF Step
<1>4. CASE WebhookFlag(h)
  <2>1. /\ At(h, "webhook_tx") /\ IsCapture(req[h].ev) /\ req[h].seenB # "PENDING_PAYMENT"
        /\ flagged' = flagged \cup {req[h].o} /\ PaymentSucceeds(req[h].o)
        /\ Return(h) /\ UNCHANGED <<booking, paid>>
    BY <1>4 DEF WebhookFlag, BookingWasPending
  <2>2. req[h].o \in paid
    BY <2>1, CaptureIsPaid
  <2>3. booking[req[h].b].status \notin {"NONE", "PENDING_PAYMENT"}
    BY <1>1, <2>1 DEF LifeInv, HandlerLife, At
  <2>4. RowsAge
    BY <1>1, <2>1, <2>2, <2>3, SucceedsRow DEF RowsAge
  <2> QED BY <2>1, <2>4, LifeReturn
<1>5. CASE WebhookFailed(h)
  <2>1. /\ At(h, "webhook_tx") /\ Return(h) /\ UNCHANGED <<booking, flagged, paid>>
        /\ payment' = [payment EXCEPT ![req[h].o] =
                         [@ EXCEPT !.status = "FAILED", !.gatewayPaymentId = TRUE]]
    BY <1>5 DEF WebhookFailed
  <2>2. \A x \in Orders :
          /\ payment'[x].booking = payment[x].booking
          /\ x # req[h].o => payment'[x] = payment[x]
    BY <2>1 DEF ReservationInv, TypeOK, PaymentRow
  <2>3. RowsAge
    BY <1>1, <2>1, <2>2 DEF RowsAge
  <2> QED BY <2>1, <2>3, LifeReturn
<1>6. CASE WebhookRefunded(h)
  <2>1. /\ At(h, "webhook_tx") /\ Return(h) /\ UNCHANGED <<booking, flagged, paid>>
        /\ UpdatePaymentStatus(req[h].o, "REFUNDED")
    BY <1>6 DEF WebhookRefunded
  <2>2. RowsAge
    BY <1>1, <2>1, RefundsRow DEF RowsAge
  <2> QED BY <2>1, <2>2, LifeReturn
<1>7. ASSUME NEW status \in {"CANCELLED", "COMPLETED"}, UpdateBookingStatus(req[h].b, status),
             req[h].pc \in {"cancel_tx", "complete_tx"},
             NEW step \in {"cancel_rmExpire", "complete_rmOverdue"}, Goto(h, step),
             UNCHANGED <<payment, flagged, paid>>
      PROVE  LifeInv'
  <2>1. req[h].b \in Bookings /\ booking[req[h].b].status # "NONE"
    BY <1>7, LifeOf
  <2>2. RowsAge
    BY <1>7, <2>1, StatusAges DEF RowsAge, BookingRowStatus, BookingStatus
  <2> QED BY <1>7, <2>2, LifeGoto DEF Step
<1>8. CASE CancelCommit(h) \/ CompleteCommit(h)
  BY <1>7, <1>8 DEF CancelCommit, CompleteCommit, At
<1>9. CASE RefundCommit(h)
  <2>1. /\ At(h, "refund_tx") /\ Return(h) /\ UNCHANGED <<flagged, paid>>
        /\ UpdatePaymentStatus(req[h].o, "REFUNDED")
        /\ UpdateBookingStatus(req[h].b, "CANCELLED") \/ UNCHANGED booking
    BY <1>9 DEF RefundCommit
  <2>2. \A c \in Bookings :
          \/ booking'[c].status = booking[c].status
          \/ /\ booking[c].status # "NONE"
             /\ booking'[c].status \notin {"NONE", "PENDING_PAYMENT"}
    BY <1>1, <2>1, StatusAges DEF BookingRowStatus, BookingStatus
  <2>3. RowsAge
    BY <1>1, <2>1, <2>2, RefundsRow DEF RowsAge
  <2> QED BY <2>1, <2>3, LifeReturn
<1> QED BY <1>2, <1>3, <1>4, <1>5, <1>6, <1>8, <1>9

LEMMA ContinueLife ==
  ASSUME ReservationInv, LifeInv, NEW h \in Handlers, Continue(h)
  PROVE  LifeInv'
<1> USE DEF dbVars, queueVars, gatewayVars
<1>1. CASE \/ CreateConflict(h) \/ CreateSchedule(h) \/ OrderReuse(h)
           \/ VerifyConflict(h) \/ WebhookDuplicate(h) \/ WebhookConflict(h)
           \/ WebhookNoEffect(h) \/ ConfirmNotify(h) \/ CancelNotify(h)
           \/ CompleteRemoveOverdue(h)
  <2>1. Return(h) /\ UNCHANGED <<booking, payment, flagged>> /\ paid' = paid
    BY <1>1
    DEF CreateConflict, CreateSchedule, OrderReuse, VerifyConflict, WebhookDuplicate,
        WebhookConflict, WebhookNoEffect, ConfirmNotify, CancelNotify,
        CompleteRemoveOverdue
  <2> QED BY <2>1, RowsKept, LifeReturn
<1>2. CASE \/ ConfirmRemoveExpire(h) \/ ConfirmAddOverdue(h) \/ CancelRemoveExpire(h)
           \/ CancelRemoveOverdue(h) \/ RefundGateway(h)
  <2>1. UNCHANGED <<booking, payment, flagged>> /\ paid' = paid
        /\ req[h].pc \notin {"idle", "create_tx"}
    BY <1>2 DEF ConfirmRemoveExpire, ConfirmAddOverdue, CancelRemoveExpire,
                CancelRemoveOverdue, RefundGateway, At
  <2>2. Return(h) \/ \E step \in Step \ {"create_tx", "webhook_tx"} : Goto(h, step)
    BY <1>2 DEF ConfirmRemoveExpire, ConfirmAddOverdue, CancelRemoveExpire,
                CancelRemoveOverdue, RefundGateway, Step
  <2> QED BY <2>1, <2>2, RowsKept, LifeReturn, LifeGoto
<1>3. CASE \E o \in Orders : OrderCreate(h, o)
  <2>1. /\ req[h].pc = "order_check" /\ UNCHANGED <<booking, payment, flagged>>
        /\ paid' = paid
    BY <1>3 DEF OrderCreate, At
  <2>2. /\ req'[h].pc = "order_insert" /\ req'[h].b = req[h].b
        /\ \A g \in Handlers \ {h} : req'[g] = req[g]
    BY <1>3 DEF OrderCreate, ReservationInv, TypeOK, Request
  <2> QED BY <2>1, <2>2, LifeOf, RowsKept, LifeMove
<1>4. CASE WebhookBegin(h)
  <2>1. /\ req[h].pc = "webhook_begin" /\ UNCHANGED <<booking, payment, flagged>>
        /\ paid' = paid
    BY <1>4 DEF WebhookBegin, At
  <2>2. /\ req'[h].pc = "webhook_tx" /\ req'[h].b = req[h].b
        /\ req'[h].seenB = booking[req[h].b].status
        /\ \A g \in Handlers \ {h} : req'[g] = req[g]
    BY <1>4 DEF WebhookBegin, ReservationInv, TypeOK, Request
  <2>3. HandlerLife(h)'
    BY <2>1, <2>2, LifeOf DEF HandlerLife
  <2>4. CreatesDistinct'
    BY <2>2 DEF LifeInv, CreatesDistinct
  <2> QED BY <2>1, <2>2, <2>3, <2>4, RowsKept, LifeKept
<1> QED BY <1>1, <1>2, <1>3, <1>4, CreateCommitLife, CommitLife DEF Continue

\* Workers, the gateway, the clock and failures.
LEMMA OthersLife ==
  ASSUME ReservationInv, LifeInv,
         \/ \E h \in Handlers : HandlerFails(h)
         \/ \E b \in Bookings : Worker(b) \/ WorkerFails(b)
         \/ Gateway \/ Tick \/ UNCHANGED vars
  PROVE  LifeInv'
<1> USE DEF dbVars, queueVars, gatewayVars
<1>1. ASSUME NEW h \in Handlers, HandlerFails(h) PROVE LifeInv'
  BY <1>1, RowsKept, LifeReturn DEF HandlerFails
<1>2. ASSUME NEW b \in Bookings, ExpireCommit(b) PROVE LifeInv'
  <2>1. CASE StillPending(b)
    <3>1. \A c \in Bookings :
            \/ booking'[c].status = booking[c].status
            \/ /\ booking[c].status # "NONE"
               /\ booking'[c].status \notin {"NONE", "PENDING_PAYMENT"}
      BY <1>2, <2>1, StatusAges
      DEF ExpireCommit, StillPending, BookingRowStatus, BookingStatus
    <3>2. \A o \in Orders : [payment[o] EXCEPT !.status = "FAILED"].booking
                              = payment[o].booking
      BY DEF ReservationInv, TypeOK, PaymentRow
    <3>3. \A o \in Orders :
            \/ payment'[o] = payment[o]
            \/ payment[o].status # "NONE" /\ payment'[o].booking = payment[o].booking
      BY <1>2, <2>1, <3>2 DEF ExpireCommit
    <3>4. RowsAge
      BY <1>2, <3>1, <3>3 DEF RowsAge, ExpireCommit
    <3> QED BY <1>2, <3>4, LifeStay DEF ExpireCommit
  <2>2. CASE ~StillPending(b)
    BY <1>2, <2>2, RowsKept, LifeStay DEF ExpireCommit
  <2> QED BY <2>1, <2>2
<1>3. ASSUME NEW b \in Bookings, OverdueCommit(b) PROVE LifeInv'
  <2>1. \A c \in Bookings : booking'[c].status = booking[c].status
    BY <1>3 DEF OverdueCommit, ReservationInv, TypeOK, BookingRow
  <2>2. RowsAge
    BY <1>3, <2>1 DEF RowsAge, OverdueCommit
  <2> QED BY <1>3, <2>2, LifeStay DEF OverdueCommit
<1>4. ASSUME UNCHANGED <<booking, payment, flagged, req>>, paid \subseteq paid'
      PROVE  LifeInv'
  BY <1>4, RowsKept, LifeStay
<1>5. ASSUME NEW b \in Bookings,
             \/ ExpireStart(b) \/ ExpireRead(b) \/ OverdueStart(b) \/ OverdueRead(b)
             \/ WorkerFails(b)
      PROVE  LifeInv'
  BY <1>4, <1>5
  DEF ExpireStart, ExpireRead, OverdueStart, OverdueRead, WorkerFails, ExpireFails,
      OverdueFails
<1>6. CASE Gateway \/ Tick \/ UNCHANGED vars
  BY <1>4, <1>6
  DEF Gateway, GatewayCapture, GatewayAttemptFails, GatewayUnrelated, Tick, vars
<1> QED BY <1>1, <1>2, <1>3, <1>5, <1>6 DEF Worker

\* What handlers of createBooking and of the webhook know of their booking stays
\* true until they commit.
THEOREM LifeInvariance == Spec => []LifeInv
<1>1. Init => LifeInv
  BY DEF Init, LifeInv, HandlerLife, CreatesDistinct, FlaggedMoneyIsCaptured, Idle
<1>2. ReservationInv /\ LifeInv /\ [Next]_vars => LifeInv'
  BY ReceiveLife, ContinueLife, OthersLife DEF Next
<1> QED BY <1>1, <1>2, ReservationInvariance, PTL DEF Spec

\* A REQUIRES_REFUND flag is raised for captured money alone, and a flagged
\* booking is never pending again (the webhook's "Flagged for refund").
THEOREM FlaggedIsCaptured == Spec => []FlaggedMoneyIsCaptured
<1>1. LifeInv => FlaggedMoneyIsCaptured
  BY DEF LifeInv
<1> QED BY <1>1, LifeInvariance, PTL

-----------------------------------------------------------------------------
(* The overdue check *)

\* No step but flagOverdueBooking raises needsReview.
LEMMA ReviewKept ==
  ASSUME ReservationInv, Next, NEW b \in Bookings,
         booking'[b].needsReview, ~booking[b].needsReview
  PROVE  OverdueCommit(b) /\ StillConfirmed(b)
<1> USE DEF dbVars
<1>1. booking \in [Bookings -> BookingRow]
  BY DEF ReservationInv, TypeOK
<1>2. ASSUME NEW c, NEW status, UpdateBookingStatus(c, status) PROVE FALSE
  BY <1>1, <1>2 DEF UpdateBookingStatus, BookingRow
<1>3. ASSUME NEW h \in Handlers, Receive(h) PROVE FALSE
  BY <1>3
  DEF Receive, CreateStart, OrderRead, VerifyRead, WebhookIgnore, WebhookRead,
      CancelRead, CompleteRead, RefundRead
<1>4. ASSUME NEW h \in Handlers, Continue(h) PROVE FALSE
  <2>1. CASE CreateCommit(h)
    BY <1>1, <2>1 DEF CreateCommit, BookingRow
  <2>2. CASE OrderInsert(h)
    BY <1>1, <2>2 DEF OrderInsert, BookingRow
  <2>3. CASE \/ VerifyCommit(h) \/ WebhookConfirm(h) \/ CancelCommit(h)
             \/ CompleteCommit(h) \/ RefundCommit(h)
    BY <1>2, <2>3
    DEF VerifyCommit, WebhookConfirm, CancelCommit, CompleteCommit, RefundCommit
  <2>4. CASE UNCHANGED booking
    BY <2>4
  <2> QED
    BY <1>4, <2>1, <2>2, <2>3, <2>4
    DEF Continue, CreateConflict, CreateSchedule, OrderReuse, OrderCreate,
        VerifyConflict, WebhookBegin, WebhookDuplicate, WebhookConflict, WebhookFlag,
        WebhookFailed, WebhookRefunded, WebhookNoEffect, ConfirmRemoveExpire,
        ConfirmAddOverdue, ConfirmNotify, CancelRemoveExpire, CancelRemoveOverdue,
        CancelNotify, CompleteRemoveOverdue, RefundGateway
<1>5. ASSUME NEW c \in Bookings, OverdueCommit(c)
      PROVE  OverdueCommit(b) /\ StillConfirmed(b)
  <2>1. c = b /\ StillConfirmed(c)
    BY <1>1, <1>5 DEF OverdueCommit, BookingRow
  <2> QED BY <1>5, <2>1
<1>6. ASSUME NEW c \in Bookings, ExpireCommit(c) PROVE FALSE
  BY <1>2, <1>6 DEF ExpireCommit
<1>7. CASE UNCHANGED booking
  BY <1>7
<1> QED
  BY <1>3, <1>4, <1>5, <1>6, <1>7
  DEF Next, Worker, WorkerFails, Gateway, HandlerFails, Tick, ExpireStart,
      ExpireRead, ExpireFails, OverdueStart, OverdueRead, OverdueFails,
      GatewayCapture, GatewayAttemptFails, GatewayUnrelated

\* Putting a job back after a failed attempt keeps its time.
LEMMA RetryKeepsDue ==
  ASSUME NEW job \in Job
  PROVE  AttemptFailed(job).due = job.due /\ (Locked(job) => TakenUp(job))
BY DEF Job, AttemptFailed, Locked, TakenUp

\* A step that leaves the overdue checks alone may only let time pass.
LEMMA WaitKept ==
  ASSUME ReservationInv, OverdueChecksWait, UNCHANGED overdueJob,
         now' \in Nat, now <= now'
  PROVE  OverdueChecksWait'
<1> SUFFICES ASSUME NEW b \in Bookings, TakenUp(overdueJob[b])
             PROVE  overdueJob[b].due <= now'
  BY DEF OverdueChecksWait, OverdueAt, TakenUp
<1>1. overdueJob[b].due \in Nat /\ now \in Nat
  BY DEF ReservationInv, TypeOK, Job
<1>2. overdueJob[b].due <= now
  BY DEF OverdueChecksWait
<1> QED BY <1>1, <1>2

\* One job changes: it is gone, newly added, locked when due, or keeps its time.
LEMMA WaitOne ==
  ASSUME ReservationInv, OverdueChecksWait, UNCHANGED now,
         NEW b \in Bookings, NEW job,
         overdueJob' = [overdueJob EXCEPT ![b] = job],
         job.state # "none" => job.due = OverdueAt(b),
         TakenUp(job) => job.due <= now
  PROVE  OverdueChecksWait'
BY DEF OverdueChecksWait, OverdueAt, TakenUp, ReservationInv, TypeOK

LEMMA OverdueStep ==
  ASSUME ReservationInv, OverdueChecksWait, [Next]_vars
  PROVE  OverdueChecksWait'
<1> USE DEF dbVars, queueVars
<1>0. /\ overdueJob \in [Bookings -> Job]
      /\ now \in Nat
  BY DEF ReservationInv, TypeOK
<1>1. ASSUME UNCHANGED <<now, overdueJob>> PROVE OverdueChecksWait'
  <2>1. now' \in Nat /\ now <= now'
    BY <1>0, <1>1
  <2> QED BY <1>1, <2>1, WaitKept
<1>2. ASSUME NEW h \in Handlers, ConfirmAddOverdue(h) PROVE OverdueChecksWait'
  <2> DEFINE b   == req[h].b
             new == [state |-> "delayed", due |-> OverdueAt(b), attempts |-> 0]
  <2>1. b \in Bookings
    BY <1>2, WorksOn DEF ConfirmAddOverdue, At, ReservationInv, HandlerBound
  <2>2. new.due = OverdueAt(b) /\ ~TakenUp(new)
    BY DEF TakenUp
  <2>3. \/ UNCHANGED overdueJob
        \/ overdueJob' = [overdueJob EXCEPT ![b] = new]
    BY <1>2 DEF ConfirmAddOverdue
  <2>4. UNCHANGED now
    BY <1>2 DEF ConfirmAddOverdue
  <2> HIDE DEF new, b
  <2> QED BY <1>1, <2>1, <2>2, <2>3, <2>4, WaitOne
<1>3. ASSUME NEW h \in Handlers, CancelRemoveOverdue(h) \/ CompleteRemoveOverdue(h)
      PROVE  OverdueChecksWait'
  <2>1. \/ UNCHANGED overdueJob
        \/ overdueJob' = [overdueJob EXCEPT ![req[h].b] = NoJob]
    BY <1>3 DEF CancelRemoveOverdue, CompleteRemoveOverdue
  <2>2. UNCHANGED now
    BY <1>3 DEF CancelRemoveOverdue, CompleteRemoveOverdue
  <2>3. NoJob.state = "none" /\ ~TakenUp(NoJob)
    BY DEF NoJob, TakenUp
  <2>4. CASE overdueJob' = [overdueJob EXCEPT ![req[h].b] = NoJob]
                /\ req[h].b \in Bookings
    BY <2>2, <2>3, <2>4, WaitOne
  <2>5. CASE req[h].b \notin Bookings
    BY <1>0, <1>1, <2>1, <2>2, <2>5
  <2> QED BY <1>1, <2>1, <2>2, <2>4, <2>5
<1>4. ASSUME NEW b \in Bookings,
             OverdueStart(b) \/ OverdueRead(b) \/ OverdueCommit(b)
      PROVE  OverdueChecksWait'
  <2>1. PICK state :
          /\ overdueJob' = [overdueJob EXCEPT ![b].state = state]
          /\ UNCHANGED now
    BY <1>4 DEF OverdueStart, OverdueRead, OverdueCommit
  <2> DEFINE job == [overdueJob[b] EXCEPT !.state = state]
  <2>2. overdueJob' = [overdueJob EXCEPT ![b] = job]
    BY <2>1
  <2>3. job.due = overdueJob[b].due
    BY <1>0 DEF Job
  <2>4. overdueJob[b].state # "none" /\ overdueJob[b].due <= now
    BY <1>4 DEF OverdueStart, OverdueRead, OverdueCommit, Due, OverdueChecksWait,
                TakenUp
  <2>5. overdueJob[b].due = OverdueAt(b)
    BY <2>4 DEF OverdueChecksWait
  <2> HIDE DEF job
  <2> QED BY <2>1, <2>2, <2>3, <2>4, <2>5, WaitOne
<1>5. ASSUME NEW b \in Bookings, OverdueFails(b) PROVE OverdueChecksWait'
  <2> DEFINE job == AttemptFailed(overdueJob[b])
  <2>1. overdueJob' = [overdueJob EXCEPT ![b] = job] /\ UNCHANGED now
    BY <1>5 DEF OverdueFails
  <2>2. job.due = overdueJob[b].due /\ TakenUp(overdueJob[b])
    BY <1>0, <1>5, RetryKeepsDue DEF OverdueFails
  <2>3. overdueJob[b].due = OverdueAt(b) /\ overdueJob[b].due <= now
    BY <2>2 DEF OverdueChecksWait, TakenUp
  <2> HIDE DEF job
  <2> QED BY <2>1, <2>2, <2>3, WaitOne
<1>6. CASE Tick
  <2>1. now' \in Nat /\ now <= now' /\ UNCHANGED overdueJob
    BY <1>0, <1>6 DEF Tick
  <2> QED BY <2>1, WaitKept
<1>7. ASSUME NEW h \in Handlers, Receive(h) PROVE OverdueChecksWait'
  BY <1>1, <1>7
  DEF Receive, CreateStart, OrderRead, VerifyRead, WebhookIgnore, WebhookRead,
      CancelRead, CompleteRead, RefundRead
<1>8. ASSUME NEW h \in Handlers, Continue(h) PROVE OverdueChecksWait'
  BY <1>1, <1>2, <1>3, <1>8
  DEF Continue, CreateCommit, CreateConflict, CreateSchedule, OrderReuse,
      OrderCreate, OrderInsert, VerifyCommit, VerifyConflict, WebhookBegin,
      WebhookDuplicate, WebhookConfirm, WebhookConflict, WebhookFlag,
      WebhookFailed, WebhookRefunded, WebhookNoEffect, ConfirmRemoveExpire,
      ConfirmNotify, CancelCommit, CancelRemoveExpire, CancelNotify,
      CompleteCommit, RefundGateway, RefundCommit
<1>9. ASSUME NEW b \in Bookings, Worker(b) \/ WorkerFails(b)
      PROVE  OverdueChecksWait'
  BY <1>1, <1>4, <1>5, <1>9
  DEF Worker, WorkerFails, ExpireStart, ExpireRead, ExpireCommit, ExpireFails
<1>10. CASE Gateway \/ (\E h \in Handlers : HandlerFails(h)) \/ UNCHANGED vars
  BY <1>1, <1>10
  DEF Gateway, GatewayCapture, GatewayAttemptFails, GatewayUnrelated, HandlerFails,
      vars
<1> QED BY <1>6, <1>7, <1>8, <1>9, <1>10 DEF Next

\* No overdue check runs before its time.
THEOREM ChecksWait == Spec => []OverdueChecksWait
<1>1. Init => OverdueChecksWait
  BY DEF Init, OverdueChecksWait, NoJob, TakenUp
<1>2. ReservationInv /\ OverdueChecksWait /\ [Next]_vars => OverdueChecksWait'
  BY OverdueStep
<1> QED BY <1>1, <1>2, ReservationInvariance, PTL DEF Spec

\* A booking is sent to review while it is CONFIRMED and once its end and the
\* grace period have passed, never by a check that was scheduled for another
\* time (flagOverdueBooking).
THEOREM ReviewsAreDue == Spec => ReviewOnlyWhenOverdue
<1> DEFINE A == \A b \in Bookings :
                  booking'[b].needsReview /\ ~booking[b].needsReview =>
                    booking[b].status = "CONFIRMED" /\ now >= EndOf[b] + Grace
<1>3. ASSUME ReservationInv, OverdueChecksWait, Next PROVE A
  <2> SUFFICES ASSUME NEW b \in Bookings,
                      booking'[b].needsReview, ~booking[b].needsReview
               PROVE  booking[b].status = "CONFIRMED" /\ now >= EndOf[b] + Grace
    OBVIOUS
  <2>1. OverdueCommit(b) /\ StillConfirmed(b)
    BY <1>3, ReviewKept
  <2>2. overdueJob[b].state # "none" /\ TakenUp(overdueJob[b])
    BY <2>1 DEF OverdueCommit, TakenUp
  <2>3. EndOf[b] + Grace <= now
    BY <1>3, <2>2 DEF OverdueChecksWait, OverdueAt
  <2>4. EndOf[b] + Grace \in Int /\ now \in Int
    BY <1>3, <2>2 DEF ReservationInv, TypeOK, OverdueChecksWait, OverdueAt, Job
  <2> QED BY <2>1, <2>3, <2>4 DEF StillConfirmed
<1> HIDE DEF A
<1>4. ReservationInv /\ OverdueChecksWait /\ [Next]_vars => [A]_vars
  BY <1>3
<1>5. Spec => [][A]_vars
  BY <1>4, ReservationInvariance, ChecksWait, PTL DEF Spec
<1> QED BY <1>5 DEF A, ReviewOnlyWhenOverdue

-----------------------------------------------------------------------------
(* Which step changes what *)

\* A step is one handler's, and the other handlers stay where they are, or it is
\* nobody's.
LEMMA OneHandlerMoves ==
  ASSUME ReservationInv, [Next]_vars
  PROVE  \/ req' = req
         \/ \E h \in Handlers :
              /\ Receive(h) \/ Continue(h) \/ HandlerFails(h)
              /\ \A g \in Handlers \ {h} : req'[g] = req[g]
<1>1. req \in [Handlers -> Request]
  BY DEF ReservationInv, TypeOK
<1>2. ASSUME NEW h \in Handlers, NEW r, req' = [req EXCEPT ![h] = r]
      PROVE  \A g \in Handlers \ {h} : req'[g] = req[g]
  BY <1>1, <1>2
<1>3. ASSUME NEW h \in Handlers, NEW step, Goto(h, step)
      PROVE  \A g \in Handlers \ {h} : req'[g] = req[g]
  BY <1>1, <1>3 DEF Goto
<1>4. ASSUME NEW h \in Handlers, Return(h)
      PROVE  \A g \in Handlers \ {h} : req'[g] = req[g]
  BY <1>2, <1>4 DEF Return
<1>5. ASSUME NEW h \in Handlers, Receive(h)
      PROVE  req' = req \/ \A g \in Handlers \ {h} : req'[g] = req[g]
  BY <1>2, <1>5
  DEF Receive, CreateStart, OrderRead, VerifyRead, WebhookIgnore, WebhookRead,
      CancelRead, CompleteRead, RefundRead
<1>6. ASSUME NEW h \in Handlers, Continue(h)
      PROVE  \A g \in Handlers \ {h} : req'[g] = req[g]
  <2>1. CASE \/ (\E o \in Orders : OrderCreate(h, o)) \/ WebhookBegin(h)
    BY <1>2, <2>1 DEF OrderCreate, WebhookBegin
  <2>2. CASE \/ CreateCommit(h) \/ VerifyCommit(h) \/ WebhookConfirm(h)
             \/ ConfirmRemoveExpire(h) \/ ConfirmAddOverdue(h) \/ CancelCommit(h)
             \/ CancelRemoveExpire(h) \/ CancelRemoveOverdue(h) \/ CompleteCommit(h)
             \/ RefundGateway(h)
    BY <1>3, <1>4, <2>2
    DEF CreateCommit, VerifyCommit, WebhookConfirm, ConfirmRemoveExpire,
        ConfirmAddOverdue, CancelCommit, CancelRemoveExpire, CancelRemoveOverdue,
        CompleteCommit, RefundGateway
  <2>3. CASE Return(h)
    BY <1>4, <2>3
  <2> QED
    BY <1>6, <2>1, <2>2, <2>3
    DEF Continue, CreateConflict, CreateSchedule, OrderReuse, OrderInsert,
        VerifyConflict, WebhookDuplicate, WebhookConflict, WebhookFlag,
        WebhookFailed, WebhookRefunded, WebhookNoEffect, ConfirmNotify,
        CancelNotify, CompleteRemoveOverdue, RefundCommit
<1>7. ASSUME NEW h \in Handlers, HandlerFails(h)
      PROVE  \A g \in Handlers \ {h} : req'[g] = req[g]
  BY <1>4, <1>7 DEF HandlerFails
<1>8. CASE \/ \E b \in Bookings : Worker(b) \/ WorkerFails(b)
           \/ Gateway \/ Tick \/ UNCHANGED vars
  BY <1>8
  DEF Worker, WorkerFails, Gateway, Tick, ExpireStart, ExpireRead, ExpireCommit,
      ExpireFails, OverdueStart, OverdueRead, OverdueCommit, OverdueFails,
      GatewayCapture, GatewayAttemptFails, GatewayUnrelated, vars
<1> QED BY <1>5, <1>6, <1>7, <1>8 DEF Next

FirstSteps == {"create_tx", "order_check", "verify_tx", "webhook_begin", "cancel_tx",
               "complete_tx", "refund_gateway"}

\* A new request, but for a webhook event that is ignored, waits for its commit.
LEMMA ReceiveStep ==
  ASSUME ReservationInv, NEW h \in Handlers, Receive(h)
  PROVE  req' = req \/ (req[h].pc = "idle" /\ req'[h].pc \in FirstSteps)
<1> USE DEF Accepts, At
<1>0. req \in [Handlers -> Request]
  BY DEF ReservationInv, TypeOK
<1>1. ASSUME NEW b \in Bookings, NEW o \in Orders, CreateStart(h, b, o)
      PROVE  req[h].pc = "idle" /\ req'[h].pc \in FirstSteps
  BY <1>0, <1>1 DEF CreateStart, Idle, FirstSteps
<1>2. ASSUME NEW b \in Bookings, OrderRead(h, b) \/ CancelRead(h, b) \/ CompleteRead(h, b)
      PROVE  req[h].pc = "idle" /\ req'[h].pc \in FirstSteps
  BY <1>0, <1>2 DEF OrderRead, CancelRead, CompleteRead, Idle, FirstSteps
<1>3. ASSUME NEW o \in Orders, VerifyRead(h, o)
      PROVE  req[h].pc = "idle" /\ req'[h].pc \in FirstSteps
  BY <1>0, <1>3 DEF VerifyRead, Idle, FirstSteps
<1>4. ASSUME NEW ev \in sent, WebhookRead(h, ev)
      PROVE  req[h].pc = "idle" /\ req'[h].pc \in FirstSteps
  BY <1>0, <1>4 DEF WebhookRead, Idle, FirstSteps
<1>5. ASSUME NEW o \in Orders, NEW amount \in 0..(Price + 1), RefundRead(h, o, amount)
      PROVE  req[h].pc = "idle" /\ req'[h].pc \in FirstSteps
  BY <1>0, <1>5 DEF RefundRead, Idle, FirstSteps
<1>6. ASSUME NEW ev \in sent, WebhookIgnore(h, ev) PROVE req' = req
  BY <1>6 DEF WebhookIgnore
<1> QED BY <1>1, <1>2, <1>3, <1>4, <1>5, <1>6 DEF Receive

\* A booking is inserted by createBooking, confirmed by a request that goes on to
\* follow it up, or ended.
LEMMA StatusStep ==
  ASSUME ReservationInv, LifeInv, [Next]_vars, NEW b \in Bookings,
         booking'[b].status # booking[b].status
  PROVE  \/ /\ booking[b].status = "NONE" /\ booking'[b].status = "PENDING_PAYMENT"
            /\ \E h \in Handlers : req'[h].pc = "create_schedule" /\ req'[h].b = b
         \/ /\ booking'[b].status = "CONFIRMED"
            /\ \E h \in Handlers : req'[h].pc = "confirm_rmExpire" /\ req'[h].b = b
         \/ booking'[b].status \in {"CANCELLED", "COMPLETED", "EXPIRED"}
<1> DEFINE Outcome ==
         \/ /\ booking[b].status = "NONE" /\ booking'[b].status = "PENDING_PAYMENT"
            /\ \E h \in Handlers : req'[h].pc = "create_schedule" /\ req'[h].b = b
         \/ /\ booking'[b].status = "CONFIRMED"
            /\ \E h \in Handlers : req'[h].pc = "confirm_rmExpire" /\ req'[h].b = b
         \/ booking'[b].status \in {"CANCELLED", "COMPLETED", "EXPIRED"}
<1> SUFFICES Outcome
  OBVIOUS
<1> USE DEF dbVars
<1>0. booking \in [Bookings -> BookingRow] /\ req \in [Handlers -> Request]
  BY DEF ReservationInv, TypeOK
<1>1. ASSUME NEW c \in Bookings, NEW status \in BookingRowStatus,
             UpdateBookingStatus(c, status)
      PROVE  c = b /\ booking'[b].status = status
  BY <1>1, ConfirmsRow
<1>2. ASSUME NEW h \in Handlers, NEW step \in Step, Goto(h, step)
      PROVE  req'[h].pc = step /\ req'[h].b = req[h].b
  <2>1. req'[h] = [req[h] EXCEPT !.pc = step]
    BY <1>2, GotoRow DEF ReservationInv
  <2> QED BY <1>0, <2>1 DEF Request
<1>3. ASSUME NEW h \in Handlers, CreateCommit(h) PROVE Outcome
  <2>1. req[h].b \in Bookings /\ booking[req[h].b].status = "NONE"
    BY <1>3 DEF CreateCommit, At, ReservationInv, HandlerBound, LifeInv, HandlerLife
  <2>2. /\ booking'[req[h].b].status = "PENDING_PAYMENT"
        /\ \A c \in Bookings \ {req[h].b} : booking'[c] = booking[c]
    BY <1>0, <1>3, <2>1 DEF CreateCommit, BookingRow
  <2>3. req'[h].pc = "create_schedule" /\ req'[h].b = req[h].b
    BY <1>2, <1>3 DEF CreateCommit, Step
  <2> QED BY <2>1, <2>2, <2>3
<1>4. ASSUME NEW h \in Handlers, VerifyCommit(h) \/ WebhookConfirm(h) PROVE Outcome
  <2>1. req[h].b \in Bookings
    BY <1>4, WorksOn DEF VerifyCommit, WebhookConfirm, At, PaymentSteps, WebhookSteps
  <2>2. UpdateBookingStatus(req[h].b, "CONFIRMED") /\ Goto(h, "confirm_rmExpire")
    BY <1>4 DEF VerifyCommit, WebhookConfirm
  <2>3. "CONFIRMED" \in BookingRowStatus /\ "confirm_rmExpire" \in Step
    BY DEF BookingRowStatus, BookingStatus, Step
  <2>4. req[h].b = b /\ booking'[b].status = "CONFIRMED"
    BY <1>1, <2>1, <2>2, <2>3
  <2>5. req'[h].pc = "confirm_rmExpire" /\ req'[h].b = req[h].b
    BY <1>2, <2>2, <2>3
  <2> QED BY <2>4, <2>5
<1>5. ASSUME NEW h \in Handlers, CancelCommit(h) \/ CompleteCommit(h) \/ RefundCommit(h)
      PROVE  Outcome
  <2>1. req[h].b \in Bookings
    BY <1>5 DEF CancelCommit, CompleteCommit, RefundCommit, At, ReservationInv,
                HandlerBound
  <2>2. \/ UpdateBookingStatus(req[h].b, "CANCELLED")
        \/ UpdateBookingStatus(req[h].b, "COMPLETED")
        \/ UNCHANGED booking
    BY <1>5 DEF CancelCommit, CompleteCommit, RefundCommit
  <2>3. {"CANCELLED", "COMPLETED"} \subseteq BookingRowStatus
    BY DEF BookingRowStatus, BookingStatus
  <2> QED BY <1>1, <2>1, <2>2, <2>3
<1>6. ASSUME NEW h \in Handlers, OrderInsert(h) PROVE FALSE
  BY <1>0, <1>6 DEF OrderInsert, BookingRow
<1>7. ASSUME NEW h \in Handlers, Continue(h) PROVE Outcome
  <2>1. CASE UNCHANGED booking
    BY <2>1
  <2> HIDE DEF Outcome
  <2> QED
    BY <1>3, <1>4, <1>5, <1>6, <1>7, <2>1
    DEF Continue, CreateConflict, CreateSchedule, OrderReuse, OrderCreate,
        VerifyConflict, WebhookBegin, WebhookDuplicate, WebhookConflict, WebhookFlag,
        WebhookFailed, WebhookRefunded, WebhookNoEffect, ConfirmRemoveExpire,
        ConfirmAddOverdue, ConfirmNotify, CancelRemoveExpire, CancelRemoveOverdue,
        CancelNotify, CompleteRemoveOverdue, RefundGateway
<1>8. ASSUME NEW c \in Bookings, ExpireCommit(c) PROVE Outcome
  <2>1. "EXPIRED" \in BookingRowStatus
    BY DEF BookingRowStatus, BookingStatus
  <2> QED BY <1>1, <1>8, <2>1 DEF ExpireCommit
<1>9. ASSUME NEW c \in Bookings, OverdueCommit(c) PROVE FALSE
  BY <1>0, <1>9 DEF OverdueCommit, BookingRow
<1>10. CASE UNCHANGED booking
  BY <1>10
<1>11. ASSUME NEW h \in Handlers, Receive(h) \/ HandlerFails(h) PROVE UNCHANGED booking
  BY <1>11
  DEF Receive, CreateStart, OrderRead, VerifyRead, WebhookIgnore, WebhookRead,
      CancelRead, CompleteRead, RefundRead, HandlerFails
<1> HIDE DEF Outcome
<1> QED
  BY <1>7, <1>8, <1>9, <1>10, <1>11
  DEF Next, Worker, WorkerFails, Gateway, Tick, ExpireStart, ExpireRead, ExpireFails,
      OverdueStart, OverdueRead, OverdueFails, GatewayCapture, GatewayAttemptFails,
      GatewayUnrelated, vars

-----------------------------------------------------------------------------
(* Unpaid reservations and their expiration jobs *)

ActiveStates == {"delayed", "active", "updating"}

\* The strengthening of UnpaidIsGuarded: a job that will run again has attempts
\* left, and whoever is about to remove one does so for a booking that has left
\* PENDING_PAYMENT for good.
GuardInv ==
  /\ UnpaidIsGuarded
  /\ \A b \in Bookings :
       expireJob[b].state \in ActiveStates => expireJob[b].attempts < Attempts
  /\ \A h \in Handlers :
       req[h].pc \in {"confirm_rmExpire", "cancel_rmExpire"} =>
         booking[req[h].b].status \notin {"NONE", "PENDING_PAYMENT"}

\* What may happen to an expiration job.
LEMMA ExpireJobStep ==
  ASSUME ReservationInv, [Next]_vars, NEW b \in Bookings,
         expireJob'[b] # expireJob[b]
  PROVE  \/ expireJob'[b].state = "delayed" /\ expireJob'[b].attempts = 0
         \/ \E h \in Handlers :
              req[h].pc \in {"confirm_rmExpire", "cancel_rmExpire"} /\ req[h].b = b
                /\ expireJob'[b] = NoJob
         \/ /\ expireJob[b].state \in ActiveStates
            /\ expireJob'[b].attempts = expireJob[b].attempts
            /\ \/ expireJob'[b].state \in ActiveStates
               \/ expireJob'[b].state = "completed"
                    /\ booking'[b].status # "PENDING_PAYMENT"
         \/ /\ expireJob[b].state \in ActiveStates
            /\ expireJob'[b] = AttemptFailed(expireJob[b])
<1> DEFINE Outcome ==
         \/ expireJob'[b].state = "delayed" /\ expireJob'[b].attempts = 0
         \/ \E h \in Handlers :
              req[h].pc \in {"confirm_rmExpire", "cancel_rmExpire"} /\ req[h].b = b
                /\ expireJob'[b] = NoJob
         \/ /\ expireJob[b].state \in ActiveStates
            /\ expireJob'[b].attempts = expireJob[b].attempts
            /\ \/ expireJob'[b].state \in ActiveStates
               \/ expireJob'[b].state = "completed"
                    /\ booking'[b].status # "PENDING_PAYMENT"
         \/ /\ expireJob[b].state \in ActiveStates
            /\ expireJob'[b] = AttemptFailed(expireJob[b])
<1> SUFFICES Outcome
  OBVIOUS
<1> USE DEF dbVars, queueVars
<1>0. expireJob \in [Bookings -> Job]
  BY DEF ReservationInv, TypeOK
<1>1. ASSUME NEW h \in Handlers, CreateSchedule(h) PROVE Outcome
  BY <1>0, <1>1 DEF CreateSchedule
<1>2. ASSUME NEW h \in Handlers, ConfirmRemoveExpire(h) \/ CancelRemoveExpire(h)
      PROVE  Outcome
  BY <1>0, <1>2 DEF ConfirmRemoveExpire, CancelRemoveExpire, At
<1>3. ASSUME NEW c \in Bookings, NEW state, expireJob' = [expireJob EXCEPT ![c].state = state]
      PROVE  c = b /\ expireJob'[b].state = state
               /\ expireJob'[b].attempts = expireJob[b].attempts
  BY <1>0, <1>3 DEF Job
<1>4. ASSUME NEW c \in Bookings, ExpireStart(c) PROVE Outcome
  <2>1. c = b /\ expireJob'[b].state = "active"
          /\ expireJob'[b].attempts = expireJob[b].attempts
    BY <1>3, <1>4 DEF ExpireStart
  <2> QED BY <1>4, <2>1 DEF ExpireStart, Due, ActiveStates
<1>5. ASSUME NEW c \in Bookings, ExpireRead(c) PROVE Outcome
  <2>1. /\ c = b /\ expireJob'[b].attempts = expireJob[b].attempts
        /\ expireJob'[b].state = IF booking[c].status = "PENDING_PAYMENT"
                                 THEN "updating" ELSE "completed"
    BY <1>3, <1>5 DEF ExpireRead
  <2> QED BY <1>5, <2>1 DEF ExpireRead, ActiveStates
<1>6. ASSUME NEW c \in Bookings, ExpireCommit(c) PROVE Outcome
  <2>1. c = b /\ expireJob'[b].state = "completed"
          /\ expireJob'[b].attempts = expireJob[b].attempts
    BY <1>3, <1>6 DEF ExpireCommit
  <2>2. "EXPIRED" \in BookingRowStatus
    BY DEF BookingRowStatus, BookingStatus
  <2>3. booking'[b].status # "PENDING_PAYMENT"
    BY <1>6, <2>1, <2>2, ConfirmsRow DEF ExpireCommit, StillPending
  <2> QED BY <1>6, <2>1, <2>3 DEF ExpireCommit, ActiveStates
<1>7. ASSUME NEW c \in Bookings, ExpireFails(c) PROVE Outcome
  <2>1. c = b /\ expireJob'[b] = AttemptFailed(expireJob[b])
    BY <1>0, <1>7 DEF ExpireFails
  <2> QED BY <1>7, <2>1 DEF ExpireFails, Locked, ActiveStates
<1>8. CASE UNCHANGED expireJob
  BY <1>8
<1> HIDE DEF Outcome
<1>9. ASSUME NEW h \in Handlers, Receive(h) \/ HandlerFails(h) PROVE UNCHANGED expireJob
  BY <1>9
  DEF Receive, CreateStart, OrderRead, VerifyRead, WebhookIgnore, WebhookRead,
      CancelRead, CompleteRead, RefundRead, HandlerFails
<1>10. ASSUME NEW h \in Handlers, Continue(h) PROVE Outcome
  BY <1>1, <1>2, <1>8, <1>10
  DEF Continue, CreateCommit, CreateConflict, OrderReuse, OrderCreate, OrderInsert,
      VerifyCommit, VerifyConflict, WebhookBegin, WebhookDuplicate, WebhookConfirm,
      WebhookConflict, WebhookFlag, WebhookFailed, WebhookRefunded, WebhookNoEffect,
      ConfirmAddOverdue, ConfirmNotify, CancelCommit, CancelRemoveOverdue,
      CancelNotify, CompleteCommit, CompleteRemoveOverdue, RefundGateway, RefundCommit
<1>11. ASSUME NEW c \in Bookings, Worker(c) \/ WorkerFails(c) PROVE Outcome
  BY <1>4, <1>5, <1>6, <1>7, <1>8, <1>11
  DEF Worker, WorkerFails, OverdueStart, OverdueRead, OverdueCommit, OverdueFails
<1> QED
  BY <1>8, <1>9, <1>10, <1>11
  DEF Next, Gateway, Tick, GatewayCapture, GatewayAttemptFails, GatewayUnrelated, vars

\* A failed attempt is tried again as long as there are attempts left.
LEMMA RetryCounts ==
  ASSUME NEW job \in Job, job.attempts < Attempts
  PROVE  \/ AttemptFailed(job).state = "delayed" /\ AttemptFailed(job).attempts < Attempts
         \/ AttemptFailed(job).state = "failed" /\ AttemptFailed(job).attempts = Attempts
<1>1. job.attempts \in Nat /\ Attempts \in Nat
  BY BoundsAssumption DEF Job
<1>2. /\ AttemptFailed(job).attempts = job.attempts + 1
      /\ AttemptFailed(job).state = IF job.attempts + 1 < Attempts
                                    THEN "delayed" ELSE "failed"
  BY DEF AttemptFailed, Job
<1> QED BY <1>1, <1>2

\* A request that has to schedule an expiration does so, or stops.
LEMMA SchedulerStep ==
  ASSUME ReservationInv, [Next]_vars, NEW h \in Handlers, req[h].pc = "create_schedule"
  PROVE  \/ req'[h] = req[h]
         \/ expireJob'[req[h].b].state = "delayed"
         \/ req[h].b \in dropped'
<1>1. ASSUME HandlerFails(h) PROVE req[h].b \in dropped'
  BY <1>1 DEF HandlerFails, SchedulingSteps, Drop
<1>2. ASSUME CreateSchedule(h) PROVE expireJob'[req[h].b].state = "delayed"
  <2>1. req[h].b \in Bookings /\ expireJob \in [Bookings -> Job]
    BY DEF ReservationInv, HandlerBound, TypeOK
  <2> QED BY <1>2, <2>1 DEF CreateSchedule
<1>3. ASSUME Receive(h) PROVE FALSE
  BY <1>3 DEF Receive, CreateStart, OrderRead, VerifyRead, WebhookIgnore, WebhookRead,
              CancelRead, CompleteRead, RefundRead, Accepts, At
<1>4. ASSUME Continue(h) PROVE CreateSchedule(h)
  BY <1>4
  DEF Continue, CreateCommit, CreateConflict, OrderReuse, OrderCreate, OrderInsert,
      VerifyCommit, VerifyConflict, WebhookBegin, WebhookDuplicate, WebhookConfirm,
      WebhookConflict, WebhookFlag, WebhookFailed, WebhookRefunded, WebhookNoEffect,
      ConfirmRemoveExpire, ConfirmAddOverdue, ConfirmNotify, CancelCommit,
      CancelRemoveExpire, CancelRemoveOverdue, CancelNotify, CompleteCommit,
      CompleteRemoveOverdue, RefundGateway, RefundCommit, At
<1> QED BY <1>1, <1>2, <1>3, <1>4, OneHandlerMoves

\* What was given up or withdrawn is not forgotten.
LEMMA DroppedForGood ==
  ASSUME [Next]_vars
  PROVE  dropped \subseteq dropped'
<1> USE DEF queueVars, Drop
<1>1. ASSUME NEW h \in Handlers, Receive(h) \/ HandlerFails(h) PROVE dropped \subseteq dropped'
  BY <1>1
  DEF Receive, CreateStart, OrderRead, VerifyRead, WebhookIgnore, WebhookRead,
      CancelRead, CompleteRead, RefundRead, HandlerFails
<1>2. ASSUME NEW h \in Handlers, Continue(h) PROVE dropped \subseteq dropped'
  BY <1>2
  DEF Continue, CreateCommit, CreateConflict, CreateSchedule, OrderReuse, OrderCreate,
      OrderInsert, VerifyCommit, VerifyConflict, WebhookBegin, WebhookDuplicate,
      WebhookConfirm, WebhookConflict, WebhookFlag, WebhookFailed, WebhookRefunded,
      WebhookNoEffect, ConfirmRemoveExpire, ConfirmAddOverdue, ConfirmNotify,
      CancelCommit, CancelRemoveExpire, CancelRemoveOverdue, CancelNotify,
      CompleteCommit, CompleteRemoveOverdue, RefundGateway, RefundCommit
<1> QED
  BY <1>1, <1>2
  DEF Next, Worker, WorkerFails, Gateway, Tick, ExpireStart, ExpireRead, ExpireCommit,
      ExpireFails, OverdueStart, OverdueRead, OverdueCommit, OverdueFails,
      GatewayCapture, GatewayAttemptFails, GatewayUnrelated, vars

\* A request is about to remove an expiration job only after it wrote CONFIRMED
\* or CANCELLED.
LEMMA RemoverStep ==
  ASSUME ReservationInv, [Next]_vars, NEW h \in Handlers,
         req'[h].pc \in {"confirm_rmExpire", "cancel_rmExpire"}
  PROVE  /\ req'[h].b \in Bookings
         /\ \/ req'[h] = req[h]
            \/ booking'[req'[h].b].status \in {"CONFIRMED", "CANCELLED"}
<1> DEFINE Outcome ==
         /\ req'[h].b \in Bookings
         /\ \/ req'[h] = req[h]
            \/ booking'[req'[h].b].status \in {"CONFIRMED", "CANCELLED"}
<1> SUFFICES Outcome
  OBVIOUS
<1>0. req \in [Handlers -> Request]
  BY DEF ReservationInv, TypeOK
<1>1. ASSUME req'[h] = req[h] PROVE Outcome
  BY <1>1 DEF ReservationInv, HandlerBound
<1>2. ASSUME Return(h) PROVE FALSE
  BY <1>0, <1>2 DEF Return, Idle
<1>3. ASSUME NEW step \in Step, Goto(h, step)
      PROVE  req'[h].pc = step /\ req'[h].b = req[h].b
  <2>1. req'[h] = [req[h] EXCEPT !.pc = step]
    BY <1>3, GotoRow DEF ReservationInv
  <2> QED BY <1>0, <2>1 DEF Request
<1>4. ASSUME VerifyCommit(h) \/ WebhookConfirm(h) \/ CancelCommit(h) PROVE Outcome
  <2>1. req[h].b \in Bookings
    BY <1>4 DEF VerifyCommit, WebhookConfirm, CancelCommit, At, ReservationInv,
                HandlerBound
  <2>2. \/ UpdateBookingStatus(req[h].b, "CONFIRMED") /\ Goto(h, "confirm_rmExpire")
        \/ UpdateBookingStatus(req[h].b, "CANCELLED") /\ Goto(h, "cancel_rmExpire")
    BY <1>4 DEF VerifyCommit, WebhookConfirm, CancelCommit
  <2>3. /\ {"CONFIRMED", "CANCELLED"} \subseteq BookingRowStatus
        /\ {"confirm_rmExpire", "cancel_rmExpire"} \subseteq Step
    BY DEF BookingRowStatus, BookingStatus, Step
  <2>4. req'[h].b = req[h].b
    BY <1>3, <2>2, <2>3
  <2>5. booking'[req[h].b].status \in {"CONFIRMED", "CANCELLED"}
    BY <2>1, <2>2, <2>3, ConfirmsRow
  <2> QED BY <2>1, <2>4, <2>5
<1>5. ASSUME NEW step \in Step \ {"confirm_rmExpire", "cancel_rmExpire"}, Goto(h, step)
      PROVE  FALSE
  BY <1>3, <1>5
<1>6. {"create_schedule", "confirm_addOverdue", "confirm_notify", "cancel_rmOverdue",
       "cancel_notify", "complete_rmOverdue", "refund_tx"}
        \subseteq Step \ {"confirm_rmExpire", "cancel_rmExpire"}
  BY DEF Step
<1>7. ASSUME NEW o \in Orders, OrderCreate(h, o) PROVE FALSE
  BY <1>0, <1>7 DEF OrderCreate, Request
<1>8. ASSUME WebhookBegin(h) PROVE FALSE
  BY <1>0, <1>8 DEF WebhookBegin, Request
<1>9. ASSUME Receive(h) PROVE Outcome
  <2>1. CASE req' = req
    BY <1>1, <2>1
  <2>2. CASE req'[h].pc \in FirstSteps
    BY <2>2 DEF FirstSteps
  <2> QED BY <1>9, <2>1, <2>2, ReceiveStep
<1>10. ASSUME Continue(h) PROVE Outcome
  <2> HIDE DEF Outcome
  <2> QED
    BY <1>2, <1>4, <1>5, <1>6, <1>7, <1>8, <1>10
    DEF Continue, CreateCommit, CreateConflict, CreateSchedule, OrderReuse, OrderInsert,
        VerifyConflict, WebhookDuplicate, WebhookConflict, WebhookFlag,
        WebhookFailed, WebhookRefunded, WebhookNoEffect, ConfirmRemoveExpire,
        ConfirmAddOverdue, ConfirmNotify, CancelRemoveExpire, CancelRemoveOverdue,
        CancelNotify, CompleteCommit, CompleteRemoveOverdue, RefundGateway, RefundCommit
<1>11. ASSUME HandlerFails(h) PROVE FALSE
  BY <1>2, <1>11 DEF HandlerFails
<1> HIDE DEF Outcome
<1> QED BY <1>1, <1>9, <1>10, <1>11, OneHandlerMoves

LEMMA GuardStep ==
  ASSUME ReservationInv, LifeInv, GuardInv, [Next]_vars
  PROVE  GuardInv'
<1>1. expireJob \in [Bookings -> Job]
  BY DEF ReservationInv, TypeOK
<1>2. ASSUME NEW b \in Bookings, expireJob'[b].state \in ActiveStates
      PROVE  expireJob'[b].attempts < Attempts
  <2>1. CASE expireJob'[b] = expireJob[b]
    BY <1>2, <2>1 DEF GuardInv
  <2>2. CASE expireJob'[b].state = "delayed" /\ expireJob'[b].attempts = 0
    BY <2>2, BoundsAssumption
  <2>3. CASE expireJob'[b] = NoJob
    BY <1>2, <2>3 DEF NoJob, ActiveStates
  <2>4. CASE /\ expireJob[b].state \in ActiveStates
             /\ expireJob'[b].attempts = expireJob[b].attempts
    BY <2>4 DEF GuardInv
  <2>5. CASE /\ expireJob[b].state \in ActiveStates
             /\ expireJob'[b] = AttemptFailed(expireJob[b])
    <3>1. expireJob[b] \in Job /\ expireJob[b].attempts < Attempts
      BY <1>1, <2>5 DEF GuardInv
    <3> QED BY <1>2, <2>5, <3>1, RetryCounts DEF ActiveStates
  <2> QED BY <2>1, <2>2, <2>3, <2>4, <2>5, ExpireJobStep
<1>3. ASSUME NEW h \in Handlers, req'[h].pc \in {"confirm_rmExpire", "cancel_rmExpire"}
      PROVE  booking'[req'[h].b].status \notin {"NONE", "PENDING_PAYMENT"}
  <2>1. CASE req'[h] = req[h]
    <3>1. req[h].b \in Bookings
      BY <1>3, <2>1 DEF ReservationInv, HandlerBound
    <3>2. booking[req[h].b].status \notin {"NONE", "PENDING_PAYMENT"}
      BY <1>3, <2>1 DEF GuardInv
    <3> QED BY <2>1, <3>1, <3>2, StatusStep
  <2> QED BY <1>3, <2>1, RemoverStep
<1>4. ASSUME NEW b \in Bookings, booking'[b].status = "PENDING_PAYMENT"
      PROVE  \/ expireJob'[b].state \in {"delayed", "active", "updating"}
             \/ expireJob'[b].state = "failed" /\ expireJob'[b].attempts = Attempts
             \/ \E h \in Handlers : req'[h].pc = "create_schedule" /\ req'[h].b = b
             \/ b \in dropped'
  <2> DEFINE Guarded ==
             \/ expireJob'[b].state \in {"delayed", "active", "updating"}
             \/ expireJob'[b].state = "failed" /\ expireJob'[b].attempts = Attempts
             \/ \E h \in Handlers : req'[h].pc = "create_schedule" /\ req'[h].b = b
             \/ b \in dropped'
  <2>1. CASE booking[b].status # "PENDING_PAYMENT"
    BY <1>4, <2>1, StatusStep
  <2>2. ASSUME booking[b].status = "PENDING_PAYMENT",
               expireJob'[b] # expireJob[b]
        PROVE  Guarded
    <3>1. ASSUME NEW h \in Handlers, req[h].b = b
          PROVE  req[h].pc \notin {"confirm_rmExpire", "cancel_rmExpire"}
      BY <2>2, <3>1 DEF GuardInv
    <3>2. CASE /\ expireJob[b].state \in ActiveStates
               /\ expireJob'[b] = AttemptFailed(expireJob[b])
      <4>1. expireJob[b] \in Job /\ expireJob[b].attempts < Attempts
        BY <1>1, <3>2 DEF GuardInv
      <4> QED BY <3>2, <4>1, RetryCounts
    <3> QED BY <1>4, <2>2, <3>1, <3>2, ExpireJobStep DEF ActiveStates
  <2>3. ASSUME booking[b].status = "PENDING_PAYMENT", expireJob'[b] = expireJob[b]
        PROVE  Guarded
    <3>1. CASE b \in dropped
      BY <3>1, DroppedForGood
    <3>2. ASSUME NEW h \in Handlers, req[h].pc = "create_schedule", req[h].b = b
          PROVE  Guarded
      BY <3>2, SchedulerStep
    <3> QED BY <2>3, <3>1, <3>2 DEF GuardInv, UnpaidIsGuarded, At
  <2> QED BY <2>1, <2>2, <2>3
<1> QED BY <1>2, <1>3, <1>4 DEF GuardInv, UnpaidIsGuarded, At, ActiveStates

\* An unpaid reservation keeps its expiration job until the job has run or used
\* up its attempts; only a request that stopped right after createBooking's
\* commit leaves one without (schedulePaymentExpiration, cancelPaymentExpiration).
THEOREM UnpaidGuarded == Spec => []UnpaidIsGuarded
<1>1. Init => GuardInv
  BY DEF Init, GuardInv, UnpaidIsGuarded, NoJob, ActiveStates, Idle
<1>2. ReservationInv /\ LifeInv /\ GuardInv /\ [Next]_vars => GuardInv'
  BY GuardStep
<1>3. GuardInv => UnpaidIsGuarded
  BY DEF GuardInv
<1> QED BY <1>1, <1>2, <1>3, ReservationInvariance, LifeInvariance, PTL DEF Spec


-----------------------------------------------------------------------------
(* The post-commit work of a confirmation *)

\* Until b is overdue, the check for that is waiting in the queue.
CheckWaits(b) == now < EndOf[b] + Grace => overdueJob[b].state = "delayed"

\* The strengthening of ConfirmedIsFollowedUp: a request that still has the
\* notifications to schedule has added the overdue check, or found it.
FollowInv ==
  /\ ConfirmedIsFollowedUp
  /\ \A h \in Handlers :
       req[h].pc = "confirm_notify" /\ req[h].b \notin dropped => CheckWaits(req[h].b)

\* Only a cancellation or a completion takes an entry out of the queues, and the
\* overdue check is not taken up before its time.
LEMMA EntriesStep ==
  ASSUME ReservationInv, OverdueChecksWait, [Next]_vars, NEW b \in Bookings \ dropped'
  PROVE  /\ b \in reminders => b \in reminders'
         /\ CheckWaits(b) => CheckWaits(b)'
<1> DEFINE Kept == /\ b \in reminders => b \in reminders'
                   /\ CheckWaits(b) => CheckWaits(b)'
<1> USE DEF queueVars
<1>0. /\ overdueJob \in [Bookings -> Job] /\ now \in Nat
      /\ EndOf[b] + Grace \in Int
  BY CalendarAssumption, BoundsAssumption DEF ReservationInv, TypeOK
<1>1. ASSUME reminders' = reminders, overdueJob'[b] = overdueJob[b],
             now' \in Nat, now <= now'
      PROVE  Kept
  BY <1>0, <1>1 DEF CheckWaits
<1>2. ASSUME UNCHANGED <<reminders, overdueJob, now>> PROVE Kept
  BY <1>0, <1>1, <1>2
<1>3. ASSUME reminders' = reminders, now' = now, TakenUp(overdueJob[b]) PROVE Kept
  BY <1>0, <1>3 DEF CheckWaits, TakenUp, OverdueChecksWait, OverdueAt
<1>4. ASSUME NEW c \in Bookings,
             \/ OverdueStart(c) \/ OverdueRead(c) \/ OverdueCommit(c) \/ OverdueFails(c)
      PROVE  Kept
  <2>1. UNCHANGED <<reminders, now>> /\ (c # b => overdueJob'[b] = overdueJob[b])
    BY <1>0, <1>4 DEF OverdueStart, OverdueRead, OverdueCommit, OverdueFails
  <2>2. CASE c # b
    BY <1>0, <1>1, <2>1, <2>2
  <2>3. CASE c = b /\ OverdueStart(c)
    BY <1>0, <2>1, <2>3 DEF OverdueStart, Due, CheckWaits, OverdueChecksWait, OverdueAt
  <2>4. CASE c = b /\ ~OverdueStart(c)
    <3>1. TakenUp(overdueJob[b])
      BY <1>4, <2>4 DEF OverdueRead, OverdueCommit, OverdueFails, Locked, TakenUp
    <3> QED BY <1>3, <2>1, <3>1
  <2> QED BY <2>2, <2>3, <2>4
<1>5. ASSUME NEW h \in Handlers, ConfirmAddOverdue(h) PROVE Kept
  BY <1>0, <1>5 DEF ConfirmAddOverdue, CheckWaits
<1>6. ASSUME NEW h \in Handlers, ConfirmNotify(h) PROVE Kept
  BY <1>6 DEF ConfirmNotify, CheckWaits
<1>7. ASSUME NEW h \in Handlers, CancelRemoveOverdue(h) \/ CompleteRemoveOverdue(h)
      PROVE  Kept
  <2>1. UNCHANGED <<reminders, now>>
    BY <1>7 DEF CancelRemoveOverdue, CompleteRemoveOverdue
  <2>2. overdueJob'[b] = overdueJob[b]
    BY <1>0, <1>7 DEF CancelRemoveOverdue, CompleteRemoveOverdue, Drop
  <2> QED BY <1>0, <1>1, <2>1, <2>2
<1>8. ASSUME NEW h \in Handlers, CancelNotify(h) PROVE Kept
  BY <1>8 DEF CancelNotify, Drop, CheckWaits
<1>9. ASSUME Tick PROVE Kept
  BY <1>0, <1>1, <1>9 DEF Tick
<1> HIDE DEF Kept
<1>10. ASSUME NEW h \in Handlers, Receive(h) \/ HandlerFails(h) PROVE Kept
  BY <1>2, <1>10
  DEF Receive, CreateStart, OrderRead, VerifyRead, WebhookIgnore, WebhookRead,
      CancelRead, CompleteRead, RefundRead, HandlerFails
<1>11. ASSUME NEW h \in Handlers, Continue(h) PROVE Kept
  BY <1>2, <1>5, <1>6, <1>7, <1>8, <1>11
  DEF Continue, CreateCommit, CreateConflict, CreateSchedule, OrderReuse, OrderCreate,
      OrderInsert, VerifyCommit, VerifyConflict, WebhookBegin, WebhookDuplicate,
      WebhookConfirm, WebhookConflict, WebhookFlag, WebhookFailed, WebhookRefunded,
      WebhookNoEffect, ConfirmRemoveExpire, CancelCommit, CancelRemoveExpire,
      CompleteCommit, RefundGateway, RefundCommit
<1>12. ASSUME NEW c \in Bookings, Worker(c) \/ WorkerFails(c) PROVE Kept
  BY <1>2, <1>4, <1>12
  DEF Worker, WorkerFails, ExpireStart, ExpireRead, ExpireCommit, ExpireFails
<1>13. ASSUME Gateway \/ UNCHANGED vars PROVE Kept
  BY <1>2, <1>13
  DEF Gateway, GatewayCapture, GatewayAttemptFails, GatewayUnrelated, vars
<1>14. Kept
  BY <1>9, <1>10, <1>11, <1>12, <1>13 DEF Next
<1> QED BY <1>14 DEF Kept

\* A confirming request goes on, gives up, or has scheduled the notifications.
LEMMA ConfirmerStep ==
  ASSUME ReservationInv, [Next]_vars, NEW h \in Handlers, req[h].pc \in ConfirmSteps
  PROVE  \/ req'[h].pc \in ConfirmSteps /\ req'[h].b = req[h].b
         \/ req[h].b \in dropped'
         \/ req[h].pc = "confirm_notify" /\ req[h].b \in reminders'
<1> DEFINE Outcome ==
         \/ req'[h].pc \in ConfirmSteps /\ req'[h].b = req[h].b
         \/ req[h].b \in dropped'
         \/ req[h].pc = "confirm_notify" /\ req[h].b \in reminders'
<1> SUFFICES Outcome
  OBVIOUS
<1> USE DEF ConfirmSteps, SchedulingSteps
<1>0. req \in [Handlers -> Request]
  BY DEF ReservationInv, TypeOK
<1>1. ASSUME req'[h] = req[h] PROVE Outcome
  BY <1>1
<1>2. ASSUME NEW step \in Step, Goto(h, step)
      PROVE  req'[h].pc = step /\ req'[h].b = req[h].b
  <2>1. req'[h] = [req[h] EXCEPT !.pc = step]
    BY <1>2, GotoRow DEF ReservationInv
  <2> QED BY <1>0, <2>1 DEF Request
<1>3. ASSUME ConfirmRemoveExpire(h) \/ ConfirmAddOverdue(h) \/ ConfirmNotify(h)
      PROVE  Outcome
  BY <1>2, <1>3 DEF ConfirmRemoveExpire, ConfirmAddOverdue, ConfirmNotify, At, Drop, Step
<1>4. ASSUME Continue(h)
      PROVE  ConfirmRemoveExpire(h) \/ ConfirmAddOverdue(h) \/ ConfirmNotify(h)
  BY <1>4
  DEF Continue, CreateCommit, CreateConflict, CreateSchedule, OrderReuse, OrderCreate,
      OrderInsert, VerifyCommit, VerifyConflict, WebhookBegin, WebhookDuplicate,
      WebhookConfirm, WebhookConflict, WebhookFlag, WebhookFailed, WebhookRefunded,
      WebhookNoEffect, CancelCommit, CancelRemoveExpire, CancelRemoveOverdue,
      CancelNotify, CompleteCommit, CompleteRemoveOverdue, RefundGateway, RefundCommit, At
<1>5. ASSUME Receive(h) PROVE req'[h] = req[h]
  BY <1>5, ReceiveStep
<1>6. ASSUME HandlerFails(h) PROVE Outcome
  BY <1>6 DEF HandlerFails, Drop
<1> HIDE DEF Outcome
<1> QED BY <1>1, <1>3, <1>4, <1>5, <1>6, OneHandlerMoves

\* A request comes to the notifications from the overdue check.
LEMMA NotifierStep ==
  ASSUME ReservationInv, OverdueChecksWait, [Next]_vars, NEW h \in Handlers,
         req'[h].pc = "confirm_notify", req'[h] # req[h],
         NEW b \in Bookings, b = req'[h].b
  PROVE  CheckWaits(b)'
<1>0. req \in [Handlers -> Request] /\ overdueJob \in [Bookings -> Job] /\ now \in Nat
  BY DEF ReservationInv, TypeOK
<1>1. ASSUME NEW step \in Step, Goto(h, step)
      PROVE  req'[h].pc = step /\ req'[h].b = req[h].b
  <2>1. req'[h] = [req[h] EXCEPT !.pc = step]
    BY <1>1, GotoRow DEF ReservationInv
  <2> QED BY <1>0, <2>1 DEF Request
<1>2. ASSUME Return(h) PROVE FALSE
  BY <1>0, <1>2 DEF Return, Idle
<1>3. ASSUME NEW o \in Orders, OrderCreate(h, o) PROVE FALSE
  BY <1>0, <1>3 DEF OrderCreate, Request
<1>4. ASSUME WebhookBegin(h) PROVE FALSE
  BY <1>0, <1>4 DEF WebhookBegin, Request
<1>5. ASSUME Receive(h) PROVE FALSE
  BY <1>5, ReceiveStep DEF FirstSteps
<1>6. ASSUME HandlerFails(h) PROVE FALSE
  BY <1>2, <1>6 DEF HandlerFails
<1>7. ASSUME NEW step \in Step \ {"confirm_notify"}, Goto(h, step) PROVE FALSE
  BY <1>1, <1>7
<1>8. {"create_schedule", "confirm_rmExpire", "confirm_addOverdue", "cancel_rmExpire",
       "cancel_rmOverdue", "cancel_notify", "complete_rmOverdue", "refund_tx"}
        \subseteq Step \ {"confirm_notify"}
  BY DEF Step
<1>9. ASSUME Continue(h) PROVE ConfirmAddOverdue(h)
  BY <1>2, <1>3, <1>4, <1>7, <1>8, <1>9
  DEF Continue, CreateCommit, CreateConflict, CreateSchedule, OrderReuse, OrderInsert,
      VerifyCommit, VerifyConflict, WebhookDuplicate, WebhookConfirm, WebhookConflict,
      WebhookFlag, WebhookFailed, WebhookRefunded, WebhookNoEffect,
      ConfirmRemoveExpire, ConfirmNotify, CancelCommit, CancelRemoveExpire,
      CancelRemoveOverdue, CancelNotify, CompleteCommit, CompleteRemoveOverdue,
      RefundGateway, RefundCommit
<1>10. ConfirmAddOverdue(h)
  BY <1>5, <1>6, <1>9, OneHandlerMoves
<1>11. req[h].b = b
  BY <1>1, <1>10 DEF ConfirmAddOverdue, Step
<1>12. EndOf[b] + Grace \in Int
  BY CalendarAssumption, BoundsAssumption
<1>13. CASE OverdueAt(b) > now /\ overdueJob[b].state = "none"
  BY <1>0, <1>10, <1>11, <1>13 DEF ConfirmAddOverdue, CheckWaits
<1>14. CASE ~(OverdueAt(b) > now /\ overdueJob[b].state = "none")
  <2>1. overdueJob' = overdueJob /\ now' = now
    BY <1>10, <1>11, <1>14 DEF ConfirmAddOverdue
  <2>2. CASE overdueJob[b].state = "delayed"
    BY <2>1, <2>2 DEF CheckWaits
  <2>3. CASE ~(OverdueAt(b) > now)
    BY <1>0, <1>12, <2>1, <2>3 DEF CheckWaits, OverdueAt
  <2>4. CASE TakenUp(overdueJob[b])
    <3>1. OverdueAt(b) <= now
      BY <2>4 DEF OverdueChecksWait, TakenUp
    <3> QED BY <1>0, <1>12, <2>1, <3>1 DEF CheckWaits, OverdueAt
  <2> QED BY <1>14, <2>2, <2>3, <2>4 DEF TakenUp
<1> QED BY <1>13, <1>14

LEMMA FollowStep ==
  ASSUME ReservationInv, LifeInv, OverdueChecksWait, FollowInv, [Next]_vars
  PROVE  FollowInv'
<1>1. ASSUME NEW h \in Handlers, req'[h].pc = "confirm_notify",
             NEW b, b = req'[h].b, b \notin dropped'
      PROVE  CheckWaits(b)'
  <2>1. CASE req'[h] = req[h]
    <3>1. b \in Bookings \ dropped' /\ b \notin dropped
      BY <1>1, <2>1, DroppedForGood DEF ReservationInv, HandlerBound
    <3>2. CheckWaits(b)
      BY <1>1, <2>1, <3>1 DEF FollowInv
    <3> QED BY <3>1, <3>2, EntriesStep
  <2>2. CASE req'[h] # req[h]
    <3>1. ReservationInv'
      BY StepInv, StutterInv
    <3>2. b \in Bookings
      BY <1>1, <3>1 DEF ReservationInv, HandlerBound
    <3> QED BY <1>1, <2>2, <3>2, NotifierStep
  <2> QED BY <2>1, <2>2
<1>2. ASSUME NEW b \in Bookings, booking'[b].status = "CONFIRMED", b \notin dropped'
      PROVE  \/ FollowedUp(b)'
             \/ \E h \in Handlers : req'[h].pc \in ConfirmSteps /\ req'[h].b = b
  <2>1. CASE booking[b].status # "CONFIRMED"
    BY <1>2, <2>1, StatusStep DEF ConfirmSteps, SchedulingSteps
  <2>2. CASE booking[b].status = "CONFIRMED"
    <3>1. b \notin dropped
      BY <1>2, DroppedForGood
    <3>2. FollowedUp(b)' <=> (b \in reminders' /\ CheckWaits(b)')
      BY DEF FollowedUp, CheckWaits
    <3>3. CASE FollowedUp(b)
      BY <1>2, <3>2, <3>3, EntriesStep DEF FollowedUp, CheckWaits
    <3>4. ASSUME NEW h \in Handlers, req[h].pc \in ConfirmSteps, req[h].b = b
          PROVE  \/ FollowedUp(b)'
                 \/ \E g \in Handlers : req'[g].pc \in ConfirmSteps /\ req'[g].b = b
      <4>1. CASE req[h].pc = "confirm_notify" /\ b \in reminders'
        <5>1. CheckWaits(b)
          BY <3>1, <3>4, <4>1 DEF FollowInv
        <5> QED BY <1>2, <3>2, <4>1, <5>1, EntriesStep
      <4> QED BY <1>2, <3>4, <4>1, ConfirmerStep
    <3> QED BY <2>2, <3>1, <3>3, <3>4 DEF FollowInv, ConfirmedIsFollowedUp
  <2> QED BY <2>1, <2>2
<1>3. ConfirmedIsFollowedUp'
  BY <1>2 DEF ConfirmedIsFollowedUp
<1>4. (\A h \in Handlers :
         req[h].pc = "confirm_notify" /\ req[h].b \notin dropped => CheckWaits(req[h].b))'
  BY <1>1 DEF CheckWaits
<1> QED BY <1>3, <1>4 DEF FollowInv

\* A CONFIRMED booking has its notifications and its overdue check, or a request
\* is still at it, or gave up, or somebody withdrew them (the calls after the
\* commit in verifyClientPayment and handleWebhookEvent).
THEOREM ConfirmationFollowedUp == Spec => []ConfirmedIsFollowedUp
<1>1. Init => FollowInv
  BY DEF Init, FollowInv, ConfirmedIsFollowedUp, Idle
<1>2. ReservationInv /\ LifeInv /\ OverdueChecksWait /\ FollowInv /\ [Next]_vars
        => FollowInv'
  BY FollowStep
<1>3. FollowInv => ConfirmedIsFollowedUp
  BY DEF FollowInv
<1> QED
  BY <1>1, <1>2, <1>3, ReservationInvariance, LifeInvariance, ChecksWait, PTL DEF Spec


-----------------------------------------------------------------------------
(* Captures that were processed *)

Closed == {"SUCCESS", "FAILED", "REFUNDED"}

\* The strengthening of CaptureClosesOrder: the copy of the payment a delivery
\* decides on may be stale, but a payment that was closed is closed.
CaptureInv ==
  /\ CaptureClosesOrder
  /\ events \subseteq sent
  /\ \A h \in Handlers :
       req[h].pc \in WebhookSteps =>
         /\ req[h].seenP # "NONE"
         /\ req[h].seenP \in Closed => payment[req[h].o].status \in Closed

\* A payment that was inserted keeps its status or is closed.
LEMMA PaymentStep ==
  ASSUME ReservationInv, [Next]_vars, NEW o \in Orders, payment[o].status # "NONE"
  PROVE  payment'[o].status = payment[o].status \/ payment'[o].status \in Closed
<1> DEFINE Outcome ==
      payment'[o].status = payment[o].status \/ payment'[o].status \in Closed
<1> USE DEF dbVars, Closed
<1>0. payment \in [Orders -> PaymentRow] /\ req \in [Handlers -> Request]
  BY DEF ReservationInv, TypeOK
<1>1. ASSUME NEW h \in Handlers, CreateCommit(h) \/ OrderInsert(h) PROVE Outcome
  <2>1. payment[req[h].o].status = "NONE"
    BY <1>1 DEF CreateCommit, OrderInsert, At, ReservationInv, HandlerBound,
                InsertingSteps
  <2> QED BY <1>0, <1>1, <2>1 DEF CreateCommit, OrderInsert
<1>2. ASSUME NEW x \in Orders, PaymentSucceeds(x) PROVE Outcome
  BY <1>2, SucceedsRow
<1>3. ASSUME NEW x \in Orders, UpdatePaymentStatus(x, "REFUNDED") PROVE Outcome
  BY <1>3, RefundsRow
<1>4. ASSUME NEW h \in Handlers,
             \/ VerifyCommit(h) \/ WebhookConfirm(h) \/ WebhookFlag(h)
             \/ WebhookRefunded(h) \/ RefundCommit(h)
      PROVE  Outcome
  <2>1. req[h].o \in Orders
    BY <1>4, WorksOn
    DEF VerifyCommit, WebhookConfirm, WebhookFlag, WebhookRefunded, RefundCommit, At,
        PaymentSteps, WebhookSteps
  <2> QED
    BY <1>2, <1>3, <1>4, <2>1
    DEF VerifyCommit, WebhookConfirm, WebhookFlag, WebhookRefunded, RefundCommit
<1>5. ASSUME NEW h \in Handlers, WebhookFailed(h) PROVE Outcome
  BY <1>0, <1>5 DEF WebhookFailed, PaymentRow
<1>6. ASSUME NEW b \in Bookings, ExpireCommit(b) PROVE Outcome
  BY <1>0, <1>6 DEF ExpireCommit, PaymentRow
<1>7. ASSUME UNCHANGED payment PROVE Outcome
  BY <1>7
<1> HIDE DEF Outcome
<1>8. ASSUME NEW h \in Handlers, Receive(h) \/ HandlerFails(h) PROVE Outcome
  BY <1>7, <1>8
  DEF Receive, CreateStart, OrderRead, VerifyRead, WebhookIgnore, WebhookRead,
      CancelRead, CompleteRead, RefundRead, HandlerFails
<1>9. ASSUME NEW h \in Handlers, Continue(h) PROVE Outcome
  BY <1>1, <1>4, <1>5, <1>7, <1>9
  DEF Continue, CreateConflict, CreateSchedule, OrderReuse, OrderCreate,
      VerifyConflict, WebhookBegin, WebhookDuplicate, WebhookConflict,
      WebhookNoEffect, ConfirmRemoveExpire, ConfirmAddOverdue, ConfirmNotify,
      CancelCommit, CancelRemoveExpire, CancelRemoveOverdue, CancelNotify,
      CompleteCommit, CompleteRemoveOverdue, RefundGateway
<1>10. ASSUME NEW b \in Bookings, Worker(b) \/ WorkerFails(b) PROVE Outcome
  BY <1>6, <1>7, <1>10
  DEF Worker, WorkerFails, ExpireStart, ExpireRead, ExpireFails, OverdueStart,
      OverdueRead, OverdueCommit, OverdueFails
<1>11. ASSUME Gateway \/ Tick \/ UNCHANGED vars PROVE Outcome
  BY <1>7, <1>11
  DEF Gateway, GatewayCapture, GatewayAttemptFails, GatewayUnrelated, Tick, vars
<1>12. Outcome
  BY <1>8, <1>9, <1>10, <1>11 DEF Next
<1> QED BY <1>12 DEF Outcome

\* A delivery that refuses a capture with the right amount has seen its payment
\* closed.
LEMMA RefusedIsClosed ==
  ASSUME ReservationInv, CaptureInv, NEW h \in Handlers, At(h, "webhook_tx"),
         req[h].ev.ok, ~AcceptsCapture(h)
  PROVE  payment[req[h].o].status \in Closed
<1>1. req[h].seenP \in PaymentStatus
  BY DEF CaptureInv, At, WebhookSteps, ReservationInv, TypeOK, Request, PaymentRowStatus
<1>2. req[h].seenP \in Closed
  BY <1>1
  DEF AcceptsCapture, canTransitionPayment, VALID_PAYMENT_TRANSITIONS, PaymentStatus,
      Closed
<1> QED BY <1>2 DEF CaptureInv, At, WebhookSteps

\* An event is recorded with what it does to the payment, or after it.
LEMMA RecordStep ==
  ASSUME ReservationInv, CaptureInv, [Next]_vars, NEW ev \in events' \ events
  PROVE  /\ ev \in sent
         /\ IsCapture(ev) /\ ev.ok => payment'[ev.order].status \in Closed
<1> DEFINE Outcome == /\ ev \in sent
                      /\ IsCapture(ev) /\ ev.ok => payment'[ev.order].status \in Closed
<1> USE DEF dbVars
<1>1. ASSUME NEW h \in Handlers, NEW e \in sent, WebhookIgnore(h, e) PROVE Outcome
  <2>1. e = ev
    BY <1>1 DEF WebhookIgnore
  <2>2. IsCapture(e) => e.order \in Orders /\ payment[e.order].status # "NONE"
    BY DEF ReservationInv, EventsAreTrue, RowsLinked, TypeOK
  <2> QED BY <1>1, <2>1, <2>2 DEF WebhookIgnore
<1>2. ASSUME NEW h \in Handlers, At(h, "webhook_tx"), RecordEvent(h),
             IsCapture(req[h].ev) /\ req[h].ev.ok => payment'[req[h].o].status \in Closed
      PROVE  Outcome
  <2>1. req[h].ev \in sent /\ req[h].ev.order = req[h].o
    BY <1>2 DEF At, ReservationInv, HandlerBound, WebhookSteps
  <2>2. ev = req[h].ev
    BY <1>2 DEF RecordEvent
  <2> QED BY <1>2, <2>1, <2>2
<1>3. ASSUME NEW h \in Handlers, WebhookConfirm(h) \/ WebhookFlag(h) PROVE Outcome
  <2>1. req[h].o \in Orders
    BY <1>3, WorksOn DEF WebhookConfirm, WebhookFlag, At, PaymentSteps, WebhookSteps
  <2>2. payment'[req[h].o].status \in Closed
    BY <1>3, <2>1, SucceedsRow DEF WebhookConfirm, WebhookFlag, Closed
  <2> QED BY <1>2, <1>3, <2>2 DEF WebhookConfirm, WebhookFlag
<1>4. ASSUME NEW h \in Handlers, WebhookFailed(h) \/ WebhookRefunded(h) PROVE Outcome
  <2>1. ~IsCapture(req[h].ev) /\ At(h, "webhook_tx") /\ RecordEvent(h)
    BY <1>4 DEF WebhookFailed, WebhookRefunded, IsCapture
  <2> QED BY <1>2, <2>1
<1>5. ASSUME NEW h \in Handlers, WebhookNoEffect(h) PROVE Outcome
  <2>1. At(h, "webhook_tx") /\ RecordEvent(h) /\ UNCHANGED payment
    BY <1>5 DEF WebhookNoEffect
  <2>2. IsCapture(req[h].ev) => ~AcceptsCapture(h)
    BY <1>5 DEF WebhookNoEffect, IsCapture
  <2> QED BY <1>2, <2>1, <2>2, RefusedIsClosed
<1>6. ASSUME UNCHANGED events PROVE FALSE
  BY <1>6
<1> HIDE DEF Outcome
<1>7. ASSUME NEW h \in Handlers, Receive(h) \/ HandlerFails(h) PROVE Outcome
  BY <1>1, <1>6, <1>7
  DEF Receive, CreateStart, OrderRead, VerifyRead, WebhookRead, CancelRead,
      CompleteRead, RefundRead, HandlerFails
<1>8. ASSUME NEW h \in Handlers, Continue(h) PROVE Outcome
  BY <1>3, <1>4, <1>5, <1>6, <1>8
  DEF Continue, CreateCommit, CreateConflict, CreateSchedule, OrderReuse, OrderCreate,
      OrderInsert, VerifyCommit, VerifyConflict, WebhookBegin, WebhookDuplicate,
      WebhookConflict, ConfirmRemoveExpire, ConfirmAddOverdue, ConfirmNotify,
      CancelCommit, CancelRemoveExpire, CancelRemoveOverdue, CancelNotify,
      CompleteCommit, CompleteRemoveOverdue, RefundGateway, RefundCommit
<1>9. ASSUME \/ \E b \in Bookings : Worker(b) \/ WorkerFails(b)
             \/ Gateway \/ Tick \/ UNCHANGED vars
      PROVE  Outcome
  BY <1>6, <1>9
  DEF Worker, WorkerFails, ExpireStart, ExpireRead, ExpireCommit, ExpireFails,
      OverdueStart, OverdueRead, OverdueCommit, OverdueFails, Gateway, GatewayCapture,
      GatewayAttemptFails, GatewayUnrelated, Tick, vars
<1>10. Outcome
  BY <1>7, <1>8, <1>9 DEF Next
<1> QED BY <1>10 DEF Outcome

\* The gateway does not take an event back.
LEMMA SentForGood ==
  ASSUME [Next]_vars
  PROVE  sent \subseteq sent'
<1> USE DEF gatewayVars
<1>1. ASSUME NEW h \in Handlers, Receive(h) \/ HandlerFails(h) PROVE sent \subseteq sent'
  BY <1>1
  DEF Receive, CreateStart, OrderRead, VerifyRead, WebhookIgnore, WebhookRead,
      CancelRead, CompleteRead, RefundRead, HandlerFails
<1>2. ASSUME NEW h \in Handlers, Continue(h) PROVE sent \subseteq sent'
  BY <1>2
  DEF Continue, CreateCommit, CreateConflict, CreateSchedule, OrderReuse, OrderCreate,
      OrderInsert, VerifyCommit, VerifyConflict, WebhookBegin, WebhookDuplicate,
      WebhookConfirm, WebhookConflict, WebhookFlag, WebhookFailed, WebhookRefunded,
      WebhookNoEffect, ConfirmRemoveExpire, ConfirmAddOverdue, ConfirmNotify,
      CancelCommit, CancelRemoveExpire, CancelRemoveOverdue, CancelNotify,
      CompleteCommit, CompleteRemoveOverdue, RefundGateway, RefundCommit
<1> QED
  BY <1>1, <1>2
  DEF Next, Worker, WorkerFails, Gateway, Tick, ExpireStart, ExpireRead, ExpireCommit,
      ExpireFails, OverdueStart, OverdueRead, OverdueCommit, OverdueFails,
      GatewayCapture, GatewayAttemptFails, GatewayUnrelated, vars

\* A delivery has read the payment, now or earlier.
LEMMA DeliveryStep ==
  ASSUME ReservationInv, [Next]_vars, NEW h \in Handlers, req'[h].pc \in WebhookSteps
  PROVE  \/ /\ req[h].pc \in WebhookSteps
            /\ req'[h].o = req[h].o /\ req'[h].seenP = req[h].seenP
         \/ /\ req'[h].o \in Orders /\ payment' = payment
            /\ payment[req'[h].o].status # "NONE"
            /\ req'[h].seenP = payment[req'[h].o].status
<1> DEFINE Outcome ==
         \/ /\ req[h].pc \in WebhookSteps
            /\ req'[h].o = req[h].o /\ req'[h].seenP = req[h].seenP
         \/ /\ req'[h].o \in Orders /\ payment' = payment
            /\ payment[req'[h].o].status # "NONE"
            /\ req'[h].seenP = payment[req'[h].o].status
<1> USE DEF WebhookSteps
<1>0. req \in [Handlers -> Request]
  BY DEF ReservationInv, TypeOK
<1>1. ASSUME req'[h] = req[h] PROVE Outcome
  BY <1>1
<1>2. ASSUME Return(h) PROVE FALSE
  BY <1>0, <1>2 DEF Return, Idle
<1>3. ASSUME NEW step \in Step \ WebhookSteps, Goto(h, step) PROVE FALSE
  <2>1. req'[h] = [req[h] EXCEPT !.pc = step]
    BY <1>3, GotoRow DEF ReservationInv
  <2> QED BY <1>0, <1>3, <2>1 DEF Request
<1>4. {"create_schedule", "confirm_rmExpire", "confirm_addOverdue", "confirm_notify",
       "cancel_rmExpire", "cancel_rmOverdue", "cancel_notify", "complete_rmOverdue",
       "refund_tx"} \subseteq Step \ WebhookSteps
  BY DEF Step
<1>5. ASSUME NEW o \in Orders, OrderCreate(h, o) PROVE FALSE
  BY <1>0, <1>5 DEF OrderCreate, Request
<1>6. ASSUME WebhookBegin(h) PROVE Outcome
  BY <1>0, <1>6 DEF WebhookBegin, Request, At
<1>7. ASSUME NEW ev \in sent, WebhookRead(h, ev) PROVE Outcome
  BY <1>0, <1>7 DEF WebhookRead, Idle, dbVars
<1>8. ASSUME NEW b \in Bookings,
             \/ OrderRead(h, b) \/ CancelRead(h, b) \/ CompleteRead(h, b)
             \/ \E o \in Orders : CreateStart(h, b, o)
      PROVE  FALSE
  BY <1>0, <1>8 DEF OrderRead, CancelRead, CompleteRead, CreateStart, Idle
<1>9. ASSUME NEW o \in Orders,
             VerifyRead(h, o) \/ \E amount \in 0..(Price + 1) : RefundRead(h, o, amount)
      PROVE  FALSE
  <2>1. ASSUME VerifyRead(h, o) PROVE FALSE
    BY <1>0, <2>1 DEF VerifyRead, Idle
  <2>2. ASSUME NEW amount \in 0..(Price + 1), RefundRead(h, o, amount) PROVE FALSE
    BY <1>0, <2>2 DEF RefundRead, Idle
  <2> QED BY <1>9, <2>1, <2>2
<1> HIDE DEF Outcome
<1>10. ASSUME Receive(h) PROVE Outcome
  BY <1>1, <1>7, <1>8, <1>9, <1>10 DEF Receive, WebhookIgnore
<1>11. ASSUME Continue(h) PROVE Outcome
  BY <1>2, <1>3, <1>4, <1>5, <1>6, <1>11
  DEF Continue, CreateCommit, CreateConflict, CreateSchedule, OrderReuse, OrderInsert,
      VerifyCommit, VerifyConflict, WebhookDuplicate, WebhookConfirm, WebhookConflict,
      WebhookFlag, WebhookFailed, WebhookRefunded, WebhookNoEffect,
      ConfirmRemoveExpire, ConfirmAddOverdue, ConfirmNotify, CancelCommit,
      CancelRemoveExpire, CancelRemoveOverdue, CancelNotify, CompleteCommit,
      CompleteRemoveOverdue, RefundGateway, RefundCommit
<1>12. ASSUME HandlerFails(h) PROVE FALSE
  BY <1>2, <1>12 DEF HandlerFails
<1>13. Outcome
  BY <1>1, <1>10, <1>11, <1>12, OneHandlerMoves
<1> QED BY <1>13 DEF Outcome

LEMMA CaptureStep ==
  ASSUME ReservationInv, CaptureInv, [Next]_vars
  PROVE  CaptureInv'
<1>1. ASSUME NEW o \in Orders, payment[o].status \in Closed
      PROVE  payment'[o].status \in Closed
  BY <1>1, PaymentStep DEF Closed
<1>2. ASSUME NEW ev \in events', IsCapture(ev), ev.ok
      PROVE  payment'[ev.order].status \in Closed
  <2>1. CASE ev \in events
    <3>1. ev.order \in Orders
      BY <1>2, <2>1 DEF CaptureInv, ReservationInv, EventsAreTrue, TypeOK
    <3>2. payment[ev.order].status \in Closed
      BY <1>2, <2>1 DEF CaptureInv, CaptureClosesOrder, Closed
    <3> QED BY <1>1, <3>1, <3>2
  <2> QED BY <1>2, <2>1, RecordStep
<1>3. events' \subseteq sent'
  BY RecordStep, SentForGood DEF CaptureInv
<1>4. ASSUME NEW h \in Handlers, req'[h].pc \in WebhookSteps
      PROVE  /\ req'[h].seenP # "NONE"
             /\ req'[h].seenP \in Closed => payment'[req'[h].o].status \in Closed
  <2>1. CASE /\ req[h].pc \in WebhookSteps
             /\ req'[h].o = req[h].o /\ req'[h].seenP = req[h].seenP
    <3>1. req[h].o \in Orders
      BY <2>1, WorksOn DEF PaymentSteps
    <3> QED BY <1>1, <2>1, <3>1 DEF CaptureInv
  <2> QED BY <1>4, <2>1, DeliveryStep
<1>5. CaptureClosesOrder'
  BY <1>2 DEF CaptureClosesOrder, Closed, IsCapture
<1> QED BY <1>3, <1>4, <1>5 DEF CaptureInv, Closed

\* Once a capture with the right amount has been processed its order is closed,
\* although the delivery decided on copies others may have changed by then
\* (the payment.captured and order.paid case of handleWebhookEvent).
THEOREM CapturesCloseOrders == Spec => []CaptureClosesOrder
<1>1. Init => CaptureInv
  BY DEF Init, CaptureInv, CaptureClosesOrder, Idle, WebhookSteps
<1>2. ReservationInv /\ CaptureInv /\ [Next]_vars => CaptureInv'
  BY CaptureStep
<1>3. CaptureInv => CaptureClosesOrder
  BY DEF CaptureInv
<1> QED BY <1>1, <1>2, <1>3, ReservationInvariance, PTL DEF Spec

-----------------------------------------------------------------------------
(* Bookings that have ended *)

\* Nobody writes a booking that has ended, but requests that read it before and
\* refunds.
LEMMA EndedStatus ==
  ASSUME ReservationInv, LifeInv, [Next]_vars, NEW b \in Bookings, Ended(b),
         \A h \in Handlers : ~Deciding(h, b), booking'[b].status # booking[b].status
  PROVE  /\ booking'[b].status = "CANCELLED"
         /\ \E h \in Handlers : At(h, "refund_tx") /\ req[h].b = b
<1> DEFINE Refunded == /\ booking'[b].status = "CANCELLED"
                       /\ \E h \in Handlers : At(h, "refund_tx") /\ req[h].b = b
<1> SUFFICES Refunded
  OBVIOUS
<1> USE DEF dbVars
<1>0. /\ booking \in [Bookings -> BookingRow]
      /\ booking[b].status \notin {"NONE", "PENDING_PAYMENT"}
  BY DEF ReservationInv, TypeOK, Ended
<1>1. ASSUME NEW c \in Bookings, NEW status \in BookingRowStatus,
             UpdateBookingStatus(c, status)
      PROVE  c = b /\ booking'[b].status = status
  BY <1>1, ConfirmsRow
<1>2. {"CANCELLED", "COMPLETED", "CONFIRMED", "EXPIRED"} \subseteq BookingRowStatus
  BY DEF BookingRowStatus, BookingStatus
<1>3. ASSUME NEW h \in Handlers, CreateCommit(h) PROVE FALSE
  <2>1. req[h].b \in Bookings /\ booking[req[h].b].status = "NONE"
    BY <1>3 DEF CreateCommit, At, ReservationInv, HandlerBound, LifeInv, HandlerLife
  <2>2. \A c \in Bookings \ {req[h].b} : booking'[c] = booking[c]
    BY <1>0, <1>3, <2>1 DEF CreateCommit
  <2> QED BY <1>0, <2>1, <2>2
<1>4. ASSUME NEW h \in Handlers, VerifyCommit(h) \/ WebhookConfirm(h) PROVE FALSE
  <2>1. req[h].b \in Bookings /\ UpdateBookingStatus(req[h].b, "CONFIRMED")
    BY <1>4, WorksOn DEF VerifyCommit, WebhookConfirm, At, PaymentSteps, WebhookSteps
  <2>2. req[h].b = b
    BY <1>1, <1>2, <2>1
  <2> QED BY <1>4, <2>2 DEF VerifyCommit, WebhookConfirm, At, Deciding
<1>5. ASSUME NEW h \in Handlers, CancelCommit(h) \/ CompleteCommit(h) PROVE FALSE
  <2>1. /\ req[h].b \in Bookings
        /\ \/ UpdateBookingStatus(req[h].b, "CANCELLED")
           \/ UpdateBookingStatus(req[h].b, "COMPLETED")
    BY <1>5 DEF CancelCommit, CompleteCommit, At, ReservationInv, HandlerBound
  <2>2. req[h].b = b
    BY <1>1, <1>2, <2>1
  <2> QED BY <1>5, <2>2 DEF CancelCommit, CompleteCommit, At, Deciding
<1>6. ASSUME NEW h \in Handlers, RefundCommit(h) PROVE Refunded
  <2>1. /\ req[h].b \in Bookings /\ At(h, "refund_tx")
        /\ UpdateBookingStatus(req[h].b, "CANCELLED") \/ UNCHANGED booking
    BY <1>6 DEF RefundCommit, At, ReservationInv, HandlerBound
  <2> QED BY <1>1, <1>2, <2>1
<1>7. ASSUME NEW h \in Handlers, OrderInsert(h) PROVE FALSE
  BY <1>0, <1>7 DEF OrderInsert, BookingRow
<1>8. ASSUME NEW h \in Handlers, Continue(h) PROVE Refunded
  <2>1. CASE UNCHANGED booking
    BY <2>1
  <2> HIDE DEF Refunded
  <2> QED
    BY <1>3, <1>4, <1>5, <1>6, <1>7, <1>8, <2>1
    DEF Continue, CreateConflict, CreateSchedule, OrderReuse, OrderCreate,
        VerifyConflict, WebhookBegin, WebhookDuplicate, WebhookConflict, WebhookFlag,
        WebhookFailed, WebhookRefunded, WebhookNoEffect, ConfirmRemoveExpire,
        ConfirmAddOverdue, ConfirmNotify, CancelRemoveExpire, CancelRemoveOverdue,
        CancelNotify, CompleteRemoveOverdue, RefundGateway
<1>9. ASSUME NEW c \in Bookings, ExpireCommit(c) PROVE FALSE
  BY <1>0, <1>1, <1>2, <1>9 DEF ExpireCommit, StillPending
<1>10. ASSUME NEW c \in Bookings, OverdueCommit(c) PROVE FALSE
  BY <1>0, <1>10 DEF OverdueCommit, BookingRow
<1>11. CASE UNCHANGED booking
  BY <1>11
<1>12. ASSUME NEW h \in Handlers, Receive(h) \/ HandlerFails(h) PROVE UNCHANGED booking
  BY <1>12
  DEF Receive, CreateStart, OrderRead, VerifyRead, WebhookIgnore, WebhookRead,
      CancelRead, CompleteRead, RefundRead, HandlerFails
<1> HIDE DEF Refunded
<1> QED
  BY <1>8, <1>9, <1>10, <1>11, <1>12
  DEF Next, Worker, WorkerFails, Gateway, Tick, ExpireStart, ExpireRead, ExpireFails,
      OverdueStart, OverdueRead, OverdueFails, GatewayCapture, GatewayAttemptFails,
      GatewayUnrelated, vars

\* Nobody who reads a booking that has ended goes on to write its status.
LEMMA NobodyDecides ==
  ASSUME ReservationInv, [Next]_vars, NEW b \in Bookings, Ended(b),
         \A h \in Handlers : ~Deciding(h, b), NEW g \in Handlers
  PROVE  ~Deciding(g, b)'
<1> DEFINE Deciders == {"cancel_tx", "complete_tx", "verify_tx", "webhook_tx"}
<1>0. req \in [Handlers -> Request] /\ TypeOK
  BY DEF ReservationInv, TypeOK
<1>1. CASE req'[g] = req[g]
  BY <1>1 DEF Deciding, At, BookingWasPending
<1>2. ASSUME req'[g].pc \notin Deciders PROVE ~Deciding(g, b)'
  BY <1>2 DEF Deciding, At
<1>3. CASE Receive(g)
  <2>1. ASSUME NEW c \in Bookings, NEW o \in Orders, CreateStart(g, c, o)
        PROVE  req'[g].pc \notin Deciders
    BY <1>0, <2>1 DEF CreateStart, Idle
  <2>2. ASSUME NEW c \in Bookings, OrderRead(g, c) PROVE req'[g].pc \notin Deciders
    BY <1>0, <2>2 DEF OrderRead, Idle
  <2>3. ASSUME NEW o \in Orders, VerifyRead(g, o) PROVE ~Deciding(g, b)'
    <3>1. req'[g].b = payment[o].booking /\ booking[payment[o].booking].status = "PENDING_PAYMENT"
      BY <1>0, <2>3 DEF VerifyRead, Idle
    <3> QED BY <3>1 DEF Ended, Deciding
  <2>4. ASSUME NEW ev \in sent, WebhookIgnore(g, ev) PROVE ~Deciding(g, b)'
    BY <1>1, <2>4 DEF WebhookIgnore
  <2>5. ASSUME NEW ev \in sent, WebhookRead(g, ev) PROVE req'[g].pc \notin Deciders
    BY <1>0, <2>5 DEF WebhookRead, Idle
  <2>6. ASSUME NEW c \in Bookings, CancelRead(g, c) \/ CompleteRead(g, c)
        PROVE  ~Deciding(g, b)'
    <3>1. /\ req'[g].b = c
          /\ \/ canTransitionBooking(booking[c].status, "CANCELLED")
             \/ canTransitionBooking(booking[c].status, "COMPLETED")
      BY <1>0, <2>6 DEF CancelRead, CompleteRead, Idle
    <3>2. c # b
      BY <3>1 DEF Ended, canTransitionBooking, VALID_BOOKING_TRANSITIONS, BookingStatus
    <3> QED BY <3>1, <3>2 DEF Deciding
  <2>7. ASSUME NEW o \in Orders, NEW amount \in 0..(Price + 1), RefundRead(g, o, amount)
        PROVE  req'[g].pc \notin Deciders
    BY <1>0, <2>7 DEF RefundRead, Idle
  <2> HIDE DEF Deciders
  <2> QED BY <1>2, <1>3, <2>1, <2>2, <2>3, <2>4, <2>5, <2>6, <2>7 DEF Receive
<1>4. CASE Continue(g)
  <2>1. ASSUME NEW step \in Step \ Deciders, Goto(g, step) PROVE req'[g].pc \notin Deciders
    <3>1. req'[g] = [req[g] EXCEPT !.pc = step]
      BY <1>0, <2>1, GotoRow
    <3> QED BY <1>0, <2>1, <3>1 DEF Request
  <2>2. ASSUME Return(g) PROVE req'[g].pc \notin Deciders
    BY <1>0, <2>2, ReturnRow DEF Idle
  <2>3. ASSUME NEW o \in Orders, OrderCreate(g, o) PROVE req'[g].pc \notin Deciders
    BY <1>0, <2>3 DEF OrderCreate, Request
  <2>4. CASE WebhookBegin(g)
    <3>1. req'[g].b = req[g].b /\ req'[g].seenB = booking[req[g].b].status
          /\ req'[g].pc = "webhook_tx"
      BY <1>0, <2>4 DEF WebhookBegin, Request
    <3> QED BY <3>1 DEF Ended, Deciding, At, BookingWasPending
  <2>5. {"create_schedule", "confirm_rmExpire", "confirm_addOverdue", "confirm_notify",
         "cancel_rmExpire", "cancel_rmOverdue", "cancel_notify", "complete_rmOverdue",
         "refund_tx"} \subseteq Step \ Deciders
    BY DEF Step
  <2> HIDE DEF Deciders
  <2>6. CASE \/ CreateCommit(g) \/ VerifyCommit(g) \/ WebhookConfirm(g)
             \/ ConfirmRemoveExpire(g) \/ ConfirmAddOverdue(g) \/ CancelCommit(g)
             \/ CancelRemoveExpire(g) \/ CancelRemoveOverdue(g) \/ CompleteCommit(g)
             \/ RefundGateway(g)
    BY <1>2, <2>1, <2>2, <2>5, <2>6
    DEF CreateCommit, VerifyCommit, WebhookConfirm, ConfirmRemoveExpire,
        ConfirmAddOverdue, CancelCommit, CancelRemoveExpire, CancelRemoveOverdue,
        CompleteCommit, RefundGateway
  <2>7. CASE Return(g)
    BY <1>2, <2>2, <2>7
  <2> QED
    BY <1>2, <1>4, <2>3, <2>4, <2>6, <2>7
    DEF Continue, CreateConflict, CreateSchedule, OrderReuse, OrderInsert,
        VerifyConflict, WebhookDuplicate, WebhookConflict, WebhookFlag,
        WebhookFailed, WebhookRefunded, WebhookNoEffect, ConfirmNotify,
        CancelNotify, CompleteRemoveOverdue, RefundCommit
<1>5. CASE HandlerFails(g)
  BY <1>0, <1>2, <1>5, ReturnRow DEF HandlerFails, Idle
<1>6. req'[g] = req[g] \/ Receive(g) \/ Continue(g) \/ HandlerFails(g)
  BY OneHandlerMoves
<1> QED BY <1>1, <1>3, <1>4, <1>5, <1>6

\* An end is overwritten only by requests that read the booking while it was
\* open: after them no request, webhook or job writes it, except that a refund
\* cancels it (cancelBookingAsCustomer, completeBooking, verifyClientPayment,
\* handleWebhookEvent).
THEOREM EndsAreFinal == Spec => EndIsFinal
<1> DEFINE A == \A b \in Bookings :
                  Ended(b) /\ ~(\E h \in Handlers : Deciding(h, b)) =>
                    /\ \A h \in Handlers : ~Deciding(h, b)'
                    /\ \/ booking'[b].status = booking[b].status
                       \/ /\ booking'[b].status = "CANCELLED"
                          /\ \E h \in Handlers : At(h, "refund_tx") /\ req[h].b = b
<1>1. ASSUME ReservationInv, LifeInv, [Next]_vars PROVE A
  BY <1>1, EndedStatus, NobodyDecides
<1> HIDE DEF A
<1>2. ReservationInv /\ LifeInv /\ [Next]_vars => [A]_vars
  BY <1>1
<1>3. Spec => [][A]_vars
  BY <1>2, ReservationInvariance, LifeInvariance, PTL DEF Spec
<1> QED BY <1>3 DEF A, EndIsFinal

=============================================================================
