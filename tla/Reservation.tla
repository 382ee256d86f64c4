----------------------------- MODULE Reservation -----------------------------
(***************************************************************************)
(* The reservation core of Service-hub: BookingService, PaymentService,    *)
(* the BullMQ booking queue with its processor, the PostgreSQL rows they   *)
(* share, and the Razorpay gateway as far as those services use it.        *)
(*                                                                         *)
(* Every HTTP request runs in a handler.  A handler step is what happens   *)
(* between two awaits that matter: a read outside the transaction, a read  *)
(* inside it, the commit, one call to the gateway, one call to the queue.  *)
(* What a handler read earlier is kept in seenB / seenP, because the code  *)
(* decides on those copies after other handlers have moved on.             *)
(*                                                                         *)
(* Prisma's $transaction runs at READ COMMITTED: a plain SELECT takes no   *)
(* lock, an UPDATE waits for the row and re-evaluates its own WHERE.  All  *)
(* writes of one transaction are therefore one step (the commit), and what *)
(* a transaction read before its first write is a step of its own.         *)
(***************************************************************************)
EXTENDS Integers, FiniteSets, StatusMachines

CONSTANTS
  Bookings,      \* booking rows that may come into existence
  Orders,        \* gateway orders; the payment row of an order has its name
  Handlers,      \* HTTP requests that may be in flight at once
  None,          \* no booking, no order, no event
  ProviderOf,    \* the provider a booking asks for
  StartOf,       \* appointment start of a booking
  EndOf,         \* appointment end of a booking
  PaymentWindow, \* 15 min: PAYMENT_EXPIRATION_DELAY_MS
  CancelLead,    \* 2 h: cancellationDeadlineMs
  Grace,         \* 2 h: gracePeriodMs of the overdue check
  Price,         \* bookedPrice, in units a refund may be split into
  Concurrency,   \* concurrency of the booking processor
  Attempts,      \* DEFAULT_RETRY_POLICY.attempts
  Requests,      \* the kinds of request this instance receives
  EventKinds,    \* the kinds of webhook event the gateway emits
  AmountMatches, \* possible outcomes of the amount and currency check
  MaxFaults,     \* bound: failures injected in one behaviour
  Horizon        \* bound: last value of the clock

ASSUME NoneAssumption == None \notin Bookings /\ None \notin Orders

ASSUME CalendarAssumption ==
  /\ StartOf \in [Bookings -> Nat]
  /\ EndOf \in [Bookings -> Nat]
  /\ \A b \in Bookings : StartOf[b] < EndOf[b]

ASSUME BoundsAssumption ==
  /\ PaymentWindow \in Nat /\ CancelLead \in Nat /\ Grace \in Nat
  /\ Price \in Nat /\ Attempts \in Nat \ {0} /\ Concurrency \in Nat \ {0}
  /\ MaxFaults \in Nat /\ Horizon \in Nat

Kinds == {"payment.captured", "order.paid", "payment.failed",
          "refund.processed", "payment.authorized"}

ASSUME InputAssumption ==
  EventKinds \subseteq Kinds /\ AmountMatches \subseteq BOOLEAN

VARIABLES
  now,        \* the clock every process reads
  booking,    \* table bookings
  payment,    \* table payments
  events,     \* table payment_webhook_events (committed, all processed)
  flagged,    \* orders with a REQUIRES_REFUND row in audit_logs
  expireJob,  \* queue "booking": expire-payment_<id>
  overdueJob, \* queue "booking": overdue-check_<id>
  reminders,  \* bookings with lifecycle notifications in the queue
  ordered,    \* gateway: orders created
  paid,       \* gateway: orders captured
  refunds,    \* gateway: accepted refunds of an order, number and total
  sent,       \* gateway: webhook events it delivers, any number of times
  req,        \* the handlers
  faults,     \* failures injected so far
  dropped     \* history: bookings whose queue entries were given up or withdrawn

dbVars      == <<booking, payment, events, flagged>>
queueVars   == <<expireJob, overdueJob, reminders, dropped>>
gatewayVars == <<ordered, paid, refunds, sent>>
vars == <<now, dbVars, queueVars, gatewayVars, req, faults>>

-----------------------------------------------------------------------------
(* Types and initial state *)

Event == [kind : Kinds, order : Orders \cup {None}, ok : BOOLEAN]

BookingRow == [status : BookingRowStatus, latest : Orders \cup {None},
               needsReview : BOOLEAN]

PaymentRow == [status : PaymentRowStatus, booking : Bookings \cup {None},
               gatewayPaymentId : BOOLEAN]

\* "updating" is an active job whose transaction has done its read.
JobState == {"none", "delayed", "active", "updating", "completed", "failed"}

Job == [state : JobState, due : Nat, attempts : Nat]

Step == {"idle",
         "create_tx", "create_schedule",
         "order_check", "order_insert",
         "verify_tx",
         "webhook_begin", "webhook_tx",
         "confirm_rmExpire", "confirm_addOverdue", "confirm_notify",
         "cancel_tx", "cancel_rmExpire", "cancel_rmOverdue", "cancel_notify",
         "complete_tx", "complete_rmOverdue",
         "refund_gateway", "refund_tx"}

Request == [pc : Step, b : Bookings \cup {None}, o : Orders \cup {None},
            ev : Event \cup {None}, seenB : BookingRowStatus,
            seenP : PaymentRowStatus, amount : Nat]

Idle == [pc |-> "idle", b |-> None, o |-> None, ev |-> None,
         seenB |-> "NONE", seenP |-> "NONE", amount |-> 0]

NoJob == [state |-> "none", due |-> 0, attempts |-> 0]

Init ==
  /\ now = 0
  /\ booking = [b \in Bookings |->
                  [status |-> "NONE", latest |-> None, needsReview |-> FALSE]]
  /\ payment = [o \in Orders |->
                  [status |-> "NONE", booking |-> None,
                   gatewayPaymentId |-> FALSE]]
  /\ events = {}
  /\ flagged = {}
  /\ expireJob = [b \in Bookings |-> NoJob]
  /\ overdueJob = [b \in Bookings |-> NoJob]
  /\ reminders = {}
  /\ ordered = {}
  /\ paid = {}
  /\ refunds = [o \in Orders |-> [count |-> 0, total |-> 0]]
  /\ sent = {}
  /\ req = [h \in Handlers |-> Idle]
  /\ faults = 0
  /\ dropped = {}

-----------------------------------------------------------------------------
(* Handlers and rows *)

At(h, step) == req[h].pc = step

Goto(h, step) == req' = [req EXCEPT ![h].pc = step]

\* The response is sent, or the request fails with an exception.
Return(h) == req' = [req EXCEPT ![h] = Idle]

\* A new request of the given kind is accepted by an idle handler.
Accepts(h, kind) == At(h, "idle") /\ kind \in Requests

Overlap(b, c) ==
  /\ ProviderOf[b] = ProviderOf[c]
  /\ StartOf[b] < EndOf[c]
  /\ StartOf[c] < EndOf[b]

\* The exclusion constraint, evaluated when a row enters a covered status.
\* (Mutant: the WHERE clause forgets confirmed bookings.)
SlotFreeOfPending(b) ==
  \A c \in Bookings \ {b} :
    booking[c].status = "PENDING_PAYMENT" => ~Overlap(b, c)

SlotFree(b) ==
  \A c \in Bookings \ {b} :
    booking[c].status \in HoldsSlot => ~Overlap(b, c)

\* bookingRepository.updateStatus: no condition on the current status.
UpdateBookingStatus(b, status) ==
  booking' = [booking EXCEPT ![b].status = status]

UpdatePaymentStatus(o, status) ==
  payment' = [payment EXCEPT ![o].status = status]

\* paymentRepository.updateStatus(SUCCESS, {gatewayPaymentId, paidAt}).
PaymentSucceeds(o) ==
  payment' = [payment EXCEPT ![o] =
                [@ EXCEPT !.status = "SUCCESS", !.gatewayPaymentId = TRUE]]

\* (Mutant: the receipt is taken for the order id and used again.)
ReuseGatewayOrder(o) == ordered' = ordered \cup {o}

\* IPaymentGateway.createOrder: a fresh order id.
CreateGatewayOrder(o) == o \notin ordered /\ ordered' = ordered \cup {o}

\* BullMQ refuses to remove a job that a worker has locked.
Locked(job) == job.state \in {"active", "updating"}

\* The entries of b in the queues were withdrawn, or a request ended before it
\* had made them.
Drop(b) == dropped' = dropped \cup {b}

\* The steps, after a commit, of a request that still has entries to make.
SchedulingSteps == {"create_schedule", "confirm_rmExpire", "confirm_addOverdue",
                    "confirm_notify"}

ConfirmSteps == SchedulingSteps \ {"create_schedule"}

-----------------------------------------------------------------------------
(* BookingService.createBooking *)

\* The checks on the offering, its provider and the shift are about tables
\* nobody here writes: a booking of this model has passed them.
CreateStart(h, b, o) ==
  /\ Accepts(h, "create")
  /\ booking[b].status = "NONE"
  /\ \A g \in Handlers : At(g, "create_tx") => req[g].b # b
  /\ now <= StartOf[b]
  /\ CreateGatewayOrder(o)
  /\ req' = [req EXCEPT ![h] =
               [Idle EXCEPT !.pc = "create_tx", !.b = b, !.o = o]]
  /\ UNCHANGED <<now, dbVars, queueVars, paid, refunds, sent, faults>>

CreateCommit(h) ==
  LET b == req[h].b
      o == req[h].o IN
  /\ At(h, "create_tx")
  /\ SlotFree(b)
  /\ booking' = [booking EXCEPT ![b] = [@ EXCEPT !.status = "PENDING_PAYMENT",
                                                 !.latest = o]]
  /\ payment' = [payment EXCEPT ![o] = [status |-> "CREATED", booking |-> b,
                                        gatewayPaymentId |-> FALSE]]
  /\ Goto(h, "create_schedule")
  /\ UNCHANGED <<now, events, flagged, queueVars, gatewayVars, faults>>

\* 23P01 becomes a ConflictException; the gateway order is left behind.
CreateConflict(h) ==
  /\ At(h, "create_tx")
  /\ ~SlotFree(req[h].b)
  /\ Return(h)
  /\ UNCHANGED <<now, dbVars, queueVars, gatewayVars, faults>>

CreateSchedule(h) ==
  /\ At(h, "create_schedule")
  /\ expireJob' = [expireJob EXCEPT ![req[h].b] =
                     [state |-> "delayed", due |-> now + PaymentWindow,
                      attempts |-> 0]]
  /\ Return(h)
  /\ UNCHANGED <<now, dbVars, overdueJob, reminders, dropped, gatewayVars,
                 faults>>

-----------------------------------------------------------------------------
(* PaymentService.createPaymentOrder *)

OrderRead(h, b) ==
  /\ Accepts(h, "order")
  /\ booking[b].status = "PENDING_PAYMENT"
  /\ req' = [req EXCEPT ![h] = [Idle EXCEPT !.pc = "order_check", !.b = b]]
  /\ UNCHANGED <<now, dbVars, queueVars, gatewayVars, faults>>

\* findByBookingId returns the newest payment of the booking.
OrderReuse(h) ==
  /\ At(h, "order_check")
  /\ payment[booking[req[h].b].latest].status = "CREATED"
  /\ Return(h)
  /\ UNCHANGED <<now, dbVars, queueVars, gatewayVars, faults>>

OrderCreate(h, o) ==
  /\ At(h, "order_check")
  /\ payment[booking[req[h].b].latest].status # "CREATED"
  /\ CreateGatewayOrder(o)
  /\ req' = [req EXCEPT ![h] = [@ EXCEPT !.pc = "order_insert", !.o = o]]
  /\ UNCHANGED <<now, dbVars, queueVars, paid, refunds, sent, faults>>

\* Outside any transaction: the booking may have left PENDING_PAYMENT.
OrderInsert(h) ==
  /\ At(h, "order_insert")
  /\ payment' = [payment EXCEPT ![req[h].o] =
                   [status |-> "CREATED", booking |-> req[h].b,
                    gatewayPaymentId |-> FALSE]]
  /\ booking' = [booking EXCEPT ![req[h].b].latest = req[h].o]
  /\ Return(h)
  /\ UNCHANGED <<now, events, flagged, queueVars, gatewayVars, faults>>

-----------------------------------------------------------------------------
(* PaymentService.verifyClientPayment *)

\* razor.gateway verifyPaymentSignature: only a captured order has a valid
\* signature.  (Mutant: the check is skipped.)
AnySignature(o) == TRUE

ValidSignature(o) == o \in paid

\* Payment and booking are read together, outside the transaction.
VerifyRead(h, o) ==
  LET b == payment[o].booking IN
  /\ Accepts(h, "verify")
  /\ payment[o].status # "NONE"
  /\ ValidSignature(o)
  /\ booking[b].status = "PENDING_PAYMENT"
  /\ canTransitionPayment(payment[o].status, "SUCCESS")
  /\ req' = [req EXCEPT ![h] =
               [Idle EXCEPT !.pc = "verify_tx", !.b = b, !.o = o]]
  /\ UNCHANGED <<now, dbVars, queueVars, gatewayVars, faults>>

VerifyCommit(h) ==
  /\ At(h, "verify_tx")
  /\ SlotFree(req[h].b)
  /\ PaymentSucceeds(req[h].o)
  /\ UpdateBookingStatus(req[h].b, "CONFIRMED")
  /\ Goto(h, "confirm_rmExpire")
  /\ UNCHANGED <<now, events, flagged, queueVars, gatewayVars, faults>>

\* The slot of a booking that stopped holding it has been taken meanwhile.
VerifyConflict(h) ==
  /\ At(h, "verify_tx")
  /\ ~SlotFree(req[h].b)
  /\ Return(h)
  /\ UNCHANGED <<now, dbVars, queueVars, gatewayVars, faults>>

-----------------------------------------------------------------------------
(* PaymentService.handleWebhookEvent *)

\* No order id in the payload, or no payment row for it: record and ignore.
WebhookIgnore(h, ev) ==
  /\ Accepts(h, "webhook")
  /\ ev \notin events
  /\ ev.order \in Orders => payment[ev.order].status = "NONE"
  /\ events' = events \cup {ev}
  /\ UNCHANGED <<now, booking, payment, flagged, queueVars, gatewayVars,
                 req, faults>>

\* The dedupe read and the read of the payment, outside the transaction.
WebhookRead(h, ev) ==
  /\ Accepts(h, "webhook")
  /\ ev \notin events
  /\ ev.order \in Orders
  /\ payment[ev.order].status # "NONE"
  /\ req' = [req EXCEPT ![h] =
               [Idle EXCEPT !.pc = "webhook_begin", !.ev = ev, !.o = ev.order,
                            !.b = payment[ev.order].booking,
                            !.seenP = payment[ev.order].status]]
  /\ UNCHANGED <<now, dbVars, queueVars, gatewayVars, faults>>

\* The insert into payment_webhook_events waits for an uncommitted row with
\* the same (gateway, eventId).  (Mutant: the unique index is missing.)
InsertsAlways(h) == TRUE

InsertNotBlocked(h) ==
  \A g \in Handlers \ {h} :
    At(g, "webhook_tx") => req[g].ev # req[h].ev

\* The event row is inserted, then the booking is read with a plain SELECT.
WebhookBegin(h) ==
  /\ At(h, "webhook_begin")
  /\ InsertNotBlocked(h)
  /\ req[h].ev \notin events
  /\ req' = [req EXCEPT ![h] = [@ EXCEPT !.pc = "webhook_tx",
                                         !.seenB = booking[req[h].b].status]]
  /\ UNCHANGED <<now, dbVars, queueVars, gatewayVars, faults>>

\* P2002: a concurrent duplicate committed first.
WebhookDuplicate(h) ==
  /\ At(h, "webhook_begin")
  /\ req[h].ev \in events
  /\ Return(h)
  /\ UNCHANGED <<now, dbVars, queueVars, gatewayVars, faults>>

\* (Mutant: the case label of payment.failed falls through.)
CaptureFallsThrough(ev) ==
  ev.kind \in {"payment.captured", "order.paid", "payment.failed"}

IsCapture(ev) == ev.kind \in {"payment.captured", "order.paid"}

\* The guards of the captured / order.paid case, on the payment read earlier.
\* (Mutant: the booking is one of them, and a late capture is not recorded.)
AcceptsForPending(h) ==
  /\ req[h].seenP # "SUCCESS"
  /\ canTransitionPayment(req[h].seenP, "SUCCESS")
  /\ req[h].ev.ok
  /\ req[h].seenB = "PENDING_PAYMENT"

AcceptsCapture(h) ==
  /\ req[h].seenP # "SUCCESS"
  /\ canTransitionPayment(req[h].seenP, "SUCCESS")
  /\ req[h].ev.ok

\* (Mutant: the payment's status is tested instead of the booking's.)
PaymentWasPending(h) == req[h].seenP = "PENDING"

\* isBookingPending, from the read inside the transaction.
BookingWasPending(h) == req[h].seenB = "PENDING_PAYMENT"

RecordEvent(h) == events' = events \cup {req[h].ev}

WebhookConfirm(h) ==
  /\ At(h, "webhook_tx")
  /\ IsCapture(req[h].ev) /\ AcceptsCapture(h) /\ BookingWasPending(h)
  /\ SlotFree(req[h].b)
  /\ UpdateBookingStatus(req[h].b, "CONFIRMED")
  /\ PaymentSucceeds(req[h].o)
  /\ RecordEvent(h)
  /\ Goto(h, "confirm_rmExpire")
  /\ UNCHANGED <<now, flagged, queueVars, gatewayVars, faults>>

\* The exclusion constraint rejects the update: the transaction rolls back,
\* the error is rethrown, and the gateway delivers the event again.
WebhookConflict(h) ==
  /\ At(h, "webhook_tx")
  /\ IsCapture(req[h].ev) /\ AcceptsCapture(h) /\ BookingWasPending(h)
  /\ ~SlotFree(req[h].b)
  /\ Return(h)
  /\ UNCHANGED <<now, dbVars, queueVars, gatewayVars, faults>>

\* "Flagged for refund": the money is recorded, the booking left alone.
WebhookFlag(h) ==
  /\ At(h, "webhook_tx")
  /\ IsCapture(req[h].ev) /\ AcceptsCapture(h) /\ ~BookingWasPending(h)
  /\ flagged' = flagged \cup {req[h].o}
  /\ PaymentSucceeds(req[h].o)
  /\ RecordEvent(h)
  /\ Return(h)
  /\ UNCHANGED <<now, booking, queueVars, gatewayVars, faults>>

WebhookFailed(h) ==
  /\ At(h, "webhook_tx")
  /\ req[h].ev.kind = "payment.failed" /\ req[h].seenP # "FAILED"
  /\ payment' = [payment EXCEPT ![req[h].o] =
                   [@ EXCEPT !.status = "FAILED", !.gatewayPaymentId = TRUE]]
  /\ RecordEvent(h)
  /\ Return(h)
  /\ UNCHANGED <<now, booking, flagged, queueVars, gatewayVars, faults>>

WebhookRefunded(h) ==
  /\ At(h, "webhook_tx")
  /\ req[h].ev.kind = "refund.processed" /\ req[h].seenP # "REFUNDED"
  /\ UpdatePaymentStatus(req[h].o, "REFUNDED")
  /\ RecordEvent(h)
  /\ Return(h)
  /\ UNCHANGED <<now, booking, flagged, queueVars, gatewayVars, faults>>

\* Every break without an effect, and the default case.
WebhookNoEffect(h) ==
  /\ At(h, "webhook_tx")
  /\ \/ IsCapture(req[h].ev) /\ ~AcceptsCapture(h)
     \/ req[h].ev.kind = "payment.failed" /\ req[h].seenP = "FAILED"
     \/ req[h].ev.kind = "refund.processed" /\ req[h].seenP = "REFUNDED"
     \/ req[h].ev.kind = "payment.authorized"
  /\ RecordEvent(h)
  /\ Return(h)
  /\ UNCHANGED <<now, booking, payment, flagged, queueVars, gatewayVars,
                 faults>>

-----------------------------------------------------------------------------
(* After a confirming commit, in verifyClientPayment and in the webhook *)

\* cancelPaymentExpiration: job.remove() throws while a worker holds the job,
\* and the rest of the post-commit work is lost with the exception.
\* (Mutant: the calls that follow are forgotten.)
RemoveExpireOnly(h) ==
  LET b == req[h].b IN
  /\ At(h, "confirm_rmExpire")
  /\ ~Locked(expireJob[b])
  /\ expireJob' = [expireJob EXCEPT ![b] = NoJob]
  /\ Return(h)
  /\ UNCHANGED <<now, dbVars, overdueJob, reminders, dropped, gatewayVars,
                 faults>>

ConfirmRemoveExpire(h) ==
  LET b == req[h].b IN
  /\ At(h, "confirm_rmExpire")
  /\ IF Locked(expireJob[b])
     THEN Return(h) /\ Drop(b) /\ UNCHANGED expireJob
     ELSE /\ expireJob' = [expireJob EXCEPT ![b] = NoJob]
          /\ Goto(h, "confirm_addOverdue")
          /\ UNCHANGED dropped
  /\ UNCHANGED <<now, dbVars, overdueJob, reminders, gatewayVars, faults>>

\* appointmentEnd + gracePeriodMs.  (Mutant: the grace period is dropped.)
OverdueAtEnd(b) == EndOf[b]

OverdueAt(b) == EndOf[b] + Grace

\* scheduleBookingOverdueCheck: only a positive delay is scheduled, and a job
\* id that is already in the queue is not added twice.
ConfirmAddOverdue(h) ==
  LET b == req[h].b IN
  /\ At(h, "confirm_addOverdue")
  /\ overdueJob' =
       IF OverdueAt(b) > now /\ overdueJob[b].state = "none"
       THEN [overdueJob EXCEPT ![b] = [state |-> "delayed",
                                       due |-> OverdueAt(b), attempts |-> 0]]
       ELSE overdueJob
  /\ Goto(h, "confirm_notify")
  /\ UNCHANGED <<now, dbVars, expireJob, reminders, dropped, gatewayVars, faults>>

\* scheduleBookingLifecycleNotifications
ConfirmNotify(h) ==
  /\ At(h, "confirm_notify")
  /\ reminders' = reminders \cup {req[h].b}
  /\ Return(h)
  /\ UNCHANGED <<now, dbVars, expireJob, overdueJob, dropped, gatewayVars, faults>>

-----------------------------------------------------------------------------
(* BookingService.cancelBookingAsCustomer *)

CancelRead(h, b) ==
  /\ Accepts(h, "cancel")
  /\ canTransitionBooking(booking[b].status, "CANCELLED")
  /\ now < StartOf[b] - CancelLead
  /\ req' = [req EXCEPT ![h] = [Idle EXCEPT !.pc = "cancel_tx", !.b = b]]
  /\ UNCHANGED <<now, dbVars, queueVars, gatewayVars, faults>>

CancelCommit(h) ==
  /\ At(h, "cancel_tx")
  /\ UpdateBookingStatus(req[h].b, "CANCELLED")
  /\ Goto(h, "cancel_rmExpire")
  /\ UNCHANGED <<now, payment, events, flagged, queueVars, gatewayVars, faults>>

CancelRemoveExpire(h) ==
  LET b == req[h].b IN
  /\ At(h, "cancel_rmExpire")
  /\ IF Locked(expireJob[b])
     THEN Return(h) /\ UNCHANGED expireJob
     ELSE /\ expireJob' = [expireJob EXCEPT ![b] = NoJob]
          /\ Goto(h, "cancel_rmOverdue")
  /\ UNCHANGED <<now, dbVars, overdueJob, reminders, dropped, gatewayVars,
                 faults>>

CancelRemoveOverdue(h) ==
  LET b == req[h].b IN
  /\ At(h, "cancel_rmOverdue")
  /\ IF Locked(overdueJob[b])
     THEN Return(h) /\ UNCHANGED <<overdueJob, dropped>>
     ELSE /\ overdueJob' = [overdueJob EXCEPT ![b] = NoJob]
          /\ Drop(b)
          /\ Goto(h, "cancel_notify")
  /\ UNCHANGED <<now, dbVars, expireJob, reminders, gatewayVars, faults>>

\* cancelBookingReminders
CancelNotify(h) ==
  /\ At(h, "cancel_notify")
  /\ reminders' = reminders \ {req[h].b}
  /\ Drop(req[h].b)
  /\ Return(h)
  /\ UNCHANGED <<now, dbVars, expireJob, overdueJob, gatewayVars, faults>>

-----------------------------------------------------------------------------
(* BookingService.completeBooking *)

CompleteRead(h, b) ==
  /\ Accepts(h, "complete")
  /\ canTransitionBooking(booking[b].status, "COMPLETED")
  /\ req' = [req EXCEPT ![h] = [Idle EXCEPT !.pc = "complete_tx", !.b = b]]
  /\ UNCHANGED <<now, dbVars, queueVars, gatewayVars, faults>>

CompleteCommit(h) ==
  /\ At(h, "complete_tx")
  /\ UpdateBookingStatus(req[h].b, "COMPLETED")
  /\ Goto(h, "complete_rmOverdue")
  /\ UNCHANGED <<now, payment, events, flagged, queueVars, gatewayVars, faults>>

CompleteRemoveOverdue(h) ==
  LET b == req[h].b IN
  /\ At(h, "complete_rmOverdue")
  /\ IF Locked(overdueJob[b])
     THEN UNCHANGED <<overdueJob, dropped>>
     ELSE overdueJob' = [overdueJob EXCEPT ![b] = NoJob] /\ Drop(b)
  /\ Return(h)
  /\ UNCHANGED <<now, dbVars, expireJob, reminders, gatewayVars, faults>>

-----------------------------------------------------------------------------
(* PaymentService.refundPayment *)

\* Payment and booking are read together, outside the transaction.
RefundRead(h, o, amount) ==
  LET b == payment[o].booking IN
  /\ Accepts(h, "refund")
  /\ payment[o].status = "SUCCESS"
  /\ amount > 0 /\ amount <= Price
  /\ payment[o].gatewayPaymentId
  /\ req' = [req EXCEPT ![h] =
               [Idle EXCEPT !.pc = "refund_gateway", !.b = b, !.o = o,
                            !.seenB = booking[b].status, !.amount = amount]]
  /\ UNCHANGED <<now, dbVars, queueVars, gatewayVars, faults>>

RefundEvents(o) ==
  {[kind |-> "refund.processed", order |-> o, ok |-> TRUE]}

\* createRefund accepts whatever it is asked for: the only guards are the ones
\* of refundPayment, on the payment row it read before.
RefundGateway(h) ==
  LET o == req[h].o
      a == req[h].amount IN
  /\ At(h, "refund_gateway")
  /\ refunds' = [refunds EXCEPT ![o] = [count |-> refunds[o].count + 1,
                                        total |-> refunds[o].total + a]]
  /\ sent' = sent \cup {ev \in RefundEvents(o) : ev.kind \in EventKinds}
  /\ Goto(h, "refund_tx")
  /\ UNCHANGED <<now, dbVars, queueVars, ordered, paid, faults>>

\* The booking is cancelled unless it was when the request began.
RefundCommit(h) ==
  /\ At(h, "refund_tx")
  /\ UpdatePaymentStatus(req[h].o, "REFUNDED")
  /\ IF req[h].seenB # "CANCELLED"
     THEN UpdateBookingStatus(req[h].b, "CANCELLED")
     ELSE UNCHANGED booking
  /\ Return(h)
  /\ UNCHANGED <<now, events, flagged, queueVars, gatewayVars, faults>>

-----------------------------------------------------------------------------
(* BookingProcessor: expireBooking and flagOverdueBooking *)

BusyWorkers == Cardinality({b \in Bookings : Locked(expireJob[b])})
                 + Cardinality({b \in Bookings : Locked(overdueJob[b])})

Due(job) == job.state = "delayed" /\ job.due <= now

ExpireStart(b) ==
  /\ Due(expireJob[b])
  /\ BusyWorkers < Concurrency
  /\ expireJob' = [expireJob EXCEPT ![b].state = "active"]
  /\ UNCHANGED <<now, dbVars, overdueJob, reminders, dropped, gatewayVars, req,
                 faults>>

\* The in-transaction read: any other status is an idempotent skip.
ExpireRead(b) ==
  /\ expireJob[b].state = "active"
  /\ expireJob' = [expireJob EXCEPT ![b].state =
                     IF booking[b].status = "PENDING_PAYMENT"
                     THEN "updating" ELSE "completed"]
  /\ UNCHANGED <<now, dbVars, overdueJob, reminders, dropped, gatewayVars, req,
                 faults>>

\* The WHERE clause of the conditional updateMany, re-evaluated on the locked
\* row.  (Mutant: update by id alone.)
UpdatesById(b) == TRUE

StillPending(b) == booking[b].status = "PENDING_PAYMENT"

\* Lingering CREATED and PENDING payments fail with the booking.
ExpireCommit(b) ==
  /\ expireJob[b].state = "updating"
  /\ IF StillPending(b)
     THEN /\ UpdateBookingStatus(b, "EXPIRED")
          /\ payment' = [o \in Orders |->
               IF payment[o].booking = b
                    /\ payment[o].status \in {"CREATED", "PENDING"}
               THEN [payment[o] EXCEPT !.status = "FAILED"]
               ELSE payment[o]]
     ELSE UNCHANGED <<booking, payment>>
  /\ expireJob' = [expireJob EXCEPT ![b].state = "completed"]
  /\ UNCHANGED <<now, events, flagged, overdueJob, reminders, dropped,
                 gatewayVars, req, faults>>

\* The retry policy: attempts, then the failed set.  (Mutant: one attempt.)
NeverRetry(job) ==
  [job EXCEPT !.attempts = @ + 1, !.state = "failed"]

AttemptFailed(job) ==
  [job EXCEPT !.attempts = @ + 1,
              !.state = IF job.attempts + 1 < Attempts
                        THEN "delayed" ELSE "failed"]

\* The transaction throws (a deadlock victim, a lost connection): nothing is
\* committed and the processor rethrows.
ExpireFails(b) ==
  /\ Locked(expireJob[b])
  /\ faults < MaxFaults
  /\ expireJob' = [expireJob EXCEPT ![b] = AttemptFailed(expireJob[b])]
  /\ faults' = faults + 1
  /\ UNCHANGED <<now, dbVars, overdueJob, reminders, dropped, gatewayVars, req>>

OverdueStart(b) ==
  /\ Due(overdueJob[b])
  /\ BusyWorkers < Concurrency
  /\ overdueJob' = [overdueJob EXCEPT ![b].state = "active"]
  /\ UNCHANGED <<now, dbVars, expireJob, reminders, dropped, gatewayVars, req,
                 faults>>

OverdueRead(b) ==
  /\ overdueJob[b].state = "active"
  /\ overdueJob' = [overdueJob EXCEPT ![b].state =
                      IF booking[b].status = "CONFIRMED"
                           /\ ~booking[b].needsReview
                      THEN "updating" ELSE "completed"]
  /\ UNCHANGED <<now, dbVars, expireJob, reminders, dropped, gatewayVars, req,
                 faults>>

\* The WHERE clause of the flagging updateMany.  (Mutant: by id alone.)
FlagsById(b) == TRUE

StillConfirmed(b) ==
  booking[b].status = "CONFIRMED" /\ ~booking[b].needsReview

OverdueCommit(b) ==
  /\ overdueJob[b].state = "updating"
  /\ booking' = IF StillConfirmed(b)
                THEN [booking EXCEPT ![b].needsReview = TRUE]
                ELSE booking
  /\ overdueJob' = [overdueJob EXCEPT ![b].state = "completed"]
  /\ UNCHANGED <<now, payment, events, flagged, expireJob, reminders, dropped,
                 gatewayVars, req, faults>>

OverdueFails(b) ==
  /\ Locked(overdueJob[b])
  /\ faults < MaxFaults
  /\ overdueJob' = [overdueJob EXCEPT ![b] = AttemptFailed(overdueJob[b])]
  /\ faults' = faults + 1
  /\ UNCHANGED <<now, dbVars, expireJob, reminders, dropped, gatewayVars, req>>

-----------------------------------------------------------------------------
(* The gateway's own steps, the clock, and failures *)

Emits(kinds, o, ok) ==
  {[kind |-> k, order |-> o, ok |-> ok] : k \in kinds \cap EventKinds}

\* The customer pays an order the services handed out; orders do not expire.
GatewayCapture(o, ok) ==
  /\ payment[o].status # "NONE" /\ o \notin paid
  /\ paid' = paid \cup {o}
  /\ sent' = sent \cup Emits({"payment.captured", "order.paid"}, o, ok)
  /\ UNCHANGED <<now, dbVars, queueVars, ordered, refunds, req, faults>>

\* An attempt fails; the order stays open for another one.
GatewayAttemptFails(o) ==
  /\ payment[o].status # "NONE" /\ o \notin paid
  /\ Emits({"payment.failed"}, o, TRUE) \ sent # {}
  /\ sent' = sent \cup Emits({"payment.failed"}, o, TRUE)
  /\ UNCHANGED <<now, dbVars, queueVars, ordered, paid, refunds, req, faults>>

\* An event about something these services do not know.
GatewayUnrelated(o) ==
  /\ Emits({"payment.authorized"}, o, TRUE) \ sent # {}
  /\ sent' = sent \cup Emits({"payment.authorized"}, o, TRUE)
  /\ UNCHANGED <<now, dbVars, queueVars, ordered, paid, refunds, req, faults>>

Tick ==
  /\ now < Horizon
  /\ now' = now + 1
  /\ UNCHANGED <<dbVars, queueVars, gatewayVars, req, faults>>

\* A crash, a lost connection or an aborted transaction ends the request at
\* any await; the steps already taken stay taken.
HandlerFails(h) ==
  /\ ~At(h, "idle")
  /\ faults < MaxFaults
  /\ faults' = faults + 1
  /\ IF req[h].pc \in SchedulingSteps THEN Drop(req[h].b) ELSE UNCHANGED dropped
  /\ Return(h)
  /\ UNCHANGED <<now, dbVars, expireJob, overdueJob, reminders, gatewayVars>>

-----------------------------------------------------------------------------
(* The next-state relation *)

Receive(h) ==
  \/ \E b \in Bookings, o \in Orders : CreateStart(h, b, o)
  \/ \E b \in Bookings : OrderRead(h, b)
  \/ \E o \in Orders : VerifyRead(h, o)
  \/ \E ev \in sent : WebhookIgnore(h, ev)
  \/ \E ev \in sent : WebhookRead(h, ev)
  \/ \E b \in Bookings : CancelRead(h, b)
  \/ \E b \in Bookings : CompleteRead(h, b)
  \/ \E o \in Orders, amount \in 0..(Price + 1) : RefundRead(h, o, amount)

Continue(h) ==
  \/ CreateCommit(h) \/ CreateConflict(h) \/ CreateSchedule(h)
  \/ OrderReuse(h) \/ (\E o \in Orders : OrderCreate(h, o)) \/ OrderInsert(h)
  \/ VerifyCommit(h) \/ VerifyConflict(h)
  \/ WebhookBegin(h) \/ WebhookDuplicate(h)
  \/ WebhookConfirm(h) \/ WebhookConflict(h) \/ WebhookFlag(h)
  \/ WebhookFailed(h) \/ WebhookRefunded(h) \/ WebhookNoEffect(h)
  \/ ConfirmRemoveExpire(h) \/ ConfirmAddOverdue(h) \/ ConfirmNotify(h)
  \/ CancelCommit(h) \/ CancelRemoveExpire(h) \/ CancelRemoveOverdue(h)
  \/ CancelNotify(h)
  \/ CompleteCommit(h) \/ CompleteRemoveOverdue(h)
  \/ RefundGateway(h) \/ RefundCommit(h)

Worker(b) ==
  \/ ExpireStart(b) \/ ExpireRead(b) \/ ExpireCommit(b)
  \/ OverdueStart(b) \/ OverdueRead(b) \/ OverdueCommit(b)

WorkerFails(b) == ExpireFails(b) \/ OverdueFails(b)

Gateway ==
  \/ \E o \in Orders, ok \in AmountMatches : GatewayCapture(o, ok)
  \/ \E o \in Orders : GatewayAttemptFails(o)
  \/ \E o \in Orders \cup {None} : GatewayUnrelated(o)

Next ==
  \/ \E h \in Handlers : Receive(h) \/ Continue(h) \/ HandlerFails(h)
  \/ \E b \in Bookings : Worker(b) \/ WorkerFails(b)
  \/ Gateway
  \/ Tick

Spec == Init /\ [][Next]_vars

\* An event loop keeps running what it has accepted, the workers keep polling
\* and time passes.  Clients, the gateway and failures owe nothing.
Fairness ==
  /\ \A h \in Handlers : WF_vars(Continue(h))
  /\ \A b \in Bookings : WF_vars(Worker(b))
  /\ WF_vars(Tick)

FairSpec == Spec /\ Fairness

-----------------------------------------------------------------------------
(* Correctness *)

\* Types of every table, queue, gateway record and handler.
TypeOK ==
  /\ now \in 0..Horizon
  /\ booking \in [Bookings -> BookingRow]
  /\ payment \in [Orders -> PaymentRow]
  /\ events \subseteq Event
  /\ flagged \subseteq Orders
  /\ expireJob \in [Bookings -> Job]
  /\ overdueJob \in [Bookings -> Job]
  /\ reminders \subseteq Bookings
  /\ ordered \subseteq Orders
  /\ paid \subseteq Orders
  /\ refunds \in [Orders -> [count : Nat, total : Nat]]
  /\ sent \subseteq Event
  /\ req \in [Handlers -> Request]
  /\ faults \in 0..MaxFaults
  /\ dropped \subseteq Bookings

\* Two bookings that hold their slots never overlap at one provider, also when
\* a late payment confirms a booking whose slot was released in between
\* (createBooking, verifyClientPayment and handleWebhookEvent all rely on the
\* exclusion constraint alone).
NoDoubleBooking ==
  \A b, c \in Bookings :
    b # c /\ booking[b].status \in HoldsSlot /\ booking[c].status \in HoldsSlot
      => ~Overlap(b, c)

WasPaid(b) == \E o \in paid : payment[o].booking = b

\* A booking is CONFIRMED or COMPLETED only if the gateway captured an order
\* of that very booking, whichever of verifyClientPayment, the webhook and
\* completeBooking wrote the status, and on whatever copy they decided.
ConfirmedWasPaid ==
  \A b \in Bookings :
    booking[b].status \in {"CONFIRMED", "COMPLETED"} => WasPaid(b)

\* The payment rows never claim money movements that did not happen: SUCCESS
\* and REFUNDED rows belong to captured orders, and a REFUNDED row to an order
\* for which the gateway accepted a refund (refundPayment calls the gateway
\* before its transaction, the webhook reconciles after it).
LedgerIsTrue ==
  \A o \in Orders :
    /\ payment[o].status \in {"SUCCESS", "REFUNDED"} => o \in paid
    /\ payment[o].status = "REFUNDED" => refunds[o].count > 0

\* At most one delivery of a webhook event is past the insert of its event
\* row, and never one whose row is already committed: the effects of an event
\* are applied once, however often and concurrently it is delivered.
EventAppliedOnce ==
  \A h \in Handlers :
    At(h, "webhook_tx") =>
      /\ req[h].ev \notin events
      /\ \A g \in Handlers \ {h} :
           At(g, "webhook_tx") => req[g].ev # req[h].ev

\* expireBooking never overwrites an outcome: a booking becomes EXPIRED only
\* from PENDING_PAYMENT, even when it was confirmed or cancelled between the
\* worker's read and its update, and no payment of it is left open.
ExpiryNeverOverwrites ==
  [][\A b \in Bookings :
       booking'[b].status = "EXPIRED" /\ booking[b].status # "EXPIRED" =>
         /\ booking[b].status = "PENDING_PAYMENT"
         /\ \A o \in Orders :
              payment[o].booking = b =>
                payment'[o].status \notin {"CREATED", "PENDING"}]_vars

\* A request is about to write the status of b, on a copy of it that was open.
Deciding(h, b) ==
  /\ req[h].b = b
  /\ \/ req[h].pc \in {"cancel_tx", "complete_tx", "verify_tx"}
     \/ At(h, "webhook_tx") /\ BookingWasPending(h)

Ended(b) == booking[b].status \in {"COMPLETED", "CANCELLED", "EXPIRED"}

\* A booking that has ended is overwritten by requests that read it before it
\* ended, and by nobody once these are through: no cancellation, completion,
\* verification or webhook gets as far as to write it again, however many jobs
\* and deliveries are left, and its status changes no more except to CANCELLED
\* when an administrator refunds it (the reads and the transition table before
\* every updateStatus by id).
EndIsFinal ==
  [][\A b \in Bookings :
       Ended(b) /\ ~(\E h \in Handlers : Deciding(h, b)) =>
         /\ \A h \in Handlers : ~Deciding(h, b)'
         /\ \/ booking'[b].status = booking[b].status
            \/ /\ booking'[b].status = "CANCELLED"
               /\ \E h \in Handlers : At(h, "refund_tx") /\ req[h].b = b]_vars

\* flagOverdueBooking raises needsReview only on a booking that is CONFIRMED
\* at that moment and whose end plus grace period has passed, although the
\* job was scheduled long before and may race completion and cancellation.
ReviewOnlyWhenOverdue ==
  [][\A b \in Bookings :
       booking'[b].needsReview /\ ~booking[b].needsReview =>
         booking[b].status = "CONFIRMED" /\ now >= EndOf[b] + Grace]_vars

\* A REQUIRES_REFUND flag is only ever raised for money the gateway captured
\* and a booking that is past PENDING_PAYMENT: no flagged booking can still be
\* expired or confirmed by a fresh request.
FlaggedMoneyIsCaptured ==
  \A o \in flagged :
    /\ o \in paid
    /\ booking[payment[o].booking].status \notin {"NONE", "PENDING_PAYMENT"}

\* Once the webhook of a capture with the right amount has been processed, its
\* order is never open again, so that createPaymentOrder does not hand it out
\* to be paid a second time: whatever became of the booking, and although the
\* delivery decided on copies that others had changed by then.
CaptureClosesOrder ==
  \A ev \in events :
    IsCapture(ev) /\ ev.ok =>
      payment[ev.order].status \in {"SUCCESS", "FAILED", "REFUNDED"}

\* An unpaid reservation is guarded by its expiration job, which is waiting, at
\* work, or has used up its attempts, or is about to be added: only a request
\* that ended between the commit of createBooking and schedulePaymentExpiration
\* leaves one without.  In particular no confirmation or cancellation ever
\* takes the job away from a booking that stays unpaid.
UnpaidIsGuarded ==
  \A b \in Bookings :
    booking[b].status = "PENDING_PAYMENT" =>
      \/ expireJob[b].state \in {"delayed", "active", "updating"}
      \/ expireJob[b].state = "failed" /\ expireJob[b].attempts = Attempts
      \/ \E h \in Handlers : At(h, "create_schedule") /\ req[h].b = b
      \/ b \in dropped

\* The post-commit work of a confirmation is done: b has its notifications and,
\* until it is overdue, the check for that is waiting in the queue.
FollowedUp(b) ==
  /\ b \in reminders
  /\ now < EndOf[b] + Grace => overdueJob[b].state = "delayed"

\* A CONFIRMED booking is followed up, whichever of verifyClientPayment and the
\* webhook, or both at once, confirmed it, unless a confirming request is still
\* at it, or gave up (it stopped, or job.remove() threw while the worker held
\* the expiration job), or a cancellation or completion withdrew the entries.
ConfirmedIsFollowedUp ==
  \A b \in Bookings :
    booking[b].status = "CONFIRMED" =>
      \/ FollowedUp(b)
      \/ \E h \in Handlers : req[h].pc \in ConfirmSteps /\ req[h].b = b
      \/ b \in dropped

\* What createBooking promises once its expiration job is in the queue: the
\* reservation does not stay unpaid for ever (expireBooking, with the retry
\* policy behind it).
ScheduledReservationEnds ==
  \A b \in Bookings :
    (booking[b].status = "PENDING_PAYMENT" /\ expireJob[b].state # "none")
      ~> (booking[b].status # "PENDING_PAYMENT")

\* A CONFIRMED booking whose overdue check is queued does not stay unattended:
\* it is completed, cancelled or flagged, or its check is taken out of the
\* queue, although attempts may fail (flagOverdueBooking, the retry policy).
OverdueIsFlagged ==
  \A b \in Bookings :
    (booking[b].status = "CONFIRMED" /\ overdueJob[b].state = "delayed")
      ~> \/ booking[b].status # "CONFIRMED" \/ booking[b].needsReview
         \/ overdueJob[b].state = "none"

-----------------------------------------------------------------------------
(* The bookings table as a calendar of slots *)

Held == {b \in Bookings : booking[b].status \in HoldsSlot}

ConflictPairs == {p \in Bookings \X Bookings : Overlap(p[1], p[2])}

Calendar == INSTANCE SlotCalendar WITH held <- Held, Conflicts <- ConflictPairs

\* Creating, confirming, cancelling, completing, refunding and expiring, from
\* stale copies or fresh ones, only ever grant a free slot to one booking or
\* release the slot of one booking.
ImplementsCalendar == Calendar!Spec

-----------------------------------------------------------------------------
(* The inductive strengthening of LedgerIsTrue and ConfirmedWasPaid *)

\* Steps of a handler that is about to insert a payment row for its order.
InsertingSteps == {"create_tx", "order_insert"}

WebhookSteps == {"webhook_begin", "webhook_tx"}

\* Steps of a handler that works on an existing payment row.
PaymentSteps == WebhookSteps \cup {"verify_tx", "refund_gateway", "refund_tx"}

\* A payment row belongs to an order of the gateway and to a booking, and only
\* orders with a row are ever paid.
RowsLinked ==
  /\ \A o \in Orders : payment[o].status # "NONE" =>
       o \in ordered /\ payment[o].booking \in Bookings
  /\ \A o \in paid : payment[o].status # "NONE"

\* Webhook events report what happened at the gateway.
EventsAreTrue ==
  \A ev \in sent :
    /\ IsCapture(ev) => ev.order \in paid
    /\ ev.kind = "refund.processed" =>
         ev.order \in paid /\ refunds[ev.order].count > 0

\* What a handler has read, or has been told, stays usable until it commits.
HandlerBound(h) ==
  /\ req[h].pc # "idle" => req[h].b \in Bookings
  /\ req[h].pc \in InsertingSteps =>
       req[h].o \in ordered /\ payment[req[h].o].status = "NONE"
  /\ req[h].pc \in PaymentSteps =>
       /\ req[h].o \in Orders
       /\ payment[req[h].o].status # "NONE"
       /\ payment[req[h].o].booking = req[h].b
  /\ req[h].pc \in WebhookSteps =>
       req[h].ev \in sent /\ req[h].ev.order = req[h].o
  /\ req[h].pc \in {"verify_tx", "refund_gateway", "refund_tx"} =>
       req[h].o \in paid
  /\ req[h].pc = "refund_tx" => refunds[req[h].o].count > 0
  /\ req[h].pc = "complete_tx" => WasPaid(req[h].b)

\* Two handlers never insert a payment row for the same order.
InsertsDistinct ==
  \A g, h \in Handlers :
    g # h /\ req[g].pc \in InsertingSteps /\ req[h].pc \in InsertingSteps
      => req[g].o # req[h].o

\* The inductive invariant behind ConfirmedWasPaid and LedgerIsTrue: what the
\* handlers of verifyClientPayment, handleWebhookEvent, refundPayment and
\* completeBooking carry from their reads to their commits is still true.
ReservationInv ==
  /\ TypeOK
  /\ RowsLinked
  /\ EventsAreTrue
  /\ \A h \in Handlers : HandlerBound(h)
  /\ InsertsDistinct
  /\ LedgerIsTrue
  /\ ConfirmedWasPaid

-----------------------------------------------------------------------------
(* What the repository says of itself and the code does not guarantee *)

\* payment.service.ts, webhook: a booking that is EXPIRED or CANCELLED is not
\* resurrected.
NoResurrection ==
  [][\A b \in Bookings :
       booking[b].status \in {"EXPIRED", "CANCELLED"} =>
         booking'[b].status # "CONFIRMED"]_vars

\* payment.service.ts, refundPayment: "Prevent double refunds".
SingleRefund == \A o \in Orders : refunds[o].count <= 1

\* Once the webhook of a capture with the right amount has been processed, the
\* payment row says so (financial truth), whatever became of the booking.
CaptureIsAccounted ==
  \A ev \in events :
    IsCapture(ev) /\ ev.ok /\ ev.order \in paid =>
      payment[ev.order].status \in {"SUCCESS", "REFUNDED"}

=============================================================================
