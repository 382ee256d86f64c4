------------------------------ MODULE RowLocks ------------------------------
(***************************************************************************)
(* The transactions of BookingService and PaymentService at the level of   *)
(* the row locks they take, one UPDATE or INSERT at a time.  Reservation   *)
(* makes all writes of a transaction one step; here they are apart, and    *)
(* the question is who can wait for whom.                                  *)
(*                                                                         *)
(* A row that a transaction has written stays locked until it ends.  The   *)
(* plain SELECTs take no lock, and the FOR KEY SHARE locks of foreign keys *)
(* do not conflict with updates of other columns.  What a transaction      *)
(* reads is left open: it may take any branch of its program.              *)
(***************************************************************************)
CONSTANTS
  Txs,        \* database connections, each with at most one transaction
  Bookings,   \* rows of bookings
  Orders,     \* rows of payments, named by their gateway order
  Events,     \* gateway events, the unique key of payment_webhook_events
  BookingOf,  \* the booking of a payment
  OrderOf,    \* the order an event is about
  Conflicts,  \* pairs of bookings whose slots overlap at one provider
  None        \* nobody, nothing

ASSUME RowsAssumption ==
  /\ None \notin Txs
  /\ BookingOf \in [Orders -> Bookings]
  /\ OrderOf \in [Events -> Orders]

VARIABLES
  tx,          \* what each connection is doing
  bookingLock, \* the transaction that has written a booking row
  paymentLock, \* the same for payments
  eventLock,   \* the same for payment_webhook_events
  present      \* bookings whose insert is committed

vars == <<tx, bookingLock, paymentLock, eventLock, present>>

-----------------------------------------------------------------------------
(* The programs: which statement of a transaction may follow which *)

\* "event", "booking", "payment": about to write that row; "check": the update
\* of a booking waits in the exclusion constraint.

\* verifyClientPayment
VerifyTx == {<<"payment", "booking">>, <<"booking", "check">>,
             <<"check", "commit">>}

\* refundPayment: a booking that was CANCELLED is left alone.
RefundTx == {<<"payment", "booking">>, <<"payment", "commit">>,
             <<"booking", "commit">>}

\* handleWebhookEvent.  (Mutant: the payment is updated before the booking.)
PaymentThenBooking == {<<"event", "payment">>, <<"event", "commit">>,
                       <<"payment", "booking">>, <<"payment", "commit">>,
                       <<"booking", "check">>, <<"check", "commit">>}

\* A capture confirms a pending booking and then the payment, or finds it not
\* pending and updates the payment alone; other events touch the payment at most.
WebhookTx == {<<"event", "booking">>, <<"booking", "check">>,
              <<"check", "payment">>, <<"event", "payment">>,
              <<"payment", "commit">>, <<"event", "commit">>}

\* expireBooking: the updateMany of the open payments takes them one by one.
ExpireTx == {<<"booking", "payment">>, <<"booking", "commit">>,
             <<"payment", "payment">>, <<"payment", "commit">>}

\* createBooking; its payment row is new, and nobody waits for that.
CreateTx == {<<"booking", "check">>, <<"check", "commit">>}

\* cancelBookingAsCustomer
CancelTx == {<<"booking", "commit">>}

\* completeBooking
CompleteTx == {<<"booking", "commit">>}

\* flagOverdueBooking: needsReview is indexed, so the new version of the row is
\* checked like any other.
FlagTx == {<<"booking", "check">>, <<"booking", "commit">>,
           <<"check", "commit">>}

Program == [verify |-> VerifyTx, refund |-> RefundTx, webhook |-> WebhookTx,
            expire |-> ExpireTx, create |-> CreateTx, cancel |-> CancelTx,
            complete |-> CompleteTx, flag |-> FlagTx]

Kinds == {"verify", "refund", "webhook", "expire", "create", "cancel",
          "complete", "flag"}

Steps == {"event", "booking", "check", "payment", "commit"}

Transaction == [kind : Kinds \cup {"none"}, at : Steps \cup {"idle"},
                b : Bookings \cup {None}, o : Orders \cup {None},
                ev : Events \cup {None}]

Idle == [kind |-> "none", at |-> "idle", b |-> None, o |-> None, ev |-> None]

Init ==
  /\ tx = [t \in Txs |-> Idle]
  /\ bookingLock = [b \in Bookings |-> None]
  /\ paymentLock = [o \in Orders |-> None]
  /\ eventLock = [ev \in Events |-> None]
  /\ present = {}

At(t, step) == tx[t].at = step

-----------------------------------------------------------------------------
(* Transactions begin *)

Start(t, r) ==
  /\ At(t, "idle")
  /\ tx' = [tx EXCEPT ![t] = r]
  /\ UNCHANGED <<bookingLock, paymentLock, eventLock, present>>

BeginOnPayment(t, kind, o) ==
  /\ BookingOf[o] \in present
  /\ Start(t, [kind |-> kind, at |-> "payment", b |-> BookingOf[o], o |-> o,
               ev |-> None])

BeginWebhook(t, ev) ==
  LET o == OrderOf[ev] IN
  /\ BookingOf[o] \in present
  /\ Start(t, [kind |-> "webhook", at |-> "event", b |-> BookingOf[o],
               o |-> o, ev |-> ev])

BeginOnBooking(t, kind, b) ==
  /\ b \in present
  /\ Start(t, [kind |-> kind, at |-> "booking", b |-> b, o |-> None, ev |-> None])

\* The row gets a fresh id.
BeginCreate(t, b) ==
  /\ b \notin present
  /\ \A u \in Txs : tx[u].b # b
  /\ Start(t, [kind |-> "create", at |-> "booking", b |-> b, o |-> None,
               ev |-> None])

-----------------------------------------------------------------------------
(* One statement *)

\* The payments a transaction may turn to with its next step: expireBooking
\* goes through those of its booking, everyone else has one.
Targets(t, step) ==
  IF tx[t].kind = "expire" /\ step = "payment"
  THEN {o \in Orders : /\ BookingOf[o] = tx[t].b
                       /\ o # tx[t].o /\ paymentLock[o] # t}
  ELSE {tx[t].o}

Advance(t) ==
  \E step \in Steps :
    /\ <<tx[t].at, step>> \in Program[tx[t].kind]
    /\ \E o \in Targets(t, step) :
         tx' = [tx EXCEPT ![t] = [@ EXCEPT !.at = step, !.o = o]]

\* The insert waits for an uncommitted row with the same (gateway, eventId).
InsertEvent(t) ==
  /\ At(t, "event")
  /\ eventLock[tx[t].ev] = None
  /\ eventLock' = [eventLock EXCEPT ![tx[t].ev] = t]
  /\ Advance(t)
  /\ UNCHANGED <<bookingLock, paymentLock, present>>

\* The update waits for whoever has written the row.
UpdateBooking(t) ==
  /\ At(t, "booking")
  /\ bookingLock[tx[t].b] = None
  /\ bookingLock' = [bookingLock EXCEPT ![tx[t].b] = t]
  /\ Advance(t)
  /\ UNCHANGED <<paymentLock, eventLock, present>>

\* The exclusion constraint waits for whoever has written an overlapping row
\* and is not finished.
Overlapping(t) == {b \in Bookings : <<tx[t].b, b>> \in Conflicts}

CheckOverlap(t) ==
  /\ At(t, "check")
  /\ \A b \in Overlapping(t) : bookingLock[b] \in {None, t}
  /\ Advance(t)
  /\ UNCHANGED <<bookingLock, paymentLock, eventLock, present>>

UpdatePayment(t) ==
  /\ At(t, "payment")
  /\ paymentLock[tx[t].o] = None
  /\ paymentLock' = [paymentLock EXCEPT ![tx[t].o] = t]
  /\ Advance(t)
  /\ UNCHANGED <<bookingLock, eventLock, present>>

-----------------------------------------------------------------------------
(* Transactions end *)

Released(lock, t) == [x \in DOMAIN lock |-> IF lock[x] = t THEN None ELSE lock[x]]

End(t) ==
  /\ tx' = [tx EXCEPT ![t] = Idle]
  /\ bookingLock' = Released(bookingLock, t)
  /\ paymentLock' = Released(paymentLock, t)
  /\ eventLock' = Released(eventLock, t)

Commit(t) ==
  /\ At(t, "commit")
  /\ End(t)
  /\ present' = IF tx[t].kind = "create" THEN present \cup {tx[t].b} ELSE present

\* A violated constraint, a lost connection, a timeout, or the database picks
\* the transaction as a deadlock victim.
Abort(t) ==
  /\ ~At(t, "idle")
  /\ End(t)
  /\ UNCHANGED present

Begin(t) ==
  \/ \E kind \in {"verify", "refund"}, o \in Orders : BeginOnPayment(t, kind, o)
  \/ \E ev \in Events : BeginWebhook(t, ev)
  \/ \E kind \in {"expire", "cancel", "complete", "flag"}, b \in Bookings :
       BeginOnBooking(t, kind, b)
  \/ \E b \in Bookings : BeginCreate(t, b)

Statement(t) ==
  InsertEvent(t) \/ UpdateBooking(t) \/ CheckOverlap(t) \/ UpdatePayment(t)

Next == \E t \in Txs : Begin(t) \/ Statement(t) \/ Commit(t) \/ Abort(t)

Spec == Init /\ [][Next]_vars

-----------------------------------------------------------------------------
(* Correctness *)

\* Types of the connections and the lock tables.
TypeOK ==
  /\ tx \in [Txs -> Transaction]
  /\ bookingLock \in [Bookings -> Txs \cup {None}]
  /\ paymentLock \in [Orders -> Txs \cup {None}]
  /\ eventLock \in [Events -> Txs \cup {None}]
  /\ present \subseteq Bookings

\* t cannot go on before u ends.
WaitsFor(t, u) ==
  /\ t # u
  /\ \/ At(t, "event") /\ eventLock[tx[t].ev] = u
     \/ At(t, "booking") /\ bookingLock[tx[t].b] = u
     \/ At(t, "check") /\ \E b \in Overlapping(t) : bookingLock[b] = u
     \/ At(t, "payment") /\ paymentLock[tx[t].o] = u

Deadlocked(S) == S # {} /\ \A t \in S : \E u \in S : WaitsFor(t, u)

\* The transactions that write a payment before its booking.
PaymentFirst == {"verify", "refund"}

\* handleWebhookEvent, expireBooking, cancellation, completion and the overdue
\* check never wait for each other in a circle over the rows they update: a
\* deadlock takes a verifyClientPayment or a refundPayment, which lock the
\* payment first, or two transactions that check overlapping bookings against
\* each other in the exclusion constraint.
DeadlockHasCause ==
  \A S \in SUBSET Txs :
    Deadlocked(S) =>
      \/ \E t \in S : tx[t].kind \in PaymentFirst
      \/ \E t, u \in S : At(t, "check") /\ At(u, "check") /\ WaitsFor(t, u)

=============================================================================
