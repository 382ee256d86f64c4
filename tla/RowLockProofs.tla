---------------------------- MODULE RowLockProofs ----------------------------
(***************************************************************************)
(* Who can wait for whom, for any number of transactions, bookings,        *)
(* payments and events, and any overlaps.                                  *)
(***************************************************************************)
EXTENDS RowLocks, TLAPS

-----------------------------------------------------------------------------
(* What a lock says about its owner *)

\* A transaction knows the rows it is to write.
Bound(t) ==
  tx[t].at # "idle" =>
    /\ tx[t].kind \in Kinds /\ tx[t].b \in Bookings
    /\ tx[t].kind \in {"verify", "refund", "webhook"} => tx[t].o \in Orders
    /\ tx[t].kind = "webhook" => tx[t].ev \in Events
    /\ tx[t].at = "event" => tx[t].kind = "webhook"
    /\ tx[t].at = "payment" => tx[t].kind \in {"verify", "refund", "webhook", "expire"}

\* Whoever has written a booking has it behind it.
BookingOwner(b, t) ==
  /\ tx[t].b = b
  /\ \/ tx[t].at \in {"check", "commit"}
     \/ tx[t].at = "payment" /\ tx[t].kind \notin PaymentFirst

\* Whoever has written a payment and waits for more locked the payment first, or
\* is expireBooking, which has the booking.
PaymentOwner(o, t) ==
  \/ tx[t].kind \in PaymentFirst /\ tx[t].at # "idle"
  \/ tx[t].at = "commit"
  \/ tx[t].kind = "expire" /\ tx[t].at = "payment" /\ BookingOf[o] = tx[t].b

EventOwner(t) == tx[t].kind = "webhook" /\ tx[t].at \notin {"idle", "event"}

\* expireBooking turns to the payments of a booking it has written.
ExpiresOwn(t) ==
  tx[t].kind = "expire" /\ tx[t].at = "payment" =>
    /\ tx[t].o \in Orders /\ BookingOf[tx[t].o] = tx[t].b
    /\ bookingLock[tx[t].b] = t

\* The inductive invariant behind DeadlockHasCause: which locks a transaction
\* holds follows from its program and from how far it is.
LockInv ==
  /\ TypeOK
  /\ \A t \in Txs : Bound(t) /\ ExpiresOwn(t)
  /\ \A b \in Bookings : bookingLock[b] # None => BookingOwner(b, bookingLock[b])
  /\ \A o \in Orders : paymentLock[o] # None => PaymentOwner(o, paymentLock[o])
  /\ \A ev \in Events : eventLock[ev] # None => EventOwner(eventLock[ev])

-----------------------------------------------------------------------------
(* The programs *)

LEMMA ProgramOf ==
  /\ Program["verify"] = VerifyTx /\ Program["refund"] = RefundTx
  /\ Program["webhook"] = WebhookTx /\ Program["expire"] = ExpireTx
  /\ Program["create"] = CreateTx /\ Program["cancel"] = CancelTx
  /\ Program["complete"] = CompleteTx /\ Program["flag"] = FlagTx
BY DEF Program

\* Nobody but verifyClientPayment and refundPayment goes from a payment to a
\* booking, and nobody returns to a booking.
LEMMA ProgramStep ==
  ASSUME NEW kind \in Kinds, NEW s, NEW next, <<s, next>> \in Program[kind]
  PROVE  /\ next \in {"booking", "check", "payment", "commit"}
         /\ s = "event" => kind = "webhook"
         /\ s = "booking" => \/ next \in {"check", "commit"}
                             \/ next = "payment" /\ kind = "expire"
         /\ s = "check" => next = "commit" \/ (next = "payment" /\ kind = "webhook")
         /\ s = "payment" /\ kind \notin PaymentFirst =>
              next = "commit" \/ (next = "payment" /\ kind = "expire")
         /\ next = "payment" => kind \in {"webhook", "expire"}
         /\ next = "payment" /\ kind = "expire" => s \in {"booking", "payment"}
BY ProgramOf
DEF Kinds, PaymentFirst, VerifyTx, RefundTx, WebhookTx, ExpireTx, CreateTx, CancelTx,
    CompleteTx, FlagTx

-----------------------------------------------------------------------------
(* One transaction moves *)

\* What a statement does to the transaction that executes it.
LEMMA AdvanceStep ==
  ASSUME LockInv, NEW t \in Txs, tx[t].at # "idle", Advance(t)
  PROVE  /\ tx' \in [Txs -> Transaction]
         /\ \A u \in Txs \ {t} : tx'[u] = tx[u]
         /\ tx'[t].kind = tx[t].kind /\ tx'[t].b = tx[t].b /\ tx'[t].ev = tx[t].ev
         /\ <<tx[t].at, tx'[t].at>> \in Program[tx[t].kind]
         /\ tx'[t].o \in Targets(t, tx'[t].at)
<1>0. PICK step \in Steps :
        /\ <<tx[t].at, step>> \in Program[tx[t].kind]
        /\ \E o \in Targets(t, step) :
             tx' = [tx EXCEPT ![t] = [@ EXCEPT !.at = step, !.o = o]]
  BY DEF Advance
<1>1. PICK o \in Targets(t, step) :
        tx' = [tx EXCEPT ![t] = [@ EXCEPT !.at = step, !.o = o]]
  BY <1>0
<1>2. tx \in [Txs -> Transaction]
  BY DEF LockInv, TypeOK
<1>3. o \in Orders \cup {None}
  BY <1>1, <1>2 DEF Targets, Transaction
<1>4. [tx[t] EXCEPT !.at = step, !.o = o] \in Transaction
  BY <1>2, <1>3 DEF Transaction
<1>5. tx'[t] = [tx[t] EXCEPT !.at = step, !.o = o]
  BY <1>1, <1>2
<1>6. /\ tx'[t].kind = tx[t].kind /\ tx'[t].b = tx[t].b /\ tx'[t].ev = tx[t].ev
      /\ tx'[t].at = step /\ tx'[t].o = o
  BY <1>2, <1>5 DEF Transaction
<1>7. tx' \in [Txs -> Transaction] /\ \A u \in Txs \ {t} : tx'[u] = tx[u]
  BY <1>1, <1>2, <1>4
<1> QED BY <1>0, <1>1, <1>6, <1>7

\* Where it goes from there.
LEMMA AdvanceProgram ==
  ASSUME LockInv, NEW t \in Txs, tx[t].at # "idle", Advance(t)
  PROVE  LET kind == tx[t].kind
             s    == tx[t].at
             next == tx'[t].at
         IN  /\ next \in {"booking", "check", "payment", "commit"}
             /\ s = "booking" => \/ next \in {"check", "commit"}
                                 \/ next = "payment" /\ kind = "expire"
             /\ s = "check" => next = "commit" \/ (next = "payment" /\ kind = "webhook")
             /\ s = "payment" /\ kind \notin PaymentFirst =>
                  next = "commit" \/ (next = "payment" /\ kind = "expire")
             /\ next = "payment" => kind \in {"webhook", "expire"}
             /\ next = "payment" /\ kind = "expire" => s \in {"booking", "payment"}
<1>1. tx[t].kind \in Kinds
  BY DEF LockInv, Bound
<1>2. <<tx[t].at, tx'[t].at>> \in Program[tx[t].kind]
  BY AdvanceStep
<1> QED BY <1>1, <1>2, ProgramStep

\* A transaction that moved on knows the rows it is to write.
LEMMA AdvanceBound ==
  ASSUME LockInv, NEW t \in Txs, tx[t].at # "idle", Advance(t)
  PROVE  /\ \A u \in Txs : Bound(u)'
         /\ tx'[t].at \in {"booking", "check", "payment", "commit"}
         /\ tx'[t].at = "payment" /\ tx[t].kind = "expire" =>
              /\ tx'[t].o \in Orders /\ BookingOf[tx'[t].o] = tx[t].b
              /\ tx[t].at \in {"booking", "payment"}
<1>1. Bound(t) /\ tx[t].kind \in Kinds
  BY DEF LockInv, Bound
<1>2. /\ tx'[t].at \in {"booking", "check", "payment", "commit"}
      /\ tx'[t].at = "payment" => tx[t].kind \in {"webhook", "expire"}
      /\ tx'[t].at = "payment" /\ tx[t].kind = "expire" =>
           tx[t].at \in {"booking", "payment"}
  BY <1>1, AdvanceProgram
<1>3. tx[t].kind # "expire" => tx'[t].o = tx[t].o
  BY AdvanceStep DEF Targets
<1>4. Bound(t)'
  BY <1>1, <1>2, <1>3, AdvanceStep DEF Bound
<1>5. ASSUME NEW u \in Txs \ {t} PROVE Bound(u)'
  BY AdvanceStep DEF LockInv, Bound
<1>6. tx'[t].at = "payment" /\ tx[t].kind = "expire" =>
        tx'[t].o \in Orders /\ BookingOf[tx'[t].o] = tx[t].b
  BY AdvanceStep DEF Targets
<1> QED BY <1>2, <1>4, <1>5, <1>6

LEMMA ExpiresKept ==
  ASSUME LockInv, NEW u \in Txs, tx'[u] = tx[u], bookingLock' = bookingLock
  PROVE  ExpiresOwn(u)'
<1>1. ExpiresOwn(u)
  BY DEF LockInv
<1> QED BY <1>1 DEF ExpiresOwn

LEMMA IdleShape == Idle \in Transaction /\ Idle.at = "idle"
BY DEF Idle, Transaction

-----------------------------------------------------------------------------
(* The invariant is inductive *)

LEMMA StartInv ==
  ASSUME LockInv, NEW t \in Txs, NEW r \in Transaction, Start(t, r),
         r.at # "idle", r.kind \in Kinds, r.b \in Bookings,
         r.kind \in {"verify", "refund", "webhook"} => r.o \in Orders,
         r.kind = "webhook" => r.ev \in Events,
         r.at = "event" => r.kind = "webhook",
         r.at = "payment" => r.kind \in PaymentFirst
  PROVE  LockInv'
<1>1. tx' \in [Txs -> Transaction] /\ tx'[t] = r /\ \A u \in Txs \ {t} : tx'[u] = tx[u]
  BY DEF Start, LockInv, TypeOK
<1>2. /\ UNCHANGED <<bookingLock, paymentLock, eventLock, present>>
      /\ tx[t].at = "idle"
  BY DEF Start, At
<1>3. TypeOK'
  BY <1>1, <1>2 DEF LockInv, TypeOK
<1>4. ASSUME NEW u \in Txs PROVE Bound(u)' /\ ExpiresOwn(u)'
  <2>1. CASE u = t
    BY <1>1, <2>1 DEF Bound, ExpiresOwn, PaymentFirst
  <2>2. CASE u # t
    BY <1>1, <1>2, <2>2 DEF LockInv, Bound, ExpiresOwn
  <2> QED BY <2>1, <2>2
<1>5. ASSUME NEW b \in Bookings, bookingLock'[b] # None
      PROVE  BookingOwner(b, bookingLock[b])'
  <2>1. bookingLock[b] \in Txs \ {t} /\ BookingOwner(b, bookingLock[b])
    BY <1>2, <1>5 DEF LockInv, TypeOK, BookingOwner
  <2> QED BY <1>1, <1>2, <2>1 DEF BookingOwner
<1>6. ASSUME NEW o \in Orders, paymentLock'[o] # None
      PROVE  PaymentOwner(o, paymentLock[o])'
  <2>1. paymentLock[o] \in Txs \ {t} /\ PaymentOwner(o, paymentLock[o])
    BY <1>2, <1>6 DEF LockInv, TypeOK, PaymentOwner
  <2> QED BY <1>1, <1>2, <2>1 DEF PaymentOwner
<1>7. ASSUME NEW ev \in Events, eventLock'[ev] # None
      PROVE  EventOwner(eventLock[ev])'
  <2>1. eventLock[ev] \in Txs \ {t} /\ EventOwner(eventLock[ev])
    BY <1>2, <1>7 DEF LockInv, TypeOK, EventOwner
  <2> QED BY <1>1, <1>2, <2>1 DEF EventOwner
<1> QED BY <1>3, <1>4, <1>5, <1>6, <1>7 DEF LockInv

LEMMA BeginInv ==
  ASSUME LockInv, NEW t \in Txs, Begin(t)
  PROVE  LockInv'
<1>1. ASSUME NEW kind \in {"verify", "refund"}, NEW o \in Orders,
             BeginOnPayment(t, kind, o)
      PROVE  LockInv'
  <2> DEFINE r == [kind |-> kind, at |-> "payment", b |-> BookingOf[o], o |-> o,
                   ev |-> None]
  <2>2. BookingOf[o] \in Bookings /\ Start(t, r)
    BY <1>1, RowsAssumption DEF BeginOnPayment
  <2>3. r \in Transaction
    BY <2>2 DEF Transaction, Kinds, Steps
  <2>4. r.kind = kind /\ r.at = "payment" /\ r.b = BookingOf[o] /\ r.o = o
    OBVIOUS
  <2> HIDE DEF r
  <2> QED BY <2>2, <2>3, <2>4, StartInv DEF Kinds, PaymentFirst
<1>2. ASSUME NEW ev \in Events, BeginWebhook(t, ev) PROVE LockInv'
  <2> DEFINE r == [kind |-> "webhook", at |-> "event", b |-> BookingOf[OrderOf[ev]],
                   o |-> OrderOf[ev], ev |-> ev]
  <2>1. OrderOf[ev] \in Orders /\ BookingOf[OrderOf[ev]] \in Bookings /\ Start(t, r)
    BY <1>2, RowsAssumption DEF BeginWebhook
  <2>2. r \in Transaction
    BY <2>1 DEF Transaction, Kinds, Steps
  <2>3. /\ r.kind = "webhook" /\ r.at = "event" /\ r.b = BookingOf[OrderOf[ev]]
        /\ r.o = OrderOf[ev] /\ r.ev = ev
    OBVIOUS
  <2> HIDE DEF r
  <2> QED BY <2>1, <2>2, <2>3, StartInv DEF Kinds
<1>3. ASSUME NEW kind \in {"expire", "cancel", "complete", "flag", "create"},
             NEW b \in Bookings,
             Start(t, [kind |-> kind, at |-> "booking", b |-> b, o |-> None,
                       ev |-> None])
      PROVE  LockInv'
  <2> DEFINE r == [kind |-> kind, at |-> "booking", b |-> b, o |-> None, ev |-> None]
  <2>2. r \in Transaction
    BY DEF Transaction, Kinds, Steps
  <2>3. r.kind = kind /\ r.at = "booking" /\ r.b = b
    OBVIOUS
  <2>4. Start(t, r)
    BY <1>3
  <2> HIDE DEF r
  <2> QED BY <2>2, <2>3, <2>4, StartInv DEF Kinds
<1> QED BY <1>1, <1>2, <1>3 DEF Begin, BeginOnBooking, BeginCreate

\* The insert of the event row.
LEMMA InsertEventInv ==
  ASSUME LockInv, NEW t \in Txs, InsertEvent(t)
  PROVE  LockInv'
<1>1. /\ tx[t].at = "event" /\ Advance(t) /\ tx[t].kind = "webhook"
      /\ tx[t].kind \in Kinds
      /\ eventLock' = [eventLock EXCEPT ![tx[t].ev] = t]
      /\ UNCHANGED <<bookingLock, paymentLock, present>>
  BY DEF InsertEvent, At, LockInv, Bound
<1>2. TypeOK'
  BY <1>1, AdvanceStep DEF LockInv, TypeOK
<1>3. \A u \in Txs : Bound(u)'
  BY <1>1, AdvanceBound
<1>4. ASSUME NEW u \in Txs PROVE ExpiresOwn(u)'
  <2>1. CASE u = t
    BY <1>1, <2>1, AdvanceStep DEF ExpiresOwn
  <2>2. CASE u # t
    BY <1>1, <2>2, AdvanceStep, ExpiresKept
  <2> QED BY <2>1, <2>2
<1>5. ASSUME NEW b \in Bookings, bookingLock'[b] # None
      PROVE  BookingOwner(b, bookingLock[b])'
  <2>1. bookingLock[b] \in Txs \ {t} /\ BookingOwner(b, bookingLock[b])
    BY <1>1, <1>5 DEF LockInv, TypeOK, BookingOwner
  <2> QED BY <1>1, <2>1, AdvanceStep DEF BookingOwner
<1>6. ASSUME NEW o \in Orders, paymentLock'[o] # None
      PROVE  PaymentOwner(o, paymentLock[o])'
  <2>1. paymentLock[o] \in Txs \ {t} /\ PaymentOwner(o, paymentLock[o])
    BY <1>1, <1>6 DEF LockInv, TypeOK, PaymentOwner, PaymentFirst
  <2> QED BY <1>1, <2>1, AdvanceStep DEF PaymentOwner
<1>7. ASSUME NEW ev \in Events, eventLock'[ev] # None
      PROVE  EventOwner(eventLock[ev])'
  <2>1. eventLock'[ev] = t \/ (eventLock'[ev] = eventLock[ev] /\ eventLock[ev] \in Txs \ {t})
    BY <1>1, <1>7 DEF LockInv, TypeOK, EventOwner
  <2>2. CASE eventLock'[ev] = t
    BY <1>1, <2>2, AdvanceStep, AdvanceBound DEF EventOwner
  <2>3. CASE eventLock'[ev] = eventLock[ev] /\ eventLock[ev] \in Txs \ {t}
    <3>1. EventOwner(eventLock[ev])
      BY <1>7, <2>3 DEF LockInv
    <3>2. tx'[eventLock[ev]] = tx[eventLock[ev]]
      BY <1>1, <2>3, AdvanceStep
    <3> QED BY <2>3, <3>1, <3>2 DEF EventOwner
  <2> QED BY <2>1, <2>2, <2>3
<1> QED BY <1>2, <1>3, <1>4, <1>5, <1>6, <1>7 DEF LockInv

\* Events stay with their owner while it goes on.
LEMMA EventsKept ==
  ASSUME LockInv, NEW t \in Txs, tx[t].at # "idle", Advance(t), eventLock' = eventLock,
         NEW ev \in Events, eventLock'[ev] # None
  PROVE  EventOwner(eventLock[ev])'
<1>1. eventLock[ev] \in Txs /\ EventOwner(eventLock[ev])
  BY DEF LockInv, TypeOK
<1> QED BY <1>1, AdvanceStep, AdvanceBound DEF EventOwner

LEMMA UpdateBookingInv ==
  ASSUME LockInv, NEW t \in Txs, UpdateBooking(t)
  PROVE  LockInv'
<1>1. /\ tx[t].at = "booking" /\ Advance(t) /\ tx[t].kind \in Kinds
      /\ tx[t].b \in Bookings /\ bookingLock[tx[t].b] = None
      /\ bookingLock' = [bookingLock EXCEPT ![tx[t].b] = t]
      /\ UNCHANGED <<paymentLock, eventLock, present>>
  BY DEF UpdateBooking, At, LockInv, Bound
<1>2. TypeOK'
  BY <1>1, AdvanceStep DEF LockInv, TypeOK
<1>3. \A u \in Txs : Bound(u)'
  BY <1>1, AdvanceBound
<1>4. bookingLock \in [Bookings -> Txs \cup {None}]
  BY DEF LockInv, TypeOK
<1>5. ASSUME NEW u \in Txs PROVE ExpiresOwn(u)'
  <2>1. CASE u = t
    BY <1>1, <1>4, <2>1, AdvanceStep, AdvanceBound DEF ExpiresOwn
  <2>2. CASE u # t
    <3>1. tx'[u] = tx[u] /\ ExpiresOwn(u) /\ u # None
      BY <1>1, <2>2, AdvanceStep, RowsAssumption DEF LockInv
    <3>2. bookingLock[tx[u].b] = u => bookingLock'[tx[u].b] = u
      BY <1>1, <1>4, <3>1
    <3> QED BY <3>1, <3>2 DEF ExpiresOwn
  <2> QED BY <2>1, <2>2
<1>6. ASSUME NEW b \in Bookings, bookingLock'[b] # None
      PROVE  BookingOwner(b, bookingLock[b])'
  <2>1. CASE b = tx[t].b
    <3>1. \/ tx'[t].at \in {"check", "commit"}
          \/ tx'[t].at = "payment" /\ tx[t].kind = "expire"
      BY <1>1, AdvanceProgram
    <3> QED BY <1>1, <1>4, <2>1, <3>1, AdvanceStep DEF BookingOwner, PaymentFirst
  <2>2. CASE b # tx[t].b
    <3>1. bookingLock'[b] = bookingLock[b] /\ bookingLock[b] \in Txs \ {t}
            /\ BookingOwner(b, bookingLock[b])
      BY <1>1, <1>4, <1>6, <2>2 DEF LockInv, BookingOwner
    <3> QED BY <3>1, <1>1, AdvanceStep DEF BookingOwner
  <2> QED BY <2>1, <2>2
<1>7. ASSUME NEW o \in Orders, paymentLock'[o] # None
      PROVE  PaymentOwner(o, paymentLock[o])'
  <2>1. paymentLock[o] \in Txs /\ PaymentOwner(o, paymentLock[o])
    BY <1>1, <1>7 DEF LockInv, TypeOK
  <2>2. CASE paymentLock[o] = t
    BY <1>1, <2>1, <2>2, AdvanceStep, AdvanceBound DEF PaymentOwner
  <2>3. CASE paymentLock[o] # t
    BY <1>1, <2>1, <2>3, AdvanceStep DEF PaymentOwner
  <2> QED BY <2>2, <2>3
<1>8. ASSUME NEW ev \in Events, eventLock'[ev] # None PROVE EventOwner(eventLock[ev])'
  BY <1>1, <1>8, EventsKept
<1> QED BY <1>2, <1>3, <1>5, <1>6, <1>7, <1>8 DEF LockInv

LEMMA CheckOverlapInv ==
  ASSUME LockInv, NEW t \in Txs, CheckOverlap(t)
  PROVE  LockInv'
<1>1. /\ tx[t].at = "check" /\ Advance(t) /\ tx[t].kind \in Kinds
      /\ UNCHANGED <<bookingLock, paymentLock, eventLock, present>>
  BY DEF CheckOverlap, At, LockInv, Bound
<1>2. TypeOK'
  BY <1>1, AdvanceStep DEF LockInv, TypeOK
<1>3. \A u \in Txs : Bound(u)'
  BY <1>1, AdvanceBound
<1>4. tx'[t].at = "commit" \/ (tx'[t].at = "payment" /\ tx[t].kind = "webhook")
  BY <1>1, AdvanceProgram
<1>5. ASSUME NEW u \in Txs PROVE ExpiresOwn(u)'
  <2>1. CASE u = t
    BY <1>1, <1>4, <2>1, AdvanceStep DEF ExpiresOwn
  <2>2. CASE u # t
    BY <1>1, <2>2, AdvanceStep, ExpiresKept
  <2> QED BY <2>1, <2>2
<1>6. ASSUME NEW b \in Bookings, bookingLock'[b] # None
      PROVE  BookingOwner(b, bookingLock[b])'
  <2>1. bookingLock[b] \in Txs /\ BookingOwner(b, bookingLock[b])
    BY <1>1, <1>6 DEF LockInv, TypeOK
  <2> QED BY <1>1, <1>4, <2>1, AdvanceStep DEF BookingOwner, PaymentFirst
<1>7. ASSUME NEW o \in Orders, paymentLock'[o] # None
      PROVE  PaymentOwner(o, paymentLock[o])'
  <2>1. paymentLock[o] \in Txs /\ PaymentOwner(o, paymentLock[o])
    BY <1>1, <1>7 DEF LockInv, TypeOK
  <2> QED BY <1>1, <1>4, <2>1, AdvanceStep DEF PaymentOwner
<1>8. ASSUME NEW ev \in Events, eventLock'[ev] # None PROVE EventOwner(eventLock[ev])'
  BY <1>1, <1>8, EventsKept
<1> QED BY <1>2, <1>3, <1>5, <1>6, <1>7, <1>8 DEF LockInv

LEMMA UpdatePaymentInv ==
  ASSUME LockInv, NEW t \in Txs, UpdatePayment(t)
  PROVE  LockInv'
<1>1. /\ tx[t].at = "payment" /\ Advance(t) /\ tx[t].kind \in Kinds
      /\ paymentLock' = [paymentLock EXCEPT ![tx[t].o] = t]
      /\ UNCHANGED <<bookingLock, eventLock, present>>
  BY DEF UpdatePayment, At, LockInv, Bound
<1>2. TypeOK'
  BY <1>1, AdvanceStep DEF LockInv, TypeOK
<1>3. \A u \in Txs : Bound(u)'
  BY <1>1, AdvanceBound
<1>4. tx[t].kind \notin PaymentFirst =>
        tx'[t].at = "commit" \/ (tx'[t].at = "payment" /\ tx[t].kind = "expire")
  BY <1>1, AdvanceProgram
<1>5. ASSUME NEW u \in Txs PROVE ExpiresOwn(u)'
  <2>1. CASE u = t
    BY <1>1, <2>1, AdvanceStep, AdvanceBound DEF LockInv, ExpiresOwn
  <2>2. CASE u # t
    BY <1>1, <2>2, AdvanceStep, ExpiresKept
  <2> QED BY <2>1, <2>2
<1>6. ASSUME NEW b \in Bookings, bookingLock'[b] # None
      PROVE  BookingOwner(b, bookingLock[b])'
  <2>1. bookingLock[b] \in Txs /\ BookingOwner(b, bookingLock[b])
    BY <1>1, <1>6 DEF LockInv, TypeOK
  <2>2. CASE bookingLock[b] = t
    BY <1>1, <1>4, <2>1, <2>2, AdvanceStep DEF BookingOwner
  <2>3. CASE bookingLock[b] # t
    BY <1>1, <2>1, <2>3, AdvanceStep DEF BookingOwner
  <2> QED BY <2>2, <2>3
<1>7. ASSUME NEW o \in Orders, paymentLock'[o] # None
      PROVE  PaymentOwner(o, paymentLock[o])'
  <2>1. paymentLock \in [Orders -> Txs \cup {None}]
    BY DEF LockInv, TypeOK
  <2>2. CASE o = tx[t].o
    <3>1. tx[t].kind = "expire" => BookingOf[o] = tx[t].b
      BY <1>1, <2>2 DEF LockInv, ExpiresOwn
    <3> QED BY <1>1, <1>4, <2>1, <2>2, <3>1, AdvanceStep, AdvanceBound DEF PaymentOwner
  <2>3. CASE o # tx[t].o
    <3>1. paymentLock'[o] = paymentLock[o] /\ paymentLock[o] \in Txs
            /\ PaymentOwner(o, paymentLock[o])
      BY <1>1, <1>7, <2>1, <2>3 DEF LockInv
    <3>2. CASE paymentLock[o] = t
      <4>1. /\ tx'[t].kind = tx[t].kind /\ tx'[t].b = tx[t].b
            /\ tx'[t].at \in {"booking", "check", "payment", "commit"}
        BY <1>1, AdvanceStep, AdvanceBound
      <4>2. tx[t].kind \in PaymentFirst \/ (tx[t].kind = "expire" /\ BookingOf[o] = tx[t].b)
        BY <1>1, <3>1, <3>2 DEF PaymentOwner
      <4> QED BY <1>4, <3>1, <3>2, <4>1, <4>2 DEF PaymentOwner
    <3>3. CASE paymentLock[o] # t
      BY <1>1, <3>1, <3>3, AdvanceStep DEF PaymentOwner
    <3> QED BY <3>2, <3>3
  <2> QED BY <2>2, <2>3
<1>8. ASSUME NEW ev \in Events, eventLock'[ev] # None PROVE EventOwner(eventLock[ev])'
  BY <1>1, <1>8, EventsKept
<1> QED BY <1>2, <1>3, <1>5, <1>6, <1>7, <1>8 DEF LockInv

\* A transaction ends and gives its locks back.
LEMMA EndInv ==
  ASSUME LockInv, NEW t \in Txs, End(t), present' \subseteq Bookings
  PROVE  LockInv'
<1>1. /\ tx' \in [Txs -> Transaction] /\ tx'[t].at = "idle"
      /\ \A u \in Txs \ {t} : tx'[u] = tx[u]
  BY IdleShape DEF End, LockInv, TypeOK
<1>2. ASSUME NEW R, NEW lock \in [R -> Txs \cup {None}], NEW x \in R
      PROVE  /\ Released(lock, t) \in [R -> Txs \cup {None}]
             /\ Released(lock, t)[x] = IF lock[x] = t THEN None ELSE lock[x]
  BY <1>2 DEF Released
<1>3. \A b \in Bookings :
        bookingLock'[b] = IF bookingLock[b] = t THEN None ELSE bookingLock[b]
  BY <1>2 DEF End, LockInv, TypeOK
<1>4. \A o \in Orders :
        paymentLock'[o] = IF paymentLock[o] = t THEN None ELSE paymentLock[o]
  BY <1>2 DEF End, LockInv, TypeOK
<1>5. \A ev \in Events :
        eventLock'[ev] = IF eventLock[ev] = t THEN None ELSE eventLock[ev]
  BY <1>2 DEF End, LockInv, TypeOK
<1>6. TypeOK'
  BY <1>1 DEF End, Released, LockInv, TypeOK
<1>7. ASSUME NEW u \in Txs PROVE Bound(u)' /\ ExpiresOwn(u)'
  <2>1. CASE u = t
    BY <1>1, <2>1 DEF Bound, ExpiresOwn
  <2>2. CASE u # t
    BY <1>1, <1>3, <2>2 DEF LockInv, Bound, ExpiresOwn
  <2> QED BY <2>1, <2>2
<1>8. ASSUME NEW b \in Bookings, bookingLock'[b] # None
      PROVE  BookingOwner(b, bookingLock[b])'
  <2>1. bookingLock'[b] = bookingLock[b] /\ bookingLock[b] \in Txs \ {t}
    BY <1>3, <1>8 DEF LockInv, TypeOK
  <2> QED BY <1>1, <1>8, <2>1 DEF LockInv, BookingOwner
<1>9. ASSUME NEW o \in Orders, paymentLock'[o] # None
      PROVE  PaymentOwner(o, paymentLock[o])'
  <2>1. paymentLock'[o] = paymentLock[o] /\ paymentLock[o] \in Txs \ {t}
    BY <1>4, <1>9 DEF LockInv, TypeOK
  <2> QED BY <1>1, <1>9, <2>1 DEF LockInv, PaymentOwner
<1>10. ASSUME NEW ev \in Events, eventLock'[ev] # None
       PROVE  EventOwner(eventLock[ev])'
  <2>1. eventLock'[ev] = eventLock[ev] /\ eventLock[ev] \in Txs \ {t}
    BY <1>5, <1>10 DEF LockInv, TypeOK
  <2> QED BY <1>1, <1>10, <2>1 DEF LockInv, EventOwner
<1> QED BY <1>6, <1>7, <1>8, <1>9, <1>10 DEF LockInv

LEMMA CommitInv ==
  ASSUME LockInv, NEW t \in Txs, Commit(t) \/ Abort(t)
  PROVE  LockInv'
<1>1. present' \subseteq Bookings /\ End(t)
  BY DEF Commit, Abort, At, LockInv, TypeOK, Bound
<1> QED BY <1>1, EndInv

\* Which rows a transaction has written follows from its program and from how
\* far it is (the $transaction blocks of BookingService and PaymentService).
THEOREM LocksFollowProgram == Spec => []LockInv
<1>1. Init => LockInv
  <2> SUFFICES ASSUME Init PROVE LockInv
    OBVIOUS
  <2>1. TypeOK
    BY IdleShape DEF Init, TypeOK
  <2>2. \A t \in Txs : Bound(t) /\ ExpiresOwn(t)
    BY IdleShape DEF Init, Bound, ExpiresOwn
  <2> QED BY <2>1, <2>2 DEF Init, LockInv
<1>2. LockInv /\ [Next]_vars => LockInv'
  <2> SUFFICES ASSUME LockInv, [Next]_vars PROVE LockInv'
    OBVIOUS
  <2>1. CASE UNCHANGED vars
    BY <2>1 DEF vars, LockInv, TypeOK, Bound, ExpiresOwn, BookingOwner, PaymentOwner,
                EventOwner
  <2>2. CASE Next
    BY <2>2, BeginInv, InsertEventInv, UpdateBookingInv, CheckOverlapInv,
       UpdatePaymentInv, CommitInv
    DEF Next, Statement
  <2> QED BY <2>1, <2>2
<1> QED BY <1>1, <1>2, PTL DEF Spec

-----------------------------------------------------------------------------
(* Deadlocks *)

\* Whoever waits has not come to its commit.
LEMMA WaiterWorks ==
  ASSUME NEW t, NEW u, WaitsFor(t, u)
  PROVE  tx[t].at \in {"event", "booking", "check", "payment"}
BY DEF WaitsFor, At

\* Without verifyClientPayment and refundPayment, whoever a deadlocked
\* transaction waits for at a payment is an expireBooking of the same booking
\* that is itself at a payment.
LEMMA PaymentHolder ==
  ASSUME LockInv, NEW t \in Txs, tx[t].at = "payment", tx[t].o \in Orders,
         NEW u \in Txs, tx[u].kind \notin PaymentFirst, tx[u].at # "commit",
         WaitsFor(t, u)
  PROVE  /\ tx[u].kind = "expire" /\ tx[u].at = "payment"
         /\ tx[u].b = BookingOf[tx[t].o] /\ bookingLock[tx[u].b] = u
<1>1. paymentLock[tx[t].o] = u
  BY DEF WaitsFor, At
<1>2. u # None
  BY RowsAssumption
<1>3. PaymentOwner(tx[t].o, u)
  BY <1>1, <1>2 DEF LockInv
<1>4. tx[u].kind = "expire" /\ tx[u].at = "payment" /\ BookingOf[tx[t].o] = tx[u].b
  BY <1>3 DEF PaymentOwner
<1> QED BY <1>4 DEF LockInv, ExpiresOwn

LEMMA DeadlockCause ==
  ASSUME LockInv, NEW S \in SUBSET Txs, Deadlocked(S),
         \A t \in S : tx[t].kind \notin PaymentFirst
  PROVE  \E t, u \in S : At(t, "check") /\ At(u, "check") /\ WaitsFor(t, u)
<1>1. ASSUME NEW t \in S
      PROVE  /\ tx[t].at \in {"event", "booking", "check", "payment"}
             /\ tx[t].at = "payment" => tx[t].o \in Orders
             /\ Bound(t) /\ ExpiresOwn(t)
  BY WaiterWorks DEF Deadlocked, LockInv, Bound, ExpiresOwn
<1>2. ASSUME NEW t \in S, tx[t].at = "payment" PROVE FALSE
  <2>1. PICK u \in S : WaitsFor(t, u)
    BY DEF Deadlocked
  <2>2. tx[u].kind = "expire" /\ tx[u].at = "payment" /\ bookingLock[tx[u].b] = u
    BY <1>1, <1>2, <2>1, PaymentHolder
  <2>3. PICK v \in S : WaitsFor(u, v)
    BY DEF Deadlocked
  <2>4. tx[v].b = BookingOf[tx[u].o] /\ bookingLock[tx[v].b] = v
    BY <1>1, <2>2, <2>3, PaymentHolder
  <2>5. BookingOf[tx[u].o] = tx[u].b
    BY <1>1, <2>2 DEF ExpiresOwn
  <2>6. u # v
    BY <2>3 DEF WaitsFor
  <2> QED BY <2>2, <2>4, <2>5, <2>6
<1>3. ASSUME NEW t \in S, NEW u \in S, NEW b \in Bookings, bookingLock[b] = u
      PROVE  At(u, "check")
  <2>1. u # None
    BY RowsAssumption
  <2>2. BookingOwner(b, u)
    BY <1>3, <2>1 DEF LockInv
  <2> QED BY <1>1, <1>2, <2>2 DEF BookingOwner, At
<1>4. ASSUME NEW t \in S, At(t, "check")
      PROVE  \E u \in S : At(u, "check") /\ WaitsFor(t, u)
  <2>1. PICK u \in S : WaitsFor(t, u)
    BY DEF Deadlocked
  <2>2. PICK b \in Bookings : bookingLock[b] = u
    BY <1>4, <2>1 DEF WaitsFor, At, Overlapping
  <2> QED BY <1>3, <2>1, <2>2
<1>5. ASSUME NEW t \in S, At(t, "booking")
      PROVE  \E u \in S : At(u, "check")
  <2>1. PICK u \in S : WaitsFor(t, u)
    BY DEF Deadlocked
  <2>2. bookingLock[tx[t].b] = u /\ tx[t].b \in Bookings
    BY <1>1, <1>5, <2>1 DEF WaitsFor, At, Bound
  <2> QED BY <1>3, <2>2
<1>6. ASSUME NEW t \in S, At(t, "event")
      PROVE  \E u \in S : At(u, "check") \/ At(u, "booking")
  <2>1. PICK u \in S : WaitsFor(t, u)
    BY DEF Deadlocked
  <2>2. eventLock[tx[t].ev] = u /\ tx[t].ev \in Events
    BY <1>1, <1>6, <2>1 DEF WaitsFor, At, Bound
  <2>3. u # None
    BY RowsAssumption
  <2>4. tx[u].at # "event"
    BY <2>2, <2>3 DEF LockInv, EventOwner
  <2> QED BY <1>1, <1>2, <2>4 DEF At
<1>7. PICK t \in S : TRUE
  BY DEF Deadlocked
<1>8. \E u \in S : At(u, "check")
  BY <1>1, <1>2, <1>5, <1>6, <1>7 DEF At
<1> QED BY <1>4, <1>8

\* Webhooks, expirations, cancellations, completions and overdue checks do not
\* deadlock over the rows they update; what remains are verifyClientPayment and
\* refundPayment, which lock the payment first, and overlapping bookings that
\* are checked against each other.
THEOREM DeadlocksHaveCause == Spec => []DeadlockHasCause
<1>1. LockInv => DeadlockHasCause
  BY DeadlockCause DEF DeadlockHasCause
<1> QED BY <1>1, LocksFollowProgram, PTL

=============================================================================
