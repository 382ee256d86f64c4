# Service-hub: specifications and proofs

Service-hub is a NestJS back end on which customers book home-service providers.
PostgreSQL (through Prisma) holds the data, Redis holds caches and the BullMQ
queues, Razorpay takes the payments. This directory models the parts whose
correctness depends on what several of these do at once.

## 1. Inventory

| Part | State | Operations | Talks to |
|---|---|---|---|
| BookingService | `bookings` rows: status, `needsReview` | create, cancel, expire, complete, flag overdue | gateway, payments table, both queues |
| PaymentService | `payments`, `payment_webhook_events`, `REQUIRES_REFUND` audit entries | create order, verify, webhook, refund | gateway, bookings table, both queues |
| Booking queue and processor | jobs `expire-payment_<id>`, `overdue-check_<id>` | add, remove, run, retry | BookingService |
| Overlap constraint | GiST exclusion over `PENDING_PAYMENT` and `CONFIRMED` rows | checked by every insert and update | all writers of `bookings` |
| Gateway adapter | orders, captures, refunds at Razorpay | createOrder, createRefund, signatures | webhooks back to PaymentService |
| Notification queue and processor | `notifications` rows, jobs | schedule, cancel, deliver, record failure | mailer, bookings table |
| Authentication | `users`: identity, status, `refreshTokenHash` | register, login, refresh, logout, guards | - |
| Administration of users | `users.status`, audit log | updateStatus | users |
| Reviews | `reviews`, rating statistics of a profile | create, update | bookings, profile cache |
| Provider profiles and documents | `provider_profiles`, `provider_documents`, files | create, update, upload | storage, caches |
| Provider verification | `verificationStatus` of profile and documents, audit log | verify, reject, suspend | profiles, caches |
| Availability | weekly schedule | setAvailability, generateSlot | offerings, bookings |
| Listing and Redis cache | `provider:profile:<id>`, `providers:version`, `providers:search:v<n>:<hash>` | getOrSet, del, INCR | every writer of a listing |
| Catalog and offerings | `categories`, `services`, `provider_services`, `categories:all` | create, update, remove, list | caches |
| Inbox, dashboard, admin queries, HTTP, logging, health | no protocol state | queries, single idempotent updates, I/O | - |

What is hard here:

* **Decisions on copies.** Every service reads a row, checks in JavaScript, and
  later updates by primary key. `$transaction` runs at READ COMMITTED and
  `findById` takes no lock, so a read inside the transaction is no safer than one
  outside. Outside bookings, payments, reviews and schedules there is no
  transaction at all: what a lookup promised, only a unique index can keep.
* **Two confirmers and a timer.** The client's verification, the webhook and the
  expiration job all decide the fate of one reservation.
* **Work after the commit.** Queue and cache calls follow the transaction; a crash,
  a Redis client that is not ready, or a `job.remove()` that throws loses the rest.
* **Delivery.** Webhooks arrive repeatedly, concurrently, late and out of order.
* **Money first, record later.** A refund is requested before it is written down.
* **Caches.** A fill that read before a change may be stored after its invalidation.

The hazards are listed with their source lines, and with the property that covers
each, in `PROJECT.json`.

## 2. Modules

| Module | Models |
|---|---|
| `StatusMachines` | the two enums and transition tables of the domain layer |
| `SlotCalendar` | abstract: who holds a slot; `Grant` and `Release` |
| `Reservation` | BookingService, PaymentService, the booking queue and its processor, and the gateway as they use it |
| `RowLocks` | the transactions of BookingService and PaymentService, statement by statement over the rows they lock |
| `Notifications` | NotificationQueueService, NotificationProcessor with `onFailed`, the `notifications` table |
| `Accounts` | AuthService, the JWT and role guards, AdminUserService |
| `Reviews` | ReviewService and the statistics in the profile row |
| `Listing` | extends `Reviews` with the caches: RedisService, getPublicProfileById, searchPublicProviders, and every request that invalidates them |
| `Availability` | ProviderAvailabilityService, and createBooking's check of the working hours |
| `Profiles` | profiles and documents of ProviderService, AdminProviderService |
| `Catalog` | CategoryService, ServiceService, ProviderServiceService |

`MCReservation`, `MCReservationLoads`, `MCNotifications`, `MCAccounts`, `MCListing`,
`MCAvailability`, `MCSetup` and `MCRowLocks` give TLC its instances;
`ReservationProofs`, `RowLockProofs`, `NotificationProofs`, `AccountProofs`,
`ListingProofs` (reviews and listing), `AvailabilityProofs`, `ProfileProofs` and
`CatalogProofs` hold the theorems.
`Listing` composes the reviews, the writers of the listing and the caches;
`Reservation` composes bookings, payments, queue and gateway. Some definitions have a
variant marked "Mutant" beside them: the form a plausible mistake would give them,
kept to show that the properties notice it.

### `Reservation`

*State.* `booking` and `payment` are the tables (`NONE` = no row yet; the payment
row of a gateway order carries the order's name because `gatewayOrderId` is
unique). `booking[b].latest` is what `findByBookingId` (`createdAt desc`)
returns. `events` are the committed rows of `payment_webhook_events`, `flagged`
the orders with a `REQUIRES_REFUND` audit entry; other audit entries are
write-only and left out. `expireJob` and `overdueJob` are the two jobs of a booking,
`reminders` says whether its lifecycle notifications were scheduled. `ordered`,
`paid`, `refunds` and `sent` are the gateway's truth. `req[h]` is the request that
handler `h` is working on, with the values it has read. `dropped` is a history
variable: the bookings whose queue entries were withdrawn by a cancellation or a
completion, or never made because a request ended between its commit and them.

*Steps.* A handler step is what lies between two awaits at which another process
can matter. Reads that directly precede one another are one step; the writes of
a transaction are one step, its commit, because row locks are held until then
and an update re-evaluates its condition on the locked row. What a transaction
has read before its first write is a step of its own (`WebhookBegin`,
`ExpireRead`, `OverdueRead`).

| Operation | Actions |
|---|---|
| `createBooking` | `CreateStart` (checks, gateway order), `CreateCommit` / `CreateConflict`, `CreateSchedule` |
| `createPaymentOrder` | `OrderRead`, `OrderReuse` / `OrderCreate`, `OrderInsert` |
| `verifyClientPayment` | `VerifyRead`, `VerifyCommit` / `VerifyConflict`, then the confirm steps |
| `handleWebhookEvent` | `WebhookIgnore`, `WebhookRead`, `WebhookBegin` / `WebhookDuplicate`, one action per outcome of the switch, then the confirm steps |
| after a confirming commit | `ConfirmRemoveExpire`, `ConfirmAddOverdue`, `ConfirmNotify` |
| `cancelBookingAsCustomer` | `CancelRead`, `CancelCommit`, `CancelRemoveExpire`, `CancelRemoveOverdue`, `CancelNotify` |
| `completeBooking` | `CompleteRead`, `CompleteCommit`, `CompleteRemoveOverdue` |
| `refundPayment` | `RefundRead`, `RefundGateway`, `RefundCommit` |
| `expireBooking` | `ExpireStart`, `ExpireRead`, `ExpireCommit`, `ExpireFails` |
| `flagOverdueBooking` | `OverdueStart`, `OverdueRead`, `OverdueCommit`, `OverdueFails` |

*Abstractions.* Authorization and the checks on the offering and the provider read
tables that nothing here writes, and the check of the shift is in `Availability`: a
booking of the model has passed them. An event's `ok` field is the outcome of its
amount and currency check. A payment signature is valid exactly for captured
orders. A retried job is due again at once, which allows every later moment too.
Razorpay's events carry a payment entity, so a capture always supplies the
`gatewayPaymentId`.

*Failures.* `HandlerFails` ends a request at any await: a crash of the process, a lost
connection or the victim of a deadlock. `ExpireFails` and `OverdueFails` are an attempt
of a job that throws, because of a lost connection or a deadlock. The committed steps
stay, and there are at most `MaxFaults` failures. A crash of the worker is not such an
attempt but a stall, which this module leaves out: BullMQ puts a stalled job back
without counting an attempt, and fails it at the second stall. `Notifications` models
both.

### `RowLocks`

`Reservation` makes the writes of a transaction one step, so nobody is ever seen
waiting. Here every UPDATE or INSERT of the eight transactions is a step that takes
the lock of its row or waits for whoever has it; `bookingLock`, `paymentLock` and
`eventLock` are the owners. A transaction is a program, a set of edges between
statements (`VerifyTx`, `ExpireTx`, ...), and takes any branch of it, whatever the
rows say: the model allows every wait the code can meet, and more. `"check"` is an
insert or update of a booking, in a status that the exclusion constraint covers,
that waits for the writer of an overlapping row; the model lets it wait for any
unfinished writer of such a row. `expireBooking` updates the open payments of its
booking one by one, in any order. `Abort` ends a transaction anywhere, as a deadlock
victim too; in `Reservation` that is `HandlerFails`, `ExpireFails` or
`OverdueFails`. Plain reads take no lock. The foreign keys take FOR KEY SHARE, which
does not conflict with updates of other columns, and the rows inserted into
`payments` and the audit log are new: neither makes anybody wait.

### `Notifications`

*State.* `row` is the `notifications` table by order of creation, `job` the queue: the
job ids are derived from the booking and the kind of notification, so there is
one job per pair. `job[b][k].nid` is `job.data.notificationId`, `at` the row that
the current attempt has found. `plan[c]` is what a confirming request still has
to schedule, `cleanup[b]` where `cancelBookingReminders` stands, `mails` what the
mail provider has accepted. `status` is as much of the booking as a reminder
looks at.

| Operation | Actions |
|---|---|
| `sendNotification`, called by `scheduleBookingLifecycleNotifications` | `CreateRow`, `AddJob` |
| `cancelBookingAsCustomer`, `cancelBookingReminders` | `CancelBooking`, `CleanupRemove` per job id, `CleanupRows` |
| `refundPayment` | `RefundBooking` (no cleanup in the code) |
| `process` | `StartJob`, `LoadRow` / `RecreateRow`, `CheckBooking`, `SendMail`, `MarkSent`, `Acknowledge` |
| `failed` event, `onFailed` | `OnFailed`, `HookFails` |

*Abstractions.* There is no clock: a delayed job may start at any time after it was
added, and a cancellation may come at any time. The lookups at the start of
`process` and the creation of a missing row are one step. `attemptCount` and
`failureReason` in the row are write-only and left out. *Failures*:
`ConfirmerFails` (crash of a request), `AttemptThrows` (mail provider or database
fail, the recipient is gone), `WorkerStalls` (crash of a worker) and `HookFails` (the
process stops before it has emitted `failed`, or the update in `onFailed` throws;
nothing repeats either). A cleanup that stops half-way is one that takes no further
step. A stalled job is queued again once: `maxStalledCount` is left at its default, 1
(`MaxStalled`). The second stall fails the job whatever is left of its attempts, and
`onFailed` then looks at `attemptsMade` (`RetriesSpent`) and may pass it over. Whether
the second stall counts as an attempt depends on the version of BullMQ; both are
allowed. A worker that lost its lock and goes on beside its successor is not modelled.

### `Accounts`

`user` is the table, `audit` the statuses announced in the audit log for each user,
`req` the requests. No operation runs in a transaction, so every statement is a
step: `register` is `Register`, `RegisterPhone`, `RegisterCreate`, `GenerateTokens`;
`login` and `refresh` end in `GenerateTokens` too; `logout` is `Logout`,
`LogoutWrite`; `updateStatus` is `UpdateStatus` (the guards), `StatusRead`,
`StatusCount`, `StatusAudit`, `StatusWrite`. `Stops` ends a request anywhere.
Administrators exist from the start, because `register` gives the role USER and
nothing changes a role. `session` is "refreshTokenHash is not null": the hash is a
bcrypt hash, which reads 72 bytes of a token, and two refresh tokens of one user
differ only after those. `login` and `refresh` do not look at the status of the
account; the guard does, on every request. `crossed` and `closed` are history
variables for what the properties except: two status changes at once, and a
sign-in that was storing its hash at the moment of the logout.

### `Reviews` and `Listing`

`createReview`, and `updateReview` with a new rating, are transactions of three
statements: `WriteReview`, `AggregateRatings`, `CommitReview` (the update of the
profile row and the commit). `Visible(d)` is what READ COMMITTED shows to a
transaction, `RowLocked` the wait for the row or the unique index entry of the
booking. The average is kept in hundredths, as `toFixed(2)` leaves it. `serial`
records whether the last transaction met another one.

`Listing` adds the two caches. What is listed is abstracted to its `edition`, the
number of committed changes, and to the rating. `Edit` is the commit of any of
updateOwnProfile, the create, update and remove of an offering, and the three
decisions about a provider; `DeleteProfile` and `IncrementVersion` are their two
invalidations; `setAvailability` moves the version only (`EditSchedule`) and a
review deletes the profile only (`ReviewPurge`). `getOrSet` is a get, a fetch and a
set; each call of Redis is a step and does nothing while the client is not ready
(`Disconnect`, `Reconnect`). `ExpireProfile` and `ExpireResult` are the TTLs. A
missing `providers:version` reads as 1 and the first INCR makes it 1, so the first
invalidation changes no key: `bumped` counts only increments that moved it on.

### `Availability`

`ValidSchedules` is `validateSchedules`, with the stable sort of a day's windows as the
unique arrangement of their indices (`SortedDay`), `WindowSlots` the loop of `generateSlot`,
`FitsInShift` the check in `createBooking`. Minutes, days and weekdays are numbers,
an instant is a number of minutes in UTC, and `UtcOffset` is the `+05:30` of
`formatISOString`. `setAvailability` validates (`SetAvailability`), deletes what it
finds (`OpenReplacement`) and inserts and commits (`CommitReplacement`); rows carry
the replacement that made them, so that windows of two replacements can meet.

### `Profiles`

Every call of PostgreSQL or the storage is a step. `createProfile` and
`updateOwnProfile` are `CheckName`, `WriteName`; `uploadDocument` is
`CheckDocument`, `StoreFile`, `InsertDocument`; a decision is `Decide`,
`WriteProfile`, `WriteDocuments` (not for a suspension), `AuditDecision`. Names that
differ in case are one name. The races that the code permits are recorded in
`nameRaces`, `uploadRaces` and `alone`, and the properties say that nothing else
leads to the same result.

### `Catalog`

A request looks up what it has to check (`CreateCategory`, `UpdateService`, ...)
and then writes (`WriteCategory`, `WriteService`, ...); the unique indexes are
checked by the write. A removal clears `isActive`. `FindAll`, `StoreList`,
`PurgeList` and `ListExpires` are the cached list of categories.

## 3. Runs

Where all requests at once are out of TLC's reach, an MC module explores several
*loads* (or *parts*), each a subset of the requests that `Next` allows. In
`reservation` they are a state constraint, `Loads`, under which TLC explores `Spec`
itself: a state outside it is checked but not continued from. In the other runs a
load is a variable, chosen in the initial state and never changed. The properties
are checked in all of them.

| Run | Loads and bounds | Shows |
|---|---|---|
| `reservation` | `SlotLoad`: 2 bookings of one interval compete, one of the customers cancels. `MoneyLoad`: 1 booking, 2 orders, refunds, a failed attempt at one of the orders. `EventLoad`: 1 order, all kinds of webhook events, right and wrong amounts, 1 failure of a handler that meets right amounts. 2 handlers each | `NoDoubleBooking`, `ImplementsCalendar` (refinement of `SlotCalendar`), `ExpiryNeverOverwrites`, `LedgerIsTrue`, `FlaggedMoneyIsCaptured`, `EventAppliedOnce`, `CaptureClosesOrder`, and the inductive invariant `ReservationInv` |
| `clock` | 1 booking through its whole life, 2 handlers, 2 failures | `ConfirmedWasPaid`, `UnpaidIsGuarded`, `ConfirmedIsFollowedUp`, `EndIsFinal`, `ReviewOnlyWhenOverdue`, and under fairness `ScheduledReservationEnds` and `OverdueIsFlagged` |
| `notifications` | `confirmers`: 2 of them. `cancellation`: all four notifications, 1 row created again. `failures`: 3 attempts, 4 failures of one job (attempts that throw, stalls, the loss of the failed event). 2 workers | `MailedOnce`, `RemindersStaySilent`, `SentIsFinal`, `FailureIsRecorded`, and under fairness `OutcomeRecorded` |
| `accounts` | `users`: 2 users register, sign in and out next to 2 administrators. `administrators`: change each other's status. 3 requests at once | `IdentityIsUnique`, `AdminRemains`, `StatusIsAudited`, `LogoutIsFinal` |
| `marketplace` | `profile`: 2 bookings, 2 reviewers, 1 editor, 1 viewer. `search`: 1 editor, 2 searches. 2 changes, version up to 3, 1 outage | `RatingIsExact`, `NoPhantomReview`, `ReviewIsKept`, `SearchIsFresh`, `ProfileIsFresh`, `ShownRatingIsTrue` |
| `setup` | `schedule`: every proposal of up to 3 windows of a day, and 2 setters with 3 replacements while a visitor asks for slots. `names`: 2 owners, 2 names, 2 requests. `documents`: 1 owner, 2 uploads, 2 decisions. `catalog`: 2 categories, 2 services, 1 provider, 2 requests. `list`: the categories with their cached list | `ValidationIsExact`, `ScheduleIsDisjoint`, `SlotsDoNotCollide`; `NameClashNeedsRace`, `DuplicateNeedsRace`, `SettledDecision`, `SuspendedWasVerified`; `StrandedServiceHasCause`, `StrandedOfferingHasCause` |
| `row_locks` | 3 transactions of any kind, 2 bookings with overlapping slots, 2 payments of one and 1 of the other, 2 webhook events | `DeadlockHasCause` |

Runs that show a disagreement between the code and what the repository says of it
(each with a finding in `PROJECT.json`):

| Run | Claim | Counterexample |
|---|---|---|
| `no_resurrection` | an expired booking is not resurrected | expiration commits between the webhook's read and its update |
| `single_refund` | no double refunds | two admins read SUCCESS before either writes |
| `capture_accounted` | a late capture is recorded as SUCCESS | expiration set FAILED, and the webhook gives up on that |
| `bookable_slot` | the slots shown are available for booking | they are made in local time and checked in UTC, and the buffer must fit only when booking |
| `list_query` | inactive categories are listed on request only | one cache key serves all queries |

Further disagreements, for which no run is kept; the actions have these behaviours.
The comment at `payment.service.ts:417` promises one "Global lock ordering (Bookings ->
Payments)", but `verifyClientPayment` (:172) and `refundPayment` (:661) lock the payment
first and can deadlock with `expireBooking`; `DeadlockHasCause` names exactly these
two, and confirms what `docs/background_jobs_and_webhooks_reliability.md:78` says of
webhooks and expiry workers. A crash between the commit of `createBooking` and
`schedulePaymentExpiration` (`booking.service.ts:224`) leaves an unpaid slot that nobody
releases after 15 minutes; `UnpaidIsGuarded` has `dropped` for that case alone.
A cancellation that read CONFIRMED overwrites COMPLETED (`booking.service.ts:340`
updates by id); `EndIsFinal` says that only requests which had read the booking before
its end, and refunds, can do such a thing. A job whose second worker stops is failed
with attempts left: `onFailed` passes it over (`notification.processor.ts:185`) and the
row stays PENDING, as it does when the `failed` event or its update is lost, although
`docs/background_jobs_and_webhooks_reliability.md:102` and `docs/runbook.md:194` name
the stalled-job checker as the recovery; `OutcomeRecorded` excepts exactly these jobs
(`Unrecorded`), and `FailureIsRecorded` those of the second stall. A `payment.failed` delivered after the capture writes FAILED over
SUCCESS (`payment.service.ts:500` does not ask `canTransitionPayment`). When a
cancellation deleted the row of a confirmation mail, the worker creates another one,
and `onFailed` updates the id of the first (`notification.processor.ts:190`). An
attempt that fails between the mail and the update to SENT mails again, which
`docs/background_jobs_and_webhooks_reliability.md:73` excludes; `MailedOnce` allows
one further mail per failure for that reason. Two administrators who deactivate each
other at once leave none (`admin-user.service.ts:53`), and two overlapping review
transactions leave a rating that misses one review until the next one
(`review.service.ts:90`): `AdminRemains` and `RatingIsExact` are stated for the other
cases. A review does not move the search version, so searches show the old rating
for the lifetime of their entry.

*Bounds.* Two requests are enough for every race between two requests; with the two
worker jobs of a booking, up to four processes are in flight. `accounts` has three,
so that a request may meet two others of which one has stopped or finished. Two
bookings and two orders are what a conflict and a second payment need; `Price` is the
number of units a refund may be split into. `Horizon` ends the clock: 0 in `reservation`, where nothing
depends on the time once `PaymentWindow` is 0; 4 in `clock`,
the moment at which the overdue check of an appointment ending at 3 becomes due;
there `PaymentWindow` is 0 so that a reservation's expiration falls inside the
horizon. `MaxFaults` is 2 there, one less than the three attempts of the retry
policy: with three failures the last attempt is lost and the job goes to the failed
set. In `notifications`, where a job that is given up is the subject, it is 4: all
three attempts fail and the event is lost too, or two workers stop with the job and
the rest of the failures is spread over its attempts in any order;
`MaxRows` (6) leaves room for every row that is scheduled and for re-created ones. In
`marketplace` two changes and version 3 let a slow search span two increments, one
outage lets an invalidation be skipped. In `setup` a day has 7 minutes and a week 2
days: enough for three windows that are nested, touch, are equal or are apart, for
slots with and without buffer, and for an offset that crosses midnight and the end of
the week. In `row_locks` three transactions close every circle of two and of three,
and a second payment lets `expireBooking` wait for one payment while it holds the
other. Symmetry is used in runs without liveness only. TLC's own
deadlock check is off where a system whose clients, gateway and clock have nothing
left to do stops; `row_locks` keeps it, since connections never run out of work.

*Fairness* (`FairSpec`). Weak fairness of `Continue(h)`: the event loop finishes
what it has accepted. Weak fairness of `Worker(b)`: the processor keeps taking
due jobs. Weak fairness of `Tick`. Nothing is assumed of clients, of the gateway
or of failures. In `Notifications`, weak fairness of `Worker(b, k)`: the workers
take delayed jobs and finish their attempts; nothing is assumed of confirmers,
cancellations or failures. The other modules promise nothing that takes fairness.

## 4. Proofs

Each theorem holds for any sets of rows and requests and any bounds that the named
assumptions of its module allow. The assumptions say that markers such as `None` are
none of the values, that sets which are counted are finite, and that bounds are
numbers.

**`ReservationProofs`.** `ReservationInvariance` is the inductive invariant; from it
follow `TypeCorrect`, `ConfirmedIsPaid` and `LedgerTruth`. `NeverDoubleBooked` and
`CalendarRefinement`: the bookings table never holds two overlapping slots, and
`Reservation` implements `SlotCalendar`. `EventsAppliedOnce`: duplicates of a webhook
event have no effect. `ExpiryIsSafe`: the action property of `expireBooking`.
`FlaggedIsCaptured` and `ReviewsAreDue`: a REQUIRES_REFUND flag is raised for captured
money and a booking that is never pending again, and a booking is sent to review only
while CONFIRMED and overdue. `UnpaidGuarded`, `ConfirmationFollowedUp` and
`CapturesCloseOrders` are about the work that follows a commit, `EndsAreFinal` about
bookings that have ended; `LifeInvariance` and
`ChecksWait` state the invariants that several of them share.

`ConfirmedWasPaid` is not inductive: `VerifyCommit` writes CONFIRMED on the strength
of a signature checked earlier, `WebhookConfirm` on an event received earlier,
`CompleteCommit` on a status read earlier. `ReservationInv` therefore says what a
handler still knows at each of its steps (`HandlerBound`): the order it works on has
a row of the booking it works on; at `verify_tx` and in a refund the order is
captured; at `refund_tx` the gateway has accepted a refund; at `complete_tx` the
booking was paid, which remains true whatever its status is by then.
`EventsAreTrue` does the same for events in flight. `RowsLinked` and
`InsertsDistinct` (no two handlers insert a row for the same order) keep payment rows
in place, since otherwise an insert could overwrite a paid row. Double booking needs
only types: every write into a covered status passes `SlotFree`.

`FlaggedMoneyIsCaptured` needs `LifeInv` besides: a flagged booking would become
pending again if a second request inserted it, so the invariant says that no handler
is about to insert a booking that is there (`HandlerLife`, `CreatesDistinct`), and that
a webhook which saw a booking past PENDING_PAYMENT is still right when it raises the
flag. `ReviewOnlyWhenOverdue` needs `OverdueChecksWait`: a queued check is due at the
end of its own booking plus the grace period, through every retry, and a worker that
holds it took it no earlier.

`UnpaidIsGuarded` would fail if anyone could remove the expiration job of a booking
that stays pending. `GuardInv` says why nobody can: whoever is about to remove it has
itself moved the booking away from PENDING_PAYMENT, no handler moves one back
(`LifeInv`), and a job counts its attempts exactly (`RetryCounts`), so that `failed`
means they are used up. It has no exception for failures other than `dropped`.

`ConfirmedIsFollowedUp` holds whatever else happens to the booking. `FollowInv` reads
the steps after a confirming commit backwards: a handler at `confirm_notify` leaves
the overdue check waiting (`CheckWaits`), unless the moment of the check has passed or
someone withdrew it. With two confirmers the second `add` finds the job of the
first, and a cancellation that removes it has recorded that in `dropped`; a retried
check is no exception, because a check that was taken up is past due.

`CaptureClosesOrder` is about deliveries that decide on old copies. `CaptureInv` says
that a handler which saw a payment as SUCCESS, or as a status from which SUCCESS is
not reachable, is still right about its order being closed when it records the event:
closed statuses are left only for closed ones (`Closed`, `PaymentStep`), whether
expiration, `payment.failed` or a refund writes them.

`EndIsFinal` rests on the table of transitions, which leads out of no ended status:
whoever reads an ended booking does not get as far as to write it (`NobodyDecides`),
whether it cancels, completes, verifies or confirms, and of the other writers only a
refund finds it to write (`EndedStatus`, which takes from `LifeInv` that no request is
about to insert a booking that is there).

**`RowLockProofs`**: `LocksFollowProgram` is the inductive invariant `LockInv` (a
transaction holds exactly the locks that its program has taken up to its position),
and `DeadlocksHaveCause` follows from it for circles of any size. A set of transactions
each of which waits for another of the set, without a `verifyClientPayment` or
`refundPayment` among them: whoever holds an event row or a booking row is past that
statement (`EventOwner`, `BookingOwner`), so that a chain of waits leads from events
over bookings to payments. Whoever holds a payment and waits for more is
`expireBooking` (`PaymentOwner`), which waits for another payment of a booking it has
locked itself (`ExpiresOwn`): the owner of that payment would have to hold the same
booking. What is left is a circle within the exclusion constraint.

**`NotificationProofs`**: `NotificationTypes`, `NotificationsMailedOnce`,
`FailuresAreRecorded`, and the action properties `SentStaysFinal` and
`RemindersSilent`. The invariant `NotificationInv` counts the mails of a job against
the step it is at and the state of its row (`MailsAreCounted`): `MailedOnce` only
bounds the total, and a step may send again unless the row says SENT. That needs the
row to be the job's own (`JobHoldsRows`, `RowsTellJob`), hence that no two jobs and no
two confirming requests hold the same row (`RowsHaveOneOwner`, `PlanHoldsRow`), that
rows are never made twice (`RowsAreCreated`), and that a cleanup belongs to a
cancelled booking (`CleanupIsDue`). `FailureIsRecorded` needs the reason for which a
job was given up (`HasCause`): it has no attempts left, or two stalls.

**`ListingProofs`, reviews** (of `ReviewSpec`): `RatingExact`, `NoReviewInvented`,
`ReviewsAreKept`. The invariant `ReviewInv` says of an open transaction that its row
is its own (`RowsApart`), that an insert found no review (`FreshRow`), and that an
aggregate counts at most what will be committed (`CountsLess`); of one that met no
other, that it is the only one and its aggregate is that of what it sees
(`AloneIsAlone`, `AloneIsExact`). `CountsLess` is what survives when other
transactions commit or roll back in between. None of this depends on how the average
is computed. `ReviewTypes` and `AveragesAreRatings` do: the stored average is a
number, and one between 1.00 and 5.00 as soon as a review is counted. The sum is a
fold over a set; `SumCountsStars` shows that it is the number of pairs of a review and
one of its stars, which no order can change, and `AverageRange` bounds the rounded
quotient.

**`ListingProofs`, listing**: `ListingImplementsReviews` (every step of `Listing` is a
step of `ReviewSpec` or leaves its variables alone, so what is shown of the reviews
holds here),
`ListingTypes`, `SearchesAreFresh`, `ProfilesAreFresh`, `ShownRatingTrue`. For the
search the invariant looks at keys rather than answers: what is stored under the
current version, *or is about to be stored by a slow search*, knows every change that
has moved the version on (`CurrentKeyIsFresh`), what is under the version a search has
read satisfies that search (`KeyServesSearch`), and no key is used before the version
reaches it (`NoFutureKey`). For the profile, whoever knows the newest edition knows
its rating (`RatingOfEdition`).

**`AvailabilityProofs`**: `AvailabilityTypes`, `ValidationExact`, `ScheduleDisjoint`,
`SlotsNeverCollide`, for proposals of any length, any offerings and any number of
setters and visitors. Three lemmas carry them. `SortExists`: the windows of a day can
be sorted, so that `SortedDay` is what its definition says. `NeighboursSuffice`:
comparing neighbours in that order refuses exactly the proposals with an empty, short
or overlapping window. `LoopExists` and `LoopSlots`: the recursion of `WindowSlots` has
a solution, and in every solution slots lie in the window and do not overlap. The
invariant adds that a replacement which is alone deletes what is in the table when it
commits (`AloneDeletesAll`), so that only its own, validated rows remain.

**`ProfileProofs`** (of `ProfileSpec`): `ProfileTypeCorrect`, `NameClashIsARace`,
`DuplicateIsARace`, `EveryDocumentHasItsFile`, `DecisionIsSettled`,
`SuspensionFollowsVerification`. The invariant has three parts that share only the
types: what a request that looked up a name knows (`NamingInv`), what an upload knows
and that files in flight differ (`UploadInv`), what a decision that is still alone
has left in the profile and the documents (`DecisionInv`).

**`AccountProofs`**: `TypeCorrect`, `IdentitiesAreUnique`, `StatusesAreAudited`,
`LogoutsAreFinal`, `AnAdminRemains`. `Types` adds that the row a request has found
stays. `AuditInv`: a request about to write a status has announced it. `SessionInv`:
a user who logged out has no session and nobody is about to store one. `AdminInv`:
as long as status changes did not cross, at most one is under way, and past the
count it leaves another active administrator, because the target is not counted
alone and the acting administrator is not the target.

**`CatalogProofs`** (of `CatalogSpec`): `CatalogInvariance`, `CatalogTypes`,
`ServicesStrandWithCause`, `OfferingsStrandWithCause`. A removal checks first and writes
later, so the invariant says what is left of the check in between: a service that is
active in a category about to be removed came late (`RemovalLeavesLate`), and likewise
an offering of a service about to be removed (`RemovalLeavesLateOfferings`).

Induction over data is written as the choice of a least counterexample, from two facts
of the library: naturals and finite subsets are well-founded (`LeastNumber`,
`SmallestSubset`). For a recursive function an explicit solution is given first, since
nothing is known of a `CHOOSE` that has no candidate.

*Only model-checked*: liveness (`ScheduledReservationEnds`, `OverdueIsFlagged`,
`OutcomeRecorded`), since fairness is out of the prover's reach. Every invariant and
every action property of a passing run is stated by a theorem. The other way round,
the type invariants of the modules are proved (`TypeCorrect`, `NotificationTypes`,
`ListingTypes`, `AvailabilityTypes`, `ProfileTypeCorrect`, `CatalogTypes`, and that of
`RowLocks` with `LocksFollowProgram`); TLC checks that of `Reservation`, as a conjunct
of `ReservationInv`. `LockInv` is an aid of the proof and is not checked by a run.

## 5. Not modelled

* What `RowLocks` leaves out of PostgreSQL: the order in which waiting transactions are
  served, the timeout after which a deadlock is found, and the choice of its victim.
* BullMQ's stalled-job recovery in `Reservation`, and the removal of old jobs: in the
  models a job id is taken for good, while the code could add a job again once BullMQ
  has dropped the completed one (`queue.constants.ts:24`: a hundred later completions or
  an hour). `MailedOnce` is about confirmers that are less far apart than that.
* In `Profiles` and `Catalog`, two simplifications that no property depends on:
  `updateOwnProfile` looks at one row with the name, `NameTaken` at all of them, which
  differs only once a name is taken twice; and `FindAll` is the lookup in the cache and
  the query in one step.
* The notification inbox (one idempotent update per call); dashboard, audit and
  admin queries (read-only, or calls of services modelled here); filters,
  interceptors, throttling, logging and health probes.
* Hashes, signatures and the expiry of tokens; `VerifiedProviderGuard`, which only
  reads; text, price and place filters of the search; names of stored files.
* The cached list of services (`services:all`), which works as `categories:all` does.
  `delByPattern` and `deleteFile` have no callers.
* Update DTOs made with `PartialType` inherit the defaults of the create DTOs, so an
  update that leaves `isActive` out of a category writes the default; the model lets
  an update write either value.

## 6. What could follow

The modules planned for this project are all here. Worth adding when the code grows
in that direction: the notification inbox, once marking as read has a counter; the
recovery of stalled jobs in `Reservation`; and a `FairSpec` for the caches, if their
entries are ever to be refreshed rather than expire.
