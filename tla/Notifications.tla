---------------------------- MODULE Notifications ----------------------------
(***************************************************************************)
(* The notification queue of Service-hub: NotificationQueueService, the    *)
(* NotificationProcessor with its onFailed hook, the notifications table   *)
(* and the mail provider behind EmailService.                              *)
(*                                                                         *)
(* A booking that is confirmed gets up to four notifications, each a row   *)
(* in PostgreSQL and a delayed job in Redis with an id that is derived     *)
(* from the booking.  The two stores are written one after the other, by   *)
(* the confirming request, by a cancellation and by the workers.  Delays   *)
(* are left out: a delayed job may run at any later time.                  *)
(***************************************************************************)
EXTENDS Naturals, FiniteSets, Sequences

CONSTANTS
  Bookings,     \* confirmed bookings
  MaxRows,      \* bound: notification rows ever created
  Confirmers,   \* requests that confirm a booking (client and webhook)
  Plans,        \* what of the lifecycle still lies ahead on confirmation
  None,         \* no row, no booking
  Concurrency,  \* concurrency of the notification processor
  Attempts,     \* DEFAULT_RETRY_POLICY.attempts
  MaxFaults     \* bound: failures injected in one behaviour

\* NOTIFICATION_JOBS.
JobNames == {"booking.confirmation", "reminder.24h", "reminder.2h",
             "review.request"}

ASSUME RowAssumption ==
  MaxRows \in Nat /\ None \notin Nat /\ None \notin Bookings

ASSUME PlanAssumption == Plans \subseteq Seq(JobNames)

ASSUME RetryAssumption ==
  Concurrency \in Nat \ {0} /\ Attempts \in Nat \ {0} /\ MaxFaults \in Nat

VARIABLES
  status,   \* status of the bookings these notifications are about
  row,      \* table notifications
  created,  \* number of rows created so far
  job,      \* queue "notification", by booking and kind
  plan,     \* scheduleBookingLifecycleNotifications, by confirmer
  cleanup,  \* cancelBookingReminders, by booking
  mails,    \* messages the mail provider accepted, by booking and kind
  faults    \* failures injected so far

vars == <<status, row, created, job, plan, cleanup, mails, faults>>

-----------------------------------------------------------------------------
(* Types and initial state *)

\* Row ids, in the order of creation.
Rows == 1..MaxRows

Reminders == {"reminder.24h", "reminder.2h"}

NotificationType == {"BOOKING_CONFIRMED", "REMINDER", "REVIEW_REQUEST"}

\* Both reminders are rows of the same type.
TypeOf(k) ==
  CASE k = "booking.confirmation" -> "BOOKING_CONFIRMED"
    [] k \in Reminders            -> "REMINDER"
    [] k = "review.request"       -> "REVIEW_REQUEST"

\* "ABSENT" is a row that was never created or has been deleted.
Row == [state : {"ABSENT", "PENDING", "SENT", "FAILED"},
        b : Bookings \cup {None}, type : NotificationType]

\* A running job has loaded its row, checked the booking, sent its mail,
\* recorded that; "failing": BullMQ has given the job up and the failed event
\* is on its way; "failed": the hook has run; "lost": it never will.
JobState == {"none", "delayed", "active", "loaded", "checked", "mailed",
             "recorded", "completed", "failing", "failed", "lost"}

\* stalls counts the workers that stopped with the job, nid is
\* job.data.notificationId, at the row the worker loaded last.
Job == [state : JobState, attempts : Nat, stalls : Nat,
        nid : Rows \cup {None}, at : Rows \cup {None}]

NoJob == [state |-> "none", attempts |-> 0, stalls |-> 0, nid |-> None,
          at |-> None]

\* What a confirmer still has to schedule, and the row it has just created.
Plan == [b : Bookings, todo : Seq(JobNames), nid : Rows \cup {None}]

CleanupStep == {"idle", "reminder.24h", "reminder.2h", "review.request",
                "rows"}

\* The schedules the confirmers start with.
InitWith(todo) ==
  /\ plan \in [Confirmers -> [b : Bookings, todo : Plans \cup {<<>>}, nid : {None}]]
  /\ \A c \in Confirmers : plan[c].todo = todo[c]
  /\ status = [b \in Bookings |-> "CONFIRMED"]
  /\ row = [n \in Rows |-> [state |-> "ABSENT", b |-> None,
                            type |-> "REMINDER"]]
  /\ created = 0
  /\ job = [b \in Bookings |-> [k \in JobNames |-> NoJob]]
  /\ cleanup = [b \in Bookings |-> "idle"]
  /\ mails = [b \in Bookings |-> [k \in JobNames |-> 0]]
  /\ faults = 0

Init == \E todo \in [Confirmers -> Plans] : InitWith(todo)

-----------------------------------------------------------------------------
(* NotificationQueueService *)

\* A row with a fresh id.
NewRow(n, b, k) ==
  /\ n = created + 1
  /\ created' = n
  /\ row' = [row EXCEPT ![n] = [state |-> "PENDING", b |-> b,
                                type |-> TypeOf(k)]]

SetJob(b, k, j) == job' = [job EXCEPT ![b][k] = j]

\* sendNotification, first half: the PENDING row.
CreateRow(c, n) ==
  /\ plan[c].todo # <<>> /\ plan[c].nid = None
  /\ NewRow(n, plan[c].b, Head(plan[c].todo))
  /\ plan' = [plan EXCEPT ![c].nid = n]
  /\ UNCHANGED <<status, job, cleanup, mails, faults>>

\* The job id is derived from the booking, so a job that is already there is
\* not added again.  (Mutant: no job id.)
AddsAlways(b, k) == TRUE

NotQueued(b, k) == job[b][k].state = "none"

\* sendNotification, second half: the job.
AddJob(c) ==
  LET b == plan[c].b
      k == Head(plan[c].todo) IN
  /\ plan[c].nid # None
  /\ IF NotQueued(b, k)
     THEN SetJob(b, k, [NoJob EXCEPT !.state = "delayed",
                                     !.nid = plan[c].nid])
     ELSE UNCHANGED job
  /\ plan' = [plan EXCEPT ![c] = [b |-> b, todo |-> Tail(plan[c].todo),
                                  nid |-> None]]
  /\ UNCHANGED <<status, row, created, cleanup, mails, faults>>

\* The confirming request dies; what it has not scheduled stays unscheduled.
ConfirmerFails(c) ==
  /\ plan[c].todo # <<>>
  /\ faults < MaxFaults
  /\ faults' = faults + 1
  /\ plan' = [plan EXCEPT ![c] = [b |-> plan[c].b, todo |-> <<>>,
                                  nid |-> None]]
  /\ UNCHANGED <<status, row, created, job, cleanup, mails>>

\* A customer's cancellation has committed and cancelBookingReminders begins.
CancelBooking(b) ==
  /\ status[b] = "CONFIRMED"
  /\ status' = [status EXCEPT ![b] = "CANCELLED"]
  /\ cleanup' = [cleanup EXCEPT ![b] = "reminder.24h"]
  /\ UNCHANGED <<row, created, job, plan, mails, faults>>

\* A refund cancels the booking and leaves the notification queue alone.
RefundBooking(b) ==
  /\ status[b] = "CONFIRMED"
  /\ status' = [status EXCEPT ![b] = "CANCELLED"]
  /\ UNCHANGED <<row, created, job, plan, cleanup, mails, faults>>

Running(j) ==
  j.state \in {"active", "loaded", "checked", "mailed", "recorded"}

\* The job ids of cancelBookingReminders, in their order.
AfterRemoval(k) ==
  CASE k = "reminder.24h"   -> "reminder.2h"
    [] k = "reminder.2h"    -> "review.request"
    [] k = "review.request" -> "rows"

\* job.remove() throws while a worker holds the job; the rest is skipped.
CleanupRemove(b) ==
  LET k == cleanup[b] IN
  /\ k \in JobNames
  /\ IF Running(job[b][k])
     THEN /\ cleanup' = [cleanup EXCEPT ![b] = "idle"]
          /\ UNCHANGED job
     ELSE /\ cleanup' = [cleanup EXCEPT ![b] = AfterRemoval(k)]
          /\ SetJob(b, k, NoJob)
  /\ UNCHANGED <<status, row, created, plan, mails, faults>>

\* deleteMany of the booking's PENDING rows, those of the confirmation mail
\* included.
CleanupRows(b) ==
  /\ cleanup[b] = "rows"
  /\ row' = [n \in Rows |->
               IF row[n].b = b /\ row[n].state = "PENDING"
               THEN [row[n] EXCEPT !.state = "ABSENT"] ELSE row[n]]
  /\ cleanup' = [cleanup EXCEPT ![b] = "idle"]
  /\ UNCHANGED <<status, created, job, plan, mails, faults>>

-----------------------------------------------------------------------------
(* NotificationProcessor *)

BusyWorkers ==
  Cardinality({p \in Bookings \X JobNames : Running(job[p[1]][p[2]])})

StartJob(b, k) ==
  /\ job[b][k].state = "delayed"
  /\ BusyWorkers < Concurrency
  /\ SetJob(b, k, [job[b][k] EXCEPT !.state = "active"])
  /\ UNCHANGED <<status, row, created, plan, cleanup, mails, faults>>

\* Present rows the worker may work on: its own by id, otherwise any PENDING
\* row of the booking with the same type.
Tracked(b, k) ==
  LET own == job[b][k].nid IN
  IF row[own].state # "ABSENT"
  THEN {own}
  ELSE {n \in Rows : row[n].b = b /\ row[n].type = TypeOf(k)
                       /\ row[n].state = "PENDING"}

\* The idempotency check.  (Mutant: it is left out.)
NeverSkips(n) == FALSE

AlreadySent(n) == row[n].state = "SENT"

\* A row that is SENT already ends the job.
LoadRow(b, k, n) ==
  /\ job[b][k].state = "active"
  /\ n \in Tracked(b, k)
  /\ SetJob(b, k, [job[b][k] EXCEPT !.at = n,
                     !.state = IF AlreadySent(n)
                               THEN "completed" ELSE "loaded"])
  /\ UNCHANGED <<status, row, created, plan, cleanup, mails, faults>>

\* No row is left: the worker creates the tracking record itself.
RecreateRow(b, k, n) ==
  /\ job[b][k].state = "active"
  /\ Tracked(b, k) = {}
  /\ NewRow(n, b, k)
  /\ SetJob(b, k, [job[b][k] EXCEPT !.at = n, !.state = "loaded"])
  /\ UNCHANGED <<status, plan, cleanup, mails, faults>>

\* The retry policy.  (Mutant: the error is not rethrown.)
SwallowsError(j) == [j EXCEPT !.attempts = @ + 1, !.state = "completed"]

AttemptFailed(j) ==
  [j EXCEPT !.attempts = @ + 1,
            !.state = IF j.attempts + 1 < Attempts
                      THEN "delayed" ELSE "failing"]

\* The pre-condition of reminders.  (Mutant: only EXPIRED is tested.)
SuppressedIfExpired(b, k) == k \in Reminders /\ status[b] = "EXPIRED"

Suppressed(b, k) ==
  k \in Reminders /\ status[b] \in {"CANCELLED", "EXPIRED"}

\* Deleting a row that is gone throws and fails the attempt.
CheckBooking(b, k) ==
  LET j == job[b][k] IN
  /\ j.state = "loaded"
  /\ \/ /\ ~Suppressed(b, k)
        /\ SetJob(b, k, [j EXCEPT !.state = "checked"])
        /\ UNCHANGED row
     \/ /\ Suppressed(b, k) /\ row[j.at].state # "ABSENT"
        /\ row' = [row EXCEPT ![j.at].state = "ABSENT"]
        /\ SetJob(b, k, [j EXCEPT !.state = "completed"])
     \/ /\ Suppressed(b, k) /\ row[j.at].state = "ABSENT"
        /\ SetJob(b, k, AttemptFailed(j))
        /\ UNCHANGED row
  /\ UNCHANGED <<status, created, plan, cleanup, mails, faults>>

SendMail(b, k) ==
  /\ job[b][k].state = "checked"
  /\ mails' = [mails EXCEPT ![b][k] = @ + 1]
  /\ SetJob(b, k, [job[b][k] EXCEPT !.state = "mailed"])
  /\ UNCHANGED <<status, row, created, plan, cleanup, faults>>

\* The update to SENT throws if the row is gone, the one in the catch block
\* throws again, and the attempt fails.
MarkSent(b, k) ==
  LET j == job[b][k] IN
  /\ j.state = "mailed"
  /\ IF row[j.at].state # "ABSENT"
     THEN /\ row' = [row EXCEPT ![j.at].state = "SENT"]
          /\ SetJob(b, k, [j EXCEPT !.state = "recorded"])
     ELSE /\ SetJob(b, k, AttemptFailed(j))
          /\ UNCHANGED row
  /\ UNCHANGED <<status, created, plan, cleanup, mails, faults>>

\* The attempt returns and BullMQ completes the job.
Acknowledge(b, k) ==
  /\ job[b][k].state = "recorded"
  /\ SetJob(b, k, [job[b][k] EXCEPT !.state = "completed"])
  /\ UNCHANGED <<status, row, created, plan, cleanup, mails, faults>>

\* The mail provider refuses, or the database cannot be reached.
AttemptThrows(b, k) ==
  /\ Running(job[b][k]) /\ job[b][k].state # "recorded"
  /\ faults < MaxFaults
  /\ faults' = faults + 1
  /\ SetJob(b, k, AttemptFailed(job[b][k]))
  /\ UNCHANGED <<status, row, created, plan, cleanup, mails>>

\* maxStalledCount, left at its default.
MaxStalled == 1

\* The worker stops and BullMQ finds its job stalled.  The first time it queues
\* the job again, the second time it fails it, whatever is left of its
\* attempts; versions of BullMQ differ in whether that counts as one.
WorkerStalls(b, k) ==
  LET j == [job[b][k] EXCEPT !.stalls = @ + 1] IN
  /\ Running(job[b][k])
  /\ faults < MaxFaults
  /\ faults' = faults + 1
  /\ \/ /\ j.stalls <= MaxStalled
        /\ SetJob(b, k, [j EXCEPT !.state = "delayed"])
     \/ /\ j.stalls > MaxStalled
        /\ \E counted \in {0, 1} :
             SetJob(b, k, [j EXCEPT !.state = "failing", !.attempts = @ + counted])
  /\ UNCHANGED <<status, row, created, plan, cleanup, mails>>

\* The hook's own test.  (Mutant: off by one.)
MoreThanAllowed(j) == j.attempts > Attempts

RetriesSpent(j) == j.attempts >= Attempts

\* The hook updates the row the job was created with, whatever its status.
HookMarksFailed(n) ==
  row' = IF row[n].state = "ABSENT" THEN row
         ELSE [row EXCEPT ![n].state = "FAILED"]

OnFailed(b, k) ==
  LET j == job[b][k] IN
  /\ j.state = "failing"
  /\ IF RetriesSpent(j) THEN HookMarksFailed(j.nid) ELSE UNCHANGED row
  /\ SetJob(b, k, [j EXCEPT !.state = "failed"])
  /\ UNCHANGED <<status, created, plan, cleanup, mails, faults>>

\* The process stops before it has emitted the event, or the hook's update
\* throws: nobody repeats it.
HookFails(b, k) ==
  /\ job[b][k].state = "failing"
  /\ faults < MaxFaults
  /\ faults' = faults + 1
  /\ SetJob(b, k, [job[b][k] EXCEPT !.state = "lost"])
  /\ UNCHANGED <<status, row, created, plan, cleanup, mails>>

-----------------------------------------------------------------------------
(* The next-state relation *)

Confirmer(c) == (\E n \in Rows : CreateRow(c, n)) \/ AddJob(c)

Cleanup(b) == CleanupRemove(b) \/ CleanupRows(b)

Worker(b, k) ==
  \/ StartJob(b, k)
  \/ \E n \in Rows : LoadRow(b, k, n) \/ RecreateRow(b, k, n)
  \/ CheckBooking(b, k) \/ SendMail(b, k) \/ MarkSent(b, k)
  \/ Acknowledge(b, k) \/ OnFailed(b, k)

Next ==
  \/ \E c \in Confirmers : Confirmer(c) \/ ConfirmerFails(c)
  \/ \E b \in Bookings : CancelBooking(b) \/ RefundBooking(b) \/ Cleanup(b)
  \/ \E b \in Bookings, k \in JobNames :
       Worker(b, k) \/ AttemptThrows(b, k) \/ WorkerStalls(b, k) \/ HookFails(b, k)

Spec == Init /\ [][Next]_vars

\* The workers keep taking jobs and finish what they have taken.
FairSpec ==
  Spec /\ \A b \in Bookings, k \in JobNames : WF_vars(Worker(b, k))

-----------------------------------------------------------------------------
(* Correctness *)

\* Types of the table, the queue and the processes.
TypeOK ==
  /\ status \in [Bookings -> {"CONFIRMED", "CANCELLED"}]
  /\ row \in [Rows -> Row]
  /\ created \in 0..MaxRows
  /\ job \in [Bookings -> [JobNames -> Job]]
  /\ plan \in [Confirmers -> Plan]
  /\ cleanup \in [Bookings -> CleanupStep]
  /\ mails \in [Bookings -> [JobNames -> Nat]]
  /\ faults \in 0..MaxFaults

\* Two confirmers of one booking schedule its notifications twice, and yet,
\* until somebody cancels, every notification is mailed once, and once more at
\* most for each attempt that failed or stopped between the mail and the SENT
\* row (the deterministic job ids of sendNotification, the SENT check).
MailedOnce ==
  \A b \in Bookings, k \in JobNames :
    status[b] = "CONFIRMED" => mails[b][k] <= 1 + faults

\* No reminder of b is between the check of the booking and its mail.
Quiet(b) ==
  /\ status[b] = "CANCELLED"
  /\ \A k \in Reminders : job[b][k].state # "checked"

\* Once a booking is cancelled and the reminders that had passed their check
\* are out, no reminder is mailed any more, although jobs may have survived
\* the cleanup or been scheduled after it (the pre-condition of process).
RemindersStaySilent ==
  [][\A b \in Bookings :
       Quiet(b) => Quiet(b)' /\ \A k \in Reminders :
                                  mails'[b][k] = mails[b][k]]_vars

\* Two workers stopped with the job, and it had attempts left.
StalledOut(j) == j.stalls > MaxStalled /\ j.attempts < Attempts

\* A job whose attempts are spent leaves the row it was created with FAILED once
\* the hook has run, unless a cancellation deleted it, and no other job that
\* tracks the same row, and no late update, takes the failure back.  Only a job
\* that was failed for its second stall, with attempts left, is passed over by
\* the hook (onFailed).
FailureIsRecorded ==
  \A b \in Bookings, k \in JobNames :
    job[b][k].state = "failed" =>
      \/ row[job[b][k].nid].state \in {"FAILED", "ABSENT"}
      \/ StalledOut(job[b][k])

\* No message goes out for a row that is SENT: not when the worker stopped
\* between that update and the acknowledgement and the job runs again, and
\* not when a second job tracks the same row (the SENT check of process).
SentIsFinal ==
  [][\A b \in Bookings, k \in JobNames :
       mails'[b][k] # mails[b][k] => row[job[b][k].at].state # "SENT"]_vars

\* Nobody is left to record what became of the job: the hook has passed it
\* over, or never ran.
Unrecorded(j) ==
  \/ j.state = "lost"
  \/ j.state = "failed" /\ StalledOut(j)

\* The record of every queued notification ends up with an outcome: it is
\* SENT, FAILED or deleted, or its job was removed by a cancellation, even
\* when attempts fail, a worker stops with the job and rows vanish under it.
\* PENDING may stay for good only when a second worker stopped with the same
\* job, or the failure hook did not get to its update (process, onFailed).
OutcomeRecorded ==
  \A b \in Bookings, k \in JobNames :
    job[b][k].state = "delayed"
      ~> \/ job[b][k].state = "none"
         \/ row[job[b][k].nid].state # "PENDING"
         \/ Unrecorded(job[b][k])

=============================================================================
