-------------------------- MODULE NotificationProofs --------------------------
(***************************************************************************)
(* The notification queue for any number of bookings, confirmers, rows and *)
(* injected failures.                                                      *)
(***************************************************************************)
EXTENDS Notifications, SequenceTheorems, TLAPS

-----------------------------------------------------------------------------
(* The inductive invariant *)

\* Only rows that were created are in the table, and one that was deleted
\* belonged to a cancelled booking.
RowsAreCreated ==
  /\ \A n \in Rows : row[n].state # "ABSENT" => n <= created
  /\ \A n \in 1..created :
       /\ row[n].b \in Bookings
       /\ row[n].state = "ABSENT" => status[row[n].b] = "CANCELLED"

\* cancelBookingReminders runs for cancelled bookings.
CleanupIsDue == \A b \in Bookings : cleanup[b] # "idle" => status[b] = "CANCELLED"

\* Row n was created for the notification k of b.
MadeFor(n, b, k) == n \in 1..created /\ row[n].b = b /\ row[n].type = TypeOf(k)

\* A confirmer between the two halves of sendNotification holds a row of the
\* notification it is about to queue.
PlanHoldsRow ==
  \A c \in Confirmers : plan[c].nid # None =>
    /\ plan[c].todo # <<>>
    /\ MadeFor(plan[c].nid, plan[c].b, Head(plan[c].todo))

\* No row is held twice, by confirmers or by jobs.
RowsHaveOneOwner ==
  /\ \A c, d \in Confirmers : plan[c].nid # None /\ c # d => plan[c].nid # plan[d].nid
  /\ \A c \in Confirmers, b \in Bookings, k \in JobNames :
       plan[c].nid # None => plan[c].nid # job[b][k].nid
  /\ \A b \in Bookings, i, k \in JobNames :
       job[b][i].nid # None /\ i # k => job[b][i].nid # job[b][k].nid

\* The rows of a job: the one it was created with, and the one its worker
\* loaded, which is another one only after a cancellation.
JobHoldsRows(b, k) ==
  LET j == job[b][k] IN
  /\ j.state = "none" <=> j.nid = None
  /\ j.state # "none" => MadeFor(j.nid, b, k)
  /\ j.state \in {"loaded", "checked", "mailed", "recorded"} => MadeFor(j.at, b, k)
  /\ j.state = "loaded" /\ status[b] = "CONFIRMED" => j.at = j.nid
  /\ j.state \in {"checked", "mailed"} /\ (status[b] = "CONFIRMED" \/ k \in Reminders)
       => j.at = j.nid

\* Why BullMQ gives a job up.
HasCause(j) == RetriesSpent(j) \/ j.stalls > MaxStalled

\* The worker is going to send a mail for its row.
WillMail(b, k) ==
  \/ job[b][k].state = "checked"
  \/ job[b][k].state = "loaded" /\ ~Suppressed(b, k)

\* What the rows say of a job, and its counters of the hook that is to come.
RowsTellJob(b, k) ==
  /\ WillMail(b, k) => row[job[b][k].at].state # "SENT"
  /\ job[b][k].state = "failing" => HasCause(job[b][k])
  /\ job[b][k].state = "failed" =>
       row[job[b][k].nid].state \in {"FAILED", "ABSENT"} \/ StalledOut(job[b][k])

\* Until the booking is cancelled, a mail was sent more than faults times only
\* by the attempt that is under way, or if the row says SENT.
MailsAreCounted(b, k) ==
  LET j == job[b][k]
      m == mails[b][k] IN
  status[b] = "CONFIRMED" =>
    /\ m <= 1 + faults
    /\ j.state = "none" => m = 0
    /\ j.state \in {"loaded", "checked"} => m <= faults
    /\ j.state \in {"delayed", "active"} =>
         m <= faults \/ row[j.nid].state = "SENT"

JobOK(b, k) == JobHoldsRows(b, k) /\ RowsTellJob(b, k) /\ MailsAreCounted(b, k)

NotificationInv ==
  /\ TypeOK
  /\ RowsAreCreated /\ CleanupIsDue /\ PlanHoldsRow /\ RowsHaveOneOwner
  /\ \A b \in Bookings, k \in JobNames : JobOK(b, k)

-----------------------------------------------------------------------------
(* Shapes *)

LEMMA NoJobShape ==
  NoJob \in Job /\ NoJob.state = "none" /\ NoJob.nid = None
BY RowAssumption DEF NoJob, Job, JobState

LEMMA TypeOfShape ==
  /\ \A k \in JobNames : TypeOf(k) \in NotificationType
  /\ \A i, k \in JobNames :
       TypeOf(i) = TypeOf(k) /\ i # k => i \in Reminders /\ k \in Reminders
BY DEF TypeOf, JobNames, NotificationType, Reminders

LEMMA AttemptFailedShape ==
  ASSUME NEW j \in Job
  PROVE  /\ AttemptFailed(j) \in Job
         /\ AttemptFailed(j).nid = j.nid /\ AttemptFailed(j).at = j.at
         /\ AttemptFailed(j).state \in {"delayed", "failing"}
         /\ AttemptFailed(j).state = "failing" => HasCause(AttemptFailed(j))
<1> DEFINE n == j.attempts + 1
           s == IF j.attempts + 1 < Attempts THEN "delayed" ELSE "failing"
<1>1. n \in Nat
  BY DEF Job
<1>2. s \in {"delayed", "failing"} /\ s \in JobState /\ (s = "failing" => n >= Attempts)
  BY <1>1, RetryAssumption DEF JobState, Job
<1>3. AttemptFailed(j) = [j EXCEPT !.attempts = n, !.state = s]
  BY DEF AttemptFailed
<1> HIDE DEF n, s
<1>4. AttemptFailed(j) \in Job /\ AttemptFailed(j).attempts = n /\ AttemptFailed(j).state = s
  BY <1>1, <1>2, <1>3 DEF Job
<1>5. AttemptFailed(j).nid = j.nid /\ AttemptFailed(j).at = j.at
  BY <1>3 DEF Job
<1> QED BY <1>2, <1>4, <1>5 DEF HasCause, RetriesSpent

\* A stall counts against the job, and the second one ends it.
LEMMA StallShape ==
  ASSUME NEW b \in Bookings, NEW k \in JobNames, job[b][k] \in Job, WorkerStalls(b, k)
  PROVE  \E j \in Job :
           /\ SetJob(b, k, j) /\ j.nid = job[b][k].nid
           /\ j.state \in {"delayed", "failing"}
           /\ j.state = "failing" => HasCause(j)
<1> DEFINE i == [job[b][k] EXCEPT !.stalls = @ + 1]
           again == [i EXCEPT !.state = "delayed"]
           ended(c) == [i EXCEPT !.state = "failing", !.attempts = @ + c]
<1>1. i \in Job /\ i.nid = job[b][k].nid
  BY DEF Job
<1>2. \/ SetJob(b, k, again)
      \/ i.stalls > MaxStalled /\ \E c \in {0, 1} : SetJob(b, k, ended(c))
  BY DEF WorkerStalls
<1> HIDE DEF i
<1>3. again \in Job /\ again.nid = i.nid /\ again.state = "delayed"
  BY <1>1 DEF Job, JobState
<1>4. ASSUME NEW c \in {0, 1}
      PROVE  /\ ended(c) \in Job /\ ended(c).nid = i.nid /\ ended(c).state = "failing"
             /\ ended(c).stalls = i.stalls
  <2>1. i.attempts + c \in Nat
    BY <1>1, <1>4 DEF Job
  <2> QED BY <1>1, <2>1 DEF Job, JobState
<1>5. CASE SetJob(b, k, again)
  BY <1>1, <1>3, <1>5
<1>6. CASE i.stalls > MaxStalled /\ \E c \in {0, 1} : SetJob(b, k, ended(c))
  <2>1. PICK c \in {0, 1} : SetJob(b, k, ended(c))
    BY <1>6
  <2>2. HasCause(ended(c))
    BY <1>4, <1>6, <2>1 DEF HasCause
  <2> QED BY <1>1, <1>4, <2>1, <2>2
<1> QED BY <1>2, <1>5, <1>6

\* What a worker does changes the state of its job and the row it works on.
LEMMA MovedShape ==
  ASSUME NEW j \in Job, NEW s \in JobState
  PROVE  /\ [j EXCEPT !.state = s] \in Job
         /\ [j EXCEPT !.state = s].state = s
         /\ [j EXCEPT !.state = s].nid = j.nid
         /\ [j EXCEPT !.state = s].at = j.at
BY DEF Job

LEMMA SetJobShape ==
  ASSUME TypeOK, NEW b \in Bookings, NEW k \in JobNames, NEW j \in Job, SetJob(b, k, j)
  PROVE  /\ job' \in [Bookings -> [JobNames -> Job]]
         /\ job'[b][k] = j
         /\ \A e \in Bookings, i \in JobNames : e # b \/ i # k => job'[e][i] = job[e][i]
BY DEF SetJob, TypeOK

LEMMA NotificationStart == Init => NotificationInv
<1> SUFFICES ASSUME NEW todo \in [Confirmers -> Plans], InitWith(todo)
             PROVE  NotificationInv
  BY DEF Init
<1>1. \A c \in Confirmers : plan[c].nid = None /\ plan[c] \in Plan
  BY PlanAssumption DEF InitWith, Plan
<1>2. \A b \in Bookings, k \in JobNames :
        job[b][k] \in Job /\ job[b][k].state = "none" /\ job[b][k].nid = None
  BY NoJobShape DEF InitWith
<1>3. TypeOK
  BY <1>1, <1>2, RowAssumption, RetryAssumption
  DEF InitWith, TypeOK, Row, NotificationType, CleanupStep
<1>4. RowsAreCreated /\ CleanupIsDue
  BY DEF InitWith, RowsAreCreated, CleanupIsDue
<1>5. PlanHoldsRow /\ RowsHaveOneOwner
  BY <1>1, <1>2 DEF PlanHoldsRow, RowsHaveOneOwner
<1>6. ASSUME NEW b \in Bookings, NEW k \in JobNames PROVE JobOK(b, k)
  <2>1. JobHoldsRows(b, k) /\ RowsTellJob(b, k)
    BY <1>2 DEF JobHoldsRows, RowsTellJob, WillMail
  <2>2. MailsAreCounted(b, k)
    BY <1>2 DEF InitWith, MailsAreCounted
  <2> QED BY <2>1, <2>2 DEF JobOK
<1> QED BY <1>3, <1>4, <1>5, <1>6 DEF NotificationInv

-----------------------------------------------------------------------------
(* What other processes may do to a job *)

\* A job stays right when others touch the rows it depends on no further than
\* by deleting them with the booking cancelled.
LEMMA JobKept ==
  ASSUME TypeOK, TypeOK', NEW b \in Bookings, NEW k \in JobNames, JobOK(b, k),
         job'[b][k] = job[b][k], mails'[b][k] = mails[b][k],
         faults <= faults', created <= created',
         status'[b] = status[b] \/ status'[b] = "CANCELLED",
         \A n \in 1..created : row'[n].b = row[n].b /\ row'[n].type = row[n].type,
         job[b][k].state # "none" =>
           \/ row'[job[b][k].nid].state = row[job[b][k].nid].state
           \/ row'[job[b][k].nid].state = "ABSENT" /\ status'[b] = "CANCELLED",
         WillMail(b, k) => row'[job[b][k].at].state # "SENT"
  PROVE  JobOK(b, k)'
<1> USE DEF JobOK
<1>1. /\ created \in Nat /\ created' \in Nat
      /\ status[b] \in {"CONFIRMED", "CANCELLED"}
      /\ faults \in Nat /\ faults' \in Nat /\ mails[b][k] \in Nat
  BY RowAssumption, RetryAssumption DEF TypeOK
<1>2. \A n : MadeFor(n, b, k) => MadeFor(n, b, k)'
  BY <1>1 DEF MadeFor
<1>3. JobHoldsRows(b, k)'
  BY <1>1, <1>2 DEF JobHoldsRows
<1>4. WillMail(b, k)' => WillMail(b, k)
  BY <1>1 DEF WillMail, Suppressed
<1>5. RowsTellJob(b, k)'
  BY <1>4 DEF RowsTellJob
<1>6. MailsAreCounted(b, k)'
  BY <1>1 DEF MailsAreCounted
<1> QED BY <1>3, <1>5, <1>6

\* A step of one job that leaves the rows alone.
LEMMA JobStep ==
  ASSUME NotificationInv, NEW b \in Bookings, NEW k \in JobNames, NEW j \in Job,
         SetJob(b, k, j), j.nid = job[b][k].nid,
         UNCHANGED <<status, row, created, plan, cleanup>>,
         faults' \in 0..MaxFaults, faults <= faults',
         mails' \in [Bookings -> [JobNames -> Nat]],
         \A e \in Bookings, i \in JobNames :
           e # b \/ i # k => mails'[e][i] = mails[e][i],
         JobOK(b, k)'
  PROVE  NotificationInv'
<1> USE DEF NotificationInv
<1>1. /\ job' \in [Bookings -> [JobNames -> Job]]
      /\ job'[b][k] = j
      /\ \A e \in Bookings, i \in JobNames : e # b \/ i # k => job'[e][i] = job[e][i]
  BY SetJobShape
<1>2. TypeOK'
  BY <1>1 DEF TypeOK
<1>3. RowsAreCreated' /\ CleanupIsDue' /\ PlanHoldsRow'
  BY DEF RowsAreCreated, CleanupIsDue, PlanHoldsRow, MadeFor
<1>4. \A e \in Bookings, i \in JobNames : job'[e][i].nid = job[e][i].nid
  BY <1>1
<1>5. RowsHaveOneOwner'
  BY <1>4 DEF RowsHaveOneOwner
<1>6. ASSUME NEW e \in Bookings, NEW i \in JobNames PROVE JobOK(e, i)'
  <2>1. CASE e # b \/ i # k
    <3>1. created <= created'
      BY RowAssumption DEF TypeOK
    <3>2. WillMail(e, i) => row'[job[e][i].at].state # "SENT"
      BY DEF JobOK, RowsTellJob
    <3> QED BY <1>1, <1>2, <2>1, <3>1, <3>2, JobKept
  <2> QED BY <2>1
<1> QED BY <1>2, <1>3, <1>5, <1>6

-----------------------------------------------------------------------------
(* Steps of a worker that leave the rows alone *)

\* The ranges that the arithmetic of the steps needs.
LEMMA Ranges ==
  ASSUME TypeOK, NEW b \in Bookings, NEW k \in JobNames
  PROVE  /\ job[b][k] \in Job /\ mails[b][k] \in Nat
         /\ status[b] \in {"CONFIRMED", "CANCELLED"}
         /\ faults \in Nat /\ created \in Nat /\ created <= MaxRows
BY RowAssumption, RetryAssumption DEF TypeOK

\* A job that is queued again, or given up, after an attempt: a mail that went
\* out in it is paid for by a fault, unless the booking is cancelled.
LEMMA AttemptEnds ==
  ASSUME NotificationInv, NEW b \in Bookings, NEW k \in JobNames, NEW j \in Job,
         Running(job[b][k]), SetJob(b, k, j), j.nid = job[b][k].nid,
         j.state \in {"delayed", "failing"}, j.state = "failing" => HasCause(j),
         UNCHANGED <<status, row, created, plan, cleanup, mails>>,
         \/ faults < MaxFaults /\ faults' = faults + 1
         \/ faults' = faults /\ status[b] = "CANCELLED"
  PROVE  NotificationInv'
<1>1. TypeOK /\ JobOK(b, k)
  BY DEF NotificationInv
<1>2. job'[b][k] = j
  BY <1>1, SetJobShape
<1>3. /\ faults \in Nat /\ mails[b][k] \in Nat
      /\ faults' \in 0..MaxFaults /\ faults <= faults'
      /\ faults' = faults + 1 \/ status[b] # "CONFIRMED"
  BY <1>1, RetryAssumption DEF TypeOK
<1>4. job[b][k].state # "none"
  BY DEF Running
<1>5. JobHoldsRows(b, k)'
  BY <1>1, <1>2, <1>4 DEF JobOK, JobHoldsRows, MadeFor
<1>6. RowsTellJob(b, k)'
  BY <1>2 DEF RowsTellJob, WillMail, HasCause, RetriesSpent
<1>7. MailsAreCounted(b, k)'
  BY <1>1, <1>2, <1>3 DEF JobOK, MailsAreCounted
<1>8. /\ mails' \in [Bookings -> [JobNames -> Nat]]
      /\ \A e \in Bookings, i \in JobNames : mails'[e][i] = mails[e][i]
  BY <1>1 DEF TypeOK
<1> QED BY <1>3, <1>5, <1>6, <1>7, <1>8, JobStep DEF JobOK

LEMMA FaultSteps ==
  ASSUME NotificationInv, NEW b \in Bookings, NEW k \in JobNames,
         AttemptThrows(b, k) \/ WorkerStalls(b, k)
  PROVE  NotificationInv'
<1>1. job[b][k] \in Job
  BY DEF NotificationInv, TypeOK
<1>2. CASE AttemptThrows(b, k)
  BY <1>1, <1>2, AttemptFailedShape, AttemptEnds DEF AttemptThrows
<1>3. CASE WorkerStalls(b, k)
  <2>1. PICK j \in Job :
          /\ SetJob(b, k, j) /\ j.nid = job[b][k].nid
          /\ j.state \in {"delayed", "failing"} /\ (j.state = "failing" => HasCause(j))
    BY <1>1, <1>3, StallShape
  <2> QED BY <1>3, <2>1, AttemptEnds DEF WorkerStalls
<1> QED BY <1>2, <1>3

\* A job goes on without a mail, a failure or a change of a row.
LEMMA JobMoves ==
  ASSUME NotificationInv, NEW b \in Bookings, NEW k \in JobNames, NEW j \in Job,
         SetJob(b, k, j), j.nid = job[b][k].nid,
         UNCHANGED <<status, row, created, plan, cleanup, mails, faults>>,
         JobOK(b, k)'
  PROVE  NotificationInv'
<1>1. /\ faults' \in 0..MaxFaults /\ faults <= faults'
      /\ mails' \in [Bookings -> [JobNames -> Nat]]
      /\ \A e \in Bookings, i \in JobNames : mails'[e][i] = mails[e][i]
  BY RetryAssumption DEF NotificationInv, TypeOK
<1> QED BY <1>1, JobStep

LEMMA StartJobStep ==
  ASSUME NotificationInv, NEW b \in Bookings, NEW k \in JobNames, StartJob(b, k)
  PROVE  NotificationInv'
<1> DEFINE j == [job[b][k] EXCEPT !.state = "active"]
<1>1. TypeOK /\ JobOK(b, k) /\ job[b][k] \in Job
  BY DEF NotificationInv, TypeOK
<1>2. j \in Job /\ j.nid = job[b][k].nid /\ j.state = "active"
  BY <1>1, MovedShape DEF JobState
<1>3. SetJob(b, k, j) /\ job[b][k].state = "delayed"
      /\ UNCHANGED <<status, row, created, plan, cleanup, mails, faults>>
  BY DEF StartJob
<1> HIDE DEF j
<1>4. job'[b][k] = j
  BY <1>1, <1>2, <1>3, SetJobShape
<1>5. JobOK(b, k)'
  BY <1>1, <1>2, <1>3, <1>4
  DEF JobOK, JobHoldsRows, RowsTellJob, MailsAreCounted, MadeFor, WillMail
<1> QED BY <1>2, <1>3, <1>5, JobMoves

LEMMA AcknowledgeStep ==
  ASSUME NotificationInv, NEW b \in Bookings, NEW k \in JobNames, Acknowledge(b, k)
  PROVE  NotificationInv'
<1> DEFINE j == [job[b][k] EXCEPT !.state = "completed"]
<1>1. TypeOK /\ JobOK(b, k) /\ job[b][k] \in Job
  BY DEF NotificationInv, TypeOK
<1>2. j \in Job /\ j.nid = job[b][k].nid /\ j.state = "completed"
  BY <1>1, MovedShape DEF JobState
<1>3. SetJob(b, k, j) /\ job[b][k].state = "recorded"
      /\ UNCHANGED <<status, row, created, plan, cleanup, mails, faults>>
  BY DEF Acknowledge
<1> HIDE DEF j
<1>4. job'[b][k] = j
  BY <1>1, <1>2, <1>3, SetJobShape
<1>5. JobOK(b, k)'
  BY <1>1, <1>2, <1>3, <1>4
  DEF JobOK, JobHoldsRows, RowsTellJob, MailsAreCounted, MadeFor, WillMail
<1> QED BY <1>2, <1>3, <1>5, JobMoves

\* The rows a worker may load were made for its notification; while the booking
\* stands it is the row of the job.
LEMMA TrackedRows ==
  ASSUME NotificationInv, NEW b \in Bookings, NEW k \in JobNames,
         job[b][k].state # "none", NEW n \in Tracked(b, k)
  PROVE  /\ n \in Rows /\ MadeFor(n, b, k)
         /\ status[b] = "CONFIRMED" => n = job[b][k].nid
<1> DEFINE own == job[b][k].nid
<1>1. MadeFor(own, b, k) /\ created \in Nat /\ created <= MaxRows
  BY Ranges DEF NotificationInv, JobOK, JobHoldsRows
<1>2. own \in Rows
  BY <1>1, RowAssumption DEF MadeFor, Rows
<1>3. CASE row[own].state # "ABSENT"
  BY <1>1, <1>2, <1>3 DEF Tracked
<1>4. CASE row[own].state = "ABSENT"
  <2>1. status[b] = "CANCELLED"
    BY <1>1, <1>4 DEF NotificationInv, RowsAreCreated, MadeFor
  <2>2. n \in Rows /\ row[n].b = b /\ row[n].type = TypeOf(k) /\ row[n].state = "PENDING"
    BY <1>4 DEF Tracked
  <2>3. n <= created
    BY <2>2 DEF NotificationInv, RowsAreCreated
  <2> QED BY <1>1, <2>1, <2>2, <2>3, RowAssumption DEF MadeFor, Rows
<1> QED BY <1>3, <1>4

LEMMA LoadRowStep ==
  ASSUME NotificationInv, NEW b \in Bookings, NEW k \in JobNames, NEW n \in Rows,
         LoadRow(b, k, n)
  PROVE  NotificationInv'
<1> DEFINE s == IF AlreadySent(n) THEN "completed" ELSE "loaded"
           j == [job[b][k] EXCEPT !.at = n, !.state = s]
<1>1. TypeOK /\ JobOK(b, k) /\ job[b][k] \in Job
  BY DEF NotificationInv, TypeOK
<1>2. s \in JobState /\ (s = "completed" \/ (s = "loaded" /\ row[n].state # "SENT"))
  BY DEF JobState, AlreadySent
<1>3. /\ SetJob(b, k, j) /\ job[b][k].state = "active" /\ n \in Tracked(b, k)
      /\ UNCHANGED <<status, row, created, plan, cleanup, mails, faults>>
  BY DEF LoadRow
<1> HIDE DEF s
<1>4. j \in Job /\ j.nid = job[b][k].nid /\ j.state = s /\ j.at = n
  BY <1>1, <1>2 DEF Job
<1> HIDE DEF j
<1>5. job'[b][k] = j
  BY <1>1, <1>3, <1>4, SetJobShape
<1>6. MadeFor(n, b, k) /\ (status[b] = "CONFIRMED" => n = job[b][k].nid)
  BY <1>3, TrackedRows
<1>7. JobHoldsRows(b, k)'
  BY <1>1, <1>2, <1>3, <1>4, <1>5, <1>6 DEF JobOK, JobHoldsRows, MadeFor
<1>8. RowsTellJob(b, k)'
  BY <1>2, <1>3, <1>4, <1>5 DEF RowsTellJob, WillMail
<1>9. MailsAreCounted(b, k)'
  BY <1>1, <1>2, <1>3, <1>4, <1>5, <1>6 DEF JobOK, MailsAreCounted
<1> QED BY <1>3, <1>4, <1>7, <1>8, <1>9, JobMoves DEF JobOK

LEMMA SendMailStep ==
  ASSUME NotificationInv, NEW b \in Bookings, NEW k \in JobNames, SendMail(b, k)
  PROVE  NotificationInv'
<1> DEFINE j == [job[b][k] EXCEPT !.state = "mailed"]
<1>1. TypeOK /\ JobOK(b, k) /\ job[b][k] \in Job
  BY DEF NotificationInv, TypeOK
<1>2. j \in Job /\ j.nid = job[b][k].nid /\ j.state = "mailed" /\ j.at = job[b][k].at
  BY <1>1, MovedShape DEF JobState
<1>3. /\ SetJob(b, k, j) /\ job[b][k].state = "checked"
      /\ mails' = [mails EXCEPT ![b][k] = @ + 1]
      /\ UNCHANGED <<status, row, created, plan, cleanup, faults>>
  BY DEF SendMail
<1> HIDE DEF j
<1>4. job'[b][k] = j
  BY <1>1, <1>2, <1>3, SetJobShape
<1>5. /\ mails' \in [Bookings -> [JobNames -> Nat]]
      /\ mails'[b][k] = mails[b][k] + 1
      /\ \A e \in Bookings, i \in JobNames : e # b \/ i # k => mails'[e][i] = mails[e][i]
  BY <1>1, <1>3 DEF TypeOK
<1>6. JobHoldsRows(b, k)' /\ RowsTellJob(b, k)'
  BY <1>1, <1>2, <1>3, <1>4 DEF JobOK, JobHoldsRows, RowsTellJob, WillMail, MadeFor
<1>7. MailsAreCounted(b, k)'
  BY <1>1, <1>2, <1>3, <1>4, <1>5, Ranges DEF JobOK, MailsAreCounted
<1>8. faults' \in 0..MaxFaults /\ faults <= faults'
  BY <1>1, <1>3, RetryAssumption DEF TypeOK
<1> QED BY <1>2, <1>3, <1>5, <1>6, <1>7, <1>8, JobStep DEF JobOK

-----------------------------------------------------------------------------
(* Steps of a worker that change a row *)

\* A step of one job and of the rows, with what it has to leave to the others.
LEMMA RowStep ==
  ASSUME NotificationInv, NEW b \in Bookings, NEW k \in JobNames, NEW j \in Job,
         SetJob(b, k, j), j.nid = job[b][k].nid,
         UNCHANGED <<status, plan, cleanup, mails, faults>>,
         row' \in [Rows -> Row], created' \in 0..MaxRows, created <= created',
         \A n \in 1..created : row'[n].b = row[n].b /\ row'[n].type = row[n].type,
         RowsAreCreated', JobOK(b, k)',
         \A e \in Bookings, i \in JobNames : e # b \/ i # k =>
           /\ job[e][i].state # "none" =>
                \/ row'[job[e][i].nid].state = row[job[e][i].nid].state
                \/ row'[job[e][i].nid].state = "ABSENT" /\ status[e] = "CANCELLED"
           /\ WillMail(e, i) => row'[job[e][i].at].state # "SENT"
  PROVE  NotificationInv'
<1> USE DEF NotificationInv
<1>1. /\ job' \in [Bookings -> [JobNames -> Job]]
      /\ job'[b][k] = j
      /\ \A e \in Bookings, i \in JobNames : e # b \/ i # k => job'[e][i] = job[e][i]
  BY SetJobShape
<1>2. TypeOK'
  BY <1>1 DEF TypeOK
<1>3. created \in Nat /\ created' \in Nat
  BY RowAssumption DEF TypeOK
<1>4. \A n, e, i : MadeFor(n, e, i) => MadeFor(n, e, i)'
  BY <1>3 DEF MadeFor
<1>5. CleanupIsDue' /\ PlanHoldsRow'
  BY <1>4 DEF CleanupIsDue, PlanHoldsRow
<1>6. \A e \in Bookings, i \in JobNames : job'[e][i].nid = job[e][i].nid
  BY <1>1
<1>7. RowsHaveOneOwner'
  BY <1>6 DEF RowsHaveOneOwner
<1>8. faults <= faults'
  BY RetryAssumption DEF TypeOK
<1>9. ASSUME NEW e \in Bookings, NEW i \in JobNames PROVE JobOK(e, i)'
  <2>1. CASE e # b \/ i # k
    BY <1>1, <1>2, <1>8, <2>1, JobKept
  <2> QED BY <2>1
<1> QED BY <1>2, <1>5, <1>7, <1>9

\* The row of a job that exists is no row of another job.
LEMMA OwnRow ==
  ASSUME NotificationInv, NEW b \in Bookings, NEW k \in JobNames,
         NEW e \in Bookings, NEW i \in JobNames, e # b \/ i # k,
         job[b][k].state # "none", job[e][i].state # "none"
  PROVE  job[b][k].nid # job[e][i].nid
<1>1. /\ MadeFor(job[b][k].nid, b, k) /\ MadeFor(job[e][i].nid, e, i)
      /\ job[b][k].nid # None
  BY DEF NotificationInv, JobOK, JobHoldsRows
<1>2. CASE e # b
  BY <1>1, <1>2 DEF MadeFor
<1>3. CASE e = b /\ i # k
  BY <1>1, <1>3 DEF NotificationInv, RowsHaveOneOwner
<1> QED BY <1>2, <1>3

\* One row is set to another state.
LEMMA RowSet ==
  ASSUME TypeOK, NEW m \in Rows, NEW s \in {"ABSENT", "SENT", "FAILED"},
         row' = [row EXCEPT ![m].state = s]
  PROVE  /\ row' \in [Rows -> Row]
         /\ \A n \in Rows : row'[n].b = row[n].b /\ row'[n].type = row[n].type
         /\ row'[m].state = s
         /\ \A n \in Rows \ {m} : row'[n] = row[n]
<1>1. row \in [Rows -> Row] /\ row[m] \in Row
  BY DEF TypeOK
<1>2. [row[m] EXCEPT !.state = s] \in Row
  BY <1>1 DEF Row
<1>3. row' = [row EXCEPT ![m] = [row[m] EXCEPT !.state = s]]
  OBVIOUS
<1>4. /\ [row[m] EXCEPT !.state = s].b = row[m].b
      /\ [row[m] EXCEPT !.state = s].type = row[m].type
      /\ [row[m] EXCEPT !.state = s].state = s
  BY <1>1 DEF Row
<1> QED BY <1>1, <1>2, <1>3, <1>4

\* The reminder that is not due any more is deleted.
LEMMA CheckBookingStep ==
  ASSUME NotificationInv, NEW b \in Bookings, NEW k \in JobNames, CheckBooking(b, k)
  PROVE  NotificationInv'
<1> DEFINE j == job[b][k]
<1>1. TypeOK /\ JobOK(b, k) /\ j \in Job /\ created \in Nat /\ created <= MaxRows
  BY Ranges DEF NotificationInv
<1>2. j.state = "loaded" /\ UNCHANGED <<status, created, plan, cleanup, mails, faults>>
  BY DEF CheckBooking
<1>3. MadeFor(j.at, b, k) /\ MadeFor(j.nid, b, k) /\ j.at \in Rows
  BY <1>1, <1>2, RowAssumption DEF JobOK, JobHoldsRows, MadeFor, Rows
<1>4. Suppressed(b, k) => status[b] = "CANCELLED"
  BY <1>1, Ranges DEF Suppressed
<1>5. ~Suppressed(b, k) => status[b] = "CONFIRMED" \/ k \notin Reminders
  BY <1>1, Ranges DEF Suppressed
<1> HIDE DEF j
<1>6. CASE ~Suppressed(b, k) /\ SetJob(b, k, [j EXCEPT !.state = "checked"])
           /\ UNCHANGED row
  <2> DEFINE h == [j EXCEPT !.state = "checked"]
  <2>1. h \in Job /\ h.nid = j.nid /\ h.at = j.at /\ h.state = "checked"
    BY <1>1, MovedShape DEF JobState
  <2> HIDE DEF h
  <2>2. job'[b][k] = h
    BY <1>1, <1>6, <2>1, SetJobShape DEF h
  <2>3. JobHoldsRows(b, k)'
    BY <1>1, <1>2, <1>3, <1>5, <1>6, <2>1, <2>2 DEF j, JobOK, JobHoldsRows, MadeFor
  <2>4. RowsTellJob(b, k)'
    BY <1>1, <1>2, <1>6, <2>1, <2>2 DEF j, JobOK, RowsTellJob, WillMail
  <2>5. MailsAreCounted(b, k)'
    BY <1>1, <1>2, <2>1, <2>2 DEF j, JobOK, MailsAreCounted
  <2> QED BY <1>2, <1>6, <2>1, <2>3, <2>4, <2>5, JobMoves DEF h, j, JobOK
<1>7. CASE Suppressed(b, k) /\ row' = [row EXCEPT ![j.at].state = "ABSENT"]
           /\ SetJob(b, k, [j EXCEPT !.state = "completed"])
  <2> DEFINE h == [j EXCEPT !.state = "completed"]
  <2>1. h \in Job /\ h.nid = j.nid /\ h.state = "completed"
    BY <1>1, MovedShape DEF JobState
  <2> HIDE DEF h
  <2>2. job'[b][k] = h
    BY <1>1, <1>7, <2>1, SetJobShape DEF h
  <2>3. /\ row' \in [Rows -> Row]
        /\ \A n \in Rows : row'[n].b = row[n].b /\ row'[n].type = row[n].type
        /\ row'[j.at].state = "ABSENT"
        /\ \A n \in Rows \ {j.at} : row'[n] = row[n]
    BY <1>1, <1>3, <1>7, RowSet
  <2>4. \A n \in 1..created : n \in Rows
    BY <1>1, RowAssumption DEF Rows
  <2>5. RowsAreCreated'
    <3>1. \A n \in Rows : row'[n].state # "ABSENT" => n <= created
      BY <2>3 DEF NotificationInv, RowsAreCreated
    <3>2. ASSUME NEW n \in 1..created
          PROVE  /\ row'[n].b \in Bookings
                 /\ row'[n].state = "ABSENT" => status[row'[n].b] = "CANCELLED"
      <4>1. CASE n = j.at
        BY <1>3, <1>4, <1>7, <2>3, <4>1 DEF MadeFor
      <4>2. CASE n # j.at
        BY <2>3, <2>4, <4>2 DEF NotificationInv, RowsAreCreated
      <4> QED BY <4>1, <4>2
    <3> QED BY <1>2, <3>1, <3>2 DEF RowsAreCreated
  <2>6. JobOK(b, k)'
    <3>1. JobHoldsRows(b, k)'
      BY <1>1, <1>2, <1>3, <2>1, <2>2, <2>3, <2>4 DEF j, JobOK, JobHoldsRows, MadeFor
    <3>2. RowsTellJob(b, k)'
      BY <2>1, <2>2 DEF RowsTellJob, WillMail
    <3>3. MailsAreCounted(b, k)'
      BY <1>2, <1>4, <1>7 DEF MailsAreCounted
    <3> QED BY <3>1, <3>2, <3>3 DEF JobOK
  <2>7. ASSUME NEW e \in Bookings, NEW i \in JobNames
        PROVE  /\ job[e][i].state # "none" =>
                    \/ row'[job[e][i].nid].state = row[job[e][i].nid].state
                    \/ row'[job[e][i].nid].state = "ABSENT" /\ status[e] = "CANCELLED"
               /\ WillMail(e, i) => row'[job[e][i].at].state # "SENT"
    <3>1. JobOK(e, i)
      BY DEF NotificationInv
    <3>2. job[e][i].state # "none" => MadeFor(job[e][i].nid, e, i)
      BY <3>1 DEF JobOK, JobHoldsRows
    <3>3. WillMail(e, i) => MadeFor(job[e][i].at, e, i) /\ row[job[e][i].at].state # "SENT"
      BY <3>1 DEF JobOK, JobHoldsRows, RowsTellJob, WillMail
    <3>4. job[e][i].nid = j.at /\ job[e][i].state # "none" => status[e] = "CANCELLED"
      BY <1>3, <1>4, <1>7, <3>2 DEF MadeFor
    <3> QED BY <2>3, <2>4, <3>2, <3>3, <3>4 DEF MadeFor
  <2>8. SetJob(b, k, h) /\ h.nid = job[b][k].nid
    BY <1>7, <2>1 DEF h, j
  <2>9. /\ created' \in 0..MaxRows /\ created <= created'
        /\ \A n \in 1..created : row'[n].b = row[n].b /\ row'[n].type = row[n].type
    BY <1>1, <1>2, <2>3, <2>4, RowAssumption
  <2> QED BY <1>2, <2>1, <2>3, <2>5, <2>6, <2>7, <2>8, <2>9, RowStep
<1>8. CASE Suppressed(b, k) /\ SetJob(b, k, AttemptFailed(j)) /\ UNCHANGED row
  BY <1>1, <1>2, <1>4, <1>8, AttemptFailedShape, AttemptEnds DEF j, Running
<1> QED BY <1>6, <1>7, <1>8 DEF CheckBooking, j

\* A mail is recorded on the row it was sent for.
LEMMA MarkSentStep ==
  ASSUME NotificationInv, NEW b \in Bookings, NEW k \in JobNames, MarkSent(b, k)
  PROVE  NotificationInv'
<1> DEFINE j == job[b][k]
           h == [j EXCEPT !.state = "recorded"]
<1>1. TypeOK /\ JobOK(b, k) /\ j \in Job /\ created \in Nat /\ created <= MaxRows
  BY Ranges DEF NotificationInv
<1>2. j.state = "mailed" /\ UNCHANGED <<status, created, plan, cleanup, mails, faults>>
  BY DEF MarkSent
<1>3. MadeFor(j.at, b, k) /\ MadeFor(j.nid, b, k) /\ j.at \in Rows
  BY <1>1, <1>2, RowAssumption DEF JobOK, JobHoldsRows, MadeFor, Rows
<1>4. h \in Job /\ h.nid = j.nid /\ h.at = j.at /\ h.state = "recorded"
  BY <1>1, MovedShape DEF JobState
<1> HIDE DEF j, h
<1>5. CASE row[j.at].state = "ABSENT"
  <2>1. SetJob(b, k, AttemptFailed(j)) /\ UNCHANGED row
    BY <1>5 DEF MarkSent, j
  <2>2. status[b] = "CANCELLED"
    BY <1>3, <1>5 DEF NotificationInv, RowsAreCreated, MadeFor
  <2> QED BY <1>1, <1>2, <2>1, <2>2, AttemptFailedShape, AttemptEnds DEF j, Running
<1>6. CASE row[j.at].state # "ABSENT"
  <2>1. SetJob(b, k, h) /\ row' = [row EXCEPT ![j.at].state = "SENT"]
    BY <1>6 DEF MarkSent, j, h
  <2>2. job'[b][k] = h
    BY <1>1, <1>4, <2>1, SetJobShape
  <2>3. /\ row' \in [Rows -> Row]
        /\ \A n \in Rows : row'[n].b = row[n].b /\ row'[n].type = row[n].type
        /\ row'[j.at].state = "SENT"
        /\ \A n \in Rows \ {j.at} : row'[n] = row[n]
    BY <1>1, <1>3, <2>1, RowSet
  <2>4. \A n \in 1..created : n \in Rows
    BY <1>1, RowAssumption DEF Rows
  <2>5. RowsAreCreated'
    <3>1. \A n \in Rows : row'[n].state # "ABSENT" => row[n].state # "ABSENT"
      BY <1>6, <2>3
    <3>2. \A n \in Rows : row'[n].state = "ABSENT" => row[n].state = "ABSENT"
      BY <2>3
    <3> QED BY <1>2, <2>3, <2>4, <3>1, <3>2 DEF NotificationInv, RowsAreCreated
  <2>6. JobOK(b, k)'
    <3>1. JobHoldsRows(b, k)'
      BY <1>1, <1>2, <1>3, <1>4, <2>2, <2>3, <2>4 DEF j, JobOK, JobHoldsRows, MadeFor
    <3>2. RowsTellJob(b, k)'
      BY <1>4, <2>2 DEF RowsTellJob, WillMail
    <3>3. MailsAreCounted(b, k)'
      BY <1>1, <1>2, <1>4, <2>2 DEF j, JobOK, MailsAreCounted
    <3> QED BY <3>1, <3>2, <3>3 DEF JobOK
  <2>7. ASSUME NEW e \in Bookings, NEW i \in JobNames, e # b \/ i # k
        PROVE  /\ job[e][i].state # "none" => job[e][i].nid # j.at
               /\ WillMail(e, i) => job[e][i].at # j.at
    <3>1. JobOK(e, i) /\ status[e] \in {"CONFIRMED", "CANCELLED"}
      BY <1>1, Ranges DEF NotificationInv
    <3>2. /\ job[e][i].state # "none" => MadeFor(job[e][i].nid, e, i)
          /\ WillMail(e, i) => MadeFor(job[e][i].at, e, i) /\ job[e][i].state # "none"
      BY <3>1 DEF JobOK, JobHoldsRows, WillMail
    <3>3. WillMail(e, i) /\ i \in Reminders => job[e][i].at = job[e][i].nid
      BY <3>1 DEF JobOK, JobHoldsRows, WillMail, Suppressed
    <3>4. k \in Reminders => j.at = j.nid
      BY <1>1, <1>2 DEF j, JobOK, JobHoldsRows
    <3>5. job[e][i].state # "none" => job[e][i].nid # j.nid
      BY <1>2, <2>7, OwnRow DEF j
    <3>6. ASSUME NEW n, MadeFor(n, e, i), n = j.at
          PROVE  i \in Reminders /\ k \in Reminders
      BY <1>3, <2>7, <3>6, TypeOfShape DEF MadeFor
    <3> QED BY <3>2, <3>3, <3>4, <3>5, <3>6
  <2>8. ASSUME NEW e \in Bookings, NEW i \in JobNames, e # b \/ i # k
        PROVE  /\ job[e][i].state # "none" =>
                    row'[job[e][i].nid].state = row[job[e][i].nid].state
               /\ WillMail(e, i) => row'[job[e][i].at].state # "SENT"
    <3>1. JobOK(e, i)
      BY DEF NotificationInv
    <3>2. /\ job[e][i].state # "none" => job[e][i].nid \in 1..created
          /\ WillMail(e, i) => /\ job[e][i].at \in 1..created
                               /\ row[job[e][i].at].state # "SENT"
      BY <3>1 DEF JobOK, JobHoldsRows, RowsTellJob, WillMail, MadeFor
    <3> QED BY <2>3, <2>4, <2>7, <2>8, <3>2
  <2>9. h.nid = job[b][k].nid
    BY <1>4 DEF j
  <2>10. /\ created' \in 0..MaxRows /\ created <= created'
         /\ \A n \in 1..created : row'[n].b = row[n].b /\ row'[n].type = row[n].type
    BY <1>1, <1>2, <2>3, <2>4, RowAssumption
  <2> QED BY <1>2, <1>4, <2>1, <2>3, <2>5, <2>6, <2>8, <2>9, <2>10, RowStep
<1> QED BY <1>5, <1>6

\* The hook marks the row of its own job.
LEMMA OnFailedStep ==
  ASSUME NotificationInv, NEW b \in Bookings, NEW k \in JobNames, OnFailed(b, k)
  PROVE  NotificationInv'
<1> DEFINE j == job[b][k]
           h == [j EXCEPT !.state = "failed"]
<1>1. TypeOK /\ JobOK(b, k) /\ j \in Job /\ created \in Nat /\ created <= MaxRows
  BY Ranges DEF NotificationInv
<1>2. /\ j.state = "failing" /\ UNCHANGED <<status, created, plan, cleanup, mails, faults>>
      /\ SetJob(b, k, h)
      /\ IF RetriesSpent(j) THEN HookMarksFailed(j.nid) ELSE row' = row
  BY DEF OnFailed
<1>3. MadeFor(j.nid, b, k) /\ j.nid \in Rows
  BY <1>1, <1>2, RowAssumption DEF JobOK, JobHoldsRows, MadeFor, Rows
<1>4. /\ h \in Job /\ h.nid = j.nid /\ h.at = j.at /\ h.state = "failed"
      /\ h.attempts = j.attempts /\ h.stalls = j.stalls
  BY <1>1, MovedShape DEF JobState, Job
<1> HIDE DEF j, h
<1>5. job'[b][k] = h
  BY <1>1, <1>2, <1>4, SetJobShape
<1>6. /\ row' \in [Rows -> Row]
      /\ \A n \in Rows : row'[n].b = row[n].b /\ row'[n].type = row[n].type
      /\ \/ row'[j.nid].state \in {"FAILED", "ABSENT"}
         \/ StalledOut(h) /\ row' = row
      /\ \A n \in Rows : row'[n].state = "ABSENT" <=> row[n].state = "ABSENT"
      /\ \A n \in Rows \ {j.nid} : row'[n] = row[n]
  <2>1. CASE RetriesSpent(j) /\ row[j.nid].state = "ABSENT"
    BY <1>1, <1>2, <2>1 DEF HookMarksFailed, TypeOK
  <2>2. CASE RetriesSpent(j) /\ row[j.nid].state # "ABSENT"
    <3>1. row' = [row EXCEPT ![j.nid].state = "FAILED"]
      BY <1>2, <2>2 DEF HookMarksFailed
    <3> QED BY <1>1, <1>3, <2>2, <3>1, RowSet
  <2>3. CASE ~RetriesSpent(j)
    <3>1. row' = row /\ HasCause(j)
      BY <1>1, <1>2, <2>3 DEF j, JobOK, RowsTellJob
    <3>2. j.attempts \in Nat /\ Attempts \in Nat
      BY <1>1, RetryAssumption DEF Job
    <3>3. StalledOut(h)
      BY <1>4, <2>3, <3>1, <3>2 DEF HasCause, RetriesSpent, StalledOut
    <3> QED BY <1>1, <3>1, <3>3 DEF TypeOK
  <2> QED BY <2>1, <2>2, <2>3
<1>7. \A n \in 1..created : n \in Rows
  BY <1>1, RowAssumption DEF Rows
<1>8. RowsAreCreated'
  BY <1>2, <1>6, <1>7 DEF NotificationInv, RowsAreCreated
<1>9. JobOK(b, k)'
  <2>1. JobHoldsRows(b, k)'
    BY <1>1, <1>2, <1>3, <1>4, <1>5, <1>6, <1>7 DEF j, JobOK, JobHoldsRows, MadeFor
  <2>2. RowsTellJob(b, k)'
    BY <1>4, <1>5, <1>6 DEF RowsTellJob, WillMail, StalledOut
  <2>3. MailsAreCounted(b, k)'
    BY <1>1, <1>2, <1>4, <1>5 DEF j, JobOK, MailsAreCounted
  <2> QED BY <2>1, <2>2, <2>3 DEF JobOK
<1>10. ASSUME NEW e \in Bookings, NEW i \in JobNames, e # b \/ i # k
       PROVE  /\ job[e][i].state # "none" =>
                   row'[job[e][i].nid].state = row[job[e][i].nid].state
              /\ WillMail(e, i) => row'[job[e][i].at].state # "SENT"
  <2>1. JobOK(e, i)
    BY DEF NotificationInv
  <2>2. /\ job[e][i].state # "none" => job[e][i].nid \in 1..created
        /\ WillMail(e, i) => /\ job[e][i].at \in 1..created
                             /\ row[job[e][i].at].state # "SENT"
    BY <2>1 DEF JobOK, JobHoldsRows, RowsTellJob, WillMail, MadeFor
  <2>3. job[e][i].state # "none" => job[e][i].nid # j.nid
    BY <1>2, <1>10, OwnRow DEF j
  <2> QED BY <1>6, <1>7, <2>2, <2>3
<1>11. h.nid = job[b][k].nid
  BY <1>4 DEF j
<1>12. /\ created' \in 0..MaxRows /\ created <= created'
       /\ \A n \in 1..created : row'[n].b = row[n].b /\ row'[n].type = row[n].type
  BY <1>1, <1>2, <1>6, <1>7, RowAssumption
<1> QED BY <1>2, <1>4, <1>6, <1>8, <1>9, <1>10, <1>11, <1>12, RowStep

\* An event that nobody hears leaves the rows as they are.
LEMMA HookFailsStep ==
  ASSUME NotificationInv, NEW b \in Bookings, NEW k \in JobNames, HookFails(b, k)
  PROVE  NotificationInv'
<1> DEFINE j == [job[b][k] EXCEPT !.state = "lost"]
<1>1. TypeOK /\ JobOK(b, k) /\ job[b][k] \in Job
  BY DEF NotificationInv, TypeOK
<1>2. j \in Job /\ j.nid = job[b][k].nid /\ j.state = "lost"
  BY <1>1, MovedShape DEF JobState
<1>3. /\ SetJob(b, k, j) /\ job[b][k].state = "failing"
      /\ UNCHANGED <<status, row, created, plan, cleanup, mails>>
      /\ faults < MaxFaults /\ faults' = faults + 1
  BY DEF HookFails
<1> HIDE DEF j
<1>4. job'[b][k] = j
  BY <1>1, <1>2, <1>3, SetJobShape
<1>5. /\ faults \in Nat /\ faults' \in 0..MaxFaults /\ faults <= faults'
      /\ mails' \in [Bookings -> [JobNames -> Nat]] /\ mails[b][k] \in Nat
  BY <1>1, <1>3, RetryAssumption DEF TypeOK
<1>6. JobHoldsRows(b, k)'
  BY <1>1, <1>2, <1>3, <1>4 DEF JobOK, JobHoldsRows, MadeFor
<1>7. RowsTellJob(b, k)'
  BY <1>2, <1>4 DEF RowsTellJob, WillMail
<1>8. MailsAreCounted(b, k)'
  BY <1>1, <1>2, <1>3, <1>4, <1>5 DEF JobOK, MailsAreCounted
<1> QED BY <1>2, <1>3, <1>5, <1>6, <1>7, <1>8, JobStep DEF JobOK

\* A row with a fresh id touches no other row.
LEMMA NewRowShape ==
  ASSUME NotificationInv, NEW b \in Bookings, NEW k \in JobNames, NEW n \in Rows,
         NewRow(n, b, k)
  PROVE  /\ row' \in [Rows -> Row]
         /\ created' = n /\ n = created + 1 /\ created' \in 0..MaxRows
         /\ created <= created'
         /\ \A m \in 1..created : m \in Rows /\ m # n /\ row'[m] = row[m]
         /\ row'[n].state = "PENDING" /\ row'[n].b = b /\ row'[n].type = TypeOf(k)
         /\ \A m \in Rows \ {n} : row'[m] = row[m]
<1>1. TypeOK /\ created \in Nat /\ created <= MaxRows
  BY RowAssumption DEF NotificationInv, TypeOK
<1>2. n = created + 1 /\ created' = n
      /\ row' = [row EXCEPT ![n] = [state |-> "PENDING", b |-> b, type |-> TypeOf(k)]]
  BY DEF NewRow
<1>3. [state |-> "PENDING", b |-> b, type |-> TypeOf(k)] \in Row
  BY TypeOfShape DEF Row
<1>4. row' \in [Rows -> Row]
  BY <1>1, <1>2, <1>3 DEF TypeOK
<1>5. \A m \in 1..created : m \in Rows /\ m # n
  BY <1>1, <1>2, RowAssumption DEF Rows
<1>6. created' \in 0..MaxRows /\ created <= created'
  BY <1>1, <1>2, RowAssumption DEF Rows
<1>7. row'[n] = [state |-> "PENDING", b |-> b, type |-> TypeOf(k)]
  BY <1>1, <1>2 DEF TypeOK
<1>8. \A m \in Rows \ {n} : row'[m] = row[m]
  BY <1>1, <1>2 DEF TypeOK
<1>9. \A m \in 1..created : row'[m] = row[m]
  BY <1>5, <1>8
<1> QED BY <1>2, <1>4, <1>5, <1>6, <1>7, <1>8, <1>9

\* A new row is there and of its booking.
LEMMA NewRowIsCreated ==
  ASSUME NotificationInv, NEW b \in Bookings, NEW k \in JobNames, NEW n \in Rows,
         NewRow(n, b, k), UNCHANGED status
  PROVE  RowsAreCreated'
<1>1. /\ created' = n /\ n = created + 1 /\ created \in Nat
      /\ \A m \in 1..created : m # n /\ row'[m] = row[m]
      /\ row'[n].state = "PENDING" /\ row'[n].b = b
      /\ \A m \in Rows \ {n} : row'[m] = row[m]
  <2>1. created \in Nat
    BY RowAssumption DEF NotificationInv, TypeOK
  <2> QED BY <2>1, NewRowShape
<1>2. \A m \in Rows : row'[m].state # "ABSENT" => m <= created'
  <2> SUFFICES ASSUME NEW m \in Rows, row'[m].state # "ABSENT" PROVE m <= n
    BY <1>1
  <2>1. m \in Nat /\ n \in Nat
    BY RowAssumption DEF Rows
  <2>2. CASE m = n
    BY <2>1, <2>2
  <2>3. CASE m # n
    <3>1. m <= created
      BY <1>1, <2>3 DEF NotificationInv, RowsAreCreated
    <3> QED BY <1>1, <2>1, <3>1
  <2> QED BY <2>2, <2>3
<1>3. ASSUME NEW m \in 1..created'
      PROVE  /\ row'[m].b \in Bookings
             /\ row'[m].state = "ABSENT" => status'[row'[m].b] = "CANCELLED"
  <2>1. m = n \/ m \in 1..created
    BY <1>1
  <2>2. CASE m = n
    BY <1>1, <2>2
  <2>3. CASE m \in 1..created
    BY <1>1, <2>3 DEF NotificationInv, RowsAreCreated
  <2> QED BY <2>1, <2>2, <2>3
<1> QED BY <1>2, <1>3 DEF RowsAreCreated

\* The worker of a cancelled booking makes a row of its own.
LEMMA RecreateRowStep ==
  ASSUME NotificationInv, NEW b \in Bookings, NEW k \in JobNames, NEW n \in Rows,
         RecreateRow(b, k, n)
  PROVE  NotificationInv'
<1> DEFINE j == job[b][k]
           h == [j EXCEPT !.at = n, !.state = "loaded"]
<1>1. TypeOK /\ JobOK(b, k) /\ j \in Job /\ created \in Nat /\ created <= MaxRows
  BY Ranges DEF NotificationInv
<1>2. /\ j.state = "active" /\ UNCHANGED <<status, plan, cleanup, mails, faults>>
      /\ SetJob(b, k, h) /\ NewRow(n, b, k) /\ Tracked(b, k) = {}
  BY DEF RecreateRow
<1>3. MadeFor(j.nid, b, k) /\ j.nid \in Rows
  BY <1>1, <1>2, RowAssumption DEF JobOK, JobHoldsRows, MadeFor, Rows
<1>4. h \in Job /\ h.nid = j.nid /\ h.at = n /\ h.state = "loaded"
  BY <1>1 DEF Job, JobState
<1>5. row[j.nid].state = "ABSENT"
  BY <1>2 DEF Tracked
<1>6. status[b] = "CANCELLED"
  BY <1>3, <1>5 DEF NotificationInv, RowsAreCreated, MadeFor
<1> HIDE DEF j, h
<1>7. job'[b][k] = h
  BY <1>1, <1>2, <1>4, SetJobShape
<1>8. /\ row' \in [Rows -> Row]
      /\ created' = n /\ n = created + 1 /\ created' \in 0..MaxRows /\ created <= created'
      /\ \A m \in 1..created : m \in Rows /\ m # n /\ row'[m] = row[m]
      /\ row'[n].state = "PENDING" /\ row'[n].b = b /\ row'[n].type = TypeOf(k)
  BY <1>2, NewRowShape
<1>9. RowsAreCreated'
  <2>1. UNCHANGED status
    BY <1>2
  <2> QED BY <1>2, <2>1, NewRowIsCreated
<1>10. MadeFor(n, b, k)' /\ n \in 1..created' /\ j.nid \in 1..created'
       /\ row'[j.nid].b = b /\ row'[j.nid].type = TypeOf(k)
  <2>1. n \in 1..created' /\ j.nid \in 1..created'
    BY <1>1, <1>3, <1>8 DEF MadeFor
  <2> QED BY <1>3, <1>8, <2>1 DEF MadeFor
<1>11. JobOK(b, k)'
  <2>1. JobHoldsRows(b, k)'
    BY <1>1, <1>2, <1>4, <1>6, <1>7, <1>10 DEF j, JobOK, JobHoldsRows, MadeFor
  <2>2. RowsTellJob(b, k)'
    BY <1>4, <1>7, <1>8 DEF RowsTellJob, WillMail
  <2>3. MailsAreCounted(b, k)'
    BY <1>2, <1>6 DEF MailsAreCounted
  <2> QED BY <2>1, <2>2, <2>3 DEF JobOK
<1>12. ASSUME NEW e \in Bookings, NEW i \in JobNames
       PROVE  /\ job[e][i].state # "none" =>
                   row'[job[e][i].nid].state = row[job[e][i].nid].state
              /\ WillMail(e, i) => row'[job[e][i].at].state # "SENT"
  <2>1. JobOK(e, i)
    BY DEF NotificationInv
  <2>2. /\ job[e][i].state # "none" => job[e][i].nid \in 1..created
        /\ WillMail(e, i) => /\ job[e][i].at \in 1..created
                             /\ row[job[e][i].at].state # "SENT"
    BY <2>1 DEF JobOK, JobHoldsRows, RowsTellJob, WillMail, MadeFor
  <2> QED BY <1>8, <2>2
<1>13. h.nid = job[b][k].nid
  BY <1>4 DEF j
<1> QED BY <1>2, <1>4, <1>8, <1>9, <1>11, <1>12, <1>13, RowStep

-----------------------------------------------------------------------------
(* Steps of confirmers and cancellations *)

\* sendNotification, first half.
LEMMA CreateRowStep ==
  ASSUME NotificationInv, NEW c \in Confirmers, NEW n \in Rows, CreateRow(c, n)
  PROVE  NotificationInv'
<1> DEFINE b == plan[c].b
           k == Head(plan[c].todo)
<1>1. TypeOK /\ plan[c] \in Plan /\ created \in Nat
  BY RowAssumption DEF NotificationInv, TypeOK
<1>2. /\ plan[c].todo # <<>> /\ plan[c].nid = None /\ NewRow(n, b, k)
      /\ plan' = [plan EXCEPT ![c].nid = n]
      /\ UNCHANGED <<status, job, cleanup, mails, faults>>
  BY DEF CreateRow
<1>3. b \in Bookings /\ k \in JobNames
  BY <1>1, <1>2, HeadTailProperties DEF Plan
<1>4. /\ row' \in [Rows -> Row]
      /\ created' = n /\ n = created + 1 /\ created' \in 0..MaxRows /\ created <= created'
      /\ \A m \in 1..created : m \in Rows /\ m # n /\ row'[m] = row[m]
      /\ row'[n].state = "PENDING" /\ row'[n].b = b /\ row'[n].type = TypeOf(k)
  BY <1>2, <1>3, NewRowShape
<1>5. /\ plan'[c].b = b /\ plan'[c].todo = plan[c].todo /\ plan'[c].nid = n
      /\ plan' \in [Confirmers -> Plan]
      /\ \A d \in Confirmers \ {c} : plan'[d] = plan[d]
  BY <1>1, <1>2 DEF TypeOK, Plan
<1>6. RowsAreCreated'
  <2>1. UNCHANGED status
    BY <1>2
  <2> QED BY <1>2, <1>3, <2>1, NewRowIsCreated
<1>7. TypeOK' /\ CleanupIsDue'
  BY <1>1, <1>2, <1>4, <1>5 DEF TypeOK, NotificationInv, CleanupIsDue
<1>8. \A m \in 1..created : m \in 1..created'
  BY <1>1, <1>4
<1> HIDE DEF b, k
<1>9. PlanHoldsRow'
  <2> SUFFICES ASSUME NEW d \in Confirmers, plan'[d].nid # None
               PROVE  /\ plan'[d].todo # <<>>
                      /\ plan'[d].nid \in 1..created'
                      /\ row'[plan'[d].nid].b = plan'[d].b
                      /\ row'[plan'[d].nid].type = TypeOf(Head(plan'[d].todo))
    BY DEF PlanHoldsRow, MadeFor
  <2>1. CASE d = c
    <3>1. n \in 1..created'
      BY <1>1, <1>4
    <3> QED BY <1>2, <1>4, <1>5, <2>1, <3>1 DEF b, k
  <2>2. CASE d # c
    BY <1>4, <1>5, <1>8, <2>2 DEF NotificationInv, PlanHoldsRow, MadeFor
  <2> QED BY <2>1, <2>2
<1>10. RowsHaveOneOwner'
  <2>1. \A d \in Confirmers : plan[d].nid # n
    BY <1>4, RowAssumption DEF NotificationInv, PlanHoldsRow, MadeFor, Rows
  <2>2. \A e \in Bookings, i \in JobNames : job[e][i].nid # n
    BY <1>4, RowAssumption DEF NotificationInv, JobOK, JobHoldsRows, MadeFor, Rows
  <2> QED BY <1>2, <1>5, <2>1, <2>2 DEF NotificationInv, RowsHaveOneOwner
<1>11. ASSUME NEW e \in Bookings, NEW i \in JobNames PROVE JobOK(e, i)'
  <2>1. JobOK(e, i)
    BY DEF NotificationInv
  <2>2. /\ job[e][i].state # "none" => job[e][i].nid \in 1..created
        /\ WillMail(e, i) => /\ job[e][i].at \in 1..created
                             /\ row[job[e][i].at].state # "SENT"
    BY <2>1 DEF JobOK, JobHoldsRows, RowsTellJob, WillMail, MadeFor
  <2>3. faults <= faults'
    BY <1>1, <1>2, RetryAssumption DEF TypeOK
  <2> QED BY <1>1, <1>2, <1>4, <1>7, <2>1, <2>2, <2>3, JobKept
<1> QED BY <1>6, <1>7, <1>9, <1>10, <1>11 DEF NotificationInv

\* Nothing but the plans, and the faults, change; the plans only let go.
LEMMA PlanDropped ==
  ASSUME NotificationInv, NEW c \in Confirmers, NEW p \in Plan, p.nid = None,
         plan' = [plan EXCEPT ![c] = p], faults' \in 0..MaxFaults, faults <= faults',
         UNCHANGED <<status, row, created, job, cleanup, mails>>
  PROVE  NotificationInv'
<1> USE DEF NotificationInv
<1>1. plan'[c] = p /\ \A d \in Confirmers \ {c} : plan'[d] = plan[d]
  BY DEF TypeOK
<1>2. TypeOK'
  BY DEF TypeOK
<1>3. RowsAreCreated' /\ CleanupIsDue'
  BY DEF RowsAreCreated, CleanupIsDue
<1>4. PlanHoldsRow' /\ RowsHaveOneOwner'
  BY <1>1 DEF PlanHoldsRow, RowsHaveOneOwner, MadeFor
<1>5. ASSUME NEW e \in Bookings, NEW i \in JobNames PROVE JobOK(e, i)'
  <2>1. created <= created'
    BY RowAssumption DEF TypeOK
  <2>2. WillMail(e, i) => row'[job[e][i].at].state # "SENT"
    BY DEF JobOK, RowsTellJob
  <2> QED BY <1>2, <2>1, <2>2, JobKept
<1> QED BY <1>2, <1>3, <1>4, <1>5

LEMMA ConfirmerFailsStep ==
  ASSUME NotificationInv, NEW c \in Confirmers, ConfirmerFails(c)
  PROVE  NotificationInv'
<1> DEFINE p == [b |-> plan[c].b, todo |-> <<>>, nid |-> None]
<1>1. p \in Plan /\ p.nid = None
  BY DEF NotificationInv, TypeOK, Plan
<1>2. plan' = [plan EXCEPT ![c] = p] /\ UNCHANGED <<status, row, created, job, cleanup, mails>>
  BY DEF ConfirmerFails
<1>3. faults' \in 0..MaxFaults /\ faults <= faults'
  BY RetryAssumption DEF ConfirmerFails, NotificationInv, TypeOK
<1> HIDE DEF p
<1> QED BY <1>1, <1>2, <1>3, PlanDropped

\* A job that is not there yet takes the row of its confirmer.
LEMMA JobAdded ==
  ASSUME NotificationInv, NEW c \in Confirmers, NEW b \in Bookings, NEW k \in JobNames,
         NEW x, x = plan[c].nid, x # None, MadeFor(x, b, k),
         NEW j \in Job, j.state = "delayed", j.nid = x, job[b][k].state = "none",
         NEW p \in Plan, p.nid = None, SetJob(b, k, j), plan' = [plan EXCEPT ![c] = p],
         UNCHANGED <<status, row, created, cleanup, mails, faults>>
  PROVE  NotificationInv'
<1> USE DEF NotificationInv
<1>1. faults <= faults' /\ created <= created'
  BY RowAssumption, RetryAssumption DEF TypeOK
<1>2. /\ job' \in [Bookings -> [JobNames -> Job]]
      /\ job'[b][k] = j
      /\ \A e \in Bookings, i \in JobNames : e # b \/ i # k => job'[e][i] = job[e][i]
  BY SetJobShape
<1>3. /\ plan'[c].nid = None /\ plan' \in [Confirmers -> Plan]
      /\ \A d \in Confirmers \ {c} : plan'[d] = plan[d]
  BY DEF TypeOK
<1>4. TypeOK'
  BY <1>2, <1>3 DEF TypeOK
<1>5. RowsAreCreated' /\ CleanupIsDue'
  BY DEF RowsAreCreated, CleanupIsDue
<1>6. PlanHoldsRow'
  BY <1>3 DEF PlanHoldsRow, MadeFor
<1>7. RowsHaveOneOwner'
  <2>1. /\ \A d \in Confirmers \ {c} : plan[d].nid # x
        /\ \A e \in Bookings, i \in JobNames : job[e][i].nid # x
    BY DEF RowsHaveOneOwner
  <2>2. \A d, e \in Confirmers : plan'[d].nid # None /\ d # e => plan'[d].nid # plan'[e].nid
    BY <1>3 DEF RowsHaveOneOwner
  <2>3. \A d \in Confirmers, e \in Bookings, i \in JobNames :
          plan'[d].nid # None => plan'[d].nid # job'[e][i].nid
    BY <1>2, <1>3, <2>1 DEF RowsHaveOneOwner
  <2>4. \A e \in Bookings, i, h \in JobNames :
          job'[e][i].nid # None /\ i # h => job'[e][i].nid # job'[e][h].nid
    BY <1>2, <2>1 DEF RowsHaveOneOwner
  <2> QED BY <2>2, <2>3, <2>4 DEF RowsHaveOneOwner
<1>8. ASSUME NEW e \in Bookings, NEW i \in JobNames PROVE JobOK(e, i)'
  <2>1. CASE e # b \/ i # k
    <3>1. WillMail(e, i) => row'[job[e][i].at].state # "SENT"
      BY DEF JobOK, RowsTellJob
    <3> QED BY <1>1, <1>2, <1>4, <2>1, <3>1, JobKept
  <2>2. JobHoldsRows(b, k)'
    BY <1>2 DEF JobHoldsRows, MadeFor
  <2>3. RowsTellJob(b, k)'
    BY <1>2 DEF RowsTellJob, WillMail
  <2>4. MailsAreCounted(b, k)'
    <3>1. JobOK(b, k) /\ faults \in Nat /\ mails[b][k] \in Nat
      BY Ranges
    <3> QED BY <1>2, <3>1 DEF JobOK, MailsAreCounted
  <2> QED BY <2>1, <2>2, <2>3, <2>4 DEF JobOK
<1> QED BY <1>4, <1>5, <1>6, <1>7, <1>8

\* sendNotification, second half: a job that is there wins, and then the row is
\* nobody's.
LEMMA AddJobStep ==
  ASSUME NotificationInv, NEW c \in Confirmers, AddJob(c)
  PROVE  NotificationInv'
<1>1. PICK b, k, x : b = plan[c].b /\ k = Head(plan[c].todo) /\ x = plan[c].nid
  OBVIOUS
<1> DEFINE p == [b |-> b, todo |-> Tail(plan[c].todo), nid |-> None]
           j == [NoJob EXCEPT !.state = "delayed", !.nid = x]
<1>2. plan[c] \in Plan
  BY DEF NotificationInv, TypeOK
<1>3. /\ x # None
      /\ \/ NotQueued(b, k) /\ SetJob(b, k, j)
         \/ UNCHANGED job
      /\ plan' = [plan EXCEPT ![c] = p]
      /\ UNCHANGED <<status, row, created, cleanup, mails, faults>>
  BY <1>1 DEF AddJob
<1>4. plan[c].todo # <<>> /\ MadeFor(x, b, k)
  BY <1>1, <1>3 DEF NotificationInv, PlanHoldsRow
<1>5. b \in Bookings /\ k \in JobNames /\ p \in Plan /\ p.nid = None
  BY <1>1, <1>2, <1>4, HeadTailProperties DEF Plan
<1>6. j \in Job /\ j.state = "delayed" /\ j.nid = x
  BY <1>1, <1>2, <1>3, NoJobShape DEF Job, JobState, Plan
<1>7. faults' \in 0..MaxFaults /\ faults <= faults'
  BY <1>3, RetryAssumption DEF NotificationInv, TypeOK
<1> HIDE DEF p, j
<1>8. CASE UNCHANGED job
  BY <1>3, <1>5, <1>7, <1>8, PlanDropped
<1>9. CASE NotQueued(b, k) /\ SetJob(b, k, j)
  BY <1>1, <1>3, <1>4, <1>5, <1>6, <1>9, JobAdded DEF NotQueued
<1> QED BY <1>3, <1>8, <1>9

\* A cancellation and a refund end a booking; nothing else changes yet.
LEMMA BookingEnds ==
  ASSUME NotificationInv, NEW b \in Bookings, CancelBooking(b) \/ RefundBooking(b)
  PROVE  NotificationInv'
<1> USE DEF NotificationInv
<1>1. /\ status' = [status EXCEPT ![b] = "CANCELLED"]
      /\ cleanup' = [cleanup EXCEPT ![b] = "reminder.24h"] \/ UNCHANGED cleanup
      /\ UNCHANGED <<row, created, job, plan, mails, faults>>
  BY DEF CancelBooking, RefundBooking
<1>2. \A e \in Bookings : status'[e] = status[e] \/ status'[e] = "CANCELLED"
  BY <1>1 DEF TypeOK
<1>3. TypeOK'
  BY <1>1 DEF TypeOK, CleanupStep
<1>4. RowsAreCreated'
  BY <1>1, <1>2 DEF RowsAreCreated
<1>5. CleanupIsDue'
  BY <1>1 DEF TypeOK, CleanupIsDue
<1>6. PlanHoldsRow' /\ RowsHaveOneOwner'
  BY <1>1 DEF PlanHoldsRow, RowsHaveOneOwner, MadeFor
<1>7. ASSUME NEW e \in Bookings, NEW i \in JobNames PROVE JobOK(e, i)'
  <2>1. created <= created' /\ faults <= faults'
    BY <1>1, RowAssumption, RetryAssumption DEF TypeOK
  <2>2. WillMail(e, i) => row'[job[e][i].at].state # "SENT"
    BY <1>1 DEF JobOK, RowsTellJob
  <2> QED BY <1>1, <1>2, <1>3, <2>1, <2>2, JobKept
<1> QED BY <1>3, <1>4, <1>5, <1>6, <1>7

\* job.remove(): the row of the job is left to CleanupRows.
LEMMA CleanupRemoveStep ==
  ASSUME NotificationInv, NEW b \in Bookings, CleanupRemove(b)
  PROVE  NotificationInv'
<1> USE DEF NotificationInv
<1>1. PICK k : k = cleanup[b]
  OBVIOUS
<1>2. /\ k \in JobNames /\ k \in {"reminder.24h", "reminder.2h", "review.request"}
      /\ status[b] = "CANCELLED"
  BY <1>1 DEF CleanupRemove, TypeOK, CleanupStep, JobNames, CleanupIsDue
<1>3. /\ \/ cleanup' = [cleanup EXCEPT ![b] = "idle"] /\ UNCHANGED job
         \/ cleanup' = [cleanup EXCEPT ![b] = AfterRemoval(k)] /\ SetJob(b, k, NoJob)
      /\ UNCHANGED <<status, row, created, plan, mails, faults>>
  BY <1>1 DEF CleanupRemove
<1>4. AfterRemoval(k) \in CleanupStep /\ "idle" \in CleanupStep
  BY <1>2 DEF AfterRemoval, CleanupStep
<1>5. cleanup' \in [Bookings -> CleanupStep] /\ CleanupIsDue'
  BY <1>2, <1>3, <1>4 DEF TypeOK, CleanupIsDue
<1>6. /\ job' \in [Bookings -> [JobNames -> Job]]
      /\ job'[b][k] = job[b][k] \/ job'[b][k] = NoJob
      /\ \A e \in Bookings, i \in JobNames : e # b \/ i # k => job'[e][i] = job[e][i]
  <2>1. CASE UNCHANGED job
    BY <2>1 DEF TypeOK
  <2>2. CASE SetJob(b, k, NoJob)
    BY <1>2, <2>2, NoJobShape, SetJobShape
  <2> QED BY <1>3, <2>1, <2>2
<1>7. TypeOK'
  BY <1>3, <1>5, <1>6 DEF TypeOK
<1>8. RowsAreCreated' /\ PlanHoldsRow'
  BY <1>3 DEF RowsAreCreated, PlanHoldsRow, MadeFor
<1>9. \A e \in Bookings, i \in JobNames :
        job'[e][i].nid = job[e][i].nid \/ job'[e][i].nid = None
  BY <1>6, NoJobShape
<1>10. RowsHaveOneOwner'
  BY <1>3, <1>9 DEF RowsHaveOneOwner
<1>11. ASSUME NEW e \in Bookings, NEW i \in JobNames PROVE JobOK(e, i)'
  <2>1. CASE job'[e][i] = job[e][i]
    <3>1. created <= created' /\ faults <= faults'
      BY <1>3, RowAssumption, RetryAssumption DEF TypeOK
    <3>2. WillMail(e, i) => row'[job[e][i].at].state # "SENT"
      BY <1>3 DEF JobOK, RowsTellJob
    <3> QED BY <1>3, <1>7, <2>1, <3>1, <3>2, JobKept
  <2>2. CASE e = b /\ i = k /\ job'[e][i] = NoJob
    <3>1. JobHoldsRows(e, i)' /\ RowsTellJob(e, i)'
      BY <2>2, NoJobShape DEF JobHoldsRows, RowsTellJob, WillMail
    <3>2. MailsAreCounted(e, i)'
      BY <1>2, <1>3, <2>2 DEF MailsAreCounted
    <3> QED BY <3>1, <3>2 DEF JobOK
  <2> QED BY <1>6, <2>1, <2>2
<1> QED BY <1>5, <1>7, <1>8, <1>10, <1>11

\* deleteMany reaches the rows of a cancelled booking alone.
LEMMA CleanupRowsStep ==
  ASSUME NotificationInv, NEW b \in Bookings, CleanupRows(b)
  PROVE  NotificationInv'
<1> USE DEF NotificationInv
<1>1. /\ status[b] = "CANCELLED" /\ cleanup' = [cleanup EXCEPT ![b] = "idle"]
      /\ UNCHANGED <<status, created, job, plan, mails, faults>>
  BY DEF CleanupRows, CleanupIsDue
<1>2. ASSUME NEW n \in Rows
      PROVE  /\ row'[n] \in Row /\ row'[n].b = row[n].b /\ row'[n].type = row[n].type
             /\ \/ row'[n] = row[n]
                \/ row[n].b = b /\ row[n].state # "ABSENT" /\ row'[n].state = "ABSENT"
  <2>1. row[n] \in Row
    BY DEF TypeOK
  <2>2. /\ [row[n] EXCEPT !.state = "ABSENT"] \in Row
        /\ [row[n] EXCEPT !.state = "ABSENT"].b = row[n].b
        /\ [row[n] EXCEPT !.state = "ABSENT"].type = row[n].type
        /\ [row[n] EXCEPT !.state = "ABSENT"].state = "ABSENT"
    BY <2>1 DEF Row
  <2>3. row'[n] = IF row[n].b = b /\ row[n].state = "PENDING"
                  THEN [row[n] EXCEPT !.state = "ABSENT"] ELSE row[n]
    BY DEF CleanupRows
  <2>4. CASE row[n].b = b /\ row[n].state = "PENDING"
    BY <2>2, <2>3, <2>4
  <2>5. CASE ~(row[n].b = b /\ row[n].state = "PENDING")
    BY <2>1, <2>3, <2>5
  <2> QED BY <2>4, <2>5
<1>3. row' \in [Rows -> Row]
  <2>1. row' = [n \in Rows |-> row'[n]]
    BY DEF CleanupRows
  <2> QED BY <1>2, <2>1
<1>4. TypeOK'
  BY <1>1, <1>3 DEF TypeOK, CleanupStep
<1>5. \A n \in 1..created : n \in Rows
  BY RowAssumption DEF TypeOK, Rows
<1>6. RowsAreCreated'
  <2>1. \A n \in Rows : row'[n].state # "ABSENT" => row[n].state # "ABSENT"
    BY <1>2
  <2>2. ASSUME NEW n \in 1..created
        PROVE  /\ row'[n].b \in Bookings
               /\ row'[n].state = "ABSENT" => status[row'[n].b] = "CANCELLED"
    BY <1>1, <1>2, <1>5 DEF RowsAreCreated
  <2> QED BY <1>1, <2>1, <2>2 DEF RowsAreCreated
<1>7. CleanupIsDue'
  BY <1>1 DEF TypeOK, CleanupIsDue
<1>8. PlanHoldsRow' /\ RowsHaveOneOwner'
  BY <1>1, <1>2, <1>5 DEF PlanHoldsRow, RowsHaveOneOwner, MadeFor
<1>9. ASSUME NEW e \in Bookings, NEW i \in JobNames PROVE JobOK(e, i)'
  <2>1. created <= created' /\ faults <= faults'
    BY <1>1, RowAssumption, RetryAssumption DEF TypeOK
  <2>2. JobOK(e, i)
    OBVIOUS
  <2>3. /\ job[e][i].state # "none" =>
             job[e][i].nid \in 1..created /\ row[job[e][i].nid].b = e
        /\ WillMail(e, i) =>
             job[e][i].at \in 1..created /\ row[job[e][i].at].state # "SENT"
    BY <2>2 DEF JobOK, JobHoldsRows, RowsTellJob, WillMail, MadeFor
  <2>4. job[e][i].state # "none" =>
          \/ row'[job[e][i].nid].state = row[job[e][i].nid].state
          \/ row'[job[e][i].nid].state = "ABSENT" /\ status'[e] = "CANCELLED"
    BY <1>1, <1>2, <1>5, <2>3
  <2>5. WillMail(e, i) => row'[job[e][i].at].state # "SENT"
    BY <1>2, <1>5, <2>3
  <2>6. \A n \in 1..created : row'[n].b = row[n].b /\ row'[n].type = row[n].type
    BY <1>2, <1>5
  <2> QED BY <1>1, <1>4, <2>1, <2>2, <2>4, <2>5, <2>6, JobKept
<1> QED BY <1>4, <1>6, <1>7, <1>8, <1>9

-----------------------------------------------------------------------------
(* The theorems *)

LEMMA NotificationStutter == NotificationInv /\ UNCHANGED vars => NotificationInv'
BY DEF vars, NotificationInv, TypeOK, RowsAreCreated, CleanupIsDue, PlanHoldsRow,
       RowsHaveOneOwner, JobOK, JobHoldsRows, RowsTellJob, MailsAreCounted, MadeFor,
       WillMail, Suppressed

LEMMA NotificationStep == NotificationInv /\ [Next]_vars => NotificationInv'
<1> SUFFICES ASSUME NotificationInv, [Next]_vars PROVE NotificationInv'
  OBVIOUS
<1>1. ASSUME NEW c \in Confirmers, Confirmer(c) \/ ConfirmerFails(c)
      PROVE  NotificationInv'
  BY <1>1, CreateRowStep, AddJobStep, ConfirmerFailsStep DEF Confirmer
<1>2. ASSUME NEW b \in Bookings, CancelBooking(b) \/ RefundBooking(b) \/ Cleanup(b)
      PROVE  NotificationInv'
  BY <1>2, BookingEnds, CleanupRemoveStep, CleanupRowsStep DEF Cleanup
<1>3. ASSUME NEW b \in Bookings, NEW k \in JobNames,
             Worker(b, k) \/ AttemptThrows(b, k) \/ WorkerStalls(b, k) \/ HookFails(b, k)
      PROVE  NotificationInv'
  BY <1>3, StartJobStep, LoadRowStep, RecreateRowStep, CheckBookingStep, SendMailStep,
     MarkSentStep, AcknowledgeStep, OnFailedStep, HookFailsStep, FaultSteps
  DEF Worker
<1> QED BY <1>1, <1>2, <1>3, NotificationStutter DEF Next

\* sendNotification, cancelBookingReminders, process and onFailed keep the
\* invariant in every interleaving and with any failures.
THEOREM NotificationInvariance == Spec => []NotificationInv
BY NotificationStart, NotificationStep, PTL DEF Spec

\* The types of the table, the queue and the processes.
THEOREM NotificationTypes == Spec => []TypeOK
<1>1. NotificationInv => TypeOK
  BY DEF NotificationInv
<1> QED BY <1>1, NotificationInvariance, PTL

\* However many requests confirm a booking, until it is cancelled each of its
\* notifications is mailed once, and once more for a failed attempt at most.
THEOREM NotificationsMailedOnce == Spec => []MailedOnce
<1>1. NotificationInv => MailedOnce
  BY DEF NotificationInv, JobOK, MailsAreCounted, MailedOnce
<1> QED BY <1>1, NotificationInvariance, PTL

\* What onFailed has recorded stays: no job that shares a row takes it back, and
\* it passes over only a job that stalled twice with attempts left.
THEOREM FailuresAreRecorded == Spec => []FailureIsRecorded
<1>1. NotificationInv => FailureIsRecorded
  BY DEF NotificationInv, JobOK, RowsTellJob, FailureIsRecorded
<1> QED BY <1>1, NotificationInvariance, PTL

\* What a step may do to the mails and to the bookings.
LEMMA StepFrame ==
  ASSUME [Next]_vars
  PROVE  /\ \/ UNCHANGED mails
            \/ \E b \in Bookings, k \in JobNames : SendMail(b, k)
         /\ \/ UNCHANGED status
            \/ \E b \in Bookings : status' = [status EXCEPT ![b] = "CANCELLED"]
<1>1. ASSUME NEW c \in Confirmers, Confirmer(c) \/ ConfirmerFails(c)
      PROVE  UNCHANGED mails /\ UNCHANGED status
  BY <1>1 DEF Confirmer, CreateRow, AddJob, ConfirmerFails
<1>2. ASSUME NEW b \in Bookings, CancelBooking(b) \/ RefundBooking(b) \/ Cleanup(b)
      PROVE  /\ UNCHANGED mails
             /\ UNCHANGED status \/ status' = [status EXCEPT ![b] = "CANCELLED"]
  BY <1>2 DEF CancelBooking, RefundBooking, Cleanup, CleanupRemove, CleanupRows
<1>3. ASSUME NEW b \in Bookings, NEW k \in JobNames,
             Worker(b, k) \/ AttemptThrows(b, k) \/ WorkerStalls(b, k) \/ HookFails(b, k)
      PROVE  (UNCHANGED mails \/ SendMail(b, k)) /\ UNCHANGED status
  <2>1. CASE \E n \in Rows : LoadRow(b, k, n) \/ RecreateRow(b, k, n)
    BY <2>1 DEF LoadRow, RecreateRow
  <2>2. CASE CheckBooking(b, k) \/ MarkSent(b, k) \/ OnFailed(b, k)
    BY <2>2 DEF CheckBooking, MarkSent, OnFailed
  <2>3. CASE StartJob(b, k) \/ Acknowledge(b, k) \/ AttemptThrows(b, k)
               \/ WorkerStalls(b, k) \/ HookFails(b, k)
    BY <2>3 DEF StartJob, Acknowledge, AttemptThrows, WorkerStalls, HookFails
  <2>4. CASE SendMail(b, k)
    BY <2>4 DEF SendMail
  <2> QED BY <1>3, <2>1, <2>2, <2>3, <2>4 DEF Worker
<1>4. CASE UNCHANGED vars
  BY <1>4 DEF vars
<1> QED BY <1>1, <1>2, <1>3, <1>4 DEF Next

\* A mail is counted by SendMail alone, of a job that has passed its check.
LEMMA MailsOfStep ==
  ASSUME NotificationInv, [Next]_vars, NEW b \in Bookings, NEW k \in JobNames,
         mails'[b][k] # mails[b][k]
  PROVE  job[b][k].state = "checked"
<1>1. TypeOK
  BY DEF NotificationInv
<1>2. PICK e \in Bookings, i \in JobNames : SendMail(e, i)
  BY StepFrame
<1>3. e = b /\ i = k
  BY <1>1, <1>2 DEF SendMail, TypeOK
<1> QED BY <1>2, <1>3 DEF SendMail

\* No mail leaves for a row that is SENT.
THEOREM SentStaysFinal == Spec => SentIsFinal
<1>1. NotificationInv /\ [Next]_vars =>
        [\A b \in Bookings, k \in JobNames :
           mails'[b][k] # mails[b][k] => row[job[b][k].at].state # "SENT"]_vars
  BY MailsOfStep DEF NotificationInv, JobOK, RowsTellJob, WillMail
<1> QED BY <1>1, NotificationInvariance, PTL DEF Spec, SentIsFinal

\* After a cancellation, and once the reminders past their check are out, the
\* reminders stay silent for good, whatever jobs survived the cleanup.
THEOREM RemindersSilent == Spec => RemindersStaySilent
<1>1. NotificationInv /\ [Next]_vars =>
        [\A b \in Bookings :
           Quiet(b) => Quiet(b)' /\ \A k \in Reminders : mails'[b][k] = mails[b][k]]_vars
  <2> SUFFICES ASSUME NotificationInv, [Next]_vars, NEW b \in Bookings, Quiet(b)
               PROVE  Quiet(b)' /\ \A k \in Reminders : mails'[b][k] = mails[b][k]
    OBVIOUS
  <2>1. TypeOK /\ \A k \in Reminders : k \in JobNames
    BY DEF NotificationInv, Reminders, JobNames
  <2>2. \A k \in Reminders : mails'[b][k] = mails[b][k]
    BY <2>1, MailsOfStep DEF Quiet
  <2>3. status'[b] = "CANCELLED"
    <3>1. UNCHANGED status \/ \E e \in Bookings : status' = [status EXCEPT ![e] = "CANCELLED"]
      BY StepFrame
    <3> QED BY <2>1, <3>1 DEF Quiet, TypeOK
  <2>4. ASSUME NEW k \in Reminders PROVE job'[b][k].state # "checked"
    <3>1. k \in JobNames /\ job[b][k].state # "checked" /\ Suppressed(b, k)
      BY <2>1 DEF Quiet, Suppressed
    <3>2. ASSUME NEW e \in Bookings, NEW i \in JobNames, NEW j \in Job, SetJob(e, i, j),
                 j.state # "checked"
          PROVE  job'[b][k].state # "checked"
      BY <2>1, <3>1, <3>2, SetJobShape
    <3>3. ASSUME NEW c \in Confirmers, Confirmer(c) \/ ConfirmerFails(c)
          PROVE  job'[b][k].state # "checked"
      <4>1. CASE UNCHANGED job
        BY <3>1, <4>1
      <4>2. CASE AddJob(c) /\ job' # job
        <5>1. PICK e, i, x : e = plan[c].b /\ i = Head(plan[c].todo) /\ x = plan[c].nid
          OBVIOUS
        <5>2. SetJob(e, i, [NoJob EXCEPT !.state = "delayed", !.nid = x]) /\ x # None
          BY <4>2, <5>1 DEF AddJob
        <5>3. plan[c] \in Plan /\ plan[c].todo # <<>>
          BY <5>1, <5>2 DEF NotificationInv, TypeOK, PlanHoldsRow
        <5>4. e \in Bookings /\ i \in JobNames
          BY <5>1, <5>3, HeadTailProperties DEF Plan
        <5>5. /\ [NoJob EXCEPT !.state = "delayed", !.nid = x] \in Job
              /\ [NoJob EXCEPT !.state = "delayed", !.nid = x].state = "delayed"
          BY <5>1, <5>3, NoJobShape DEF Job, JobState, Plan
        <5> QED BY <3>2, <5>2, <5>4, <5>5
      <4> QED BY <3>3, <4>1, <4>2 DEF Confirmer, CreateRow, ConfirmerFails
    <3>4. ASSUME NEW e \in Bookings, CancelBooking(e) \/ RefundBooking(e) \/ Cleanup(e)
          PROVE  job'[b][k].state # "checked"
      <4>1. CASE UNCHANGED job
        BY <3>1, <4>1
      <4>2. CASE CleanupRemove(e) /\ job' # job
        <5>1. PICK i : i = cleanup[e]
          OBVIOUS
        <5>2. i \in JobNames /\ SetJob(e, i, NoJob)
          BY <4>2, <5>1 DEF CleanupRemove
        <5> QED BY <3>2, <5>2, NoJobShape
      <4> QED BY <3>4, <4>1, <4>2 DEF CancelBooking, RefundBooking, Cleanup, CleanupRows
    <3>5. ASSUME NEW e \in Bookings, NEW i \in JobNames,
                 Worker(e, i) \/ AttemptThrows(e, i) \/ WorkerStalls(e, i) \/ HookFails(e, i)
          PROVE  job'[b][k].state # "checked"
      <4>1. job[e][i] \in Job
        BY <2>1 DEF TypeOK
      <4>2. \A s \in JobState : [job[e][i] EXCEPT !.state = s] \in Job
                                /\ [job[e][i] EXCEPT !.state = s].state = s
        BY <4>1, MovedShape
      <4>3. CASE StartJob(e, i)
        BY <3>2, <4>2, <4>3 DEF StartJob, JobState
      <4>4. CASE SendMail(e, i)
        BY <3>2, <4>2, <4>4 DEF SendMail, JobState
      <4>5. CASE Acknowledge(e, i)
        BY <3>2, <4>2, <4>5 DEF Acknowledge, JobState
      <4>6. CASE OnFailed(e, i)
        BY <3>2, <4>2, <4>6 DEF OnFailed, JobState
      <4>7. CASE MarkSent(e, i)
        BY <3>2, <4>1, <4>2, <4>7, AttemptFailedShape DEF MarkSent, JobState
      <4>8. CASE AttemptThrows(e, i)
        BY <3>2, <4>1, <4>8, AttemptFailedShape DEF AttemptThrows
      <4>9. CASE WorkerStalls(e, i)
        BY <3>2, <4>1, <4>9, StallShape
      <4>10. ASSUME NEW n \in Rows, NEW s \in {"loaded", "completed"},
                    SetJob(e, i, [job[e][i] EXCEPT !.at = n, !.state = s])
             PROVE  job'[b][k].state # "checked"
        <5>1. /\ [job[e][i] EXCEPT !.at = n, !.state = s] \in Job
              /\ [job[e][i] EXCEPT !.at = n, !.state = s].state = s
          BY <4>1 DEF Job, JobState
        <5> QED BY <3>2, <4>10, <5>1
      <4>11. ASSUME NEW n \in Rows, LoadRow(e, i, n) \/ RecreateRow(e, i, n)
             PROVE  job'[b][k].state # "checked"
        BY <4>10, <4>11 DEF LoadRow, RecreateRow
      <4>12. CASE HookFails(e, i)
        BY <3>2, <4>2, <4>12 DEF HookFails, JobState
      <4>13. CASE CheckBooking(e, i)
        <5>1. CASE e = b /\ i = k
          <6>1. \/ SetJob(e, i, [job[e][i] EXCEPT !.state = "completed"])
                \/ SetJob(e, i, AttemptFailed(job[e][i]))
            BY <3>1, <4>13, <5>1 DEF CheckBooking
          <6> QED BY <3>2, <4>1, <4>2, <6>1, AttemptFailedShape DEF JobState
        <5>2. CASE e # b \/ i # k
          <6>1. PICK j : SetJob(e, i, j)
            BY <4>13 DEF CheckBooking
          <6>2. job'[b][k] = job[b][k]
            BY <2>1, <3>1, <5>2, <6>1 DEF SetJob, TypeOK
          <6> QED BY <3>1, <6>2
        <5> QED BY <5>1, <5>2
      <4> QED BY <3>5, <4>3, <4>4, <4>5, <4>6, <4>7, <4>8, <4>9, <4>11, <4>12, <4>13 DEF Worker
    <3> QED BY <3>1, <3>3, <3>4, <3>5 DEF Next, vars
  <2> QED BY <2>2, <2>3, <2>4 DEF Quiet
<1> QED BY <1>1, NotificationInvariance, PTL DEF Spec, RemindersStaySilent

=============================================================================
