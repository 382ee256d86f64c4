--------------------------- MODULE MCNotifications ---------------------------
(***************************************************************************)
(* An instance of Notifications for TLC.  A behaviour has one of three     *)
(* loads, each a part of what Next allows: two confirmers of one booking,  *)
(* a cancellation while both reminders are scheduled or run, and attempts  *)
(* that fail or stop, those of one job in a behaviour: jobs of different   *)
(* types share no row.  With four notifications one row may be created     *)
(* again.                                                                  *)
(***************************************************************************)
EXTENDS Notifications

VARIABLE load

\* More than a day ahead, or less than two hours: the delays that are not
\* positive are skipped.  A cancellation that was accepted just before the
\* two-hour limit may still follow an Imminent schedule.
DayAhead == <<"booking.confirmation", "reminder.24h", "reminder.2h",
              "review.request">>
Imminent == <<"booking.confirmation", "review.request">>

MCPlans == {DayAhead, Imminent}

\* The load's schedule, for all of its confirmers.
PlanOf == [confirmers |-> Imminent, cancellation |-> DayAhead,
           failures |-> Imminent]

\* One confirmer is at work, and the others have nothing to do.
Single == CHOOSE c \in Confirmers : TRUE

MCInit ==
  /\ load \in DOMAIN PlanOf
  /\ InitWith([c \in Confirmers |->
       IF load = "confirmers" \/ c = Single THEN PlanOf[load] ELSE <<>>])

Hit(j) == j.attempts + j.stalls > 0

\* The failures injected so far hit one job at most.
OneIsHit ==
  \A b \in Bookings, i, k \in JobNames :
    Hit(job[b][i]) /\ Hit(job[b][k]) => i = k

MCNext ==
  /\ Next
  /\ load # "failures" => faults' = 0
  /\ faults' # faults => OneIsHit'
  /\ load = "cancellation" => created' <= Len(DayAhead) + 1
  /\ UNCHANGED load

MCSpec == MCInit /\ [][MCNext]_<<vars, load>>

MCFairSpec ==
  MCSpec /\ \A b \in Bookings, k \in JobNames : WF_vars(Worker(b, k))

=============================================================================
