----------------------------- MODULE MCAvailability -----------------------------
(***************************************************************************)
(* An instance of Availability for TLC.  A behaviour has one of two loads: *)
(* one setter proposes every schedule of up to MaxWindows windows on one   *)
(* day, or several setters with the schedules in Contested while visitors  *)
(* ask for slots.                                                          *)
(***************************************************************************)
EXTENDS Availability

CONSTANT MaxWindows  \* bound: windows of a proposal that is validated

VARIABLE load

W(day, start, end) ==
  [weekday |-> day, start |-> start, end |-> end, isAvailable |-> TRUE]

Early == 0..4

Monday == [weekday : {0}, start : Early, end : Early, isAvailable : {TRUE}]

\* Two windows that touch, one window across both and another day, a day off.
Contested ==
  {<<W(0, 0, 3), W(0, 3, 6)>>, <<W(1, 2, 5), W(0, 1, 5)>>,
   <<[W(0, 0, 6) EXCEPT !.isAvailable = FALSE]>>}

MCProposals ==
  Contested \cup UNION {[1..n -> Monday] : n \in 0..MaxWindows}

MCDuration == [o \in Offerings |-> IF o = "long" THEN 2 ELSE 1]

MCBuffer == [o \in Offerings |-> IF o = "long" THEN 0 ELSE 1]

MCInit == Init /\ load \in {"validation", "contention"}

Validation(s) ==
  \/ setter[s].pc = "idle" /\ \E dto \in Proposals : SetAvailability(s, dto)
  \/ SetterEnds(s)

Contention(s) ==
  \/ \E dto \in Contested : SetAvailability(s, dto)
  \/ OpenReplacement(s) \/ CommitReplacement(s) \/ SetterEnds(s)

MCNext ==
  /\ \/ /\ load = "validation"
        /\ \/ Validation(CHOOSE s \in Setters : TRUE)
           \/ \E o \in Offerings : SetActive(o)
     \/ /\ load = "contention"
        /\ \/ \E s \in Setters : Contention(s)
           \/ \E v \in Visitors : Visit(v)
           \/ Midnight
           \/ SetActive("long")
  /\ UNCHANGED load

MCSpec == MCInit /\ [][MCNext]_<<vars, load>>

=============================================================================
