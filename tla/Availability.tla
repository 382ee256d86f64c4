----------------------------- MODULE Availability -----------------------------
(***************************************************************************)
(* The weekly schedule of one provider (ProviderAvailabilityService): how  *)
(* it is validated and replaced, the slots that are generated from it, and *)
(* the check of the working hours that a booking of a slot has to pass     *)
(* (BookingService.createBooking).                                         *)
(*                                                                         *)
(* Times of day are numbers of minutes, days are counted from a day 0, and *)
(* an instant is the number of minutes since day 0, 00:00 UTC.  A slot is  *)
(* printed with the offset +05:30, so its instant is UtcOffset minutes     *)
(* before the time of day it was generated from.                           *)
(*                                                                         *)
(* The schedule is replaced in a transaction at READ COMMITTED: the        *)
(* deletion sees the rows committed when it starts.  A transaction that    *)
(* waits for rows another one deletes goes on when that one has ended, and *)
(* the rows both leave do not depend on which of them commits first.       *)
(***************************************************************************)
EXTENDS Integers, Sequences, FiniteSets, FiniteSetsExt

CONSTANTS
  DayLength,     \* minutes of a day
  Weekdays,      \* days of a week
  UtcOffset,     \* the "+05:30" of formatISOString, in minutes
  Offerings,     \* services the provider offers
  Duration,      \* durationMinutes of an offering
  Buffer,        \* bufferMinutes of an offering
  Setters,       \* requests that set the schedule
  Visitors,      \* customers who look for a slot
  Proposals,     \* schedules the setters ask for
  MaxDay,        \* bound: days a visitor asks for
  MaxRounds      \* bound: replacements of the schedule

ASSUME AvailabilityAssumption ==
  /\ DayLength \in Nat \ {0} /\ Weekdays \in Nat \ {0}
  /\ UtcOffset \in 0..DayLength
  /\ IsFiniteSet(Offerings)
  /\ Duration \in [Offerings -> Nat \ {0}]
  /\ Buffer \in [Offerings -> Nat]
  /\ MaxDay \in Nat /\ MaxRounds \in Nat

VARIABLES
  schedule,  \* table availability: the provider's rows
  active,    \* offerings with isActive
  today,     \* the current day, UTC
  setter,    \* the requests that set the schedule
  visitor,   \* the customers
  rounds,    \* replacements begun, to tell their rows apart
  serial     \* history: the last replacement met no other

vars == <<schedule, active, today, setter, visitor, rounds, serial>>

-----------------------------------------------------------------------------
(* Types and initial state *)

\* HH:mm, which AvailabityIntervalDto bounds by 23:59.
Times == 0..(DayLength - 1)

Window == [weekday : 0..(Weekdays - 1), start : Times, end : Times,
           isAvailable : BOOLEAN]

ASSUME ProposalsAssumption == Proposals \subseteq Seq(Window)

\* A row is a window with the replacement that created it.
Row == [window : Window, round : 1..MaxRounds]

Slot == [start : Int, end : Int]

\* minReq = 0: no offering is active.  deletes: the rows the deletion found.
\* alone: no other replacement was open.
Setter == [pc : {"idle", "refused", "valid", "open"}, dto : Seq(Window),
           minReq : Nat, deletes : SUBSET Row, round : 0..MaxRounds,
           alone : BOOLEAN]

NoSetter == [pc |-> "idle", dto |-> <<>>, minReq |-> 0, deletes |-> {},
             round |-> 0, alone |-> FALSE]

\* changed: the schedule or the offerings changed after the slots were read.
\* exact: the windows the slots come from were left by a lone replacement.
Visitor == [pc : {"idle", "shown", "accepted", "refused"},
            service : Offerings \cup {"none"}, slots : SUBSET Slot,
            changed : BOOLEAN, exact : BOOLEAN]

NoVisitor == [pc |-> "idle", service |-> "none", slots |-> {},
              changed |-> FALSE, exact |-> FALSE]

Init ==
  /\ schedule = {}
  /\ active = Offerings
  /\ today = 0
  /\ setter = [s \in Setters |-> NoSetter]
  /\ visitor = [v \in Visitors |-> NoVisitor]
  /\ rounds = 0
  /\ serial = TRUE

-----------------------------------------------------------------------------
(* validateSchedules *)

OnDay(dto, day) == {i \in DOMAIN dto : dto[i].weekday = day}

\* The sort by start is stable.
Before(dto, i, j) ==
  \/ dto[i].start < dto[j].start
  \/ dto[i].start = dto[j].start /\ i < j

SortedDay(dto, day) ==
  CHOOSE f \in [1..Cardinality(OnDay(dto, day)) -> OnDay(dto, day)] :
    \A k, l \in DOMAIN f : k < l => Before(dto, f[k], f[l])

\* The windows of a weekday in the order of their start.
Intervals(dto, day) ==
  [k \in 1..Cardinality(OnDay(dto, day)) |-> dto[SortedDay(dto, day)[k]]]

\* (Mutant: a window may run into the next one by its last minute.)
OverlapsByMore(w, next) == w.end > next.start + 1

Overlaps(w, next) == w.end > next.start

\* Windows that are equal overlap: the check for duplicates only words another
\* message.  minRequiredMinutes is left out, here 0, if no offering is active.
ValidSchedules(dto, minReq) ==
  \A day \in 0..(Weekdays - 1) :
    LET in == Intervals(dto, day) IN
    \A i \in 1..Len(in) :
      /\ in[i].start < in[i].end
      /\ in[i].end - in[i].start >= minReq
      /\ i < Len(in) => ~Overlaps(in[i], in[i + 1])

Occupied(o) == Duration[o] + Buffer[o]

\* Math.min over the active offerings.
MinRequired ==
  IF active = {} THEN 0 ELSE Min({Occupied(o) : o \in active})

-----------------------------------------------------------------------------
(* setAvailibity *)

SetSetter(s, r) == setter' = [setter EXCEPT ![s] = r]

\* The offerings are read and the proposal is validated.
SetAvailability(s, dto) ==
  /\ setter[s].pc = "idle"
  /\ SetSetter(s, [NoSetter EXCEPT
       !.pc = IF ValidSchedules(dto, MinRequired) THEN "valid" ELSE "refused",
       !.dto = dto, !.minReq = MinRequired])
  /\ UNCHANGED <<schedule, active, today, visitor, rounds, serial>>

IsOpen(s) == setter[s].pc = "open"

\* (Mutant: nothing is deleted.)
FoundByNoDeletion(s) == {}

FoundByDeletion(s) == schedule

\* deleteMany, the first statement of the transaction.
OpenReplacement(s) ==
  /\ setter[s].pc = "valid"
  /\ rounds < MaxRounds
  /\ rounds' = rounds + 1
  /\ setter' = [t \in Setters |->
       IF t = s
       THEN [setter[s] EXCEPT !.pc = "open", !.deletes = FoundByDeletion(s),
                              !.round = rounds + 1,
                              !.alone = \A u \in Setters : ~IsOpen(u)]
       ELSE [setter[t] EXCEPT !.alone = FALSE]]
  /\ UNCHANGED <<schedule, active, today, visitor, serial>>

NewRows(s) ==
  {[window |-> setter[s].dto[i], round |-> setter[s].round] :
     i \in DOMAIN setter[s].dto}

Stale(v) == [visitor[v] EXCEPT !.changed = visitor[v].pc # "idle"]

\* createMany and the commit.  The search version is incremented next, see
\* Listing.
CommitReplacement(s) ==
  /\ IsOpen(s)
  /\ schedule' = (schedule \ setter[s].deletes) \cup NewRows(s)
  /\ serial' = setter[s].alone
  /\ visitor' = [v \in Visitors |-> Stale(v)]
  /\ SetSetter(s, NoSetter)
  /\ UNCHANGED <<active, today, rounds>>

\* The answer of a refusal is sent, the transaction is rolled back or the
\* process stops.
SetterEnds(s) ==
  /\ setter[s].pc # "idle"
  /\ SetSetter(s, NoSetter)
  /\ UNCHANGED <<schedule, active, today, visitor, rounds, serial>>

-----------------------------------------------------------------------------
(* generateSlot *)

\* findByProviderIdAndWeekday
WindowsOf(day) ==
  {r.window : r \in {q \in schedule : q.window.weekday = day % Weekdays
                                        /\ q.window.isAvailable}}

Fits(t, o, w) == t + Duration[o] <= w.end

\* formatISOString: the minute t of the day, as an instant.
Instant(day, t) == day * DayLength + t - UtcOffset

SlotAt(day, t, o) ==
  [start |-> Instant(day, t), end |-> Instant(day, t + Duration[o])]

\* (Mutant: the next slot starts after the buffer alone.)
NextStartByBuffer(t, o) == t + Buffer[o] + 1

NextStart(t, o) == t + Occupied(o)

\* The while loop over one window.
WindowSlots(day, o, w) ==
  LET from[t \in Nat] ==
        IF Fits(t, o, w)
        THEN {SlotAt(day, t, o)} \cup from[NextStart(t, o)]
        ELSE {}
  IN  from[w.start]

\* Every slot is answered as available, whatever is booked.
Slots(day, o) == UNION {WindowSlots(day, o, w) : w \in WindowsOf(day)}

SetVisitor(v, r) == visitor' = [visitor EXCEPT ![v] = r]

\* A past date, and an offering that is not active, are refused.
GenerateSlot(v, day, o) ==
  /\ visitor[v].pc = "idle"
  /\ day >= today
  /\ o \in active
  /\ SetVisitor(v, [NoVisitor EXCEPT !.pc = "shown", !.service = o,
                                     !.slots = Slots(day, o), !.exact = serial])
  /\ UNCHANGED <<schedule, active, today, setter, rounds, serial>>

-----------------------------------------------------------------------------
(* createBooking: the working hours *)

\* Weekday and minutes are those of UTC, and the buffer has to fit.
FitsInShift(instant, o) ==
  LET start == instant % DayLength IN
  \E w \in WindowsOf(instant \div DayLength) :
    /\ start >= w.start
    /\ start + Occupied(o) <= w.end

\* The customer asks for one of the slots that were shown.
BookSlot(v, slot) ==
  /\ visitor[v].pc = "shown"
  /\ SetVisitor(v, [visitor[v] EXCEPT
       !.pc = IF visitor[v].service \in active
                   /\ FitsInShift(slot.start, visitor[v].service)
              THEN "accepted" ELSE "refused"])
  /\ UNCHANGED <<schedule, active, today, setter, rounds, serial>>

VisitorLeaves(v) ==
  /\ visitor[v].pc # "idle"
  /\ SetVisitor(v, NoVisitor)
  /\ UNCHANGED <<schedule, active, today, setter, rounds, serial>>

-----------------------------------------------------------------------------

\* update and remove of an offering, as far as they change isActive.
SetActive(o) ==
  /\ active' = IF o \in active THEN active \ {o} ELSE active \cup {o}
  /\ visitor' = [v \in Visitors |-> Stale(v)]
  /\ UNCHANGED <<schedule, today, setter, rounds, serial>>

Midnight ==
  /\ today < MaxDay
  /\ today' = today + 1
  /\ UNCHANGED <<schedule, active, setter, visitor, rounds, serial>>

SetRequest(s) ==
  \/ \E dto \in Proposals : SetAvailability(s, dto)
  \/ OpenReplacement(s) \/ CommitReplacement(s) \/ SetterEnds(s)

Visit(v) ==
  \/ \E day \in 0..MaxDay, o \in Offerings : GenerateSlot(v, day, o)
  \/ \E slot \in visitor[v].slots : BookSlot(v, slot)
  \/ VisitorLeaves(v)

Next ==
  \/ \E s \in Setters : SetRequest(s)
  \/ \E v \in Visitors : Visit(v)
  \/ \E o \in Offerings : SetActive(o)
  \/ Midnight

Spec == Init /\ [][Next]_vars

-----------------------------------------------------------------------------
(* Correctness *)

\* Types of the rows and the requests.
TypeOK ==
  /\ schedule \subseteq Row
  /\ active \subseteq Offerings
  /\ today \in 0..MaxDay
  /\ setter \in [Setters -> Setter]
  /\ visitor \in [Visitors -> Visitor]
  /\ rounds \in 0..MaxRounds
  /\ serial \in BOOLEAN

Disjoint(v, w) == v.weekday = w.weekday => v.end <= w.start \/ w.end <= v.start

\* Sorting by start and comparing neighbours refuses exactly the proposals with
\* an empty window, a window no offering fits in, or two windows of a day that
\* share a minute (validateSchedules).
ValidationIsExact ==
  \A s \in Setters : LET dto == setter[s].dto IN
    setter[s].pc # "idle" =>
      (setter[s].pc = "refused" <=>
         \E i \in DOMAIN dto :
           \/ dto[i].start >= dto[i].end
           \/ dto[i].end - dto[i].start < setter[s].minReq
           \/ \E j \in DOMAIN dto \ {i} : ~Disjoint(dto[i], dto[j]))

\* After a replacement that met no other one the provider's windows are
\* disjoint, also when earlier replacements overlapped and left the windows of
\* both (deleteMany and createMany in one transaction).
ScheduleIsDisjoint ==
  serial => \A r, q \in schedule : r # q => Disjoint(r.window, q.window)

\* Two slots that are shown together never overlap, whatever windows they come
\* from, if the schedule was left by such a replacement (the step of the loop is
\* at least the duration, and windows that touch share no minute).
SlotsDoNotCollide ==
  \A v \in Visitors : visitor[v].exact =>
    \A a, b \in visitor[v].slots :
      a.start < b.start => a.end <= b.start

\* A slot that is shown can be booked, as long as the schedule and the
\* offerings stay as they were: "available booking slots" of getAvailableSlots.
GeneratedSlotIsBookable ==
  \A v \in Visitors : visitor[v].pc = "refused" => visitor[v].changed

=============================================================================
