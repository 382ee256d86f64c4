SPECIFICATION MCFairSpec
CONSTANTS
  Bookings = {b1}
  MaxRows = 6
  Confirmers = {c1, c2}
  Plans <- MCPlans
  None = None
  Concurrency = 2
  Attempts = 3
  MaxFaults = 4
INVARIANTS FailureIsRecorded MailedOnce
PROPERTIES RemindersStaySilent SentIsFinal OutcomeRecorded
CHECK_DEADLOCK FALSE
