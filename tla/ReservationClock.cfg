SPECIFICATION FairSpec
CONSTANTS
  Bookings = {b1}
  Orders = {o1}
  Handlers = {h1, h2}
  None = None
  ProviderOf <- MCProviderOf
  StartOf <- MCStartOf
  EndOf <- MCEndOf
  PaymentWindow = 0
  CancelLead = 1
  Grace = 1
  Price = 2
  Concurrency = 2
  Attempts = 3
  Requests = {"create", "verify", "cancel", "complete"}
  EventKinds = {}
  AmountMatches = {TRUE}
  MaxFaults = 2
  Horizon = 4
INVARIANTS ConfirmedWasPaid UnpaidIsGuarded ConfirmedIsFollowedUp
PROPERTIES EndIsFinal ReviewOnlyWhenOverdue ScheduledReservationEnds OverdueIsFlagged
CHECK_DEADLOCK FALSE
