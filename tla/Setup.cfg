SPECIFICATION SetupSpec
CONSTANTS
  DayLength = 7
  Weekdays = 2
  UtcOffset = 2
  Offerings = {"short", "long"}
  Duration <- MCDuration
  Buffer <- MCBuffer
  Setters = {"s1", "s2"}
  Visitors = {v1}
  Proposals <- MCProposals
  MaxDay = 1
  MaxRounds = 3
  MaxWindows = 3
  Owners = {"u1", "u2"}
  Names = {"n1", "n2"}
  DocTypes = {"t1"}
  Files = {"f1", "f2"}
  Clerks = {"k1", "k2"}
  Officers = {"g1", "g2"}
  Nobody = Nobody
  NoName = NoName
  Categories = {"c1", "c2"}
  Services = {"s1", "s2"}
  Labels = {"l1"}
  Providers = {"p1"}
  Stewards = {"w1", "w2"}
  Readers = {"r1"}
  Unset = Unset
INVARIANTS ValidationIsExact ScheduleIsDisjoint SlotsDoNotCollide
INVARIANTS NameClashNeedsRace DuplicateNeedsRace SettledDecision
INVARIANTS StrandedServiceHasCause StrandedOfferingHasCause
PROPERTIES SuspendedWasVerified
CHECK_DEADLOCK FALSE
