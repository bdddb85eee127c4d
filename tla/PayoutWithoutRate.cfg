CONSTANTS
  q1 = q1
  q2 = q2
  emp = emp
  hr = hr
  boss = boss
  nobody = nobody
  MonthDays = 2
  YearMonths = 2
  LastDay = 8
  Starts = {0, 1}
  Dates = {2, 4}
  Policies <- SomePolicies
  Cutovers = {1, 5}
  Figures = {0, 3}
  EngineStartedOn = 3
  RatedDays = {}
  MaxBookings = 1
  MaxBatches = 1
  MaxVersions = 2
  SickRequests = {k1, k2}
  LastSickDay = 4
  LinkDays = 0
  Schemes <- SomeSchemes
  TakeOns <- SomeTakeOns
  EventRequests = {1, 2, 3}
  Births <- SomeBirths
  Spans <- SomeSpans
  EventRules <- SomeRules
SPECIFICATION LeaveSpec
CHECK_DEADLOCK FALSE
INVARIANT PayoutsReachPayroll
