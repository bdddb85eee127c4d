CONSTANTS
  Requests = {r1, r2}
  Owner = emp
  HRs = {hr}
  Managers = {boss}
  NoManager = NoManager
  Types = {annual, unpaid}
  Tracked = {annual}
  Retirable = {unpaid}
  Flows <- AnyFlow
  Horizon = 4
  Weekend = {}
  Holidays = {2}
  MonthEnds = {1, 3}
  MonthlyAccrual = 1
  AllowNegative = 0
  Opening <- ThreeOverdrawn
  Corrections = {2}
  MaxCredit = 3
SPECIFICATION SSpec
INVARIANTS
  TypeOK
  AllStepsApproved
  NoDoubleBooking
  LedgerMatchesCalendar
  CoveredButOneMonth
PROPERTIES
  BooksLeave
  DecidedOnce
