CONSTANTS
  Requests = {r1}
  Owner = emp
  HRs = {hr}
  Managers = {}
  NoManager = NoManager
  Types = {annual}
  Tracked = {annual}
  Retirable = {}
  Flows <- AnyFlow
  Horizon = 5
  Weekend = {}
  Holidays = {}
  MonthEnds = {2, 4}
  MonthlyAccrual = 1
  AllowNegative = 0
  Opening = 1
  Corrections = {1}
  MaxCredit = 3
SPECIFICATION SSpec
CHECK_DEADLOCK FALSE
INVARIANT LeaveTakenIsEarned
