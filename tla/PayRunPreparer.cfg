CONSTANTS
  ann = ann
  bob = bob
  cat = cat
  r1 = r1
  r2 = r2
  NoUser = NoUser
  Users <- MCUsers
  Admins <- MCAdmins
  Preparers <- MCPreparers
  Periods = {"jul", "aug"}
  Sheets = {"high", "negative"}
  Negative = {"negative"}
  Costly = {"high"}
  Grantable <- MCGrantable
  SettingsChoices <- MCSettings
  ApproverChoices <- MCApprovers
  MaxClock = 6
  Adjustments = {bonus, advance}
  PayRuns = {jan, feb, mar}
  MaxOccurrences = 3
SPECIFICATION MCSpec
CHECK_DEADLOCK FALSE
INVARIANT NoPreparerApproves
