CONSTANTS
  ann = ann
  bob = bob
  cat = cat
  NoUser = NoUser
  Users <- MCUsers
  Admins <- MCAdmins
  Preparers <- MCPreparers
  Periods = {"jul"}
  Sheets = {"low"}
  Negative = {}
  Costly = {}
  Grantable <- NoneGrantable
  Requests = {r1, r2}
  Served <- PaidOps
  SettingsChoices <- SteadySettings
  ApproverChoices <- SteadyApprovers
  MaxClock = 9
SPECIFICATION RSpec
CHECK_DEADLOCK FALSE
PROPERTY PaidIsFinal
