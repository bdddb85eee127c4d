CONSTANTS
  Attempts = {1, 2}
  Payers = {1}
  Bands = {1, 2}
  FirstBands = {1}
  Turns = {"past_due", "canceled"}
  MaxEvents = 4
  MaxUpsets = 1
SPECIFICATION Spec
PROPERTY OnlyAbandonedCleared
CHECK_DEADLOCK FALSE
