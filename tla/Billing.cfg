CONSTANTS
  Attempts = {1, 2}
  Payers = {1}
  Bands = {1, 2}
  FirstBands = {1}
  Turns = {"past_due", "active", "canceled"}
  MaxEvents = 5
  MaxUpsets = 1
SPECIFICATION StorySpec
INVARIANTS
  TypeOK
  EachEventOnce
  MirrorsStripe
PROPERTY PaidIsOpened
CHECK_DEADLOCK FALSE
