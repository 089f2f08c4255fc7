SPECIFICATION FairSpec
CONSTANTS
  Slots = {blue, green}
  Sessions = {}
  Modes = {}
  Requests = {r1}
  Idle = 1
  Cooldown = 0
  None = none
INVARIANTS TypeOK
PROPERTIES RequestsAnswered ActiveComesBack
