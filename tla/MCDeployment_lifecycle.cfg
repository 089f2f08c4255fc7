SPECIFICATION FairSpec
CONSTANTS
  Slots = {blue, green}
  Sessions = {d1}
  Modes = {"deploy"}
  Requests = {}
  Idle = 0
  Cooldown = 1
  None = none
PROPERTIES ActiveComesBack DeployEnds
