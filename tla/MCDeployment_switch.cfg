SPECIFICATION Spec
CONSTANTS
  Slots = {blue, green}
  Sessions = {d1, d2}
  Modes = {"deploy", "stage"}
  Requests = {}
  Idle = 0
  Cooldown = 0
  None = none
SYMMETRY Interchangeable
INVARIANTS ExclusiveWindow
PROPERTIES SwitchesGuarded
