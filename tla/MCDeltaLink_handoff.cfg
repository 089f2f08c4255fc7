SPECIFICATION Spec
CONSTANTS
  x = x  y = y
  Items = {x, y}
  Tokens = {t1, t2, t3}
  MaxSessions = 1
  MaxBytes = 2
  SessionMax = 1
  Clients = {c1}
  Slots = {blue, green}
  Copies = {i1}
  None = none
  Conversations <- Compacted
SYMMETRY Interchangeable
INVARIANTS TypeOK ContextExact EntriesMatchHash
