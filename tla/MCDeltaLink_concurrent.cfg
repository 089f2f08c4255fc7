SPECIFICATION Spec
CONSTANTS
  x = x  y = y
  Items = {x, y}
  Tokens = {t1, t2, t3}
  MaxSessions = 2
  MaxBytes = 2
  SessionMax = 2
  Clients = {c1}
  Slots = {blue}
  Copies = {i1, i2}
  None = none
  Conversations <- Rewound
SYMMETRY Interchangeable
INVARIANTS ContextExact Accounted
PROPERTIES RefusedOnce
