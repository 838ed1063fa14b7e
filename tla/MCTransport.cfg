SPECIFICATION Spec
CONSTANTS
  Clients = {c1, c2, c3}
  Handlers = {h1, h2}
  NoClient = NoClient
CHECK_DEADLOCK FALSE
SYMMETRY Interchangeable
INVARIANTS
  OneHolder
