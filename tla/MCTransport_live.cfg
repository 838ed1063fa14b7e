SPECIFICATION Spec
CONSTANTS
  Clients = {c1, c2}
  Handlers = {h1, h2}
  NoClient = NoClient
CHECK_DEADLOCK FALSE
PROPERTIES
  RequestIsAnswered
  JoinReturns
