SPECIFICATION Spec
CONSTANTS
  Clients = {c1}
  Handlers = {h1}
  NoClient = NoClient
CHECK_DEADLOCK FALSE
PROPERTIES
  StopReleasesJoin
