\* IndexIsPosition is what the documentation says.
SPECIFICATION Spec
CONSTANTS
  N = 2
  Works <- AllWorks
  Threads = 2
  Scopes <- OneFamily
  Scale = 100
INVARIANTS
  IndexIsPosition
