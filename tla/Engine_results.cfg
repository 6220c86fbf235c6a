\* results_emitted against the stream.
SPECIFICATION Spec
CONSTANTS
  Requests <- BuiltinRequests
  MaxSub = 2
  MaxEmit = 2
  EarlyErrors = {"Kernel"}
  LateErrors = {}
INVARIANTS
  ResultsMatchStream
