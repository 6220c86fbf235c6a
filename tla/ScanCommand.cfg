\* Any scan of the trait, failing before or after a Result with any error; any
\* write failing; a SIGINT anywhere in the life of the process.
SPECIFICATION CmdFairSpec
CONSTANTS
  Requests <- AnyRequests
  MaxSub = 3
  MaxEmit = 2
  EarlyErrors <- ScanErrors
  LateErrors <- ScanErrors
INVARIANTS
  TypeOK
  CountersMatch
  Accounted
  FusedWhole
  DroppedOnFailure
  OutcomeMatches
  ExitCodes
PROPERTIES
  FramingKept
  Exits
