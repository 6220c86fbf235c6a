\* Three jobs on two threads, every kind of work, two scans, a SIGINT anywhere in
\* the life of the process.
SPECIFICATION CmdFairSpec
CONSTANTS
  N = 3
  Works <- AllWorks
  Threads = 2
  Scopes <- TwoFamilies
  Scale = 100
INVARIANTS
  TypeOK
  TotalsMatch
  FamiliesMatch
  OutcomeMatches
  DrainOrder
  PrefixOfComplete
  SummaryComplete
  ExitCodes
PROPERTIES
  FramingKept
  Exits
