\* Four nodes whose processes end as soon as they have terminated.
SPECIFICATION FairSpec
CONSTANTS
  N = 4
  Id <- Ids
  ProcessExit = TRUE
INVARIANTS TypeOK OnlyTheLargestWins NoGapInTheNews
PROPERTIES EveryNodeStops RunsOut ImplementsElection
CHECK_DEADLOCK FALSE
