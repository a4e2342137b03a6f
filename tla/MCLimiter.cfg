SPECIFICATION FairSpec
CONSTANTS
  Callers = {c1, c2, c3, c4}
  RequestsPerSecond = 1
  Burst = 1
  MaxConcurrent = 2
  Second = 3
  Lateness = 1
INVARIANTS TypeOK WindowBound PermitsConserved
PROPERTIES QueueMoves OnlyOvertaken
