SPECIFICATION FairSpec
CONSTANTS
  Swaps = {s1, s2, s3}
  Size = 100
  Fractions = {0, 50, 100}
CHECK_DEADLOCK FALSE
INVARIANTS TypeOK AnswersRefined PoolIsMineable CollisionsExplained
PROPERTY SwapsReturn
