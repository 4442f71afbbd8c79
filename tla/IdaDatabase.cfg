SPECIFICATION FairSpec
CONSTANTS
  Skills = 2
  RestoresParts = FALSE
INVARIANTS TypeOK CopyIsVerified
PROPERTIES  RunEnds
