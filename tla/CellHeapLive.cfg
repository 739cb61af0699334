CONSTANTS
  NCells = 4
  ArgCounts = {1, 5, 15}
SPECIFICATION FairSpec
PROPERTY SearchEnds
CONSTRAINT Explored
CHECK_DEADLOCK FALSE
