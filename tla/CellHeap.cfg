CONSTANTS
  NCells = 5
  ArgCounts = {1, 5}
SPECIFICATION Spec
INVARIANT HeapSound
PROPERTIES NeverReissued SearchIsComplete RecoveryFreesAll SoundNeverAsserts
CONSTRAINT Explored
CHECK_DEADLOCK FALSE
