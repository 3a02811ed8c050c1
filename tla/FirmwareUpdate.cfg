SPECIFICATION FairUpdateSpec
CONSTANTS
  Images = {backup, foreign}
  Sound = {backup}
  NoImage = none
  MaxAttempts = 3
INVARIANTS TypeOK DamageIsRecoverable FallbackKept UploadInterlocked
PROPERTIES RestorePromised BootLoopEnds
