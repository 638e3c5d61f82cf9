SPECIFICATION FairSpec
CONSTANTS
  Builds <- MCBuilds
  MaxAuthRetries = 1
  MaxAuthAttempts = 2
  Rounds = 2
  CountCap = 5
INVARIANTS
  TypeOK
  
PROPERTY
  OnlineOrParked
