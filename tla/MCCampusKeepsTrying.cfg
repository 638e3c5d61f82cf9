SPECIFICATION FairSpec
CONSTANTS
  Builds <- MCUnattended
  MaxAuthRetries = 2
  MaxAuthAttempts = 3
  Rounds = 3
  CountCap = 5
PROPERTY
  KeepsTrying
