SPECIFICATION FairSpec
CONSTANTS
  Temps = {0, 1, 2}
  Rules <- MCRules
  ScansPerMinute = 3
  Outcomes = {"device_offline", "failed_to_publish", "published"}
  Cap = 3
  MaxCrashes = 1
INVARIANT
  TypeOK
PROPERTIES
  NoEarlyReversal
  OneCommandPerMinute
  AgreedBefore
  SpikeImmune
  RefusalIsRetried
