SPECIFICATION Spec
CONSTANTS
  c1 = c1
  c2 = c2
  k1 = k1
  k2 = k2
  cool = cool
  gone = gone
  off = off
  power = power
  hot = hot
  CmdIds = {c1}
  Keys = {k1}
  IrCodes = {cool}
  UnknownCodes = {}
  DisabledCodes = {}
  PlainActions = {}
  OutOfRange = {}
  TtlRequests = {1}
  MaxTtl = 2
  PlainTtl = 3
  Grain = 1
  RingSize = 1
  CacheSize = 1
  CacheTtl = 2
  IrMutating = TRUE
  TlsNeedsClock = FALSE
  MaxTime = 2
  MaxBackendDrops = 1
  MaxDeviceDrops = 0
  MaxReboots = 1
  MaxRestarts = 0
  NoKey = NoKey
  NoPayload = NoPayload
PROPERTY
  StaleIntentRejected
CHECK_DEADLOCK FALSE
