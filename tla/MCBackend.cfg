SPECIFICATION BackendSpec
CONSTANTS
  c1 = c1
  c2 = c2
  k1 = k1
  k2 = k2
  cool = cool
  gone = gone
  off = off
  power = power
  hot = hot
  CmdIds = {c1, c2}
  Keys = {k1, k2}
  IrCodes = {cool}
  UnknownCodes = {}
  DisabledCodes = {}
  PlainActions = {}
  OutOfRange = {}
  TtlRequests = {1}
  MaxTtl = 2
  PlainTtl = 3
  Grain = 1
  RingSize = 1
  CacheSize = 1
  CacheTtl = 1
  IrMutating = TRUE
  TlsNeedsClock = FALSE
  MaxTime = 2
  MaxBackendDrops = 1
  MaxDeviceDrops = 0
  MaxReboots = 0
  MaxRestarts = 0
  NoKey = NoKey
  NoPayload = NoPayload
  Outcomes = {"device_offline", "failed_to_publish", "published"}
  MaxId = 2
  SlotsPerDay = 2
  DaysPerWeek = 2
  Requests <- MCRequests
  Patches <- MCPatches
  MaxMinute = 2
  MaxAborts = 1
  MaxStepsBack = 1
  MaxEdits = 2
SYMMETRY Symmetry
INVARIANTS
  PipelineAndSchedulesTypeOK
  EmissionBudget
  OneEmissionPerKey
  OutcomeTruth
  AtMostOncePerMinute
  NoRetryStorm
  OneShotOnce
  KeysAreOwn
  NoMissedFiring
PROPERTIES
  EmissionIsTimely
  ReplayNeedsEviction
CHECK_DEADLOCK FALSE
