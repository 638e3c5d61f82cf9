SPECIFICATION SchedulesSpec
CONSTANTS
  Outcomes = {"published"}
  MaxId = 2
  SlotsPerDay = 2
  DaysPerWeek = 2
  Requests <- MCRequests
  Patches <- MCPatches
  MaxMinute = 2
  MaxAborts = 1
  MaxStepsBack = 0
  MaxEdits = 2
INVARIANT
  FiredMeansDispatched
CHECK_DEADLOCK FALSE
