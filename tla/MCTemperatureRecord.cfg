SPECIFICATION Spec
CONSTANTS
  Temps = {0, 1, 2}
  Rules <- MCRules
  ScansPerMinute = 3
  Outcomes = {"failed_to_publish", "published"}
  Cap = 3
  MaxCrashes = 0
PROPERTY
  RecordedActionWasPublished
