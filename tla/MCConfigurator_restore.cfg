SPECIFICATION Spec
CONSTANTS
  Steps <- MCSteps
  Restored = {"smart", "wheel", "button"}
  Fallback = {"wheel", "button"}
  EventsCap = 2
  MaxConfigurators = 3
  MaxFaults = 2
INVARIANTS ChangesAreCovered FoundIsRestored
CHECK_DEADLOCK FALSE
