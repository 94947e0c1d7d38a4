SPECIFICATION Spec
CONSTANTS
  Steps <- MCSteps
  Restored = {"smart", "wheel", "button"}
  Fallback = {"wheel", "button"}
  EventsCap = 2
  MaxConfigurators = 3
  MaxFaults = 2
INVARIANT NoSendOnClosed
CHECK_DEADLOCK FALSE
