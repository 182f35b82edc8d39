SPECIFICATION Spec
CONSTANTS
  Unreadable = "unreadable"
  Configs <- FiveConfigs
INVARIANT FailureIsRestarted
