SPECIFICATION Spec
CONSTANTS
  Unreadable = "unreadable"
  Configs <- FiveConfigs
INVARIANTS AppInv PadsOnly 
