SPECIFICATION FairSpec
CONSTANTS
  p1 = p1
  p2 = p2
  p3 = p3
  none = none
  Pids = {p1, p2, p3}
  NoPid = none
  Tries = 2
INVARIANTS VoiceInv SttLeavesNothing SttTalksToItsOwn WakeSoundUntilAbandoned OneConnectionPerService
PROPERTY SttReturns
CHECK_DEADLOCK FALSE
