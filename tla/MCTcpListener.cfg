SPECIFICATION FairSpec
CONSTANTS
  MaxConns = 3
  MaxSent = 3
  Backlog = 2
  BufferSize = 2
INVARIANTS ListenerInv UnheardHadLeft
PROPERTY OnlySilenceBlocks
CHECK_DEADLOCK FALSE
