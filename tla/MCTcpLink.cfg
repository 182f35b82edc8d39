SPECIFICATION FairLinkSpec
CONSTANTS
  host = host
  port = port
  name = name
  d1 = d1
  d2 = d2
  Host = host
  Port = port
  Names = {name}
  Fds = {d1, d2}
  TryCnts = {1}
  MaxConns = 2
  MaxSent = 2
  Backlog = 2
  BufferSize = 2
INVARIANTS LinkInv FirstWordIsHeard SilenceCanBeBroken
PROPERTY FirstWordArrives
CHECK_DEADLOCK FALSE
