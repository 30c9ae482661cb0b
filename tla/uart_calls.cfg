\* Three calls over a lossy line, with and without a wall clock that is set.
SPECIFICATION ManagerFairSpec
CONSTANTS
  Calls = {c1, c2, c3}
  NoCall = NoCall
  Timeout = 1
  Margin = 2
  SeqMax = 3
  RecoverEvery = 2
CHECK_DEADLOCK FALSE
INVARIANTS OwnReply
PROPERTIES QueueMoves
