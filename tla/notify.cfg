\* Every interleaving of bouncing edges with the notification poll.
SPECIFICATION FairSpec
CONSTANTS
  DebounceSamples = 2
  Lines = {TRUE, FALSE}
INVARIANTS ConsistentUnlessMissed
PROPERTIES PiSettles
