\* Two operators who start and leave HEAD and send intents, connect and
\* disconnect at any moment, with and without a VR configuration.
SPECIFICATION FairSpec
CONSTANTS
  Clients = {c1, c2}
  MaxLoops = 2
  VrModes = {2, 3, 5}
  IntentModes = {2, 4}
CHECK_DEADLOCK FALSE
INVARIANTS ReleasedWithoutLoop
PROPERTIES LeaveEndsHead
