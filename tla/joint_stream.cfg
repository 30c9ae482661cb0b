\* Every limit scaled down to one or two exchanges, in the order of the code's;
\* any frame and any reply may be lost, for any time.
SPECIFICATION StreamFairSpec
CONSTANTS
  Masters = {"node", "plugin"}
  MaxPos = 1
  Gate = 0
  LinkTimeout = 1
  StreamTimeout = 1
  FrameTimeout = 1
PROPERTIES FollowsConsentOnly ConsentEnds
