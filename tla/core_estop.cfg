\* E-STOP, STOP, SAFE, ENABLE and HOME against the VR pipeline.
SPECIFICATION FairSpec
CONSTANTS
  DebounceSamples = 2
  Lines = {TRUE, FALSE}
  WatchdogPeriod = 2
  FrameTimeout = 1
  StreamTimeout = 0
  HbMod = 2
  VrModes = {2}
  StreamFrames = {}
  Commands = {"STOP", "SAFE", "ENABLE", "HOME"}
  Buttons = {FALSE}
INVARIANTS EstopTorqueOff SilentLinkBounded
PROPERTIES TorqueOnlyInIdle NoStaleTrajectory SeenEntryNeedsHeartbeat PressStops SilenceStops
