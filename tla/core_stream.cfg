\* The joint stream with consent given and withdrawn, mode switches and the
\* emergency stop, on a link that may fall silent.
SPECIFICATION Spec
CONSTANTS
  DebounceSamples = 1
  Lines = {TRUE, FALSE}
  WatchdogPeriod = 2
  FrameTimeout = 1
  StreamTimeout = 1
  HbMod = 2
  VrModes = {3}
  StreamFrames = {TRUE, FALSE}
  Commands = {"ENABLE", "HOME"}
  Buttons = {TRUE, FALSE}
PROPERTIES NoConsentNoTorque TorqueHasCause
