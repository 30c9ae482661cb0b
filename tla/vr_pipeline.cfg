\* The pipeline with pose, manual, head and the joint stream.
SPECIFICATION Spec
CONSTANTS
  Modes = {1, 2, 3, 6}
  FreezeAfter = 1
  HeadZero = TRUE
PROPERTIES ReleaseCutsTorque WithinDeadman HeadReferenceKept
