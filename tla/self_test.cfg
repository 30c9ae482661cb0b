\* An operator and the connection of the self test, which serves a second
\* operator while no test runs; one pose besides HOME and home_ref, one wrist
\* joint; a demo or a test, and one fault of any kind.  When nobody presses a
\* button the server rests.
SPECIFICATION SelfTestFairSpec
CONSTANTS
  Clients = {c1, tester}
  Tester = tester
  Poses = 1
  Wrists = 1
  MaxTests = 1
  MaxSequences = 1
  MaxCommands = 2
  MaxFaults = 1
  MaxDemos = 1
  Commands = {"HOME"}
  Faults = {"lost", "slow", "stop", "imu"}
  LossBlocks = {TRUE, FALSE}
CHECK_DEADLOCK FALSE
PROPERTIES StopEndsDemo StopFreesDemo SampledAtRest TestEnds
