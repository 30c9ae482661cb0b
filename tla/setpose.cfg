\* Every interleaving of requests, ticks, aborts and the user button.
SPECIFICATION SetPoseSpec
CONSTANTS
  MaxRequests = 4
  StoreKept = {TRUE, FALSE}
  Buttons = {TRUE, FALSE}
PROPERTIES WholeTrajectory RelaxOnlyHome
