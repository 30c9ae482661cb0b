\* Two pages, two HTTPS threads, two saves, one fault of any kind (a reply
\* lost, a caller that gives up, a crash of the server, a reset of the
\* firmware); a poll that fails PollLimit times in a row (5 in the code) ends
\* the server.
SPECIFICATION FairSpec
CONSTANTS
  Pages = {p1, p2}
  Threads = {h1, h2}
  MaxSaves = 2
  MaxFaults = 1
  Faults = {"lost", "slow", "crash", "reset"}
  PollLimit = 2
  LossBlocks = {TRUE, FALSE}
INVARIANT AgreesAtRest
PROPERTIES NothingReverts FactoryNeverStays LinkComesBack
