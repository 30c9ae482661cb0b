\* Transfers, stops of the DMA and restarts against the service thread.
SPECIFICATION FairSpec
CONSTANTS
  SeqMod = 4
  FirstSeqs <- MCFirstSeqs
  MaxFrames = 3
  MaxFaults = 1
  MaxRestarts = 1
INVARIANTS NoLostWakeup InOrder NoMixture AnswersRecent
PROPERTIES GapsCountLosses LinkRecovers
