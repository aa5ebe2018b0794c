SPECIFICATION MinerSpec
CONSTANTS
  MiningOptions <- MCBoth
  MaxStarts = 2
  MaxRestarts = 2
  MaxTemplates = 2
  MaxAutodetect = 2
  MaxMinerThreads = 4
PROPERTIES
  ThreadsRestarted
