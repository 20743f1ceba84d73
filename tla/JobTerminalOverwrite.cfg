CONSTANTS
  j1 = j1
  w1 = w1
  w2 = w2
  Jobs <- OneJob
  Workers <- TwoWorkers
  NoJob = NoJob
  NoWorker = NoWorker
  MaxAttempts = 2
  MaxStalls = 1
  MaxFaults = 1
  MissIsNull = FALSE
SPECIFICATION Spec
PROPERTIES
  TerminalIrreversible
