SPECIFICATION FairSpec
CONSTANTS
  MaxTasks = 3
  PidRows = 2
  PidBits = 2
  Loaders = {0}
  Creators = {}
  Waiters = {}
  Killers = {0}
  Targets = {1, 2}
  KillSignals = {"SIGSTOP"}
  SemMax = 2
  Raisers = {}
  Takers = {}
  MaxRaises = 0
PROPERTY
  ClearupEnds
