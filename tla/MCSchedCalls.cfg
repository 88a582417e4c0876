SPECIFICATION FairSpec
CONSTANTS
  MaxTasks = 3
  PidRows = 2
  PidBits = 2
  Loaders = {0}
  Creators = {0}
  Waiters = {1, 2}
  Killers = {0}
  Targets = {1, 2}
  KillSignals = {"SIGCHILD", "SIGRESERVE"}
  SemMax = 2
  Raisers = {1}
  Takers = {2}
  MaxRaises = 1
INVARIANTS
  
  TakenAfterRaised

  
