SPECIFICATION FairSpec
CONSTANTS
  MaxTasks = 3
  PidRows = 1
  PidBits = 3
  Loaders = {0}
  Creators = {}
  Waiters = {}
  Killers = {1}
  Targets = {1, 2}
  KillSignals = {"SIGSTOP", "SIGCHILD", "SIGWAIT", "SIGRESERVE"}
  SemMax = 2
  Raisers = {}
  Takers = {}
  MaxRaises = 0
INVARIANTS
  ListsSound
  
PROPERTIES
  NobodyStarves
