SPECIFICATION Spec
CONSTANTS
  EBuffer = 9
  EChunk = 4
  ESections <- Messages
  HBuffer = 2
  HLengths = {0, 1, 2, 4, 34}
  HBodies <- Bodies
  HObjects = 2
  AFiles <- Files
  AConfigs <- Configs
  ANames = {"d", "e"}
  AThreads = {1, 2}
  AScans = 1
  QNames = {n1, n2}
  QValues = {v1, v2}
  QMaxParts = 2
  QMaxSteps = 5
  OSettings <- Settings
  OFilters <- Filters
  OItems <- Items
  OMaxItems = 2
  OMaxRows = 3
  OMaxSteps = 3
  PColumns = 2
  PMaxId = 3
  PMaxSteps = 8
  IProcesses = {1, 2, 3}
  IMaxSteps = 8
CHECK_DEADLOCK FALSE
INVARIANTS HttpServes MessagesArrive ManagerKeeps RequestsMean ObjectsKeep PluginsKeep IpcExcludes
