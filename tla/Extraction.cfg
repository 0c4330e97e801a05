SPECIFICATION Spec
CONSTANTS
  OsTypes <- MCOsTypes
  Images <- MCImages
  CfgText <- MCCfgText
  MaxSteps = 2
INVARIANTS RecordedIsOnDisk BootableUnlessLenient EsxiModulesInOrder
PROPERTY ScanKeepsExtraction
CHECK_DEADLOCK FALSE
