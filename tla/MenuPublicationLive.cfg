SPECIFICATION FairSpec
CONSTANTS
  OsTypes = {o1}
  Builtin = {o1}
  Central = Central
  Regens = {r1, r2}
  NoFile = NoFile
  Manual = Manual
  MaxChanges = 1
  MaxPending = 1
PROPERTY ServesView
