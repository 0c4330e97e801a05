SPECIFICATION Spec
CONSTANTS
  OsTypes = {o1}
  Builtin = {}
  Central = Central
  Regens = {r1, r2}
  NoFile = NoFile
  Manual = Manual
  MaxChanges = 2
  MaxPending = 1
SYMMETRY Symmetry
INVARIANTS TypeOK CentralLinksExist FreshUnlessExcused
