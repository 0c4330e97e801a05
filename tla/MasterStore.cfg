SPECIFICATION Spec
CONSTANTS
  Masters = {m1, m2}
  Uploads = {1, 2}
  Others = {3}
  Pool = 2
  Torn = Torn
  NoScripts = NoScripts
SYMMETRY MCSymmetry
INVARIANTS ProcessingHasTask DoneMovedItsOwn ServedWhole EntryOfOwnImage QuietScriptsCurrent
