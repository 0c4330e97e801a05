SPECIFICATION Spec
CONSTANTS
  MaxTries = 2
  Languages = {"fr", "en"}
  Users = {"owner", "own er", "Jean D", "Guest", "?"}
  Stripped <- MCStripped
  Refused = {"Guest", ""}
  Docs <- MCDocs
  NoDoc = NoDoc
INVARIANTS RebootsAsChosen MasterKept OneOfEach OneLanguage
