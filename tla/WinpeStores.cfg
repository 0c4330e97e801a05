SPECIFICATION Spec
CONSTANTS
  Slugs = {1, 2, 3}
  Labels = {"A", "B", "C"}
  DefaultLabel <- MCDefaultLabel
  Machines <- MCMachines
  DriverUploads = {1, 2}
  ByHand = {3}
  Viewers = {3}
  Unreadable = Unreadable
  Short = {"fr", "en", "lp", "OCR", "FR", "US"}
  Long = {"LanguageFeatures", "Microsoft"}
  KnownLangs = {"fr", "en"}
  Ignored = {"amd64", "OCR", "Package", "Client", "neutral"}
  NoLocale = NoLocale
  Names <- MCNames
  PackUploads = {1, 2}
  Rebuilders = {3}
  MaxFiles = 2
  NoList = NoList
INVARIANTS ArchiveAwaitsItsTask DoneIsListed PacksListed PacksWhole FiledUnderItsLanguage
