SPECIFICATION Spec
CONSTANTS
  None = None
  Batches <- MCBatches
  Overrides = {None, "firefox_history", "chromium_downloads"}
  Disk <- MCDisk
  Numbered = {"Profile 1"}
  Listed = {"default-release"}
  Mac = TRUE
  LocalScan = TRUE
  Failing = {"chromium", "safari", "Chrome"}
  Plans <- MCPlans
INVARIANTS
  TypeOK
  EveryFileIsAnswered
  NaturalFilesAreRead
  ContentIsParsed
  ParsedIsRead
  StoreIsAccountedFor
  ProfilesAreTaken
