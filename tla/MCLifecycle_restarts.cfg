\* Processes started, killed, stopped and started again over one database.
CONSTANTS
  Unset = Unset  NoFile = NoFile
  DefaultNgrok = TRUE  DefaultLimit = 2
  Files <- SomeFiles
  Given <- SomeStarts
  MaxKills = 1  MaxHandlers = 2
  MaxRow = 4  MaxCrashes = 2  MaxOldRuns = 1
SPECIFICATION LifecycleSpec
INVARIANTS LifecycleTypeOK Lossless IndexUnlessInterrupted TunnelsAccounted HandlersHaveStore
PROPERTIES LiveRowsKept ConfigPrecedence MainNeverHangs
