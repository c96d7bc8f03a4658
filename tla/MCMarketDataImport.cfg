SPECIFICATION Spec
CONSTANTS
  Imports = {c1, c2}
  Readers = {r1}
  Payloads <- SomePayloads
  Queries <- SomeQueries
  Instruments <- SomeInstruments
  JobBatchSize = 3
  LookupBatchSize = 1
  ChainBatchSize = 1
  CandleBatchSize = 1
  Day = 4
  StrikeUnit = 10
SYMMETRY Symmetries
INVARIANTS
  ImportedIsWhatWasStored
  FinishedImportsAreStored
  UncountedRowsWereOvertaken
  QueriesMissNothing
CHECK_DEADLOCK FALSE
