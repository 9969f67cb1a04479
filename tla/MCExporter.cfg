\* Both drivers; two batches and a rest.
SPECIFICATION LiveSpec
CONSTANTS
  Drivers = {"otlp", "splunk"}
  BatchSize = 2
  MaxRec = 5
INVARIANTS
  TypeOK
  EachInOnePlace
  BatchesInOrder
  NothingLeftBehind
PROPERTIES FlushedByTimer
