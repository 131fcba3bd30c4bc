SPECIFICATION EdgeSpec

CONSTANTS
  BucketCount = 3
  WindowDuration = 7
  MaxTime = 9
  MaxEvents = 3
  MinNs = 5
  MaxNs = 11
  SubBuckets = 4
  Durations <- MCDurations

INVARIANTS
  TypeOK
  BucketsCountTheirSlice
  ReadCoversTheWindow
  AdvanceIsTheLoop
  PercentilesArePrecise
