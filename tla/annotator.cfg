SPECIFICATION AnnotatorFairSpec

CONSTANTS
  front = front
  back = back
  EdgeKeys <- MCEdgeKeys
  Durations <- MCDurations
  MaxEdgesTracked = 1
  BucketCount = 2
  WindowDuration = 2
  MinNs = 0
  MaxNs = 2
  SubBuckets = 1
  MaxRecent = 3
  MaxCloses = 1

INVARIANTS
  AnnotatorTypeOK
  MetricsAreMaintained

PROPERTIES
  QuietRateFalls
