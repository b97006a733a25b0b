\* The lifecycle with the flush of muxa-otel as the third of four tasks.
SPECIFICATION OtelFairSpec
CONSTANTS
  N = 4
  Grace = 2
  OtelTask = 3
  r1 = r1
  r2 = r2
  Requests <- MCRequests
INVARIANTS
  TypeOK
  NoTaskLeftBehind
  OutcomesTruthful
  WaitBounded
  RequestsDrained
  BatchTailFlushed
PROPERTIES
  JoinsEveryTask
  ShutdownCompletes
