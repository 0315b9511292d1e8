\* Two runs, in the same millisecond or not, and one caller of stop, who may call
\* again and again.
SPECIFICATION FairSpec
CONSTANTS
  Run <- MCRun
  Requests <- MCRequests
  Outputs <- MCOutputs
  MaxStarts = 2
INVARIANTS
  StopOkCancels
  LifecycleOrder
PROPERTIES
  FinishedStays
  RunsFinish
