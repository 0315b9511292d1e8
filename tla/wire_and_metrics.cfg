\* The sample streams and replies; two requests of each of two threads.
CONSTANTS
  Streams <- StreamSet
  Answers <- AnswerSet
  UsizeMax = 100
  I64Max = 100
  Thread = {t1, t2}
  Latency = {1, 2, 3, 5}
  Bounds <- TwoBounds
  MaxRequests = 2
SPECIFICATION MCSpec
SYMMETRY Symmetry
CHECK_DEADLOCK FALSE
INVARIANTS
  ParsesWhatWasSent
  RepliesReadBack
  QuiescentExact
  PercentileBounds
  ErrorRateTornOnlyByStarts
