CONSTANTS
  Streams <- MalformedSet
  Answers <- AnswerSet
  UsizeMax = 100
  I64Max = 100
SPECIFICATION WireSpec
CHECK_DEADLOCK FALSE
INVARIANT MalformedRefused
