\* Two commands at a time, any number of them, and two children on two addresses;
\* three workers persist, one reader lists or asks for a run, one crash.
SPECIFICATION MCSpec
CONSTANTS
  Caller = {c1, c2}
  NoCaller = nobody
  Address = {a1, a2}
  DefaultAddress = a1
  MaxSpawns = 2
  Worker <- MCWorker
  Reader = {reader}
  NoThread = nobody
  RunOf <- MCRunOf
INVARIANTS
  OneServer
  StopClears
  PersistedKept
  ReadsComplete
PROPERTY
  CommandsReturn
