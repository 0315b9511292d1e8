\* Two workers persist, one reader lists, one restart.
SPECIFICATION Spec
CONSTANTS
  Worker <- TwoWorkers
  Reader = {reader}
  NoThread = nobody
  RunOf <- MCRunOf
INVARIANT PersistedListed
