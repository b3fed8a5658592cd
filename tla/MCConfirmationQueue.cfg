SPECIFICATION Spec
CONSTANTS
  Hashes = {h1, h2}
  Waiters = {w1, w2}
  Loops = {l1, l2}
  NoLoop = NoLoop
  MaxAttempts = 2
  MaxEntries = 2
  MaxStops = 2
INVARIANTS
  TypeOK
  OnePollPerEntry
  WaitersHaveAnEntry
PROPERTIES
  OutcomeIsFinal
  ImplementsConfirmations
  EntriesResolve
CHECK_DEADLOCK FALSE
