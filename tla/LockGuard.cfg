CONSTANTS
  Cpus = {1, 2}
  Kinds <- AllKinds
  MaxGuards = 3
  Movable = {"IOLock", "IORecursiveLock", "IOSimpleLock"}
  NoLock = NoLock
  NoOne = NoOne
SPECIFICATION Spec
INVARIANTS
  TypeOK
  OneGuardPerHold
  HandlerNeverWaitsForItsThread
  InterruptsRestored
