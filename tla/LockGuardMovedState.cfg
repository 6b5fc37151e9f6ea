CONSTANTS
  Cpus = {1, 2}
  Kinds <- SpinKinds
  MaxGuards = 3
  Movable = {"IORecursiveLock", "IOSimpleLockInterrupt"}
  NoLock = NoLock
  NoOne = NoOne
SPECIFICATION Spec
INVARIANTS
  InterruptsRestored
