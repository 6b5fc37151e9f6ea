---------------------------- MODULE MCLockGuard ----------------------------
(* Every type of lock, and a second one that disables interrupts. *)
EXTENDS LockGuard

AllKinds ==
  <<"IORecursiveLock", "IOLock", "IOSimpleLock", "IOSimpleLockInterrupt", "IOSimpleLockInterrupt">>
SpinKinds == <<"IORecursiveLock", "IOSimpleLockInterrupt", "IOSimpleLockInterrupt">>
=============================================================================
