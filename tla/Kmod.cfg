CONSTANT Is32Bit = TRUE
SPECIFICATION Spec
INVARIANTS TypeOK BodyHasRuntime CleanUnload
