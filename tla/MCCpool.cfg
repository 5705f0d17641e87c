SPECIFICATION Spec
CONSTANTS
  Rc = 4
  MaxThreads = 3
  GenMod = 2
INVARIANTS
  TypeOK
  NoSharedTarget
  QuietOutsideCycle
  RemainingIsBusy
  NoUseAfterFree
PROPERTIES
  DestroyCompletes
  ImplementsCycle
