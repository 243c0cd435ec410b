SPECIFICATION Spec
CONSTANTS
  Worlds <- MCWorlds
  SwapBlocking = FALSE
INVARIANTS
  ExtensionsAgree
  OnlyRequested
