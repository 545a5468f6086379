CONSTANTS
  Thread = {t1, t2}
  f = f
  g = g
  k = k
  lib = lib
  kernel = kernel
  Api = {f, g, k}
  Module = {lib, kernel}
  Pinned = {kernel}
  ModuleOf <- OwnModule
  None = None
SPECIFICATION Spec
INVARIANT NoWildPointer
CHECK_DEADLOCK FALSE
