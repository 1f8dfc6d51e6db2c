SPECIFICATION Spec
CONSTANTS
  Nul = Nul
  MaxLen = 8
  Clients = {c1, c2}
  c1 = c1
  c2 = c2
  f1 = f1
  f2 = f2
  f3 = f3
  f4 = f4
  small = small
  large = large
  huge = huge
  Keys <- RefusedKeys
  Values = {small, large, huge}
  Size <- Sizes
  MaxBytes = 2
  Files = {f1, f2}
  ListArgs <- AllOfIt
  Ops = {"put", "get", "delete", "exists", "presign", "list"}
  Faulty = TRUE
  MaxCancels = 1
  MaxCrashes = 1
  NoEnt = NoEnt
  Dir = Dir
  NotDir = NotDir
  Nil = Nil
VIEW StoreView
SYMMETRY Symmetry
INVARIANTS TypeOK TreeShape TempsOwned BlobsWhole
PROPERTIES ImplementsBlobStore SyncedImmutable
CONSTRAINT ListsAside
