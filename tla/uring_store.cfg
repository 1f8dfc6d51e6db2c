SPECIFICATION RingSpec
CONSTANTS
  Nul = Nul
  MaxLen = 8
  Clients = {c1, c2}
  c1 = c1
  c2 = c2
  f1 = f1
  f2 = f2
  f3 = f3
  f4 = f4
  small = small
  large = large
  huge = huge
  Keys <- ConflictKeys
  Values = {large}
  Size <- OnlyLarge
  MaxBytes = 2
  Files = {f1, f2}
  ListArgs = {}
  Ops = {"put", "get", "delete", "presign"}
  Faulty = TRUE
  MaxCancels = 1
  MaxCrashes = 1
  NoEnt = NoEnt
  Dir = Dir
  RingClients = {c1}
  DirLen = 1
  NotDir = NotDir
  Nil = Nil
VIEW RingView
SYMMETRY FileSymmetry
INVARIANTS RingTypeOK RingTempsOwned BlobsWhole
PROPERTIES ImplementsBlobStore
CONSTRAINT OneFault
