SPECIFICATION Spec
CONSTANTS
  Nul = Nul
  MaxLen = 8
  Clients = {c1, c2}
  c1 = c1
  c2 = c2
  f1 = f1
  f2 = f2
  f3 = f3
  f4 = f4
  small = small
  large = large
  huge = huge
  Keys <- CrashKeys
  Values = {small}
  Size <- OnlySmall
  MaxBytes = 2
  Files = {f1}
  ListArgs <- AllOfIt
  Ops = {"put", "list"}
  Faulty = FALSE
  MaxCancels = 0
  MaxCrashes = 0
  NoEnt = NoEnt
  Dir = Dir
  NotDir = NotDir
  Nil = Nil
SYMMETRY Symmetry
INVARIANTS ListOnlyKeys
