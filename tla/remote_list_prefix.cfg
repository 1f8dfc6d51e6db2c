SPECIFICATION Spec
CONSTANTS
  MaxLen = 8
  Nul = Nul
  Clients = {c1}
  c1 = c1
  c2 = c2
  KeySeq <- TwoKeys
  Values = {v1}
  v1 = v1
  v2 = v2
  ListArgs <- ManyArgs
  Ops = {"put", "list"}
  Backends = {"ObjectStore"}
  PageSize = 1
  MaxLate = 1
  Nil = Nil
PROPERTIES ListsPrefix
