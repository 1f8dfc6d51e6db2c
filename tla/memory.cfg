SPECIFICATION MCSpec
CONSTANTS
  MaxLen = 5
  Nul = Nul
  Clients = {c1, c2}
  c1 = c1
  c2 = c2
  Keys <- ThreeKeys
  Values = {v1}
  v1 = v1
  v2 = v2
  ListArgs <- SomeArgs
  Shards = 2
  Nil = Nil
  Letters = {"a"}
  MaxKey = 6
  MaxPrefix = 4
SYMMETRY Symmetry
INVARIANTS TypeOK ListFaithful LenBounded ClearRemoves
  KeyStaysBelowRoot ValidMeansCleanComponents ListedTextIsKey PruningKeepsMatches
