SPECIFICATION Spec
CONSTANTS
  Processes = {p1, p2}
  Threads = {1, 2}
  Builds = {"std"}
  MaxTime = 2
  MaxIds = 3
INVARIANTS FreshIds
