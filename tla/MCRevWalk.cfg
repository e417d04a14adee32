SPECIFICATION Spec
CONSTANTS
  Commits = {1, 2, 3, 4, 5, 6, 7, 8}
  Rank <- NewestFirst
  Repositories <- MCRepositories
  Sortings <- MCSortings
  HideCbs <- MCHideCbs
  MaxInput = 2
  MaxChildren = 65535
  MaxTime = 9
  None = None
INVARIANTS TypeOK  Exact ShownOnce ChildrenFirst Chronological
PROPERTIES NextReturns
