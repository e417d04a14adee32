SPECIFICATION Spec
CONSTANTS
  Commits = {1, 2, 3, 4, 5, 6, 7, 8, 9}
  Rank <- NewestFirst
  Repositories <- Beside
  Sortings = {}
  HideCbs = {}
  MaxInput = 3
  MaxChildren = 65535
  MaxTime = 10
  None = None
INVARIANTS HiddenStaysHidden
