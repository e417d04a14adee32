SPECIFICATION Spec
CONSTANTS
  Commits = {1, 2, 3, 4, 5}
  Rank <- NewestFirst
  Repositories <- MCRepositories
  Queries <- MCQueries
CHECK_DEADLOCK FALSE
INVARIANTS TypeOK BasesExact DescendantExact OctopusShared CountsExact NoneMissed CleanSlate
PROPERTIES QueryAnswered
