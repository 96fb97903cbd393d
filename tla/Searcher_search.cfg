SPECIFICATION Spec
CONSTANTS
  Searches = {s1, s2}
  Workers = {w1, w2}
  Keys = {"all", "some", "one"}
  TasksOf <- Tasks
  Hits <- HitsIn
  Cap = 2
  PerFile = 2
  Context = 1
  PageSize = 2
  CacheCap = 0
  MaxSearches = 2
  MaxAnswers = 2
  None = None
SYMMETRY Symmetry
INVARIANTS
    ResultsAreSound
    PagesPartition
CHECK_DEADLOCK FALSE
