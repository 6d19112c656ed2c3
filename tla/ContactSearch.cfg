CONSTANTS
  a = a
  ab = ab
  blank = blank
  Queries <- MCQueries
  Blank <- blank
  MaxRuns = 4
SPECIFICATION FairSearchSpec
INVARIANTS SettledShowsQuery
PROPERTY LoadingEnds
CHECK_DEADLOCK FALSE
