CONSTANTS
  j1 = j1
  j2 = j2
  j3 = j3
  Jobs <- MCJobs
  DefaultAttempts = 2
  DefaultCompleted = 1
  DefaultFailed = 1
  CallerOptions <- MCCallerOptions
  MaxStalled = 1
SYMMETRY JobSymmetry
SPECIFICATION Spec
INVARIANTS TypeOK GivenUpAfterRetries FinishedBounded
PROPERTIES OnlyFinishedLeave
CHECK_DEADLOCK FALSE
