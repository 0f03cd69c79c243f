CONSTANTS
  QUEUE_SIZE = 3
  MaxArrivals = 6
  NULL = NULL
  SUCCESS = SUCCESS
  FAIL = FAIL
  Deadlines <- MCDeadlines
SPECIFICATION Spec
INVARIANTS TypeOK Sorted
PROPERTIES ServesEarliestDeadline
