SPECIFICATION FairStream
CONSTANTS
  MaxBatch = 2
  MaxSafeInteger = 5
  Capacity = 2
  PageSize = 1
  MaxIncidents = 1
PROPERTIES ReaderSkipsNothing PublishedIsSeen
\* The log is bounded, and a reader that saw the end is done.
CHECK_DEADLOCK FALSE
