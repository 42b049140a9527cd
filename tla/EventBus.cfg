\* The handlers and events of the example and of its test, nested calls of both operations.
CONSTANTS
  Handlers <- AllHandlers
  Events <- AllEvents
  MaxHandlers = 3
  MaxNested = 3
  NestedRegister = TRUE
  HeapMayFill = TRUE
SPECIFICATION FairSpec
INVARIANTS BorrowsAreFrames PanicsAreExplained
PROPERTIES ListStable KeepsPromise DispatchEnds
