SPECIFICATION FairSpec
CONSTANTS
  MaxItems = 7
  WorkersWanted = 2
  MayPanic = {0, 1}
INVARIANTS IInv ErrorsHaveRoom SuccessMeansAll
PROPERTIES CallReturns SuccessOrCrash AbandonedForGood
CHECK_DEADLOCK FALSE
