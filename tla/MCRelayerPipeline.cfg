CONSTANTS
  e1 = e1 w1 = w1
  Deposits = {e1, e2}
  Withdrawals = {w1}
  RefusedChoices <- MCRefusedChoices
  Confirmations <- MCConfirmations
  SubmissionRetryLimit = 2
  MaxTip = 2
  MaxReorgs = 1
  MaxTemporary = 2
  MaxStops = 1
  MaxLost = 1
SPECIFICATION FairSpec
INVARIANTS TypeOK NothingPassedOver ActsOnFinalEvents
PROPERTY EventuallyProcessed
