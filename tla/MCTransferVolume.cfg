CONSTANTS
  AssetIDs = {a1}
  MaxUint64 = 15
  TransferAmounts = {1, 2}
  LimitChoices <- MCLimits
  MaxHeight = 7
  MaxTransfers = 4
SPECIFICATION Spec
INVARIANTS TypeOK FixedWindowBudget TwoWindowBudget
