CONSTANTS
  asset = asset alice = alice carol = carol osmo = osmo
  RouteAssets = {asset}
  RouteIDs = {osmo}
  Receivers = {alice}
  TransferAmounts = {1}
  Memos <- MCMemos
  RouteChoices = {}
  ProfileChoices <- MCProfiles
  MaxTransfers = 2
  Holders = {alice, carol}
  NoSender = NoSender
  NoProfile = NoProfile
  Claims <- MCClaims
  BlockChoices <- MCBlocks
  MaxBlocks = 4
  MaxQueue = 2
SPECIFICATION NodeSpec
INVARIANTS FundsAreAccounted BankFollowsWallets PaidTransfersAreSent HaltsAreExplained ClaimsDoNotWait
CHECK_DEADLOCK FALSE
