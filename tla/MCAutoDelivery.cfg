CONSTANTS
  alice = alice bob = bob carol = carol gold = gold silver = silver
  theRoute = theRoute
  NoIntent = NoIntent NoPost = NoPost NoTransferID = NoTransferID
  RouteAssets = {gold, silver}
  RouteIDs = {theRoute}
  Receivers = {bob, carol}
  TransferAmounts = {1}
  Memos <- MCMemos
  RouteChoices = {}
  ProfileChoices <- MCProfiles
  MaxTransfers = 4
  Deposits = {1, 2}
  Wallets = {alice}
  DepositOf <- MCDepositOf
  TermChoices <- MCTerms
  PostedIDs <- MCPostedIDs
  Buffer = 1
  ConfiguredTimeout = 1
  DefaultTimeout = 0
  MaxDestHeight = 1
  MaxPosts = 2
  MaxSpends = 1
  MaxFaults = 2
SPECIFICATION AutoSpec
INVARIANTS OneTransferPerDeposit TransfersAreWarranted
 
CHECK_DEADLOCK FALSE
