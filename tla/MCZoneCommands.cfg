CONSTANTS
  alice = alice carol = carol
  c1 = c1 c2 = c2
  Clients = {c1, c2}
  daemon = daemon
  Holders = {alice, carol}
  Claims <- MCClaims
  Withdrawals <- MCWithdrawals
  AssetProposals <- MCAssetProposals
  LimitProposals <- MCLimitProposals
  PolicyProposals <- MCPolicyProposals
  MaxTransfers = 1
  MaxCommands = 3
  MaxTicks = 1
  MaxCrashes = 1
SYMMETRY MCSymmetry
SPECIFICATION CommandsSpec
INVARIANTS ReportedIsKept LedgerIsWhole EffectsAreExplained
CHECK_DEADLOCK FALSE
