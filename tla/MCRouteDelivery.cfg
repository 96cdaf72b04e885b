CONSTANTS
  asset = asset alice = alice
  RouteAssets = {asset}
  RouteIDs = {osmosis}
  Receivers = {alice}
  TransferAmounts = {0, 3}
  Memos <- MCMemos
  RouteChoices <- MCRoutes
  ProfileChoices <- MCProfiles
  MaxTransfers = 2
  Recipients = {alice}
  TargetDenoms = {"ibc", "uosmo"}
  TargetModes = {"success", "fail", "timeout", "manual"}
  SwapDenom = "uosmo"
  PoolDenom = "ibc"
  ReserveIn = 4
  ReserveOut = 8
  FeeBPS = 30
  Verdicts = {"completed", "failed", "timed_out"}
  MaxVerdicts = 2
  MaxStops = 1
SPECIFICATION RouteSpec
INVARIANTS ExecutedOnce PoolIsSolvent StatusIsTruthful
PROPERTIES ImplementsService TransfersGetOutcome
CHECK_DEADLOCK FALSE
