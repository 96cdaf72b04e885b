CONSTANTS
  a1 = a1 d1 = d1 m1 = m1 m2 = m2 alice = alice carol = carol
  AssetIDs = {a1}
  MaxUint64 = 7
  Denoms = {d1}
  DenomOf <- MCDenomOf
  MessageIDs = {m1, m2}
  Accounts = {alice, carol}
  EthAccounts = {bob}
  Claims <- MCDeposits
  Attestations <- MCAttestations
  Deposits <- MCDeposits
  Signers = {s1}
  Faulty = {}
  InitialSignerSet <- MCSignerSet
  SignerSetChoices = {}
  LimitChoices <- MCLimit
  WithdrawalAmounts = {1, 2}
  Deadlines = {1}
  MaxHeight = 1
  MaxWithdrawals = 2
  MaxQueue = 2
  MaxCrashes = 1
SPECIFICATION AppSpec
INVARIANTS WalletsMatchSupply CircuitStaysClosed NoncesInOrder SavedClaimsSurvive
