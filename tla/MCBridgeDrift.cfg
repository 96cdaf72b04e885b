CONSTANTS
  a1 = a1 a2 = a2 d1 = d1 d2 = d2 m1 = m1 m2 = m2
  AssetIDs = {a1, a2}
  MaxUint64 = 7
  Denoms = {d1, d2}
  DenomOf <- MCDenomOf
  MessageIDs = {m1, m2}
  Accounts = {alice}
  EthAccounts = {bob}
  Claims <- MCDeposits
  Attestations <- MCAttestations
  Deposits <- MCDeposits
  Signers = {s1}
  Faulty = {}
  InitialSignerSet <- MCSignerSet
  SignerSetChoices = {}
  LimitChoices <- MCLimit
  WithdrawalAmounts = {1, 2}
  Deadlines = {1}
  MaxHeight = 1
  MaxWithdrawals = 2
  MaxDrift = 2
SPECIFICATION DriftSpec
INVARIANT DriftIsContained
