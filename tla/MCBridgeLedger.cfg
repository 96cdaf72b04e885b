CONSTANTS
  a1 = a1 a2 = a2 d1 = d1 m1 = m1 m2 = m2 m3 = m3
  s1 = s1 s2 = s2 s3 = s3 s4 = s4
  AssetIDs = {a1, a2}
  MaxUint64 = 7
  Denoms = {d1}
  DenomOf <- MCDenomOf
  MessageIDs = {m1, m2, m3}
  Accounts = {alice}
  EthAccounts = {bob}
  Claims <- MCClaims
  Attestations <- MCAttestations
  Deposits <- MCDeposits
  Signers = {s1, s2, s3, s4}
  Faulty = {s1, s2}
  InitialSignerSet <- MCSignerSet
  SignerSetChoices <- MCSignerSets
  LimitChoices <- MCLimit
  WithdrawalAmounts = {1, 2}
  Deadlines = {1}
  MaxHeight = 2
  MaxWithdrawals = 2
  VoteFiles <- MCVoteFiles
  KeySets <- MCKeySets
  Thresholds = {0, 1, 2}
  Versions = {1, 2, 3}
SPECIFICATION Spec
INVARIANTS TypeOK CircuitStaysClosed AssetBacking NoncesInOrder GenuineClaims CollectedAreAccepted
PROPERTY LedgerOnlyGrows
