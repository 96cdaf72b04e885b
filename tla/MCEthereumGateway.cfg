CONSTANTS
  ETH = eth
  token = token
  m1 = m1 m2 = m2 m3 = m3 s1 = s1 s2 = s2 s3 = s3
  Tokens = {token}
  MessageIDs = {m1, m2, m3}
  Requests <- MCRequests
  Withdrawals <- MCWithdrawals
  Proofs <- MCProofs
  Signers = {s1, s2, s3}
  Faulty = {s3}
  InitialSignerSet <- MCSignerSet
  InitialAttester = s2
  SignerSetChoices <- MCRotation
  DepositAmounts = {1, 2}
  Expiries = {2}
  MaxTime = 2
  MaxDeposits = 3
  MaxRotations = 1
SPECIFICATION Spec
INVARIANTS TypeOK CustodyIsExact ReleasesAreGenuine UsedProofsArePaid
