SPECIFICATION FairRolloutSpec
CHECK_DEADLOCK FALSE
CONSTANTS
  t1 = t1
  w1 = w1
  r1 = r1
  r2 = r2
  r3 = r3
  alice = alice
  bob = bob
  carol = carol
  Txns <- MCTxns
  Wallets <- MCWallets
  Signers = {alice, bob, carol}
  AllowedSigners = {}
  Requests = {r1, r2, r3}
  None = None
  WalletOf <- MCWalletOf
  ChainOf <- MCBitcoin
  EvmRpc = FALSE
  Unsignable = {}
  Faults = {"crash"}
ACTION_CONSTRAINT CallsInOrder
INVARIANTS
  CleanStopIsAudited
PROPERTIES
  NeverReopened
  OnlyTheKeylessErase
  QuorumOutlivesUpdate
  EveryRequestEnds
  DrainEnds
