SPECIFICATION Spec
CHECK_DEADLOCK FALSE
CONSTANTS
  t1 = t1
  w1 = w1
  alice = alice
  bob = bob
  carol = carol
  stranger = stranger
  Txns <- MCTxns
  Wallets <- MCWallets
  Signers = {alice, bob, carol, stranger}
  AllowedSigners = {alice, bob, carol}
  Requests = {r1, r2, r3, r4}
  None = None
  WalletOf <- MCWalletOf
  ChainOf <- MCEvm
  EvmRpc = TRUE
  Unsignable = {}
  Faults = {}
INVARIANTS
  FailedIsNotOnChain
