\* Transfers of whole coins (multiples of SATOSHI_PER_COIN) among three wallets.
SPECIFICATION Spec
CONSTANTS
  SATOSHI_PER_COIN = 2
  INT32_MOD = 256
  COINBASE = 3
  Keys = {k0, k1, k2}
  GenesisKey = k0
  Names = {"genesis", "node", "w1"}
  Amounts = {2}
  MaxPool = 2
  MaxBlocks = 4
  DIFFICULTY_ADJUSTMENT_INTERVAL = 10
  BLOCK_GENERATION_INTERVAL = 10
  LeadingZeros <- MCLeadingZeros
  MaxZeros = 3
  Nonces <- MCNonces
  Timestamps <- MCOneReading
  UINT32_MOD = 256
  UINT64_MOD = 65536
INVARIANTS TypeOK ChainLinked NoDoubleSpend KeyHistory UtxosMatchChain SupplyBounded 
PROPERTIES InputsCoverOutputs CommitLeavesPoolStale LedgerSpec
SYMMETRY MCSymmetry
CHECK_DEADLOCK FALSE
