\* Two transfers of the same wallet wait together.
SPECIFICATION Spec
CONSTANTS
  SATOSHI_PER_COIN = 2
  INT32_MOD = 256
  COINBASE = 3
  Keys = {k0, k1}
  GenesisKey = k0
  Names = {"genesis", "node"}
  Amounts = {2}
  MaxPool = 2
  MaxBlocks = 4
  DIFFICULTY_ADJUSTMENT_INTERVAL = 10
  BLOCK_GENERATION_INTERVAL = 10
  LeadingZeros <- MCLeadingZeros
  MaxZeros = 3
  Nonces <- MCNonces
  Timestamps <- MCOneReading
  UINT32_MOD = 256
  UINT64_MOD = 65536
INVARIANT PoolInputsDisjoint
CHECK_DEADLOCK FALSE
