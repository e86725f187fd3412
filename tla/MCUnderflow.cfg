\* Three periods in a row that took too long.
SPECIFICATION Spec
CONSTANTS
  SATOSHI_PER_COIN = 2
  INT32_MOD = 256
  COINBASE = 3
  Keys = {k0, k1}
  GenesisKey = k0
  Names = {"genesis", "node"}
  Amounts = {}
  MaxPool = 0
  MaxBlocks = 11
  DIFFICULTY_ADJUSTMENT_INTERVAL = 3
  BLOCK_GENERATION_INTERVAL = 2
  LeadingZeros <- MCLeadingZeros
  MaxZeros = 8
  Nonces <- MCNonces
  Timestamps <- MCReadings
  UINT32_MOD = 256
  UINT64_MOD = 1024
INVARIANT MiningReturns
CHECK_DEADLOCK FALSE
