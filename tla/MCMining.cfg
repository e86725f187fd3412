\* The difficulty rises with every block; at 4 no digest is good enough.
SPECIFICATION MiningSpec
CONSTANTS
  SATOSHI_PER_COIN = 2
  INT32_MOD = 256
  COINBASE = 3
  Keys = {k0, k1}
  GenesisKey = k0
  Names = {"genesis", "node"}
  Amounts = {2}
  MaxPool = 2
  MaxBlocks = 4
  DIFFICULTY_ADJUSTMENT_INTERVAL = 1
  BLOCK_GENERATION_INTERVAL = 4
  LeadingZeros <- MCLeadingZeros
  NONCE_MOD = 6
  Nonces <- MCNonces
  Timestamps <- MCReadings
  UINT32_MOD = 256
  UINT64_MOD = 65536
INVARIANTS SearchFresh
PROPERTIES SearchEnds NodeSpec
CHECK_DEADLOCK FALSE
