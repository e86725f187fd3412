\* A pool of three, so that a purge meets several stale transactions in a row.
SPECIFICATION Spec
CONSTANTS
  SATOSHI_PER_COIN = 2
  INT32_MOD = 256
  COINBASE = 3
  Keys = {k0, k1}
  GenesisKey = k0
  Names = {"genesis", "node"}
  Amounts = {2, 4}
  MaxPool = 3
  MaxBlocks = 3
  DIFFICULTY_ADJUSTMENT_INTERVAL = 10
  BLOCK_GENERATION_INTERVAL = 10
  LeadingZeros <- MCLeadingZeros
  MaxZeros = 3
  Nonces <- MCNonces
  Timestamps <- MCOneReading
  UINT32_MOD = 256
  UINT64_MOD = 65536
INVARIANTS AddsUnlessJammed
PROPERTIES PurgeHalvesStale JamLasts
CHECK_DEADLOCK FALSE
