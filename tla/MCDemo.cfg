\* The program of main.cpp, with 100 satoshi in a coin and an int32 of 14 bits.
SPECIFICATION DemoSpec
CONSTANTS
  SATOSHI_PER_COIN = 100
  SATOSHI_DIGITS = 2
  INT32_MOD = 16384
  COINBASE = 50
  Keys = {k0, k1, k2}
  GenesisKey = k0
  Names = {"genesis", "node", "icedac@gmail.com"}
  Amounts = {}
  Wholes <- MCWholes
  Fractions <- MCFractions
  MaxPool = 1
  MaxBlocks = 2
  DIFFICULTY_ADJUSTMENT_INTERVAL = 10
  BLOCK_GENERATION_INTERVAL = 10
  LeadingZeros <- MCLeadingZeros
  Nonces <- MCNonces
  Timestamps <- MCReadings
  UINT32_MOD = 256
  UINT64_MOD = 65536
INVARIANTS  NothingFromNothing
 
CHECK_DEADLOCK FALSE
