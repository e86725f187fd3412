---------------------------- MODULE BlockChain ----------------------------
(***************************************************************************)
(* blockchain.h and blockchain.cpp: blocks, their validation, the unspent  *)
(* outputs a block leaves, the difficulty and the proof of work, and the   *)
(* two vectors of class block_chain, which change together when a block is *)
(* added.  blocks[n] is the code's blocks[n - 1].                          *)
(***************************************************************************)
EXTENDS Transaction

CONSTANTS
  DIFFICULTY_ADJUSTMENT_INTERVAL, \* blocks between two adjustments, 10 in the code
  BLOCK_GENERATION_INTERVAL,      \* seconds a block should take, 10 in the code
  LeadingZeros(_),                \* the leading '0' digits of a digest
  Nonces,                         \* the values of nonce_t, 0 .. 2^64 - 1 in the code
  Timestamps,                     \* the readings of the system clock, in seconds
  UINT32_MOD,                     \* 2^32, the modulus of difficulty_t
  UINT64_MOD                      \* 2^64, the modulus of timestamp_t

ASSUME ChainAssumption ==
  /\ DIFFICULTY_ADJUSTMENT_INTERVAL \in Nat \ {0}
  /\ BLOCK_GENERATION_INTERVAL \in Nat
  /\ Nonces \subseteq Nat
  /\ Timestamps \subseteq Nat
  /\ UINT32_MOD \in Nat /\ UINT32_MOD > 2
  /\ UINT64_MOD \in Nat \ {0}

VARIABLES blocks,  \* the chain, the genesis block first
          utxouts  \* its unspent outputs, the newest block's first

chainVars == << blocks, utxouts >>

(* get_lastest_block().                                                    *)
LastBlock == blocks[Len(blocks)]

(***************************************************************************)
(* Blocks.                                                                 *)
(***************************************************************************)
(* block::source(v) and generate_hash(v).  prev is streamed through its    *)
(* operator bool, as the addresses of outputs are.                         *)
BlockHash(b, v) ==
  Sha256(<< b.index, Truthy(b.prev), b.timestamp,
            [i \in DOMAIN v |-> Source(v[i])], b.difficulty, b.nonce >>)

ValidateHash(b) ==
  /\ ~ NotEqual(BlockHash(b, b.data), b.hash)
  /\ LeadingZeros(b.hash) >= b.difficulty

(* The inputs of a block by their place, and the keys they spend.          *)
InputPlaces(data) == UNION { { << n, i >> : i \in DOMAIN data[n].txins } :
                             n \in DOMAIN data }
KeyAt(data, p) == data[p[1]].txins[p[2]].key
SpentKeys(data) == { KeyAt(data, p) : p \in InputPlaces(data) }

(* A faulty test: only the inputs of one transaction are compared.         *)
NoDuplicateKeyWithin(data) ==
  \A p, q \in InputPlaces(data) :
    p[1] = q[1] /\ KeyAt(data, p) = KeyAt(data, q) => p = q

NoDuplicateKey(data) ==
  \A p, q \in InputPlaces(data) : KeyAt(data, p) = KeyAt(data, q) => p = q

(* block::validate(cache).                                                 *)
BlockValidate(b, cache) ==
  /\ b.data # << >>
  /\ ValidateCoinbase(b.data[1], b.index)
  /\ NoDuplicateKey(b.data)
  /\ \A n \in 2 .. Len(b.data) : Validate(b.data[n], cache)

(* resolve_transaction(): the outputs a block creates.  Every output of a  *)
(* transaction gets the transaction's position in the block as its         *)
(* txout_index, not its own position in the transaction.                   *)
OutputsOf(t, i) ==
  [j \in DOMAIN t.txouts |->
     [key     |-> TxoutKey(t.id, i - 1),
      address |-> t.txouts[j].address,
      amount  |-> t.txouts[j].amount]]
NewUnspent(data) == FlattenSeq([i \in DOMAIN data |-> OutputsOf(data[i], i)])

(* Faulty updates: spent outputs stay; the old outputs come first.         *)
UpdateKeepsSpent(data, cache) == NewUnspent(data) \o cache
UpdateOldFirst(data, cache) ==
  Subsequence(cache, { i \in DOMAIN cache : cache[i].key \notin SpentKeys(data) })
    \o NewUnspent(data)

(* update_unspent_txout(utxouts): the new outputs, then the old ones no    *)
(* input of the block spends.                                              *)
UpdateUnspentTxout(data, cache) ==
  NewUnspent(data)
    \o Subsequence(cache,
                   { i \in DOMAIN cache : cache[i].key \notin SpentKeys(data) })

(***************************************************************************)
(* Difficulty and proof of work.                                           *)
(***************************************************************************)
(* get_new_difficulty() compares the time from an earlier block to the     *)
(* last one with the time planned.  Timestamps are uint64 and difficulties *)
(* uint32: both subtractions wrap around.                                  *)
PrevAdjustedTooOld == blocks[Len(blocks) - DIFFICULTY_ADJUSTMENT_INTERVAL]
PrevAdjustedBlock  == blocks[Len(blocks) - DIFFICULTY_ADJUSTMENT_INTERVAL + 1]

TimeExpected == DIFFICULTY_ADJUSTMENT_INTERVAL * BLOCK_GENERATION_INTERVAL
TimeTakenSwapped ==
  (PrevAdjustedBlock.timestamp - LastBlock.timestamp) % UINT64_MOD
TimeTaken == (LastBlock.timestamp - PrevAdjustedBlock.timestamp) % UINT64_MOD

Uint32Unwrapped(n) == n
Uint32(n) == n % UINT32_MOD

GetNewDifficulty ==
  IF TimeTaken < TimeExpected \div 2 THEN Uint32(PrevAdjustedBlock.difficulty + 1)
  ELSE IF TimeTaken > TimeExpected * 2 THEN Uint32(PrevAdjustedBlock.difficulty - 1)
  ELSE PrevAdjustedBlock.difficulty

GetDifficulty ==
  IF /\ LastBlock.index # 0
     /\ LastBlock.index % DIFFICULTY_ADJUSTMENT_INTERVAL = 0
  THEN GetNewDifficulty
  ELSE LastBlock.difficulty

(* A faulty candidate: prev always names the genesis block.                *)
CandidateOnGenesis(ts) ==
  [index |-> LastBlock.index + 1, prev |-> blocks[1].hash, timestamp |-> ts,
   data |-> << >>, difficulty |-> GetDifficulty, nonce |-> 0, hash |-> NoHash]

(* The block generate_new_block fills in before it mines, at clock ts.     *)
Candidate(ts) ==
  [index |-> LastBlock.index + 1, prev |-> LastBlock.hash, timestamp |-> ts,
   data |-> << >>, difficulty |-> GetDifficulty, nonce |-> 0, hash |-> NoHash]

(* A faulty search: a digest with as many zeros as the difficulty will do. *)
GoodNoncesLoose(b, v) ==
  { n \in Nonces : b.difficulty <= LeadingZeros(BlockHash([b EXCEPT !.nonce = n], v)) }

(* find_block(b, v) tries the nonces from 0 upwards and accepts a digest   *)
(* with MORE leading zeros than the difficulty.  When no nonce gives one,  *)
(* its loop runs for ever.                                                 *)
GoodNonces(b, v) ==
  { n \in Nonces : b.difficulty < LeadingZeros(BlockHash([b EXCEPT !.nonce = n], v)) }
FindBlock(b, v) ==
  LET mined  == [b EXCEPT !.nonce = Min(GoodNonces(b, v))]
      hashed == [mined EXCEPT !.hash = BlockHash(mined, v)]
  IN  [hashed EXCEPT !.data = v]

(***************************************************************************)
(* The operations of block_chain.                                          *)
(***************************************************************************)
(* validate_block(nb); validate_timestamp accepts every timestamp.         *)
ValidateBlock(nb) ==
  /\ nb.index = LastBlock.index + 1
  /\ ~ NotEqual(LastBlock.hash, nb.prev)
  /\ ValidateHash(nb)

Addable(nb) == ValidateBlock(nb) /\ BlockValidate(nb, utxouts)

(* add(nb), when it returns true.                                          *)
Add(nb) ==
  /\ Addable(nb)
  /\ blocks' = Append(blocks, nb)
  /\ utxouts' = UpdateUnspentTxout(nb.data, utxouts)

(* init(): the genesis block is built, not mined.                          *)
GenesisBlock(ts) ==
  LET b == [index |-> 0, prev |-> NoHash, timestamp |-> ts,
            data |-> << GetGenesis >>, difficulty |-> 2, nonce |-> 0,
            hash |-> NoHash]
  IN  [b EXCEPT !.hash = BlockHash(b, b.data)]

ChainInit(ts) ==
  /\ blocks = << GenesisBlock(ts) >>
  /\ utxouts = IF BlockValidate(GenesisBlock(ts), << >>)
               THEN UpdateUnspentTxout(GenesisBlock(ts).data, << >>)
               ELSE << >>
=============================================================================
