--------------------------- MODULE NodeProperties ---------------------------
(***************************************************************************)
(* What the node keeps true over any sequence of calls.  The properties    *)
(* of this module that speak of amounts or of spending hold while callers  *)
(* transfer whole coins; MCOverdraft shows what happens otherwise.         *)
(***************************************************************************)
EXTENDS Node

IsTransaction(t) ==
  /\ IsSeq(t.txins)
  /\ \A i \in DOMAIN t.txins : t.txins[i].key.txout_index \in Nat
  /\ IsSeq(t.txouts)
  /\ \A j \in DOMAIN t.txouts : /\ t.txouts[j].address \in Addresses
                                /\ t.txouts[j].amount \in Int
  /\ t.id = GenerateHash(t)

BlocksTyped ==
  /\ IsSeq(blocks) /\ blocks # << >>
  /\ \A n \in DOMAIN blocks :
       /\ blocks[n].timestamp \in Timestamps
       /\ blocks[n].difficulty \in 0 .. UINT32_MOD - 1
       /\ blocks[n].nonce \in Nat
       /\ IsSeq(blocks[n].data)
       /\ \A i \in DOMAIN blocks[n].data : IsTransaction(blocks[n].data[i])
UtxosTyped ==
  /\ IsSeq(utxouts)
  /\ \A i \in DOMAIN utxouts : /\ utxouts[i].key.txout_index \in Nat
                               /\ utxouts[i].address \in Addresses
                               /\ utxouts[i].amount \in Int
PoolTyped == IsSeq(pool) /\ \A n \in DOMAIN pool : IsTransaction(pool[n])
WalletsTyped ==
  /\ {"genesis", "node"} \subseteq DOMAIN wallets
  /\ wallets \in [DOMAIN wallets -> Keys]

(* TypeOK: the vectors are vectors of well-formed blocks, outputs and      *)
(* transactions, every transaction carries the digest of its own source,   *)
(* and the two wallets init() creates exist.                               *)
TypeOK ==
  /\ BlocksTyped
  /\ UtxosTyped
  /\ PoolTyped
  /\ WalletsTyped
  /\ status \in {"running", "mining", "aborted"}

(* ChainLinked: block n carries index n, the hash of its contents and the  *)
(* hash of its predecessor, and opens with the coinbase of its own index.  *)
(* validate_block only compares the emptiness of prev and of the hashes,   *)
(* so this rests on how generate_new_block and find_block fill a block in. *)
ChainLinked ==
  \A n \in DOMAIN blocks :
    /\ blocks[n].index = n - 1
    /\ blocks[n].hash = BlockHash(blocks[n], blocks[n].data)
    /\ n > 1 => blocks[n].prev = blocks[n - 1].hash
    /\ blocks[n].data # << >>
    /\ Len(blocks[n].data[1].txins) = 1
    /\ blocks[n].data[1].txins[1].key = TxoutKey(NoHash, n - 1)

(* The inputs of the chain by block, transaction and position, and the     *)
(* keys that transactions other than coinbases spend.                      *)
ChainInputs ==
  UNION { { << n, p >> : p \in InputPlaces(blocks[n].data) } : n \in DOMAIN blocks }
ChainKeyAt(c) == KeyAt(blocks[c[1]].data, c[2])
ChainSpent == { ChainKeyAt(c) : c \in { d \in ChainInputs : d[2][1] > 1 } }
UnspentKeys == { utxouts[i].key : i \in DOMAIN utxouts }

(* NoDoubleSpend: no two inputs anywhere in the chain name the same        *)
(* output.  block::validate looks for duplicates within one block and for  *)
(* the presence of the key among the unspent outputs; across blocks it     *)
(* also takes that no key is ever created twice, although the digest a key *)
(* is made of ignores receivers and fractions.                             *)
NoDoubleSpend ==
  \A c, d \in ChainInputs : ChainKeyAt(c) = ChainKeyAt(d) => c = d

(* KeyHistory: what NoDoubleSpend rests on.  Every key that is unspent, or *)
(* spent other than by a coinbase, is the digest and position of a         *)
(* transaction of the chain; what was spent is not among the unspent       *)
(* outputs; and every waiting transaction has an input.                    *)
ChainKeys == { ChainKeyAt(c) : c \in ChainInputs }
CreatedKeys ==
  UNION { { TxoutKey(blocks[n].data[i].id, i - 1) : i \in DOMAIN blocks[n].data } :
          n \in DOMAIN blocks }
KeyHistory ==
  /\ UnspentKeys \subseteq CreatedKeys
  /\ ChainSpent \subseteq CreatedKeys
  /\ UnspentKeys \cap ChainKeys = {}
  /\ \A n \in DOMAIN pool : pool[n].txins # << >>

(* The unspent outputs recomputed from the whole chain: newest block       *)
(* first, each without the keys that a later block spends.                 *)
SpentAfter(n) ==
  UNION { SpentKeys(blocks[m].data) : m \in n + 1 .. Len(blocks) }
LeftFrom(n) ==
  LET created == NewUnspent(blocks[n].data)
  IN  Subsequence(created, { i \in DOMAIN created : created[i].key \notin SpentAfter(n) })

(* UtxosMatchChain: the vector that add() and init() update block by block *)
(* is the one a replay of the stored chain gives, order included (get()    *)
(* returns the first output with a key, so the order matters).             *)
UtxosMatchChain ==
  utxouts = FlattenSeq([k \in DOMAIN blocks |-> LeftFrom(Len(blocks) + 1 - k)])

(* SupplyBounded: no unspent output is negative, and all of them together  *)
(* are worth no more than the coinbases paid so far.                       *)
SupplyBounded ==
  /\ \A i \in DOMAIN utxouts : utxouts[i].amount >= 0
  /\ Total(utxouts) <= GetCoinbase * Len(blocks)

(* ProofOfWork: every block after the genesis block has a hash with more   *)
(* leading zeros than its difficulty: find_block asks for one more than    *)
(* validate_hash does.                                                     *)
ProofOfWork ==
  \A n \in 2 .. Len(blocks) : LeadingZeros(blocks[n].hash) > blocks[n].difficulty

(* DifficultyMovesByOne: the difficulty changes only right after a block   *)
(* whose index is a multiple of the interval, and then by at most one step *)
(* (modulo 2^32) from the difficulty in force.  get_new_difficulty steps   *)
(* from an older block: this holds because that block lies in the same     *)
(* period.                                                                 *)
AtBoundary(n) == /\ blocks[n].index # 0
                 /\ blocks[n].index % DIFFICULTY_ADJUSTMENT_INTERVAL = 0
DifficultyMovesByOne ==
  \A n \in 2 .. Len(blocks) :
    LET old == blocks[n - 1].difficulty
        new == blocks[n].difficulty
    IN  IF AtBoundary(n - 1)
        THEN new \in { old, (old + 1) % UINT32_MOD, (old - 1) % UINT32_MOD }
        ELSE new = old

(* EasesOnlyWhenSlow: the difficulty goes down only when the clock readings *)
(* of the period's blocks span more than twice the time planned for it, or  *)
(* when the clock was set back within the period: the unsigned difference   *)
(* of the two readings is then huge.                                        *)
Span(n) == blocks[n].timestamp
             - blocks[n - DIFFICULTY_ADJUSTMENT_INTERVAL + 1].timestamp
EasesOnlyWhenSlow ==
  \A n \in 2 .. Len(blocks) :
    blocks[n].difficulty < blocks[n - 1].difficulty =>
      \/ Span(n - 1) > 2 * DIFFICULTY_ADJUSTMENT_INTERVAL * BLOCK_GENERATION_INTERVAL
      \/ Span(n - 1) < 0

(* InputsCoverOutputs: in a block that is added, every transaction but the *)
(* coinbase pays out exactly what its inputs resolve to at that moment.    *)
(* transaction::validate only logs a difference, outputs of a transaction  *)
(* share one key, and get() resolves a key to the first of them.           *)
InputsCoverOutputs ==
  [][\A n \in Len(blocks) + 1 .. Len(blocks') :
       \A k \in 2 .. Len(blocks'[n].data) :
         LET t == blocks'[n].data[k]
             resolved == [i \in DOMAIN t.txins |-> GetTxout(utxouts, t.txins[i].key)]
         IN  Total(resolved) = Total(t.txouts)]_vars

StaleIn(p) == { j \in DOMAIN p : IsStale(p[j]) }

(* PurgeHalvesStale: a purge keeps every transaction that can still be     *)
(* mined, in order, and at least halves the number of those that cannot,   *)
(* although its loop skips the transaction after each one it erases.       *)
PurgeHalvesStale ==
  [][ValidateTransPool =>
       /\ Subsequence(pool', DOMAIN pool' \ StaleIn(pool'))
            = Subsequence(pool, DOMAIN pool \ StaleIn(pool))
       /\ 2 * Cardinality(StaleIn(pool')) <= Cardinality(StaleIn(pool))]_vars

(* CommitLeavesPoolStale: once a block is added, no waiting transaction    *)
(* has all its outputs left.  Nothing removes the mined transactions from  *)
(* the pool, so this is what keeps the next block from mining them again.  *)
CommitLeavesPoolStale ==
  [][blocks' # blocks => StaleIn(pool)' = DOMAIN pool']_vars

(* JamLasts: once two inputs of waiting transactions name one output that  *)
(* is still unspent, or a waiting transaction whose inputs are all unspent *)
(* does not validate, the node never adds a block again: commit_block      *)
(* always takes the whole pool, and validate_trans_pool only removes       *)
(* transactions whose inputs are gone.                                     *)
Jammed ==
  LET fresh == DOMAIN pool \ StaleIn(pool)
  IN  \/ \E p, q \in InputPlaces(pool) :
           /\ p # q /\ {p[1], q[1]} \subseteq fresh
           /\ KeyAt(pool, p) = KeyAt(pool, q)
      \/ \E n \in fresh : ~ Validate(pool[n], utxouts)
JamLasts == [][Jammed => Jammed' /\ blocks' = blocks]_vars

(* AddsUnlessJammed: when find_block finds a nonce, the block is added     *)
(* exactly if no waiting transaction is stale and the pool is not jammed.  *)
(* add() repeats on the finished block what the node did to make it (index, *)
(* link, hash and proof of work, coinbase, digests, signatures, inputs):   *)
(* the two must agree on every chain and every pool.                       *)
AddsUnlessJammed ==
  \A ts \in Timestamps :
    GoodNonces(Candidate(ts), NewTrans) # {} =>
      (Addable(FindBlock(Candidate(ts), NewTrans)) <=> StaleIn(pool) = {} /\ ~ Jammed)

(* KeysStayOwned: every unspent output, and every output that waits, is    *)
(* addressed to a wallet of the node, and a wallet's key made the          *)
(* signatures of every waiting transaction.  create_wallet never replaces  *)
(* a wallet, so the key that outputs were paid to is not lost.             *)
WalletAddresses == { AddressOf(name) : name \in DOMAIN wallets }
KeysStayOwned ==
  /\ \A i \in DOMAIN utxouts : utxouts[i].address \in WalletAddresses
  /\ \A n \in DOMAIN pool :
       /\ \A j \in DOMAIN pool[n].txouts : pool[n].txouts[j].address \in WalletAddresses
       /\ \E name \in DOMAIN wallets : \A i \in DOMAIN pool[n].txins :
            pool[n].txins[i].signature = Sign(wallets[name], pool[n].id)

(* LedgerSpec: the keys of outputs behave as KeyLedger says.  The node     *)
(* never re-creates a spent key, nor one that is still unspent.            *)
Ledger == INSTANCE KeyLedger WITH unspent <- UnspentKeys, spent <- ChainSpent
LedgerSpec == Ledger!Spec
=============================================================================
