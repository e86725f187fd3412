----------------------------- MODULE NodeClaims -----------------------------
(***************************************************************************)
(* What comments of the repository say of the node and the code does not   *)
(* do.  Each claim is refuted by a run of its own, which shows how.        *)
(***************************************************************************)
EXTENDS NodeProperties

(* PoolInputsDisjoint: no output is spent by two waiting transactions.     *)
(* node.cpp:76 marks the outputs the pool uses "already used" and means to *)
(* leave them out of the selection.                                        *)
PoolInputsDisjoint == NoDuplicateKey(pool)

(* TxoutKeysUnique: a key identifies one unspent output.  blockchain.h:126 *)
(* describes the vector as "unordered_map< key, unspent_txout >".          *)
TxoutKeysUnique ==
  \A i, j \in DOMAIN utxouts : utxouts[i].key = utxouts[j].key => i = j

(* NoDebt: no waiting transaction pays out a negative amount.  node.cpp:91 *)
(* refuses a transfer with "balance insufficient".                         *)
NoDebt ==
  \A n \in DOMAIN pool :
    \A j \in DOMAIN pool[n].txouts : pool[n].txouts[j].amount >= 0

(* PurgeRemovesStale: after a purge no transaction is left whose input is  *)
(* gone.  node.cpp:126 says "remove this tran" of each of them.            *)
PurgeRemovesStale == [][ValidateTransPool => StaleIn(pool') = {}]_vars

(* CommitUpdatesPool: a transaction that a block takes over no longer      *)
(* waits.  blockchain.cpp:281 says "update transaction pool" at the end of *)
(* add().                                                                  *)
CommitUpdatesPool ==
  [][blocks' # blocks =>
       Range(pool') \cap Range(blocks'[Len(blocks')].data) = {}]_vars

(* MiningReturns: the node never sits in find_block for ever.  README.md   *)
(* lists "proof of work", and blockchain.h:83 plans a block every 10       *)
(* seconds.                                                                *)
MiningReturns == status # "mining"
=============================================================================
