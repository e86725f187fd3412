-------------------------------- MODULE Node --------------------------------
(***************************************************************************)
(* class node of node.h and node.cpp: the wallets, the pool of waiting     *)
(* transactions and the chain, with one action per public operation.  The  *)
(* program is single-threaded; its callers may call the operations in any  *)
(* order and with any wallet, so a behaviour is any sequence of calls.     *)
(*                                                                         *)
(* A call that returns false leaves the node as it was: it is a stuttering *)
(* step and has no action of its own.                                      *)
(***************************************************************************)
EXTENDS BlockChain

CONSTANTS
  Names,     \* the wallet names that occur
  Amounts,   \* the amounts, in satoshi, that callers ask to transfer
  MaxPool,   \* bound on the length of the pool
  MaxBlocks  \* bound on the length of the chain

ASSUME NodeAssumption ==
  /\ {"genesis", "node"} \subseteq Names
  /\ Amounts \subseteq Int
  /\ MaxPool \in Nat
  /\ MaxBlocks \in Nat

VARIABLES
  pool,     \* the transactions that wait for a block
  wallets,  \* name -> private key, a function on the names created so far
  status    \* "running"; "mining" once find_block cannot return; "aborted"
            \* once the iterator checks of a debug build stopped the process

vars == << blocks, utxouts, pool, wallets, status >>

AddressOf(name) == GetAddress(wallets[name])

(* init(): the chain, then the two wallets every node has.                 *)
Init ==
  /\ \E ts \in Timestamps : ChainInit(ts)
  /\ pool = << >>
  /\ \E key \in Keys \ {GenesisKey} :
       wallets = [n \in {"genesis", "node"} |->
                    IF n = "genesis" THEN GenesisKey ELSE key]
  /\ status = "running"

(***************************************************************************)
(* create_wallet: emplace() leaves a wallet that has the name already in   *)
(* place, and the new one is dropped.  A generated key is one no wallet    *)
(* has; a key passed in by the caller is any key.                          *)
(***************************************************************************)
(* A faulty emplace: the new wallet replaces the one that has the name.    *)
EmplaceReplaces(name, key) ==
  wallets' = [n \in DOMAIN wallets \cup {name} |->
                IF n = name THEN key ELSE wallets[n]]

Emplace(name, key) ==
  wallets' = [n \in DOMAIN wallets \cup {name} |->
                IF n \in DOMAIN wallets THEN wallets[n] ELSE key]

CreateWallet(name) ==
  /\ status = "running"
  /\ \E key \in Keys \ Range(wallets) : Emplace(name, key)
  /\ UNCHANGED << blocks, utxouts, pool, status >>

CreateWalletFromKey(name, key) ==
  /\ status = "running"
  /\ Emplace(name, key)
  /\ UNCHANGED << blocks, utxouts, pool, status >>

(***************************************************************************)
(* create_transaction.                                                     *)
(***************************************************************************)
(* cache_group_by(address).                                                *)
CacheGroupBy(address) ==
  Subsequence(utxouts, { i \in DOMAIN utxouts : utxouts[i].address = address })

(* used.find(key) != used.end().  txout_key has no operator <, so          *)
(* std::set orders the keys by their conversion to bool, and every key     *)
(* with a tx_id is equivalent to every other.                              *)
FoundIn(used, key) == \E u \in used : KeyTruthy(u) = KeyTruthy(key)

(* std::remove_if moves the elements to keep to the front and leaves the   *)
(* length of the vector as it is; nothing erases the rest.  Since every    *)
(* unspent output has a tx_id, I is all of the vector or nothing.          *)
RemoveIf(s, I) ==
  LET kept == Subsequence(s, DOMAIN s \ I)
  IN  kept \o SubSeq(s, Len(kept) + 1, Len(s))

(* The sender's outputs, less those the pool uses.                         *)
SenderCache(address) ==
  LET mine == CacheGroupBy(address)
  IN  RemoveIf(mine, { i \in DOMAIN mine :
                         FoundIn(SpentKeys(pool), mine[i].key) })

(* total(s)[k] is use_amount after the first k outputs of s.               *)
Totals(s) ==
  LET total[k \in 0 .. Len(s)] ==
        IF k = 0 THEN 0 ELSE total[k - 1] + s[k].amount
  IN  total

(* wallet::get_balance(cache) of the wallet with that name.                *)
Balance(name) ==
  LET mine == CacheGroupBy(AddressOf(name)) IN Totals(mine)[Len(mine)]

(* How many outputs the selection loop takes: it stops after the first     *)
(* that makes use_amount > amount.                                         *)
UseCount(s, amount) ==
  LET enough == { k \in 1 .. Len(s) : Greater(Totals(s)[k], amount) }
  IN  IF enough = {} THEN Len(s) ELSE Min(enough)

Selected(sender, amount) ==
  LET cache == SenderCache(AddressOf(sender))
  IN  SubSeq(cache, 1, UseCount(cache, amount))
Total(s) == Totals(s)[Len(s)]

(* A faulty transfer: the change is everything that was selected.          *)
TransferKeepsAmount(sender, use, receiver, amount) ==
  Build([i \in DOMAIN use |-> Txin(use[i].key)],
        << Txout(receiver, amount), Txout(AddressOf(sender), Total(use)) >>)

(* The transaction built from the selected outputs, before it is signed.   *)
Transfer(sender, use, receiver, amount) ==
  Build([i \in DOMAIN use |-> Txin(use[i].key)],
        << Txout(receiver, amount),
           Txout(AddressOf(sender), Total(use) - amount) >>)

CreateTransaction(sender, receiver, amount) ==
  /\ status = "running"
  /\ Len(pool) < MaxPool
  /\ LET use  == Selected(sender, amount)
         tran == Transfer(sender, use, receiver, amount)
     IN  /\ ~ Greater(amount, Total(use))
         /\ CanSign(tran, wallets[sender], utxouts)
         /\ pool' = Append(pool, Signed(tran, wallets[sender]))
  /\ UNCHANGED << blocks, utxouts, wallets, status >>

(***************************************************************************)
(* validate_trans_pool erases, in the loop that walks over the pool, the   *)
(* transactions with an input that is not among the unspent outputs.  The  *)
(* iterator erase() returns is incremented once more, so the transaction   *)
(* after an erased one is never looked at.  itrEnd is taken before the     *)
(* loop: past the shortened pool the loop reads moved-from transactions,   *)
(* whose inputs are empty.  A build with checked iterators stops at the    *)
(* first comparison after an erase instead.                                *)
(***************************************************************************)
IsStale(t) == \E i \in DOMAIN t.txins : ~ Has(utxouts, t.txins[i].key)

(* A faulty loop: the transaction after a stale one is erased.             *)
ErasedAfter == { j \in DOMAIN pool : j > 1 /\ IsStale(pool[j - 1]) }

Erased ==
  LET erased[j \in 0 .. Len(pool)] ==
        j > 0 /\ IsStale(pool[j]) /\ ~ erased[j - 1]
  IN  { j \in DOMAIN pool : erased[j] }

ValidateTransPool ==
  /\ status = "running"
  /\ pool' = Subsequence(pool, DOMAIN pool \ Erased)
  /\ UNCHANGED << blocks, utxouts, wallets, status >>

ValidateTransPoolAborts ==
  /\ status = "running"
  /\ Erased # {}
  /\ pool' = Subsequence(pool, DOMAIN pool \ { Min(Erased) })
  /\ status' = "aborted"
  /\ UNCHANGED << blocks, utxouts, wallets >>

(***************************************************************************)
(* commit_block mines a block of a coinbase for the genesis wallet and the *)
(* whole pool, at a reading ts of the clock.  The pool stays as it is      *)
(* whether the block is added or not.                                      *)
(***************************************************************************)
NewTrans ==
  << GenerateCoinbase(AddressOf("genesis"), LastBlock.index + 1) >> \o pool

CommitBlock(ts) ==
  /\ status = "running"
  /\ Len(blocks) < MaxBlocks
  /\ GoodNonces(Candidate(ts), NewTrans) # {}
  /\ Add(FindBlock(Candidate(ts), NewTrans))
  /\ UNCHANGED << pool, wallets, status >>

CommitBlockHangs(ts) ==
  /\ status = "running"
  /\ Len(blocks) < MaxBlocks
  /\ GoodNonces(Candidate(ts), NewTrans) = {}
  /\ status' = "mining"
  /\ UNCHANGED << blocks, utxouts, pool, wallets >>

Next ==
  \/ \E name \in Names : CreateWallet(name)
  \/ \E name \in Names, key \in Keys : CreateWalletFromKey(name, key)
  \/ \E sender, receiver \in DOMAIN wallets, amount \in Amounts :
       CreateTransaction(sender, AddressOf(receiver), amount)
  \/ ValidateTransPool
  \/ ValidateTransPoolAborts
  \/ \E ts \in Timestamps : CommitBlock(ts)
  \/ \E ts \in Timestamps : CommitBlockHangs(ts)

Spec == Init /\ [][Next]_vars
=============================================================================
