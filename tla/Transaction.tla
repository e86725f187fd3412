---------------------------- MODULE Transaction ----------------------------
(***************************************************************************)
(* transaction.h and transaction.cpp: transactions, the cache of unspent   *)
(* outputs they are resolved against, and their validation.                *)
(*                                                                         *)
(* A cache (icache<unspent_txout>) is the vector of unspent outputs behind *)
(* it, a sequence of records [key, address, amount].                       *)
(***************************************************************************)
EXTENDS Vectors, Coin, Crypt

CONSTANT COINBASE  \* whole coins a coinbase transaction creates, 50 in the code

ASSUME CoinbaseAssumption == COINBASE \in Nat \ {0}

(* txout_key, its operator bool and the blank_ record of block_chain::get. *)
TxoutKey(tx_id, txout_index) == [tx_id |-> tx_id, txout_index |-> txout_index]
KeyTruthy(key) == Truthy(key.tx_id)
Blank == [key |-> TxoutKey(NoHash, 0), address |-> NoAddress, amount |-> 0]

(* icache::has(key).                                                       *)
Has(cache, key) == \E i \in DOMAIN cache : cache[i].key = key

(* icache::get(key): the FIRST output with that key, blank_ if none has it. *)
GetTxout(cache, key) ==
  IF Has(cache, key)
  THEN cache[Min({ i \in DOMAIN cache : cache[i].key = key })]
  ELSE Blank

(* A faulty source: the inputs are left out.                               *)
SourceWithoutInputs(t) ==
  << [j \in DOMAIN t.txouts |-> << Truthy(t.txouts[j].address),
                                   Get(t.txouts[j].amount) >>] >>

(* transaction::source().  An input contributes its key.  An output is     *)
(* streamed as `address << amount`; neither class has an inserter, so what *)
(* is written is whether the address is non-empty, and the whole coins of  *)
(* the amount.  The pieces are kept apart here: while indices and amounts  *)
(* have one digit each, the string determines them.                        *)
Source(t) ==
  << [i \in DOMAIN t.txins |-> t.txins[i].key],
     [j \in DOMAIN t.txouts |-> << Truthy(t.txouts[j].address),
                                   Get(t.txouts[j].amount) >>] >>

(* A faulty build: the digest is computed but not stored.                  *)
BuildWithoutId(txins, txouts) ==
  [txins |-> txins, txouts |-> txouts, id |-> NoHash]

(* generate_hash() and build().                                            *)
GenerateHash(t) == Sha256(Source(t))
Build(txins, txouts) ==
  LET t == [txins |-> txins, txouts |-> txouts, id |-> NoHash]
  IN  [t EXCEPT !.id = GenerateHash(t)]

Txin(key)             == [key |-> key, signature |-> NoSignature]
Txout(address, coins) == [address |-> address, amount |-> coins]

(* get_coinbase() in satoshi, and generate_coinbase(addr, block_index).    *)
GetCoinbase == COINBASE * SATOSHI_PER_COIN
GenerateCoinbase(address, block_index) ==
  Build(<< Txin(TxoutKey(NoHash, block_index)) >>,
        << Txout(address, GetCoinbase) >>)

(* get_genesis(): the coinbase of block 0, paid to GENESIS_PUB.            *)
GetGenesis == GenerateCoinbase(GetAddress(GenesisKey), 0)

(***************************************************************************)
(* sign(priv_key, cache): CanSign is its result, Signed the transaction it *)
(* leaves when it succeeds.  A failing call may have signed some inputs,   *)
(* but its only caller then drops the transaction.                         *)
(***************************************************************************)
CanSign(t, key, cache) ==
  \A i \in DOMAIN t.txins :
    LET out == GetTxout(cache, t.txins[i].key)
    IN  /\ KeyTruthy(out.key)
        /\ ~ NotEqual(out.address, GetAddress(key))

Signed(t, key) ==
  [t EXCEPT !.txins = [i \in DOMAIN t.txins |->
     [t.txins[i] EXCEPT !.signature = Sign(key, t.id)]]]

(* A faulty txin_validate: the signature is not checked.                   *)
TxinValidateUnsigned(t, tx, cache) == Has(cache, tx.key)

(* The first component of txin_validate(tx, cache); the second is the      *)
(* amount of the output found, which validate adds up.                     *)
TxinValidate(t, tx, cache) ==
  /\ Has(cache, tx.key)
  /\ Verify(GetTxout(cache, tx.key).address, t.id, tx.signature)

(* validate(cache).  The totals of inputs and outputs are computed too,    *)
(* but a difference between them is only logged: the result is the same.   *)
Validate(t, cache) ==
  /\ ~ NotEqual(GenerateHash(t), t.id)
  /\ \A i \in DOMAIN t.txins : TxinValidate(t, t.txins[i], cache)

(* validate_coinbase(block_index).                                         *)
ValidateCoinbase(t, block_index) ==
  /\ ~ NotEqual(GenerateHash(t), t.id)
  /\ Len(t.txins) = 1
  /\ t.txins[1].key.txout_index = block_index
  /\ Len(t.txouts) = 1
  /\ t.txouts[1].amount = GetCoinbase
=============================================================================
