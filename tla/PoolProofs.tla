----------------------------- MODULE PoolProofs -----------------------------
(***************************************************************************)
(* What waits in the pool, who can spend it and what it is worth, for any  *)
(* set of wallets and any length of pool and chain.  Who can spend, when   *)
(* the pool jams and what a purge leaves is proved for any amounts.  What  *)
(* is paid out is covered for whole coins (WholeCoins), and the supply is  *)
(* bounded when fractions of a coin are not transferred either             *)
(* (WholeMultiples): the node compares whole coins and subtracts satoshi.  *)
(***************************************************************************)
EXTENDS LedgerProofs, FiniteSetTheorems

(***************************************************************************)
(* Whose keys: KeysStayOwned is inductive beside TypeOK and ChainLinked.   *)
(***************************************************************************)
PaidTo(t, W) == \A j \in DOMAIN t.txouts : t.txouts[j].address \in W
SignedWith(t, key) ==
  \A i \in DOMAIN t.txins : t.txins[i].signature = Sign(key, t.id)

(* A coinbase pays one address.                                            *)
LEMMA CoinbasePays ==
  ASSUME NEW address, NEW block_index, NEW W, address \in W
  PROVE  PaidTo(GenerateCoinbase(address, block_index), W)
<1> DEFINE outs == << Txout(address, GetCoinbase) >>
<1>1. GenerateCoinbase(address, block_index).txouts = outs
  BY DEF GenerateCoinbase, Build
<1>2. \A j \in DOMAIN outs : outs[j].address = address
  BY DEF Txout
<1> HIDE DEF outs
<1> QED BY <1>1, <1>2 DEF PaidTo

(* A transfer pays the receiver and the sender, and one key signs it.      *)
LEMMA TransferPays ==
  ASSUME NEW use, NEW sender, NEW receiver, NEW amount, NEW key,
         NEW W, receiver \in W, AddressOf(sender) \in W
  PROVE  LET t == Signed(Transfer(sender, use, receiver, amount), key)
         IN  PaidTo(t, W) /\ SignedWith(t, key)
<1> DEFINE ins == [i \in DOMAIN use |-> Txin(use[i].key)]
           outs == << Txout(receiver, amount),
                      Txout(AddressOf(sender), Total(use) - amount) >>
           tran == Transfer(sender, use, receiver, amount)
           signed == [i \in DOMAIN tran.txins |->
                        [tran.txins[i] EXCEPT !.signature = Sign(key, tran.id)]]
           t == Signed(tran, key)
<1>1. \A j \in DOMAIN outs : outs[j].address \in W
  BY DEF Txout
<1>2. /\ tran.txins = ins /\ tran.txouts = outs
      /\ tran = [txins |-> ins, txouts |-> outs, id |-> tran.id]
  <2>1. tran = Build(ins, outs)
    BY DEF Transfer
  <2> HIDE DEF tran, ins, outs
  <2> QED BY <2>1, BuildShape
<1>3. t = [tran EXCEPT !.txins = signed]
  BY DEF Signed
<1>4. DOMAIN signed = DOMAIN use
      /\ \A i \in DOMAIN use : signed[i].signature = Sign(key, tran.id)
  <2>1. DOMAIN ins = DOMAIN use
        /\ \A i \in DOMAIN use :
             ins[i] = [key |-> use[i].key, signature |-> NoSignature]
    BY DEF Txin
  <2> HIDE DEF tran, ins
  <2> QED BY <1>2, <2>1
<1> HIDE DEF tran, signed, t, ins, outs
<1>5. t.txins = signed /\ t.txouts = outs /\ t.id = tran.id
  BY <1>2, <1>3
<1>6. PaidTo(t, W)
  BY <1>1, <1>5 DEF PaidTo
<1>7. SignedWith(t, key)
  BY <1>4, <1>5 DEF SignedWith
<1> QED BY <1>6, <1>7 DEF t, tran

(* The outputs a block leaves unspent are addressed to those its           *)
(* transactions pay, or to those that had the outputs before.              *)
LEMMA UpdatePays ==
  ASSUME NEW data, IsSeq(data), \A n \in 1 .. Len(data) : IsTransaction(data[n]),
         NEW cache, IsSeq(cache), NEW W,
         \A n \in 1 .. Len(data) : PaidTo(data[n], W),
         \A i \in DOMAIN cache : cache[i].address \in W
  PROVE  LET u == UpdateUnspentTxout(data, cache)
         IN  \A i \in DOMAIN u : u[i].address \in W
<1> DEFINE u == UpdateUnspentTxout(data, cache)
           new == NewUnspent(data)
<1>1. /\ IsSeq(u)
      /\ \A j \in 1 .. Len(u) :
           \/ \E k \in 1 .. Len(new) : u[j] = new[k]
           \/ \E k \in 1 .. Len(cache) : u[j] = cache[k]
  BY UpdateShape
<1>2. \A k \in 1 .. Len(new) :
        \E n \in 1 .. Len(data) : \E m \in 1 .. Len(data[n].txouts) :
          new[k] = [key     |-> TxoutKey(data[n].id, n - 1),
                    address |-> data[n].txouts[m].address,
                    amount  |-> data[n].txouts[m].amount]
  BY NewUnspentShape
<1> HIDE DEF u, new
<1>3. ASSUME NEW k \in 1 .. Len(new) PROVE new[k].address \in W
  <2>1. PICK n \in 1 .. Len(data) : \E m \in 1 .. Len(data[n].txouts) :
          new[k] = [key     |-> TxoutKey(data[n].id, n - 1),
                    address |-> data[n].txouts[m].address,
                    amount  |-> data[n].txouts[m].amount]
    BY <1>2
  <2>2. PICK m \in 1 .. Len(data[n].txouts) :
          new[k] = [key     |-> TxoutKey(data[n].id, n - 1),
                    address |-> data[n].txouts[m].address,
                    amount  |-> data[n].txouts[m].amount]
    BY <2>1
  <2>3. DOMAIN data[n].txouts = 1 .. Len(data[n].txouts)
    BY SeqShape DEF IsTransaction
  <2> QED BY <2>2, <2>3 DEF PaidTo
<1>4. DOMAIN u = 1 .. Len(u) /\ DOMAIN cache = 1 .. Len(cache)
  BY <1>1, SeqShape
<1>5. \A i \in DOMAIN u : u[i].address \in W
  BY <1>1, <1>3, <1>4
<1> QED BY <1>5 DEF u

OwnedTransaction(t, W) ==
  /\ PaidTo(t, W)
  /\ \E name \in DOMAIN wallets : SignedWith(t, wallets[name])

Owned ==
  /\ \A i \in DOMAIN utxouts : utxouts[i].address \in WalletAddresses
  /\ \A n \in DOMAIN pool : OwnedTransaction(pool[n], WalletAddresses)

LEMMA OwnedIsStated == Owned <=> KeysStayOwned
BY Zenon DEF Owned, KeysStayOwned, OwnedTransaction, PaidTo, SignedWith

LEMMA OwnedInit == Init => Owned
<1> SUFFICES ASSUME Init PROVE Owned
  OBVIOUS
<1>1. PICK ts \in Timestamps : ChainInit(ts)
  BY DEF Init
<1> DEFINE g == GenerateCoinbase(GetAddress(GenesisKey), 0)
           data == << g >>
           W == WalletAddresses
<1>2. blocks = << GenesisBlock(ts) >>
  BY <1>1 DEF ChainInit
<1>3. blocks[1].data = data
  <2> HIDE DEF g
  <2>1. GenesisBlock(ts).data = data
    BY DEF GenesisBlock, GetGenesis, g
  <2> QED BY <1>2, <2>1
<1>4. GetAddress(GenesisKey) \in W
  BY DEF Init, WalletAddresses, AddressOf
<1>5. PaidTo(g, W)
  <2> DEFINE a == GetAddress(GenesisKey)
  <2> HIDE DEF a, W
  <2>1. a \in W
    BY <1>4 DEF a
  <2>2. PaidTo(GenerateCoinbase(a, 0), W)
    BY <2>1, CoinbasePays
  <2> QED BY <2>2 DEF a
<1> DEFINE d == blocks[1].data
<1>6. /\ IsSeq(d) /\ Len(d) = 1 /\ IsTransaction(d[1])
      /\ (utxouts = UpdateUnspentTxout(d, << >>) \/ utxouts = << >>)
  BY <1>1, GenesisShape
<1>7. d[1] = g
  <2> HIDE DEF g
  <2> QED BY <1>3
<1> HIDE DEF g, W, d
<1>8. IsSeq(<< >>) /\ DOMAIN << >> = {}
  BY EmptyShape
<1>9. \A i \in DOMAIN utxouts : utxouts[i].address \in W
  <2> DEFINE u == UpdateUnspentTxout(d, << >>)
             none == << >>
  <2>1. \A n \in 1 .. Len(d) : IsTransaction(d[n]) /\ PaidTo(d[n], W)
    BY <1>5, <1>6, <1>7
  <2>2. \A i \in DOMAIN none : none[i].address \in W
    BY <1>8
  <2>3. IsSeq(none)
    BY <1>8
  <2>4. \A i \in DOMAIN u : u[i].address \in W
    <3> HIDE DEF none
    <3>1. \A i \in DOMAIN UpdateUnspentTxout(d, none) :
             UpdateUnspentTxout(d, none)[i].address \in W
      BY <1>6, <2>1, <2>2, <2>3, UpdatePays
    <3> QED BY <3>1 DEF none
  <2> HIDE DEF u
  <2> QED BY <1>6, <1>8, <2>4 DEF u
<1>10. DOMAIN pool = {}
  BY <1>8 DEF Init
<1> QED BY <1>9, <1>10 DEF Owned, W

(* No wallet is replaced, so what was addressed to one, or signed by one,  *)
(* still is after emplace.                                                 *)
LEMMA EmplaceOwned ==
  ASSUME Owned, NEW name, NEW key, Emplace(name, key),
         UNCHANGED << utxouts, pool >>
  PROVE  Owned'
<1>1. \A n \in DOMAIN wallets : n \in DOMAIN wallets' /\ wallets'[n] = wallets[n]
  BY DEF Emplace
<1>2. WalletAddresses \subseteq WalletAddresses'
  <2>1. ASSUME NEW n \in DOMAIN wallets
        PROVE  GetAddress(wallets[n]) \in WalletAddresses'
    <3>1. GetAddress(wallets'[n]) \in { GetAddress(wallets'[m]) : m \in DOMAIN wallets' }
      BY <1>1
    <3> QED BY <1>1, <3>1 DEF WalletAddresses, AddressOf
  <2> QED BY <2>1 DEF WalletAddresses, AddressOf
<1>3. ASSUME NEW n \in DOMAIN pool
      PROVE  /\ PaidTo(pool[n], WalletAddresses')
             /\ \E m \in DOMAIN wallets' : SignedWith(pool[n], wallets'[m])
  <2>1. OwnedTransaction(pool[n], WalletAddresses)
    BY DEF Owned
  <2>2. PICK m \in DOMAIN wallets : SignedWith(pool[n], wallets[m])
    BY <2>1 DEF OwnedTransaction
  <2>3. SignedWith(pool[n], wallets'[m]) /\ m \in DOMAIN wallets'
    BY <1>1, <2>2
  <2>4. PaidTo(pool[n], WalletAddresses')
    BY <1>2, <2>1 DEF OwnedTransaction, PaidTo
  <2> QED BY <2>3, <2>4
<1>4. \A i \in DOMAIN utxouts : utxouts[i].address \in WalletAddresses'
  BY <1>2 DEF Owned
<1> QED BY <1>3, <1>4 DEF Owned, OwnedTransaction, PaidTo, SignedWith

LEMMA OwnedStep == Linked /\ Owned /\ [Next]_vars => Owned'
<1> SUFFICES ASSUME Linked, Owned, [Next]_vars PROVE Owned'
  OBVIOUS
<1> DEFINE W == WalletAddresses
<1>1. ASSUME NEW name \in Names, CreateWallet(name) PROVE Owned'
  BY <1>1, EmplaceOwned DEF CreateWallet
<1>2. ASSUME NEW name \in Names, NEW key \in Keys, CreateWalletFromKey(name, key) PROVE Owned'
  BY <1>2, EmplaceOwned DEF CreateWalletFromKey
<1>3. ASSUME NEW sender \in DOMAIN wallets, NEW receiver \in DOMAIN wallets,
             NEW amount \in Amounts,
             CreateTransaction(sender, AddressOf(receiver), amount)
      PROVE  Owned'
  <2> DEFINE use == Selected(sender, amount)
             to == AddressOf(receiver)
             key == wallets[sender]
             t == Signed(Transfer(sender, use, to, amount), key)
  <2>1. pool' = Append(pool, t) /\ UNCHANGED << utxouts, wallets >>
    BY <1>3 DEF CreateTransaction
  <2>2. to \in W /\ AddressOf(sender) \in W
    BY DEF WalletAddresses
  <2> HIDE DEF use, to, W
  <2>3. PaidTo(t, W) /\ SignedWith(t, wallets[sender])
    <3> HIDE DEF key, t
    <3>1. LET s == Signed(Transfer(sender, use, to, amount), key)
          IN  PaidTo(s, W) /\ SignedWith(s, key)
      BY <2>2, TransferPays
    <3> QED BY <3>1 DEF t, key
  <2> HIDE DEF key, t
  <2>4. IsSeq(pool) /\ Len(pool) \in Nat /\ DOMAIN pool = 1 .. Len(pool)
    BY SeqShape DEF Linked, TypeOK, PoolTyped
  <2>5. /\ IsSeq(pool') /\ Len(pool') = Len(pool) + 1 /\ pool'[Len(pool) + 1] = t
        /\ \A i \in 1 .. Len(pool) : pool'[i] = pool[i]
    BY <2>1, <2>4, AppendShape
  <2>6. DOMAIN pool' = 1 .. Len(pool) + 1
    BY <2>5, SeqShape
  <2>7. ASSUME NEW n \in DOMAIN pool' PROVE OwnedTransaction(pool'[n], W)
    <3>1. CASE n \in 1 .. Len(pool)
      BY <2>4, <2>5, <3>1 DEF Owned, W
    <3>2. CASE n = Len(pool) + 1
      BY <2>3, <2>5, <3>2 DEF OwnedTransaction
    <3> QED BY <2>4, <2>6, <3>1, <3>2
  <2>8. W' = W
    BY <2>1 DEF W, WalletAddresses, AddressOf
  <2>9. \A i \in DOMAIN utxouts' : utxouts'[i].address \in W'
    BY <2>1, <2>8 DEF Owned, W
  <2>10. \A n \in DOMAIN pool' :
           /\ PaidTo(pool'[n], W')
           /\ \E name \in DOMAIN wallets' : SignedWith(pool'[n], wallets'[name])
    BY <2>1, <2>7, <2>8 DEF OwnedTransaction
  <2> QED BY <2>9, <2>10 DEF Owned, OwnedTransaction, PaidTo, SignedWith, W
<1>4. ASSUME NEW I, pool' = Subsequence(pool, I), UNCHANGED << utxouts, wallets >>
      PROVE  Owned'
  <2>1. IsSeq(pool) /\ DOMAIN pool = 1 .. Len(pool)
    BY SeqShape DEF Linked, TypeOK, PoolTyped
  <2>2. IsSeq(pool') /\ \A j \in 1 .. Len(pool') : \E i \in 1 .. Len(pool) : pool'[j] = pool[i]
    BY <1>4, <2>1, SubsequenceShape
  <2>3. DOMAIN pool' = 1 .. Len(pool')
    BY <2>2, SeqShape
  <2>4. \A n \in DOMAIN pool' : OwnedTransaction(pool'[n], W)
    BY <2>1, <2>2, <2>3 DEF Owned
  <2>5. W' = W
    BY <1>4 DEF WalletAddresses, AddressOf
  <2> HIDE DEF W
  <2>6. \A i \in DOMAIN utxouts' : utxouts'[i].address \in W'
    BY <1>4, <2>5 DEF Owned, W
  <2>7. \A n \in DOMAIN pool' :
          /\ PaidTo(pool'[n], W')
          /\ \E name \in DOMAIN wallets' : SignedWith(pool'[n], wallets'[name])
    BY <1>4, <2>4, <2>5 DEF OwnedTransaction
  <2> QED BY <2>6, <2>7 DEF Owned, OwnedTransaction, PaidTo, SignedWith, W
<1>5. CASE ValidateTransPool
  BY <1>4, <1>5 DEF ValidateTransPool
<1>6. CASE ValidateTransPoolAborts
  BY <1>4, <1>6 DEF ValidateTransPoolAborts
<1>7. ASSUME NEW ts \in Timestamps, CommitBlock(ts) PROVE Owned'
  <2> DEFINE v == NewTrans
             a == AddressOf("genesis")
  <2>1. /\ IsSeq(v) /\ Len(v) = Len(pool) + 1
        /\ v[1] = GenerateCoinbase(a, Len(blocks))
        /\ \A n \in 2 .. Len(v) : v[n] = pool[n - 1]
        /\ \A n \in 1 .. Len(v) : IsTransaction(v[n])
    BY NewTransShape DEF Linked
  <2>2. utxouts' = UpdateUnspentTxout(v, utxouts) /\ UNCHANGED << pool, wallets >>
    BY <1>7, CommitShape DEF CommitBlock
  <2>3. a \in W
    BY DEF Linked, TypeOK, WalletsTyped, WalletAddresses
  <2> HIDE DEF v, a, W
  <2>4. IsSeq(pool) /\ Len(pool) \in Nat /\ DOMAIN pool = 1 .. Len(pool) /\ IsSeq(utxouts)
    BY SeqShape DEF Linked, TypeOK, PoolTyped, UtxosTyped
  <2>5. ASSUME NEW n \in 1 .. Len(v) PROVE PaidTo(v[n], W)
    <3>1. CASE n = 1
      BY <2>1, <2>3, <3>1, CoinbasePays
    <3>2. CASE n \in 2 .. Len(v)
      <4>1. v[n] = pool[n - 1] /\ n - 1 \in DOMAIN pool
        BY <2>1, <2>4, <3>2
      <4> QED BY <4>1 DEF Owned, OwnedTransaction, W
    <3> QED BY <2>1, <2>4, <3>1, <3>2
  <2>6. \A i \in DOMAIN utxouts : utxouts[i].address \in W
    BY DEF Owned, W
  <2>7. \A i \in DOMAIN utxouts' : utxouts'[i].address \in W
    BY <2>1, <2>2, <2>4, <2>5, <2>6, UpdatePays
  <2>8. W' = W
    BY <2>2 DEF W, WalletAddresses, AddressOf
  <2>9. \A i \in DOMAIN utxouts' : utxouts'[i].address \in W'
    BY <2>7, <2>8
  <2>10. \A n \in DOMAIN pool' :
           /\ PaidTo(pool'[n], W')
           /\ \E name \in DOMAIN wallets' : SignedWith(pool'[n], wallets'[name])
    BY <2>2, <2>8 DEF Owned, OwnedTransaction, W
  <2> QED BY <2>9, <2>10 DEF Owned, OwnedTransaction, PaidTo, SignedWith, W
<1>8. ASSUME UNCHANGED << utxouts, pool, wallets >> PROVE Owned'
  BY <1>8 DEF Owned, OwnedTransaction, PaidTo, SignedWith, WalletAddresses, AddressOf
<1>9. ASSUME NEW ts \in Timestamps, CommitBlockHangs(ts) PROVE Owned'
  BY <1>8, <1>9 DEF CommitBlockHangs
<1>10. CASE UNCHANGED vars
  BY <1>8, <1>10 DEF vars
<1> QED BY <1>1, <1>2, <1>3, <1>5, <1>6, <1>7, <1>9, <1>10 DEF Next

(* Every unspent output and every output that waits stays addressed to a   *)
(* wallet of the node, and one wallet's key made the signatures of each    *)
(* waiting transaction: no call makes the node forget a key it needs.      *)
THEOREM KeysAreKept == Spec => []KeysStayOwned
<1>1. Linked /\ Owned => KeysStayOwned
  BY OwnedIsStated
<1>2. Init => Linked /\ Owned
  BY LinkedInit, OwnedInit
<1>3. Linked /\ Owned /\ [Next]_vars => (Linked /\ Owned)'
  BY LinkedStep, OwnedStep
<1> QED BY <1>1, <1>2, <1>3, PTL DEF Spec

(***************************************************************************)
(* A jammed pool, by positions, for any pool and any unspent outputs.      *)
(***************************************************************************)
FreshFor(t, cache) == \A i \in DOMAIN t.txins : Has(cache, t.txins[i].key)
Clash(p, cache) ==
  \E m, n \in DOMAIN p :
    \E i \in DOMAIN p[m].txins : \E j \in DOMAIN p[n].txins :
      /\ m # n \/ i # j
      /\ FreshFor(p[m], cache) /\ FreshFor(p[n], cache)
      /\ p[m].txins[i].key = p[n].txins[j].key
Rejected(p, cache) ==
  \E n \in DOMAIN p : FreshFor(p[n], cache) /\ ~ Validate(p[n], cache)

LEMMA JammedMeans == Jammed => Clash(pool, utxouts) \/ Rejected(pool, utxouts)
<1> DEFINE fresh == DOMAIN pool \ StaleIn(pool)
<1>1. ASSUME NEW n \in fresh PROVE FreshFor(pool[n], utxouts)
  BY DEF StaleIn, IsStale, FreshFor
<1>2. ASSUME NEW p \in InputPlaces(pool), NEW q \in InputPlaces(pool),
             p # q, {p[1], q[1]} \subseteq fresh, KeyAt(pool, p) = KeyAt(pool, q)
      PROVE  Clash(pool, utxouts)
  <2>1. PICK m \in DOMAIN pool : \E i \in DOMAIN pool[m].txins : p = << m, i >>
    BY InputPlace
  <2>2. PICK i \in DOMAIN pool[m].txins : p = << m, i >>
    BY <2>1
  <2>3. PICK n \in DOMAIN pool : \E j \in DOMAIN pool[n].txins : q = << n, j >>
    BY InputPlace
  <2>4. PICK j \in DOMAIN pool[n].txins : q = << n, j >>
    BY <2>3
  <2>5. FreshFor(pool[m], utxouts) /\ FreshFor(pool[n], utxouts)
    BY <1>1, <1>2, <2>2, <2>4
  <2>6. (m # n \/ i # j) /\ pool[m].txins[i].key = pool[n].txins[j].key
    BY <1>2, <2>2, <2>4 DEF KeyAt
  <2> QED BY <2>5, <2>6 DEF Clash
<1>3. ASSUME NEW n \in fresh, ~ Validate(pool[n], utxouts) PROVE Rejected(pool, utxouts)
  BY <1>1, <1>3 DEF Rejected
<1> QED BY <1>2, <1>3 DEF Jammed

LEMMA JammedWhen == Clash(pool, utxouts) \/ Rejected(pool, utxouts) => Jammed
<1> DEFINE fresh == DOMAIN pool \ StaleIn(pool)
<1>1. ASSUME NEW n \in DOMAIN pool, FreshFor(pool[n], utxouts) PROVE n \in fresh
  BY <1>1 DEF StaleIn, IsStale, FreshFor
<1>2. ASSUME Rejected(pool, utxouts) PROVE \E n \in fresh : ~ Validate(pool[n], utxouts)
  BY <1>1, <1>2 DEF Rejected
<1>3. ASSUME Clash(pool, utxouts)
      PROVE  \E p, q \in InputPlaces(pool) :
               /\ p # q /\ {p[1], q[1]} \subseteq fresh
               /\ KeyAt(pool, p) = KeyAt(pool, q)
  <2>1. PICK m \in DOMAIN pool, n \in DOMAIN pool :
           \E i \in DOMAIN pool[m].txins : \E j \in DOMAIN pool[n].txins :
             /\ m # n \/ i # j
             /\ FreshFor(pool[m], utxouts) /\ FreshFor(pool[n], utxouts)
             /\ pool[m].txins[i].key = pool[n].txins[j].key
    BY <1>3 DEF Clash
  <2>2. PICK i \in DOMAIN pool[m].txins, j \in DOMAIN pool[n].txins :
             /\ m # n \/ i # j
             /\ FreshFor(pool[m], utxouts) /\ FreshFor(pool[n], utxouts)
             /\ pool[m].txins[i].key = pool[n].txins[j].key
    BY <2>1
  <2>3. << m, i >> \in InputPlaces(pool) /\ << n, j >> \in InputPlaces(pool)
    BY InputPlace
  <2>4. m \in fresh /\ n \in fresh
    BY <1>1, <2>2
  <2> HIDE DEF fresh
  <2>5. << m, i >> # << n, j >> /\ {<< m, i >>[1], << n, j >>[1]} \subseteq fresh
    BY <2>2, <2>4
  <2>6. KeyAt(pool, << m, i >>) = KeyAt(pool, << n, j >>)
    BY <2>2 DEF KeyAt
  <2> QED BY <2>3, <2>5, <2>6
<1> QED BY <1>2, <1>3 DEF Jammed

LEMMA JammedNext == Clash(pool', utxouts') \/ Rejected(pool', utxouts') => Jammed'
<1>1. (Clash(pool, utxouts) \/ Rejected(pool, utxouts))' => Jammed'
  BY JammedWhen, PTL
<1> QED BY <1>1

(* A pool that keeps every transaction whose inputs are unspent, each at a *)
(* place of its own, stays jammed.                                         *)
LEMMA JamCarried ==
  ASSUME NEW p, NEW q, NEW cache, Clash(p, cache) \/ Rejected(p, cache),
         \A m \in DOMAIN p : FreshFor(p[m], cache) =>
           \E i \in DOMAIN q : q[i] = p[m],
         \A m, n \in DOMAIN p : m # n /\ FreshFor(p[m], cache) /\ FreshFor(p[n], cache) =>
           \E i, j \in DOMAIN q : i # j /\ q[i] = p[m] /\ q[j] = p[n]
  PROVE  Clash(q, cache) \/ Rejected(q, cache)
<1>1. CASE Rejected(p, cache)
  <2>1. PICK n \in DOMAIN p : FreshFor(p[n], cache) /\ ~ Validate(p[n], cache)
    BY <1>1 DEF Rejected
  <2>2. PICK i \in DOMAIN q : q[i] = p[n]
    BY <2>1
  <2> QED BY <2>1, <2>2 DEF Rejected
<1>2. CASE Clash(p, cache)
  <2>1. PICK m \in DOMAIN p, n \in DOMAIN p :
           \E i \in DOMAIN p[m].txins : \E j \in DOMAIN p[n].txins :
             /\ m # n \/ i # j
             /\ FreshFor(p[m], cache) /\ FreshFor(p[n], cache)
             /\ p[m].txins[i].key = p[n].txins[j].key
    BY <1>2 DEF Clash
  <2>2. PICK i \in DOMAIN p[m].txins, j \in DOMAIN p[n].txins :
             /\ m # n \/ i # j
             /\ FreshFor(p[m], cache) /\ FreshFor(p[n], cache)
             /\ p[m].txins[i].key = p[n].txins[j].key
    BY <2>1
  <2>3. CASE m = n
    <3>1. PICK k \in DOMAIN q : q[k] = p[m]
      BY <2>2
    <3> QED BY <2>2, <2>3, <3>1 DEF Clash
  <2>4. CASE m # n
    <3>1. PICK k \in DOMAIN q, l \in DOMAIN q : k # l /\ q[k] = p[m] /\ q[l] = p[n]
      BY <2>2, <2>4
    <3> QED BY <2>2, <3>1 DEF Clash
  <2> QED BY <2>3, <2>4
<1> QED BY <1>1, <1>2

(* What is put behind the waiting transactions does not undo a jam.        *)
LEMMA JamExtended ==
  ASSUME NEW p, NEW q, NEW cache, Clash(p, cache) \/ Rejected(p, cache),
         \A i \in DOMAIN p : i \in DOMAIN q /\ q[i] = p[i]
  PROVE  Clash(q, cache) \/ Rejected(q, cache)
<1>1. \A m \in DOMAIN p : FreshFor(p[m], cache) => \E i \in DOMAIN q : q[i] = p[m]
  OBVIOUS
<1>2. \A m, n \in DOMAIN p : m # n /\ FreshFor(p[m], cache) /\ FreshFor(p[n], cache) =>
        \E i, j \in DOMAIN q : i # j /\ q[i] = p[m] /\ q[j] = p[n]
  OBVIOUS
<1> QED BY <1>1, <1>2, JamCarried

(* A purge keeps the positions in K, and all the transactions whose inputs *)
(* are unspent stand at one.                                               *)
LEMMA JamPurged ==
  ASSUME Linked, NEW K
  PROVE  LET q == Subsequence(pool, K)
         IN  /\ \A n \in DOMAIN pool : FreshFor(pool[n], utxouts) => n \in K
             /\ Clash(pool, utxouts) \/ Rejected(pool, utxouts)
             => Clash(q, utxouts) \/ Rejected(q, utxouts)
<1> DEFINE q == Subsequence(pool, K)
<1>1. IsSeq(pool) /\ DOMAIN pool = 1 .. Len(pool) /\ Len(pool) \in Nat
  BY SeqShape DEF Linked, TypeOK, PoolTyped
<1>3. /\ IsSeq(q)
      /\ \A i \in 1 .. Len(pool) : i \in K => \E j \in 1 .. Len(q) : q[j] = pool[i]
  <2>1. /\ IsSeq(q)
        /\ \A j \in 1 .. Len(q) : \E i \in 1 .. Len(pool) : i \in K /\ q[j] = pool[i]
        /\ \A i \in 1 .. Len(pool) : i \in K => \E j \in 1 .. Len(q) : q[j] = pool[i]
    <3>1. IsSeq(pool)
      BY <1>1
    <3> QED BY <3>1, SubsequenceShape
  <2> HIDE DEF q
  <2> QED BY <2>1
<1>4. \A a, b \in 1 .. Len(pool) : a < b /\ a \in K /\ b \in K =>
        \E i, j \in 1 .. Len(q) : i < j /\ q[i] = pool[a] /\ q[j] = pool[b]
  BY <1>1, SubsequenceInOrder
<1> HIDE DEF q
<1>5. DOMAIN q = 1 .. Len(q) /\ Len(q) \in Nat
  BY <1>3, SeqShape
<1> SUFFICES ASSUME \A n \in DOMAIN pool : FreshFor(pool[n], utxouts) => n \in K,
                    Clash(pool, utxouts) \/ Rejected(pool, utxouts)
             PROVE  Clash(q, utxouts) \/ Rejected(q, utxouts)
  BY DEF q
<1>6. \A m \in DOMAIN pool : FreshFor(pool[m], utxouts) => \E i \in DOMAIN q : q[i] = pool[m]
  BY <1>1, <1>3, <1>5
<1>7. ASSUME NEW m \in DOMAIN pool, NEW n \in DOMAIN pool, m # n,
             FreshFor(pool[m], utxouts), FreshFor(pool[n], utxouts)
      PROVE  \E i, j \in DOMAIN q : i # j /\ q[i] = pool[m] /\ q[j] = pool[n]
  <2>1. m \in K /\ n \in K
    BY <1>7
  <2>2. CASE m < n
    BY <1>1, <1>4, <1>5, <2>1, <2>2
  <2>3. CASE n < m
    BY <1>1, <1>4, <1>5, <2>1, <2>3
  <2> QED BY <1>1, <1>7, <2>2, <2>3
<1> QED BY <1>6, <1>7, JamCarried

(* A block of the whole pool is not valid while the pool is jammed: it     *)
(* validates each transaction and compares all the inputs.                 *)
LEMMA JamInvalid ==
  ASSUME Linked, NEW b, b.data = NewTrans, BlockValidate(b, utxouts),
         Clash(pool, utxouts) \/ Rejected(pool, utxouts)
  PROVE  FALSE
<1> DEFINE v == NewTrans
<1>1. /\ IsSeq(v) /\ Len(v) = Len(pool) + 1 /\ Len(pool) \in Nat
      /\ DOMAIN v = 1 .. Len(v)
      /\ \A i \in 2 .. Len(v) : v[i] = pool[i - 1]
      /\ b.data = v
  <2>1. Len(pool) \in Nat
    BY SeqShape DEF Linked, TypeOK, PoolTyped
  <2>2. /\ IsSeq(v) /\ Len(v) = Len(pool) + 1
        /\ \A i \in 2 .. Len(v) : v[i] = pool[i - 1]
    BY NewTransShape DEF Linked
  <2> HIDE DEF v
  <2>3. DOMAIN v = 1 .. Len(v)
    BY <2>2, SeqShape
  <2> QED BY <2>1, <2>2, <2>3 DEF v
<1> HIDE DEF v
<1>2. NoDuplicateKey(v) /\ \A n \in 2 .. Len(v) : Validate(v[n], utxouts)
  BY <1>1 DEF BlockValidate
<1>3. DOMAIN pool = 1 .. Len(pool)
  BY SeqShape DEF Linked, TypeOK, PoolTyped
<1>4. \A n \in DOMAIN pool : n + 1 \in DOMAIN v /\ n + 1 \in 2 .. Len(v) /\ v[n + 1] = pool[n]
  BY <1>1, <1>3
<1>5. CASE Rejected(pool, utxouts)
  BY <1>2, <1>4, <1>5 DEF Rejected
<1>6. CASE Clash(pool, utxouts)
  <2>1. PICK m \in DOMAIN pool, n \in DOMAIN pool :
           \E i \in DOMAIN pool[m].txins : \E j \in DOMAIN pool[n].txins :
             /\ m # n \/ i # j
             /\ pool[m].txins[i].key = pool[n].txins[j].key
    BY <1>6 DEF Clash
  <2>2. PICK i \in DOMAIN pool[m].txins, j \in DOMAIN pool[n].txins :
             /\ m # n \/ i # j
             /\ pool[m].txins[i].key = pool[n].txins[j].key
    BY <2>1
  <2>3. << m + 1, i >> \in InputPlaces(v) /\ << n + 1, j >> \in InputPlaces(v)
    BY <1>4, InputPlace
  <2>4. KeyAt(v, << m + 1, i >>) = KeyAt(v, << n + 1, j >>)
    BY <1>4, <2>2 DEF KeyAt
  <2>5. << m + 1, i >> = << n + 1, j >>
    BY <1>2, <2>3, <2>4 DEF NoDuplicateKey
  <2>6. m + 1 = n + 1 /\ i = j
    BY <2>5
  <2> QED BY <1>3, <2>2, <2>6
<1> QED BY <1>5, <1>6

LEMMA JamStops ==
  ASSUME Linked, NEW ts \in Timestamps, CommitBlock(ts),
         Clash(pool, utxouts) \/ Rejected(pool, utxouts)
  PROVE  FALSE
<1> DEFINE b == blocks'[Len(blocks) + 1]
<1>1. b.data = NewTrans /\ BlockValidate(b, utxouts)
  BY CommitShape
<1> HIDE DEF b
<1> QED BY <1>1, JamInvalid

(* The recursive function inside Erased satisfies its equation.            *)
LEMMA ErasedUnfolds ==
  ASSUME Linked
  PROVE  \E erased \in [0 .. Len(pool) -> BOOLEAN] :
           /\ Erased = { j \in DOMAIN pool : erased[j] }
           /\ erased[0] = FALSE
           /\ \A k \in 1 .. Len(pool) :
                erased[k] <=> IsStale(pool[k]) /\ ~ erased[k - 1]
<1> DEFINE n == Len(pool)
           Next1(k, e) == IF IsStale(pool[k]) THEN ~ e ELSE FALSE
           step == [p \in (1 .. n) \X BOOLEAN |-> Next1(p[1], p[2])]
           Body(f) == [j \in 0 .. n |-> j > 0 /\ IsStale(pool[j]) /\ ~ f[j - 1]]
           erased == CHOOSE f : f = Body(f)
<1>1. n \in Nat
  BY SeqShape DEF Linked, TypeOK, PoolTyped
<1>2. \A k \in 1 .. n : \A e \in BOOLEAN : Next1(k, e) \in BOOLEAN
  OBVIOUS
<1>3. Erased = { j \in DOMAIN pool : erased[j] }
  BY DEF Erased
<1> HIDE DEF n, Next1
<1>4. step \in Steps(n, BOOLEAN)
  BY <1>2 DEF Steps
<1>5. PICK g \in [0 .. n -> BOOLEAN] :
        /\ g[0] = FALSE
        /\ \A k \in 1 .. n : g[k] = step[<< k, g[k - 1] >>]
  <2> HIDE DEF step
  <2>1. PICK g : IsRecursion(g, n, BOOLEAN, FALSE, step)
    BY <1>1, <1>4, RecursionExists
  <2> QED BY <2>1 DEF IsRecursion
<1>6. \A k \in 1 .. n : g[k] <=> IsStale(pool[k]) /\ ~ g[k - 1]
  <2>1. TAKE k \in 1 .. n
  <2>2. g[k - 1] \in BOOLEAN /\ g[k] \in BOOLEAN
    BY <1>1
  <2>3. step[<< k, g[k - 1] >>] = Next1(k, g[k - 1])
    BY <2>2
  <2>4. g[k] = Next1(k, g[k - 1])
    BY <1>5, <2>3
  <2> QED BY <2>2, <2>4 DEF Next1
<1>7. g = Body(g)
  <2>1. ASSUME NEW k \in 0 .. n PROVE g[k] = Body(g)[k]
    <3>1. CASE k = 0
      BY <1>1, <1>5, <3>1
    <3>2. CASE k # 0
      <4>1. k \in 1 .. n /\ k > 0
        BY <1>1, <3>2
      <4>2. Body(g)[k] = (k > 0 /\ IsStale(pool[k]) /\ ~ g[k - 1])
        OBVIOUS
      <4>3. g[k] <=> IsStale(pool[k]) /\ ~ g[k - 1]
        BY <1>6, <4>1
      <4>4. g[k] \in BOOLEAN
        OBVIOUS
      <4> HIDE DEF Body
      <4> QED BY <4>1, <4>2, <4>3, <4>4, Zenon
    <3> QED BY <3>1, <3>2
  <2>2. g = [k \in 0 .. n |-> g[k]] /\ Body(g) = [k \in 0 .. n |-> Body(g)[k]]
    OBVIOUS
  <2> HIDE DEF Body
  <2> QED BY <2>1, <2>2
<1>8. erased = Body(erased)
  <2> HIDE DEF Body
  <2> QED BY <1>7
<1> HIDE DEF erased, step
<1>9. erased = g
  <2> DEFINE T == { k \in 0 .. n : erased[k] = g[k] }
  <2>0. \A k \in 0 .. n : erased[k] = (k > 0 /\ IsStale(pool[k]) /\ ~ erased[k - 1])
    BY <1>8
  <2>1. 0 \in T
    <3>1. erased[0] = (0 > 0 /\ IsStale(pool[0]) /\ ~ erased[0 - 1])
      BY <1>1, <2>0
    <3>2. ~ (0 > 0) /\ 0 \in 0 .. n
      BY <1>1
    <3> QED BY <1>5, <3>1, <3>2, Zenon
  <2>2. ASSUME NEW k \in 1 .. n, k - 1 \in T PROVE k \in T
    <3>1. k \in 0 .. n /\ k > 0 /\ erased[k - 1] = g[k - 1]
      BY <1>1, <2>2
    <3>2. erased[k] = (k > 0 /\ IsStale(pool[k]) /\ ~ erased[k - 1])
      BY <2>0, <3>1
    <3>3. g[k] \in BOOLEAN /\ (g[k] <=> IsStale(pool[k]) /\ ~ g[k - 1])
      BY <1>6, <3>1
    <3>4. erased[k] = g[k]
      BY <3>1, <3>2, <3>3, Zenon
    <3> QED BY <3>1, <3>4
  <2>3. \A k \in 0 .. n : k \in T
    <3> HIDE DEF T
    <3> QED BY <1>1, <2>1, <2>2, UpTo
  <2>4. erased = [k \in 0 .. n |-> erased[k]]
    BY <1>8
  <2> QED BY <2>3, <2>4
<1> QED BY <1>3, <1>5, <1>6, <1>9 DEF n

(* A transaction the loop erases is stale.                                 *)
LEMMA ErasedStale ==
  ASSUME Linked, NEW n \in DOMAIN pool, n \in Erased
  PROVE  ~ FreshFor(pool[n], utxouts)
<1>1. PICK erased \in [0 .. Len(pool) -> BOOLEAN] :
        /\ Erased = { j \in DOMAIN pool : erased[j] }
        /\ erased[0] = FALSE
        /\ \A k \in 1 .. Len(pool) : erased[k] <=> IsStale(pool[k]) /\ ~ erased[k - 1]
  BY ErasedUnfolds
<1>2. n \in 1 .. Len(pool)
  BY SeqShape DEF Linked, TypeOK, PoolTyped
<1>3. IsStale(pool[n])
  <2>1. erased[n]
    BY <1>1
  <2> QED BY <1>1, <1>2, <2>1
<1> QED BY <1>3 DEF IsStale, FreshFor

LEMMA JamStep ==
  ASSUME Linked, [Next]_vars, Jammed
  PROVE  Jammed' /\ blocks' = blocks
<1> DEFINE J(p) == Clash(p, utxouts) \/ Rejected(p, utxouts)
<1>1. J(pool)
  BY JammedMeans
<1>2. ASSUME J(pool'), UNCHANGED << blocks, utxouts >> PROVE Jammed' /\ blocks' = blocks
  <2>1. Clash(pool', utxouts') \/ Rejected(pool', utxouts')
    BY <1>2
  <2> QED BY <1>2, <2>1, JammedNext
<1> HIDE DEF J
<1>3. ASSUME UNCHANGED << blocks, utxouts, pool >> PROVE Jammed' /\ blocks' = blocks
  BY <1>1, <1>2, <1>3
<1>4. ASSUME NEW name \in Names, CreateWallet(name) PROVE Jammed' /\ blocks' = blocks
  BY <1>3, <1>4 DEF CreateWallet
<1>5. ASSUME NEW name \in Names, NEW key \in Keys, CreateWalletFromKey(name, key)
      PROVE  Jammed' /\ blocks' = blocks
  BY <1>3, <1>5 DEF CreateWalletFromKey
<1>6. ASSUME NEW sender \in DOMAIN wallets, NEW receiver \in DOMAIN wallets,
             NEW amount \in Amounts,
             CreateTransaction(sender, AddressOf(receiver), amount)
      PROVE  Jammed' /\ blocks' = blocks
  <2>1. UNCHANGED << blocks, utxouts >> /\ \E t : pool' = Append(pool, t)
    BY <1>6 DEF CreateTransaction
  <2>2. PICK t : pool' = Append(pool, t)
    BY <2>1
  <2>3. IsSeq(pool) /\ DOMAIN pool = 1 .. Len(pool) /\ Len(pool) \in Nat
    BY SeqShape DEF Linked, TypeOK, PoolTyped
  <2>4. /\ IsSeq(pool') /\ Len(pool') = Len(pool) + 1
        /\ \A i \in 1 .. Len(pool) : pool'[i] = pool[i]
    BY <2>2, <2>3, AppendShape
  <2>5. DOMAIN pool' = 1 .. Len(pool) + 1
    BY <2>4, SeqShape
  <2>6. \A i \in DOMAIN pool : i \in DOMAIN pool' /\ pool'[i] = pool[i]
    BY <2>3, <2>4, <2>5
  <2>7. J(pool')
    BY <1>1, <2>6, JamExtended DEF J
  <2> QED BY <1>2, <2>1, <2>7
<1>7. CASE ValidateTransPool
  <2>1. pool' = Subsequence(pool, DOMAIN pool \ Erased) /\ UNCHANGED << blocks, utxouts >>
    BY <1>7 DEF ValidateTransPool
  <2>2. \A n \in DOMAIN pool : FreshFor(pool[n], utxouts) => n \in DOMAIN pool \ Erased
    BY ErasedStale
  <2>3. J(pool')
    BY <1>1, <2>1, <2>2, JamPurged DEF J
  <2> QED BY <1>2, <2>1, <2>3
<1>8. CASE ValidateTransPoolAborts
  <2>1. /\ pool' = Subsequence(pool, DOMAIN pool \ { Min(Erased) })
        /\ UNCHANGED << blocks, utxouts >>
        /\ Erased # {}
    BY <1>8 DEF ValidateTransPoolAborts
  <2>2. Min(Erased) \in Erased
    <3>1. Erased \subseteq DOMAIN pool /\ DOMAIN pool = 1 .. Len(pool)
      BY SeqShape DEF Erased, Linked, TypeOK, PoolTyped
    <3>2. Erased \subseteq Nat
      BY <3>1
    <3> QED BY <2>1, <3>2, MinProperties
  <2>3. \A n \in DOMAIN pool : FreshFor(pool[n], utxouts) => n \in DOMAIN pool \ { Min(Erased) }
    BY <2>2, ErasedStale
  <2>4. J(pool')
    BY <1>1, <2>1, <2>3, JamPurged DEF J
  <2> QED BY <1>2, <2>1, <2>4
<1>9. ASSUME NEW ts \in Timestamps, CommitBlock(ts) PROVE FALSE
  BY <1>1, <1>9, JamStops DEF J
<1>10. ASSUME NEW ts \in Timestamps, CommitBlockHangs(ts) PROVE Jammed' /\ blocks' = blocks
  BY <1>3, <1>10 DEF CommitBlockHangs
<1>11. CASE UNCHANGED vars
  BY <1>3, <1>11 DEF vars
<1> QED BY <1>4, <1>5, <1>6, <1>7, <1>8, <1>9, <1>10, <1>11 DEF Next

(* Once the pool is jammed no call unjams it, and no block is added again: *)
(* for any amounts, any set of wallets and any length of pool and chain.   *)
THEOREM JamNeverEnds == Spec => JamLasts
<1>1. Linked /\ [Next]_vars => [Jammed => Jammed' /\ blocks' = blocks]_vars
  BY JamStep
<1> QED BY <1>1, LinkedInit, LinkedStep, PTL DEF Spec, JamLasts

(***************************************************************************)
(* What commit_block makes, add() takes: AddsUnlessJammed.                 *)
(***************************************************************************)
(* The inductive invariant, besides Linked: an unspent output has a digest *)
(* in its key, so that no transfer names what a coinbase names.            *)
Digested == \A i \in DOMAIN utxouts : utxouts[i].key.tx_id # NoHash

LEMMA UpdateDigested ==
  ASSUME NEW data, IsSeq(data), \A n \in 1 .. Len(data) : IsTransaction(data[n]),
         NEW cache, IsSeq(cache), \A i \in DOMAIN cache : cache[i].key.tx_id # NoHash
  PROVE  LET u == UpdateUnspentTxout(data, cache)
         IN  \A i \in DOMAIN u : u[i].key.tx_id # NoHash
<1> DEFINE u == UpdateUnspentTxout(data, cache)
           new == NewUnspent(data)
<1>1. /\ IsSeq(u)
      /\ \A j \in 1 .. Len(u) :
           \/ \E k \in 1 .. Len(new) : u[j] = new[k]
           \/ \E k \in 1 .. Len(cache) : u[j] = cache[k]
  BY UpdateShape
<1>2. \A k \in 1 .. Len(new) :
        \E n \in 1 .. Len(data) : \E m \in 1 .. Len(data[n].txouts) :
          new[k] = [key     |-> TxoutKey(data[n].id, n - 1),
                    address |-> data[n].txouts[m].address,
                    amount  |-> data[n].txouts[m].amount]
  BY NewUnspentShape
<1> HIDE DEF u, new
<1>3. ASSUME NEW k \in 1 .. Len(new) PROVE new[k].key.tx_id # NoHash
  <2>1. PICK n \in 1 .. Len(data) : \E m \in 1 .. Len(data[n].txouts) :
          new[k] = [key     |-> TxoutKey(data[n].id, n - 1),
                    address |-> data[n].txouts[m].address,
                    amount  |-> data[n].txouts[m].amount]
    BY <1>2
  <2>2. data[n].id # NoHash
    BY DigestIsNotEmpty
  <2> QED BY <2>1, <2>2 DEF TxoutKey
<1>4. DOMAIN u = 1 .. Len(u) /\ DOMAIN cache = 1 .. Len(cache)
  BY <1>1, SeqShape
<1>5. \A i \in DOMAIN u : u[i].key.tx_id # NoHash
  BY <1>1, <1>3, <1>4
<1> QED BY <1>5 DEF u

LEMMA DigestedInit == Init => Digested
<1> SUFFICES ASSUME NEW ts \in Timestamps, ChainInit(ts) PROVE Digested
  BY DEF Init
<1> DEFINE data == blocks[1].data
<1>1. IsSeq(data) /\ Len(data) = 1 /\ IsTransaction(data[1])
  BY GenesisShape
<1>2. utxouts = UpdateUnspentTxout(data, << >>) \/ utxouts = << >>
  BY GenesisShape
<1> HIDE DEF data
<1>3. \A n \in 1 .. Len(data) : IsTransaction(data[n])
  BY <1>1
<1>4. CASE utxouts = UpdateUnspentTxout(data, << >>)
  <2>1. IsSeq(<< >>) /\ \A i \in DOMAIN << >> : << >>[i].key.tx_id # NoHash
    BY EmptyShape
  <2> QED BY <1>1, <1>3, <1>4, <2>1, UpdateDigested DEF Digested
<1>5. CASE utxouts = << >>
  BY <1>5, EmptyShape DEF Digested
<1> QED BY <1>2, <1>4, <1>5

LEMMA DigestedStep == Linked /\ Digested /\ [Next]_vars => Digested'
<1> SUFFICES ASSUME Linked, Digested, [Next]_vars PROVE Digested'
  OBVIOUS
<1>1. ASSUME UNCHANGED utxouts PROVE Digested'
  BY <1>1 DEF Digested
<1>2. ASSUME NEW ts \in Timestamps, CommitBlock(ts) PROVE Digested'
  <2> DEFINE v == NewTrans
  <2>1. /\ IsSeq(v) /\ \A i \in 1 .. Len(v) : IsTransaction(v[i])
        /\ utxouts' = UpdateUnspentTxout(v, utxouts)
    BY <1>2, CommitShape
  <2> HIDE DEF v
  <2>2. IsSeq(utxouts)
    BY DEF Linked, TypeOK, UtxosTyped
  <2> QED BY <2>1, <2>2, UpdateDigested DEF Digested
<1>3. CASE UNCHANGED vars
  BY <1>1, <1>3 DEF vars
<1>4. (\E ts \in Timestamps : CommitBlock(ts)) \/ UNCHANGED utxouts
  BY <1>3 DEF Next, CreateWallet, CreateWalletFromKey, CreateTransaction, vars,
              ValidateTransPool, ValidateTransPoolAborts, CommitBlockHangs
<1> QED BY <1>1, <1>2, <1>4

(* The coinbase of the block is valid.                                     *)
LEMMA CoinbaseValid ==
  ASSUME NEW address \in Addresses, NEW block_index \in Nat
  PROVE  LET c == GenerateCoinbase(address, block_index)
         IN  ValidateCoinbase(c, block_index) /\ c.txins[1].key.tx_id = NoHash
<1> DEFINE c == GenerateCoinbase(address, block_index)
           outs == << Txout(address, GetCoinbase) >>
<1>1. /\ c.id = GenerateHash(c) /\ Len(c.txins) = 1
      /\ c.txins[1].key = TxoutKey(NoHash, block_index)
  BY CoinbaseShape DEF IsTransaction
<1>2. c.txouts = outs
  BY BuildShape DEF GenerateCoinbase
<1>3. Len(outs) = 1 /\ outs[1].amount = GetCoinbase
  BY DEF Txout
<1> HIDE DEF c, outs
<1>4. ValidateCoinbase(c, block_index) /\ c.txins[1].key.tx_id = NoHash
  BY <1>1, <1>2, <1>3 DEF ValidateCoinbase, NotEqual, TxoutKey
<1> QED BY <1>4 DEF c

(* A pool without stale transactions that is not jammed, in a block.       *)
LEMMA PoolIsValid ==
  ASSUME Linked, Digested, StaleIn(pool) = {}, ~ Jammed, NEW b,
         b.data = NewTrans, b.index = Len(blocks)
  PROVE  BlockValidate(b, utxouts)
<1> DEFINE v == NewTrans
           c == GenerateCoinbase(AddressOf("genesis"), Len(blocks))
<1>1. /\ IsSeq(v) /\ Len(v) = Len(pool) + 1 /\ v[1] = c
      /\ \A n \in 2 .. Len(v) : v[n] = pool[n - 1]
  BY NewTransShape DEF Linked
<1>2. Len(pool) \in Nat /\ DOMAIN pool = 1 .. Len(pool) /\ Len(blocks) \in Nat
  BY SeqShape DEF Linked, TypeOK, PoolTyped, BlocksTyped
<1>3. ValidateCoinbase(c, Len(blocks)) /\ c.txins[1].key.tx_id = NoHash
  <2> DEFINE a == AddressOf("genesis")
  <2>1. a \in Addresses
    BY DEF Linked, TypeOK, WalletsTyped, AddressOf, Addresses
  <2> HIDE DEF a
  <2>2. ValidateCoinbase(GenerateCoinbase(a, Len(blocks)), Len(blocks))
        /\ GenerateCoinbase(a, Len(blocks)).txins[1].key.tx_id = NoHash
    BY <1>2, <2>1, CoinbaseValid
  <2> QED BY <2>2 DEF a
<1>4. DOMAIN c.txins = 1 .. 1
  <2>1. IsSeq(c.txins)
    <3>1. IsTransaction(v[1])
      <4>1. 1 \in 1 .. Len(v)
        BY <1>1, <1>2
      <4> HIDE DEF v
      <4>2. \A n \in 1 .. Len(v) : IsTransaction(v[n])
        BY NewTransShape DEF Linked, v
      <4> QED BY <4>1, <4>2
    <3> HIDE DEF v, c
    <3> QED BY <1>1, <3>1 DEF IsTransaction
  <2>2. Len(c.txins) = 1
    BY <1>3 DEF ValidateCoinbase
  <2> HIDE DEF c
  <2> QED BY <2>1, <2>2, SeqShape
<1> HIDE DEF v, c
<1>5. DOMAIN v = 1 .. Len(v) /\ v # << >>
  BY <1>1, <1>2, SeqShape, EmptyShape
<1>6. \A n \in DOMAIN v : n = 1 \/ (n \in 2 .. Len(v) /\ n - 1 \in DOMAIN pool)
  BY <1>1, <1>2, <1>5
<1>7. \A n \in DOMAIN pool : FreshFor(pool[n], utxouts)
  BY DEF StaleIn, IsStale, FreshFor
<1>8. ~ Clash(pool, utxouts) /\ ~ Rejected(pool, utxouts)
  BY JammedWhen
<1>9. \A n \in 2 .. Len(v) : Validate(v[n], utxouts)
  <2>1. \A n \in DOMAIN pool : Validate(pool[n], utxouts)
    BY <1>7, <1>8 DEF Rejected
  <2>2. \A n \in 2 .. Len(v) : n - 1 \in DOMAIN pool
    BY <1>1, <1>2
  <2> QED BY <1>1, <2>1, <2>2
<1>10. ASSUME NEW n \in 2 .. Len(v), NEW j \in DOMAIN v[n].txins
       PROVE  v[n].txins[j].key.tx_id # NoHash
  <2>1. n - 1 \in DOMAIN pool /\ v[n] = pool[n - 1]
    BY <1>1, <1>2
  <2>2. Has(utxouts, v[n].txins[j].key)
    BY <1>7, <2>1 DEF FreshFor
  <2> QED BY <2>2 DEF Has, Digested
<1>11. ASSUME NEW m \in DOMAIN v, NEW i \in DOMAIN v[m].txins,
              NEW n \in DOMAIN v, NEW j \in DOMAIN v[n].txins,
              v[m].txins[i].key = v[n].txins[j].key
       PROVE  m = n /\ i = j
  <2>1. CASE m = 1 /\ n = 1
    BY <1>1, <1>4, <2>1
  <2>2. CASE m = 1 /\ n # 1
    <3>1. i = 1 /\ v[m].txins[i].key.tx_id = NoHash
      BY <1>1, <1>3, <1>4, <2>2
    <3>2. v[n].txins[j].key.tx_id # NoHash
      BY <1>6, <1>10, <2>2
    <3> QED BY <1>11, <3>1, <3>2
  <2>3. CASE m # 1 /\ n = 1
    <3>1. j = 1 /\ v[n].txins[j].key.tx_id = NoHash
      BY <1>1, <1>3, <1>4, <2>3
    <3>2. v[m].txins[i].key.tx_id # NoHash
      BY <1>6, <1>10, <2>3
    <3> QED BY <1>11, <3>1, <3>2
  <2>4. CASE m # 1 /\ n # 1
    <3>1. /\ m - 1 \in DOMAIN pool /\ v[m] = pool[m - 1]
          /\ n - 1 \in DOMAIN pool /\ v[n] = pool[n - 1]
      BY <1>1, <1>6, <2>4
    <3>2. FreshFor(pool[m - 1], utxouts) /\ FreshFor(pool[n - 1], utxouts)
      BY <1>7, <3>1
    <3>3. ~ (m - 1 # n - 1 \/ i # j)
      BY <1>8, <1>11, <3>1, <3>2 DEF Clash
    <3> QED BY <1>5, <3>3
  <2> QED BY <2>1, <2>2, <2>3, <2>4
<1>12. NoDuplicateKey(v)
  <2> SUFFICES ASSUME NEW p \in InputPlaces(v), NEW q \in InputPlaces(v),
                      KeyAt(v, p) = KeyAt(v, q)
               PROVE  p = q
    BY DEF NoDuplicateKey
  <2>1. PICK m \in DOMAIN v : \E i \in DOMAIN v[m].txins : p = << m, i >>
    BY InputPlace
  <2>2. PICK i \in DOMAIN v[m].txins : p = << m, i >>
    BY <2>1
  <2>3. PICK n \in DOMAIN v : \E j \in DOMAIN v[n].txins : q = << n, j >>
    BY InputPlace
  <2>4. PICK j \in DOMAIN v[n].txins : q = << n, j >>
    BY <2>3
  <2>5. v[m].txins[i].key = v[n].txins[j].key
    BY <2>2, <2>4 DEF KeyAt
  <2> QED BY <1>11, <2>2, <2>4, <2>5
<1>13. b.data = v
  BY DEF v
<1>14. ValidateCoinbase(v[1], b.index)
  BY <1>1, <1>3
<1> QED BY <1>5, <1>9, <1>12, <1>13, <1>14 DEF BlockValidate

(* The leading zeros of a digest are counted: a natural number.            *)
ZerosCounted == \A text : LeadingZeros(Sha256(text)) \in Nat

LEMMA FoundIsAddable ==
  ASSUME ZerosCounted, Linked, Digested, NEW ts \in Timestamps,
         GoodNonces(Candidate(ts), NewTrans) # {}
  PROVE  Addable(FindBlock(Candidate(ts), NewTrans)) <=> StaleIn(pool) = {} /\ ~ Jammed
<1> DEFINE v == NewTrans
           b == FindBlock(Candidate(ts), v)
<1>1. /\ b.index = LastBlock.index + 1 /\ b.prev = LastBlock.hash
      /\ b.data = v /\ b.hash = BlockHash(b, v) /\ b.difficulty = GetDifficulty
  <2> HIDE DEF v
  <2> QED BY FoundBlock
<1>2. b.difficulty < LeadingZeros(b.hash)
  <2>1. GoodNonces(Candidate(ts), v) # {}
    OBVIOUS
  <2> HIDE DEF v
  <2> QED BY <2>1, FoundHasProof
<1> HIDE DEF b
<1>3. LastBlock.index + 1 = Len(blocks)
  <2>1. Len(blocks) \in Nat /\ Len(blocks) > 0 /\ DOMAIN blocks = 1 .. Len(blocks)
    BY SeqShape DEF Linked, TypeOK, BlocksTyped
  <2> QED BY <2>1 DEF Linked, ChainLinked, LastBlock
<1>4. ValidateBlock(b)
  <2> HIDE DEF v
  <2>1. LeadingZeros(b.hash) \in Nat
    BY <1>1 DEF ZerosCounted, BlockHash
  <2>2. b.difficulty \in Int
    BY <1>1, DifficultyInRange, ChainAssumption DEF Linked
  <2>3. LeadingZeros(b.hash) >= b.difficulty
    BY <1>2, <2>1, <2>2
  <2> QED BY <1>1, <2>3 DEF ValidateBlock, ValidateHash, NotEqual
<1>5. ASSUME StaleIn(pool) = {}, ~ Jammed PROVE BlockValidate(b, utxouts)
  BY <1>1, <1>3, <1>5, PoolIsValid
<1>6. ASSUME BlockValidate(b, utxouts) PROVE StaleIn(pool) = {} /\ ~ Jammed
  <2>1. ~ Jammed
    BY <1>1, <1>6, JamInvalid, JammedMeans
  <2>2. Len(pool) \in Nat /\ DOMAIN pool = 1 .. Len(pool) /\ Len(v) = Len(pool) + 1
        /\ \A n \in 2 .. Len(v) : v[n] = pool[n - 1]
    BY NewTransShape, SeqShape DEF Linked, TypeOK, PoolTyped
  <2> HIDE DEF v
  <2>3. \A n \in 2 .. Len(v) : Validate(v[n], utxouts)
    BY <1>1, <1>6 DEF BlockValidate
  <2>4. ASSUME NEW n \in DOMAIN pool PROVE ~ IsStale(pool[n])
    <3>1. n + 1 \in 2 .. Len(v) /\ v[n + 1] = pool[n]
      BY <2>2
    <3>2. Validate(pool[n], utxouts)
      BY <2>3, <3>1
    <3> QED BY <3>2 DEF Validate, TxinValidate, IsStale
  <2> QED BY <2>1, <2>4 DEF StaleIn
<1>7. Addable(b) <=> StaleIn(pool) = {} /\ ~ Jammed
  BY <1>4, <1>5, <1>6 DEF Addable
<1> QED BY <1>7 DEF b

(* Whatever is called, on a chain and a pool of any length and for any     *)
(* amounts: when find_block returns, its block is added exactly if no      *)
(* waiting transaction is stale and the pool is not jammed.                *)
THEOREM MinedIsAdded == ASSUME ZerosCounted PROVE Spec => []AddsUnlessJammed
<1>1. Linked /\ Digested => AddsUnlessJammed
  BY FoundIsAddable DEF AddsUnlessJammed
<1>2. Init => Linked /\ Digested
  BY LinkedInit, DigestedInit
<1>3. Linked /\ Digested /\ [Next]_vars => (Linked /\ Digested)'
  BY LinkedStep, DigestedStep
<1> QED BY <1>1, <1>2, <1>3, PTL DEF Spec

(***************************************************************************)
(* What a transfer takes: InputsCoverOutputs, when callers transfer a      *)
(* whole coin or more.                                                     *)
(***************************************************************************)
(* An unspent output has a digest in its key.                              *)
LEMMA UtxoKeysTruthy ==
  ASSUME Linked, Spending, NEW i \in DOMAIN utxouts
  PROVE  KeyTruthy(utxouts[i].key)
<1>1. utxouts[i].key \in CreatedBy(blocks)
  BY SpendingMeans
<1>2. PICK n \in DOMAIN blocks : \E j \in DOMAIN blocks[n].data :
        utxouts[i].key = TxoutKey(blocks[n].data[j].id, j - 1)
  BY <1>1 DEF CreatedBy
<1>3. PICK j \in DOMAIN blocks[n].data :
        utxouts[i].key = TxoutKey(blocks[n].data[j].id, j - 1)
  BY <1>2
<1>4. IsTransaction(blocks[n].data[j])
  BY DEF Linked, TypeOK, BlocksTyped
<1> DEFINE t == blocks[n].data[j]
<1>5. utxouts[i].key.tx_id = t.id
  BY <1>3 DEF TxoutKey
<1>6. t.id # NoHash
  BY <1>4, DigestIsNotEmpty
<1>7. t.id # NoAddress
  <2>1. DOMAIN t.id = {"sha256"}
    BY <1>4 DEF IsTransaction, GenerateHash, Sha256
  <2>2. DOMAIN NoAddress = {"pub"}
    BY DEF NoAddress
  <2> QED BY <2>1, <2>2
<1> QED BY <1>5, <1>6, <1>7 DEF KeyTruthy, Truthy

(* remove_if with a test that all elements pass, or none, changes nothing. *)
LEMMA RemoveAllOrNone ==
  ASSUME NEW s, IsSeq(s), NEW I, I = {} \/ I = DOMAIN s
  PROVE  RemoveIf(s, I) = s
<1> DEFINE kept == Subsequence(s, DOMAIN s \ I)
           rest == SubSeq(s, Len(kept) + 1, Len(s))
<1>1. RemoveIf(s, I) = kept \o rest
  BY DEF RemoveIf
<1>2. Len(s) \in Nat
  BY SeqShape
<1>3. CASE I = {}
  <2>1. kept = s
    <3>1. DOMAIN s \ I = DOMAIN s
      BY <1>3
    <3> QED BY <3>1, SubsequenceAll
  <2> HIDE DEF kept
  <2>2. IsSeq(rest) /\ Len(rest) = 0
    BY <1>2, <2>1, SuffixShape
  <2>3. rest = << >>
    BY <2>2, SeqShape
  <2>4. s \in Seq(Range(s))
    BY DEF IsSeq
  <2>5. s \o << >> = s
    BY <2>4, ConcatEmptySeq
  <2> QED BY <1>1, <2>1, <2>3, <2>5
<1>4. CASE I = DOMAIN s
  <2>1. kept = << >>
    <3>1. DOMAIN s \ I = {}
      BY <1>4
    <3> QED BY <3>1, SubsequenceNone
  <2>2. Len(kept) = 0
    BY <2>1, EmptyShape
  <2>3. rest = s
    <3>1. rest = SubSeq(s, 1, Len(s))
      <4> HIDE DEF kept
      <4>1. Len(kept) + 1 = 1
        BY <2>2
      <4> QED BY <4>1
    <3>2. Len(s) \in 0 .. Len(s)
      BY <1>2
    <3>3. /\ IsSeq(SubSeq(s, 1, Len(s))) /\ Len(SubSeq(s, 1, Len(s))) = Len(s)
          /\ \A i \in 1 .. Len(s) : SubSeq(s, 1, Len(s))[i] = s[i]
      BY <3>2, PrefixShape
    <3>4. SubSeq(s, 1, Len(s)) = s
      BY <3>3, SameSeq
    <3> QED BY <3>1, <3>4
  <2>4. s \in Seq(Range(s))
    BY DEF IsSeq
  <2>5. << >> \o s = s
    BY <2>4, ConcatEmptySeq
  <2> HIDE DEF kept, rest
  <2> QED BY <1>1, <2>1, <2>3, <2>5
<1> QED BY <1>3, <1>4

(* The set of used keys finds every unspent key or none, so                *)
(* create_transaction chooses from all outputs of the sender.              *)
LEMMA NothingLeftOut ==
  ASSUME Linked, Spending, NEW address
  PROVE  SenderCache(address) = CacheGroupBy(address)
<1> DEFINE mine == CacheGroupBy(address)
           I == { i \in DOMAIN mine : FoundIn(SpentKeys(pool), mine[i].key) }
           U == \E u \in SpentKeys(pool) : KeyTruthy(u) = TRUE
<1>1. IsSeq(utxouts) /\ DOMAIN utxouts = 1 .. Len(utxouts)
  BY SeqShape DEF Linked, TypeOK, UtxosTyped
<1>2. /\ IsSeq(mine)
      /\ \A i \in 1 .. Len(mine) : \E j \in 1 .. Len(utxouts) : mine[i] = utxouts[j]
  <2> DEFINE A == { i \in DOMAIN utxouts : utxouts[i].address = address }
  <2>1. mine = Subsequence(utxouts, A)
    BY DEF CacheGroupBy
  <2> HIDE DEF A, mine
  <2> QED BY <1>1, <2>1, SubsequenceTakes
<1> HIDE DEF mine
<1>3. DOMAIN mine = 1 .. Len(mine)
  BY <1>2, SeqShape
<1>4. ASSUME NEW i \in DOMAIN mine PROVE KeyTruthy(mine[i].key) = TRUE
  <2>1. PICK j \in 1 .. Len(utxouts) : mine[i] = utxouts[j]
    BY <1>2, <1>3
  <2>2. KeyTruthy(utxouts[j].key)
    BY <1>1, UtxoKeysTruthy
  <2>3. KeyTruthy(mine[i].key) \in BOOLEAN
    BY DEF KeyTruthy, Truthy
  <2>4. KeyTruthy(mine[i].key)
    BY <2>1, <2>2
  <2> QED BY <2>4 DEF KeyTruthy, Truthy
<1>5. \A i \in DOMAIN mine : FoundIn(SpentKeys(pool), mine[i].key) <=> U
  BY <1>4 DEF FoundIn
<1>6. I = {} \/ I = DOMAIN mine
  <2> HIDE DEF U
  <2> QED BY <1>5
<1> HIDE DEF I
<1>7. RemoveIf(mine, I) = mine
  BY <1>2, <1>6, RemoveAllOrNone
<1> QED BY <1>7 DEF mine, I, SenderCache

(* The outputs of one address in s, as CacheGroupBy groups them.           *)
OutputsAt(s, address) == Subsequence(s, { i \in DOMAIN s : s[i].address = address })

(* The outputs at the front of one address's outputs, when their keys      *)
(* differ: a key that resolves to an output of that address resolves to    *)
(* the one it was taken from, since all of the address's outputs that      *)
(* stand before it in s were taken as well.                                *)
LEMMA FrontResolves ==
  ASSUME NEW s, IsSeq(s), NEW address, NEW c \in Nat, c <= Len(OutputsAt(s, address)),
         NEW i \in 1 .. c,
         \A a, b \in 1 .. c :
           OutputsAt(s, address)[a].key = OutputsAt(s, address)[b].key => a = b,
         GetTxout(s, OutputsAt(s, address)[i].key).address = address
  PROVE  GetTxout(s, OutputsAt(s, address)[i].key) = OutputsAt(s, address)[i]
<1> DEFINE A == { q \in DOMAIN s : s[q].address = address }
           mine == Subsequence(s, A)
           M == { q \in DOMAIN s : s[q].key = mine[i].key }
<1>1. OutputsAt(s, address) = mine
  BY DEF OutputsAt
<1>2. DOMAIN s = 1 .. Len(s) /\ Len(s) \in Nat
  BY SeqShape
<1>3. Len(mine) \in Nat
  <2> HIDE DEF A
  <2> QED BY SubsequenceShape, SeqShape
<1>4. i \in 1 .. Len(mine)
  <2> HIDE DEF mine
  <2> QED BY <1>1, <1>3
<1>5. PICK p \in 1 .. Len(s) :
        /\ p \in A /\ mine[i] = s[p]
        /\ \A a \in 1 .. p - 1 : a \in A => \E l \in 1 .. i - 1 : mine[l] = s[a]
  <2> HIDE DEF A
  <2>1. \A j \in 1 .. Len(Subsequence(s, A)) :
          \E q \in 1 .. Len(s) :
            /\ q \in A /\ Subsequence(s, A)[j] = s[q]
            /\ \A a \in 1 .. q - 1 : a \in A =>
                 \E l \in 1 .. j - 1 : Subsequence(s, A)[l] = s[a]
    BY SubsequenceBefore
  <2> QED BY <1>4, <2>1
<1> HIDE DEF mine
<1>6. p \in M /\ M \subseteq Nat
  BY <1>2, <1>5
<1>7. Min(M) \in M /\ Min(M) <= p
  BY <1>6, MinProperties
<1>8. Has(s, mine[i].key) /\ GetTxout(s, mine[i].key) = s[Min(M)]
  BY <1>6 DEF Has, GetTxout
<1>9. PICK m : m = Min(M)
  OBVIOUS
<1>10. m \in 1 .. Len(s) /\ m <= p /\ s[m].key = mine[i].key /\ s[m].address = address
  BY <1>1, <1>2, <1>7, <1>8, <1>9
<1>11. m \in A
  BY <1>2, <1>10
<1>12. m = p
  <2>1. SUFFICES ASSUME m # p PROVE FALSE
    OBVIOUS
  <2> HIDE DEF A, M
  <2>2. m \in 1 .. p - 1
    BY <1>2, <1>10, <2>1
  <2>3. PICK l \in 1 .. i - 1 : mine[l] = s[m]
    BY <1>5, <1>11, <2>2
  <2>4. mine[l].key = mine[i].key
    BY <1>10, <2>3
  <2>5. l \in 1 .. c /\ l # i
    OBVIOUS
  <2> QED BY <1>1, <2>4, <2>5
<1> HIDE DEF M
<1> QED BY <1>1, <1>5, <1>8, <1>9, <1>12

(* The selection is the front of the sender's outputs.                     *)
LEMMA SelectedIsFront ==
  ASSUME Linked, Spending, NEW sender, NEW amount
  PROVE  LET mine == OutputsAt(utxouts, AddressOf(sender))
             use == Selected(sender, amount)
         IN  /\ IsSeq(use) /\ Len(use) \in Nat /\ Len(use) <= Len(mine)
             /\ \A i \in 1 .. Len(use) : use[i] = mine[i]
<1> DEFINE address == AddressOf(sender)
           mine == OutputsAt(utxouts, address)
           c == UseCount(mine, amount)
           use == SubSeq(mine, 1, c)
<1>1. IsSeq(mine)
  <2>1. IsSeq(utxouts)
    BY DEF Linked, TypeOK, UtxosTyped
  <2> DEFINE A == { q \in DOMAIN utxouts : utxouts[q].address = address }
  <2> HIDE DEF A
  <2>2. IsSeq(Subsequence(utxouts, A))
    BY <2>1, SubsequenceShape
  <2> QED BY <2>2 DEF OutputsAt, A
<1>2. SenderCache(address) = mine
  BY NothingLeftOut DEF CacheGroupBy, OutputsAt
<1>3. Selected(sender, amount) = use
  BY <1>2 DEF Selected
<1> HIDE DEF mine
<1>4. c \in 0 .. Len(mine) /\ Len(mine) \in Nat
  BY <1>1, UseCountInRange, SeqShape
<1> HIDE DEF c
<1>5. IsSeq(use) /\ Len(use) = c /\ \A i \in 1 .. c : use[i] = mine[i]
  BY <1>1, <1>4, PrefixShape
<1> HIDE DEF use
<1>6. Len(use) \in Nat /\ Len(use) <= Len(mine)
  BY <1>4, <1>5
<1> QED BY <1>3, <1>5, <1>6 DEF mine

(* Two outputs are worth their sum.                                        *)
LEMMA TotalOfTwo ==
  ASSUME NEW s, IsSeq(s), Len(s) = 2, NEW a \in Int, NEW b \in Int,
         s[1].amount = a, s[2].amount = b
  PROVE  Total(s) = a + b
<1>1. \A i \in 1 .. Len(s) : s[i].amount \in Int
  <2>1. \A i \in 1 .. 2 : i = 1 \/ i = 2
    OBVIOUS
  <2> QED BY <2>1
<1>2. /\ Totals(s)[0] = 0
      /\ \A k \in 1 .. Len(s) : Totals(s)[k] = Totals(s)[k - 1] + s[k].amount
  BY <1>1, TotalsShape
<1>3. 1 \in 1 .. Len(s) /\ 2 \in 1 .. Len(s) /\ 1 - 1 = 0 /\ 2 - 1 = 1
  OBVIOUS
<1>4. Totals(s)[1] = Totals(s)[0] + a
  <2>1. Totals(s)[1] = Totals(s)[1 - 1] + s[1].amount
    BY <1>2, <1>3
  <2> QED BY <1>3, <2>1
<1>5. Totals(s)[2] = Totals(s)[1] + b
  <2>1. Totals(s)[2] = Totals(s)[2 - 1] + s[2].amount
    BY <1>2, <1>3
  <2> QED BY <1>3, <2>1
<1> QED BY <1>2, <1>4, <1>5 DEF Total

(* The outputs of a transfer.                                              *)
LEMMA TransferOutputs ==
  ASSUME NEW use, NEW total \in Int, Total(use) = total,
         NEW sender, NEW receiver, NEW amount \in Int, NEW key
  PROVE  LET t == Signed(Transfer(sender, use, receiver, amount), key)
         IN  /\ IsSeq(t.txouts) /\ Len(t.txouts) = 2
             /\ t.txouts[1].amount = amount /\ t.txouts[2].amount = total - amount
<1> DEFINE ins == [i \in DOMAIN use |-> Txin(use[i].key)]
           outs == << Txout(receiver, amount),
                      Txout(AddressOf(sender), Total(use) - amount) >>
           tran == Transfer(sender, use, receiver, amount)
           t == Signed(tran, key)
<1>1. tran.txouts = outs /\ tran = [txins |-> tran.txins, txouts |-> outs, id |-> tran.id]
  <2>1. tran = Build(ins, outs)
    BY DEF Transfer
  <2> HIDE DEF tran, ins, outs
  <2>2. /\ tran.txins = ins /\ tran.txouts = outs
        /\ tran = [txins |-> ins, txouts |-> outs, id |-> tran.id]
    BY <2>1, BuildShape
  <2> QED BY <2>2
<1>2. t.txouts = outs
  <2> DEFINE signed == [i \in DOMAIN tran.txins |->
                          [tran.txins[i] EXCEPT !.signature = Sign(key, tran.id)]]
  <2>1. t = [tran EXCEPT !.txins = signed]
    BY DEF Signed
  <2> HIDE DEF t, tran, signed, outs
  <2> QED BY <1>1, <2>1
<1>3. IsSeq(outs) /\ Len(outs) = 2
  <2>1. outs \in Seq({ outs[1], outs[2] }) /\ Len(outs) = 2
    OBVIOUS
  <2> HIDE DEF outs
  <2> QED BY <2>1, IsSeqOf
<1>4. outs[1].amount = amount /\ outs[2].amount = total - amount
  BY DEF Txout
<1> HIDE DEF t, outs
<1> QED BY <1>2, <1>3, <1>4 DEF t

(* A transfer pays out what was selected for it.                           *)
LEMMA TransferTotal ==
  ASSUME NEW use, NEW total \in Int, Total(use) = total,
         NEW sender, NEW receiver, NEW amount \in Int, NEW key
  PROVE  Total(Signed(Transfer(sender, use, receiver, amount), key).txouts) = total
<1>1. PICK outs : outs = Signed(Transfer(sender, use, receiver, amount), key).txouts
  OBVIOUS
<1>2. /\ IsSeq(outs) /\ Len(outs) = 2
      /\ outs[1].amount = amount /\ outs[2].amount = total - amount
  BY <1>1, TransferOutputs
<1>3. PICK b \in Int : b = total - amount
  OBVIOUS
<1>4. Total(outs) = amount + b
  BY <1>2, <1>3, TotalOfTwo
<1> QED BY <1>1, <1>3, <1>4

Resolved(t, cache) == [i \in DOMAIN t.txins |-> GetTxout(cache, t.txins[i].key)]
PaysAsTaken(t, cache) == Total(Resolved(t, cache)) = Total(t.txouts)
DistinctKeys(t) ==
  \A i, j \in DOMAIN t.txins : t.txins[i].key = t.txins[j].key => i = j

(* What the signature of the owner of key is accepted for is his.          *)
LEMMA SignerOwns ==
  ASSUME NEW address \in Addresses, NEW key, NEW data, Verify(address, data, Sign(key, data))
  PROVE  address = GetAddress(key)
<1>1. PICK k \in Keys : address = [pub |-> << k >>]
  BY DEF Addresses, GetAddress
<1>2. Sign(key, data).by = << key >> /\ Sign(key, data) = [by |-> address.pub, over |-> data]
  BY DEF Sign, Verify
<1>3. address.pub = << key >>
  BY <1>2
<1> QED BY <1>1, <1>3 DEF GetAddress

(* A new transaction that validates and takes each key once takes the      *)
(* outputs it was made from.                                               *)
LEMMA NewPaysAsTaken ==
  ASSUME Linked, Spending,
         NEW sender \in DOMAIN wallets, NEW receiver \in DOMAIN wallets,
         NEW amount \in Amounts
  PROVE  LET t == Signed(Transfer(sender, Selected(sender, amount),
                                  AddressOf(receiver), amount), wallets[sender])
         IN  Validate(t, utxouts) /\ DistinctKeys(t) => PaysAsTaken(t, utxouts)
<1> DEFINE use == Selected(sender, amount)
           to == AddressOf(receiver)
           key == wallets[sender]
           address == AddressOf(sender)
           mine == OutputsAt(utxouts, address)
           t == Signed(Transfer(sender, use, to, amount), key)
<1> SUFFICES ASSUME Validate(t, utxouts), DistinctKeys(t) PROVE PaysAsTaken(t, utxouts)
  OBVIOUS
<1>1. IsTransaction(t)
  BY CreatedTyped DEF Linked
<1>2. address \in Addresses /\ to \in Addresses /\ address = GetAddress(key)
  BY DEF Linked, TypeOK, WalletsTyped, AddressOf, Addresses
<1>3. IsSeq(utxouts) /\ DOMAIN utxouts = 1 .. Len(utxouts)
  BY SeqShape DEF Linked, TypeOK, UtxosTyped
<1>4. \A i \in 1 .. Len(utxouts) : /\ utxouts[i].key.txout_index \in Nat
                                   /\ utxouts[i].amount \in Int
                                   /\ utxouts[i].address \in Addresses
  BY <1>3 DEF Linked, TypeOK, UtxosTyped
<1>5. IsSeq(use) /\ \A i \in 1 .. Len(use) : \E j \in 1 .. Len(utxouts) : use[i] = utxouts[j]
  BY <1>3, <1>4, SelectedShape
<1>6. /\ Len(use) \in Nat /\ Len(use) <= Len(mine)
      /\ \A i \in 1 .. Len(use) : use[i] = mine[i]
  BY SelectedIsFront
<1> HIDE DEF use, to, key, address
<1>7. \A i \in 1 .. Len(use) : use[i].key.txout_index \in Nat /\ use[i].amount \in Int
  BY <1>4, <1>5
<1>8. amount \in Int
  BY NodeAssumption
<1>9. Len(t.txins) = Len(use) /\ \A i \in 1 .. Len(use) : t.txins[i].key = use[i].key
  BY <1>2, <1>5, <1>7, <1>8, TransferShape DEF address
<1>10. DOMAIN t.txins = 1 .. Len(use)
  BY <1>1, <1>9, SeqShape DEF IsTransaction
<1>11. SignedWith(t, key)
  <2>1. PICK W : W = Addresses
    OBVIOUS
  <2>2. to \in W /\ AddressOf(sender) \in W
    BY <1>2, <2>1 DEF address
  <2> QED BY <2>2, TransferPays
<1>12. Total(use) \in Int
  BY <1>5, <1>6, <1>7, TotalsShape DEF Total
<1>13. Total(t.txouts) = Total(use)
  <2>1. PICK total : total = Total(use)
    OBVIOUS
  <2> QED BY <1>8, <1>12, <2>1, TransferTotal
<1> HIDE DEF t
<1>14. ASSUME NEW i \in 1 .. Len(use) PROVE GetTxout(utxouts, t.txins[i].key) = use[i]
  <2>1. /\ Has(utxouts, use[i].key)
        /\ Verify(GetTxout(utxouts, use[i].key).address, t.id, Sign(key, t.id))
    BY <1>9, <1>10, <1>11 DEF Validate, TxinValidate, SignedWith
  <2>2. GetTxout(utxouts, use[i].key).address \in Addresses
    <3> DEFINE M == { q \in DOMAIN utxouts : utxouts[q].key = use[i].key }
    <3>1. M # {} /\ M \subseteq Nat /\ M \subseteq 1 .. Len(utxouts)
      BY <1>3, <2>1 DEF Has
    <3>2. GetTxout(utxouts, use[i].key) = utxouts[Min(M)]
      BY <2>1 DEF GetTxout
    <3> HIDE DEF M
    <3>3. Min(M) \in 1 .. Len(utxouts)
      BY <3>1, MinProperties
    <3> QED BY <1>4, <3>2, <3>3
  <2>3. GetTxout(utxouts, use[i].key).address = address
    <3>1. PICK a \in Addresses : a = GetTxout(utxouts, use[i].key).address
      BY <2>2
    <3>2. Verify(a, t.id, Sign(key, t.id))
      BY <2>1, <3>1
    <3>3. a = GetAddress(key)
      BY <3>2, SignerOwns
    <3> QED BY <1>2, <3>1, <3>3
  <2> HIDE DEF mine
  <2>4. \A a, b \in 1 .. Len(use) : mine[a].key = mine[b].key => a = b
    BY <1>6, <1>9, <1>10 DEF DistinctKeys
  <2>5. use[i] = mine[i]
    BY <1>6
  <2>6. GetTxout(utxouts, mine[i].key) = mine[i]
    <3>1. PICK c : c = Len(use)
      OBVIOUS
    <3>2. c \in Nat /\ c <= Len(mine) /\ i \in 1 .. c
          /\ \A a, b \in 1 .. c : mine[a].key = mine[b].key => a = b
      BY <1>6, <2>4, <3>1
    <3>3. GetTxout(utxouts, mine[i].key).address = address
      BY <2>3, <2>5
    <3> QED BY <1>3, <3>2, <3>3, FrontResolves DEF mine
  <2> QED BY <1>9, <2>5, <2>6
<1>15. Resolved(t, utxouts) = use
  <2>1. \A i \in DOMAIN t.txins : GetTxout(utxouts, t.txins[i].key) = use[i]
    BY <1>10, <1>14
  <2>2. use = [i \in 1 .. Len(use) |-> use[i]]
    <3>1. use \in Seq(Range(use))
      BY <1>5 DEF IsSeq
    <3>2. use \in [1 .. Len(use) -> Range(use)]
      BY <3>1, LenProperties
    <3> QED BY <3>2
  <2> QED BY <1>10, <2>1, <2>2 DEF Resolved
<1> QED BY <1>13, <1>15 DEF PaysAsTaken

(***************************************************************************)
(* Covered: every waiting transaction that would validate, and takes each  *)
(* of its keys once, pays out what its keys resolve to.                    *)
(***************************************************************************)
CoveredBy(t, cache) == Validate(t, cache) /\ DistinctKeys(t) => PaysAsTaken(t, cache)
Covered == \A n \in DOMAIN pool : CoveredBy(pool[n], utxouts)

LEMMA PurgeCovered ==
  ASSUME Linked, Covered, NEW I, pool' = Subsequence(pool, I), utxouts' = utxouts
  PROVE  Covered'
<1>1. IsSeq(pool) /\ DOMAIN pool = 1 .. Len(pool)
  BY SeqShape DEF Linked, TypeOK, PoolTyped
<1>2. IsSeq(pool') /\ \A j \in 1 .. Len(pool') : \E i \in 1 .. Len(pool) : pool'[j] = pool[i]
  <2>1. IsSeq(pool')
        /\ \A j \in 1 .. Len(pool') : \E i \in 1 .. Len(pool) : i \in I /\ pool'[j] = pool[i]
    BY <1>1, SubsequenceTakes
  <2> QED BY <2>1
<1>3. DOMAIN pool' = 1 .. Len(pool')
  BY <1>2, SeqShape
<1>4. ASSUME NEW j \in DOMAIN pool' PROVE CoveredBy(pool'[j], utxouts')
  <2>1. PICK i \in DOMAIN pool : pool'[j] = pool[i]
    BY <1>1, <1>2, <1>3
  <2>2. CoveredBy(pool[i], utxouts)
    BY DEF Covered
  <2> QED BY <2>1, <2>2
<1> QED BY <1>4 DEF Covered

(* After a block no waiting transaction validates any more.                *)
LEMMA CommitCovered ==
  ASSUME Linked, Spending, NEW ts \in Timestamps, CommitBlock(ts)
  PROVE  Covered'
<1>1. pool' = pool
  BY CommitShape
<1>2. ASSUME NEW n \in DOMAIN pool PROVE ~ Validate(pool[n], utxouts')
  <2>1. \E i \in DOMAIN pool[n].txins : ~ Has(utxouts', pool[n].txins[i].key)
    BY CommitMakesStale
  <2> QED BY <2>1 DEF Validate, TxinValidate
<1>3. \A n \in DOMAIN pool' : CoveredBy(pool'[n], utxouts')
  BY <1>1, <1>2 DEF CoveredBy
<1> QED BY <1>3 DEF Covered

LEMMA CoveredStep ==
  ASSUME WholeCoins
  PROVE  Linked /\ Spending /\ Covered /\ [Next]_vars => Covered'
<1> SUFFICES ASSUME Linked, Spending, Covered, [Next]_vars PROVE Covered'
  OBVIOUS
<1>1. ASSUME utxouts' = utxouts, pool' = pool PROVE Covered'
  BY <1>1 DEF Covered
<1>2. ASSUME NEW name \in Names, CreateWallet(name) PROVE Covered'
  BY <1>1, <1>2 DEF CreateWallet
<1>3. ASSUME NEW name \in Names, NEW key \in Keys, CreateWalletFromKey(name, key)
      PROVE  Covered'
  BY <1>1, <1>3 DEF CreateWalletFromKey
<1>4. ASSUME NEW sender \in DOMAIN wallets, NEW receiver \in DOMAIN wallets,
             NEW amount \in Amounts,
             CreateTransaction(sender, AddressOf(receiver), amount)
      PROVE  Covered'
  <2> DEFINE t == Signed(Transfer(sender, Selected(sender, amount),
                                  AddressOf(receiver), amount), wallets[sender])
  <2>1. utxouts' = utxouts /\ pool' = Append(pool, t)
    BY <1>4 DEF CreateTransaction
  <2>2. CoveredBy(t, utxouts)
    BY NewPaysAsTaken DEF CoveredBy
  <2> HIDE DEF t
  <2>3. IsSeq(pool) /\ DOMAIN pool = 1 .. Len(pool) /\ Len(pool) \in Nat
    BY SeqShape DEF Linked, TypeOK, PoolTyped
  <2>4. /\ IsSeq(pool') /\ Len(pool') = Len(pool) + 1
        /\ \A i \in 1 .. Len(pool) : pool'[i] = pool[i]
        /\ pool'[Len(pool) + 1] = t
    BY <2>1, <2>3, AppendShape
  <2>5. DOMAIN pool' = 1 .. Len(pool) + 1
    BY <2>4, SeqShape
  <2>6. ASSUME NEW n \in DOMAIN pool' PROVE CoveredBy(pool'[n], utxouts')
    <3>1. CASE n \in 1 .. Len(pool)
      <4>1. CoveredBy(pool[n], utxouts)
        BY <2>3, <3>1 DEF Covered
      <4> QED BY <2>1, <2>4, <3>1, <4>1
    <3>2. CASE n = Len(pool) + 1
      BY <2>1, <2>2, <2>4, <3>2
    <3> QED BY <2>3, <2>5, <3>1, <3>2
  <2> QED BY <2>6 DEF Covered
<1>5. CASE ValidateTransPool
  BY <1>5, PurgeCovered DEF ValidateTransPool
<1>6. CASE ValidateTransPoolAborts
  BY <1>6, PurgeCovered DEF ValidateTransPoolAborts
<1>7. ASSUME NEW ts \in Timestamps, CommitBlock(ts) PROVE Covered'
  BY <1>7, CommitCovered
<1>8. ASSUME NEW ts \in Timestamps, CommitBlockHangs(ts) PROVE Covered'
  BY <1>1, <1>8 DEF CommitBlockHangs
<1>9. CASE UNCHANGED vars
  BY <1>1, <1>9 DEF vars
<1> QED BY <1>2, <1>3, <1>4, <1>5, <1>6, <1>7, <1>8, <1>9 DEF Next

(* The transactions of a new block are waiting ones, validated against the *)
(* present outputs, and the block's test for duplicates is about all of    *)
(* its inputs.                                                             *)
LEMMA CommitPays ==
  ASSUME Linked, Covered, NEW ts \in Timestamps, CommitBlock(ts)
  PROVE  LET n == Len(blocks) + 1
         IN  /\ DOMAIN blocks' = 1 .. n
             /\ \A k \in 2 .. Len(blocks'[n].data) : PaysAsTaken(blocks'[n].data[k], utxouts)
<1> DEFINE n == Len(blocks) + 1
           b == blocks'[n]
           v == b.data
<1>1. /\ DOMAIN blocks' = 1 .. n
      /\ v = NewTrans /\ DOMAIN v = 1 .. Len(v) /\ Len(v) = Len(pool) + 1
      /\ Len(pool) \in Nat /\ IsSeq(v)
      /\ \A i \in 2 .. Len(v) : v[i] = pool[i - 1]
      /\ BlockValidate(b, utxouts)
  BY CommitShape
<1>2. DOMAIN pool = 1 .. Len(pool)
  BY SeqShape DEF Linked, TypeOK, PoolTyped
<1>3. NoDuplicateKey(v) /\ \A k \in 2 .. Len(v) : Validate(v[k], utxouts)
  BY <1>1 DEF BlockValidate
<1> HIDE DEF v
<1>4. ASSUME NEW k \in 2 .. Len(v) PROVE PaysAsTaken(v[k], utxouts)
  <2>1. v[k] = pool[k - 1] /\ k - 1 \in DOMAIN pool /\ k \in DOMAIN v
    BY <1>1, <1>2
  <2>2. ASSUME NEW i \in DOMAIN v[k].txins, NEW j \in DOMAIN v[k].txins,
               v[k].txins[i].key = v[k].txins[j].key
        PROVE  i = j
    <3>1. << k, i >> \in InputPlaces(v) /\ << k, j >> \in InputPlaces(v)
      BY <2>1, InputPlace
    <3>2. KeyAt(v, << k, i >>) = KeyAt(v, << k, j >>)
      BY <2>2 DEF KeyAt
    <3>3. << k, i >> = << k, j >>
      BY <1>3, <3>1, <3>2 DEF NoDuplicateKey
    <3> QED BY <3>3
  <2>3. DistinctKeys(v[k])
    BY <2>2 DEF DistinctKeys
  <2>4. CoveredBy(v[k], utxouts)
    BY <2>1 DEF Covered
  <2> QED BY <1>3, <2>3, <2>4 DEF CoveredBy
<1> HIDE DEF n, b
<1> QED BY <1>1, <1>4 DEF n, b, v

(* Every transaction but the coinbase of a block that is added pays out    *)
(* what its inputs resolve to, though transaction::validate only logs a    *)
(* difference and the outputs of a transaction share one key: any number   *)
(* of wallets, any length of pool and chain.                               *)
THEOREM InputsAreCovered == ASSUME WholeCoins PROVE Spec => InputsCoverOutputs
<1> DEFINE Pays == \A n \in Len(blocks) + 1 .. Len(blocks') :
                     \A k \in 2 .. Len(blocks'[n].data) :
                       LET t == blocks'[n].data[k]
                           resolved == [i \in DOMAIN t.txins |->
                                          GetTxout(utxouts, t.txins[i].key)]
                       IN  Total(resolved) = Total(t.txouts)
<1>1. ASSUME Linked, Covered, [Next]_vars PROVE Pays
  <2>1. Len(blocks) \in Nat
    BY SeqShape DEF Linked, TypeOK, BlocksTyped
  <2>2. CASE blocks' = blocks
    BY <2>1, <2>2
  <2>3. ASSUME NEW ts \in Timestamps, CommitBlock(ts) PROVE Pays
    <3>1. Len(blocks') = Len(blocks) + 1
      BY <1>1, <2>3, CommitShape
    <3>2. \A n \in Len(blocks) + 1 .. Len(blocks') : n = Len(blocks) + 1
      BY <2>1, <3>1
    <3>3. \A k \in 2 .. Len(blocks'[Len(blocks) + 1].data) :
            PaysAsTaken(blocks'[Len(blocks) + 1].data[k], utxouts)
      BY <1>1, <2>3, CommitPays
    <3> QED BY <3>2, <3>3 DEF PaysAsTaken, Resolved
  <2> HIDE DEF Pays
  <2> QED BY <1>1, <2>2, <2>3
        DEF Next, vars, CreateWallet, CreateWalletFromKey, CreateTransaction,
            ValidateTransPool, ValidateTransPoolAborts, CommitBlockHangs
<1>2. Init => Covered
  <2>1. Init => DOMAIN pool = {}
    BY EmptyShape DEF Init
  <2> QED BY <2>1 DEF Covered
<1>3. Linked /\ Spending /\ Covered /\ [Next]_vars => (Linked /\ Spending /\ Covered)'
  BY LinkedStep, SpendingStep, CoveredStep
<1>4. Linked /\ Covered /\ [Next]_vars => Pays
  BY <1>1
<1> QED BY <1>2, <1>3, <1>4, LinkedInit, SpendingInit, PTL DEF Spec, InputsCoverOutputs

(***************************************************************************)
(* The supply.  Spending is worth what is paid out, block by block.        *)
(***************************************************************************)
TakenBy(t) == { t.txins[j].key : j \in DOMAIN t.txins }

(* The keys of a transaction take away what they resolve to.               *)
LEMMA SpendAll ==
  ASSUME NEW S, \A e \in S : e.amount \in Nat, NEW s \in Seq(S), NEW K,
         NEW t, IsSeq(t.txins), DistinctKeys(t),
         \A j \in DOMAIN t.txins : Has(s, t.txins[j].key) /\ t.txins[j].key \notin K
  PROVE  /\ Total(Resolved(t, s)) \in Int
         /\ Total(Without(s, K \cup TakenBy(t))) + Total(Resolved(t, s)) <= Total(Without(s, K))
<1> DEFINE n == Len(t.txins)
           key(j) == t.txins[j].key
           res == Resolved(t, s)
           First(k) == { key(j) : j \in 1 .. k }
           Rest(k) == Without(s, K \cup First(k))
<1>1. n \in Nat /\ DOMAIN t.txins = 1 .. n
  BY SeqShape
<1>2. IsSeq(res) /\ Len(res) = n /\ \A j \in 1 .. n : res[j] = GetTxout(s, key(j))
  <2>1. DOMAIN res = 1 .. n /\ res = [j \in 1 .. n |-> res[j]]
        /\ \A j \in 1 .. n : res[j] = GetTxout(s, key(j))
    BY <1>1 DEF Resolved
  <2> HIDE DEF res, key, n
  <2> QED BY <1>1, <2>1, SeqOfFunction
<1>3. ASSUME NEW k \in 1 .. n
      PROVE  /\ res[k].amount \in Nat
             /\ Total(Rest(k)) + res[k].amount <= Total(Rest(k - 1))
  <2>1. First(k) = First(k - 1) \cup {key(k)}
    <3>1. 1 .. k = 1 .. k - 1 \cup {k}
      BY <1>1
    <3> HIDE DEF key
    <3> QED BY <3>1
  <2>2. key(k) \notin First(k - 1)
    <3>1. ASSUME NEW j \in 1 .. k - 1, key(j) = key(k) PROVE FALSE
      <4>1. j \in DOMAIN t.txins /\ k \in DOMAIN t.txins /\ j # k
        BY <1>1
      <4> QED BY <3>1, <4>1 DEF DistinctKeys
    <3> QED BY <3>1
  <2>3. Has(s, key(k)) /\ key(k) \notin K
    BY <1>1
  <2>4. PICK L : L = K \cup First(k - 1)
    OBVIOUS
  <2>5. PICK x : x = key(k)
    OBVIOUS
  <2>6. x \notin L /\ Has(s, x) /\ K \cup First(k) = L \cup {x}
    BY <2>1, <2>2, <2>3, <2>4, <2>5
  <2>7. /\ GetTxout(s, x).amount \in Nat
        /\ Total(Without(s, L \cup {x})) + GetTxout(s, x).amount <= Total(Without(s, L))
    BY <2>6, SpendOne
  <2>8. res[k] = GetTxout(s, x)
    BY <1>2, <2>5
  <2> HIDE DEF First, key, res
  <2> QED BY <2>4, <2>6, <2>7, <2>8
<1> HIDE DEF res
<1>4. /\ Totals(res) \in [0 .. n -> Int] /\ Totals(res)[0] = 0
      /\ \A k \in 1 .. n : Totals(res)[k] = Totals(res)[k - 1] + res[k].amount
  <2> HIDE DEF n, key, First, Rest
  <2>1. \A i \in 1 .. n : res[i].amount \in Nat
    BY <1>3
  <2>2. \A i \in 1 .. Len(res) : res[i].amount \in Int
    BY <1>2, <2>1
  <2> QED BY <1>2, <2>2, TotalsShape
<1>5. \A k \in 0 .. n : Total(Rest(k)) \in Nat
  <2>1. \A k : Rest(k) \in Seq(S)
    BY WithoutTyped
  <2> HIDE DEF Rest
  <2> QED BY <2>1, TotalNat
<1>6. Rest(0) = Without(s, K)
  <2>1. First(0) = {}
    OBVIOUS
  <2>2. K \cup First(0) = K
    BY <2>1
  <2> QED BY <2>2
<1>7. Rest(n) = Without(s, K \cup TakenBy(t))
  <2>1. First(n) = TakenBy(t)
    BY <1>1 DEF TakenBy
  <2> QED BY <2>1
<1> HIDE DEF Rest, First, key, n
<1> DEFINE T == { k \in 0 .. n : Total(Rest(k)) + Totals(res)[k] <= Total(Rest(0)) }
<1>8. 0 \in T
  BY <1>1, <1>4, <1>5
<1>9. ASSUME NEW k \in 1 .. n, k - 1 \in T PROVE k \in T
  <2>1. k \in 0 .. n /\ k - 1 \in 0 .. n /\ 0 \in 0 .. n
    BY <1>1
  <2>2. PICK a, b, c, d, x, z :
          /\ a = Total(Rest(k)) /\ b = Total(Rest(k - 1)) /\ c = Totals(res)[k]
          /\ d = Totals(res)[k - 1] /\ x = res[k].amount /\ z = Total(Rest(0))
    OBVIOUS
  <2>3. a \in Nat /\ b \in Nat /\ c \in Int /\ d \in Int /\ x \in Nat /\ z \in Nat
    BY <1>3, <1>4, <1>5, <2>1, <2>2
  <2>4. a + x <= b /\ c = d + x
    BY <1>3, <1>4, <2>2
  <2>5. b + d <= z
    BY <1>9, <2>2
  <2>6. a + c <= z
    BY <2>3, <2>4, <2>5
  <2> QED BY <2>1, <2>2, <2>6
<1>10. n \in T
  <2>1. n \in 0 .. n
    BY <1>1
  <2> HIDE DEF T
  <2>2. \A k \in 0 .. n : k \in T
    BY <1>1, <1>8, <1>9, UpTo
  <2> QED BY <2>1, <2>2
<1>11. Total(res) = Totals(res)[n] /\ Totals(res)[n] \in Int
  <2>1. n \in 0 .. n
    BY <1>1
  <2> QED BY <1>2, <1>4, <2>1 DEF Total
<1>12. Total(Rest(n)) + Totals(res)[n] <= Total(Rest(0))
  BY <1>10
<1> QED BY <1>6, <1>7, <1>11, <1>12 DEF res

(* The keys of the first k transactions of a block.                        *)
TakenTo(v, k) == UNION { TakenBy(v[i]) : i \in 1 .. k }

LEMMA SpentAreTaken ==
  ASSUME NEW v, IsSeq(v)
  PROVE  SpentKeys(v) = TakenTo(v, Len(v))
<1>1. DOMAIN v = 1 .. Len(v)
  BY SeqShape
<1>2. ASSUME NEW key, key \in SpentKeys(v) PROVE key \in TakenTo(v, Len(v))
  <2>1. PICK i \in DOMAIN v : \E j \in DOMAIN v[i].txins : key = v[i].txins[j].key
    BY <1>2, SpentElement
  <2>2. key \in TakenBy(v[i])
    BY <2>1 DEF TakenBy
  <2> QED BY <1>1, <2>2 DEF TakenTo
<1>3. ASSUME NEW key, key \in TakenTo(v, Len(v)) PROVE key \in SpentKeys(v)
  <2>1. PICK i \in 1 .. Len(v) : key \in TakenBy(v[i])
    BY <1>3 DEF TakenTo
  <2>2. PICK j \in DOMAIN v[i].txins : key = v[i].txins[j].key
    BY <2>1 DEF TakenBy
  <2>3. i \in DOMAIN v
    BY <1>1
  <2> QED BY <2>2, <2>3, SpentElement
<1> QED BY <1>2, <1>3

(* A block whose transactions, but for the first, pay out what their keys  *)
(* resolve to, and no key of which occurs twice, adds to the total of the  *)
(* unspent outputs no more than its first transaction pays.                *)
LEMMA BlockTotal ==
  ASSUME NEW S, \A e \in S : e.amount \in Nat, NEW s \in Seq(S),
         NEW v, IsSeq(v), Len(v) > 0, \A i \in 1 .. Len(v) : IsTransaction(v[i]),
         NoDuplicateKey(v),
         \A k \in 2 .. Len(v) :
           /\ PaysAsTaken(v[k], s)
           /\ \A j \in DOMAIN v[k].txins : Has(s, v[k].txins[j].key)
  PROVE  /\ Total(NewUnspent(v)) \in Int
         /\ Total(NewUnspent(v)) + Total(Without(s, SpentKeys(v)))
              <= Total(v[1].txouts) + Total(s)
<1> DEFINE n == Len(v)
           Rest(k) == Without(s, TakenTo(v, k))
<1>1. n \in Nat /\ n > 0 /\ DOMAIN v = 1 .. n
  BY SeqShape
<1>2. PICK h \in [0 .. n -> Int] :
        /\ Total(NewUnspent(v)) = h[n]
        /\ h[0] = 0
        /\ \A k \in 1 .. n : h[k] = h[k - 1] + Total(v[k].txouts)
  BY NewUnspentTotal
<1>3. ASSUME NEW k \in 1 .. n PROVE TakenTo(v, k) = TakenTo(v, k - 1) \cup TakenBy(v[k])
  <2>1. 1 .. k = 1 .. k - 1 \cup {k}
    BY <1>1
  <2> QED BY <2>1 DEF TakenTo
<1>4. ASSUME NEW i \in 1 .. n, NEW j \in DOMAIN v[i].txins,
             NEW k \in 1 .. n, NEW l \in DOMAIN v[k].txins,
             v[i].txins[j].key = v[k].txins[l].key
      PROVE  i = k /\ j = l
  <2>1. << i, j >> \in InputPlaces(v) /\ << k, l >> \in InputPlaces(v)
    BY <1>1, InputPlace
  <2>2. KeyAt(v, << i, j >>) = KeyAt(v, << k, l >>)
    BY <1>4 DEF KeyAt
  <2>3. << i, j >> = << k, l >>
    BY <2>1, <2>2 DEF NoDuplicateKey
  <2> QED BY <2>3
<1> HIDE DEF n
<1>5. ASSUME NEW k \in 2 .. n
      PROVE  /\ Total(v[k].txouts) \in Int
             /\ Total(Rest(k)) + Total(v[k].txouts) <= Total(Rest(k - 1))
  <2>1. k \in 1 .. n
    BY <1>1
  <2>2. PICK t, K : t = v[k] /\ K = TakenTo(v, k - 1)
    OBVIOUS
  <2>3. IsSeq(t.txins) /\ Total(t.txouts) \in Int
    BY <2>1, <2>2, OutputsTotal DEF IsTransaction, n
  <2>4. DistinctKeys(t)
    BY <1>4, <2>1, <2>2 DEF DistinctKeys
  <2>5. ASSUME NEW j \in DOMAIN t.txins PROVE Has(s, t.txins[j].key) /\ t.txins[j].key \notin K
    <3>1. Has(s, t.txins[j].key)
      BY <2>2 DEF n
    <3>2. ASSUME t.txins[j].key \in K PROVE FALSE
      <4>1. PICK i \in 1 .. k - 1 : t.txins[j].key \in TakenBy(v[i])
        BY <2>2, <3>2 DEF TakenTo
      <4>2. PICK l \in DOMAIN v[i].txins : t.txins[j].key = v[i].txins[l].key
        BY <4>1 DEF TakenBy
      <4>3. i \in 1 .. n /\ i # k
        BY <1>1
      <4> QED BY <1>4, <2>1, <2>2, <4>2, <4>3
    <3> QED BY <3>1, <3>2
  <2>6. /\ Total(Resolved(t, s)) \in Int
        /\ Total(Without(s, K \cup TakenBy(t))) + Total(Resolved(t, s)) <= Total(Without(s, K))
    BY <2>3, <2>4, <2>5, SpendAll
  <2>7. Total(Resolved(t, s)) = Total(t.txouts)
    BY <2>2 DEF PaysAsTaken, n
  <2>8. TakenTo(v, k) = K \cup TakenBy(t)
    BY <1>3, <2>1, <2>2
  <2> QED BY <2>2, <2>3, <2>6, <2>7, <2>8
<1>6. \A k \in 0 .. n : Total(Rest(k)) \in Nat
  <2>1. \A k : Rest(k) \in Seq(S)
    BY WithoutTyped
  <2> HIDE DEF Rest
  <2> QED BY <2>1, TotalNat
<1>7. Total(Rest(1)) <= Total(s) /\ Total(s) \in Nat
  BY WithoutTotal, TotalNat
<1>8. Rest(n) = Without(s, SpentKeys(v))
  <2>1. SpentKeys(v) = TakenTo(v, n)
    BY SpentAreTaken DEF n
  <2> QED BY <2>1
<1>9. Total(v[1].txouts) \in Int
  <2>1. 1 \in 1 .. Len(v)
    BY <1>1 DEF n
  <2>2. IsTransaction(v[1])
    BY <2>1
  <2> QED BY <2>2, OutputsTotal
<1> HIDE DEF Rest
<1> DEFINE bound == Total(v[1].txouts) + Total(s)
           T == { k \in 0 .. n : k > 0 => h[k] + Total(Rest(k)) <= bound }
<1>10. bound \in Int
  BY <1>7, <1>9
<1> HIDE DEF bound
<1>11. 0 \in T
  BY <1>1
<1>12. ASSUME NEW k \in 1 .. n, k - 1 \in T PROVE k \in T
  <2>1. k \in 0 .. n /\ k - 1 \in 0 .. n
    BY <1>1
  <2>2. PICK a, b, c, d, x :
          /\ a = Total(Rest(k)) /\ b = Total(Rest(k - 1)) /\ c = h[k]
          /\ d = h[k - 1] /\ x = Total(v[k].txouts)
    OBVIOUS
  <2>3. a \in Nat /\ b \in Nat /\ c \in Int /\ d \in Int /\ c = d + x
    BY <1>2, <1>6, <2>1, <2>2
  <2>4. CASE k = 1
    <3>1. d = 0 /\ x = Total(v[1].txouts) /\ a <= Total(s)
      BY <1>2, <1>7, <2>2, <2>4
    <3>2. c + a <= bound
      BY <1>7, <1>9, <2>3, <3>1 DEF bound
    <3> QED BY <2>1, <2>2, <3>2
  <2>5. CASE k # 1
    <3>1. k \in 2 .. n /\ k - 1 > 0
      BY <1>1, <2>5
    <3>2. x \in Int /\ a + x <= b
      BY <1>5, <2>2, <3>1
    <3>3. d + b <= bound
      BY <1>12, <2>2, <3>1
    <3>4. c + a <= bound
      BY <1>10, <2>3, <3>2, <3>3
    <3> QED BY <2>1, <2>2, <3>4
  <2> QED BY <2>4, <2>5
<1>13. n \in T
  <2>1. n \in 0 .. n
    BY <1>1
  <2> HIDE DEF T
  <2>2. \A k \in 0 .. n : k \in T
    BY <1>1, <1>11, <1>12, UpTo
  <2> QED BY <2>1, <2>2
<1>14. h[n] \in Int /\ h[n] + Total(Rest(n)) <= bound
  BY <1>1, <1>2, <1>13
<1> QED BY <1>2, <1>8, <1>14 DEF bound

LEMMA ProductGrows ==
  ASSUME NEW s \in Nat, NEW a \in Nat, NEW b \in Nat, a <= b
  PROVE  s * a \in Nat /\ s * b \in Nat /\ s * a <= s * b
<1>1. PICK d \in Nat : b = a + d
  <2>1. b - a \in Nat /\ b = a + (b - a)
    OBVIOUS
  <2> QED BY <2>1
<1>2. s * (a + d) = s * a + s * d
  OBVIOUS
<1>3. s * a \in Nat /\ s * d \in Nat
  OBVIOUS
<1>4. s * b = s * a + s * d
  BY <1>1, <1>2
<1> QED BY <1>3, <1>4

(* coin's `>` compares whole coins in 32 bits: it is an order between a    *)
(* multiple of a coin that int32 counts and any amount.                    *)
LEMMA EnoughSelected ==
  ASSUME NEW amount \in Int, amount >= SATOSHI_PER_COIN, amount % SATOSHI_PER_COIN = 0,
         2 * (amount \div SATOSHI_PER_COIN) < INT32_MOD,
         NEW total \in Nat, ~ Greater(amount, total)
  PROVE  amount <= total
<1> DEFINE S == SATOSHI_PER_COIN
           M == INT32_MOD
<1>1. S \in Nat /\ S > 0 /\ M \in Nat /\ M > 0 /\ 2 * (amount \div S) < M
  BY SatoshiAssumption, Int32Assumption
<1>2. amount >= S /\ amount % S = 0 /\ ~ (Get(amount) > Get(total))
  BY DEF Greater
<1>3. Quotient(amount) = amount \div S /\ Quotient(total) = total \div S
  BY <1>1, <1>2 DEF Quotient
<1> HIDE DEF S
<1>4. PICK k, q : k = amount \div S /\ q = total \div S
  OBVIOUS
<1>5. k \in Nat /\ q \in Nat /\ amount = S * k /\ S * q <= total
  <2>1. k \in Int /\ q \in Int
    BY <1>1, <1>4
  <2>2. amount = S * k + (amount % S)
    BY <1>1, <1>4
  <2>3. total = S * q + (total % S) /\ total % S \in 0 .. S - 1
    BY <1>1, <1>4
  <2>4. k >= 0 /\ q >= 0
    BY <1>1, <1>2, <1>4
  <2>5. S * k \in Int /\ S * q \in Int
    BY <1>1, <2>1
  <2>6. amount = S * k
    BY <1>2, <2>2, <2>5
  <2>7. S * q <= total
    BY <1>1, <2>3, <2>5
  <2> QED BY <2>1, <2>4, <2>6, <2>7
<1> HIDE DEF M
<1>6. Int32(k) = k
  <2>1. 2 * k < M
    BY <1>1, <1>4
  <2>2. k % M = k
    BY <1>1, <1>5, <2>1
  <2> QED BY <2>1, <2>2 DEF Int32, M
<1>7. Int32(q) \in Int /\ Int32(q) <= q
  <2>1. PICK r : r = q % M
    OBVIOUS
  <2>2. r \in Nat /\ r <= q
    BY <1>1, <1>5, <2>1
  <2>3. Int32(q) = IF 2 * r < M THEN r ELSE r - M
    BY <2>1 DEF Int32, M
  <2> QED BY <1>1, <1>5, <2>2, <2>3
<1>8. k <= q
  <2>1. ~ (Int32(k) > Int32(q))
    BY <1>2, <1>3, <1>4 DEF Get, S
  <2> QED BY <1>5, <1>6, <1>7, <2>1
<1>9. S * k \in Nat /\ S * q \in Nat /\ S * k <= S * q
  BY <1>1, <1>5, <1>8, ProductGrows
<1> QED BY <1>5, <1>9

(* No caller transfers a fraction of a coin.                               *)
WholeMultiples == \A amount \in Amounts : amount % SATOSHI_PER_COIN = 0

PaysNat(t) == \A j \in DOMAIN t.txouts : t.txouts[j].amount \in Nat

(* The change of a new transaction is not negative.                        *)
LEMMA NewPaysNat ==
  ASSUME WholeCoins, WholeMultiples, Linked,
         \A i \in DOMAIN utxouts : utxouts[i].amount >= 0,
         NEW sender \in DOMAIN wallets, NEW receiver, NEW amount \in Amounts, NEW key,
         ~ Greater(amount, Total(Selected(sender, amount)))
  PROVE  PaysNat(Signed(Transfer(sender, Selected(sender, amount), receiver, amount), key))
<1> DEFINE use == Selected(sender, amount)
           t == Signed(Transfer(sender, use, receiver, amount), key)
<1>1. IsSeq(utxouts) /\ DOMAIN utxouts = 1 .. Len(utxouts)
  BY SeqShape DEF Linked, TypeOK, UtxosTyped
<1>2. \A i \in 1 .. Len(utxouts) : utxouts[i].amount \in Nat
  BY <1>1 DEF Linked, TypeOK, UtxosTyped
<1>3. IsSeq(use) /\ \A i \in 1 .. Len(use) : \E j \in 1 .. Len(utxouts) : use[i] = utxouts[j]
  <2>1. \A i \in 1 .. Len(utxouts) : utxouts[i].amount \in Int
    BY <1>2
  <2> QED BY <1>1, <2>1, SelectedShape
<1>4. ~ Greater(amount, Total(use))
  OBVIOUS
<1> HIDE DEF use
<1>5. PICK total : total = Total(use)
  OBVIOUS
<1>6. total \in Nat
  <2>1. use \in Seq(Range(use)) /\ DOMAIN use = 1 .. Len(use)
    BY <1>3, SeqShape DEF IsSeq
  <2>2. \A e \in Range(use) : e.amount \in Nat
    BY <1>2, <1>3, <2>1 DEF Range
  <2> QED BY <1>5, <2>1, <2>2, TotalNat
<1>7. /\ amount \in Int /\ amount >= SATOSHI_PER_COIN /\ amount % SATOSHI_PER_COIN = 0
      /\ 2 * (amount \div SATOSHI_PER_COIN) < INT32_MOD
  BY NodeAssumption DEF WholeCoins, WholeMultiples
<1>8. amount <= total
  BY <1>4, <1>5, <1>6, <1>7, EnoughSelected
<1>9. amount \in Nat
  BY <1>7, SatoshiAssumption
<1>10. /\ IsSeq(t.txouts) /\ Len(t.txouts) = 2
       /\ t.txouts[1].amount = amount /\ t.txouts[2].amount = total - amount
  BY <1>5, <1>6, <1>9, TransferOutputs
<1> HIDE DEF t
<1>11. DOMAIN t.txouts = 1 .. 2
  BY <1>10, SeqShape
<1>12. total - amount \in Nat
  BY <1>6, <1>8, <1>9
<1>13. ASSUME NEW j \in DOMAIN t.txouts PROVE t.txouts[j].amount \in Nat
  <2>1. j = 1 \/ j = 2
    BY <1>11
  <2> QED BY <1>9, <1>10, <1>12, <2>1
<1> QED BY <1>13 DEF PaysNat, t, use

(* The outputs of a transaction without negative outputs are not negative. *)
LEMMA CreatedNat ==
  ASSUME NEW v, IsSeq(v), \A i \in 1 .. Len(v) : IsTransaction(v[i]) /\ PaysNat(v[i])
  PROVE  IsSeq(NewUnspent(v))
         /\ \A k \in 1 .. Len(NewUnspent(v)) : NewUnspent(v)[k].amount \in Nat
<1> DEFINE new == NewUnspent(v)
<1>1. IsSeq(new)
  BY NewUnspentShape
<1>2. \A k \in 1 .. Len(new) : new[k].amount \in Nat
  <2>1. TAKE k \in 1 .. Len(new)
  <2>2. PICK n \in 1 .. Len(v) : \E m \in 1 .. Len(v[n].txouts) :
          new[k] = [key     |-> TxoutKey(v[n].id, n - 1),
                    address |-> v[n].txouts[m].address,
                    amount  |-> v[n].txouts[m].amount]
    BY NewUnspentShape
  <2>3. PICK m \in 1 .. Len(v[n].txouts) :
          new[k] = [key     |-> TxoutKey(v[n].id, n - 1),
                    address |-> v[n].txouts[m].address,
                    amount  |-> v[n].txouts[m].amount]
    BY <2>2
  <2>4. IsTransaction(v[n]) /\ PaysNat(v[n])
    OBVIOUS
  <2>5. v[n].txouts[m].amount \in Nat
    BY <2>4, SeqShape DEF IsTransaction, PaysNat
  <2> HIDE DEF new
  <2> QED BY <2>3, <2>5
<1> QED BY <1>1, <1>2

(* What a valid block, whose transactions pay out what they take, leaves.  *)
LEMMA BlockFunds ==
  ASSUME NEW s, IsSeq(s), \A i \in 1 .. Len(s) : s[i].amount \in Nat,
         NEW b, BlockValidate(b, s), NEW v, v = b.data,
         IsSeq(v), \A i \in 1 .. Len(v) : IsTransaction(v[i]),
         \A k \in 2 .. Len(v) : PaysAsTaken(v[k], s) /\ PaysNat(v[k])
  PROVE  LET u == UpdateUnspentTxout(v, s)
         IN  /\ IsSeq(u) /\ \A i \in 1 .. Len(u) : u[i].amount \in Nat
             /\ Total(u) \in Nat /\ Total(s) \in Nat
             /\ Total(u) <= GetCoinbase + Total(s)
<1> DEFINE new == NewUnspent(v)
           old == Without(s, SpentKeys(v))
           W == { e \in Range(s) \cup Range(new) : e.amount \in Nat }
<1>1. Len(v) \in Nat /\ Len(v) > 0
  BY SeqShape DEF BlockValidate
<1>2. /\ NoDuplicateKey(v) /\ ValidateCoinbase(v[1], b.index)
      /\ \A k \in 2 .. Len(v) : Validate(v[k], s)
  BY DEF BlockValidate
<1>3. \A k \in 2 .. Len(v) : \A j \in DOMAIN v[k].txins : Has(s, v[k].txins[j].key)
  BY <1>2 DEF Validate, TxinValidate
<1>4. GetCoinbase \in Nat
  BY CoinbaseAssumption, SatoshiAssumption DEF GetCoinbase
<1>5. 1 \in 1 .. Len(v)
  BY <1>1
<1>6. /\ IsSeq(v[1].txouts) /\ Len(v[1].txouts) = 1 /\ v[1].txouts[1].amount = GetCoinbase
      /\ DOMAIN v[1].txouts = 1 .. 1
  <2>1. IsTransaction(v[1])
    BY <1>5
  <2>2. IsSeq(v[1].txouts)
    BY <2>1 DEF IsTransaction
  <2> QED BY <1>2, <2>2, SeqShape DEF ValidateCoinbase
<1>7. PaysNat(v[1])
  BY <1>4, <1>6 DEF PaysNat
<1>8. Total(v[1].txouts) = GetCoinbase
  <2>1. PICK o, c : o = v[1].txouts /\ c = GetCoinbase
    OBVIOUS
  <2>2. IsSeq(o) /\ Len(o) = 1 /\ o[1].amount = c /\ c \in Nat
    BY <1>4, <1>6, <2>1
  <2>3. \A i \in 1 .. Len(o) : o[i].amount \in Int
    BY <2>2
  <2>4. /\ Totals(o)[0] = 0
        /\ \A k \in 1 .. Len(o) : Totals(o)[k] = Totals(o)[k - 1] + o[k].amount
    BY <2>2, <2>3, TotalsShape
  <2>5. 1 \in 1 .. Len(o) /\ 1 - 1 = 0
    BY <2>2
  <2>6. Totals(o)[1] = Totals(o)[1 - 1] + o[1].amount
    BY <2>4, <2>5
  <2>7. Totals(o)[1] = c
    BY <2>2, <2>4, <2>5, <2>6
  <2> QED BY <2>1, <2>2, <2>7 DEF Total
<1>9. IsSeq(new) /\ \A k \in 1 .. Len(new) : new[k].amount \in Nat
  <2>1. ASSUME NEW i \in 1 .. Len(v) PROVE IsTransaction(v[i]) /\ PaysNat(v[i])
    <3>1. CASE i = 1
      BY <1>7, <3>1
    <3>2. CASE i # 1
      <4>1. i \in 2 .. Len(v)
        BY <1>1, <3>2
      <4> QED BY <4>1
    <3> QED BY <3>1, <3>2
  <2> QED BY <2>1, CreatedNat
<1>10. s \in Seq(Range(s)) /\ DOMAIN s = 1 .. Len(s) /\ \A e \in Range(s) : e.amount \in Nat
  <2>1. s \in Seq(Range(s)) /\ DOMAIN s = 1 .. Len(s)
    BY SeqShape DEF IsSeq
  <2> QED BY <2>1 DEF Range
<1>11. /\ Total(new) \in Int
       /\ Total(new) + Total(old) <= Total(v[1].txouts) + Total(s)
  <2>1. PICK R : R = Range(s)
    OBVIOUS
  <2>2. s \in Seq(R) /\ \A e \in R : e.amount \in Nat
    BY <1>10, <2>1
  <2>3. \A k \in 2 .. Len(v) : /\ PaysAsTaken(v[k], s)
                               /\ \A j \in DOMAIN v[k].txins : Has(s, v[k].txins[j].key)
    BY <1>3
  <2> QED BY <1>1, <1>2, <2>2, <2>3, BlockTotal
<1>12. UpdateUnspentTxout(v, s) = new \o old
  BY UpdateIsWithout
<1>13. new \in Seq(Range(new)) /\ \A e \in Range(new) : e.amount \in Nat
  <2> HIDE DEF new
  <2>1. new \in Seq(Range(new)) /\ DOMAIN new = 1 .. Len(new)
    BY <1>9, SeqShape DEF IsSeq
  <2> QED BY <1>9, <2>1 DEF Range
<1>14. old \in Seq(Range(s))
  <2>1. PICK R : R = Range(s)
    OBVIOUS
  <2>2. s \in Seq(R)
    BY <1>10, <2>1
  <2> QED BY <2>1, <2>2, WithoutTyped
<1> HIDE DEF new, old
<1>15. /\ Range(s) \subseteq W /\ Range(new) \subseteq W
       /\ \A e \in W : e.amount \in Nat /\ e.amount \in Int
  BY <1>10, <1>13
<1> HIDE DEF W
<1>16. s \in Seq(W) /\ new \in Seq(W) /\ old \in Seq(W)
  BY <1>10, <1>13, <1>14, <1>15, SeqMonotonic
<1>17. new \o old \in Seq(W)
  BY <1>16, ConcatProperties
<1>18. Total(new \o old) = Total(new) + Total(old)
  BY <1>15, <1>16, TotalConcat
<1>19. PICK u : u = new \o old
  OBVIOUS
<1>20. /\ IsSeq(u) /\ \A i \in 1 .. Len(u) : u[i].amount \in Nat
       /\ Total(u) \in Nat /\ Total(s) \in Nat
  <2>1. u \in Seq(W) /\ \A e \in W : e.amount \in Nat
    BY <1>15, <1>17, <1>19
  <2>2. \A i \in 1 .. Len(u) : u[i] \in W
    BY <2>1, ElementOfSeq
  <2> QED BY <1>16, <2>1, <2>2, IsSeqOf, TotalNat
<1>21. Total(u) <= GetCoinbase + Total(s)
  BY <1>8, <1>11, <1>18, <1>19
<1> QED BY <1>12, <1>19, <1>20, <1>21

(***************************************************************************)
(* Funded: the bound on the supply, with the waiting transactions' outputs *)
(* that will become unspent outputs.                                       *)
(***************************************************************************)
Funded == SupplyBounded /\ \A n \in DOMAIN pool : PaysNat(pool[n])

(* The unspent outputs a valid block leaves are bounded as it says.        *)
LEMMA BoundedMeans ==
  ASSUME NEW u, NEW n \in Nat, IsSeq(u), \A i \in 1 .. Len(u) : u[i].amount \in Nat,
         Total(u) <= GetCoinbase * n
  PROVE  (\A i \in DOMAIN u : u[i].amount >= 0) /\ Total(u) <= GetCoinbase * n
<1>1. DOMAIN u = 1 .. Len(u)
  BY SeqShape
<1>2. \A i \in DOMAIN u : u[i].amount >= 0
  BY <1>1
<1> QED BY <1>2

LEMMA FundedInit == Init => Funded
<1> SUFFICES ASSUME Init PROVE Funded
  OBVIOUS
<1>1. PICK ts \in Timestamps : ChainInit(ts)
  BY DEF Init
<1>2. /\ IsSeq(blocks) /\ Len(blocks) = 1
      /\ IsSeq(blocks[1].data) /\ Len(blocks[1].data) = 1 /\ IsTransaction(blocks[1].data[1])
  BY <1>1, GenesisShape
<1>3. utxouts # << >>
  BY <1>1, GenesisUnspent
<1>4. blocks[1] = GenesisBlock(ts)
  BY <1>1 DEF ChainInit
<1>5. PICK b, v, s : b = blocks[1] /\ v = b.data /\ s = << >>
  OBVIOUS
<1>6. BlockValidate(b, s) /\ utxouts = UpdateUnspentTxout(v, s)
  BY <1>1, <1>3, <1>4, <1>5, Zenon DEF ChainInit
<1>7. IsSeq(s) /\ Len(s) = 0 /\ Total(s) = 0
  BY <1>5, EmptyShape, TotalEmpty
<1>8. IsSeq(v) /\ Len(v) = 1 /\ \A i \in 1 .. Len(v) : IsTransaction(v[i])
  BY <1>2, <1>5
<1>9. \A i \in 1 .. Len(s) : s[i].amount \in Nat
  BY <1>7
<1>10. \A k \in 2 .. Len(v) : PaysAsTaken(v[k], s) /\ PaysNat(v[k])
  BY <1>8
<1>11. LET u == UpdateUnspentTxout(v, s)
       IN  /\ IsSeq(u) /\ \A i \in 1 .. Len(u) : u[i].amount \in Nat
           /\ Total(u) \in Nat /\ Total(s) \in Nat
           /\ Total(u) <= GetCoinbase + Total(s)
  BY <1>5, <1>6, <1>7, <1>8, <1>9, <1>10, BlockFunds
<1>12. GetCoinbase \in Nat
  BY CoinbaseAssumption, SatoshiAssumption DEF GetCoinbase
<1>13. /\ IsSeq(utxouts) /\ \A i \in 1 .. Len(utxouts) : utxouts[i].amount \in Nat
       /\ Total(utxouts) \in Nat /\ Total(utxouts) <= GetCoinbase + 0
  BY <1>6, <1>7, <1>11
<1>14. GetCoinbase * Len(blocks) = GetCoinbase
  BY <1>2, <1>12
<1>15. Total(utxouts) <= GetCoinbase * Len(blocks)
  BY <1>12, <1>13, <1>14
<1>16. SupplyBounded
  BY <1>2, <1>13, <1>15, BoundedMeans DEF SupplyBounded
<1>17. DOMAIN pool = {}
  BY EmptyShape DEF Init
<1> QED BY <1>16, <1>17 DEF Funded

LEMMA PurgeFunded ==
  ASSUME Linked, Funded, NEW I, pool' = Subsequence(pool, I),
         utxouts' = utxouts, blocks' = blocks
  PROVE  Funded'
<1>1. IsSeq(pool) /\ DOMAIN pool = 1 .. Len(pool)
  BY SeqShape DEF Linked, TypeOK, PoolTyped
<1>2. IsSeq(pool') /\ \A j \in 1 .. Len(pool') : \E i \in 1 .. Len(pool) : pool'[j] = pool[i]
  <2>1. IsSeq(pool')
        /\ \A j \in 1 .. Len(pool') : \E i \in 1 .. Len(pool) : i \in I /\ pool'[j] = pool[i]
    BY <1>1, SubsequenceTakes
  <2> QED BY <2>1
<1>3. DOMAIN pool' = 1 .. Len(pool')
  BY <1>2, SeqShape
<1>4. ASSUME NEW j \in DOMAIN pool' PROVE PaysNat(pool'[j])
  <2>1. PICK i \in DOMAIN pool : pool'[j] = pool[i]
    BY <1>1, <1>2, <1>3
  <2>2. PaysNat(pool[i])
    BY DEF Funded
  <2> QED BY <2>1, <2>2
<1>5. SupplyBounded'
  BY DEF Funded, SupplyBounded
<1> QED BY <1>4, <1>5 DEF Funded

LEMMA CommitFunded ==
  ASSUME Linked, Covered, Funded, NEW ts \in Timestamps, CommitBlock(ts)
  PROVE  Funded'
<1> DEFINE n == Len(blocks)
<1>1. /\ Len(blocks') = n + 1 /\ n \in Nat
      /\ pool' = pool /\ utxouts' = UpdateUnspentTxout(NewTrans, utxouts)
      /\ blocks'[n + 1].data = NewTrans /\ BlockValidate(blocks'[n + 1], utxouts)
      /\ IsSeq(NewTrans) /\ Len(NewTrans) = Len(pool) + 1 /\ Len(pool) \in Nat
      /\ \A i \in 1 .. Len(NewTrans) : IsTransaction(NewTrans[i])
      /\ \A i \in 2 .. Len(NewTrans) : NewTrans[i] = pool[i - 1]
  BY CommitShape
<1>2. \A k \in 2 .. Len(blocks'[n + 1].data) : PaysAsTaken(blocks'[n + 1].data[k], utxouts)
  BY CommitPays
<1>3. PICK b, v, s : b = blocks'[n + 1] /\ v = NewTrans /\ s = utxouts
  OBVIOUS
<1>4. IsSeq(s) /\ \A i \in 1 .. Len(s) : s[i].amount \in Nat
  <2>1. IsSeq(utxouts) /\ DOMAIN utxouts = 1 .. Len(utxouts)
    BY SeqShape DEF Linked, TypeOK, UtxosTyped
  <2>2. \A i \in 1 .. Len(utxouts) : utxouts[i].amount \in Int /\ utxouts[i].amount >= 0
    BY <2>1 DEF Linked, TypeOK, UtxosTyped, Funded, SupplyBounded
  <2> QED BY <1>3, <2>1, <2>2
<1>5. \A k \in 2 .. Len(v) : PaysAsTaken(v[k], s) /\ PaysNat(v[k])
  <2>1. DOMAIN pool = 1 .. Len(pool)
    BY SeqShape DEF Linked, TypeOK, PoolTyped
  <2>2. ASSUME NEW k \in 2 .. Len(v) PROVE PaysNat(v[k])
    <3>1. v[k] = pool[k - 1] /\ k - 1 \in DOMAIN pool
      BY <1>1, <1>3, <2>1
    <3> QED BY <3>1 DEF Funded
  <2> QED BY <1>1, <1>2, <1>3, <2>2
<1>6. /\ BlockValidate(b, s) /\ v = b.data /\ IsSeq(v)
      /\ \A i \in 1 .. Len(v) : IsTransaction(v[i])
  BY <1>1, <1>3
<1>7. LET u == UpdateUnspentTxout(v, s)
      IN  /\ IsSeq(u) /\ \A i \in 1 .. Len(u) : u[i].amount \in Nat
          /\ Total(u) \in Nat /\ Total(s) \in Nat
          /\ Total(u) <= GetCoinbase + Total(s)
  BY <1>4, <1>5, <1>6, BlockFunds
<1>8. PICK u : u = utxouts'
  OBVIOUS
<1>9. /\ IsSeq(u) /\ \A i \in 1 .. Len(u) : u[i].amount \in Nat
      /\ Total(u) \in Nat /\ Total(s) \in Nat /\ Total(u) <= GetCoinbase + Total(s)
  BY <1>1, <1>3, <1>7, <1>8
<1>10. Total(s) <= GetCoinbase * n
  BY <1>3 DEF Funded, SupplyBounded
<1>11. PICK c : c = GetCoinbase
  OBVIOUS
<1>12. c \in Nat
  BY <1>11, CoinbaseAssumption, SatoshiAssumption DEF GetCoinbase
<1> HIDE DEF n
<1>13. Total(u) <= c * (n + 1)
  <2>1. c * (n + 1) = c * n + c /\ c * n \in Nat
    BY <1>1, <1>12
  <2> QED BY <1>9, <1>10, <1>11, <1>12, <2>1
<1>14. (\A i \in DOMAIN u : u[i].amount >= 0) /\ Total(u) <= c * (n + 1)
  <2>1. n + 1 \in Nat
    BY <1>1
  <2> QED BY <1>9, <1>11, <1>13, <2>1, BoundedMeans
<1>15. SupplyBounded'
  <2>1. Total(utxouts)' = Total(u) /\ GetCoinbase' = c /\ Len(blocks') = n + 1
    BY <1>1, <1>8, <1>11 DEF Total, Totals, GetCoinbase
  <2> QED BY <1>8, <1>14, <2>1 DEF SupplyBounded
<1>16. \A i \in DOMAIN pool' : PaysNat(pool'[i])
  BY <1>1 DEF Funded
<1> QED BY <1>15, <1>16 DEF Funded

LEMMA FundedStep ==
  ASSUME WholeCoins, WholeMultiples
  PROVE  Linked /\ Covered /\ Funded /\ [Next]_vars => Funded'
<1> SUFFICES ASSUME Linked, Covered, Funded, [Next]_vars PROVE Funded'
  OBVIOUS
<1>1. ASSUME utxouts' = utxouts, pool' = pool, blocks' = blocks PROVE Funded'
  BY <1>1 DEF Funded, SupplyBounded
<1>2. ASSUME NEW name \in Names, CreateWallet(name) PROVE Funded'
  BY <1>1, <1>2 DEF CreateWallet
<1>3. ASSUME NEW name \in Names, NEW key \in Keys, CreateWalletFromKey(name, key)
      PROVE  Funded'
  BY <1>1, <1>3 DEF CreateWalletFromKey
<1>4. ASSUME NEW sender \in DOMAIN wallets, NEW receiver \in DOMAIN wallets,
             NEW amount \in Amounts,
             CreateTransaction(sender, AddressOf(receiver), amount)
      PROVE  Funded'
  <2> DEFINE t == Signed(Transfer(sender, Selected(sender, amount),
                                  AddressOf(receiver), amount), wallets[sender])
  <2>1. /\ utxouts' = utxouts /\ blocks' = blocks /\ pool' = Append(pool, t)
        /\ ~ Greater(amount, Total(Selected(sender, amount)))
    BY <1>4 DEF CreateTransaction
  <2>2. PaysNat(t)
    <3>1. \A i \in DOMAIN utxouts : utxouts[i].amount >= 0
      BY DEF Funded, SupplyBounded
    <3> QED BY <2>1, <3>1, NewPaysNat
  <2> HIDE DEF t
  <2>3. IsSeq(pool) /\ DOMAIN pool = 1 .. Len(pool) /\ Len(pool) \in Nat
    BY SeqShape DEF Linked, TypeOK, PoolTyped
  <2>4. /\ IsSeq(pool') /\ Len(pool') = Len(pool) + 1
        /\ \A i \in 1 .. Len(pool) : pool'[i] = pool[i]
        /\ pool'[Len(pool) + 1] = t
    BY <2>1, <2>3, AppendShape
  <2>5. DOMAIN pool' = 1 .. Len(pool) + 1
    BY <2>4, SeqShape
  <2>6. ASSUME NEW n \in DOMAIN pool' PROVE PaysNat(pool'[n])
    <3>1. CASE n \in 1 .. Len(pool)
      <4>1. PaysNat(pool[n])
        BY <2>3, <3>1 DEF Funded
      <4> QED BY <2>4, <3>1, <4>1
    <3>2. CASE n = Len(pool) + 1
      BY <2>2, <2>4, <3>2
    <3> QED BY <2>3, <2>5, <3>1, <3>2
  <2>7. SupplyBounded'
    BY <2>1 DEF Funded, SupplyBounded
  <2> QED BY <2>6, <2>7 DEF Funded
<1>5. CASE ValidateTransPool
  BY <1>5, PurgeFunded DEF ValidateTransPool
<1>6. CASE ValidateTransPoolAborts
  BY <1>6, PurgeFunded DEF ValidateTransPoolAborts
<1>7. ASSUME NEW ts \in Timestamps, CommitBlock(ts) PROVE Funded'
  BY <1>7, CommitFunded
<1>8. ASSUME NEW ts \in Timestamps, CommitBlockHangs(ts) PROVE Funded'
  BY <1>1, <1>8 DEF CommitBlockHangs
<1>9. CASE UNCHANGED vars
  BY <1>1, <1>9 DEF vars
<1> QED BY <1>2, <1>3, <1>4, <1>5, <1>6, <1>7, <1>8, <1>9 DEF Next

(* No unspent output is negative and together they are worth no more than  *)
(* the coinbases of the chain, when callers transfer whole coins: then     *)
(* what coin's `>` compares is what is subtracted, and each block spends   *)
(* at least what its transactions create.  Any number of wallets, any      *)
(* length of pool and chain.                                               *)
THEOREM SupplyIsBounded ==
  ASSUME WholeCoins, WholeMultiples
  PROVE  Spec => []SupplyBounded
<1>1. Init => Covered
  <2>1. Init => DOMAIN pool = {}
    BY EmptyShape DEF Init
  <2> QED BY <2>1 DEF Covered
<1>2. Linked /\ Spending /\ Covered /\ Funded /\ [Next]_vars
        => (Linked /\ Spending /\ Covered /\ Funded)'
  BY LinkedStep, SpendingStep, CoveredStep, FundedStep
<1>3. Funded => SupplyBounded
  BY DEF Funded
<1> QED BY <1>1, <1>2, <1>3, LinkedInit, SpendingInit, FundedInit, PTL DEF Spec

(***************************************************************************)
(* The purge.                                                              *)
(***************************************************************************)
(* The places of a vector whose elements are in Z, and the others.         *)
PlacesIn(q, Z)  == { i \in DOMAIN q : q[i] \in Z }
PlacesOut(q, Z) == { i \in DOMAIN q : q[i] \notin Z }

LEMMA AppendedPlaces ==
  ASSUME NEW q, IsSeq(q), NEW x, NEW Z
  PROVE  /\ IsFiniteSet(PlacesIn(q, Z)) /\ Cardinality(PlacesIn(q, Z)) \in Nat
         /\ Cardinality(PlacesIn(Append(q, x), Z))
              = Cardinality(PlacesIn(q, Z)) + (IF x \in Z THEN 1 ELSE 0)
         /\ Subsequence(Append(q, x), PlacesOut(Append(q, x), Z))
              = IF x \in Z THEN Subsequence(q, PlacesOut(q, Z))
                ELSE Append(Subsequence(q, PlacesOut(q, Z)), x)
<1> DEFINE n == Len(q)
           r == Append(q, x)
<1>1. /\ IsSeq(r) /\ Len(r) = n + 1 /\ n \in Nat
      /\ DOMAIN q = 1 .. n /\ DOMAIN r = 1 .. n + 1
      /\ (\A i \in 1 .. n : r[i] = q[i]) /\ r[n + 1] = x
  <2>1. IsSeq(r) /\ Len(r) = n + 1 /\ (\A i \in 1 .. n : r[i] = q[i]) /\ r[n + 1] = x
    BY AppendShape
  <2> HIDE DEF r
  <2>2. n \in Nat /\ DOMAIN q = 1 .. n /\ DOMAIN r = 1 .. Len(r)
    BY <2>1, SeqShape
  <2> QED BY <2>1, <2>2
<1> HIDE DEF r, n
<1>2. \A i : i \in 1 .. n + 1 <=> i \in 1 .. n \/ i = n + 1
  BY <1>1
<1>3. n + 1 \notin 1 .. n
  BY <1>1
<1>4. PlacesIn(r, Z) = IF x \in Z THEN PlacesIn(q, Z) \cup {n + 1} ELSE PlacesIn(q, Z)
  BY <1>1, <1>2, <1>3 DEF PlacesIn
<1>5. n + 1 \notin PlacesIn(q, Z)
  BY <1>1, <1>3 DEF PlacesIn
<1>6. IsFiniteSet(PlacesIn(q, Z))
  <2>1. IsFiniteSet(1 .. n)
    BY <1>1, FS_Interval
  <2>2. PlacesIn(q, Z) \in SUBSET (1 .. n)
    BY <1>1 DEF PlacesIn
  <2> QED BY <2>1, <2>2, FS_Subset
<1>7. Cardinality(PlacesIn(q, Z)) \in Nat
  BY <1>6, FS_CardinalityType
<1>8. Cardinality(PlacesIn(q, Z) \cup {n + 1}) = Cardinality(PlacesIn(q, Z)) + 1
  BY <1>5, <1>6, FS_AddElement
<1>9. Cardinality(PlacesIn(r, Z)) = Cardinality(PlacesIn(q, Z)) + (IF x \in Z THEN 1 ELSE 0)
  BY <1>4, <1>7, <1>8
<1>10. Subsequence(r, PlacesOut(r, Z))
         = IF x \in Z THEN Subsequence(q, PlacesOut(q, Z))
           ELSE Append(Subsequence(q, PlacesOut(q, Z)), x)
  <2>1. PICK I, J : I = PlacesOut(q, Z) /\ J = PlacesOut(r, Z)
    OBVIOUS
  <2>2. \A i \in 1 .. Len(q) : i \in I <=> i \in J
    BY <1>1, <1>2, <2>1 DEF PlacesOut, n
  <2>3. Len(q) + 1 \in J <=> x \notin Z
    BY <1>1, <1>2, <2>1 DEF PlacesOut, n
  <2>4. Subsequence(Append(q, x), J)
          = IF Len(q) + 1 \in J THEN Append(Subsequence(q, I), x) ELSE Subsequence(q, I)
    BY <2>2, SubsequenceAppend
  <2> QED BY <2>1, <2>3, <2>4 DEF r
<1> QED BY <1>6, <1>7, <1>9, <1>10 DEF r

(* Erasing an element of Z unless the one before it was erased: the others *)
(* stay, and of Z at most half.                                            *)
LEMMA AtMostHalf ==
  ASSUME NEW s, IsSeq(s), NEW Z, NEW K, NEW erased \in [0 .. Len(s) -> BOOLEAN],
         erased[0] = FALSE,
         \A k \in 1 .. Len(s) : erased[k] <=> s[k] \in Z /\ ~ erased[k - 1],
         \A k \in 1 .. Len(s) : k \in K <=> ~ erased[k]
  PROVE  /\ Subsequence(Subsequence(s, K), PlacesOut(Subsequence(s, K), Z))
              = Subsequence(s, PlacesOut(s, Z))
         /\ 2 * Cardinality(PlacesIn(Subsequence(s, K), Z)) <= Cardinality(PlacesIn(s, Z))
<1> DEFINE n == Len(s)
           left(p) == Subsequence(p, K)
           debt(k) == IF erased[k] THEN 1 ELSE 0
           Half(p, k) ==
             /\ Subsequence(left(p), PlacesOut(left(p), Z)) = Subsequence(p, PlacesOut(p, Z))
             /\ Cardinality(PlacesIn(left(p), Z)) \in Nat /\ Cardinality(PlacesIn(p, Z)) \in Nat
             /\ 2 * Cardinality(PlacesIn(left(p), Z)) + debt(k) <= Cardinality(PlacesIn(p, Z))
           T == { k \in 0 .. n : Half(SubSeq(s, 1, k), k) }
<1>1. n \in Nat
  BY SeqShape
<1>2. 0 \in T
  <2>1. PICK e : e = SubSeq(s, 1, 0)
    OBVIOUS
  <2>2. 0 \in 0 .. Len(s)
    BY <1>1
  <2>3. IsSeq(e) /\ Len(e) = 0
    BY <2>1, <2>2, PrefixShape
  <2>4. e = << >>
    BY <2>3, SeqShape
  <2>5. left(e) = e
    BY <2>4, SubsequenceEmpty
  <2>6. DOMAIN e = {}
    BY <2>4, EmptyShape
  <2>7. PlacesIn(e, Z) = {} /\ PlacesOut(e, Z) = {}
    BY <2>6 DEF PlacesIn, PlacesOut
  <2>8. Cardinality(PlacesIn(e, Z)) = 0
    BY <2>7, FS_EmptySet
  <2> HIDE DEF left
  <2>9. Half(e, 0)
    BY <2>5, <2>8
  <2> HIDE DEF Half
  <2> QED BY <2>1, <2>2, <2>9
<1>3. ASSUME NEW k \in 1 .. n, k - 1 \in T PROVE k \in T
  <2>1. PICK p, q, x : p = SubSeq(s, 1, k - 1) /\ q = SubSeq(s, 1, k) /\ x = s[k]
    OBVIOUS
  <2>2. k \in 0 .. n /\ k - 1 \in 0 .. n
    BY <1>1
  <2>3. IsSeq(p) /\ Len(p) = k - 1
    BY <2>1, <2>2, PrefixShape
  <2>4. q = Append(p, x)
    BY <2>1, PrefixGrows
  <2>5. Half(p, k - 1)
    BY <1>3, <2>1
  <2>6. left(q) = IF k \in K THEN Append(left(p), x) ELSE left(p)
    <3>1. Len(p) + 1 = k
      BY <2>3
    <3>2. Subsequence(Append(p, x), K)
            = IF Len(p) + 1 \in K THEN Append(Subsequence(p, K), x) ELSE Subsequence(p, K)
      BY <2>3, SubsequenceAppend
    <3> QED BY <2>4, <3>1, <3>2
  <2>7. PICK l, m : l = left(p) /\ m = left(q)
    OBVIOUS
  <2>8. IsSeq(l)
    BY <2>3, <2>7, SubsequenceShape
  <2>9. m = IF k \in K THEN Append(l, x) ELSE l
    BY <2>6, <2>7
  <2>10. /\ Subsequence(l, PlacesOut(l, Z)) = Subsequence(p, PlacesOut(p, Z))
         /\ Cardinality(PlacesIn(l, Z)) \in Nat /\ Cardinality(PlacesIn(p, Z)) \in Nat
         /\ 2 * Cardinality(PlacesIn(l, Z)) + debt(k - 1) <= Cardinality(PlacesIn(p, Z))
    BY <2>5, <2>7
  <2>11. erased[k] \in BOOLEAN /\ erased[k - 1] \in BOOLEAN
    BY <2>2
  <2>12. (erased[k] <=> x \in Z /\ ~ erased[k - 1]) /\ (k \in K <=> ~ erased[k])
    BY <2>1
  <2> HIDE DEF left
  <2>13. Subsequence(m, PlacesOut(m, Z)) = Subsequence(q, PlacesOut(q, Z))
    <3>1. Subsequence(q, PlacesOut(q, Z))
            = IF x \in Z THEN Subsequence(p, PlacesOut(p, Z))
              ELSE Append(Subsequence(p, PlacesOut(p, Z)), x)
      BY <2>3, <2>4, AppendedPlaces
    <3>2. k \in K => Subsequence(m, PlacesOut(m, Z))
                       = IF x \in Z THEN Subsequence(l, PlacesOut(l, Z))
                         ELSE Append(Subsequence(l, PlacesOut(l, Z)), x)
      BY <2>8, <2>9, AppendedPlaces
    <3>3. k \notin K => x \in Z /\ m = l
      BY <2>9, <2>12
    <3> QED BY <2>10, <3>1, <3>2, <3>3
  <2>14. Cardinality(PlacesIn(q, Z)) = Cardinality(PlacesIn(p, Z)) + (IF x \in Z THEN 1 ELSE 0)
    BY <2>3, <2>4, AppendedPlaces
  <2>15. k \in K => Cardinality(PlacesIn(m, Z))
                      = Cardinality(PlacesIn(l, Z)) + (IF x \in Z THEN 1 ELSE 0)
    BY <2>8, <2>9, AppendedPlaces, SMTT(30)
  <2>16. k \notin K => m = l
    BY <2>9
  <2>17. PICK a, b, c, d : /\ a = Cardinality(PlacesIn(l, Z)) /\ b = Cardinality(PlacesIn(p, Z))
                           /\ c = Cardinality(PlacesIn(m, Z)) /\ d = Cardinality(PlacesIn(q, Z))
    OBVIOUS
  <2>18. /\ a \in Nat /\ b \in Nat /\ 2 * a + debt(k - 1) <= b
         /\ d = b + (IF x \in Z THEN 1 ELSE 0)
         /\ k \in K => c = a + (IF x \in Z THEN 1 ELSE 0)
         /\ k \notin K => c = a
    BY <2>10, <2>14, <2>15, <2>16, <2>17
  <2>19. c \in Nat /\ d \in Nat /\ 2 * c + debt(k) <= d
    <3>1. CASE x \in Z /\ erased[k - 1]
      <4>1. k \in K /\ ~ erased[k]
        BY <2>12, <3>1
      <4> QED BY <2>18, <3>1, <4>1
    <3>2. CASE x \in Z /\ ~ erased[k - 1]
      <4>1. k \notin K /\ erased[k]
        BY <2>12, <3>2
      <4> QED BY <2>18, <3>2, <4>1
    <3>3. CASE x \notin Z
      <4>1. k \in K /\ ~ erased[k]
        BY <2>12, <3>3
      <4>2. debt(k - 1) \in Nat
        OBVIOUS
      <4> QED BY <2>18, <3>3, <4>1, <4>2
    <3> QED BY <2>11, <3>1, <3>2, <3>3
  <2> HIDE DEF debt
  <2>20. Half(q, k)
    BY <2>7, <2>13, <2>17, <2>19
  <2> HIDE DEF Half
  <2> QED BY <2>1, <2>2, <2>20
<1>4. n \in T
  <2>1. n \in 0 .. n
    BY <1>1
  <2> HIDE DEF T
  <2>2. \A k \in 0 .. n : k \in T
    <3> HIDE DEF n
    <3> QED BY <1>1, <1>2, <1>3, UpTo
  <2> QED BY <2>1, <2>2
<1>5. SubSeq(s, 1, n) = s
  <2>1. n \in 0 .. Len(s)
    BY <1>1
  <2>2. /\ IsSeq(SubSeq(s, 1, n)) /\ Len(SubSeq(s, 1, n)) = n
        /\ \A i \in 1 .. n : SubSeq(s, 1, n)[i] = s[i]
    BY <2>1, PrefixShape
  <2> QED BY <2>2, SameSeq
<1>6. Half(s, n)
  <2> HIDE DEF Half
  <2> QED BY <1>4, <1>5
<1>7. 2 * Cardinality(PlacesIn(left(s), Z)) <= Cardinality(PlacesIn(s, Z))
  <2>1. PICK a, b : a = Cardinality(PlacesIn(left(s), Z)) /\ b = Cardinality(PlacesIn(s, Z))
    OBVIOUS
  <2>2. a \in Nat /\ b \in Nat /\ 2 * a + debt(n) <= b /\ debt(n) \in Nat
    BY <1>6, <2>1
  <2> HIDE DEF debt
  <2>3. 2 * a <= b
    BY <2>2
  <2> QED BY <2>1, <2>3
<1> QED BY <1>6, <1>7

(* A purge keeps every transaction that can still be mined, in order, and  *)
(* at least halves the number of those that cannot, although its loop      *)
(* skips the transaction after each one it erases: any amounts, any        *)
(* length of the pool.                                                     *)
THEOREM PurgeHalves == Spec => PurgeHalvesStale
<1> DEFINE Halves == ValidateTransPool =>
             /\ Subsequence(pool', DOMAIN pool' \ StaleIn(pool'))
                  = Subsequence(pool, DOMAIN pool \ StaleIn(pool))
             /\ 2 * Cardinality(StaleIn(pool')) <= Cardinality(StaleIn(pool))
<1>1. ASSUME Linked PROVE Halves
  <2> SUFFICES ASSUME ValidateTransPool
               PROVE  /\ Subsequence(pool', DOMAIN pool' \ StaleIn(pool'))
                           = Subsequence(pool, DOMAIN pool \ StaleIn(pool))
                      /\ 2 * Cardinality(StaleIn(pool')) <= Cardinality(StaleIn(pool))
    OBVIOUS
  <2> DEFINE K == DOMAIN pool \ Erased
             Z == { t \in Range(pool) : IsStale(t) }
  <2>1. pool' = Subsequence(pool, K) /\ utxouts' = utxouts
    BY DEF ValidateTransPool
  <2>2. IsSeq(pool) /\ DOMAIN pool = 1 .. Len(pool)
    BY <1>1, SeqShape DEF Linked, TypeOK, PoolTyped
  <2>3. PICK erased \in [0 .. Len(pool) -> BOOLEAN] :
          /\ Erased = { j \in DOMAIN pool : erased[j] }
          /\ erased[0] = FALSE
          /\ \A k \in 1 .. Len(pool) : erased[k] <=> IsStale(pool[k]) /\ ~ erased[k - 1]
    BY <1>1, ErasedUnfolds
  <2>4. \A k \in 1 .. Len(pool) : IsStale(pool[k]) <=> pool[k] \in Z
    BY <2>2 DEF Range
  <2>5. \A k \in 1 .. Len(pool) : k \in K <=> ~ erased[k]
    BY <2>2, <2>3
  <2>6. \A t \in Range(pool) : IsStale(t) <=> t \in Z
    OBVIOUS
  <2> HIDE DEF K, Z
  <2>7. \A k \in 1 .. Len(pool) : erased[k] <=> pool[k] \in Z /\ ~ erased[k - 1]
    BY <2>3, <2>4
  <2>8. PICK left : left = Subsequence(pool, K)
    OBVIOUS
  <2>9. /\ Subsequence(left, PlacesOut(left, Z)) = Subsequence(pool, PlacesOut(pool, Z))
        /\ 2 * Cardinality(PlacesIn(left, Z)) <= Cardinality(PlacesIn(pool, Z))
    BY <2>2, <2>3, <2>5, <2>7, <2>8, AtMostHalf
  <2>10. StaleIn(pool) = PlacesIn(pool, Z) /\ DOMAIN pool \ StaleIn(pool) = PlacesOut(pool, Z)
    BY <2>2, <2>4 DEF StaleIn, PlacesIn, PlacesOut
  <2>11. \A i \in DOMAIN left : IsStale(left[i]) <=> left[i] \in Z
    <3>1. /\ IsSeq(left)
          /\ \A j \in 1 .. Len(left) : \E i \in 1 .. Len(pool) : i \in K /\ left[j] = pool[i]
      BY <2>2, <2>8, SubsequenceTakes
    <3>2. DOMAIN left = 1 .. Len(left)
      BY <3>1, SeqShape
    <3> QED BY <2>4, <3>1, <3>2
  <2>12. StaleIn(left) = PlacesIn(left, Z) /\ DOMAIN left \ StaleIn(left) = PlacesOut(left, Z)
    BY <2>11 DEF StaleIn, PlacesIn, PlacesOut
  <2>13. pool' = left
    BY <2>1, <2>8
  <2> QED BY <2>9, <2>10, <2>12, <2>13
<1>2. Linked => Halves
  BY <1>1
<1>3. Linked /\ [Next]_vars => Linked'
  BY LinkedStep
<1> QED BY <1>2, <1>3, LinkedInit, PTL DEF Spec, PurgeHalvesStale
=============================================================================
