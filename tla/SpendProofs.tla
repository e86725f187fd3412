---------------------------- MODULE SpendProofs ----------------------------
(***************************************************************************)
(* No output is spent twice, for all values of the constants in which      *)
(* callers transfer a whole coin or more, and fewer coins than int32       *)
(* counts (WholeCoins): another transfer may have no input, and then       *)
(* nothing stops it from being mined again.                                *)
(*                                                                         *)
(* The argument: an input of a new block is unspent, so it names a         *)
(* transaction of the chain, and nothing in the chain has spent it.  A new *)
(* transaction cannot have the digest of one in the chain, since equal     *)
(* digests mean equal inputs; so the keys it creates were never used.      *)
(***************************************************************************)
EXTENDS NodeProofs

WholeCoins ==
  \A amount \in Amounts :
    /\ amount >= SATOSHI_PER_COIN
    /\ 2 * (amount \div SATOSHI_PER_COIN) < INT32_MOD

(***************************************************************************)
(* The sets of keys, element by element.                                   *)
(***************************************************************************)
PlacesOf(bs) ==
  UNION { { << n, p >> : p \in InputPlaces(bs[n].data) } : n \in DOMAIN bs }
CreatedBy(bs) ==
  UNION { { TxoutKey(bs[n].data[i].id, i - 1) : i \in DOMAIN bs[n].data } :
          n \in DOMAIN bs }

LEMMA InputPlace ==
  ASSUME NEW data, NEW p
  PROVE  p \in InputPlaces(data) <=>
           \E i \in DOMAIN data : \E j \in DOMAIN data[i].txins : p = << i, j >>
BY DEF InputPlaces

LEMMA PlaceOf ==
  ASSUME NEW bs, NEW c
  PROVE  c \in PlacesOf(bs) <=>
           \E n \in DOMAIN bs : \E i \in DOMAIN bs[n].data :
             \E j \in DOMAIN bs[n].data[i].txins : c = << n, << i, j >> >>
<1>1. c \in PlacesOf(bs) <=>
        \E n \in DOMAIN bs : \E p \in InputPlaces(bs[n].data) : c = << n, p >>
  BY DEF PlacesOf
<1>2. ASSUME c \in PlacesOf(bs)
      PROVE  \E n \in DOMAIN bs : \E i \in DOMAIN bs[n].data :
               \E j \in DOMAIN bs[n].data[i].txins : c = << n, << i, j >> >>
  <2>1. PICK n \in DOMAIN bs : \E p \in InputPlaces(bs[n].data) : c = << n, p >>
    BY <1>1, <1>2
  <2>2. PICK p \in InputPlaces(bs[n].data) : c = << n, p >>
    BY <2>1
  <2>3. PICK i \in DOMAIN bs[n].data : \E j \in DOMAIN bs[n].data[i].txins : p = << i, j >>
    BY InputPlace
  <2> QED BY <2>2, <2>3
<1>3. ASSUME NEW n \in DOMAIN bs, NEW i \in DOMAIN bs[n].data,
             NEW j \in DOMAIN bs[n].data[i].txins, c = << n, << i, j >> >>
      PROVE  c \in PlacesOf(bs)
  <2>1. << i, j >> \in InputPlaces(bs[n].data)
    BY InputPlace
  <2> QED BY <1>1, <1>3, <2>1
<1> QED BY <1>2, <1>3

LEMMA CreatedElement ==
  ASSUME NEW bs, NEW key
  PROVE  key \in CreatedBy(bs) <=>
           \E n \in DOMAIN bs : \E i \in DOMAIN bs[n].data :
             key = TxoutKey(bs[n].data[i].id, i - 1)
BY DEF CreatedBy

LEMMA SpentElement ==
  ASSUME NEW data, NEW key
  PROVE  key \in SpentKeys(data) <=>
           \E i \in DOMAIN data : \E j \in DOMAIN data[i].txins :
             key = data[i].txins[j].key
<1>1. key \in SpentKeys(data) <=> \E p \in InputPlaces(data) : key = KeyAt(data, p)
  BY DEF SpentKeys
<1>2. \A i, j : KeyAt(data, << i, j >>) = data[i].txins[j].key
  BY DEF KeyAt
<1>3. ASSUME key \in SpentKeys(data)
      PROVE  \E i \in DOMAIN data : \E j \in DOMAIN data[i].txins : key = data[i].txins[j].key
  <2>1. PICK p \in InputPlaces(data) : key = KeyAt(data, p)
    BY <1>1, <1>3
  <2>2. PICK i \in DOMAIN data : \E j \in DOMAIN data[i].txins : p = << i, j >>
    BY InputPlace
  <2> QED BY <1>2, <2>1, <2>2
<1>4. ASSUME NEW i \in DOMAIN data, NEW j \in DOMAIN data[i].txins,
             key = data[i].txins[j].key
      PROVE  key \in SpentKeys(data)
  <2>1. << i, j >> \in InputPlaces(data)
    BY InputPlace
  <2> QED BY <1>1, <1>2, <1>4, <2>1
<1> QED BY <1>3, <1>4

(* A key that some input of the chain names, and whether the input belongs *)
(* to a coinbase.                                                          *)
KeyOf(bs, c) == KeyAt(bs[c[1]].data, c[2])
KeysIn(bs)   == { KeyOf(bs, c) : c \in PlacesOf(bs) }
SpentIn(bs)  == { KeyOf(bs, c) : c \in { d \in PlacesOf(bs) : d[2][1] > 1 } }

LEMMA KeyElement ==
  ASSUME NEW bs, NEW key
  PROVE  /\ key \in KeysIn(bs) <=>
              \E n \in DOMAIN bs : \E i \in DOMAIN bs[n].data :
                \E j \in DOMAIN bs[n].data[i].txins : key = bs[n].data[i].txins[j].key
         /\ key \in SpentIn(bs) <=>
              \E n \in DOMAIN bs : \E i \in DOMAIN bs[n].data :
                \E j \in DOMAIN bs[n].data[i].txins :
                  i > 1 /\ key = bs[n].data[i].txins[j].key
<1>1. \A n, i, j : KeyOf(bs, << n, << i, j >> >>) = bs[n].data[i].txins[j].key
  BY DEF KeyOf, KeyAt
<1>2. key \in KeysIn(bs) <=> \E c \in PlacesOf(bs) : key = KeyOf(bs, c)
  BY DEF KeysIn
<1>3. key \in SpentIn(bs) <=> \E c \in PlacesOf(bs) : c[2][1] > 1 /\ key = KeyOf(bs, c)
  BY DEF SpentIn
<1>4. ASSUME NEW c \in PlacesOf(bs), key = KeyOf(bs, c)
      PROVE  \E n \in DOMAIN bs : \E i \in DOMAIN bs[n].data :
               \E j \in DOMAIN bs[n].data[i].txins :
                 c[2][1] = i /\ key = bs[n].data[i].txins[j].key
  <2>1. PICK n \in DOMAIN bs : \E i \in DOMAIN bs[n].data :
          \E j \in DOMAIN bs[n].data[i].txins : c = << n, << i, j >> >>
    BY PlaceOf
  <2>2. PICK i \in DOMAIN bs[n].data :
          \E j \in DOMAIN bs[n].data[i].txins : c = << n, << i, j >> >>
    BY <2>1
  <2>3. PICK j \in DOMAIN bs[n].data[i].txins : c = << n, << i, j >> >>
    BY <2>2
  <2>4. c[2][1] = i /\ key = bs[n].data[i].txins[j].key
    BY <1>1, <1>4, <2>3
  <2> QED BY <2>4
<1>5. ASSUME NEW n \in DOMAIN bs, NEW i \in DOMAIN bs[n].data,
             NEW j \in DOMAIN bs[n].data[i].txins, key = bs[n].data[i].txins[j].key
      PROVE  \E c \in PlacesOf(bs) : c[2][1] = i /\ key = KeyOf(bs, c)
  <2> DEFINE c == << n, << i, j >> >>
  <2>1. c \in PlacesOf(bs)
    BY PlaceOf
  <2>2. c[2][1] = i
    OBVIOUS
  <2>3. key = KeyOf(bs, c)
    BY <1>1, <1>5
  <2> QED BY <2>1, <2>2, <2>3
<1> QED BY <1>2, <1>3, <1>4, <1>5

(***************************************************************************)
(* Digests.                                                                *)
(***************************************************************************)
LEMMA DigestIsNotEmpty ==
  ASSUME NEW t, IsTransaction(t)
  PROVE  t.id # NoHash
<1> DEFINE ins == [i \in DOMAIN t.txins |-> t.txins[i].key]
           outs == [j \in DOMAIN t.txouts |-> << Truthy(t.txouts[j].address),
                                                Get(t.txouts[j].amount) >>]
<1>1. t.id = [sha256 |-> << ins, outs >>]
  BY DEF IsTransaction, GenerateHash, Sha256, Source
<1> HIDE DEF ins, outs
<1>2. << ins, outs >> # << >>
  OBVIOUS
<1>3. t.id.sha256 # NoHash.sha256
  BY <1>1, <1>2 DEF NoHash
<1> QED BY <1>3

LEMMA DigestsDiffer ==
  ASSUME NEW a, NEW b, Sha256(a) = Sha256(b)
  PROVE  a = b
<1>1. Sha256(a).sha256 = a /\ Sha256(b).sha256 = b
  BY DEF Sha256
<1> HIDE DEF Sha256
<1> QED BY <1>1

(* Transactions with one digest have the same inputs.                      *)
InputKeys(t) == [i \in DOMAIN t.txins |-> t.txins[i].key]

LEMMA SameDigest ==
  ASSUME NEW s, NEW t, IsTransaction(s), IsTransaction(t), s.id = t.id
  PROVE  /\ DOMAIN s.txins = DOMAIN t.txins
         /\ \A i \in DOMAIN s.txins : s.txins[i].key = t.txins[i].key
<1>1. Sha256(Source(s)) = Sha256(Source(t))
  BY DEF IsTransaction, GenerateHash
<1>2. Source(s) = Source(t)
  BY <1>1, DigestsDiffer
<1>3. \A u : Source(u)[1] = InputKeys(u)
  BY DEF Source, InputKeys
<1>4. InputKeys(s) = InputKeys(t)
  BY <1>2, <1>3
<1>5. \A u : DOMAIN InputKeys(u) = DOMAIN u.txins
  BY DEF InputKeys
<1>6. \A u : \A i \in DOMAIN u.txins : InputKeys(u)[i] = u.txins[i].key
  BY DEF InputKeys
<1> QED BY <1>4, <1>5, <1>6

(***************************************************************************)
(* The invariant, with the sets spelled out.                               *)
(***************************************************************************)
Spending == KeyHistory /\ NoDoubleSpend

LEMMA SpendingMeans ==
  /\ Spending <=>
       /\ \A i \in DOMAIN utxouts : utxouts[i].key \in CreatedBy(blocks)
       /\ \A key \in SpentIn(blocks) : key \in CreatedBy(blocks)
       /\ \A i \in DOMAIN utxouts : utxouts[i].key \notin KeysIn(blocks)
       /\ \A n \in DOMAIN pool : pool[n].txins # << >>
       /\ \A c, d \in PlacesOf(blocks) : KeyOf(blocks, c) = KeyOf(blocks, d) => c = d
  /\ Spending' <=>
       /\ \A i \in DOMAIN utxouts' : utxouts'[i].key \in CreatedBy(blocks')
       /\ \A key \in SpentIn(blocks') : key \in CreatedBy(blocks')
       /\ \A i \in DOMAIN utxouts' : utxouts'[i].key \notin KeysIn(blocks')
       /\ \A n \in DOMAIN pool' : pool'[n].txins # << >>
       /\ \A c, d \in PlacesOf(blocks') : KeyOf(blocks', c) = KeyOf(blocks', d) => c = d
<1>1. /\ ChainInputs = PlacesOf(blocks)
      /\ \A c : ChainKeyAt(c) = KeyOf(blocks, c)
      /\ CreatedKeys = CreatedBy(blocks)
  BY DEF ChainInputs, PlacesOf, ChainKeyAt, KeyOf, CreatedKeys, CreatedBy
<1>2. ChainKeys = KeysIn(blocks) /\ ChainSpent = SpentIn(blocks)
  <2>1. ChainKeys = { ChainKeyAt(c) : c \in PlacesOf(blocks) }
    BY <1>1 DEF ChainKeys
  <2>2. ChainSpent = { ChainKeyAt(c) : c \in { d \in PlacesOf(blocks) : d[2][1] > 1 } }
    BY <1>1 DEF ChainSpent
  <2> QED BY <1>1, <2>1, <2>2 DEF KeysIn, SpentIn
<1>3. /\ ChainInputs' = PlacesOf(blocks')
      /\ \A c : ChainKeyAt(c)' = KeyOf(blocks', c)
      /\ CreatedKeys' = CreatedBy(blocks')
  BY DEF ChainInputs, PlacesOf, ChainKeyAt, KeyOf, CreatedKeys, CreatedBy
<1>4. ChainKeys' = KeysIn(blocks') /\ ChainSpent' = SpentIn(blocks')
  <2>1. ChainKeys' = KeysIn(blocks')
    BY DEF ChainKeys, KeysIn, ChainInputs, PlacesOf, ChainKeyAt, KeyOf
  <2>2. ChainSpent' = SpentIn(blocks')
    BY DEF ChainSpent, SpentIn, ChainInputs, PlacesOf, ChainKeyAt, KeyOf
  <2> QED BY <2>1, <2>2
<1>5. \A key : key \in UnspentKeys <=> \E i \in DOMAIN utxouts : key = utxouts[i].key
  BY DEF UnspentKeys
<1>6. \A key : key \in UnspentKeys' <=> \E i \in DOMAIN utxouts' : key = utxouts'[i].key
  BY DEF UnspentKeys
<1>7. NoDoubleSpend <=>
        \A c, d \in PlacesOf(blocks) : KeyOf(blocks, c) = KeyOf(blocks, d) => c = d
  BY <1>1 DEF NoDoubleSpend
<1>8. NoDoubleSpend' <=>
        \A c, d \in PlacesOf(blocks') : KeyOf(blocks', c) = KeyOf(blocks', d) => c = d
  BY DEF NoDoubleSpend, ChainInputs, PlacesOf, ChainKeyAt, KeyOf
<1>9. KeyHistory <=>
        /\ \A i \in DOMAIN utxouts : utxouts[i].key \in CreatedBy(blocks)
        /\ \A key \in SpentIn(blocks) : key \in CreatedBy(blocks)
        /\ \A i \in DOMAIN utxouts : utxouts[i].key \notin KeysIn(blocks)
        /\ \A n \in DOMAIN pool : pool[n].txins # << >>
  BY <1>1, <1>2, <1>5 DEF KeyHistory
<1>10. KeyHistory' <=>
         /\ \A i \in DOMAIN utxouts' : utxouts'[i].key \in CreatedBy(blocks')
         /\ \A key \in SpentIn(blocks') : key \in CreatedBy(blocks')
         /\ \A i \in DOMAIN utxouts' : utxouts'[i].key \notin KeysIn(blocks')
         /\ \A n \in DOMAIN pool' : pool'[n].txins # << >>
  BY <1>3, <1>4, <1>6 DEF KeyHistory
<1> QED BY <1>7, <1>8, <1>9, <1>10 DEF Spending

(***************************************************************************)
(* The block that is added.                                                *)
(***************************************************************************)
(* The keys a coinbase of the chain and other inputs of the chain name.    *)
LEMMA ChainKeyKinds ==
  ASSUME Linked, Spending,
         NEW n \in DOMAIN blocks, NEW i \in DOMAIN blocks[n].data,
         NEW j \in DOMAIN blocks[n].data[i].txins
  PROVE  LET key == blocks[n].data[i].txins[j].key
         IN  /\ key \in KeysIn(blocks)
             /\ i = 1 => key = TxoutKey(NoHash, n - 1)
             /\ i # 1 => key \in CreatedBy(blocks) /\ key.tx_id # NoHash
<1> DEFINE t == blocks[n].data[i]
           key == t.txins[j].key
<1>1. key \in KeysIn(blocks)
  BY KeyElement
<1>2. IsSeq(blocks[n].data) /\ IsTransaction(t)
  BY DEF Linked, TypeOK, BlocksTyped
<1>3. DOMAIN blocks[n].data = 1 .. Len(blocks[n].data) /\ Len(blocks[n].data) \in Nat
  BY <1>2, SeqShape
<1>4. DOMAIN t.txins = 1 .. Len(t.txins) /\ Len(t.txins) \in Nat
  BY <1>2, SeqShape DEF IsTransaction
<1>5. CASE i = 1
  <2>1. Len(t.txins) = 1 /\ t.txins[1].key = TxoutKey(NoHash, n - 1)
    BY <1>5 DEF Linked, ChainLinked
  <2>2. j = 1
    BY <1>4, <2>1
  <2> QED BY <1>1, <1>5, <2>1, <2>2
<1>6. CASE i # 1
  <2>1. i > 1
    BY <1>3, <1>6
  <2>2. key \in SpentIn(blocks)
    BY <2>1, KeyElement
  <2>3. key \in CreatedBy(blocks)
    BY <2>2, SpendingMeans
  <2>4. PICK m \in DOMAIN blocks : \E l \in DOMAIN blocks[m].data :
          key = TxoutKey(blocks[m].data[l].id, l - 1)
    BY <2>3, CreatedElement
  <2>5. PICK l \in DOMAIN blocks[m].data : key = TxoutKey(blocks[m].data[l].id, l - 1)
    BY <2>4
  <2>6. IsTransaction(blocks[m].data[l])
    BY DEF Linked, TypeOK, BlocksTyped
  <2>7. key.tx_id = blocks[m].data[l].id
    BY <2>5 DEF TxoutKey
  <2>8. key.tx_id # NoHash
    BY <2>6, <2>7, DigestIsNotEmpty
  <2> QED BY <1>1, <1>6, <2>3, <2>8
<1> QED BY <1>5, <1>6

(* What the inputs of the new block name.                                  *)
LEMMA NewInputs ==
  ASSUME Linked, NEW ts \in Timestamps, CommitBlock(ts),
         NEW i \in 1 .. Len(NewTrans), NEW j \in DOMAIN NewTrans[i].txins
  PROVE  /\ i = 1 => NewTrans[i].txins[j].key = TxoutKey(NoHash, Len(blocks)) /\ j = 1
         /\ i # 1 => Has(utxouts, NewTrans[i].txins[j].key)
<1> DEFINE v == NewTrans
           b == blocks'[Len(blocks) + 1]
<1> HIDE DEF v, b
<1>1. /\ b.data = v /\ BlockValidate(b, utxouts)
      /\ Len(v[1].txins) = 1 /\ v[1].txins[1].key = TxoutKey(NoHash, Len(blocks))
      /\ \A k \in 1 .. Len(v) : IsTransaction(v[k])
      /\ Len(v) = Len(pool) + 1 /\ Len(pool) \in Nat
  BY CommitShape DEF v, b
<1>2. i \in 1 .. Len(v) /\ j \in DOMAIN v[i].txins
  BY DEF v
<1>3. CASE i = 1
  <2>1. DOMAIN v[1].txins = 1 .. 1
    BY <1>1, <1>2, <1>3, SeqShape DEF IsTransaction
  <2> QED BY <1>1, <1>2, <1>3, <2>1 DEF v
<1>4. CASE i # 1
  <2>1. i \in 2 .. Len(v)
    BY <1>1, <1>2, <1>4
  <2>2. Validate(v[i], utxouts)
    BY <1>1, <2>1 DEF BlockValidate
  <2>3. Has(utxouts, v[i].txins[j].key)
    BY <1>2, <2>2 DEF Validate, TxinValidate
  <2> QED BY <1>4, <2>3 DEF v
<1> QED BY <1>3, <1>4

(* An input of the new block names no key an input of the chain names.     *)
LEMMA NewInputsUnspent ==
  ASSUME Linked, Spending, NEW ts \in Timestamps, CommitBlock(ts),
         NEW i \in 1 .. Len(NewTrans), NEW j \in DOMAIN NewTrans[i].txins
  PROVE  /\ NewTrans[i].txins[j].key \notin KeysIn(blocks)
         /\ i # 1 => NewTrans[i].txins[j].key \in CreatedBy(blocks)
<1> DEFINE key == NewTrans[i].txins[j].key
<1>1. CASE i = 1
  <2>1. key = TxoutKey(NoHash, Len(blocks))
    BY <1>1, NewInputs
  <2>2. SUFFICES ASSUME key \in KeysIn(blocks) PROVE FALSE
    BY <1>1
  <2> HIDE DEF key
  <2>3. PICK n \in DOMAIN blocks : \E k \in DOMAIN blocks[n].data :
          \E l \in DOMAIN blocks[n].data[k].txins : key = blocks[n].data[k].txins[l].key
    BY <2>2, KeyElement
  <2>4. PICK k \in DOMAIN blocks[n].data :
          \E l \in DOMAIN blocks[n].data[k].txins : key = blocks[n].data[k].txins[l].key
    BY <2>3
  <2>5. PICK l \in DOMAIN blocks[n].data[k].txins : key = blocks[n].data[k].txins[l].key
    BY <2>4
  <2>6. k # 1 => key.tx_id # NoHash
    BY <2>5, ChainKeyKinds
  <2>7. k = 1 => key = TxoutKey(NoHash, n - 1)
    BY <2>5, ChainKeyKinds
  <2>8. key.tx_id = NoHash /\ key.txout_index = Len(blocks)
    BY <2>1 DEF TxoutKey
  <2>9. k = 1 => key.txout_index = n - 1
    BY <2>7 DEF TxoutKey
  <2>10. DOMAIN blocks = 1 .. Len(blocks) /\ Len(blocks) \in Nat
    BY CommitShape
  <2> QED BY <2>6, <2>8, <2>9, <2>10
<1>2. CASE i # 1
  <2>1. Has(utxouts, key)
    BY <1>2, NewInputs
  <2>2. PICK k \in DOMAIN utxouts : utxouts[k].key = key
    BY <2>1 DEF Has
  <2> QED BY <2>2, SpendingMeans
<1> QED BY <1>1, <1>2

(* A transaction of the new block has none of the digests of the chain.    *)
LEMMA NewDigest ==
  ASSUME Linked, Spending, NEW ts \in Timestamps, CommitBlock(ts),
         NEW i \in 1 .. Len(NewTrans),
         NEW m \in DOMAIN blocks, NEW l \in DOMAIN blocks[m].data
  PROVE  NewTrans[i].id # blocks[m].data[l].id
<1> DEFINE s == NewTrans[i]
           t == blocks[m].data[l]
<1> SUFFICES ASSUME s.id = t.id PROVE FALSE
  OBVIOUS
<1>1. IsTransaction(s)
  BY CommitShape
<1>2. IsTransaction(t)
  BY DEF Linked, TypeOK, BlocksTyped
<1>3. DOMAIN s.txins = DOMAIN t.txins /\ \A j \in DOMAIN s.txins : s.txins[j].key = t.txins[j].key
  <2> HIDE DEF s, t
  <2> QED BY <1>1, <1>2, SameDigest
<1>4. 1 \in DOMAIN s.txins
  <2>1. IsSeq(s.txins)
    BY <1>1 DEF IsTransaction
  <2>2. s.txins # << >>
    <3>1. CASE i = 1
      <4>1. Len(s.txins) = 1
        BY <3>1, CommitShape
      <4>2. Len(s.txins) # Len(<< >>)
        BY <4>1, EmptyShape
      <4> HIDE DEF s
      <4> QED BY <4>2
    <3>2. CASE i # 1
      <4>1. /\ Len(NewTrans) = Len(pool) + 1 /\ Len(pool) \in Nat
            /\ \A k \in 2 .. Len(NewTrans) : NewTrans[k] = pool[k - 1]
        BY CommitShape
      <4>2. s = pool[i - 1] /\ i - 1 \in 1 .. Len(pool)
        BY <3>2, <4>1
      <4>3. DOMAIN pool = 1 .. Len(pool)
        BY SeqShape DEF Linked, TypeOK, PoolTyped
      <4>4. \A n \in DOMAIN pool : pool[n].txins # << >>
        BY SpendingMeans
      <4>5. pool[i - 1].txins # << >>
        BY <4>2, <4>3, <4>4
      <4> HIDE DEF s
      <4> QED BY <4>2, <4>5
    <3> QED BY <3>1, <3>2
  <2> HIDE DEF s
  <2>3. DOMAIN s.txins = 1 .. Len(s.txins) /\ Len(s.txins) \in Nat /\ Len(s.txins) # 0
    BY <2>1, <2>2, SeqShape
  <2> QED BY <2>3
<1>5. s.txins[1].key \notin KeysIn(blocks)
  BY <1>4, NewInputsUnspent
<1>6. t.txins[1].key \in KeysIn(blocks)
  BY <1>3, <1>4, ChainKeyKinds
<1> QED BY <1>3, <1>4, <1>5, <1>6

(***************************************************************************)
(* The chain with one more block.                                          *)
(***************************************************************************)
LEMMA GrownCreated ==
  ASSUME NEW n \in Nat, NEW old, NEW new, NEW key,
         DOMAIN old = 1 .. n, DOMAIN new = 1 .. n + 1, \A m \in 1 .. n : new[m] = old[m]
  PROVE  key \in CreatedBy(new) <=>
           \/ key \in CreatedBy(old)
           \/ \E i \in DOMAIN new[n + 1].data : key = TxoutKey(new[n + 1].data[i].id, i - 1)
<1> DEFINE At(m) == \E i \in DOMAIN new[m].data : key = TxoutKey(new[m].data[i].id, i - 1)
<1>1. key \in CreatedBy(new) <=> \E m \in 1 .. n + 1 : At(m)
  BY CreatedElement
<1>2. key \in CreatedBy(old) <=> \E m \in 1 .. n : At(m)
  BY CreatedElement
<1> HIDE DEF At
<1>3. \A m : m \in 1 .. n + 1 <=> m \in 1 .. n \/ m = n + 1
  OBVIOUS
<1>4. (\E m \in 1 .. n + 1 : At(m)) <=> (\E m \in 1 .. n : At(m)) \/ At(n + 1)
  BY <1>3, Zenon
<1>5. At(n + 1) <=>
        \E i \in DOMAIN new[n + 1].data : key = TxoutKey(new[n + 1].data[i].id, i - 1)
  BY DEF At
<1> QED BY <1>1, <1>2, <1>4, <1>5

LEMMA GrownKeys ==
  ASSUME NEW n \in Nat, NEW old, NEW new, NEW key,
         DOMAIN old = 1 .. n, DOMAIN new = 1 .. n + 1, \A m \in 1 .. n : new[m] = old[m]
  PROVE  key \in KeysIn(new) <=>
           key \in KeysIn(old) \/ key \in SpentKeys(new[n + 1].data)
<1> DEFINE At(m) == \E i \in DOMAIN new[m].data : \E j \in DOMAIN new[m].data[i].txins :
                      key = new[m].data[i].txins[j].key
<1>1. key \in KeysIn(new) <=> \E m \in 1 .. n + 1 : At(m)
  BY KeyElement
<1>2. key \in KeysIn(old) <=> \E m \in 1 .. n : At(m)
  BY KeyElement
<1>3. key \in SpentKeys(new[n + 1].data) <=> At(n + 1)
  BY SpentElement
<1> HIDE DEF At
<1>4. \A m : m \in 1 .. n + 1 <=> m \in 1 .. n \/ m = n + 1
  OBVIOUS
<1>5. (\E m \in 1 .. n + 1 : At(m)) <=> (\E m \in 1 .. n : At(m)) \/ At(n + 1)
  BY <1>4, Zenon
<1> QED BY <1>1, <1>2, <1>3, <1>5

(* A transaction other than the coinbase has an input that names key.      *)
Spends(data, key) ==
  \E i \in DOMAIN data : \E j \in DOMAIN data[i].txins :
    i > 1 /\ key = data[i].txins[j].key

LEMMA GrownSpent ==
  ASSUME NEW n \in Nat, NEW old, NEW new, NEW key,
         DOMAIN old = 1 .. n, DOMAIN new = 1 .. n + 1, \A m \in 1 .. n : new[m] = old[m]
  PROVE  key \in SpentIn(new) <=>
           key \in SpentIn(old) \/ Spends(new[n + 1].data, key)
<1> DEFINE At(m) == Spends(new[m].data, key)
<1>1. key \in SpentIn(new) <=> \E m \in 1 .. n + 1 : At(m)
  BY KeyElement DEF Spends
<1>2. key \in SpentIn(old) <=> \E m \in 1 .. n : At(m)
  BY KeyElement DEF Spends
<1> HIDE DEF At
<1>3. \A m : m \in 1 .. n + 1 <=> m \in 1 .. n \/ m = n + 1
  OBVIOUS
<1>4. (\E m \in 1 .. n + 1 : At(m)) <=> (\E m \in 1 .. n : At(m)) \/ At(n + 1)
  BY <1>3, Zenon
<1> QED BY <1>1, <1>2, <1>4 DEF At

LEMMA GrownPlaces ==
  ASSUME NEW n \in Nat, NEW old, NEW new, NEW c \in PlacesOf(new),
         DOMAIN old = 1 .. n, DOMAIN new = 1 .. n + 1, \A m \in 1 .. n : new[m] = old[m]
  PROVE  \/ c \in PlacesOf(old) /\ KeyOf(new, c) = KeyOf(old, c) /\ KeyOf(old, c) \in KeysIn(old)
         \/ \E p \in InputPlaces(new[n + 1].data) :
              c = << n + 1, p >> /\ KeyOf(new, c) = KeyAt(new[n + 1].data, p)
<1>1. PICK m \in DOMAIN new : \E p \in InputPlaces(new[m].data) : c = << m, p >>
  BY DEF PlacesOf
<1>2. PICK p \in InputPlaces(new[m].data) : c = << m, p >>
  BY <1>1
<1>3. m \in 1 .. n \/ m = n + 1
  OBVIOUS
<1>4. CASE m \in 1 .. n
  <2>1. new[m] = old[m]
    BY <1>4
  <2>2. p \in InputPlaces(old[m].data) /\ m \in DOMAIN old
    BY <1>2, <1>4, <2>1
  <2>3. c \in PlacesOf(old)
    BY <1>2, <2>2 DEF PlacesOf
  <2>4. KeyOf(new, c) = KeyAt(new[m].data, p) /\ KeyOf(old, c) = KeyAt(old[m].data, p)
    BY <1>2 DEF KeyOf
  <2>5. KeyOf(old, c) \in KeysIn(old)
    BY <2>3 DEF KeysIn
  <2> QED BY <2>1, <2>3, <2>4, <2>5
<1>5. CASE m = n + 1
  BY <1>2, <1>5 DEF KeyOf
<1> QED BY <1>3, <1>4, <1>5

LEMMA CommitKeys ==
  ASSUME Linked, NEW ts \in Timestamps, CommitBlock(ts), NEW key
  PROVE  /\ key \in CreatedBy(blocks') <=>
              \/ key \in CreatedBy(blocks)
              \/ \E i \in 1 .. Len(NewTrans) : key = TxoutKey(NewTrans[i].id, i - 1)
         /\ key \in KeysIn(blocks') <=>
              key \in KeysIn(blocks) \/ key \in SpentKeys(NewTrans)
         /\ key \in SpentIn(blocks') <=>
              key \in SpentIn(blocks) \/ Spends(NewTrans, key)
<1> DEFINE n == Len(blocks)
           v == NewTrans
<1>1. /\ n \in Nat /\ DOMAIN blocks = 1 .. n /\ DOMAIN blocks' = 1 .. n + 1
      /\ \A i \in 1 .. n : blocks'[i] = blocks[i]
  BY CommitShape
<1>2. blocks'[n + 1].data = v /\ DOMAIN v = 1 .. Len(v)
  BY CommitShape
<1> HIDE DEF v, n
<1>3. key \in CreatedBy(blocks') <=>
        \/ key \in CreatedBy(blocks)
        \/ \E i \in DOMAIN v : key = TxoutKey(v[i].id, i - 1)
  <2> DEFINE w == blocks'[n + 1].data
  <2>1. key \in CreatedBy(blocks') <=>
          key \in CreatedBy(blocks) \/ \E i \in DOMAIN w : key = TxoutKey(w[i].id, i - 1)
    BY <1>1, GrownCreated
  <2>2. w = v
    BY <1>2
  <2> HIDE DEF w
  <2> QED BY <2>1, <2>2
<1>4. key \in KeysIn(blocks') <=> key \in KeysIn(blocks) \/ key \in SpentKeys(v)
  BY <1>1, <1>2, GrownKeys
<1>5. key \in SpentIn(blocks') <=> key \in SpentIn(blocks) \/ Spends(v, key)
  BY <1>1, <1>2, GrownSpent
<1> QED BY <1>2, <1>3, <1>4, <1>5 DEF v

(* An unspent output afterwards is one of the block's, or an old one that  *)
(* the block leaves.                                                       *)
LEMMA CommitOutputs ==
  ASSUME Linked, NEW ts \in Timestamps, CommitBlock(ts), NEW i \in DOMAIN utxouts'
  PROVE  \/ \E k \in 1 .. Len(NewTrans) :
              utxouts'[i].key = TxoutKey(NewTrans[k].id, k - 1)
         \/ \E k \in DOMAIN utxouts : /\ utxouts[k].key \notin SpentKeys(NewTrans)
                                      /\ utxouts'[i].key = utxouts[k].key
<1> DEFINE v == NewTrans
           u == UpdateUnspentTxout(v, utxouts)
<1>1. /\ IsSeq(v) /\ \A k \in 1 .. Len(v) : IsTransaction(v[k])
      /\ utxouts' = u
  BY CommitShape
<1>2. IsSeq(utxouts) /\ DOMAIN utxouts = 1 .. Len(utxouts)
  BY SeqShape DEF Linked, TypeOK, UtxosTyped
<1> HIDE DEF v
<1>3. /\ IsSeq(u)
      /\ \A j \in 1 .. Len(u) :
           \/ \E k \in 1 .. Len(NewUnspent(v)) : u[j] = NewUnspent(v)[k]
           \/ \E k \in 1 .. Len(utxouts) :
                utxouts[k].key \notin SpentKeys(v) /\ u[j] = utxouts[k]
  BY <1>1, <1>2, UpdateShape
<1> HIDE DEF u
<1>4. i \in 1 .. Len(u)
  BY <1>1, <1>3, SeqShape
<1>5. CASE \E k \in 1 .. Len(NewUnspent(v)) : u[i] = NewUnspent(v)[k]
  <2>1. PICK k \in 1 .. Len(NewUnspent(v)) : u[i] = NewUnspent(v)[k]
    BY <1>5
  <2>2. \E m \in 1 .. Len(v) : \E l \in 1 .. Len(v[m].txouts) :
          NewUnspent(v)[k] = [key     |-> TxoutKey(v[m].id, m - 1),
                              address |-> v[m].txouts[l].address,
                              amount  |-> v[m].txouts[l].amount]
    BY <1>1, NewUnspentShape
  <2>3. \E m \in 1 .. Len(v) : NewUnspent(v)[k].key = TxoutKey(v[m].id, m - 1)
    BY <2>2
  <2> QED BY <1>1, <2>1, <2>3 DEF v
<1>6. CASE \E k \in 1 .. Len(utxouts) :
             utxouts[k].key \notin SpentKeys(v) /\ u[i] = utxouts[k]
  BY <1>1, <1>2, <1>6 DEF v
<1> QED BY <1>3, <1>4, <1>5, <1>6

(* The keys the new block creates are named by no input, old or new.       *)
LEMMA CreatedUnspent ==
  ASSUME Linked, Spending, NEW ts \in Timestamps, CommitBlock(ts),
         NEW k \in 1 .. Len(NewTrans)
  PROVE  TxoutKey(NewTrans[k].id, k - 1) \notin KeysIn(blocks')
<1> DEFINE v == NewTrans
           key == TxoutKey(v[k].id, k - 1)
<1>1. \A i \in 1 .. Len(v) : IsTransaction(v[i])
  BY CommitShape
<1>2. DOMAIN v = 1 .. Len(v)
  BY CommitShape
<1>3. key.tx_id = v[k].id /\ key.tx_id # NoHash
  BY <1>1, DigestIsNotEmpty DEF TxoutKey
<1>4. key \notin CreatedBy(blocks)
  <2>1. SUFFICES ASSUME key \in CreatedBy(blocks) PROVE FALSE
    OBVIOUS
  <2>2. PICK m \in DOMAIN blocks : \E l \in DOMAIN blocks[m].data :
          key = TxoutKey(blocks[m].data[l].id, l - 1)
    BY <2>1, CreatedElement
  <2>3. PICK l \in DOMAIN blocks[m].data : key = TxoutKey(blocks[m].data[l].id, l - 1)
    BY <2>2
  <2>4. key.tx_id = blocks[m].data[l].id
    BY <2>3 DEF TxoutKey
  <2>5. v[k].id # blocks[m].data[l].id
    BY NewDigest
  <2> QED BY <1>3, <2>4, <2>5
<1>5. TxoutKey(NoHash, Len(blocks)).tx_id = NoHash
  BY DEF TxoutKey
<1> HIDE DEF key
<1>6. key \notin SpentKeys(v)
  <2>1. SUFFICES ASSUME NEW i \in 1 .. Len(v), NEW j \in DOMAIN v[i].txins,
                        key = v[i].txins[j].key
                 PROVE  FALSE
    BY <1>2, SpentElement
  <2>2. i = 1 => key = TxoutKey(NoHash, Len(blocks))
    BY <2>1, NewInputs
  <2>3. i # 1 => key \in CreatedBy(blocks)
    BY <2>1, NewInputsUnspent
  <2> QED BY <1>3, <1>4, <1>5, <2>2, <2>3
<1>7. key \notin KeysIn(blocks)
  <2>1. SUFFICES ASSUME key \in KeysIn(blocks) PROVE FALSE
    OBVIOUS
  <2>2. PICK n \in DOMAIN blocks : \E i \in DOMAIN blocks[n].data :
          \E j \in DOMAIN blocks[n].data[i].txins : key = blocks[n].data[i].txins[j].key
    BY <2>1, KeyElement
  <2>3. PICK i \in DOMAIN blocks[n].data :
          \E j \in DOMAIN blocks[n].data[i].txins : key = blocks[n].data[i].txins[j].key
    BY <2>2
  <2>4. PICK j \in DOMAIN blocks[n].data[i].txins : key = blocks[n].data[i].txins[j].key
    BY <2>3
  <2> DEFINE first == TxoutKey(NoHash, n - 1)
  <2>5. i = 1 => key.tx_id = NoHash
    <3>1. i = 1 => key = first
      BY <2>4, ChainKeyKinds
    <3>2. first.tx_id = NoHash
      BY DEF TxoutKey
    <3> HIDE DEF first
    <3> QED BY <3>1, <3>2
  <2>6. i # 1 => key \in CreatedBy(blocks)
    BY <2>4, ChainKeyKinds
  <2> QED BY <1>3, <1>4, <2>5, <2>6
<1> QED BY <1>6, <1>7, CommitKeys DEF key

LEMMA CommitNoDoubleSpend ==
  ASSUME Linked, Spending, NEW ts \in Timestamps, CommitBlock(ts)
  PROVE  \A c, d \in PlacesOf(blocks') : KeyOf(blocks', c) = KeyOf(blocks', d) => c = d
<1> DEFINE n == Len(blocks)
           v == NewTrans
<1>1. /\ n \in Nat /\ DOMAIN blocks = 1 .. n /\ DOMAIN blocks' = 1 .. n + 1
      /\ \A i \in 1 .. n : blocks'[i] = blocks[i]
  BY CommitShape
<1>2. /\ blocks'[n + 1].data = v /\ DOMAIN v = 1 .. Len(v)
      /\ BlockValidate(blocks'[n + 1], utxouts)
  BY CommitShape
<1>3. \A p, q \in InputPlaces(v) : KeyAt(v, p) = KeyAt(v, q) => p = q
  BY <1>2 DEF BlockValidate, NoDuplicateKey
<1>4. ASSUME NEW p \in InputPlaces(v) PROVE KeyAt(v, p) \notin KeysIn(blocks)
  <2>1. PICK i \in DOMAIN v : \E j \in DOMAIN v[i].txins : p = << i, j >>
    BY InputPlace
  <2>2. PICK j \in DOMAIN v[i].txins : p = << i, j >>
    BY <2>1
  <2>3. KeyAt(v, p) = v[i].txins[j].key
    BY <2>2 DEF KeyAt
  <2>4. i \in 1 .. Len(NewTrans)
    BY <1>2
  <2>5. NewTrans[i].txins[j].key \notin KeysIn(blocks)
    BY <2>4, NewInputsUnspent
  <2> QED BY <2>3, <2>5
<1>5. ASSUME NEW c \in PlacesOf(blocks')
      PROVE  \/ /\ c \in PlacesOf(blocks) /\ KeyOf(blocks', c) = KeyOf(blocks, c)
                /\ KeyOf(blocks, c) \in KeysIn(blocks)
             \/ \E p \in InputPlaces(v) :
                  c = << n + 1, p >> /\ KeyOf(blocks', c) = KeyAt(v, p)
  <2> HIDE DEF n, v
  <2> QED BY <1>1, <1>2, GrownPlaces
<1>6. \A c, d \in PlacesOf(blocks) : KeyOf(blocks, c) = KeyOf(blocks, d) => c = d
  BY SpendingMeans
<1> HIDE DEF n, v
<1> SUFFICES ASSUME NEW c \in PlacesOf(blocks'), NEW d \in PlacesOf(blocks'),
                    KeyOf(blocks', c) = KeyOf(blocks', d)
             PROVE  c = d
  OBVIOUS
<1>7. CASE /\ c \in PlacesOf(blocks) /\ KeyOf(blocks', c) = KeyOf(blocks, c)
           /\ KeyOf(blocks, c) \in KeysIn(blocks)
  <2>1. d \in PlacesOf(blocks) /\ KeyOf(blocks', d) = KeyOf(blocks, d)
    BY <1>4, <1>5, <1>7
  <2> QED BY <1>6, <1>7, <2>1
<1>8. CASE \E p \in InputPlaces(v) :
             c = << n + 1, p >> /\ KeyOf(blocks', c) = KeyAt(v, p)
  <2>1. PICK p \in InputPlaces(v) :
          c = << n + 1, p >> /\ KeyOf(blocks', c) = KeyAt(v, p)
    BY <1>8
  <2>2. PICK q \in InputPlaces(v) :
          d = << n + 1, q >> /\ KeyOf(blocks', d) = KeyAt(v, q)
    BY <1>4, <1>5, <2>1
  <2> QED BY <1>3, <2>1, <2>2
<1> QED BY <1>5, <1>7, <1>8

LEMMA CommitSpending ==
  ASSUME Linked, Spending, NEW ts \in Timestamps, CommitBlock(ts)
  PROVE  Spending'
<1>1. ASSUME NEW i \in DOMAIN utxouts'
      PROVE  utxouts'[i].key \in CreatedBy(blocks') /\ utxouts'[i].key \notin KeysIn(blocks')
  <2>1. CASE \E k \in 1 .. Len(NewTrans) :
               utxouts'[i].key = TxoutKey(NewTrans[k].id, k - 1)
    <3>1. PICK k \in 1 .. Len(NewTrans) :
            utxouts'[i].key = TxoutKey(NewTrans[k].id, k - 1)
      BY <2>1
    <3>2. utxouts'[i].key \in CreatedBy(blocks')
      BY <3>1, CommitKeys
    <3>3. utxouts'[i].key \notin KeysIn(blocks')
      BY <3>1, CreatedUnspent
    <3> QED BY <3>2, <3>3
  <2>2. CASE \E k \in DOMAIN utxouts : /\ utxouts[k].key \notin SpentKeys(NewTrans)
                                       /\ utxouts'[i].key = utxouts[k].key
    <3>1. PICK k \in DOMAIN utxouts : /\ utxouts[k].key \notin SpentKeys(NewTrans)
                                      /\ utxouts'[i].key = utxouts[k].key
      BY <2>2
    <3>2. utxouts[k].key \in CreatedBy(blocks) /\ utxouts[k].key \notin KeysIn(blocks)
      BY SpendingMeans
    <3>3. utxouts[k].key \in CreatedBy(blocks') /\ utxouts[k].key \notin KeysIn(blocks')
      BY <3>1, <3>2, CommitKeys
    <3> QED BY <3>1, <3>3
  <2> QED BY <2>1, <2>2, CommitOutputs
<1>2. ASSUME NEW key \in SpentIn(blocks') PROVE key \in CreatedBy(blocks')
  <2>1. CASE key \in SpentIn(blocks)
    <3>1. key \in CreatedBy(blocks)
      BY <2>1, SpendingMeans
    <3> QED BY <3>1, CommitKeys
  <2>2. CASE Spends(NewTrans, key)
    <3>1. PICK i \in DOMAIN NewTrans : \E j \in DOMAIN NewTrans[i].txins :
            i > 1 /\ key = NewTrans[i].txins[j].key
      BY <2>2 DEF Spends
    <3>2. PICK j \in DOMAIN NewTrans[i].txins : i > 1 /\ key = NewTrans[i].txins[j].key
      BY <3>1
    <3>3. i \in 1 .. Len(NewTrans) /\ i # 1
      BY <3>2, CommitShape
    <3>4. NewTrans[i].txins[j].key \in CreatedBy(blocks)
      BY <3>3, NewInputsUnspent
    <3> QED BY <3>2, <3>4, CommitKeys
  <2> QED BY <2>1, <2>2, CommitKeys
<1>3. pool' = pool
  BY CommitShape
<1>4. \A n \in DOMAIN pool' : pool'[n].txins # << >>
  BY <1>3, SpendingMeans
<1>5. \A c, d \in PlacesOf(blocks') : KeyOf(blocks', c) = KeyOf(blocks', d) => c = d
  BY CommitNoDoubleSpend
<1> QED BY <1>1, <1>2, <1>4, <1>5, SpendingMeans

(***************************************************************************)
(* The pool.                                                               *)
(***************************************************************************)
(* A transfer of a whole coin selects at least one output.                 *)
LEMMA WholeCoin ==
  ASSUME NEW amount \in Int, amount >= SATOSHI_PER_COIN,
         2 * (amount \div SATOSHI_PER_COIN) < INT32_MOD
  PROVE  Greater(amount, 0)
<1> DEFINE S == SATOSHI_PER_COIN
           M == INT32_MOD
<1>1. S \in Nat /\ S > 0 /\ M \in Nat /\ M > 0 /\ 2 * (amount \div S) < M
  BY SatoshiAssumption, Int32Assumption
<1> HIDE DEF S
<1>2. 0 \div S = 0
  BY <1>1
<1>3. amount \div S \in Int /\ amount >= S
  BY <1>1 DEF S
<1>4. amount \div S >= 1
  BY <1>1, <1>3
<1> HIDE DEF M
<1>5. Quotient(0) = 0 /\ Quotient(amount) = amount \div S
  BY <1>1, <1>2, <1>3 DEF Quotient, S
<1>6. \A n \in Nat : 2 * n < M => n % M = n
  BY <1>1
<1>7. Int32(0) = 0 /\ Int32(amount \div S) = amount \div S
  BY <1>1, <1>3, <1>4, <1>6 DEF Int32, M
<1> QED BY <1>3, <1>4, <1>5, <1>7 DEF Greater, Get

LEMMA TransferHasInput ==
  ASSUME WholeCoins, Linked,
         NEW sender \in DOMAIN wallets, NEW receiver \in DOMAIN wallets,
         NEW amount \in Amounts,
         ~ Greater(amount, Total(Selected(sender, amount)))
  PROVE  Signed(Transfer(sender, Selected(sender, amount), AddressOf(receiver), amount),
                wallets[sender]).txins # << >>
<1> DEFINE use == Selected(sender, amount)
           t == Signed(Transfer(sender, use, AddressOf(receiver), amount), wallets[sender])
<1>1. /\ amount \in Int /\ amount >= SATOSHI_PER_COIN
      /\ 2 * (amount \div SATOSHI_PER_COIN) < INT32_MOD
  BY NodeAssumption DEF WholeCoins
<1>2. IsSeq(utxouts) /\ DOMAIN utxouts = 1 .. Len(utxouts)
  BY SeqShape DEF Linked, TypeOK, UtxosTyped
<1>3. \A i \in 1 .. Len(utxouts) : utxouts[i].key.txout_index \in Nat /\ utxouts[i].amount \in Int
  BY <1>2 DEF Linked, TypeOK, UtxosTyped
<1>4. /\ IsSeq(use)
      /\ \A i \in 1 .. Len(use) : \E j \in 1 .. Len(utxouts) : use[i] = utxouts[j]
  BY <1>2, <1>3, SelectedShape
<1>5. AddressOf(sender) \in Addresses /\ AddressOf(receiver) \in Addresses
  BY DEF Linked, TypeOK, WalletsTyped, AddressOf, Addresses
<1> HIDE DEF use
<1>6. \A i \in 1 .. Len(use) : use[i].key.txout_index \in Nat /\ use[i].amount \in Int
  BY <1>3, <1>4
<1>7. Len(t.txins) = Len(use)
  BY <1>1, <1>4, <1>5, <1>6, TransferShape
<1>8. Len(use) # 0
  <2>1. SUFFICES ASSUME Len(use) = 0 PROVE FALSE
    OBVIOUS
  <2>2. Total(use) = 0
    BY <1>4, <1>6, <2>1, TotalsShape DEF Total
  <2> QED BY <1>1, <2>2, WholeCoin DEF use
<1> HIDE DEF t
<1>9. Len(t.txins) # Len(<< >>)
  BY <1>7, <1>8, EmptyShape
<1> QED BY <1>9 DEF t, use

LEMMA PurgeKeepsInputs ==
  ASSUME PoolTyped, NEW I, \A n \in DOMAIN pool : pool[n].txins # << >>
  PROVE  LET p == Subsequence(pool, I)
         IN  \A n \in DOMAIN p : p[n].txins # << >>
<1> DEFINE p == Subsequence(pool, I)
<1>1. IsSeq(pool) /\ DOMAIN pool = 1 .. Len(pool)
  BY SeqShape DEF PoolTyped
<1>2. IsSeq(p) /\ \A j \in 1 .. Len(p) : \E i \in 1 .. Len(pool) : i \in I /\ p[j] = pool[i]
  BY <1>1, SubsequenceShape
<1> HIDE DEF p
<1>3. DOMAIN p = 1 .. Len(p)
  BY <1>2, SeqShape
<1> QED BY <1>1, <1>2, <1>3 DEF p

(***************************************************************************)
(* The invariant and its theorems.                                         *)
(***************************************************************************)
LEMMA SpendingInit == Init => Spending
<1> SUFFICES ASSUME Init PROVE Spending
  OBVIOUS
<1>1. PICK ts \in Timestamps : ChainInit(ts)
  BY DEF Init
<1> DEFINE data == blocks[1].data
           t == data[1]
<1>2. /\ IsSeq(blocks) /\ Len(blocks) = 1 /\ IsSeq(data) /\ Len(data) = 1
      /\ IsTransaction(t) /\ Len(t.txins) = 1 /\ t.txins[1].key = TxoutKey(NoHash, 0)
      /\ utxouts = UpdateUnspentTxout(data, << >>) \/ utxouts = << >>
  BY <1>1, GenesisShape
<1>3. DOMAIN blocks = {1}
  <2>1. DOMAIN blocks = 1 .. 1
    BY <1>2, SeqShape
  <2> QED BY <2>1
<1>4. DOMAIN data = {1}
  <2> HIDE DEF data
  <2>1. DOMAIN data = 1 .. 1
    BY <1>2, SeqShape
  <2> QED BY <2>1
<1>5. DOMAIN t.txins = {1}
  <2>1. IsSeq(t.txins)
    BY <1>2 DEF IsTransaction
  <2> HIDE DEF t
  <2>2. DOMAIN t.txins = 1 .. 1
    BY <1>2, <2>1, SeqShape
  <2> QED BY <2>2
<1>6. ASSUME NEW i \in DOMAIN utxouts PROVE utxouts[i].key = TxoutKey(t.id, 0)
  <2> HIDE DEF data
  <2>1. \A n \in 1 .. Len(data) : IsTransaction(data[n])
    BY <1>2
  <2>2. utxouts # << >>
    BY EmptyShape
  <2> DEFINE u == UpdateUnspentTxout(data, << >>)
  <2>3. utxouts = u
    BY <1>2, <2>2
  <2>4. /\ IsSeq(u)
        /\ \A j \in 1 .. Len(u) :
             \/ \E k \in 1 .. Len(NewUnspent(data)) : u[j] = NewUnspent(data)[k]
             \/ \E k \in 1 .. Len(<< >>) :
                  << >>[k].key \notin SpentKeys(data) /\ u[j] = << >>[k]
    BY <1>2, <2>1, EmptyShape, UpdateShape
  <2> HIDE DEF u
  <2>5. i \in 1 .. Len(u)
    BY <2>3, <2>4, SeqShape
  <2>6. PICK k \in 1 .. Len(NewUnspent(data)) : u[i] = NewUnspent(data)[k]
    BY <2>4, <2>5, EmptyShape
  <2>7. \E n \in 1 .. Len(data) : \E m \in 1 .. Len(data[n].txouts) :
          NewUnspent(data)[k] = [key     |-> TxoutKey(data[n].id, n - 1),
                                 address |-> data[n].txouts[m].address,
                                 amount  |-> data[n].txouts[m].amount]
    BY <1>2, <2>1, NewUnspentShape
  <2>8. \E n \in 1 .. Len(data) : NewUnspent(data)[k].key = TxoutKey(data[n].id, n - 1)
    BY <2>7
  <2>9. NewUnspent(data)[k].key = TxoutKey(data[1].id, 0)
    BY <1>2, <2>8
  <2> QED BY <2>3, <2>6, <2>9
<1>7. TxoutKey(t.id, 0) \in CreatedBy(blocks)
  BY <1>3, <1>4, CreatedElement
<1>8. ASSUME NEW key \in KeysIn(blocks) PROVE key.tx_id = NoHash
  <2>1. key = t.txins[1].key
    BY <1>3, <1>4, <1>5, KeyElement
  <2> QED BY <1>2, <2>1 DEF TxoutKey
<1>9. TxoutKey(t.id, 0).tx_id = t.id /\ t.id # NoHash
  BY <1>2, DigestIsNotEmpty DEF TxoutKey
<1>10. TxoutKey(t.id, 0) \notin KeysIn(blocks)
  BY <1>8, <1>9
<1>11. \A key : key \notin SpentIn(blocks)
  BY <1>3, <1>4, KeyElement
<1>12. ASSUME NEW c \in PlacesOf(blocks) PROVE c = << 1, << 1, 1 >> >>
  BY <1>3, <1>4, <1>5, PlaceOf
<1>13. DOMAIN pool = {}
  BY EmptyShape DEF Init
<1> QED BY <1>6, <1>7, <1>10, <1>11, <1>12, <1>13, SpendingMeans

LEMMA SpendingStep ==
  ASSUME WholeCoins
  PROVE  Linked /\ Spending /\ [Next]_vars => Spending'
<1> SUFFICES ASSUME Linked, Spending, [Next]_vars PROVE Spending'
  OBVIOUS
<1>1. ASSUME blocks' = blocks, utxouts' = utxouts,
             \A n \in DOMAIN pool' : pool'[n].txins # << >>
      PROVE  Spending'
  BY <1>1, SpendingMeans
<1>2. \A n \in DOMAIN pool : pool[n].txins # << >>
  BY SpendingMeans
<1>3. ASSUME blocks' = blocks, utxouts' = utxouts, pool' = pool
      PROVE  Spending'
  BY <1>1, <1>2, <1>3
<1>4. ASSUME NEW name \in Names, CreateWallet(name) PROVE Spending'
  BY <1>3, <1>4 DEF CreateWallet
<1>5. ASSUME NEW name \in Names, NEW key \in Keys, CreateWalletFromKey(name, key)
      PROVE  Spending'
  BY <1>3, <1>5 DEF CreateWalletFromKey
<1>6. ASSUME NEW sender \in DOMAIN wallets, NEW receiver \in DOMAIN wallets,
             NEW amount \in Amounts,
             CreateTransaction(sender, AddressOf(receiver), amount)
      PROVE  Spending'
  <2> DEFINE t == Signed(Transfer(sender, Selected(sender, amount),
                                  AddressOf(receiver), amount), wallets[sender])
  <2>1. t.txins # << >>
    BY <1>6, TransferHasInput DEF CreateTransaction
  <2>2. pool' = Append(pool, t)
    BY <1>6 DEF CreateTransaction
  <2> HIDE DEF t
  <2>3. IsSeq(pool) /\ DOMAIN pool = 1 .. Len(pool) /\ Len(pool) \in Nat
    BY SeqShape DEF Linked, TypeOK, PoolTyped
  <2>4. /\ IsSeq(pool') /\ Len(pool') = Len(pool) + 1
        /\ \A i \in 1 .. Len(pool) : pool'[i] = pool[i]
        /\ pool'[Len(pool) + 1] = t
    BY <2>2, <2>3, AppendShape
  <2>5. DOMAIN pool' = 1 .. Len(pool) + 1
    BY <2>4, SeqShape
  <2>6. ASSUME NEW n \in DOMAIN pool' PROVE pool'[n].txins # << >>
    <3>1. CASE n \in 1 .. Len(pool)
      BY <1>2, <2>3, <2>4, <3>1
    <3>2. CASE n = Len(pool) + 1
      BY <2>1, <2>4, <3>2
    <3> QED BY <2>3, <2>5, <3>1, <3>2
  <2> QED BY <1>1, <1>6, <2>6 DEF CreateTransaction
<1>7. ASSUME NEW I, pool' = Subsequence(pool, I)
      PROVE  \A n \in DOMAIN pool' : pool'[n].txins # << >>
  BY <1>2, <1>7, PurgeKeepsInputs DEF Linked, TypeOK
<1>8. CASE ValidateTransPool
  BY <1>1, <1>7, <1>8 DEF ValidateTransPool
<1>9. CASE ValidateTransPoolAborts
  BY <1>1, <1>7, <1>9 DEF ValidateTransPoolAborts
<1>10. ASSUME NEW ts \in Timestamps, CommitBlock(ts) PROVE Spending'
  BY <1>10, CommitSpending
<1>11. ASSUME NEW ts \in Timestamps, CommitBlockHangs(ts) PROVE Spending'
  BY <1>3, <1>11 DEF CommitBlockHangs
<1>12. CASE UNCHANGED vars
  BY <1>3, <1>12 DEF vars
<1> QED BY <1>4, <1>5, <1>6, <1>8, <1>9, <1>10, <1>11, <1>12 DEF Next

(* What was spent is gone from the unspent outputs, and what is unspent    *)
(* was created in the chain, over any sequence of calls.                   *)
THEOREM HistoryKept == ASSUME WholeCoins PROVE Spec => []KeyHistory
<1>1. Linked /\ Spending => KeyHistory
  BY DEF Spending
<1>2. Linked /\ Spending /\ [Next]_vars => (Linked /\ Spending)'
  BY LinkedStep, SpendingStep
<1> QED BY <1>1, <1>2, LinkedInit, SpendingInit, PTL DEF Spec

(* No two inputs of the chain name one output, although block::validate    *)
(* compares only the inputs of one block with each other.                  *)
THEOREM SpentOnce == ASSUME WholeCoins PROVE Spec => []NoDoubleSpend
<1>1. Linked /\ Spending => NoDoubleSpend
  BY DEF Spending
<1>2. Linked /\ Spending /\ [Next]_vars => (Linked /\ Spending)'
  BY LinkedStep, SpendingStep
<1> QED BY <1>1, <1>2, LinkedInit, SpendingInit, PTL DEF Spec

(* After a block every waiting transaction has an input that is gone.      *)
LEMMA CommitMakesStale ==
  ASSUME Linked, Spending, NEW ts \in Timestamps, CommitBlock(ts), NEW n \in DOMAIN pool
  PROVE  \E i \in DOMAIN pool[n].txins : ~ Has(utxouts', pool[n].txins[i].key)
<1>1. Spending'
  BY CommitSpending
<1>2. /\ IsSeq(pool) /\ DOMAIN pool = 1 .. Len(pool) /\ Len(pool) \in Nat
      /\ IsTransaction(pool[n])
  BY SeqShape DEF Linked, TypeOK, PoolTyped
<1>3. /\ Len(NewTrans) = Len(pool) + 1
      /\ DOMAIN NewTrans = 1 .. Len(NewTrans)
      /\ \A i \in 2 .. Len(NewTrans) : NewTrans[i] = pool[i - 1]
  BY CommitShape
<1>4. IsSeq(pool[n].txins) /\ pool[n].txins # << >>
  BY <1>2, SpendingMeans DEF IsTransaction
<1>5. 1 \in DOMAIN pool[n].txins
  <2> DEFINE ins == pool[n].txins
  <2> HIDE DEF ins
  <2>1. DOMAIN ins = 1 .. Len(ins) /\ Len(ins) \in Nat /\ Len(ins) # 0
    BY <1>4, SeqShape DEF ins
  <2> QED BY <2>1 DEF ins
<1>6. NewTrans[n + 1] = pool[n] /\ n + 1 \in DOMAIN NewTrans
  <2>1. n + 1 \in 2 .. Len(NewTrans) /\ n + 1 - 1 = n
    BY <1>2, <1>3
  <2> QED BY <1>3, <2>1
<1>7. pool[n].txins[1].key \in SpentKeys(NewTrans)
  BY <1>5, <1>6, SpentElement
<1>8. pool[n].txins[1].key \in KeysIn(blocks')
  BY <1>7, CommitKeys
<1>9. \A i \in DOMAIN utxouts' : utxouts'[i].key # pool[n].txins[1].key
  BY <1>1, <1>8, SpendingMeans
<1>10. ~ Has(utxouts', pool[n].txins[1].key)
  BY <1>9 DEF Has
<1> QED BY <1>5, <1>10

(* So the next block cannot take it up again, although the pool is not     *)
(* emptied.                                                                *)
THEOREM MinedAreStale == ASSUME WholeCoins PROVE Spec => CommitLeavesPoolStale
<1>1. ASSUME Linked, Spending, [Next]_vars
      PROVE  blocks' # blocks => StaleIn(pool)' = DOMAIN pool'
  <2>1. SUFFICES ASSUME NEW ts \in Timestamps, CommitBlock(ts)
                 PROVE  StaleIn(pool)' = DOMAIN pool'
    BY <1>1 DEF Next, vars, CreateWallet, CreateWalletFromKey, CreateTransaction,
                ValidateTransPool, ValidateTransPoolAborts, CommitBlockHangs
  <2>2. pool' = pool
    BY <1>1, <2>1, CommitShape
  <2>3. ASSUME NEW n \in DOMAIN pool PROVE IsStale(pool[n])'
    <3>1. \E i \in DOMAIN pool[n].txins : ~ Has(utxouts', pool[n].txins[i].key)
      BY <1>1, <2>1, CommitMakesStale
    <3> QED BY <2>2, <3>1 DEF IsStale
  <2> QED BY <2>2, <2>3 DEF StaleIn
<1>2. Linked /\ Spending /\ [Next]_vars => (Linked /\ Spending)'
  BY LinkedStep, SpendingStep
<1> QED BY <1>1, <1>2, LinkedInit, SpendingInit, PTL DEF Spec, CommitLeavesPoolStale
=============================================================================
