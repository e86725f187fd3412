---------------------------- MODULE LedgerProofs ----------------------------
(***************************************************************************)
(* The node implements KeyLedger, for all values of the constants in which *)
(* callers transfer a whole coin or more; and the unspent outputs are what *)
(* the stored chain leaves, for all values of the constants.  Last, how    *)
(* the worth of outputs adds up, for PoolProofs.                           *)
(***************************************************************************)
EXTENDS SpendProofs

(* One sequence joined to nothing is itself.                               *)
LEMMA FlattenSingle ==
  ASSUME NEW ss, IsSeq(ss), Len(ss) = 1, IsSeq(ss[1])
  PROVE  FlattenSeq(ss) = ss[1]
<1> DEFINE S == Range(ss[1])
<1>1. ss[1] \in Seq(S)
  BY DEF IsSeq
<1> HIDE DEF S
<1>2. ss \in Seq(Seq(S))
  <2>1. \A i \in 1 .. Len(ss) : ss[i] \in Seq(S)
    BY <1>1
  <2> QED BY <2>1, SeqShape
<1>3. PICK g \in [0 .. Len(ss) -> Seq(S)] :
        /\ FlattenSeq(ss) = g[Len(ss)]
        /\ g[0] = << >>
        /\ \A k \in 1 .. Len(ss) : g[k] = g[k - 1] \o ss[k]
  <2>1. Len(ss) > 0
    OBVIOUS
  <2> QED BY <1>2, <2>1, FlattenUnfolds
<1>4. g[1] = << >> \o ss[1]
  <2>1. 1 \in 1 .. Len(ss) /\ 1 - 1 = 0
    OBVIOUS
  <2>2. g[1] = g[1 - 1] \o ss[1]
    BY <1>3, <2>1
  <2> QED BY <1>3, <2>1, <2>2
<1>5. << >> \o ss[1] = ss[1]
  BY <1>1
<1> QED BY <1>3, <1>4, <1>5

(* The genesis block is valid and leaves its output unspent.               *)
LEMMA GenesisUnspent ==
  ASSUME NEW ts \in Timestamps, ChainInit(ts)
  PROVE  utxouts # << >>
<1> DEFINE b == blocks[1]
           data == b.data
           t == data[1]
<1>1. /\ IsSeq(data) /\ Len(data) = 1 /\ IsTransaction(t)
      /\ Len(t.txins) = 1 /\ t.txins[1].key = TxoutKey(NoHash, 0) /\ b.index = 0
  BY GenesisShape
<1>2. blocks[1] = GenesisBlock(ts)
  BY DEF ChainInit
<1>3. t.txouts = << Txout(GetAddress(GenesisKey), GetCoinbase) >>
  <2> DEFINE outs == << Txout(GetAddress(GenesisKey), GetCoinbase) >>
  <2>1. GetGenesis.txouts = outs
    BY BuildShape DEF GetGenesis, GenerateCoinbase
  <2> HIDE DEF outs
  <2>2. t = GetGenesis
    BY <1>2 DEF GenesisBlock
  <2> HIDE DEF t
  <2> QED BY <2>1, <2>2 DEF outs
<1>4. Len(t.txouts) = 1 /\ t.txouts[1].amount = GetCoinbase
  <2> DEFINE out == Txout(GetAddress(GenesisKey), GetCoinbase)
  <2>1. out.amount = GetCoinbase
    BY DEF Txout
  <2> HIDE DEF out, t
  <2>2. t.txouts = << out >>
    BY <1>3 DEF out
  <2> QED BY <2>1, <2>2
<1>5. DOMAIN data = {1}
  <2> HIDE DEF data
  <2>1. DOMAIN data = 1 .. 1
    BY <1>1, SeqShape
  <2> QED BY <2>1
<1>6. DOMAIN t.txins = {1}
  <2>1. IsSeq(t.txins)
    BY <1>1 DEF IsTransaction
  <2> HIDE DEF t
  <2>2. DOMAIN t.txins = 1 .. 1
    BY <1>1, <2>1, SeqShape
  <2> QED BY <2>2
<1>7. BlockValidate(b, << >>)
  <2>1. data # << >>
    BY <1>5, EmptyShape
  <2>2. ValidateCoinbase(t, 0)
    <3>1. t.id = GenerateHash(t)
      BY <1>1 DEF IsTransaction
    <3>2. ~ NotEqual(GenerateHash(t), t.id)
      BY <3>1 DEF NotEqual
    <3>3. TxoutKey(NoHash, 0).txout_index = 0
      BY DEF TxoutKey
    <3> QED BY <1>1, <1>4, <3>2, <3>3 DEF ValidateCoinbase
  <2>3. \A p \in InputPlaces(data) : p = << 1, 1 >>
    BY <1>5, <1>6, InputPlace
  <2>4. NoDuplicateKey(data)
    BY <2>3 DEF NoDuplicateKey
  <2>5. 2 .. Len(data) = {}
    BY <1>1
  <2> QED BY <1>1, <2>1, <2>2, <2>4, <2>5 DEF BlockValidate
<1>8. utxouts = UpdateUnspentTxout(data, << >>)
  <2> HIDE DEF data
  <2> QED BY <1>2, <1>7 DEF ChainInit, data
<1>9. Len(NewUnspent(data)) = 1
  <2> DEFINE outs == [i \in DOMAIN data |-> OutputsOf(data[i], i)]
  <2>1. outs[1] = OutputsOf(t, 1)
    BY <1>5
  <2>2. DOMAIN outs = 1 .. 1
    BY <1>5
  <2>3. IsSeq(outs) /\ Len(outs) = 1
    BY <2>2, SeqOfFunction
  <2>4. IsSeq(OutputsOf(t, 1)) /\ Len(OutputsOf(t, 1)) = 1
    <3> HIDE DEF t
    <3> QED BY <1>1, <1>4, OutputsShape
  <2>5. NewUnspent(data) = FlattenSeq(outs)
    BY DEF NewUnspent
  <2> HIDE DEF outs, t, data
  <2> QED BY <2>1, <2>3, <2>4, <2>5, FlattenSingle
<1>10. Len(utxouts) # 0
  <2> DEFINE new == NewUnspent(data)
             old == Subsequence(<< >>, { i \in DOMAIN << >> :
                                           << >>[i].key \notin SpentKeys(data) })
  <2>1. utxouts = new \o old
    BY <1>8 DEF UpdateUnspentTxout
  <2>2. IsSeq(old) /\ Len(old) \in Nat
    BY EmptyShape, SubsequenceShape, SeqShape
  <2>3. IsSeq(new)
    <3> HIDE DEF data
    <3>1. \A n \in 1 .. Len(data) : IsTransaction(data[n])
      BY <1>1
    <3> QED BY <1>1, <3>1, NewUnspentShape
  <2> HIDE DEF new, old
  <2>4. Len(new \o old) = Len(new) + Len(old)
    BY <2>2, <2>3, ConcatShape
  <2> QED BY <1>9, <2>1, <2>2, <2>4 DEF new
<1> QED BY <1>10, EmptyShape

(* An old output whose key the block does not spend stays.                 *)
LEMMA UnspentStays ==
  ASSUME NEW data, IsSeq(data), \A n \in 1 .. Len(data) : IsTransaction(data[n]),
         NEW cache, IsSeq(cache),
         NEW k \in DOMAIN cache, cache[k].key \notin SpentKeys(data)
  PROVE  \E j \in DOMAIN UpdateUnspentTxout(data, cache) :
           UpdateUnspentTxout(data, cache)[j] = cache[k]
<1> DEFINE I == { i \in DOMAIN cache : cache[i].key \notin SpentKeys(data) }
           new == NewUnspent(data)
           old == Subsequence(cache, I)
           u == new \o old
<1>1. IsSeq(new)
  BY NewUnspentShape
<1>2. k \in I /\ k \in 1 .. Len(cache)
  BY SeqShape
<1> HIDE DEF I
<1>3. /\ IsSeq(old)
      /\ \A i \in 1 .. Len(cache) : i \in I => \E j \in 1 .. Len(old) : old[j] = cache[i]
  BY SubsequenceShape
<1>4. PICK j \in 1 .. Len(old) : old[j] = cache[k]
  BY <1>2, <1>3
<1> HIDE DEF new, old
<1>5. /\ IsSeq(u) /\ Len(u) = Len(new) + Len(old) /\ Len(new) \in Nat /\ Len(old) \in Nat
      /\ \A i \in 1 .. Len(new) + Len(old) :
           u[i] = IF i <= Len(new) THEN new[i] ELSE old[i - Len(new)]
  BY <1>1, <1>3, ConcatShape, SeqShape
<1> HIDE DEF u
<1>6. DOMAIN u = 1 .. Len(u)
  BY <1>5, SeqShape
<1>7. Len(new) + j \in DOMAIN u /\ u[Len(new) + j] = cache[k]
  <2>1. Len(new) + j \in 1 .. Len(new) + Len(old) /\ ~ (Len(new) + j <= Len(new))
    BY <1>5
  <2>2. Len(new) + j - Len(new) = j
    BY <1>5
  <2> QED BY <1>4, <1>5, <1>6, <2>1, <2>2
<1>8. UpdateUnspentTxout(data, cache) = u
  BY DEF UpdateUnspentTxout, u, new, old, I
<1> QED BY <1>7, <1>8

(***************************************************************************)
(* The refinement.                                                         *)
(***************************************************************************)
LEMMA LedgerKeys ==
  /\ UnspentKeys = { utxouts[i].key : i \in DOMAIN utxouts }
  /\ UnspentKeys' = { utxouts'[i].key : i \in DOMAIN utxouts' }
  /\ ChainSpent = SpentIn(blocks)
  /\ ChainSpent' = SpentIn(blocks')
<1>1. UnspentKeys = { utxouts[i].key : i \in DOMAIN utxouts }
  BY DEF UnspentKeys
<1>2. UnspentKeys' = { utxouts'[i].key : i \in DOMAIN utxouts' }
  BY DEF UnspentKeys
<1>3. ChainSpent = SpentIn(blocks)
  BY DEF ChainSpent, SpentIn, ChainInputs, PlacesOf, ChainKeyAt, KeyOf
<1>4. ChainSpent' = SpentIn(blocks')
  BY DEF ChainSpent, SpentIn, ChainInputs, PlacesOf, ChainKeyAt, KeyOf
<1> QED BY <1>1, <1>2, <1>3, <1>4

LEMMA LedgerInit == Init => Ledger!Init
<1> SUFFICES ASSUME Init PROVE Ledger!Init
  OBVIOUS
<1>1. PICK ts \in Timestamps : ChainInit(ts)
  BY DEF Init
<1>2. UnspentKeys # {}
  <2>1. utxouts # << >>
    BY <1>1, GenesisUnspent
  <2>2. IsSeq(utxouts)
    BY LinkedInit DEF Linked, TypeOK, UtxosTyped
  <2>3. DOMAIN utxouts = 1 .. Len(utxouts) /\ Len(utxouts) \in Nat /\ Len(utxouts) # 0
    BY <2>1, <2>2, SeqShape
  <2>4. 1 \in DOMAIN utxouts
    BY <2>3
  <2> QED BY <2>4, LedgerKeys
<1>3. ChainSpent = {}
  <2>1. SUFFICES ASSUME NEW key \in SpentIn(blocks) PROVE FALSE
    BY LedgerKeys
  <2>2. PICK n \in DOMAIN blocks : \E i \in DOMAIN blocks[n].data :
          \E j \in DOMAIN blocks[n].data[i].txins :
            i > 1 /\ key = blocks[n].data[i].txins[j].key
    BY <2>1, KeyElement
  <2>3. PICK i \in DOMAIN blocks[n].data : i > 1
    BY <2>2
  <2>4. IsSeq(blocks) /\ Len(blocks) = 1 /\ IsSeq(blocks[1].data) /\ Len(blocks[1].data) = 1
    BY <1>1, GenesisShape
  <2>5. n = 1
    <3>1. DOMAIN blocks = 1 .. 1
      BY <2>4, SeqShape
    <3> QED BY <3>1
  <2>6. DOMAIN blocks[1].data = 1 .. 1
    <3> DEFINE data == blocks[1].data
    <3> HIDE DEF data
    <3>1. IsSeq(data) /\ Len(data) = 1
      BY <2>4 DEF data
    <3>2. DOMAIN data = 1 .. 1
      BY <3>1, SeqShape
    <3> QED BY <3>2 DEF data
  <2> QED BY <2>3, <2>5, <2>6
<1> QED BY <1>2, <1>3 DEF Ledger!Init

LEMMA CreatedNotEmpty ==
  ASSUME Linked, NEW key \in CreatedBy(blocks)
  PROVE  key.tx_id # NoHash
<1>1. PICK m \in DOMAIN blocks : \E l \in DOMAIN blocks[m].data :
        key = TxoutKey(blocks[m].data[l].id, l - 1)
  BY CreatedElement
<1>2. PICK l \in DOMAIN blocks[m].data : key = TxoutKey(blocks[m].data[l].id, l - 1)
  BY <1>1
<1>3. IsTransaction(blocks[m].data[l])
  BY DEF Linked, TypeOK, BlocksTyped
<1>4. key.tx_id = blocks[m].data[l].id
  BY <1>2 DEF TxoutKey
<1> QED BY <1>3, <1>4, DigestIsNotEmpty

LEMMA LedgerStep ==
  ASSUME WholeCoins
  PROVE  Linked /\ Spending /\ [Next]_vars
           => [Ledger!Publish]_<< UnspentKeys, ChainSpent >>
<1> SUFFICES ASSUME Linked, Spending, [Next]_vars
             PROVE  [Ledger!Publish]_<< UnspentKeys, ChainSpent >>
  OBVIOUS
<1>1. ASSUME blocks' = blocks, utxouts' = utxouts
      PROVE  UNCHANGED << UnspentKeys, ChainSpent >>
  BY <1>1, LedgerKeys
<1>2. ASSUME NEW ts \in Timestamps, CommitBlock(ts)
      PROVE  Ledger!Publish
  <2>1. Spending'
    BY <1>2, CommitSpending
  <2>2. ASSUME NEW key \in ChainSpent PROVE key \in ChainSpent'
    BY <1>2, <2>2, LedgerKeys, CommitKeys
  <2>3. ASSUME NEW key \in ChainSpent', key \notin ChainSpent
        PROVE  key \in UnspentKeys
    <3>1. Spends(NewTrans, key)
      BY <1>2, <2>3, LedgerKeys, CommitKeys
    <3>2. PICK i \in DOMAIN NewTrans : \E j \in DOMAIN NewTrans[i].txins :
            i > 1 /\ key = NewTrans[i].txins[j].key
      BY <3>1 DEF Spends
    <3>3. PICK j \in DOMAIN NewTrans[i].txins : i > 1 /\ key = NewTrans[i].txins[j].key
      BY <3>2
    <3>4. i \in 1 .. Len(NewTrans) /\ i # 1
      BY <1>2, <3>3, CommitShape
    <3>5. Has(utxouts, key)
      BY <1>2, <3>3, <3>4, NewInputs
    <3> QED BY <3>5, LedgerKeys DEF Has
  <2>4. ASSUME NEW key \in UnspentKeys' PROVE key \notin ChainSpent'
    <3>1. PICK i \in DOMAIN utxouts' : key = utxouts'[i].key
      BY <2>4, LedgerKeys
    <3>2. key \notin KeysIn(blocks')
      BY <2>1, <3>1, SpendingMeans
    <3>3. key \in SpentIn(blocks') => key \in KeysIn(blocks')
      BY KeyElement
    <3> QED BY <3>2, <3>3, LedgerKeys
  <2>5. ASSUME NEW key \in UnspentKeys, key \notin ChainSpent'
        PROVE  key \in UnspentKeys'
    <3>1. PICK k \in DOMAIN utxouts : key = utxouts[k].key
      BY <2>5, LedgerKeys
    <3>2. key \notin SpentKeys(NewTrans)
      <4>1. SUFFICES ASSUME NEW i \in DOMAIN NewTrans, NEW j \in DOMAIN NewTrans[i].txins,
                            key = NewTrans[i].txins[j].key
                     PROVE  FALSE
        BY SpentElement
      <4>2. i \in 1 .. Len(NewTrans) /\ Len(NewTrans) \in Nat
        BY <1>2, <4>1, CommitShape
      <4>3. CASE i = 1
        <5>1. NewTrans[i].txins[j].key = TxoutKey(NoHash, Len(blocks))
          BY <1>2, <4>2, <4>3, NewInputs
        <5>2. key.tx_id = NoHash
          BY <4>1, <5>1 DEF TxoutKey
        <5>3. key \in CreatedBy(blocks)
          BY <3>1, SpendingMeans
        <5> QED BY <5>2, <5>3, CreatedNotEmpty
      <4>4. CASE i # 1
        <5>1. i > 1
          BY <4>2, <4>4
        <5>2. Spends(NewTrans, key)
          BY <4>1, <5>1 DEF Spends
        <5> QED BY <1>2, <2>5, <5>2, LedgerKeys, CommitKeys
      <4> QED BY <4>3, <4>4
    <3>3. /\ IsSeq(NewTrans) /\ \A n \in 1 .. Len(NewTrans) : IsTransaction(NewTrans[n])
          /\ utxouts' = UpdateUnspentTxout(NewTrans, utxouts)
      BY <1>2, CommitShape
    <3>4. IsSeq(utxouts)
      BY DEF Linked, TypeOK, UtxosTyped
    <3>5. \E j \in DOMAIN utxouts' : utxouts'[j] = utxouts[k]
      BY <3>1, <3>2, <3>3, <3>4, UnspentStays
    <3> QED BY <3>1, <3>5, LedgerKeys
  <2> QED BY <2>2, <2>3, <2>4, <2>5 DEF Ledger!Publish
<1>3. CASE \E ts \in Timestamps : CommitBlock(ts)
  BY <1>2, <1>3
<1>4. CASE blocks' = blocks /\ utxouts' = utxouts
  BY <1>1, <1>4
<1> QED BY <1>3, <1>4 DEF Next, vars, CreateWallet, CreateWalletFromKey, CreateTransaction,
                          ValidateTransPool, ValidateTransPoolAborts, CommitBlockHangs

(* Over any sequence of calls the keys of outputs are created, unspent and *)
(* then spent, once and in this order.                                     *)
THEOREM LedgerImplemented == ASSUME WholeCoins PROVE Spec => LedgerSpec
<1>1. Linked /\ Spending /\ [Next]_vars => (Linked /\ Spending)'
  BY LinkedStep, SpendingStep
<1> QED BY <1>1, LinkedInit, SpendingInit, LedgerInit, LedgerStep, PTL
        DEF Spec, LedgerSpec, Ledger!Spec

(***************************************************************************)
(* What is left of a vector of outputs when keys are spent.                *)
(***************************************************************************)
Kept(s, K) == { i \in DOMAIN s : s[i].key \notin K }
Without(s, K) == Subsequence(s, Kept(s, K))

(* A set of sequences over S closed under one element more has them all.   *)
LEMMA SeqInduction ==
  ASSUME NEW S, NEW P, << >> \in P, \A r \in P : \A e \in S : Append(r, e) \in P,
         NEW s \in Seq(S)
  PROVE  s \in P
<1>1. IsSeq(s)
  BY IsSeqOf
<1>2. \A k \in 1 .. Len(s) : s[k] \in S
  BY ElementOfSeq
<1> QED BY <1>1, <1>2, AlongSeq

LEMMA WithoutTyped ==
  ASSUME NEW S, NEW s \in Seq(S), NEW K
  PROVE  Without(s, K) \in Seq(S)
BY SubsequenceProperties DEF Without

LEMMA WithoutEmpty ==
  ASSUME NEW K
  PROVE  Without(<< >>, K) = << >>
BY SubsequenceEmpty DEF Without

LEMMA WithoutAppend ==
  ASSUME NEW S, NEW s \in Seq(S), NEW e \in S, NEW K
  PROVE  Without(Append(s, e), K)
           = IF e.key \in K THEN Without(s, K) ELSE Append(Without(s, K), e)
<1> DEFINE r == Append(s, e)
<1>1. /\ Len(s) \in Nat /\ DOMAIN s = 1 .. Len(s) /\ DOMAIN r = 1 .. Len(s) + 1
      /\ (\A i \in 1 .. Len(s) : r[i] = s[i]) /\ r[Len(s) + 1] = e
  <2>1. r \in Seq(S) /\ Len(r) = Len(s) + 1
    BY AppendProperties
  <2>2. DOMAIN s = 1 .. Len(s) /\ DOMAIN r = 1 .. Len(r) /\ Len(s) \in Nat
    BY <2>1, LenProperties
  <2> QED BY <2>1, <2>2, AppendProperties
<1> HIDE DEF r
<1>2. \A i \in 1 .. Len(s) : i \in Kept(s, K) <=> i \in Kept(r, K)
  BY <1>1 DEF Kept
<1>3. Len(s) + 1 \in Kept(r, K) <=> e.key \notin K
  BY <1>1 DEF Kept
<1>4. IsSeq(s)
  BY IsSeqOf
<1>5. Subsequence(r, Kept(r, K))
        = IF Len(s) + 1 \in Kept(r, K) THEN Append(Subsequence(s, Kept(s, K)), e)
          ELSE Subsequence(s, Kept(s, K))
  <2>1. PICK I, J : I = Kept(s, K) /\ J = Kept(r, K)
    OBVIOUS
  <2>2. \A i \in 1 .. Len(s) : i \in I <=> i \in J
    BY <1>2, <2>1
  <2>3. Subsequence(Append(s, e), J)
          = IF Len(s) + 1 \in J THEN Append(Subsequence(s, I), e) ELSE Subsequence(s, I)
    BY <1>4, <2>2, SubsequenceAppend
  <2> QED BY <2>1, <2>3 DEF r
<1> QED BY <1>3, <1>5 DEF Without, r

LEMMA ConcatAppend ==
  ASSUME NEW S, NEW s \in Seq(S), NEW t \in Seq(S), NEW e \in S
  PROVE  s \o Append(t, e) = Append(s \o t, e)
<1> DEFINE l == s \o Append(t, e)
           r == Append(s \o t, e)
<1>1. /\ Len(s) \in Nat /\ Len(t) \in Nat
      /\ s \o t \in Seq(S) /\ Len(s \o t) = Len(s) + Len(t)
      /\ Append(t, e) \in Seq(S) /\ Len(Append(t, e)) = Len(t) + 1
  BY LenProperties, ConcatProperties, AppendProperties
<1>2. /\ l \in Seq(S) /\ Len(l) = Len(s) + Len(t) + 1
      /\ \A i \in 1 .. Len(s) + Len(t) + 1 :
           l[i] = IF i <= Len(s) THEN s[i] ELSE Append(t, e)[i - Len(s)]
  <2>1. PICK u : u = Append(t, e)
    OBVIOUS
  <2>2. u \in Seq(S) /\ Len(u) = Len(t) + 1
    BY <1>1, <2>1
  <2>3. /\ s \o u \in Seq(S) /\ Len(s \o u) = Len(s) + Len(u)
        /\ \A i \in 1 .. Len(s) + Len(u) :
             (s \o u)[i] = IF i <= Len(s) THEN s[i] ELSE u[i - Len(s)]
    BY <2>2, ConcatProperties
  <2>4. Len(s) + Len(u) = Len(s) + Len(t) + 1
    BY <1>1, <2>2
  <2> QED BY <2>1, <2>3, <2>4
<1>3. /\ r \in Seq(S) /\ Len(r) = Len(s) + Len(t) + 1
      /\ \A i \in 1 .. Len(s) + Len(t) : r[i] = (s \o t)[i]
      /\ r[Len(s) + Len(t) + 1] = e
  BY <1>1, AppendProperties
<1>4. /\ \A i \in 1 .. Len(t) : Append(t, e)[i] = t[i]
      /\ Append(t, e)[Len(t) + 1] = e
  BY AppendProperties
<1>5. \A i \in 1 .. Len(s) + Len(t) :
        (s \o t)[i] = IF i <= Len(s) THEN s[i] ELSE t[i - Len(s)]
  BY ConcatProperties
<1> HIDE DEF l, r
<1>6. ASSUME NEW i \in 1 .. Len(s) + Len(t) + 1 PROVE l[i] = r[i]
  <2>1. CASE i = Len(s) + Len(t) + 1
    BY <1>1, <1>2, <1>3, <1>4, <2>1
  <2>2. CASE i \in 1 .. Len(s)
    <3>1. i <= Len(s) /\ i \in 1 .. Len(s) + Len(t)
      BY <1>1, <2>2
    <3> QED BY <1>2, <1>3, <1>5, <3>1
  <2>3. CASE i \in Len(s) + 1 .. Len(s) + Len(t)
    <3>1. i - Len(s) \in 1 .. Len(t) /\ ~ (i <= Len(s)) /\ i \in 1 .. Len(s) + Len(t)
      BY <1>1, <2>3
    <3>2. l[i] = t[i - Len(s)]
      BY <1>2, <1>4, <3>1
    <3>3. r[i] = t[i - Len(s)]
      BY <1>3, <1>5, <3>1
    <3> QED BY <3>2, <3>3
  <2> QED BY <1>1, <2>1, <2>2, <2>3
<1>7. l = r
  BY <1>2, <1>3, <1>6, SeqEqual
<1> QED BY <1>7 DEF l, r

(* Spending distributes over joining, and twice over is over both.         *)
LEMMA WithoutConcat ==
  ASSUME NEW S, NEW s \in Seq(S), NEW t \in Seq(S), NEW K
  PROVE  Without(s \o t, K) = Without(s, K) \o Without(t, K)
<1> DEFINE P == { r \in Seq(S) : Without(s \o r, K) = Without(s, K) \o Without(r, K) }
<1>1. << >> \in P
  <2>1. << >> \in Seq(S) /\ s \o << >> = s
    BY EmptySeq, ConcatEmptySeq
  <2>2. Without(s, K) \in Seq(S)
    BY WithoutTyped
  <2>3. Without(s, K) \o << >> = Without(s, K)
    BY <2>2, ConcatEmptySeq
  <2> QED BY <2>1, <2>3, WithoutEmpty
<1>2. ASSUME NEW r \in P, NEW e \in S PROVE Append(r, e) \in P
  <2>1. r \in Seq(S) /\ Append(r, e) \in Seq(S) /\ s \o r \in Seq(S)
    BY AppendProperties, ConcatProperties
  <2>2. s \o Append(r, e) = Append(s \o r, e)
    BY <2>1, ConcatAppend
  <2>3. Without(s, K) \in Seq(S) /\ Without(r, K) \in Seq(S)
    BY <2>1, WithoutTyped
  <2>4. Without(Append(s \o r, e), K)
          = IF e.key \in K THEN Without(s \o r, K) ELSE Append(Without(s \o r, K), e)
    BY <2>1, WithoutAppend, ZenonT(60)
  <2>5. Without(Append(r, e), K)
          = IF e.key \in K THEN Without(r, K) ELSE Append(Without(r, K), e)
    BY <2>1, WithoutAppend, ZenonT(60)
  <2>6. Without(s, K) \o Append(Without(r, K), e) = Append(Without(s, K) \o Without(r, K), e)
    BY <2>3, ConcatAppend
  <2>7. Without(s \o r, K) = Without(s, K) \o Without(r, K)
    OBVIOUS
  <2>8. Without(s \o Append(r, e), K) = Without(s, K) \o Without(Append(r, e), K)
    BY <2>2, <2>4, <2>5, <2>6, <2>7
  <2> QED BY <2>1, <2>8
<1>3. t \in P
  <2> HIDE DEF P
  <2> QED BY <1>1, <1>2, SeqInduction
<1> QED BY <1>3

LEMMA WithoutTwice ==
  ASSUME NEW S, NEW s \in Seq(S), NEW K, NEW M
  PROVE  Without(Without(s, K), M) = Without(s, K \cup M)
<1> DEFINE P == { r \in Seq(S) : Without(Without(r, K), M) = Without(r, K \cup M) }
<1>1. << >> \in P
  BY EmptySeq, WithoutEmpty
<1>2. ASSUME NEW r \in P, NEW e \in S PROVE Append(r, e) \in P
  <2>1. r \in Seq(S) /\ Append(r, e) \in Seq(S) /\ Without(r, K) \in Seq(S)
    BY AppendProperties, WithoutTyped
  <2>2. Without(Append(r, e), K)
          = IF e.key \in K THEN Without(r, K) ELSE Append(Without(r, K), e)
    BY <2>1, WithoutAppend, ZenonT(60)
  <2>3. Without(Append(Without(r, K), e), M)
          = IF e.key \in M THEN Without(Without(r, K), M)
            ELSE Append(Without(Without(r, K), M), e)
    <3>1. PICK w : w = Without(r, K)
      OBVIOUS
    <3>2. w \in Seq(S)
      BY <2>1, <3>1
    <3>3. Without(Append(w, e), M)
            = IF e.key \in M THEN Without(w, M) ELSE Append(Without(w, M), e)
      BY <3>2, WithoutAppend
    <3> QED BY <3>1, <3>3
  <2>4. Without(Append(r, e), K \cup M)
          = IF e.key \in K \cup M THEN Without(r, K \cup M)
            ELSE Append(Without(r, K \cup M), e)
    BY <2>1, WithoutAppend, ZenonT(60)
  <2>5. Without(Without(r, K), M) = Without(r, K \cup M)
    OBVIOUS
  <2>6. Without(Without(Append(r, e), K), M) = Without(Append(r, e), K \cup M)
    BY <2>2, <2>3, <2>4, <2>5
  <2> QED BY <2>1, <2>6
<1>3. s \in P
  <2> HIDE DEF P
  <2> QED BY <1>1, <1>2, SeqInduction
<1> QED BY <1>3

LEMMA WithoutNone ==
  ASSUME NEW S, NEW s \in Seq(S)
  PROVE  Without(s, {}) = s
<1> DEFINE P == { r \in Seq(S) : Without(r, {}) = r }
<1>1. << >> \in P
  BY EmptySeq, WithoutEmpty
<1>2. ASSUME NEW r \in P, NEW e \in S PROVE Append(r, e) \in P
  <2>1. r \in Seq(S) /\ Append(r, e) \in Seq(S) /\ Without(r, {}) = r
    BY AppendProperties
  <2>2. Without(Append(r, e), {})
          = IF e.key \in {} THEN Without(r, {}) ELSE Append(Without(r, {}), e)
    BY <2>1, WithoutAppend, ZenonT(60)
  <2> QED BY <2>1, <2>2
<1>3. s \in P
  <2> HIDE DEF P
  <2> QED BY <1>1, <1>2, SeqInduction
<1> QED BY <1>3

(* The recursive function inside FlattenSeq, for no sequences as well.     *)
LEMMA FlattenSteps ==
  ASSUME NEW S, NEW ss \in Seq(Seq(S))
  PROVE  \E g \in [0 .. Len(ss) -> Seq(S)] :
           /\ FlattenSeq(ss) = g[Len(ss)]
           /\ g[0] = << >>
           /\ \A k \in 1 .. Len(ss) : g[k] = g[k - 1] \o ss[k]
<1>1. Len(ss) \in Nat
  BY LenProperties
<1>2. CASE Len(ss) > 0
  BY <1>2, FlattenUnfolds
<1>3. CASE Len(ss) = 0
  <2>1. FlattenSeq(ss) = << >>
    <3>1. ss = << >>
      BY <1>3, EmptySeq
    <3> QED BY <1>3, <3>1 DEF FlattenSeq
  <2>2. PICK g : g = [k \in 0 .. Len(ss) |-> << >>]
    OBVIOUS
  <2>3. g \in [0 .. Len(ss) -> Seq(S)] /\ g[Len(ss)] = << >> /\ g[0] = << >>
    BY <1>3, <2>2, EmptySeq
  <2>4. \A k \in 1 .. Len(ss) : g[k] = g[k - 1] \o ss[k]
    BY <1>3
  <2> QED BY <2>1, <2>3, <2>4
<1>4. Len(ss) > 0 \/ Len(ss) = 0
  BY <1>1
<1> QED BY <1>2, <1>3, <1>4

LEMMA FlattenWithout ==
  ASSUME NEW S, NEW ss \in Seq(Seq(S)), NEW tt \in Seq(Seq(S)), NEW K
  PROVE  Len(tt) = Len(ss) /\ (\A k \in 1 .. Len(ss) : tt[k] = Without(ss[k], K))
           => FlattenSeq(tt) = Without(FlattenSeq(ss), K)
<1> DEFINE n == Len(ss)
<1>8. \A a, b \in Seq(S) : Without(a \o b, K) = Without(a, K) \o Without(b, K)
  <2>1. TAKE a, b \in Seq(S)
  <2> QED BY WithoutConcat
<1>1. n \in Nat /\ \A k \in 1 .. n : ss[k] \in Seq(S)
  BY LenProperties, ElementOfSeq
<1>2. PICK g \in [0 .. Len(ss) -> Seq(S)] :
        /\ FlattenSeq(ss) = g[Len(ss)]
        /\ g[0] = << >>
        /\ \A k \in 1 .. Len(ss) : g[k] = g[k - 1] \o ss[k]
  BY FlattenSteps
<1>3. PICK h \in [0 .. Len(tt) -> Seq(S)] :
        /\ FlattenSeq(tt) = h[Len(tt)]
        /\ h[0] = << >>
        /\ \A k \in 1 .. Len(tt) : h[k] = h[k - 1] \o tt[k]
  BY FlattenSteps
<1> SUFFICES ASSUME Len(tt) = n, \A k \in 1 .. n : tt[k] = Without(ss[k], K)
             PROVE  FlattenSeq(tt) = Without(FlattenSeq(ss), K)
  OBVIOUS
<1> DEFINE T == { k \in 0 .. n : h[k] = Without(g[k], K) }
<1>4. 0 \in T
  BY <1>1, <1>2, <1>3, WithoutEmpty
<1>5. ASSUME NEW k \in 1 .. n, k - 1 \in T PROVE k \in T
  <2>1. g[k] = g[k - 1] \o ss[k] /\ h[k] = h[k - 1] \o tt[k]
    BY <1>2, <1>3
  <2>2. h[k - 1] = Without(g[k - 1], K) /\ tt[k] = Without(ss[k], K)
    BY <1>5
  <2>3. Without(g[k - 1] \o ss[k], K) = Without(g[k - 1], K) \o Without(ss[k], K)
    <3>1. g[k - 1] \in Seq(S) /\ ss[k] \in Seq(S)
      <4>1. k - 1 \in 0 .. Len(ss)
        BY <1>1
      <4> QED BY <1>1, <4>1
    <3> QED BY <1>8, <3>1
  <2>4. h[k] = Without(g[k], K)
    BY <2>1, <2>2, <2>3
  <2> QED BY <1>1, <2>4
<1>6. n \in T
  <2> HIDE DEF T
  <2>1. \A k \in 0 .. n : k \in T
    <3> HIDE DEF n
    <3> QED BY <1>1, <1>4, <1>5, UpTo
  <2> HIDE DEF n
  <2>2. n \in 0 .. n
    BY <1>1
  <2> QED BY <2>1, <2>2
<1>7. h[n] = Without(g[n], K)
  BY <1>6
<1> QED BY <1>2, <1>3, <1>7

LEMMA FlattenPrepend ==
  ASSUME NEW S, NEW ss \in Seq(Seq(S)), NEW pp \in Seq(Seq(S)), NEW first \in Seq(S)
  PROVE  /\ Len(pp) = Len(ss) + 1
         /\ pp[1] = first
         /\ \A k \in 1 .. Len(ss) : pp[k + 1] = ss[k]
         => FlattenSeq(pp) = first \o FlattenSeq(ss)
<1> DEFINE n == Len(ss)
<1>1. n \in Nat /\ \A k \in 1 .. n : ss[k] \in Seq(S)
  BY LenProperties, ElementOfSeq
<1>2. PICK g \in [0 .. Len(ss) -> Seq(S)] :
        /\ FlattenSeq(ss) = g[Len(ss)]
        /\ g[0] = << >>
        /\ \A k \in 1 .. Len(ss) : g[k] = g[k - 1] \o ss[k]
  BY FlattenSteps
<1>3. PICK h \in [0 .. Len(pp) -> Seq(S)] :
        /\ FlattenSeq(pp) = h[Len(pp)]
        /\ h[0] = << >>
        /\ \A k \in 1 .. Len(pp) : h[k] = h[k - 1] \o pp[k]
  BY FlattenSteps
<1>8. \A a, b \in Seq(S) : (first \o a) \o b = first \o (a \o b)
  BY ConcatAssociative, SMTT(30)
<1>9. \A m \in Nat : \A k \in 1 .. m : k + 1 \in 1 .. m + 1 /\ (k + 1) - 1 = k
  OBVIOUS
<1> SUFFICES ASSUME Len(pp) = n + 1, pp[1] = first, \A k \in 1 .. n : pp[k + 1] = ss[k]
             PROVE  FlattenSeq(pp) = first \o FlattenSeq(ss)
  OBVIOUS
<1> DEFINE T == { k \in 0 .. n : h[k + 1] = first \o g[k] }
<1>4. 0 \in T
  <2>1. h[1] = h[0] \o pp[1]
    <3>1. 1 \in 1 .. Len(pp) /\ 1 - 1 = 0
      BY <1>1
    <3>2. h[1] = h[1 - 1] \o pp[1]
      BY <1>3, <3>1
    <3> QED BY <3>1, <3>2
  <2>2. << >> \o first = first /\ first \o << >> = first
    BY ConcatEmptySeq
  <2>3. h[0 + 1] = first \o g[0]
    BY <1>2, <1>3, <2>1, <2>2
  <2> QED BY <1>1, <2>3
<1>5. ASSUME NEW k \in 1 .. n, k - 1 \in T PROVE k \in T
  <2>1. g[k] = g[k - 1] \o ss[k]
    BY <1>2
  <2>2. h[k + 1] = h[k] \o pp[k + 1]
    <3>1. k + 1 \in 1 .. Len(pp) /\ (k + 1) - 1 = k
      BY <1>1, <1>9
    <3>2. h[k + 1] = h[(k + 1) - 1] \o pp[k + 1]
      BY <1>3, <3>1
    <3> QED BY <3>1, <3>2
  <2>3. h[k] = first \o g[k - 1] /\ pp[k + 1] = ss[k]
    <3>1. h[(k - 1) + 1] = first \o g[k - 1] /\ (k - 1) + 1 = k
      BY <1>1, <1>5, SMTT(30)
    <3> QED BY <3>1
  <2>4. (first \o g[k - 1]) \o ss[k] = first \o (g[k - 1] \o ss[k])
    <3>1. g[k - 1] \in Seq(S) /\ ss[k] \in Seq(S)
      <4>1. k - 1 \in 0 .. Len(ss)
        BY <1>1
      <4> QED BY <1>1, <4>1
    <3> QED BY <1>8, <3>1
  <2>5. h[k + 1] = first \o g[k]
    BY <2>1, <2>2, <2>3, <2>4
  <2>6. k \in 0 .. n
    <3> HIDE DEF n
    <3> QED BY <1>1
  <2> QED BY <2>5, <2>6, Zenon
<1>6. n \in T
  <2> HIDE DEF T
  <2>1. \A k \in 0 .. n : k \in T
    <3> HIDE DEF n
    <3> QED BY <1>1, <1>4, <1>5, UpTo
  <2> HIDE DEF n
  <2>2. n \in 0 .. n
    BY <1>1
  <2> QED BY <2>1, <2>2
<1>7. h[n + 1] = first \o g[n]
  BY <1>6
<1> QED BY <1>2, <1>3, <1>7

(* The replay of a chain, of which UtxosMatchChain speaks, for any chain.  *)
SpentFrom(bs, n) == UNION { SpentKeys(bs[m].data) : m \in n + 1 .. Len(bs) }
Left(bs, n) == Without(NewUnspent(bs[n].data), SpentFrom(bs, n))
Replay(bs) == FlattenSeq([k \in DOMAIN bs |-> Left(bs, Len(bs) + 1 - k)])

LEMMA UpdateIsWithout ==
  ASSUME NEW data, NEW cache
  PROVE  UpdateUnspentTxout(data, cache) = NewUnspent(data) \o Without(cache, SpentKeys(data))
BY DEF UpdateUnspentTxout, Without, Kept

LEMMA MatchIsReplay ==
  /\ UtxosMatchChain <=> utxouts = Replay(blocks)
  /\ UtxosMatchChain' <=> utxouts' = Replay(blocks')
BY DEF UtxosMatchChain, LeftFrom, SpentAfter, Replay, Left, SpentFrom, Without, Kept

(* One block more puts its outputs first and takes its keys from the rest. *)
LEMMA ReplayGrows ==
  ASSUME NEW n \in Nat, NEW old, NEW new, IsSeq(old), IsSeq(new),
         Len(old) = n, Len(new) = n + 1, \A m \in 1 .. n : new[m] = old[m],
         \A m \in 1 .. n + 1 : IsSeq(NewUnspent(new[m].data))
  PROVE  Replay(new) = NewUnspent(new[n + 1].data)
                         \o Without(Replay(old), SpentKeys(new[n + 1].data))
<1> DEFINE Created(m) == NewUnspent(new[m].data)
           K == SpentKeys(new[n + 1].data)
           R == UNION { Range(Created(m)) : m \in 1 .. n + 1 }
           ss == [k \in DOMAIN old |-> Left(old, Len(old) + 1 - k)]
           pp == [k \in DOMAIN new |-> Left(new, Len(new) + 1 - k)]
           tt == [k \in 1 .. n |-> Without(ss[k], K)]
<1>1. PICK S : S = R
  OBVIOUS
<1>2. ASSUME NEW m \in 1 .. n + 1 PROVE Created(m) \in Seq(S)
  <2> DEFINE c == Created(m)
  <2>1. c \in Seq(Range(c))
    BY DEF IsSeq
  <2>2. Range(c) \subseteq S
    BY <1>1
  <2> HIDE DEF c
  <2>3. c \in Seq(S)
    BY <2>1, <2>2, SeqMonotonic
  <2> QED BY <2>3 DEF c
<1>3. DOMAIN old = 1 .. n /\ DOMAIN new = 1 .. n + 1
  BY SeqShape
<1>4. \A m \in 1 .. n : SpentFrom(new, m) = SpentFrom(old, m) \cup K
  <2>1. SUFFICES ASSUME NEW m \in 1 .. n, NEW x
                 PROVE  x \in SpentFrom(new, m) <=> x \in SpentFrom(old, m) \cup K
    BY Zenon
  <2>2. x \in SpentFrom(new, m) <=> \E l \in m + 1 .. n + 1 : x \in SpentKeys(new[l].data)
    BY DEF SpentFrom
  <2>3. x \in SpentFrom(old, m) <=> \E l \in m + 1 .. n : x \in SpentKeys(old[l].data)
    BY DEF SpentFrom
  <2>4. \A l : l \in m + 1 .. n + 1 <=> l \in m + 1 .. n \/ l = n + 1
    OBVIOUS
  <2>5. \A l \in m + 1 .. n : new[l] = old[l]
    OBVIOUS
  <2> QED BY <2>2, <2>3, <2>4, <2>5, Zenon
<1>5. SpentFrom(new, n + 1) = {}
  BY DEF SpentFrom
<1>6. \A m \in 1 .. n : Left(new, m) = Without(Left(old, m), K) /\ Left(old, m) \in Seq(S)
  <2>1. TAKE m \in 1 .. n
  <2>2. PICK c : c = NewUnspent(new[m].data)
    OBVIOUS
  <2>3. c \in Seq(S) /\ new[m] = old[m]
    BY <1>2, <2>2
  <2>4. Left(new, m) = Without(c, SpentFrom(old, m) \cup K)
    BY <1>4, <2>2 DEF Left
  <2>5. Left(old, m) = Without(c, SpentFrom(old, m))
    BY <2>2, <2>3 DEF Left
  <2> HIDE DEF K
  <2>6. Without(Without(c, SpentFrom(old, m)), K) = Without(c, SpentFrom(old, m) \cup K)
    BY <2>3, WithoutTwice
  <2>7. Without(c, SpentFrom(old, m)) \in Seq(S)
    BY <2>3, WithoutTyped
  <2> QED BY <2>4, <2>5, <2>6, <2>7
<1>7. Left(new, n + 1) = Created(n + 1)
  <2>1. PICK c : c = Created(n + 1)
    OBVIOUS
  <2>2. c \in Seq(S)
    BY <1>2, <2>1
  <2>3. Without(c, {}) = c
    BY <2>2, WithoutNone
  <2> QED BY <1>5, <2>1, <2>3 DEF Left
<1>8. /\ ss = [k \in 1 .. n |-> ss[k]] /\ \A k \in 1 .. n : ss[k] = Left(old, n + 1 - k)
      /\ tt = [k \in 1 .. n |-> tt[k]] /\ \A k \in 1 .. n : tt[k] = Without(ss[k], K)
      /\ pp = [k \in 1 .. n + 1 |-> pp[k]]
      /\ \A k \in 1 .. n + 1 : pp[k] = Left(new, n + 2 - k)
  <2>1. Len(old) + 1 = n + 1 /\ Len(new) + 1 = n + 2
    OBVIOUS
  <2> QED BY <1>3, <2>1
<1>9. DOMAIN ss = 1 .. n /\ DOMAIN tt = 1 .. n /\ DOMAIN pp = 1 .. n + 1
  BY <1>3
<1>10. Replay(old) = FlattenSeq(ss) /\ Replay(new) = FlattenSeq(pp)
  BY DEF Replay
<1> HIDE DEF ss, tt, pp, K
<1>11. \A k \in 1 .. n : /\ n + 1 - k \in 1 .. n
                          /\ n + 2 - (k + 1) = n + 1 - k
                          /\ k + 1 \in 1 .. n + 1
  OBVIOUS
<1>12. \A k \in 1 .. n : ss[k] \in Seq(S) /\ pp[k + 1] = tt[k]
  <2>1. TAKE k \in 1 .. n
  <2>2. PICK m : m = n + 1 - k
    OBVIOUS
  <2>3. m \in 1 .. n
    BY <1>11, <2>2
  <2>4. pp[k + 1] = Left(new, m)
    <3>1. pp[k + 1] = Left(new, n + 2 - (k + 1))
      BY <1>8, <1>11
    <3> QED BY <1>11, <2>2, <3>1
  <2>5. ss[k] = Left(old, m) /\ tt[k] = Without(ss[k], K)
    BY <1>8, <2>2
  <2> QED BY <1>6, <2>3, <2>4, <2>5
<1>13. \A k \in 1 .. n : tt[k] \in Seq(S)
  <2>1. TAKE k \in 1 .. n
  <2>2. PICK c : c = ss[k]
    OBVIOUS
  <2>3. c \in Seq(S)
    BY <1>12, <2>2
  <2>4. Without(c, K) \in Seq(S)
    BY <2>3, WithoutTyped
  <2> QED BY <1>8, <2>2, <2>4
<1>14. pp[1] = Created(n + 1) /\ Created(n + 1) \in Seq(S)
  <2>1. 1 \in 1 .. n + 1 /\ n + 2 - 1 = n + 1 /\ n + 1 \in 1 .. n + 1
    OBVIOUS
  <2>2. pp[1] = Left(new, n + 2 - 1)
    BY <1>8, <2>1
  <2>3. pp[1] = Left(new, n + 1)
    BY <2>1, <2>2
  <2> QED BY <1>2, <1>7, <2>1, <2>3
<1>15. /\ ss \in Seq(Seq(S)) /\ Len(ss) = n
       /\ tt \in Seq(Seq(S)) /\ Len(tt) = n
       /\ pp \in Seq(Seq(S)) /\ Len(pp) = n + 1
  <2>1. IsSeq(ss) /\ Len(ss) = n /\ IsSeq(tt) /\ Len(tt) = n
    BY <1>8, <1>9, SeqOfFunction
  <2>2. IsSeq(pp) /\ Len(pp) = n + 1
    BY <1>8, <1>9, SeqOfFunction
  <2>3. ss \in Seq(Seq(S))
    BY <1>12, <2>1, SeqShape
  <2>4. tt \in Seq(Seq(S))
    BY <1>13, <2>1, SeqShape
  <2>5. \A k \in 1 .. n + 1 : pp[k] \in Seq(S)
    <3>1. TAKE k \in 1 .. n + 1
    <3>2. CASE k = 1
      BY <1>14, <3>2
    <3>3. CASE k # 1
      <4>1. PICK l : l = k - 1
        OBVIOUS
      <4>2. l \in 1 .. n /\ l + 1 = k
        BY <3>3, <4>1
      <4> QED BY <1>12, <1>13, <4>2
    <3> QED BY <3>2, <3>3
  <2>6. pp \in Seq(Seq(S))
    BY <2>2, <2>5, SeqShape
  <2> QED BY <2>1, <2>2, <2>3, <2>4, <2>6
<1>16. FlattenSeq(tt) = Without(FlattenSeq(ss), K)
  <2>1. PICK a, b : a = ss /\ b = tt
    OBVIOUS
  <2>2. a \in Seq(Seq(S)) /\ b \in Seq(Seq(S))
    BY <1>15, <2>1
  <2>3. Len(b) = Len(a) /\ \A k \in 1 .. Len(a) : b[k] = Without(a[k], K)
    BY <1>8, <1>15, <2>1
  <2>4. FlattenSeq(b) = Without(FlattenSeq(a), K)
    BY <2>2, <2>3, FlattenWithout
  <2> QED BY <2>1, <2>4
<1>17. FlattenSeq(pp) = Created(n + 1) \o FlattenSeq(tt)
  <2>1. PICK a, b, c : a = tt /\ b = pp /\ c = Created(n + 1)
    OBVIOUS
  <2>2. a \in Seq(Seq(S)) /\ b \in Seq(Seq(S)) /\ c \in Seq(S)
    BY <1>14, <1>15, <2>1
  <2>3. Len(b) = Len(a) + 1 /\ b[1] = c /\ \A k \in 1 .. Len(a) : b[k + 1] = a[k]
    BY <1>12, <1>14, <1>15, <2>1
  <2>4. FlattenSeq(b) = c \o FlattenSeq(a)
    BY <2>2, <2>3, FlattenPrepend
  <2> QED BY <2>1, <2>4
<1> QED BY <1>10, <1>16, <1>17 DEF K

(* What the transactions of a stored block create is a vector.             *)
LEMMA CreatedVectors ==
  ASSUME Linked, NEW m \in 1 .. Len(blocks)
  PROVE  IsSeq(NewUnspent(blocks[m].data))
<1>1. DOMAIN blocks = 1 .. Len(blocks)
  BY SeqShape DEF Linked, TypeOK, BlocksTyped
<1>2. PICK d : d = blocks[m].data
  OBVIOUS
<1>3. IsSeq(d) /\ \A i \in DOMAIN d : IsTransaction(d[i])
  BY <1>1, <1>2 DEF Linked, TypeOK, BlocksTyped
<1>4. \A i \in 1 .. Len(d) : IsTransaction(d[i])
  BY <1>3, SeqShape
<1> QED BY <1>2, <1>3, <1>4, NewUnspentShape

LEMMA MatchInit == Init => UtxosMatchChain
<1> SUFFICES ASSUME Init PROVE UtxosMatchChain
  OBVIOUS
<1>1. Linked
  BY LinkedInit
<1>2. PICK ts \in Timestamps : ChainInit(ts)
  BY DEF Init
<1>3. IsSeq(blocks) /\ Len(blocks) = 1 /\ utxouts = UpdateUnspentTxout(blocks[1].data, << >>)
  BY <1>2, GenesisShape, GenesisUnspent
<1>4. PICK none, c : none = << >> /\ c = NewUnspent(blocks[1].data)
  OBVIOUS
<1>5. IsSeq(none) /\ Len(none) = 0
  BY <1>4, EmptyShape
<1>6. \A m \in 1 .. 0 + 1 : IsSeq(NewUnspent(blocks[m].data))
  BY <1>1, <1>3, CreatedVectors
<1>7. Replay(blocks) = NewUnspent(blocks[0 + 1].data)
                         \o Without(Replay(none), SpentKeys(blocks[0 + 1].data))
  <2>1. PICK new, k : new = blocks /\ k = 0
    OBVIOUS
  <2>2. /\ k \in Nat /\ IsSeq(none) /\ IsSeq(new) /\ Len(none) = k /\ Len(new) = k + 1
        /\ \A m \in 1 .. k : new[m] = none[m]
        /\ \A m \in 1 .. k + 1 : IsSeq(NewUnspent(new[m].data))
    BY <1>3, <1>5, <1>6, <2>1
  <2>3. Replay(new) = NewUnspent(new[k + 1].data)
                        \o Without(Replay(none), SpentKeys(new[k + 1].data))
    BY <2>2, ReplayGrows
  <2> QED BY <2>1, <2>3
<1>8. Replay(none) = << >>
  <2> DEFINE ss == [k \in DOMAIN none |-> Left(none, Len(none) + 1 - k)]
  <2>1. DOMAIN none = {}
    BY <1>4, EmptyShape
  <2>2. ss = << >>
    BY <2>1
  <2> HIDE DEF ss
  <2>3. FlattenSeq(ss) = << >>
    BY <2>2 DEF FlattenSeq
  <2> QED BY <2>3 DEF ss, Replay
<1>9. Replay(blocks) = utxouts
  BY <1>3, <1>7, <1>8, UpdateIsWithout
<1> QED BY <1>9, MatchIsReplay

LEMMA MatchStep == Linked /\ UtxosMatchChain /\ [Next]_vars => UtxosMatchChain'
<1> SUFFICES ASSUME Linked, UtxosMatchChain, [Next]_vars PROVE UtxosMatchChain'
  OBVIOUS
<1>1. ASSUME blocks' = blocks, utxouts' = utxouts PROVE UtxosMatchChain'
  BY <1>1, MatchIsReplay
<1>2. ASSUME NEW ts \in Timestamps, CommitBlock(ts) PROVE UtxosMatchChain'
  <2> DEFINE n == Len(blocks)
             v == NewTrans
  <2>1. /\ IsSeq(blocks') /\ Len(blocks') = n + 1 /\ n \in Nat
        /\ \A i \in 1 .. n : blocks'[i] = blocks[i]
        /\ blocks'[n + 1].data = v
        /\ utxouts' = UpdateUnspentTxout(v, utxouts)
        /\ IsSeq(v) /\ \A i \in 1 .. Len(v) : IsTransaction(v[i])
    BY <1>2, CommitShape
  <2> HIDE DEF v
  <2>2. IsSeq(blocks)
    BY DEF Linked, TypeOK, BlocksTyped
  <2>3. IsSeq(NewUnspent(v))
    BY <2>1, NewUnspentShape
  <2>4. \A m \in 1 .. n + 1 : IsSeq(NewUnspent(blocks'[m].data))
    <3>1. TAKE m \in 1 .. n + 1
    <3>2. CASE m = n + 1
      BY <2>1, <2>3, <3>2
    <3>3. CASE m \in 1 .. n
      <4>1. IsSeq(NewUnspent(blocks[m].data))
        BY <3>3, CreatedVectors
      <4> QED BY <2>1, <3>3, <4>1
    <3> QED BY <2>1, <3>2, <3>3
  <2>5. Replay(blocks') = NewUnspent(v) \o Without(Replay(blocks), SpentKeys(v))
    <3>1. PICK new, old, k : new = blocks' /\ old = blocks /\ k = n
      OBVIOUS
    <3>2. /\ k \in Nat /\ IsSeq(old) /\ IsSeq(new) /\ Len(old) = k /\ Len(new) = k + 1
          /\ \A m \in 1 .. k : new[m] = old[m]
          /\ \A m \in 1 .. k + 1 : IsSeq(NewUnspent(new[m].data))
      BY <2>1, <2>2, <2>4, <3>1
    <3>3. Replay(new) = NewUnspent(new[k + 1].data)
                          \o Without(Replay(old), SpentKeys(new[k + 1].data))
      BY <3>2, ReplayGrows
    <3> QED BY <2>1, <3>1, <3>3
  <2>6. utxouts = Replay(blocks)
    BY MatchIsReplay
  <2> QED BY <2>1, <2>5, <2>6, UpdateIsWithout, MatchIsReplay
<1>3. CASE \E ts \in Timestamps : CommitBlock(ts)
  BY <1>2, <1>3
<1>4. CASE blocks' = blocks /\ utxouts' = utxouts
  BY <1>1, <1>4
<1> QED BY <1>3, <1>4 DEF Next, vars, CreateWallet, CreateWalletFromKey, CreateTransaction,
                          ValidateTransPool, ValidateTransPoolAborts, CommitBlockHangs

(* The unspent outputs kept block by block are those a replay of the       *)
(* stored chain gives, in the same order, for a chain of any length and    *)
(* any amounts.                                                            *)
THEOREM ReplayMatches == Spec => []UtxosMatchChain
<1>1. Init => Linked /\ UtxosMatchChain
  BY LinkedInit, MatchInit
<1>2. Linked /\ UtxosMatchChain /\ [Next]_vars => (Linked /\ UtxosMatchChain)'
  BY LinkedStep, MatchStep
<1> QED BY <1>1, <1>2, PTL DEF Spec

(***************************************************************************)
(* How totals add up.                                                      *)
(***************************************************************************)
LEMMA TotalEmpty == Total(<< >>) = 0
<1>1. PICK e : e = << >>
  OBVIOUS
<1>2. IsSeq(e) /\ Len(e) = 0
  BY <1>1, EmptyShape
<1>3. \A i \in 1 .. Len(e) : e[i].amount \in Int
  BY <1>2
<1>4. Totals(e)[0] = 0
  BY <1>2, <1>3, TotalsShape
<1> QED BY <1>1, <1>2, <1>4 DEF Total

LEMMA TotalAppend ==
  ASSUME NEW S, \A e \in S : e.amount \in Int, NEW s \in Seq(S), NEW e \in S
  PROVE  Total(s) \in Int /\ Total(Append(s, e)) = Total(s) + e.amount
<1> DEFINE n == Len(s)
<1>1. PICK r : r = Append(s, e)
  OBVIOUS
<1>2. /\ n \in Nat /\ r \in Seq(S) /\ Len(r) = n + 1
      /\ (\A i \in 1 .. n : r[i] = s[i]) /\ r[n + 1] = e
  BY <1>1, LenProperties, AppendProperties
<1>3. /\ IsSeq(s) /\ IsSeq(r)
      /\ \A i \in 1 .. Len(s) : s[i].amount \in Int
      /\ \A i \in 1 .. Len(r) : r[i].amount \in Int
  BY <1>2, IsSeqOf, ElementOfSeq
<1>4. /\ Totals(s) \in [0 .. n -> Int] /\ Totals(s)[0] = 0
      /\ \A k \in 1 .. n : Totals(s)[k] = Totals(s)[k - 1] + s[k].amount
  BY <1>3, TotalsShape
<1>5. /\ Totals(r)[0] = 0
      /\ \A k \in 1 .. Len(r) : Totals(r)[k] = Totals(r)[k - 1] + r[k].amount
  BY <1>3, TotalsShape
<1> DEFINE T == { k \in 0 .. n : Totals(r)[k] = Totals(s)[k] }
<1> HIDE DEF n
<1>6. 0 \in T
  BY <1>2, <1>4, <1>5
<1>7. ASSUME NEW k \in 1 .. n, k - 1 \in T PROVE k \in T
  <2>1. Totals(r)[k - 1] = Totals(s)[k - 1]
    BY <1>7
  <2>2. k \in 1 .. Len(r) /\ k \in 0 .. n /\ r[k] = s[k]
    BY <1>2
  <2>3. Totals(r)[k] = Totals(r)[k - 1] + r[k].amount
    BY <1>5, <2>2
  <2>4. Totals(s)[k] = Totals(s)[k - 1] + s[k].amount
    BY <1>4
  <2>5. Totals(r)[k] = Totals(s)[k]
    BY <2>1, <2>2, <2>3, <2>4
  <2> QED BY <2>2, <2>5, Zenon
<1>8. Totals(r)[n] = Totals(s)[n]
  <2>1. n \in 0 .. n
    BY <1>2
  <2>2. \A k \in 0 .. n : k \in T
    <3> HIDE DEF T
    <3> QED BY <1>2, <1>6, <1>7, UpTo
  <2> QED BY <2>1, <2>2
<1>9. Totals(r)[n + 1] = Totals(r)[n] + e.amount
  <2>1. n + 1 \in 1 .. Len(r) /\ (n + 1) - 1 = n
    BY <1>2
  <2>2. Totals(r)[n + 1] = Totals(r)[(n + 1) - 1] + r[n + 1].amount
    BY <1>5, <2>1
  <2> QED BY <1>2, <2>1, <2>2
<1>10. Totals(s)[n] \in Int
  <2>1. n \in 0 .. n
    BY <1>2
  <2> QED BY <1>4, <2>1
<1>11. Total(s) = Totals(s)[n] /\ Total(r) = Totals(r)[n + 1]
  BY <1>2 DEF Total, n
<1> QED BY <1>1, <1>8, <1>9, <1>10, <1>11

LEMMA TotalConcat ==
  ASSUME NEW S, \A e \in S : e.amount \in Int, NEW s \in Seq(S), NEW t \in Seq(S)
  PROVE  Total(s \o t) = Total(s) + Total(t)
<1> DEFINE P == { r \in Seq(S) : Total(s \o r) = Total(s) + Total(r) }
<1>0. \A r \in Seq(S) : \A e \in S : Total(r) \in Int /\ Total(Append(r, e)) = Total(r) + e.amount
  BY TotalAppend
<1>1. << >> \in P
  <2>1. Total(s) \in Int
    <3>1. CASE S = {}
      <4>1. s = << >>
        <5>1. Len(s) \in Nat /\ \A i \in 1 .. Len(s) : s[i] \in S
          BY LenProperties, ElementOfSeq
        <5>2. Len(s) = 0
          BY <3>1, <5>1
        <5> QED BY <5>2, EmptySeq
      <4> QED BY <4>1, TotalEmpty
    <3>2. CASE S # {}
      BY <1>0, <3>2
    <3> QED BY <3>1, <3>2
  <2>2. s \o << >> = s /\ << >> \in Seq(S)
    BY ConcatEmptySeq, EmptySeq
  <2> QED BY <2>1, <2>2, TotalEmpty
<1>2. ASSUME NEW r \in P, NEW e \in S PROVE Append(r, e) \in P
  <2>1. r \in Seq(S) /\ Append(r, e) \in Seq(S) /\ s \o r \in Seq(S)
    BY AppendProperties, ConcatProperties
  <2>2. s \o Append(r, e) = Append(s \o r, e)
    BY <2>1, ConcatAppend
  <2>3. Total(s \o Append(r, e)) = Total(s \o r) + e.amount
    BY <1>0, <2>1, <2>2
  <2>4. Total(s \o r) = Total(s) + Total(r)
    OBVIOUS
  <2>5. /\ Total(Append(r, e)) = Total(r) + e.amount
        /\ Total(r) \in Int /\ Total(s) \in Int /\ e.amount \in Int
    BY <1>0, <2>1
  <2>6. Total(s \o Append(r, e)) = Total(s) + Total(Append(r, e))
    BY <2>3, <2>4, <2>5
  <2> QED BY <2>1, <2>6
<1>3. t \in P
  <2> HIDE DEF P
  <2> QED BY <1>1, <1>2, SeqInduction
<1> QED BY <1>3

LEMMA TotalNat ==
  ASSUME NEW S, \A e \in S : e.amount \in Nat, NEW s \in Seq(S)
  PROVE  Total(s) \in Nat
<1> DEFINE P == { r \in Seq(S) : Total(r) \in Nat }
<1>1. << >> \in P
  BY EmptySeq, TotalEmpty
<1>2. ASSUME NEW r \in P, NEW e \in S PROVE Append(r, e) \in P
  <2>1. r \in Seq(S) /\ Append(r, e) \in Seq(S)
    BY AppendProperties
  <2>2. \A x \in S : x.amount \in Int
    OBVIOUS
  <2>3. Total(Append(r, e)) = Total(r) + e.amount
    BY <2>1, <2>2, TotalAppend
  <2> QED BY <2>1, <2>3
<1>3. s \in P
  <2> HIDE DEF P
  <2> QED BY <1>1, <1>2, SeqInduction
<1> QED BY <1>3

(***************************************************************************)
(* What spending takes away.                                               *)
(***************************************************************************)
(* Dropping keys does not add to the total, and dropping one takes away at *)
(* least any output that has it.                                           *)
LEMMA WithoutTotal ==
  ASSUME NEW S, \A e \in S : e.amount \in Nat, NEW s \in Seq(S), NEW K
  PROVE  /\ Total(Without(s, K)) <= Total(s)
         /\ \A p \in 1 .. Len(s) :
              s[p].key \in K => Total(Without(s, K)) + s[p].amount <= Total(s)
<1> DEFINE Less(r) == /\ Total(Without(r, K)) <= Total(r)
                      /\ \A p \in 1 .. Len(r) : r[p].key \in K =>
                           Total(Without(r, K)) + r[p].amount <= Total(r)
           P == { r \in Seq(S) : Less(r) }
<1>0. \A r \in Seq(S) : \A e \in S : Total(r) \in Nat /\ Total(Append(r, e)) = Total(r) + e.amount
  <2>1. \A e \in S : e.amount \in Int
    OBVIOUS
  <2>2. \A r \in Seq(S) : Total(r) \in Nat
    BY TotalNat
  <2> QED BY <2>1, <2>2, TotalAppend
<1>1. << >> \in P
  <2>1. << >> \in Seq(S) /\ Len(<< >>) = 0
    BY EmptySeq
  <2>2. Without(<< >>, K) = << >>
    BY WithoutEmpty
  <2>3. Total(<< >>) <= Total(<< >>)
    BY TotalEmpty
  <2>4. \A p \in 1 .. Len(<< >>) : FALSE
    BY <2>1
  <2> QED BY <2>1, <2>2, <2>3, <2>4
<1>2. ASSUME NEW r \in P, NEW e \in S PROVE Append(r, e) \in P
  <2>1. r \in Seq(S) /\ Less(r) /\ Without(r, K) \in Seq(S) /\ e.amount \in Nat
    BY WithoutTyped
  <2>2. PICK q : q = Append(r, e)
    OBVIOUS
  <2>3. /\ q \in Seq(S) /\ Len(r) \in Nat /\ Len(q) = Len(r) + 1
        /\ (\A i \in 1 .. Len(r) : q[i] = r[i]) /\ q[Len(r) + 1] = e
    BY <2>1, <2>2, LenProperties, AppendProperties
  <2>4. Without(q, K) = IF e.key \in K THEN Without(r, K) ELSE Append(Without(r, K), e)
    BY <2>1, <2>2, WithoutAppend
  <2>5. PICK a, b : a = Total(r) /\ b = Total(Without(r, K))
    OBVIOUS
  <2>6. a \in Nat /\ b \in Nat /\ Total(q) = a + e.amount
    BY <1>0, <2>1, <2>2, <2>5
  <2>7. Total(Without(q, K)) = IF e.key \in K THEN b ELSE b + e.amount
    <3>1. Total(Append(Without(r, K), e)) = b + e.amount
      BY <1>0, <2>1, <2>5
    <3> QED BY <2>4, <2>5, <3>1
  <2>8. b <= a /\ \A p \in 1 .. Len(r) : r[p].key \in K => b + r[p].amount <= a
    BY <2>1, <2>5
  <2>9. Total(Without(q, K)) <= Total(q)
    BY <2>1, <2>6, <2>7, <2>8
  <2>10. ASSUME NEW p \in 1 .. Len(q), q[p].key \in K
         PROVE  Total(Without(q, K)) + q[p].amount <= Total(q)
    <3>1. CASE p \in 1 .. Len(r)
      <4>1. q[p] = r[p] /\ r[p] \in S
        BY <2>1, <2>3, <3>1, ElementOfSeq
      <4>2. b + r[p].amount <= a /\ r[p].amount \in Nat
        BY <2>8, <2>10, <3>1, <4>1
      <4>3. PICK x \in Nat : x = r[p].amount
        BY <4>2
      <4>4. b + x <= a
        BY <4>2, <4>3
      <4>5. Total(Without(q, K)) + x <= Total(q)
        BY <2>1, <2>6, <2>7, <4>4
      <4> QED BY <4>1, <4>3, <4>5
    <3>2. CASE p = Len(r) + 1
      <4>1. q[p] = e /\ e.key \in K
        BY <2>3, <2>10, <3>2
      <4> QED BY <2>1, <2>6, <2>7, <2>8, <4>1
    <3> QED BY <2>3, <3>1, <3>2
  <2>11. Less(q)
    BY <2>9, <2>10
  <2> HIDE DEF Less
  <2> QED BY <2>2, <2>3, <2>11
<1>3. s \in P
  <2> HIDE DEF P
  <2> QED BY <1>1, <1>2, SeqInduction
<1> QED BY <1>3

(* Dropping one key more takes away what get() finds under it.             *)
LEMMA SpendOne ==
  ASSUME NEW S, \A e \in S : e.amount \in Nat, NEW s \in Seq(S), NEW K,
         NEW key, key \notin K, Has(s, key)
  PROVE  /\ GetTxout(s, key).amount \in Nat
         /\ Total(Without(s, K \cup {key})) + GetTxout(s, key).amount <= Total(Without(s, K))
<1> DEFINE M == { q \in DOMAIN s : s[q].key = key }
           r == Without(s, K)
<1>1. Len(s) \in Nat /\ DOMAIN s = 1 .. Len(s) /\ \A i \in 1 .. Len(s) : s[i] \in S
  BY LenProperties, ElementOfSeq
<1>2. M # {} /\ M \subseteq Nat
  BY <1>1 DEF Has
<1>3. PICK m : m = Min(M)
  OBVIOUS
<1>4. GetTxout(s, key) = s[m]
  BY <1>3 DEF GetTxout
<1>5. m \in 1 .. Len(s) /\ s[m].key = key
  BY <1>1, <1>2, <1>3, MinProperties
<1> HIDE DEF M
<1>6. s[m] \in S
  BY <1>1, <1>5
<1>7. \E p \in 1 .. Len(r) : r[p] = s[m]
  <2>1. m \in Kept(s, K)
    BY <1>1, <1>5 DEF Kept
  <2> QED BY <1>5, <2>1, SubsequenceProperties DEF Without
<1>8. r \in Seq(S)
  BY WithoutTyped
<1>9. Without(s, K \cup {key}) = Without(r, {key})
  BY WithoutTwice
<1> HIDE DEF r
<1>10. PICK p \in 1 .. Len(r) : r[p] = s[m]
  BY <1>7
<1>11. Total(Without(r, {key})) + r[p].amount <= Total(r)
  <2>1. r[p].key \in {key}
    BY <1>5, <1>10
  <2> QED BY <1>8, <2>1, WithoutTotal
<1> QED BY <1>4, <1>6, <1>9, <1>10, <1>11 DEF r

(***************************************************************************)
(* What the transactions of a block pay out is what it creates.            *)
(***************************************************************************)
LEMMA OutputAmounts ==
  ASSUME NEW t, IsTransaction(t), NEW i
  PROVE  /\ IsSeq(OutputsOf(t, i)) /\ Len(OutputsOf(t, i)) = Len(t.txouts)
         /\ \A m \in 1 .. Len(t.txouts) : OutputsOf(t, i)[m].amount = t.txouts[m].amount
<1>1. PICK o : o = OutputsOf(t, i)
  OBVIOUS
<1>2. /\ IsSeq(o) /\ Len(o) = Len(t.txouts)
      /\ \A m \in 1 .. Len(t.txouts) :
           o[m] = [key     |-> TxoutKey(t.id, i - 1),
                   address |-> t.txouts[m].address,
                   amount  |-> t.txouts[m].amount]
  BY <1>1, OutputsShape
<1>3. ASSUME NEW m \in 1 .. Len(t.txouts) PROVE o[m].amount = t.txouts[m].amount
  <2>1. PICK key, address, amount :
          /\ key = TxoutKey(t.id, i - 1) /\ address = t.txouts[m].address
          /\ amount = t.txouts[m].amount
    OBVIOUS
  <2>2. o[m] = [key |-> key, address |-> address, amount |-> amount]
    BY <1>2, <2>1
  <2>3. o[m].amount = amount
    BY <2>2
  <2> QED BY <2>1, <2>3
<1> QED BY <1>1, <1>2, <1>3

LEMMA OutputsTotal ==
  ASSUME NEW t, IsTransaction(t), NEW i
  PROVE  /\ Total(OutputsOf(t, i)) = Total(t.txouts)
         /\ Total(t.txouts) \in Int
<1> DEFINE o == OutputsOf(t, i)
           n == Len(t.txouts)
<1>1. /\ IsSeq(t.txouts) /\ n \in Nat /\ DOMAIN t.txouts = 1 .. n
      /\ \A j \in 1 .. n : t.txouts[j].amount \in Int
  BY SeqShape DEF IsTransaction
<1>2. /\ IsSeq(o) /\ Len(o) = n
      /\ \A j \in 1 .. n : o[j].amount = t.txouts[j].amount
  BY OutputAmounts
<1> HIDE DEF o
<1>3. /\ Totals(t.txouts) \in [0 .. n -> Int] /\ Totals(t.txouts)[0] = 0
      /\ \A k \in 1 .. n : Totals(t.txouts)[k] = Totals(t.txouts)[k - 1] + t.txouts[k].amount
  BY <1>1, TotalsShape
<1>4. /\ Totals(o)[0] = 0
      /\ \A k \in 1 .. n : Totals(o)[k] = Totals(o)[k - 1] + o[k].amount
  <2>1. \A j \in 1 .. Len(o) : o[j].amount \in Int
    BY <1>1, <1>2
  <2> QED BY <1>2, <2>1, TotalsShape
<1> HIDE DEF n
<1> DEFINE T == { k \in 0 .. n : Totals(o)[k] = Totals(t.txouts)[k] }
<1>5. 0 \in T
  BY <1>1, <1>3, <1>4
<1>6. ASSUME NEW k \in 1 .. n, k - 1 \in T PROVE k \in T
  <2>1. Totals(o)[k - 1] = Totals(t.txouts)[k - 1]
    BY <1>6
  <2>2. Totals(o)[k] = Totals(t.txouts)[k]
    BY <1>2, <1>3, <1>4, <2>1
  <2>3. k \in 0 .. n
    BY <1>1
  <2> QED BY <2>2, <2>3, Zenon
<1>7. n \in 0 .. n
  BY <1>1
<1>8. Totals(o)[n] = Totals(t.txouts)[n]
  <2>1. \A k \in 0 .. n : k \in T
    <3> HIDE DEF T
    <3> QED BY <1>1, <1>5, <1>6, UpTo
  <2> QED BY <1>7, <2>1
<1>9. Totals(t.txouts)[n] \in Int
  BY <1>3, <1>7
<1> QED BY <1>2, <1>8, <1>9 DEF Total, n, o

LEMMA NewUnspentTotal ==
  ASSUME NEW v, IsSeq(v), \A i \in 1 .. Len(v) : IsTransaction(v[i])
  PROVE  \E h \in [0 .. Len(v) -> Int] :
           /\ Total(NewUnspent(v)) = h[Len(v)]
           /\ h[0] = 0
           /\ \A k \in 1 .. Len(v) : h[k] = h[k - 1] + Total(v[k].txouts)
<1> DEFINE n == Len(v)
           outs == [i \in DOMAIN v |-> OutputsOf(v[i], i)]
           S == UNION { Range(outs[i]) : i \in 1 .. n }
<1>1. n \in Nat /\ DOMAIN v = 1 .. n
  BY SeqShape
<1>2. ASSUME NEW i \in 1 .. n
      PROVE  /\ outs[i] = OutputsOf(v[i], i) /\ IsSeq(outs[i])
             /\ \A j \in 1 .. Len(outs[i]) : outs[i][j].amount \in Int
             /\ Total(outs[i]) = Total(v[i].txouts)
  <2>1. outs[i] = OutputsOf(v[i], i)
    BY <1>1
  <2>2. IsTransaction(v[i])
    OBVIOUS
  <2>3. IsSeq(v[i].txouts) /\ \A j \in 1 .. Len(v[i].txouts) : v[i].txouts[j].amount \in Int
    BY <2>2, SeqShape DEF IsTransaction
  <2>4. /\ IsSeq(OutputsOf(v[i], i)) /\ Len(OutputsOf(v[i], i)) = Len(v[i].txouts)
        /\ \A j \in 1 .. Len(v[i].txouts) :
             OutputsOf(v[i], i)[j].amount = v[i].txouts[j].amount
    BY <2>2, OutputAmounts
  <2>5. Total(OutputsOf(v[i], i)) = Total(v[i].txouts)
    BY <2>2, OutputsTotal
  <2> HIDE DEF outs
  <2> QED BY <2>1, <2>3, <2>4, <2>5
<1>3. IsSeq(outs) /\ Len(outs) = n
  <2>1. DOMAIN outs = 1 .. n /\ outs = [i \in 1 .. n |-> outs[i]]
    BY <1>1
  <2> HIDE DEF outs, n
  <2> QED BY <1>1, <2>1, SeqOfFunction
<1>4. NewUnspent(v) = FlattenSeq(outs)
  BY DEF NewUnspent
<1> HIDE DEF outs, n
<1>5. \A i \in 1 .. n : outs[i] \in Seq(S)
  <2>1. TAKE i \in 1 .. n
  <2>2. outs[i] \in Seq(Range(outs[i])) /\ Range(outs[i]) \subseteq S
    BY <1>2 DEF IsSeq
  <2> QED BY <2>2, SeqMonotonic
<1>6. \A e \in S : e.amount \in Int
  <2>1. TAKE e \in S
  <2>2. PICK i \in 1 .. n : e \in Range(outs[i])
    OBVIOUS
  <2>3. PICK j \in DOMAIN outs[i] : e = outs[i][j]
    BY <2>2 DEF Range
  <2>4. DOMAIN outs[i] = 1 .. Len(outs[i])
    BY <1>2, SeqShape
  <2> QED BY <1>2, <2>3, <2>4
<1> HIDE DEF S
<1>7. outs \in Seq(Seq(S))
  BY <1>3, <1>5, SeqShape
<1>8. PICK g \in [0 .. n -> Seq(S)] :
        /\ FlattenSeq(outs) = g[n]
        /\ g[0] = << >>
        /\ \A k \in 1 .. n : g[k] = g[k - 1] \o outs[k]
  BY <1>3, <1>7, FlattenSteps
<1>9. ASSUME NEW k \in 1 .. n
      PROVE  /\ Total(g[k]) = Total(g[k - 1]) + Total(v[k].txouts)
             /\ k \in 0 .. n /\ k - 1 \in 0 .. n
  <2>1. k \in 0 .. n /\ k - 1 \in 0 .. n
    BY <1>1
  <2>2. g[k - 1] \in Seq(S) /\ outs[k] \in Seq(S) /\ g[k] = g[k - 1] \o outs[k]
    BY <1>5, <1>8, <2>1
  <2>3. Total(g[k]) = Total(g[k - 1]) + Total(outs[k])
    BY <1>6, <2>2, TotalConcat
  <2> QED BY <1>2, <2>1, <2>3
<1> DEFINE h == [k \in 0 .. n |-> Total(g[k])]
           T == { k \in 0 .. n : Total(g[k]) \in Int }
<1>10. 0 \in T
  BY <1>1, <1>8, TotalEmpty
<1>11. \A k \in 1 .. n : k - 1 \in T => k \in T
  <2>1. TAKE k \in 1 .. n
  <2>2. HAVE k - 1 \in T
  <2>3. Total(v[k].txouts) \in Int
    BY OutputsTotal DEF n
  <2> QED BY <1>9, <2>2, <2>3
<1>12. \A k \in 0 .. n : Total(g[k]) \in Int
  <2>1. \A k \in 0 .. n : k \in T
    <3> HIDE DEF T
    <3> QED BY <1>1, <1>10, <1>11, UpTo
  <2> QED BY <2>1
<1>13. h \in [0 .. n -> Int]
  BY <1>12
<1>14. h[n] = Total(NewUnspent(v)) /\ h[0] = 0
  BY <1>1, <1>4, <1>8, TotalEmpty
<1>15. \A k \in 1 .. n : h[k] = h[k - 1] + Total(v[k].txouts)
  BY <1>9
<1> HIDE DEF h
<1> QED BY <1>13, <1>14, <1>15 DEF n
=============================================================================
