----------------------------- MODULE NodeProofs -----------------------------
(***************************************************************************)
(* Proofs about the node for all values of the constants, of any length of *)
(* the chain and the pool and with any set of wallets.                     *)
(***************************************************************************)
EXTENDS NodeProperties, VectorLemmas

(***************************************************************************)
(* What the operators of the model return.                                 *)
(***************************************************************************)
(* The running totals of a vector of outputs are integers, from 0 up.      *)
LEMMA TotalsShape ==
  ASSUME NEW s, IsSeq(s), \A i \in 1 .. Len(s) : s[i].amount \in Int
  PROVE  /\ Totals(s) \in [0 .. Len(s) -> Int]
         /\ Totals(s)[0] = 0
         /\ \A k \in 1 .. Len(s) : Totals(s)[k] = Totals(s)[k - 1] + s[k].amount
<1> DEFINE n == Len(s)
           A == Int
           zero == 0
           step == [p \in (1 .. n) \X Int |-> p[2] + s[p[1]].amount]
           Body(f) == [k \in 0 .. n |-> IF k = 0 THEN 0 ELSE f[k - 1] + s[k].amount]
           total == CHOOSE f : f = Body(f)
<1>1. n \in Nat
  BY SeqShape
<1>2. Totals(s) = total
  BY DEF Totals
<1> HIDE DEF n
<1>3. \A k \in 1 .. n : s[k].amount \in Int
  BY DEF n
<1>4. step \in Steps(n, A) /\ zero \in A
  BY <1>3 DEF Steps
<1>5. PICK g \in [0 .. n -> Int] :
        /\ g[0] = 0
        /\ \A k \in 1 .. n : g[k] = step[<< k, g[k - 1] >>]
  <2> HIDE DEF step, A, zero
  <2>1. PICK g : IsRecursion(g, n, A, zero, step)
    BY <1>1, <1>4, RecursionExists
  <2> QED BY <2>1 DEF IsRecursion, A, zero
<1>6. \A k \in 1 .. n : g[k] = g[k - 1] + s[k].amount
  <2>1. TAKE k \in 1 .. n
  <2>2. g[k - 1] \in Int
    BY <1>1
  <2> QED BY <1>5, <2>2
<1>7. g = Body(g)
  BY <1>1, <1>5, <1>6
<1>8. total = Body(total)
  <2> HIDE DEF Body
  <2> QED BY <1>7
<1> HIDE DEF total, step
<1>9. total = g
  <2> DEFINE T == { k \in 0 .. n : total[k] = g[k] }
  <2>1. 0 \in T
    BY <1>1, <1>5, <1>8
  <2>2. ASSUME NEW k \in 1 .. n, k - 1 \in T PROVE k \in T
    BY <1>6, <1>8, <2>2
  <2>3. \A k \in 0 .. n : k \in T
    <3> HIDE DEF T
    <3> QED BY <1>1, <2>1, <2>2, UpTo
  <2>4. total = [k \in 0 .. n |-> total[k]]
    BY <1>8
  <2> QED BY <2>3, <2>4
<1> QED BY <1>2, <1>5, <1>6, <1>9 DEF n

(* build() keeps inputs and outputs and adds the digest.                   *)
LEMMA BuildShape ==
  ASSUME NEW txins, NEW txouts
  PROVE  LET t == Build(txins, txouts)
         IN  /\ t.txins = txins
             /\ t.txouts = txouts
             /\ t.id = GenerateHash([txins |-> txins, txouts |-> txouts, id |-> NoHash])
             /\ t = [txins |-> txins, txouts |-> txouts, id |-> t.id]
BY DEF Build

(* A coinbase is a transaction whose one input is [NoHash, block index].   *)
LEMMA CoinbaseShape ==
  ASSUME NEW address \in Addresses, NEW block_index \in Nat
  PROVE  LET c == GenerateCoinbase(address, block_index)
         IN  /\ IsTransaction(c)
             /\ Len(c.txins) = 1
             /\ c.txins[1].key = TxoutKey(NoHash, block_index)
<1> DEFINE ins == << Txin(TxoutKey(NoHash, block_index)) >>
           outs == << Txout(address, GetCoinbase) >>
           c == GenerateCoinbase(address, block_index)
<1>1. /\ c.txins = ins
      /\ c.txouts = outs
      /\ c.id = GenerateHash([txins |-> ins, txouts |-> outs, id |-> NoHash])
  BY DEF GenerateCoinbase, Build
<1>2. GenerateHash(c) = GenerateHash([txins |-> ins, txouts |-> outs, id |-> NoHash])
  BY <1>1 DEF GenerateHash, Source
<1>3. IsSeq(ins) /\ Len(ins) = 1 /\ ins[1].key = TxoutKey(NoHash, block_index)
  <2>1. ins \in Seq({ ins[1] })
    OBVIOUS
  <2> QED BY <2>1, IsSeqOf DEF Txin
<1>4. IsSeq(outs) /\ Len(outs) = 1 /\ outs[1].address \in Addresses /\ outs[1].amount \in Int
  <2>1. outs \in Seq({ outs[1] })
    OBVIOUS
  <2>2. GetCoinbase \in Int
    BY CoinbaseAssumption, SatoshiAssumption DEF GetCoinbase
  <2> QED BY <2>1, <2>2, IsSeqOf DEF Txout
<1> HIDE DEF ins, outs, c
<1>5. DOMAIN ins = 1 .. 1 /\ DOMAIN outs = 1 .. 1
  BY <1>3, <1>4, SeqShape
<1>6. TxoutKey(NoHash, block_index).txout_index \in Nat
  BY DEF TxoutKey
<1>7. IsTransaction(c)
  BY <1>1, <1>2, <1>3, <1>4, <1>5, <1>6 DEF IsTransaction
<1> QED BY <1>1, <1>3, <1>7 DEF c

(* The block find_block returns for the candidate of generate_new_block.   *)
LEMMA FoundBlock ==
  ASSUME NEW ts, NEW v
  PROVE  LET b == FindBlock(Candidate(ts), v)
         IN  /\ b.index = LastBlock.index + 1
             /\ b.prev = LastBlock.hash
             /\ b.timestamp = ts
             /\ b.data = v
             /\ b.difficulty = GetDifficulty
             /\ b.nonce = Min(GoodNonces(Candidate(ts), v))
             /\ b.hash = BlockHash(b, v)
<1> DEFINE nonce == Min(GoodNonces(Candidate(ts), v))
           mined == [Candidate(ts) EXCEPT !.nonce = nonce]
           hash == BlockHash(mined, v)
           b == [[mined EXCEPT !.hash = hash] EXCEPT !.data = v]
<1>1. FindBlock(Candidate(ts), v) = b
  BY DEF FindBlock
<1>2. mined = [index |-> LastBlock.index + 1, prev |-> LastBlock.hash,
               timestamp |-> ts, data |-> << >>, difficulty |-> GetDifficulty,
               nonce |-> nonce, hash |-> NoHash]
  BY DEF Candidate
<1> HIDE DEF nonce, mined, hash
<1>3. b = [index |-> LastBlock.index + 1, prev |-> LastBlock.hash,
           timestamp |-> ts, data |-> v, difficulty |-> GetDifficulty,
           nonce |-> nonce, hash |-> hash]
  <2> DEFINE hashed == [mined EXCEPT !.hash = hash]
  <2>1. hashed = [index |-> LastBlock.index + 1, prev |-> LastBlock.hash,
                  timestamp |-> ts, data |-> << >>, difficulty |-> GetDifficulty,
                  nonce |-> nonce, hash |-> hash]
    BY <1>2
  <2>2. b = [hashed EXCEPT !.data = v]
    OBVIOUS
  <2> HIDE DEF hashed, b
  <2> QED BY <2>1, <2>2
<1>4. BlockHash(b, v) = hash
  BY <1>2, <1>3 DEF BlockHash, hash
<1> QED BY <1>1, <1>3, <1>4 DEF nonce

(* The hash find_block returns has more zeros than the difficulty.         *)
LEMMA FoundHasProof ==
  ASSUME NEW ts, NEW v, GoodNonces(Candidate(ts), v) # {}
  PROVE  LET b == FindBlock(Candidate(ts), v)
         IN  b.difficulty < LeadingZeros(b.hash)
<1> DEFINE c == Candidate(ts)
           good == GoodNonces(c, v)
           b == FindBlock(c, v)
<1>1. good # {} /\ good \subseteq Nat
  BY ChainAssumption DEF GoodNonces
<1>2. /\ c = [index |-> LastBlock.index + 1, prev |-> LastBlock.hash,
              timestamp |-> ts, data |-> << >>, difficulty |-> GetDifficulty,
              nonce |-> 0, hash |-> NoHash]
  BY DEF Candidate
<1>3. /\ b.index = LastBlock.index + 1 /\ b.prev = LastBlock.hash
      /\ b.timestamp = ts /\ b.difficulty = GetDifficulty
      /\ b.nonce = Min(good) /\ b.hash = BlockHash(b, v)
  BY FoundBlock
<1> HIDE DEF b
<1>4. c.difficulty < LeadingZeros(BlockHash([c EXCEPT !.nonce = Min(good)], v))
  <2> DEFINE n == Min(good)
  <2>1. n \in good
    <3> HIDE DEF good
    <3> QED BY <1>1, MinProperties
  <2> HIDE DEF n
  <2>2. c.difficulty < LeadingZeros(BlockHash([c EXCEPT !.nonce = n], v))
    <3> HIDE DEF c
    <3> QED BY <2>1 DEF GoodNonces
  <2> QED BY <2>2 DEF n
<1> HIDE DEF good
<1>5. [c EXCEPT !.nonce = Min(good)]
        = [index |-> LastBlock.index + 1, prev |-> LastBlock.hash,
           timestamp |-> ts, data |-> << >>, difficulty |-> GetDifficulty,
           nonce |-> Min(good), hash |-> NoHash]
  <2> HIDE DEF c
  <2> QED BY <1>2
<1>6. BlockHash([c EXCEPT !.nonce = Min(good)], v) = b.hash
  <2> HIDE DEF c
  <2> QED BY <1>3, <1>5 DEF BlockHash
<1>7. c.difficulty = b.difficulty
  BY <1>2, <1>3
<1> HIDE DEF c
<1>8. b.difficulty < LeadingZeros(b.hash)
  BY <1>4, <1>6, <1>7
<1> QED BY <1>8 DEF b, c

(* The difficulty of the next block is a value of uint32.                  *)
LEMMA DifficultyInRange ==
  ASSUME TypeOK, ChainLinked
  PROVE  GetDifficulty \in 0 .. UINT32_MOD - 1
<1> DEFINE n == Len(blocks)
           I == DIFFICULTY_ADJUSTMENT_INTERVAL
<1>1. n \in Nat /\ n > 0 /\ DOMAIN blocks = 1 .. n
  BY SeqShape DEF TypeOK, BlocksTyped
<1>2. UINT32_MOD \in Nat \ {0} /\ I \in Nat \ {0}
  BY ChainAssumption
<1>3. \A k \in 1 .. n : blocks[k].difficulty \in 0 .. UINT32_MOD - 1
  BY <1>1 DEF TypeOK, BlocksTyped
<1>4. LastBlock.index = n - 1
  BY <1>1 DEF ChainLinked, LastBlock
<1>5. CASE LastBlock.index # 0 /\ LastBlock.index % I = 0
  <2>1. n - 1 >= I
    BY <1>1, <1>2, <1>4, <1>5
  <2>2. PrevAdjustedBlock.difficulty \in 0 .. UINT32_MOD - 1
    BY <1>1, <1>2, <1>3, <2>1 DEF PrevAdjustedBlock
  <2>3. \A d \in Int : Uint32(d) \in 0 .. UINT32_MOD - 1
    BY <1>2 DEF Uint32
  <2>4. GetNewDifficulty \in 0 .. UINT32_MOD - 1
    <3> DEFINE d == PrevAdjustedBlock.difficulty
    <3>1. /\ Uint32(d + 1) \in 0 .. UINT32_MOD - 1
          /\ Uint32(d - 1) \in 0 .. UINT32_MOD - 1
      BY <1>2, <2>2, <2>3
    <3> QED BY <2>2, <3>1 DEF GetNewDifficulty
  <2> QED BY <1>5, <2>4 DEF GetDifficulty
<1>6. CASE ~ (LastBlock.index # 0 /\ LastBlock.index % I = 0)
  <2>1. LastBlock.difficulty \in 0 .. UINT32_MOD - 1
    BY <1>1, <1>3 DEF LastBlock
  <2> QED BY <1>6, <2>1 DEF GetDifficulty
<1> QED BY <1>5, <1>6

(* The outputs of a transaction that is the i-th of its block.             *)
LEMMA OutputsShape ==
  ASSUME NEW t, IsTransaction(t), NEW i
  PROVE  /\ IsSeq(OutputsOf(t, i))
         /\ Len(OutputsOf(t, i)) = Len(t.txouts)
         /\ \A m \in 1 .. Len(t.txouts) :
              OutputsOf(t, i)[m] = [key     |-> TxoutKey(t.id, i - 1),
                                    address |-> t.txouts[m].address,
                                    amount  |-> t.txouts[m].amount]
<1> DEFINE o == OutputsOf(t, i)
           k == Len(t.txouts)
<1>1. k \in Nat /\ DOMAIN t.txouts = 1 .. k
  BY SeqShape DEF IsTransaction
<1>2. DOMAIN o = 1 .. k /\ o = [j \in 1 .. k |-> o[j]]
  BY <1>1 DEF OutputsOf
<1>3. \A m \in 1 .. k : o[m] = [key     |-> TxoutKey(t.id, i - 1),
                                address |-> t.txouts[m].address,
                                amount  |-> t.txouts[m].amount]
  BY <1>1 DEF OutputsOf
<1> HIDE DEF o, k
<1>4. IsSeq(o) /\ Len(o) = k
  BY <1>1, <1>2, SeqOfFunction
<1> QED BY <1>3, <1>4 DEF o, k

(* What a transaction list creates: every new output comes from an output  *)
(* of a transaction, and its key is made of that transaction's digest and  *)
(* position.                                                               *)
LEMMA NewUnspentShape ==
  ASSUME NEW data, IsSeq(data), \A n \in 1 .. Len(data) : IsTransaction(data[n])
  PROVE  /\ IsSeq(NewUnspent(data))
         /\ \A j \in 1 .. Len(NewUnspent(data)) :
              \E n \in 1 .. Len(data) : \E m \in 1 .. Len(data[n].txouts) :
                NewUnspent(data)[j] =
                  [key     |-> TxoutKey(data[n].id, n - 1),
                   address |-> data[n].txouts[m].address,
                   amount  |-> data[n].txouts[m].amount]
<1> DEFINE k == Len(data)
           outs == [i \in DOMAIN data |-> OutputsOf(data[i], i)]
           flat == FlattenSeq(outs)
<1>1. k \in Nat /\ DOMAIN data = 1 .. k
  BY SeqShape
<1>2. /\ DOMAIN outs = 1 .. k
      /\ outs = [n \in 1 .. k |-> outs[n]]
      /\ \A n \in 1 .. k : outs[n] = OutputsOf(data[n], n)
  BY <1>1
<1>3. NewUnspent(data) = flat
  BY DEF NewUnspent
<1> HIDE DEF k, outs
<1>4. \A n \in 1 .. k : IsTransaction(data[n])
  BY DEF k
<1>5. \A n \in 1 .. k : IsSeq(outs[n]) /\ Len(outs[n]) = Len(data[n].txouts)
  BY <1>2, <1>4, OutputsShape
<1> HIDE DEF flat
<1>6. /\ IsSeq(flat)
      /\ \A j \in 1 .. Len(flat) :
           \E n \in 1 .. k : \E m \in 1 .. Len(outs[n]) : flat[j] = outs[n][m]
  <2>1. IsSeq(outs) /\ Len(outs) = k
    BY <1>1, <1>2, SeqOfFunction
  <2>2. \A n \in 1 .. Len(outs) : IsSeq(outs[n])
    BY <1>5, <2>1
  <2> QED BY <2>1, <2>2, FlattenShape DEF flat
<1>7. ASSUME NEW j \in 1 .. Len(flat)
      PROVE  \E n \in 1 .. k : \E m \in 1 .. Len(data[n].txouts) :
               flat[j] = [key     |-> TxoutKey(data[n].id, n - 1),
                          address |-> data[n].txouts[m].address,
                          amount  |-> data[n].txouts[m].amount]
  <2>0. PICK n \in 1 .. k : \E m \in 1 .. Len(outs[n]) : flat[j] = outs[n][m]
    BY <1>6
  <2>1. PICK m \in 1 .. Len(outs[n]) : flat[j] = outs[n][m]
    BY <2>0
  <2>2. m \in 1 .. Len(data[n].txouts)
    BY <1>5
  <2>3. outs[n][m] = [key     |-> TxoutKey(data[n].id, n - 1),
                      address |-> data[n].txouts[m].address,
                      amount  |-> data[n].txouts[m].amount]
    BY <1>2, <1>4, <2>2, OutputsShape
  <2> QED BY <2>1, <2>2, <2>3
<1> QED BY <1>3, <1>6, <1>7 DEF k

(* The unspent outputs after a block: the new ones, and old ones whose key *)
(* the block does not spend.                                               *)
LEMMA UpdateShape ==
  ASSUME NEW data, IsSeq(data), \A n \in 1 .. Len(data) : IsTransaction(data[n]),
         NEW cache, IsSeq(cache)
  PROVE  LET u == UpdateUnspentTxout(data, cache)
         IN  /\ IsSeq(u)
             /\ \A j \in 1 .. Len(u) :
                  \/ \E k \in 1 .. Len(NewUnspent(data)) : u[j] = NewUnspent(data)[k]
                  \/ \E k \in 1 .. Len(cache) :
                        cache[k].key \notin SpentKeys(data) /\ u[j] = cache[k]
<1> DEFINE I == { i \in DOMAIN cache : cache[i].key \notin SpentKeys(data) }
           new == NewUnspent(data)
           old == Subsequence(cache, I)
           u == new \o old
<1>1. IsSeq(new)
  BY NewUnspentShape
<1>3. \A i \in I : cache[i].key \notin SpentKeys(data)
  OBVIOUS
<1> HIDE DEF I
<1>2. /\ IsSeq(old)
      /\ \A j \in 1 .. Len(old) : \E i \in 1 .. Len(cache) : i \in I /\ old[j] = cache[i]
  BY SubsequenceShape
<1> HIDE DEF new, old
<1>4. /\ IsSeq(u) /\ Len(u) = Len(new) + Len(old) /\ Len(new) \in Nat /\ Len(old) \in Nat
      /\ \A i \in 1 .. Len(new) + Len(old) :
           u[i] = IF i <= Len(new) THEN new[i] ELSE old[i - Len(new)]
  BY <1>1, <1>2, ConcatShape, SeqShape
<1> HIDE DEF u
<1>5. ASSUME NEW j \in 1 .. Len(u)
      PROVE  \/ \E k \in 1 .. Len(new) : u[j] = new[k]
             \/ \E k \in 1 .. Len(cache) :
                   cache[k].key \notin SpentKeys(data) /\ u[j] = cache[k]
  <2>1. CASE j <= Len(new)
    BY <1>4, <2>1
  <2>2. CASE j > Len(new)
    <3>1. u[j] = old[j - Len(new)] /\ j - Len(new) \in 1 .. Len(old)
      BY <1>4, <2>2
    <3>2. PICK i \in 1 .. Len(cache) : i \in I /\ old[j - Len(new)] = cache[i]
      BY <1>2, <3>1
    <3> QED BY <1>3, <3>1, <3>2
  <2> QED BY <1>4, <2>1, <2>2
<1>6. UpdateUnspentTxout(data, cache) = u
  BY DEF UpdateUnspentTxout, u, new, old, I
<1> QED BY <1>4, <1>5, <1>6 DEF new

(* The selection loop takes some of the outputs it is given.               *)
LEMMA UseCountInRange ==
  ASSUME NEW cache, IsSeq(cache), NEW amount
  PROVE  UseCount(cache, amount) \in 0 .. Len(cache)
<1> DEFINE enough == { k \in 1 .. Len(cache) : Greater(Totals(cache)[k], amount) }
<1>1. Len(cache) \in Nat
  BY SeqShape
<1>2. enough \subseteq 1 .. Len(cache) /\ enough \subseteq Nat
  OBVIOUS
<1>3. UseCount(cache, amount) = IF enough = {} THEN Len(cache) ELSE Min(enough)
  BY DEF UseCount
<1> HIDE DEF enough
<1>4. enough # {} => Min(enough) \in enough
  BY <1>2, MinProperties
<1>5. CASE enough = {}
  BY <1>1, <1>3, <1>5
<1>6. CASE enough # {}
  <2>1. Min(enough) \in 1 .. Len(cache)
    BY <1>2, <1>4, <1>6
  <2> QED BY <1>1, <1>3, <1>6, <2>1
<1> QED BY <1>5, <1>6

(* The outputs create_transaction selects are unspent outputs.             *)
LEMMA SelectedShape ==
  ASSUME IsSeq(utxouts), \A i \in 1 .. Len(utxouts) : utxouts[i].amount \in Int,
         NEW sender, NEW amount
  PROVE  /\ IsSeq(Selected(sender, amount))
         /\ \A i \in 1 .. Len(Selected(sender, amount)) :
              \E j \in 1 .. Len(utxouts) : Selected(sender, amount)[i] = utxouts[j]
<1> DEFINE I == { i \in DOMAIN utxouts : utxouts[i].address = AddressOf(sender) }
           mine == Subsequence(utxouts, I)
           J == { i \in DOMAIN mine : FoundIn(SpentKeys(pool), mine[i].key) }
           kept == Subsequence(mine, DOMAIN mine \ J)
           rest == SubSeq(mine, Len(kept) + 1, Len(mine))
           cache == kept \o rest
           FromUtxos(s) == \A i \in 1 .. Len(s) : \E j \in 1 .. Len(utxouts) : s[i] = utxouts[j]
<1>1. SenderCache(AddressOf(sender)) = cache
  BY DEF SenderCache, CacheGroupBy, RemoveIf
<1> HIDE DEF I, J
<1>2. IsSeq(mine) /\ FromUtxos(mine)
  BY SubsequenceShape
<1> HIDE DEF mine
<1>3. IsSeq(kept) /\ \A i \in 1 .. Len(kept) : \E j \in 1 .. Len(mine) : kept[i] = mine[j]
  <2> DEFINE K == DOMAIN mine \ J
  <2> HIDE DEF K
  <2>1. \A i \in 1 .. Len(Subsequence(mine, K)) :
          \E j \in 1 .. Len(mine) : j \in K /\ Subsequence(mine, K)[i] = mine[j]
    BY <1>2, SubsequenceShape
  <2>2. IsSeq(Subsequence(mine, K))
    BY <1>2, SubsequenceShape
  <2> QED BY <2>1, <2>2 DEF K
<1> HIDE DEF kept
<1>4. Len(kept) \in Nat
  BY <1>3, SeqShape
<1>5. IsSeq(rest) /\ \A i \in 1 .. Len(rest) : \E j \in 1 .. Len(mine) : rest[i] = mine[j]
  BY <1>2, <1>4, SuffixShape
<1> HIDE DEF rest
<1>6. Len(rest) \in Nat
  BY <1>5, SeqShape
<1>7. /\ IsSeq(cache) /\ Len(cache) = Len(kept) + Len(rest)
      /\ \A i \in 1 .. Len(kept) + Len(rest) :
           cache[i] = IF i <= Len(kept) THEN kept[i] ELSE rest[i - Len(kept)]
  BY <1>3, <1>5, ConcatShape
<1> HIDE DEF cache
<1>8. \A i \in 1 .. Len(cache) : \E j \in 1 .. Len(mine) : cache[i] = mine[j]
  <2>1. TAKE i \in 1 .. Len(cache)
  <2>2. CASE i <= Len(kept)
    BY <1>3, <1>4, <1>6, <1>7, <2>2
  <2>3. CASE i > Len(kept)
    <3>1. i - Len(kept) \in 1 .. Len(rest) /\ cache[i] = rest[i - Len(kept)]
      BY <1>4, <1>6, <1>7, <2>3
    <3> QED BY <1>5, <3>1
  <2> QED BY <1>4, <1>6, <1>7, <2>2, <2>3
<1>9. FromUtxos(cache)
  BY <1>2, <1>8
<1>10. UseCount(cache, amount) \in 0 .. Len(cache)
  BY <1>7, UseCountInRange
<1>11. Selected(sender, amount) = SubSeq(cache, 1, UseCount(cache, amount))
  BY <1>1 DEF Selected
<1> DEFINE count == UseCount(cache, amount)
<1> HIDE DEF count
<1>12. /\ IsSeq(SubSeq(cache, 1, count)) /\ Len(SubSeq(cache, 1, count)) = count
       /\ \A i \in 1 .. count : SubSeq(cache, 1, count)[i] = cache[i]
  <2>1. count \in 0 .. Len(cache)
    BY <1>10 DEF count
  <2> QED BY <1>7, <2>1, PrefixShape
<1>13. \A i \in 1 .. count : i \in 1 .. Len(cache)
  <2>1. Len(cache) \in Nat
    BY <1>7, SeqShape
  <2> QED BY <1>10, <2>1 DEF count
<1>14. FromUtxos(SubSeq(cache, 1, count))
  BY <1>9, <1>12, <1>13
<1> QED BY <1>11, <1>12, <1>14 DEF count

(* The transaction create_transaction appends to the pool.                 *)
LEMMA TransferShape ==
  ASSUME NEW use, IsSeq(use),
         \A i \in 1 .. Len(use) : use[i].key.txout_index \in Nat /\ use[i].amount \in Int,
         NEW sender, AddressOf(sender) \in Addresses,
         NEW receiver \in Addresses, NEW amount \in Int, NEW key
  PROVE  LET t == Signed(Transfer(sender, use, receiver, amount), key)
         IN  /\ IsTransaction(t)
             /\ Len(t.txins) = Len(use)
             /\ \A i \in 1 .. Len(use) : t.txins[i].key = use[i].key
<1> DEFINE n == Len(use)
           change == Total(use) - amount
           ins == [i \in DOMAIN use |-> Txin(use[i].key)]
           outs == << Txout(receiver, amount), Txout(AddressOf(sender), change) >>
           tran == Transfer(sender, use, receiver, amount)
           signed == [i \in DOMAIN tran.txins |->
                        [tran.txins[i] EXCEPT !.signature = Sign(key, tran.id)]]
           t == Signed(tran, key)
<1>1. n \in Nat /\ DOMAIN use = 1 .. n
  BY SeqShape
<1>2. change \in Int
  <2>1. Totals(use) \in [0 .. n -> Int]
    BY TotalsShape
  <2>2. Total(use) \in Int
    BY <1>1, <2>1 DEF Total
  <2> QED BY <2>2
<1>3. /\ tran.txins = ins
      /\ tran.txouts = outs
      /\ tran.id = GenerateHash([txins |-> ins, txouts |-> outs, id |-> NoHash])
      /\ tran = [txins |-> ins, txouts |-> outs, id |-> tran.id]
  <2>1. tran = Build(ins, outs)
    BY DEF Transfer
  <2> HIDE DEF tran, ins, outs
  <2> QED BY <2>1, BuildShape
<1>4. t.txins = signed /\ t.txouts = outs /\ t.id = tran.id
  <2>1. t = [tran EXCEPT !.txins = signed]
    BY DEF Signed
  <2> HIDE DEF t, tran, signed, ins, outs
  <2> QED BY <1>3, <2>1
<1>5. /\ DOMAIN signed = 1 .. n
      /\ signed = [i \in 1 .. n |-> signed[i]]
      /\ \A i \in 1 .. n : signed[i].key = use[i].key
  <2>1. DOMAIN ins = 1 .. n /\ \A i \in 1 .. n :
          ins[i] = [key |-> use[i].key, signature |-> NoSignature]
    BY <1>1 DEF Txin
  <2> HIDE DEF ins, tran
  <2> QED BY <1>3, <2>1
<1>6. IsSeq(outs) /\ Len(outs) = 2 /\ \A j \in 1 .. 2 : outs[j].address \in Addresses /\ outs[j].amount \in Int
  <2>1. outs \in Seq({ outs[1], outs[2] })
    OBVIOUS
  <2>2. Len(outs) = 2
    OBVIOUS
  <2>3. /\ outs[1].address = receiver /\ outs[1].amount = amount
        /\ outs[2].address = AddressOf(sender) /\ outs[2].amount = change
    BY DEF Txout
  <2> HIDE DEF outs, change
  <2>4. IsSeq(outs)
    BY <2>1, IsSeqOf
  <2>5. \A j \in 1 .. 2 : j = 1 \/ j = 2
    OBVIOUS
  <2> QED BY <1>2, <2>2, <2>3, <2>4, <2>5
<1>7. IsSeq(signed) /\ Len(signed) = n
  <2> HIDE DEF signed, n
  <2> QED BY <1>1, <1>5, SeqOfFunction
<1>8. t.id = GenerateHash(t)
  <2>1. [i \in DOMAIN ins |-> ins[i].key] = [i \in DOMAIN signed |-> signed[i].key]
    <3>1. DOMAIN ins = 1 .. n /\ \A i \in 1 .. n : ins[i].key = use[i].key
      BY <1>1 DEF Txin
    <3> HIDE DEF ins, signed
    <3> QED BY <1>5, <3>1
  <2> HIDE DEF t, tran, signed, ins, outs
  <2> QED BY <1>3, <1>4, <2>1 DEF GenerateHash, Source
<1>9. IsTransaction(t)
  <2> HIDE DEF t, tran, signed, ins, outs
  <2>1. DOMAIN outs = 1 .. 2
    BY <1>6, SeqShape
  <2> QED BY <1>4, <1>5, <1>6, <1>7, <1>8, <2>1 DEF IsTransaction
<1> HIDE DEF tran, signed, t
<1> QED BY <1>4, <1>5, <1>7, <1>9 DEF t, tran

(* The data of the block commit_block mines: the coinbase, then the pool.  *)
LEMMA NewTransShape ==
  ASSUME TypeOK, ChainLinked
  PROVE  /\ IsSeq(NewTrans)
         /\ Len(NewTrans) = Len(pool) + 1
         /\ NewTrans[1] = GenerateCoinbase(AddressOf("genesis"), Len(blocks))
         /\ \A n \in 2 .. Len(NewTrans) : NewTrans[n] = pool[n - 1]
         /\ \A n \in 1 .. Len(NewTrans) : IsTransaction(NewTrans[n])
<1> DEFINE c == GenerateCoinbase(AddressOf("genesis"), LastBlock.index + 1)
           head == << c >>
           v == head \o pool
<1>1. Len(blocks) \in Nat /\ Len(blocks) > 0 /\ DOMAIN blocks = 1 .. Len(blocks)
  BY SeqShape DEF TypeOK, BlocksTyped
<1>2. LastBlock.index + 1 = Len(blocks)
  BY <1>1 DEF ChainLinked, LastBlock
<1>3. AddressOf("genesis") \in Addresses
  BY DEF TypeOK, WalletsTyped, AddressOf, Addresses
<1>4. IsTransaction(c)
  <2> DEFINE a == AddressOf("genesis")
  <2> HIDE DEF a
  <2>1. a \in Addresses
    BY <1>3 DEF a
  <2> QED BY <1>1, <1>2, <2>1, CoinbaseShape DEF a
<1> HIDE DEF c
<1>5. IsSeq(head) /\ Len(head) = 1 /\ head[1] = c
  <2>1. head \in Seq({c})
    OBVIOUS
  <2> QED BY <2>1, IsSeqOf
<1>6. IsSeq(pool) /\ Len(pool) \in Nat /\ DOMAIN pool = 1 .. Len(pool)
  BY SeqShape DEF TypeOK, PoolTyped
<1> HIDE DEF head
<1>7. /\ IsSeq(v) /\ Len(v) = 1 + Len(pool)
      /\ \A i \in 1 .. 1 + Len(pool) : v[i] = IF i <= 1 THEN c ELSE pool[i - 1]
  <2>1. /\ IsSeq(v) /\ Len(v) = Len(head) + Len(pool)
        /\ \A i \in 1 .. Len(head) + Len(pool) :
             v[i] = IF i <= Len(head) THEN head[i] ELSE pool[i - Len(head)]
    BY <1>5, <1>6, ConcatShape
  <2> HIDE DEF v
  <2>2. Len(v) = 1 + Len(pool)
    BY <1>5, <2>1
  <2>3. ASSUME NEW i \in 1 .. 1 + Len(pool)
        PROVE  v[i] = IF i <= 1 THEN c ELSE pool[i - 1]
    <3>1. v[i] = IF i <= 1 THEN head[i] ELSE pool[i - 1]
      BY <1>5, <2>1
    <3>2. i <= 1 => i = 1
      BY <1>6
    <3> QED BY <1>5, <3>1, <3>2
  <2> QED BY <2>1, <2>2, <2>3
<1>8. v = NewTrans
  BY DEF NewTrans, head, c
<1> HIDE DEF v
<1>9. v[1] = c /\ \A n \in 2 .. Len(v) : v[n] = pool[n - 1] /\ n - 1 \in 1 .. Len(pool)
  BY <1>6, <1>7
<1>10. \A n \in 1 .. Len(pool) : IsTransaction(pool[n])
  BY <1>6 DEF TypeOK, PoolTyped
<1>11. \A n \in 1 .. Len(v) : IsTransaction(v[n])
  <2>1. \A n \in 1 .. Len(v) : n = 1 \/ n \in 2 .. Len(v)
    BY <1>6, <1>7
  <2> QED BY <1>4, <1>9, <1>10, <2>1
<1> QED BY <1>2, <1>6, <1>7, <1>8, <1>9, <1>11 DEF c

(***************************************************************************)
(* TypeOK and ChainLinked are proved together: the difficulty of a new     *)
(* block is in range because the indices of the chain are its positions.   *)
(***************************************************************************)
Linked == TypeOK /\ ChainLinked

(* The unspent outputs stay well-formed when a block of transactions is    *)
(* added.                                                                  *)
LEMMA UpdateTyped ==
  ASSUME NEW data, IsSeq(data), \A n \in 1 .. Len(data) : IsTransaction(data[n]),
         NEW cache, IsSeq(cache),
         \A i \in 1 .. Len(cache) : /\ cache[i].key.txout_index \in Nat
                                    /\ cache[i].address \in Addresses
                                    /\ cache[i].amount \in Int
  PROVE  LET u == UpdateUnspentTxout(data, cache)
         IN  /\ IsSeq(u)
             /\ \A i \in 1 .. Len(u) : /\ u[i].key.txout_index \in Nat
                                       /\ u[i].address \in Addresses
                                       /\ u[i].amount \in Int
<1> DEFINE u == UpdateUnspentTxout(data, cache)
           new == NewUnspent(data)
           Good(o) == /\ o.key.txout_index \in Nat
                      /\ o.address \in Addresses
                      /\ o.amount \in Int
<1>1. /\ IsSeq(u)
      /\ \A j \in 1 .. Len(u) :
           \/ \E k \in 1 .. Len(new) : u[j] = new[k]
           \/ \E k \in 1 .. Len(cache) : u[j] = cache[k]
  BY UpdateShape
<1>2. \A k \in 1 .. Len(new) : Good(new[k])
  <2>1. TAKE k \in 1 .. Len(new)
  <2>2. PICK n \in 1 .. Len(data) : \E m \in 1 .. Len(data[n].txouts) :
          new[k] = [key     |-> TxoutKey(data[n].id, n - 1),
                    address |-> data[n].txouts[m].address,
                    amount  |-> data[n].txouts[m].amount]
    BY NewUnspentShape
  <2>3. PICK m \in 1 .. Len(data[n].txouts) :
          new[k] = [key     |-> TxoutKey(data[n].id, n - 1),
                    address |-> data[n].txouts[m].address,
                    amount  |-> data[n].txouts[m].amount]
    BY <2>2
  <2>4. IsTransaction(data[n])
    OBVIOUS
  <2>5. data[n].txouts[m].address \in Addresses /\ data[n].txouts[m].amount \in Int
    BY <2>4, SeqShape DEF IsTransaction
  <2>6. Len(data) \in Nat
    BY SeqShape
  <2>7. TxoutKey(data[n].id, n - 1).txout_index \in Nat
    BY <2>6 DEF TxoutKey
  <2> HIDE DEF new
  <2> QED BY <2>3, <2>5, <2>7
<1> HIDE DEF u, new
<1>3. \A i \in 1 .. Len(u) : Good(u[i])
  BY <1>1, <1>2
<1> QED BY <1>1, <1>3 DEF u

(* The genesis block and the unspent outputs init() leaves.                *)
LEMMA GenesisShape ==
  ASSUME NEW ts \in Timestamps, ChainInit(ts)
  PROVE  /\ IsSeq(blocks) /\ Len(blocks) = 1 /\ blocks # << >>
         /\ blocks[1].index = 0 /\ blocks[1].timestamp = ts
         /\ blocks[1].difficulty = 2 /\ blocks[1].nonce = 0
         /\ blocks[1].hash = BlockHash(blocks[1], blocks[1].data)
         /\ IsSeq(blocks[1].data) /\ Len(blocks[1].data) = 1
         /\ IsTransaction(blocks[1].data[1])
         /\ Len(blocks[1].data[1].txins) = 1
         /\ blocks[1].data[1].txins[1].key = TxoutKey(NoHash, 0)
         /\ \/ utxouts = UpdateUnspentTxout(blocks[1].data, << >>)
            \/ utxouts = << >>
<1> DEFINE g == GenerateCoinbase(GetAddress(GenesisKey), 0)
           data == << g >>
           bare == [index |-> 0, prev |-> NoHash, timestamp |-> ts, data |-> data,
                    difficulty |-> 2, nonce |-> 0, hash |-> NoHash]
           hash == BlockHash(bare, data)
           b == GenesisBlock(ts)
<1>1. IsTransaction(g) /\ Len(g.txins) = 1 /\ g.txins[1].key = TxoutKey(NoHash, 0)
  <2>1. GetAddress(GenesisKey) \in Addresses
    BY KeysAssumption DEF Addresses
  <2> QED BY <2>1, CoinbaseShape
<1>2. b = [bare EXCEPT !.hash = hash]
  <2>1. bare.data = data
    OBVIOUS
  <2> QED BY DEF GenesisBlock, GetGenesis
<1> HIDE DEF g, hash
<1>3. IsSeq(data) /\ Len(data) = 1 /\ data[1] = g
  <2>1. data \in Seq({g})
    OBVIOUS
  <2> QED BY <2>1, IsSeqOf
<1> HIDE DEF data
<1>4. b = [index |-> 0, prev |-> NoHash, timestamp |-> ts, data |-> data,
           difficulty |-> 2, nonce |-> 0, hash |-> hash]
  <2> HIDE DEF b
  <2> QED BY <1>2
<1>5. BlockHash(b, b.data) = hash
  <2> HIDE DEF b
  <2> QED BY <1>4 DEF BlockHash, hash
<1> HIDE DEF b
<1>6. blocks = << b >>
  BY DEF ChainInit, b
<1>7. IsSeq(blocks) /\ Len(blocks) = 1 /\ blocks[1] = b /\ blocks # << >>
  <2>1. blocks \in Seq({b})
    BY <1>6
  <2> QED BY <1>6, <2>1, IsSeqOf
<1>8. utxouts = UpdateUnspentTxout(data, << >>) \/ utxouts = << >>
  BY <1>4 DEF ChainInit, b
<1> QED BY <1>1, <1>3, <1>4, <1>5, <1>7, <1>8

LEMMA LinkedInit == Init => Linked
<1> SUFFICES ASSUME Init PROVE Linked
  OBVIOUS
<1>1. PICK ts \in Timestamps : ChainInit(ts)
  BY DEF Init
<1> DEFINE b == blocks[1]
           data == blocks[1].data
<1>2. /\ IsSeq(blocks) /\ Len(blocks) = 1 /\ blocks # << >>
      /\ b.index = 0 /\ b.timestamp = ts /\ b.difficulty = 2 /\ b.nonce = 0
      /\ b.hash = BlockHash(b, data)
      /\ IsSeq(data) /\ Len(data) = 1 /\ IsTransaction(data[1])
      /\ Len(data[1].txins) = 1 /\ data[1].txins[1].key = TxoutKey(NoHash, 0)
      /\ (utxouts = UpdateUnspentTxout(data, << >>) \/ utxouts = << >>)
  BY <1>1, GenesisShape
<1>3. DOMAIN blocks = 1 .. 1 /\ DOMAIN data = 1 .. 1 /\ data # << >>
  BY <1>2, SeqShape
<1>4. BlocksTyped
  <2>1. 2 \in 0 .. UINT32_MOD - 1
    BY ChainAssumption
  <2> QED BY <1>2, <1>3, <2>1 DEF BlocksTyped
<1>5. ChainLinked
  BY <1>2, <1>3 DEF ChainLinked
<1>6. UtxosTyped
  <2> DEFINE u == UpdateUnspentTxout(data, << >>)
  <2>1. IsSeq(<< >>) /\ Len(<< >>) = 0 /\ DOMAIN << >> = {}
    BY EmptyShape
  <2>2. \A n \in 1 .. Len(data) : IsTransaction(data[n])
    BY <1>2
  <2>3. IsSeq(u) /\ \A i \in 1 .. Len(u) : /\ u[i].key.txout_index \in Nat
                                           /\ u[i].address \in Addresses
                                           /\ u[i].amount \in Int
    BY <1>2, <2>1, <2>2, UpdateTyped
  <2>4. utxouts = u \/ utxouts = << >>
    BY <1>2
  <2> HIDE DEF u
  <2>5. DOMAIN u = 1 .. Len(u)
    BY <2>3, SeqShape
  <2> QED BY <2>1, <2>3, <2>4, <2>5 DEF UtxosTyped
<1>7. PoolTyped
  <2>1. pool = << >>
    BY DEF Init
  <2>2. IsSeq(<< >>) /\ DOMAIN << >> = {}
    BY EmptyShape
  <2> QED BY <2>1, <2>2 DEF PoolTyped
<1>8. WalletsTyped
  BY KeysAssumption DEF WalletsTyped, Init
<1> QED BY <1>4, <1>5, <1>6, <1>7, <1>8 DEF Linked, TypeOK, Init

(* The wallets and the pool after the operations that change them.         *)
LEMMA EmplaceTyped ==
  ASSUME WalletsTyped, NEW name, NEW key \in Keys, Emplace(name, key)
  PROVE  WalletsTyped'
BY DEF WalletsTyped, Emplace

LEMMA AppendTyped ==
  ASSUME PoolTyped, NEW t, IsTransaction(t)
  PROVE  IsSeq(Append(pool, t)) /\ \A n \in DOMAIN Append(pool, t) : IsTransaction(Append(pool, t)[n])
<1> DEFINE p == Append(pool, t)
           n == Len(pool)
<1>1. n \in Nat /\ DOMAIN pool = 1 .. n
  BY SeqShape DEF PoolTyped
<1>2. IsSeq(p) /\ Len(p) = n + 1 /\ p[n + 1] = t /\ \A i \in 1 .. n : p[i] = pool[i]
  BY AppendShape DEF PoolTyped
<1> HIDE DEF p
<1>3. DOMAIN p = 1 .. n + 1
  BY <1>2, SeqShape
<1>4. ASSUME NEW i \in 1 .. n + 1 PROVE IsTransaction(p[i])
  <2>1. CASE i = n + 1
    BY <1>2, <2>1
  <2>2. CASE i \in 1 .. n
    BY <1>1, <1>2, <2>2 DEF PoolTyped
  <2> QED BY <1>1, <2>1, <2>2
<1> QED BY <1>2, <1>3, <1>4 DEF p

LEMMA PurgedTyped ==
  ASSUME PoolTyped, NEW I
  PROVE  LET p == Subsequence(pool, I)
         IN  IsSeq(p) /\ \A n \in DOMAIN p : IsTransaction(p[n])
<1> DEFINE p == Subsequence(pool, I)
<1>1. DOMAIN pool = 1 .. Len(pool)
  BY SeqShape DEF PoolTyped
<1>2. IsSeq(p) /\ \A j \in 1 .. Len(p) : \E i \in 1 .. Len(pool) : p[j] = pool[i]
  BY SubsequenceShape DEF PoolTyped
<1> HIDE DEF p
<1>3. DOMAIN p = 1 .. Len(p)
  BY <1>2, SeqShape
<1> QED BY <1>1, <1>2, <1>3 DEF PoolTyped, p

LEMMA CreatedTyped ==
  ASSUME TypeOK,
         NEW sender \in DOMAIN wallets, NEW receiver \in DOMAIN wallets,
         NEW amount \in Amounts
  PROVE  IsTransaction(Signed(Transfer(sender, Selected(sender, amount),
                                       AddressOf(receiver), amount), wallets[sender]))
<1> DEFINE use == Selected(sender, amount)
<1>1. AddressOf(sender) \in Addresses /\ AddressOf(receiver) \in Addresses
  BY DEF TypeOK, WalletsTyped, AddressOf, Addresses
<1>2. amount \in Int
  BY NodeAssumption
<1>3. IsSeq(utxouts) /\ DOMAIN utxouts = 1 .. Len(utxouts)
  BY SeqShape DEF TypeOK, UtxosTyped
<1>4. \A i \in 1 .. Len(utxouts) : utxouts[i].key.txout_index \in Nat /\ utxouts[i].amount \in Int
  BY <1>3 DEF TypeOK, UtxosTyped
<1>5. IsSeq(use) /\ \A i \in 1 .. Len(use) : \E j \in 1 .. Len(utxouts) : use[i] = utxouts[j]
  BY <1>3, <1>4, SelectedShape
<1> HIDE DEF use
<1>6. \A i \in 1 .. Len(use) : use[i].key.txout_index \in Nat /\ use[i].amount \in Int
  BY <1>4, <1>5
<1> DEFINE to == AddressOf(receiver)
           key == wallets[sender]
<1> HIDE DEF to, key
<1>7. IsTransaction(Signed(Transfer(sender, use, to, amount), key))
  <2>1. to \in Addresses
    BY <1>1 DEF to
  <2> QED BY <1>1, <1>2, <1>5, <1>6, <2>1, TransferShape
<1> QED BY <1>7 DEF use, to, key

(* The block commit_block adds, and what it does to the vectors.           *)
LEMMA CommitShape ==
  ASSUME Linked, NEW ts \in Timestamps, CommitBlock(ts)
  PROVE  LET n == Len(blocks)
             v == NewTrans
             b == blocks'[n + 1]
         IN  /\ IsSeq(blocks') /\ Len(blocks') = n + 1
             /\ n \in Nat /\ n > 0
             /\ DOMAIN blocks = 1 .. n /\ DOMAIN blocks' = 1 .. n + 1
             /\ \A i \in 1 .. n : blocks'[i] = blocks[i]
             /\ b.index = n /\ b.prev = blocks[n].hash /\ b.timestamp = ts
             /\ b.data = v /\ b.difficulty = GetDifficulty /\ b.nonce \in Nat
             /\ b.hash = BlockHash(b, v)
             /\ IsSeq(v) /\ Len(v) = Len(pool) + 1 /\ Len(pool) \in Nat
             /\ DOMAIN v = 1 .. Len(v)
             /\ \A i \in 1 .. Len(v) : IsTransaction(v[i])
             /\ \A i \in 2 .. Len(v) : v[i] = pool[i - 1]
             /\ Len(v[1].txins) = 1
             /\ v[1].txins[1].key = TxoutKey(NoHash, n)
             /\ utxouts' = UpdateUnspentTxout(v, utxouts)
             /\ BlockValidate(b, utxouts)
             /\ pool' = pool
<1> DEFINE n == Len(blocks)
           v == NewTrans
           b == FindBlock(Candidate(ts), NewTrans)
<1> USE DEF Linked
<1>1. n \in Nat /\ n > 0 /\ DOMAIN blocks = 1 .. n
  BY SeqShape DEF TypeOK, BlocksTyped
<1>2. LastBlock = blocks[n] /\ LastBlock.index = n - 1
  BY <1>1 DEF ChainLinked, LastBlock
<1>3. /\ b.index = n
      /\ b.prev = blocks[n].hash
      /\ b.timestamp = ts
      /\ b.data = v
      /\ b.difficulty = GetDifficulty
      /\ b.nonce = Min(GoodNonces(Candidate(ts), v))
      /\ b.hash = BlockHash(b, v)
  <2> DEFINE w == NewTrans
  <2> HIDE DEF w
  <2>1. LET c == FindBlock(Candidate(ts), w)
        IN  /\ c.index = LastBlock.index + 1
            /\ c.prev = LastBlock.hash
            /\ c.timestamp = ts
            /\ c.data = w
            /\ c.difficulty = GetDifficulty
            /\ c.nonce = Min(GoodNonces(Candidate(ts), w))
            /\ c.hash = BlockHash(c, w)
    BY FoundBlock
  <2> HIDE DEF b
  <2> QED BY <1>1, <1>2, <2>1 DEF w, b
<1>4. GetDifficulty \in 0 .. UINT32_MOD - 1
  BY DifficultyInRange
<1>5. b.nonce \in Nat
  <2> DEFINE good == GoodNonces(Candidate(ts), v)
  <2>1. good # {} /\ good \subseteq Nat
    BY ChainAssumption DEF CommitBlock, GoodNonces
  <2> HIDE DEF good, b
  <2> QED BY <1>3, <2>1, MinProperties DEF good
<1>6. /\ IsSeq(v) /\ Len(v) = Len(pool) + 1 /\ Len(pool) \in Nat
      /\ v[1] = GenerateCoinbase(AddressOf("genesis"), n)
      /\ \A i \in 1 .. Len(v) : IsTransaction(v[i])
      /\ \A i \in 2 .. Len(v) : v[i] = pool[i - 1]
  BY NewTransShape, SeqShape DEF TypeOK, PoolTyped
<1>7. Len(v[1].txins) = 1 /\ v[1].txins[1].key = TxoutKey(NoHash, n)
  <2>1. AddressOf("genesis") \in Addresses
    BY DEF TypeOK, WalletsTyped, AddressOf, Addresses
  <2> DEFINE a == AddressOf("genesis")
  <2> HIDE DEF a, v
  <2>2. a \in Addresses
    BY <2>1 DEF a
  <2>3. /\ Len(GenerateCoinbase(a, n).txins) = 1
        /\ GenerateCoinbase(a, n).txins[1].key = TxoutKey(NoHash, n)
    BY <1>1, <2>2, CoinbaseShape
  <2> QED BY <1>6, <2>3 DEF a
<1>8. /\ blocks' = Append(blocks, b) /\ utxouts' = UpdateUnspentTxout(v, utxouts)
      /\ BlockValidate(b, utxouts) /\ pool' = pool
  <2>1. blocks' = Append(blocks, b) /\ utxouts' = UpdateUnspentTxout(b.data, utxouts)
    BY DEF CommitBlock, Add
  <2>2. BlockValidate(b, utxouts) /\ pool' = pool
    BY DEF CommitBlock, Add, Addable
  <2> HIDE DEF b, v
  <2> QED BY <1>3, <2>1, <2>2
<1> HIDE DEF b, v
<1>9. IsSeq(blocks) /\ blocks # << >>
  BY DEF TypeOK, BlocksTyped
<1>10. /\ IsSeq(blocks') /\ Len(blocks') = n + 1
       /\ blocks'[n + 1] = b
       /\ \A i \in 1 .. n : blocks'[i] = blocks[i]
  BY <1>8, <1>9, AppendShape
<1>11. DOMAIN blocks' = 1 .. n + 1 /\ DOMAIN v = 1 .. Len(v)
  BY <1>6, <1>10, SeqShape
<1> QED BY <1>1, <1>3, <1>5, <1>6, <1>7, <1>8, <1>10, <1>11 DEF v

LEMMA CommitLinked ==
  ASSUME Linked, NEW ts \in Timestamps, CommitBlock(ts)
  PROVE  BlocksTyped' /\ UtxosTyped' /\ ChainLinked'
<1> DEFINE n == Len(blocks)
           v == NewTrans
           b == blocks'[n + 1]
<1> USE DEF Linked
<1> HIDE DEF v
<1>1. n \in Nat /\ n > 0 /\ DOMAIN blocks = 1 .. n /\ DOMAIN blocks' = 1 .. n + 1
  BY CommitShape
<1>2. IsSeq(blocks') /\ Len(blocks') = n + 1 /\ \A i \in 1 .. n : blocks'[i] = blocks[i]
  BY CommitShape
<1>3. /\ b.index = n /\ b.prev = blocks[n].hash /\ b.timestamp = ts /\ b.data = v
      /\ b.difficulty = GetDifficulty /\ b.nonce \in Nat /\ b.hash = BlockHash(b, v)
  BY CommitShape DEF v
<1>4. GetDifficulty \in 0 .. UINT32_MOD - 1
  BY DifficultyInRange
<1>6. /\ IsSeq(v) /\ Len(v) = Len(pool) + 1 /\ Len(pool) \in Nat
      /\ \A i \in 1 .. Len(v) : IsTransaction(v[i])
  BY CommitShape DEF v
<1>7. Len(v[1].txins) = 1 /\ v[1].txins[1].key = TxoutKey(NoHash, n)
  BY CommitShape DEF v
<1>8. utxouts' = UpdateUnspentTxout(v, utxouts)
  BY CommitShape DEF v
<1> HIDE DEF b
<1>10. blocks'[n + 1] = b
  BY DEF b
<1>11. blocks' # << >>
  BY <1>1, <1>2, SeqShape
<1>12. DOMAIN v = 1 .. Len(v) /\ v # << >>
  BY <1>6, SeqShape
<1>13. ASSUME NEW k \in 1 .. n + 1 PROVE k \in 1 .. n \/ k = n + 1
  BY <1>1
<1>14. BlocksTyped'
  <2>1. ASSUME NEW k \in 1 .. n + 1
        PROVE  /\ blocks'[k].timestamp \in Timestamps
               /\ blocks'[k].difficulty \in 0 .. UINT32_MOD - 1
               /\ blocks'[k].nonce \in Nat
               /\ IsSeq(blocks'[k].data)
               /\ \A i \in DOMAIN blocks'[k].data : IsTransaction(blocks'[k].data[i])
    <3>1. CASE k \in 1 .. n
      BY <1>1, <1>2, <3>1 DEF TypeOK, BlocksTyped
    <3>2. CASE k = n + 1
      BY <1>3, <1>4, <1>6, <1>10, <1>12, <3>2
    <3> QED BY <1>13, <3>1, <3>2
  <2> QED BY <1>1, <1>2, <1>11, <2>1 DEF BlocksTyped, IsTransaction, GenerateHash, Source
<1>15. ChainLinked'
  <2>1. ASSUME NEW k \in 1 .. n + 1
        PROVE  /\ blocks'[k].index = k - 1
               /\ blocks'[k].hash = BlockHash(blocks'[k], blocks'[k].data)
               /\ k > 1 => blocks'[k].prev = blocks'[k - 1].hash
               /\ blocks'[k].data # << >>
               /\ Len(blocks'[k].data[1].txins) = 1
               /\ blocks'[k].data[1].txins[1].key = TxoutKey(NoHash, k - 1)
    <3>1. CASE k \in 1 .. n
      <4>1. blocks'[k] = blocks[k] /\ (k > 1 => blocks'[k - 1] = blocks[k - 1])
        BY <1>1, <1>2, <3>1
      <4> QED BY <1>1, <3>1, <4>1 DEF ChainLinked
    <3>2. CASE k = n + 1
      <4>1. blocks'[k] = b /\ blocks'[k - 1] = blocks[n] /\ k - 1 = n
        BY <1>1, <1>2, <1>10, <3>2
      <4> QED BY <1>3, <1>7, <1>12, <4>1
    <3> QED BY <1>13, <3>1, <3>2
  <2> QED BY <1>1, <2>1 DEF ChainLinked
<1>16. UtxosTyped'
  <2>1. IsSeq(utxouts) /\ DOMAIN utxouts = 1 .. Len(utxouts)
    BY SeqShape DEF TypeOK, UtxosTyped
  <2>2. \A i \in 1 .. Len(utxouts) : /\ utxouts[i].key.txout_index \in Nat
                                     /\ utxouts[i].address \in Addresses
                                     /\ utxouts[i].amount \in Int
    BY <2>1 DEF TypeOK, UtxosTyped
  <2> DEFINE u == UpdateUnspentTxout(v, utxouts)
  <2>3. /\ IsSeq(u)
        /\ \A i \in 1 .. Len(u) : /\ u[i].key.txout_index \in Nat
                                  /\ u[i].address \in Addresses
                                  /\ u[i].amount \in Int
    BY <1>6, <2>1, <2>2, UpdateTyped
  <2> HIDE DEF u
  <2>4. DOMAIN u = 1 .. Len(u)
    BY <2>3, SeqShape
  <2>5. utxouts' = u
    BY <1>8 DEF u
  <2> QED BY <2>3, <2>4, <2>5 DEF UtxosTyped
<1> QED BY <1>14, <1>15, <1>16

LEMMA LinkedStep == Linked /\ [Next]_vars => Linked'
<1> SUFFICES ASSUME Linked, [Next]_vars PROVE Linked'
  OBVIOUS
<1> USE DEF Linked, TypeOK
<1>1. ASSUME NEW name \in Names, CreateWallet(name) PROVE Linked'
  <2>1. PICK key \in Keys \ Range(wallets) : Emplace(name, key)
    BY <1>1 DEF CreateWallet
  <2>2. WalletsTyped'
    BY <2>1, EmplaceTyped
  <2> QED BY <1>1, <2>2 DEF CreateWallet, BlocksTyped, UtxosTyped, PoolTyped, ChainLinked
<1>2. ASSUME NEW name \in Names, NEW key \in Keys, CreateWalletFromKey(name, key) PROVE Linked'
  <2>1. WalletsTyped'
    BY <1>2, EmplaceTyped DEF CreateWalletFromKey
  <2> QED BY <1>2, <2>1
          DEF CreateWalletFromKey, BlocksTyped, UtxosTyped, PoolTyped, ChainLinked
<1>3. ASSUME NEW sender \in DOMAIN wallets, NEW receiver \in DOMAIN wallets,
             NEW amount \in Amounts,
             CreateTransaction(sender, AddressOf(receiver), amount)
      PROVE  Linked'
  <2> DEFINE t == Signed(Transfer(sender, Selected(sender, amount),
                                  AddressOf(receiver), amount), wallets[sender])
  <2>1. IsTransaction(t)
    BY CreatedTyped
  <2>2. pool' = Append(pool, t)
    BY <1>3 DEF CreateTransaction
  <2> HIDE DEF t
  <2>3. PoolTyped'
    BY <2>1, <2>2, AppendTyped DEF PoolTyped
  <2> QED BY <1>3, <2>3
          DEF CreateTransaction, BlocksTyped, UtxosTyped, WalletsTyped, ChainLinked
<1>4. ASSUME NEW I, pool' = Subsequence(pool, I) PROVE PoolTyped'
  BY <1>4, PurgedTyped DEF PoolTyped
<1>5. CASE ValidateTransPool
  <2>1. PoolTyped'
    BY <1>4, <1>5 DEF ValidateTransPool
  <2> QED BY <1>5, <2>1
          DEF ValidateTransPool, BlocksTyped, UtxosTyped, WalletsTyped, ChainLinked
<1>6. CASE ValidateTransPoolAborts
  <2>1. PoolTyped'
    BY <1>4, <1>6 DEF ValidateTransPoolAborts
  <2> QED BY <1>6, <2>1
          DEF ValidateTransPoolAborts, BlocksTyped, UtxosTyped, WalletsTyped, ChainLinked
<1>7. ASSUME NEW ts \in Timestamps, CommitBlock(ts) PROVE Linked'
  <2>1. BlocksTyped' /\ UtxosTyped' /\ ChainLinked'
    BY <1>7, CommitLinked
  <2> QED BY <1>7, <2>1 DEF CommitBlock, PoolTyped, WalletsTyped
<1>8. ASSUME NEW ts \in Timestamps, CommitBlockHangs(ts) PROVE Linked'
  BY <1>8 DEF CommitBlockHangs, BlocksTyped, UtxosTyped, PoolTyped, WalletsTyped, ChainLinked
<1>9. CASE UNCHANGED vars
  BY <1>9 DEF vars, BlocksTyped, UtxosTyped, PoolTyped, WalletsTyped, ChainLinked
<1> QED BY <1>1, <1>2, <1>3, <1>5, <1>6, <1>7, <1>8, <1>9 DEF Next

(* The stored chain, the unspent outputs, the pool and the wallets stay    *)
(* well-formed over any sequence of calls, and every stored transaction    *)
(* carries the digest of its own inputs and outputs.                       *)
THEOREM TypeCorrect == Spec => []TypeOK
<1>1. Linked => TypeOK
  BY DEF Linked
<1> QED BY <1>1, LinkedInit, LinkedStep, PTL DEF Spec

(* Every block names its predecessor by its hash and opens with the        *)
(* coinbase of its own index, although validate_block does not compare     *)
(* either of them.                                                         *)
THEOREM ChainStaysLinked == Spec => []ChainLinked
<1>1. Linked => ChainLinked
  BY DEF Linked
<1> QED BY <1>1, LinkedInit, LinkedStep, PTL DEF Spec
=============================================================================
