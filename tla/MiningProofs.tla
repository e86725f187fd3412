---------------------------- MODULE MiningProofs ----------------------------
(***************************************************************************)
(* Proofs about the proof of work, the difficulty and the search for a     *)
(* nonce, for any nonce type, any interval and any digest function; and    *)
(* that the node that searches nonce by nonce is the node of module Node.  *)
(***************************************************************************)
EXTENDS Mining, NodeProofs

(* A digest has fewer leading zeros than difficulty_t has values: 64       *)
(* digits at most in the code.                                             *)
ZerosBounded ==
  \A text : LeadingZeros(Sha256(text)) \in 0 .. UINT32_MOD - 1

(***************************************************************************)
(* Arithmetic.                                                             *)
(***************************************************************************)
(* Between two neighbouring multiples there is no multiple.                *)
LEMMA NoMultipleBetween ==
  ASSUME NEW I \in Nat \ {0}, NEW a \in Nat, a % I = 0,
         NEW j \in Nat, a - I < j, j < a
  PROVE  j % I # 0
<1> SUFFICES ASSUME j % I = 0 PROVE FALSE
  OBVIOUS
<1> DEFINE q == a \div I
           p == j \div I
<1>1. q \in Int /\ p \in Int /\ a = I * q /\ j = I * p
  OBVIOUS
<1> HIDE DEF q, p
<1>2. CASE q <= p
  <2>1. I * q <= I * p
    BY <1>1, <1>2
  <2> QED BY <1>1, <2>1
<1>3. CASE q >= p + 1
  <2>1. I * q >= I * (p + 1)
    BY <1>1, <1>3
  <2>2. I * (p + 1) = I * p + I
    BY <1>1
  <2> QED BY <1>1, <2>1, <2>2
<1> QED BY <1>1, <1>2, <1>3

(* The unsigned difference of two readings is at most their distance when  *)
(* the clock was not set back.                                             *)
LEMMA ModuloAtMost ==
  ASSUME NEW a \in Nat, NEW m \in Nat \ {0}
  PROVE  a % m \in Nat /\ a % m <= a
<1> DEFINE q == a \div m
           r == a % m
<1>1. q \in Int /\ r \in Int /\ 0 <= r /\ r < m
  OBVIOUS
<1>2. a = m * q + r
  OBVIOUS
<1> HIDE DEF q, r
<1>3. q >= 0
  <2>1. CASE q <= -1
    <3>1. m * q <= m * (-1)
      BY <1>1, <2>1
    <3> QED BY <1>1, <1>2, <3>1
  <2> QED BY <1>1, <2>1
<1>4. m * q >= 0
  BY <1>1, <1>3
<1>5. r \in Nat /\ r <= a
  BY <1>1, <1>2, <1>4
<1> QED BY <1>5 DEF r

(***************************************************************************)
(* One block more.                                                         *)
(***************************************************************************)
(* Only a commit changes the chain.                                        *)
LEMMA ChainGrowsByCommit ==
  ASSUME [Next]_vars
  PROVE  blocks' = blocks \/ \E ts \in Timestamps : CommitBlock(ts)
BY DEF Next, vars, CreateWallet, CreateWalletFromKey, CreateTransaction,
       ValidateTransPool, ValidateTransPoolAborts, CommitBlockHangs

(* The hash of a mined block has more zeros than its difficulty.           *)
LEMMA MinedHasProof ==
  ASSUME Linked, NEW ts \in Timestamps, CommitBlock(ts)
  PROVE  LET b == blocks'[Len(blocks) + 1]
         IN  b.difficulty < LeadingZeros(b.hash)
<1> DEFINE v == NewTrans
           b == FindBlock(Candidate(ts), v)
<1>1. GoodNonces(Candidate(ts), v) # {}
  BY DEF CommitBlock
<1>2. blocks' = Append(blocks, b) /\ IsSeq(blocks)
  BY DEF CommitBlock, Add, Linked, TypeOK, BlocksTyped
<1> HIDE DEF v
<1>3. b.difficulty < LeadingZeros(b.hash)
  BY <1>1, FoundHasProof
<1> HIDE DEF b
<1>4. blocks'[Len(blocks) + 1] = b
  BY <1>2, AppendShape
<1> QED BY <1>3, <1>4

(* The window of get_new_difficulty lies in the chain.                     *)
LEMMA WindowInside ==
  ASSUME Linked, NEW k \in 1 .. Len(blocks), AtBoundary(k)
  PROVE  k - DIFFICULTY_ADJUSTMENT_INTERVAL + 1 \in 2 .. k
<1> DEFINE I == DIFFICULTY_ADJUSTMENT_INTERVAL
<1>1. Len(blocks) \in Nat /\ DOMAIN blocks = 1 .. Len(blocks) /\ I \in Nat \ {0}
  BY SeqShape, ChainAssumption DEF Linked, TypeOK, BlocksTyped
<1>2. blocks[k].index = k - 1
  BY <1>1 DEF Linked, ChainLinked
<1>3. k - 1 # 0 /\ (k - 1) % I = 0
  BY <1>2 DEF AtBoundary
<1>4. CASE k - 1 < I
  <2>1. (k - 1) % I = k - 1
    BY <1>1, <1>4
  <2> QED BY <1>3, <2>1
<1>5. CASE k - 1 >= I
  BY <1>1, <1>5
<1> QED BY <1>1, <1>4, <1>5

(* The blocks of a period share one difficulty: the block whose difficulty *)
(* get_new_difficulty adjusts has that of the last block.                  *)
LEMMA PeriodShares ==
  ASSUME Linked, DifficultyMovesByOne,
         LastBlock.index # 0,
         LastBlock.index % DIFFICULTY_ADJUSTMENT_INTERVAL = 0
  PROVE  LET first == Len(blocks) - DIFFICULTY_ADJUSTMENT_INTERVAL + 1
         IN  /\ first \in 2 .. Len(blocks)
             /\ blocks[first].difficulty = LastBlock.difficulty
<1> DEFINE n == Len(blocks)
           I == DIFFICULTY_ADJUSTMENT_INTERVAL
           first == n - I + 1
           T == { k \in 0 .. I - 1 : blocks[first + k].difficulty = blocks[first].difficulty }
<1>1. n \in Nat /\ n > 0 /\ DOMAIN blocks = 1 .. n /\ I \in Nat \ {0}
  BY SeqShape, ChainAssumption DEF Linked, TypeOK, BlocksTyped
<1>2. \A k \in 1 .. n : blocks[k].index = k - 1
  BY <1>1 DEF Linked, ChainLinked
<1>3. LastBlock = blocks[n] /\ n - 1 # 0 /\ (n - 1) % I = 0
  <2>1. n \in 1 .. n /\ LastBlock = blocks[n]
    BY <1>1 DEF LastBlock
  <2>2. LastBlock.index = n - 1
    BY <1>2, <2>1
  <2> QED BY <2>1, <2>2
<1>4. first \in 2 .. n
  <2>1. n \in 1 .. n /\ AtBoundary(n)
    BY <1>1, <1>3 DEF AtBoundary
  <2> QED BY <2>1, WindowInside
<1>5. first \in 2 .. n /\ first \in Int
  BY <1>1, <1>4
<1>6. 0 \in T
  BY <1>1, <1>5
<1>7. ASSUME NEW k \in 1 .. I - 1, k - 1 \in T PROVE k \in T
  <2> DEFINE j == first + k - 2
  <2>1. j \in Nat /\ n - 1 - I < j /\ j < n - 1 /\ j + 1 \in 1 .. n /\ j + 2 \in 2 .. n
    BY <1>1, <1>5
  <2>2. j % I # 0
    <3> DEFINE a == n - 1
    <3>1. a \in Nat /\ a % I = 0 /\ a - I < j /\ j < a /\ j \in Nat /\ I \in Nat \ {0}
      BY <1>1, <1>3, <2>1
    <3> HIDE DEF a, j, I
    <3> QED BY <3>1, NoMultipleBetween
  <2>3. ~ AtBoundary(j + 1)
    <3>1. blocks[j + 1].index = j
      BY <1>2, <2>1
    <3> QED BY <2>2, <3>1 DEF AtBoundary
  <2>4. blocks[j + 2].difficulty = blocks[(j + 2) - 1].difficulty
    <3>1. (j + 2) - 1 = j + 1
      BY <2>1
    <3> QED BY <2>1, <2>3, <3>1 DEF DifficultyMovesByOne
  <2>5. j + 2 = first + k /\ (j + 2) - 1 = first + (k - 1)
    BY <1>1, <1>5
  <2> HIDE DEF j, first
  <2> QED BY <1>7, <2>4, <2>5
<1>8. \A k \in 0 .. I - 1 : k \in T
  <2>1. I - 1 \in Nat
    BY <1>1
  <2> HIDE DEF T, I
  <2> QED BY <1>6, <1>7, <2>1, UpTo
<1>9. I - 1 \in 0 .. I - 1 /\ first + (I - 1) = n
  BY <1>1
<1>10. blocks[first + (I - 1)].difficulty = blocks[first].difficulty
  <2>1. I - 1 \in T
    BY <1>8, <1>9
  <2> QED BY <2>1
<1> QED BY <1>3, <1>5, <1>9, <1>10

(* The difficulty a mined block gets.                                      *)
LEMMA NewDifficulty ==
  ASSUME Linked, DifficultyMovesByOne
  PROVE  LET old == LastBlock.difficulty
             new == GetDifficulty
         IN  IF AtBoundary(Len(blocks))
             THEN /\ new \in { old, (old + 1) % UINT32_MOD, (old - 1) % UINT32_MOD }
                  /\ \/ new = old
                     \/ new = (old + 1) % UINT32_MOD
                     \/ TimeTaken > TimeExpected * 2
             ELSE new = old
<1> DEFINE n == Len(blocks)
<1>1. n \in Nat /\ n > 0 /\ LastBlock = blocks[n]
  BY SeqShape DEF Linked, TypeOK, BlocksTyped, LastBlock
<1>2. AtBoundary(n) <=> /\ LastBlock.index # 0
                        /\ LastBlock.index % DIFFICULTY_ADJUSTMENT_INTERVAL = 0
  BY <1>1 DEF AtBoundary
<1>3. CASE AtBoundary(n)
  <2>1. PrevAdjustedBlock.difficulty = LastBlock.difficulty
    BY <1>2, <1>3, PeriodShares DEF PrevAdjustedBlock
  <2>2. GetDifficulty = GetNewDifficulty
    BY <1>2, <1>3 DEF GetDifficulty
  <2> QED BY <1>3, <2>1, <2>2 DEF GetNewDifficulty, Uint32
<1>4. CASE ~ AtBoundary(n)
  BY <1>2, <1>4 DEF GetDifficulty
<1> QED BY <1>3, <1>4

(***************************************************************************)
(* The invariants.                                                         *)
(***************************************************************************)
(* What a commit leaves as it was, and the block it adds.                  *)
LEMMA CommitDifficulty ==
  ASSUME Linked, NEW ts \in Timestamps, CommitBlock(ts)
  PROVE  LET n == Len(blocks)
         IN  /\ n \in Nat /\ n > 0 /\ Len(blocks') = n + 1
             /\ \A i \in 1 .. n : blocks'[i] = blocks[i]
             /\ blocks'[n + 1].difficulty = GetDifficulty
             /\ LastBlock = blocks[n]
  BY CommitShape DEF LastBlock

LEMMA MovesStep ==
  ASSUME Linked, DifficultyMovesByOne, [Next]_vars
  PROVE  DifficultyMovesByOne'
<1>1. CASE blocks' = blocks
  BY <1>1 DEF DifficultyMovesByOne, AtBoundary
<1>2. ASSUME NEW ts \in Timestamps, CommitBlock(ts) PROVE DifficultyMovesByOne'
  <2> DEFINE n == Len(blocks)
  <2>1. /\ n \in Nat /\ n > 0 /\ Len(blocks') = n + 1
        /\ \A i \in 1 .. n : blocks'[i] = blocks[i]
        /\ blocks'[n + 1].difficulty = GetDifficulty
        /\ LastBlock = blocks[n]
    BY <1>2, CommitDifficulty
  <2>2. ASSUME NEW k \in 2 .. n + 1
        PROVE  LET old == blocks'[k - 1].difficulty
                   new == blocks'[k].difficulty
               IN  IF /\ blocks'[k - 1].index # 0
                      /\ blocks'[k - 1].index % DIFFICULTY_ADJUSTMENT_INTERVAL = 0
                   THEN new \in { old, (old + 1) % UINT32_MOD, (old - 1) % UINT32_MOD }
                   ELSE new = old
    <3>1. CASE k \in 2 .. n
      <4>1. blocks'[k] = blocks[k] /\ blocks'[k - 1] = blocks[k - 1]
        BY <2>1, <3>1
      <4> QED BY <3>1, <4>1 DEF DifficultyMovesByOne, AtBoundary
    <3>2. CASE k = n + 1
      <4>1. k - 1 = n /\ blocks'[k - 1] = blocks[n] /\ blocks'[k].difficulty = GetDifficulty
        BY <2>1, <3>2
      <4> HIDE DEF n
      <4>2. IF AtBoundary(n)
            THEN GetDifficulty \in { LastBlock.difficulty,
                                     (LastBlock.difficulty + 1) % UINT32_MOD,
                                     (LastBlock.difficulty - 1) % UINT32_MOD }
            ELSE GetDifficulty = LastBlock.difficulty
        BY NewDifficulty DEF n
      <4> QED BY <2>1, <4>1, <4>2 DEF AtBoundary
    <3> QED BY <2>1, <3>1, <3>2
  <2> QED BY <2>1, <2>2 DEF DifficultyMovesByOne, AtBoundary
<1> QED BY <1>1, <1>2, ChainGrowsByCommit

LEMMA ProofStep ==
  ASSUME Linked, ProofOfWork, [Next]_vars
  PROVE  ProofOfWork'
<1>1. CASE blocks' = blocks
  BY <1>1 DEF ProofOfWork
<1>2. ASSUME NEW ts \in Timestamps, CommitBlock(ts) PROVE ProofOfWork'
  <2> DEFINE n == Len(blocks)
  <2>1. /\ n \in Nat /\ n > 0 /\ Len(blocks') = n + 1
        /\ \A i \in 1 .. n : blocks'[i] = blocks[i]
    BY <1>2, CommitDifficulty
  <2>2. blocks'[n + 1].difficulty < LeadingZeros(blocks'[n + 1].hash)
    BY <1>2, MinedHasProof
  <2>3. ASSUME NEW k \in 2 .. n + 1
        PROVE  LeadingZeros(blocks'[k].hash) > blocks'[k].difficulty
    <3>1. CASE k \in 2 .. n
      BY <2>1, <3>1 DEF ProofOfWork
    <3>2. CASE k = n + 1
      BY <2>2, <3>2
    <3> QED BY <2>1, <3>1, <3>2
  <2> QED BY <2>1, <2>3 DEF ProofOfWork
<1> QED BY <1>1, <1>2, ChainGrowsByCommit

(* A difficulty that goes down goes down because of the time taken.        *)
LEMMA EasedBySlowness ==
  ASSUME Linked, DifficultyMovesByOne, ProofOfWork, ZerosBounded,
         GetDifficulty < LastBlock.difficulty
  PROVE  LET n == Len(blocks)
             first == n - DIFFICULTY_ADJUSTMENT_INTERVAL + 1
         IN  /\ first \in 1 .. n
             /\ \/ blocks[n].timestamp - blocks[first].timestamp
                     > 2 * DIFFICULTY_ADJUSTMENT_INTERVAL * BLOCK_GENERATION_INTERVAL
                \/ blocks[n].timestamp - blocks[first].timestamp < 0
<1> DEFINE n == Len(blocks)
           I == DIFFICULTY_ADJUSTMENT_INTERVAL
           first == n - I + 1
           old == LastBlock.difficulty
           span == blocks[n].timestamp - blocks[first].timestamp
<1>1. n \in Nat /\ n > 0 /\ DOMAIN blocks = 1 .. n /\ LastBlock = blocks[n]
  BY SeqShape DEF Linked, TypeOK, BlocksTyped, LastBlock
<1>2. old \in 0 .. UINT32_MOD - 1 /\ UINT32_MOD \in Nat
  BY <1>1, ChainAssumption DEF Linked, TypeOK, BlocksTyped
<1>3. /\ AtBoundary(n)
      /\ \/ GetDifficulty = (old + 1) % UINT32_MOD
         \/ TimeTaken > TimeExpected * 2
  <2>1. old # GetDifficulty
    <3>1. GetDifficulty \in 0 .. UINT32_MOD - 1
      BY DifficultyInRange DEF Linked
    <3> QED BY <1>2, <3>1
  <2> QED BY <2>1, NewDifficulty
<1>4. LastBlock.index # 0 /\ LastBlock.index % I = 0 /\ n >= 2
  <2>1. LastBlock.index = n - 1
    BY <1>1 DEF Linked, ChainLinked
  <2> QED BY <1>1, <1>3, <2>1 DEF AtBoundary
<1>5. first \in 2 .. n
  BY <1>4, PeriodShares
<1>6. GetDifficulty # (old + 1) % UINT32_MOD
  <2>1. LeadingZeros(LastBlock.hash) > old
    BY <1>1, <1>4 DEF ProofOfWork
  <2>2. LeadingZeros(LastBlock.hash) \in 0 .. UINT32_MOD - 1
    <3>1. LastBlock.hash = BlockHash(LastBlock, LastBlock.data)
      BY <1>1 DEF Linked, ChainLinked
    <3> QED BY <3>1 DEF ZerosBounded, BlockHash
  <2>3. (old + 1) % UINT32_MOD = old + 1
    BY <1>2, <2>1, <2>2
  <2> QED BY <1>2, <2>3
<1>7. TimeTaken > TimeExpected * 2
  BY <1>3, <1>6
<1>8. TimeTaken = span % UINT64_MOD
  BY <1>1 DEF TimeTaken, PrevAdjustedBlock
<1>9. span \in Int
  <2>1. n \in 1 .. n /\ first \in 1 .. n
    BY <1>1, <1>5
  <2>2. \A k \in 1 .. n : blocks[k].timestamp \in Nat
    BY <1>1, ChainAssumption DEF Linked, TypeOK, BlocksTyped
  <2> HIDE DEF first, n
  <2> QED BY <2>1, <2>2
<1>10. CASE span >= 0
  <2>1. UINT64_MOD \in Nat \ {0} /\ span \in Nat
    BY <1>9, <1>10, ChainAssumption
  <2> DEFINE s == span
             taken == s % UINT64_MOD
             planned == TimeExpected
  <2> HIDE DEF s
  <2>2. taken \in Nat /\ taken <= s
    BY <2>1, ModuloAtMost DEF s
  <2>3. planned \in Nat
    BY ChainAssumption DEF TimeExpected
  <2> HIDE DEF planned, taken
  <2>4. taken > planned * 2
    BY <1>7, <1>8 DEF taken, planned, s
  <2>5. s \in Nat
    BY <2>1 DEF s
  <2>6. s > 2 * planned
    BY <2>2, <2>3, <2>4, <2>5
  <2>7. 2 * planned = 2 * I * BLOCK_GENERATION_INTERVAL
    BY ChainAssumption DEF TimeExpected, planned
  <2> QED BY <1>1, <1>5, <2>6, <2>7 DEF s
<1> QED BY <1>1, <1>5, <1>9, <1>10

LEMMA EasesStep ==
  ASSUME Linked, DifficultyMovesByOne, ProofOfWork, ZerosBounded,
         EasesOnlyWhenSlow, [Next]_vars
  PROVE  EasesOnlyWhenSlow'
<1>1. CASE blocks' = blocks
  BY <1>1 DEF EasesOnlyWhenSlow, Span
<1>2. ASSUME NEW ts \in Timestamps, CommitBlock(ts) PROVE EasesOnlyWhenSlow'
  <2> DEFINE n == Len(blocks)
             I == DIFFICULTY_ADJUSTMENT_INTERVAL
             Slow(bs, k) ==
               \/ bs[k].timestamp - bs[k - I + 1].timestamp
                    > 2 * I * BLOCK_GENERATION_INTERVAL
               \/ bs[k].timestamp - bs[k - I + 1].timestamp < 0
  <2>1. /\ n \in Nat /\ n > 0 /\ Len(blocks') = n + 1
        /\ \A i \in 1 .. n : blocks'[i] = blocks[i]
        /\ blocks'[n + 1].difficulty = GetDifficulty
        /\ LastBlock = blocks[n]
    BY <1>2, CommitDifficulty
  <2>2. I \in Nat \ {0}
    BY ChainAssumption
  <2>3. ASSUME NEW k \in 2 .. n + 1,
               blocks'[k].difficulty < blocks'[k - 1].difficulty
        PROVE  Slow(blocks', k - 1)
    <3>1. CASE k \in 2 .. n
      <4>1. blocks'[k] = blocks[k] /\ blocks'[k - 1] = blocks[k - 1]
        BY <2>1, <3>1
      <4>2. Slow(blocks, k - 1)
        BY <2>3, <3>1, <4>1 DEF EasesOnlyWhenSlow, Span
      <4>3. AtBoundary(k - 1) /\ k - 1 \in 1 .. n
        <5>1. blocks[k].difficulty # blocks[k - 1].difficulty
          <6>1. \A i \in 1 .. n : blocks[i].difficulty \in Int
            BY SeqShape, ChainAssumption DEF Linked, TypeOK, BlocksTyped
          <6> QED BY <2>1, <2>3, <3>1, <4>1, <6>1
        <5> QED BY <2>1, <3>1, <5>1 DEF DifficultyMovesByOne
      <4>4. k - 1 - I + 1 \in 1 .. n
        <5> DEFINE j == k - 1
        <5> HIDE DEF j
        <5>1. j \in 1 .. n /\ AtBoundary(j)
          BY <4>3 DEF j
        <5>2. j - I + 1 \in 2 .. j
          BY <5>1, WindowInside
        <5> QED BY <2>1, <2>2, <5>1, <5>2 DEF j
      <4> QED BY <2>1, <4>1, <4>2, <4>4
    <3>2. CASE k = n + 1
      <4>1. k - 1 = n /\ blocks'[n] = blocks[n]
        BY <2>1, <3>2
      <4>2. GetDifficulty < LastBlock.difficulty
        BY <2>1, <2>3, <3>2, <4>1
      <4>3. n - I + 1 \in 1 .. n /\ Slow(blocks, n)
        BY <4>2, EasedBySlowness
      <4> QED BY <2>1, <4>1, <4>3
    <3> QED BY <2>1, <3>1, <3>2
  <2> QED BY <2>1, <2>3 DEF EasesOnlyWhenSlow, Span
<1> QED BY <1>1, <1>2, ChainGrowsByCommit

(* The genesis block is not mined and nothing precedes it.                 *)
LEMMA DifficultyInit ==
  ASSUME Init
  PROVE  ProofOfWork /\ DifficultyMovesByOne /\ EasesOnlyWhenSlow
<1>1. PICK ts \in Timestamps : ChainInit(ts)
  BY DEF Init
<1>2. Len(blocks) = 1
  BY <1>1, GenesisShape
<1>3. 2 .. 1 = {}
  OBVIOUS
<1> QED BY <1>2, <1>3 DEF ProofOfWork, DifficultyMovesByOne, EasesOnlyWhenSlow

(* Every block that was mined has the proof of work it states, with one    *)
(* zero to spare, for any length of the chain.                             *)
THEOREM WorkProved == Spec => []ProofOfWork
<1>1. Init => Linked /\ ProofOfWork
  BY LinkedInit, DifficultyInit
<1>2. Linked /\ ProofOfWork /\ [Next]_vars => (Linked /\ ProofOfWork)'
  BY LinkedStep, ProofStep
<1> QED BY <1>1, <1>2, PTL DEF Spec

(* The difficulty moves at the end of a period only, and by one step, for  *)
(* any interval: the window of get_new_difficulty starts in the period.    *)
THEOREM DifficultySteps == Spec => []DifficultyMovesByOne
<1>1. Init => Linked /\ DifficultyMovesByOne
  BY LinkedInit, DifficultyInit
<1>2. Linked /\ DifficultyMovesByOne /\ [Next]_vars => (Linked /\ DifficultyMovesByOne)'
  BY LinkedStep, MovesStep
<1> QED BY <1>1, <1>2, PTL DEF Spec

(* The difficulty goes down only after a slow period or when the clock was *)
(* set back.  It does not wrap around to 0 from above, since a block whose *)
(* difficulty is the largest uint32 cannot be mined.                       *)
THEOREM EasedWhenSlow ==
  ASSUME ZerosBounded
  PROVE  Spec => []EasesOnlyWhenSlow
<1> DEFINE IInv == Linked /\ ProofOfWork /\ DifficultyMovesByOne /\ EasesOnlyWhenSlow
<1>1. Init => IInv
  BY LinkedInit, DifficultyInit
<1>2. IInv /\ [Next]_vars => IInv'
  <2>1. ZerosBounded
    OBVIOUS
  <2> QED BY <2>1, LinkedStep, ProofStep, MovesStep, EasesStep
<1>3. IInv => EasesOnlyWhenSlow
  OBVIOUS
<1> QED BY <1>1, <1>2, <1>3, PTL DEF Spec

(***************************************************************************)
(* The search.                                                             *)
(***************************************************************************)

(* The inductive invariant: a search is fresh, and began where commit_block *)
(* could begin one.                                                        *)
Searching ==
  /\ SearchFresh
  /\ ~ Idle => /\ search = [block |-> search.block, trans |-> search.trans]
               /\ status = "running"
               /\ Len(blocks) < MaxBlocks

(* A candidate with another nonce.                                         *)
LEMMA CandidateShape ==
  ASSUME NEW ts, NEW n
  PROVE  [Candidate(ts) EXCEPT !.nonce = n]
           = [index |-> LastBlock.index + 1, prev |-> LastBlock.hash,
              timestamp |-> ts, data |-> << >>, difficulty |-> GetDifficulty,
              nonce |-> n, hash |-> NoHash]
BY DEF Candidate

(* The nonce a block comes with does not matter to the search.             *)
LEMMA GoodNoncesOf ==
  ASSUME NEW ts, NEW m, NEW v
  PROVE  GoodNonces([Candidate(ts) EXCEPT !.nonce = m], v) = GoodNonces(Candidate(ts), v)
<1> DEFINE c == Candidate(ts)
           b == [c EXCEPT !.nonce = m]
<1>1. b.difficulty = c.difficulty
  BY DEF Candidate
<1>2. \A n : [b EXCEPT !.nonce = n] = [c EXCEPT !.nonce = n]
  BY DEF Candidate
<1> HIDE DEF b, c
<1>3. GoodNonces(b, v) = GoodNonces(c, v)
  BY <1>1, <1>2 DEF GoodNonces
<1> QED BY <1>3 DEF b, c

(* What the invariant says of a running search, at one reading of the      *)
(* clock.                                                                  *)
LEMMA SearchShape ==
  ASSUME Searching, ~ Idle
  PROVE  \E ts \in Timestamps :
           LET b == search.block
               n == search.block.nonce
           IN  /\ b = [Candidate(ts) EXCEPT !.nonce = n]
               /\ search.trans = NewTrans
               /\ n \in Nonces
               /\ GoodNonces(b, NewTrans) = GoodNonces(Candidate(ts), NewTrans)
               /\ \A k \in GoodNonces(Candidate(ts), NewTrans) : n <= k
               /\ GoodEnough <=> n \in GoodNonces(Candidate(ts), NewTrans)
<1> DEFINE b == search.block
           n == search.block.nonce
<1>1. PICK ts \in Timestamps : b = [Candidate(ts) EXCEPT !.nonce = n]
  BY DEF Searching, SearchFresh
<1>2. search.trans = NewTrans /\ n \in Nonces /\ \A k \in GoodNonces(b, NewTrans) : n <= k
  BY DEF Searching, SearchFresh
<1>3. GoodNonces(b, NewTrans) = GoodNonces(Candidate(ts), NewTrans)
  <2> DEFINE v == NewTrans
             m == n
  <2> HIDE DEF v, b, m
  <2>1. GoodNonces([Candidate(ts) EXCEPT !.nonce = m], v) = GoodNonces(Candidate(ts), v)
    BY GoodNoncesOf
  <2> QED BY <1>1, <2>1 DEF v, m
<1>4. [b EXCEPT !.nonce = n] = b
  <2> DEFINE m == n
  <2> HIDE DEF m
  <2>1. b = [Candidate(ts) EXCEPT !.nonce = m]
    BY <1>1 DEF m
  <2>2. b = [index |-> LastBlock.index + 1, prev |-> LastBlock.hash,
             timestamp |-> ts, data |-> << >>, difficulty |-> GetDifficulty,
             nonce |-> m, hash |-> NoHash]
    BY <2>1, CandidateShape
  <2> HIDE DEF b
  <2>3. [b EXCEPT !.nonce = m] = b
    BY <2>2
  <2> QED BY <2>3 DEF m
<1>5. GoodEnough <=> n \in GoodNonces(b, NewTrans)
  <2> DEFINE v == NewTrans
  <2>1. search.trans = v
    BY <1>2
  <2> HIDE DEF v
  <2>2. n \in GoodNonces(b, v) <=> b.difficulty < LeadingZeros(BlockHash(b, v))
    BY <1>2, <1>4 DEF GoodNonces
  <2> QED BY <2>1, <2>2 DEF GoodEnough, v
<1> QED BY <1>1, <1>2, <1>3, <1>5

(* What depends on the chain, the pool and the wallets only.               *)
LEMMA SearchingStays ==
  ASSUME Searching, UNCHANGED vars, UNCHANGED search
  PROVE  Searching'
BY DEF Searching, SearchFresh, Idle, vars, NewTrans, AddressOf, LastBlock, Candidate,
       GetDifficulty, GetNewDifficulty, TimeTaken, PrevAdjustedBlock

(***************************************************************************)
(* The steps.                                                              *)
(***************************************************************************)
LEMMA NonceRange == Nonces \subseteq Nat /\ 0 \in Nonces /\ NONCE_MOD \in Nat \ {0}
BY NonceAssumption

LEMMA StartSearching ==
  ASSUME NEW ts \in Timestamps, StartCommit(ts)
  PROVE  Searching'
<1> DEFINE b == Candidate(ts)
           v == NewTrans
<1>1. UNCHANGED vars /\ search' = [block |-> b, trans |-> v]
  BY DEF StartCommit
<1>2. Candidate(ts)' = b /\ NewTrans' = v
  BY <1>1 DEF vars, NewTrans, AddressOf, LastBlock, Candidate,
              GetDifficulty, GetNewDifficulty, TimeTaken, PrevAdjustedBlock
<1>3. b.nonce = 0 /\ b = [b EXCEPT !.nonce = b.nonce]
  BY DEF Candidate
<1>4. GoodNonces(b, v) \subseteq Nat
  BY NonceRange DEF GoodNonces
<1>5. status = "running" /\ Len(blocks) < MaxBlocks
  BY DEF StartCommit
<1> HIDE DEF b, v
<1>6. search'.block = b /\ search'.trans = v
  BY <1>1
<1>7. \A n \in GoodNonces(b, v) : 0 <= n
  BY <1>4
<1>8. SearchFresh'
  BY <1>2, <1>3, <1>6, <1>7, NonceRange DEF SearchFresh
<1> QED BY <1>1, <1>5, <1>6, <1>8 DEF Searching, vars

LEMMA NextNonceSearching ==
  ASSUME Searching, NextNonce
  PROVE  Searching'
<1> DEFINE b == search.block
           n == search.block.nonce
           m == (n + 1) % NONCE_MOD
           v == NewTrans
<1>1. PICK ts \in Timestamps :
        /\ b = [Candidate(ts) EXCEPT !.nonce = n]
        /\ search.trans = v
        /\ n \in Nonces
        /\ GoodNonces(b, v) = GoodNonces(Candidate(ts), v)
        /\ \A k \in GoodNonces(Candidate(ts), v) : n <= k
        /\ GoodEnough <=> n \in GoodNonces(Candidate(ts), v)
  <2>1. ~ Idle
    BY DEF NextNonce
  <2> QED BY <2>1, SearchShape
<1> DEFINE c == Candidate(ts)
           good == GoodNonces(c, v)
<1>2. /\ UNCHANGED vars
      /\ search' = [search EXCEPT !.block.nonce = m]
      /\ ~ Idle /\ n \notin good
  BY <1>1 DEF NextNonce
<1>3. search = [block |-> b, trans |-> v] /\ status = "running" /\ Len(blocks) < MaxBlocks
  BY <1>1, <1>2 DEF Searching
<1>4. c' = c /\ v' = v
  BY <1>2 DEF vars, NewTrans, AddressOf, LastBlock, Candidate,
              GetDifficulty, GetNewDifficulty, TimeTaken, PrevAdjustedBlock
<1>5. m \in Nonces /\ \A k \in good : m <= k
  <2>1. good \subseteq Nonces
    BY DEF GoodNonces
  <2>2. NONCE_MOD \in Nat \ {0} /\ Nonces = 0 .. NONCE_MOD - 1 /\ n \in Nonces
    BY <1>1, NonceAssumption
  <2>3. \A k \in good : n <= k /\ k # n
    BY <1>1, <1>2
  <2> HIDE DEF good, n
  <2>4. CASE n + 1 = NONCE_MOD
    <3>1. m = 0
      BY <2>2, <2>4
    <3> QED BY <2>1, <2>2, <3>1
  <2>5. CASE n + 1 < NONCE_MOD
    <3>1. m = n + 1
      BY <2>2, <2>5
    <3> QED BY <2>1, <2>2, <2>3, <2>5, <3>1
  <2> QED BY <2>2, <2>4, <2>5
<1> HIDE DEF m, v
<1>6. search'.trans = v /\ search'.block = [b EXCEPT !.nonce = m]
      /\ search' = [block |-> search'.block, trans |-> search'.trans]
  BY <1>2, <1>3
<1>7. search'.block = [c EXCEPT !.nonce = m] /\ search'.block.nonce = m
  <2> HIDE DEF n, b
  <2> QED BY <1>1, <1>6, CandidateShape
<1>8. GoodNonces([c EXCEPT !.nonce = m], v) = good
  BY GoodNoncesOf
<1> HIDE DEF b, n, c, good
<1>9. GoodNonces(search'.block, v) = good
  BY <1>7, <1>8
<1>10. SearchFresh'
  <2>1. /\ search'.trans = v'
        /\ search'.block = [c' EXCEPT !.nonce = search'.block.nonce]
        /\ search'.block.nonce \in Nonces
        /\ \A k \in GoodNonces(search'.block, search'.trans) : search'.block.nonce <= k
    BY <1>4, <1>5, <1>6, <1>7, <1>9
  <2> QED BY <2>1 DEF SearchFresh, c, v
<1> QED BY <1>2, <1>3, <1>6, <1>10 DEF Searching, vars

(* The round that succeeds is the whole call of commit_block.              *)
LEMMA EndIsCommit ==
  ASSUME Searching, EndCommit
  PROVE  UNCHANGED vars \/ \E ts \in Timestamps : CommitBlock(ts)
<1> DEFINE b == search.block
           n == search.block.nonce
           v == NewTrans
<1>1. PICK ts \in Timestamps :
        /\ b = [Candidate(ts) EXCEPT !.nonce = n]
        /\ search.trans = v
        /\ n \in Nonces
        /\ GoodNonces(b, v) = GoodNonces(Candidate(ts), v)
        /\ \A k \in GoodNonces(Candidate(ts), v) : n <= k
        /\ GoodEnough <=> n \in GoodNonces(Candidate(ts), v)
  <2>1. ~ Idle
    BY DEF EndCommit
  <2> QED BY <2>1, SearchShape
<1> DEFINE good == GoodNonces(Candidate(ts), v)
<1>2. n \in good
  BY <1>1 DEF EndCommit
<1>3. Min(good) = n
  <2>1. good \subseteq Nat
    BY NonceRange DEF GoodNonces
  <2> DEFINE m == n
             least == Min(good)
  <2> HIDE DEF good, m
  <2>2. m \in good /\ \A k \in good : m <= k
    BY <1>1, <1>2 DEF m, good
  <2>3. least \in good /\ \A k \in good : least <= k
    BY <2>1, <2>2, MinProperties
  <2> HIDE DEF least
  <2>4. least = m
    BY <2>1, <2>2, <2>3
  <2> QED BY <2>4 DEF least, m
<1>4. FindBlock(Candidate(ts), v) = Mined
  <2> DEFINE hash == BlockHash(b, v)
  <2>1. FindBlock(Candidate(ts), v) = [[b EXCEPT !.hash = hash] EXCEPT !.data = v]
    <3>1. [Candidate(ts) EXCEPT !.nonce = Min(good)] = b
      BY <1>1, <1>3
    <3> HIDE DEF b, n
    <3> QED BY <3>1 DEF FindBlock, good
  <2>2. Mined = [[b EXCEPT !.hash = hash] EXCEPT !.data = v]
    BY <1>1 DEF Mined
  <2> HIDE DEF b, n, v, hash
  <2> QED BY <2>1, <2>2
<1>5. CASE Addable(Mined)
  <2>1. Add(Mined) /\ UNCHANGED << pool, wallets, status >>
    BY <1>5 DEF EndCommit
  <2>2. status = "running" /\ Len(blocks) < MaxBlocks
    BY DEF EndCommit, Searching
  <2>3. good # {}
    BY <1>2
  <2>4. Add(FindBlock(Candidate(ts), NewTrans))
    BY <1>4, <2>1
  <2>5. CommitBlock(ts)
    BY <2>1, <2>2, <2>3, <2>4 DEF CommitBlock
  <2> QED BY <2>5
<1>6. CASE ~ Addable(Mined)
  BY <1>6 DEF EndCommit, chainVars, vars
<1> QED BY <1>5, <1>6

LEMMA SearchingInit == MiningInit => Searching
BY DEF MiningInit, Searching, SearchFresh, Idle

LEMMA SearchingStep == Searching /\ [MiningNext]_miningVars => Searching'
<1> SUFFICES ASSUME Searching, [MiningNext]_miningVars PROVE Searching'
  OBVIOUS
<1>1. ASSUME NEW ts \in Timestamps, StartCommit(ts) PROVE Searching'
  BY <1>1, StartSearching
<1>2. CASE NextNonce
  BY <1>2, NextNonceSearching
<1>3. CASE OtherCall \/ EndCommit
  <2>1. Idle'
    BY <1>3 DEF OtherCall, EndCommit, Idle
  <2> QED BY <2>1 DEF Searching, SearchFresh, Idle
<1>4. CASE UNCHANGED miningVars
  <2>1. UNCHANGED vars /\ UNCHANGED search
    BY <1>4 DEF miningVars, vars
  <2> QED BY <2>1, SearchingStays
<1> QED BY <1>1, <1>2, <1>3, <1>4 DEF MiningNext, FindBlockStep

LEMMA StepIsNodeStep == Searching /\ [MiningNext]_miningVars => [Next]_vars
<1> SUFFICES ASSUME Searching, [MiningNext]_miningVars PROVE [Next]_vars
  OBVIOUS
<1>1. CASE OtherCall
  BY <1>1 DEF OtherCall, Next
<1>2. ASSUME NEW ts \in Timestamps, StartCommit(ts) PROVE UNCHANGED vars
  BY <1>2 DEF StartCommit
<1>3. CASE NextNonce
  BY <1>3 DEF NextNonce
<1>4. CASE EndCommit
  BY <1>4, EndIsCommit DEF Next
<1>5. CASE UNCHANGED miningVars
  BY <1>5 DEF miningVars, vars
<1> QED BY <1>1, <1>2, <1>3, <1>4, <1>5 DEF MiningNext, FindBlockStep

(* While find_block searches, it works on the candidate for the present    *)
(* chain and pool and has left out no good nonce.                          *)
THEOREM SearchStaysFresh == MiningSpec => []SearchFresh
<1>1. Searching => SearchFresh
  BY DEF Searching
<1> QED BY <1>1, SearchingInit, SearchingStep, PTL DEF MiningSpec

(* The node that searches nonce by nonce, with a nonce that wraps around,  *)
(* behaves as module Node says: its rounds are stuttering steps and the    *)
(* last one is the commit.  Every property proved of Spec holds of it.     *)
THEOREM SearchIsCommit == MiningSpec => Spec
<1>1. MiningInit => Init
  BY DEF MiningInit
<1> QED BY <1>1, SearchingInit, SearchingStep, StepIsNodeStep, PTL DEF MiningSpec, Spec

(***************************************************************************)
(* A node that searches step by step is a node.                            *)
(*                                                                         *)
(* OneStep!Op is Op with the status seen from outside for status, and most *)
(* operators of Node do not read the status: they are the same operators,  *)
(* which shows once both are written out.                                  *)
(***************************************************************************)
Seen == IF Hopeless THEN "mining" ELSE status

LEMMA SameBlock ==
  /\ OneStep!NewTrans = NewTrans
  /\ \A ts : OneStep!Candidate(ts) = Candidate(ts)
  /\ \A b, v : OneStep!GoodNonces(b, v) = GoodNonces(b, v)
  /\ \A b, v : OneStep!FindBlock(b, v) = FindBlock(b, v)
<1> USE DEF Int32, OneStep!Int32, Quotient, OneStep!Quotient, Get,
    OneStep!Get, Sha256, OneStep!Sha256, NoHash, OneStep!NoHash, NoAddress,
    OneStep!NoAddress, Truthy, OneStep!Truthy, Source, OneStep!Source,
    BlockHash, OneStep!BlockHash
<1>1. OneStep!NewTrans = NewTrans
  BY DEF NewTrans, OneStep!NewTrans, AddressOf, OneStep!AddressOf, LastBlock,
      OneStep!LastBlock, GenerateHash, OneStep!GenerateHash, Build,
      OneStep!Build, Txin, OneStep!Txin, Txout, OneStep!Txout, TxoutKey,
      OneStep!TxoutKey, NoSignature, OneStep!NoSignature, GetCoinbase,
      OneStep!GetCoinbase, GenerateCoinbase, OneStep!GenerateCoinbase,
      GetAddress, OneStep!GetAddress
<1>2. \A ts : OneStep!Candidate(ts) = Candidate(ts)
  BY DEF Candidate, OneStep!Candidate, GetDifficulty, OneStep!GetDifficulty,
      GetNewDifficulty, OneStep!GetNewDifficulty, TimeTaken,
      OneStep!TimeTaken, TimeExpected, OneStep!TimeExpected,
      PrevAdjustedBlock, OneStep!PrevAdjustedBlock, Uint32, OneStep!Uint32,
      LastBlock, OneStep!LastBlock
<1>3. \A b, v : OneStep!GoodNonces(b, v) = GoodNonces(b, v)
  BY DEF GoodNonces, OneStep!GoodNonces
<1>4. \A b, v : OneStep!FindBlock(b, v) = FindBlock(b, v)
  BY DEF GoodNonces, OneStep!GoodNonces, FindBlock, OneStep!FindBlock, Min,
      OneStep!Min
<1> QED BY <1>1, <1>2, <1>3, <1>4

LEMMA SameAdd == \A b : OneStep!Add(b) <=> Add(b)
BY DEF Int32, OneStep!Int32, Quotient, OneStep!Quotient, Get, OneStep!Get,
    Sha256, OneStep!Sha256, NoHash, OneStep!NoHash, NoAddress,
    OneStep!NoAddress, Truthy, OneStep!Truthy, Source, OneStep!Source,
    BlockHash, OneStep!BlockHash, LastBlock, OneStep!LastBlock, TxoutKey,
    OneStep!TxoutKey, GenerateHash, OneStep!GenerateHash, GetCoinbase,
    OneStep!GetCoinbase, NotEqual, OneStep!NotEqual, Verify, OneStep!Verify,
    KeyTruthy, OneStep!KeyTruthy, Blank, OneStep!Blank, Has, OneStep!Has, Min,
    OneStep!Min, GetTxout, OneStep!GetTxout, TxinValidate,
    OneStep!TxinValidate, Validate, OneStep!Validate, ValidateCoinbase,
    OneStep!ValidateCoinbase, KeyAt, OneStep!KeyAt, InputPlaces,
    OneStep!InputPlaces, NoDuplicateKey, OneStep!NoDuplicateKey,
    BlockValidate, OneStep!BlockValidate, ValidateHash, OneStep!ValidateHash,
    ValidateBlock, OneStep!ValidateBlock, Addable, OneStep!Addable,
    UpdateUnspentTxout, OneStep!UpdateUnspentTxout, NewUnspent,
    OneStep!NewUnspent, OutputsOf, OneStep!OutputsOf, FlattenSeq,
    OneStep!FlattenSeq, SpentKeys, OneStep!SpentKeys, Subsequence,
    OneStep!Subsequence, Add, OneStep!Add

LEMMA SameSelected ==
  ASSUME NEW sender, NEW amount
  PROVE  OneStep!Selected(sender, amount) = Selected(sender, amount)
<1>1. \A s : OneStep!Totals(s) = Totals(s)
  BY DEF Totals, OneStep!Totals
<1>2. ASSUME NEW s PROVE OneStep!UseCount(s, amount) = UseCount(s, amount)
  <2>1. PICK t : t = Totals(s) /\ t = OneStep!Totals(s)
    BY <1>1
  <2>2. \A k : OneStep!Greater(t[k], amount) <=> Greater(t[k], amount)
    BY DEF Greater, OneStep!Greater, Get, OneStep!Get, Quotient, OneStep!Quotient,
        Int32, OneStep!Int32
  <2>3. PICK enough : enough = { k \in 1 .. Len(s) : Greater(t[k], amount) }
    OBVIOUS
  <2>4. enough = { k \in 1 .. Len(s) : OneStep!Greater(t[k], amount) }
    BY <2>2, <2>3, Zenon
  <2>5. OneStep!Min(enough) = Min(enough)
    BY DEF Min, OneStep!Min
  <2>6. UseCount(s, amount) = IF enough = {} THEN Len(s) ELSE Min(enough)
    BY <2>1, <2>3 DEF UseCount
  <2>7. OneStep!UseCount(s, amount) = IF enough = {} THEN Len(s) ELSE OneStep!Min(enough)
    BY <2>1, <2>4 DEF OneStep!UseCount
  <2> QED BY <2>5, <2>6, <2>7
<1>3. \A address : OneStep!CacheGroupBy(address) = CacheGroupBy(address)
  BY DEF CacheGroupBy, OneStep!CacheGroupBy, Subsequence, OneStep!Subsequence
<1>4. OneStep!SpentKeys(pool) = SpentKeys(pool)
  BY DEF SpentKeys, OneStep!SpentKeys, KeyAt, OneStep!KeyAt, InputPlaces,
      OneStep!InputPlaces
<1>5. \A K, key : OneStep!FoundIn(K, key) <=> FoundIn(K, key)
  BY DEF FoundIn, OneStep!FoundIn, KeyTruthy, OneStep!KeyTruthy, Truthy,
      OneStep!Truthy, NoHash, OneStep!NoHash, NoAddress, OneStep!NoAddress
<1>6. \A s, I : OneStep!RemoveIf(s, I) = RemoveIf(s, I)
  BY DEF RemoveIf, OneStep!RemoveIf, Subsequence, OneStep!Subsequence
<1>7. \A address : OneStep!SenderCache(address) = SenderCache(address)
  BY <1>3, <1>4, <1>5, <1>6 DEF SenderCache, OneStep!SenderCache
<1>8. OneStep!AddressOf(sender) = AddressOf(sender)
  BY DEF AddressOf, OneStep!AddressOf, GetAddress, OneStep!GetAddress
<1> QED BY <1>2, <1>7, <1>8 DEF Selected, OneStep!Selected

LEMMA SameTransfer ==
  ASSUME NEW sender, NEW receiver, NEW amount, NEW use
  PROVE  /\ OneStep!Selected(sender, amount) = Selected(sender, amount)
         /\ OneStep!Transfer(sender, use, receiver, amount)
              = Transfer(sender, use, receiver, amount)
<1> USE DEF Int32, OneStep!Int32, Quotient, OneStep!Quotient, Get,
    OneStep!Get, Sha256, OneStep!Sha256, NoHash, OneStep!NoHash, NoAddress,
    OneStep!NoAddress, Truthy, OneStep!Truthy, Source, OneStep!Source, Totals,
    OneStep!Totals, AddressOf, OneStep!AddressOf, GetAddress,
    OneStep!GetAddress
<1>1. OneStep!Transfer(sender, use, receiver, amount)
        = Transfer(sender, use, receiver, amount)
  BY DEF Transfer, OneStep!Transfer, Build, OneStep!Build, GenerateHash,
      OneStep!GenerateHash, Txin, OneStep!Txin, Txout, OneStep!Txout,
      NoSignature, OneStep!NoSignature, Total, OneStep!Total
<1> QED BY <1>1, SameSelected

LEMMA SameSigning ==
  ASSUME NEW t, NEW key, NEW cache, NEW a, NEW s
  PROVE  /\ OneStep!CanSign(t, key, cache) <=> CanSign(t, key, cache)
         /\ OneStep!Signed(t, key) = Signed(t, key)
         /\ OneStep!Greater(a, OneStep!Total(s)) <=> Greater(a, Total(s))
BY DEF CanSign, OneStep!CanSign, Signed, OneStep!Signed, Sign, OneStep!Sign,
    GetAddress, OneStep!GetAddress, NotEqual, OneStep!NotEqual, KeyTruthy,
    OneStep!KeyTruthy, Truthy, OneStep!Truthy, NoHash, OneStep!NoHash,
    NoAddress, OneStep!NoAddress, GetTxout, OneStep!GetTxout, Has,
    OneStep!Has, Min, OneStep!Min, Blank, OneStep!Blank, TxoutKey,
    OneStep!TxoutKey, Greater, OneStep!Greater, Get, OneStep!Get, Int32,
    OneStep!Int32, Quotient, OneStep!Quotient, Total, OneStep!Total, Totals,
    OneStep!Totals

LEMMA SamePurge ==
  /\ OneStep!Erased = Erased
  /\ \A s, I : OneStep!Subsequence(s, I) = Subsequence(s, I)
  /\ \A I : OneStep!Min(I) = Min(I)
BY DEF Erased, OneStep!Erased, IsStale, OneStep!IsStale, Has, OneStep!Has,
    Subsequence, OneStep!Subsequence, Min, OneStep!Min

(* The calls other than commit_block come when nothing is searched.        *)
LEMMA OtherIsCall ==
  ASSUME OtherCall
  PROVE  OneStep!Next
<1>1. Idle /\ Idle'
  BY DEF OtherCall, Idle
<1>2. Seen = status /\ Seen' = status'
  BY <1>1 DEF Seen, Hopeless
<1>3. ASSUME NEW name \in Names, CreateWallet(name) PROVE OneStep!CreateWallet(name)
  BY <1>2, <1>3 DEF CreateWallet, OneStep!CreateWallet, Emplace, OneStep!Emplace,
                    Range, OneStep!Range, Seen
<1>4. ASSUME NEW name \in Names, NEW key \in Keys, CreateWalletFromKey(name, key)
      PROVE  OneStep!CreateWalletFromKey(name, key)
  BY <1>2, <1>4 DEF CreateWalletFromKey, OneStep!CreateWalletFromKey,
                    Emplace, OneStep!Emplace, Seen
<1>5. ASSUME NEW sender \in DOMAIN wallets, NEW receiver \in DOMAIN wallets,
             NEW amount \in Amounts,
             CreateTransaction(sender, AddressOf(receiver), amount)
      PROVE  OneStep!CreateTransaction(sender, OneStep!AddressOf(receiver), amount)
  <2>1. OneStep!AddressOf(receiver) = AddressOf(receiver)
    BY DEF AddressOf, OneStep!AddressOf, GetAddress, OneStep!GetAddress
  <2> QED BY <1>2, <1>5, <2>1, SameTransfer, SameSigning
          DEF CreateTransaction, OneStep!CreateTransaction, Seen
<1>6. ASSUME ValidateTransPool PROVE OneStep!ValidateTransPool
  BY <1>2, <1>6, SamePurge DEF ValidateTransPool, OneStep!ValidateTransPool, Seen
<1>7. ASSUME ValidateTransPoolAborts PROVE OneStep!ValidateTransPoolAborts
  BY <1>2, <1>7, SamePurge
     DEF ValidateTransPoolAborts, OneStep!ValidateTransPoolAborts, Seen
<1> QED BY <1>3, <1>4, <1>5, <1>6, <1>7 DEF OtherCall, OneStep!Next

LEMMA NodeInit == MiningInit => OneStep!Init
<1> SUFFICES ASSUME MiningInit PROVE OneStep!Init
  OBVIOUS
<1>1. Init /\ Seen = status
  BY DEF MiningInit, Seen, Hopeless, Idle
<1>2. \A ts : OneStep!GenesisBlock(ts) = GenesisBlock(ts)
  <2>1. \A t : OneStep!Source(t) = Source(t)
    BY DEF Source, OneStep!Source, Truthy, OneStep!Truthy, NoHash, OneStep!NoHash,
        NoAddress, OneStep!NoAddress, Get, OneStep!Get, Quotient, OneStep!Quotient,
        Int32, OneStep!Int32
  <2>2. OneStep!GetGenesis = GetGenesis
    BY <2>1
       DEF GetGenesis, OneStep!GetGenesis, GenerateCoinbase, OneStep!GenerateCoinbase,
           GenerateHash, OneStep!GenerateHash, Build, OneStep!Build, Txin, OneStep!Txin,
           Txout, OneStep!Txout, TxoutKey, OneStep!TxoutKey, NoSignature,
           OneStep!NoSignature, GetCoinbase, OneStep!GetCoinbase, GetAddress,
           OneStep!GetAddress, Sha256, OneStep!Sha256, NoHash, OneStep!NoHash
  <2>3. ASSUME NEW b, NEW v PROVE OneStep!BlockHash(b, v) = BlockHash(b, v)
    <3>1. [i \in DOMAIN v |-> OneStep!Source(v[i])] = [i \in DOMAIN v |-> Source(v[i])]
      BY <2>1
    <3> QED BY <3>1
       DEF BlockHash, OneStep!BlockHash, Sha256, OneStep!Sha256, Truthy, OneStep!Truthy,
           NoHash, OneStep!NoHash, NoAddress, OneStep!NoAddress
  <2> QED BY <2>2, <2>3 DEF GenesisBlock, OneStep!GenesisBlock, NoHash, OneStep!NoHash
<1>3. \A b, s : OneStep!BlockValidate(b, s) <=> BlockValidate(b, s)
  BY DEF Int32, OneStep!Int32, Quotient, OneStep!Quotient, Get, OneStep!Get,
      Sha256, OneStep!Sha256, NoHash, OneStep!NoHash, NoAddress,
      OneStep!NoAddress, Truthy, OneStep!Truthy, Source, OneStep!Source,
      BlockHash, OneStep!BlockHash, GenerateHash, OneStep!GenerateHash,
      GetCoinbase, OneStep!GetCoinbase, TxoutKey, OneStep!TxoutKey, NotEqual,
      OneStep!NotEqual, Verify, OneStep!Verify, KeyTruthy, OneStep!KeyTruthy,
      Blank, OneStep!Blank, Has, OneStep!Has, Min, OneStep!Min, GetTxout,
      OneStep!GetTxout, TxinValidate, OneStep!TxinValidate, Validate,
      OneStep!Validate, ValidateCoinbase, OneStep!ValidateCoinbase, KeyAt,
      OneStep!KeyAt, InputPlaces, OneStep!InputPlaces, NoDuplicateKey,
      OneStep!NoDuplicateKey, BlockValidate, OneStep!BlockValidate
<1>4. \A v, s : OneStep!UpdateUnspentTxout(v, s) = UpdateUnspentTxout(v, s)
  BY DEF TxoutKey, OneStep!TxoutKey, KeyAt, OneStep!KeyAt, InputPlaces,
      OneStep!InputPlaces, UpdateUnspentTxout, OneStep!UpdateUnspentTxout,
      NewUnspent, OneStep!NewUnspent, OutputsOf, OneStep!OutputsOf,
      FlattenSeq, OneStep!FlattenSeq, SpentKeys, OneStep!SpentKeys,
      Subsequence, OneStep!Subsequence
<1>5. \A ts : OneStep!ChainInit(ts) <=> ChainInit(ts)
  BY <1>2, <1>3, <1>4 DEF ChainInit, OneStep!ChainInit
<1> QED BY <1>1, <1>5 DEF Init, OneStep!Init, Seen

(* commit_block is called: if no nonce is good enough, that is the step    *)
(* after which the call hangs; else nothing is seen yet.                   *)
LEMMA StartIsSeen ==
  ASSUME NEW ts \in Timestamps, StartCommit(ts)
  PROVE  [OneStep!Next]_(OneStep!vars)
<1> DEFINE good == GoodNonces(Candidate(ts), NewTrans)
<1>1. /\ Idle /\ status = "running" /\ Len(blocks) < MaxBlocks /\ UNCHANGED vars
      /\ search' = [block |-> Candidate(ts), trans |-> NewTrans]
  BY DEF StartCommit
<1>2. ~ Idle'
  BY <1>1 DEF Idle, NoSearch
<1>3. search'.block = Candidate(ts) /\ search'.trans = NewTrans
  BY <1>1
<1>4. Hopeless' <=> good = {}
  BY <1>2, <1>3 DEF Hopeless
<1>5. Seen = "running" /\ Seen' = IF good = {} THEN "mining" ELSE "running"
  BY <1>1, <1>4 DEF Seen, Hopeless, vars
<1>6. CASE good = {}
  <2>1. OneStep!GoodNonces(OneStep!Candidate(ts), OneStep!NewTrans) = {}
    BY <1>6, SameBlock
  <2> HIDE DEF good
  <2>2. OneStep!CommitBlockHangs(ts)
    BY <1>1, <1>5, <1>6, <2>1 DEF OneStep!CommitBlockHangs, Seen, vars
  <2> QED BY <2>2 DEF OneStep!Next
<1>7. CASE good # {}
  <2> HIDE DEF good
  <2> QED BY <1>1, <1>5, <1>7 DEF OneStep!vars, Seen, vars
<1> QED BY <1>6, <1>7

(* A failed round changes nothing that is seen: the nonces that are good   *)
(* enough stay the same.                                                   *)
LEMMA RoundIsUnseen ==
  ASSUME Searching, NextNonce
  PROVE  UNCHANGED OneStep!vars
<1>1. ~ Idle /\ UNCHANGED vars
  BY DEF NextNonce
<1> DEFINE b == search.block
           v == search.trans
           m == (b.nonce + 1) % NONCE_MOD
<1>2. search = [block |-> b, trans |-> v] /\ search' = [search EXCEPT !.block.nonce = m]
  BY <1>1 DEF Searching, NextNonce
<1>3. PICK ts \in Timestamps : b = [Candidate(ts) EXCEPT !.nonce = b.nonce]
  BY <1>1 DEF Searching, SearchFresh
<1> DEFINE k == b.nonce
<1> HIDE DEF m, k
<1>4. GoodNonces([Candidate(ts) EXCEPT !.nonce = m], v) = GoodNonces(Candidate(ts), v)
  BY GoodNoncesOf
<1>5. GoodNonces([Candidate(ts) EXCEPT !.nonce = k], v) = GoodNonces(Candidate(ts), v)
  BY GoodNoncesOf
<1>6. b = [Candidate(ts) EXCEPT !.nonce = k]
  BY <1>3 DEF k
<1> HIDE DEF b, v
<1>7. search' = [block |-> [b EXCEPT !.nonce = m], trans |-> v]
  BY <1>2
<1>8. [b EXCEPT !.nonce = m] = [Candidate(ts) EXCEPT !.nonce = m]
  BY <1>6, CandidateShape
<1>9. GoodNonces(search'.block, search'.trans) = GoodNonces(search.block, search.trans)
  BY <1>4, <1>5, <1>6, <1>7, <1>8 DEF b, v
<1>10. ~ Idle'
  BY <1>7 DEF Idle, NoSearch
<1>11. Hopeless' = Hopeless
  BY <1>1, <1>9, <1>10 DEF Hopeless
<1> QED BY <1>1, <1>11 DEF OneStep!vars, vars

(* The round that succeeds is the step of commit_block.                    *)
LEMMA EndIsSeen ==
  ASSUME Searching, EndCommit
  PROVE  [OneStep!Next]_(OneStep!vars)
<1>1. ~ Idle /\ Idle' /\ GoodEnough
  BY DEF EndCommit, Idle
<1>2. ~ Hopeless
  BY <1>1, SearchShape DEF Hopeless
<1>3. Seen = status /\ Seen' = status'
  BY <1>1, <1>2 DEF Seen, Hopeless
<1>4. CASE UNCHANGED vars
  BY <1>3, <1>4 DEF OneStep!vars, Seen, vars
<1>5. ASSUME NEW ts \in Timestamps, CommitBlock(ts) PROVE OneStep!CommitBlock(ts)
  <2>1. OneStep!GoodNonces(OneStep!Candidate(ts), OneStep!NewTrans) # {}
    BY <1>5, SameBlock DEF CommitBlock
  <2>2. OneStep!Add(OneStep!FindBlock(OneStep!Candidate(ts), OneStep!NewTrans))
    BY <1>5, SameBlock, SameAdd DEF CommitBlock
  <2> QED BY <1>3, <1>5, <2>1, <2>2 DEF CommitBlock, OneStep!CommitBlock, Seen
<1> QED BY <1>4, <1>5, EndIsCommit DEF OneStep!Next

LEMMA StepIsSeen == Searching /\ [MiningNext]_miningVars => [OneStep!Next]_(OneStep!vars)
<1> SUFFICES ASSUME Searching, [MiningNext]_miningVars
             PROVE  [OneStep!Next]_(OneStep!vars)
  OBVIOUS
<1>1. CASE OtherCall
  BY <1>1, OtherIsCall
<1>2. ASSUME NEW ts \in Timestamps, StartCommit(ts) PROVE [OneStep!Next]_(OneStep!vars)
  BY <1>2, StartIsSeen
<1>3. CASE NextNonce
  BY <1>3, RoundIsUnseen
<1>4. CASE EndCommit
  BY <1>4, EndIsSeen
<1>5. CASE UNCHANGED miningVars
  BY <1>5 DEF OneStep!vars, miningVars, Hopeless, Idle
<1> QED BY <1>1, <1>2, <1>3, <1>4, <1>5 DEF MiningNext, FindBlockStep

(* Seen from outside, with a search for which no nonce is good enough as   *)
(* a call that hangs, the node that searches nonce by nonce is the node of *)
(* module Node: also what hangs, and when, is what Node says.              *)
THEOREM SearchImplements == MiningSpec => NodeSpec
<1> QED BY SearchingInit, SearchingStep, NodeInit, StepIsSeen, PTL
        DEF MiningSpec, NodeSpec, OneStep!Spec
=============================================================================
