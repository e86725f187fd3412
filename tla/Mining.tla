------------------------------- MODULE Mining -------------------------------
(***************************************************************************)
(* The node with the loop of find_block nonce by nonce.  Module Node takes *)
(* the whole search as one step; here commit_block starts a search, every  *)
(* round of the loop is a step, and the call ends when a digest is good    *)
(* enough.  The program has one thread, so nothing else happens between.   *)
(***************************************************************************)
EXTENDS Node

CONSTANT NONCE_MOD  \* 2^64: nonce_t is uint64 and wraps around

ASSUME NonceAssumption == NONCE_MOD \in Nat \ {0} /\ Nonces = 0 .. NONCE_MOD - 1

VARIABLE search  \* the block and the transactions find_block works on, or NoSearch

miningVars == << blocks, utxouts, pool, wallets, status, search >>

NoSearch == << >>
Idle == search = NoSearch

MiningInit == Init /\ search = NoSearch

(* The calls other than commit_block.                                      *)
OtherCall ==
  /\ Idle
  /\ \/ \E name \in Names : CreateWallet(name)
     \/ \E name \in Names, key \in Keys : CreateWalletFromKey(name, key)
     \/ \E sender, receiver \in DOMAIN wallets, amount \in Amounts :
          CreateTransaction(sender, AddressOf(receiver), amount)
     \/ ValidateTransPool
     \/ ValidateTransPoolAborts
  /\ UNCHANGED search

(* commit_block up to the call of find_block.                              *)
StartCommit(ts) ==
  /\ Idle
  /\ status = "running"
  /\ Len(blocks) < MaxBlocks
  /\ search' = [block |-> Candidate(ts), trans |-> NewTrans]
  /\ UNCHANGED vars

(* A faulty test: as many leading zeros as the difficulty will do.         *)
GoodEnoughLoose ==
  search.block.difficulty <= LeadingZeros(BlockHash(search.block, search.trans))

GoodEnough ==
  search.block.difficulty < LeadingZeros(BlockHash(search.block, search.trans))

(* A faulty round: every other nonce is skipped.                           *)
NextNonceSkips ==
  /\ ~ Idle
  /\ ~ GoodEnough
  /\ search' = [search EXCEPT !.block.nonce = (@ + 2) % NONCE_MOD]
  /\ UNCHANGED vars

(* A round of the loop that fails.                                         *)
NextNonce ==
  /\ ~ Idle
  /\ ~ GoodEnough
  /\ search' = [search EXCEPT !.block.nonce = (@ + 1) % NONCE_MOD]
  /\ UNCHANGED vars

(* The round that succeeds, and the rest of generate_new_block and         *)
(* commit_block: add() takes the block or refuses it.                      *)
Mined ==
  LET hashed == [search.block EXCEPT !.hash = BlockHash(search.block, search.trans)]
  IN  [hashed EXCEPT !.data = search.trans]

EndCommit ==
  /\ ~ Idle
  /\ GoodEnough
  /\ search' = NoSearch
  /\ IF Addable(Mined) THEN Add(Mined) ELSE UNCHANGED chainVars
  /\ UNCHANGED << pool, wallets, status >>

FindBlockStep == NextNonce \/ EndCommit

MiningNext ==
  \/ OtherCall
  \/ \E ts \in Timestamps : StartCommit(ts)
  \/ FindBlockStep

(* A call that runs keeps running: nothing waits or blocks in the loop.    *)
(* Nothing makes a caller start one.                                       *)
MiningSpec ==
  MiningInit /\ [][MiningNext]_miningVars /\ WF_miningVars(FindBlockStep)

(***************************************************************************)
(* Properties.                                                             *)
(***************************************************************************)
(* SearchEnds: when some nonce is good enough, the call of find_block      *)
(* returns.  The loop has no bound of its own: this needs that the nonce   *)
(* runs through all its values and that the block hashed is otherwise      *)
(* unchanged from round to round.                                          *)
Hopeful == ~ Idle /\ GoodNonces(search.block, search.trans) # {}
SearchEnds == Hopeful ~> Idle

(* SearchFresh: while a search runs, what is hashed is the candidate that  *)
(* the chain and the pool as they are now call for, and no nonce below the *)
(* present one is good enough.  The block is filled in before the loop,    *)
(* with the hash and difficulty the chain had then.                        *)
SearchFresh ==
  ~ Idle =>
    LET b == search.block
    IN  /\ search.trans = NewTrans
        /\ \E ts \in Timestamps : b = [Candidate(ts) EXCEPT !.nonce = b.nonce]
        /\ b.nonce \in Nonces
        /\ \A n \in GoodNonces(b, search.trans) : b.nonce <= n

(* NodeSpec: the node that searches step by step is a node of module Node: *)
(* a commit that succeeds takes the least good nonce and no other call     *)
(* comes between, and a search without a good nonce is the state "mining". *)
Hopeless == ~ Idle /\ GoodNonces(search.block, search.trans) = {}
OneStep == INSTANCE Node WITH status <- IF Hopeless THEN "mining" ELSE status
NodeSpec == OneStep!Spec
=============================================================================
