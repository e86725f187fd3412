-------------------------------- MODULE Demo --------------------------------
(***************************************************************************)
(* test_interface() of main.cpp: the one sequence of calls the program     *)
(* makes on a node, and the balances it prints.  The source transfers      *)
(* 10 coins and 50000 satoshi; here the two numbers are parameters.        *)
(***************************************************************************)
EXTENDS Node, CoinText

CONSTANTS
  Wholes,   \* the arguments of coin(int32)
  Fractions \* the arguments of coin::from_satoshi

ASSUME DemoAssumption ==
  /\ "icedac@gmail.com" \in Names
  /\ Wholes \subseteq Int /\ Fractions \subseteq Int

VARIABLES
  pc,      \* the next call of test_interface()
  asked,   \* the two numbers behind the amount
  amount,  \* what coin(asked.whole) + from_satoshi(asked.fraction) holds
  printed  \* the balances printed, as texts, in their order

demoVars == << blocks, utxouts, pool, wallets, status, pc, asked, amount, printed >>

Genesis == "genesis"
W1 == "icedac@gmail.com"

(* n.init() has run.                                                       *)
DemoInit ==
  /\ Init
  /\ pc = "create_wallet"
  /\ asked \in [whole : Wholes, fraction : Fractions]
  /\ amount = 0
  /\ printed = << >>

MakeWallet ==
  /\ pc = "create_wallet" /\ pc' = "amount"
  /\ CreateWallet(W1)
  /\ UNCHANGED << asked, amount, printed >>

MakeAmount ==
  /\ pc = "amount" /\ pc' = "create_transaction"
  /\ \E coins \in CoinsOf(asked.whole) : amount' = coins + asked.fraction
  /\ UNCHANGED << blocks, utxouts, pool, wallets, status, asked, printed >>

(* create_transaction returns false, and nobody looks at that.             *)
Refused ==
  LET use == Selected(Genesis, amount)
  IN  \/ Greater(amount, Total(use))
      \/ ~ CanSign(Transfer(Genesis, use, AddressOf(W1), amount),
                   wallets[Genesis], utxouts)

(* A faulty program: it stops at a transfer that was refused.              *)
MakeTransferMustSucceed ==
  /\ pc = "create_transaction" /\ pc' = "commit_block"
  /\ CreateTransaction(Genesis, AddressOf(W1), amount)
  /\ UNCHANGED << asked, amount, printed >>

MakeTransfer ==
  /\ pc = "create_transaction" /\ pc' = "commit_block"
  /\ IF Refused THEN UNCHANGED vars
                ELSE CreateTransaction(Genesis, AddressOf(W1), amount)
  /\ UNCHANGED << asked, amount, printed >>

(* When no nonce is good enough, the call does not return: no step.        *)
MakeBlock ==
  /\ pc = "commit_block" /\ pc' = "print genesis"
  /\ \E ts \in Timestamps :
       /\ GoodNonces(Candidate(ts), NewTrans) # {}
       /\ IF Addable(FindBlock(Candidate(ts), NewTrans))
          THEN CommitBlock(ts)
          ELSE UNCHANGED vars
  /\ UNCHANGED << asked, amount, printed >>

(* n.as_debug_string(wallet): the text of its balance.                     *)
PrintBalance(name, next) ==
  /\ printed' = Append(printed, AsString(Balance(name)))
  /\ pc' = next
  /\ UNCHANGED << blocks, utxouts, pool, wallets, status, asked, amount >>

PrintGenesis == pc = "print genesis" /\ PrintBalance(Genesis, "print w1")
PrintW1 == pc = "print w1" /\ PrintBalance(W1, "done")

DemoNext ==
  \/ MakeWallet \/ MakeAmount \/ MakeTransfer \/ MakeBlock
  \/ PrintGenesis \/ PrintW1

(* The program runs on its own from main() to its end.                     *)
DemoSpec == DemoInit /\ [][DemoNext]_demoVars /\ WF_demoVars(DemoNext)

(***************************************************************************)
(* Properties.                                                             *)
(***************************************************************************)
(* DemoEnds: the program comes to its end, although commit_block neither   *)
(* bounds the search nor is asked whether the block was added.             *)
DemoEnds == <>(pc = "done")

(* PrintsWhatWasAsked: as long as the product in coin(int32) fits an int32 *)
(* the two printed balances, read by a person, tell that w1 received what  *)
(* was asked, or nothing if the transfer was refused, and that the genesis *)
(* wallet keeps the rest of two coinbases.  This takes that the amount,    *)
(* the change, the unspent outputs after the block, the sums over them and *)
(* their texts lose no satoshi.                                            *)
Fits == Int32(asked.whole * SATOSHI_PER_COIN) = asked.whole * SATOSHI_PER_COIN
Moved == IF pool = << >> THEN 0
         ELSE asked.whole * SATOSHI_PER_COIN + asked.fraction
PrintsWhatWasAsked ==
  pc = "done" /\ Fits =>
    /\ ReadText(printed[1]) = 2 * GetCoinbase - Moved
    /\ ReadText(printed[2]) = Moved

(* NothingFromNothing: whatever coin(int32) holds, even after an overflow, *)
(* the balances of the two wallets add up to the coinbases.                *)
NothingFromNothing ==
  pc \in {"print genesis", "print w1", "done"} =>
    Balance(Genesis) + Balance(W1) = Len(blocks) * GetCoinbase
=============================================================================
