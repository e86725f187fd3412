------------------------------- MODULE Coin -------------------------------
(***************************************************************************)
(* class coin of nc.h.  A coin is its satoshi member, an integer: adding   *)
(* and subtracting coins adds and subtracts satoshi, and == and != compare *)
(* satoshi.                                                                *)
(*                                                                         *)
(* The class declares no ordering.  `a > b` and `ss << a` therefore take   *)
(* its implicit conversion operator int32, which gives the whole coins and *)
(* drops the fraction.                                                     *)
(***************************************************************************)
EXTENDS Integers

CONSTANTS
  SATOSHI_PER_COIN,  \* satoshi in one coin, 1000000 in the code
  INT32_MOD          \* 2^32: how many values int32 has

ASSUME SatoshiAssumption == SATOSHI_PER_COIN \in Nat \ {0}
ASSUME Int32Assumption == INT32_MOD \in Nat \ {0} /\ INT32_MOD % 2 = 0

(* An integer cast to int32.                                               *)
Int32(n) ==
  LET low == n % INT32_MOD
  IN  IF 2 * low < INT32_MOD THEN low ELSE low - INT32_MOD

(* satoshi / SATOSHI_PER_COIN: C++ truncates toward zero, \div rounds down. *)
Quotient(c) == IF c >= 0 THEN c \div SATOSHI_PER_COIN
                         ELSE -((-c) \div SATOSHI_PER_COIN)

(* coin::get() and coin::get_satoshi(): the whole coins, cut to 32 bits,   *)
(* and the rest, which has the sign of the coin.                           *)
Get(c) == Int32(Quotient(c))
GetSatoshi(c) == c - SATOSHI_PER_COIN * Quotient(c)

(* a > b between two coins, through operator int32.                        *)
Greater(a, b) == Get(a) > Get(b)

(* What coin(int32 amount) may hold.  The product is an int32 product      *)
(* assigned to an int64: where it overflows, which is undefined, a build   *)
(* either keeps 32 bits of it or computes it in 64.                        *)
CoinsOf(amount) ==
  LET product == amount * SATOSHI_PER_COIN
  IN  { Int32(product), product }
=============================================================================
