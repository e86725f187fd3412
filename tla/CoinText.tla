------------------------------ MODULE CoinText ------------------------------
(***************************************************************************)
(* coin::as_string() of nc.h.  A text is the number before the point and   *)
(* the sequence of characters after it, digits as numbers.                 *)
(***************************************************************************)
EXTENDS Coin, SequencesExt

CONSTANT SATOSHI_DIGITS  \* the width setw(6) asks for

(* The powers of ten, as a function that can be proved about.              *)
Tens[n \in 0 .. SATOSHI_DIGITS] == IF n = 0 THEN 1 ELSE 10 * Tens[n - 1]

ASSUME DigitsAssumption ==
  SATOSHI_DIGITS \in Nat \ {0, 1} /\ SATOSHI_PER_COIN = Tens[SATOSHI_DIGITS]

(* A number below Tens[n] in n digits, and in as few as it has.            *)
Digits(m, n) == [i \in 1 .. n |-> (m \div Tens[n - i]) % 10]
Shortest(m) == Digits(m, Min({ n \in 1 .. SATOSHI_DIGITS : m < Tens[n] }))

(* A faulty setw: a short number is not filled.                            *)
Unfilled(shown) == shown

(* setfill('0') and setw(6): zeros go before the number and its sign.      *)
Filled(shown) ==
  [i \in 1 .. SATOSHI_DIGITS - Len(shown) |-> 0] \o shown

Fraction(satoshi) ==
  IF satoshi = 0 THEN << 0, 0 >>
  ELSE Filled(IF satoshi < 0 THEN << "-" >> \o Shortest(-satoshi)
                             ELSE Shortest(satoshi))

AsString(c) == [whole |-> Get(c), fraction |-> Fraction(GetSatoshi(c))]

(* The satoshi a reader takes the text for, when there is no sign in it.   *)
ReadDigits(s) ==
  LET read[k \in 0 .. Len(s)] == IF k = 0 THEN 0 ELSE 10 * read[k - 1] + s[k]
  IN  read[Len(s)]

ReadText(text) ==
  text.whole * SATOSHI_PER_COIN
    + ReadDigits(text.fraction) * Tens[SATOSHI_DIGITS - Len(text.fraction)]
=============================================================================
