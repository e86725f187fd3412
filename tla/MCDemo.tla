------------------------------- MODULE MCDemo -------------------------------
(***************************************************************************)
(* The demo program with scaled-down coins, for TLC.                       *)
(***************************************************************************)
EXTENDS Demo

MCLeadingZeros(h) == h.sha256[6]
MCNonces == 0 .. 3

(* With two blocks the difficulty is never adjusted: one reading will do.   *)
MCReadings == {7}

(* Nothing, a part, all of the first coinbase, more than it; the largest   *)
(* number of coins whose product fits, the first that does not, and one    *)
(* whose product is positive again after it is cut.                        *)
MCWholes == {0, 10, 49, 50, 51, 81, 82, 200}
MCFractions == {0, 1, 5, 50, 99}
=============================================================================
