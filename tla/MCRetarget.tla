----------------------------- MODULE MCRetarget -----------------------------
(***************************************************************************)
(* The chain alone, without transfers, over several adjustments of the     *)
(* difficulty and with a clock that may jump in both directions.           *)
(***************************************************************************)
EXTENDS MCNode

(* A period of 3 blocks is planned to take 3 * 2 seconds: with these       *)
(* readings it takes less than half of it (0), about that (5, 8), more     *)
(* than twice of it (13), or a negative time.                              *)
MCReadings == {0, 5, 13}
=============================================================================
