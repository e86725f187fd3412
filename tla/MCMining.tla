------------------------------ MODULE MCMining ------------------------------
(***************************************************************************)
(* The search for a nonce on a small instance, for TLC.                    *)
(***************************************************************************)
EXTENDS Mining

MCNonces == 0 .. NONCE_MOD - 1
MCReadings == {0, 1}

(* The zeros of a digest vary with the nonce, the height and the clock, so *)
(* that the first nonce, the last one, or none at all is good enough.      *)
MCLeadingZeros(h) == (2 * h.sha256[6] + h.sha256[1] + h.sha256[3]) % 5
=============================================================================
