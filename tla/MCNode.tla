------------------------------- MODULE MCNode -------------------------------
(***************************************************************************)
(* The node on a small instance, for TLC.                                  *)
(***************************************************************************)
EXTENDS NodeClaims

CONSTANTS MaxZeros  \* the most leading zeros a digest has

(* The digest of a block has as many leading zeros as its nonce says, so   *)
(* the search takes the nonce after the difficulty.                        *)
MCLeadingZeros(h) == h.sha256[6]
MCNonces == 0 .. MaxZeros
MCOneReading == {0}

(* Private keys other than the genesis key are interchangeable.            *)
MCSymmetry == Permutations(Keys \ {GenesisKey})
=============================================================================
