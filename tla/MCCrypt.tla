------------------------------ MODULE MCCrypt ------------------------------
(***************************************************************************)
(* Two threads that call the functions of crypt.cpp, for TLC.              *)
(***************************************************************************)
EXTENDS CryptCalls

(* The genesis key signs the text in two ways, the other key in one.  The  *)
(* bytes have digits below and above 10, in both halves.                   *)
MCDers(key, text) ==
  IF key = GenesisKey THEN { << 48, 10 >>, << 171 >> } ELSE { << 63 >> }
=============================================================================
