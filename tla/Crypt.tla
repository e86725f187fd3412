------------------------------- MODULE Crypt -------------------------------
(***************************************************************************)
(* The functions of crypt.cpp and the string wrappers of type.h, at the    *)
(* level at which the rest of the program can tell their values apart.     *)
(*                                                                         *)
(* A digest carries the text it is the digest of, so that SHA-256 has no   *)
(* collision.  An address carries the private key it is derived from, and  *)
(* a signature the signing key and the signed digest.  The empty string is *)
(* the wrapper around an empty sequence.                                   *)
(***************************************************************************)
EXTENDS Integers, Sequences

CONSTANTS Keys,       \* the private keys that occur
          GenesisKey  \* GENESIS_PRIV, whose public half is GENESIS_PUB

ASSUME KeysAssumption == GenesisKey \in Keys

(* sha256(text) and the default-constructed sha256_hash.                   *)
Sha256(text) == [sha256 |-> text]
NoHash       == [sha256 |-> << >>]

(* get_address(priv_key) and the default-constructed ecdsa_address.        *)
GetAddress(key) == [pub |-> << key >>]
NoAddress       == [pub |-> << >>]
Addresses       == { GetAddress(k) : k \in Keys }

(* sign(priv_key, data), and the empty string a txin starts with.          *)
Sign(key, data) == [by |-> << key >>, over |-> data]
NoSignature     == [by |-> << >>, over |-> NoHash]

(* verify(addr, data, signature).                                          *)
Verify(address, data, signature) ==
  /\ signature.by # << >>
  /\ signature = [by |-> address.pub, over |-> data]

(* operator bool of the string wrappers: the string is not empty.          *)
Truthy(w) == w \notin {NoHash, NoAddress}

(* `a != b` between two wrappers.  They declare operator == but not        *)
(* operator !=, so the compiler converts both sides with operator bool:    *)
(* the test tells an empty string from a non-empty one and nothing else.   *)
NotEqual(a, b) == Truthy(a) # Truthy(b)
=============================================================================
