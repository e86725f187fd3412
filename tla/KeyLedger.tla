----------------------------- MODULE KeyLedger -----------------------------
(***************************************************************************)
(* What a ledger of unspent outputs promises about the keys of outputs: a  *)
(* key is spent once, only after it was unspent, and never comes back.     *)
(***************************************************************************)
VARIABLES unspent,  \* the keys that can be spent
          spent     \* the keys that have been

Init ==
  /\ unspent # {}
  /\ spent = {}

(* A block spends some unspent keys and creates keys never seen before.    *)
Publish ==
  /\ spent \subseteq spent'
  /\ spent' \ spent \subseteq unspent
  /\ unspent' \cap (spent' \cup unspent) = unspent \ spent'

Spec == Init /\ [][Publish]_<< unspent, spent >>
=============================================================================
