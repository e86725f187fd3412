------------------------------ MODULE Vectors ------------------------------
(***************************************************************************)
(* std::vector is a TLA+ sequence in these models.  The operators on       *)
(* sequences that the community modules lack are defined here: SelectSeq   *)
(* with its test given as a set of positions, which makes it a first-order *)
(* operator about which lemmas can be stated and proved.                   *)
(***************************************************************************)
EXTENDS Integers, SequencesExt

(* The elements of s at the positions in I, in their order.                *)
Subsequence(s, I) ==
  LET kept[k \in 0 .. Len(s)] ==
        IF k = 0 THEN << >>
        ELSE IF k \in I THEN Append(kept[k - 1], s[k])
        ELSE kept[k - 1]
  IN  kept[Len(s)]

(* s is a sequence, whatever its elements are.                             *)
IsSeq(s) == s \in Seq(Range(s))
=============================================================================
