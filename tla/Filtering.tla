------------------------------ MODULE Filtering ------------------------------
(***************************************************************************)
(* The members of a sequence that are in a set, in their order and as often *)
(* as they occur: SelectSeq of a set, written as a recursive function that  *)
(* can be reasoned about.                                                  *)
(***************************************************************************)
EXTENDS Naturals, Sequences

Only(s, S) ==
  LET kept[i \in 0 .. Len(s)] ==
        IF i = 0 THEN <<>>
        ELSE IF s[i] \in S THEN Append(kept[i - 1], s[i]) ELSE kept[i - 1]
  IN  kept[Len(s)]
=============================================================================
