----------------------------- MODULE SeqFilter -----------------------------
(***************************************************************************)
(* The loop by which the program keeps some items of a slice, in their     *)
(* order. It is SelectSeq, with a set for the test.                        *)
(***************************************************************************)
EXTENDS Naturals, Sequences

Filtered(s, S) ==
  LET kept[i \in 0..Len(s)] ==
        IF i = 0 THEN <<>>
        ELSE IF s[i] \in S THEN Append(kept[i - 1], s[i]) ELSE kept[i - 1]
  IN kept[Len(s)]
=============================================================================
