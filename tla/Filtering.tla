----------------------------- MODULE Filtering -----------------------------
(* [x for x in s if x in keep]: what a sequence has of a set, in its order. *)
EXTENDS Integers, Sequences

Filtered(s, keep) ==
  LET kept[i \in 0..Len(s)] ==
        IF i = 0 THEN <<>>
        ELSE IF s[i] \in keep THEN Append(kept[i - 1], s[i]) ELSE kept[i - 1]
  IN  kept[Len(s)]
=============================================================================
