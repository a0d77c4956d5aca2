--------------------------- MODULE EncodingPlan ---------------------------
(* build_encoding_plan: the tokens of one forward pass, of which only the  *)
(* target's KV is kept.  The oldest context tokens go first when the pass  *)
(* would be too long; the target is never cut.                             *)
EXTENDS Integers, Sequences

CONSTANTS
  ContextWindow, \* chunks before a chunk that it is encoded after
  MaxPosition    \* the longest forward pass

ASSUME EncodingPlanAssumption == ContextWindow \in Nat /\ MaxPosition \in Nat \ {0}

(* A target is planned only if it is there and fits without any context.   *)
Plannable(target) == target # <<>> /\ Len(target) <= MaxPosition

Cut(context, target) ==
  LET overflow == Len(context) + Len(target) - MaxPosition
  IN  IF overflow > 0 THEN SubSeq(context, overflow + 1, Len(context)) ELSE context

BuildEncodingPlan(id, target, context) ==
  LET kept == Cut(context, target)
  IN  [id |-> id, target |-> target, input |-> kept \o target,
       start |-> Len(kept), stop |-> Len(kept) + Len(target)]
=============================================================================
