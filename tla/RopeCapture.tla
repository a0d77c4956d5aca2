---------------------------- MODULE RopeCapture ----------------------------
(***************************************************************************)
(* capture_pre_rope: for the time of one forward pass the rotary function  *)
(* of a model family is replaced by one that notes the key it is handed    *)
(* and calls what was there before.  The function is a module attribute,   *)
(* one for the whole process, while every encoder has its own capture; two *)
(* encoders on two threads patch and restore it around one another.        *)
(*                                                                         *)
(* One family stands for each: they are patched alike and apart.  A key is *)
(* the tokens of the pass it comes from and the layer that computed it.    *)
(***************************************************************************)
EXTENDS Integers, Sequences

CONSTANTS
  Threads,   \* what runs forward passes, one at a time each
  NumLayers, \* layers of the model
  Dead,      \* a capture nobody will read any more
  MaxUpsets  \* bound: overlaps of captures and failed imports in one behaviour

ASSUME RopeCaptureAssumption == NumLayers \in Nat \ {0} /\ Dead \notin Threads /\ MaxUpsets \in Nat

VARIABLES
  fn,      \* apply_rotary_pos_emb: the captures it notes keys in, {} the family's own
  capture, \* per thread its capture, and how far its forward pass is
  upsets   \* history: how often captures overlapped or an import failed between patches

ropeVars == <<fn, capture, upsets>>

-----------------------------------------------------------------------------
NoCapture == [at |-> "none", original |-> {}, keys |-> <<>>, input |-> <<>>,
              ran |-> 0, overlapped |-> FALSE]

Capturing(t) == capture[t].at # "none"

(* The installed function appends to the capture of t.                     *)
Notes(t) == t \in fn

(* Of wrappers whose capture is gone it only matters that one is left.     *)
Bury(wrapped, t) == IF t \in wrapped THEN (wrapped \ {t}) \cup {Dead} ELSE wrapped

(* The capture of t goes: a wrapper of it that stays behind notes keys in  *)
(* a list nobody reads.                                                    *)
EndCapture(t, installed) ==
  /\ fn' = Bury(installed, t)
  /\ capture' = [u \in Threads |->
       IF u = t THEN NoCapture
       ELSE [capture[u] EXCEPT !.original = Bury(@, t)]]

RopeInit ==
  /\ fn = {}
  /\ capture = [t \in Threads |-> NoCapture]
  /\ upsets = 0

-----------------------------------------------------------------------------
(* The loop over the families: the function is read ...                    *)
Look(t, input) ==
  LET others == {u \in Threads \ {t} : Capturing(u)}
  IN  /\ ~Capturing(t)
      /\ capture' = [u \in Threads |->
           IF u = t
           THEN [NoCapture EXCEPT !.at = "looked", !.original = fn, !.input = input,
                                  !.overlapped = others # {}]
           ELSE [capture[u] EXCEPT !.overlapped = @ \/ u \in others]]
      /\ upsets' = (IF others = {} THEN upsets ELSE upsets + 1) /\ upsets' <= MaxUpsets
      /\ UNCHANGED fn

(* ... and the capturing one put in its place.                             *)
Patch(t) ==
  /\ capture[t].at = "looked"
  /\ fn' = {t} \cup capture[t].original
  /\ capture' = [capture EXCEPT ![t].at = "patched"]
  /\ UNCHANGED upsets

(* Importing a later family raises something that is no ImportError: the   *)
(* try block that would restore this one has not been entered.             *)
ImportRaises(t) ==
  /\ capture[t].at = "patched" /\ capture[t].ran = 0
  /\ EndCapture(t, fn)
  /\ upsets < MaxUpsets /\ upsets' = upsets + 1

(* A layer rotates its key: the installed function notes it in every       *)
(* capture it is wrapped in, whichever thread's layer calls it.            *)
Rotate(t) ==
  /\ capture[t].at = "patched" /\ capture[t].ran < NumLayers
  /\ LET key == [input |-> capture[t].input, layer |-> capture[t].ran + 1]
     IN  capture' = [u \in Threads |->
           [capture[u] EXCEPT
              !.keys = IF Notes(u) THEN Append(@, key) ELSE @,
              !.ran  = IF u = t THEN @ + 1 ELSE @]]
  /\ UNCHANGED <<fn, upsets>>

(* A pass that raises and leaves its patch in place.                       *)
RaiseUnrestored(t) ==
  /\ capture[t].at = "patched"
  /\ EndCapture(t, fn)
  /\ UNCHANGED upsets

(* The forward pass raises; the finally clause restores what was read.     *)
ForwardRaises(t) ==
  /\ capture[t].at = "patched"
  /\ EndCapture(t, capture[t].original)
  /\ UNCHANGED upsets

Restore(t) ==
  /\ capture[t].at = "patched" /\ capture[t].ran = NumLayers
  /\ fn' = capture[t].original
  /\ capture' = [capture EXCEPT ![t].at = "restored"]
  /\ UNCHANGED upsets

(* The keys are taken, after the function was restored.                    *)
Collect(t) ==
  /\ capture[t].at = "restored"
  /\ EndCapture(t, fn)
  /\ UNCHANGED upsets
=============================================================================
