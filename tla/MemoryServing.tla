---------------------------- MODULE MemoryServing ----------------------------
(***************************************************************************)
(* What the connector promises its callers, with no blocks, no prefix      *)
(* cache and no loads: a request that generates attends over exactly the   *)
(* KV of the memory its prompt was built from, from its first forward pass *)
(* until it ends or is sent back to the queue.                             *)
(***************************************************************************)
EXTENDS Integers

CONSTANTS
  Requests,
  Prompts,    \* the memories, and the prompt without memory
  Plain,      \* want[r] of a request nobody has submitted yet
  MemoryKv    \* MemoryKv[p]: the KV of p's memory region, block by block

VARIABLES
  stage,      \* stage[r]: "new", "queued", "attending", "done" or "dropped"
  want,       \* want[r]: the memory r's prompt was built from
  view        \* view[r]: the memory KV r attends over, <<>> when it does not

servingVars == <<stage, want, view>>

Unseen == <<>>

Init ==
  /\ stage = [r \in Requests |-> "new"]
  /\ want = [r \in Requests |-> Plain]
  /\ view = [r \in Requests |-> Unseen]

Ask(r, p) ==
  /\ stage[r] = "new"
  /\ stage' = [stage EXCEPT ![r] = "queued"]
  /\ want' = [want EXCEPT ![r] = p]
  /\ UNCHANGED view

(* One forward pass admits any number of queued requests.                  *)
Attend(S) ==
  /\ \A r \in S : stage[r] = "queued"
  /\ stage' = [r \in Requests |-> IF r \in S THEN "attending" ELSE stage[r]]
  /\ view' = [r \in Requests |-> IF r \in S THEN MemoryKv[want[r]] ELSE view[r]]
  /\ UNCHANGED want

Requeue(r) ==
  /\ stage[r] = "attending"
  /\ stage' = [stage EXCEPT ![r] = "queued"]
  /\ view' = [view EXCEPT ![r] = Unseen]
  /\ UNCHANGED want

Finish(r) ==
  /\ stage[r] = "attending"
  /\ stage' = [stage EXCEPT ![r] = "done"]
  /\ view' = [view EXCEPT ![r] = Unseen]
  /\ UNCHANGED want

(* An abort drops one request, a failed engine all of them.                *)
GiveUp(S) ==
  /\ \A r \in S : stage[r] \in {"queued", "attending"}
  /\ stage' = [r \in Requests |-> IF r \in S THEN "dropped" ELSE stage[r]]
  /\ view' = [r \in Requests |-> IF r \in S THEN Unseen ELSE view[r]]
  /\ UNCHANGED want

Next ==
  \/ \E r \in Requests, p \in Prompts : Ask(r, p)
  \/ \E S \in SUBSET Requests : Attend(S) \/ GiveUp(S)
  \/ \E r \in Requests : Requeue(r) \/ Finish(r)

Spec == Init /\ [][Next]_servingVars
=============================================================================
