------------------------ MODULE KVConnectorInvariant ------------------------
(***************************************************************************)
(* The inductive invariant behind KVConnector's safety properties.         *)
(*                                                                         *)
(* A block handed out in the current step is fresh: its KV is not written  *)
(* yet, but the prefix cache already knows it and other requests may share *)
(* it.  The invariant says that every fresh block has exactly one request  *)
(* that owes its KV, that the owed load is on its way with the right       *)
(* offsets, and that every cached block that is not fresh holds the KV its *)
(* key stands for.                                                         *)
(***************************************************************************)
EXTENDS KVConnector

Hits(r) == batch[r].hits

(* The blocks that request r was given in this step and has to fill.       *)
Owns(r, i) == r \in DOMAIN batch /\ i \in Hits(r)+1..Len(blocks[r])

Fresh(b) == \E r \in Requests : \E i \in 1..Len(blocks[r]) : Owns(r, i) /\ blocks[r][i] = b

(* The load an admitted request has to get.                                *)
NeedsLoad(r) == Hits(r) < Region(prompt[r])
LoadDue(r) == [user |-> route[r],
               num |-> (Region(prompt[r]) - Hits(r)) * BlockSize,
               skip |-> Hits(r) * BlockSize]
MetaDue(r) == [req |-> r, user |-> route[r],
               ids |-> [j \in 1..Region(prompt[r]) - Hits(r) |-> blocks[r][Hits(r) + j]],
               num |-> (Region(prompt[r]) - Hits(r)) * BlockSize,
               skip |-> Hits(r) * BlockSize]

(* A running request has one whole table of distinct blocks, others none.  *)
Tables ==
  \A r \in Requests :
    IF status[r] = "running"
    THEN /\ Len(blocks[r]) = TableLen(prompt[r])
         /\ \A i, j \in 1..Len(blocks[r]) : blocks[r][i] = blocks[r][j] => i = j
    ELSE blocks[r] = <<>>

Admitted ==
  \A r \in DOMAIN batch : status[r] = "running" /\ Hits(r) <= FullBlocks(prompt[r])

(* A fresh block is shared only with requests that hit it in this step.    *)
FreshOwnedOnce ==
  \A r, q \in Requests : \A i \in 1..Len(blocks[r]) : \A j \in 1..Len(blocks[q]) :
    Owns(r, i) /\ blocks[q][j] = blocks[r][i] =>
      (q = r /\ j = i) \/ (q \in DOMAIN batch /\ j <= Hits(q))

(* A block in use stays filed under the tokens of those who use it.        *)
Keyed ==
  \A r \in Requests : \A i \in 1..Len(blocks[r]) :
    cached[blocks[r][i]] = IF i <= FullBlocks(prompt[r]) THEN Key(prompt[r], i) ELSE NoKey

CacheSound ==
  \A p \in Prompts : \A i \in 1..FullBlocks(p) : \A b \in Blocks :
    cached[b] = Key(p, i) /\ ~Fresh(b) => kv[b] = ContentAt(p, i)

(* While a request is in the system the memory of its user is the one its  *)
(* prompt was built from, is gone, or will be refused by the match.        *)
Routed ==
  \A r \in Requests : status[r] \in Live =>
    IF route[r] = NoUser THEN prompt[r] = Plain
    ELSE /\ prompt[r] \in Memories
         /\ \/ store[route[r]] \in {None, prompt[r]}
            \/ ~Matches(prompt[r], store[route[r]])

Matched(r) == route[r] # NoUser => store[route[r]] \in {None, prompt[r]}

PendingOK ==
  \A r \in DOMAIN pending :
    /\ status[r] \in {"waiting", "preempted"}
    /\ pending[r].user = route[r]

OfferOK ==
  offer # None =>
    /\ phase = "schedule"
    /\ status[offer.req] \in {"waiting", "preempted"}
    /\ HitsPossible(prompt[offer.req], offer.hits)
    /\ Matched(offer.req)
    /\ \/ /\ offer.ext = 0
          /\ offer.hits >= Region(prompt[offer.req])
          /\ route[offer.req] # NoUser => offer.req \in native
       \/ /\ offer.hits < Region(prompt[offer.req])
          /\ offer.ext = (Region(prompt[offer.req]) - offer.hits) * BlockSize
          /\ route[offer.req] # NoUser
          /\ offer.req \in DOMAIN pending
          /\ pending[offer.req] = [user |-> route[offer.req], skip |-> offer.hits * BlockSize]

(* Scheduled loads and metadata are exactly what their requests are due.   *)
ScheduledOK ==
  \A r \in DOMAIN scheduled :
    r \in DOMAIN batch /\ NeedsLoad(r) /\ scheduled[r] = LoadDue(r)

LoadsOK ==
  \A l \in loads : l.req \in DOMAIN batch /\ NeedsLoad(l.req) /\ l = MetaDue(l.req)

PhaseOK ==
  /\ phase \in {"schedule", "build"} => loads = {}
  /\ phase = "load" => DOMAIN scheduled = {}

(* Whoever needs a load has it coming or has it in its blocks.             *)
LoadComing ==
  \A r \in DOMAIN batch :
    /\ Matched(r)
    /\ NeedsLoad(r) => route[r] # NoUser
    /\ ~NeedsLoad(r) /\ route[r] # NoUser => r \in native
    /\ NeedsLoad(r) /\ phase \in {"schedule", "build"} => r \in DOMAIN scheduled
    /\ NeedsLoad(r) /\ phase = "load" =>
         \/ MetaDue(r) \in loads
         \/ /\ r \in loaded
            /\ \A i \in Hits(r)+1..Region(prompt[r]) : kv[blocks[r][i]] = KvOf[prompt[r]][i]

IInv ==
  /\ TypeOK
  /\ Tables /\ Admitted /\ FreshOwnedOnce /\ Keyed /\ CacheSound
  /\ Routed /\ PendingOK /\ OfferOK /\ ScheduledOK /\ LoadsOK /\ PhaseOK /\ LoadComing
  /\ GeneratedIsCovered
=============================================================================
