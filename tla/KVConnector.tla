----------------------------- MODULE KVConnector -----------------------------
(***************************************************************************)
(* MemoryKVConnector: the vLLM connector that injects a registered memory  *)
(* into the paged KV cache in place of its prefill.                        *)
(*                                                                         *)
(* The connector's handlers are translated from kv/connector.py.  They     *)
(* run inside vLLM's in-process engine, one step after another:            *)
(*                                                                         *)
(*   schedule  for a queued request: get_num_new_matched_tokens, then      *)
(*             block allocation, then update_state_after_alloc             *)
(*   build     build_connector_meta turns the step's loads into metadata   *)
(*   load      start_load_kv injects them, one memory at a time            *)
(*   forward   the model attends over every scheduled request's blocks     *)
(*                                                                         *)
(* vLLM's scheduler, block pool and prefix cache are external.  They are   *)
(* modelled from what the connector relies on: a block table per request,  *)
(* a cache from token-chain keys to blocks, preemption and resumption.     *)
(* KV is tracked per block: the connector's lengths are block multiples    *)
(* (InjectionLayout proves what that needs).                               *)
(***************************************************************************)
EXTENDS InjectionLayout, FiniteSets

CONSTANTS
  Requests,    \* request ids
  Users,       \* user ids a memory can be registered under
  NoUser,      \* a request that carries no user id
  Memories,    \* composed memories
  Plain,       \* a prompt that carries no memory
  Tokens,      \* token ids
  TokenIds,    \* TokenIds[p]: the token ids of memory p (or of Plain)
  Query,       \* the query tokens that follow every memory
  KvOf,        \* KvOf[m][i]: the KV of block i of memory m
  Native,      \* KV the model computed itself
  Garbage,     \* KV of a block nobody has written
  None,        \* an absent memory or an absent offer
  Blocks,      \* physical blocks of the paged KV cache
  BlockSize,   \* tokens per block
  MaxPreempts, \* bound: preemptions in one behaviour
  MaxRestarts  \* bound: engine restarts in one behaviour

Prompts == Memories \cup {Plain}

ASSUME BlockSizeAssumption == BlockSize \in Nat \ {0}

ASSUME BoundAssumption == MaxPreempts \in Nat /\ MaxRestarts \in Nat

ASSUME TokenAssumption ==
  /\ TokenIds \in [Prompts -> Seq(Tokens)]
  /\ Query \in Seq(Tokens) /\ Query # <<>>

ASSUME SentinelAssumption ==
  /\ NoUser \notin Users
  /\ Plain \notin Memories
  /\ None \notin Memories
  /\ None \notin [req : Requests, hits : Nat, ext : Nat]

-----------------------------------------------------------------------------
(* Prompts, their blocks, and the keys vLLM caches blocks under.           *)

PromptTokens(p) == TokenIds[p] \o Query

(* Blocks of the block-aligned memory region: the blocks injection fills.  *)
Region(p) ==
  IF p \in Memories
  THEN AlignToBlockSize(Len(TokenIds[p]), BlockSize) \div BlockSize
  ELSE 0

TableLen(p) == BlocksFor(Len(PromptTokens(p)), BlockSize)
FullBlocks(p) == Len(PromptTokens(p)) \div BlockSize

(* A cached block's key is the chain of token ids up to its end; NoKey is  *)
(* a block the prefix cache does not know.                                 *)
Key(p, i) == SubSeq(PromptTokens(p), 1, i * BlockSize)
NoKey == <<>>

(* What block i of a request with prompt p has to hold.                    *)
ContentAt(p, i) == IF i <= Region(p) THEN KvOf[p][i] ELSE Native

(* The condition under which sharing blocks by token ids is sound: equal   *)
(* token chains stand for equal KV.                                        *)
KeyDeterminesKv ==
  \A p, q \in Prompts : \A i \in 1..FullBlocks(p) : \A j \in 1..FullBlocks(q) :
    Key(p, i) = Key(q, j) => ContentAt(p, i) = ContentAt(q, j)

(* Python dictionaries: functions whose domain is the set of keys.         *)
Put(d, k, v) == [x \in DOMAIN d \cup {k} |-> IF x = k THEN v ELSE d[x]]
Drop(d, K) == [x \in DOMAIN d \ K |-> d[x]]
EmptyDict == [x \in {} |-> x]

-----------------------------------------------------------------------------
VARIABLES
  (* the connector and what it shares with the rest of the library *)
  store,      \* store[u]: the memory registered for user u, or None
  pending,    \* _pending_matches: request -> [user, skip]
  scheduled,  \* _scheduled_loads: request -> [user, num, skip]
  loads,      \* the loads of the connector metadata of this step
  loaded,     \* load_stats: ids of requests whose memory was injected
  native,     \* load_stats: ids of requests the prefix cache covered
  (* the engine *)
  status,     \* where each request is in its life
  prompt,     \* prompt[r]: which memory its prompt was built from
  route,      \* route[r]: the user id it carries, or NoUser
  blocks,     \* blocks[r]: its block table
  cached,     \* cached[b]: the key block b is cached under, or NoKey
  kv,         \* kv[b]: the KV in block b
  phase,      \* "schedule", "build", "load" or "failed"
  offer,      \* between the match and the allocation of one request
  batch,      \* requests admitted in this step -> [hits, resumed]
  preempts, restarts

connectorVars == <<pending, scheduled, loads, loaded, native>>
requestVars == <<status, prompt, route, blocks>>
poolVars == <<cached, kv>>
stepVars == <<phase, offer, batch>>
boundVars == <<preempts, restarts>>
vars == <<store, connectorVars, requestVars, poolVars, stepVars, boundVars>>

Live == {"waiting", "running", "preempted"}
Done == {"finished", "aborted"}

PendingMatch == [user : Users, skip : Nat]
ScheduledLoad == [user : Users, num : Nat, skip : Nat]
MemoryLoad == [req : Requests, user : Users, ids : Seq(Blocks), num : Nat, skip : Nat]
Offer == [req : Requests, hits : Nat, ext : Nat]

InUse == UNION {{blocks[r][i] : i \in 1..Len(blocks[r])} : r \in Requests}

Init ==
  /\ store = [u \in Users |-> None]
  /\ pending = EmptyDict /\ scheduled = EmptyDict
  /\ loads = {} /\ loaded = {} /\ native = {}
  /\ status = [r \in Requests |-> "new"]
  /\ prompt = [r \in Requests |-> Plain]
  /\ route = [r \in Requests |-> NoUser]
  /\ blocks = [r \in Requests |-> <<>>]
  /\ cached = [b \in Blocks |-> NoKey]
  /\ kv = [b \in Blocks |-> Garbage]
  /\ phase = "schedule" /\ offer = None /\ batch = EmptyDict
  /\ preempts = 0 /\ restarts = 0

-----------------------------------------------------------------------------
(* Callers of the library.                                                 *)

(* The engine runs in the caller's thread: a caller acts between steps.    *)
BetweenSteps == phase = "schedule" /\ offer = None /\ DOMAIN batch = {}

(* The facade registers a memory before it generates and leaves it alone   *)
(* until the request is done.                                              *)
Register(u, m) ==
  /\ BetweenSteps
  /\ \A r \in Requests : status[r] \in Live => route[r] # u
  /\ store' = [store EXCEPT ![u] = m]
  /\ UNCHANGED <<connectorVars, requestVars, poolVars, stepVars, boundVars>>

(* remove and clear are process-wide and take effect at any moment.        *)
Remove(u) ==
  /\ phase # "failed"
  /\ store[u] # None
  /\ store' = [store EXCEPT ![u] = None]
  /\ UNCHANGED <<connectorVars, requestVars, poolVars, stepVars, boundVars>>

(* _try_match_user: the memory exists, is shorter than the prompt, is the  *)
(* prompt's prefix and has at least one whole block.                       *)
Matches(p, m) ==
  /\ m # None
  /\ Len(PromptTokens(p)) > Len(TokenIds[m])
  /\ SubSeq(PromptTokens(p), 1, Len(TokenIds[m])) = TokenIds[m]
  /\ AlignToBlockSize(Len(TokenIds[m]), BlockSize) > 0

(* A prompt is built from the memory registered for its user; a caller     *)
(* that gets it wrong sends a prompt that does not start with that memory. *)
Submit(r, u, p) ==
  /\ BetweenSteps
  /\ status[r] = "new"
  /\ IF u = NoUser THEN p = Plain
     ELSE p \in Memories /\ (p = store[u] \/ ~Matches(p, store[u]))
  /\ status' = [status EXCEPT ![r] = "waiting"]
  /\ prompt' = [prompt EXCEPT ![r] = p]
  /\ route' = [route EXCEPT ![r] = u]
  /\ UNCHANGED <<store, connectorVars, blocks, poolVars, stepVars, boundVars>>

-----------------------------------------------------------------------------
(* The scheduler side of the connector.                                    *)

(* A step that raises leaves the engine with whatever state it had.        *)
FailStep ==
  /\ phase' = "failed"
  /\ UNCHANGED <<store, connectorVars, requestVars, poolVars, offer, batch, boundVars>>

(* vLLM looks up its own prefix cache first and passes on the number of    *)
(* tokens it covers.  At least one prompt token is always left to compute. *)
HitsPossible(p, hits) ==
  /\ hits * BlockSize < Len(PromptTokens(p))
  /\ \A i \in 1..hits : \E b \in Blocks : cached[b] = Key(p, i)

NewTokens(r, hits) ==
  AlignToBlockSize(Len(TokenIds[store[route[r]]]), BlockSize) - hits * BlockSize

(* Next in the queue, and no step under way that excludes it.              *)
CanOffer(r, hits) ==
  /\ phase = "schedule" /\ offer = None
  /\ status[r] \in {"waiting", "preempted"}
  /\ HitsPossible(prompt[r], hits)

OfferNothing(r, hits) == offer' = [req |-> r, hits |-> hits, ext |-> 0]

MatchWithoutUser(r, hits) ==
  /\ CanOffer(r, hits)
  /\ route[r] = NoUser
  /\ OfferNothing(r, hits)
  /\ UNCHANGED <<store, connectorVars, requestVars, poolVars, phase, batch, boundVars>>

MatchFails(r, hits) ==
  /\ CanOffer(r, hits)
  /\ route[r] # NoUser
  /\ ~Matches(prompt[r], store[route[r]])
  /\ FailStep

(* Variant: the native cover is not recorded.                              *)
CoverForgotten(r, hits) ==
  /\ CanOffer(r, hits)
  /\ route[r] # NoUser
  /\ Matches(prompt[r], store[route[r]])
  /\ NewTokens(r, hits) <= 0
  /\ OfferNothing(r, hits)
  /\ UNCHANGED <<store, connectorVars, requestVars, poolVars, phase, batch, boundVars>>

MatchNativeCovered(r, hits) ==
  /\ CanOffer(r, hits)
  /\ route[r] # NoUser
  /\ Matches(prompt[r], store[route[r]])
  /\ NewTokens(r, hits) <= 0
  /\ native' = native \cup {r}
  /\ OfferNothing(r, hits)
  /\ UNCHANGED <<store, pending, scheduled, loads, loaded, requestVars, poolVars,
                 phase, batch, boundVars>>

MatchNewTokens(r, hits) ==
  /\ CanOffer(r, hits)
  /\ route[r] # NoUser
  /\ Matches(prompt[r], store[route[r]])
  /\ NewTokens(r, hits) > 0
  /\ pending' = Put(pending, r, [user |-> route[r], skip |-> hits * BlockSize])
  /\ offer' = [req |-> r, hits |-> hits, ext |-> NewTokens(r, hits)]
  /\ UNCHANGED <<store, scheduled, loads, loaded, native, requestVars, poolVars,
                 phase, batch, boundVars>>

GetNumNewMatchedTokens(r, hits) ==
  \/ MatchWithoutUser(r, hits) \/ MatchFails(r, hits)
  \/ MatchNativeCovered(r, hits) \/ MatchNewTokens(r, hits)

(* A block table the pool can give the offered request: its cached front   *)
(* blocks, then blocks nobody uses.                                        *)
TableFits(table) ==
  LET p == prompt[offer.req]
  IN  /\ \A i, j \in 1..TableLen(p) : table[i] = table[j] => i = j
      /\ \A i \in 1..TableLen(p) :
           IF i <= offer.hits THEN cached[table[i]] = Key(p, i)
                              ELSE table[i] \notin InUse

(* vLLM allocates, files the request's full blocks in the prefix cache and *)
(* reports the allocation to the connector.                                *)
Allocate(table) ==
  LET r == offer.req  p == prompt[r]
  IN  /\ blocks' = [blocks EXCEPT ![r] = table]
      /\ cached' = [b \in Blocks |->
           IF \E i \in offer.hits+1..TableLen(p) : table[i] = b
           THEN LET i == CHOOSE i \in offer.hits+1..TableLen(p) : table[i] = b
                IN  IF i <= FullBlocks(p) THEN Key(p, i) ELSE NoKey
           ELSE cached[b]]
      /\ status' = [status EXCEPT ![r] = "running"]
      /\ batch' = Put(batch, r, [hits |-> offer.hits, resumed |-> status[r] = "preempted"])
      /\ offer' = None

(* Variant: every allocation schedules a load.                             *)
AlwaysLoads(match) == FALSE

NothingToLoad(match) == offer.ext <= 0 \/ match.user = NoUser

UpdateStateAfterAlloc(table) ==
  LET r == offer.req
      match == IF r \in DOMAIN pending THEN pending[r]
                                       ELSE [user |-> route[r], skip |-> 0]
  IN  /\ phase = "schedule" /\ offer # None
      /\ TableFits(table)
      /\ Allocate(table)
      /\ pending' = Drop(pending, {r})
      /\ scheduled' = IF NothingToLoad(match) THEN scheduled
                      ELSE Put(scheduled, r,
                               [user |-> match.user, num |-> offer.ext, skip |-> match.skip])
      /\ UNCHANGED <<store, loads, loaded, native, prompt, route, kv, phase, boundVars>>

(* No room: vLLM leaves the request queued and admits nothing more in this *)
(* step.  The connector is not told and keeps its pending match.           *)
AllocFails ==
  /\ phase = "schedule" /\ offer # None
  /\ \A table \in [1..TableLen(prompt[offer.req]) -> Blocks] : ~TableFits(table)
  /\ offer' = None
  /\ phase' = "build"
  /\ UNCHANGED <<store, connectorVars, requestVars, poolVars, batch, boundVars>>

(* request_finished, and the pool taking the request's blocks back; their  *)
(* prefix-cache entries stay until the blocks are given to someone else.   *)
Release(r) == blocks' = [blocks EXCEPT ![r] = <<>>]

(* Variant: request_finished does not forget the pending match.            *)
MatchKept(r, outcome) ==
  /\ BetweenSteps
  /\ status[r] \in IF outcome = "finished" THEN {"running"} ELSE Live
  /\ status' = [status EXCEPT ![r] = outcome]
  /\ Release(r)
  /\ UNCHANGED <<store, connectorVars, prompt, route, poolVars, stepVars, boundVars>>

(* Variant: request_finished claims the blocks, so vLLM never frees them.  *)
BlocksClaimed(r, outcome) ==
  /\ BetweenSteps
  /\ status[r] \in IF outcome = "finished" THEN {"running"} ELSE Live
  /\ status' = [status EXCEPT ![r] = outcome]
  /\ pending' = Drop(pending, {r})
  /\ UNCHANGED <<store, scheduled, loads, loaded, native, prompt, route, blocks, poolVars,
                 stepVars, boundVars>>

RequestFinished(r, outcome) ==
  /\ BetweenSteps
  /\ status[r] \in IF outcome = "finished" THEN {"running"} ELSE Live
  /\ status' = [status EXCEPT ![r] = outcome]
  /\ Release(r)
  /\ pending' = Drop(pending, {r})
  /\ UNCHANGED <<store, scheduled, loads, loaded, native, prompt, route, poolVars,
                 stepVars, boundVars>>

Preempt(r) ==
  /\ BetweenSteps
  /\ status[r] = "running"
  /\ preempts < MaxPreempts
  /\ preempts' = preempts + 1
  /\ status' = [status EXCEPT ![r] = "preempted"]
  /\ Release(r)
  /\ UNCHANGED <<store, connectorVars, prompt, route, poolVars, stepVars, restarts>>

(* Variant: resumed requests are passed over.                              *)
HandledNew == {r \in DOMAIN scheduled \cap DOMAIN batch : ~batch[r].resumed}

(* The requests whose loads this step's metadata carries.                  *)
Handled == DOMAIN scheduled \cap DOMAIN batch

SkipBlocks(r) == scheduled[r].skip \div BlockSize
LoadBlocks(r) == BlocksFor(scheduled[r].num, BlockSize)

(* Variant: the load always goes to the front of the table.                *)
FrontOfTable(r) == 0

(* The blocks the load goes to: after the natively cached ones for a new   *)
(* request, at the front for a resumed one.                                *)
FirstBlock(r) == IF batch[r].resumed THEN 0 ELSE SkipBlocks(r)
LoadIds(r) == [j \in 1..LoadBlocks(r) |-> blocks[r][FirstBlock(r) + j]]

(* The layouts that raise: a resumed request behind a partial native hit,  *)
(* a skip inside a block, a table too short for the load.                  *)
LayoutRefused(r) ==
  \/ batch[r].resumed /\ scheduled[r].skip > 0
  \/ ~batch[r].resumed /\ scheduled[r].skip % BlockSize # 0
  \/ Len(blocks[r]) < FirstBlock(r) + LoadBlocks(r)

BuildConnectorMeta ==
  /\ phase \in {"schedule", "build"} /\ offer = None
  /\ \A r \in Handled : ~LayoutRefused(r)
  /\ loads' = {[req |-> r, user |-> scheduled[r].user, ids |-> LoadIds(r),
                num |-> scheduled[r].num, skip |-> scheduled[r].skip] : r \in Handled}
  /\ scheduled' = Drop(scheduled, Handled)
  /\ phase' = "load"
  /\ UNCHANGED <<store, pending, loaded, native, requestVars, poolVars, offer, batch, boundVars>>

BuildRefuses ==
  /\ phase \in {"schedule", "build"} /\ offer = None
  /\ \E r \in Handled : LayoutRefused(r)
  /\ FailStep

-----------------------------------------------------------------------------
(* The worker side.                                                        *)

(* Variant: the skipped tokens are not skipped in the memory.              *)
InjectFromStart(l, m) ==
  [b \in Blocks |->
    IF \E j \in 1..BlocksFor(l.num, BlockSize) : l.ids[j] = b
    THEN KvOf[m][CHOOSE j \in 1..BlocksFor(l.num, BlockSize) : l.ids[j] = b]
    ELSE kv[b]]

(* inject_load: block j of the load gets the memory's block after the      *)
(* skipped ones.                                                           *)
Inject(l, m) ==
  [b \in Blocks |->
    IF \E j \in 1..BlocksFor(l.num, BlockSize) : l.ids[j] = b
    THEN KvOf[m][l.skip \div BlockSize
                 + CHOOSE j \in 1..BlocksFor(l.num, BlockSize) : l.ids[j] = b]
    ELSE kv[b]]

InjectOneLoad(l) ==
  /\ phase = "load" /\ l \in loads
  /\ store[l.user] # None
  /\ kv' = Inject(l, store[l.user])
  /\ loaded' = loaded \cup {l.req}
  /\ loads' = loads \ {l}
  /\ UNCHANGED <<store, pending, scheduled, native, requestVars, cached, stepVars, boundVars>>

(* start_load_kv fails closed on a memory that is gone by now, *)
MemoryGone(l) ==
  /\ phase = "load" /\ l \in loads
  /\ store[l.user] = None
  /\ FailStep

(* and on an injection that raises: no attention metadata, a layer the     *)
(* memory does not have, a shape that does not match.                      *)
InjectionRaises ==
  /\ phase = "load" /\ loads # {}
  /\ FailStep

(* The model computes every token that is neither cached nor injected and  *)
(* attends over the whole prompt of the admitted requests.                 *)
Forward ==
  /\ phase = "load" /\ loads = {}
  /\ kv' = [b \in Blocks |->
       IF \E r \in DOMAIN batch : \E i \in 1..Len(blocks[r]) :
            i > Region(prompt[r]) /\ i > batch[r].hits /\ blocks[r][i] = b
       THEN Native ELSE kv[b]]
  /\ phase' = "schedule"
  /\ batch' = EmptyDict
  /\ UNCHANGED <<store, connectorVars, requestVars, cached, offer, boundVars>>

(* The caller drops the failed engine and builds a new one: a fresh        *)
(* connector and pool; the memory store and load_stats live on.            *)
RestartEngine ==
  /\ phase = "failed"
  /\ restarts < MaxRestarts
  /\ restarts' = restarts + 1
  /\ pending' = EmptyDict /\ scheduled' = EmptyDict /\ loads' = {}
  /\ status' = [r \in Requests |-> IF status[r] \in Live THEN "aborted" ELSE status[r]]
  /\ blocks' = [r \in Requests |-> <<>>]
  /\ cached' = [b \in Blocks |-> NoKey]
  /\ kv' = [b \in Blocks |-> Garbage]
  /\ phase' = "schedule" /\ offer' = None /\ batch' = EmptyDict
  /\ UNCHANGED <<store, loaded, native, prompt, route, preempts>>

-----------------------------------------------------------------------------
Admit(r) ==
  \/ \E hits \in 0..TableLen(prompt[r]) : GetNumNewMatchedTokens(r, hits)
  \/ /\ offer # None /\ offer.req = r
     /\ \E table \in [1..TableLen(prompt[r]) -> Blocks] : UpdateStateAfterAlloc(table)

EngineStep ==
  \/ AllocFails \/ BuildConnectorMeta \/ BuildRefuses
  \/ \E l \in loads : InjectOneLoad(l)
  \/ \E l \in loads : MemoryGone(l)
  \/ InjectionRaises
  \/ Forward

Next ==
  \/ \E u \in Users, m \in Memories : Register(u, m)
  \/ \E u \in Users : Remove(u)
  \/ \E r \in Requests, u \in Users \cup {NoUser}, p \in Prompts : Submit(r, u, p)
  \/ \E r \in Requests : Admit(r)
  \/ EngineStep
  \/ \E r \in Requests, outcome \in Done : RequestFinished(r, outcome)
  \/ \E r \in Requests : Preempt(r)
  \/ RestartEngine

Spec == Init /\ [][Next]_vars

(* The engine keeps stepping while it has requests; first come, first      *)
(* served, it keeps trying the queued ones, and every generation ends.     *)
Fairness ==
  /\ WF_vars(EngineStep)
  /\ \A r \in Requests : SF_vars(Admit(r)) /\ SF_vars(RequestFinished(r, "finished"))

FairSpec == Spec /\ Fairness

-----------------------------------------------------------------------------
(* Every variable holds a value of its kind. *)
TypeOK ==
  /\ store \in [Users -> Memories \cup {None}]
  /\ DOMAIN pending \subseteq Requests /\ pending \in [DOMAIN pending -> PendingMatch]
  /\ DOMAIN scheduled \subseteq Requests /\ scheduled \in [DOMAIN scheduled -> ScheduledLoad]
  /\ loads \subseteq MemoryLoad
  /\ loaded \subseteq Requests /\ native \subseteq Requests
  /\ status \in [Requests -> {"new"} \cup Live \cup Done]
  /\ prompt \in [Requests -> Prompts]
  /\ route \in [Requests -> Users \cup {NoUser}]
  /\ blocks \in [Requests -> Seq(Blocks)]
  /\ DOMAIN cached = Blocks /\ DOMAIN kv = Blocks
  /\ phase \in {"schedule", "build", "load", "failed"}
  /\ offer \in Offer \cup {None}
  /\ DOMAIN batch \subseteq Requests
  /\ batch \in [DOMAIN batch -> [hits : Nat, resumed : BOOLEAN]]
  /\ preempts \in 0..MaxPreempts /\ restarts \in 0..MaxRestarts

(* A request that has been through a forward pass has, in every block of   *)
(* its memory region, the KV of the memory its prompt was built from: no   *)
(* load was skipped, misplaced or overwritten, through block reuse, shared *)
(* prefixes, preemption and failed steps.                                  *)
AttendsOwnMemory ==
  \A r \in Requests : status[r] = "running" /\ r \notin DOMAIN batch =>
    \A i \in 1..Region(prompt[r]) : kv[blocks[r][i]] = KvOf[prompt[r]][i]

(* A match is remembered only for a request still in the queue, and a      *)
(* scheduled load only inside the step that admitted its request: nothing  *)
(* is left behind for a later step to inject into blocks that moved on.    *)
NothingLeftBehind ==
  /\ \A r \in DOMAIN pending : status[r] \in {"waiting", "preempted"}
  /\ DOMAIN scheduled \subseteq DOMAIN batch
  /\ \A l \in loads : l.req \in DOMAIN batch

(* A request that generated under a user id is counted as covered, by a    *)
(* load or by the prefix cache.                                            *)
GeneratedIsCovered ==
  \A r \in Requests :
    /\ route[r] # NoUser
    /\ status[r] = "finished" \/ (status[r] = "running" /\ r \notin DOMAIN batch)
    => r \in loaded \cup native

(* A step writes KV only into blocks it handed out itself: never into a    *)
(* block that a request admitted earlier is attending over.                *)
WritesOnlyFreshBlocks ==
  [][\A r \in Requests : status[r] = "running" /\ r \notin DOMAIN batch /\ phase # "failed" =>
       \A i \in 1..Len(blocks[r]) : kv'[blocks[r][i]] = kv[blocks[r][i]]]_vars

(* A queued request is finished, aborted or dropped with its engine: no    *)
(* block is lost to a request that ended, and no step waits for another.   *)
EveryRequestSettles ==
  \A r \in Requests : status[r] = "waiting" ~> (status[r] \in Done \/ phase = "failed")

(* The comment on the native no-load path calls it legitimate: a request   *)
(* whose memory region the prefix cache covered attends over its memory.   *)
NativeCoverIsLegitimate ==
  \A r \in native : status[r] = "running" /\ r \notin DOMAIN batch =>
    \A i \in 1..Region(prompt[r]) : kv[blocks[r][i]] = KvOf[prompt[r]][i]

-----------------------------------------------------------------------------
(* The connector in its engine implements MemoryServing.                   *)

Attending(r) == status[r] = "running" /\ r \notin DOMAIN batch

ServedKv == [p \in Prompts |-> [i \in 1..Region(p) |-> KvOf[p][i]]]

StageOf(r) ==
  CASE status[r] = "new" -> "new"
    [] status[r] = "finished" -> "done"
    [] status[r] = "aborted" -> "dropped"
    [] Attending(r) -> "attending"
    [] OTHER -> "queued"

ViewOf(r) == IF Attending(r) THEN [i \in 1..Region(prompt[r]) |-> kv[blocks[r][i]]] ELSE <<>>

ServedStage == [r \in Requests |-> StageOf(r)]
ServedView == [r \in Requests |-> ViewOf(r)]

Serving == INSTANCE MemoryServing WITH
  MemoryKv <- ServedKv, want <- prompt, stage <- ServedStage, view <- ServedView

(* Every step of the engine is a step of MemoryServing or leaves it alone: *)
(* from its first forward pass to its end a request sees its own memory    *)
(* and nothing else.                                                       *)
ImplementsServing == Serving!Spec
=============================================================================
