------------------------- MODULE KVConnectorProofs -------------------------
(***************************************************************************)
(* The safety properties of KVConnector for every set of requests, users,  *)
(* memories and blocks, every block size and every bound.  In this order:  *)
(* the arithmetic of InjectionLayout it rests on, the invariant and what   *)
(* follows from it, and that KVConnector implements MemoryServing.         *)
(***************************************************************************)
EXTENDS KVConnectorInvariant, SequenceTheorems, TLAPS

(* A block multiple divides exactly.                                       *)
LEMMA DivExact ==
  ASSUME NEW k \in Nat, NEW b \in Nat \ {0}
  PROVE  /\ (k * b) \div b = k
         /\ (k * b) % b = 0
  BY Z3

(* Division with remainder.                                                *)
LEMMA DivMod ==
  ASSUME NEW n \in Nat, NEW b \in Nat \ {0}
  PROVE  /\ n \div b \in Nat
         /\ n % b \in 0..b-1
         /\ n = (n \div b) * b + (n % b)
  BY Z3

(* Block k * b plus an offset inside the block.                            *)
LEMMA DivOffset ==
  ASSUME NEW k \in Nat, NEW b \in Nat \ {0}, NEW o \in 0..b-1
  PROVE  /\ (k * b + o) \div b = k
         /\ (k * b + o) % b = o
  BY Z3

(* Flooring loses less than a block.                                       *)
LEMMA AlignBounds ==
  ASSUME NEW n \in Nat, NEW b \in Nat \ {0}
  PROVE  /\ AlignToBlockSize(n, b) \in Nat
         /\ AlignToBlockSize(n, b) <= n
         /\ n - AlignToBlockSize(n, b) < b
         /\ n \div b \in Nat
  BY Z3 DEF AlignToBlockSize

(* As many blocks as fit are at most n \div b.                              *)
LEMMA WholeBlocks ==
  ASSUME NEW k \in Nat, NEW n \in Nat, NEW b \in Nat \ {0}, k * b <= n
  PROVE  k <= n \div b
<1>1. n \div b \in Nat /\ n < (n \div b) * b + b
  BY DivMod
<1> DEFINE d == n \div b
<1> HIDE DEF d
<1>2. d \in Nat /\ n < d * b + b
  BY <1>1 DEF d
<1>3. k * b < (d + 1) * b
  BY <1>2, Z3
<1>4. k < d + 1
  BY <1>2, <1>3, Z3
<1>5. QED
  BY <1>2, <1>4 DEF d

(* Every token has a block.                                                *)
LEMMA BlocksForBounds ==
  ASSUME NEW n \in Nat, NEW b \in Nat \ {0}
  PROVE  BlocksFor(n, b) \in Nat /\ n \div b <= BlocksFor(n, b)
<1>1. n + b - 1 \in Nat
  OBVIOUS
<1>2. BlocksFor(n, b) \in Nat
  BY <1>1, DivMod DEF BlocksFor
<1>3. (n \div b) * b <= n + b - 1 /\ n \div b \in Nat
  <2>1. n \div b \in Nat /\ n % b \in 0..b-1 /\ n = (n \div b) * b + (n % b)
    BY DivMod
  <2> DEFINE d == n \div b
             o == n % b
  <2>2. d \in Nat /\ o \in 0..b-1 /\ n = d * b + o
    BY <2>1
  <2> HIDE DEF d, o
  <2>3. d * b \in Nat
    BY <2>2, Z3
  <2>4. d * b <= n + b - 1
    BY <2>2, <2>3
  <2>5. QED BY <2>2, <2>4 DEF d
<1>4. QED
  BY <1>1, <1>2, <1>3, WholeBlocks DEF BlocksFor

(* A block multiple occupies exactly that many blocks.                     *)
LEMMA BlocksForExact ==
  ASSUME NEW k \in Nat, NEW b \in Nat \ {0}
  PROVE  BlocksFor(k * b, b) = k
  BY Z3 DEF BlocksFor

-----------------------------------------------------------------------------
(* The padding loop reaches block_size - 1 tokens whatever the template's  *)
(* own footer and however many tokens a newline takes.                     *)
LEMMA PaddedFooterReaches ==
  ASSUME NEW close \in Nat, NEW newline \in Nat \ {0}, NEW b \in Nat \ {0}
  PROVE  PaddedFooterLen(close, newline, b) \in Nat /\ PaddedFooterLen(close, newline, b) >= b - 1
<1> DEFINE repeats == IF b - 1 > close THEN b - 1 - close ELSE 0
<1>1. repeats \in Nat /\ repeats + close >= b - 1
  OBVIOUS
<1>2. newline * repeats \in Nat /\ newline * repeats >= repeats
  <2> HIDE DEF repeats
  <2>1. QED BY <1>1, Z3
<1>3. PaddedFooterLen(close, newline, b) = newline * repeats + close
  BY DEF PaddedFooterLen
<1>4. QED
  <2> HIDE DEF repeats
  <2>1. QED BY <1>1, <1>2, <1>3

(* block_aligned_prefix never raises for a composed memory: the footer is  *)
(* long enough that the recomputed tail holds only footer tokens, so every *)
(* retrieved chunk token is injected.                                      *)
THEOREM ChunksAlwaysInjected ==
  ASSUME NEW chunks \in Nat, NEW close \in Nat, NEW newline \in Nat \ {0},
         NEW b \in Nat \ {0}
  PROVE  LET footer == PaddedFooterLen(close, newline, b)
         IN  ChunksInsidePrefix(chunks + footer, footer, b)
<1> DEFINE footer == PaddedFooterLen(close, newline, b)
<1>1. footer \in Nat /\ footer >= b - 1
  BY PaddedFooterReaches
<1> HIDE DEF footer
<1>2. /\ AlignToBlockSize(chunks + footer, b) \in Nat
      /\ (chunks + footer) - AlignToBlockSize(chunks + footer, b) < b
  BY <1>1, AlignBounds
<1>3. ChunksInsidePrefix(chunks + footer, footer, b)
  BY <1>1, <1>2 DEF ChunksInsidePrefix
<1>4. QED
  BY <1>3 DEF footer

(* A composition within memory_token_budget leaves room for the query and  *)
(* the whole answer in the model's context.                                *)
THEOREM BudgetLeavesRoomForAnswer ==
  ASSUME NEW memory \in Nat, NEW query \in Nat, NEW answer \in Nat,
         NEW maxPosition \in Nat, NEW maxModelLen \in Nat,
         ModelMemoryBudget(query, maxModelLen, answer) >= 0,
         memory <= MemoryTokenBudget(query, maxPosition, maxModelLen, answer)
  PROVE  /\ memory + query + answer <= maxModelLen
         /\ memory <= maxPosition
  BY DEF MemoryTokenBudget, ModelMemoryBudget

-----------------------------------------------------------------------------
(* Slots: token t of a load goes to its block's page, at its own offset.   *)
LEMMA SlotMappingScatters ==
  ASSUME NEW ids \in Seq(Nat), NEW b \in Nat \ {0}, NEW n \in Nat,
         MappingFits(ids, b, n), NEW t \in 1..n
  PROVE  /\ (t - 1) \div b + 1 \in 1..Len(ids)
         /\ PageOf(SlotMapping(ids, b, n)[t], b) = ids[(t - 1) \div b + 1]
         /\ OffsetOf(SlotMapping(ids, b, n)[t], b) = (t - 1) % b
<1> DEFINE q == (t - 1) \div b
           o == (t - 1) % b
<1>1. q \in Nat /\ o \in 0..b-1 /\ t - 1 = q * b + o
  <2>1. t - 1 \in Nat
    OBVIOUS
  <2>2. QED BY <2>1, DivMod
<1>2. n <= Len(ids) * b /\ Len(ids) \in Nat
  BY DEF MappingFits
<1>3. q + 1 \in 1..Len(ids)
  <2>1. q * b < Len(ids) * b
    BY <1>1, <1>2
  <2> HIDE DEF q, o
  <2>2. q < Len(ids)
    BY <2>1, <1>1, <1>2, Z3
  <2>3. QED
    BY <2>2, <1>1, <1>2
<1>4. SlotMapping(ids, b, n)[t] = ids[q + 1] * b + o
  BY DEF SlotMapping
<1>5. ids[q + 1] \in Nat
  BY <1>3
<1>6. (ids[q + 1] * b + o) \div b = ids[q + 1] /\ (ids[q + 1] * b + o) % b = o
  <2> HIDE DEF q, o
  <2>1. QED BY <1>1, <1>5, DivOffset
<1>7. QED
  BY <1>3, <1>4, <1>6 DEF PageOf, OffsetOf

(* With distinct block ids no two tokens of a load share a slot: no token  *)
(* overwrites another.                                                     *)
THEOREM SlotMappingInjective ==
  ASSUME NEW ids \in Seq(Nat), NEW b \in Nat \ {0}, NEW n \in Nat,
         MappingFits(ids, b, n),
         \A i, j \in 1..Len(ids) : ids[i] = ids[j] => i = j,
         NEW t \in 1..n, NEW s \in 1..n,
         SlotMapping(ids, b, n)[t] = SlotMapping(ids, b, n)[s]
  PROVE  t = s
<1>1. /\ (t - 1) \div b + 1 \in 1..Len(ids) /\ (s - 1) \div b + 1 \in 1..Len(ids)
      /\ ids[(t - 1) \div b + 1] = ids[(s - 1) \div b + 1]
      /\ (t - 1) % b = (s - 1) % b
  BY SlotMappingScatters
<1>2. (t - 1) \div b = (s - 1) \div b
  <2> DEFINE i == (t - 1) \div b
             j == (s - 1) \div b
  <2>1. i \in Int /\ j \in Int
    BY Z3
  <2>2. i + 1 \in 1..Len(ids) /\ j + 1 \in 1..Len(ids) /\ ids[i + 1] = ids[j + 1]
    BY <1>1
  <2> HIDE DEF i, j
  <2>3. i + 1 = j + 1
    BY <2>2
  <2>4. i = j
    BY <2>1, <2>3
  <2>5. QED BY <2>4 DEF i, j
<1>3. /\ t - 1 = ((t - 1) \div b) * b + ((t - 1) % b)
      /\ s - 1 = ((s - 1) \div b) * b + ((s - 1) % b)
  <2>1. t - 1 \in Nat /\ s - 1 \in Nat
    OBVIOUS
  <2>2. QED BY <2>1, DivMod
<1>4. t - 1 = s - 1
  BY <1>1, <1>2, <1>3
<1>5. QED
  BY <1>4

-----------------------------------------------------------------------------
(* A native hit of k whole blocks in a region of n tokens: the load covers *)
(* exactly the blocks after the hit, from the first to the last of the     *)
(* region.                                                                 *)
LEMMA LoadFollowsHit ==
  ASSUME NEW n \in Nat, NEW b \in Nat \ {0}, NEW k \in Nat
  PROVE  LET region == AlignToBlockSize(n, b) \div b
             new == AlignToBlockSize(n, b) - k * b
         IN  /\ region \in Nat
             /\ region * b <= n
             /\ new = (region - k) * b
             /\ (new > 0) <=> (k < region)
             /\ k * b \in Nat /\ (k * b) \div b = k /\ (k * b) % b = 0
             /\ new > 0 => new \in Nat /\ BlocksFor(new, b) = region - k
<1> DEFINE region == AlignToBlockSize(n, b) \div b
           new == AlignToBlockSize(n, b) - k * b
           full == n \div b
<1>1. full \in Nat /\ AlignToBlockSize(n, b) = full * b /\ full * b <= n
  BY AlignBounds, Z3 DEF AlignToBlockSize
<1>2. region = full
  <2> HIDE DEF full
  <2>1. QED BY <1>1, DivExact
<1> HIDE DEF full, region
<1>3. new = (region - k) * b
  BY <1>1, <1>2, Z3
<1>4. (new > 0) <=> (k < region)
  <2> HIDE DEF new
  <2>1. QED BY <1>1, <1>2, <1>3, Z3
<1>5. k * b \in Nat /\ (k * b) \div b = k /\ (k * b) % b = 0
  BY DivExact, Z3
<1>6. ASSUME new > 0 PROVE new \in Nat /\ BlocksFor(new, b) = region - k
  <2>1. region - k \in Nat
    BY <1>1, <1>2, <1>4, <1>6
  <2> DEFINE d == region - k
  <2> HIDE DEF new
  <2>2. new = d * b
    BY <1>3
  <2>3. d \in Nat
    BY <2>1
  <2> HIDE DEF d
  <2>4. d * b \in Nat
    BY <2>3, Z3
  <2>5. QED
    BY <2>2, <2>3, <2>4, BlocksForExact DEF d
<1>7. QED
  BY <1>1, <1>2, <1>3, <1>4, <1>5, <1>6 DEF region

-----------------------------------------------------------------------------


(* Lengths of a prompt in blocks: the memory region is whole blocks, whole *)
(* blocks fit the table.                                                   *)
LEMMA PromptBlocks ==
  ASSUME NEW p \in Prompts
  PROVE  /\ Region(p) \in Nat /\ FullBlocks(p) \in Nat /\ TableLen(p) \in Nat
         /\ Region(p) <= FullBlocks(p) /\ FullBlocks(p) <= TableLen(p)
         /\ Len(PromptTokens(p)) \in Nat
         /\ FullBlocks(p) * BlockSize <= Len(PromptTokens(p))
         /\ PromptTokens(p) \in Seq(Tokens)
<1> USE BlockSizeAssumption
<1> DEFINE m == Len(TokenIds[p])
           q == Len(Query)
<1>1. m \in Nat /\ q \in Nat /\ PromptTokens(p) \in Seq(Tokens) /\ Len(PromptTokens(p)) = m + q
  BY TokenAssumption, ConcatProperties DEF PromptTokens
<1> HIDE DEF m, q
<1>2. Region(p) \in Nat /\ Region(p) * BlockSize <= m
  <2>1. CASE p \in Memories
    BY <2>1, <1>1, LoadFollowsHit DEF Region, m
  <2>2. CASE p \notin Memories
    BY <2>2, <1>1 DEF Region
  <2>3. QED BY <2>1, <2>2
<1>3. FullBlocks(p) \in Nat /\ FullBlocks(p) * BlockSize <= m + q /\ FullBlocks(p) <= TableLen(p)
      /\ TableLen(p) \in Nat
  <2>1. m + q \in Nat /\ Len(PromptTokens(p)) = m + q
    BY <1>1
  <2> HIDE DEF PromptTokens
  <2>2. (m + q) \div BlockSize <= BlocksFor(m + q, BlockSize) /\ BlocksFor(m + q, BlockSize) \in Nat
    BY <2>1, BlocksForBounds
  <2>3. (m + q) \div BlockSize \in Nat /\ ((m + q) \div BlockSize) * BlockSize <= m + q
    BY <2>1, AlignBounds DEF AlignToBlockSize
  <2>4. QED BY <2>1, <2>2, <2>3 DEF FullBlocks, TableLen
<1>4. Region(p) <= FullBlocks(p)
  <2>1. Region(p) * BlockSize <= m + q /\ m + q \in Nat
    BY <1>1, <1>2
  <2>2. Region(p) <= (m + q) \div BlockSize
    BY <2>1, <1>2, WholeBlocks
  <2>3. QED BY <2>2, <1>1 DEF FullBlocks
<1>5. QED
  BY <1>1, <1>2, <1>3, <1>4

(* The key of a whole block is never the key of an unknown one.            *)
LEMMA KeyNotEmpty ==
  ASSUME NEW p \in Prompts, NEW i \in 1..FullBlocks(p)
  PROVE  Key(p, i) # NoKey
<1>1. /\ FullBlocks(p) \in Nat /\ Len(PromptTokens(p)) \in Nat
      /\ FullBlocks(p) * BlockSize <= Len(PromptTokens(p))
      /\ PromptTokens(p) \in Seq(Tokens)
  BY PromptBlocks
<1> DEFINE n == i * BlockSize
           L == Len(PromptTokens(p))
           F == FullBlocks(p)
<1>2. n \in Nat /\ 1 <= n /\ n <= L
  <2>1. i \in Nat /\ 1 <= i /\ i <= F /\ F \in Nat /\ L \in Nat /\ F * BlockSize <= L
    BY <1>1
  <2> HIDE DEF L, F
  <2>2. QED BY <2>1, BlockSizeAssumption, Z3
<1>3. \A j \in 1..n : PromptTokens(p)[j] \in Tokens
  BY <1>1, <1>2
<1> HIDE DEF n
<1>4. Len(SubSeq(PromptTokens(p), 1, n)) = n
  BY <1>2, <1>3, SubSeqProperties
<1>5. QED
  BY <1>2, <1>4 DEF Key, NoKey, n

(* A prefix-cache hit is whole blocks of the prompt.                       *)
LEMMA HitsAreFull ==
  ASSUME NEW p \in Prompts, NEW hits \in Nat, HitsPossible(p, hits)
  PROVE  hits <= FullBlocks(p)
<1>1. Len(PromptTokens(p)) \in Nat /\ hits * BlockSize <= Len(PromptTokens(p))
  BY PromptBlocks, BlockSizeAssumption DEF HitsPossible
<1>2. QED
  BY <1>1, BlockSizeAssumption, WholeBlocks DEF FullBlocks

(* What the connector computes from a hit, in blocks.                      *)
LEMMA NewTokensInBlocks ==
  ASSUME NEW m \in Memories, NEW hits \in Nat
  PROVE  LET new == AlignToBlockSize(Len(TokenIds[m]), BlockSize) - hits * BlockSize
         IN  /\ new = (Region(m) - hits) * BlockSize
             /\ new > 0 <=> hits < Region(m)
             /\ new > 0 => new \in Nat /\ BlocksFor(new, BlockSize) = Region(m) - hits
             /\ hits * BlockSize \in Nat /\ (hits * BlockSize) \div BlockSize = hits
             /\ (hits * BlockSize) % BlockSize = 0
<1>1. Len(TokenIds[m]) \in Nat
  BY TokenAssumption DEF Prompts
<1>2. QED
  BY <1>1, BlockSizeAssumption, LoadFollowsHit DEF Region

-----------------------------------------------------------------------------
(* Every action preserves the invariant.                                   *)

LEMMA InitIInv == Init => IInv
<1> SUFFICES ASSUME Init PROVE IInv
  OBVIOUS
<1>1. TypeOK
  BY BoundAssumption DEF Init, TypeOK, EmptyDict, Prompts
<1>2. Tables /\ Admitted /\ FreshOwnedOnce /\ Keyed
  BY DEF Init, EmptyDict, Tables, Admitted, FreshOwnedOnce, Owns, Keyed
<1>3. CacheSound
  BY KeyNotEmpty DEF Init, CacheSound
<1>4. Routed /\ PendingOK /\ OfferOK /\ ScheduledOK /\ LoadsOK /\ PhaseOK /\ LoadComing
  BY DEF Init, EmptyDict, Routed, Live, PendingOK, OfferOK, ScheduledOK, LoadsOK, PhaseOK,
         LoadComing
<1>5. GeneratedIsCovered
  BY DEF Init, GeneratedIsCovered
<1>6. QED
  BY <1>1, <1>2, <1>3, <1>4, <1>5 DEF IInv

(* Register and Remove touch only the store.                               *)
LEMMA StoreStep ==
  ASSUME IInv, NEW u \in Users, NEW m \in Memories \cup {None},
         (Register(u, m) /\ m # None) \/ (Remove(u) /\ m = None),
         store' = [store EXCEPT ![u] = m]
  PROVE  IInv'
<1> USE DEF IInv
<1>1. UNCHANGED <<connectorVars, requestVars, poolVars, stepVars, boundVars>>
  BY DEF Register, Remove
<1> USE DEF connectorVars, requestVars, poolVars, stepVars, boundVars
<1>2. TypeOK'
  BY <1>1 DEF TypeOK
<1>3. (Tables /\ Admitted /\ FreshOwnedOnce /\ Keyed)'
  BY <1>1 DEF Tables, Admitted, FreshOwnedOnce, Owns, Keyed, Hits
<1>4. CacheSound'
  BY <1>1 DEF CacheSound, Fresh, Owns, Hits
<1>5. (PendingOK /\ ScheduledOK /\ LoadsOK /\ PhaseOK)'
  BY <1>1 DEF PendingOK, ScheduledOK, LoadsOK, PhaseOK, NeedsLoad, Hits, LoadDue, MetaDue
<1>6. ASSUME NEW r \in Requests, status[r] \in Live, route[r] # NoUser
      PROVE  store'[route[r]] = store[route[r]] \/ store'[route[r]] = None
  BY <1>6 DEF Register, Remove, TypeOK
<1>7. Routed'
  BY <1>1, <1>6 DEF Routed
<1>8. ASSUME NEW r \in Requests, status[r] \in Live, Matched(r) PROVE Matched(r)'
  BY <1>1, <1>6, <1>8 DEF Matched
<1>9. OfferOK'
  BY <1>1, <1>8 DEF OfferOK, HitsPossible, TypeOK, Offer, Live
<1>10. LoadComing'
  BY <1>1, <1>8, SMTT(20) DEF LoadComing, NeedsLoad, Hits, MetaDue, Admitted, Live, TypeOK
<1>11. GeneratedIsCovered'
  BY <1>1 DEF GeneratedIsCovered
<1>12. QED
  BY <1>2, <1>3, <1>4, <1>5, <1>7, <1>9, <1>10, <1>11

LEMMA SubmitStep ==
  ASSUME IInv, NEW r \in Requests, NEW u \in Users \cup {NoUser}, NEW p \in Prompts,
         Submit(r, u, p)
  PROVE  IInv'
<1> USE DEF IInv, connectorVars, poolVars, stepVars, boundVars
<1>1. TypeOK'
  BY DEF Submit, TypeOK, Live
<1>2. offer = None /\ DOMAIN batch = {} /\ loads = {} /\ DOMAIN scheduled = {} /\ phase = "schedule"
  BY DEF Submit, BetweenSteps, ScheduledOK, PhaseOK
<1>3. \A q \in Requests \ {r} : status'[q] = status[q] /\ prompt'[q] = prompt[q] /\ route'[q] = route[q]
  BY DEF Submit, TypeOK
<1>4. status[r] = "new" /\ status'[r] = "waiting" /\ prompt'[r] = p /\ route'[r] = u /\ blocks[r] = <<>>
  BY DEF Submit, TypeOK, Tables
<1>5. (Tables /\ Admitted /\ FreshOwnedOnce /\ Keyed)'
  BY <1>2, <1>3, <1>4 DEF Submit, Tables, Admitted, FreshOwnedOnce, Owns, Keyed, Hits
<1>6. CacheSound'
  BY DEF Submit, CacheSound, Fresh, Owns, Hits
<1>7. (OfferOK /\ ScheduledOK /\ LoadsOK /\ PhaseOK /\ LoadComing)'
  BY <1>2 DEF Submit, OfferOK, ScheduledOK, LoadsOK, PhaseOK, LoadComing
<1>8. PendingOK'
  BY <1>3, <1>4 DEF Submit, PendingOK, TypeOK
<1>9. Routed'
  BY <1>3, <1>4 DEF Submit, Routed, Matches, Live
<1>10. GeneratedIsCovered'
  BY <1>2, <1>3, <1>4 DEF Submit, GeneratedIsCovered
<1>11. QED
  BY <1>1, <1>5, <1>6, <1>7, <1>8, <1>9, <1>10

(* A step that raises changes only the phase.                              *)
LEMMA FailStepStep ==
  ASSUME IInv, FailStep, offer = None
  PROVE  IInv'
<1> USE DEF IInv, connectorVars, requestVars, poolVars, boundVars
<1>1. TypeOK'
  BY DEF FailStep, TypeOK
<1>2. (Tables /\ Admitted /\ FreshOwnedOnce /\ Keyed)'
  BY DEF FailStep, Tables, Admitted, FreshOwnedOnce, Owns, Keyed, Hits
<1>3. CacheSound'
  BY DEF FailStep, CacheSound, Fresh, Owns, Hits
<1>4. (Routed /\ PendingOK /\ OfferOK /\ ScheduledOK /\ LoadsOK /\ PhaseOK)'
  BY DEF FailStep, Routed, PendingOK, OfferOK, ScheduledOK, LoadsOK, PhaseOK, NeedsLoad, Hits,
         LoadDue, MetaDue
<1>5. LoadComing'
  BY DEF FailStep, LoadComing, Matched, NeedsLoad, Hits, MetaDue
<1>6. GeneratedIsCovered'
  BY DEF FailStep, GeneratedIsCovered
<1>7. QED
  BY <1>1, <1>2, <1>3, <1>4, <1>5, <1>6

LEMMA MatchStep ==
  ASSUME IInv, NEW r \in Requests, NEW hits \in 0..TableLen(prompt[r]),
         MatchWithoutUser(r, hits) \/ MatchNativeCovered(r, hits) \/ MatchNewTokens(r, hits)
  PROVE  IInv'
<1> USE DEF IInv, connectorVars, requestVars, poolVars, boundVars
<1>1. /\ CanOffer(r, hits) /\ hits \in Nat /\ prompt[r] \in Prompts
      /\ UNCHANGED <<store, scheduled, loads, loaded, requestVars, poolVars, phase, batch, boundVars>>
  <2>1. prompt[r] \in Prompts
    BY DEF TypeOK
  <2>2. hits \in Nat
    BY <2>1, PromptBlocks
  <2>3. QED
    BY <2>1, <2>2 DEF MatchWithoutUser, MatchNativeCovered, MatchNewTokens
<1>2. /\ phase = "schedule" /\ offer = None /\ status[r] \in {"waiting", "preempted"}
      /\ HitsPossible(prompt[r], hits) /\ r \notin DOMAIN batch
  BY <1>1 DEF CanOffer, Admitted
<1>3. route[r] # NoUser =>
        /\ Matches(prompt[r], store[route[r]])
        /\ store[route[r]] = prompt[r] /\ prompt[r] \in Memories
        /\ NewTokens(r, hits) = (Region(prompt[r]) - hits) * BlockSize
        /\ NewTokens(r, hits) > 0 <=> hits < Region(prompt[r])
        /\ NewTokens(r, hits) > 0 => NewTokens(r, hits) \in Nat
        /\ hits * BlockSize \in Nat
        /\ NewTokens(r, hits) \in Int
  <2> SUFFICES ASSUME route[r] # NoUser
               PROVE  /\ Matches(prompt[r], store[route[r]])
                      /\ store[route[r]] = prompt[r] /\ prompt[r] \in Memories
                      /\ NewTokens(r, hits) = (Region(prompt[r]) - hits) * BlockSize
                      /\ NewTokens(r, hits) > 0 <=> hits < Region(prompt[r])
                      /\ NewTokens(r, hits) > 0 => NewTokens(r, hits) \in Nat
                      /\ hits * BlockSize \in Nat
                      /\ NewTokens(r, hits) \in Int
    OBVIOUS
  <2>1. Matches(prompt[r], store[route[r]])
    BY DEF MatchWithoutUser, MatchNativeCovered, MatchNewTokens
  <2>2. store[route[r]] = prompt[r] /\ prompt[r] \in Memories
    BY <2>1, <1>2 DEF Routed, Live, Matches
  <2>3. NewTokens(r, hits)
          = AlignToBlockSize(Len(TokenIds[prompt[r]]), BlockSize) - hits * BlockSize
    BY <2>2 DEF NewTokens
  <2>4. /\ NewTokens(r, hits) = (Region(prompt[r]) - hits) * BlockSize
        /\ NewTokens(r, hits) > 0 <=> hits < Region(prompt[r])
        /\ NewTokens(r, hits) > 0 => NewTokens(r, hits) \in Nat
        /\ hits * BlockSize \in Nat
    BY <2>2, <2>3, <1>1, NewTokensInBlocks
  <2>5. NewTokens(r, hits) \in Int
    <3>1. Region(prompt[r]) - hits \in Int
      BY <1>1, PromptBlocks
    <3>2. QED BY <2>4, <3>1, BlockSizeAssumption
  <2>6. QED
    BY <2>1, <2>2, <2>4, <2>5
<1>4. route[r] = NoUser => Region(prompt[r]) = 0
  BY <1>2, SentinelAssumption DEF Routed, Live, Region
<1>5. (Tables /\ Admitted /\ FreshOwnedOnce /\ Keyed)'
  BY <1>1 DEF Tables, Admitted, FreshOwnedOnce, Owns, Keyed, Hits
<1>6. CacheSound'
  BY <1>1 DEF CacheSound, Fresh, Owns, Hits
<1>7. (Routed /\ ScheduledOK /\ LoadsOK /\ PhaseOK)'
  BY <1>1 DEF Routed, ScheduledOK, LoadsOK, PhaseOK, NeedsLoad, Hits, LoadDue, MetaDue
<1>8. native \subseteq native' /\ native' \subseteq Requests
  BY DEF MatchWithoutUser, MatchNativeCovered, MatchNewTokens, TypeOK
<1>9. (LoadComing /\ GeneratedIsCovered)'
  BY <1>1, <1>8 DEF LoadComing, Matched, NeedsLoad, Hits, MetaDue, GeneratedIsCovered
<1>10. Matched(r)'
  BY <1>1, <1>3 DEF Matched
<1>11. CASE MatchNewTokens(r, hits)
  <2>1. route[r] # NoUser /\ route[r] \in Users
    BY <1>11 DEF MatchNewTokens, TypeOK
  <2>2. pending' = Put(pending, r, [user |-> route[r], skip |-> hits * BlockSize])
        /\ offer' = [req |-> r, hits |-> hits, ext |-> NewTokens(r, hits)]
    BY <1>11 DEF MatchNewTokens
  <2>3. TypeOK'
    BY <1>1, <1>3, <1>8, <1>11, <2>1, <2>2 DEF MatchNewTokens, TypeOK, Put, PendingMatch, Offer
  <2>4. PendingOK'
    BY <1>1, <1>2, <2>2 DEF PendingOK, Put
  <2>5. OfferOK'
    BY <1>1, <1>2, <1>3, <1>10, <1>11, <2>1, <2>2 DEF MatchNewTokens, OfferOK, Put, HitsPossible
  <2>6. QED
    BY <1>5, <1>6, <1>7, <1>9, <2>3, <2>4, <2>5
<1>12. CASE ~MatchNewTokens(r, hits)
  <2>1. pending' = pending /\ offer' = [req |-> r, hits |-> hits, ext |-> 0]
    BY <1>12 DEF MatchWithoutUser, MatchNativeCovered, OfferNothing
  <2>2. TypeOK'
    BY <1>1, <1>8, <2>1 DEF TypeOK, Offer
  <2>3. PendingOK'
    BY <1>1, <2>1 DEF PendingOK
  <2>4. hits >= Region(prompt[r]) /\ (route[r] # NoUser => r \in native')
    <3>1. Region(prompt[r]) \in Nat
      BY <1>1, PromptBlocks
    <3>2. QED
      BY <1>1, <1>3, <1>4, <1>12, <3>1 DEF MatchWithoutUser, MatchNativeCovered
  <2>5. OfferOK'
    BY <1>1, <1>2, <1>10, <2>1, <2>4 DEF OfferOK, HitsPossible
  <2>6. QED
    BY <1>5, <1>6, <1>7, <1>9, <2>2, <2>3, <2>5
<1>13. QED
  BY <1>11, <1>12

LEMMA AllocFailsStep ==
  ASSUME IInv, AllocFails
  PROVE  IInv'
<1> USE DEF IInv, connectorVars, requestVars, poolVars, boundVars
<1>1. TypeOK'
  BY DEF AllocFails, TypeOK
<1>2. (Tables /\ Admitted /\ FreshOwnedOnce /\ Keyed)'
  BY DEF AllocFails, Tables, Admitted, FreshOwnedOnce, Owns, Keyed, Hits
<1>3. CacheSound'
  BY DEF AllocFails, CacheSound, Fresh, Owns, Hits
<1>4. (Routed /\ PendingOK /\ OfferOK /\ ScheduledOK /\ LoadsOK /\ PhaseOK)'
  BY DEF AllocFails, Routed, PendingOK, OfferOK, ScheduledOK, LoadsOK, PhaseOK, NeedsLoad, Hits,
         LoadDue, MetaDue
<1>5. LoadComing'
  BY DEF AllocFails, LoadComing, Matched, NeedsLoad, Hits, MetaDue
<1>6. GeneratedIsCovered'
  BY DEF AllocFails, GeneratedIsCovered
<1>7. QED
  BY <1>1, <1>2, <1>3, <1>4, <1>5, <1>6

(* A request leaves the pool between steps: finished, aborted, preempted.  *)
LEMMA LeaveStep ==
  ASSUME IInv, NEW r \in Requests, NEW outcome \in Done,
         RequestFinished(r, outcome) \/ Preempt(r)
  PROVE  IInv'
<1> USE DEF IInv, connectorVars, poolVars, stepVars, boundVars, Release
<1>1. /\ offer = None /\ DOMAIN batch = {} /\ loads = {} /\ DOMAIN scheduled = {}
      /\ phase = "schedule" /\ status[r] \in Live
      /\ blocks' = [blocks EXCEPT ![r] = <<>>]
      /\ UNCHANGED <<store, scheduled, loads, loaded, native, prompt, route, poolVars, stepVars>>
  BY DEF RequestFinished, Preempt, BetweenSteps, ScheduledOK, PhaseOK, Live
<1>2. status' = [status EXCEPT ![r] = status'[r]] /\ status'[r] \in Done \cup {"preempted"}
  BY DEF RequestFinished, Preempt, TypeOK
<1>3. \A q \in Requests \ {r} : status'[q] = status[q] /\ blocks'[q] = blocks[q]
  BY <1>1, <1>2 DEF TypeOK
<1>4. blocks'[r] = <<>>
  BY <1>1 DEF TypeOK
<1>5. pending' = Drop(pending, {r}) \/ (pending' = pending /\ status[r] = "running" /\ status'[r] = "preempted")
  BY DEF RequestFinished, Preempt, TypeOK
<1>6. TypeOK'
  <2>1. pending' \in [DOMAIN pending' -> PendingMatch] /\ DOMAIN pending' \subseteq Requests
    BY <1>5 DEF TypeOK, Drop
  <2>2. preempts' \in 0..MaxPreempts /\ restarts' \in 0..MaxRestarts
    BY BoundAssumption DEF RequestFinished, Preempt, TypeOK
  <2>3. QED
    BY <1>1, <1>2, <2>1, <2>2 DEF TypeOK, Live
<1>7. (Tables /\ Admitted /\ FreshOwnedOnce /\ Keyed)'
  BY <1>1, <1>2, <1>3, <1>4 DEF Tables, Admitted, FreshOwnedOnce, Owns, Keyed, Hits, Done
<1>8. CacheSound'
  BY <1>1 DEF CacheSound, Fresh, Owns, Hits
<1>9. (OfferOK /\ ScheduledOK /\ LoadsOK /\ PhaseOK /\ LoadComing)'
  BY <1>1 DEF OfferOK, ScheduledOK, LoadsOK, PhaseOK, LoadComing
<1>10. PendingOK'
  BY <1>1, <1>2, <1>3, <1>5 DEF PendingOK, Drop, TypeOK
<1>11. Routed'
  BY <1>1, <1>3 DEF Routed, Matches, Live
<1>12. GeneratedIsCovered'
  <2>1. status'[r] = "finished" => status[r] = "running"
    BY DEF RequestFinished, Preempt, TypeOK
  <2>2. status'[r] # "running"
    BY <1>2 DEF Done
  <2>3. QED
    BY <1>1, <1>3, <2>1, <2>2 DEF GeneratedIsCovered
<1>13. QED
  BY <1>6, <1>7, <1>8, <1>9, <1>10, <1>11, <1>12

LEMMA BuildStep ==
  ASSUME IInv, BuildConnectorMeta
  PROVE  IInv'
<1> USE DEF IInv, connectorVars, requestVars, poolVars, boundVars
<1>1. /\ offer = None /\ Handled = DOMAIN scheduled /\ scheduled' = Drop(scheduled, Handled)
      /\ DOMAIN scheduled' = {} /\ phase' = "load" /\ phase \in {"schedule", "build"}
      /\ UNCHANGED <<store, pending, loaded, native, requestVars, poolVars, offer, batch, boundVars>>
  BY DEF BuildConnectorMeta, Handled, ScheduledOK, Drop
<1>2. ASSUME NEW r \in DOMAIN scheduled
      PROVE  /\ r \in Requests /\ r \in DOMAIN batch /\ NeedsLoad(r)
             /\ [req |-> r, user |-> scheduled[r].user, ids |-> LoadIds(r),
                 num |-> scheduled[r].num, skip |-> scheduled[r].skip] = MetaDue(r)
             /\ MetaDue(r) \in MemoryLoad
  <2>1. r \in Requests /\ r \in DOMAIN batch /\ NeedsLoad(r) /\ scheduled[r] = LoadDue(r)
    BY DEF TypeOK, ScheduledOK
  <2>2. prompt[r] \in Prompts /\ Hits(r) \in Nat /\ batch[r].resumed \in BOOLEAN
    BY <2>1 DEF TypeOK, Hits
  <2>3. /\ Region(prompt[r]) \in Nat /\ Region(prompt[r]) <= TableLen(prompt[r])
        /\ Hits(r) < Region(prompt[r])
    BY <2>1, <2>2, PromptBlocks DEF NeedsLoad
  <2>4. /\ scheduled[r].skip = Hits(r) * BlockSize
        /\ scheduled[r].num = (Region(prompt[r]) - Hits(r)) * BlockSize
        /\ scheduled[r].user = route[r]
    BY <2>1 DEF LoadDue
  <2>5. (Hits(r) * BlockSize) \div BlockSize = Hits(r) /\ Hits(r) * BlockSize \in Nat
    BY <2>2, BlockSizeAssumption, DivExact, Z3T(20)
  <2>6. SkipBlocks(r) = Hits(r)
    BY <2>4, <2>5 DEF SkipBlocks
  <2>7. LoadBlocks(r) = Region(prompt[r]) - Hits(r)
        /\ (Region(prompt[r]) - Hits(r)) * BlockSize \in Nat
    <3> DEFINE d == Region(prompt[r]) - Hits(r)
    <3>1. d \in Nat
      BY <2>2, <2>3
    <3> HIDE DEF d
    <3>2. BlocksFor(d * BlockSize, BlockSize) = d /\ d * BlockSize \in Nat
      BY <3>1, BlockSizeAssumption, BlocksForExact, Z3
    <3>3. QED
      BY <3>2, <2>4 DEF d, LoadBlocks
  <2>8. FirstBlock(r) = Hits(r)
    <3>1. CASE batch[r].resumed
      <4>1. ~(scheduled[r].skip > 0)
        BY <3>1, <2>1, <1>1 DEF BuildConnectorMeta, LayoutRefused
      <4>2. Hits(r) = 0
        BY <4>1, <2>2, <2>4, BlockSizeAssumption, Z3
      <4>3. QED BY <3>1, <4>2 DEF FirstBlock
    <3>2. CASE ~batch[r].resumed
      BY <3>2, <2>6 DEF FirstBlock
    <3>3. QED BY <3>1, <3>2
  <2>9. LoadIds(r) = [j \in 1..Region(prompt[r]) - Hits(r) |-> blocks[r][Hits(r) + j]]
    BY <2>7, <2>8 DEF LoadIds
  <2>10. [req |-> r, user |-> scheduled[r].user, ids |-> LoadIds(r),
          num |-> scheduled[r].num, skip |-> scheduled[r].skip] = MetaDue(r)
    BY <2>4, <2>9 DEF MetaDue
  <2>11. /\ \A j \in 1..Region(prompt[r]) - Hits(r) : blocks[r][Hits(r) + j] \in Blocks
         /\ Region(prompt[r]) - Hits(r) \in Nat
    <3>1. Len(blocks[r]) = TableLen(prompt[r]) /\ blocks[r] \in Seq(Blocks)
      BY <2>1 DEF Admitted, Tables, TypeOK
    <3>2. QED
      BY <2>2, <2>3, <3>1
  <2>12. MetaDue(r).ids \in Seq(Blocks)
    BY <2>11 DEF MetaDue
  <2>13. scheduled[r].user \in Users
    BY DEF TypeOK, ScheduledLoad
  <2>14. MetaDue(r) \in MemoryLoad
    BY <2>1, <2>4, <2>5, <2>7, <2>12, <2>13 DEF MetaDue, MemoryLoad
  <2>15. QED
    BY <2>1, <2>10, <2>14
<1>3. loads' = {MetaDue(r) : r \in DOMAIN scheduled}
  BY <1>1, <1>2 DEF BuildConnectorMeta
<1>4. TypeOK'
  BY <1>1, <1>2, <1>3 DEF TypeOK, Drop
<1>5. (Tables /\ Admitted /\ FreshOwnedOnce /\ Keyed)'
  BY <1>1 DEF Tables, Admitted, FreshOwnedOnce, Owns, Keyed, Hits
<1>6. CacheSound'
  BY <1>1 DEF CacheSound, Fresh, Owns, Hits
<1>7. (Routed /\ PendingOK /\ OfferOK /\ ScheduledOK /\ PhaseOK /\ GeneratedIsCovered)'
  BY <1>1 DEF Routed, PendingOK, OfferOK, ScheduledOK, PhaseOK, GeneratedIsCovered
<1>8. \A r \in Requests : MetaDue(r)' = MetaDue(r) /\ (NeedsLoad(r)' <=> NeedsLoad(r))
  BY <1>1 DEF MetaDue, NeedsLoad, Hits
<1>9. LoadsOK'
  <2>1. \A r \in DOMAIN scheduled : MetaDue(r).req = r
    BY DEF MetaDue
  <2>2. QED
    BY <1>1, <1>2, <1>3, <1>8, <2>1 DEF LoadsOK
<1>10. LoadComing'
  BY <1>1, <1>3, <1>8 DEF LoadComing, Matched, TypeOK
<1>11. QED
  BY <1>4, <1>5, <1>6, <1>7, <1>9, <1>10

(* What one injection does to the pool: the due blocks of its request get  *)
(* the memory's blocks, every other block is left alone.                   *)
LEMMA InjectedBlocks ==
  ASSUME IInv, NEW l \in loads, InjectOneLoad(l), NEW r, NEW h, NEW R,
         r = l.req, h = Hits(r), R = Region(prompt[r])
  PROVE  /\ r \in Requests /\ r \in DOMAIN batch /\ NeedsLoad(r) /\ l = MetaDue(r)
         /\ phase = "load" /\ offer = None /\ l.user \in Users
         /\ h \in Nat /\ R \in Nat /\ h < R /\ R <= Len(blocks[r]) /\ Len(blocks[r]) \in Nat
         /\ \A j \in 1..R - h : Owns(r, h + j)
         /\ \A b \in Blocks : (\A j \in 1..R - h : blocks[r][h + j] # b) => kv'[b] = kv[b]
         /\ \A j \in 1..R - h : kv'[blocks[r][h + j]] = KvOf[prompt[r]][h + j]
         /\ \A b \in Blocks : ~Fresh(b) => kv'[b] = kv[b]
<1> USE DEF IInv, requestVars, stepVars, boundVars
<1>1. /\ r \in Requests /\ r \in DOMAIN batch /\ NeedsLoad(r) /\ l = MetaDue(r)
      /\ phase = "load" /\ offer = None /\ l.user \in Users
  BY DEF InjectOneLoad, LoadsOK, TypeOK, MemoryLoad, OfferOK
<1>2. prompt[r] \in Prompts /\ h \in Nat /\ R \in Nat /\ h < R
  BY <1>1, PromptBlocks DEF TypeOK, Hits, NeedsLoad
<1>3. Len(blocks[r]) = TableLen(prompt[r]) /\ R <= Len(blocks[r]) /\ Len(blocks[r]) \in Nat
  BY <1>1, <1>2, PromptBlocks DEF Admitted, Tables
<1>4. store[l.user] = prompt[r]
  BY <1>1, SentinelAssumption DEF InjectOneLoad, LoadComing, Matched, MetaDue
<1>5. BlocksFor(l.num, BlockSize) = R - h /\ l.skip \div BlockSize = h
  <2>1. l.num = (R - h) * BlockSize /\ l.skip = h * BlockSize
    BY <1>1 DEF MetaDue
  <2>2. R - h \in Nat
    BY <1>2
  <2>3. QED
    BY <2>1, <2>2, <1>2, BlockSizeAssumption, BlocksForExact, DivExact
<1>6. \A j \in 1..R - h : l.ids[j] = blocks[r][h + j] /\ Owns(r, h + j)
  BY <1>1, <1>2, <1>3 DEF MetaDue, Owns
<1>7. \A b \in Blocks :
        kv'[b] = IF \E j \in 1..R - h : l.ids[j] = b
                 THEN KvOf[prompt[r]][h + CHOOSE j \in 1..R - h : l.ids[j] = b]
                 ELSE kv[b]
  BY <1>4, <1>5 DEF InjectOneLoad, Inject
<1>8. \A j \in 1..R - h : kv'[blocks[r][h + j]] = KvOf[prompt[r]][h + j]
  <2> SUFFICES ASSUME NEW j \in 1..R - h
               PROVE  kv'[blocks[r][h + j]] = KvOf[prompt[r]][h + j]
    OBVIOUS
  <2>1. ASSUME NEW k \in 1..R - h, l.ids[k] = l.ids[j] PROVE k = j
    <3>1. \A i, n \in 1..Len(blocks[r]) : blocks[r][i] = blocks[r][n] => i = n
      BY <1>1 DEF Admitted, Tables
    <3>2. blocks[r][h + k] = blocks[r][h + j]
      BY <1>6, <2>1
    <3>3. h + k \in 1..Len(blocks[r]) /\ h + j \in 1..Len(blocks[r])
      BY <1>2, <1>3
    <3>4. h + k = h + j
      BY <3>1, <3>2, <3>3
    <3>5. QED BY <1>2, <3>4
  <2>2. (CHOOSE k \in 1..R - h : l.ids[k] = l.ids[j]) = j
    BY <2>1
  <2>3. l.ids[j] = blocks[r][h + j] /\ l.ids[j] \in Blocks
    BY <1>1, <1>2, <1>3, <1>6 DEF TypeOK
  <2>4. QED
    BY <1>7, <2>2, <2>3
<1>9. \A b \in Blocks : ~Fresh(b) => kv'[b] = kv[b]
  <2> SUFFICES ASSUME NEW b \in Blocks, ~Fresh(b) PROVE kv'[b] = kv[b]
    OBVIOUS
  <2>1. ASSUME NEW j \in 1..R - h, l.ids[j] = b PROVE FALSE
    <3>1. blocks[r][h + j] = b /\ Owns(r, h + j)
      BY <1>6, <2>1
    <3>2. h + j \in 1..Len(blocks[r])
      BY <1>2, <1>3
    <3>3. r \in Requests
      BY <1>1
    <3>4. Fresh(b)
      BY <3>1, <3>2, <3>3 DEF Fresh
    <3>5. QED BY <3>4
  <2>2. QED
    BY <1>7, <2>1
<1>10. \A b \in Blocks : (\A j \in 1..R - h : blocks[r][h + j] # b) => kv'[b] = kv[b]
  <2> SUFFICES ASSUME NEW b \in Blocks, \A j \in 1..R - h : blocks[r][h + j] # b
               PROVE  kv'[b] = kv[b]
    OBVIOUS
  <2>1. \A j \in 1..R - h : l.ids[j] # b
    BY <1>6
  <2>2. QED
    BY <1>7, <2>1
<1>11. QED
  BY <1>1, <1>2, <1>3, <1>6, <1>8, <1>9, <1>10

LEMMA InjectStep ==
  ASSUME IInv, NEW l \in loads, InjectOneLoad(l)
  PROVE  IInv'
<1> USE DEF IInv, requestVars, stepVars, boundVars
<1>0. PICK r, h, R : r = l.req /\ h = Hits(r) /\ R = Region(prompt[r])
  OBVIOUS
<1>1. /\ UNCHANGED <<store, pending, scheduled, native, requestVars, cached, stepVars, boundVars>>
      /\ loaded' = loaded \cup {r} /\ loads' = loads \ {l}
  BY <1>0 DEF InjectOneLoad
<1>2. /\ r \in Requests /\ r \in DOMAIN batch /\ NeedsLoad(r) /\ l = MetaDue(r)
      /\ phase = "load" /\ offer = None /\ l.user \in Users
      /\ h \in Nat /\ R \in Nat /\ h < R /\ R <= Len(blocks[r]) /\ Len(blocks[r]) \in Nat
  BY <1>0, InjectedBlocks
<1>3. \A j \in 1..R - h : Owns(r, h + j)
  BY <1>0, InjectedBlocks
<1>4. /\ \A b \in Blocks : (\A j \in 1..R - h : blocks[r][h + j] # b) => kv'[b] = kv[b]
      /\ \A j \in 1..R - h : kv'[blocks[r][h + j]] = KvOf[prompt[r]][h + j]
  BY <1>0, InjectedBlocks, SMTT(20)
<1>5. \A b \in Blocks : ~Fresh(b) => kv'[b] = kv[b]
  BY <1>0, InjectedBlocks
<1>8. TypeOK'
  <2>1. DOMAIN kv' = Blocks
    BY <1>0 DEF InjectOneLoad, Inject
  <2>2. loads' \subseteq MemoryLoad /\ loaded' \subseteq Requests
    BY <1>1, <1>2 DEF TypeOK
  <2>3. QED
    BY <1>1, <2>1, <2>2 DEF TypeOK
<1>9. (Tables /\ Admitted /\ FreshOwnedOnce /\ Keyed)'
  BY <1>1 DEF Tables, Admitted, FreshOwnedOnce, Owns, Keyed, Hits
<1>10. (Routed /\ PendingOK /\ OfferOK /\ ScheduledOK /\ PhaseOK /\ GeneratedIsCovered)'
  BY <1>1, <1>2 DEF Routed, PendingOK, OfferOK, ScheduledOK, PhaseOK, GeneratedIsCovered
<1>11. CacheSound'
  <2>1. \A b : Fresh(b)' <=> Fresh(b)
    BY <1>1 DEF Fresh, Owns, Hits
  <2>2. QED
    BY <1>1, <1>5, <2>1 DEF CacheSound
<1>12. \A q \in Requests : MetaDue(q)' = MetaDue(q) /\ (NeedsLoad(q)' <=> NeedsLoad(q)) /\ Hits(q)' = Hits(q)
  BY <1>1 DEF MetaDue, NeedsLoad, Hits
<1>13. LoadsOK'
  BY <1>1, <1>12 DEF LoadsOK, TypeOK
<1>14. LoadComing'
  <2> SUFFICES ASSUME NEW q \in DOMAIN batch, NeedsLoad(q)
               PROVE  \/ MetaDue(q) \in loads'
                      \/ /\ q \in loaded'
                         /\ \A i \in Hits(q)+1..Region(prompt[q]) :
                              kv'[blocks[q][i]] = KvOf[prompt[q]][i]
    BY <1>1, <1>2, <1>12 DEF LoadComing, Matched, TypeOK
  <2>0. q \in Requests
    BY DEF TypeOK
  <2>1. CASE q = r
    <3>1. \A i \in h+1..R : kv'[blocks[r][i]] = KvOf[prompt[r]][i]
      <4> SUFFICES ASSUME NEW i \in h+1..R PROVE kv'[blocks[r][i]] = KvOf[prompt[r]][i]
        OBVIOUS
      <4>1. i - h \in 1..R - h /\ h + (i - h) = i
        BY <1>2
      <4>2. blocks[r][i] \in Blocks
        BY <1>2 DEF TypeOK
      <4>3. QED
        BY <1>4, <4>1, <4>2
    <3>2. QED
      BY <1>0, <1>1, <2>1, <3>1
  <2>2. CASE q # r
    <3>1. CASE MetaDue(q) \in loads
      BY <1>0, <1>1, <1>2, <2>2, <3>1 DEF MetaDue
    <3>2. CASE MetaDue(q) \notin loads
      <4>1. q \in loaded /\ \A i \in Hits(q)+1..Region(prompt[q]) : kv[blocks[q][i]] = KvOf[prompt[q]][i]
        BY <1>2, <3>2 DEF LoadComing
      <4>2. ASSUME NEW i \in Hits(q)+1..Region(prompt[q]) PROVE kv'[blocks[q][i]] = kv[blocks[q][i]]
        <5>1. Hits(q) \in Nat /\ prompt[q] \in Prompts
          BY <2>0 DEF TypeOK, Hits
        <5>2. i \in 1..Len(blocks[q]) /\ blocks[q][i] \in Blocks /\ ~(i <= Hits(q))
          BY <5>1, <2>0, PromptBlocks DEF Admitted, Tables, TypeOK
        <5>3. ASSUME NEW j \in 1..R - h PROVE blocks[r][h + j] # blocks[q][i]
          <6>1. Owns(r, h + j) /\ h + j \in 1..Len(blocks[r])
            BY <1>2, <1>3
          <6>2. QED
            BY <1>2, <2>0, <2>2, <5>2, <6>1 DEF FreshOwnedOnce
        <5>4. QED
          BY <1>4, <5>2, <5>3
      <4>3. QED
        BY <1>1, <4>1, <4>2
    <3>3. QED BY <3>1, <3>2
  <2>3. QED BY <2>1, <2>2
<1>15. QED
  BY <1>8, <1>9, <1>10, <1>11, <1>13, <1>14

(* An allocation: the request's front blocks are shared, the rest nobody   *)
(* uses, so only the request itself owes their KV.                         *)
LEMMA UpdateAllocStep ==
  ASSUME IInv, offer # None, NEW r \in Requests, NEW h \in Nat, r = offer.req, h = offer.hits,
         NEW table \in [1..TableLen(prompt[r]) -> Blocks], UpdateStateAfterAlloc(table)
  PROVE  IInv'
<1> USE DEF IInv, boundVars, NothingToLoad
<1> DEFINE p == prompt[r]
           T == TableLen(p)
           F == FullBlocks(p)
           R == Region(p)
<1>1. /\ r \in Requests /\ h \in Nat /\ p \in Prompts /\ phase = "schedule"
      /\ status[r] \in {"waiting", "preempted"} /\ r \notin DOMAIN batch /\ blocks[r] = <<>>
      /\ r \notin DOMAIN scheduled /\ loads = {} /\ offer' = None
      /\ UNCHANGED <<store, loads, loaded, native, prompt, route, kv, phase, boundVars>>
      /\ pending' = Drop(pending, {r})
  BY DEF UpdateStateAfterAlloc, Allocate, TypeOK, Offer, OfferOK, Admitted, Tables,
         ScheduledOK, PhaseOK
<1>2. /\ h <= F /\ F <= T /\ R <= F /\ h \in Nat /\ F \in Nat /\ T \in Nat /\ R \in Nat
  BY <1>1, HitsAreFull, PromptBlocks DEF OfferOK
<1>3. /\ blocks' = [blocks EXCEPT ![r] = table]
      /\ status' = [status EXCEPT ![r] = "running"]
      /\ batch' = Put(batch, r, [hits |-> h, resumed |-> status[r] = "preempted"])
  BY DEF UpdateStateAfterAlloc, Allocate
<1>4. /\ table \in Seq(Blocks) /\ Len(table) = T /\ \A i \in 1..T : table[i] \in Blocks
      /\ \A i, j \in 1..T : table[i] = table[j] => i = j
      /\ \A i \in 1..T : IF i <= h THEN cached[table[i]] = Key(p, i) ELSE table[i] \notin InUse
  <2> HIDE DEF T
  <2>1. table \in [1..T -> Blocks]
    BY DEF T
  <2>2. table \in Seq(Blocks) /\ Len(table) = T
    BY <2>1, <1>2
  <2>3. \A i \in 1..T : table[i] \in Blocks
    BY <2>1
  <2>4. TableFits(table)
    BY DEF UpdateStateAfterAlloc
  <2>5. QED BY <2>2, <2>3, <2>4 DEF TableFits, T
<1>5. /\ blocks'[r] = table /\ status'[r] = "running"
      /\ \A q \in Requests \ {r} : blocks'[q] = blocks[q] /\ status'[q] = status[q]
  BY <1>1, <1>3 DEF TypeOK
<1>6. /\ DOMAIN batch' = DOMAIN batch \cup {r} /\ batch'[r].hits = h
      /\ batch'[r].resumed \in BOOLEAN
      /\ \A q \in DOMAIN batch : q # r /\ q \in Requests /\ batch'[q] = batch[q]
  BY <1>1, <1>3 DEF Put, TypeOK
<1>7. /\ Hits(r)' = h
      /\ \A q \in DOMAIN batch :
           /\ Hits(q)' = Hits(q) /\ (NeedsLoad(q)' <=> NeedsLoad(q)) /\ LoadDue(q)' = LoadDue(q)
           /\ MetaDue(q)' = MetaDue(q)
  BY <1>1, <1>5, <1>6 DEF Hits, NeedsLoad, LoadDue, MetaDue
<1>8. NeedsLoad(r)' <=> h < R
  BY <1>1, <1>7 DEF NeedsLoad
(* The blocks of others stay as they were. *)
<1>9. ASSUME NEW q \in Requests, NEW j \in 1..Len(blocks[q])
      PROVE  /\ q # r /\ blocks[q][j] \in Blocks
             /\ \A i \in h+1..T : table[i] # blocks[q][j]
  <2>1. q # r
    BY <1>1, <1>9
  <2>2. blocks[q][j] \in Blocks
    BY <1>9 DEF TypeOK
  <2>3. blocks[q][j] \in InUse
    BY <1>9 DEF InUse
  <2> HIDE DEF T
  <2>4. \A i \in h+1..T : table[i] \notin InUse
    BY <1>2, <1>4
  <2>5. QED BY <2>1, <2>2, <2>3, <2>4
<1>10. \A b \in Blocks : (\A i \in h+1..T : table[i] # b) => cached'[b] = cached[b]
  BY DEF UpdateStateAfterAlloc, Allocate
<1>11. \A i \in h+1..T : cached'[table[i]] = IF i <= F THEN Key(p, i) ELSE NoKey
  <2> SUFFICES ASSUME NEW i \in h+1..T
               PROVE  cached'[table[i]] = IF i <= F THEN Key(p, i) ELSE NoKey
    OBVIOUS
  <2>1. table[i] \in Blocks /\ i \in 1..T
    <3> HIDE DEF T
    <3>1. i \in 1..T
      BY <1>2
    <3>2. QED BY <3>1, <1>4
  <2>2. cached'[table[i]] =
          LET k == CHOOSE k \in h+1..T : table[k] = table[i]
          IN  IF k <= F THEN Key(p, k) ELSE NoKey
    BY <2>1 DEF UpdateStateAfterAlloc, Allocate
  <2>3. \A k \in h+1..T : table[k] = table[i] => k = i
    <3> HIDE DEF T
    <3>1. QED BY <1>2, <1>4, <2>1
  <2>4. (CHOOSE k \in h+1..T : table[k] = table[i]) = i
    <3> HIDE DEF T
    <3>1. QED BY <2>3
  <2>5. QED BY <2>2, <2>4
<1>12. \A i \in 1..h : cached'[table[i]] = Key(p, i) /\ table[i] \in Blocks
  <2> SUFFICES ASSUME NEW i \in 1..h PROVE cached'[table[i]] = Key(p, i) /\ table[i] \in Blocks
    OBVIOUS
  <2> HIDE DEF T, F
  <2>1. i \in 1..T /\ i <= h
    BY <1>2
  <2>2. table[i] \in Blocks /\ cached[table[i]] = Key(p, i)
    BY <2>1, <1>4
  <2>3. \A k \in h+1..T : table[k] # table[i]
    BY <2>1, <1>2, <1>4
  <2>4. QED BY <1>10, <2>2, <2>3
<1>13. (* what is owned now *)
      /\ \A i : Owns(r, i)' <=> i \in h+1..T
      /\ \A q \in Requests \ {r} : \A i : Owns(q, i)' <=> Owns(q, i)
  BY <1>4, <1>5, <1>6, <1>7 DEF Owns
<1>14. \A b \in Blocks : ~Fresh(b)' => ~Fresh(b) /\ \A i \in h+1..T : table[i] # b
  <2> SUFFICES ASSUME NEW b \in Blocks, ~Fresh(b)'
               PROVE  ~Fresh(b) /\ \A i \in h+1..T : table[i] # b
    OBVIOUS
  <2>1. ~Fresh(b)
    BY <1>5, <1>9, <1>13 DEF Fresh
  <2>2. \A i \in h+1..T : i \in 1..Len(blocks'[r])
    <3> HIDE DEF T
    <3>1. QED BY <1>2, <1>4, <1>5
  <2>3. \A i \in h+1..T : table[i] # b
    BY <1>1, <1>5, <1>13, <2>2 DEF Fresh
  <2>4. QED BY <2>1, <2>3
<1>15. TypeOK'
  <2>1. pending' \in [DOMAIN pending' -> PendingMatch] /\ DOMAIN pending' \subseteq Requests
    BY <1>1 DEF TypeOK, Drop
  <2>2. DOMAIN scheduled' \subseteq Requests /\ scheduled' \in [DOMAIN scheduled' -> ScheduledLoad]
    <3>1. CASE scheduled' = scheduled
      BY <3>1 DEF TypeOK
    <3>2. CASE scheduled' # scheduled
      <4>1. h < R /\ offer.ext = (R - h) * BlockSize /\ offer.ext \in Nat /\ r \in DOMAIN pending
            /\ route[r] \in Users
        BY <3>2, <1>1 DEF UpdateStateAfterAlloc, OfferOK, TypeOK, Offer
      <4>2. scheduled' = Put(scheduled, r, [user |-> pending[r].user, num |-> offer.ext,
                                            skip |-> pending[r].skip])
        BY <3>2, <4>1 DEF UpdateStateAfterAlloc
      <4>3. pending[r] \in PendingMatch
        BY <4>1 DEF TypeOK
      <4>4. QED BY <1>1, <4>1, <4>2, <4>3 DEF TypeOK, Put, ScheduledLoad, PendingMatch
    <3>3. QED BY <3>1, <3>2
  <2>3. status' \in [Requests -> {"new"} \cup Live \cup Done]
    BY <1>3 DEF TypeOK, Live
  <2>4. blocks' \in [Requests -> Seq(Blocks)]
    BY <1>3, <1>4 DEF TypeOK
  <2>5. DOMAIN cached' = Blocks
    BY DEF UpdateStateAfterAlloc, Allocate
  <2>6. DOMAIN batch' \subseteq Requests /\ batch' \in [DOMAIN batch' -> [hits : Nat, resumed : BOOLEAN]]
    BY <1>1, <1>2, <1>3 DEF TypeOK, Put
  <2>7. QED
    BY <1>1, <2>1, <2>2, <2>3, <2>4, <2>5, <2>6 DEF TypeOK
<1>16. Tables'
  BY <1>1, <1>4, <1>5 DEF Tables
<1>17. Admitted'
  BY <1>1, <1>2, <1>5, <1>6, <1>7 DEF Admitted
<1>18. FreshOwnedOnce'
  <2> SUFFICES ASSUME NEW s \in Requests, NEW q \in Requests,
                      NEW i \in 1..Len(blocks'[s]), NEW j \in 1..Len(blocks'[q]),
                      Owns(s, i)', blocks'[q][j] = blocks'[s][i]
               PROVE  (q = s /\ j = i) \/ (q \in DOMAIN batch' /\ j <= Hits(q)')
    BY DEF FreshOwnedOnce
  <2>1. CASE s = r /\ q = r
    BY <2>1, <1>4, <1>5
  <2>2. CASE s = r /\ q # r
    BY <2>2, <1>5, <1>9, <1>13
  <2>3. CASE s # r /\ q = r
    <3>1. i \in 1..Len(blocks[s]) /\ table[j] = blocks[s][i] /\ j \in 1..T
      BY <2>3, <1>4, <1>5
    <3>2. j \notin h+1..T
      BY <3>1, <1>9
    <3>3. j <= h
      <4> HIDE DEF T
      <4>1. QED BY <3>1, <3>2, <1>2
    <3>4. QED BY <2>3, <3>3, <1>6, <1>7
  <2>4. CASE s # r /\ q # r
    BY <2>4, <1>5, <1>6, <1>7, <1>13 DEF FreshOwnedOnce
  <2>5. QED BY <2>1, <2>2, <2>3, <2>4
<1>19. Keyed'
  <2> SUFFICES ASSUME NEW q \in Requests, NEW i \in 1..Len(blocks'[q])
               PROVE  cached'[blocks'[q][i]] =
                        IF i <= FullBlocks(prompt[q]) THEN Key(prompt[q], i) ELSE NoKey
    BY <1>1 DEF Keyed
  <2>1. CASE q # r
    <3>1. cached'[blocks[q][i]] = cached[blocks[q][i]]
      BY <2>1, <1>5, <1>9, <1>10
    <3>2. QED BY <2>1, <3>1, <1>5 DEF Keyed
  <2>2. CASE q = r
    <3>1. i \in 1..T /\ blocks'[q][i] = table[i]
      BY <2>2, <1>4, <1>5
    <3>2. CASE i <= h
      <4> HIDE DEF T, F
      <4>1. i \in 1..h /\ i <= F
        BY <3>1, <3>2, <1>2
      <4>2. QED BY <4>1, <3>1, <1>12, <2>2 DEF F
    <3>3. CASE ~(i <= h)
      <4>1. i \in h+1..T
        <5> HIDE DEF T
        <5>1. QED BY <3>1, <3>3, <1>2
      <4>2. QED BY <4>1, <3>1, <1>11, <2>2
    <3>4. QED BY <3>2, <3>3
  <2>3. QED BY <2>1, <2>2
<1>20. CacheSound'
  BY <1>1, <1>10, <1>14 DEF CacheSound
<1>21. Routed'
  BY <1>1, <1>5 DEF Routed, Matches, Live
<1>22. PendingOK'
  BY <1>1, <1>5 DEF PendingOK, Drop, TypeOK
<1>23. (OfferOK /\ LoadsOK /\ PhaseOK)'
  BY <1>1 DEF OfferOK, LoadsOK, PhaseOK
<1>24. GeneratedIsCovered'
  BY <1>1, <1>5, <1>6 DEF GeneratedIsCovered
<1>25. \/ /\ h >= R /\ scheduled' = scheduled /\ (route[r] # NoUser => r \in native)
       \/ /\ h < R /\ route[r] # NoUser
          /\ scheduled' = Put(scheduled, r, [user |-> route[r], num |-> (R - h) * BlockSize,
                                             skip |-> h * BlockSize])
  <2>1. CASE offer.ext = 0 /\ h >= R /\ (route[r] # NoUser => r \in native)
    BY <2>1 DEF UpdateStateAfterAlloc
  <2>2. CASE /\ h < R /\ offer.ext = (R - h) * BlockSize /\ route[r] # NoUser
             /\ r \in DOMAIN pending
             /\ pending[r] = [user |-> route[r], skip |-> h * BlockSize]
    <3> HIDE DEF R
    <3>1. (R - h) * BlockSize > 0
      BY <1>2, <2>2, BlockSizeAssumption, Z3
    <3> USE DEF R
    <3>2. ~(offer.ext <= 0)
      <4> HIDE DEF R
      <4>1. QED BY <3>1, <2>2, <1>2, BlockSizeAssumption
    <3>3. QED BY <2>2, <3>2 DEF UpdateStateAfterAlloc
  <2>3. QED BY <1>1, <2>1, <2>2 DEF OfferOK
<1>26. ScheduledOK'
  <2> SUFFICES ASSUME NEW q \in DOMAIN scheduled'
               PROVE  q \in DOMAIN batch' /\ NeedsLoad(q)' /\ scheduled'[q] = LoadDue(q)'
    BY DEF ScheduledOK
  <2>1. CASE q # r
    BY <2>1, <1>6, <1>7, <1>25 DEF ScheduledOK, Put
  <2>2. CASE q = r
    <3>1. h < R /\ scheduled'[r] = [user |-> route[r], num |-> (R - h) * BlockSize, skip |-> h * BlockSize]
      BY <2>2, <1>1, <1>25 DEF Put
    <3>2. QED BY <2>2, <3>1, <1>1, <1>6, <1>7, <1>8 DEF LoadDue
  <2>3. QED BY <2>1, <2>2
<1>27. LoadComing'
  <2>1. ASSUME NEW q \in DOMAIN batch
        PROVE  /\ Matched(q)' /\ (NeedsLoad(q) => route[q] # NoUser)
               /\ (~NeedsLoad(q) /\ route[q] # NoUser => q \in native)
               /\ (NeedsLoad(q) => q \in DOMAIN scheduled')
    BY <1>1, <1>6, <1>25 DEF LoadComing, Matched, Put
  <2>2. /\ Matched(r)' /\ (h < R => route[r] # NoUser)
        /\ (~(h < R) /\ route[r] # NoUser => r \in native)
        /\ (h < R => r \in DOMAIN scheduled')
    <3>1. Matched(r)
      BY DEF OfferOK
    <3>2. Matched(r)'
      BY <3>1, <1>1 DEF Matched
    <3>3. (h < R => route[r] # NoUser) /\ (h < R => r \in DOMAIN scheduled')
      <4> HIDE DEF R
      <4>1. QED BY <1>2, <1>25 DEF Put
    <3>4. ~(h < R) /\ route[r] # NoUser => r \in native
      BY <1>25
    <3>5. QED BY <3>2, <3>3, <3>4
  <2> HIDE DEF R, p, T, F
  <2>3. QED BY <2>1, <2>2, <1>1, <1>6, <1>7, <1>8 DEF LoadComing
<1>28. QED
  BY <1>15, <1>16, <1>17, <1>18, <1>19, <1>20, <1>21, <1>22, <1>23, <1>24, <1>26, <1>27

(* What the forward pass does to the pool: only fresh blocks are written,  *)
(* and afterwards every fresh block holds what its key stands for.         *)
LEMMA ForwardBlocks ==
  ASSUME IInv, Forward
  PROVE  /\ \A b \in Blocks : ~Fresh(b) => kv'[b] = kv[b]
         /\ \A r \in Requests : \A i \in 1..Len(blocks[r]) :
              Owns(r, i) => kv'[blocks[r][i]] = ContentAt(prompt[r], i)
<1> USE DEF IInv
<1> DEFINE Written(b) == \E r \in DOMAIN batch : \E i \in 1..Len(blocks[r]) :
                            i > Region(prompt[r]) /\ i > batch[r].hits /\ blocks[r][i] = b
<1>1. \A b \in Blocks : kv'[b] = IF Written(b) THEN Native ELSE kv[b]
  BY DEF Forward
<1>2. ASSUME NEW r \in Requests, NEW i \in 1..Len(blocks[r])
      PROVE  /\ blocks[r][i] \in Blocks
             /\ prompt[r] \in Prompts /\ Region(prompt[r]) \in Nat
             /\ r \in DOMAIN batch => Hits(r) \in Nat
             /\ Owns(r, i) <=> r \in DOMAIN batch /\ i > Hits(r)
  <2>1. prompt[r] \in Prompts /\ blocks[r] \in Seq(Blocks)
    BY DEF TypeOK
  <2>2. Region(prompt[r]) \in Nat
    BY <2>1, PromptBlocks
  <2>3. r \in DOMAIN batch => Hits(r) \in Nat
    BY DEF TypeOK, Hits
  <2>4. Owns(r, i) <=> r \in DOMAIN batch /\ i > Hits(r)
    BY <2>1, <2>3 DEF Owns
  <2>5. QED
    BY <2>1, <2>2, <2>3, <2>4
<1>3. ASSUME NEW b \in Blocks, Written(b) PROVE Fresh(b)
  BY <1>2, <1>3 DEF Fresh, Hits, TypeOK
<1>4. ASSUME NEW r \in Requests, NEW i \in 1..Len(blocks[r]), Owns(r, i)
      PROVE  kv'[blocks[r][i]] = ContentAt(prompt[r], i)
  <2>1. blocks[r][i] \in Blocks /\ Region(prompt[r]) \in Nat /\ Hits(r) \in Nat /\ r \in DOMAIN batch /\ i > Hits(r)
    BY <1>2, <1>4
  <2>2. CASE i > Region(prompt[r])
    <3>1. Written(blocks[r][i])
      BY <2>1, <2>2 DEF Hits
    <3>2. QED
      BY <1>1, <2>1, <2>2, <3>1 DEF ContentAt
  <2>3. CASE i <= Region(prompt[r])
    <3>1. NeedsLoad(r)
      BY <2>1, <2>3 DEF NeedsLoad
    <3>2. kv[blocks[r][i]] = KvOf[prompt[r]][i]
      BY <2>1, <2>3, <3>1 DEF Forward, LoadComing
    <3>3. ~Written(blocks[r][i])
      <4> SUFFICES ASSUME NEW q \in DOMAIN batch, NEW j \in 1..Len(blocks[q]),
                          j > Region(prompt[q]), j > batch[q].hits, blocks[q][j] = blocks[r][i]
                   PROVE  FALSE
        OBVIOUS
      <4>1. q \in Requests /\ Hits(q) \in Nat
        BY DEF TypeOK, Hits
      <4>2. (q = r /\ j = i) \/ j <= Hits(q)
        BY <1>4, <4>1 DEF FreshOwnedOnce
      <4>3. QED
        BY <2>1, <2>3, <4>1, <4>2 DEF Hits
    <3>4. QED
      BY <1>1, <2>1, <2>3, <3>2, <3>3 DEF ContentAt
  <2>4. QED
    BY <2>1, <2>2, <2>3
<1>5. QED
  BY <1>1, <1>3, <1>4

(* The forward pass ends the step: nothing is fresh any more.  A block in  *)
(* the prefix cache is sound for every prompt it is a prefix of because    *)
(* equal keys stand for equal KV.                                          *)
LEMMA ForwardStep ==
  ASSUME IInv, KeyDeterminesKv, Forward
  PROVE  IInv'
<1> USE DEF IInv, connectorVars, requestVars, boundVars
<1>1. /\ phase = "load" /\ loads = {} /\ offer = None /\ DOMAIN scheduled = {}
      /\ phase' = "schedule" /\ DOMAIN batch' = {} /\ batch' = EmptyDict
      /\ UNCHANGED <<store, connectorVars, requestVars, cached, offer, boundVars>>
  BY DEF Forward, OfferOK, PhaseOK, EmptyDict
<1>2. TypeOK'
  BY <1>1 DEF TypeOK, Forward, EmptyDict
<1>3. (Tables /\ Admitted /\ FreshOwnedOnce /\ Keyed)'
  BY <1>1 DEF Tables, Admitted, FreshOwnedOnce, Owns, Keyed
<1>4. CacheSound'
  <2> SUFFICES ASSUME NEW p \in Prompts, NEW i \in 1..FullBlocks(p), NEW b \in Blocks,
                      cached[b] = Key(p, i)
               PROVE  kv'[b] = ContentAt(p, i)
    BY <1>1 DEF CacheSound
  <2>1. CASE ~Fresh(b)
    <3>1. kv'[b] = kv[b]
      BY <2>1, ForwardBlocks
    <3>2. kv[b] = ContentAt(p, i)
      BY <2>1 DEF CacheSound
    <3>3. QED BY <3>1, <3>2
  <2>2. CASE Fresh(b)
    <3>0. PICK r \in Requests : \E k \in 1..Len(blocks[r]) : Owns(r, k) /\ blocks[r][k] = b
      BY <2>2 DEF Fresh
    <3>1. PICK k \in 1..Len(blocks[r]) : Owns(r, k) /\ blocks[r][k] = b
      BY <3>0
    <3>2. kv'[b] = ContentAt(prompt[r], k)
      BY <3>1, ForwardBlocks
    <3>3. prompt[r] \in Prompts
      BY DEF TypeOK
    <3>4. k \in 1..FullBlocks(prompt[r]) /\ Key(prompt[r], k) = Key(p, i)
      <4>1. FullBlocks(prompt[r]) \in Nat /\ Len(blocks[r]) \in Nat
        BY <3>3, PromptBlocks DEF TypeOK
      <4>2. QED
        BY <3>1, <4>1, KeyNotEmpty DEF Keyed
    <3>5. QED
      BY <3>2, <3>3, <3>4 DEF KeyDeterminesKv
  <2>3. QED BY <2>1, <2>2
<1>5. (Routed /\ PendingOK /\ OfferOK /\ ScheduledOK /\ LoadsOK /\ PhaseOK /\ LoadComing)'
  BY <1>1 DEF Routed, PendingOK, OfferOK, ScheduledOK, LoadsOK, PhaseOK, LoadComing
<1>6. GeneratedIsCovered'
  <2>1. \A r \in DOMAIN batch : route[r] # NoUser => r \in loaded \cup native
    BY <1>1 DEF LoadComing
  <2>2. QED
    BY <1>1, <2>1 DEF GeneratedIsCovered
<1>7. QED
  BY <1>2, <1>3, <1>4, <1>5, <1>6

LEMMA RestartStep ==
  ASSUME IInv, RestartEngine
  PROVE  IInv'
<1> USE DEF IInv
<1>1. /\ offer' = None /\ DOMAIN batch' = {} /\ loads' = {} /\ DOMAIN scheduled' = {}
      /\ DOMAIN pending' = {} /\ phase' = "schedule"
      /\ blocks' = [r \in Requests |-> <<>>] /\ cached' = [b \in Blocks |-> NoKey]
      /\ \A r \in Requests : /\ status'[r] \notin Live
                             /\ status'[r] = "finished" => status[r] = "finished"
      /\ UNCHANGED <<store, loaded, native, prompt, route, preempts>>
  BY DEF RestartEngine, EmptyDict, Live
<1>2. TypeOK'
  <2>1. status' \in [Requests -> {"new"} \cup Live \cup Done]
    BY DEF RestartEngine, TypeOK, Live, Done
  <2>2. restarts' \in 0..MaxRestarts
    BY BoundAssumption DEF RestartEngine, TypeOK
  <2>3. QED
    BY <1>1, <2>1, <2>2 DEF RestartEngine, TypeOK, EmptyDict
<1>3. (Tables /\ Admitted /\ FreshOwnedOnce /\ Keyed)'
  BY <1>1 DEF Tables, Admitted, FreshOwnedOnce, Owns, Keyed, Live
<1>4. CacheSound'
  BY <1>1, KeyNotEmpty DEF CacheSound
<1>5. (Routed /\ PendingOK /\ OfferOK /\ ScheduledOK /\ LoadsOK /\ PhaseOK /\ LoadComing)'
  BY <1>1 DEF Routed, PendingOK, OfferOK, ScheduledOK, LoadsOK, PhaseOK, LoadComing
<1>6. GeneratedIsCovered'
  BY <1>1 DEF GeneratedIsCovered, Live
<1>7. QED
  BY <1>2, <1>3, <1>4, <1>5, <1>6

LEMMA Stutter == IInv /\ UNCHANGED vars => IInv'
<1> SUFFICES ASSUME IInv, UNCHANGED vars PROVE IInv'
  OBVIOUS
<1> USE DEF IInv, vars, connectorVars, requestVars, poolVars, stepVars, boundVars
<1>1. (TypeOK /\ Tables /\ Admitted /\ FreshOwnedOnce /\ Keyed /\ CacheSound)'
  BY DEF TypeOK, Tables, Admitted, FreshOwnedOnce, Owns, Keyed, CacheSound, Fresh, Hits
<1>2. (Routed /\ PendingOK /\ OfferOK /\ ScheduledOK /\ LoadsOK /\ PhaseOK)'
  BY DEF Routed, PendingOK, OfferOK, Matched, HitsPossible, ScheduledOK, LoadsOK, PhaseOK,
         NeedsLoad, Hits, LoadDue, MetaDue
<1>3. (LoadComing /\ GeneratedIsCovered)'
  BY DEF LoadComing, Matched, NeedsLoad, Hits, MetaDue, GeneratedIsCovered
<1>4. QED
  BY <1>1, <1>2, <1>3

LEMMA NextIInv ==
  ASSUME KeyDeterminesKv
  PROVE  IInv /\ [Next]_vars => IInv'
<1> SUFFICES ASSUME IInv, [Next]_vars PROVE IInv'
  OBVIOUS
<1> USE KeyDeterminesKv
<1>1. ASSUME NEW u \in Users, NEW m \in Memories, Register(u, m) PROVE IInv'
  BY <1>1, StoreStep, SentinelAssumption DEF Register
<1>2. ASSUME NEW u \in Users, Remove(u) PROVE IInv'
  BY <1>2, StoreStep DEF Remove
<1>3. ASSUME NEW r \in Requests, NEW u \in Users \cup {NoUser}, NEW p \in Prompts, Submit(r, u, p)
      PROVE  IInv'
  BY <1>3, SubmitStep
<1>4. ASSUME NEW r \in Requests, Admit(r) PROVE IInv'
  <2>1. ASSUME NEW hits \in 0..TableLen(prompt[r]), GetNumNewMatchedTokens(r, hits) PROVE IInv'
    <3>1. CASE MatchFails(r, hits)
      BY <3>1, FailStepStep DEF MatchFails, CanOffer
    <3>2. CASE ~MatchFails(r, hits)
      BY <2>1, <3>2, MatchStep DEF GetNumNewMatchedTokens
    <3>3. QED BY <3>1, <3>2
  <2>2. ASSUME offer # None, offer.req = r, NEW table \in [1..TableLen(prompt[r]) -> Blocks],
               UpdateStateAfterAlloc(table)
        PROVE  IInv'
    <3>1. offer.hits \in Nat
      BY <2>2 DEF IInv, TypeOK, Offer
    <3>2. QED
      BY <2>2, <3>1, UpdateAllocStep
  <2>3. QED
    BY <1>4, <2>1, <2>2 DEF Admit
<1>5. ASSUME EngineStep PROVE IInv'
  <2>1. CASE AllocFails
    BY <2>1, AllocFailsStep
  <2>2. CASE BuildConnectorMeta
    BY <2>2, BuildStep
  <2>3. CASE BuildRefuses
    BY <2>3, FailStepStep DEF BuildRefuses
  <2>4. ASSUME NEW l \in loads, InjectOneLoad(l) PROVE IInv'
    BY <2>4, InjectStep
  <2>5. phase = "load" => offer = None
    BY DEF IInv, OfferOK
  <2>6. ASSUME NEW l \in loads, MemoryGone(l) PROVE IInv'
    BY <2>5, <2>6, FailStepStep DEF MemoryGone
  <2>7. CASE InjectionRaises
    BY <2>5, <2>7, FailStepStep DEF InjectionRaises
  <2>8. CASE Forward
    BY <2>8, ForwardStep
  <2>9. QED
    BY <1>5, <2>1, <2>2, <2>3, <2>4, <2>6, <2>7, <2>8 DEF EngineStep
<1>6. ASSUME NEW r \in Requests, NEW outcome \in Done, RequestFinished(r, outcome) PROVE IInv'
  BY <1>6, LeaveStep
<1>7. ASSUME NEW r \in Requests, Preempt(r) PROVE IInv'
  BY <1>7, LeaveStep DEF Done
<1>8. CASE RestartEngine
  BY <1>8, RestartStep
<1>9. CASE UNCHANGED vars
  BY <1>9, Stutter
<1>10. QED
  BY <1>1, <1>2, <1>3, <1>4, <1>5, <1>6, <1>7, <1>8, <1>9 DEF Next

-----------------------------------------------------------------------------
(* The theorems.                                                           *)

(* The inductive invariant holds throughout, provided the prefix cache's   *)
(* keys tell the memories apart.                                           *)
THEOREM Invariance ==
  ASSUME KeyDeterminesKv
  PROVE  Spec => []IInv
<1>1. Init => IInv
  BY InitIInv
<1>2. IInv /\ [Next]_vars => IInv'
  BY NextIInv
<1>3. QED
  BY <1>1, <1>2, PTL DEF Spec

(* Type correctness of the connector and its engine.                       *)
THEOREM TypeCorrect ==
  ASSUME KeyDeterminesKv
  PROVE  Spec => []TypeOK
<1>1. IInv => TypeOK
  BY DEF IInv
<1>2. QED
  BY <1>1, Invariance, PTL

LEMMA AttendsLemma == IInv => AttendsOwnMemory
<1> SUFFICES ASSUME IInv, NEW r \in Requests, status[r] = "running", r \notin DOMAIN batch,
                    NEW i \in 1..Region(prompt[r])
             PROVE  kv[blocks[r][i]] = KvOf[prompt[r]][i]
  BY DEF AttendsOwnMemory
<1> USE DEF IInv
<1>1. /\ prompt[r] \in Prompts /\ i \in 1..FullBlocks(prompt[r])
      /\ i \in 1..Len(blocks[r]) /\ blocks[r][i] \in Blocks
  <2>1. prompt[r] \in Prompts /\ blocks[r] \in Seq(Blocks) /\ Len(blocks[r]) = TableLen(prompt[r])
    BY DEF TypeOK, Tables
  <2>2. QED
    BY <2>1, PromptBlocks
<1>2. cached[blocks[r][i]] = Key(prompt[r], i)
  BY <1>1 DEF Keyed
<1>3. ~Fresh(blocks[r][i])
  <2> SUFFICES ASSUME NEW q \in Requests, NEW k \in 1..Len(blocks[q]), Owns(q, k),
                      blocks[q][k] = blocks[r][i]
               PROVE  FALSE
    BY DEF Fresh
  <2>1. r = q
    BY <1>1 DEF FreshOwnedOnce
  <2>2. QED
    BY <2>1 DEF Owns
<1>4. QED
  BY <1>1, <1>2, <1>3 DEF CacheSound, ContentAt

(* Every request that generates attends over its own memory: injection,    *)
(* block reuse, shared prefixes, preemption, failed steps and restarts     *)
(* never put another KV under it.                                          *)
THEOREM EveryRequestAttendsOwnMemory ==
  ASSUME KeyDeterminesKv
  PROVE  Spec => []AttendsOwnMemory
  BY AttendsLemma, Invariance, PTL

(* No match or load outlives the step or the queue it belongs to.          *)
THEOREM NoStaleLoad ==
  ASSUME KeyDeterminesKv
  PROVE  Spec => []NothingLeftBehind
<1>1. IInv => NothingLeftBehind
  BY DEF IInv, NothingLeftBehind, PendingOK, ScheduledOK, LoadsOK
<1>2. QED
  BY <1>1, Invariance, PTL

(* Every generated request of a user is counted by load_stats.             *)
THEOREM CoverageIsComplete ==
  ASSUME KeyDeterminesKv
  PROVE  Spec => []GeneratedIsCovered
<1>1. IInv => GeneratedIsCovered
  BY DEF IInv
<1>2. QED
  BY <1>1, Invariance, PTL

(* A block that an earlier request attends over is not fresh.              *)
LEMMA AttendedIsNotFresh ==
  ASSUME IInv, NEW r \in Requests, r \notin DOMAIN batch, NEW i \in 1..Len(blocks[r])
  PROVE  blocks[r][i] \in Blocks /\ ~Fresh(blocks[r][i])
<1>1. blocks[r][i] \in Blocks
  BY DEF IInv, TypeOK
<1>2. ~Fresh(blocks[r][i])
  <2> SUFFICES ASSUME NEW q \in Requests, NEW k \in 1..Len(blocks[q]), Owns(q, k),
                      blocks[q][k] = blocks[r][i]
               PROVE  FALSE
    BY DEF Fresh
  <2>1. r = q
    BY DEF IInv, FreshOwnedOnce
  <2>2. QED
    BY <2>1 DEF Owns
<1>3. QED BY <1>1, <1>2

(* Only fresh blocks are written, except by building a new engine.         *)
LEMMA WritesFresh ==
  ASSUME IInv, [Next]_vars, phase # "failed", NEW b \in Blocks, ~Fresh(b)
  PROVE  kv'[b] = kv[b]
<1> USE DEF poolVars
<1>1. ASSUME NEW u \in Users, NEW m \in Memories, Register(u, m) PROVE kv' = kv
  BY <1>1 DEF Register
<1>2. ASSUME NEW u \in Users, Remove(u) PROVE kv' = kv
  BY <1>2 DEF Remove
<1>3. ASSUME NEW r \in Requests, NEW u \in Users \cup {NoUser}, NEW p \in Prompts, Submit(r, u, p)
      PROVE  kv' = kv
  BY <1>3 DEF Submit
<1>4. ASSUME NEW r \in Requests, Admit(r) PROVE kv' = kv
  BY <1>4 DEF Admit, GetNumNewMatchedTokens, MatchWithoutUser, MatchFails, FailStep,
              MatchNativeCovered, MatchNewTokens, UpdateStateAfterAlloc
<1>5. ASSUME EngineStep PROVE kv'[b] = kv[b]
  <2>1. CASE AllocFails \/ BuildConnectorMeta \/ BuildRefuses \/ InjectionRaises
    BY <2>1 DEF AllocFails, BuildConnectorMeta, BuildRefuses, InjectionRaises, FailStep
  <2>2. ASSUME NEW l \in loads, InjectOneLoad(l) PROVE kv'[b] = kv[b]
    BY <2>2, InjectedBlocks
  <2>3. ASSUME NEW l \in loads, MemoryGone(l) PROVE kv' = kv
    BY <2>3 DEF MemoryGone, FailStep
  <2>4. CASE Forward
    BY <2>4, ForwardBlocks
  <2>5. QED
    BY <1>5, <2>1, <2>2, <2>3, <2>4 DEF EngineStep
<1>6. ASSUME NEW r \in Requests, NEW outcome \in Done, RequestFinished(r, outcome) PROVE kv' = kv
  BY <1>6 DEF RequestFinished
<1>7. ASSUME NEW r \in Requests, Preempt(r) PROVE kv' = kv
  BY <1>7 DEF Preempt
<1>8. ~RestartEngine
  BY DEF RestartEngine
<1>9. CASE UNCHANGED vars
  BY <1>9 DEF vars
<1>10. QED
  BY <1>1, <1>2, <1>3, <1>4, <1>5, <1>6, <1>7, <1>8, <1>9 DEF Next

(* No step writes into a block that an earlier request attends over.       *)
THEOREM AttendedBlocksAreLeftAlone ==
  ASSUME KeyDeterminesKv
  PROVE  Spec => WritesOnlyFreshBlocks
<1>1. IInv /\ [Next]_vars =>
        [\A r \in Requests : status[r] = "running" /\ r \notin DOMAIN batch /\ phase # "failed" =>
           \A i \in 1..Len(blocks[r]) : kv'[blocks[r][i]] = kv[blocks[r][i]]]_vars
  BY AttendedIsNotFresh, WritesFresh
<1>2. QED
  BY <1>1, Invariance, PTL DEF Spec, WritesOnlyFreshBlocks

-----------------------------------------------------------------------------


LEMMA ServingInit == Init => Serving!Init
<1> SUFFICES ASSUME Init PROVE Serving!Init
  OBVIOUS
<1>1. ServedStage = [r \in Requests |-> "new"]
  BY DEF Init, ServedStage, StageOf, Attending
<1>2. ServedView = [r \in Requests |-> <<>>]
  BY DEF Init, ServedView, ViewOf, Attending
<1>3. QED
  BY <1>1, <1>2 DEF Init, Serving!Init, Serving!Unseen

(* What MemoryServing sees of a request depends on its status, whether it  *)
(* waits for its first forward pass, and the KV in its blocks.             *)
LEMMA SameServing ==
  ASSUME IInv, NEW r \in Requests, status'[r] = status[r],
         r \in DOMAIN batch' <=> r \in DOMAIN batch,
         Attending(r) => /\ blocks'[r] = blocks[r] /\ prompt'[r] = prompt[r]
                         /\ \A i \in 1..Len(blocks[r]) : kv'[blocks[r][i]] = kv[blocks[r][i]]
  PROVE  StageOf(r)' = StageOf(r) /\ ViewOf(r)' = ViewOf(r)
<1>1. StageOf(r)' = StageOf(r) /\ (Attending(r)' <=> Attending(r))
  BY DEF StageOf, Attending
<1>2. CASE Attending(r)
  <2>1. \A i \in 1..Region(prompt[r]) : i \in 1..Len(blocks[r])
    <3>1. prompt[r] \in Prompts /\ Len(blocks[r]) = TableLen(prompt[r])
      BY <1>2 DEF IInv, TypeOK, Tables, Attending
    <3>2. QED BY <3>1, PromptBlocks
  <2>2. \A i \in 1..Region(prompt[r]) : kv'[blocks'[r][i]] = kv[blocks[r][i]]
    BY <1>2, <2>1
  <2>3. [i \in 1..Region(prompt[r]) |-> kv'[blocks'[r][i]]] = [i \in 1..Region(prompt[r]) |-> kv[blocks[r][i]]]
    BY <2>2
  <2>4. ViewOf(r)' = ViewOf(r)
    BY <1>1, <1>2, <2>3 DEF ViewOf
  <2>5. QED BY <1>1, <2>4
<1>3. CASE ~Attending(r)
  BY <1>1, <1>3 DEF ViewOf
<1>4. QED BY <1>2, <1>3

(* A step that admits nobody and changes no request is invisible.          *)
LEMMA InvisibleStep ==
  ASSUME IInv, [Next]_vars, phase # "failed",
         UNCHANGED <<prompt>>, DOMAIN batch \subseteq DOMAIN batch',
         \A r \in Requests : r \notin DOMAIN batch' =>
            status'[r] = status[r] /\ blocks'[r] = blocks[r],
         \A r \in DOMAIN batch' : StageOf(r)' = StageOf(r) /\ ViewOf(r)' = ViewOf(r)
  PROVE  UNCHANGED Serving!servingVars
<1>1. ASSUME NEW r \in Requests PROVE StageOf(r)' = StageOf(r) /\ ViewOf(r)' = ViewOf(r)
  <2>1. CASE r \in DOMAIN batch'
    BY <2>1
  <2>2. CASE r \notin DOMAIN batch'
    <3>1. \A i \in 1..Len(blocks[r]) : kv'[blocks[r][i]] = kv[blocks[r][i]]
      BY <2>2, AttendedIsNotFresh, WritesFresh
    <3>2. QED BY <2>2, <3>1, SameServing
  <2>3. QED BY <2>1, <2>2
<1>2. ServedStage' = ServedStage /\ ServedView' = ServedView
  BY <1>1 DEF ServedStage, ServedView
<1>3. QED
  BY <1>2 DEF Serving!servingVars

(* Most steps change no request and no batch.                              *)
LEMMA QuietStep ==
  ASSUME IInv, [Next]_vars, phase # "failed", UNCHANGED <<requestVars, batch>>
  PROVE  UNCHANGED Serving!servingVars
<1>1. ASSUME NEW r \in DOMAIN batch PROVE StageOf(r)' = StageOf(r) /\ ViewOf(r)' = ViewOf(r)
  <2>1. r \in Requests
    BY DEF IInv, TypeOK
  <2>2. QED
    BY <1>1, <2>1, SameServing DEF Attending, requestVars
<1>2. QED
  BY <1>1, InvisibleStep DEF requestVars

LEMMA SubmitIsAsk ==
  ASSUME IInv, NEW r \in Requests, NEW u \in Users \cup {NoUser}, NEW p \in Prompts,
         Submit(r, u, p)
  PROVE  Serving!Ask(r, p)
<1> USE DEF IInv, poolVars, stepVars
<1>1. ASSUME NEW q \in Requests, q # r PROVE StageOf(q)' = StageOf(q) /\ ViewOf(q)' = ViewOf(q)
  <2>1. /\ status'[q] = status[q] /\ prompt'[q] = prompt[q] /\ blocks'[q] = blocks[q]
        /\ kv' = kv /\ batch' = batch
    BY <1>1 DEF Submit, TypeOK
  <2>2. QED
    BY <2>1, SameServing
<1>2. StageOf(r) = "new" /\ StageOf(r)' = "queued"
  BY DEF Submit, TypeOK, StageOf, Attending
<1>3. ViewOf(r)' = ViewOf(r)
  BY DEF Submit, TypeOK, ViewOf, Attending
<1>4. ServedStage' = [ServedStage EXCEPT ![r] = "queued"]
  BY <1>1, <1>2 DEF ServedStage
<1>5. ServedView' = ServedView
  BY <1>1, <1>3 DEF ServedView
<1>6. QED
  BY <1>2, <1>4, <1>5 DEF Serving!Ask, Submit, ServedStage

LEMMA AllocIsInvisible ==
  ASSUME IInv, [Next]_vars, offer # None, NEW r \in Requests, r = offer.req,
         NEW table \in [1..TableLen(prompt[r]) -> Blocks], UpdateStateAfterAlloc(table)
  PROVE  UNCHANGED Serving!servingVars
<1> USE DEF IInv
<1>1. /\ status[r] \in {"waiting", "preempted"} /\ r \notin DOMAIN batch /\ phase = "schedule"
      /\ DOMAIN batch' = DOMAIN batch \cup {r} /\ status'[r] = "running"
      /\ \A q \in Requests \ {r} : status'[q] = status[q] /\ blocks'[q] = blocks[q]
      /\ prompt' = prompt /\ kv' = kv
  BY DEF UpdateStateAfterAlloc, Allocate, OfferOK, Admitted, TypeOK, Put
<1>2. ASSUME NEW q \in DOMAIN batch' PROVE StageOf(q)' = StageOf(q) /\ ViewOf(q)' = ViewOf(q)
  <2>1. CASE q = r
    BY <1>1, <2>1 DEF StageOf, ViewOf, Attending
  <2>2. CASE q # r
    <3>1. q \in Requests /\ q \in DOMAIN batch
      BY <1>1, <1>2, <2>2 DEF TypeOK
    <3>2. QED
      BY <1>1, <2>2, <3>1, SameServing
  <2>3. QED BY <2>1, <2>2
<1>3. QED
  BY <1>1, <1>2, InvisibleStep

LEMMA ForwardIsAttend ==
  ASSUME IInv, AttendsOwnMemory', [Next]_vars, Forward
  PROVE  Serving!Attend(DOMAIN batch) /\ DOMAIN batch \subseteq Requests
<1> USE DEF requestVars
<1>1. /\ DOMAIN batch \subseteq Requests /\ DOMAIN batch' = {} /\ phase = "load"
      /\ status' = status /\ prompt' = prompt /\ blocks' = blocks
      /\ \A r \in DOMAIN batch : status[r] = "running"
  BY DEF Forward, EmptyDict, IInv, TypeOK, Admitted
<1>2. ASSUME NEW r \in Requests \ DOMAIN batch
      PROVE  StageOf(r)' = StageOf(r) /\ ViewOf(r)' = ViewOf(r)
  <2>1. \A i \in 1..Len(blocks[r]) : kv'[blocks[r][i]] = kv[blocks[r][i]]
    BY <1>1, AttendedIsNotFresh, WritesFresh
  <2>2. QED
    BY <1>1, <2>1, SameServing
<1>3. ASSUME NEW r \in DOMAIN batch
      PROVE  /\ StageOf(r) = "queued" /\ StageOf(r)' = "attending"
             /\ ViewOf(r)' = ServedKv[prompt[r]]
  <2>1. r \in Requests /\ prompt[r] \in Prompts
    BY <1>1 DEF IInv, TypeOK
  <2>2. Attending(r)' /\ ~Attending(r)
    BY <1>1 DEF Attending
  <2>3. StageOf(r) = "queued" /\ StageOf(r)' = "attending"
    BY <1>1, <2>2 DEF StageOf
  <2>4. \A i \in 1..Region(prompt[r]) : kv'[blocks[r][i]] = KvOf[prompt[r]][i]
    BY <1>1, <2>1 DEF AttendsOwnMemory
  <2>5. ServedKv[prompt[r]] = [i \in 1..Region(prompt[r]) |-> KvOf[prompt[r]][i]]
    BY <2>1 DEF ServedKv
  <2>6. ViewOf(r)' = [i \in 1..Region(prompt[r]) |-> kv'[blocks[r][i]]]
    BY <1>1, <2>2 DEF ViewOf
  <2>7. QED
    BY <2>3, <2>4, <2>5, <2>6
<1>4. ServedStage' = [r \in Requests |-> IF r \in DOMAIN batch THEN "attending" ELSE ServedStage[r]]
  BY <1>2, <1>3 DEF ServedStage
<1>5. ServedView' = [r \in Requests |-> IF r \in DOMAIN batch THEN ServedKv[prompt[r]] ELSE ServedView[r]]
  BY <1>2, <1>3 DEF ServedView
<1>6. \A r \in DOMAIN batch : ServedStage[r] = "queued"
  BY <1>1, <1>3 DEF ServedStage
<1>7. QED
  BY <1>1, <1>4, <1>5, <1>6 DEF Serving!Attend

(* A request that leaves between steps: it finishes, goes back to the      *)
(* queue or is given up.                                                   *)
LEMMA LeaveIsServed ==
  ASSUME IInv, NEW r \in Requests, NEW outcome \in Done,
         RequestFinished(r, outcome) \/ Preempt(r)
  PROVE  Serving!Next
<1> USE DEF IInv, poolVars, stepVars
<1>1. /\ batch' = batch /\ DOMAIN batch = {} /\ kv' = kv /\ prompt' = prompt
      /\ \A q \in Requests \ {r} : status'[q] = status[q] /\ blocks'[q] = blocks[q]
  BY DEF RequestFinished, Preempt, BetweenSteps, TypeOK, Release
<1>2. \A q \in Requests \ {r} : StageOf(q)' = StageOf(q) /\ ViewOf(q)' = ViewOf(q)
  BY <1>1, SameServing
<1>3. status'[r] # "running"
  BY DEF RequestFinished, Preempt, TypeOK, Done
<1>4. ViewOf(r)' = <<>>
  BY <1>3 DEF ViewOf, Attending
<1>5. ServedView' = [ServedView EXCEPT ![r] = <<>>]
  BY <1>2, <1>4 DEF ServedView
<1>6. CASE Preempt(r)
  <2>1. StageOf(r) = "attending" /\ StageOf(r)' = "queued"
    BY <1>1, <1>6 DEF Preempt, TypeOK, StageOf, Attending
  <2>2. ServedStage' = [ServedStage EXCEPT ![r] = "queued"] /\ ServedStage[r] = "attending"
    BY <1>2, <2>1 DEF ServedStage
  <2>3. Serving!Requeue(r)
    BY <1>1, <1>5, <2>2 DEF Serving!Requeue, Serving!Unseen
  <2>4. QED BY <2>3 DEF Serving!Next
<1>7. CASE RequestFinished(r, "finished")
  <2>1. StageOf(r) = "attending" /\ StageOf(r)' = "done"
    BY <1>1, <1>7 DEF RequestFinished, TypeOK, StageOf, Attending
  <2>2. ServedStage' = [ServedStage EXCEPT ![r] = "done"] /\ ServedStage[r] = "attending"
    BY <1>2, <2>1 DEF ServedStage
  <2>3. Serving!Finish(r)
    BY <1>1, <1>5, <2>2 DEF Serving!Finish, Serving!Unseen
  <2>4. QED BY <2>3 DEF Serving!Next
<1>8. CASE RequestFinished(r, "aborted")
  <2>1. StageOf(r) \in {"queued", "attending"} /\ StageOf(r)' = "dropped"
    BY <1>1, <1>8 DEF RequestFinished, TypeOK, StageOf, Attending, Live
  <2>2. /\ ServedStage' = [q \in Requests |-> IF q \in {r} THEN "dropped" ELSE ServedStage[q]]
        /\ ServedView' = [q \in Requests |-> IF q \in {r} THEN <<>> ELSE ServedView[q]]
        /\ ServedStage[r] \in {"queued", "attending"}
    BY <1>2, <1>4, <2>1 DEF ServedStage, ServedView
  <2>3. Serving!GiveUp({r})
    BY <1>1, <2>2 DEF Serving!GiveUp, Serving!Unseen
  <2>4. QED BY <2>3 DEF Serving!Next
<1>9. QED BY <1>6, <1>7, <1>8 DEF Done

(* A new engine drops whatever the old one had not finished.               *)
LEMMA RestartIsGiveUp ==
  ASSUME IInv, RestartEngine
  PROVE  Serving!Next
<1> USE DEF IInv
<1> DEFINE S == {r \in Requests : status[r] \in Live}
<1>1. \A r \in Requests : status'[r] = IF r \in S THEN "aborted" ELSE status[r]
  BY DEF RestartEngine
<1>2. \A r \in S : StageOf(r) \in {"queued", "attending"} /\ StageOf(r)' = "dropped"
  BY <1>1 DEF StageOf, Attending, Live
<1>3. \A r \in Requests \ S : /\ StageOf(r)' = StageOf(r)
                              /\ status[r] # "running" /\ status'[r] # "running"
  BY <1>1 DEF StageOf, Attending, Live
<1>4. \A r \in Requests : ViewOf(r)' = <<>> /\ (r \notin S => ViewOf(r) = <<>>)
  BY <1>1, <1>3 DEF ViewOf, Attending, Live
<1>5. ServedStage' = [r \in Requests |-> IF r \in S THEN "dropped" ELSE ServedStage[r]]
  BY <1>2, <1>3 DEF ServedStage
<1>6. ServedView' = [r \in Requests |-> IF r \in S THEN <<>> ELSE ServedView[r]]
  BY <1>4 DEF ServedView
<1>7. \A r \in S : ServedStage[r] \in {"queued", "attending"}
  BY <1>2 DEF ServedStage
<1>8. Serving!GiveUp(S)
  BY <1>5, <1>6, <1>7 DEF Serving!GiveUp, Serving!Unseen, RestartEngine
<1>9. QED
  BY <1>8 DEF Serving!Next

LEMMA ServingStep ==
  ASSUME IInv, AttendsOwnMemory', [Next]_vars
  PROVE  [Serving!Next]_(Serving!servingVars)
<1>1. ASSUME NEW u \in Users, NEW m \in Memories, Register(u, m) PROVE UNCHANGED Serving!servingVars
  BY <1>1, QuietStep DEF Register, BetweenSteps, stepVars
<1>2. ASSUME NEW u \in Users, Remove(u) PROVE UNCHANGED Serving!servingVars
  BY <1>2, QuietStep DEF Remove, stepVars
<1>3. ASSUME NEW r \in Requests, NEW u \in Users \cup {NoUser}, NEW p \in Prompts, Submit(r, u, p)
      PROVE  Serving!Next
  BY <1>3, SubmitIsAsk DEF Serving!Next
<1>4. ASSUME NEW r \in Requests, Admit(r) PROVE UNCHANGED Serving!servingVars
  <2>1. ASSUME NEW hits \in 0..TableLen(prompt[r]), GetNumNewMatchedTokens(r, hits)
        PROVE  phase # "failed" /\ UNCHANGED <<requestVars, batch>>
    BY <2>1 DEF GetNumNewMatchedTokens, MatchWithoutUser, MatchFails, FailStep, CanOffer,
                MatchNativeCovered, MatchNewTokens
  <2>2. QED
    BY <1>4, <2>1, QuietStep, AllocIsInvisible DEF Admit
<1>5. ASSUME EngineStep PROVE [Serving!Next]_(Serving!servingVars)
  <2>1. CASE Forward
    BY <2>1, ForwardIsAttend DEF Serving!Next
  <2>2. CASE ~Forward
    <3>1. phase # "failed" /\ UNCHANGED <<requestVars, batch>>
      BY <1>5, <2>2 DEF EngineStep, AllocFails, BuildConnectorMeta, BuildRefuses, InjectOneLoad,
                        MemoryGone, InjectionRaises, FailStep, stepVars
    <3>2. QED BY <3>1, QuietStep
  <2>3. QED BY <2>1, <2>2
<1>6. ASSUME NEW r \in Requests, NEW outcome \in Done, RequestFinished(r, outcome) PROVE Serving!Next
  BY <1>6, LeaveIsServed
<1>7. ASSUME NEW r \in Requests, Preempt(r) PROVE Serving!Next
  BY <1>7, LeaveIsServed DEF Done
<1>8. CASE RestartEngine
  BY <1>8, RestartIsGiveUp
<1>9. CASE UNCHANGED vars
  BY <1>9 DEF vars, requestVars, poolVars, stepVars, Serving!servingVars, ServedStage, StageOf,
              ServedView, ViewOf, Attending
<1>10. QED
  BY <1>1, <1>2, <1>3, <1>4, <1>5, <1>6, <1>7, <1>8, <1>9 DEF Next

(* The connector in its engine implements MemoryServing: a request sees    *)
(* exactly its own memory from its first forward pass to its end.          *)
THEOREM ConnectorImplementsServing ==
  ASSUME KeyDeterminesKv
  PROVE  Spec => ImplementsServing
<1>1. Init => Serving!Init
  BY ServingInit
<1>2. IInv /\ AttendsOwnMemory' /\ [Next]_vars => [Serving!Next]_(Serving!servingVars)
  BY ServingStep
<1>3. QED
  BY <1>1, <1>2, Invariance, EveryRequestAttendsOwnMemory, PTL DEF Spec, ImplementsServing, Serving!Spec
=============================================================================
