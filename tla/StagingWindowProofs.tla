------------------------ MODULE StagingWindowProofs ------------------------
(***************************************************************************)
(* The pinned store and the sliding window over it, for any number of      *)
(* memories, payloads, slots and loads.                                    *)
(*                                                                         *)
(* What the store promises a single caller: StoreInv is inductive.  Its    *)
(* PoolInv says that the slots are a dict of current copies, each of a     *)
(* transfer of its own, and that slots, metrics and the caller have all    *)
(* transfers between them; its TaskInv says what the caller may rely on at *)
(* every point where it has let go of the lock.  With a second caller the  *)
(* latter is wrong: the lock protects the two dicts, and not what was read *)
(* from them.                                                              *)
(*                                                                         *)
(* The worker's window keeps to itself: what is staged belongs to loads    *)
(* that are in the window and still to be injected, so an insertion never  *)
(* finds the pool over its capacity, and what is injected is current.      *)
(* WindowInv adds to StoreInv which request the worker can be busy with at *)
(* which point of start_load_kv.                                           *)
(***************************************************************************)
EXTENDS StagingWindow, DataLemmas, FiniteSetTheorems

-----------------------------------------------------------------------------
(* The inductive invariant.                                                *)

Slot == [user : Users, payload : Payloads, transfer : 1..transfers]
Record == [transfer : 1..transfers, moved : Payloads, sized : Payloads]
Request == [user : Users, payload : Payloads]

Tasks ==
  [op : {"idle", "raised"}]
    \cup [op : {"insert"}, user : Users, payload : Payloads]
    \cup [op : {"release", "pop"}, user : Users]
    \cup [op : {"check", "evict", "hand"}, todo : Seq(Request), hands : BOOLEAN]
    \cup [op : {"copied"}, transfer : {transfers}, todo : Seq(Request), hands : BOOLEAN]
    \cup [op : {"evicting"}, victim : Users, todo : Seq(Request), hands : BOOLEAN]

StoreTypes ==
  /\ host \in [Users -> Payloads \cup {NoPayload}]
  /\ slots \in Seq(Slot)
  /\ records \subseteq Record /\ IsFiniteSet(records)
  /\ transfers \in 0..MaxTransfers
  /\ thread \in [Threads -> Tasks]

(* One slot per memory, holding the payload registered for it.             *)
SlotsAreCurrent ==
  /\ \A i, j \in DOMAIN slots : slots[i].user = slots[j].user => i = j
  /\ \A i \in DOMAIN slots : slots[i].payload = host[slots[i].user]

(* A transfer is in one place.                                             *)
TransfersApart ==
  /\ \A i, j \in DOMAIN slots : slots[i].transfer = slots[j].transfer => i = j
  /\ \A i \in DOMAIN slots, r \in records : slots[i].transfer # r.transfer
  /\ \A r \in records : r.sized = r.moved

Outstanding(t) == IF thread[t].op = "copied" THEN 1 ELSE 0

PoolInv(t) ==
  /\ SlotsAreCurrent
  /\ TransfersApart
  /\ transfers = Len(slots) + Cardinality(records) + Outstanding(t)
  /\ thread[t].op = "copied" =>
       /\ \A i \in DOMAIN slots : slots[i].transfer # thread[t].transfer
       /\ \A r \in records : r.transfer # thread[t].transfer

Staging == {"check", "copied", "evict", "evicting", "hand"}

TaskInv(t) ==
  /\ thread[t].op \in {"insert", "pop", "copied"} =>
       (IF thread[t].op = "copied" THEN Current(t).user ELSE thread[t].user) \notin Staged
  /\ thread[t].op \in Staging =>
       /\ thread[t].todo # <<>>
       /\ \A i \in DOMAIN thread[t].todo : thread[t].todo[i].payload = host[thread[t].todo[i].user]
  /\ thread[t].op \in {"evict", "evicting", "hand"} => Current(t).user \in Staged
  /\ thread[t].op = "evicting" =>
       thread[t].victim \in Staged /\ thread[t].victim # Current(t).user
  /\ Len(slots) <= IF thread[t].op \in {"evict", "evicting"} THEN Slots + 1 ELSE Slots

StoreInv(t) == StoreTypes /\ PoolInv(t) /\ TaskInv(t)

-----------------------------------------------------------------------------
(* Slots.                                                                  *)

(* Taking a slot out of the dict leaves the others, in their order.        *)
LEMMA SlotsWithoutEntries ==
  ASSUME StoreTypes, SlotsAreCurrent, NEW u \in Users
  PROVE  /\ SlotsWithout(u) \in Seq(Slot)
         /\ u \notin Staged => SlotsWithout(u) = slots
         /\ u \in Staged => Len(SlotsWithout(u)) = Len(slots) - 1
         /\ \E f \in [DOMAIN SlotsWithout(u) -> DOMAIN slots] :
              /\ \A i, j \in DOMAIN SlotsWithout(u) : f[i] = f[j] => i = j
              /\ \A i \in DOMAIN SlotsWithout(u) : SlotsWithout(u)[i] = slots[f[i]]
              /\ \A i \in DOMAIN SlotsWithout(u) : slots[f[i]].user # u
              /\ \A k \in DOMAIN slots : slots[k].user # u =>
                   \E i \in DOMAIN SlotsWithout(u) : f[i] = k
<1> DEFINE w == SlotsWithout(u)
<1>1. slots \in Seq(Slot)
  BY DEF StoreTypes
<1>2. CASE u \notin Staged
  <2>1. w = slots
    BY <1>2 DEF SlotsWithout
  <2>2. \A k \in DOMAIN slots : slots[k].user # u
    BY <1>2 DEF Staged, ToSet
  <2> DEFINE f == [i \in DOMAIN slots |-> i]
  <2>3. f \in [DOMAIN w -> DOMAIN slots]
    BY <2>1
  <2> HIDE DEF w
  <2>4. QED
    BY <1>1, <1>2, <2>1, <2>2, <2>3 DEF w
<1>3. CASE u \in Staged
  <2>1. \E i \in DOMAIN slots : slots[i].user = u
    BY <1>3 DEF Staged, ToSet
  <2> DEFINE n == CHOOSE i \in DOMAIN slots : slots[i].user = u
  <2>2. n \in DOMAIN slots /\ slots[n].user = u
    BY <2>1
  <2>3. w = RemoveAt(slots, n)
    BY <1>3 DEF SlotsWithout
  <2> HIDE DEF n, w
  <2>4. n \in 1..Len(slots)
    BY <1>1, <2>2
  <2>5. /\ w \in Seq(Slot) /\ Len(w) = Len(slots) - 1
        /\ \A j \in 1..Len(slots) - 1 : w[j] = IF j < n THEN slots[j] ELSE slots[j + 1]
    BY <1>1, <2>3, <2>4, RemoveAtEntries
  <2>6. DOMAIN w = 1..Len(slots) - 1 /\ DOMAIN slots = 1..Len(slots)
    BY <1>1, <2>5
  <2> DEFINE f == [j \in DOMAIN w |-> IF j < n THEN j ELSE j + 1]
  <2>7. f \in [DOMAIN w -> DOMAIN slots]
    BY <2>6, <2>4
  <2>8. \A i, j \in DOMAIN w : f[i] = f[j] => i = j
    BY <2>6, <2>4
  <2>9. \A i \in DOMAIN w : w[i] = slots[f[i]]
    BY <2>5, <2>6
  <2>10. \A i \in DOMAIN w : f[i] # n
    BY <2>6, <2>4
  <2>11. \A i \in DOMAIN w : slots[f[i]].user # u
    BY <2>2, <2>7, <2>10 DEF SlotsAreCurrent
  <2>12. ASSUME NEW k \in DOMAIN slots, slots[k].user # u
         PROVE  \E i \in DOMAIN w : f[i] = k
    <3>1. k # n
      BY <2>2, <2>12
    <3>2. CASE k < n
      BY <2>4, <2>6, <3>2
    <3>3. CASE k > n
      <4>1. k - 1 \in DOMAIN w /\ ~(k - 1 < n)
        BY <2>4, <2>6, <3>3
      <4>2. QED
        BY <4>1, <2>6
    <3>4. QED
      BY <2>4, <2>6, <3>1, <3>2, <3>3
  <2>13. QED
    BY <1>3, <2>5, <2>7, <2>8, <2>9, <2>11, <2>12 DEF w
<1>4. QED
  BY <1>2, <1>3

(* A release takes a copy that is current out of the pool and into the     *)
(* metrics, with the sizes of what it moved.                               *)
LEMMA ReleaseKeepsPool ==
  ASSUME StoreTypes, SlotsAreCurrent, TransfersApart,
         NEW u \in Users, Release(u), UNCHANGED <<host, transfers>>
  PROVE  /\ slots' \in Seq(Slot)'
         /\ records' \subseteq Record' /\ IsFiniteSet(records')
         /\ SlotsAreCurrent'
         /\ TransfersApart'
         /\ Len(slots') + Cardinality(records') = Len(slots) + Cardinality(records)
         /\ Staged' = Staged \ {u}
         /\ Len(slots') = IF u \in Staged THEN Len(slots) - 1 ELSE Len(slots)
<1>1. slots \in Seq(Slot) /\ records \subseteq Record /\ IsFiniteSet(records)
  BY DEF StoreTypes
<1>2. slots' = SlotsWithout(u) /\ Slot' = Slot /\ Record' = Record
  BY DEF Release, Slot, Record
<1>3. PICK f \in [DOMAIN slots' -> DOMAIN slots] :
        /\ \A i, j \in DOMAIN slots' : f[i] = f[j] => i = j
        /\ \A i \in DOMAIN slots' : slots'[i] = slots[f[i]]
        /\ \A i \in DOMAIN slots' : slots[f[i]].user # u
        /\ \A k \in DOMAIN slots : slots[k].user # u =>
             \E i \in DOMAIN slots' : f[i] = k
  BY <1>2, SlotsWithoutEntries
<1>4. /\ slots' \in Seq(Slot)
      /\ u \notin Staged => slots' = slots
      /\ u \in Staged => Len(slots') = Len(slots) - 1
  BY <1>2, SlotsWithoutEntries
<1>5. Staged' = Staged \ {u}
  <2>1. Staged = {slots[i].user : i \in DOMAIN slots}
    BY DEF Staged, ToSet
  <2>2. Staged' = {slots'[i].user : i \in DOMAIN slots'}
    BY DEF Staged, ToSet
  <2>3. QED
    BY <1>3, <2>1, <2>2
<1>6. SlotsAreCurrent'
  BY <1>3 DEF SlotsAreCurrent
<1>7. CASE u \notin Staged
  <2>1. {s \in ToSet(slots) : s.user = u} = {}
    BY <1>7 DEF Staged
  <2>2. records' = records
    BY <2>1 DEF Release
  <2>3. QED
    BY <1>1, <1>2, <1>4, <1>5, <1>6, <1>7, <2>2 DEF TransfersApart
<1>8. CASE u \in Staged
  <2>1. PICK n \in DOMAIN slots : slots[n].user = u
    BY <1>8 DEF Staged, ToSet
  <2>2. {s \in ToSet(slots) : s.user = u} = {slots[n]}
    BY <2>1 DEF ToSet, SlotsAreCurrent
  <2> DEFINE r == [transfer |-> slots[n].transfer, moved |-> slots[n].payload,
                   sized |-> host[u]]
  <2>3. records' = records \cup {r}
    BY <2>2 DEF Release
  <2>4. slots[n] \in Slot
    BY <1>1, <2>1
  <2>5. r.sized = r.moved /\ r \in Record
    BY <2>1, <2>4 DEF SlotsAreCurrent, Slot, Record
  <2>6. r \notin records
    BY <2>1 DEF TransfersApart
  <2>7. IsFiniteSet(records') /\ Cardinality(records') = Cardinality(records) + 1
    BY <1>1, <2>3, <2>6, FS_AddElement
  <2>8. \A i \in DOMAIN slots' : slots'[i].transfer # slots[n].transfer
    BY <1>3, <2>1 DEF TransfersApart
  <2>9. TransfersApart'
    BY <1>3, <2>3, <2>5, <2>8 DEF TransfersApart
  <2>10. Cardinality(records) \in Nat /\ Len(slots) \in Nat
    BY <1>1, FS_CardinalityType
  <2>11. records' \subseteq Record'
    <3> HIDE DEF r
    <3> QED BY <1>1, <1>2, <2>3, <2>5
  <2>12. Len(slots') = Len(slots) - 1
    BY <1>4, <1>8
  <2>13. Len(slots') + Cardinality(records') = Len(slots) + Cardinality(records)
    BY <2>7, <2>10, <2>12
  <2>14. slots' \in Seq(Slot)'
    BY <1>2, <1>4
  <2>15. QED
    BY <1>5, <1>6, <1>8, <2>7, <2>9, <2>11, <2>12, <2>13, <2>14
<1>9. QED
  BY <1>7, <1>8

(* The slots a dict holds at most.                                         *)
LEMMA StagedAlone ==
  ASSUME StoreTypes, SlotsAreCurrent, NEW u \in Users, Staged = {u}
  PROVE  Len(slots) <= 1
<1>1. slots \in Seq(Slot)
  BY DEF StoreTypes
<1>2. \A i \in DOMAIN slots : slots[i].user = u
  BY DEF Staged, ToSet
<1>3. \A i, j \in DOMAIN slots : i = j
  BY <1>2 DEF SlotsAreCurrent
<1>4. CASE Len(slots) >= 2
  <2>1. 1 \in DOMAIN slots /\ 2 \in DOMAIN slots
    BY <1>1, <1>4
  <2>2. QED
    BY <1>3, <2>1
<1>5. QED
  BY <1>1, <1>4

(* The victim is another memory's slot.                                    *)
LEMMA OldestIsAnother ==
  ASSUME StoreTypes, NEW u \in Users, OverCapacity, Staged # {u}
  PROVE  Oldest(u) \in Staged \ {u} /\ Oldest(u) \in Users
<1> DEFINE others == {i \in DOMAIN slots : slots[i].user # u}
<1>1. slots \in Seq(Slot) /\ DOMAIN slots = 1..Len(slots)
  BY DEF StoreTypes
<1>2. Len(slots) > 0
  BY <1>1, PinnedStoreAssumption DEF OverCapacity
<1>3. slots[1].user \in Staged
  BY <1>1, <1>2 DEF Staged, ToSet
<1>4. others # {}
  BY <1>3 DEF Staged, ToSet
<1>5. others \subseteq Nat
  BY <1>1
<1>6. Min(others) \in others
  <2> HIDE DEF others
  <2> QED BY <1>4, <1>5, MinIsLeast
<1>7. Oldest(u) = slots[Min(others)].user
  BY DEF Oldest
<1>8. slots[Min(others)] \in Slot
  BY <1>1, <1>6
<1>9. QED
  BY <1>6, <1>7, <1>8 DEF Staged, ToSet, Slot

-----------------------------------------------------------------------------
(* What the caller is at.                                                  *)

LEMMA TaskShape ==
  ASSUME StoreTypes, NEW t \in Threads
  PROVE  /\ thread[t] \in Tasks
         /\ IsFree(t) <=> thread[t].op \in {"idle", "raised"}
         /\ thread[t].op = "insert" => thread[t].user \in Users /\ thread[t].payload \in Payloads
         /\ thread[t].op \in {"release", "pop"} => thread[t].user \in Users
         /\ thread[t].op \in Staging =>
              thread[t].todo \in Seq(Request) /\ thread[t].hands \in BOOLEAN
         /\ thread[t].op = "evicting" => thread[t].victim \in Users
         /\ thread[t].op = "copied" => thread[t].transfer = transfers
<1>1. thread[t] \in Tasks
  BY DEF StoreTypes
<1>2. CASE thread[t] \in [op : {"idle", "raised"}]
  BY <1>1, <1>2 DEF IsFree, Idle, Raised, Staging
<1>3. CASE thread[t] \in [op : {"insert"}, user : Users, payload : Payloads]
  BY <1>1, <1>3 DEF IsFree, Idle, Raised, Staging
<1>4. CASE thread[t] \in [op : {"release", "pop"}, user : Users]
  BY <1>1, <1>4 DEF IsFree, Idle, Raised, Staging
<1>5. CASE thread[t] \in [op : {"check", "evict", "hand"}, todo : Seq(Request), hands : BOOLEAN]
  BY <1>1, <1>5 DEF IsFree, Idle, Raised, Staging
<1>6. CASE thread[t] \in [op : {"copied"}, transfer : {transfers}, todo : Seq(Request),
                           hands : BOOLEAN]
  BY <1>1, <1>6 DEF IsFree, Idle, Raised, Staging
<1>7. CASE thread[t] \in [op : {"evicting"}, victim : Users, todo : Seq(Request),
                           hands : BOOLEAN]
  BY <1>1, <1>7 DEF IsFree, Idle, Raised, Staging
<1>8. QED
  BY <1>1, <1>2, <1>3, <1>4, <1>5, <1>6, <1>7 DEF Tasks

(* The memory a staging caller is at.                                      *)
LEMMA CurrentRequest ==
  ASSUME NEW w \in Threads, StoreInv(w), thread[w].op \in Staging
  PROVE  /\ thread[w].todo \in Seq(Request) /\ Len(thread[w].todo) > 0
         /\ Current(w) \in Request
         /\ Current(w).payload = host[Current(w).user]
<1>1. thread[w].todo \in Seq(Request) /\ thread[w].todo # <<>>
  BY TaskShape DEF StoreInv, TaskInv
<1>2. Len(thread[w].todo) > 0 /\ 1 \in DOMAIN thread[w].todo
  BY <1>1
<1>3. QED
  BY <1>1, <1>2 DEF StoreInv, TaskInv, Current

(* A task in the state it names.                                           *)
LEMMA AtIsTask ==
  ASSUME NEW w \in Threads, StoreInv(w), thread[w].op \in Staging,
         NEW op \in {"check", "evict", "hand"}
  PROVE  At(w, op) \in Tasks
<1>1. thread[w].todo \in Seq(Request) /\ thread[w].hands \in BOOLEAN
  BY TaskShape DEF StoreInv
<1>2. QED
  BY <1>1 DEF At, Tasks

(* After a memory comes the next one, resolved with it, or nothing.        *)
LEMMA ProceedIsTask ==
  ASSUME NEW w \in Threads, StoreInv(w), thread[w].op \in Staging
  PROVE  /\ Proceed(w) \in Tasks
         /\ Proceed(w).op \in {"idle", "check"}
         /\ Proceed(w).op = "check" =>
              /\ Proceed(w).todo # <<>>
              /\ \A i \in DOMAIN Proceed(w).todo :
                   Proceed(w).todo[i].payload = host[Proceed(w).todo[i].user]
<1>1. thread[w].todo \in Seq(Request) /\ Len(thread[w].todo) > 0
  BY CurrentRequest
<1>2. thread[w].hands \in BOOLEAN
  BY TaskShape DEF StoreInv
<1>3. CASE Len(thread[w].todo) = 1
  BY <1>3 DEF Proceed, Idle, Tasks
<1>4. CASE Len(thread[w].todo) # 1
  <2> DEFINE rest == Tail(thread[w].todo)
  <2>1. rest \in Seq(Request) /\ rest # <<>> /\ Len(rest) = Len(thread[w].todo) - 1
    <3>1. thread[w].todo # <<>>
      BY <1>1
    <3>2. rest \in Seq(Request) /\ Len(rest) = Len(thread[w].todo) - 1
      BY <1>1, <3>1, HeadTailProperties
    <3> HIDE DEF rest
    <3>3. Len(thread[w].todo) \in Nat
      BY <1>1
    <3>4. Len(rest) # 0
      BY <1>4, <3>2, <3>3
    <3>5. QED
      BY <3>2, <3>4, EmptySeq
  <2>2. \A i \in DOMAIN rest : i + 1 \in DOMAIN thread[w].todo /\ rest[i] = thread[w].todo[i + 1]
    BY <1>1, <2>1
  <2>3. \A i \in DOMAIN rest : rest[i].payload = host[rest[i].user]
    BY <2>2 DEF StoreInv, TaskInv
  <2>4. Proceed(w) = [op |-> "check", todo |-> rest, hands |-> thread[w].hands]
    BY <1>4 DEF Proceed
  <2> HIDE DEF rest
  <2>5. QED
    BY <1>2, <2>1, <2>3, <2>4 DEF Tasks
<1>5. QED
  BY <1>3, <1>4

(* A step that only moves the caller on leaves the pool as it was.         *)
LEMMA OnlyTaskChanges ==
  ASSUME NEW w, Threads = {w}, StoreInv(w), thread[w].op # "copied",
         NEW task \in Tasks, task.op # "copied",
         thread' = [thread EXCEPT ![w] = task],
         UNCHANGED <<host, slots, records, transfers>>
  PROVE  StoreTypes' /\ PoolInv(w)' /\ thread'[w] = task /\ Staged' = Staged
<1>1. thread'[w] = task /\ thread' \in [Threads -> Tasks]
  BY DEF StoreInv, StoreTypes
<1>2. Tasks' = Tasks /\ Slot' = Slot /\ Record' = Record
  BY DEF Tasks, Slot, Record
<1>3. StoreTypes'
  BY <1>1, <1>2 DEF StoreInv, StoreTypes
<1>4. PoolInv(w)'
  BY <1>1 DEF StoreInv, PoolInv, SlotsAreCurrent, TransfersApart, Outstanding
<1>5. QED
  BY <1>1, <1>3, <1>4 DEF Staged, ToSet

(* On to the next memory, or to handing this one out.                      *)
LEMMA HandingIsTask ==
  ASSUME NEW w \in Threads, StoreInv(w), thread[w].op \in Staging, host' = host,
         thread'[w] = Handing(w), Current(w).user \in Staged', Len(slots') <= Slots
  PROVE  Handing(w) \in Tasks /\ Handing(w).op \in {"idle", "check", "hand"} /\ TaskInv(w)'
<1>1. thread[w].todo \in Seq(Request) /\ thread[w].todo # <<>>
  BY CurrentRequest
<1>2. CASE thread[w].hands
  <2>1. Handing(w) = At(w, "hand")
    BY <1>2 DEF Handing
  <2>2. Handing(w) \in Tasks /\ Handing(w).op = "hand" /\ Handing(w).todo = thread[w].todo
    <3>1. At(w, "hand") \in Tasks
      BY AtIsTask
    <3>2. At(w, "hand").op = "hand" /\ At(w, "hand").todo = thread[w].todo
      BY DEF At
    <3>3. QED
      BY <2>1, <3>1, <3>2
  <2>3. Current(w)' = Current(w)
    BY <2>2 DEF Current
  <2>4. TaskInv(w)'
    BY <1>1, <2>2, <2>3 DEF StoreInv, TaskInv, Staging
  <2>5. QED
    BY <2>2, <2>4
<1>3. CASE ~thread[w].hands
  <2>1. Handing(w) = Proceed(w)
    BY <1>3 DEF Handing
  <2>2. TaskInv(w)'
    BY <2>1, ProceedIsTask DEF TaskInv, Staging
  <2>3. QED
    BY <2>1, <2>2, ProceedIsTask
<1>4. QED
  BY <1>2, <1>3

(* A step that releases a slot and moves the caller on.                    *)
LEMMA ReleaseMovesOn ==
  ASSUME NEW w, Threads = {w}, StoreInv(w), thread[w].op # "copied",
         NEW u \in Users, Release(u),
         NEW task \in Tasks, task.op # "copied",
         thread' = [thread EXCEPT ![w] = task],
         UNCHANGED <<host, transfers>>
  PROVE  /\ StoreTypes' /\ PoolInv(w)'
         /\ thread'[w] = task
         /\ Staged' = Staged \ {u}
         /\ Len(slots') = IF u \in Staged THEN Len(slots) - 1 ELSE Len(slots)
<1>1. thread'[w] = task /\ thread' \in [Threads -> Tasks]
  BY DEF StoreInv, StoreTypes
<1>2. Tasks' = Tasks
  BY DEF Tasks
<1>3. StoreTypes /\ SlotsAreCurrent /\ TransfersApart
  BY DEF StoreInv, PoolInv
<1>4. /\ slots' \in Seq(Slot)'
      /\ records' \subseteq Record' /\ IsFiniteSet(records')
      /\ SlotsAreCurrent'
      /\ TransfersApart'
      /\ Len(slots') + Cardinality(records') = Len(slots) + Cardinality(records)
      /\ Staged' = Staged \ {u}
      /\ Len(slots') = IF u \in Staged THEN Len(slots) - 1 ELSE Len(slots)
  BY <1>3, ReleaseKeepsPool
<1>5. StoreTypes'
  BY <1>1, <1>2, <1>3, <1>4 DEF StoreTypes
<1>6. Outstanding(w) = 0 /\ Outstanding(w)' = 0
  BY <1>1 DEF Outstanding
<1>7. transfers' = Len(slots') + Cardinality(records') + Outstanding(w)'
  BY <1>4, <1>6 DEF StoreInv, PoolInv
<1>8. PoolInv(w)'
  BY <1>1, <1>4, <1>7 DEF PoolInv
<1>9. QED
  BY <1>1, <1>4, <1>5, <1>8

-----------------------------------------------------------------------------
(* The steps of registration.                                              *)

LEMMA StoreInit ==
  ASSUME NEW w, Threads = {w}, Init
  PROVE  StoreInv(w)
<1>1. slots = <<>> /\ records = {} /\ transfers = 0 /\ thread[w].op = "idle"
  BY DEF Init, Idle
<1>2. IsFiniteSet({}) /\ Cardinality({}) = 0
  BY FS_EmptySet
<1>3. StoreTypes
  <2>1. thread \in [Threads -> Tasks]
    BY DEF Init, Idle, Tasks
  <2>2. host \in [Users -> Payloads \cup {NoPayload}]
    BY DEF Init
  <2>3. slots \in Seq(Slot)
    BY <1>1
  <2>4. QED
    BY <1>1, <1>2, <2>1, <2>2, <2>3, PinnedStoreAssumption DEF StoreTypes
<1>4. PoolInv(w)
  BY <1>1, <1>2 DEF PoolInv, SlotsAreCurrent, TransfersApart, Outstanding
<1>5. TaskInv(w)
  BY <1>1, PinnedStoreAssumption DEF TaskInv, Staging
<1>6. QED
  BY <1>3, <1>4, <1>5 DEF StoreInv

LEMMA BeginAddKeepsInv ==
  ASSUME NEW w, Threads = {w}, StoreInv(w), NEW u \in Users, NEW p \in Payloads,
         BeginAdd(w, u, p)
  PROVE  StoreInv(w)'
<1> DEFINE task == [op |-> "insert", user |-> u, payload |-> p]
<1>1. thread[w].op \in {"idle", "raised"}
  BY TaskShape DEF BeginAdd, StoreInv
<1>2. task \in Tasks /\ task.op # "copied"
  BY DEF Tasks
<1>3. /\ StoreTypes' /\ PoolInv(w)' /\ thread'[w] = task /\ Staged' = Staged \ {u}
      /\ Len(slots') = IF u \in Staged THEN Len(slots) - 1 ELSE Len(slots)
  BY <1>1, <1>2, ReleaseMovesOn DEF BeginAdd
<1>4. Len(slots) \in Nat /\ Len(slots) <= Slots
  BY <1>1 DEF StoreInv, StoreTypes, TaskInv
<1>5. TaskInv(w)'
  BY <1>3, <1>4, PinnedStoreAssumption DEF TaskInv, Staging
<1>6. QED
  BY <1>3, <1>5 DEF StoreInv

(* A registration that ends, by an insertion or a removal: the entry of a  *)
(* memory that is not staged changes.                                      *)
LEMMA HostEntryChanges ==
  ASSUME NEW w, Threads = {w}, StoreInv(w), thread[w].op \in {"insert", "pop"},
         NEW x \in Payloads \cup {NoPayload},
         host' = [host EXCEPT ![thread[w].user] = x],
         thread' = [thread EXCEPT ![w] = Idle],
         UNCHANGED <<slots, records, transfers>>
  PROVE  StoreInv(w)'
<1>1. thread[w].user \in Users /\ thread[w].user \notin Staged
  BY TaskShape DEF StoreInv, TaskInv
<1>2. \A i \in DOMAIN slots : slots[i].user # thread[w].user
  BY <1>1 DEF Staged, ToSet
<1>3. thread' \in [Threads -> Tasks]' /\ thread'[w].op = "idle"
  <2>1. Idle \in Tasks' /\ Tasks' = Tasks
    BY DEF Idle, Tasks
  <2>2. QED
    BY <2>1 DEF StoreInv, StoreTypes, Idle
<1>4. StoreTypes'
  <2>1. Slot' = Slot /\ Record' = Record
    BY DEF Slot, Record
  <2>2. host' \in [Users -> Payloads \cup {NoPayload}]
    BY DEF StoreInv, StoreTypes
  <2>3. QED
    BY <1>3, <2>1, <2>2 DEF StoreInv, StoreTypes
<1>5. SlotsAreCurrent'
  <2>1. slots \in Seq(Slot)
    BY DEF StoreInv, StoreTypes
  <2>2. ASSUME NEW i \in DOMAIN slots PROVE slots[i].payload = host'[slots[i].user]
    <3>1. slots[i].user \in Users
      <4>1. slots[i] \in Slot
        BY <2>1
      <4>2. QED
        BY <4>1 DEF Slot
    <3>2. host'[slots[i].user] = host[slots[i].user]
      BY <1>2, <3>1 DEF StoreInv, StoreTypes
    <3>3. QED
      BY <3>2 DEF StoreInv, PoolInv, SlotsAreCurrent
  <2>3. QED
    <3>1. slots' = slots
      OBVIOUS
    <3>2. QED
      BY <2>2, <3>1 DEF StoreInv, PoolInv, SlotsAreCurrent
<1>6. PoolInv(w)'
  BY <1>3, <1>5 DEF StoreInv, PoolInv, TransfersApart, Outstanding
<1>7. TaskInv(w)'
  BY <1>3 DEF StoreInv, TaskInv, Staging
<1>8. QED
  BY <1>4, <1>6, <1>7 DEF StoreInv

LEMMA InsertKeepsInv ==
  ASSUME NEW w, Threads = {w}, StoreInv(w), Insert(w)
  PROVE  StoreInv(w)'
<1>1. thread[w].payload \in Payloads
  BY TaskShape DEF Insert, StoreInv
<1>2. QED
  BY <1>1, HostEntryChanges DEF Insert

LEMMA PopKeepsInv ==
  ASSUME NEW w, Threads = {w}, StoreInv(w), Pop(w)
  PROVE  StoreInv(w)'
BY HostEntryChanges DEF Pop

LEMMA BeginRemoveKeepsInv ==
  ASSUME NEW w, Threads = {w}, StoreInv(w), NEW u \in Users, BeginRemove(w, u)
  PROVE  StoreInv(w)'
<1> DEFINE task == [op |-> "release", user |-> u]
<1>1. thread[w].op \in {"idle", "raised"}
  BY TaskShape DEF BeginRemove, StoreInv
<1>2. task \in Tasks /\ task.op # "copied"
  BY DEF Tasks
<1>3. StoreTypes' /\ PoolInv(w)' /\ thread'[w] = task
  BY <1>1, <1>2, OnlyTaskChanges DEF BeginRemove
<1>4. TaskInv(w)'
  BY <1>1, <1>3 DEF BeginRemove, StoreInv, TaskInv, Staging
<1>5. QED
  BY <1>3, <1>4 DEF StoreInv

LEMMA ReleaseForRemoveKeepsInv ==
  ASSUME NEW w, Threads = {w}, StoreInv(w), ReleaseForRemove(w)
  PROVE  StoreInv(w)'
<1> DEFINE u == thread[w].user
           task == [op |-> "pop", user |-> u]
<1>1. thread[w].op = "release" /\ u \in Users
  BY TaskShape DEF ReleaseForRemove, StoreInv
<1>2. task \in Tasks /\ task.op # "copied"
  BY <1>1 DEF Tasks
<1>3. /\ StoreTypes' /\ PoolInv(w)' /\ thread'[w] = task /\ Staged' = Staged \ {u}
      /\ Len(slots') = IF u \in Staged THEN Len(slots) - 1 ELSE Len(slots)
  BY <1>1, <1>2, ReleaseMovesOn DEF ReleaseForRemove
<1>4. Len(slots) \in Nat /\ Len(slots) <= Slots
  BY <1>1 DEF StoreInv, StoreTypes, TaskInv
<1>5. TaskInv(w)'
  BY <1>3, <1>4, PinnedStoreAssumption DEF TaskInv, Staging
<1>6. QED
  BY <1>3, <1>5 DEF StoreInv

(* A release by a caller that is done, of a memory staged or not.          *)
LEMMA ReleaseIdlesKeepsInv ==
  ASSUME NEW w, Threads = {w}, StoreInv(w), NEW u \in Users, IsFree(w), Release(u),
         thread' = [thread EXCEPT ![w] = Idle], UNCHANGED <<host, transfers>>
  PROVE  StoreInv(w)' /\ Staged' = Staged \ {u}
<1>1. thread[w].op \in {"idle", "raised"}
  BY TaskShape DEF StoreInv
<1>2. Idle \in Tasks /\ Idle.op = "idle"
  BY DEF Tasks, Idle
<1>3. /\ StoreTypes' /\ PoolInv(w)' /\ thread'[w] = Idle /\ Staged' = Staged \ {u}
      /\ Len(slots') = IF u \in Staged THEN Len(slots) - 1 ELSE Len(slots)
  BY <1>1, <1>2, ReleaseMovesOn
<1>4. Len(slots) \in Nat /\ Len(slots) <= Slots
  BY <1>1 DEF StoreInv, StoreTypes, TaskInv
<1>5. TaskInv(w)'
  BY <1>2, <1>3, <1>4, PinnedStoreAssumption DEF TaskInv, Staging
<1>6. QED
  BY <1>3, <1>5 DEF StoreInv

LEMMA ReleaseStagingKeepsInv ==
  ASSUME NEW w, Threads = {w}, StoreInv(w), NEW u \in Users, ReleaseStaging(w, u)
  PROVE  StoreInv(w)'
BY ReleaseIdlesKeepsInv DEF ReleaseStaging

(* A caller that takes no notice of what it got, or of what was raised.    *)
LEMMA IdlesKeepsInv ==
  ASSUME NEW w, Threads = {w}, StoreInv(w), IsFree(w),
         thread' = [thread EXCEPT ![w] = Idle],
         UNCHANGED <<host, slots, records, transfers>>
  PROVE  StoreInv(w)' /\ Staged' = Staged
<1>1. thread[w].op \in {"idle", "raised"}
  BY TaskShape DEF StoreInv
<1>2. Idle \in Tasks /\ Idle.op = "idle"
  BY DEF Tasks, Idle
<1>3. StoreTypes' /\ PoolInv(w)' /\ thread'[w] = Idle /\ Staged' = Staged
  BY <1>1, <1>2, OnlyTaskChanges
<1>4. TaskInv(w)'
  BY <1>1, <1>2, <1>3 DEF StoreInv, TaskInv, Staging
<1>5. QED
  BY <1>3, <1>4 DEF StoreInv

-----------------------------------------------------------------------------
(* The steps of staging.                                                   *)

LEMMA BeginStagingKeepsInv ==
  ASSUME NEW w, Threads = {w}, StoreInv(w), NEW users \in Seq(Users), users # <<>>,
         NEW hands \in BOOLEAN, BeginStaging(w, users, hands)
  PROVE  StoreInv(w)'
<1> DEFINE todo == [i \in DOMAIN users |-> [user |-> users[i], payload |-> host[users[i]]]]
           task == [op |-> "check", hands |-> hands, todo |-> todo]
<1>1. thread[w].op \in {"idle", "raised"}
  BY TaskShape DEF BeginStaging, StoreInv
<1>2. Len(users) \in Nat /\ Len(users) > 0 /\ DOMAIN users = 1..Len(users)
  BY EmptySeq
<1>3. ASSUME NEW i \in DOMAIN users
      PROVE  [user |-> users[i], payload |-> host[users[i]]] \in Request
  <2>1. users[i] \in Registered
    BY DEF BeginStaging, ToSet
  <2>2. users[i] \in Users /\ host[users[i]] \in Payloads
    BY <2>1 DEF Registered, StoreInv, StoreTypes
  <2>3. QED
    BY <2>2 DEF Request
<1>4. todo \in Seq(Request) /\ Len(todo) = Len(users)
  BY <1>2, <1>3
<1>5. todo # <<>>
  BY <1>2, <1>4, EmptySeq
<1>6. \A i \in DOMAIN todo : todo[i].payload = host[todo[i].user]
  OBVIOUS
<1>7. thread' = [thread EXCEPT ![w] = task] /\ UNCHANGED <<host, slots, records, transfers>>
  BY DEF BeginStaging
<1> HIDE DEF todo
<1>8. task \in Tasks /\ task.op = "check" /\ task.todo = todo
  BY <1>4 DEF Tasks
<1> HIDE DEF task
<1>9. StoreTypes' /\ PoolInv(w)' /\ thread'[w] = task
  BY <1>1, <1>7, <1>8, OnlyTaskChanges
<1>10. TaskInv(w)'
  BY <1>1, <1>5, <1>6, <1>7, <1>8, <1>9 DEF StoreInv, TaskInv, Staging
<1>11. QED
  BY <1>9, <1>10 DEF StoreInv

(* The transfer that is issued is one more than all there were.            *)
LEMMA CopyKeepsInv ==
  ASSUME NEW w, Threads = {w}, StoreInv(w), thread[w].op = "check",
         Current(w).user \notin Staged, Copy(w), UNCHANGED <<host, slots, records>>
  PROVE  StoreInv(w)'
<1> DEFINE task == [op |-> "copied", transfer |-> transfers + 1,
                    todo |-> thread[w].todo, hands |-> thread[w].hands]
<1>1. /\ thread[w].todo \in Seq(Request) /\ thread[w].todo # <<>>
      /\ thread[w].hands \in BOOLEAN
  BY TaskShape DEF StoreInv, TaskInv, Staging
<1>2. transfers' = transfers + 1 /\ transfers \in Nat /\ transfers' \in 0..MaxTransfers
  BY PinnedStoreAssumption DEF Copy, StoreInv, StoreTypes
<1>3. thread'[w] = task /\ thread' = [thread EXCEPT ![w] = task]
  BY DEF Copy, StoreInv, StoreTypes
<1>4. slots \in Seq(Slot) /\ records \subseteq Record /\ IsFiniteSet(records)
  BY DEF StoreInv, StoreTypes
<1>5. Slot \subseteq Slot' /\ Record \subseteq Record'
  BY <1>2 DEF Slot, Record
<1>6. task \in Tasks'
  BY <1>1, <1>2 DEF Tasks
<1>7. StoreTypes'
  <2>1. thread' \in [Threads -> Tasks']
    BY <1>3, <1>6 DEF StoreInv, StoreTypes
  <2>2. slots \in Seq(Slot')
    BY <1>4, <1>5
  <2>3. records \subseteq Record'
    BY <1>4, <1>5
  <2>4. QED
    BY <1>2, <1>4, <2>1, <2>2, <2>3 DEF StoreInv, StoreTypes
<1>8. PoolInv(w)'
  <2>1. ASSUME NEW i \in DOMAIN slots PROVE slots[i].transfer # transfers + 1
    <3>1. slots[i] \in Slot
      BY <1>4
    <3>2. QED
      BY <1>2, <3>1 DEF Slot
  <2>2. ASSUME NEW r \in records PROVE r.transfer # transfers + 1
    BY <1>2, <1>4 DEF Record
  <2>3. Outstanding(w) = 0 /\ Outstanding(w)' = 1
    BY <1>3 DEF Outstanding
  <2>4. Len(slots) \in Nat /\ Cardinality(records) \in Nat
    BY <1>4, FS_CardinalityType
  <2>5. transfers' = Len(slots') + Cardinality(records') + Outstanding(w)'
    BY <1>2, <2>3, <2>4 DEF StoreInv, PoolInv
  <2>6. SlotsAreCurrent' /\ TransfersApart'
    BY DEF StoreInv, PoolInv, SlotsAreCurrent, TransfersApart
  <2>7. QED
    BY <1>3, <2>1, <2>2, <2>5, <2>6 DEF PoolInv
<1>9. TaskInv(w)'
  <2>1. thread'[w].op = "copied" /\ thread'[w].todo = thread[w].todo
    BY <1>3
  <2>2. Current(w)' = Current(w) /\ Staged' = Staged
    BY <2>1 DEF Current, Staged, ToSet
  <2>3. QED
    BY <2>1, <2>2 DEF StoreInv, TaskInv, Staging
<1>10. QED
  BY <1>7, <1>8, <1>9 DEF StoreInv

LEMMA CheckKeepsInv ==
  ASSUME NEW w, Threads = {w}, StoreInv(w), Check(w)
  PROVE  StoreInv(w)'
<1>1. thread[w].op = "check" /\ UNCHANGED <<host, slots, records>>
  BY DEF Check
<1>2. CASE Current(w).user \in Staged
  <2>1. thread' = [thread EXCEPT ![w] = Handing(w)] /\ UNCHANGED transfers
    BY <1>2 DEF Check
  <2>2. thread'[w] = Handing(w)
    BY <2>1 DEF StoreInv, StoreTypes
  <2>3. Current(w).user \in Staged' /\ Len(slots') <= Slots
    BY <1>1, <1>2 DEF Staged, ToSet, StoreInv, TaskInv
  <2>4. Handing(w) \in Tasks /\ Handing(w).op \in {"idle", "check", "hand"} /\ TaskInv(w)'
    BY <1>1, <2>2, <2>3, HandingIsTask DEF Staging
  <2>5. StoreTypes' /\ PoolInv(w)'
    BY <1>1, <2>1, <2>4, OnlyTaskChanges
  <2>6. QED
    BY <2>4, <2>5 DEF StoreInv
<1>3. CASE Current(w).user \notin Staged /\ Copy(w)
  BY <1>1, <1>3, CopyKeepsInv
<1>4. CASE Current(w).user \notin Staged /\ ~Copy(w)
  <2>1. thread' = [thread EXCEPT ![w] = Raised] /\ UNCHANGED transfers
    BY <1>4 DEF Check
  <2>2. Raised \in Tasks /\ Raised.op = "raised"
    BY DEF Raised, Tasks
  <2>3. StoreTypes' /\ PoolInv(w)' /\ thread'[w] = Raised
    BY <1>1, <2>1, <2>2, OnlyTaskChanges
  <2>4. TaskInv(w)'
    BY <1>1, <2>2, <2>3 DEF StoreInv, TaskInv, Staging
  <2>5. QED
    BY <2>3, <2>4 DEF StoreInv
<1>5. QED
  BY <1>2, <1>3, <1>4

(* The slot of the transfer goes in last, under an id that has none.       *)
LEMMA PutSlotKeepsInv ==
  ASSUME NEW w, Threads = {w}, StoreInv(w), PutSlot(w)
  PROVE  StoreInv(w)'
<1> DEFINE u == Current(w).user
           slot == [user |-> u, payload |-> Current(w).payload,
                    transfer |-> thread[w].transfer]
           task == At(w, "evict")
<1>1. thread[w].op = "copied" /\ UNCHANGED <<host, records, transfers>>
  BY DEF PutSlot
<1>2. /\ Current(w) \in Request /\ Current(w).payload = host[u]
      /\ thread[w].transfer = transfers /\ u \notin Staged
  BY <1>1, CurrentRequest, TaskShape DEF StoreInv, TaskInv, Staging
<1>3. slots' = Append(slots, slot)
  BY <1>2 DEF PutSlot
<1>4. slots \in Seq(Slot) /\ records \subseteq Record /\ IsFiniteSet(records)
  BY DEF StoreInv, StoreTypes
<1>5. Len(slots) \in Nat /\ Cardinality(records) \in Nat
  BY <1>4, FS_CardinalityType
<1>6. transfers = Len(slots) + Cardinality(records) + 1 /\ transfers \in 0..MaxTransfers
  BY <1>1 DEF StoreInv, StoreTypes, PoolInv, Outstanding
<1>7. slot \in Slot
  <2>1. transfers \in 1..transfers
    BY <1>5, <1>6, PinnedStoreAssumption
  <2>2. QED
    BY <1>2, <2>1 DEF Slot, Request
<1> HIDE DEF slot
<1>8. /\ slots' \in Seq(Slot) /\ Len(slots') = Len(slots) + 1
      /\ DOMAIN slots' = DOMAIN slots \cup {Len(slots) + 1}
      /\ \A i \in DOMAIN slots : slots'[i] = slots[i]
      /\ slots'[Len(slots) + 1] = slot
      /\ Len(slots) + 1 \notin DOMAIN slots
  BY <1>3, <1>4, <1>7
<1>9. slot.user = u /\ slot.payload = host[u] /\ slot.transfer = transfers
  BY <1>2 DEF slot
<1>10. \A i \in DOMAIN slots : slots[i].user # u
  BY <1>2 DEF Staged, ToSet
<1>11. /\ \A i \in DOMAIN slots : slots[i].transfer # transfers
       /\ \A r \in records : r.transfer # transfers
  BY <1>1, <1>2 DEF StoreInv, PoolInv
<1>12. SlotsAreCurrent'
  <2>1. \A i, j \in DOMAIN slots' : slots'[i].user = slots'[j].user => i = j
    BY <1>8, <1>9, <1>10 DEF StoreInv, PoolInv, SlotsAreCurrent
  <2>2. \A i \in DOMAIN slots' : slots'[i].payload = host[slots'[i].user]
    BY <1>8, <1>9 DEF StoreInv, PoolInv, SlotsAreCurrent
  <2>3. QED
    BY <1>1, <2>1, <2>2 DEF SlotsAreCurrent
<1>13. TransfersApart'
  BY <1>1, <1>8, <1>9, <1>11 DEF StoreInv, PoolInv, TransfersApart
<1>14. task \in Tasks /\ task.op = "evict" /\ task.todo = thread[w].todo
  <2>1. At(w, "evict") \in Tasks
    BY <1>1, AtIsTask DEF Staging
  <2>2. QED
    BY <2>1 DEF At
<1>15. thread' = [thread EXCEPT ![w] = task]
  BY DEF PutSlot
<1> HIDE DEF task
<1>16. thread'[w] = task /\ StoreTypes'
  <2>1. Slot' = Slot /\ Record' = Record /\ Tasks' = Tasks
    BY <1>1 DEF Slot, Record, Tasks
  <2>2. thread'[w] = task /\ thread' \in [Threads -> Tasks]
    BY <1>14, <1>15 DEF StoreInv, StoreTypes
  <2>3. QED
    BY <1>1, <1>8, <2>1, <2>2 DEF StoreInv, StoreTypes
<1>17. PoolInv(w)'
  <2>1. Outstanding(w)' = 0
    BY <1>14, <1>16 DEF Outstanding
  <2>2. transfers' = Len(slots') + Cardinality(records') + Outstanding(w)'
    BY <1>1, <1>5, <1>6, <1>8, <2>1
  <2>3. QED
    BY <1>12, <1>13, <1>14, <1>16, <2>2 DEF PoolInv
<1>18. TaskInv(w)'
  <2>1. Current(w)' = Current(w)
    BY <1>14, <1>16 DEF Current
  <2>2. u \in Staged'
    BY <1>8, <1>9 DEF Staged, ToSet
  <2>3. Len(slots') <= Slots + 1
    BY <1>1, <1>5, <1>8, PinnedStoreAssumption DEF StoreInv, TaskInv
  <2>4. QED
    BY <1>1, <1>14, <1>16, <2>1, <2>2, <2>3 DEF StoreInv, TaskInv, Staging
<1>19. QED
  BY <1>16, <1>17, <1>18 DEF StoreInv

LEMMA PickVictimKeepsInv ==
  ASSUME NEW w, Threads = {w}, StoreInv(w), PickVictim(w)
  PROVE  StoreInv(w)'
<1> DEFINE u == Current(w).user
           task == [op |-> "evicting", victim |-> Oldest(u),
                    todo |-> thread[w].todo, hands |-> thread[w].hands]
<1>1. thread[w].op = "evict" /\ UNCHANGED <<host, slots, records, transfers>>
  BY DEF PickVictim
<1>2. /\ thread[w].todo \in Seq(Request) /\ thread[w].todo # <<>>
      /\ thread[w].hands \in BOOLEAN
  BY <1>1, TaskShape DEF StoreInv, TaskInv, Staging
<1>3. Current(w) \in Request /\ u \in Users /\ u \in Staged
  BY <1>1, CurrentRequest DEF StoreInv, TaskInv, Staging, Request
<1>4. StoreTypes /\ SlotsAreCurrent
  BY DEF StoreInv, PoolInv
<1>5. Len(slots) \in Nat /\ Len(slots) <= Slots + 1
  BY <1>1, <1>4 DEF StoreInv, StoreTypes, TaskInv
<1>6. CASE OverCapacity /\ Staged # {u}
  <2>1. Oldest(u) \in Staged \ {u} /\ Oldest(u) \in Users
    BY <1>3, <1>4, <1>6, OldestIsAnother
  <2>2. thread' = [thread EXCEPT ![w] = task]
    BY <1>6 DEF PickVictim
  <2>3. task \in Tasks
    BY <1>2, <2>1 DEF Tasks
  <2>4. /\ task.op = "evicting" /\ task.todo = thread[w].todo
        /\ task.victim = Oldest(u)
    OBVIOUS
  <2> HIDE DEF task
  <2>5. StoreTypes' /\ PoolInv(w)' /\ thread'[w] = task /\ Staged' = Staged
    BY <1>1, <2>2, <2>3, <2>4, OnlyTaskChanges
  <2>6. Current(w)' = Current(w)
    BY <2>4, <2>5 DEF Current
  <2>7. TaskInv(w)'
    BY <1>1, <1>2, <1>3, <1>5, <2>1, <2>4, <2>5, <2>6 DEF StoreInv, TaskInv, Staging
  <2>8. QED
    BY <2>5, <2>7 DEF StoreInv
<1>7. CASE ~(OverCapacity /\ Staged # {u})
  <2>1. thread' = [thread EXCEPT ![w] = Handing(w)]
    BY <1>7 DEF PickVictim
  <2>2. thread'[w] = Handing(w)
    BY <2>1 DEF StoreInv, StoreTypes
  <2>3. Len(slots) <= Slots
    <3>1. CASE ~OverCapacity
      BY <1>5, <3>1, PinnedStoreAssumption DEF OverCapacity
    <3>2. CASE Staged = {u}
      <4>1. Len(slots) <= 1
        BY <1>3, <1>4, <3>2, StagedAlone
      <4>2. QED
        BY <1>5, <4>1, PinnedStoreAssumption
    <3>3. QED
      BY <1>7, <3>1, <3>2
  <2>4. u \in Staged' /\ Len(slots') <= Slots
    BY <1>1, <1>3, <2>3 DEF Staged, ToSet
  <2>5. Handing(w) \in Tasks /\ Handing(w).op \in {"idle", "check", "hand"} /\ TaskInv(w)'
    BY <1>1, <2>2, <2>4, HandingIsTask DEF Staging
  <2>6. StoreTypes' /\ PoolInv(w)'
    BY <1>1, <2>1, <2>5, OnlyTaskChanges
  <2>7. QED
    BY <2>5, <2>6 DEF StoreInv
<1>8. QED
  BY <1>6, <1>7

LEMMA ReleaseVictimKeepsInv ==
  ASSUME NEW w, Threads = {w}, StoreInv(w), ReleaseVictim(w)
  PROVE  StoreInv(w)'
<1> DEFINE v == thread[w].victim
<1>1. thread[w].op = "evicting" /\ UNCHANGED <<host, transfers>> /\ Release(v)
  BY DEF ReleaseVictim
<1>2. v \in Users /\ v \in Staged /\ v # Current(w).user /\ Current(w).user \in Staged
  BY <1>1, TaskShape DEF StoreInv, TaskInv
<1>3. thread' = [thread EXCEPT ![w] = Handing(w)] /\ thread'[w] = Handing(w)
  BY DEF ReleaseVictim, StoreInv, StoreTypes
<1>4. Staged' = Staged \ {v} /\ Len(slots') = Len(slots) - 1
  BY <1>1, <1>2, ReleaseKeepsPool DEF StoreInv, PoolInv
<1>5. Len(slots) \in Nat /\ Len(slots) <= Slots + 1
  BY <1>1 DEF StoreInv, StoreTypes, TaskInv
<1>6. Current(w).user \in Staged' /\ Len(slots') <= Slots
  BY <1>2, <1>4, <1>5, PinnedStoreAssumption
<1>7. Handing(w) \in Tasks /\ Handing(w).op \in {"idle", "check", "hand"} /\ TaskInv(w)'
  BY <1>1, <1>3, <1>6, HandingIsTask DEF Staging
<1>8. StoreTypes' /\ PoolInv(w)'
  BY <1>1, <1>2, <1>3, <1>7, ReleaseMovesOn
<1>9. QED
  BY <1>7, <1>8 DEF StoreInv

LEMMA HandKeepsInv ==
  ASSUME NEW w, Threads = {w}, StoreInv(w), Hand(w)
  PROVE  StoreInv(w)'
<1>1. thread[w].op = "hand" /\ UNCHANGED <<host, slots, records, transfers>>
  BY DEF Hand
<1>2. Current(w).user \in Staged
  BY <1>1 DEF StoreInv, TaskInv
<1>3. thread' = [thread EXCEPT ![w] = Proceed(w)]
  BY <1>2 DEF Hand
<1>4. /\ Proceed(w) \in Tasks /\ Proceed(w).op \in {"idle", "check"}
      /\ Proceed(w).op = "check" =>
           /\ Proceed(w).todo # <<>>
           /\ \A i \in DOMAIN Proceed(w).todo :
                Proceed(w).todo[i].payload = host[Proceed(w).todo[i].user]
  BY <1>1, ProceedIsTask DEF Staging
<1>5. StoreTypes' /\ PoolInv(w)' /\ thread'[w] = Proceed(w)
  BY <1>1, <1>3, <1>4, OnlyTaskChanges
<1>6. TaskInv(w)'
  BY <1>1, <1>4, <1>5 DEF StoreInv, TaskInv, Staging
<1>7. QED
  BY <1>5, <1>6 DEF StoreInv

-----------------------------------------------------------------------------
LEMMA StoreInvIsInductive ==
  ASSUME NEW w, Threads = {w}, StoreInv(w), [Next]_storeVars
  PROVE  StoreInv(w)'
<1>1. ASSUME NEW u \in Users, NEW p \in Payloads, BeginAdd(w, u, p)
      PROVE  StoreInv(w)'
  BY <1>1, BeginAddKeepsInv
<1>2. ASSUME NEW u \in Users, BeginRemove(w, u) PROVE StoreInv(w)'
  BY <1>2, BeginRemoveKeepsInv
<1>3. ASSUME NEW u \in Users, ReleaseStaging(w, u) PROVE StoreInv(w)'
  BY <1>3, ReleaseStagingKeepsInv
<1>4. ASSUME NEW u \in Users, BeginStaging(w, <<u>>, FALSE) PROVE StoreInv(w)'
  <2>1. <<u>> \in Seq(Users) /\ <<u>> # <<>>
    OBVIOUS
  <2>2. QED
    BY <1>4, <2>1, BeginStagingKeepsInv
<1>5. ASSUME NEW users \in Fetches, BeginStaging(w, users, TRUE) PROVE StoreInv(w)'
  <2>1. SeqOf(Users, MaxFetch) \subseteq Seq(Users)
    BY SeqOfIsSeq, PinnedStoreAssumption
  <2>2. users \in Seq(Users) /\ users # <<>>
    BY <2>1 DEF Fetches
  <2>3. QED
    BY <1>5, <2>2, BeginStagingKeepsInv
<1>6. CASE Work(w)
  BY <1>6, InsertKeepsInv, ReleaseForRemoveKeepsInv, PopKeepsInv, CheckKeepsInv,
     PutSlotKeepsInv, PickVictimKeepsInv, ReleaseVictimKeepsInv, HandKeepsInv DEF Work
<1>7. CASE UNCHANGED storeVars
  <2>1. /\ StoreTypes' = StoreTypes /\ Staged' = Staged /\ Current(w)' = Current(w)
        /\ SlotsAreCurrent' = SlotsAreCurrent /\ TransfersApart' = TransfersApart
        /\ Outstanding(w)' = Outstanding(w)
    BY <1>7 DEF storeVars, StoreTypes, Staged, Current, SlotsAreCurrent, TransfersApart,
                Outstanding, Slot, Record, Tasks
  <2>2. PoolInv(w)'
    BY <1>7, <2>1 DEF storeVars, StoreInv, PoolInv
  <2>3. TaskInv(w)'
    BY <1>7, <2>1 DEF storeVars, StoreInv, TaskInv
  <2>4. QED
    BY <2>1, <2>2, <2>3 DEF StoreInv
<1>8. QED
  BY <1>1, <1>2, <1>3, <1>4, <1>5, <1>6, <1>7 DEF Next

(* With one caller, whatever is registered, staged and released in         *)
(* whatever order and however transfers fail, StoreInv holds.              *)
THEOREM SingleCallerStore ==
  ASSUME NEW CONSTANT w, Threads = {w}
  PROVE  Spec => []StoreInv(w)
<1>1. Init => StoreInv(w)
  BY StoreInit
<1>2. StoreInv(w) /\ [Next]_storeVars => StoreInv(w)'
  BY StoreInvIsInductive
<1>3. QED
  BY <1>1, <1>2, PTL DEF Spec

(* The type of the store's state.                                          *)
THEOREM TypeCorrect ==
  ASSUME NEW CONSTANT w, Threads = {w}
  PROVE  Spec => []TypeOK
<1>1. StoreInv(w) => TypeOK
  <2> SUFFICES ASSUME StoreInv(w) PROVE TypeOK
    OBVIOUS
  <2>1. Slot \subseteq [user : Users, payload : Payloads, transfer : 1..MaxTransfers]
    BY PinnedStoreAssumption DEF Slot, StoreInv, StoreTypes
  <2>2. slots \in Seq([user : Users, payload : Payloads, transfer : 1..MaxTransfers])
    <3>1. slots \in Seq(Slot)
      BY DEF StoreInv, StoreTypes
    <3> HIDE DEF Slot
    <3>2. QED
      BY <2>1, <3>1, SeqMonotonic
  <2>3. \A r \in records : r.moved \in Payloads /\ r.transfer \in 1..MaxTransfers
    BY PinnedStoreAssumption DEF Record, StoreInv, StoreTypes
  <2>4. thread[w].op \in {"idle", "raised", "insert", "release", "pop", "check", "copied",
                          "evict", "evicting", "hand"}
    <3>1. thread[w] \in Tasks
      BY DEF StoreInv, StoreTypes
    <3>2. QED
      BY <3>1 DEF Tasks
  <2>5. host \in [Users -> Payloads \cup {NoPayload}] /\ transfers \in 0..MaxTransfers
    BY DEF StoreInv, StoreTypes
  <2>6. QED
    BY <2>2, <2>3, <2>4, <2>5 DEF TypeOK
<1>2. QED
  BY <1>1, SingleCallerStore, PTL

(* Nothing staged outlives a removal or a new registration under its id.   *)
THEOREM StagedCopiesAreCurrent ==
  ASSUME NEW CONSTANT w, Threads = {w}
  PROVE  Spec => []StagedIsCurrent
<1>1. StoreInv(w) => StagedIsCurrent
  BY DEF StoreInv, PoolInv, SlotsAreCurrent, StagedIsCurrent, ToSet
<1>2. QED
  BY <1>1, SingleCallerStore, PTL

(* No transfer is dropped from the metrics, counted twice, or recorded     *)
(* with the sizes of another payload.                                      *)
THEOREM EveryTransferIsRecorded ==
  ASSUME NEW CONSTANT w, Threads = {w}
  PROVE  Spec => []TransfersAccountedFor
<1>1. StoreInv(w) => TransfersAccountedFor
  <2> SUFFICES ASSUME StoreInv(w) PROVE TransfersAccountedFor
    OBVIOUS
  <2> DEFINE copying == {t \in Threads : thread[t].op = "copied"}
  <2>1. copying = IF thread[w].op = "copied" THEN {w} ELSE {}
    OBVIOUS
  <2>2. Cardinality({w}) = 1 /\ Cardinality({}) = 0
    BY FS_Singleton, FS_EmptySet
  <2> HIDE DEF copying
  <2>3. Cardinality(copying) = Outstanding(w)
    BY <2>1, <2>2 DEF Outstanding
  <2>4. transfers = Len(slots) + Cardinality(records) + Cardinality(copying)
    BY <2>3 DEF StoreInv, PoolInv
  <2>5. QED
    BY <2>4 DEF TransfersAccountedFor, copying, StoreInv, PoolInv, TransfersApart
<1>2. QED
  BY <1>1, SingleCallerStore, PTL

(* An eviction takes neither what is about to be handed out nor a slot too *)
(* few.                                                                    *)
THEOREM HandedOutIsStaged ==
  ASSUME NEW CONSTANT w, Threads = {w}
  PROVE  Spec => []HandsWhatItStaged
<1>1. StoreInv(w) => HandsWhatItStaged
  <2> SUFFICES ASSUME StoreInv(w) PROVE HandsWhatItStaged
    OBVIOUS
  <2>1. ASSUME thread[w].op = "hand"
        PROVE  \E s \in ToSet(slots) :
                 s.user = Current(w).user /\ s.payload = Current(w).payload
    <3>1. Current(w).payload = host[Current(w).user] /\ Current(w).user \in Staged
      BY <2>1, CurrentRequest DEF StoreInv, TaskInv, Staging
    <3>2. QED
      BY <3>1 DEF Staged, ToSet, StoreInv, PoolInv, SlotsAreCurrent
  <2>2. IsFree(w) => Len(slots) <= Slots
    BY TaskShape DEF StoreInv, TaskInv
  <2>3. QED
    BY <2>1, <2>2 DEF HandsWhatItStaged
<1>2. QED
  BY <1>1, SingleCallerStore, PTL

-----------------------------------------------------------------------------
(* The window.                                                             *)

Registering == {"insert", "release", "pop"}
Op == thread[Worker].op

(* The users of the loads that are in the window.                          *)
InWindow ==
  IF at = "rest" THEN {}
  ELSE {loads[i] : i \in (released + 1)..Capped(released + Window, Len(loads))}

(* Where start_load_kv is.                                                 *)
Control ==
  /\ loads \in Seq(Users) /\ Len(loads) <= MaxLoads
  /\ at \in {"rest", "fill", "get", "inject", "release", "slide", "slid", "drain"}
  /\ filled \in 0..Window /\ released \in 0..Len(loads)
  /\ spilled \in BOOLEAN
  /\ at = "rest" => loads = <<>> /\ filled = 0 /\ released = 0
  /\ at # "rest" => loads # <<>>
  /\ at = "fill" => released = 0
  /\ at \in {"get", "inject", "release"} => released < Len(loads)

(* What the worker does there.                                             *)
Busy ==
  /\ at = "rest" => Op \notin Staging
  /\ at # "rest" => Op \notin Registering
  /\ at \in {"get", "release", "slide", "drain"} => Ready
  /\ Op \in Staging => Len(thread[Worker].todo) = 1 /\ Current(Worker).user \in InWindow
  /\ at = "inject" /\ Op \in Staging =>
       thread[Worker].hands /\ Current(Worker).user = loads[released + 1]
  /\ at = "inject" /\ Op = "idle" => loads[released + 1] \in Staged

NothingElseStaged == ~spilled => Op # "evicting" /\ Staged \subseteq InWindow

WindowInv == StoreInv(Worker) /\ Control /\ Busy /\ NothingElseStaged

-----------------------------------------------------------------------------
(* A pool that holds only memories of the window is within its slots.      *)
LEMMA WindowFitsPool ==
  ASSUME StoreInv(Worker), Control, Staged \subseteq InWindow
  PROVE  Len(slots) <= Slots
<1> DEFINE last == Capped(released + Window, Len(loads))
           places == (released + 1)..last
<1>1. slots \in Seq(Slot) /\ DOMAIN slots = 1..Len(slots) /\ Len(slots) \in Nat
  BY DEF StoreInv, StoreTypes
<1>2. Len(loads) \in Nat /\ Window \in Nat /\ Window <= Slots /\ released \in Nat
  BY PinnedStoreAssumption DEF Control, Window, Capped
<1>3. last \in Nat /\ last <= released + Slots
  BY <1>2, PinnedStoreAssumption DEF Capped
<1>4. IsFiniteSet(places) /\ Cardinality(places) <= Slots /\ Cardinality(places) \in Nat
  <2>1. released + 1 \in Int /\ last \in Int
    BY <1>2, <1>3
  <2>2. IsFiniteSet(places)
    BY <2>1, FS_Interval
  <2>3. Cardinality(places) = IF released + 1 > last THEN 0 ELSE last - (released + 1) + 1
    BY <2>1, FS_Interval
  <2>4. QED
    BY <1>2, <1>3, <2>2, <2>3, PinnedStoreAssumption
<1>5. IsFiniteSet(1..Len(slots)) /\ Cardinality(1..Len(slots)) = Len(slots)
  BY <1>1, FS_Interval
<1>6. CASE at = "rest"
  <2>1. Staged = {}
    BY <1>6 DEF InWindow
  <2>2. DOMAIN slots = {}
    BY <2>1 DEF Staged, ToSet
  <2>3. QED
    BY <1>1, <2>2, PinnedStoreAssumption
<1>7. CASE at # "rest"
  <2> DEFINE f == [i \in DOMAIN slots |-> CHOOSE j \in places : loads[j] = slots[i].user]
  <2>1. ASSUME NEW i \in DOMAIN slots
        PROVE  f[i] \in places /\ loads[f[i]] = slots[i].user
    <3>1. slots[i].user \in InWindow
      BY DEF Staged, ToSet
    <3>2. \E j \in places : loads[j] = slots[i].user
      BY <1>7, <3>1 DEF InWindow
    <3>3. QED
      BY <3>2
  <2> HIDE DEF places
  <2>2. f \in [1..Len(slots) -> places]
    <3>1. f = [i \in DOMAIN slots |-> f[i]]
      OBVIOUS
    <3> HIDE DEF f
    <3>2. \A i \in DOMAIN slots : f[i] \in places
      BY <2>1
    <3>3. QED
      BY <1>1, <3>1, <3>2
  <2> HIDE DEF f
  <2>3. ASSUME NEW i \in DOMAIN slots, NEW j \in DOMAIN slots, f[i] = f[j]
        PROVE  i = j
    <3>1. loads[f[i]] = slots[i].user /\ loads[f[j]] = slots[j].user
      BY <2>1
    <3>2. slots[i].user = slots[j].user
      BY <2>3, <3>1
    <3>3. QED
      BY <3>2 DEF StoreInv, PoolInv, SlotsAreCurrent
  <2>6. ~(Cardinality(places) < Cardinality(1..Len(slots)))
    <3> SUFFICES ASSUME Cardinality(places) < Cardinality(1..Len(slots)) PROVE FALSE
      OBVIOUS
    <3>1. \E i, j \in 1..Len(slots) : i # j /\ f[i] = f[j]
      BY <1>4, <1>5, <2>2, FS_PigeonHole
    <3>2. QED
      BY <1>1, <2>3, <3>1
  <2>7. QED
    BY <1>1, <1>4, <1>5, <2>6, PinnedStoreAssumption
<1>8. QED
  BY <1>6, <1>7

-----------------------------------------------------------------------------
(* Steps of the store.                                                     *)

LEMMA ReadyOps ==
  /\ Ready => Op \in {"idle", "raised"}
  /\ Ready /\ ~HasRaised => Op = "idle"
  /\ HasRaised => Op = "raised"
BY DEF Ready, IsFree, HasRaised, Op, Idle, Raised

(* A memory that is the last one asked for is handed out, or done with.    *)
LEMMA HandingTheLast ==
  ASSUME Op \in Staging, thread[Worker].hands \in BOOLEAN, Len(thread[Worker].todo) = 1
  PROVE  /\ thread[Worker].hands => Handing(Worker) = At(Worker, "hand")
         /\ ~thread[Worker].hands => Handing(Worker) = Idle
BY DEF Handing, Proceed

(* What a section of prefetch or get_user_memory does to the pool, and     *)
(* where it leaves the worker.                                             *)
LEMMA StagingWork ==
  ASSUME StoreInv(Worker), Work(Worker), Op \in Staging, Len(thread[Worker].todo) = 1
  PROVE  /\ Op' \in Staging \cup {"idle", "raised"}
         /\ Op' \in Staging => /\ thread'[Worker].todo = thread[Worker].todo
                              /\ thread'[Worker].hands = thread[Worker].hands
         /\ Staged' \subseteq Staged \cup {Current(Worker).user}
         /\ thread[Worker].hands /\ Op' = "idle" => Current(Worker).user \in Staged'
         /\ Op' = "evicting" => Len(slots) > Slots
<1> DEFINE u == Current(Worker).user
<1>1. thread \in [Threads -> Tasks] /\ Worker \in Threads /\ Threads = {Worker}
  BY StagingWindowAssumption DEF StoreInv, StoreTypes
<1>2. thread[Worker].hands \in BOOLEAN
  BY <1>1, TaskShape DEF StoreInv, Op
<1>3. ASSUME thread' = [thread EXCEPT ![Worker] = Handing(Worker)]
      PROVE  /\ Op' \in {"hand", "idle"}
             /\ thread[Worker].hands => Op' = "hand"
             /\ Op' = "hand" => /\ thread'[Worker].todo = thread[Worker].todo
                               /\ thread'[Worker].hands = thread[Worker].hands
  <2>1. thread'[Worker] = Handing(Worker)
    BY <1>1, <1>3
  <2>2. CASE thread[Worker].hands
    <3>1. thread'[Worker] = At(Worker, "hand")
      BY <1>2, <2>1, <2>2, HandingTheLast
    <3>2. Op' = "hand"
      BY <3>1 DEF At, Op
    <3>3. thread'[Worker].todo = thread[Worker].todo
      BY <3>1 DEF At
    <3>4. thread'[Worker].hands = thread[Worker].hands
      BY <3>1 DEF At
    <3>5. QED
      BY <3>2, <3>3, <3>4
  <2>3. CASE ~thread[Worker].hands
    BY <1>2, <2>1, <2>3, HandingTheLast DEF Idle, Op
  <2>4. QED
    BY <2>2, <2>3
<1>4. CASE Check(Worker)
  <2>1. Staged' = Staged
    BY <1>4 DEF Check, Staged, ToSet
  <2>2. CASE u \in Staged
    <3>1. thread' = [thread EXCEPT ![Worker] = Handing(Worker)]
      BY <1>4, <2>2 DEF Check
    <3>2. QED
      BY <1>3, <2>1, <3>1 DEF Staging
  <2>3. CASE u \notin Staged /\ Copy(Worker)
    <3>1. thread'[Worker] = [op |-> "copied", transfer |-> transfers + 1,
                             todo |-> thread[Worker].todo, hands |-> thread[Worker].hands]
      BY <1>1, <2>3 DEF Copy
    <3>2. QED
      BY <2>1, <3>1 DEF Op, Staging
  <2>4. CASE u \notin Staged /\ ~Copy(Worker)
    <3>1. thread'[Worker] = Raised
      BY <1>1, <1>4, <2>4 DEF Check
    <3>2. QED
      BY <2>1, <3>1 DEF Op, Staging, Raised
  <2>5. QED
    BY <2>2, <2>3, <2>4
<1>5. CASE PutSlot(Worker)
  <2>1. Op = "copied" /\ u \notin Staged
    BY <1>5 DEF PutSlot, Op, StoreInv, TaskInv
  <2>2. slots \in Seq(Slot)
    BY DEF StoreInv, StoreTypes
  <2> DEFINE slot == [user |-> u, payload |-> Current(Worker).payload,
                      transfer |-> thread[Worker].transfer]
  <2>3. slots' = Append(slots, slot) /\ slot.user = u
    BY <1>5, <2>1 DEF PutSlot
  <2> HIDE DEF slot
  <2>4. Staged' \subseteq Staged \cup {u}
    BY <2>2, <2>3 DEF Staged, ToSet
  <2>5. thread'[Worker] = At(Worker, "evict")
    BY <1>1, <1>5 DEF PutSlot
  <2>6. QED
    BY <2>4, <2>5 DEF At, Op, Staging
<1>6. CASE PickVictim(Worker)
  <2>1. Staged' = Staged
    BY <1>6 DEF PickVictim, Staged, ToSet
  <2>2. CASE OverCapacity /\ Staged # {u}
    <3>1. thread'[Worker] = [op |-> "evicting", victim |-> Oldest(u),
                             todo |-> thread[Worker].todo, hands |-> thread[Worker].hands]
      BY <1>1, <1>6, <2>2 DEF PickVictim
    <3>2. QED
      BY <2>1, <2>2, <3>1 DEF Op, Staging, OverCapacity
  <2>3. CASE ~(OverCapacity /\ Staged # {u})
    <3>1. thread' = [thread EXCEPT ![Worker] = Handing(Worker)]
      BY <1>6, <2>3 DEF PickVictim
    <3>2. QED
      BY <1>3, <2>1, <3>1 DEF Staging
  <2>4. QED
    BY <2>2, <2>3
<1>7. CASE ReleaseVictim(Worker)
  <2>1. Op = "evicting" /\ Release(thread[Worker].victim) /\ UNCHANGED <<host, transfers>>
    BY <1>7 DEF ReleaseVictim, Op
  <2>2. thread[Worker].victim \in Users
    BY <1>1, <2>1, TaskShape DEF StoreInv, Op
  <2>3. Staged' \subseteq Staged
    BY <2>1, <2>2, ReleaseKeepsPool DEF StoreInv, PoolInv
  <2>4. thread' = [thread EXCEPT ![Worker] = Handing(Worker)]
    BY <1>7 DEF ReleaseVictim
  <2>5. QED
    BY <1>3, <2>3, <2>4 DEF Staging
<1>8. CASE Hand(Worker)
  <2>1. Op = "hand" /\ u \in Staged
    BY <1>8 DEF Hand, Op, StoreInv, TaskInv
  <2>2. thread'[Worker] = Idle
    BY <1>1, <1>8, <2>1 DEF Hand, Proceed
  <2>3. Staged' = Staged
    BY <1>8 DEF Hand, Staged, ToSet
  <2>4. QED
    BY <2>1, <2>2, <2>3 DEF Op, Idle, Staging
<1>9. Op \notin {"insert", "release", "pop"}
  BY DEF Staging
<1>10. QED
  BY <1>4, <1>5, <1>6, <1>7, <1>8, <1>9 DEF Work, Insert, ReleaseForRemove, Pop, Op

(* The sections of a registration only ever take slots away.               *)
LEMMA RegisteringWork ==
  ASSUME StoreInv(Worker), Work(Worker), Op \notin Staging
  PROVE  Op' \in {"idle", "pop"} /\ Staged' \subseteq Staged
<1>1. thread \in [Threads -> Tasks] /\ Worker \in Threads /\ Threads = {Worker}
  BY StagingWindowAssumption DEF StoreInv, StoreTypes
<1>2. CASE Insert(Worker) \/ Pop(Worker)
  <2>1. thread'[Worker] = Idle /\ slots' = slots
    BY <1>1, <1>2 DEF Insert, Pop
  <2>2. QED
    BY <2>1 DEF Op, Idle, Staged, ToSet
<1>3. CASE ReleaseForRemove(Worker)
  <2>1. /\ thread[Worker].op = "release" /\ Release(thread[Worker].user)
        /\ UNCHANGED <<host, transfers>>
    BY <1>3 DEF ReleaseForRemove
  <2>2. thread[Worker].user \in Users
    BY <1>1, <2>1, TaskShape DEF StoreInv
  <2>3. Staged' \subseteq Staged
    BY <2>1, <2>2, ReleaseKeepsPool DEF StoreInv, PoolInv
  <2>4. thread'[Worker] = [op |-> "pop", user |-> thread[Worker].user]
    BY <1>1, <1>3 DEF ReleaseForRemove
  <2>5. QED
    BY <2>3, <2>4 DEF Op
<1>4. QED
  BY <1>2, <1>3 DEF Work, Check, PutSlot, PickVictim, ReleaseVictim, Hand, Op, Staging

-----------------------------------------------------------------------------
(* Steps of start_load_kv.                                                 *)

(* prefetch of one load, or get_user_memory of it.                         *)
LEMMA StagesOne ==
  ASSUME StoreInv(Worker), NEW u \in Users, NEW hands \in BOOLEAN,
         BeginStaging(Worker, <<u>>, hands)
  PROVE  /\ StoreInv(Worker)'
         /\ Op' = "check" /\ Staged' = Staged
         /\ Len(thread'[Worker].todo) = 1 /\ Current(Worker)'.user = u
         /\ hands => thread'[Worker].hands
<1>1. <<u>> \in Seq(Users) /\ <<u>> # <<>>
  OBVIOUS
<1>2. StoreInv(Worker)'
  BY <1>1, StagingWindowAssumption, BeginStagingKeepsInv
<1> DEFINE todo == [i \in DOMAIN <<u>> |-> [user |-> <<u>>[i], payload |-> host[<<u>>[i]]]]
           task == [op |-> "check", hands |-> hands, todo |-> todo]
<1>3. thread'[Worker] = task
  BY StagingWindowAssumption DEF BeginStaging, StoreInv, StoreTypes
<1>4. Len(todo) = 1 /\ todo[1].user = u
  <2>1. todo = <<[user |-> u, payload |-> host[u]]>>
    OBVIOUS
  <2> HIDE DEF todo
  <2>2. QED
    BY <2>1
<1> HIDE DEF todo
<1>5. task.op = "check" /\ task.todo = todo /\ (hands => task.hands)
  OBVIOUS
<1> HIDE DEF task
<1>6. Staged' = Staged
  BY DEF BeginStaging, Staged, ToSet
<1>7. QED
  BY <1>2, <1>3, <1>4, <1>5, <1>6 DEF Op, Current

LEMMA PrefetchesOne ==
  ASSUME StoreInv(Worker), Ready, NEW u \in Users, Prefetch(u)
  PROVE  /\ StoreInv(Worker)'
         /\ Op' \in {"idle", "check"} /\ Staged' = Staged
         /\ Op' = "check" => Len(thread'[Worker].todo) = 1 /\ Current(Worker)'.user = u
<1>1. CASE u \in Registered
  BY <1>1, StagesOne DEF Prefetch
<1>2. CASE u \notin Registered
  <2>1. thread' = [thread EXCEPT ![Worker] = Idle] /\ UNCHANGED <<host, slots, records, transfers>>
    BY <1>2 DEF Prefetch
  <2>2. StoreInv(Worker)' /\ Staged' = Staged
    BY <2>1, StagingWindowAssumption, IdlesKeepsInv DEF Ready
  <2>3. Op' = "idle"
    BY <2>1, StagingWindowAssumption DEF Op, Idle, StoreInv, StoreTypes
  <2>4. QED
    BY <2>2, <2>3
<1>3. QED
  BY <1>1, <1>2

LEMMA ReleasesOne ==
  ASSUME StoreInv(Worker), Ready, NEW u \in Users, ReleaseLoad(u)
  PROVE  StoreInv(Worker)' /\ Op' = "idle" /\ Ready' /\ Staged' = Staged \ {u}
<1>1. StoreInv(Worker)' /\ Staged' = Staged \ {u}
  BY StagingWindowAssumption, ReleaseIdlesKeepsInv DEF Ready, ReleaseLoad
<1>2. thread'[Worker] = Idle
  BY StagingWindowAssumption DEF ReleaseLoad, StoreInv, StoreTypes
<1>3. QED
  BY <1>1, <1>2 DEF Op, Idle, Ready, IsFree

(* A step that leaves the store alone.                                     *)
LEMMA StoreAlone ==
  ASSUME StoreInv(Worker), UNCHANGED storeVars
  PROVE  StoreInv(Worker)' /\ Op' = Op /\ Staged' = Staged
           /\ thread'[Worker] = thread[Worker]
<1>1. StoreInv(Worker)'
  BY StagingWindowAssumption, StoreInvIsInductive
<1>2. QED
  BY <1>1 DEF storeVars, Op, Staged, ToSet

(* The arithmetic of the window.                                           *)
LEMMA WindowBounds ==
  ASSUME Control
  PROVE  /\ Len(loads) \in Nat /\ Window \in Nat /\ released \in Nat /\ filled \in Nat
         /\ Window <= Len(loads) /\ filled <= Window /\ released <= Len(loads)
         /\ DOMAIN loads = 1..Len(loads)
         /\ at # "rest" => Window > 0 /\ Len(loads) > 0
<1>1. loads \in Seq(Users)
  BY DEF Control
<1>2. Len(loads) \in Nat /\ (loads # <<>> => Len(loads) > 0)
  BY <1>1, EmptySeq
<1>3. QED
  BY <1>1, <1>2, PinnedStoreAssumption DEF Control, Window, Capped

-----------------------------------------------------------------------------
(* Every step keeps WindowInv.                                             *)

LEMMA NoLoads ==
  Len(<<>>) = 0 /\ <<>> \in Seq(Users) /\ Capped(Slots, 0) = 0 /\ 0 <= MaxLoads
BY PinnedStoreAssumption, StagingWindowAssumption DEF Capped

LEMMA InitKeepsWindow ==
  ASSUME WindowInit
  PROVE  WindowInv
<1>1. StoreInv(Worker)
  BY StagingWindowAssumption, StoreInit DEF WindowInit
<1>2. thread[Worker] = Idle /\ slots = <<>>
  BY StagingWindowAssumption DEF WindowInit, Init
<1>3. loads = <<>> /\ Len(loads) = 0 /\ at = "rest" /\ filled = 0 /\ released = 0
  BY DEF WindowInit
<1>4. Control
  <2>1. Window = 0
    BY <1>3, NoLoads DEF Window
  <2>2. loads \in Seq(Users) /\ Len(loads) <= MaxLoads
    BY <1>3, NoLoads
  <2>3. spilled \in BOOLEAN
    BY DEF WindowInit
  <2>4. QED
    BY <1>3, <2>1, <2>2, <2>3 DEF Control
<1>5. Busy
  BY <1>2, <1>3 DEF Busy, Op, Idle, Staging
<1>6. NothingElseStaged
  BY <1>2 DEF NothingElseStaged, Staged, ToSet, Op, Idle
<1>7. QED
  BY <1>1, <1>4, <1>5, <1>6 DEF WindowInv

LEMMA RegistrationKeepsWindow ==
  ASSUME WindowInv, NEW u \in Users,
         (\E p \in Payloads : Register(u, p)) \/ Unregister(u)
  PROVE  WindowInv'
<1>1. /\ at = "rest" /\ UNCHANGED windowVars /\ StoreInv(Worker) /\ Control
      /\ Threads = {Worker}
  BY StagingWindowAssumption DEF Register, Unregister, WindowInv
<1>2. StoreInv(Worker)' /\ Op' \in {"insert", "release"} /\ Staged' \subseteq Staged
  <2>1. ASSUME NEW p \in Payloads, Register(u, p)
        PROVE  StoreInv(Worker)' /\ Op' = "insert" /\ Staged' \subseteq Staged
    <3>1. BeginAdd(Worker, u, p)
      BY <2>1 DEF Register
    <3>2. StoreInv(Worker)'
      BY <1>1, <3>1, BeginAddKeepsInv
    <3>3. Op' = "insert"
      BY <1>1, <3>1 DEF BeginAdd, Op, StoreInv, StoreTypes
    <3>4. Staged' \subseteq Staged
      BY <1>1, <3>1, ReleaseKeepsPool DEF BeginAdd, StoreInv, PoolInv
    <3>5. QED
      BY <3>2, <3>3, <3>4
  <2>2. ASSUME Unregister(u)
        PROVE  StoreInv(Worker)' /\ Op' = "release" /\ Staged' \subseteq Staged
    <3>1. BeginRemove(Worker, u)
      BY <2>2 DEF Unregister
    <3>2. StoreInv(Worker)'
      BY <1>1, <3>1, BeginRemoveKeepsInv
    <3>3. Op' = "release" /\ Staged' \subseteq Staged
      BY <1>1, <3>1 DEF BeginRemove, Op, StoreInv, StoreTypes, Staged, ToSet
    <3>4. QED
      BY <3>2, <3>3
  <2>3. QED
    BY <2>1, <2>2
<1>3. Control'
  BY <1>1 DEF windowVars, Control, Window
<1>4. Busy'
  BY <1>1, <1>2 DEF windowVars, Busy, Staging
<1>5. NothingElseStaged'
  BY <1>1, <1>2 DEF windowVars, WindowInv, NothingElseStaged, InWindow
<1>6. QED
  BY <1>2, <1>3, <1>4, <1>5 DEF WindowInv

(* The sections of what the worker has begun.                              *)
LEMMA StoreStepKeepsWindow ==
  ASSUME WindowInv, StoreStep
  PROVE  WindowInv'
<1>1. /\ Work(Worker) /\ UNCHANGED windowVars /\ StoreInv(Worker) /\ Control /\ Busy
      /\ Threads = {Worker}
  BY StagingWindowAssumption DEF StoreStep, WindowInv
<1>2. StoreInv(Worker)'
  <2>1. Next
    BY <1>1 DEF Next
  <2>2. QED
    BY <1>1, <2>1, StoreInvIsInductive
<1>3. Control'
  BY <1>1 DEF windowVars, Control, Window
<1>4. InWindow' = InWindow
  BY <1>1 DEF windowVars, InWindow, Window
<1>5. CASE Op \in Staging
  <2>1. Len(thread[Worker].todo) = 1 /\ Current(Worker).user \in InWindow /\ at # "rest"
    BY <1>1, <1>5 DEF Busy
  <2>2. /\ Op' \in Staging \cup {"idle", "raised"}
        /\ Op' \in Staging => /\ thread'[Worker].todo = thread[Worker].todo
                             /\ thread'[Worker].hands = thread[Worker].hands
        /\ Staged' \subseteq Staged \cup {Current(Worker).user}
        /\ thread[Worker].hands /\ Op' = "idle" => Current(Worker).user \in Staged'
        /\ Op' = "evicting" => Len(slots) > Slots
    BY <1>1, <1>5, <2>1, StagingWork
  <2>3. at \notin {"get", "release", "slide", "drain"}
    BY <1>1, <1>5, ReadyOps DEF Busy, Staging
  <2>4. Op' \in Staging => Current(Worker)' = Current(Worker)
    BY <2>2 DEF Current
  <2>5. at = "inject" => thread[Worker].hands /\ Current(Worker).user = loads[released + 1]
    BY <1>1, <1>5 DEF Busy
  <2>6. UNCHANGED <<at, loads, released, spilled>>
    BY <1>1 DEF windowVars
  <2>7. Busy'
    <3>1. at' # "rest" /\ at' \notin {"get", "release", "slide", "drain"} /\ Op' \notin Registering
      BY <2>1, <2>2, <2>3, <2>6 DEF Registering, Staging
    <3>2. Op' \in Staging => Len(thread'[Worker].todo) = 1 /\ Current(Worker)'.user \in InWindow'
      BY <1>4, <2>1, <2>2, <2>4
    <3>3. at' = "inject" /\ Op' \in Staging =>
            thread'[Worker].hands /\ Current(Worker)'.user = loads'[released' + 1]
      BY <2>2, <2>4, <2>5, <2>6
    <3>4. at' = "inject" /\ Op' = "idle" => loads'[released' + 1] \in Staged'
      BY <2>2, <2>5, <2>6
    <3>5. QED
      BY <3>1, <3>2, <3>3, <3>4 DEF Busy
  <2>8. NothingElseStaged'
    <3> SUFFICES ASSUME ~spilled PROVE Op' # "evicting" /\ Staged' \subseteq InWindow'
      BY <2>6 DEF NothingElseStaged
    <3>1. Staged \subseteq InWindow
      BY DEF WindowInv, NothingElseStaged
    <3>2. Len(slots) \in Nat /\ Len(slots) <= Slots
      BY <1>1, <3>1, WindowFitsPool DEF StoreInv, StoreTypes
    <3>3. ~(Len(slots) > Slots)
      BY <3>2, PinnedStoreAssumption
    <3>4. QED
      BY <1>4, <2>1, <2>2, <3>1, <3>3
  <2>9. QED
    BY <1>2, <1>3, <2>7, <2>8 DEF WindowInv
<1>6. CASE Op \notin Staging
  <2>1. Op \in Registering
    BY <1>1, <1>6 DEF Work, Insert, ReleaseForRemove, Pop, Check, PutSlot, PickVictim,
                      ReleaseVictim, Hand, Op, Staging, Registering
  <2>2. at = "rest"
    BY <1>1, <2>1 DEF Busy
  <2>3. Op' \in {"idle", "pop"} /\ Staged' \subseteq Staged
    BY <1>1, <1>6, RegisteringWork
  <2>4. Busy'
    BY <1>1, <2>2, <2>3 DEF windowVars, Busy, Staging
  <2>5. NothingElseStaged'
    BY <1>1, <1>4, <2>3 DEF windowVars, WindowInv, NothingElseStaged
  <2>6. QED
    BY <1>2, <1>3, <2>4, <2>5 DEF WindowInv
<1>7. QED
  BY <1>5, <1>6

(* The step begins, with nothing staged.                                   *)
LEMMA StartKeepsWindow ==
  ASSUME WindowInv, NEW users \in LoadSequences, StartLoadKv(users)
  PROVE  WindowInv'
<1>1. /\ at = "rest" /\ Ready /\ StoreInv(Worker) /\ Control /\ NothingElseStaged
      /\ loads' = users /\ at' = "fill" /\ thread' = [thread EXCEPT ![Worker] = Idle]
      /\ UNCHANGED <<host, slots, records, transfers, filled, released, spilled>>
  BY DEF StartLoadKv, WindowInv
<1>2. StoreInv(Worker)' /\ Staged' = Staged
  BY <1>1, StagingWindowAssumption, IdlesKeepsInv DEF Ready
<1>3. Op' = "idle"
  BY <1>1, StagingWindowAssumption DEF Op, Idle, StoreInv, StoreTypes
<1>4. users \in Seq(Users) /\ Len(users) <= MaxLoads /\ users # <<>>
  <2>1. users \in SeqOf(Users, MaxLoads) /\ users # <<>>
    BY DEF LoadSequences
  <2>2. users \in Seq(Users)
    BY <2>1, StagingWindowAssumption, SeqOfIsSeq
  <2>3. PICK m \in 0..MaxLoads : users \in [1..m -> Users]
    BY <2>1 DEF SeqOf
  <2>4. Len(users) = m
    BY <2>3, StagingWindowAssumption
  <2>5. QED
    BY <2>1, <2>2, <2>3, <2>4, StagingWindowAssumption
<1>5. Len(users) \in Nat
  BY <1>4
<1>6. Control'
  <2>1. filled' = 0 /\ released' = 0 /\ spilled' \in BOOLEAN
    BY <1>1 DEF Control
  <2>2. Window' \in Nat
    BY <1>1, <1>5, PinnedStoreAssumption DEF Window, Capped
  <2>3. filled' \in 0..Window' /\ released' \in 0..Len(loads')
    BY <1>1, <1>5, <2>1, <2>2
  <2>4. QED
    BY <1>1, <1>4, <2>1, <2>3 DEF Control
<1>7. Busy'
  BY <1>1, <1>3 DEF Busy, Staging, Registering
<1>8. NothingElseStaged'
  BY <1>1, <1>2, <1>3 DEF NothingElseStaged, InWindow
<1>9. QED
  BY <1>2, <1>6, <1>7, <1>8 DEF WindowInv

LEMMA FillKeepsWindow ==
  ASSUME WindowInv, Fill
  PROVE  WindowInv'
<1> DEFINE u == loads[filled + 1]
<1>1. /\ at = "fill" /\ Ready /\ filled < Window /\ Prefetch(u)
      /\ filled' = filled + 1 /\ UNCHANGED <<loads, at, released, spilled>>
      /\ StoreInv(Worker) /\ Control /\ NothingElseStaged
  BY DEF Fill, WindowInv
<1>2. released = 0
  BY <1>1 DEF Control
<1>3. filled + 1 \in 1..Window /\ Window <= Len(loads) /\ DOMAIN loads = 1..Len(loads)
      /\ Window \in Nat /\ Len(loads) \in Nat
  BY <1>1, WindowBounds
<1>4. u \in Users
  BY <1>1, <1>3 DEF Control
<1>5. /\ StoreInv(Worker)'
      /\ Op' \in {"idle", "check"} /\ Staged' = Staged
      /\ Op' = "check" => Len(thread'[Worker].todo) = 1 /\ Current(Worker)'.user = u
  BY <1>1, <1>4, PrefetchesOne
<1>6. Window' = Window /\ InWindow' = InWindow
  BY <1>1 DEF Window, InWindow
<1>7. u \in InWindow
  <2>1. released + Window = Window /\ released + 1 = 1
    BY <1>2, <1>3
  <2>2. Capped(released + Window, Len(loads)) = Window
    <3> DEFINE W == Window
               L == Len(loads)
    <3>1. W \in Nat /\ L \in Nat /\ W <= L
      BY <1>3
    <3> HIDE DEF W, L
    <3>2. Capped(W, L) = W
      BY <3>1 DEF Capped
    <3>3. QED
      BY <2>1, <3>2 DEF W, L
  <2>3. QED
    BY <1>1, <1>3, <2>1, <2>2 DEF InWindow
<1>8. Control'
  <2>1. filled' \in 0..Window'
    BY <1>1, <1>3, <1>6
  <2>2. QED
    BY <1>1, <2>1 DEF Control
<1>9. Busy'
  BY <1>1, <1>5, <1>6, <1>7 DEF Busy, Staging, Registering
<1>10. NothingElseStaged'
  BY <1>1, <1>5, <1>6 DEF NothingElseStaged
<1>11. QED
  BY <1>5, <1>8, <1>9, <1>10 DEF WindowInv

(* start_load_kv returns, or raises, with a caller that is not staging.    *)
LEMMA RestKeepsWindow ==
  ASSUME WindowInv, Ready, Rest, UNCHANGED storeVars, spilled' \in BOOLEAN,
         ~spilled' => Staged = {}
  PROVE  WindowInv'
<1>1. StoreInv(Worker)' /\ Op' = Op /\ Staged' = Staged
  BY StoreAlone DEF WindowInv
<1>2. /\ at' = "rest" /\ loads' = <<>> /\ filled' = 0 /\ released' = 0
      /\ Op \in {"idle", "raised"}
  BY ReadyOps DEF Rest
<1>3. Control'
  <2>1. Window' = 0
    BY <1>2, NoLoads DEF Window
  <2>2. loads' \in Seq(Users) /\ Len(loads') <= MaxLoads /\ Len(loads') = 0
    BY <1>2, NoLoads
  <2>3. QED
    BY <1>2, <2>1, <2>2 DEF Control
<1>4. Busy'
  BY <1>1, <1>2 DEF Busy, Staging
<1>5. NothingElseStaged'
  BY <1>1, <1>2 DEF NothingElseStaged
<1>6. QED
  BY <1>1, <1>3, <1>4, <1>5 DEF WindowInv

LEMMA FillEndsKeepsWindow ==
  ASSUME WindowInv, FillRaises \/ Filled
  PROVE  WindowInv'
<1>1. CASE FillRaises
  <2>1. /\ HasRaised /\ Rest /\ UNCHANGED storeVars
        /\ spilled' = (spilled \/ slots # <<>>)
    BY <1>1 DEF FillRaises
  <2>2. Ready
    BY <2>1 DEF HasRaised, Ready, IsFree
  <2>3. slots = <<>> => Staged = {}
    BY DEF Staged, ToSet
  <2>4. spilled' \in BOOLEAN
    BY <2>1
  <2>5. ~spilled' => Staged = {}
    BY <2>1, <2>3
  <2>6. QED
    BY <2>1, <2>2, <2>4, <2>5, RestKeepsWindow
<1>2. CASE Filled
  <2>1. /\ at = "fill" /\ Ready /\ at' = "get"
        /\ UNCHANGED <<storeVars, loads, filled, released, spilled>>
        /\ StoreInv(Worker) /\ Control /\ NothingElseStaged
    BY <1>2 DEF Filled, WindowInv
  <2>2. StoreInv(Worker)' /\ Op' = Op /\ Staged' = Staged /\ thread'[Worker] = thread[Worker]
    BY <2>1, StoreAlone
  <2>3. released = 0 /\ Len(loads) > 0 /\ Len(loads) \in Nat
    BY <2>1, WindowBounds DEF Control
  <2>4. Control'
    BY <2>1, <2>3 DEF Control, Window
  <2>5. Busy'
    BY <2>1, <2>2, ReadyOps DEF Busy, Staging, Registering, Ready, IsFree
  <2>6. NothingElseStaged'
    BY <2>1, <2>2 DEF NothingElseStaged, InWindow, Window
  <2>7. QED
    BY <2>2, <2>4, <2>5, <2>6 DEF WindowInv
<1>3. QED
  BY <1>1, <1>2

LEMMA GetKeepsWindow ==
  ASSUME WindowInv, GetMemory
  PROVE  WindowInv'
<1> DEFINE u == loads[released + 1]
<1>1. /\ at = "get" /\ Ready /\ UNCHANGED <<loads, filled, released, spilled>>
      /\ StoreInv(Worker) /\ Control /\ NothingElseStaged
  BY DEF GetMemory, WindowInv
<1>2. released < Len(loads) /\ released + 1 \in DOMAIN loads
  BY <1>1, WindowBounds DEF Control
<1>3. u \in Users
  BY <1>1, <1>2 DEF Control
<1>4. Window' = Window /\ at' \in {"inject", "drain"}
  BY <1>1 DEF Window, GetMemory
<1>5. InWindow' = InWindow
  BY <1>1, <1>4 DEF InWindow, Window
<1>6. u \in InWindow
  BY <1>1, <1>2, WindowBounds DEF InWindow, Capped
<1>7. Control'
  BY <1>1, <1>2, <1>4 DEF Control
<1>8. CASE u \in Registered
  <2>1. BeginStaging(Worker, <<u>>, TRUE) /\ at' = "inject"
    BY <1>8 DEF GetMemory
  <2>2. /\ StoreInv(Worker)'
        /\ Op' = "check" /\ Staged' = Staged
        /\ Len(thread'[Worker].todo) = 1 /\ Current(Worker)'.user = u
        /\ thread'[Worker].hands
    BY <1>1, <1>3, <2>1, StagesOne
  <2>3. Busy'
    BY <1>1, <1>5, <1>6, <2>1, <2>2 DEF Busy, Staging, Registering
  <2>4. NothingElseStaged'
    BY <1>1, <1>5, <2>2 DEF NothingElseStaged
  <2>5. QED
    BY <1>7, <2>2, <2>3, <2>4 DEF WindowInv
<1>9. CASE u \notin Registered
  <2>1. UNCHANGED storeVars /\ at' = "drain"
    BY <1>9 DEF GetMemory
  <2>2. StoreInv(Worker)' /\ Op' = Op /\ Staged' = Staged /\ thread'[Worker] = thread[Worker]
    BY <1>1, <2>1, StoreAlone
  <2>3. Busy'
    BY <1>1, <2>1, <2>2, ReadyOps DEF Busy, Staging, Registering, Ready, IsFree
  <2>4. NothingElseStaged'
    BY <1>1, <1>5, <2>2 DEF NothingElseStaged
  <2>5. QED
    BY <1>7, <2>2, <2>3, <2>4 DEF WindowInv
<1>10. QED
  BY <1>8, <1>9

LEMMA InjectKeepsWindow ==
  ASSUME WindowInv, Inject
  PROVE  WindowInv'
<1>1. /\ at = "inject" /\ Ready /\ UNCHANGED <<storeVars, loads, filled, released, spilled>>
      /\ at' \in {"release", "drain"}
      /\ StoreInv(Worker) /\ Control /\ NothingElseStaged
  BY DEF Inject, WindowInv
<1>2. StoreInv(Worker)' /\ Op' = Op /\ Staged' = Staged /\ thread'[Worker] = thread[Worker]
  BY <1>1, StoreAlone
<1>3. Control'
  BY <1>1 DEF Control, Window
<1>4. Busy'
  BY <1>1, <1>2, ReadyOps DEF Busy, Staging, Registering, Ready, IsFree
<1>5. NothingElseStaged'
  BY <1>1, <1>2 DEF NothingElseStaged, InWindow, Window
<1>6. QED
  BY <1>2, <1>3, <1>4, <1>5 DEF WindowInv

(* The load at the head of the window gives its slot back and leaves it.   *)
LEMMA ReleaseKeepsWindow ==
  ASSUME WindowInv, Ready, at # "rest", released < Len(loads),
         ReleaseLoad(loads[released + 1]), released' = released + 1,
         at' \in {"slide", "drain"}, UNCHANGED <<loads, filled, spilled>>
  PROVE  WindowInv'
<1> DEFINE u == loads[released + 1]
<1>1. StoreInv(Worker) /\ Control /\ NothingElseStaged
  BY DEF WindowInv
<1>2. /\ released + 1 \in DOMAIN loads /\ released \in Nat
      /\ Len(loads) \in Nat /\ Window \in Nat
  BY <1>1, WindowBounds
<1>3. u \in Users
  BY <1>1, <1>2 DEF Control
<1>4. StoreInv(Worker)' /\ Op' = "idle" /\ Ready' /\ Staged' = Staged \ {u}
  BY <1>1, <1>3, ReleasesOne
<1>5. Window' = Window
  BY DEF Window
<1>6. InWindow \ {u} \subseteq InWindow'
  <2>1. ASSUME NEW x \in InWindow, x # u PROVE x \in InWindow'
    <3>1. PICK i \in (released + 1)..Capped(released + Window, Len(loads)) : x = loads[i]
      BY DEF InWindow
    <3>2. i # released + 1
      BY <2>1, <3>1
    <3>3. i \in (released + 2)..Capped(released + 1 + Window, Len(loads))
      BY <1>2, <3>1, <3>2 DEF Capped
    <3>4. QED
      BY <1>2, <1>5, <3>1, <3>3 DEF InWindow
  <2>2. QED
    BY <2>1
<1>7. Control'
  BY <1>1, <1>2, <1>5 DEF Control
<1>8. Busy'
  BY <1>4 DEF Busy, Staging, Registering
<1>9. NothingElseStaged'
  BY <1>1, <1>4, <1>6 DEF NothingElseStaged
<1>10. QED
  BY <1>4, <1>7, <1>8, <1>9 DEF WindowInv

LEMMA SlideKeepsWindow ==
  ASSUME WindowInv, Slide
  PROVE  WindowInv'
<1> DEFINE u == loads[released + Window]
<1>1. /\ at = "slide" /\ Ready /\ at' = "slid" /\ UNCHANGED <<loads, filled, released, spilled>>
      /\ StoreInv(Worker) /\ Control /\ NothingElseStaged
  BY DEF Slide, WindowInv
<1>2. InWindow' = InWindow
  BY <1>1 DEF InWindow, Window
<1>3. Control'
  BY <1>1 DEF Control, Window
<1>4. CASE released + Window <= Len(loads)
  <2>1. Prefetch(u)
    BY <1>4 DEF Slide
  <2>2. /\ released + Window \in DOMAIN loads
        /\ released + Window \in (released + 1)..Capped(released + Window, Len(loads))
    BY <1>1, <1>4, WindowBounds DEF Capped
  <2>3. u \in Users /\ u \in InWindow
    BY <1>1, <2>2 DEF Control, InWindow
  <2>4. /\ StoreInv(Worker)'
        /\ Op' \in {"idle", "check"} /\ Staged' = Staged
        /\ Op' = "check" => Len(thread'[Worker].todo) = 1 /\ Current(Worker)'.user = u
    BY <1>1, <2>1, <2>3, PrefetchesOne
  <2>5. Busy'
    BY <1>1, <1>2, <2>3, <2>4 DEF Busy, Staging, Registering
  <2>6. NothingElseStaged'
    BY <1>1, <1>2, <2>4 DEF NothingElseStaged
  <2>7. QED
    BY <1>3, <2>4, <2>5, <2>6 DEF WindowInv
<1>5. CASE ~(released + Window <= Len(loads))
  <2>1. UNCHANGED storeVars
    BY <1>5 DEF Slide
  <2>2. StoreInv(Worker)' /\ Op' = Op /\ Staged' = Staged
    BY <1>1, <2>1, StoreAlone
  <2>3. Busy'
    BY <1>1, <2>2, ReadyOps DEF Busy, Staging, Registering
  <2>4. NothingElseStaged'
    BY <1>1, <1>2, <2>2 DEF NothingElseStaged
  <2>5. QED
    BY <1>3, <2>2, <2>3, <2>4 DEF WindowInv
<1>6. QED
  BY <1>4, <1>5

(* With no load left nothing is in the window.                             *)
LEMMA EmptyWindow ==
  ASSUME Control, released = Len(loads)
  PROVE  InWindow = {}
BY WindowBounds DEF InWindow, Capped

LEMMA NextLoadKeepsWindow ==
  ASSUME WindowInv, NextLoad
  PROVE  WindowInv'
<1>1. /\ at = "slid" /\ Ready /\ UNCHANGED <<storeVars, spilled>>
      /\ StoreInv(Worker) /\ Control /\ NothingElseStaged
  BY DEF NextLoad, WindowInv
<1>2. released \in 0..Len(loads) /\ Len(loads) \in Nat
  BY <1>1, WindowBounds
<1>3. CASE HasRaised \/ released < Len(loads)
  <2>1. /\ UNCHANGED <<loads, filled, released>>
        /\ at' = "drain" \/ (at' = "get" /\ released < Len(loads))
    BY <1>2, <1>3 DEF NextLoad
  <2>2. StoreInv(Worker)' /\ Op' = Op /\ Staged' = Staged /\ thread'[Worker] = thread[Worker]
    BY <1>1, StoreAlone
  <2>3. Control'
    BY <1>1, <2>1 DEF Control, Window
  <2>4. Busy'
    BY <1>1, <2>1, <2>2, ReadyOps DEF Busy, Staging, Registering, Ready, IsFree
  <2>5. NothingElseStaged'
    BY <1>1, <2>1, <2>2 DEF NothingElseStaged, InWindow, Window
  <2>6. QED
    BY <2>2, <2>3, <2>4, <2>5 DEF WindowInv
<1>4. CASE ~HasRaised /\ ~(released < Len(loads))
  <2>1. released = Len(loads)
    BY <1>2, <1>4
  <2>2. Rest
    BY <1>2, <1>4, <2>1 DEF NextLoad
  <2>3. ~spilled => Staged = {}
    BY <1>1, <2>1, EmptyWindow DEF NothingElseStaged
  <2>4. spilled' \in BOOLEAN /\ (~spilled' => Staged = {}) /\ UNCHANGED storeVars
    BY <1>1, <2>3 DEF Control
  <2>5. QED
    BY <1>1, <2>2, <2>4, RestKeepsWindow
<1>5. QED
  BY <1>3, <1>4

LEMMA DrainKeepsWindow ==
  ASSUME WindowInv, Drain
  PROVE  WindowInv'
<1>1. /\ at = "drain" /\ Ready /\ UNCHANGED spilled
      /\ StoreInv(Worker) /\ Control /\ NothingElseStaged
  BY DEF Drain, WindowInv
<1>2. released \in 0..Len(loads) /\ Len(loads) \in Nat
  BY <1>1, WindowBounds
<1>3. CASE released < Len(loads)
  <2>1. /\ ReleaseLoad(loads[released + 1])
        /\ released' = released + 1 /\ UNCHANGED <<loads, at, filled>>
    BY <1>3 DEF Drain
  <2>2. QED
    BY <1>1, <1>3, <2>1, ReleaseKeepsWindow
<1>4. CASE ~(released < Len(loads))
  <2>1. released = Len(loads) /\ Rest /\ UNCHANGED storeVars
    BY <1>2, <1>4 DEF Drain
  <2>2. ~spilled => Staged = {}
    BY <1>1, <2>1, EmptyWindow DEF NothingElseStaged
  <2>3. spilled' \in BOOLEAN /\ (~spilled' => Staged = {})
    BY <1>1, <2>2 DEF Control
  <2>4. QED
    BY <1>1, <2>1, <2>3, RestKeepsWindow
<1>5. QED
  BY <1>3, <1>4

LEMMA WindowInvIsInductive ==
  ASSUME WindowInv, [WindowNext]_allVars
  PROVE  WindowInv'
<1>1. CASE \E u \in Users, p \in Payloads : Register(u, p)
  BY <1>1, RegistrationKeepsWindow
<1>2. CASE \E u \in Users : Unregister(u)
  BY <1>2, RegistrationKeepsWindow
<1>3. CASE \E users \in LoadSequences : StartLoadKv(users)
  BY <1>3, StartKeepsWindow
<1>4. CASE Fill \/ FillRaises \/ Filled
  BY <1>4, FillKeepsWindow, FillEndsKeepsWindow
<1>5. CASE GetMemory \/ Inject
  BY <1>5, GetKeepsWindow, InjectKeepsWindow
<1>6. CASE ReleaseInjected
  <2>1. /\ Ready /\ at = "release" /\ ReleaseLoad(loads[released + 1])
        /\ released' = released + 1 /\ at' = "slide" /\ UNCHANGED <<loads, filled, spilled>>
    BY <1>6 DEF ReleaseInjected
  <2>2. released < Len(loads)
    BY <2>1 DEF WindowInv, Control
  <2>3. QED
    BY <2>1, <2>2, ReleaseKeepsWindow
<1>7. CASE Slide \/ NextLoad \/ Drain
  BY <1>7, SlideKeepsWindow, NextLoadKeepsWindow, DrainKeepsWindow
<1>8. CASE StoreStep
  BY <1>8, StoreStepKeepsWindow
<1>9. CASE UNCHANGED allVars
  <2>1. UNCHANGED storeVars /\ UNCHANGED windowVars
    BY <1>9 DEF allVars
  <2>2. StoreInv(Worker)' /\ Op' = Op /\ Staged' = Staged /\ thread'[Worker] = thread[Worker]
    BY <2>1, StoreAlone DEF WindowInv
  <2>3. Control' = Control /\ InWindow' = InWindow
    BY <2>1 DEF windowVars, Control, InWindow, Window
  <2>4. Busy'
    BY <2>1, <2>2, <2>3 DEF windowVars, WindowInv, Busy, Ready, IsFree, Current
  <2>5. NothingElseStaged'
    BY <2>1, <2>2, <2>3 DEF windowVars, WindowInv, NothingElseStaged
  <2>6. QED
    BY <2>2, <2>3, <2>4, <2>5 DEF WindowInv
<1>10. QED
  BY <1>1, <1>2, <1>3, <1>4, <1>5, <1>6, <1>7, <1>8, <1>9 DEF WindowNext

(* Whatever the loads of a step, and whatever fails in it, start_load_kv   *)
(* keeps WindowInv.                                                        *)
THEOREM WindowKeepsToItself == WindowSpec => []WindowInv
<1>1. WindowInit => WindowInv
  BY InitKeepsWindow
<1>2. WindowInv /\ [WindowNext]_allVars => WindowInv'
  BY WindowInvIsInductive
<1>3. QED
  BY <1>1, <1>2, PTL DEF WindowSpec

(* The types of start_load_kv's locals; a load is released at most once.   *)
THEOREM WindowTypeCorrect == WindowSpec => []WindowTypeOK
<1>1. WindowInv => WindowTypeOK
  BY DEF WindowInv, Control, WindowTypeOK
<1>2. QED
  BY <1>1, WindowKeepsToItself, PTL

(* What is injected is the payload registered for the load's user: no      *)
(* eviction between its prefetch and its injection, no copy of an earlier  *)
(* registration.                                                           *)
THEOREM InjectionIsCurrent == WindowSpec => []InjectsCurrentPayload
<1>1. WindowInv => InjectsCurrentPayload
  <2> SUFFICES ASSUME WindowInv, at = "inject", Ready, ~HasRaised
               PROVE  \E s \in ToSet(slots) : /\ s.user = loads[released + 1]
                                             /\ s.payload = host[loads[released + 1]]
    BY DEF InjectsCurrentPayload
  <2>1. loads[released + 1] \in Staged
    BY ReadyOps DEF WindowInv, Busy
  <2>2. QED
    BY <2>1 DEF Staged, ToSet, WindowInv, StoreInv, PoolInv, SlotsAreCurrent
<1>2. QED
  BY <1>1, WindowKeepsToItself, PTL

(* The pool never holds more than the window, so that nothing is evicted;  *)
(* nor anything at all between steps, unless a prefetch of an initial      *)
(* window raised.                                                          *)
THEOREM PoolHoldsTheWindow == WindowSpec => []OnlyWindowIsStaged
<1>1. WindowInv => OnlyWindowIsStaged
  BY DEF WindowInv, NothingElseStaged, OnlyWindowIsStaged, InWindow, Op
<1>2. QED
  BY <1>1, WindowKeepsToItself, PTL
=============================================================================
