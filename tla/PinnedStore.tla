---------------------------- MODULE PinnedStore ----------------------------
(***************************************************************************)
(* CpuPinnedMemoryStore: memories in pinned host RAM, staged to the GPU on *)
(* demand through a small pool of slots.                                   *)
(*                                                                         *)
(* One lock guards the host dict and the slot dict, but no method holds it *)
(* from end to end: a memory is read under it, copied outside it, its slot *)
(* inserted under it again, and the slot an insertion pushes out is chosen *)
(* under it and released later.  Every section is one action.  A release   *)
(* is a section and the wait for the copy that follows; the record it      *)
(* leaves depends on nothing that can change in between.                   *)
(*                                                                         *)
(* The lookup get_chunk_memories resolves ids through always stands for    *)
(* the host dict (PackedStore shows it), so resolving reads host here.  A  *)
(* payload stands for its tensors and for the sizes they have.             *)
(***************************************************************************)
EXTENDS Integers, FiniteSets, SequencesExt

CONSTANTS
  Threads,      \* threads that call the store
  Users,        \* memory ids
  Payloads,     \* what a memory can be registered with
  NoPayload,    \* nothing is registered: the sizes of it are zero
  Slots,        \* num_staging_slots
  MaxTransfers, \* bound: transfers to the GPU in one behaviour
  MaxFetch      \* bound: memories asked for in one get_chunk_memories

ASSUME PinnedStoreAssumption ==
  /\ Slots \in Nat \ {0} /\ NoPayload \notin Payloads
  /\ MaxTransfers \in Nat /\ MaxFetch \in Nat

VARIABLES
  host,      \* _host
  slots,     \* _slots in insertion order: whose copy, of what, which transfer
  records,   \* _metrics: per finished transfer what it moved and was put down as
  transfers, \* transfers issued so far
  thread     \* where each thread is

storeVars == <<host, slots, records, transfers, thread>>

-----------------------------------------------------------------------------
Idle == [op |-> "idle"]
Raised == [op |-> "raised"]
IsFree(t) == thread[t] \in {Idle, Raised}

Registered == {u \in Users : host[u] # NoPayload}
Staged == {s.user : s \in ToSet(slots)}

(* The memory a staging thread is at, and what it does after it.           *)
Current(t) == thread[t].todo[1]
Proceed(t) ==
  IF Len(thread[t].todo) = 1 THEN Idle
  ELSE [op |-> "check", todo |-> Tail(thread[t].todo), hands |-> thread[t].hands]
At(t, op) == [op |-> op, todo |-> thread[t].todo, hands |-> thread[t].hands]
Handing(t) == IF thread[t].hands THEN At(t, "hand") ELSE Proceed(t)

(* The slots but for the one of u, if it has one: _slots is a dict.        *)
SlotsWithout(u) ==
  IF u \in Staged
  THEN RemoveAt(slots, CHOOSE i \in DOMAIN slots : slots[i].user = u)
  ELSE slots

(* release_staging: the slot goes, its transfer is recorded with the sizes *)
(* of whatever is registered under the id by then.                         *)
Release(u) ==
  /\ slots' = SlotsWithout(u)
  /\ records' = records \cup
       {[transfer |-> s.transfer, moved |-> s.payload, sized |-> host[u]] :
          s \in {s \in ToSet(slots) : s.user = u}}

Init ==
  /\ host = [u \in Users |-> NoPayload]
  /\ slots = <<>> /\ records = {} /\ transfers = 0
  /\ thread = [t \in Threads |-> Idle]

-----------------------------------------------------------------------------
(* Registration.                                                           *)

(* An add that leaves the staging of the old registration alone.           *)
BeginAddWithoutRelease(t, u, p) ==
  /\ IsFree(t)
  /\ thread' = [thread EXCEPT ![t] = [op |-> "insert", user |-> u, payload |-> p]]
  /\ UNCHANGED <<host, slots, records, transfers>>

(* add_user_memory up to its lock: the copy to pinned RAM, then the        *)
(* release of a previous registration's staging.                           *)
BeginAdd(t, u, p) ==
  /\ IsFree(t)
  /\ Release(u)
  /\ thread' = [thread EXCEPT ![t] = [op |-> "insert", user |-> u, payload |-> p]]
  /\ UNCHANGED <<host, transfers>>

Insert(t) ==
  /\ thread[t].op = "insert"
  /\ host' = [host EXCEPT ![thread[t].user] = thread[t].payload]
  /\ thread' = [thread EXCEPT ![t] = Idle]
  /\ UNCHANGED <<slots, records, transfers>>

(* A removal that takes the host entry before it releases the staging.     *)
BeginRemoveHostFirst(t, u) ==
  /\ IsFree(t) /\ u \in Registered
  /\ host' = [host EXCEPT ![u] = NoPayload]
  /\ thread' = [thread EXCEPT ![t] = [op |-> "release", user |-> u]]
  /\ UNCHANGED <<slots, records, transfers>>

(* remove_user_memory in its three sections: is it there, release, pop.    *)
BeginRemove(t, u) ==
  /\ IsFree(t) /\ u \in Registered
  /\ thread' = [thread EXCEPT ![t] = [op |-> "release", user |-> u]]
  /\ UNCHANGED <<host, slots, records, transfers>>

ReleaseForRemove(t) ==
  /\ thread[t].op = "release"
  /\ Release(thread[t].user)
  /\ thread' = [thread EXCEPT ![t] = [op |-> "pop", user |-> thread[t].user]]
  /\ UNCHANGED <<host, transfers>>

Pop(t) ==
  /\ thread[t].op = "pop"
  /\ host' = [host EXCEPT ![thread[t].user] = NoPayload]
  /\ thread' = [thread EXCEPT ![t] = Idle]
  /\ UNCHANGED <<slots, records, transfers>>

(* release_staging by a caller that is done with the memory.               *)
ReleaseStaging(t, u) ==
  /\ IsFree(t) /\ u \in Staged
  /\ Release(u)
  /\ thread' = [thread EXCEPT ![t] = Idle]
  /\ UNCHANGED <<host, transfers>>

-----------------------------------------------------------------------------
(* Staging.  prefetch_user_to_gpu stages one memory; get_user_memory also  *)
(* hands its view out, and get_chunk_memories does so for several ids, all *)
(* of them resolved first.                                                 *)

BeginStaging(t, users, hands) ==
  /\ IsFree(t)
  /\ ToSet(users) \subseteq Registered
  /\ thread' = [thread EXCEPT ![t] =
       [op    |-> "check", hands |-> hands,
        todo  |-> [i \in DOMAIN users |-> [user |-> users[i], payload |-> host[users[i]]]]]]
  /\ UNCHANGED <<host, slots, records, transfers>>

(* Transfers numbered from zero.                                           *)
CopyNumberedFromZero(t) ==
  /\ transfers < MaxTransfers
  /\ transfers' = transfers + 1
  /\ thread' = [thread EXCEPT ![t] =
       [op |-> "copied", transfer |-> transfers,
        todo |-> thread[t].todo, hands |-> thread[t].hands]]

(* The copies of every layer are issued on the copy stream.                *)
Copy(t) ==
  /\ transfers < MaxTransfers
  /\ transfers' = transfers + 1
  /\ thread' = [thread EXCEPT ![t] =
       [op |-> "copied", transfer |-> transfers + 1,
        todo |-> thread[t].todo, hands |-> thread[t].hands]]

(* The first section of _prefetch_host_memory, and the copies it issues    *)
(* when nothing is staged under the id.  An allocation may fail, and the   *)
(* caller gets the exception.                                              *)
Check(t) ==
  /\ thread[t].op = "check"
  /\ IF Current(t).user \in Staged
     THEN transfers' = transfers /\ thread' = [thread EXCEPT ![t] = Handing(t)]
     ELSE Copy(t) \/ (transfers' = transfers /\ thread' = [thread EXCEPT ![t] = Raised])
  /\ UNCHANGED <<host, slots, records>>

(* The second section: the slot goes in, over another one under the id if  *)
(* there is one.                                                           *)
PutSlot(t) ==
  /\ thread[t].op = "copied"
  /\ LET slot == [user |-> Current(t).user, payload |-> Current(t).payload,
                  transfer |-> thread[t].transfer]
     IN  slots' = IF slot.user \in Staged
                  THEN [i \in DOMAIN slots |-> IF slots[i].user = slot.user THEN slot ELSE slots[i]]
                  ELSE Append(slots, slot)
  /\ thread' = [thread EXCEPT ![t] = At(t, "evict")]
  /\ UNCHANGED <<host, records, transfers>>

OverCapacity == Len(slots) > Slots

(* The slot inserted last is pushed out.                                   *)
Newest(keep) == slots[Len(slots)].user

(* The oldest slot but the one just inserted.                              *)
Oldest(keep) == slots[Min({i \in DOMAIN slots : slots[i].user # keep})].user

(* _evict_over_capacity: the victim is chosen under the lock ...           *)
PickVictim(t) ==
  /\ thread[t].op = "evict"
  /\ thread' = [thread EXCEPT ![t] =
       IF OverCapacity /\ Staged # {Current(t).user}
       THEN [op |-> "evicting", victim |-> Oldest(Current(t).user),
             todo |-> thread[t].todo, hands |-> thread[t].hands]
       ELSE Handing(t)]
  /\ UNCHANGED <<host, slots, records, transfers>>

(* ... and released after it.                                              *)
ReleaseVictim(t) ==
  /\ thread[t].op = "evicting"
  /\ Release(thread[t].victim)
  /\ thread' = [thread EXCEPT ![t] = Handing(t)]
  /\ UNCHANGED <<host, transfers>>

(* The view is handed out, if the slot is still there.                     *)
Hand(t) ==
  /\ thread[t].op = "hand"
  /\ thread' = [thread EXCEPT ![t] =
       IF Current(t).user \in Staged THEN Proceed(t) ELSE Raised]
  /\ UNCHANGED <<host, slots, records, transfers>>

(* One section of a method that has begun.                                 *)
Work(t) ==
  \/ Insert(t) \/ ReleaseForRemove(t) \/ Pop(t)
  \/ Check(t) \/ PutSlot(t) \/ PickVictim(t) \/ ReleaseVictim(t) \/ Hand(t)

Fetches == {s \in SeqOf(Users, MaxFetch) : s # <<>> /\ IsInjective(s)}

Next ==
  \E t \in Threads :
    \/ \E u \in Users :
         \/ \E p \in Payloads : BeginAdd(t, u, p)
         \/ BeginRemove(t, u)
         \/ ReleaseStaging(t, u)
         \/ BeginStaging(t, <<u>>, FALSE)
    \/ \E users \in Fetches : BeginStaging(t, users, TRUE)
    \/ Work(t)

Spec == Init /\ [][Next]_storeVars

-----------------------------------------------------------------------------
(* Properties.                                                             *)

TypeOK ==
  /\ host \in [Users -> Payloads \cup {NoPayload}]
  /\ slots \in Seq([user : Users, payload : Payloads, transfer : 1..MaxTransfers])
  /\ \A r \in records : r.moved \in Payloads /\ r.transfer \in 1..MaxTransfers
  /\ transfers \in 0..MaxTransfers
  /\ \A t \in Threads :
       thread[t].op \in {"idle", "raised", "insert", "release", "pop", "check", "copied",
                         "evict", "evicting", "hand"}

InRegistration(u) ==
  \E t \in Threads : thread[t].op \in {"insert", "release", "pop"} /\ thread[t].user = u

(* What is staged is what is registered: no slot outlives a removal or     *)
(* serves the payload of an earlier registration.                          *)
StagedIsCurrent ==
  \A s \in ToSet(slots) : InRegistration(s.user) \/ s.payload = host[s.user]

(* Every transfer issued is in a slot, in the metrics, or still with the   *)
(* thread that issued it, none dropped and none counted twice; and it is   *)
(* recorded with the sizes of what it moved.                               *)
TransfersAccountedFor ==
  /\ transfers = Len(slots) + Cardinality(records)
                   + Cardinality({t \in Threads : thread[t].op = "copied"})
  /\ \A r \in records : r.sized = r.moved

(* The pool at its limit: an eviction never takes the slot a thread is     *)
(* about to hand out, which holds the payload the thread resolved, and     *)
(* takes enough that between calls the pool is within its slots.           *)
HandsWhatItStaged ==
  /\ \A t \in Threads : thread[t].op = "hand" =>
       \E s \in ToSet(slots) : s.user = Current(t).user /\ s.payload = Current(t).payload
  /\ (\A t \in Threads : IsFree(t)) => Len(slots) <= Slots
=============================================================================
