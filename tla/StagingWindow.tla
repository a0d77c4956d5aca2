--------------------------- MODULE StagingWindow ---------------------------
(***************************************************************************)
(* start_load_kv over a pinned store: the worker slides a window of        *)
(* prefetched memories over the loads of a scheduler step.                 *)
(*                                                                         *)
(* The window is as wide as the pool.  It is filled before the loop; in    *)
(* the loop each load is injected, its slot released, and the load that    *)
(* enters the window prefetched.  Whatever raises in the loop, the slots   *)
(* of the loads not yet released are released.                             *)
(*                                                                         *)
(* The worker is the store's only thread here: connector and corpus are    *)
(* driven from one thread, and no call comes in during a step.             *)
(***************************************************************************)
EXTENDS PinnedStore

CONSTANTS
  Worker,   \* the thread
  MaxLoads  \* bound: loads of one step

ASSUME StagingWindowAssumption == Threads = {Worker} /\ MaxLoads \in Nat

VARIABLES
  loads,    \* the users of the step's loads, in order
  at,       \* where start_load_kv is
  filled,   \* loads of the initial window prefetched so far
  released, \* released
  spilled   \* history: an exception left the method before its try block

windowVars == <<loads, at, filled, released, spilled>>
allVars == <<storeVars, windowVars>>

Capped(a, b) == IF a < b THEN a ELSE b

Window == Capped(Slots, Len(loads))

WindowInit ==
  /\ Init
  /\ loads = <<>> /\ at = "rest" /\ filled = 0 /\ released = 0 /\ spilled = FALSE

Ready == IsFree(Worker)
HasRaised == thread[Worker] = Raised

(* prefetch_user_to_gpu, which does nothing for a user without a memory.   *)
Prefetch(u) ==
  IF u \in Registered THEN BeginStaging(Worker, <<u>>, FALSE)
  ELSE thread' = [thread EXCEPT ![Worker] = Idle] /\ UNCHANGED <<host, slots, records, transfers>>

ReleaseLoad(u) ==
  Release(u) /\ thread' = [thread EXCEPT ![Worker] = Idle] /\ UNCHANGED <<host, transfers>>

(* A method whose count of released loads outlives it.                     *)
RestKeepsCount == at' = "rest" /\ loads' = <<>> /\ filled' = 0 /\ UNCHANGED released

(* start_load_kv is over: its locals are gone.                             *)
Rest == /\ at' = "rest" /\ loads' = <<>> /\ filled' = 0 /\ released' = 0

-----------------------------------------------------------------------------
(* Between steps memories are registered and removed.                      *)
Register(u, p) == at = "rest" /\ BeginAdd(Worker, u, p) /\ UNCHANGED windowVars
Unregister(u) == at = "rest" /\ BeginRemove(Worker, u) /\ UNCHANGED windowVars

StartLoadKv(users) ==
  /\ at = "rest" /\ Ready
  /\ loads' = users /\ at' = "fill"
  /\ thread' = [thread EXCEPT ![Worker] = Idle]
  /\ UNCHANGED <<host, slots, records, transfers, filled, released, spilled>>

(* The initial window; an exception here is raised to the engine as it is. *)
Fill ==
  /\ at = "fill" /\ Ready /\ ~HasRaised
  /\ filled < Window
  /\ Prefetch(loads[filled + 1])
  /\ filled' = filled + 1
  /\ UNCHANGED <<loads, at, released, spilled>>

FillRaises ==
  /\ at = "fill" /\ HasRaised
  /\ spilled' = (spilled \/ slots # <<>>)
  /\ Rest /\ UNCHANGED storeVars

Filled ==
  /\ at = "fill" /\ Ready /\ ~HasRaised
  /\ filled = Window
  /\ at' = "get"
  /\ UNCHANGED <<storeVars, loads, filled, released, spilled>>

(* get_user_memory of the next load; a memory that is gone raises.         *)
GetMemory ==
  /\ at = "get" /\ Ready
  /\ LET u == loads[released + 1]
     IN  IF u \in Registered
         THEN BeginStaging(Worker, <<u>>, TRUE) /\ at' = "inject"
         ELSE at' = "drain" /\ UNCHANGED storeVars
  /\ UNCHANGED <<loads, filled, released, spilled>>

(* inject_load: reads the staged layers, and may refuse what it finds.     *)
Inject ==
  /\ at = "inject" /\ Ready
  /\ at' \in IF HasRaised THEN {"drain"} ELSE {"release", "drain"}
  /\ UNCHANGED <<storeVars, loads, filled, released, spilled>>

ReleaseInjected ==
  /\ at = "release" /\ Ready
  /\ ReleaseLoad(loads[released + 1])
  /\ released' = released + 1
  /\ at' = "slide"
  /\ UNCHANGED <<loads, filled, spilled>>

(* The load that enters the window, if one does.                           *)
Slide ==
  /\ at = "slide" /\ Ready
  /\ IF released + Window <= Len(loads)
     THEN Prefetch(loads[released + Window]) /\ at' = "slid"
     ELSE at' = "slid" /\ UNCHANGED storeVars
  /\ UNCHANGED <<loads, filled, released, spilled>>

(* On to the next load, or out: the finally block has nothing left then.   *)
NextLoad ==
  /\ at = "slid" /\ Ready
  /\ \/ HasRaised /\ at' = "drain" /\ UNCHANGED <<loads, filled, released>>
     \/ /\ ~HasRaised /\ released < Len(loads)
        /\ at' = "get" /\ UNCHANGED <<loads, filled, released>>
     \/ ~HasRaised /\ released = Len(loads) /\ Rest
  /\ UNCHANGED <<storeVars, spilled>>

(* A finally block that takes the failed load for released.                *)
DrainSkipsFailed ==
  /\ at = "drain" /\ Ready
  /\ IF released + 1 < Len(loads)
     THEN /\ ReleaseLoad(loads[released + 2])
          /\ released' = released + 1 /\ UNCHANGED <<loads, at, filled>>
     ELSE Rest /\ UNCHANGED storeVars
  /\ UNCHANGED spilled

(* The finally block after an exception: one release per load left.        *)
Drain ==
  /\ at = "drain" /\ Ready
  /\ IF released < Len(loads)
     THEN /\ ReleaseLoad(loads[released + 1])
          /\ released' = released + 1 /\ UNCHANGED <<loads, at, filled>>
     ELSE Rest /\ UNCHANGED storeVars
  /\ UNCHANGED spilled

StoreStep == Work(Worker) /\ UNCHANGED windowVars

LoadSequences == {s \in SeqOf(Users, MaxLoads) : s # <<>>}

WindowNext ==
  \/ \E u \in Users, p \in Payloads : Register(u, p)
  \/ \E u \in Users : Unregister(u)
  \/ \E users \in LoadSequences : StartLoadKv(users)
  \/ Fill \/ FillRaises \/ Filled
  \/ GetMemory \/ Inject \/ ReleaseInjected \/ Slide \/ NextLoad \/ Drain
  \/ StoreStep

WindowSpec == WindowInit /\ [][WindowNext]_allVars

-----------------------------------------------------------------------------
(* Properties.                                                             *)

WindowTypeOK ==
  /\ loads \in Seq(Users) /\ Len(loads) <= MaxLoads
  /\ at \in {"rest", "fill", "get", "inject", "release", "slide", "slid", "drain"}
  /\ filled \in 0..Window /\ released \in 0..Len(loads)
  /\ spilled \in BOOLEAN

(* A load is injected from a slot that holds the payload registered for    *)
(* its user now.                                                           *)
InjectsCurrentPayload ==
  at = "inject" /\ Ready /\ ~HasRaised =>
    \E s \in ToSet(slots) :
      s.user = loads[released + 1] /\ s.payload = host[loads[released + 1]]

(* Only loads still in the window occupy slots, and none once the step is  *)
(* over, whichever load failed in it; so the pool always has room for the  *)
(* next load and evicts nothing that is still to be injected.  A step that *)
(* raised while it filled its window is exempt: it leaves without the      *)
(* finally clause that would give the slots back.                          *)
OnlyWindowIsStaged ==
  ~spilled =>
    /\ thread[Worker].op # "evicting"
    /\ Staged \subseteq
         IF at = "rest" THEN {}
         ELSE {loads[i] : i \in (released + 1)..Capped(released + Window, Len(loads))}
=============================================================================
