--------------------------- MODULE LayerStaging ---------------------------
(***************************************************************************)
(* The asynchronous half of the pinned store: copies of a memory's layers  *)
(* run on a copy stream, the kernels that read them on the stream the      *)
(* reader happens to be on, and the host only orders the two with events   *)
(* and with what it tells the caching allocator.  A transfer owns one GPU  *)
(* buffer per layer.  LayerKVView waits for a layer at its first access,   *)
(* registers its tensor on the reading stream, and never looks again.      *)
(*                                                                         *)
(* Nobody synchronises the kernels before a slot is released.  What keeps  *)
(* a buffer from being overwritten under a kernel is the allocator, which  *)
(* takes a block back at once unless it was recorded on another stream,    *)
(* and then only after the work queued there by that time.                 *)
(***************************************************************************)
EXTENDS Integers, Sequences, FiniteSets

CONSTANTS
  Memories,     \* memory ids
  NumLayers,    \* layers of a memory
  CachedLayers, \* layers of the model that have a paged KV cache
  NumBuffers,   \* what the allocator has for the copy stream, one layer each
  Computes,     \* streams a reader may be on
  CopyStream,   \* _copy_stream
  None,         \* no transfer is in a slot
  MaxTransfers, \* bound: transfers in one behaviour
  MaxJob,       \* bound: memories read by one composition
  MaxJobs,      \* bound: injections and compositions in one behaviour
  MaxQueued     \* bound: the reader goes on only with fewer operations queued

Layers == 1..NumLayers
Buffers == 1..NumBuffers

ASSUME LayerStagingAssumption ==
  /\ NumLayers \in Nat \ {0} /\ NumBuffers \in Nat /\ MaxTransfers \in Nat
  /\ CachedLayers \subseteq Layers /\ CachedLayers # {}
  /\ CopyStream \notin Computes /\ Computes # {} /\ None \notin Nat

VARIABLES
  slot,    \* _slots: the transfer a memory is staged by
  view,    \* per transfer: its buffers, _waited, and what record_stream was told
  stream,  \* per stream the operations that have not run yet
  landed,  \* the <<transfer, layer>> whose event is complete
  content, \* what each buffer holds
  current, \* the stream torch.cuda.current_stream names
  job,     \* the injection or composition under way
  jobs     \* how many there have been

vars == <<slot, view, stream, landed, content, current, job, jobs>>

-----------------------------------------------------------------------------
NoJob == [kind |-> "none", of |-> <<>>, layer |-> 0, next |-> 1]
Streams == Computes \cup {CopyStream}
Transfers == DOMAIN view

Reading(t) == \E i \in DOMAIN job.of : job.of[i] = t
Staged(t) == \E m \in Memories : slot[m] = t

BuffersOf(t) == {view[t].buffer[l] : l \in DOMAIN view[t].buffer}
Queued(s) == {stream[s][i] : i \in DOMAIN stream[s]}
BufferOf(p) == view[p[1]].buffer[p[2]]

(* An allocation may have b: no slot and no reader refers to its tensor,   *)
(* and the events recorded when the last reference went have passed.       *)
Reusable(b) ==
  /\ \A t \in Transfers : Staged(t) \/ Reading(t) => b \notin BuffersOf(t)
  /\ \A s \in Computes : \A op \in Queued(s) :
       op.do = "free" => \A p \in op.of : BufferOf(p) # b

Op(do, pairs) == [do |-> do, of |-> pairs]

(* The tensors of t that were recorded on s.                               *)
RecordedOn(t, s) ==
  {<<t, l>> : l \in {l \in DOMAIN view[t].buffer : <<l, s>> \in view[t].recorded}}

(* The last reference to the tensors of these transfers goes: the          *)
(* allocator records an event on every stream one of them was used on.     *)
Drop(gone) ==
  stream' = [s \in Streams |->
    LET used == UNION {RecordedOn(t, s) : t \in gone}
    IN  IF s = CopyStream \/ used = {} THEN stream[s]
        ELSE Append(stream[s], Op("free", used))]

Init ==
  /\ slot = [m \in Memories |-> None]
  /\ view = <<>>
  /\ stream = [s \in Streams |-> <<>>]
  /\ landed = {}
  /\ content = [b \in Buffers |-> None]
  /\ current \in Computes
  /\ job = NoJob /\ jobs = 0

-----------------------------------------------------------------------------
(* Staging.                                                                *)

(* The loop over the layers: a copy, and the event behind it.              *)
Issue(t, buffer) == [i \in 1..Len(buffer) |-> Op("copy", {<<t, i>>})]

(* _prefetch_host_memory of a memory that is not staged.  Each layer gets  *)
(* a buffer and its copy is queued; the allocation of a later layer may    *)
(* fail, and then the buffers so far go back with their copies queued.     *)
Stage(m, buffer) ==
  /\ Len(view) < MaxTransfers
  /\ slot[m] = None
  /\ \A i \in DOMAIN buffer : Reusable(buffer[i])
  /\ LET t == Len(view) + 1
     IN  /\ view' = Append(view, [buffer |-> buffer, waited |-> {}, recorded |-> {}])
         /\ stream' = [stream EXCEPT ![CopyStream] = @ \o Issue(t, buffer)]
         /\ slot' = [slot EXCEPT ![m] = IF Len(buffer) = NumLayers THEN t ELSE None]
  /\ UNCHANGED <<landed, content, current, job, jobs>>

(* One buffer, taken before the loop and filled by layer after layer.      *)
OneForAllLayers ==
  {f \in UNION {[1..n -> Buffers] : n \in Layers} : \A i, j \in DOMAIN f : f[i] = f[j]}

(* Buffers for the first layers of a memory; the allocator gives out equal *)
(* blocks by their address.                                                *)
Allocations ==
  {f \in UNION {[1..n -> Buffers] : n \in Layers} :
     \A i, j \in DOMAIN f : i < j => f[i] < f[j]}

(* release_staging, by the reader when it is done or by an eviction while  *)
(* it still reads: the slot goes, the host waits for the end event, and    *)
(* the tensors go with it unless a reader still holds the view.            *)
Release(m) ==
  /\ slot[m] # None
  /\ \A l \in Layers : <<slot[m], l>> \in landed
  /\ slot' = [slot EXCEPT ![m] = None]
  /\ Drop(IF Reading(slot[m]) THEN {} ELSE {slot[m]})
  /\ UNCHANGED <<view, landed, content, current, job, jobs>>

-----------------------------------------------------------------------------
(* Reading.  inject_load probes the first layer for its device, then goes  *)
(* through the layers that have a KV cache; a composition goes through     *)
(* every layer, and through its chunks in each.                            *)

NextLayer(after, wanted) ==
  LET later == {l \in wanted : l > after}
  IN  IF later = {} THEN NumLayers + 1
      ELSE CHOOSE l \in later : \A k \in later : l <= k

BeginInject(m) ==
  /\ job = NoJob /\ jobs < MaxJobs /\ jobs' = jobs + 1 /\ slot[m] # None
  /\ job' = [kind |-> "probe", of |-> <<slot[m]>>, layer |-> 1, next |-> 1]
  /\ UNCHANGED <<slot, view, stream, landed, content, current>>

BeginCompose(memories) ==
  /\ job = NoJob /\ jobs < MaxJobs /\ jobs' = jobs + 1
  /\ \A i \in DOMAIN memories : slot[memories[i]] # None
  /\ job' = [kind  |-> "compose", of |-> [i \in DOMAIN memories |-> slot[memories[i]]],
             layer |-> 1, next |-> 1]
  /\ UNCHANGED <<slot, view, stream, landed, content, current>>

(* What the view keeps of an access, with the tensor never recorded.       *)
ViewUnrecorded(v, l) == [v EXCEPT !.waited = @ \cup {l}]

(* _wait_for_layer's marks on the view.                                    *)
ViewAfter(v, l) ==
  [v EXCEPT !.waited = @ \cup {l}, !.recorded = @ \cup {<<l, current>>}]

(* A host that waits for the layer after the one it wants.                 *)
AwaitTheNext(t, l) ==
  /\ <<t, l + 1>> \in landed
  /\ stream' = [stream EXCEPT ![current] = Append(@, Op("wait", {<<t, l + 1>>}))]

(* The host goes on when the layer's event is complete, and the stream is  *)
(* made to wait for it as well.                                            *)
Await(t, l) ==
  /\ <<t, l>> \in landed
  /\ stream' = [stream EXCEPT ![current] = Append(@, Op("wait", {<<t, l>>}))]

(* LayerKVView.__getitem__ for the layer the reader is at.                 *)
Access ==
  /\ job # NoJob /\ job.layer \in Layers /\ job.next \in DOMAIN job.of
  /\ Len(stream[current]) < MaxQueued
  /\ LET t == job.of[job.next]
     IN  IF job.layer \in view[t].waited
         THEN UNCHANGED <<view, stream>>
         ELSE /\ Await(t, job.layer)
              /\ view' = [view EXCEPT ![t] = ViewAfter(@, job.layer)]
  /\ job' = [job EXCEPT !.next = @ + 1]
  /\ UNCHANGED <<slot, landed, content, current, jobs>>

(* The kernel that reads the layer is queued; the probe has none.          *)
Launch ==
  /\ job # NoJob /\ job.layer \in Layers /\ job.next \notin DOMAIN job.of
  /\ Len(stream[current]) < MaxQueued
  /\ IF job.kind = "probe"
     THEN /\ job' = [kind |-> "inject", of |-> job.of, next |-> 1,
                     layer |-> NextLayer(0, CachedLayers)]
          /\ UNCHANGED stream
     ELSE /\ stream' = [stream EXCEPT ![current] =
               Append(@, Op("read", {<<job.of[i], job.layer>> : i \in DOMAIN job.of}))]
          /\ job' = [job EXCEPT !.next = 1, !.layer =
               NextLayer(@, IF job.kind = "inject" THEN CachedLayers ELSE Layers)]
  /\ UNCHANGED <<slot, view, landed, content, current, jobs>>

(* The views go out of scope: after the last layer, or where the loop      *)
(* raised because a layer is missing or its shape does not fit.            *)
EndJob ==
  /\ job # NoJob
  /\ job' = NoJob
  /\ Drop({t \in Transfers : Reading(t) /\ ~Staged(t)})
  /\ UNCHANGED <<slot, view, landed, content, current, jobs>>

(* The reader's stream is another one by the time the next memory is read. *)
SwitchStream(s) ==
  /\ s # current /\ job = NoJob
  /\ \A t \in Transfers : Staged(t) => view[t].waited = {}
  /\ current' = s
  /\ UNCHANGED <<slot, view, stream, landed, content, job, jobs>>

-----------------------------------------------------------------------------
(* The device.  A stream runs its operations in order, and streams run     *)
(* independently of one another.                                           *)

Run(s) ==
  /\ stream[s] # <<>>
  /\ LET op == Head(stream[s])
     IN  /\ op.do = "wait" => op.of \subseteq landed
         /\ landed' = IF op.do = "copy" THEN landed \cup op.of ELSE landed
         /\ content' = IF op.do = "copy"
                       THEN [b \in Buffers |->
                               IF \E p \in op.of : BufferOf(p) = b
                               THEN CHOOSE p \in op.of : BufferOf(p) = b ELSE content[b]]
                       ELSE content
  /\ stream' = [stream EXCEPT ![s] = Tail(@)]
  /\ UNCHANGED <<slot, view, current, job, jobs>>

Compositions ==
  {f \in UNION {[1..n -> Memories] : n \in 1..MaxJob} :
     \A i, j \in DOMAIN f : f[i] = f[j] => i = j}

Next ==
  \/ \E m \in Memories : \/ \E buffer \in Allocations : Stage(m, buffer)
                         \/ Release(m)
                         \/ BeginInject(m)
  \/ \E memories \in Compositions : BeginCompose(memories)
  \/ Access
  \/ Launch
  \/ EndJob
  \/ \E s \in Computes : SwitchStream(s)
  \/ \E s \in Streams : Run(s)

(* The device runs what is queued, and the reader's loop goes on; nobody   *)
(* has to stage, to release or to read again.                              *)
Fairness ==
  /\ \A s \in Streams : WF_vars(Run(s))
  /\ WF_vars(Access) /\ WF_vars(Launch)
  /\ WF_vars(job.layer > NumLayers /\ EndJob)

Spec == Init /\ [][Next]_vars /\ Fairness

-----------------------------------------------------------------------------
(* Properties.                                                             *)

(* A kernel that may run now finds every layer it was launched for in its  *)
(* buffer, and no copy of another memory may run into that buffer at the   *)
(* same time (LayerKVView._wait_for_layer, release_staging).               *)
KernelsReadTheirLayer ==
  \A s \in Computes : stream[s] # <<>> /\ Head(stream[s]).do = "read" =>
    \A p \in Head(stream[s]).of :
      /\ content[BufferOf(p)] = p
      /\ stream[CopyStream] # <<>> =>
           \A q \in Head(stream[CopyStream]).of : BufferOf(q) # BufferOf(p)

(* A view is good for as long as somebody has it: what landed in a staged  *)
(* or still referenced transfer stays there, also after an eviction        *)
(* released its slot under the reader.                                     *)
ViewsKeepTheirLayers ==
  \A p \in landed : Staged(p[1]) \/ Reading(p[1]) => content[BufferOf(p)] = p

(* The reader never waits for ever, and nothing queued is left waiting:    *)
(* no copy waits for a kernel that waits for the copy.                     *)
ReadersAndStreamsFinish ==
  /\ (job # NoJob) ~> (job = NoJob)
  /\ \A s \in Streams : (stream[s] # <<>>) ~> (stream[s] = <<>>)
=============================================================================
