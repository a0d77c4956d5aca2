------------------------- MODULE LayerStagingProofs -------------------------
(***************************************************************************)
(* No kernel reads a layer that is not there, for any memories, layers,    *)
(* buffers and streams.                                                    *)
(*                                                                         *)
(* StagingInv is inductive.  A layer is held while a slot or a reader has  *)
(* its transfer, and after that until the stream it was recorded on has    *)
(* passed the event of its release; HeldInv says that its buffer belongs   *)
(* to no later transfer until then, and OrderInv that the copies run in    *)
(* the order of their transfers, so a copy of an earlier one, abandoned by *)
(* a failed allocation, cannot come after it.  ReadInv is what ties the    *)
(* kernels to this: what they read has landed, and is held until they ran. *)
(***************************************************************************)
EXTENDS LayerStaging, SequenceTheorems, TLAPS

View == [buffer : Seq(Buffers), waited : SUBSET Layers,
         recorded : SUBSET (Layers \X Computes)]

Operation == [do : {"copy", "wait", "read", "free"}, of : SUBSET (Nat \X Layers)]

(* A slot or a reader has the transfer.                                    *)
Live(t) == Staged(t) \/ Reading(t)

(* The layers that were given a buffer.                                    *)
Pairs == {p \in Nat \X Layers : p[1] \in Transfers /\ p[2] \in DOMAIN view[p[1]].buffer}

(* The order in which the layers are copied.                               *)
Before(p, q) == p[1] < q[1] \/ (p[1] = q[1] /\ p[2] < q[2])

(* Behind the first i operations of s, the last use of p is awaited.       *)
FreedAfter(p, s, i) ==
  \E j \in DOMAIN stream[s] :
    i < j /\ stream[s][j].do = "free" /\ p \in stream[s][j].of

Held(p) == Live(p[1]) \/ \E s \in Computes : FreedAfter(p, s, 0)

-----------------------------------------------------------------------------
TypeInv ==
  /\ slot \in [Memories -> Nat \cup {None}]
  /\ view \in Seq(View)
  /\ stream \in [Streams -> Seq(Operation)]
  /\ landed \subseteq Pairs
  /\ DOMAIN content = Buffers
  /\ current \in Computes
  /\ DOMAIN job = {"kind", "of", "layer", "next"}
  /\ job.of \in Seq(Nat) /\ job.next \in Nat \ {0}

(* Only a transfer that got all its buffers is staged or read.             *)
LiveInv ==
  \A t \in Nat : Live(t) => t \in Transfers /\ Len(view[t].buffer) = NumLayers

BuffersInv ==
  \A t \in Transfers : \A i, j \in DOMAIN view[t].buffer :
    view[t].buffer[i] = view[t].buffer[j] => i = j

(* Copies are made on the copy stream, one layer each, and nothing else.   *)
StreamInv ==
  \A s \in Streams : \A i \in DOMAIN stream[s] :
    /\ stream[s][i].do = "copy" <=> s = CopyStream
    /\ stream[s][i].do = "copy" => \E p \in Pairs : stream[s][i].of = {p}
    /\ stream[s][i].of \subseteq Pairs

OrderInv ==
  /\ \A i, j \in DOMAIN stream[CopyStream] : i < j =>
       \A p \in stream[CopyStream][i].of, q \in stream[CopyStream][j].of : Before(p, q)
  /\ \A p \in landed : \A i \in DOMAIN stream[CopyStream] :
       \A q \in stream[CopyStream][i].of : Before(p, q)

HeldInv ==
  \A p \in Pairs : Held(p) =>
    \A t \in Transfers : p[1] < t => BufferOf(p) \notin BuffersOf(t)

ContentInv == \A p \in landed : Held(p) => content[BufferOf(p)] = p

(* A layer the view has waited for is known to the reading stream.         *)
WaitedInv ==
  \A t \in Transfers : Live(t) =>
    \A l \in view[t].waited : <<l, current>> \in view[t].recorded /\ <<t, l>> \in landed

ReadInv ==
  \A s \in Computes : \A i \in DOMAIN stream[s] : stream[s][i].do = "read" =>
    \A p \in stream[s][i].of :
      /\ p \in landed
      /\ \/ Live(p[1]) /\ <<p[2], s>> \in view[p[1]].recorded
         \/ FreedAfter(p, s, i)

(* The reader has accessed what it passed.                                 *)
JobInv ==
  \A i \in DOMAIN job.of :
    i < job.next /\ job.layer \in Layers => job.layer \in view[job.of[i]].waited

StagingInv ==
  /\ TypeInv /\ LiveInv /\ BuffersInv /\ StreamInv /\ OrderInv
  /\ HeldInv /\ ContentInv /\ WaitedInv /\ ReadInv /\ JobInv

-----------------------------------------------------------------------------
(* What a step of the host is to the invariant.                            *)

SameBuffers ==
  /\ Len(view') = Len(view)
  /\ \A t \in Transfers : /\ view'[t].buffer = view[t].buffer
                          /\ view[t].recorded \subseteq view'[t].recorded

(* What was queued stays as it was queued.                                 *)
Extends(s) ==
  /\ Len(stream[s]) <= Len(stream'[s])
  /\ \A i \in DOMAIN stream[s] : stream'[s][i] = stream[s][i]

Added(s) == DOMAIN stream'[s] \ DOMAIN stream[s]

(* A reader may queue a kernel for what it holds, and the release of what  *)
(* was held.                                                               *)
MayQueue(s, op) ==
  /\ op.do # "copy" /\ op.of \subseteq Pairs
  /\ op.do = "free" => \A p \in op.of : Live(p[1])
  /\ op.do = "read" => \A p \in op.of :
       p \in landed /\ Live(p[1])' /\ <<p[2], s>> \in view'[p[1]].recorded

(* Every stream a tensor of t was recorded on gets its event.              *)
LetGo(t) ==
  \A s \in Computes : \A l \in DOMAIN view[t].buffer : <<l, s>> \in view[t].recorded =>
    \E j \in Added(s) : stream'[s][j].do = "free" /\ <<t, l>> \in stream'[s][j].of

HostStep ==
  /\ SameBuffers
  /\ landed' = landed /\ content' = content
  /\ stream'[CopyStream] = stream[CopyStream]
  /\ \A s \in Computes : Extends(s) /\ \A i \in Added(s) : MayQueue(s, stream'[s][i])
  /\ \A t \in Nat : Live(t)' => Live(t)
  /\ \A t \in Transfers : Live(t) => Live(t)' \/ LetGo(t)

LEMMA ViewsAreViews ==
  ASSUME TypeInv
  PROVE  /\ Transfers = 1..Len(view) /\ Len(view) \in Nat
         /\ \A t \in Transfers :
              /\ view[t] \in View /\ view[t].buffer \in Seq(Buffers)
              /\ view[t].waited \subseteq Layers
              /\ view[t].recorded \subseteq Layers \X Computes
<1>1. view \in Seq(View)
  BY DEF TypeInv
<1> HIDE DEF View
<1>2. Transfers = 1..Len(view) /\ Len(view) \in Nat /\ \A t \in Transfers : view[t] \in View
  BY <1>1 DEF Transfers
<1>3. QED
  BY <1>2 DEF View

LEMMA PairsStay ==
  ASSUME TypeInv, TypeInv', SameBuffers
  PROVE  /\ Transfers' = Transfers /\ Pairs' = Pairs
         /\ \A p \in Pairs : BufferOf(p)' = BufferOf(p)
         /\ \A t \in Transfers : BuffersOf(t)' = BuffersOf(t)
<1>1. Transfers' = Transfers
  BY DEF TypeInv, SameBuffers, Transfers
<1>2. \A t \in Transfers : view'[t].buffer = view[t].buffer
  BY DEF SameBuffers
<1>3. Pairs' = Pairs
  BY <1>1, <1>2 DEF Pairs
<1>4. \A p \in Pairs : BufferOf(p)' = BufferOf(p)
  BY <1>2 DEF Pairs, BufferOf
<1>5. \A t \in Transfers : BuffersOf(t)' = BuffersOf(t)
  BY <1>2 DEF BuffersOf
<1>6. QED
  BY <1>1, <1>3, <1>4, <1>5

LEMMA FreedStays ==
  ASSUME TypeInv, TypeInv', NEW s \in Computes, Extends(s), NEW p, NEW i, FreedAfter(p, s, i)
  PROVE  FreedAfter(p, s, i)'
<1>1. stream[s] \in Seq(Operation) /\ stream'[s] \in Seq(Operation)
  BY DEF TypeInv, Streams
<1>2. PICK j \in DOMAIN stream[s] : i < j /\ stream[s][j].do = "free" /\ p \in stream[s][j].of
  BY DEF FreedAfter
<1>3. j \in DOMAIN stream'[s] /\ stream'[s][j] = stream[s][j]
  BY <1>1 DEF Extends
<1>4. QED
  BY <1>2, <1>3 DEF FreedAfter

(* Such a step lets nothing be held that was not.                          *)
LEMMA HeldShrinks ==
  ASSUME TypeInv, TypeInv', HostStep, NEW p \in Pairs, Held(p)'
  PROVE  Held(p)
<1>1. p[1] \in Nat
  BY DEF Pairs
<1>2. CASE Live(p[1])'
  BY <1>1, <1>2 DEF HostStep, Held
<1>3. CASE \E s \in Computes : FreedAfter(p, s, 0)'
  <2>0. PICK s \in Computes : FreedAfter(p, s, 0)'
    BY <1>3
  <2>1. PICK j \in DOMAIN stream'[s] :
          0 < j /\ stream'[s][j].do = "free" /\ p \in stream'[s][j].of
    BY <2>0 DEF FreedAfter
  <2>2. CASE j \in DOMAIN stream[s]
    <3>1. stream'[s][j] = stream[s][j]
      BY <2>2 DEF HostStep, Extends
    <3>2. QED
      BY <2>1, <2>2, <3>1 DEF Held, FreedAfter
  <2>3. CASE j \notin DOMAIN stream[s]
    <3>1. MayQueue(s, stream'[s][j])
      BY <2>1, <2>3 DEF HostStep, Added
    <3>2. QED
      BY <2>1, <3>1 DEF MayQueue, Held
  <2>4. QED
    BY <2>2, <2>3
<1>4. QED
  BY <1>2, <1>3 DEF Held

LEMMA HostKeepsBuffers ==
  ASSUME StagingInv, TypeInv', HostStep
  PROVE  LiveInv' /\ BuffersInv' /\ OrderInv' /\ HeldInv' /\ ContentInv'
<1>1. /\ TypeInv /\ LiveInv /\ BuffersInv /\ OrderInv /\ HeldInv /\ ContentInv
      /\ SameBuffers /\ landed' = landed /\ content' = content
      /\ stream'[CopyStream] = stream[CopyStream]
      /\ \A t \in Nat : Live(t)' => Live(t)
  BY DEF StagingInv, HostStep
<1>2. /\ Transfers' = Transfers /\ Pairs' = Pairs
      /\ \A p \in Pairs : BufferOf(p)' = BufferOf(p)
      /\ \A t \in Transfers : BuffersOf(t)' = BuffersOf(t)
  BY <1>1, PairsStay
<1>3. \A p \in Pairs : Held(p)' => Held(p)
  BY <1>1, HeldShrinks
<1>4. LiveInv'
  BY <1>1, <1>2 DEF LiveInv, SameBuffers
<1>5. BuffersInv'
  BY <1>1, <1>2 DEF BuffersInv, SameBuffers
<1>6. OrderInv'
  BY <1>1 DEF OrderInv
<1>7. HeldInv'
  BY <1>1, <1>2, <1>3 DEF HeldInv
<1>8. ContentInv'
  <2>1. \A p \in landed : p \in Pairs
    BY <1>1 DEF TypeInv
  <2>2. QED
    BY <1>1, <1>2, <1>3, <2>1 DEF ContentInv
<1>9. QED
  BY <1>4, <1>5, <1>6, <1>7, <1>8

LEMMA HostKeepsQueues ==
  ASSUME StagingInv, TypeInv', HostStep
  PROVE  StreamInv' /\ ReadInv'
<1>1. /\ TypeInv /\ StreamInv /\ ReadInv /\ SameBuffers /\ landed' = landed
      /\ stream'[CopyStream] = stream[CopyStream]
      /\ \A s \in Computes : Extends(s) /\ \A i \in Added(s) : MayQueue(s, stream'[s][i])
      /\ \A t \in Transfers : Live(t) => Live(t)' \/ LetGo(t)
  BY DEF StagingInv, HostStep
<1>2. Transfers' = Transfers /\ Pairs' = Pairs
  BY <1>1, PairsStay
<1>3. CopyStream \notin Computes
  BY LayerStagingAssumption
<1>4. StreamInv'
  <2> SUFFICES ASSUME NEW s \in Streams, NEW i \in DOMAIN stream'[s]
               PROVE  /\ stream'[s][i].do = "copy" <=> s = CopyStream
                      /\ stream'[s][i].do = "copy" => \E p \in Pairs : stream'[s][i].of = {p}
                      /\ stream'[s][i].of \subseteq Pairs
    BY <1>2 DEF StreamInv
  <2>1. CASE i \in DOMAIN stream[s] /\ stream'[s][i] = stream[s][i]
    BY <1>1, <2>1 DEF StreamInv
  <2>2. CASE s = CopyStream
    BY <1>1, <2>1, <2>2
  <2>3. CASE s \in Computes /\ i \in DOMAIN stream[s]
    BY <1>1, <2>1, <2>3 DEF Extends
  <2>4. CASE s \in Computes /\ i \notin DOMAIN stream[s]
    <3>1. MayQueue(s, stream'[s][i])
      BY <1>1, <2>4 DEF Added
    <3>2. QED
      BY <1>3, <2>4, <3>1 DEF MayQueue
  <2>5. QED
    BY <2>2, <2>3, <2>4 DEF Streams
<1>5. ReadInv'
  <2> SUFFICES ASSUME NEW s \in Computes, NEW i \in DOMAIN stream'[s],
                      stream'[s][i].do = "read", NEW p \in stream'[s][i].of
               PROVE  /\ p \in landed'
                      /\ \/ Live(p[1])' /\ <<p[2], s>> \in view'[p[1]].recorded
                         \/ FreedAfter(p, s, i)'
    BY DEF ReadInv
  <2>1. CASE i \in DOMAIN stream[s]
    <3>1. stream'[s][i] = stream[s][i] /\ Extends(s)
      BY <1>1, <2>1 DEF Extends
    <3>2. p \in landed /\ \/ Live(p[1]) /\ <<p[2], s>> \in view[p[1]].recorded
                          \/ FreedAfter(p, s, i)
      BY <1>1, <2>1, <3>1 DEF ReadInv
    <3>3. CASE FreedAfter(p, s, i)
      <4>1. FreedAfter(p, s, i)'
        BY <1>1, <3>1, <3>3, FreedStays
      <4>2. QED
        BY <1>1, <3>2, <4>1
    <3>4. CASE Live(p[1]) /\ <<p[2], s>> \in view[p[1]].recorded
      <4>1. p \in Pairs /\ p[1] \in Transfers /\ p[2] \in DOMAIN view[p[1]].buffer
            /\ p = <<p[1], p[2]>>
        BY <1>1, <3>2 DEF TypeInv, Pairs
      <4>2. <<p[2], s>> \in view'[p[1]].recorded
        BY <1>1, <3>4, <4>1 DEF SameBuffers
      <4>3. CASE Live(p[1])'
        BY <1>1, <3>2, <4>2, <4>3
      <4>4. CASE LetGo(p[1])
        <5>1. PICK j \in Added(s) : stream'[s][j].do = "free" /\ p \in stream'[s][j].of
          BY <3>4, <4>1, <4>4 DEF LetGo
        <5>2. stream[s] \in Seq(Operation) /\ stream'[s] \in Seq(Operation)
          BY <1>1 DEF TypeInv, Streams
        <5>3. i < j
          BY <2>1, <5>1, <5>2 DEF Added
        <5>4. FreedAfter(p, s, i)'
          BY <5>1, <5>3 DEF Added, FreedAfter
        <5>5. QED
          BY <1>1, <3>2, <5>4
      <4>5. QED
        BY <1>1, <3>4, <4>1, <4>3, <4>4
    <3>5. QED
      BY <3>2, <3>3, <3>4
  <2>2. CASE i \notin DOMAIN stream[s]
    <3>1. MayQueue(s, stream'[s][i])
      BY <1>1, <2>2 DEF Added
    <3>2. QED
      BY <1>1, <3>1 DEF MayQueue
  <2>3. QED
    BY <2>1, <2>2
<1>6. QED
  BY <1>4, <1>5

(* A step of the host keeps the invariant, but for what the views and the  *)
(* reader say of one another.                                              *)
LEMMA HostKeeps ==
  ASSUME StagingInv, TypeInv', HostStep, WaitedInv', JobInv'
  PROVE  StagingInv'
  BY HostKeepsBuffers, HostKeepsQueues DEF StagingInv
-----------------------------------------------------------------------------
(* The steps of the host.                                                  *)

(* One more operation on a compute stream.                                 *)
LEMMA Queueing ==
  ASSUME TypeInv, NEW c \in Computes, NEW op \in Operation,
         stream' = [stream EXCEPT ![c] = Append(@, op)]
  PROVE  /\ stream' \in [Streams -> Seq(Operation)]
         /\ stream'[CopyStream] = stream[CopyStream]
         /\ \A s \in Computes :
              Extends(s) /\ \A i \in Added(s) : s = c /\ stream'[s][i] = op
<1>1. c \in Streams /\ c # CopyStream /\ stream[c] \in Seq(Operation)
  BY LayerStagingAssumption DEF TypeInv, Streams
<1>2. /\ Append(stream[c], op) \in Seq(Operation)
      /\ Len(Append(stream[c], op)) = Len(stream[c]) + 1
      /\ \A i \in 1..Len(stream[c]) : Append(stream[c], op)[i] = stream[c][i]
      /\ Append(stream[c], op)[Len(stream[c]) + 1] = op
  BY <1>1, AppendProperties
<1>3. /\ stream'[c] = Append(stream[c], op)
      /\ \A s \in Streams : s # c => stream'[s] = stream[s]
      /\ stream' \in [Streams -> Seq(Operation)]
  BY <1>1, <1>2 DEF TypeInv
<1>4. Extends(c) /\ \A i \in Added(c) : stream'[c][i] = op
  <2>1. DOMAIN stream[c] = 1..Len(stream[c]) /\ DOMAIN stream'[c] = 1..Len(stream[c]) + 1
        /\ Len(stream'[c]) = Len(stream[c]) + 1 /\ Len(stream[c]) \in Nat
    BY <1>1, <1>2, <1>3
  <2>2. Extends(c)
    BY <1>2, <1>3, <2>1 DEF Extends
  <2>3. \A i \in Added(c) : i = Len(stream[c]) + 1
    BY <2>1 DEF Added
  <2>4. QED
    BY <1>2, <1>3, <2>2, <2>3
<1>5. \A s \in Computes : s # c => Extends(s) /\ Added(s) = {}
  <2> SUFFICES ASSUME NEW s \in Computes, s # c PROVE Extends(s) /\ Added(s) = {}
    OBVIOUS
  <2>1. stream'[s] = stream[s] /\ stream[s] \in Seq(Operation)
    BY <1>3 DEF Streams, TypeInv
  <2>2. QED
    BY <2>1 DEF Extends, Added
<1>6. CopyStream \in Streams
  BY DEF Streams
<1>7. QED
  BY <1>1, <1>3, <1>4, <1>5, <1>6

(* The release of transfers that were live: its events, and nothing else.  *)
LEMMA Dropping ==
  ASSUME TypeInv, NEW gone, gone \subseteq Transfers, \A t \in gone : Live(t),
         Drop(gone), view' = view
  PROVE  /\ stream' \in [Streams -> Seq(Operation)]
         /\ stream'[CopyStream] = stream[CopyStream]
         /\ \A s \in Computes : Extends(s) /\ \A i \in Added(s) : MayQueue(s, stream'[s][i])
         /\ \A t \in gone : LetGo(t)
<1> DEFINE Used(s) == UNION {RecordedOn(t, s) : t \in gone}
           Event(s) == Op("free", Used(s))
<1>1. CopyStream \in Streams /\ CopyStream \notin Computes /\ Computes \subseteq Streams
  BY LayerStagingAssumption DEF Streams
<1>2. /\ stream' = [s \in Streams |-> IF s = CopyStream \/ Used(s) = {} THEN stream[s]
                                       ELSE Append(stream[s], Event(s))]
  BY Zenon DEF Drop
<1>3. \A s \in Streams : \A p \in Used(s) :
        p \in Pairs /\ Live(p[1]) /\ p \in Nat \X Layers
  <2> SUFFICES ASSUME NEW s \in Streams, NEW t \in gone, NEW p \in RecordedOn(t, s)
               PROVE  p \in Pairs /\ Live(p[1]) /\ p \in Nat \X Layers
    BY Zenon
  <2>1. PICK l \in DOMAIN view[t].buffer : p = <<t, l>> /\ <<l, s>> \in view[t].recorded
    BY DEF RecordedOn
  <2>2. t \in Nat /\ l \in Layers
    <3>1. t \in DOMAIN view /\ view[t] \in View
      BY DEF TypeInv, Transfers
    <3>2. view[t].recorded \subseteq Layers \X Computes
      BY <3>1 DEF View
    <3>3. QED
      BY <2>1, <3>1, <3>2 DEF TypeInv
  <2>3. QED
    BY <2>1, <2>2 DEF Pairs
<1>4. \A s \in Streams : Event(s) \in Operation /\ stream[s] \in Seq(Operation)
  <2>1. \A s \in Streams : Used(s) \subseteq Nat \X Layers
    BY <1>3
  <2> HIDE DEF Used
  <2>2. QED
    BY <2>1 DEF Operation, Op, TypeInv
<1> HIDE DEF Used, Event
<1>5. \A s \in Streams :
        /\ Append(stream[s], Event(s)) \in Seq(Operation)
        /\ Len(Append(stream[s], Event(s))) = Len(stream[s]) + 1
        /\ \A i \in 1..Len(stream[s]) : Append(stream[s], Event(s))[i] = stream[s][i]
        /\ Append(stream[s], Event(s))[Len(stream[s]) + 1] = Event(s)
  BY <1>4, AppendProperties
<1>6. stream' \in [Streams -> Seq(Operation)]
  BY <1>2, <1>4, <1>5
<1>7. stream'[CopyStream] = stream[CopyStream]
  BY <1>1, <1>2
<1>8. ASSUME NEW s \in Computes, Used(s) = {}
      PROVE  Extends(s) /\ Added(s) = {}
  <2>1. stream'[s] = stream[s] /\ stream[s] \in Seq(Operation)
    BY <1>1, <1>2, <1>4, <1>8
  <2>2. QED
    BY <2>1 DEF Extends, Added
<1>9. ASSUME NEW s \in Computes, Used(s) # {}
      PROVE  /\ Extends(s) /\ Len(stream[s]) + 1 \in Added(s)
             /\ \A i \in Added(s) : stream'[s][i] = Event(s)
  <2>1. stream'[s] = Append(stream[s], Event(s)) /\ s \in Streams
    BY <1>1, <1>2, <1>9
  <2>2. DOMAIN stream[s] = 1..Len(stream[s]) /\ DOMAIN stream'[s] = 1..Len(stream[s]) + 1
        /\ Len(stream'[s]) = Len(stream[s]) + 1 /\ Len(stream[s]) \in Nat
    BY <1>4, <1>5, <2>1
  <2>3. Extends(s)
    BY <1>5, <2>1, <2>2 DEF Extends
  <2>4. \A i \in Added(s) : i = Len(stream[s]) + 1
    BY <2>2 DEF Added
  <2>5. Len(stream[s]) + 1 \in Added(s)
    BY <2>2 DEF Added
  <2>6. QED
    BY <1>5, <2>1, <2>3, <2>4, <2>5
<1>10. \A s \in Computes : MayQueue(s, Event(s))
  BY <1>1, <1>3 DEF Event, Op, MayQueue
<1>11. ASSUME NEW t \in gone PROVE LetGo(t)
  <2> SUFFICES ASSUME NEW s \in Computes, NEW l \in DOMAIN view[t].buffer,
                      <<l, s>> \in view[t].recorded
               PROVE  \E j \in Added(s) :
                        stream'[s][j].do = "free" /\ <<t, l>> \in stream'[s][j].of
    BY DEF LetGo
  <2>1. <<t, l>> \in RecordedOn(t, s)
    BY DEF RecordedOn
  <2>2. <<t, l>> \in Used(s)
    BY <2>1 DEF Used
  <2>3. Used(s) # {}
    BY <2>2
  <2>4. /\ Len(stream[s]) + 1 \in Added(s)
        /\ stream'[s][Len(stream[s]) + 1] = Event(s)
    BY <1>9, <2>3
  <2>5. Event(s).do = "free" /\ <<t, l>> \in Event(s).of
    BY <2>2 DEF Event, Op
  <2>6. QED
    BY <2>4, <2>5
<1>12. QED
  BY <1>6, <1>7, <1>8, <1>9, <1>10, <1>11

LEMMA QueuesAsBefore ==
  ASSUME TypeInv, stream' = stream
  PROVE  \A s \in Computes : Extends(s) /\ Added(s) = {}
<1> SUFFICES ASSUME NEW s \in Computes PROVE Extends(s) /\ Added(s) = {}
  OBVIOUS
<1>1. stream[s] \in Seq(Operation)
  BY DEF TypeInv, Streams
<1>2. QED
  BY <1>1 DEF Extends, Added

LEMMA ViewAsBefore ==
  ASSUME TypeInv, view' = view
  PROVE  SameBuffers
  BY DEF SameBuffers

(* A reader that starts on what is staged changes nothing that is held.    *)
LEMMA BeginKeeps ==
  ASSUME StagingInv, NEW of \in Seq(Nat), job = NoJob,
         \A i \in DOMAIN of : \E m \in Memories : slot[m] = of[i],
         NEW kind, NEW layer, job' = [kind |-> kind, of |-> of, layer |-> layer, next |-> 1],
         UNCHANGED <<slot, view, stream, landed, content, current>>
  PROVE  StagingInv'
<1>1. TypeInv'
  <2>1. TypeInv
    BY DEF StagingInv
  <2>2. DOMAIN job' = {"kind", "of", "layer", "next"} /\ job'.of \in Seq(Nat)
        /\ job'.next \in Nat \ {0}
    OBVIOUS
  <2>3. Pairs' = Pairs
    BY DEF Pairs, Transfers
  <2>4. QED
    BY <2>1, <2>2, <2>3 DEF TypeInv
<1>2. \A t : Live(t)' <=> Live(t)
  <2>1. \A t : ~ Reading(t)
    BY DEF NoJob, Reading
  <2>2. \A t : Reading(t)' => Staged(t)
    BY DEF Reading, Staged
  <2>3. \A t : Staged(t)' <=> Staged(t)
    BY DEF Staged
  <2>4. QED
    BY <2>1, <2>2, <2>3 DEF Live
<1>3. HostStep
  BY <1>2, QueuesAsBefore, ViewAsBefore DEF HostStep, StagingInv
<1>4. WaitedInv'
  BY <1>2 DEF StagingInv, WaitedInv, Transfers
<1>5. JobInv'
  <2>1. \A i \in DOMAIN of : ~ (i < 1)
    OBVIOUS
  <2>2. QED
    BY <2>1 DEF JobInv
<1>6. QED
  BY <1>1, <1>3, <1>4, <1>5, HostKeeps

LEMMA BeginInjectKeeps ==
  ASSUME StagingInv, NEW m \in Memories, BeginInject(m)
  PROVE  StagingInv'
<1>1. slot[m] \in Nat
  BY DEF StagingInv, TypeInv, BeginInject
<1>2. <<slot[m]>> \in Seq(Nat) /\ \A i \in DOMAIN <<slot[m]>> : slot[m] = <<slot[m]>>[i]
  BY <1>1
<1>3. /\ job = NoJob /\ UNCHANGED <<slot, view, stream, landed, content, current>>
      /\ job' = [kind |-> "probe", of |-> <<slot[m]>>, layer |-> 1, next |-> 1]
  BY DEF BeginInject
<1>4. QED
  BY <1>2, <1>3, BeginKeeps, Zenon

LEMMA BeginComposeKeeps ==
  ASSUME StagingInv, NEW memories \in Compositions, BeginCompose(memories)
  PROVE  StagingInv'
<1> DEFINE of == [i \in DOMAIN memories |-> slot[memories[i]]]
<1>1. PICK n \in 1..MaxJob : memories \in [1..n -> Memories]
  BY DEF Compositions
<1>2. \A i \in 1..n : slot[memories[i]] \in Nat
  <2>1. \A i \in 1..n : memories[i] \in Memories /\ slot[memories[i]] # None
    BY <1>1 DEF BeginCompose
  <2>2. QED
    BY <2>1 DEF StagingInv, TypeInv
<1>3. of \in Seq(Nat) /\ DOMAIN of = 1..n
  BY <1>1, <1>2
<1>4. \A i \in DOMAIN of : \E m \in Memories : slot[m] = of[i]
  BY <1>1
<1>5. /\ job = NoJob /\ UNCHANGED <<slot, view, stream, landed, content, current>>
      /\ job' = [kind |-> "compose", of |-> of, layer |-> 1, next |-> 1]
  BY DEF BeginCompose
<1> HIDE DEF of
<1>6. QED
  BY <1>3, <1>4, <1>5, BeginKeeps, Zenon
(* An eviction releases the slot under the reader, which keeps what it     *)
(* holds; a release with no reader leaves the buffers to the streams.      *)
LEMMA ReleaseKeeps ==
  ASSUME StagingInv, NEW m \in Memories, Release(m)
  PROVE  StagingInv'
<1> DEFINE gone == IF Reading(slot[m]) THEN {} ELSE {slot[m]}
<1>1. TypeInv /\ LiveInv /\ WaitedInv /\ JobInv
  BY DEF StagingInv
<1>2. /\ slot[m] # None /\ slot' = [slot EXCEPT ![m] = None] /\ Drop(gone)
      /\ UNCHANGED <<view, landed, content, current, job, jobs>>
  BY DEF Release
<1>3. slot[m] \in Nat /\ Live(slot[m])
  BY <1>1, <1>2 DEF TypeInv, Live, Staged
<1>4. gone \subseteq Transfers /\ \A t \in gone : Live(t)
  BY <1>1, <1>3 DEF LiveInv
<1>5. /\ stream' \in [Streams -> Seq(Operation)]
      /\ stream'[CopyStream] = stream[CopyStream]
      /\ \A s \in Computes : Extends(s) /\ \A i \in Added(s) : MayQueue(s, stream'[s][i])
      /\ \A t \in gone : LetGo(t)
  <2> HIDE DEF gone
  <2> QED BY <1>1, <1>2, <1>4, Dropping
<1>6. TypeInv'
  <2>1. slot' \in [Memories -> Nat \cup {None}]
    BY <1>1, <1>2 DEF TypeInv
  <2>2. Pairs' = Pairs
    BY <1>2 DEF Pairs, Transfers
  <2>3. QED
    BY <1>1, <1>2, <1>5, <2>1, <2>2 DEF TypeInv
<1>7. \A t \in Nat : Live(t)' => Live(t)
  <2>1. \A t \in Nat : Staged(t)' => Staged(t)
    <3> SUFFICES ASSUME NEW t \in Nat, NEW k \in Memories, slot'[k] = t PROVE Staged(t)
      BY DEF Staged
    <3>1. k # m
      BY <1>1, <1>2, LayerStagingAssumption DEF TypeInv
    <3>2. QED
      BY <1>1, <1>2, <3>1 DEF Staged, TypeInv
  <2>2. \A t \in Nat : Reading(t)' => Reading(t)
    BY <1>2 DEF Reading
  <2>3. QED
    BY <2>1, <2>2 DEF Live
<1>8. ASSUME NEW t \in Transfers, Live(t) PROVE Live(t)' \/ LetGo(t)
  <2>1. CASE Reading(t)
    BY <1>2, <2>1 DEF Reading, Live
  <2>2. CASE ~ Reading(t) /\ t = slot[m]
    BY <1>5, <2>2
  <2>3. CASE ~ Reading(t) /\ t # slot[m]
    <3>1. PICK k \in Memories : slot[k] = t
      BY <1>8, <2>3 DEF Live, Staged
    <3>2. slot'[k] = t
      BY <1>1, <1>2, <2>3, <3>1 DEF TypeInv
    <3>3. QED
      BY <3>2 DEF Live, Staged
  <2>4. QED
    BY <2>1, <2>2, <2>3
<1>9. HostStep
  BY <1>1, <1>2, <1>5, <1>7, <1>8, ViewAsBefore DEF HostStep
<1>10. WaitedInv'
  <2>1. \A t \in Transfers : t \in Nat
    BY <1>1 DEF TypeInv, Transfers
  <2>2. Transfers' = Transfers
    BY <1>2 DEF Transfers
  <2>3. QED
    BY <1>1, <1>2, <1>7, <2>1, <2>2 DEF WaitedInv
<1>11. JobInv'
  BY <1>1, <1>2 DEF JobInv
<1>12. QED
  BY <1>6, <1>9, <1>10, <1>11, HostKeeps

(* The reader is done, and with it what was released under it.             *)
LEMMA EndJobKeeps ==
  ASSUME StagingInv, EndJob
  PROVE  StagingInv'
<1> DEFINE gone == {t \in Transfers : Reading(t) /\ ~Staged(t)}
<1>1. TypeInv /\ LiveInv /\ WaitedInv
  BY DEF StagingInv
<1>2. /\ job' = NoJob /\ Drop(gone)
      /\ UNCHANGED <<slot, view, landed, content, current, jobs>>
  BY DEF EndJob
<1>3. gone \subseteq Transfers /\ \A t \in gone : Live(t)
  BY DEF Live
<1>4. /\ stream' \in [Streams -> Seq(Operation)]
      /\ stream'[CopyStream] = stream[CopyStream]
      /\ \A s \in Computes : Extends(s) /\ \A i \in Added(s) : MayQueue(s, stream'[s][i])
      /\ \A t \in gone : LetGo(t)
  <2> HIDE DEF gone
  <2> QED BY <1>1, <1>2, <1>3, Dropping
<1>5. TypeInv'
  <2>1. DOMAIN job' = {"kind", "of", "layer", "next"} /\ job'.of \in Seq(Nat)
        /\ job'.next \in Nat \ {0}
    BY <1>2 DEF NoJob
  <2>2. Pairs' = Pairs
    BY <1>2 DEF Pairs, Transfers
  <2>3. QED
    BY <1>1, <1>2, <1>4, <2>1, <2>2 DEF TypeInv
<1>6. \A t : Live(t)' <=> Staged(t)
  BY <1>2 DEF Live, Staged, Reading, NoJob
<1>7. \A t \in Transfers : Live(t) => Live(t)' \/ LetGo(t)
  BY <1>4, <1>6 DEF Live
<1>8. HostStep
  BY <1>1, <1>2, <1>4, <1>6, <1>7, ViewAsBefore DEF HostStep, Live
<1>9. WaitedInv'
  BY <1>1, <1>2, <1>6 DEF WaitedInv, Transfers, Live
<1>10. JobInv'
  BY <1>2 DEF JobInv, NoJob
<1>11. QED
  BY <1>5, <1>8, <1>9, <1>10, HostKeeps

(* Nothing that is staged has been waited for on the stream that is left.  *)
LEMMA SwitchStreamKeeps ==
  ASSUME StagingInv, NEW s \in Computes, SwitchStream(s)
  PROVE  StagingInv'
<1>1. /\ current' = s /\ job = NoJob
      /\ \A t \in Transfers : Staged(t) => view[t].waited = {}
      /\ UNCHANGED <<slot, view, stream, landed, content, job, jobs>>
  BY DEF SwitchStream
<1>2. TypeInv'
  <2>1. Pairs' = Pairs
    BY <1>1 DEF Pairs, Transfers
  <2>2. QED
    BY <1>1, <2>1 DEF StagingInv, TypeInv
<1>3. \A t : Live(t)' <=> Live(t)
  BY <1>1 DEF Live, Staged, Reading
<1>4. HostStep
  BY <1>1, <1>3, QueuesAsBefore, ViewAsBefore DEF HostStep, StagingInv
<1>5. WaitedInv'
  <2>1. \A t : ~ Reading(t)
    BY <1>1 DEF NoJob, Reading
  <2>2. QED
    BY <1>1, <1>3, <2>1 DEF WaitedInv, Transfers, Live
<1>6. JobInv'
  BY <1>1 DEF StagingInv, JobInv
<1>7. QED
  BY <1>2, <1>4, <1>5, <1>6, HostKeeps

(* Of the transfers that are read, and they are held.                      *)
LEMMA ReadsWhatIsThere ==
  ASSUME StagingInv, NEW i \in DOMAIN job.of
  PROVE  /\ job.of[i] \in Transfers /\ Live(job.of[i])
         /\ Len(view[job.of[i]].buffer) = NumLayers /\ DOMAIN view[job.of[i]].buffer = Layers
<1>1. job.of[i] \in Nat /\ Live(job.of[i])
  BY DEF StagingInv, TypeInv, Live, Reading
<1>2. job.of[i] \in Transfers /\ Len(view[job.of[i]].buffer) = NumLayers
  BY <1>1 DEF StagingInv, LiveInv
<1>3. view[job.of[i]].buffer \in Seq(Buffers)
  BY <1>2, ViewsAreViews DEF StagingInv
<1>4. QED
  BY <1>1, <1>2, <1>3 DEF Layers
LEMMA AfterAnAccess ==
  ASSUME NEW v \in View, NEW l
  PROVE  ViewAfter(v, l) = [buffer |-> v.buffer, waited |-> v.waited \cup {l},
                            recorded |-> v.recorded \cup {<<l, current>>}]
<1> DEFINE w == v.waited \cup {l}
           r == v.recorded \cup {<<l, current>>}
           half == [v EXCEPT !.waited = w]
<1>1. v = [buffer |-> v.buffer, waited |-> v.waited, recorded |-> v.recorded]
  BY DEF View
<1>2. ViewAfter(v, l) = [half EXCEPT !.recorded = r]
  BY DEF ViewAfter
<1> HIDE DEF w, r
<1>3. half = [buffer |-> v.buffer, waited |-> w, recorded |-> v.recorded]
  BY <1>1
<1> HIDE DEF half
<1>4. [half EXCEPT !.recorded = r] = [buffer |-> v.buffer, waited |-> w, recorded |-> r]
  BY <1>3
<1>5. QED
  BY <1>2, <1>4 DEF w, r

(* The reader takes a layer it already waited for, or waits for it: then   *)
(* the layer has landed, and is recorded on the reader's stream.           *)
LEMMA AccessKeeps ==
  ASSUME StagingInv, Access
  PROVE  StagingInv'
<1> DEFINE t == job.of[job.next]
           l == job.layer
           wait == Op("wait", {<<t, l>>})
<1>1. TypeInv /\ WaitedInv /\ JobInv
  BY DEF StagingInv
<1>2. /\ l \in Layers /\ job.next \in DOMAIN job.of
      /\ job' = [job EXCEPT !.next = @ + 1]
      /\ UNCHANGED <<slot, landed, content, current, jobs>>
      /\ \/ l \in view[t].waited /\ UNCHANGED <<view, stream>>
         \/ /\ <<t, l>> \in landed
            /\ stream' = [stream EXCEPT ![current] = Append(@, wait)]
            /\ view' = [view EXCEPT ![t] = ViewAfter(@, l)]
  BY DEF Access, Await
<1>3. t \in Transfers /\ t \in Nat /\ l \in Nat
  BY <1>1, <1>2, ReadsWhatIsThere DEF TypeInv, Layers
<1>4. /\ DOMAIN job' = {"kind", "of", "layer", "next"} /\ job'.of = job.of
      /\ job'.next = job.next + 1 /\ job'.layer = l /\ job.next \in Nat \ {0}
      /\ job.of \in Seq(Nat)
  BY <1>1, <1>2 DEF TypeInv
<1>5. \A u : Live(u)' <=> Live(u)
  BY <1>2, <1>4 DEF Live, Staged, Reading
<1>6. /\ view' \in Seq(View) /\ SameBuffers
      /\ \A u \in Transfers : u # t => view'[u] = view[u]
      /\ l \in view'[t].waited /\ view[t].waited \subseteq view'[t].waited
      /\ \A k \in view'[t].waited : k \in view[t].waited
           \/ (k = l /\ <<k, current>> \in view'[t].recorded /\ <<t, k>> \in landed)
  <2>1. CASE l \in view[t].waited /\ UNCHANGED <<view, stream>>
    BY <1>1, <2>1, ViewAsBefore DEF TypeInv
  <2>2. CASE <<t, l>> \in landed /\ view' = [view EXCEPT ![t] = ViewAfter(@, l)]
    <3>1. view[t] \in View /\ view \in Seq(View) /\ current \in Computes
      BY <1>1, <1>3, ViewsAreViews DEF TypeInv
    <3>2. ViewAfter(view[t], l) =
            [buffer |-> view[t].buffer, waited |-> view[t].waited \cup {l},
             recorded |-> view[t].recorded \cup {<<l, current>>}]
      BY <3>1, AfterAnAccess
    <3>3. ViewAfter(view[t], l) \in View
      <4>1. view[t].waited \cup {l} \in SUBSET Layers
        BY <1>2, <3>1 DEF View
      <4>2. view[t].recorded \cup {<<l, current>>} \in SUBSET (Layers \X Computes)
        BY <1>2, <3>1 DEF View
      <4>3. view[t].buffer \in Seq(Buffers)
        BY <3>1 DEF View
      <4>4. QED
        BY <3>2, <4>1, <4>2, <4>3 DEF View
    <3> DEFINE after == ViewAfter(view[t], l)
    <3>4. /\ view' = [view EXCEPT ![t] = after] /\ after \in View
          /\ after.buffer = view[t].buffer /\ after.waited = view[t].waited \cup {l}
          /\ after.recorded = view[t].recorded \cup {<<l, current>>}
      BY <2>2, <3>2, <3>3
    <3> HIDE DEF after, View
    <3>5. /\ view' \in Seq(View) /\ Len(view') = Len(view) /\ view'[t] = after
          /\ \A u \in Transfers : u # t => view'[u] = view[u]
      BY <1>3, <3>1, <3>4 DEF Transfers
    <3>6. SameBuffers
      BY <3>4, <3>5 DEF SameBuffers
    <3>7. QED
      BY <2>2, <3>4, <3>5, <3>6
  <2>3. QED
    BY <1>2, <2>1, <2>2
<1>7. wait \in Operation
  BY <1>2, <1>3 DEF Op, Operation
<1>8. \A p \in {<<t, l>>} : p \in landed => p \in Pairs
  BY <1>1 DEF TypeInv
<1>9. /\ stream' \in [Streams -> Seq(Operation)]
      /\ stream'[CopyStream] = stream[CopyStream]
      /\ \A s \in Computes : Extends(s) /\ \A i \in Added(s) : MayQueue(s, stream'[s][i])
  <2>1. CASE UNCHANGED <<view, stream>>
    BY <1>1, <2>1, QueuesAsBefore DEF TypeInv
  <2>2. CASE <<t, l>> \in landed /\ stream' = [stream EXCEPT ![current] = Append(@, wait)]
    <3>1. MayQueue(current, wait)
      BY <1>8, <2>2 DEF MayQueue, Op
    <3>2. current \in Computes
      BY <1>1 DEF TypeInv
    <3>3. wait \in Operation /\ stream' = [stream EXCEPT ![current] = Append(@, wait)]
      BY <1>7, <2>2
    <3> HIDE DEF wait
    <3>4. QED
      BY <1>1, <3>1, <3>2, <3>3, Queueing
  <2>3. QED
    BY <1>2, <2>1, <2>2
<1>10. TypeInv'
  <2>1. Transfers' = Transfers /\ Pairs' = Pairs
    <3>1. Transfers' = Transfers
      BY <1>1, <1>6 DEF TypeInv, SameBuffers, Transfers
    <3>2. QED
      BY <1>6, <3>1 DEF Pairs, SameBuffers
  <2>2. slot' \in [Memories -> Nat \cup {None}] /\ landed' \subseteq Pairs'
        /\ DOMAIN content' = Buffers /\ current' \in Computes
    BY <1>1, <1>2, <2>1 DEF TypeInv
  <2>3. QED
    BY <1>4, <1>6, <1>9, <2>2 DEF TypeInv
<1>11. HostStep
  BY <1>2, <1>5, <1>6, <1>9 DEF HostStep
<1>12. WaitedInv'
  <2> SUFFICES ASSUME NEW u \in Transfers', Live(u)', NEW k \in view'[u].waited
               PROVE  <<k, current>> \in view'[u].recorded /\ <<u, k>> \in landed
    BY <1>2 DEF WaitedInv
  <2>1. u \in Transfers /\ Live(u)
    BY <1>1, <1>5, <1>10, <1>6, PairsStay
  <2>2. CASE k \in view[u].waited
    <3>1. <<k, current>> \in view[u].recorded /\ <<u, k>> \in landed
      BY <1>1, <2>1, <2>2 DEF WaitedInv
    <3>2. QED
      BY <1>6, <2>1, <3>1 DEF SameBuffers
  <2>3. CASE k \notin view[u].waited
    BY <1>6, <2>1, <2>3
  <2>4. QED
    BY <2>2, <2>3
<1>13. JobInv'
  <2> SUFFICES ASSUME NEW i \in DOMAIN job.of, i < job.next + 1
               PROVE  l \in view'[job.of[i]].waited
    BY <1>4 DEF JobInv
  <2>1. job.of[i] \in Transfers
    BY ReadsWhatIsThere
  <2>2. CASE i = job.next
    BY <1>6, <2>2
  <2>3. CASE i # job.next
    <3>1. i < job.next
      BY <1>4, <2>3
    <3>2. l \in view[job.of[i]].waited
      BY <1>1, <1>2, <3>1 DEF JobInv
    <3>3. QED
      BY <1>6, <2>1, <3>2
  <2>4. QED
    BY <2>2, <2>3
<1>14. QED
  BY <1>10, <1>11, <1>12, <1>13, HostKeeps

(* The kernel is queued behind the waits for all it reads.                 *)
LEMMA LaunchKeeps ==
  ASSUME StagingInv, Launch
  PROVE  StagingInv'
<1> DEFINE pairs == {<<job.of[i], job.layer>> : i \in DOMAIN job.of}
           read == Op("read", pairs)
<1>1. TypeInv /\ WaitedInv /\ JobInv
  BY DEF StagingInv
<1>2. /\ job.layer \in Layers /\ job.next \notin DOMAIN job.of
      /\ UNCHANGED <<slot, view, landed, content, current, jobs>>
      /\ \/ UNCHANGED stream
         \/ stream' = [stream EXCEPT ![current] = Append(@, read)]
  BY Zenon DEF Launch
<1>3. /\ DOMAIN job' = {"kind", "of", "layer", "next"} /\ job'.of = job.of /\ job'.next = 1
      /\ job.of \in Seq(Nat)
  <2>1. CASE job.kind = "probe"
    BY <1>1, <2>1 DEF Launch, TypeInv
  <2>2. CASE job.kind # "probe"
    <3>1. job' = [job EXCEPT !.next = 1, !.layer =
                    NextLayer(@, IF job.kind = "inject" THEN CachedLayers ELSE Layers)]
      BY <2>2 DEF Launch
    <3>2. QED
      BY <1>1, <3>1 DEF TypeInv
  <2>3. QED
    BY <2>1, <2>2
<1>4. \A u : Live(u)' <=> Live(u)
  BY <1>2, <1>3 DEF Live, Staged, Reading
<1>5. \A i \in DOMAIN job.of :
        /\ <<job.of[i], job.layer>> \in landed /\ Live(job.of[i])
        /\ <<job.layer, current>> \in view[job.of[i]].recorded
        /\ job.of[i] \in Nat
  <2> SUFFICES ASSUME NEW i \in DOMAIN job.of
               PROVE  /\ <<job.of[i], job.layer>> \in landed /\ Live(job.of[i])
                      /\ <<job.layer, current>> \in view[job.of[i]].recorded
                      /\ job.of[i] \in Nat
    OBVIOUS
  <2>1. job.next \in Nat \ {0} /\ job.of \in Seq(Nat)
    BY <1>1 DEF TypeInv
  <2>2. i < job.next
    BY <1>2, <2>1
  <2>3. job.layer \in view[job.of[i]].waited
    BY <1>1, <1>2, <2>2 DEF JobInv
  <2>4. job.of[i] \in Transfers /\ Live(job.of[i])
    BY ReadsWhatIsThere
  <2>5. QED
    BY <1>1, <2>1, <2>3, <2>4 DEF WaitedInv
<1>6. \A p \in pairs : /\ p \in landed /\ Live(p[1])
                       /\ <<p[2], current>> \in view[p[1]].recorded
                       /\ p \in Nat \X Layers
  BY <1>2, <1>5
<1> HIDE DEF pairs
<1>7. read \in Operation /\ current \in Computes
  BY <1>1, <1>6 DEF Op, Operation, TypeInv
<1>8. MayQueue(current, read)
  <2>1. read.do = "read" /\ read.of = pairs
    BY DEF Op
  <2>2. pairs \subseteq Pairs
    BY <1>1, <1>6 DEF TypeInv
  <2>3. QED
    BY <1>2, <1>4, <1>6, <2>1, <2>2 DEF MayQueue
<1> HIDE DEF read
<1>9. /\ stream' \in [Streams -> Seq(Operation)]
      /\ stream'[CopyStream] = stream[CopyStream]
      /\ \A s \in Computes : Extends(s) /\ \A i \in Added(s) : MayQueue(s, stream'[s][i])
  <2>1. CASE UNCHANGED stream
    BY <1>1, <2>1, QueuesAsBefore DEF TypeInv
  <2>2. CASE stream' = [stream EXCEPT ![current] = Append(@, read)]
    BY <1>1, <1>7, <1>8, <2>2, Queueing
  <2>3. QED
    BY <1>2, <2>1, <2>2
<1>10. TypeInv'
  <2>1. Pairs' = Pairs
    BY <1>2 DEF Pairs, Transfers
  <2>2. QED
    BY <1>1, <1>2, <1>3, <1>9, <2>1 DEF TypeInv
<1>11. HostStep
  BY <1>1, <1>2, <1>4, <1>9, ViewAsBefore DEF HostStep
<1>12. WaitedInv'
  BY <1>1, <1>2, <1>4 DEF WaitedInv, Transfers
<1>13. JobInv'
  <2>1. \A i \in DOMAIN job.of : ~ (i < 1)
    BY <1>3
  <2>2. QED
    BY <1>3, <2>1 DEF JobInv
<1>14. QED
  BY <1>10, <1>11, <1>12, <1>13, HostKeeps
(* A new transfer: its buffers are nobody's, also of those still in the    *)
(* hands of a kernel, and its copies queue behind all others.              *)
LEMMA StageKeeps ==
  ASSUME StagingInv, NEW m \in Memories, NEW buffer \in Allocations, Stage(m, buffer)
  PROVE  StagingInv'
<1>0. PICK T : T = Len(view) + 1
  OBVIOUS
<1> DEFINE v == [buffer |-> buffer, waited |-> {}, recorded |-> {}]
           issued == Issue(T, buffer)
           queue == stream[CopyStream]
<1>1. /\ TypeInv /\ LiveInv /\ BuffersInv /\ StreamInv /\ OrderInv
      /\ HeldInv /\ ContentInv /\ WaitedInv /\ ReadInv /\ JobInv
  BY DEF StagingInv
<1>2. /\ slot[m] = None /\ \A i \in DOMAIN buffer : Reusable(buffer[i])
      /\ view' = Append(view, v)
      /\ stream' = [stream EXCEPT ![CopyStream] = queue \o issued]
      /\ slot' = [slot EXCEPT ![m] = IF Len(buffer) = NumLayers THEN T ELSE None]
      /\ UNCHANGED <<landed, content, current, job, jobs>>
  BY <1>0 DEF Stage
<1>3. PICK n \in Layers : /\ buffer \in [1..n -> Buffers]
                          /\ \A i, j \in 1..n : i < j => buffer[i] < buffer[j]
  BY DEF Allocations
<1>4. /\ n \in Nat /\ 1..n \subseteq Layers /\ Layers \subseteq Nat
      /\ CopyStream \in Streams /\ CopyStream \notin Computes /\ Computes \subseteq Streams
      /\ None \notin Nat
  BY LayerStagingAssumption DEF Layers, Streams
<1>5. buffer \in Seq(Buffers) /\ Len(buffer) = n /\ DOMAIN buffer = 1..n
  BY <1>3, <1>4
<1>6. \A i, j \in 1..n : buffer[i] = buffer[j] => i = j
  <2> SUFFICES ASSUME NEW i \in 1..n, NEW j \in 1..n, buffer[i] = buffer[j], i # j PROVE FALSE
    OBVIOUS
  <2>1. buffer[i] \in Int /\ buffer[j] \in Int /\ i \in Int /\ j \in Int
    BY <1>3 DEF Buffers
  <2>2. i < j \/ j < i
    BY <2>1
  <2>3. QED
    BY <1>3, <2>1, <2>2
<1>7. /\ T \in Nat /\ Transfers = 1..Len(view) /\ T \notin Transfers
      /\ \A u \in Transfers : u \in Nat /\ u < T
  BY <1>0, <1>1, ViewsAreViews
<1>8. v \in View /\ v.buffer = buffer /\ v.waited = {} /\ v.recorded = {}
  BY <1>5 DEF View
<1> HIDE DEF v
<1>9. /\ view' \in Seq(View) /\ Transfers' = Transfers \cup {T}
      /\ view'[T] = v /\ \A u \in Transfers : view'[u] = view[u]
  <2>1. view \in Seq(View)
    BY <1>1 DEF TypeInv
  <2> HIDE DEF View
  <2>2. /\ Append(view, v) \in Seq(View) /\ Len(Append(view, v)) = Len(view) + 1
        /\ \A i \in 1..Len(view) : Append(view, v)[i] = view[i]
        /\ Append(view, v)[Len(view) + 1] = v
    BY <1>8, <2>1, AppendProperties
  <2>3. Transfers' = 1..Len(view) + 1
    BY <1>2, <2>2 DEF Transfers
  <2>4. QED
    BY <1>0, <1>2, <1>7, <2>2, <2>3
<1>10. /\ Pairs \subseteq Pairs'
       /\ \A p \in Pairs' : p \in Pairs \/ \E i \in 1..n : p = <<T, i>>
       /\ \A i \in 1..n : <<T, i>> \in Pairs' /\ <<T, i>> \in Nat \X Layers
       /\ \A p \in Pairs : p[1] \in Transfers
  <2>1. Pairs \subseteq Pairs' /\ \A p \in Pairs : p[1] \in Transfers
    BY <1>9 DEF Pairs
  <2>2. \A i \in 1..n : <<T, i>> \in Nat \X Layers
    BY <1>4, <1>7
  <2>3. \A i \in 1..n : <<T, i>> \in Pairs'
    BY <1>5, <1>8, <1>9, <2>2 DEF Pairs
  <2>4. ASSUME NEW p \in Pairs', p \notin Pairs PROVE \E i \in 1..n : p = <<T, i>>
    <3>1. p \in Nat \X Layers /\ p[1] \in Transfers' /\ p[2] \in DOMAIN view'[p[1]].buffer
      BY DEF Pairs
    <3>2. p[1] = T
      BY <1>9, <2>4, <3>1 DEF Pairs
    <3>3. p[2] \in 1..n /\ p = <<T, p[2]>>
      BY <1>5, <1>8, <1>9, <3>1, <3>2
    <3>4. QED
      BY <3>3
  <2>5. QED
    BY <2>1, <2>2, <2>3, <2>4
<1>11. /\ \A p \in Pairs : BufferOf(p)' = BufferOf(p)
       /\ \A u \in Transfers : BuffersOf(u)' = BuffersOf(u)
       /\ BuffersOf(T)' = {buffer[i] : i \in 1..n}
  <2>1. \A p \in Pairs : BufferOf(p)' = BufferOf(p)
    BY <1>9, <1>10 DEF BufferOf
  <2>2. \A u \in Transfers : BuffersOf(u)' = BuffersOf(u)
    BY <1>9 DEF BuffersOf
  <2>3. BuffersOf(T)' = {buffer[i] : i \in 1..n}
    BY <1>5, <1>8, <1>9 DEF BuffersOf
  <2>4. QED
    BY <2>1, <2>2, <2>3
<1>12. /\ issued \in Seq(Operation) /\ Len(issued) = n
       /\ \A i \in 1..n : issued[i] = Op("copy", {<<T, i>>})
  <2>1. \A i \in 1..n : Op("copy", {<<T, i>>}) \in Operation
    BY <1>10 DEF Op, Operation
  <2>2. issued = [i \in 1..n |-> Op("copy", {<<T, i>>})]
    BY <1>5 DEF Issue
  <2> HIDE DEF issued
  <2>3. QED
    BY <1>4, <2>1, <2>2
<1>13. queue \in Seq(Operation) /\ Len(queue) \in Nat /\ DOMAIN queue = 1..Len(queue)
  BY <1>1, <1>4 DEF TypeInv
<1> HIDE DEF issued, queue
<1>14. /\ queue \o issued \in Seq(Operation)
       /\ DOMAIN (queue \o issued) = 1..Len(queue) + n
       /\ \A i \in 1..Len(queue) : (queue \o issued)[i] = queue[i]
       /\ \A i \in 1..n : (queue \o issued)[Len(queue) + i] = Op("copy", {<<T, i>>})
  <2>1. /\ queue \o issued \in Seq(Operation)
        /\ Len(queue \o issued) = Len(queue) + Len(issued)
        /\ \A i \in 1..Len(queue) : (queue \o issued)[i] = queue[i]
        /\ \A i \in 1..Len(issued) : (queue \o issued)[Len(queue) + i] = issued[i]
    <3>1. queue \in Seq(Operation) /\ issued \in Seq(Operation)
      BY <1>12, <1>13
    <3>2. QED
      BY <3>1, ConcatProperties
  <2>2. QED
    BY <1>12, <2>1
<1>15. /\ stream' \in [Streams -> Seq(Operation)]
       /\ stream'[CopyStream] = queue \o issued
       /\ \A s \in Computes : stream'[s] = stream[s]
  BY <1>1, <1>2, <1>4, <1>14 DEF TypeInv
<1>16. \A i \in DOMAIN stream'[CopyStream] :
         \/ i \in DOMAIN queue /\ stream'[CopyStream][i] = queue[i]
         \/ \E l \in 1..n : i = Len(queue) + l /\ stream'[CopyStream][i] = Op("copy", {<<T, l>>})
  <2>1. ASSUME NEW i \in 1..Len(queue) + n, i \notin 1..Len(queue)
        PROVE  \E l \in 1..n : i = Len(queue) + l
    <3>1. i - Len(queue) \in 1..n /\ i = Len(queue) + (i - Len(queue))
      BY <1>4, <1>13, <2>1
    <3>2. QED
      BY <3>1
  <2> SUFFICES ASSUME NEW i \in DOMAIN stream'[CopyStream]
               PROVE  \/ i \in DOMAIN queue /\ stream'[CopyStream][i] = queue[i]
                      \/ \E l \in 1..n : /\ i = Len(queue) + l
                                        /\ stream'[CopyStream][i] = Op("copy", {<<T, l>>})
    OBVIOUS
  <2>2. i \in 1..Len(queue) + n
    BY <1>14, <1>15
  <2>3. CASE i \in 1..Len(queue)
    <3>1. (queue \o issued)[i] = queue[i]
      BY <1>14, <2>3, Zenon
    <3>2. QED
      BY <1>13, <1>15, <2>3, <3>1, Zenon
  <2>4. CASE i \notin 1..Len(queue)
    <3>1. PICK l \in 1..n : i = Len(queue) + l
      BY <2>1, <2>2, <2>4
    <3>2. (queue \o issued)[Len(queue) + l] = Op("copy", {<<T, l>>})
      BY <1>14, Zenon
    <3>3. QED
      BY <1>15, <3>1, <3>2, Zenon
  <2>5. QED
    BY <2>3, <2>4
<1>17. \A u \in Transfers : Live(u)' <=> Live(u)
  <2>1. \A u : Reading(u)' <=> Reading(u)
    BY <1>2 DEF Reading
  <2>2. ASSUME NEW u \in Transfers PROVE Staged(u)' <=> Staged(u)
    <3>1. slot[m] # u /\ slot'[m] # u
      BY <1>1, <1>2, <1>4, <1>7 DEF TypeInv
    <3>2. QED
      BY <1>1, <1>2, <3>1 DEF Staged, TypeInv
  <2>3. QED
    BY <2>1, <2>2 DEF Live
<1>18. LiveInv'
  <2> SUFFICES ASSUME NEW u \in Nat, Live(u)'
               PROVE  u \in Transfers' /\ Len(view'[u].buffer) = NumLayers
    BY DEF LiveInv
  <2>1. CASE u \in Transfers
    BY <1>1, <1>9, <1>17, <2>1 DEF LiveInv
  <2>2. CASE u \notin Transfers
    <3>1. ~ Live(u)
      BY <1>1, <2>2 DEF LiveInv
    <3>2. ~ Reading(u)'
      BY <1>2, <3>1 DEF Live, Reading
    <3>3. PICK k \in Memories : slot'[k] = u
      BY <3>2 DEF Live, Staged
    <3>4. k = m
      BY <1>1, <1>2, <3>1, <3>3 DEF Live, Staged, TypeInv
    <3>5. u = T /\ Len(buffer) = NumLayers
      BY <1>1, <1>2, <1>4, <3>3, <3>4 DEF TypeInv
    <3>6. QED
      BY <1>8, <1>9, <3>5
  <2>3. QED
    BY <2>1, <2>2
<1>19. \A p \in Pairs : Held(p)' => Held(p)
  BY <1>10, <1>15, <1>17 DEF Held, FreedAfter
<1>20. TypeInv'
  <2>1. slot' \in [Memories -> Nat \cup {None}]
    BY <1>1, <1>2, <1>7 DEF TypeInv
  <2>2. landed' \subseteq Pairs'
    BY <1>1, <1>2, <1>10 DEF TypeInv
  <2>3. QED
    BY <1>1, <1>2, <1>9, <1>15, <2>1, <2>2 DEF TypeInv
<1>21. BuffersInv'
  BY <1>1, <1>5, <1>6, <1>8, <1>9 DEF BuffersInv
<1>22. StreamInv'
  <2> SUFFICES ASSUME NEW s \in Streams, NEW i \in DOMAIN stream'[s]
               PROVE  /\ stream'[s][i].do = "copy" <=> s = CopyStream
                      /\ stream'[s][i].do = "copy" => \E p \in Pairs' : stream'[s][i].of = {p}
                      /\ stream'[s][i].of \subseteq Pairs'
    BY DEF StreamInv
  <2>1. CASE i \in DOMAIN stream[s] /\ stream'[s][i] = stream[s][i]
    BY <1>1, <1>10, <2>1 DEF StreamInv
  <2>2. CASE s \in Computes
    BY <1>15, <2>1, <2>2
  <2>3. CASE s = CopyStream
    <3>1. ASSUME NEW l \in 1..n, stream'[s][i] = Op("copy", {<<T, l>>})
          PROVE  /\ stream'[s][i].do = "copy" /\ stream'[s][i].of = {<<T, l>>}
                 /\ <<T, l>> \in Pairs'
      BY <1>10, <3>1 DEF Op
    <3>2. QED
      BY <1>16, <2>1, <2>3, <3>1 DEF queue
  <2>4. QED
    BY <2>2, <2>3 DEF Streams
<1>23. OrderInv'
  <2> DEFINE q(i) == stream'[CopyStream][i]
  <2>1. \A i \in DOMAIN queue : \A p \in queue[i].of : p \in Pairs
    BY <1>1, <1>4 DEF StreamInv, queue
  <2>2. \A p \in Pairs : \A l \in 1..n : Before(p, <<T, l>>)
    BY <1>7, <1>10 DEF Before
  <2>3. \A k, l \in 1..n : k < l => Before(<<T, k>>, <<T, l>>)
    BY DEF Before
  <2>4. ASSUME NEW i \in DOMAIN stream'[CopyStream], NEW j \in DOMAIN stream'[CopyStream],
               i < j, NEW p \in q(i).of, NEW r \in q(j).of
        PROVE  Before(p, r)
    <3>1. CASE i \in DOMAIN queue /\ q(i) = queue[i] /\ j \in DOMAIN queue /\ q(j) = queue[j]
      BY <1>1, <2>4, <3>1 DEF OrderInv, queue
    <3>2. CASE /\ i \in DOMAIN queue /\ q(i) = queue[i]
               /\ \E l \in 1..n : j = Len(queue) + l /\ q(j) = Op("copy", {<<T, l>>})
      BY <2>1, <2>2, <2>4, <3>2 DEF Op
    <3>3. CASE /\ \E l \in 1..n : i = Len(queue) + l /\ q(i) = Op("copy", {<<T, l>>})
               /\ j \in DOMAIN queue
      BY <1>13, <2>4, <3>3
    <3>4. CASE /\ \E l \in 1..n : i = Len(queue) + l /\ q(i) = Op("copy", {<<T, l>>})
               /\ \E l \in 1..n : j = Len(queue) + l /\ q(j) = Op("copy", {<<T, l>>})
      <4>1. PICK k \in 1..n : i = Len(queue) + k /\ q(i) = Op("copy", {<<T, k>>})
        BY <3>4
      <4>2. PICK l \in 1..n : j = Len(queue) + l /\ q(j) = Op("copy", {<<T, l>>})
        BY <3>4
      <4>3. k < l
        BY <1>4, <1>13, <2>4, <4>1, <4>2
      <4>4. p = <<T, k>> /\ r = <<T, l>>
        BY <2>4, <4>1, <4>2 DEF Op
      <4>5. QED
        BY <2>3, <4>3, <4>4
    <3>5. QED
      BY <1>16, <3>1, <3>2, <3>3, <3>4
  <2>5. ASSUME NEW p \in landed, NEW i \in DOMAIN stream'[CopyStream], NEW r \in q(i).of
        PROVE  Before(p, r)
    <3>1. p \in Pairs
      BY <1>1 DEF TypeInv
    <3>2. CASE i \in DOMAIN queue /\ q(i) = queue[i]
      BY <1>1, <2>5, <3>2 DEF OrderInv, queue
    <3>3. CASE \E l \in 1..n : q(i) = Op("copy", {<<T, l>>})
      BY <2>2, <2>5, <3>1, <3>3 DEF Op
    <3>4. QED
      BY <1>16, <3>2, <3>3
  <2>6. QED
    BY <1>2, <2>4, <2>5 DEF OrderInv
<1>24. HeldInv'
  <2> SUFFICES ASSUME NEW p \in Pairs', Held(p)', NEW t \in Transfers', p[1] < t
               PROVE  BufferOf(p)' \notin BuffersOf(t)'
    BY DEF HeldInv
  <2>1. CASE p \in Pairs /\ t \in Transfers
    BY <1>1, <1>11, <1>19, <2>1 DEF HeldInv
  <2>2. CASE p \in Pairs /\ t = T
    <3>1. Held(p)
      BY <1>19, <2>2
    <3>2. ASSUME NEW i \in 1..n PROVE BufferOf(p) # buffer[i]
      <4>1. Reusable(buffer[i])
        BY <1>2, <1>5
      <4>2. CASE Live(p[1])
        <5>1. p[1] \in Transfers /\ BufferOf(p) \in BuffersOf(p[1])
          BY <2>2 DEF Pairs, BufferOf, BuffersOf
        <5>2. QED
          BY <4>1, <4>2, <5>1 DEF Reusable, Live
      <4>3. CASE \E s \in Computes : FreedAfter(p, s, 0)
        <5>1. PICK s \in Computes : FreedAfter(p, s, 0)
          BY <4>3
        <5>2. PICK j \in DOMAIN stream[s] : stream[s][j].do = "free" /\ p \in stream[s][j].of
          BY <5>1 DEF FreedAfter
        <5>3. stream[s][j] \in Queued(s)
          BY DEF Queued
        <5>4. QED
          BY <4>1, <5>2, <5>3 DEF Reusable
      <4>4. QED
        BY <3>1, <4>2, <4>3 DEF Held
    <3>3. QED
      BY <1>11, <2>2, <3>2
  <2>3. CASE p \notin Pairs
    <3>1. p[1] = T
      BY <1>10, <2>3
    <3>2. QED
      BY <1>7, <1>9, <3>1
  <2>4. QED
    BY <1>9, <2>1, <2>2, <2>3
<1>25. ContentInv'
  <2>1. \A p \in landed : p \in Pairs
    BY <1>1 DEF TypeInv
  <2>2. QED
    BY <1>1, <1>2, <1>11, <1>19, <2>1 DEF ContentInv
<1>26. WaitedInv'
  BY <1>1, <1>2, <1>8, <1>9, <1>17 DEF WaitedInv
<1>27. ReadInv'
  <2> SUFFICES ASSUME NEW s \in Computes, NEW i \in DOMAIN stream[s],
                      stream[s][i].do = "read", NEW p \in stream[s][i].of
               PROVE  /\ p \in landed
                      /\ \/ Live(p[1])' /\ <<p[2], s>> \in view'[p[1]].recorded
                         \/ FreedAfter(p, s, i)'
    BY <1>2, <1>15 DEF ReadInv
  <2>1. p \in landed /\ p \in Pairs
    BY <1>1 DEF ReadInv, TypeInv
  <2>2. p[1] \in Transfers
    BY <1>10, <2>1
  <2>3. FreedAfter(p, s, i) => FreedAfter(p, s, i)'
    BY <1>15 DEF FreedAfter
  <2>4. QED
    BY <1>1, <1>9, <1>17, <2>1, <2>2, <2>3 DEF ReadInv
<1>28. JobInv'
  BY <1>1, <1>2, <1>9, ReadsWhatIsThere DEF JobInv
<1>29. QED
  BY <1>18, <1>20, <1>21, <1>22, <1>23, <1>24, <1>25, <1>26, <1>27, <1>28 DEF StagingInv
-----------------------------------------------------------------------------
(* The device.                                                             *)

(* Two layers that are copied one after the other, the first one held, are *)
(* in different buffers.                                                   *)
LEMMA DistinctBuffers ==
  ASSUME StagingInv, NEW p \in Pairs, NEW q \in Pairs, Held(p), Before(p, q)
  PROVE  BufferOf(p) # BufferOf(q)
<1>1. /\ p[1] \in Transfers /\ p[2] \in DOMAIN view[p[1]].buffer
      /\ q[1] \in Transfers /\ q[2] \in DOMAIN view[q[1]].buffer
      /\ p[2] \in Nat /\ q[2] \in Nat
  BY DEF Pairs, Layers
<1>2. CASE p[1] < q[1]
  <2>1. BufferOf(p) \notin BuffersOf(q[1])
    BY <1>1, <1>2 DEF StagingInv, HeldInv
  <2>2. QED
    BY <1>1, <2>1 DEF BufferOf, BuffersOf
<1>3. CASE p[1] = q[1] /\ p[2] < q[2]
  BY <1>1, <1>3 DEF StagingInv, BuffersInv, BufferOf
<1>4. QED
  BY <1>2, <1>3 DEF Before

(* The first of what is queued is gone, the rest moved up.                 *)
LEMMA Running ==
  ASSUME TypeInv, NEW s \in Streams, stream[s] # <<>>,
         stream' = [stream EXCEPT ![s] = Tail(@)]
  PROVE  /\ stream' \in [Streams -> Seq(Operation)]
         /\ \A u \in Streams : u # s => stream'[u] = stream[u]
         /\ 1 \in DOMAIN stream[s] /\ Head(stream[s]) = stream[s][1]
         /\ \A i \in DOMAIN stream'[s] :
              i \in Nat \ {0} /\ i + 1 \in DOMAIN stream[s] /\ stream'[s][i] = stream[s][i + 1]
         /\ \A i \in DOMAIN stream[s] : i = 1 \/ (i - 1 \in DOMAIN stream'[s])
<1>1. stream[s] \in Seq(Operation)
  BY DEF TypeInv
<1>2. /\ Tail(stream[s]) \in Seq(Operation)
      /\ Len(Tail(stream[s])) = Len(stream[s]) - 1
      /\ \A i \in 1..Len(Tail(stream[s])) : Tail(stream[s])[i] = stream[s][i + 1]
      /\ Head(stream[s]) = stream[s][1] /\ Len(stream[s]) \in Nat \ {0}
  BY <1>1
<1>3. /\ stream'[s] = Tail(stream[s])
      /\ \A u \in Streams : u # s => stream'[u] = stream[u]
      /\ stream' \in [Streams -> Seq(Operation)]
  BY <1>2 DEF TypeInv
<1>4. DOMAIN stream[s] = 1..Len(stream[s]) /\ DOMAIN stream'[s] = 1..Len(stream[s]) - 1
  BY <1>1, <1>2, <1>3
<1>5. QED
  BY <1>2, <1>3, <1>4

(* A stream runs its next operation.                                       *)
LEMMA RunKeeps ==
  ASSUME StagingInv, NEW s \in Streams, Run(s)
  PROVE  StagingInv'
<1> DEFINE op == stream[s][1]
<1>1. /\ TypeInv /\ LiveInv /\ BuffersInv /\ StreamInv /\ OrderInv
      /\ HeldInv /\ ContentInv /\ WaitedInv /\ ReadInv /\ JobInv
  BY DEF StagingInv
<1>2. /\ stream[s] # <<>> /\ stream' = [stream EXCEPT ![s] = Tail(@)]
      /\ UNCHANGED <<slot, view, current, job, jobs>>
  BY DEF Run
<1>3. /\ stream' \in [Streams -> Seq(Operation)]
      /\ \A u \in Streams : u # s => stream'[u] = stream[u]
      /\ 1 \in DOMAIN stream[s] /\ Head(stream[s]) = op
      /\ \A i \in DOMAIN stream'[s] :
           i \in Nat \ {0} /\ i + 1 \in DOMAIN stream[s] /\ stream'[s][i] = stream[s][i + 1]
      /\ \A i \in DOMAIN stream[s] : i = 1 \/ (i - 1 \in DOMAIN stream'[s])
  BY <1>1, <1>2, Running
<1>4. /\ landed' = IF op.do = "copy" THEN landed \cup op.of ELSE landed
      /\ content' = IF op.do = "copy"
                    THEN [b \in Buffers |->
                            IF \E p \in op.of : BufferOf(p) = b
                            THEN CHOOSE p \in op.of : BufferOf(p) = b ELSE content[b]]
                    ELSE content
  BY <1>3, Zenon DEF Run
<1>5. /\ CopyStream \in Streams /\ CopyStream \notin Computes /\ Computes \subseteq Streams
  BY LayerStagingAssumption DEF Streams
<1>6. /\ op.do = "copy" <=> s = CopyStream
      /\ s = CopyStream => \E q \in Pairs : op.of = {q}
  BY <1>1, <1>3 DEF StreamInv
<1> HIDE DEF op
<1>7. /\ Transfers' = Transfers /\ Pairs' = Pairs
      /\ \A p : BufferOf(p)' = BufferOf(p)
      /\ \A t : BuffersOf(t)' = BuffersOf(t)
      /\ \A t : Live(t)' <=> Live(t)
  BY <1>2 DEF Transfers, Pairs, BufferOf, BuffersOf, Live, Staged, Reading
<1>8. landed \subseteq landed' /\ landed' \subseteq Pairs
  BY <1>1, <1>4, <1>6 DEF TypeInv
<1>9. TypeInv'
  BY <1>1, <1>2, <1>3, <1>4, <1>7, <1>8 DEF TypeInv
<1>10. \A p : Held(p)' => Held(p)
  <2> SUFFICES ASSUME NEW p, NEW c \in Computes, FreedAfter(p, c, 0)' PROVE FreedAfter(p, c, 0)
    BY <1>7 DEF Held
  <2>1. CASE c # s
    BY <1>3, <1>5, <2>1 DEF FreedAfter
  <2>2. CASE c = s
    <3>1. PICK j \in DOMAIN stream'[s] : stream'[s][j].do = "free" /\ p \in stream'[s][j].of
      BY <2>2 DEF FreedAfter
    <3>2. j + 1 \in DOMAIN stream[s] /\ stream'[s][j] = stream[s][j + 1] /\ 0 < j + 1
      BY <1>3, <3>1
    <3>3. QED
      BY <2>2, <3>1, <3>2 DEF FreedAfter
  <2>3. QED
    BY <2>1, <2>2
<1>11. LiveInv' /\ BuffersInv'
  BY <1>1, <1>2, <1>7 DEF LiveInv, BuffersInv
<1>12. StreamInv'
  <2> SUFFICES ASSUME NEW u \in Streams, NEW i \in DOMAIN stream'[u]
               PROVE  /\ stream'[u][i].do = "copy" <=> u = CopyStream
                      /\ stream'[u][i].do = "copy" => \E p \in Pairs : stream'[u][i].of = {p}
                      /\ stream'[u][i].of \subseteq Pairs
    BY <1>7 DEF StreamInv
  <2>1. \E k \in DOMAIN stream[u] : stream'[u][i] = stream[u][k]
    BY <1>3
  <2>2. QED
    BY <1>1, <2>1 DEF StreamInv
<1>13. HeldInv'
  BY <1>1, <1>7, <1>10 DEF HeldInv
<1>14. WaitedInv'
  BY <1>1, <1>2, <1>7, <1>8 DEF WaitedInv
<1>15. JobInv'
  BY <1>1, <1>2 DEF JobInv
<1>16. ReadInv'
  <2> SUFFICES ASSUME NEW c \in Computes, NEW i \in DOMAIN stream'[c],
                      stream'[c][i].do = "read", NEW p \in stream'[c][i].of
               PROVE  /\ p \in landed'
                      /\ \/ Live(p[1]) /\ <<p[2], c>> \in view[p[1]].recorded
                         \/ FreedAfter(p, c, i)'
    BY <1>2, <1>7 DEF ReadInv
  <2>1. CASE c # s
    <3>1. stream'[c] = stream[c]
      BY <1>3, <1>5, <2>1
    <3>2. FreedAfter(p, c, i) => FreedAfter(p, c, i)'
      BY <3>1 DEF FreedAfter
    <3>3. QED
      BY <1>1, <1>8, <3>1, <3>2 DEF ReadInv
  <2>2. CASE c = s
    <3>1. i \in Nat \ {0} /\ i + 1 \in DOMAIN stream[s] /\ stream'[s][i] = stream[s][i + 1]
      BY <1>3, <2>2
    <3>2. /\ p \in landed
          /\ \/ Live(p[1]) /\ <<p[2], s>> \in view[p[1]].recorded
             \/ FreedAfter(p, s, i + 1)
      BY <1>1, <2>2, <3>1 DEF ReadInv
    <3>3. ASSUME FreedAfter(p, s, i + 1) PROVE FreedAfter(p, s, i)'
      <4>1. PICK j \in DOMAIN stream[s] :
              i + 1 < j /\ stream[s][j].do = "free" /\ p \in stream[s][j].of
        BY <3>3 DEF FreedAfter
      <4>2. stream[s] \in Seq(Operation) /\ j \in Nat
        BY <1>1, <4>1 DEF TypeInv
      <4>3. j # 1 /\ i < j - 1 /\ (j - 1) + 1 = j
        BY <3>1, <4>1, <4>2
      <4>4. j - 1 \in DOMAIN stream'[s] /\ stream'[s][j - 1] = stream[s][j]
        BY <1>3, <4>1, <4>3
      <4>5. QED
        BY <4>1, <4>3, <4>4 DEF FreedAfter
    <3>4. QED
      BY <1>8, <2>2, <3>2, <3>3
  <2>3. QED
    BY <2>1, <2>2
<1>17. OrderInv' /\ ContentInv'
  <2>1. CASE s # CopyStream
    <3>1. /\ stream'[CopyStream] = stream[CopyStream] /\ landed' = landed /\ content' = content
      BY <1>3, <1>4, <1>5, <1>6, <2>1
    <3>2. OrderInv'
      BY <1>1, <3>1 DEF OrderInv
    <3>3. ContentInv'
      BY <1>1, <1>7, <1>10, <3>1 DEF ContentInv
    <3>4. QED
      BY <3>2, <3>3
  <2>2. CASE s = CopyStream
    <3>1. PICK q \in Pairs : op.of = {q}
      BY <1>6, <2>2
    <3>2. /\ landed' = landed \cup {q}
          /\ content' = [b \in Buffers |-> IF BufferOf(q) = b THEN q ELSE content[b]]
      BY <1>4, <1>6, <2>2, <3>1
    <3>3. \A p \in landed : Before(p, q)
      BY <1>1, <1>3, <2>2, <3>1 DEF OrderInv, op
    <3>4. OrderInv'
      <4> DEFINE queue == stream[CopyStream]
                 rest == stream'[CopyStream]
      <4>1. \A i \in DOMAIN rest : /\ i \in Nat \ {0} /\ i + 1 \in DOMAIN queue
                                   /\ rest[i] = queue[i + 1]
        BY <1>3, <2>2
      <4>2. /\ \A i, j \in DOMAIN queue : i < j =>
                 \A p \in queue[i].of, r \in queue[j].of : Before(p, r)
            /\ \A p \in landed : \A i \in DOMAIN queue : \A r \in queue[i].of : Before(p, r)
            /\ 1 \in DOMAIN queue /\ queue[1].of = {q}
        BY <1>1, <1>3, <2>2, <3>1 DEF OrderInv, op
      <4> HIDE DEF queue
      <4>3. \A i, j \in DOMAIN rest : i < j =>
              \A p \in rest[i].of, r \in rest[j].of : Before(p, r)
        <5> SUFFICES ASSUME NEW i \in DOMAIN rest, NEW j \in DOMAIN rest, i < j,
                            NEW p \in rest[i].of, NEW r \in rest[j].of
                     PROVE  Before(p, r)
          OBVIOUS
        <5> HIDE DEF rest
        <5>1. i + 1 \in DOMAIN queue /\ j + 1 \in DOMAIN queue /\ i + 1 < j + 1
              /\ p \in queue[i + 1].of /\ r \in queue[j + 1].of
          BY <4>1
        <5>2. QED
          BY <4>2, <5>1, Zenon
      <4>4. ASSUME NEW p \in landed', NEW i \in DOMAIN rest, NEW r \in rest[i].of
            PROVE  Before(p, r)
        <5> HIDE DEF rest
        <5>1. i + 1 \in DOMAIN queue /\ 1 < i + 1 /\ r \in queue[i + 1].of
          BY <4>1
        <5>2. CASE p = q
          BY <4>2, <5>1, <5>2
        <5>3. CASE p \in landed
          BY <4>2, <5>1, <5>3
        <5>4. QED
          BY <3>2, <5>2, <5>3
      <4>5. QED
        BY <4>3, <4>4 DEF OrderInv
    <3>5. ContentInv'
      <4> SUFFICES ASSUME NEW p \in landed', Held(p) PROVE content'[BufferOf(p)] = p
        BY <1>7, <1>10 DEF ContentInv
      <4>1. BufferOf(p) \in Buffers
        <5>1. p[1] \in Transfers /\ p[2] \in DOMAIN view[p[1]].buffer
          BY <1>8 DEF Pairs
        <5>2. view[p[1]].buffer \in Seq(Buffers)
          BY <1>1, <5>1, ViewsAreViews
        <5>3. QED
          BY <5>1, <5>2 DEF BufferOf
      <4>2. CASE p = q
        BY <3>2, <4>1, <4>2
      <4>3. CASE p # q
        <5>1. p \in landed /\ p \in Pairs
          BY <1>8, <3>2, <4>3
        <5>2. BufferOf(p) # BufferOf(q)
          BY <3>3, <5>1, DistinctBuffers
        <5>3. content[BufferOf(p)] = p
          BY <1>1, <5>1 DEF ContentInv
        <5>4. QED
          BY <3>2, <4>1, <5>2, <5>3
      <4>4. QED
        BY <4>2, <4>3
    <3>6. QED
      BY <3>4, <3>5
  <2>3. QED
    BY <2>1, <2>2
<1>18. QED
  BY <1>9, <1>11, <1>12, <1>13, <1>14, <1>15, <1>16, <1>17 DEF StagingInv

-----------------------------------------------------------------------------
LEMMA InitStaging == Init => StagingInv
<1> SUFFICES ASSUME Init PROVE StagingInv
  OBVIOUS
<1>1. /\ slot = [m \in Memories |-> None] /\ view = <<>>
      /\ stream = [s \in Streams |-> <<>>] /\ landed = {}
      /\ content = [b \in Buffers |-> None] /\ current \in Computes
      /\ job = NoJob
  BY DEF Init
<1>2. Transfers = {} /\ Pairs = {} /\ \A s \in Streams : DOMAIN stream[s] = {}
  BY <1>1 DEF Transfers, Pairs
<1>3. CopyStream \in Streams /\ Computes \subseteq Streams
  BY DEF Streams
<1>4. TypeInv
  <2>1. view \in Seq(View) /\ <<>> \in Seq(Operation)
    BY <1>1
  <2>2. stream \in [Streams -> Seq(Operation)]
    BY <1>1, <2>1
  <2>3. DOMAIN job = {"kind", "of", "layer", "next"} /\ job.of \in Seq(Nat)
        /\ job.next \in Nat \ {0}
    BY <1>1 DEF NoJob
  <2>4. QED
    BY <1>1, <2>1, <2>2, <2>3 DEF TypeInv
<1>5. \A t \in Nat : ~ Live(t)
  BY <1>1, LayerStagingAssumption DEF Live, Staged, Reading, NoJob
<1>6. JobInv
  BY <1>1 DEF JobInv, NoJob
<1>7. LiveInv /\ BuffersInv /\ HeldInv /\ ContentInv /\ WaitedInv
  BY <1>1, <1>2, <1>5 DEF LiveInv, BuffersInv, HeldInv, ContentInv, WaitedInv
<1>8. StreamInv /\ OrderInv /\ ReadInv
  BY <1>1, <1>2, <1>3 DEF StreamInv, OrderInv, ReadInv
<1>9. QED
  BY <1>4, <1>6, <1>7, <1>8 DEF StagingInv

LEMMA StagingInvariance == Spec => []StagingInv
<1>1. ASSUME StagingInv, [Next]_vars PROVE StagingInv'
  <2>1. ASSUME NEW m \in Memories, NEW buffer \in Allocations, Stage(m, buffer)
        PROVE  StagingInv'
    BY <1>1, <2>1, StageKeeps
  <2>2. ASSUME NEW m \in Memories, Release(m) PROVE StagingInv'
    BY <1>1, <2>2, ReleaseKeeps
  <2>3. ASSUME NEW m \in Memories, BeginInject(m) PROVE StagingInv'
    BY <1>1, <2>3, BeginInjectKeeps
  <2>4. ASSUME NEW memories \in Compositions, BeginCompose(memories) PROVE StagingInv'
    BY <1>1, <2>4, BeginComposeKeeps
  <2>5. CASE Access
    BY <1>1, <2>5, AccessKeeps
  <2>6. CASE Launch
    BY <1>1, <2>6, LaunchKeeps
  <2>7. CASE EndJob
    BY <1>1, <2>7, EndJobKeeps
  <2>8. ASSUME NEW s \in Computes, SwitchStream(s) PROVE StagingInv'
    BY <1>1, <2>8, SwitchStreamKeeps
  <2>9. ASSUME NEW s \in Streams, Run(s) PROVE StagingInv'
    BY <1>1, <2>9, RunKeeps
  <2>10. CASE UNCHANGED vars
    <3>1. /\ slot' = slot /\ view' = view /\ stream' = stream /\ landed' = landed
          /\ content' = content /\ current' = current /\ job' = job
      BY <2>10 DEF vars
    <3>2. TypeInv' /\ WaitedInv' /\ JobInv'
      BY <1>1, <3>1 DEF StagingInv, TypeInv, WaitedInv, JobInv, Pairs, Transfers,
                        Live, Staged, Reading
    <3>3. HostStep
      BY <1>1, <3>1, QueuesAsBefore, ViewAsBefore
         DEF StagingInv, HostStep, Live, Staged, Reading
    <3>4. QED
      BY <1>1, <3>2, <3>3, HostKeeps
  <2>11. QED
    BY <1>1, <2>1, <2>2, <2>3, <2>4, <2>5, <2>6, <2>7, <2>8, <2>9, <2>10 DEF Next
<1>2. QED
  BY <1>1, InitStaging, PTL DEF Spec

(* A view is good for as long as somebody has it: what landed in a staged  *)
(* or still referenced transfer stays there, whatever is released, evicted *)
(* or staged meanwhile, and however few buffers there are.                 *)
THEOREM ViewsAreGood == Spec => []ViewsKeepTheirLayers
<1>1. ASSUME StagingInv PROVE ViewsKeepTheirLayers
  <2>1. \A p \in landed : Held(p) => content[BufferOf(p)] = p
    BY <1>1 DEF StagingInv, ContentInv
  <2>2. QED
    BY <2>1 DEF ViewsKeepTheirLayers, Held, Live
<1>2. QED
  BY <1>1, StagingInvariance, PTL

(* A kernel whose turn has come finds its layers in their buffers, and the *)
(* copy that may run beside it is into another buffer.                     *)
THEOREM KernelsReadWhatTheyWereGiven == Spec => []KernelsReadTheirLayer
<1>1. ASSUME StagingInv PROVE KernelsReadTheirLayer
  <2> SUFFICES ASSUME NEW s \in Computes, stream[s] # <<>>, Head(stream[s]).do = "read",
                      NEW p \in Head(stream[s]).of
               PROVE  /\ content[BufferOf(p)] = p
                      /\ stream[CopyStream] # <<>> =>
                           \A q \in Head(stream[CopyStream]).of : BufferOf(q) # BufferOf(p)
    BY DEF KernelsReadTheirLayer
  <2>1. \A u \in Streams : stream[u] \in Seq(Operation)
    BY <1>1 DEF StagingInv, TypeInv
  <2>2. \A u \in Streams : stream[u] # <<>> =>
          1 \in DOMAIN stream[u] /\ Head(stream[u]) = stream[u][1]
    <3> SUFFICES ASSUME NEW u \in Streams, stream[u] # <<>>
                 PROVE  1 \in DOMAIN stream[u] /\ Head(stream[u]) = stream[u][1]
      OBVIOUS
    <3>1. stream[u] \in Seq(Operation)
      BY <2>1
    <3>2. QED
      BY <3>1
  <2>3. s \in Streams /\ CopyStream \in Streams
    BY DEF Streams
  <2>4. p \in landed /\ Held(p)
    <3>1. 1 \in DOMAIN stream[s] /\ stream[s][1].do = "read" /\ p \in stream[s][1].of
      BY <2>2, <2>3
    <3>2. p \in landed /\ (Live(p[1]) \/ FreedAfter(p, s, 1))
      BY <1>1, <3>1 DEF StagingInv, ReadInv
    <3>3. FreedAfter(p, s, 1) => FreedAfter(p, s, 0)
      <4>1. \A j \in DOMAIN stream[s] : j \in Nat
        BY <2>1, <2>3
      <4>2. \A j \in Nat : 1 < j => 0 < j
        OBVIOUS
      <4>3. QED
        BY <4>1, <4>2 DEF FreedAfter
    <3>4. QED
      BY <3>2, <3>3 DEF Held
  <2>5. ASSUME stream[CopyStream] # <<>>, NEW q \in Head(stream[CopyStream]).of
        PROVE  BufferOf(q) # BufferOf(p)
    <3>1. 1 \in DOMAIN stream[CopyStream] /\ q \in stream[CopyStream][1].of
      BY <2>2, <2>3, <2>5
    <3>2. Before(p, q) /\ q \in Pairs /\ p \in Pairs
      BY <1>1, <2>3, <2>4, <3>1 DEF StagingInv, OrderInv, StreamInv, TypeInv
    <3>3. QED
      BY <1>1, <2>4, <3>2, DistinctBuffers
  <2>6. QED
    BY <1>1, <2>4, <2>5 DEF StagingInv, ContentInv
<1>2. QED
  BY <1>1, StagingInvariance, PTL
=============================================================================
