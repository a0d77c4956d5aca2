--------------------------- MODULE MemoryLibrary ---------------------------
(***************************************************************************)
(* What InferScale promises its caller, whatever happens inside: it learns *)
(* chunks while it is open, one at a time and never the same one twice; it *)
(* then serves, learns nothing more, and answers one request at a time     *)
(* from a memory of chunks it learned; and it closes for good.             *)
(***************************************************************************)
EXTENDS FiniteSets, SequencesExt

CONSTANTS
  ChunkIds,
  Header, Empty, Footer, \* the parts of a memory that are no chunk
  NoMemory               \* no request is being answered

VARIABLES
  phase,   \* "open", "serving" or "closed"
  library, \* the chunks learned, in order
  memory   \* the memory a request is being answered from

vars == <<phase, library, memory>>

Init == phase = "open" /\ library = <<>> /\ memory = NoMemory

Learn(id) ==
  /\ phase = "open" /\ id \notin ToSet(library)
  /\ library' = Append(library, id)
  /\ UNCHANGED <<phase, memory>>

Serve ==
  /\ phase = "open" /\ library # <<>>
  /\ phase' = "serving"
  /\ UNCHANGED <<library, memory>>

(* Chunks to answer from: known ones, none twice, perhaps none.            *)
Selections ==
  {s \in SeqOf(ToSet(library), Cardinality(ToSet(library))) : IsInjective(s)}

(* A memory is the scaffold around the chunks, or around its empty text.   *)
Answer(chunks) ==
  /\ phase = "serving" /\ memory = NoMemory
  /\ memory' = <<Header>> \o (IF chunks = <<>> THEN <<Empty>> ELSE chunks) \o <<Footer>>
  /\ UNCHANGED <<phase, library>>

Discard ==
  /\ memory # NoMemory
  /\ memory' = NoMemory
  /\ UNCHANGED <<phase, library>>

Close ==
  /\ phase # "closed" /\ memory = NoMemory
  /\ phase' = "closed"
  /\ UNCHANGED <<library, memory>>

Next ==
  \/ \E id \in ChunkIds : Learn(id)
  \/ Serve
  \/ \E chunks \in Selections : Answer(chunks)
  \/ Discard
  \/ Close

Spec == Init /\ [][Next]_vars
=============================================================================
