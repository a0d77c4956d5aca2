----------------------------- MODULE ChunkFiles -----------------------------
(***************************************************************************)
(* Encoded chunks on disk: the precompute stage writes a file per chunk    *)
(* that has none, beside its name and renamed over it, and may be stopped  *)
(* and run again, also twice at a time; the answer stage loads the files   *)
(* and refuses what is not what its tokenizer would have been encoded as.  *)
(*                                                                         *)
(* A file on disk is the tokens its header names and the forward pass its  *)
(* KV comes from.  One document; the scaffold and the RoPE tables share a  *)
(* file, which is treated like a chunk without a context.                  *)
(***************************************************************************)
EXTENDS Integers, SequencesExt, EncodingPlan, Filtering

CONSTANTS
  Writers,       \* precompute processes over one cache directory
  Corpus,        \* the chunk ids in document order
  Tables,        \* the file of the tables and the scaffold
  Tokenize,      \* per version of the tokenizer the tokens of every file
  NoFile,
  MaxCrashes, MaxChanges \* bounds: processes killed, tokenizers installed

Files == ToSet(Corpus) \cup {Tables}

ASSUME ChunkFilesAssumption ==
  /\ Corpus \in Seq(ToSet(Corpus)) /\ Corpus # <<>> /\ IsInjective(Corpus)
  /\ Tables \notin ToSet(Corpus)
  /\ \A v \in DOMAIN Tokenize : \A p \in Files : Plannable(Tokenize[v][p])
  /\ MaxCrashes \in Nat /\ MaxChanges \in Nat

VARIABLES
  tokenizer, \* the version installed
  disk,      \* per file what is under its name and under its name with .tmp
  writer,    \* per process what it still has to write, and its open file
  answerer,  \* the answer stage: the entries of its CpuChunkStore
  crashes, changes,
  history    \* whether writers ran at once, tokenizers changed, a run ended

filesVars == <<tokenizer, disk, writer, answerer, crashes, changes, history>>

-----------------------------------------------------------------------------
(* build_chunk_context_encoding_plan and the pass over it.                 *)
Encode(v, p) ==
  LET at      == CHOOSE i \in DOMAIN Corpus : Corpus[i] = p
      from    == IF at > ContextWindow THEN at - ContextWindow ELSE 1
      context == IF p = Tables THEN <<>>
                 ELSE FlattenSeq([i \in 1..(at - from) |-> Tokenize[v][Corpus[from + i - 1]]])
  IN  [tokens |-> Tokenize[v][p],
       input  |-> BuildEncodingPlan(p, Tokenize[v][p], context).input]

(* What there can be under a name: all or the beginning of an encode.      *)
SavedFiles ==
  [payload : {Encode(v, p) : v \in DOMAIN Tokenize, p \in Files}, by : Writers, whole : BOOLEAN]

ASSUME NoFileAssumption == NoFile \notin SavedFiles

(* A check that leaves the token ids out.                                  *)
LoadsIfReadable(p) == disk[p].pt # NoFile /\ disk[p].pt.whole

(* load_torch_payload and chunk_payload_is_valid, or their counterparts    *)
(* for the tables: there, readable, and of the live tokenizer's tokens.    *)
Loads(p) ==
  /\ disk[p].pt # NoFile /\ disk[p].pt.whole
  /\ disk[p].pt.payload.tokens = Tokenize[tokenizer][p]

Resting == [at |-> "rest", todo |-> <<>>, open |-> "none"]
Running(w) == writer[w].at # "rest"
Target(w) == Head(writer[w].todo)
Idle == [at |-> "rest", entries |-> <<>>, promised |-> FALSE]

FilesInit ==
  /\ tokenizer \in DOMAIN Tokenize
  /\ disk = [p \in Files |-> [pt |-> NoFile, tmp |-> NoFile]]
  /\ writer = [w \in Writers |-> Resting]
  /\ answerer = Idle
  /\ crashes = 0 /\ changes = 0
  /\ history = [overlapped |-> FALSE, used |-> {tokenizer}, finished |-> FALSE]

-----------------------------------------------------------------------------
(* precompute_rag_kv up to its loop: the chunks without a file are to be   *)
(* encoded, and the tables if what is there does not load.                 *)
PrecomputeRag(w) ==
  /\ ~Running(w)
  /\ LET todo == Filtered(Corpus, {p \in ToSet(Corpus) : disk[p].pt = NoFile})
                   \o (IF Loads(Tables) THEN <<>> ELSE <<Tables>>)
     IN  IF todo = <<>>
         THEN history' = [history EXCEPT !.finished = TRUE] /\ UNCHANGED writer
         ELSE /\ writer' = [writer EXCEPT ![w] = [at |-> "encode", todo |-> todo, open |-> "none"]]
              /\ history' = [history EXCEPT !.overlapped = @ \/ \E u \in Writers : Running(u)]
  /\ UNCHANGED <<tokenizer, disk, answerer, crashes, changes>>

(* The file written under its own name.                                    *)
OpenUnderItsName(w) ==
  /\ writer[w].at = "encode"
  /\ disk' = [disk EXCEPT ![Target(w)].pt =
       [payload |-> Encode(tokenizer, Target(w)), by |-> w, whole |-> FALSE]]
  /\ writer' = [writer EXCEPT ![w].at = "write", ![w].open = "pt"]
  /\ UNCHANGED <<tokenizer, answerer, crashes, changes, history>>

(* torch.save creates or cuts the file beside the name ...                 *)
OpenFile(w) ==
  /\ writer[w].at = "encode"
  /\ disk' = [disk EXCEPT ![Target(w)].tmp =
       [payload |-> Encode(tokenizer, Target(w)), by |-> w, whole |-> FALSE]]
  /\ writer' = [writer EXCEPT ![w].at = "write", ![w].open = "tmp"]
  /\ UNCHANGED <<tokenizer, answerer, crashes, changes, history>>

(* ... and fills it, under whichever name it has by now.  One that another *)
(* process has cut since is whole when that one is through.                *)
WriteFile(w) ==
  /\ writer[w].at = "write"
  /\ LET name == writer[w].open
     IN  IF name # "gone" /\ disk[Target(w)][name].by = w
         THEN disk' = [disk EXCEPT ![Target(w)][name].whole = TRUE]
         ELSE UNCHANGED disk
  /\ writer' = [writer EXCEPT ![w].at = "replace"]
  /\ UNCHANGED <<tokenizer, answerer, crashes, changes, history>>

(* What another process has open keeps being that file.                    *)
Moved(name) == IF name = "tmp" THEN "pt" ELSE IF name = "pt" THEN "gone" ELSE name

(* tmp_path.replace(path).  There is nothing to rename when another        *)
(* process did it before: the run ends with the exception.                 *)
Replace(w) ==
  /\ writer[w].at = "replace"
  /\ LET p == Target(w)
     IN  IF disk[p].tmp = NoFile
         THEN writer' = [writer EXCEPT ![w] = Resting] /\ UNCHANGED <<disk, history>>
         ELSE /\ disk' = [disk EXCEPT ![p] = [pt |-> @.tmp, tmp |-> NoFile]]
              /\ writer' = [u \in Writers |->
                   IF u = w
                   THEN IF Len(writer[w].todo) = 1 THEN Resting
                        ELSE [at |-> "encode", todo |-> Tail(writer[w].todo), open |-> "none"]
                   ELSE IF writer[u].at = "write" /\ Target(u) = p
                        THEN [writer[u] EXCEPT !.open = Moved(@)]
                        ELSE writer[u]]
              /\ history' = [history EXCEPT !.finished = @ \/ Len(writer[w].todo) = 1]
  /\ UNCHANGED <<tokenizer, answerer, crashes, changes>>

(* The process is killed, or its encoder raises.                           *)
Crash(w) ==
  /\ Running(w) /\ crashes < MaxCrashes
  /\ writer' = [writer EXCEPT ![w] = Resting]
  /\ crashes' = crashes + 1
  /\ UNCHANGED <<tokenizer, disk, answerer, changes, history>>

-----------------------------------------------------------------------------
(* The answer stage: the tables have to load and every chunk has to have a *)
(* file ...                                                                *)
Promised ==
  history.finished /\ ~history.overlapped /\ history.used = {tokenizer}

OpenStore ==
  /\ answerer.at = "rest"
  /\ answerer' =
       [at |-> IF Loads(Tables) /\ \A i \in DOMAIN Corpus : disk[Corpus[i]].pt # NoFile
               THEN "load" ELSE "refused",
        entries |-> <<>>, promised |-> Promised]
  /\ UNCHANGED <<tokenizer, disk, writer, crashes, changes, history>>

(* ... and chunk after chunk is loaded, or the store closed again.         *)
LoadEntry ==
  /\ answerer.at = "load"
  /\ LET p == Corpus[Len(answerer.entries) + 1]
     IN  answerer' =
           IF ~Loads(p) THEN [answerer EXCEPT !.at = "refused", !.entries = <<>>]
           ELSE [answerer EXCEPT
                  !.entries = Append(@, disk[p].pt.payload),
                  !.at = IF p = Last(Corpus) THEN "serve" ELSE "load"]
  /\ UNCHANGED <<tokenizer, disk, writer, crashes, changes, history>>

CloseStore ==
  /\ answerer.at \in {"serve", "refused"}
  /\ answerer' = Idle
  /\ UNCHANGED <<tokenizer, disk, writer, crashes, changes, history>>

(* Another version of the tokenizer is installed, while nothing runs.      *)
ChangeTokenizer(v) ==
  /\ changes < MaxChanges /\ v # tokenizer
  /\ answerer = Idle /\ \A w \in Writers : ~Running(w)
  /\ tokenizer' = v
  /\ changes' = changes + 1
  /\ history' = [history EXCEPT !.used = @ \cup {v}]
  /\ UNCHANGED <<disk, writer, answerer, crashes>>

FilesNext ==
  \/ \E w \in Writers :
       PrecomputeRag(w) \/ OpenFile(w) \/ WriteFile(w) \/ Replace(w) \/ Crash(w)
  \/ OpenStore \/ LoadEntry \/ CloseStore
  \/ \E v \in DOMAIN Tokenize : ChangeTokenizer(v)

FilesSpec == FilesInit /\ [][FilesNext]_filesVars

-----------------------------------------------------------------------------
(* Properties.                                                             *)

(* A loaded chunk has the KV the live tokenizer and the encoder would give *)
(* it, its context included, of which the header says nothing: however     *)
(* runs were stopped, resumed and overlapped, and also when a part of the  *)
(* directory is from before the tokenizer was changed.  After a second     *)
(* change a chunk can have its tokens over another version's context.      *)
ServesWhatItWouldEncode ==
  changes <= 1 =>
    \A i \in DOMAIN answerer.entries : answerer.entries[i] = Encode(tokenizer, Corpus[i])

(* Interrupt and rerun freely: once a run has ended, the answer stage is   *)
(* not refused, whatever was killed at whichever step before, as long as   *)
(* no two runs were in the directory at once and no tokenizer was changed. *)
InterruptAndRerun ==
  answerer.at = "refused" => ~answerer.promised
=============================================================================
