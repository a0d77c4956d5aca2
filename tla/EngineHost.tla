---------------------------- MODULE EngineHost ----------------------------
(***************************************************************************)
(* What a facade and the connector inside its engine meet through: the     *)
(* namespace registry of the process, and the setting that decides whether *)
(* vLLM runs the engine in this process at all.  vLLM copies the setting   *)
(* from the environment when its envs module is imported, which loading a  *)
(* tokenizer does long before an engine is started.                        *)
(***************************************************************************)
EXTENDS Integers, Sequences, FiniteSets, Functions

CONSTANTS
  Namespaces, \* one per facade
  NoMemory    \* a store holds nothing under the default user id

VARIABLES
  environ,    \* VLLM_ENABLE_V1_MULTIPROCESSING: "0", or anything that is on, "1"
  envs,       \* the copy in vllm.envs: "unloaded", "on" or "off"
  registry,   \* per namespace its store's number, 0 for none
  stores,     \* every store made so far: the memory it holds
  connector   \* per namespace the store its engine's connector holds, 0 for none

hostVars == <<environ, envs, registry, stores, connector>>

-----------------------------------------------------------------------------
Copied == IF environ = "0" THEN "off" ELSE "on"

HostInit ==
  /\ environ \in {"0", "1"}
  /\ envs = "unloaded"
  /\ registry = CHOOSE made \in [Namespaces -> 1..Cardinality(Namespaces)] : IsInjective(made)
  /\ stores = [i \in 1..Cardinality(Namespaces) |-> NoMemory]
  /\ connector = [n \in Namespaces |-> 0]

(* Any import of vllm.                                                     *)
ImportVllm == envs' = IF envs = "unloaded" THEN Copied ELSE envs

(* get_or_create: the store of a namespace, made when it is asked for.     *)
GetOrCreate(n) ==
  IF registry[n] = 0
  THEN stores' = Append(stores, NoMemory) /\ registry' = [registry EXCEPT ![n] = Len(stores) + 1]
  ELSE UNCHANGED <<stores, registry>>

(* The setting forced in the environment only.                             *)
ForceEnvironOnly ==
  environ' = "0" /\ envs' = IF envs = "unloaded" THEN "off" ELSE envs

(* force_vllm_inprocess_mode, and the import of vllm behind it.            *)
ForceInprocessMode == environ' = "0" /\ envs' = "off"

(* LLM(...): the engine makes its connector, which asks for the namespace  *)
(* by its name; a registry of another process does not know it.            *)
StartEngine(n) ==
  /\ ForceInprocessMode
  /\ IF envs' = "off"
     THEN GetOrCreate(n) /\ connector' = [connector EXCEPT ![n] = registry'[n]]
     ELSE /\ stores' = Append(stores, NoMemory)
          /\ connector' = [connector EXCEPT ![n] = Len(stores) + 1]
          /\ UNCHANGED registry

(* An engine that does not come up is closed again.                        *)
EngineFails(n) ==
  ForceInprocessMode /\ UNCHANGED <<registry, stores, connector>>

(* register_user_memory under the facade's one user id, whose namespace is *)
(* there as long as the facade is open.                                    *)
RegisterMemory(n, memory) ==
  /\ stores' = [stores EXCEPT ![registry[n]] = memory]
  /\ UNCHANGED <<environ, envs, registry, connector>>

RemoveMemory(n) ==
  /\ stores' = IF registry[n] = 0 THEN stores ELSE [stores EXCEPT ![registry[n]] = NoMemory]
  /\ UNCHANGED <<environ, envs, registry, connector>>

(* The namespace cleared and dropped, the engine closed.                   *)
CloseHost(n) ==
  /\ stores' = IF registry[n] = 0 THEN stores ELSE [stores EXCEPT ![registry[n]] = NoMemory]
  /\ registry' = [registry EXCEPT ![n] = 0]
  /\ connector' = [connector EXCEPT ![n] = 0]
  /\ UNCHANGED <<environ, envs>>
=============================================================================
