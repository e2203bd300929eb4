------------------------------- MODULE MCData -------------------------------
(* A small instance for TLC of components that share no state: the vector  *)
(* stores, the life of a queued job and the cache.  Each behaviour is one  *)
(* of the component in "focus".                                            *)
EXTENDS VectorStore, Jobs, Cache, TLC

CONSTANTS x1, x2, i1, m1, m2
VARIABLE focus

data == <<vectorVars, jobVars, cacheVars, focus>>

Metadata == {{"a"}, {"b"}}

(* A job is renamed and given a new version; then a release claims an old  *)
(* reference twice, which JobResolver refuses.                             *)
Class(reference, legacy, version, decoders) ==
  [reference |-> reference, legacy |-> legacy, version |-> version, decoders |-> decoders]
ThreeReleases ==
  <<{Class("a", {}, 1, {})},
    {Class("b", {"a"}, 2, {1})},
    {Class("b", {"a"}, 2, {1}), Class("c", {"a"}, 2, {1})}>>

(* One connection of either driver, with and without a default lifetime;   *)
(* a key of the greatest length and one that is a byte too long; settings  *)
(* that are refused at start.                                              *)
Text(bytes) == [bytes |-> bytes, clean |-> TRUE]
Settings(default, namespace, name, driverName, prefix, ttl) ==
  [default |-> default, namespace |-> Text(namespace), ttl |-> ttl,
   connections |-> [c \in {name} |-> [driver |-> driverName, prefix |-> Text(prefix)]]]
SomeConfigs ==
  {Settings("main", 1, "main", "redis", 1, 1),
   Settings("none", 1, "other", "memcached", 1, NoTtl),
   Settings("main", 1, "other", "memcached", 1, 1),
   Settings("main", 0, "main", "redis", 1, 1)}
SomeKeys == {Text(2), Text(3)}

DataInit ==
  /\ focus \in {"vectors", "jobs", "cache"}
  /\ VectorInit /\ JobInit /\ CacheInit
  /\ focus # "vectors" => driver = "elasticsearch"
  /\ focus # "cache" => DOMAIN cacheConfig.connections = {"main"}

DataNext ==
  \/ focus = "vectors" /\ VectorNext /\ UNCHANGED <<jobVars, cacheVars, focus>>
  \/ focus = "jobs" /\ JobNext /\ UNCHANGED <<vectorVars, cacheVars, focus>>
  \/ focus = "cache" /\ CacheNext /\ UNCHANGED <<vectorVars, jobVars, focus>>

DataSpec == DataInit /\ [][DataNext]_data

(* The tasks that use a vector store are interchangeable.                  *)
Interchangeable == Permutations(VTasks)
=============================================================================
