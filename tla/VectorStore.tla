----------------------------- MODULE VectorStore -----------------------------
(***************************************************************************)
(* The vector store (infrastructure/vector): one client, shared by several *)
(* tasks, on one of five backends (drivers/milvus.py, elasticsearch.py,    *)
(* chroma.py; Milvus and Chroma local or remote), and one collection name. *)
(*                                                                         *)
(* A call is a few requests with awaits between them: "does the collection *)
(* exist", then the request proper, which the backend executes at once and *)
(* whose reply arrives later.  What is abstracted: a metric is a member of *)
(* Metrics; a row is the set of its metadata keys plus "id"; the result of *)
(* a search is the order of its scores.  A local backend runs in a thread, *)
(* one request at a time (CapacityLimiter(1)), which no cancellation can   *)
(* stop; a request to a remote backend that was given up may be executed   *)
(* later or never.  A read is split from its reply unless the reply just   *)
(* ends the call or leads straight to the next request.                    *)
(***************************************************************************)
EXTENDS Naturals, FiniteSets

CONSTANTS VTasks,      \* tasks that use the client
          Metrics,     \* VectorMetric: "cosine", "dot_product", "l2"
          Ids,         \* vector IDs
          Metas,       \* metadata (sets of keys) that callers write
          MaxGen,      \* bound: creations of the collection
          MaxVFaults   \* bound: failed and cancelled requests

(* No metadata has the keys of the driver's own (models.py,                *)
(* _RESERVED_METADATA_KEYS), "none" is no task and no metric.              *)
ASSUME VectorAssumption ==
  /\ "none" \notin VTasks /\ "none" \notin Metrics
  /\ \A m \in Metas : "id" \notin m /\ "_vector_record" \notin m
  /\ MaxGen \in Nat /\ MaxVFaults \in Nat

VARIABLES
  driver,    \* the backend, fixed by the configuration
  metric,    \* metric of the collection, "none" while it does not exist
  gen,       \* the number of creations so far: identifies the collection
  rows,      \* rows[i]: the row stored under i, {} for none
  overtaken, \* history: a creation or deletion has overtaken another call
  late,      \* remote requests that were given up and may still be executed
  session,   \* the client: none, opening, open or closed
  opening,   \* where its creation is, "none" when there is none under way
  givenUp,   \* the task that creates it has been cancelled
  clients,   \* open SDK clients
  unclosed,  \* history: SDK clients whose close() failed after a cancellation
  cache,     \* MilvusVectorClient._metrics for the name, or "none"
  unheard,   \* history: a deletion whose reply was an error or never came
  vlock,     \* ChromaVectorClient._upsert_lock: its holder, or "none"
  call,      \* call[t]: the operation task t is in
  last,      \* the outcome of the operation that has just ended
  vfaults

storeV    == <<metric, gen, rows, overtaken>>
clientV   == <<session, opening, givenUp, clients, unclosed>>
cacheV    == <<cache, unheard>>
vectorVars == <<driver, storeV, late, clientV, cacheV, vlock, call, last, vfaults>>

Milvus  == {"milvusLocal", "milvusRemote"}
Chroma  == {"chromaLocal", "chromaRemote"}
Local   == {"milvusLocal", "chromaLocal"}

NoCall == [op |-> "none", step |-> "idle", metric |-> "none", ids |-> {}, meta |-> {},
           gen |-> 0, old |-> [i \in Ids |-> {}]]
NoRows == [i \in Ids |-> {}]
NoOutcome == [out |-> "none", seen |-> {}, order |-> "desc"]

VectorInit ==
  /\ driver \in Milvus \cup Chroma \cup {"elasticsearch"}
  /\ metric = "none" /\ gen = 0 /\ rows = NoRows /\ overtaken = FALSE
  /\ late = {} /\ session = "none" /\ opening = "none" /\ givenUp = FALSE
  /\ clients = 0 /\ unclosed = 0
  /\ cache = "none" /\ unheard = FALSE /\ vlock = "none"
  /\ call = [t \in VTasks |-> NoCall]
  /\ last = NoOutcome
  /\ vfaults = 0

Exists == metric # "none"

(* A Chroma collection object refers to the collection it was obtained of; *)
(* everything else, and Chroma's delete_collection, goes by the name.      *)
Reaches(r) == Exists /\ (driver \in Chroma /\ r.op # "drop" => r.gen = gen)

VFault == vfaults < MaxVFaults /\ vfaults' = vfaults + 1
VStep(t, op, step) == call[t].op \in op /\ call[t].step = step
Quiet == last' = NoOutcome
VGoto(t, step) == call' = [call EXCEPT ![t].step = step] /\ Quiet /\ UNCHANGED vlock

(* The call of t ends: it returns or raises, and leaves "async with".      *)
EndWith(t, out, seen, order) ==
  /\ call' = [call EXCEPT ![t] = NoCall]
  /\ last' = [out |-> out, seen |-> seen, order |-> order]
  /\ vlock' = IF vlock = t THEN "none" ELSE vlock
End(t, out) == EndWith(t, out, {}, "desc")

-----------------------------------------------------------------------------
(* Creating and closing the client.  The creation of a local client, and   *)
(* of any Milvus client the loading of its SDK, is _run_sync: a thread,    *)
(* shielded from cancellation, whose result the task takes up later.       *)
(*   load, create      the thread is at work                               *)
(*   loaded, created   it has ended, the task has not resumed              *)
(*   failed            it has ended with an exception, likewise            *)
(*   connect           chromadb.AsyncHttpClient talks to the server        *)
(*   close             on_cancel is at work in a thread                    *)

Unrelated == <<driver, storeV, late, cacheV, vlock, call>>

(* The manager calls the factory of the configured driver.  The object of  *)
(* a remote Chroma client exists before its first request.                 *)
OpenClient ==
  /\ session = "none" /\ driver # "elasticsearch"
  /\ session' = "opening"
  /\ opening' = CASE driver \in Milvus -> "load"
                  [] driver = "chromaLocal" -> "create"
                  [] driver = "chromaRemote" -> "connect"
  /\ clients' = IF driver = "chromaRemote" THEN clients + 1 ELSE clients
  /\ givenUp' = FALSE
  /\ Quiet /\ UNCHANGED <<Unrelated, unclosed, vfaults>>

(* AsyncElasticsearch is constructed without an await.                     *)
ElasticOpened ==
  /\ session = "none" /\ driver = "elasticsearch"
  /\ session' = "open" /\ clients' = clients + 1
  /\ Quiet /\ UNCHANGED <<Unrelated, opening, givenUp, unclosed, vfaults>>

(* The thread's function returns ...                                       *)
ThreadReturns ==
  /\ opening \in {"load", "create"}
  /\ opening' = IF opening = "load" THEN "loaded" ELSE "created"
  /\ clients' = IF opening = "load" THEN clients ELSE clients + 1
  /\ Quiet /\ UNCHANGED <<Unrelated, session, givenUp, unclosed, vfaults>>

(* ... or raises.                                                          *)
ThreadRaises ==
  /\ opening \in {"load", "create"} /\ VFault
  /\ opening' = "failed"
  /\ Quiet /\ UNCHANGED <<Unrelated, session, givenUp, clients, unclosed>>

(* task.cancel() on the task that creates the client, perhaps repeatedly.  *)
CancelOpening ==
  /\ opening \in {"load", "loaded", "create", "created", "failed", "close"} /\ VFault
  /\ givenUp' = TRUE
  /\ Quiet /\ UNCHANGED <<Unrelated, session, opening, clients, unclosed>>

(* The task ends with an error: the next get() calls the factory again.    *)
OpeningEnds ==
  /\ session' = "none" /\ opening' = "none" /\ givenUp' = FALSE
  /\ Quiet /\ UNCHANGED <<Unrelated, vfaults>>

(* The SDK client is handed over.                                          *)
HandOver ==
  /\ session' = "open" /\ opening' = "none"
  /\ Quiet /\ UNCHANGED <<Unrelated, givenUp, unclosed, vfaults>>

(* With the SDK loaded, Milvus Lite is opened in a thread, a remote client *)
(* is just constructed.                                                    *)
MilvusLoaded ==
  /\ opening = "loaded" /\ ~givenUp
  /\ \/ driver = "milvusLocal" /\ opening' = "create"
        /\ Quiet /\ UNCHANGED <<Unrelated, session, givenUp, clients, unclosed, vfaults>>
     \/ driver = "milvusRemote" /\ HandOver /\ clients' = clients + 1

(* The task resumes with the client that the thread has created.           *)
LocalOpened ==
  /\ opening = "created" /\ ~givenUp
  /\ HandOver /\ UNCHANGED clients

(* The thread has failed, or was only loading when its task was cancelled. *)
OpeningFails ==
  /\ opening = "failed" \/ (opening = "loaded" /\ givenUp)
  /\ OpeningEnds /\ UNCHANGED <<clients, unclosed>>

(* Mutant: _run_sync without on_cancel.                                    *)
AbandonClient ==
  /\ opening = "created" /\ givenUp
  /\ OpeningEnds /\ UNCHANGED <<clients, unclosed>>

(* _run_sync after _finish_worker: a client that nobody will get is given  *)
(* to on_cancel, in a thread of its own.                                   *)
CleanUp ==
  /\ opening = "created" /\ givenUp
  /\ opening' = "close"
  /\ Quiet /\ UNCHANGED <<Unrelated, session, givenUp, clients, unclosed, vfaults>>

(* on_cancel returns, and the cancellation goes on; so it does, without a  *)
(* word, when close() fails.                                               *)
CleanedUp ==
  /\ opening = "close"
  /\ clients' = clients - 1
  /\ OpeningEnds /\ UNCHANGED unclosed

CleanUpFails ==
  /\ opening = "close"
  /\ unclosed' = unclosed + 1
  /\ OpeningEnds /\ UNCHANGED clients

(* AsyncHttpClient has reached the server.                                 *)
ChromaConnected ==
  /\ opening = "connect"
  /\ HandOver /\ UNCHANGED clients

(* It fails, is timed out or cancelled, and nobody closes its connections; *)
(* or the constructor of a remote Milvus client raises.                    *)
ClientRefused ==
  /\ opening = "connect" \/ (opening = "loaded" /\ ~givenUp /\ driver = "milvusRemote")
  /\ VFault
  /\ session' = "none" /\ opening' = "none"
  /\ Quiet /\ UNCHANGED <<Unrelated, givenUp, clients, unclosed>>

(* VectorResource.aclose, with what the driver closes.                     *)
CloseClient(closes) ==
  /\ session = "open"
  /\ session' = "closed" /\ clients' = clients - closes
  /\ Quiet /\ UNCHANGED <<Unrelated, opening, givenUp, unclosed, vfaults>>

MilvusClose  == driver \in Milvus /\ CloseClient(1)
ElasticClose == driver = "elasticsearch" /\ CloseClient(1)

(* The remote asynchronous SDK has nothing to close.                       *)
ChromaClose  == driver \in Chroma /\ CloseClient(IF driver = "chromaRemote" THEN 0 ELSE 1)

ClientStep ==
  \/ OpenClient \/ ElasticOpened \/ ThreadReturns \/ ThreadRaises \/ CancelOpening
  \/ MilvusLoaded \/ LocalOpened \/ OpeningFails \/ CleanUp \/ CleanedUp \/ CleanUpFails
  \/ ChromaConnected \/ ClientRefused
  \/ MilvusClose \/ ElasticClose \/ ChromaClose

-----------------------------------------------------------------------------
(* The first steps of a call, before its first request.                    *)

(* Arguments that models.py refuses, or an empty batch: no request.        *)
ReturnAtOnce(t, op, out) ==
  /\ session = "open" /\ call[t] = NoCall
  /\ \/ out = "configuration"
     \/ out = "ok" /\ op \in {"upsert", "get", "remove"}
  /\ last' = [out |-> out, seen |-> {}, order |-> "desc"]
  /\ UNCHANGED <<driver, storeV, late, clientV, cacheV, vlock, call, vfaults>>

(* MilvusVectorClient.search takes the metric from its cache, or has to    *)
(* describe the collection first; ChromaVectorClient.upsert locks.         *)
FirstRequest(op) ==
  CASE op = "search" /\ driver \in Milvus /\ cache # "none" -> "act"
    [] op = "upsert" /\ driver \in Chroma -> "lock"
    [] OTHER -> "check"

Creations == gen + Cardinality({t \in VTasks : call[t].op = "create"})
                 + Cardinality({r \in late : r.op = "create"})

CallVector(t, op, m, ids, meta) ==
  /\ session = "open" /\ call[t] = NoCall
  /\ op = "create" => Creations < MaxGen
  /\ call' = [call EXCEPT ![t] = [NoCall EXCEPT
                !.op = op, !.ids = ids, !.meta = meta, !.step = FirstRequest(op),
                !.metric = IF op = "search" THEN cache ELSE m]]
  /\ Quiet /\ UNCHANGED <<driver, storeV, late, clientV, cacheV, vlock, vfaults>>

-----------------------------------------------------------------------------
(* What the backend does with a request.                                   *)

(* Elasticsearch creates an index that an upsert does not find (bounded    *)
(* here as the creations by callers are).                                  *)
AutoCreates(r) == driver = "elasticsearch" /\ r.op = "upsert" /\ ~Exists /\ Creations < MaxGen

Executable(r) == IF r.op = "create" THEN ~Exists ELSE Reaches(r) \/ AutoCreates(r)

(* A call of Milvus that has read the metric, or whose own creation or     *)
(* deletion has been executed, and has not yet come to the end of what     *)
(* depends on it.                                                          *)
Midway(t) ==
  /\ driver \in Milvus
  /\ \/ call[t].op \in {"create", "drop"} /\ call[t].step = "reply"
     \/ call[t].op = "describe" /\ call[t].step = "described"
     \/ call[t].op = "search" /\ call[t].step \in {"described", "act"}

(* Milvus and Elasticsearch replace a row; the Chroma SDK merges metadata  *)
(* field by field, a field set to None is removed.                         *)
RowAfter(r, i) ==
  IF driver \in Chroma THEN (rows[i] \ (r.old[i] \ r.meta)) \cup r.meta \cup {"id", "_vector_record"}
                       ELSE r.meta \cup {"id"}

Execute(r) ==
  /\ metric' = CASE r.op = "create" -> r.metric [] r.op = "drop" -> "none"
                 [] AutoCreates(r) -> "dynamic" [] OTHER -> metric
  /\ gen' = IF r.op = "create" \/ AutoCreates(r) THEN gen + 1 ELSE gen
  /\ rows' = [i \in Ids |->
                CASE r.op \in {"create", "drop"} -> {}
                  [] r.op = "upsert" /\ i \in r.ids -> RowAfter(r, i)
                  [] r.op = "remove" /\ i \in r.ids -> {}
                  [] OTHER -> rows[i]]
  /\ overtaken' = (overtaken \/ (r.op \in {"create", "drop"} /\ \E u \in VTasks : Midway(u)))

MayExecute(r) == IF Executable(r) THEN Execute(r) ELSE UNCHANGED storeV

(* What a read returns: rows, or hits best first.  The raw values of the   *)
(* hits are similarities, which fall, or distances.                        *)
RowsOf(r) == {rows[i] : i \in {j \in r.ids : rows[j] # {}}}
HitOrder == IF driver \in Chroma \/ (driver \in Milvus /\ metric = "l2") THEN "asc" ELSE "desc"
Negated(order) == IF order = "asc" THEN "desc" ELSE "asc"

(* The request is executed; its reply is on the way.                       *)
Accepted(t) == /\ Execute(call[t])
               /\ VGoto(t, "reply")
               /\ UNCHANGED <<driver, late, clientV, cacheV, vfaults>>

-----------------------------------------------------------------------------
(* Milvus.                                                                 *)

(* has_collection, by itself or in _require_collection.                    *)
MilvusCheck(t) ==
  /\ driver \in Milvus /\ VStep(t, {"create", "drop", "describe", "upsert", "get", "remove", "search"}, "check")
  /\ IF Exists = (call[t].op = "create")
     THEN End(t, IF Exists THEN "conflict" ELSE "notfound")
     ELSE VGoto(t, IF call[t].op \in {"search", "describe"} THEN "describe" ELSE "act")
  /\ UNCHANGED <<driver, storeV, late, clientV, cacheV, vfaults>>

(* describe_collection and describe_index are executed.                    *)
MilvusDescribe(t) ==
  /\ driver \in Milvus /\ VStep(t, {"describe", "search"}, "describe")
  /\ IF Exists
     THEN /\ call' = [call EXCEPT ![t].step = "described", ![t].metric = metric]
          /\ Quiet /\ UNCHANGED vlock
     ELSE End(t, "operation")
  /\ UNCHANGED <<driver, storeV, late, clientV, cacheV, vfaults>>

(* Their reply fills the cache; search goes on with the metric.            *)
MilvusDescribed(t) ==
  /\ driver \in Milvus /\ VStep(t, {"describe", "search"}, "described")
  /\ cache' = call[t].metric
  /\ IF call[t].op = "search" THEN VGoto(t, "act") ELSE End(t, "ok")
  /\ UNCHANGED <<driver, storeV, late, clientV, unheard, vfaults>>

(* The except clause of create_collection and delete_collection: an        *)
(* operation error is explained by looking again.  (The generation that    *)
(* was in the way is noted for the properties only.)                       *)
LookAgain(t) ==
  /\ call' = [call EXCEPT ![t].step = "recheck", ![t].gen = gen]
  /\ Quiet /\ UNCHANGED vlock

MilvusCreateOrDrop(t) ==
  /\ driver \in Milvus /\ VStep(t, {"create", "drop"}, "act")
  /\ IF Executable(call[t]) THEN Accepted(t)
     ELSE LookAgain(t) /\ UNCHANGED <<driver, storeV, late, clientV, cacheV, vfaults>>

(* Mutant: the error is passed on as it is.                                *)
MilvusNoRecheck(t) ==
  /\ driver \in Milvus /\ VStep(t, {"create", "drop"}, "recheck")
  /\ End(t, "operation")
  /\ UNCHANGED <<driver, storeV, late, clientV, cacheV, vfaults>>

(* has_collection is executed ...                                          *)
MilvusRecheck(t) ==
  /\ driver \in Milvus /\ VStep(t, {"create", "drop"}, "recheck")
  /\ VGoto(t, IF Exists THEN "there" ELSE "gone")
  /\ UNCHANGED <<driver, storeV, late, clientV, cacheV, vfaults>>

(* ... and its reply decides which error it is.                            *)
MilvusRecheckReply(t) ==
  /\ driver \in Milvus /\ call[t].step \in {"there", "gone"}
  /\ End(t, CASE call[t].op = "create" /\ call[t].step = "there" -> "conflict"
              [] call[t].op = "drop" /\ call[t].step = "gone" -> "notfound"
              [] OTHER -> "operation")
  /\ cache' = IF call[t].op = "drop" /\ call[t].step = "gone" THEN "none" ELSE cache
  /\ UNCHANGED <<driver, storeV, late, clientV, unheard, vfaults>>

MilvusWrite(t) ==
  /\ driver \in Milvus /\ VStep(t, {"upsert", "remove"}, "act")
  /\ IF Executable(call[t]) THEN Accepted(t)
     ELSE End(t, "operation") /\ UNCHANGED <<driver, storeV, late, clientV, cacheV, vfaults>>

(* Mutant: delete_collection leaves the cache alone.                       *)
MilvusReplyKeeps(t) ==
  /\ driver \in Milvus /\ VStep(t, {"create", "drop", "upsert", "remove"}, "reply")
  /\ cache' = IF call[t].op = "create" THEN call[t].metric ELSE cache
  /\ End(t, "ok")
  /\ UNCHANGED <<driver, storeV, late, clientV, unheard, vfaults>>

(* The reply; only now is the cache brought up to date.                    *)
MilvusReply(t) ==
  /\ driver \in Milvus /\ VStep(t, {"create", "drop", "upsert", "remove"}, "reply")
  /\ cache' = CASE call[t].op = "create" -> call[t].metric [] call[t].op = "drop" -> "none"
                [] OTHER -> cache
  /\ End(t, "ok")
  /\ UNCHANGED <<driver, storeV, late, clientV, unheard, vfaults>>

(* _milvus_point: everything but the ID and the vector is metadata.        *)
MilvusPoint(row) == row \ {"id"}

MilvusGet(t) ==
  /\ driver \in Milvus /\ VStep(t, {"get"}, "act")
  /\ IF Reaches(call[t]) THEN EndWith(t, "ok", {MilvusPoint(row) : row \in RowsOf(call[t])}, "desc") ELSE End(t, "operation")
  /\ UNCHANGED <<driver, storeV, late, clientV, cacheV, vfaults>>

(* _milvus_match: an L2 distance is negated.                               *)
MilvusMatch(m, order) == IF m = "l2" THEN Negated(order) ELSE order

(* search, with the metric it read before the request.                     *)
MilvusSearch(t) ==
  /\ driver \in Milvus /\ VStep(t, {"search"}, "act")
  /\ IF Reaches(call[t]) THEN EndWith(t, "ok", {}, MilvusMatch(call[t].metric, HitOrder))
                         ELSE End(t, "operation")
  /\ UNCHANGED <<driver, storeV, late, clientV, cacheV, vfaults>>

-----------------------------------------------------------------------------
(* Elasticsearch.  When the index has gone between the check and the       *)
(* request, _call turns 404 into "not found"; failed items of a bulk or    *)
(* multi-get are an operation error.  When it has been created in between, *)
(* Elasticsearch answers 400 (resource_already_exists), not 409, so that   *)
(* the loser of a race to create it gets an operation error, no conflict.  *)

ElasticCheck(t) ==
  /\ driver = "elasticsearch" /\ VStep(t, {"create", "drop", "describe", "upsert", "get", "remove", "search"}, "check")
  /\ IF Exists = (call[t].op = "create")
     THEN End(t, IF Exists THEN "conflict" ELSE "notfound") ELSE VGoto(t, "act")
  /\ UNCHANGED <<driver, storeV, late, clientV, cacheV, vfaults>>

ElasticCreateOrDrop(t) ==
  /\ driver = "elasticsearch" /\ VStep(t, {"create", "drop"}, "act")
  /\ IF Executable(call[t]) THEN Accepted(t)
     ELSE /\ End(t, IF call[t].op = "create" THEN "operation" ELSE "notfound")
          /\ UNCHANGED <<driver, storeV, late, clientV, cacheV, vfaults>>

(* upsert and delete with the bulk API.  On an index that has gone an      *)
(* upsert creates it, or is refused where the cluster's settings do not    *)
(* allow that; the 404 of a deletion is ignored.                           *)
ElasticBulk(t) ==
  /\ driver = "elasticsearch" /\ VStep(t, {"upsert", "remove"}, "act")
  /\ \/ Executable(call[t]) /\ Accepted(t)
     \/ /\ ~Exists
        /\ End(t, IF call[t].op = "remove" THEN "ok" ELSE "operation")
        /\ UNCHANGED <<driver, storeV, late, clientV, cacheV, vfaults>>

(* Some items of a bulk fail, the others are done.                         *)
ElasticBulkPartly(t, done) ==
  /\ driver = "elasticsearch" /\ VStep(t, {"upsert", "remove"}, "act")
  /\ done \in SUBSET call[t].ids /\ done # call[t].ids
  /\ MayExecute([call[t] EXCEPT !.ids = done])
  /\ End(t, "operation") /\ VFault
  /\ UNCHANGED <<driver, late, clientV, cacheV>>

ElasticReply(t) ==
  /\ driver = "elasticsearch" /\ VStep(t, {"create", "drop", "upsert", "remove"}, "reply")
  /\ End(t, "ok")
  /\ UNCHANGED <<driver, storeV, late, clientV, cacheV, vfaults>>

(* _elasticsearch_point.                                                   *)
ElasticPoint(row) == row \ {"id"}

ElasticGet(t) ==
  /\ driver = "elasticsearch" /\ VStep(t, {"get"}, "act")
  /\ IF Reaches(call[t]) THEN EndWith(t, "ok", {ElasticPoint(row) : row \in RowsOf(call[t])}, "desc") ELSE End(t, "operation")
  /\ UNCHANGED <<driver, storeV, late, clientV, cacheV, vfaults>>

(* _elasticsearch_matches: the _score of a hit as it is.                   *)
ElasticMatches(order) == order

(* An index that was created by an upsert may lack the vector mapping.     *)
Usable(out) == out = "ok" \/ (out = "operation" /\ metric = "dynamic")

ElasticSearch(t) ==
  /\ driver = "elasticsearch" /\ VStep(t, {"search"}, "act")
  /\ IF Exists THEN \E out \in {"ok", "operation"} :
                      Usable(out) /\ EndWith(t, out, {}, ElasticMatches(HitOrder))
     ELSE End(t, "notfound")
  /\ UNCHANGED <<driver, storeV, late, clientV, cacheV, vfaults>>

(* describe_collection: the mapping is read and parsed.                    *)
ElasticDescribe(t) ==
  /\ driver = "elasticsearch" /\ VStep(t, {"describe"}, "act")
  /\ IF Exists THEN \E out \in {"ok", "operation"} : Usable(out) /\ End(t, out)
     ELSE End(t, "notfound")
  /\ UNCHANGED <<driver, storeV, late, clientV, cacheV, vfaults>>

-----------------------------------------------------------------------------
(* Chroma.                                                                 *)

(* _upsert_lock: held from here to the end of the call.                    *)
ChromaLock(t) ==
  /\ driver \in Chroma /\ VStep(t, {"upsert"}, "lock") /\ vlock = "none"
  /\ vlock' = t
  /\ call' = [call EXCEPT ![t].step = "check"]
  /\ Quiet /\ UNCHANGED <<driver, storeV, late, clientV, cacheV, vfaults>>

(* get_collection: the object that later requests go through.  describe    *)
(* needs no more than its metadata.                                        *)
ChromaCheck(t) ==
  /\ driver \in Chroma /\ VStep(t, {"create", "drop", "describe", "upsert", "get", "remove", "search"}, "check")
  /\ CASE Exists = (call[t].op = "create") -> End(t, IF Exists THEN "conflict" ELSE "notfound")
       [] call[t].op = "describe" /\ Exists -> End(t, "ok")
       [] OTHER -> /\ call' = [call EXCEPT ![t].step = IF call[t].op = "upsert" THEN "read" ELSE "act",
                                           ![t].gen = gen]
                   /\ Quiet /\ UNCHANGED vlock
  /\ UNCHANGED <<driver, storeV, late, clientV, cacheV, vfaults>>

(* _clean_chroma_metadata: the driver's own markers are not metadata.      *)
CleanRow(row) == row \ {"id", "_vector_record"}
ChromaPoints(found) == {CleanRow(row) : row \in found}

(* _replacement_metadatas: the fields there are, to be removed when they   *)
(* are not written again.                                                  *)
OldFields(r) == [i \in Ids |-> IF i \in r.ids THEN CleanRow(rows[i]) ELSE {}]

(* upsert reads the fields there are, to remove those that are not written.*)
ChromaReadOld(t) ==
  /\ driver \in Chroma /\ VStep(t, {"upsert"}, "read")
  /\ IF Reaches(call[t])
     THEN /\ call' = [call EXCEPT ![t].step = "act", ![t].old = OldFields(call[t])]
          /\ Quiet /\ UNCHANGED vlock
     ELSE End(t, "notfound")
  /\ UNCHANGED <<driver, storeV, late, clientV, cacheV, vfaults>>

ChromaCreateOrDrop(t) ==
  /\ driver \in Chroma /\ VStep(t, {"create", "drop"}, "act")
  /\ IF Executable(call[t]) THEN Accepted(t)
     ELSE /\ End(t, IF call[t].op = "create" THEN "conflict" ELSE "notfound")
          /\ UNCHANGED <<driver, storeV, late, clientV, cacheV, vfaults>>

ChromaWrite(t) ==
  /\ driver \in Chroma /\ VStep(t, {"upsert", "remove"}, "act")
  /\ IF Executable(call[t]) THEN Accepted(t)
     ELSE End(t, "notfound") /\ UNCHANGED <<driver, storeV, late, clientV, cacheV, vfaults>>

ChromaReply(t) ==
  /\ driver \in Chroma /\ VStep(t, {"create", "drop", "upsert", "remove"}, "reply")
  /\ End(t, "ok")
  /\ UNCHANGED <<driver, storeV, late, clientV, cacheV, vfaults>>

ChromaGet(t) ==
  /\ driver \in Chroma /\ VStep(t, {"get"}, "act")
  /\ IF Reaches(call[t]) THEN EndWith(t, "ok", ChromaPoints(RowsOf(call[t])), "desc") ELSE End(t, "notfound")
  /\ UNCHANGED <<driver, storeV, late, clientV, cacheV, vfaults>>

(* _chroma_matches: all of Chroma's values are distances, and negated.     *)
ChromaMatches(order) == Negated(order)

ChromaSearch(t) ==
  /\ driver \in Chroma /\ VStep(t, {"search"}, "act")
  /\ IF Reaches(call[t]) THEN EndWith(t, "ok", {}, ChromaMatches(HitOrder)) ELSE End(t, "notfound")
  /\ UNCHANGED <<driver, storeV, late, clientV, cacheV, vfaults>>

-----------------------------------------------------------------------------
(* Requests that fail or are given up.                                     *)

Waiting(t) == call[t].step \notin {"idle", "lock"}
Writing(t) == call[t].step = "act" /\ call[t].op \in {"create", "drop", "upsert", "remove"}

(* What becomes of t's request when a remote backend fails to answer it:   *)
(* it is executed, is not, or is still on its way.                         *)
LeftBehind(t) ==
  \/ Writing(t) /\ MayExecute(call[t]) /\ UNCHANGED late
  \/ UNCHANGED <<storeV, late>>
  \/ Writing(t) /\ late' = late \cup {call[t]} /\ UNCHANGED storeV

(* The reply of a deletion in Milvus is never seen, or is an error.        *)
DropUnheard(t) == driver \in Milvus /\ call[t].op = "drop" /\ call[t].step \in {"act", "reply"}

(* A request fails; Milvus looks again after an operation error.           *)
RequestFails(t, out) ==
  /\ Waiting(t) /\ VFault
  /\ IF driver \in Local THEN UNCHANGED <<storeV, late>> ELSE LeftBehind(t)
  /\ IF driver \in Milvus /\ out = "operation" /\ call[t].op \in {"create", "drop"}
        /\ call[t].step \in {"act", "reply"}
     THEN LookAgain(t) ELSE End(t, out)
  /\ unheard' = (unheard \/ DropUnheard(t))
  /\ UNCHANGED <<driver, clientV, cache>>

(* The errors a request can end with, apart from the ones about the        *)
(* existence of the collection; Milvus passes on what it does not know.    *)
MilvusErrors == {"connection", "operation", "other"}
MilvusFails(t)  == driver \in Milvus /\ \E out \in MilvusErrors : RequestFails(t, out)
ElasticFails(t) == driver = "elasticsearch" /\ \E out \in {"connection", "operation"} : RequestFails(t, out)
ChromaFails(t)  == driver \in Chroma /\ \E out \in {"connection", "operation"} : RequestFails(t, out)

(* The task is cancelled.  _run_sync waits for the thread and its request  *)
(* before it lets the cancellation go on, and with it the lock.            *)
CancelCall(t) ==
  /\ call[t] # NoCall /\ VFault
  /\ IF driver \in Local
     THEN (IF Writing(t) THEN MayExecute(call[t]) ELSE UNCHANGED storeV) /\ UNCHANGED late
     ELSE LeftBehind(t)
  /\ End(t, "cancelled")
  /\ unheard' = (unheard \/ DropUnheard(t))
  /\ UNCHANGED <<driver, clientV, cache>>

ExecuteLate(r) ==
  /\ r \in late /\ late' = late \ {r}
  /\ MayExecute(r)
  /\ Quiet /\ UNCHANGED <<driver, clientV, cacheV, vlock, call, vfaults>>

-----------------------------------------------------------------------------
VectorCalls(t) ==
  \/ \E m \in Metrics : CallVector(t, "create", m, {}, {})
  \/ \E op \in {"drop", "describe", "search"} : CallVector(t, op, "none", {}, {})
  \/ \E op \in {"get", "remove"}, ids \in SUBSET Ids \ {{}} : CallVector(t, op, "none", ids, {})
  \/ \E ids \in SUBSET Ids \ {{}}, meta \in Metas : CallVector(t, "upsert", "none", ids, meta)
  \/ \E op \in {"create", "upsert", "get", "remove", "search"}, out \in {"ok", "configuration"} :
       ReturnAtOnce(t, op, out)

VectorTask(t) ==
  \/ VectorCalls(t)
  \/ MilvusCheck(t) \/ MilvusDescribe(t) \/ MilvusDescribed(t)
  \/ MilvusCreateOrDrop(t) \/ MilvusRecheck(t) \/ MilvusRecheckReply(t)
  \/ MilvusWrite(t) \/ MilvusReply(t) \/ MilvusGet(t) \/ MilvusSearch(t)
  \/ ElasticCheck(t) \/ ElasticCreateOrDrop(t) \/ ElasticBulk(t) \/ ElasticReply(t)
  \/ ElasticGet(t) \/ ElasticSearch(t) \/ ElasticDescribe(t)
  \/ \E done \in SUBSET Ids : ElasticBulkPartly(t, done)
  \/ ChromaLock(t) \/ ChromaCheck(t) \/ ChromaReadOld(t) \/ ChromaCreateOrDrop(t)
  \/ ChromaWrite(t) \/ ChromaReply(t) \/ ChromaGet(t) \/ ChromaSearch(t)
  \/ CancelCall(t) \/ MilvusFails(t) \/ ElasticFails(t) \/ ChromaFails(t)

VectorNext ==
  \/ ClientStep
  \/ \E t \in VTasks : VectorTask(t)
  \/ \E r \in late : ExecuteLate(r)

VectorSpec == VectorInit /\ [][VectorNext]_vectorVars

-----------------------------------------------------------------------------
(* Properties.                                                             *)

(* What a read returns is what the contract says (contracts/client.py):    *)
(* the metadata of a row is what one upsert wrote, never a mixture of two, *)
(* although Chroma merges; the scores of a search fall, whatever the       *)
(* backend's own values do, and in particular Milvus's cache never gives a *)
(* search the metric of a former collection of the name.  Beyond the code, *)
(* which promises nothing from then on, are: a remote Chroma request that  *)
(* was given up and is executed later; and in Milvus a creation or         *)
(* deletion that overtakes a call which has already seen the metric or     *)
(* which waits for the reply of its own creation or deletion, or a         *)
(* deletion whose reply is an error or never comes.                        *)
ReadsFaithful ==
  last.out = "ok" =>
    /\ driver # "chromaRemote" \/ vfaults = 0 => last.seen \subseteq Metas
    /\ driver \notin Milvus \/ ~(overtaken \/ unheard) => last.order = "desc"

(* Who loses a race to create or delete the collection is told so: without *)
(* faults of the backend, create_collection ends with an operation error   *)
(* only if the collection that was in its way has been deleted meanwhile,  *)
(* delete_collection only if the collection has been created again         *)
(* (docs/vector.md, the stable errors).  Elasticsearch's create_collection *)
(* is excepted: _call does not recognise the answer.                       *)
LosersToldSo ==
  [][\A t \in VTasks :
       vfaults' = 0 /\ call[t].op \in {"create", "drop"} /\ call'[t] = NoCall /\ last'.out = "operation"
         => \/ driver = "elasticsearch" /\ call[t].op = "create"
            \/ call[t].op = "create" /\ ~(Exists /\ gen = call[t].gen)
            \/ call[t].op = "drop" /\ gen # call[t].gen]_vectorVars

(* No SDK client is left open behind a client that nobody got or that was  *)
(* closed, and no thread is still creating one, however the creation was   *)
(* cancelled or failed; a client whose close() raises in on_cancel is all  *)
(* that may remain.  Remote Chroma, which closes nothing, is excepted.     *)
NoStrayClient ==
  driver # "chromaRemote" /\ session \in {"none", "closed"} =>
    clients = unclosed /\ opening = "none"
=============================================================================
