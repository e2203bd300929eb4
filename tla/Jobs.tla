-------------------------------- MODULE Jobs --------------------------------
(***************************************************************************)
(* A job from its dispatch to its settlement, whatever the queue driver:   *)
(*   - infrastructure/queue/job.py, codecs/, dispatcher.py, manager.py     *)
(*     (replay): the message contract and its publication;                 *)
(*   - interfaces/worker/discovery.py, resolver.py: the catalogue of a     *)
(*     deployed release and the binding of a message to a decoder;         *)
(*   - interfaces/worker/executor.py: the attempt loop, the failure record *)
(*     and the acknowledgement;                                            *)
(*   - interfaces/console/system/queue.py: queue retry and queue forget.   *)
(*                                                                         *)
(* The queue is at-least-once: a message stays in it until it is           *)
(* acknowledged, and a delivery after the first is flagged as possibly     *)
(* redelivered (the first one may be flagged too).  The modules            *)
(* RedisWorker, KafkaWorker and RabbitWorker show what the drivers do to   *)
(* deserve that.  One lane of one worker process is modelled.              *)
(***************************************************************************)
EXTENDS Naturals, Sequences, SequencesExt, FiniteSets

CONSTANTS Releases,      \* Releases[d]: the QueueJob classes of release d
          MaxAttempts,   \* JobPolicy.max_attempts of every class
          MaxEnvelope,   \* EnvelopeJsonCodec.max_bytes, in units of replay_of
          MaxJobs,       \* bound: messages ever published
          MaxStarts      \* bound: worker processes started

(* A class: [reference, legacy, version, decoders].  max_attempts is at    *)
(* least 1 (JobPolicy.__post_init__).  Release d+1 still declares what     *)
(* release d published, which is what legacy_references and                *)
(* legacy_decoders are for.                                                *)
References(class) == {class.reference} \cup class.legacy
Versions(class)   == {class.version} \cup class.decoders

ASSUME JobBoundsAssumption ==
  MaxAttempts \in Nat \ {0} /\ MaxEnvelope \in Nat /\ MaxJobs \in Nat /\ MaxStarts \in Nat
ASSUME ReleasesAssumption ==
  /\ Len(Releases) \in Nat \ {0} /\ DOMAIN Releases = 1..Len(Releases)
  /\ \A d \in DOMAIN Releases : \A e \in 1..d : \A c \in Releases[e] :
       \E k \in Releases[d] : /\ References(c) \subseteq References(k)
                              /\ Versions(c) \subseteq Versions(k)

VARIABLES
  sent,       \* every message that reached the queue, in order
  queued,     \* indices of sent not acknowledged yet
  handed,     \* indices of sent delivered at least once
  producer,   \* the release of the dispatching process
  release,    \* the release of the worker process (1 while there is none)
  wpc,        \* where the worker is, see WorkerPcs
  current,    \* the delivery it works on, 0 for none
  flagged,    \* delivery.possibly_redelivered
  attempt,    \* attempt of run_attempts
  result,     \* ExecutionResult.failure_reason, "ok" for None
  records,    \* rows of the failed-job table
  starts,     \* worker processes started so far
  outcomes,   \* history: how each attempt of this delivery ended
  finished    \* history: messages that completed or whose failure was saved

queueVars  == <<sent, queued, handed, producer>>
workVars   == <<release, wpc, current, flagged, attempt, result, starts, outcomes>>
jobVars    == <<queueVars, workVars, records, finished>>

WorkerPcs == {"off", "idle", "find", "resolve", "run", "sleep", "save", "duplicate", "ack"}
\* an execute() call, as ended by the handler or by asyncio.timeout around it
AttemptOutcomes == {"ok", "retryable", "timeout", "suppressed", "ownTimeout",
                    "badPayload", "definition", "error"}

-----------------------------------------------------------------------------
(* Messages.                                                               *)

(* EncodedJob and MessageEnvelope: identity, class reference and version,  *)
(* the origin of a replay (0 for none), the size of the JSON envelope.     *)
(* "by" is history: the release of the dispatching process.                *)
Envelope(identity, class, size, by) ==
  [identity |-> identity, reference |-> class.reference, version |-> class.version,
   replayOf |-> 0, size |-> size, broken |-> FALSE, by |-> by]

(* Bytes that EnvelopeJsonCodec.decode rejects, from another producer.     *)
(* Their identity is a hash of the bytes: two such messages share it.      *)
Garbage == [identity |-> 0, reference |-> "", version |-> 0,
            replayOf |-> 0, size |-> 0, broken |-> TRUE, by |-> 0]

(* EnvelopeJsonCodec._check_size, as encode applies it.                    *)
Encodes(message) == message.size <= MaxEnvelope

\* Mutant: the replay keeps the job_id of the failed message.
ReplayedSame(message, failure, identity) ==
  [message EXCEPT !.replayOf = failure, !.size = IF message.replayOf = 0 THEN @ + 1 ELSE @]

(* dataclasses.replace in QueueManager.replay: a new job_id, replay_of set *)
(* to the failure.  A first replay is longer: null becomes a UUID.         *)
Replayed(message, failure, identity) ==
  [message EXCEPT !.identity = identity, !.replayOf = failure,
                  !.size = IF message.replayOf = 0 THEN @ + 1 ELSE @]

NewIdentity == Len(sent) + 1     \* uuid4: no two calls return the same

(* Dispatcher.publish_envelope.  Encoding may refuse the message; a publish *)
(* that is not confirmed may have reached the queue or not.  Whatever the  *)
(* caller is told, only what reached the queue changes the state.          *)
Publish(message) ==
  /\ Len(sent) < MaxJobs
  /\ Encodes(message)
  /\ sent' = Append(sent, message)
  /\ queued' = queued \cup {Len(sent) + 1}
  /\ UNCHANGED <<handed, producer>>

(* Dispatcher.dispatch of a QueueJob of the producer's release.            *)
Dispatch ==
  /\ \E class \in Releases[producer], size \in 1..(MaxEnvelope + 1) :
       Publish(Envelope(NewIdentity, class, size, producer))
  /\ UNCHANGED <<workVars, records, finished>>

ForeignPublish ==
  /\ Publish(Garbage)
  /\ UNCHANGED <<workVars, records, finished>>

DeployProducer ==
  /\ producer' \in DOMAIN Releases
  /\ producer' > producer
  /\ UNCHANGED <<sent, queued, handed, workVars, records, finished>>

-----------------------------------------------------------------------------
(* The catalogue.                                                          *)

(* describe_job on one class.                                              *)
Described(class) ==
  /\ class.version >= 1
  /\ class.reference \notin class.legacy
  /\ \A v \in class.decoders : v \in 1..(class.version - 1)

(* JobResolver.__post_init__: every class is sound and no reference is     *)
(* claimed by two of them.                                                 *)
CatalogueValid(classes) ==
  /\ \A c \in classes : Described(c)
  /\ \A c, k \in classes : c # k => References(c) \cap References(k) = {}

\* Mutant: a legacy reference is bound to the current version only.
BindingsCurrent(classes) ==
  UNION {(References(c) \X {c.version}) \cup ({c.reference} \X Versions(c)) : c \in classes}

(* The keys of JobResolver._bindings.                                      *)
Bindings(classes) == UNION {References(c) \X Versions(c) : c \in classes}

(* JobResolver.resolve: "ok" or the reason of the failure.                 *)
Resolve(message) ==
  IF message.reference \notin UNION {References(c) : c \in Releases[release]}
  THEN "unknown_job"
  ELSE IF <<message.reference, message.version>> \in Bindings(Releases[release])
       THEN "ok" ELSE "unsupported_job_version"

(* A worker process of some release starts: discovery, then JobResolver.   *)
(* A catalogue with a conflict stops it before it consumes anything.       *)
WorkerStart ==
  /\ wpc = "off" /\ starts < MaxStarts
  /\ \E d \in DOMAIN Releases :
       IF CatalogueValid(Releases[d])
       THEN wpc' = "idle" /\ release' = d
       ELSE UNCHANGED <<wpc, release>>
  /\ starts' = starts + 1
  /\ UNCHANGED <<queueVars, current, flagged, attempt, result, outcomes, records, finished>>

-----------------------------------------------------------------------------
(* JobExecutor.execute.                                                    *)

Message == sent[current]
RecordsOf(identity) == {r \in records : r.identity = identity}

GoTo(place) == wpc' = place /\ UNCHANGED <<release, current, flagged, starts>>

(* The end of a delivery, settled or given up by an exception that ends    *)
(* the worker: the queue keeps what was not acknowledged.                  *)
Leave(place) ==
  /\ wpc' = place
  /\ release' = IF place = "off" THEN 1 ELSE release
  /\ current' = 0 /\ flagged' = FALSE /\ attempt' = 0 /\ result' = "ok" /\ outcomes' = <<>>
  /\ UNCHANGED starts

Deliver ==
  /\ wpc = "idle"
  /\ \E i \in queued :
       /\ current' = i
       /\ flagged' \in BOOLEAN /\ (i \in handed => flagged')
       /\ handed' = handed \cup {i}
       /\ wpc' = IF flagged' THEN "find" ELSE "resolve"
  /\ UNCHANGED <<sent, queued, producer, release, attempt, result, starts, outcomes, records, finished>>

(* failures.find: a recorded failure is only acknowledged again.           *)
FindRecord ==
  /\ wpc = "find"
  /\ GoTo(IF RecordsOf(Message.identity) # {} THEN "ack" ELSE "resolve")
  /\ UNCHANGED <<queueVars, attempt, result, outcomes, records, finished>>

(* A broken envelope and a message the catalogue does not know fail with   *)
(* no attempt; otherwise run_attempts begins.                              *)
Classify ==
  /\ wpc = "resolve"
  /\ LET reason == IF Message.broken THEN "invalid_envelope" ELSE Resolve(Message) IN
       IF reason = "ok"
       THEN GoTo("run") /\ attempt' = 1 /\ UNCHANGED result
       ELSE GoTo("save") /\ result' = reason /\ UNCHANGED attempt
  /\ UNCHANGED <<queueVars, outcomes, records, finished>>

(* The reason an attempt that is not repeated leaves in its result.        *)
FailureReason(outcome) ==
  CASE outcome = "retryable"  -> "retry_exhausted"
    [] outcome = "timeout"    -> "execution_timeout"
    [] outcome = "suppressed" -> "timeout_suppressed"
    [] outcome = "ownTimeout" -> "handler_timeout_error"
    [] outcome = "badPayload" -> "invalid_job_payload"
    [] outcome = "error"      -> "handler_error"

\* Mutant: the loop runs once more than the policy says.
RetriesOnceMore(outcome) == outcome \in {"retryable", "timeout"} /\ attempt <= MaxAttempts

(* Only RetryableJobError and the expiry of asyncio.timeout are repeated.  *)
Retries(outcome) == outcome \in {"retryable", "timeout"} /\ attempt < MaxAttempts

(* One pass of the loop of run_attempts, binding.execute included.  A      *)
(* JobDefinitionError is raised to the runner: the worker ends with the    *)
(* message unacknowledged.                                                 *)
Attempt ==
  /\ wpc = "run"
  /\ \E outcome \in AttemptOutcomes :
       /\ outcome # "definition" => outcomes' = Append(outcomes, outcome)
       /\ CASE outcome = "ok"         -> GoTo("ack") /\ UNCHANGED <<attempt, result>>
            [] outcome = "definition" -> Leave("off")
            [] Retries(outcome)       -> GoTo("sleep") /\ UNCHANGED <<attempt, result>>
            [] OTHER                  -> /\ GoTo("save") /\ UNCHANGED attempt
                                         /\ result' = FailureReason(outcome)
       /\ finished' = IF outcome = "ok" THEN finished \cup {current} ELSE finished
  /\ UNCHANGED <<queueVars, records>>

(* asyncio.sleep(policy.retry_delay(attempt)), then the next pass.         *)
Backoff ==
  /\ wpc = "sleep"
  /\ GoTo("run")
  /\ attempt' = attempt + 1
  /\ UNCHANGED <<queueVars, result, outcomes, records, finished>>

(* SqlFailedJobStore.save: insert the row, or find that it exists.         *)
FailureRecord ==
  [identity |-> Message.identity, attempts |-> attempt, reason |-> result, message |-> Message,
   release |-> release, outcomes |-> outcomes]

SaveFailure ==
  /\ wpc = "save"
  /\ IF RecordsOf(Message.identity) = {}
     THEN /\ records' = records \cup {FailureRecord} /\ GoTo("ack")
          /\ finished' = finished \cup {current}
     ELSE GoTo("duplicate") /\ UNCHANGED <<records, finished>>
  /\ UNCHANGED <<queueVars, attempt, result, outcomes>>

(* IntegrityError: the row is looked up; it may have been forgotten        *)
(* meanwhile, and then the error ends the worker.                          *)
SaveAgain ==
  /\ wpc = "duplicate"
  /\ IF RecordsOf(Message.identity) # {}
     THEN GoTo("ack") /\ UNCHANGED <<attempt, result, outcomes>>
     ELSE Leave("off")
  /\ UNCHANGED <<queueVars, records, finished>>

Acknowledge ==
  /\ wpc = "ack"
  /\ queued' = queued \ {current}
  /\ Leave("idle")
  /\ UNCHANGED <<sent, handed, producer, records, finished>>

(* The process ends anywhere: a crash, a lost backend, a failed database   *)
(* call.  What it had not acknowledged stays in the queue.                 *)
WorkerEnds ==
  /\ wpc # "off"
  /\ Leave("off")
  /\ UNCHANGED <<queueVars, records, finished>>

-----------------------------------------------------------------------------
(* The console.                                                            *)

(* queue retry: the stored bytes are decoded, so a broken envelope cannot  *)
(* be replayed; the row stays.                                             *)
ReplayFailure ==
  /\ \E r \in records :
       /\ ~r.message.broken
       /\ Publish(Replayed(r.message, r.identity, NewIdentity))
  /\ UNCHANGED <<workVars, records, finished>>

(* queue forget.                                                           *)
ForgetFailure ==
  /\ \E r \in records : records' = records \ {r}
  /\ UNCHANGED <<queueVars, workVars, finished>>

JobInit ==
  /\ sent = <<>> /\ queued = {} /\ handed = {} /\ producer = 1
  /\ release = 1 /\ wpc = "off" /\ current = 0 /\ flagged = FALSE
  /\ attempt = 0 /\ result = "ok" /\ starts = 0 /\ outcomes = <<>>
  /\ records = {} /\ finished = {}

JobNext ==
  \/ Dispatch \/ ForeignPublish \/ DeployProducer \/ WorkerStart
  \/ Deliver \/ FindRecord \/ Classify \/ Attempt \/ Backoff
  \/ SaveFailure \/ SaveAgain \/ Acknowledge \/ WorkerEnds
  \/ ReplayFailure \/ ForgetFailure

JobSpec == JobInit /\ [][JobNext]_jobVars

-----------------------------------------------------------------------------
(* Properties.                                                             *)

(* What is left of a job that is no longer in the queue: its handler       *)
(* completed, or its own failure was saved before the acknowledgement      *)
(* (broken messages with equal bytes share one record).  A replay must be  *)
(* run like any other job, never taken for the failure it replays          *)
(* (executor.py: the deterministic failure_id; manager.py: the new job_id).*)
SettledHonestly ==
  \A i \in (1..Len(sent)) \ queued :
    \/ i \in finished
    \/ sent[i].broken /\ \E j \in finished : sent[j].broken

(* A failure record tells what happened: as many attempts as the handler   *)
(* was started in that delivery and never more than max_attempts, every    *)
(* attempt but the last retryable, the reason that of the last one, and    *)
(* retry_exhausted or execution_timeout only after all the attempts the    *)
(* policy grants (executor.py, run_attempts).                              *)
RecordsTellTheTruth ==
  \A r \in records :
    LET runs == r.outcomes IN
      /\ r.attempts = Len(runs) /\ Len(runs) <= MaxAttempts
      /\ \A n \in 1..(Len(runs) - 1) : runs[n] \in {"retryable", "timeout"}
      /\ runs # <<>> =>
           /\ r.reason = FailureReason(Last(runs))
           /\ Last(runs) \in {"retryable", "timeout"} => Len(runs) = MaxAttempts
      /\ runs = <<>> => r.reason \in {"invalid_envelope", "unknown_job", "unsupported_job_version"}

(* Renaming a job or changing its version strands no message: a job is     *)
(* refused as unknown or of an unsupported version only by a worker older  *)
(* than the process that dispatched it, replays included (resolver.py, the *)
(* bindings of legacy references and legacy decoders).                     *)
UpgradeStrandsNothing ==
  \A r \in records :
    r.reason \in {"unknown_job", "unsupported_job_version"} => r.release < r.message.by

=============================================================================
