----------------------------- MODULE DataProofs -----------------------------
(***************************************************************************)
(* Proofs about the components that keep data for the others: the life of  *)
(* a queued job, for any sequence of releases and any retry policy; the    *)
(* vector stores, for any set of tasks; the cache, for any settings.       *)
(***************************************************************************)
EXTENDS VectorStore, Jobs, Cache, SequenceTheorems, TLAPS

-----------------------------------------------------------------------------
(* Jobs: the invariants                                                    *)

(* Messages and where they come from.                                      *)
Classes == UNION {Releases[d] : d \in DOMAIN Releases}
Messages ==
  [identity : Nat, reference : {""} \cup UNION {References(c) : c \in Classes},
   version : {0} \cup UNION {Versions(c) : c \in Classes}, replayOf : Nat, size : Nat,
   broken : BOOLEAN, by : Nat]

(* A message that is not broken is one of a class that its release has.    *)
Declares(m) ==
  m.broken \/ (m.by \in DOMAIN Releases
               /\ \E c \in Releases[m.by] : m.reference \in References(c) /\ m.version \in Versions(c))

JobTypeOK ==
  /\ sent \in Seq(Messages)
  /\ queued \in SUBSET (1..Len(sent)) /\ finished \in SUBSET (1..Len(sent))
  /\ producer \in DOMAIN Releases /\ release \in DOMAIN Releases
  /\ wpc \in WorkerPcs
  /\ wpc \notin {"off", "idle"} => current \in 1..Len(sent)

(* Every message has an identity of its own, but the broken ones share 0;  *)
(* a record is about a message that is finished.                           *)
IdentityOK ==
  \A i \in 1..Len(sent) :
    /\ sent[i].identity = IF sent[i].broken THEN 0 ELSE i
    /\ Declares(sent[i])

RecordsOK ==
  \A r \in records :
    /\ \E j \in finished : sent[j].identity = r.identity
    /\ r.message \in Messages /\ Declares(r.message)
    /\ r.identity \in Nat

Honest(i) == i \in finished \/ (sent[i].broken /\ \E j \in finished : sent[j].broken)

AckOK == wpc = "ack" => Honest(current)

SettleInv == JobTypeOK /\ IdentityOK /\ RecordsOK /\ AckOK /\ SettledHonestly

(* The attempts of the current delivery.                                   *)
Again == {"retryable", "timeout"}
Told(attempts, reason, runs) ==
  /\ attempts = Len(runs) /\ Len(runs) <= MaxAttempts
  /\ \A n \in 1..(Len(runs) - 1) : runs[n] \in Again
  /\ runs # <<>> =>
       /\ reason = FailureReason(Last(runs))
       /\ Last(runs) \in Again => Len(runs) = MaxAttempts
  /\ runs = <<>> => reason \in {"invalid_envelope", "unknown_job", "unsupported_job_version"}

AttemptInv ==
  /\ outcomes \in Seq(AttemptOutcomes) /\ attempt \in Nat
  /\ wpc \in {"off", "idle", "find", "resolve"} => attempt = 0 /\ outcomes = <<>>
  /\ wpc \in {"run", "sleep"} => \A n \in 1..Len(outcomes) : outcomes[n] \in Again
  /\ wpc = "run" => attempt = Len(outcomes) + 1 /\ attempt <= MaxAttempts
  /\ wpc = "sleep" => attempt = Len(outcomes) /\ attempt < MaxAttempts
  /\ wpc \in {"save", "duplicate"} => Told(attempt, result, outcomes)
  /\ \A r \in records : Told(r.attempts, r.reason, r.outcomes)

(* A worker refuses only what a younger release has dispatched.            *)
Stranded == {"unknown_job", "unsupported_job_version"}
RefusalInv ==
  /\ wpc \in {"save", "duplicate"} /\ result \in Stranded => release < sent[current].by
  /\ UpgradeStrandsNothing

-----------------------------------------------------------------------------
(* Jobs: what a step does to the queue                                     *)

(* A publication appends one message and leaves the others where they are. *)
LEMMA PublishAppends ==
  ASSUME sent \in Seq(Messages), NEW m \in Messages, Publish(m)
  PROVE  /\ sent' \in Seq(Messages) /\ Len(sent) \in Nat
         /\ Len(sent') = Len(sent) + 1
         /\ sent'[Len(sent) + 1] = m
         /\ \A i \in 1..Len(sent) : sent'[i] = sent[i]
  BY DEF Publish

(* A new message with an identity of its own settles nothing.              *)
LEMMA PublishSettles ==
  ASSUME SettleInv, NEW m \in Messages, Publish(m), UNCHANGED <<workVars, records, finished>>,
         m.identity = IF m.broken THEN 0 ELSE Len(sent) + 1, Declares(m)
  PROVE  SettleInv'
<1>1. /\ sent' \in Seq(Messages) /\ Len(sent) \in Nat /\ Len(sent') = Len(sent) + 1
      /\ sent'[Len(sent) + 1] = m
      /\ \A i \in 1..Len(sent) : sent'[i] = sent[i]
  BY PublishAppends DEF SettleInv, JobTypeOK
<1>2. /\ queued' = queued \cup {Len(sent) + 1} /\ producer' = producer /\ finished' = finished
      /\ records' = records /\ wpc' = wpc /\ current' = current /\ release' = release
  BY DEF Publish, workVars
<1>3. JobTypeOK'
  <2>1. queued \in SUBSET (1..Len(sent)) /\ finished \in SUBSET (1..Len(sent)) /\ 1..Len(sent) \subseteq 1..(Len(sent) + 1)
    BY <1>1 DEF SettleInv, JobTypeOK
  <2>2. queued' \in SUBSET (1..Len(sent')) /\ finished' \in SUBSET (1..Len(sent'))
    BY <1>1, <1>2, <2>1
  <2> QED
    BY <1>1, <1>2, <2>1, <2>2 DEF SettleInv, JobTypeOK
<1>4. IdentityOK'
  <2> SUFFICES ASSUME NEW i \in 1..(Len(sent) + 1)
               PROVE  sent'[i].identity = (IF sent'[i].broken THEN 0 ELSE i) /\ Declares(sent'[i])
    BY <1>1 DEF IdentityOK
  <2>1. CASE i = Len(sent) + 1
    BY <1>1, <2>1
  <2>2. CASE i # Len(sent) + 1
    BY <1>1, <2>2 DEF SettleInv, IdentityOK
  <2> QED
    BY <2>1, <2>2
<1>5. RecordsOK'
  BY <1>1, <1>2 DEF SettleInv, RecordsOK, JobTypeOK
<1>6. AckOK'
  BY <1>1, <1>2 DEF SettleInv, AckOK, Honest, JobTypeOK
<1>7. SettledHonestly'
  <2> SUFFICES ASSUME NEW i \in (1..Len(sent)) \ queued
               PROVE  i \in finished' \/ (sent'[i].broken /\ \E j \in finished' : sent'[j].broken)
    BY <1>1, <1>2 DEF SettledHonestly
  <2> QED
    BY <1>1, <1>2 DEF SettleInv, SettledHonestly, JobTypeOK
<1> QED
  BY <1>3, <1>4, <1>5, <1>6, <1>7 DEF SettleInv

(* A record of the identity of a message is one of its own failure, or the *)
(* shared one of broken messages: an identity tells two jobs apart.        *)
LEMMA RecordMeansHonest ==
  ASSUME SettleInv, NEW i \in 1..Len(sent), RecordsOf(sent[i].identity) # {}
  PROVE  Honest(i)
<1>1. PICK r \in records : r.identity = sent[i].identity
  BY DEF RecordsOf
<1>2. PICK j \in finished : sent[j].identity = sent[i].identity
  BY <1>1 DEF SettleInv, RecordsOK
<1>3. j \in 1..Len(sent) /\ Len(sent) \in Nat
  BY DEF SettleInv, JobTypeOK
<1>4. /\ sent[i].identity = IF sent[i].broken THEN 0 ELSE i
      /\ sent[j].identity = IF sent[j].broken THEN 0 ELSE j
  BY <1>3 DEF SettleInv, IdentityOK
<1>5. CASE sent[i].broken
  BY <1>2, <1>3, <1>4, <1>5 DEF Honest
<1>6. CASE ~sent[i].broken
  BY <1>2, <1>3, <1>4, <1>6 DEF Honest
<1> QED
  BY <1>5, <1>6

(* The worker and the console leave the messages alone: what is to be      *)
(* shown of their steps.                                                   *)
LEMMA WorkSettles ==
  ASSUME SettleInv, UNCHANGED <<sent, producer>>,
         queued' \subseteq queued,
         \A i \in queued \ queued' : Honest(i),
         finished \subseteq finished', finished' \subseteq 1..Len(sent),
         release' \in DOMAIN Releases, wpc' \in WorkerPcs,
         wpc' \notin {"off", "idle"} => current' \in 1..Len(sent),
         wpc' = "ack" => Honest(current') \/ current' \in finished',
         \A r \in records' \ records :
           /\ \E j \in finished' : sent[j].identity = r.identity
           /\ r.message \in Messages /\ Declares(r.message)
           /\ r.identity \in Nat
  PROVE  SettleInv'
<1>1. JobTypeOK'
  BY DEF SettleInv, JobTypeOK
<1>2. IdentityOK'
  BY DEF SettleInv, IdentityOK
<1>3. RecordsOK'
  BY DEF SettleInv, RecordsOK
<1>4. AckOK'
  BY DEF AckOK, Honest
<1>5. SettledHonestly'
  BY DEF SettleInv, SettledHonestly, Honest
<1> QED
  BY <1>1, <1>2, <1>3, <1>4, <1>5 DEF SettleInv

(* What a class of a release publishes is a message that it declares.      *)
LEMMA EnvelopeDeclared ==
  ASSUME NEW d \in DOMAIN Releases, NEW class \in Releases[d], NEW size \in Nat, NEW n \in Nat
  PROVE  LET m == Envelope(n, class, size, d)
         IN  m \in Messages /\ Declares(m) /\ m.identity = n /\ ~m.broken
<1>1. d \in Nat
  BY ReleasesAssumption
<1>2. class.reference \in References(class) /\ class.version \in Versions(class)
  BY DEF References, Versions
<1>3. class \in Classes
  BY DEF Classes
<1> QED
  BY <1>1, <1>2, <1>3 DEF Envelope, Messages, Declares

(* A foreign message is a message, of no job.                              *)
LEMMA GarbageDeclared == Garbage \in Messages /\ Declares(Garbage) /\ Garbage.broken /\ Garbage.identity = 0
  BY DEF Garbage, Messages, Declares

(* ReplayFailure publishes a well-formed message of the same release.      *)
LEMMA ReplayDeclared ==
  ASSUME NEW m \in Messages, Declares(m), ~m.broken, NEW f \in Nat, NEW n \in Nat
  PROVE  /\ Replayed(m, f, n) \in Messages /\ Declares(Replayed(m, f, n))
         /\ Replayed(m, f, n).identity = n /\ ~Replayed(m, f, n).broken
         /\ Replayed(m, f, n).by = m.by
<1> DEFINE longer == IF m.replayOf = 0 THEN m.size + 1 ELSE m.size
<1>1. Replayed(m, f, n) = [m EXCEPT !.identity = n, !.replayOf = f, !.size = longer]
  BY DEF Replayed, Messages
<1>2. longer \in Nat
  <2>1. m.size \in Nat
    BY DEF Messages
  <2> QED
    BY <2>1
<1> HIDE DEF longer
<1>3. /\ Replayed(m, f, n) \in Messages /\ Replayed(m, f, n).identity = n
      /\ Replayed(m, f, n).broken = m.broken /\ Replayed(m, f, n).by = m.by
      /\ Replayed(m, f, n).reference = m.reference /\ Replayed(m, f, n).version = m.version
  BY <1>1, <1>2 DEF Messages
<1> QED
  BY <1>3 DEF Declares

-----------------------------------------------------------------------------
(* Jobs: settled honestly                                                  *)

(* SettleInv is inductive: one case for each step of a job.                *)
LEMMA SettleInvStep == SettleInv /\ [JobNext]_jobVars => SettleInv'
<1> SUFFICES ASSUME SettleInv, [JobNext]_jobVars PROVE SettleInv'
  OBVIOUS
<1>t. /\ Len(sent) \in Nat /\ sent \in Seq(Messages) /\ producer \in DOMAIN Releases
      /\ release \in DOMAIN Releases /\ wpc \in WorkerPcs /\ finished \subseteq 1..Len(sent)
      /\ queued \subseteq 1..Len(sent)
      /\ wpc \notin {"off", "idle"} => current \in 1..Len(sent)
  BY DEF SettleInv, JobTypeOK
<1>r. 1 \in DOMAIN Releases
  BY ReleasesAssumption
<1>1. CASE Dispatch
  <2>1. PICK class \in Releases[producer], size \in 1..(MaxEnvelope + 1) :
          Publish(Envelope(Len(sent) + 1, class, size, producer))
    BY <1>1 DEF Dispatch, NewIdentity
  <2>2. size \in Nat
    BY JobBoundsAssumption
  <2> DEFINE m == Envelope(Len(sent) + 1, class, size, producer)
  <2>3. m \in Messages /\ Declares(m) /\ m.identity = Len(sent) + 1 /\ ~m.broken
    BY <1>t, <2>2, EnvelopeDeclared
  <2>4. UNCHANGED <<workVars, records, finished>>
    BY <1>1 DEF Dispatch
  <2> HIDE DEF m
  <2> QED
    BY <2>1, <2>3, <2>4, PublishSettles DEF m
<1>2. CASE ForeignPublish
  BY <1>2, GarbageDeclared, PublishSettles DEF ForeignPublish
<1>3. CASE DeployProducer
  BY <1>3 DEF DeployProducer, SettleInv, JobTypeOK, IdentityOK, RecordsOK, AckOK, SettledHonestly,
    Honest, workVars
<1>4. CASE WorkerStart
  <2>1. UNCHANGED <<sent, producer, queued, finished, records>> /\ wpc' \in {"off", "idle"}
        /\ release' \in DOMAIN Releases
    BY <1>t, <1>4 DEF WorkerStart, queueVars
  <2> QED
    BY <1>t, <2>1, WorkSettles DEF WorkerPcs
<1>5. CASE Deliver
  <2>1. UNCHANGED <<sent, producer, queued, finished, records, release>> /\ wpc' \in {"find", "resolve"}
        /\ current' \in queued
    BY <1>5 DEF Deliver
  <2> QED
    BY <1>t, <2>1, WorkSettles DEF WorkerPcs
<1>6. CASE FindRecord
  <2>1. UNCHANGED <<sent, producer, queued, finished, records, release, current>>
    BY <1>6 DEF FindRecord, GoTo, queueVars
  <2>2. /\ wpc = "find" /\ wpc' \in {"ack", "resolve"}
        /\ wpc' = "ack" => RecordsOf(sent[current].identity) # {}
    BY <1>6 DEF FindRecord, GoTo, Message
  <2>3. wpc' = "ack" => Honest(current)
    BY <1>t, <2>2, RecordMeansHonest
  <2> QED
    BY <1>t, <2>1, <2>2, <2>3, WorkSettles DEF WorkerPcs
<1>7. CASE Classify
  <2>1. UNCHANGED <<sent, producer, queued, finished, records, release, current>>
        /\ wpc = "resolve" /\ wpc' \in {"run", "save"}
    BY <1>7 DEF Classify, GoTo, queueVars
  <2> QED
    BY <1>t, <2>1, WorkSettles DEF WorkerPcs
<1>8. CASE Attempt
  <2>1. PICK outcome \in AttemptOutcomes :
          /\ CASE outcome = "ok"         -> GoTo("ack") /\ UNCHANGED <<attempt, result>>
               [] outcome = "definition" -> Leave("off")
               [] Retries(outcome)       -> GoTo("sleep") /\ UNCHANGED <<attempt, result>>
               [] OTHER                  -> /\ GoTo("save") /\ UNCHANGED attempt
                                            /\ result' = FailureReason(outcome)
          /\ finished' = IF outcome = "ok" THEN finished \cup {current} ELSE finished
    BY <1>8 DEF Attempt
  <2>2. UNCHANGED <<sent, producer, queued, records>> /\ wpc = "run"
    BY <1>8 DEF Attempt, queueVars
  <2>3. CASE outcome = "ok"
    <3>1. GoTo("ack") /\ finished' = finished \cup {current}
      BY <2>1, <2>3 DEF Retries
    <3> QED
      BY <1>t, <2>2, <3>1, WorkSettles DEF GoTo, WorkerPcs
  <2>4. CASE outcome = "definition"
    <3>1. Leave("off") /\ finished' = finished
      BY <2>1, <2>4 DEF Retries
    <3> QED
      BY <1>t, <1>r, <2>2, <3>1, WorkSettles DEF Leave, WorkerPcs
  <2>5. CASE outcome \notin {"ok", "definition"}
    <3>1. (GoTo("sleep") \/ GoTo("save")) /\ finished' = finished
      BY <2>1, <2>5
    <3> QED
      BY <1>t, <2>2, <3>1, WorkSettles DEF GoTo, WorkerPcs
  <2> QED
    BY <2>3, <2>4, <2>5
<1>9. CASE Backoff
  BY <1>t, <1>9, WorkSettles DEF Backoff, GoTo, queueVars, WorkerPcs
<1>10. CASE SaveFailure
  <2>1. UNCHANGED <<sent, producer, queued, release, current>> /\ wpc = "save"
    BY <1>10 DEF SaveFailure, GoTo, queueVars
  <2>2. CASE RecordsOf(Message.identity) = {}
    <3>1. records' = records \cup {FailureRecord} /\ wpc' = "ack" /\ finished' = finished \cup {current}
      BY <1>10, <2>2 DEF SaveFailure, GoTo
    <3>2. sent[current] \in Messages /\ Declares(sent[current])
      BY <1>t, <2>1 DEF SettleInv, IdentityOK
    <3>3. /\ FailureRecord.message = sent[current] /\ FailureRecord.identity = sent[current].identity
          /\ sent[current].identity \in Nat
      BY <3>2 DEF FailureRecord, Message, Messages
    <3> QED
      BY <1>t, <2>1, <3>1, <3>2, <3>3, WorkSettles DEF WorkerPcs
  <2>3. CASE RecordsOf(Message.identity) # {}
    BY <1>t, <2>1, <2>3, <1>10, WorkSettles DEF SaveFailure, GoTo, WorkerPcs
  <2> QED
    BY <2>2, <2>3
<1>11. CASE SaveAgain
  <2>1. UNCHANGED <<sent, producer, queued, finished, records>> /\ wpc = "duplicate"
    BY <1>11 DEF SaveAgain, queueVars
  <2>2. CASE RecordsOf(Message.identity) # {}
    <3>1. wpc' = "ack" /\ current' = current /\ release' = release
      BY <1>11, <2>2 DEF SaveAgain, GoTo
    <3>2. Honest(current)
      BY <1>t, <2>1, <2>2, RecordMeansHonest DEF Message
    <3> QED
      BY <1>t, <2>1, <3>1, <3>2, WorkSettles DEF WorkerPcs
  <2>3. CASE RecordsOf(Message.identity) = {}
    <3>1. Leave("off")
      BY <1>11, <2>3 DEF SaveAgain
    <3> QED
      BY <1>t, <1>r, <2>1, <3>1, WorkSettles DEF Leave, WorkerPcs
  <2> QED
    BY <2>2, <2>3
<1>12. CASE Acknowledge
  <2>1. /\ UNCHANGED <<sent, producer, finished, records, release>> /\ wpc = "ack" /\ wpc' = "idle"
        /\ queued' = queued \ {current}
    BY <1>12 DEF Acknowledge, Leave
  <2>2. Honest(current)
    BY <2>1 DEF SettleInv, AckOK
  <2> QED
    BY <1>t, <2>1, <2>2, WorkSettles DEF WorkerPcs
<1>13. CASE WorkerEnds
  BY <1>t, <1>r, <1>13, WorkSettles DEF WorkerEnds, Leave, queueVars, WorkerPcs
<1>14. CASE ReplayFailure
  <2>1. PICK r \in records : ~r.message.broken /\ Publish(Replayed(r.message, r.identity, Len(sent) + 1))
    BY <1>14 DEF ReplayFailure, NewIdentity
  <2>2. r.message \in Messages /\ Declares(r.message) /\ r.identity \in Nat
    BY DEF SettleInv, RecordsOK
  <2> DEFINE m == Replayed(r.message, r.identity, Len(sent) + 1)
  <2>3. m \in Messages /\ Declares(m) /\ m.identity = Len(sent) + 1 /\ ~m.broken
    <3>1. Len(sent) + 1 \in Nat
      BY <1>t
    <3> QED
      BY <3>1, <2>1, <2>2, ReplayDeclared
  <2>4. UNCHANGED <<workVars, records, finished>>
    BY <1>14 DEF ReplayFailure
  <2> HIDE DEF m
  <2> QED
    BY <2>1, <2>3, <2>4, PublishSettles DEF m
<1>15. CASE ForgetFailure
  BY <1>t, <1>15, WorkSettles DEF ForgetFailure, queueVars, workVars, SettleInv, AckOK
<1>16. CASE UNCHANGED jobVars
  BY <1>t, <1>16, WorkSettles DEF jobVars, queueVars, workVars, SettleInv, AckOK
<1> QED
  BY <1>1, <1>2, <1>3, <1>4, <1>5, <1>6, <1>7, <1>8, <1>9, <1>10, <1>11, <1>12, <1>13, <1>14, <1>15,
     <1>16 DEF JobNext

(* It holds before anything is published.                                  *)
LEMMA SettleInvInit == JobInit => SettleInv
<1>1. <<>> \in Seq(Messages) /\ Len(<<>>) = 0 /\ 1..0 = {}
  OBVIOUS
<1> QED
  BY <1>1, ReleasesAssumption DEF JobInit, SettleInv, JobTypeOK, WorkerPcs, IdentityOK, RecordsOK,
    AckOK,
     SettledHonestly

(* No job leaves the queue without a trace: an acknowledged message has    *)
(* been completed or its failure was saved, replays included, although the *)
(* worker may end anywhere and records may be forgotten meanwhile.         *)
THEOREM JobsSettledHonestly == JobSpec => []SettledHonestly
<1>1. SettleInv => SettledHonestly
  BY DEF SettleInv
<1> QED
  BY <1>1, SettleInvInit, SettleInvStep, PTL DEF JobSpec

-----------------------------------------------------------------------------
(* Jobs: the attempts of a delivery and the records of failures            *)

(* What Append does to a sequence.                                         *)
LEMMA OneMore ==
  ASSUME NEW S, NEW s \in Seq(S), NEW x \in S
  PROVE  /\ Append(s, x) \in Seq(S) /\ Len(s) \in Nat
         /\ Len(Append(s, x)) = Len(s) + 1
         /\ Append(s, x)[Len(s) + 1] = x
         /\ \A n \in 1..Len(s) : Append(s, x)[n] = s[n]
         /\ Append(s, x) # <<>>
  OBVIOUS

(* A last attempt that is not repeated ends a run as the record tells it.  *)
LEMMA LastAttemptTold ==
  ASSUME NEW runs \in Seq(AttemptOutcomes), NEW outcome \in AttemptOutcomes,
         \A n \in 1..Len(runs) : runs[n] \in Again,
         Len(runs) + 1 <= MaxAttempts,
         outcome \in Again => Len(runs) + 1 = MaxAttempts
  PROVE  Told(Len(runs) + 1, FailureReason(outcome), Append(runs, outcome))
<1> DEFINE all == Append(runs, outcome)
<1>1. /\ Len(runs) \in Nat /\ Len(all) = Len(runs) + 1 /\ all[Len(runs) + 1] = outcome
      /\ \A n \in 1..Len(runs) : all[n] = runs[n]
      /\ all # <<>>
  BY OneMore
<1> HIDE DEF all
<1>2. Last(all) = outcome
  BY <1>1 DEF Last
<1>3. \A n \in 1..(Len(all) - 1) : all[n] \in Again
  BY <1>1
<1> QED
  BY <1>1, <1>2, <1>3, JobBoundsAssumption DEF Told, all

(* Steps that start or end no attempt and save no record.                  *)
LEMMA AttemptsKept ==
  ASSUME AttemptInv, UNCHANGED <<wpc, attempt, result, outcomes>>, records' \subseteq records
  PROVE  AttemptInv'
  BY DEF AttemptInv

(* A delivery that begins, or has ended.                                   *)
LEMMA NothingAttempted ==
  ASSUME AttemptInv, wpc' \in {"off", "idle", "find", "resolve"}, attempt' = 0, outcomes' = <<>>,
         records' = records
  PROVE  AttemptInv'
<1>1. <<>> \in Seq(AttemptOutcomes)
  OBVIOUS
<1> QED
  BY <1>1 DEF AttemptInv

(* AttemptInv is inductive: counts change in Attempt and Backoff only.     *)
LEMMA AttemptInvStep == AttemptInv /\ [JobNext]_jobVars => AttemptInv'
<1> SUFFICES ASSUME AttemptInv, [JobNext]_jobVars PROVE AttemptInv'
  OBVIOUS
<1>1. CASE Dispatch \/ ForeignPublish \/ DeployProducer \/ ReplayFailure \/ ForgetFailure \/ UNCHANGED jobVars
  <2>1. UNCHANGED <<wpc, attempt, result, outcomes>> /\ records' \subseteq records
    BY <1>1 DEF Dispatch, ForeignPublish, DeployProducer, ReplayFailure, ForgetFailure, jobVars,
      workVars
  <2> QED
    BY <2>1, AttemptsKept
<1>2. CASE WorkerStart
  <2>1. wpc = "off" /\ wpc' \in {"off", "idle"} /\ UNCHANGED <<attempt, outcomes, records>>
    BY <1>2 DEF WorkerStart
  <2>2. attempt = 0 /\ outcomes = <<>>
    BY <2>1 DEF AttemptInv
  <2> QED
    BY <2>1, <2>2, NothingAttempted
<1>3. CASE Deliver
  <2>1. wpc = "idle" /\ wpc' \in {"find", "resolve"} /\ UNCHANGED <<attempt, outcomes, records>>
    BY <1>3 DEF Deliver
  <2>2. attempt = 0 /\ outcomes = <<>>
    BY <2>1 DEF AttemptInv
  <2> QED
    BY <2>1, <2>2, NothingAttempted
<1>4. CASE FindRecord
  BY <1>4 DEF FindRecord, GoTo, AttemptInv
<1>5. CASE Classify
  <2>1. /\ UNCHANGED <<outcomes, records>> /\ wpc = "resolve"
        /\ \/ wpc' = "run" /\ attempt' = 1
           \/ /\ wpc' = "save" /\ attempt' = attempt
              /\ result' \in {"invalid_envelope", "unknown_job", "unsupported_job_version"}
    BY <1>5 DEF Classify, GoTo, Resolve
  <2>2. attempt = 0 /\ outcomes = <<>> /\ Len(outcomes) = 0
    BY <2>1 DEF AttemptInv
  <2>3. CASE wpc' = "run"
    BY <2>1, <2>2, <2>3, JobBoundsAssumption DEF AttemptInv
  <2>4. CASE wpc' = "save"
    <3>1. Told(attempt', result', outcomes')
      BY <2>1, <2>2, <2>4, JobBoundsAssumption DEF Told
    <3> QED
      BY <2>1, <2>2, <2>4, <3>1 DEF AttemptInv
  <2> QED
    BY <2>1, <2>3, <2>4
<1>6. CASE Attempt
  <2>1. PICK outcome \in AttemptOutcomes :
          /\ outcome # "definition" => outcomes' = Append(outcomes, outcome)
          /\ CASE outcome = "ok"         -> GoTo("ack") /\ UNCHANGED <<attempt, result>>
               [] outcome = "definition" -> Leave("off")
               [] Retries(outcome)       -> GoTo("sleep") /\ UNCHANGED <<attempt, result>>
               [] OTHER                  -> /\ GoTo("save") /\ UNCHANGED attempt
                                            /\ result' = FailureReason(outcome)
    BY <1>6 DEF Attempt
  <2>2. records' = records /\ wpc = "run"
    BY <1>6 DEF Attempt
  <2>3. /\ outcomes \in Seq(AttemptOutcomes) /\ attempt \in Nat /\ Len(outcomes) \in Nat
        /\ \A n \in 1..Len(outcomes) : outcomes[n] \in Again
        /\ attempt = Len(outcomes) + 1 /\ attempt <= MaxAttempts
    BY <2>2 DEF AttemptInv
  <2>4. /\ Append(outcomes, outcome) \in Seq(AttemptOutcomes)
        /\ Len(Append(outcomes, outcome)) = Len(outcomes) + 1
        /\ Append(outcomes, outcome)[Len(outcomes) + 1] = outcome
        /\ \A n \in 1..Len(outcomes) : Append(outcomes, outcome)[n] = outcomes[n]
    BY <2>3, OneMore
  <2>5. CASE outcome = "ok"
    <3>1. wpc' = "ack" /\ attempt' = attempt /\ outcomes' = Append(outcomes, outcome)
      BY <2>1, <2>5 DEF Retries, GoTo
    <3> QED
      BY <2>2, <2>3, <2>4, <3>1 DEF AttemptInv
  <2>6. CASE outcome = "definition"
    <3>1. Leave("off")
      BY <2>1, <2>6 DEF Retries
    <3> QED
      BY <2>2, <3>1, NothingAttempted DEF Leave
  <2>7. CASE outcome \notin {"ok", "definition"} /\ Retries(outcome)
    <3>1. wpc' = "sleep" /\ attempt' = attempt /\ outcomes' = Append(outcomes, outcome)
      BY <2>1, <2>7 DEF GoTo
    <3>2. outcome \in Again /\ attempt < MaxAttempts
      BY <2>7 DEF Retries, Again
    <3>3. \A n \in 1..Len(outcomes') : outcomes'[n] \in Again
      BY <2>3, <2>4, <3>1, <3>2
    <3> QED
      BY <2>2, <2>3, <2>4, <3>1, <3>2, <3>3 DEF AttemptInv
  <2>8. CASE outcome \notin {"ok", "definition"} /\ ~Retries(outcome)
    <3>1. /\ wpc' = "save" /\ attempt' = attempt /\ outcomes' = Append(outcomes, outcome)
          /\ result' = FailureReason(outcome)
      BY <2>1, <2>8 DEF GoTo
    <3>2. outcome \in Again => Len(outcomes) + 1 = MaxAttempts
      BY <2>3, <2>8, JobBoundsAssumption DEF Retries, Again
    <3>3. Told(attempt', result', outcomes')
      BY <2>3, <3>1, <3>2, LastAttemptTold
    <3> QED
      BY <2>2, <2>3, <2>4, <3>1, <3>3 DEF AttemptInv
  <2> QED
    BY <2>5, <2>6, <2>7, <2>8
<1>7. CASE Backoff
  <2>1. wpc = "sleep" /\ wpc' = "run" /\ attempt' = attempt + 1 /\ UNCHANGED <<outcomes, records>>
    BY <1>7 DEF Backoff, GoTo
  <2> QED
    BY <2>1, JobBoundsAssumption DEF AttemptInv
<1>8. CASE SaveFailure
  <2>1. /\ wpc = "save" /\ wpc' \in {"ack", "duplicate"} /\ UNCHANGED <<attempt, result, outcomes>>
        /\ records' \in {records, records \cup {FailureRecord}}
    BY <1>8 DEF SaveFailure, GoTo
  <2>2. Told(attempt, result, outcomes)
    BY <2>1 DEF AttemptInv
  <2>3. Told(FailureRecord.attempts, FailureRecord.reason, FailureRecord.outcomes)
    BY <2>2 DEF FailureRecord
  <2>4. \A r \in records' : Told(r.attempts, r.reason, r.outcomes)
    BY <2>1, <2>3 DEF AttemptInv
  <2> QED
    BY <2>1, <2>2, <2>4 DEF AttemptInv
<1>9. CASE SaveAgain
  <2>1. wpc = "duplicate" /\ records' = records
    BY <1>9 DEF SaveAgain
  <2>2. CASE RecordsOf(Message.identity) # {}
    BY <1>9, <2>1, <2>2 DEF SaveAgain, GoTo, AttemptInv
  <2>3. CASE RecordsOf(Message.identity) = {}
    BY <1>9, <2>1, <2>3, NothingAttempted DEF SaveAgain, Leave
  <2> QED
    BY <2>2, <2>3
<1>10. CASE Acknowledge \/ WorkerEnds
  BY <1>10, NothingAttempted DEF Acknowledge, WorkerEnds, Leave
<1> QED
  BY <1>1, <1>2, <1>3, <1>4, <1>5, <1>6, <1>7, <1>8, <1>9, <1>10 DEF JobNext

(* A failure record tells what happened, for any number of attempts that a *)
(* policy grants and wherever the process ended before.                    *)
THEOREM JobRecordsTellTheTruth == JobSpec => []RecordsTellTheTruth
<1>1. JobInit => AttemptInv
  BY DEF JobInit, AttemptInv
<1>2. AttemptInv => RecordsTellTheTruth
  BY DEF AttemptInv, Told, Again, RecordsTellTheTruth
<1> QED
  BY <1>1, <1>2, AttemptInvStep, PTL DEF JobSpec

-----------------------------------------------------------------------------
(* Jobs: what an upgrade strands                                           *)

(* A worker that is no older than the dispatching process has a binding of *)
(* what a class of that process declares: resolver.py binds every          *)
(* reference of a class, legacy ones included, to every version of it.     *)
LEMMA YoungerWorkerResolves ==
  ASSUME release \in DOMAIN Releases, NEW m \in Messages, Declares(m), ~m.broken, m.by <= release
  PROVE  Resolve(m) = "ok"
<1>1. PICK c \in Releases[m.by] : m.reference \in References(c) /\ m.version \in Versions(c)
  BY DEF Declares
<1>2. m.by \in 1..release
  BY ReleasesAssumption DEF Declares
<1>3. PICK k \in Releases[release] : References(c) \subseteq References(k) /\ Versions(c) \subseteq Versions(k)
  BY <1>1, <1>2, ReleasesAssumption
<1>4. m.reference \in References(k) /\ m.version \in Versions(k)
  BY <1>1, <1>3
<1>5. m.reference \in UNION {References(d) : d \in Releases[release]}
  BY <1>3, <1>4
<1>6. <<m.reference, m.version>> \in Bindings(Releases[release])
  BY <1>3, <1>4 DEF Bindings
<1> QED
  BY <1>5, <1>6 DEF Resolve

(* Steps that refuse nothing and save no record.                           *)
LEMMA RefusalsKept ==
  ASSUME RefusalInv, records' \subseteq records,
         \/ wpc' \notin {"save", "duplicate"}
         \/ result' \notin Stranded
         \/ /\ wpc \in {"save", "duplicate"} /\ UNCHANGED <<result, release>>
            /\ sent'[current'].by = sent[current].by
  PROVE  RefusalInv'
  BY DEF RefusalInv, UpgradeStrandsNothing

(* A refusal recorded or about to be recorded keeps its reason.            *)
LEMMA RefusalInvStep == SettleInv /\ RefusalInv /\ [JobNext]_jobVars => RefusalInv'
<1> SUFFICES ASSUME SettleInv, RefusalInv, [JobNext]_jobVars PROVE RefusalInv'
  OBVIOUS
<1>t. /\ Len(sent) \in Nat /\ sent \in Seq(Messages) /\ producer \in DOMAIN Releases
      /\ release \in DOMAIN Releases
      /\ wpc \notin {"off", "idle"} => current \in 1..Len(sent)
  BY DEF SettleInv, JobTypeOK
<1>1. ASSUME NEW m \in Messages, Publish(m), UNCHANGED <<workVars, records>> PROVE RefusalInv'
  <2>1. \A i \in 1..Len(sent) : sent'[i] = sent[i]
    BY <1>t, <1>1, PublishAppends
  <2>2. UNCHANGED <<wpc, result, release, current, records>>
    BY <1>1 DEF workVars
  <2>3. wpc \in {"save", "duplicate"} => sent'[current'].by = sent[current].by
    BY <1>t, <2>1, <2>2
  <2> QED
    BY <2>2, <2>3, RefusalsKept
<1>2. CASE Dispatch
  <2>1. PICK class \in Releases[producer], size \in 1..(MaxEnvelope + 1) :
          Publish(Envelope(Len(sent) + 1, class, size, producer))
    BY <1>2 DEF Dispatch, NewIdentity
  <2>2. size \in Nat /\ Len(sent) + 1 \in Nat
    BY <1>t, JobBoundsAssumption
  <2>3. Envelope(Len(sent) + 1, class, size, producer) \in Messages
    BY <1>t, <2>2, EnvelopeDeclared
  <2> QED
    BY <1>1, <1>2, <2>1, <2>3 DEF Dispatch
<1>3. CASE ForeignPublish
  BY <1>1, <1>3, GarbageDeclared DEF ForeignPublish
<1>4. CASE ReplayFailure
  <2>1. PICK r \in records : ~r.message.broken /\ Publish(Replayed(r.message, r.identity, Len(sent) + 1))
    BY <1>4 DEF ReplayFailure, NewIdentity
  <2>2. r.message \in Messages /\ Declares(r.message) /\ r.identity \in Nat /\ Len(sent) + 1 \in Nat
    BY <1>t DEF SettleInv, RecordsOK
  <2>3. Replayed(r.message, r.identity, Len(sent) + 1) \in Messages
    BY <2>1, <2>2, ReplayDeclared
  <2> QED
    BY <1>1, <1>4, <2>1, <2>3 DEF ReplayFailure
<1>5. CASE DeployProducer \/ ForgetFailure \/ UNCHANGED jobVars
  BY <1>5, RefusalsKept DEF DeployProducer, ForgetFailure, jobVars, queueVars, workVars
<1>6. CASE WorkerStart
  BY <1>6, RefusalsKept DEF WorkerStart
<1>7. CASE Deliver \/ FindRecord \/ Backoff \/ Acknowledge \/ WorkerEnds
  BY <1>7, RefusalsKept DEF Deliver, FindRecord, Backoff, Acknowledge, WorkerEnds, GoTo, Leave
<1>8. CASE Classify
  <2>1. UNCHANGED <<sent, records, release, current>> /\ wpc = "resolve"
    BY <1>8 DEF Classify, GoTo, queueVars
  <2>2. sent[current] \in Messages /\ Declares(sent[current])
    BY <1>t, <2>1 DEF SettleInv, IdentityOK
  <2>3. wpc' = "save" /\ result' \in Stranded => ~sent[current].broken /\ Resolve(sent[current]) # "ok"
    BY <1>8 DEF Classify, GoTo, Stranded, Message
  <2>4. sent[current].by \in Nat /\ release \in Nat
    <3>1. sent[current].by \in Nat
      BY <2>2 DEF Messages
    <3>2. release \in Nat
      BY <1>t, ReleasesAssumption
    <3> QED
      BY <3>1, <3>2
  <2>5. wpc' = "save" /\ result' \in Stranded => release < sent[current].by
    BY <1>t, <2>2, <2>3, <2>4, YoungerWorkerResolves
  <2>6. wpc' \in {"run", "save"}
    BY <1>8 DEF Classify, GoTo
  <2> QED
    BY <2>1, <2>5, <2>6 DEF RefusalInv, UpgradeStrandsNothing
<1>9. CASE Attempt
  <2>1. PICK outcome \in AttemptOutcomes :
          CASE outcome = "ok"         -> GoTo("ack") /\ UNCHANGED <<attempt, result>>
            [] outcome = "definition" -> Leave("off")
            [] Retries(outcome)       -> GoTo("sleep") /\ UNCHANGED <<attempt, result>>
            [] OTHER                  -> /\ GoTo("save") /\ UNCHANGED attempt
                                         /\ result' = FailureReason(outcome)
    BY <1>9 DEF Attempt
  <2>2. records' = records
    BY <1>9 DEF Attempt
  <2>3. CASE outcome \in {"ok", "definition"}
    <3>1. wpc' \in {"ack", "off"}
      BY <2>1, <2>3 DEF Retries, GoTo, Leave
    <3> QED
      BY <2>2, <3>1, RefusalsKept
  <2>4. CASE outcome \notin {"ok", "definition"}
    <3>1. wpc' = "sleep" \/ result' = FailureReason(outcome)
      BY <2>1, <2>4 DEF GoTo
    <3>2. FailureReason(outcome) \notin Stranded
      BY <2>4 DEF AttemptOutcomes, FailureReason, Stranded
    <3> QED
      BY <2>2, <3>1, <3>2, RefusalsKept
  <2> QED
    BY <2>3, <2>4
<1>10. CASE SaveFailure
  <2>1. /\ UNCHANGED <<sent, result, release, current>> /\ wpc = "save" /\ wpc' \in {"ack", "duplicate"}
        /\ records' \in {records, records \cup {FailureRecord}}
    BY <1>10 DEF SaveFailure, GoTo, queueVars
  <2>2. FailureRecord.reason = result /\ FailureRecord.release = release /\ FailureRecord.message = sent[current]
    BY DEF FailureRecord, Message
  <2>3. result \in Stranded => release < sent[current].by
    BY <2>1 DEF RefusalInv
  <2>4. UpgradeStrandsNothing'
    BY <2>1, <2>2, <2>3 DEF RefusalInv, UpgradeStrandsNothing, Stranded
  <2> QED
    BY <2>1, <2>3, <2>4 DEF RefusalInv
<1>11. CASE SaveAgain
  <2>1. wpc' \in {"ack", "off"} /\ records' = records
    BY <1>11 DEF SaveAgain, GoTo, Leave
  <2> QED
    BY <2>1, RefusalsKept
<1> QED
  BY <1>2, <1>3, <1>4, <1>5, <1>6, <1>7, <1>8, <1>9, <1>10, <1>11 DEF JobNext

(* Renaming a job or raising its version strands no message, for any       *)
(* sequence of releases each of which still declares what the ones before  *)
(* it published.                                                           *)
THEOREM UpgradesStrandNothing == JobSpec => []UpgradeStrandsNothing
<1>1. JobInit => RefusalInv
  BY DEF JobInit, RefusalInv, UpgradeStrandsNothing
<1>2. RefusalInv => UpgradeStrandsNothing
  BY DEF RefusalInv
<1> QED
  BY <1>1, <1>2, SettleInvInit, SettleInvStep, RefusalInvStep, PTL DEF JobSpec

-----------------------------------------------------------------------------
(* Vector stores: the invariants                                           *)

Drivers == Milvus \cup Chroma \cup {"elasticsearch"}
Fields  == (UNION Metas) \cup {"id", "_vector_record"}
Values  == Metrics \cup {"none", "dynamic"}
Steps   == {"idle", "lock", "check", "describe", "described", "recheck", "there", "gone", "read",
            "act", "reply"}
Calls ==
  {r \in [op : {"none", "create", "drop", "describe", "upsert", "get", "remove", "search"},
          step : Steps, metric : Values, ids : SUBSET Ids, meta : SUBSET Fields, gen : Nat,
          old : [Ids -> SUBSET Fields]] :
     /\ r.op = "upsert" => r.meta \in Metas
     /\ r.op = "create" => r.metric \in Metrics}

VecTypeOK ==
  /\ driver \in Drivers /\ call \in [VTasks -> Calls] /\ late \subseteq Calls
  /\ rows \in [Ids -> SUBSET Fields] /\ gen \in Nat /\ vfaults \in Nat
  /\ metric \in Values /\ cache \in Values /\ overtaken \in BOOLEAN /\ unheard \in BOOLEAN
  /\ driver \in Local \/ vfaults = 0 => late = {}

(* The exception that ReadsFaithful makes.                                 *)
Orderly == driver # "chromaRemote" \/ vfaults = 0

(* A row is what one upsert wrote.                                         *)
Stored(meta) == IF driver \in Chroma THEN meta \cup {"id", "_vector_record"} ELSE meta \cup {"id"}
WholeRow(row) == row = {} \/ \E m \in Metas : row = Stored(m)
RowsOK == Orderly => \A i \in Ids : WholeRow(rows[i])

(* One upsert at a time is past the lock of a Chroma client.               *)
Upserting(r) == r.op = "upsert" /\ r.step # "lock"
LockOK == driver \in Chroma => \A t \in VTasks : Upserting(call[t]) => vlock = t

(* What an upsert to Chroma removes is all that there is, unless the       *)
(* collection is another one meanwhile.                                    *)
ReadAll(r, table, now) ==
  /\ r.gen <= now
  /\ r.gen = now => \A i \in r.ids : CleanRow(table[i]) \subseteq r.old[i]
MergeOK ==
  Orderly /\ driver \in Chroma =>
    \A t \in VTasks : call[t].op = "upsert" /\ call[t].step = "act" => ReadAll(call[t], rows, gen)

(* What is known of the metric of a Milvus collection is true, unless a    *)
(* creation or deletion has overtaken a call or a deletion went unheard:   *)
(* the cache may be that of a former collection only while the task that   *)
(* deleted it waits for the reply.                                         *)
Calm == driver \in Milvus /\ ~overtaken /\ ~unheard
Reads(r)   == r.op \in {"describe", "search"} /\ r.step = "described"
Creates(r) == r.op = "create" /\ r.step = "reply"
Drops(r)   == r.op = "drop" /\ r.step = "reply"
Searches(r) == r.op = "search" /\ r.step = "act"
Knows(r, m) ==
  /\ Reads(r) \/ Creates(r) => m # "none" /\ r.metric = m
  /\ Searches(r) => m \in {"none", r.metric}
CacheTrue ==
  /\ Exists => cache \in {"none", metric}
  /\ ~Exists /\ cache # "none" => \E t \in VTasks : Drops(call[t])
MetricOK ==
  /\ Calm => CacheTrue /\ \A t \in VTasks : Knows(call[t], metric)
  /\ Calm => \A r \in late : r.op # "drop"

(* Without a fault, who looks again was refused: a creation because of the *)
(* collection that the call has noted, a deletion because there was none   *)
(* after it.                                                               *)
Excused(r) ==
  /\ r.step \in {"recheck", "there", "gone"} => r.gen <= gen
  /\ r.op = "create" /\ r.step = "gone" /\ Exists => r.gen < gen
  /\ r.op = "drop" /\ r.step \in {"recheck", "there"} /\ Exists => r.gen < gen
  /\ r.op = "drop" /\ r.step = "there" => r.gen < gen
RaceOK == driver \in Milvus /\ vfaults = 0 => \A t \in VTasks : Excused(call[t])

VecInv == VecTypeOK /\ RowsOK /\ LockOK /\ MergeOK /\ MetricOK /\ RaceOK

(* The SDK clients that are open: the one in use or in the hands of its    *)
(* creator, and those that could not be closed.                            *)
Held == IF session = "open" \/ opening \in {"created", "close"} THEN 1 ELSE 0
StrayInv ==
  /\ driver \in Drivers /\ clients \in Nat /\ unclosed \in Nat
  /\ session = "opening" <=> opening # "none"
  /\ driver = "chromaRemote" => opening \in {"none", "connect"}
  /\ driver # "chromaRemote" => opening # "connect" /\ clients = unclosed + Held

-----------------------------------------------------------------------------
(* Vector stores: the client                                               *)

(* Only creating and closing the client touches it.                        *)
LEMMA TasksKeepClient ==
  ASSUME NEW t \in VTasks, VectorTask(t)
  PROVE  UNCHANGED <<driver, clientV>>
<1>1. CASE VectorCalls(t)
  BY <1>1 DEF VectorCalls, CallVector, ReturnAtOnce
<1>2. CASE MilvusCheck(t) \/ MilvusDescribe(t) \/ MilvusDescribed(t) \/ MilvusCreateOrDrop(t)
           \/ MilvusRecheck(t) \/ MilvusRecheckReply(t)
           \/ MilvusWrite(t) \/ MilvusReply(t) \/ MilvusGet(t) \/ MilvusSearch(t)
  BY <1>2 DEF MilvusCheck, MilvusDescribe, MilvusDescribed, MilvusCreateOrDrop, MilvusRecheck,
     MilvusRecheckReply, MilvusWrite,
    MilvusReply,
     MilvusGet, MilvusSearch, Accepted
<1>3. CASE ElasticCheck(t) \/ ElasticCreateOrDrop(t) \/ ElasticBulk(t) \/ ElasticReply(t)
           \/ ElasticGet(t) \/ ElasticSearch(t) \/ ElasticDescribe(t)
           \/ \E done \in SUBSET Ids : ElasticBulkPartly(t, done)
  BY <1>3 DEF ElasticCheck, ElasticCreateOrDrop, ElasticBulk, ElasticReply, ElasticGet,
    ElasticSearch,
     ElasticDescribe, ElasticBulkPartly, Accepted
<1>4. CASE ChromaLock(t) \/ ChromaCheck(t) \/ ChromaReadOld(t) \/ ChromaCreateOrDrop(t)
           \/ ChromaWrite(t) \/ ChromaReply(t) \/ ChromaGet(t) \/ ChromaSearch(t)
  BY <1>4 DEF ChromaLock, ChromaCheck, ChromaReadOld, ChromaCreateOrDrop, ChromaWrite, ChromaReply,
     ChromaGet, ChromaSearch, Accepted
<1>5. CASE CancelCall(t) \/ MilvusFails(t) \/ ElasticFails(t) \/ ChromaFails(t)
  BY <1>5 DEF CancelCall, MilvusFails, ElasticFails, ChromaFails, RequestFails
<1> QED
  BY <1>1, <1>2, <1>3, <1>4, <1>5 DEF VectorTask

(* The steps of the client, one by one.                                    *)
LEMMA StrayStep == ASSUME StrayInv, ClientStep PROVE StrayInv'
<1> USE DEF Unrelated, clientV, StrayInv, Held
<1>1. CASE OpenClient \/ ElasticOpened
  BY <1>1 DEF OpenClient, ElasticOpened, Drivers, Milvus, Chroma
<1>2. CASE ThreadReturns
  BY <1>2 DEF ThreadReturns
<1>3. CASE ThreadRaises \/ CancelOpening
  BY <1>3 DEF ThreadRaises, CancelOpening
<1>4. CASE MilvusLoaded
  BY <1>4 DEF MilvusLoaded, HandOver
<1>5. CASE LocalOpened \/ ChromaConnected
  BY <1>5 DEF LocalOpened, ChromaConnected, HandOver
<1>6. CASE OpeningFails
  BY <1>6 DEF OpeningFails, OpeningEnds
<1>7. CASE CleanUp
  BY <1>7 DEF CleanUp
<1>8. CASE CleanedUp \/ CleanUpFails
  BY <1>8 DEF CleanedUp, CleanUpFails, OpeningEnds
<1>9. CASE ClientRefused
  BY <1>9 DEF ClientRefused
<1>10. CASE MilvusClose \/ ElasticClose \/ ChromaClose
  BY <1>10 DEF MilvusClose, ElasticClose, ChromaClose, CloseClient, Milvus, Chroma
<1> QED
  BY <1>1, <1>2, <1>3, <1>4, <1>5, <1>6, <1>7, <1>8, <1>9, <1>10 DEF ClientStep

(* No SDK client stays open behind a client that nobody got or that was    *)
(* closed, wherever the task that creates it is cancelled: the thread is   *)
(* waited for, and what it has created is closed.                          *)
THEOREM NoClientLeaks == VectorSpec => []NoStrayClient
<1>1. VectorInit => StrayInv
  BY DEF VectorInit, StrayInv, Held, Drivers
<1>2. StrayInv /\ [VectorNext]_vectorVars => StrayInv'
  <2> SUFFICES ASSUME StrayInv, [VectorNext]_vectorVars PROVE StrayInv'
    OBVIOUS
  <2>1. CASE UNCHANGED <<driver, clientV>>
    BY <2>1 DEF StrayInv, Held, clientV
  <2>2. CASE ClientStep
    BY <2>2, StrayStep
  <2>3. CASE \E t \in VTasks : VectorTask(t)
    BY <2>1, <2>3, TasksKeepClient
  <2>4. CASE \E r \in late : ExecuteLate(r)
    BY <2>1, <2>4 DEF ExecuteLate
  <2>5. CASE UNCHANGED vectorVars
    BY <2>1, <2>5 DEF vectorVars
  <2> QED
    BY <2>2, <2>3, <2>4, <2>5 DEF VectorNext
<1>3. StrayInv => NoStrayClient
  BY DEF StrayInv, NoStrayClient, Held
<1> QED
  BY <1>1, <1>2, <1>3, PTL DEF VectorSpec

-----------------------------------------------------------------------------
(* Vector stores: what a step does to the calls                            *)

(* In Milvus: where the metric that a call knows comes from, and that a    *)
(* deletion that is executed is heard of before the call goes on.          *)
KnownStep(t, new) ==
  /\ Creates(new) => /\ call[t].op = "create" /\ call[t].step = "act"
                     /\ Executable(call[t]) /\ Execute(call[t]) /\ new.metric = call[t].metric
  /\ Reads(new) => UNCHANGED <<storeV, cache>> /\ Exists /\ new.metric = metric
  /\ Searches(new) =>
       /\ UNCHANGED storeV
       /\ \/ new.metric = cache /\ cache # "none"
          \/ Reads(call[t]) /\ new.metric = call[t].metric
  /\ Drops(call[t]) => unheard' \/ cache' = "none"
  /\ call[t].op = "drop" /\ call[t].step = "act" => unheard' \/ UNCHANGED storeV \/ Drops(new)

(* And how it comes to look again.                                         *)
LooksAgain(t, new) ==
  new.step \in {"recheck", "there", "gone"} =>
    \/ vfaults' = vfaults + 1
    \/ /\ UNCHANGED storeV /\ new.op = call[t].op
       /\ \/ new.step = "recheck" /\ new.gen = gen /\ Exists = (new.op = "create")
          \/ /\ call[t].step = "recheck" /\ new.gen = call[t].gen
             /\ new.step = IF Exists THEN "there" ELSE "gone"

(* The record new becomes the call of t.                                   *)
CallStep(t, new) ==
  /\ call' = [call EXCEPT ![t] = new]
  /\ \/ new.op = "none" /\ vlock' = IF vlock = t THEN "none" ELSE vlock
     \/ call[t].op = "none" /\ vlock' = vlock /\ (driver \in Chroma => ~Upserting(new))
     \/ vlock = "none" /\ vlock' = t
     \/ vlock' = vlock /\ new.op = call[t].op /\ call[t].step # "lock"
  /\ driver \in Chroma /\ new.op = "upsert" /\ new.step = "act" =>
       UNCHANGED storeV /\ ReadAll(new, rows, gen)
  /\ driver \in Milvus => KnownStep(t, new) /\ LooksAgain(t, new)

(* A task without an operation.                                            *)
LEMMA NoCallType == NoCall \in Calls /\ NoCall.op = "none" /\ NoCall.step = "idle" /\ ~Upserting(NoCall)
<1>1. [i \in Ids |-> {}] \in [Ids -> SUBSET Fields]
  OBVIOUS
<1> HIDE DEF Fields
<1> QED
  BY <1>1 DEF NoCall, Calls, Upserting, Steps, Values

(* A call moves on.                                                        *)
LEMMA MovedType ==
  ASSUME NEW r \in Calls, NEW s \in Steps
  PROVE  /\ [r EXCEPT !.step = s] \in Calls
         /\ [r EXCEPT !.step = s].op = r.op /\ [r EXCEPT !.step = s].step = s
         /\ [r EXCEPT !.step = s].metric = r.metric /\ [r EXCEPT !.step = s].gen = r.gen
  BY DEF Calls, Steps

(* A deletion that ends is heard of.                                       *)
DropHeard(t) ==
  driver \in Milvus /\ call[t].op = "drop" =>
    /\ call[t].step = "reply" => unheard' \/ cache' = "none"
    /\ call[t].step = "act" => unheard' \/ UNCHANGED storeV

(* An operation that ends leaves its task without one.                     *)
LEMMA EndStep ==
  ASSUME VecTypeOK, NEW t \in VTasks, NEW out, NEW seen, NEW order, EndWith(t, out, seen, order),
         DropHeard(t)
  PROVE  CallStep(t, NoCall)
<1>1. driver \in Milvus => KnownStep(t, NoCall) /\ LooksAgain(t, NoCall)
  BY NoCallType DEF DropHeard, KnownStep, LooksAgain, Creates, Reads, Searches, Drops
<1> QED
  BY <1>1, NoCallType DEF EndWith, CallStep

(* A step to the next await changes nothing but the place.                 *)
LEMMA GotoStep ==
  ASSUME VecTypeOK, NEW t \in VTasks, NEW s \in Steps, VGoto(t, s), call[t].step # "lock",
         s = "act" => ~(driver \in Chroma /\ call[t].op = "upsert"),
         driver \in Milvus =>
           /\ s \notin {"described", "recheck"} /\ ~Drops(call[t])
           /\ s = "act" /\ call[t].op = "search" => UNCHANGED storeV /\ Reads(call[t])
           /\ s \in {"there", "gone"} =>
                UNCHANGED storeV /\ call[t].step = "recheck" /\ s = IF Exists THEN "there" ELSE "gone"
           /\ s = "reply" => call[t].step = "act" /\ Executable(call[t]) /\ Execute(call[t])
           /\ s # "reply" /\ call[t].step = "act" => UNCHANGED storeV
  PROVE  \E new \in Calls : CallStep(t, new)
<1> DEFINE new == [call[t] EXCEPT !.step = s]
<1>1. call[t] \in Calls
  BY DEF VecTypeOK
<1>2. /\ new \in Calls /\ new.op = call[t].op /\ new.step = s /\ new.metric = call[t].metric
      /\ new.gen = call[t].gen
  BY <1>1, MovedType
<1>3. call' = [call EXCEPT ![t] = new] /\ vlock' = vlock
  BY DEF VGoto
<1> HIDE DEF new
<1>4. driver \in Milvus => KnownStep(t, new)
  BY <1>2 DEF KnownStep, Creates, Reads, Searches, Drops
<1>5. driver \in Milvus => LooksAgain(t, new)
  BY <1>2 DEF LooksAgain
<1>6. CallStep(t, new)
  BY <1>2, <1>3, <1>4, <1>5 DEF CallStep
<1> QED
  BY <1>2, <1>6

(* The store changes when a request is executed, in whole or in part; the  *)
(* cache of metrics when an answer has arrived.                            *)
Part(r, c) ==
  /\ r.op = c.op /\ r.meta = c.meta /\ r.ids \subseteq c.ids
  /\ r.old = c.old /\ r.gen = c.gen /\ r.metric = c.metric
StoreStep(t) ==
  \/ UNCHANGED storeV
  \/ /\ cache' = cache /\ call[t].step = "act"
     /\ \E r \in Calls : Part(r, call[t]) /\ Executable(r) /\ Execute(r)
OtherStep(t) ==
  /\ driver' = driver /\ vfaults' \in {vfaults, vfaults + 1}
  /\ unheard' \in BOOLEAN /\ (unheard => unheard')
  /\ \/ late' = late
     \/ /\ late' = late \cup {call[t]} /\ driver \notin Local /\ vfaults' = vfaults + 1
        /\ driver \in Milvus /\ call[t].op = "drop" => unheard'
  /\ \/ cache' \in {cache, "none"}
     \/ driver \in Milvus /\ (Creates(call[t]) \/ Reads(call[t])) /\ cache' = call[t].metric
TaskStep(t) == (\E new \in Calls : CallStep(t, new)) /\ StoreStep(t) /\ OtherStep(t)

(* A call that ends and leaves the store alone.                            *)
LEMMA EndsQuietly ==
  ASSUME VecTypeOK, NEW t \in VTasks, NEW out, NEW seen, NEW order, EndWith(t, out, seen, order),
         UNCHANGED <<driver, storeV, late, cacheV, vfaults>>, driver \in Milvus => ~Drops(call[t])
  PROVE  TaskStep(t)
<1>0. DropHeard(t)
  BY DEF DropHeard, Drops
<1>1. CallStep(t, NoCall) /\ NoCall \in Calls
  BY <1>0, EndStep, NoCallType
<1>2. StoreStep(t) /\ OtherStep(t)
  BY DEF StoreStep, OtherStep, cacheV, VecTypeOK
<1> QED
  BY <1>1, <1>2 DEF TaskStep

(* A call that goes on to a request, and leaves the store alone.           *)
LEMMA GoesOn ==
  ASSUME VecTypeOK, NEW t \in VTasks, NEW s \in Steps, VGoto(t, s), call[t].step # "lock", s # "reply",
         s = "act" => ~(driver \in Chroma /\ call[t].op = "upsert"),
         driver \in Milvus => /\ s \notin {"described", "recheck", "there", "gone"} /\ ~Drops(call[t])
                              /\ s = "act" => call[t].op # "search",
         UNCHANGED <<driver, storeV, late, cacheV, vfaults>>
  PROVE  TaskStep(t)
<1>1. \E new \in Calls : CallStep(t, new)
  BY GotoStep
<1>2. StoreStep(t) /\ OtherStep(t)
  BY DEF StoreStep, OtherStep, cacheV, VecTypeOK
<1> QED
  BY <1>1, <1>2 DEF TaskStep

(* A request that the backend executes.                                    *)
LEMMA AcceptedStep ==
  ASSUME VecTypeOK, NEW t \in VTasks, Accepted(t), Executable(call[t]), call[t].step = "act"
  PROVE  TaskStep(t)
<1>0. call[t] \in Calls /\ "reply" \in Steps
  BY DEF VecTypeOK, Steps
<1>1. /\ Execute(call[t]) /\ VGoto(t, "reply")
      /\ UNCHANGED <<driver, late, cacheV, vfaults>>
  BY DEF Accepted
<1>2. \E new \in Calls : CallStep(t, new)
  BY <1>0, <1>1, GotoStep DEF Drops
<1>3. StoreStep(t)
  BY <1>0, <1>1 DEF StoreStep, Part, cacheV
<1>4. OtherStep(t)
  BY <1>1 DEF OtherStep, cacheV, VecTypeOK
<1> QED
  BY <1>2, <1>3, <1>4 DEF TaskStep

(* The first step of a call.                                               *)
LEMMA CallVectorStep ==
  ASSUME VecTypeOK, NEW t \in VTasks,
         NEW op \in {"create", "drop", "describe", "upsert", "get", "remove", "search"},
         NEW m \in Values, op = "create" => m \in Metrics, NEW ids \in SUBSET Ids, NEW meta \in SUBSET Fields,
         op = "upsert" => meta \in Metas,
         CallVector(t, op, m, ids, meta)
  PROVE  TaskStep(t)
<1> DEFINE known == IF op = "search" THEN cache ELSE m
           new == [NoCall EXCEPT !.op = op, !.ids = ids, !.meta = meta, !.step = FirstRequest(op),
                                 !.metric = known]
<1>1. FirstRequest(op) \in {"act", "lock", "check"}
  BY DEF FirstRequest
<1>2. /\ FirstRequest(op) = "act" => op = "search" /\ driver \in Milvus /\ cache # "none"
      /\ op = "upsert" /\ driver \in Chroma => FirstRequest(op) = "lock"
  BY DEF FirstRequest
<1>3. /\ known \in Values /\ (op = "search" => known = cache)
      /\ op = "create" => known \in Metrics
  BY DEF VecTypeOK
<1>4. call' = [call EXCEPT ![t] = new] /\ call[t] = NoCall
  BY DEF CallVector
<1>5. UNCHANGED <<driver, storeV, late, cacheV, vlock, vfaults>>
  BY DEF CallVector
<1> HIDE DEF known
<1>7. new \in Calls /\ new.op = op /\ new.step = FirstRequest(op) /\ new.metric = known
  BY <1>1, <1>3, NoCallType DEF Calls, Steps
<1>8. new.op = op /\ new.step = FirstRequest(op) /\ new.metric = known
  BY <1>7
<1> HIDE DEF new
<1>9. CallStep(t, new)
  <2>1. driver \in Chroma => ~Upserting(new)
    BY <1>2, <1>8 DEF Upserting
  <2>2. call[t].op = "none"
    BY <1>4, NoCallType
  <2>3. new.step = "act" => new.op = "search" /\ new.metric = cache /\ cache # "none"
    BY <1>2, <1>3, <1>8
  <2>4. new.step # "reply"
    BY <1>1, <1>8
  <2> QED
    <3>1. KnownStep(t, new)
      BY <1>1, <1>5, <1>8, <2>2, <2>3 DEF KnownStep, Creates, Reads, Searches, Drops
    <3>2. LooksAgain(t, new)
      BY <1>1, <1>8 DEF LooksAgain
    <3> QED
      BY <1>4, <1>5, <2>1, <2>2, <2>3, <2>4, <3>1, <3>2 DEF CallStep
<1>10. StoreStep(t) /\ OtherStep(t)
  BY <1>5 DEF StoreStep, OtherStep, cacheV, VecTypeOK
<1> QED
  BY <1>7, <1>9, <1>10 DEF TaskStep

(* Starting an operation is a TaskStep.                                    *)
LEMMA VectorCallsStep ==
  ASSUME VecTypeOK, NEW t \in VTasks, VectorCalls(t) PROVE TaskStep(t)
<1>0. /\ {} \in SUBSET Fields /\ {} \in SUBSET Ids /\ \A meta \in Metas : meta \in SUBSET Fields
      /\ "none" \in Values /\ Metrics \subseteq Values
  BY DEF Fields, Values
<1>1. ASSUME NEW m \in Metrics, CallVector(t, "create", m, {}, {}) PROVE TaskStep(t)
  BY <1>0, <1>1, CallVectorStep
<1>2. ASSUME NEW op \in {"drop", "describe", "search"}, CallVector(t, op, "none", {}, {}) PROVE TaskStep(t)
  BY <1>0, <1>2, CallVectorStep
<1>3. ASSUME NEW op \in {"get", "remove"}, NEW ids \in SUBSET Ids \ {{}}, CallVector(t, op, "none", ids, {})
      PROVE  TaskStep(t)
  BY <1>0, <1>3, CallVectorStep
<1>4. ASSUME NEW ids \in SUBSET Ids \ {{}}, NEW meta \in Metas, CallVector(t, "upsert", "none", ids, meta)
      PROVE  TaskStep(t)
  BY <1>0, <1>4, CallVectorStep
<1>5. ASSUME NEW op, NEW out, ReturnAtOnce(t, op, out) PROVE TaskStep(t)
  <2>1. call[t] = NoCall /\ UNCHANGED <<call, vlock, driver, storeV, late, cacheV, vfaults>>
    BY <1>5 DEF ReturnAtOnce
  <2>2. call' = [call EXCEPT ![t] = NoCall]
    BY <2>1 DEF VecTypeOK
  <2>3. KnownStep(t, NoCall) /\ LooksAgain(t, NoCall)
    BY <2>1, NoCallType DEF KnownStep, LooksAgain, Creates, Reads, Searches, Drops
  <2>4. CallStep(t, NoCall)
    BY <2>1, <2>2, <2>3, NoCallType DEF CallStep
  <2>5. StoreStep(t) /\ OtherStep(t)
    BY <2>1 DEF StoreStep, OtherStep, cacheV, VecTypeOK
  <2> QED
    BY <2>4, <2>5, NoCallType DEF TaskStep
<1> QED
  BY <1>1, <1>2, <1>3, <1>4, <1>5 DEF VectorCalls

(* Every step of the Milvus driver is a TaskStep.                          *)
LEMMA MilvusStep ==
  ASSUME VecTypeOK, NEW t \in VTasks,
         MilvusCheck(t) \/ MilvusDescribe(t) \/ MilvusDescribed(t) \/ MilvusCreateOrDrop(t)
           \/ MilvusRecheck(t) \/ MilvusRecheckReply(t)
           \/ MilvusWrite(t) \/ MilvusReply(t) \/ MilvusGet(t) \/ MilvusSearch(t)
  PROVE  TaskStep(t)
<1>0. {"act", "describe", "there", "gone"} \subseteq Steps /\ call[t] \in Calls
  BY DEF Steps, VecTypeOK
<1>d. driver \in Milvus => driver \notin Chroma
  BY DEF Milvus, Chroma
<1>1. CASE MilvusCheck(t)
  <2>1. /\ call[t].step = "check" /\ UNCHANGED <<driver, storeV, late, cacheV, vfaults>>
        /\ driver \in Milvus /\ ~Drops(call[t])
    BY <1>1 DEF MilvusCheck, VStep, Drops
  <2>2. CASE Exists = (call[t].op = "create")
    BY <1>1, <2>1, <2>2, EndsQuietly DEF MilvusCheck, End
  <2>3. CASE Exists # (call[t].op = "create")
    <3>1. PICK s \in {"act", "describe"} : VGoto(t, s) /\ (s = "act" => call[t].op # "search")
      BY <1>1, <2>3 DEF MilvusCheck
    <3> QED
      BY <1>0, <1>d, <2>1, <3>1, GoesOn
  <2> QED
    BY <2>2, <2>3
<1>2. CASE MilvusDescribe(t)
  <2>1. /\ call[t].step = "describe" /\ call[t].op \in {"describe", "search"} /\ driver \in Milvus
        /\ UNCHANGED <<driver, storeV, late, cacheV, vfaults>> /\ ~Drops(call[t])
    BY <1>2 DEF MilvusDescribe, VStep, Drops
  <2>2. CASE Exists
    <3> DEFINE new == [call[t] EXCEPT !.step = "described", !.metric = metric]
    <3>1. call' = [call EXCEPT ![t] = new] /\ vlock' = vlock
      BY <1>2, <2>2 DEF MilvusDescribe
    <3>2. new \in Calls /\ new.op = call[t].op /\ new.step = "described" /\ new.metric = metric
      BY <1>0, <2>1 DEF Calls, VecTypeOK, Steps
    <3> HIDE DEF new
    <3>3. KnownStep(t, new) /\ LooksAgain(t, new)
      BY <2>1, <2>2, <3>2 DEF KnownStep, LooksAgain, Creates, Reads, Searches, Drops, cacheV
    <3>4. CallStep(t, new)
      BY <1>d, <2>1, <3>1, <3>2, <3>3 DEF CallStep
    <3>5. StoreStep(t) /\ OtherStep(t)
      BY <2>1 DEF StoreStep, OtherStep, cacheV, VecTypeOK
    <3> QED
      BY <3>2, <3>4, <3>5 DEF TaskStep
  <2>3. CASE ~Exists
    BY <1>2, <2>1, <2>3, EndsQuietly DEF MilvusDescribe, End
  <2> QED
    BY <2>2, <2>3
<1>3. CASE MilvusDescribed(t)
  <2>1. /\ Reads(call[t]) /\ driver \in Milvus /\ cache' = call[t].metric
        /\ UNCHANGED <<driver, storeV, late, unheard, vfaults>> /\ call[t].step = "described"
        /\ call[t].op \in {"describe", "search"}
    BY <1>3 DEF MilvusDescribed, VStep, Reads
  <2>2. StoreStep(t) /\ OtherStep(t)
    BY <2>1 DEF StoreStep, OtherStep, VecTypeOK
  <2>3. CASE call[t].op = "search"
    <3>1. VGoto(t, "act")
      BY <1>3, <2>3 DEF MilvusDescribed
    <3>2. \E new \in Calls : CallStep(t, new)
      BY <1>0, <1>d, <2>1, <2>3, <3>1, GotoStep DEF Drops
    <3> QED
      BY <2>2, <3>2 DEF TaskStep
  <2>4. CASE call[t].op # "search"
    <3>1. End(t, "ok") /\ DropHeard(t)
      BY <1>3, <2>1, <2>4 DEF MilvusDescribed, DropHeard
    <3> QED
      BY <2>2, <3>1, EndStep, NoCallType DEF TaskStep, End
  <2> QED
    BY <2>3, <2>4
<1>4. CASE MilvusCreateOrDrop(t)
  <2>1. /\ call[t].step = "act" /\ call[t].op \in {"create", "drop"} /\ driver \in Milvus
        /\ ~Drops(call[t])
    BY <1>4 DEF MilvusCreateOrDrop, VStep, Drops
  <2>2. CASE Executable(call[t])
    BY <1>4, <2>1, <2>2, AcceptedStep DEF MilvusCreateOrDrop
  <2>3. CASE ~Executable(call[t])
    <3>1. LookAgain(t) /\ UNCHANGED <<driver, storeV, late, cacheV, vfaults>>
      BY <1>4, <2>3 DEF MilvusCreateOrDrop
    <3>2. Exists = (call[t].op = "create")
      BY <1>d, <2>1, <2>3 DEF Executable, Reaches, Exists
    <3> DEFINE new == [call[t] EXCEPT !.step = "recheck", !.gen = gen]
    <3>3. call' = [call EXCEPT ![t] = new] /\ vlock' = vlock
      BY <3>1 DEF LookAgain
    <3>4. new \in Calls /\ new.op = call[t].op /\ new.step = "recheck" /\ new.gen = gen
      BY <1>0, <2>1 DEF Calls, VecTypeOK, Steps
    <3> HIDE DEF new
    <3>5. KnownStep(t, new) /\ LooksAgain(t, new)
      BY <2>1, <3>1, <3>2, <3>4 DEF KnownStep, LooksAgain, Creates, Reads, Searches
    <3>6. CallStep(t, new)
      BY <1>d, <2>1, <3>3, <3>4, <3>5 DEF CallStep
    <3>7. StoreStep(t) /\ OtherStep(t)
      BY <3>1 DEF StoreStep, OtherStep, cacheV, VecTypeOK
    <3> QED
      BY <3>4, <3>6, <3>7 DEF TaskStep
  <2> QED
    BY <2>2, <2>3
<1>5. CASE MilvusRecheck(t)
  <2>1. /\ call[t].step = "recheck" /\ driver \in Milvus /\ ~Drops(call[t])
        /\ UNCHANGED <<driver, storeV, late, cacheV, vfaults>>
    BY <1>5 DEF MilvusRecheck, VStep, Drops
  <2>2. PICK s \in {"there", "gone"} : VGoto(t, s) /\ s = IF Exists THEN "there" ELSE "gone"
    BY <1>5 DEF MilvusRecheck
  <2>3. \E new \in Calls : CallStep(t, new)
    BY <1>0, <2>1, <2>2, GotoStep
  <2>4. StoreStep(t) /\ OtherStep(t)
    BY <2>1 DEF StoreStep, OtherStep, cacheV, VecTypeOK
  <2> QED
    BY <2>3, <2>4 DEF TaskStep
<1>6. CASE MilvusRecheckReply(t) \/ MilvusReply(t)
  <2>1. UNCHANGED <<driver, storeV, late, unheard, vfaults>> /\ driver \in Milvus
    BY <1>6 DEF MilvusRecheckReply, MilvusReply
  <2>2. PICK out \in {"conflict", "notfound", "operation", "ok"} : End(t, out)
    BY <1>6 DEF MilvusRecheckReply, MilvusReply
  <2>3. DropHeard(t)
    BY <1>6, <2>1 DEF DropHeard, MilvusRecheckReply, MilvusReply, VStep
  <2>4. CallStep(t, NoCall)
    BY <2>2, <2>3, EndStep DEF End
  <2>5. \/ cache' \in {cache, "none"}
        \/ Creates(call[t]) /\ cache' = call[t].metric
    BY <1>6 DEF MilvusRecheckReply, MilvusReply, VStep, Creates
  <2>6. OtherStep(t)
    BY <2>1, <2>5 DEF OtherStep, VecTypeOK
  <2>7. StoreStep(t)
    BY <2>1 DEF StoreStep
  <2> QED
    BY <2>4, <2>6, <2>7, NoCallType DEF TaskStep
<1>7. CASE MilvusWrite(t)
  <2>1. call[t].step = "act" /\ ~Drops(call[t])
    BY <1>7 DEF MilvusWrite, VStep, Drops
  <2>2. CASE Executable(call[t])
    BY <1>7, <2>1, <2>2, AcceptedStep DEF MilvusWrite
  <2>3. CASE ~Executable(call[t])
    BY <1>7, <2>1, <2>3, EndsQuietly DEF MilvusWrite, End
  <2> QED
    BY <2>2, <2>3
<1>8. CASE MilvusGet(t) \/ MilvusSearch(t)
  <2>1. UNCHANGED <<driver, storeV, late, cacheV, vfaults>> /\ ~Drops(call[t])
    BY <1>8 DEF MilvusGet, MilvusSearch, VStep, Drops
  <2>2. \E out, seen, order : EndWith(t, out, seen, order)
    BY <1>8 DEF MilvusGet, MilvusSearch, End
  <2> QED
    BY <2>1, <2>2, EndsQuietly
<1> QED
  BY <1>1, <1>2, <1>3, <1>4, <1>5, <1>6, <1>7, <1>8

(* Every step of the Elasticsearch driver is a TaskStep.                   *)
LEMMA ElasticStep ==
  ASSUME VecTypeOK, NEW t \in VTasks,
         ElasticCheck(t) \/ ElasticCreateOrDrop(t) \/ ElasticBulk(t) \/ ElasticReply(t)
           \/ ElasticGet(t) \/ ElasticSearch(t) \/ ElasticDescribe(t)
           \/ \E done \in SUBSET Ids : ElasticBulkPartly(t, done)
  PROVE  TaskStep(t)
<1>0. "act" \in Steps /\ call[t] \in Calls
  BY DEF Steps, VecTypeOK
<1>d. driver = "elasticsearch" => driver \notin Chroma /\ driver \notin Milvus /\ driver \notin Local
  BY DEF Milvus, Chroma, Local
<1>1. CASE ElasticCheck(t)
  <2>1. call[t].step = "check" /\ UNCHANGED <<driver, storeV, late, cacheV, vfaults>> /\ driver = "elasticsearch"
    BY <1>1 DEF ElasticCheck, VStep
  <2>2. CASE Exists = (call[t].op = "create")
    BY <1>1, <1>d, <2>1, <2>2, EndsQuietly DEF ElasticCheck, End
  <2>3. CASE Exists # (call[t].op = "create")
    <3>1. VGoto(t, "act")
      BY <1>1, <2>3 DEF ElasticCheck
    <3> QED
      BY <1>0, <1>d, <2>1, <3>1, GoesOn
  <2> QED
    BY <2>2, <2>3
<1>2. CASE ElasticCreateOrDrop(t)
  <2>1. call[t].step = "act" /\ driver \notin Milvus
    BY <1>2, <1>d DEF ElasticCreateOrDrop, VStep
  <2>2. CASE Executable(call[t])
    BY <1>2, <2>1, <2>2, AcceptedStep DEF ElasticCreateOrDrop
  <2>3. CASE ~Executable(call[t])
    BY <1>2, <2>1, <2>3, EndsQuietly DEF ElasticCreateOrDrop, End
  <2> QED
    BY <2>2, <2>3
<1>3. CASE ElasticBulk(t)
  <2>1. call[t].step = "act" /\ driver \notin Milvus
    BY <1>3, <1>d DEF ElasticBulk, VStep
  <2>2. CASE Executable(call[t]) /\ Accepted(t)
    BY <2>1, <2>2, AcceptedStep
  <2>3. CASE ~(Executable(call[t]) /\ Accepted(t))
    BY <1>3, <2>1, <2>3, EndsQuietly DEF ElasticBulk, End
  <2> QED
    BY <2>2, <2>3
<1>4. CASE ElasticReply(t) \/ ElasticGet(t) \/ ElasticSearch(t) \/ ElasticDescribe(t)
  <2>1. UNCHANGED <<driver, storeV, late, cacheV, vfaults>> /\ driver \notin Milvus
    BY <1>4, <1>d DEF ElasticReply, ElasticGet, ElasticSearch, ElasticDescribe
  <2>2. \E out, seen, order : EndWith(t, out, seen, order)
    BY <1>4 DEF ElasticReply, ElasticGet, ElasticSearch, ElasticDescribe, End
  <2> QED
    BY <2>1, <2>2, EndsQuietly
<1>5. ASSUME NEW done \in SUBSET Ids, ElasticBulkPartly(t, done) PROVE TaskStep(t)
  <2> DEFINE r == [call[t] EXCEPT !.ids = done]
  <2>1. /\ call[t].step = "act" /\ done \in SUBSET call[t].ids /\ MayExecute(r) /\ End(t, "operation")
        /\ vfaults' = vfaults + 1 /\ UNCHANGED <<driver, late, cacheV>> /\ driver \notin Milvus
    BY <1>5, <1>d DEF ElasticBulkPartly, VStep, VFault
  <2>2. r \in Calls /\ Part(r, call[t])
    BY <1>0, <2>1 DEF Calls, Part
  <2> HIDE DEF r
  <2>3. CallStep(t, NoCall)
    BY <2>1, EndStep DEF End, DropHeard
  <2>4. StoreStep(t)
    BY <2>1, <2>2 DEF StoreStep, MayExecute, cacheV
  <2>5. OtherStep(t)
    BY <2>1 DEF OtherStep, cacheV, VecTypeOK
  <2> QED
    BY <2>3, <2>4, <2>5, NoCallType DEF TaskStep
<1> QED
  BY <1>1, <1>2, <1>3, <1>4, <1>5

(* What ChromaReadOld reads is metadata.                                   *)
LEMMA CleanType == ASSUME VecTypeOK, NEW r \in Calls PROVE OldFields(r) \in [Ids -> SUBSET Fields]
<1>1. \A i \in Ids : CleanRow(rows[i]) \in SUBSET Fields
  BY DEF VecTypeOK, CleanRow
<1> QED
  BY <1>1 DEF OldFields

(* Every step of the Chroma driver is a TaskStep.                          *)
LEMMA ChromaStep ==
  ASSUME VecTypeOK, NEW t \in VTasks,
         ChromaLock(t) \/ ChromaCheck(t) \/ ChromaReadOld(t) \/ ChromaCreateOrDrop(t)
           \/ ChromaWrite(t) \/ ChromaReply(t) \/ ChromaGet(t) \/ ChromaSearch(t)
  PROVE  TaskStep(t)
<1>0. call[t] \in Calls /\ gen \in Nat
  BY DEF VecTypeOK
<1>d. driver \in Chroma => driver \notin Milvus
  BY DEF Milvus, Chroma
<1>1. CASE ChromaLock(t)
  <2> DEFINE new == [call[t] EXCEPT !.step = "check"]
  <2>1. /\ call' = [call EXCEPT ![t] = new] /\ vlock = "none" /\ vlock' = t /\ driver \in Chroma
        /\ UNCHANGED <<driver, storeV, late, cacheV, vfaults>>
    BY <1>1 DEF ChromaLock
  <2>2. new \in Calls /\ new.step = "check"
    BY <1>0, MovedType DEF Steps
  <2> HIDE DEF new
  <2>3. CallStep(t, new)
    BY <1>d, <2>1, <2>2 DEF CallStep
  <2>4. StoreStep(t) /\ OtherStep(t)
    BY <2>1 DEF StoreStep, OtherStep, cacheV, VecTypeOK
  <2> QED
    BY <2>2, <2>3, <2>4 DEF TaskStep
<1>2. CASE ChromaCheck(t)
  <2>1. /\ call[t].step = "check" /\ driver \in Chroma
        /\ UNCHANGED <<driver, storeV, late, cacheV, vfaults>>
    BY <1>2 DEF ChromaCheck, VStep
  <2> DEFINE goal == IF call[t].op = "upsert" THEN "read" ELSE "act"
             new == [call[t] EXCEPT !.step = goal, !.gen = gen]
  <2>2. CASE \E out : End(t, out)
    BY <1>d, <2>1, <2>2, EndsQuietly DEF End
  <2>3. CASE call' = [call EXCEPT ![t] = new] /\ vlock' = vlock
    <3>1. goal \in {"read", "act"} /\ (call[t].op = "upsert" => goal # "act")
      OBVIOUS
    <3> HIDE DEF goal
    <3>2. new \in Calls /\ new.op = call[t].op /\ new.step = goal
      BY <1>0, <3>1 DEF Calls, Steps
    <3> HIDE DEF new
    <3>3. CallStep(t, new)
      BY <1>d, <2>1, <2>3, <3>1, <3>2 DEF CallStep
    <3>4. StoreStep(t) /\ OtherStep(t)
      BY <2>1 DEF StoreStep, OtherStep, cacheV, VecTypeOK
    <3> QED
      BY <3>2, <3>3, <3>4 DEF TaskStep
  <2>4. \/ \E out : End(t, out)
        \/ call' = [call EXCEPT ![t] = new] /\ vlock' = vlock
    BY <1>2 DEF ChromaCheck
  <2> QED
    BY <2>2, <2>3, <2>4
<1>3. CASE ChromaReadOld(t)
  <2>1. /\ call[t].step = "read" /\ call[t].op = "upsert" /\ driver \in Chroma
        /\ UNCHANGED <<driver, storeV, late, cacheV, vfaults>>
    BY <1>3 DEF ChromaReadOld, VStep
  <2> DEFINE new == [call[t] EXCEPT !.step = "act", !.old = OldFields(call[t])]
  <2>2. CASE Reaches(call[t])
    <3>1. call' = [call EXCEPT ![t] = new] /\ vlock' = vlock
      BY <1>3, <2>2 DEF ChromaReadOld
    <3>2. call[t].gen = gen
      BY <2>1, <2>2 DEF Reaches
    <3>3. OldFields(call[t]) \in [Ids -> SUBSET Fields]
      BY <1>0, CleanType
    <3>4. /\ new \in Calls /\ new.op = call[t].op /\ new.step = "act" /\ new.gen = call[t].gen
          /\ new.old = OldFields(call[t]) /\ new.ids = call[t].ids /\ new.ids \subseteq Ids
      BY <1>0, <3>3 DEF Calls, Steps
    <3> HIDE DEF new
    <3>5. ReadAll(new, rows, gen)
      BY <1>0, <3>2, <3>4 DEF ReadAll, OldFields
    <3>6. CallStep(t, new)
      BY <1>d, <2>1, <3>1, <3>4, <3>5 DEF CallStep
    <3>7. StoreStep(t) /\ OtherStep(t)
      BY <2>1 DEF StoreStep, OtherStep, cacheV, VecTypeOK
    <3> QED
      BY <3>4, <3>6, <3>7 DEF TaskStep
  <2>3. CASE ~Reaches(call[t])
    BY <1>3, <1>d, <2>1, <2>3, EndsQuietly DEF ChromaReadOld, End
  <2> QED
    BY <2>2, <2>3
<1>4. CASE ChromaCreateOrDrop(t)
  <2>1. call[t].step = "act" /\ driver \notin Milvus
    BY <1>4, <1>d DEF ChromaCreateOrDrop, VStep
  <2>2. CASE Executable(call[t])
    BY <1>4, <2>1, <2>2, AcceptedStep DEF ChromaCreateOrDrop
  <2>3. CASE ~Executable(call[t])
    BY <1>4, <2>1, <2>3, EndsQuietly DEF ChromaCreateOrDrop, End
  <2> QED
    BY <2>2, <2>3
<1>5. CASE ChromaWrite(t)
  <2>1. call[t].step = "act" /\ driver \notin Milvus
    BY <1>5, <1>d DEF ChromaWrite, VStep
  <2>2. CASE Executable(call[t])
    BY <1>5, <2>1, <2>2, AcceptedStep DEF ChromaWrite
  <2>3. CASE ~Executable(call[t])
    BY <1>5, <2>1, <2>3, EndsQuietly DEF ChromaWrite, End
  <2> QED
    BY <2>2, <2>3
<1>6. CASE ChromaReply(t) \/ ChromaGet(t) \/ ChromaSearch(t)
  <2>1. UNCHANGED <<driver, storeV, late, cacheV, vfaults>> /\ driver \notin Milvus
    BY <1>6, <1>d DEF ChromaReply, ChromaGet, ChromaSearch
  <2>2. \E out, seen, order : EndWith(t, out, seen, order)
    BY <1>6 DEF ChromaReply, ChromaGet, ChromaSearch, End
  <2> QED
    BY <2>1, <2>2, EndsQuietly
<1> QED
  BY <1>1, <1>2, <1>3, <1>4, <1>5, <1>6

(* Requests that fail and tasks that are cancelled.                        *)
LEMMA FaultStep ==
  ASSUME VecTypeOK, NEW t \in VTasks,
         CancelCall(t) \/ MilvusFails(t) \/ ElasticFails(t) \/ ChromaFails(t)
  PROVE  TaskStep(t)
<1>0. call[t] \in Calls /\ unheard \in BOOLEAN /\ gen \in Nat
  BY DEF VecTypeOK
<1>d. driver \in Milvus => driver \notin Chroma
  BY DEF Milvus, Chroma
<1>1. ASSUME Writing(t), MayExecute(call[t]), cache' = cache PROVE StoreStep(t)
  BY <1>0, <1>1 DEF StoreStep, Writing, MayExecute, Part
<1>2. ASSUME LeftBehind(t), cache' = cache
      PROVE  StoreStep(t) /\ (late' = late \/ (late' = late \cup {call[t]} /\ call[t].step = "act"))
  BY <1>1, <1>2 DEF LeftBehind, StoreStep, Writing
<1>3. ASSUME unheard' = (unheard \/ DropUnheard(t))
      PROVE  /\ unheard' \in BOOLEAN /\ (unheard => unheard')
             /\ driver \in Milvus /\ call[t].op = "drop" /\ call[t].step \in {"act", "reply"} => unheard'
             /\ DropHeard(t)
  BY <1>0, <1>3 DEF DropUnheard, DropHeard
<1>4. ASSUME NEW out, RequestFails(t, out) PROVE TaskStep(t)
  <2>1. /\ UNCHANGED <<driver, cache>> /\ vfaults' = vfaults + 1 /\ Waiting(t)
        /\ unheard' = (unheard \/ DropUnheard(t))
    BY <1>4 DEF RequestFails, VFault
  <2>2. StoreStep(t) /\ OtherStep(t)
    <3>1. CASE driver \in Local
      BY <1>3, <1>4, <2>1, <3>1 DEF RequestFails, StoreStep, OtherStep
    <3>2. CASE driver \notin Local
      <4>1. StoreStep(t) /\ (late' = late \/ (late' = late \cup {call[t]} /\ call[t].step = "act"))
        BY <1>2, <1>4, <2>1, <3>2 DEF RequestFails
      <4> QED
        BY <1>3, <2>1, <3>2, <4>1 DEF OtherStep
    <3> QED
      BY <3>1, <3>2
  <2>3. CASE End(t, out)
    BY <1>3, <2>1, <2>2, <2>3, EndStep, NoCallType DEF TaskStep, End
  <2>4. CASE LookAgain(t) /\ driver \in Milvus /\ call[t].op \in {"create", "drop"}
             /\ call[t].step \in {"act", "reply"}
    <3> DEFINE new == [call[t] EXCEPT !.step = "recheck", !.gen = gen]
    <3>1. call' = [call EXCEPT ![t] = new] /\ vlock' = vlock
      BY <2>4 DEF LookAgain
    <3>2. new \in Calls /\ new.op = call[t].op /\ new.step = "recheck"
      BY <1>0 DEF Calls, Steps
    <3> HIDE DEF new
    <3>3. KnownStep(t, new) /\ LooksAgain(t, new)
      BY <1>3, <2>1, <2>4, <3>2 DEF KnownStep, LooksAgain, Creates, Reads, Searches, Drops
    <3>4. CallStep(t, new)
      BY <1>d, <2>4, <3>1, <3>2, <3>3 DEF CallStep
    <3> QED
      BY <2>2, <3>2, <3>4 DEF TaskStep
  <2> QED
    BY <1>4, <2>3, <2>4 DEF RequestFails
<1>5. CASE CancelCall(t)
  <2>1. /\ UNCHANGED <<driver, cache>> /\ vfaults' = vfaults + 1 /\ End(t, "cancelled")
        /\ unheard' = (unheard \/ DropUnheard(t))
    BY <1>5 DEF CancelCall, VFault
  <2>2. StoreStep(t) /\ OtherStep(t)
    <3>1. CASE driver \in Local
      <4>1. late' = late /\ ((Writing(t) /\ MayExecute(call[t])) \/ UNCHANGED storeV)
        BY <1>5, <3>1 DEF CancelCall
      <4>2. StoreStep(t)
        BY <1>1, <2>1, <4>1 DEF StoreStep
      <4> QED
        BY <1>3, <2>1, <4>1, <4>2 DEF OtherStep
    <3>2. CASE driver \notin Local
      <4>1. StoreStep(t) /\ (late' = late \/ (late' = late \cup {call[t]} /\ call[t].step = "act"))
        BY <1>2, <1>5, <2>1, <3>2 DEF CancelCall
      <4> QED
        BY <1>3, <2>1, <3>2, <4>1 DEF OtherStep
    <3> QED
      BY <3>1, <3>2
  <2> QED
    BY <1>3, <2>1, <2>2, EndStep, NoCallType DEF TaskStep, End
<1> QED
  BY <1>4, <1>5 DEF MilvusFails, ElasticFails, ChromaFails

(* So every step of a task is one, whatever the backend.                   *)
LEMMA VectorTaskStep == ASSUME VecTypeOK, NEW t \in VTasks, VectorTask(t) PROVE TaskStep(t)
  BY VectorCallsStep, MilvusStep, ElasticStep, ChromaStep, FaultStep DEF VectorTask

-----------------------------------------------------------------------------
(* Vector stores: the invariant                                            *)

(* What the execution of a request leaves of the types.                    *)
LEMMA ExecuteType ==
  ASSUME VecTypeOK, NEW r \in Calls, Execute(r)
  PROVE  /\ rows' \in [Ids -> SUBSET Fields] /\ gen' \in Nat /\ metric' \in Values /\ overtaken' \in BOOLEAN
<1>1. \A i \in Ids : RowAfter(r, i) \in SUBSET Fields
  <2>1. rows \in [Ids -> SUBSET Fields] /\ r.meta \in SUBSET Fields
    BY DEF VecTypeOK, Calls
  <2>2. "id" \in Fields /\ "_vector_record" \in Fields
    BY DEF Fields
  <2> QED
    BY <2>1, <2>2 DEF RowAfter
<1>2. \A i \in Ids : rows'[i] \in SUBSET Fields
  BY <1>1 DEF Execute, VecTypeOK
<1>3. rows' \in [Ids -> SUBSET Fields]
  BY <1>2 DEF Execute
<1>4. r.metric \in Values /\ {"none", "dynamic"} \subseteq Values
  BY DEF Calls, Values
<1>5. metric' \in Values
  BY <1>4 DEF Execute, VecTypeOK
<1>6. overtaken' \in BOOLEAN
  BY DEF Execute
<1> QED
  BY <1>3, <1>5, <1>6 DEF Execute, VecTypeOK

(* A TaskStep keeps the types.                                             *)
LEMMA TypeStep == ASSUME VecTypeOK, NEW t \in VTasks, TaskStep(t) PROVE VecTypeOK'
<1>1. call' \in [VTasks -> Calls]
  BY DEF TaskStep, CallStep, VecTypeOK
<1>2. rows' \in [Ids -> SUBSET Fields] /\ gen' \in Nat /\ metric' \in Values /\ overtaken' \in BOOLEAN
  <2>1. CASE UNCHANGED storeV
    BY <2>1 DEF storeV, VecTypeOK
  <2>2. CASE \E r \in Calls : Execute(r)
    BY <2>2, ExecuteType
  <2> QED
    BY <2>1, <2>2 DEF TaskStep, StoreStep
<1>3. call[t] \in Calls /\ call[t].metric \in Values /\ "none" \in Values
  BY DEF VecTypeOK, Calls, Values
<1>4. cache' \in Values /\ vfaults' \in Nat /\ driver' = driver /\ unheard' \in BOOLEAN
  BY <1>3 DEF TaskStep, OtherStep, VecTypeOK
<1>5. late' \subseteq Calls
  BY <1>3 DEF TaskStep, OtherStep, VecTypeOK
<1>6. driver' \in Local \/ vfaults' = 0 => late' = {}
  BY DEF TaskStep, OtherStep, VecTypeOK
<1> QED
  BY <1>1, <1>2, <1>4, <1>5, <1>6 DEF VecTypeOK

(* A TaskStep leaves the Chroma write lock to the task that upserts.       *)
LEMMA LockStep == ASSUME VecTypeOK, LockOK, NEW t \in VTasks, TaskStep(t) PROVE LockOK'
<1> SUFFICES ASSUME driver' \in Chroma, NEW u \in VTasks, Upserting(call'[u]) PROVE vlock' = u
  BY DEF LockOK
<1>1. PICK new \in Calls : CallStep(t, new)
  BY DEF TaskStep
<1>2. driver \in Chroma
  BY DEF TaskStep, OtherStep
<1>3. CASE u = t
  <2>1. call'[u] = new
    BY <1>1, <1>3 DEF CallStep, VecTypeOK
  <2>2. new.op = "upsert" /\ new.step # "lock"
    BY <2>1 DEF Upserting
  <2>3. CASE vlock = "none" /\ vlock' = t
    BY <1>3, <2>3
  <2>4. CASE vlock' = vlock /\ new.op = call[t].op /\ call[t].step # "lock"
    BY <1>2, <1>3, <2>2, <2>4 DEF LockOK, Upserting
  <2> QED
    BY <1>1, <1>2, <2>1, <2>2, <2>3, <2>4 DEF CallStep
<1>4. CASE u # t
  <2>1. call'[u] = call[u]
    BY <1>1, <1>4 DEF CallStep, VecTypeOK
  <2>2. vlock = u /\ u # "none"
    BY <1>2, <2>1, VectorAssumption DEF LockOK
  <2> QED
    BY <1>1, <1>4, <2>2 DEF CallStep
<1> QED
  BY <1>3, <1>4

(* An execution leaves whole rows, if an upsert to Chroma removes all that *)
(* there is.                                                               *)
LEMMA ExecuteRows ==
  ASSUME VecTypeOK, \A i \in Ids : WholeRow(rows[i]), NEW r \in Calls, Execute(r), driver' = driver,
         driver \in Chroma /\ r.op = "upsert" => \A i \in r.ids : CleanRow(rows[i]) \subseteq r.old[i]
  PROVE  (\A i \in Ids : WholeRow(rows[i]))'
<1> SUFFICES ASSUME NEW i \in Ids PROVE WholeRow(rows[i])'
  OBVIOUS
<1>1. CASE r.op \in {"create", "drop"}
  BY <1>1 DEF Execute, WholeRow
<1>2. CASE r.op = "remove" /\ i \in r.ids
  BY <1>2 DEF Execute, WholeRow
<1>3. CASE r.op = "upsert" /\ i \in r.ids
  <2>1. rows'[i] = RowAfter(r, i) /\ r.meta \in Metas
    BY <1>3 DEF Execute, Calls
  <2>2. CASE driver \in Chroma
    <3>1. rows'[i] = (rows[i] \ (r.old[i] \ r.meta)) \cup r.meta \cup {"id", "_vector_record"}
      BY <2>1, <2>2 DEF RowAfter
    <3>2. rows[i] \ {"id", "_vector_record"} \subseteq r.old[i]
      BY <1>3, <2>2 DEF CleanRow
    <3>3. rows'[i] = r.meta \cup {"id", "_vector_record"}
      BY <3>1, <3>2
    <3> QED
      BY <2>1, <2>2, <3>3 DEF WholeRow, Stored
  <2>3. CASE driver \notin Chroma
    <3>1. rows'[i] = r.meta \cup {"id"}
      BY <2>1, <2>3 DEF RowAfter
    <3> QED
      BY <2>1, <2>3, <3>1 DEF WholeRow, Stored
  <2> QED
    BY <2>2, <2>3
<1>4. CASE ~(r.op \in {"create", "drop"}) /\ ~(r.op \in {"upsert", "remove"} /\ i \in r.ids)
  <2>1. rows'[i] = rows[i]
    BY <1>4 DEF Execute
  <2>2. WholeRow(rows[i])
    OBVIOUS
  <2> QED
    BY <2>1, <2>2 DEF WholeRow, Stored
<1> QED
  BY <1>1, <1>2, <1>3, <1>4

(* A TaskStep leaves rows that one write wrote.                            *)
LEMMA RowsStep == ASSUME VecInv, NEW t \in VTasks, TaskStep(t) PROVE RowsOK'
<1> SUFFICES ASSUME Orderly' PROVE (\A i \in Ids : WholeRow(rows[i]))'
  BY DEF RowsOK
<1>1. driver' = driver /\ Orderly
  BY DEF TaskStep, OtherStep, Orderly, VecInv, VecTypeOK
<1>2. \A i \in Ids : WholeRow(rows[i])
  BY <1>1 DEF VecInv, RowsOK
<1>3. CASE UNCHANGED storeV
  BY <1>1, <1>2, <1>3 DEF storeV, WholeRow, Stored
<1>4. CASE call[t].step = "act" /\ \E r \in Calls : Part(r, call[t]) /\ Executable(r) /\ Execute(r)
  <2>1. PICK r \in Calls : Part(r, call[t]) /\ Executable(r) /\ Execute(r)
    BY <1>4
  <2>2. ASSUME driver \in Chroma, r.op = "upsert" PROVE \A i \in r.ids : CleanRow(rows[i]) \subseteq r.old[i]
    <3>1. ReadAll(call[t], rows, gen)
      BY <1>1, <1>4, <2>1, <2>2 DEF VecInv, MergeOK, Part
    <3>2. r.gen = gen
      BY <2>1, <2>2 DEF Executable, Reaches, AutoCreates, Chroma
    <3> QED
      BY <2>1, <3>1, <3>2 DEF ReadAll, Part
  <2> QED
    BY <1>1, <1>2, <2>1, <2>2, ExecuteRows DEF VecInv
<1> QED
  BY <1>3, <1>4 DEF TaskStep, StoreStep

(* Of two upserts to Chroma one waits for the lock; other requests only    *)
(* remove rows, or replace the collection.                                 *)
LEMMA MergeStep == ASSUME VecInv, NEW t \in VTasks, TaskStep(t) PROVE MergeOK'
<1> SUFFICES ASSUME Orderly', driver' \in Chroma, NEW u \in VTasks,
                    call'[u].op = "upsert", call'[u].step = "act"
             PROVE  ReadAll(call'[u], rows', gen')
  BY DEF MergeOK
<1>1. driver' = driver /\ Orderly
  BY DEF TaskStep, OtherStep, Orderly, VecInv, VecTypeOK
<1>2. PICK new \in Calls : CallStep(t, new)
  BY DEF TaskStep
<1>3. CASE u = t
  <2>1. call'[u] = new
    BY <1>2, <1>3 DEF CallStep, VecInv, VecTypeOK
  <2>2. UNCHANGED storeV /\ ReadAll(new, rows, gen)
    BY <1>1, <1>2, <2>1 DEF CallStep
  <2> QED
    BY <2>1, <2>2 DEF storeV
<1>4. CASE u # t
  <2>1. call'[u] = call[u]
    BY <1>2, <1>4 DEF CallStep, VecInv, VecTypeOK
  <2>2. ReadAll(call[u], rows, gen)
    BY <1>1, <2>1 DEF VecInv, MergeOK
  <2>3. CASE UNCHANGED storeV
    BY <2>1, <2>2, <2>3 DEF storeV
  <2>4. CASE call[t].step = "act" /\ \E r \in Calls : Part(r, call[t]) /\ Execute(r)
    <3>1. PICK r \in Calls : Part(r, call[t]) /\ Execute(r)
      BY <2>4
    <3>2. vlock = u
      BY <1>1, <2>1 DEF VecInv, LockOK, Upserting
    <3>3. call[t].op # "upsert"
      BY <1>1, <1>4, <2>4, <3>2 DEF VecInv, LockOK, Upserting
    <3>4. r.op # "upsert"
      BY <3>1, <3>3 DEF Part
    <3>5. \A i \in Ids : rows'[i] = {} \/ rows'[i] = rows[i]
      BY <3>1, <3>4 DEF Execute
    <3>6. call[u].gen \in Nat /\ gen \in Nat /\ call[u].ids \subseteq Ids
      BY DEF VecInv, VecTypeOK, Calls
    <3>7. gen' = gen \/ gen' = gen + 1
      BY <3>1 DEF Execute
    <3> QED
      BY <2>1, <2>2, <3>5, <3>6, <3>7 DEF ReadAll, CleanRow
  <2> QED
    BY <2>3, <2>4 DEF TaskStep, StoreStep
<1> QED
  BY <1>3, <1>4

(* Before a creation or deletion is executed in a calm store, nobody       *)
(* depends on the metric, and the cache is empty if there is none.         *)
LEMMA NobodyMidway ==
  ASSUME VecTypeOK, Calm, CacheTrue, NEW r \in Calls, r.op \in {"create", "drop"}, Execute(r), ~overtaken'
  PROVE  /\ \A u \in VTasks : ~(Reads(call[u]) \/ Creates(call[u]) \/ Searches(call[u]) \/ Drops(call[u]))
         /\ ~Exists => cache = "none"
<1>1. \A u \in VTasks : ~Midway(u)
  BY DEF Execute
<1>2. \A u \in VTasks : ~(Reads(call[u]) \/ Creates(call[u]) \/ Searches(call[u]) \/ Drops(call[u]))
  BY <1>1 DEF Midway, Calm, Reads, Creates, Searches, Drops
<1> QED
  BY <1>2 DEF CacheTrue

(* What a request does to the metric of a Milvus collection.               *)
LEMMA MetricAfter ==
  ASSUME VecTypeOK, driver \in Milvus, NEW r \in Calls, Executable(r), Execute(r)
  PROVE  /\ r.op = "create" => ~Exists /\ metric' = r.metric /\ metric' # "none"
         /\ r.op = "drop" => metric' = "none"
         /\ r.op \notin {"create", "drop"} => metric' = metric
<1>1. ~AutoCreates(r)
  BY DEF AutoCreates, Milvus
<1>2. r.op = "create" => r.metric \in Metrics /\ r.metric # "none"
  BY VectorAssumption DEF Calls
<1> QED
  BY <1>1, <1>2 DEF Executable, Execute

(* A TaskStep leaves what is known of the metric true.                     *)
LEMMA MetricStep == ASSUME VecInv, NEW t \in VTasks, TaskStep(t) PROVE MetricOK'
<1> SUFFICES ASSUME Calm'
             PROVE  /\ CacheTrue' /\ \A u \in VTasks : Knows(call'[u], metric')
                    /\ \A r \in late' : r.op # "drop"
  BY DEF MetricOK
<1>0. VecTypeOK /\ driver \in Milvus /\ ~unheard /\ ~unheard' /\ ~overtaken'
  BY DEF TaskStep, OtherStep, VecInv, VecTypeOK, Calm
<1>1. PICK new \in Calls : CallStep(t, new)
  BY DEF TaskStep
<1>2. KnownStep(t, new) /\ call' = [call EXCEPT ![t] = new]
  BY <1>0, <1>1 DEF CallStep
<1>3. \A u \in VTasks : call'[u] = IF u = t THEN new ELSE call[u]
  BY <1>0, <1>2 DEF VecTypeOK
<1>4. ~overtaken
  BY <1>0 DEF TaskStep, StoreStep, storeV, Execute
<1>5. /\ CacheTrue /\ \A u \in VTasks : Knows(call[u], metric)
      /\ \A r \in late : r.op # "drop"
  BY <1>0, <1>4 DEF VecInv, MetricOK, Calm
<1>6. \A r \in late' : r.op # "drop"
  BY <1>0, <1>5 DEF TaskStep, OtherStep
<1>7. CASE UNCHANGED storeV
  <2>1. metric' = metric /\ Exists' = Exists
    BY <1>7 DEF storeV, Exists
  <2>2. ~Creates(new)
    <3>1. SUFFICES ASSUME Creates(new) PROVE FALSE
      OBVIOUS
    <3>2. call[t].op = "create" /\ Execute(call[t])
      BY <1>2, <3>1 DEF KnownStep
    <3>3. gen' = gen + 1
      BY <3>2 DEF Execute
    <3> QED
      BY <1>0, <1>7, <3>3 DEF storeV, VecTypeOK
  <2>3. Knows(new, metric)
    <3>1. Reads(new) => metric # "none" /\ new.metric = metric
      BY <1>2 DEF KnownStep, Exists
    <3>2. Searches(new) => metric \in {"none", new.metric}
      BY <1>2, <1>5 DEF KnownStep, CacheTrue, Knows, Exists
    <3> QED
      BY <2>2, <3>1, <3>2 DEF Knows
  <2>4. \A u \in VTasks : Knows(call'[u], metric')
    BY <1>3, <1>5, <2>1, <2>3
  <2>5. Exists => cache' \in {"none", metric}
    BY <1>5 DEF CacheTrue, TaskStep, OtherStep, Knows
  <2>6. ASSUME ~Exists, cache' # "none" PROVE \E u \in VTasks : Drops(call'[u])
    <3>1. cache' = cache
      BY <1>5, <2>6 DEF TaskStep, OtherStep, Knows, Exists
    <3>2. PICK u \in VTasks : Drops(call[u])
      BY <1>5, <2>6, <3>1 DEF CacheTrue
    <3>3. u # t
      BY <1>0, <1>2, <2>6, <3>2 DEF KnownStep
    <3> QED
      BY <1>3, <3>2, <3>3
  <2> QED
    BY <1>6, <2>1, <2>4, <2>5, <2>6 DEF CacheTrue
<1>8. CASE ~UNCHANGED storeV
  <2>1. PICK r \in Calls : /\ Part(r, call[t]) /\ Executable(r) /\ Execute(r)
                           /\ cache' = cache /\ call[t].step = "act"
    BY <1>8 DEF TaskStep, StoreStep
  <2>2. ~Reads(new) /\ ~Searches(new)
    BY <1>2, <1>8 DEF KnownStep
  <2>3. r.op = call[t].op /\ r.metric = call[t].metric
    BY <2>1 DEF Part
  <2>4. CASE r.op \notin {"create", "drop"}
    <3>1. metric' = metric
      BY <1>0, <2>1, <2>4, MetricAfter
    <3>2. ~Creates(new)
      BY <1>2, <2>3, <2>4 DEF KnownStep
    <3>3. \A u \in VTasks : Knows(call'[u], metric')
      BY <1>3, <1>5, <2>2, <3>1, <3>2 DEF Knows
    <3>4. ASSUME NEW u \in VTasks, Drops(call[u]) PROVE Drops(call'[u])
      BY <1>3, <2>1, <3>4 DEF Drops
    <3> QED
      BY <1>5, <1>6, <2>1, <3>1, <3>3, <3>4 DEF CacheTrue, Exists
  <2>5. CASE r.op \in {"create", "drop"}
    <3>1. /\ \A u \in VTasks : ~(Reads(call[u]) \/ Creates(call[u]) \/ Searches(call[u]) \/ Drops(call[u]))
          /\ ~Exists => cache = "none"
      BY <1>0, <1>4, <1>5, <2>1, <2>5, NobodyMidway DEF Calm
    <3>2. CASE r.op = "create"
      <4>1. ~Exists /\ metric' = r.metric /\ metric' # "none"
        BY <1>0, <2>1, <3>2, MetricAfter
      <4>2. Knows(new, metric')
        BY <1>2, <2>2, <2>3, <4>1 DEF Knows, KnownStep
      <4>3. \A u \in VTasks : Knows(call'[u], metric')
        BY <1>3, <3>1, <4>2 DEF Knows
      <4> QED
        BY <1>6, <2>1, <3>1, <4>1, <4>3 DEF CacheTrue, Exists
    <3>3. CASE r.op = "drop"
      <4>1. metric' = "none" /\ call[t].op = "drop"
        BY <1>0, <2>1, <2>3, <3>3, MetricAfter
      <4>2. Drops(new)
        BY <1>0, <1>2, <1>8, <2>1, <4>1 DEF KnownStep
      <4>3. Knows(new, metric')
        BY <2>2, <4>2 DEF Knows, Creates, Drops
      <4>4. \A u \in VTasks : Knows(call'[u], metric')
        BY <1>3, <3>1, <4>3 DEF Knows
      <4> QED
        BY <1>3, <1>6, <4>1, <4>2, <4>4 DEF CacheTrue, Exists
    <3> QED
      BY <2>5, <3>2, <3>3
  <2> QED
    BY <2>4, <2>5
<1> QED
  BY <1>7, <1>8

(* A generation is never taken back, and each collection has its own.      *)
LEMMA GenerationGrows ==
  ASSUME VecTypeOK, UNCHANGED storeV \/ \E r \in Calls : Executable(r) /\ Execute(r)
  PROVE  gen \in Nat /\ gen' \in Nat /\ gen' >= gen /\ (Exists' /\ ~Exists => gen' > gen)
<1>0. gen \in Nat
  BY DEF VecTypeOK
<1>1. CASE UNCHANGED storeV
  BY <1>0, <1>1 DEF storeV, Exists
<1>2. ASSUME NEW r \in Calls, Executable(r), Execute(r)
      PROVE  gen' \in Nat /\ gen' >= gen /\ (Exists' /\ ~Exists => gen' > gen)
  <2>1. gen' = gen \/ gen' = gen + 1
    BY <1>2 DEF Execute
  <2>2. gen' = gen => metric' \in {"none", metric}
    BY <1>0, <1>2 DEF Execute
  <2> QED
    BY <1>0, <2>1, <2>2 DEF Exists
<1> QED
  BY <1>0, <1>1, <1>2

(* A TaskStep leaves the reasons to look again true.                       *)
LEMMA RaceStep == ASSUME VecInv, NEW t \in VTasks, TaskStep(t) PROVE RaceOK'
<1> SUFFICES ASSUME driver' \in Milvus, vfaults' = 0, NEW u \in VTasks PROVE Excused(call[u])'
  BY DEF RaceOK
<1>0. VecTypeOK /\ driver \in Milvus /\ vfaults = 0 /\ Excused(call[u]) /\ Excused(call[t])
  BY DEF TaskStep, OtherStep, VecInv, VecTypeOK, RaceOK
<1>1. gen \in Nat /\ gen' \in Nat /\ gen' >= gen /\ (Exists' /\ ~Exists => gen' > gen)
  BY <1>0, GenerationGrows DEF TaskStep, StoreStep
<1>2. PICK new \in Calls : CallStep(t, new)
  BY DEF TaskStep
<1>3. LooksAgain(t, new) /\ call' = [call EXCEPT ![t] = new]
  BY <1>0, <1>2 DEF CallStep
<1>4. call[u].gen \in Nat /\ new.gen \in Nat
  BY <1>0 DEF VecTypeOK, Calls
<1>5. CASE u # t
  <2>1. call'[u] = call[u]
    BY <1>0, <1>3, <1>5 DEF VecTypeOK
  <2> QED
    BY <1>0, <1>1, <1>4, <2>1 DEF Excused
<1>6. CASE u = t
  <2>1. call'[u] = new
    BY <1>0, <1>3, <1>6 DEF VecTypeOK
  <2>2. CASE new.step \in {"recheck", "there", "gone"}
    <3>1. /\ UNCHANGED storeV /\ new.op = call[t].op
          /\ \/ new.step = "recheck" /\ new.gen = gen /\ Exists = (new.op = "create")
             \/ /\ call[t].step = "recheck" /\ new.gen = call[t].gen
                /\ new.step = IF Exists THEN "there" ELSE "gone"
      BY <1>0, <1>3, <2>2 DEF LooksAgain
    <3>2. gen' = gen /\ Exists' = Exists
      BY <3>1 DEF storeV, Exists
    <3>3. CASE new.step = "recheck" /\ new.gen = gen /\ Exists = (new.op = "create")
      <4>1. new.op = "drop" => ~Exists'
        BY <3>2, <3>3 DEF Exists
      <4> QED
        BY <1>1, <2>1, <3>2, <3>3, <4>1 DEF Excused
    <3>4. CASE /\ call[t].step = "recheck" /\ new.gen = call[t].gen
               /\ new.step = IF Exists THEN "there" ELSE "gone"
      BY <1>0, <1>4, <2>1, <3>1, <3>2, <3>4 DEF Excused
    <3> QED
      BY <3>1, <3>3, <3>4
  <2>3. CASE new.step \notin {"recheck", "there", "gone"}
    BY <2>1, <2>3 DEF Excused
  <2> QED
    BY <2>2, <2>3
<1> QED
  BY <1>5, <1>6

(* A late request is executed: only on a remote backend after a fault.     *)
LEMMA LateStep == ASSUME VecInv, NEW r \in late, ExecuteLate(r) PROVE VecInv'
<1>0. /\ r \in Calls /\ driver \notin Local /\ vfaults # 0
      /\ UNCHANGED <<driver, cacheV, vlock, call, vfaults>> /\ late' = late \ {r}
      /\ gen \in Nat /\ driver \in Drivers
  BY DEF VecInv, VecTypeOK, ExecuteLate
<1>1. UNCHANGED storeV \/ (Executable(r) /\ Execute(r))
  BY DEF ExecuteLate, MayExecute
<1>2. VecTypeOK'
  <2>1. rows' \in [Ids -> SUBSET Fields] /\ gen' \in Nat /\ metric' \in Values /\ overtaken' \in BOOLEAN
    BY <1>0, <1>1, ExecuteType DEF storeV, VecInv, VecTypeOK
  <2> QED
    BY <1>0, <2>1 DEF VecInv, VecTypeOK, cacheV
<1>3. LockOK'
  BY <1>0 DEF VecInv, LockOK
<1>4. Orderly' => driver \notin Chroma
  BY <1>0 DEF Orderly, Chroma, Local
<1>5. RowsOK'
  <2> SUFFICES ASSUME Orderly' PROVE (\A i \in Ids : WholeRow(rows[i]))'
    BY DEF RowsOK
  <2>1. Orderly
    BY <1>0 DEF Orderly
  <2>2. \A i \in Ids : WholeRow(rows[i])
    BY <2>1 DEF VecInv, RowsOK
  <2>3. CASE UNCHANGED storeV
    BY <1>0, <2>2, <2>3 DEF storeV, WholeRow, Stored
  <2>4. CASE Execute(r)
    BY <1>0, <1>4, <2>2, <2>4, ExecuteRows DEF VecInv
  <2> QED
    BY <1>1, <2>3, <2>4
<1>6. MergeOK'
  BY <1>0, <1>4 DEF MergeOK
<1>7. MetricOK'
  <2> SUFFICES ASSUME Calm'
               PROVE  /\ CacheTrue' /\ \A u \in VTasks : Knows(call'[u], metric')
                      /\ \A c \in late' : c.op # "drop"
    BY DEF MetricOK
  <2>1. /\ VecTypeOK /\ Calm /\ ~overtaken' /\ CacheTrue /\ \A u \in VTasks : Knows(call[u], metric)
        /\ \A c \in late : c.op # "drop"
    <3>1. ~overtaken' /\ driver \in Milvus /\ ~unheard
      BY <1>0 DEF Calm, cacheV
    <3>2. ~overtaken
      BY <1>1, <3>1 DEF storeV, Execute
    <3> QED
      BY <3>1, <3>2 DEF VecInv, MetricOK, Calm
  <2>2. \A c \in late' : c.op # "drop"
    BY <1>0, <2>1
  <2>3. CASE metric' = metric
    BY <1>0, <2>1, <2>2, <2>3 DEF CacheTrue, Exists, cacheV
  <2>4. CASE metric' # metric
    <3>1. Executable(r) /\ Execute(r)
      BY <1>1, <2>4 DEF storeV
    <3>2. r.op = "create" /\ ~Exists /\ metric' # "none"
      BY <1>0, <2>1, <2>4, <3>1, MetricAfter DEF Calm
    <3>3. /\ \A u \in VTasks : ~(Reads(call[u]) \/ Creates(call[u]) \/ Searches(call[u]) \/ Drops(call[u]))
          /\ cache = "none"
      BY <1>0, <2>1, <3>1, <3>2, NobodyMidway
    <3> QED
      BY <1>0, <2>2, <3>2, <3>3 DEF CacheTrue, Exists, Knows, cacheV
  <2> QED
    BY <2>3, <2>4
<1>8. RaceOK'
  BY <1>0 DEF RaceOK
<1> QED
  BY <1>2, <1>3, <1>5, <1>6, <1>7, <1>8 DEF VecInv

(* Steps that concern the client only.                                     *)
LEMMA AloofStep ==
  ASSUME VecInv, UNCHANGED <<driver, storeV, late, cacheV, vlock, call>>, vfaults' \in {vfaults, vfaults + 1}
  PROVE  VecInv'
<1>1. vfaults \in Nat
  BY DEF VecInv, VecTypeOK
<1>2. VecTypeOK'
  BY <1>1 DEF VecInv, VecTypeOK, storeV, cacheV
<1>3. Orderly' => Orderly
  BY <1>1 DEF Orderly
<1>4. RowsOK'
  BY <1>3 DEF VecInv, RowsOK, storeV, WholeRow, Stored
<1>5. LockOK' /\ MergeOK'
  BY <1>3 DEF VecInv, LockOK, MergeOK, storeV
<1>6. MetricOK'
  BY DEF VecInv, MetricOK, CacheTrue, Calm, Exists, storeV, cacheV
<1>7. RaceOK'
  BY <1>1 DEF VecInv, RaceOK, Excused, Exists, storeV
<1> QED
  BY <1>2, <1>4, <1>5, <1>6, <1>7 DEF VecInv

(* So do all steps of the client.                                          *)
LEMMA ClientIsAloof ==
  ClientStep => /\ UNCHANGED <<driver, storeV, late, cacheV, vlock, call>> /\ Quiet
                /\ vfaults' \in {vfaults, vfaults + 1}
<1> SUFFICES ASSUME ClientStep
             PROVE  /\ UNCHANGED <<driver, storeV, late, cacheV, vlock, call>> /\ Quiet
                    /\ vfaults' \in {vfaults, vfaults + 1}
  OBVIOUS
<1> USE DEF Unrelated
<1>1. CASE OpenClient \/ ElasticOpened \/ ThreadReturns \/ ThreadRaises \/ CancelOpening
  BY <1>1 DEF OpenClient, ElasticOpened, ThreadReturns, ThreadRaises, CancelOpening, VFault
<1>2. CASE MilvusLoaded \/ LocalOpened \/ ChromaConnected
  BY <1>2 DEF MilvusLoaded, LocalOpened, ChromaConnected, HandOver
<1>3. CASE OpeningFails \/ CleanUp \/ CleanedUp \/ CleanUpFails
  BY <1>3 DEF OpeningFails, CleanUp, CleanedUp, CleanUpFails, OpeningEnds
<1>4. CASE ClientRefused
  BY <1>4 DEF ClientRefused, VFault
<1>5. CASE MilvusClose \/ ElasticClose \/ ChromaClose
  BY <1>5 DEF MilvusClose, ElasticClose, ChromaClose, CloseClient
<1> QED
  BY <1>1, <1>2, <1>3, <1>4, <1>5 DEF ClientStep

(* VecInv is inductive.                                                    *)
LEMMA VecInvStep == VecInv /\ [VectorNext]_vectorVars => VecInv'
<1> SUFFICES ASSUME VecInv, [VectorNext]_vectorVars PROVE VecInv'
  OBVIOUS
<1>1. CASE ClientStep
  BY <1>1, AloofStep, ClientIsAloof
<1>2. ASSUME NEW t \in VTasks, VectorTask(t) PROVE VecInv'
  <2>1. TaskStep(t)
    BY <1>2, VectorTaskStep DEF VecInv
  <2>2. VecTypeOK' /\ LockOK'
    BY <2>1, TypeStep, LockStep DEF VecInv
  <2> QED
    BY <2>1, <2>2, RowsStep, MergeStep, MetricStep, RaceStep DEF VecInv
<1>3. ASSUME NEW r \in late, ExecuteLate(r) PROVE VecInv'
  BY <1>3, LateStep
<1>4. CASE UNCHANGED vectorVars
  BY <1>4, AloofStep DEF vectorVars
<1> QED
  BY <1>1, <1>2, <1>3, <1>4 DEF VectorNext

(* It holds of a driver that has no client yet.                            *)
LEMMA VecInvInit == VectorInit => VecInv
<1> SUFFICES ASSUME VectorInit PROVE VecInv
  OBVIOUS
<1>1. call \in [VTasks -> Calls] /\ \A t \in VTasks : call[t].op = "none" /\ call[t].step = "idle"
  BY NoCallType DEF VectorInit
<1>2. rows \in [Ids -> SUBSET Fields] /\ \A i \in Ids : rows[i] = {}
  BY DEF VectorInit, NoRows
<1>3. VecTypeOK
  BY <1>1, <1>2 DEF VectorInit, VecTypeOK, Drivers, Values
<1>4. RowsOK
  BY <1>2 DEF RowsOK, WholeRow
<1>5. LockOK /\ MergeOK
  BY <1>1 DEF LockOK, MergeOK, Upserting
<1>6. MetricOK
  BY <1>1 DEF MetricOK, CacheTrue, Knows, Reads, Creates, Searches, VectorInit
<1>7. RaceOK
  BY <1>1 DEF RaceOK, Excused
<1> QED
  BY <1>3, <1>4, <1>5, <1>6, <1>7 DEF VecInv

-----------------------------------------------------------------------------
(* Vector stores: what calls return                                        *)

(* The outcome of a call that returns no rows and no hits.                 *)
Plain(outcome) == outcome.seen = {} /\ outcome.order = "desc"

(* An outcome that is no read is faithful.                                 *)
LEMMA PlainIsFaithful == ASSUME Plain(last') PROVE ReadsFaithful'
  BY DEF Plain, ReadsFaithful

(* The steps whose outcome is no read.                                     *)
LEMMA PlainOutcomes ==
  /\ \A t, out : End(t, out) => Plain(last')
  /\ \A t, s : VGoto(t, s) => Plain(last')
  /\ \A t : Accepted(t) \/ LookAgain(t) => Plain(last')
  /\ Quiet => Plain(last')
<1>1. Quiet => Plain(last')
  BY DEF Quiet, NoOutcome, Plain
<1>2. ASSUME NEW t, NEW out, End(t, out) PROVE Plain(last')
  BY <1>2 DEF End, EndWith, Plain
<1>3. ASSUME NEW t, NEW s, VGoto(t, s) PROVE Plain(last')
  BY <1>1, <1>3 DEF VGoto
<1>4. ASSUME NEW t, Accepted(t) \/ LookAgain(t) PROVE Plain(last')
  BY <1>1, <1>3, <1>4 DEF Accepted, LookAgain
<1> QED
  BY <1>1, <1>2, <1>3, <1>4

(* The rows that a read returns are whole, and so is their metadata.       *)
LEMMA MetadataWhole ==
  ASSUME VecInv, Orderly, NEW r \in Calls, NEW row \in RowsOf(r)
  PROVE  /\ driver \in Chroma => CleanRow(row) \in Metas
         /\ driver \notin Chroma => row \ {"id"} \in Metas
<1>1. PICK i \in Ids : row = rows[i] /\ rows[i] # {}
  BY DEF RowsOf, Calls
<1>2. PICK m \in Metas : row = Stored(m)
  BY <1>1 DEF VecInv, RowsOK, WholeRow
<1>3. "id" \notin m /\ "_vector_record" \notin m
  BY VectorAssumption
<1>4. CASE driver \in Chroma
  <2>1. row = m \cup {"id", "_vector_record"}
    BY <1>2, <1>4 DEF Stored
  <2>2. row \ {"id", "_vector_record"} = m
    BY <1>3, <2>1
  <2> QED
    BY <1>4, <2>2 DEF CleanRow
<1>5. CASE driver \notin Chroma
  <2>1. row = m \cup {"id"}
    BY <1>2, <1>5 DEF Stored
  <2>2. row \ {"id"} = m
    BY <1>3, <2>1
  <2> QED
    BY <1>5, <2>2
<1> QED
  BY <1>4, <1>5

(* get() returns whole rows.                                               *)
LEMMA GetsFaithful ==
  ASSUME VecInv, NEW t \in VTasks, MilvusGet(t) \/ ElasticGet(t) \/ ChromaGet(t)
  PROVE  ReadsFaithful'
<1>0. call[t] \in Calls /\ UNCHANGED <<driver, vfaults>> /\ (Orderly' => Orderly)
  BY DEF VecInv, VecTypeOK, MilvusGet, ElasticGet, ChromaGet, Orderly
<1>1. CASE \E out : End(t, out)
  BY <1>1, PlainOutcomes, PlainIsFaithful
<1>2. CASE EndWith(t, "ok", {MilvusPoint(row) : row \in RowsOf(call[t])}, "desc") /\ driver \notin Chroma
  <2>1. last'.seen = {row \ {"id"} : row \in RowsOf(call[t])} /\ last'.order = "desc"
    BY <1>2 DEF EndWith, MilvusPoint
  <2>2. Orderly => last'.seen \subseteq Metas
    BY <1>0, <1>2, <2>1, MetadataWhole
  <2> QED
    BY <1>0, <2>1, <2>2 DEF ReadsFaithful, Orderly
<1>3. CASE EndWith(t, "ok", {ElasticPoint(row) : row \in RowsOf(call[t])}, "desc") /\ driver \notin Chroma
  <2>1. last'.seen = {row \ {"id"} : row \in RowsOf(call[t])} /\ last'.order = "desc"
    BY <1>3 DEF EndWith, ElasticPoint
  <2>2. Orderly => last'.seen \subseteq Metas
    BY <1>0, <1>3, <2>1, MetadataWhole
  <2> QED
    BY <1>0, <2>1, <2>2 DEF ReadsFaithful, Orderly
<1>4. CASE EndWith(t, "ok", ChromaPoints(RowsOf(call[t])), "desc") /\ driver \in Chroma
  <2>1. last'.seen = {CleanRow(row) : row \in RowsOf(call[t])} /\ last'.order = "desc"
    BY <1>4 DEF EndWith, ChromaPoints
  <2>2. Orderly => last'.seen \subseteq Metas
    BY <1>0, <1>4, <2>1, MetadataWhole
  <2> QED
    BY <1>0, <2>1, <2>2 DEF ReadsFaithful, Orderly
<1>5. CASE MilvusGet(t)
  BY <1>1, <1>2, <1>5 DEF MilvusGet, Milvus, Chroma
<1>6. CASE ElasticGet(t)
  BY <1>1, <1>3, <1>6 DEF ElasticGet, Chroma
<1>7. CASE ChromaGet(t)
  BY <1>1, <1>4, <1>7 DEF ChromaGet
<1> QED
  BY <1>5, <1>6, <1>7

(* search() returns whole rows with their scores falling.                  *)
LEMMA SearchesFaithful ==
  ASSUME VecInv, NEW t \in VTasks, MilvusSearch(t) \/ ElasticSearch(t) \/ ChromaSearch(t)
  PROVE  ReadsFaithful'
<1>0. UNCHANGED <<driver, overtaken, unheard>>
  BY DEF MilvusSearch, ElasticSearch, ChromaSearch, storeV, cacheV
<1>1. CASE \E out : End(t, out)
  BY <1>1, PlainOutcomes, PlainIsFaithful
<1>2. CASE MilvusSearch(t) /\ Reaches(call[t])
  <2>1. last'.seen = {} /\ last'.order = MilvusMatch(call[t].metric, HitOrder)
    BY <1>2 DEF MilvusSearch, EndWith
  <2>2. driver \in Milvus /\ driver \notin Chroma /\ metric # "none" /\ call[t].op = "search" /\ call[t].step = "act"
    BY <1>2 DEF MilvusSearch, Reaches, Exists, VStep, Milvus, Chroma
  <2>3. ASSUME ~overtaken, ~unheard PROVE call[t].metric = metric
    BY <2>2, <2>3 DEF VecInv, MetricOK, Calm, Knows, Searches
  <2>4. ~(overtaken \/ unheard) => last'.order = "desc"
    BY <2>1, <2>2, <2>3 DEF MilvusMatch, HitOrder, Negated
  <2> QED
    BY <1>0, <2>1, <2>2, <2>4 DEF ReadsFaithful
<1>3. CASE MilvusSearch(t) /\ ~Reaches(call[t])
  BY <1>1, <1>3 DEF MilvusSearch
<1>4. CASE ElasticSearch(t)
  <2>1. driver = "elasticsearch" => HitOrder = "desc"
    BY DEF HitOrder, Milvus, Chroma
  <2>2. CASE Exists
    <3>1. Plain(last')
      BY <1>4, <2>1, <2>2 DEF ElasticSearch, EndWith, ElasticMatches, Plain
    <3> QED
      BY <3>1, PlainIsFaithful
  <2> QED
    BY <1>1, <1>4, <2>2 DEF ElasticSearch
<1>5. CASE ChromaSearch(t)
  <2>1. driver \in Chroma => Negated(HitOrder) = "desc"
    BY DEF HitOrder, Negated
  <2>2. CASE Reaches(call[t])
    <3>1. Plain(last')
      BY <1>5, <2>1, <2>2 DEF ChromaSearch, EndWith, ChromaMatches, Plain
    <3> QED
      BY <3>1, PlainIsFaithful
  <2> QED
    BY <1>1, <1>5, <2>2 DEF ChromaSearch
<1> QED
  BY <1>2, <1>3, <1>4, <1>5

(* All the other steps of a task.                                          *)
LEMMA OthersPlain ==
  ASSUME NEW t \in VTasks, VectorTask(t),
         ~(MilvusGet(t) \/ ElasticGet(t) \/ ChromaGet(t) \/ MilvusSearch(t) \/ ElasticSearch(t) \/ ChromaSearch(t))
  PROVE  Plain(last')
<1>1. CASE VectorCalls(t)
  <2>1. ASSUME NEW op, NEW m, NEW ids, NEW meta, CallVector(t, op, m, ids, meta) PROVE Plain(last')
    BY <2>1, PlainOutcomes DEF CallVector
  <2>2. ASSUME NEW op, NEW out, ReturnAtOnce(t, op, out) PROVE Plain(last')
    BY <2>2 DEF ReturnAtOnce, Plain
  <2> QED
    BY <1>1, <2>1, <2>2 DEF VectorCalls
<1>2. CASE MilvusCheck(t) \/ MilvusDescribe(t) \/ MilvusDescribed(t) \/ MilvusCreateOrDrop(t)
           \/ MilvusRecheck(t) \/ MilvusRecheckReply(t)
           \/ MilvusWrite(t) \/ MilvusReply(t)
  BY <1>2, PlainOutcomes DEF MilvusCheck, MilvusDescribe, MilvusDescribed, MilvusCreateOrDrop, MilvusRecheck,
     MilvusRecheckReply,
    MilvusWrite,
     MilvusReply
<1>3. CASE ElasticCheck(t) \/ ElasticCreateOrDrop(t) \/ ElasticBulk(t) \/ ElasticReply(t)
           \/ ElasticDescribe(t) \/ \E done \in SUBSET Ids : ElasticBulkPartly(t, done)
  BY <1>3, PlainOutcomes DEF ElasticCheck, ElasticCreateOrDrop, ElasticBulk, ElasticReply,
     ElasticDescribe, ElasticBulkPartly
<1>4. CASE ChromaLock(t) \/ ChromaCheck(t) \/ ChromaReadOld(t) \/ ChromaCreateOrDrop(t)
           \/ ChromaWrite(t) \/ ChromaReply(t)
  BY <1>4, PlainOutcomes DEF ChromaLock, ChromaCheck, ChromaReadOld, ChromaCreateOrDrop,
    ChromaWrite,
     ChromaReply
<1>5. CASE CancelCall(t) \/ MilvusFails(t) \/ ElasticFails(t) \/ ChromaFails(t)
  BY <1>5, PlainOutcomes DEF CancelCall, MilvusFails, ElasticFails, ChromaFails, RequestFails
<1> QED
  BY <1>1, <1>2, <1>3, <1>4, <1>5 DEF VectorTask

(* Reads are faithful, for any set of tasks, metadata and metrics and any  *)
(* number of creations: a row is what one upsert wrote, and the scores of  *)
(* a search fall, with the exceptions that the property names.             *)
THEOREM ReadsAreFaithful == VectorSpec => []ReadsFaithful
<1>1. VectorInit => ReadsFaithful
  BY DEF VectorInit, NoOutcome, ReadsFaithful
<1>2. VecInv /\ ReadsFaithful /\ [VectorNext]_vectorVars => ReadsFaithful'
  <2> SUFFICES ASSUME VecInv, ReadsFaithful, [VectorNext]_vectorVars PROVE ReadsFaithful'
    OBVIOUS
  <2>1. CASE ClientStep \/ \E r \in late : ExecuteLate(r)
    <3>1. Quiet
      BY <2>1, ClientIsAloof DEF ExecuteLate
    <3> QED
      BY <3>1, PlainOutcomes, PlainIsFaithful
  <2>2. ASSUME NEW t \in VTasks, VectorTask(t) PROVE ReadsFaithful'
    BY <2>2, GetsFaithful, SearchesFaithful, OthersPlain, PlainIsFaithful
  <2>3. CASE UNCHANGED vectorVars
    BY <2>3 DEF vectorVars, storeV, cacheV, ReadsFaithful
  <2> QED
    BY <2>1, <2>2, <2>3 DEF VectorNext
<1> QED
  BY <1>1, <1>2, VecInvInit, VecInvStep, PTL DEF VectorSpec

(* Who loses a race to create or delete a collection is told so: in Milvus *)
(* and Chroma, and in Elasticsearch who deletes, without a fault of the    *)
(* backend; the exception is a second change of the collection between the *)
(* request that was refused and the second look.                           *)
THEOREM LosersAreToldSo == VectorSpec => LosersToldSo
<1> DEFINE ToldRight == \A t \in VTasks :
       vfaults' = 0 /\ call[t].op \in {"create", "drop"} /\ call'[t] = NoCall /\ last'.out = "operation"
         => \/ driver = "elasticsearch" /\ call[t].op = "create"
            \/ call[t].op = "create" /\ ~(Exists /\ gen = call[t].gen)
            \/ call[t].op = "drop" /\ gen # call[t].gen
<1>1. VecInv /\ [VectorNext]_vectorVars => [ToldRight]_vectorVars
  <2> SUFFICES ASSUME VecInv, VectorNext, NEW t \in VTasks, vfaults' = 0,
                      call[t].op \in {"create", "drop"},
                      call'[t] = NoCall, last'.out = "operation",
                      ~(driver = "elasticsearch" /\ call[t].op = "create")
               PROVE  \/ call[t].op = "create" /\ ~(Exists /\ gen = call[t].gen)
                      \/ call[t].op = "drop" /\ gen # call[t].gen
    OBVIOUS
  <2>0. NoCall.op = "none" /\ vfaults \in Nat /\ call \in [VTasks -> Calls]
    BY NoCallType DEF VecInv, VecTypeOK
  <2>1. call' # call
    BY <2>0
  <2>2. ~(ClientStep \/ \E r \in late : ExecuteLate(r))
    BY <2>1, ClientIsAloof DEF ExecuteLate
  <2>3. PICK u \in VTasks : VectorTask(u)
    BY <2>2 DEF VectorNext
  <2>4. u = t
    <3>1. PICK new \in Calls : call' = [call EXCEPT ![u] = new]
      BY <2>3, VectorTaskStep DEF VecInv, TaskStep, CallStep
    <3> QED
      BY <2>0, <3>1
  <2>5. ~VectorCalls(t)
    BY <2>0, <2>1 DEF VectorCalls, CallVector, ReturnAtOnce
  <2>6. ~(CancelCall(t) \/ MilvusFails(t) \/ ElasticFails(t) \/ ChromaFails(t)
            \/ \E done \in SUBSET Ids : ElasticBulkPartly(t, done))
    <3>1. ~VFault
      BY <2>0 DEF VFault
    <3> QED
      BY <3>1 DEF CancelCall, MilvusFails, ElasticFails, ChromaFails, RequestFails,
        ElasticBulkPartly
  <2>7. ~(MilvusDescribe(t) \/ MilvusDescribed(t) \/ MilvusWrite(t) \/ MilvusGet(t) \/ MilvusSearch(t)
            \/ ElasticBulk(t) \/ ElasticGet(t) \/ ElasticSearch(t) \/ ElasticDescribe(t)
            \/ ChromaLock(t) \/ ChromaReadOld(t) \/ ChromaWrite(t) \/ ChromaGet(t) \/ ChromaSearch(t))
    BY DEF MilvusDescribe, MilvusDescribed, MilvusWrite, MilvusGet, MilvusSearch, ElasticBulk,
       ElasticGet, ElasticSearch, ElasticDescribe, ChromaLock, ChromaReadOld, ChromaWrite, ChromaGet,
       ChromaSearch, VStep
  <2>8. ~(MilvusCheck(t) \/ MilvusCreateOrDrop(t) \/ MilvusRecheck(t) \/ MilvusReply(t)
            \/ ElasticCheck(t) \/ ElasticCreateOrDrop(t) \/ ElasticReply(t) \/ ChromaCheck(t)
            \/ ChromaCreateOrDrop(t) \/ ChromaReply(t))
    BY DEF MilvusCheck, MilvusCreateOrDrop, MilvusRecheck, MilvusReply, ElasticCheck,
       ElasticCreateOrDrop, ElasticReply, ChromaCheck, ChromaCreateOrDrop, ChromaReply, Accepted,
       LookAgain, VGoto, Quiet, NoOutcome, End, EndWith
  <2>9. MilvusRecheckReply(t)
    BY <2>3, <2>4, <2>5, <2>6, <2>7, <2>8 DEF VectorTask
  <2>10. vfaults = 0 /\ driver \in Milvus /\ call[t].gen \in Nat /\ gen \in Nat
    BY <2>0, <2>9 DEF MilvusRecheckReply, Calls, VecInv, VecTypeOK
  <2>11. Excused(call[t])
    BY <2>10 DEF VecInv, RaceOK
  <2>12. \/ call[t].op = "create" /\ call[t].step = "gone"
         \/ call[t].op = "drop" /\ call[t].step = "there"
    BY <2>9 DEF MilvusRecheckReply, End, EndWith
  <2> QED
    BY <2>10, <2>11, <2>12 DEF Excused
<1> QED
  BY <1>1, VecInvInit, VecInvStep, PTL DEF VectorSpec, LosersToldSo

-----------------------------------------------------------------------------
(* The cache: the invariant                                                *)

(* An entry: no collection is empty, and the members of a set score 0.     *)
Entries ==
  [type : {"none", "string", "hash", "set", "zset"}, val : SUBSET (CValues \X Scores), until : Nat]
Shaped(e) ==
  /\ e \in Entries
  /\ e.type = "none" => e = Absent
  /\ e.type # "none" => e.val # {}
  /\ e.type = "set" => \A p \in e.val : p[2] = 0

(* A command with the arguments that its operation takes.                  *)
Writers == {"set", "set_if_absent", "hash_set", "set_add", "sorted_set_add", "sorted_set_remove"}
ShapedCommand(cmd) ==
  /\ cmd.op \in Writers \cup {"delete", "expire"}
  /\ cmd.op \in Writers => cmd.member \in CValues
  /\ cmd.op \in {"hash_set", "sorted_set_add"} => cmd.score \in Scores
  /\ cmd.op \in {"set_if_absent", "expire"} => cmd.ttl \in Nat \ {0}
  /\ cmd.op = "set" => cmd.ttl \in (Nat \ {0}) \cup {DefaultExpiration, NoExpiration}
  /\ cmd.op \in {"set", "delete"} \/ RequireRedis(cmd.c)
  /\ cmd.c \in Connections /\ cmd.k \in CKeys

CacheTypeOK ==
  /\ cacheConfig \in CacheConfigs
  /\ clock \in Nat /\ clock > 2 * RelativeLimit
  /\ DOMAIN entry = Connections /\ DOMAIN told = Connections
  /\ \A c \in Connections : DOMAIN entry[c] = CKeys /\ DOMAIN told[c] = CKeys
  /\ \A c \in Connections, k \in CKeys :
       Shaped(entry[c][k]) /\ (told[c][k] = Unknown \/ Shaped(told[c][k]))
  /\ \A cmd \in adrift : ShapedCommand(cmd)

(* On Redis what is known is what there is.  On Memcached it is what was   *)
(* sent, with a deadline that may be half a second earlier.                *)
Close(e, t) ==
  \/ e = Absent /\ t = Absent
  \/ /\ e.type = "string" /\ t.type = "string" /\ e.val = t.val
     /\ \/ e.until = Never /\ t.until = Never
        \/ /\ e.until # Never /\ t.until # Never
           /\ t.until = e.until \/ t.until = e.until + 1
Agree(c, e, t) ==
  t.type # "unknown" => IF RequireRedis(c) THEN Current(e) = Current(t) ELSE Close(e, t)
WordOK == \A c \in Connections, k \in CKeys : c \in DOMAIN cacheConfig.connections => Agree(c, entry[c][k], told[c][k])

(* Nothing is promised of a key that a late command may still reach.       *)
SilenceOK == \A cmd \in adrift : told[cmd.c][cmd.k] = Unknown

CacheInv == CacheTypeOK /\ WordOK /\ SilenceOK

-----------------------------------------------------------------------------
(* The cache: entries and commands                                         *)

(* The entry that is not there.                                            *)
LEMMA AbsentShaped == Shaped(Absent) /\ Absent.type = "none" /\ Absent.val = {} /\ Absent.until = Never
  BY DEF Shaped, Absent, Entries, Never

(* Reading an entry in its time.                                           *)
LEMMA CurrentFacts ==
  ASSUME NEW e, Shaped(e)
  PROVE  /\ Shaped(Current(e)) /\ Current(Current(e)) = Current(e)
         /\ Current(e) = e \/ Current(e) = Absent
  BY AbsentShaped DEF Current, Unexpired, Never

(* What clients send has the arguments it should have.                     *)
LEMMA CommandsShaped ==
  ASSUME CacheTypeOK, NEW cmd \in Commands
  PROVE  ShapedCommand(cmd) /\ cmd.c \in DOMAIN cacheConfig.connections
<1>1. PICK c \in Reachable, k \in CKeys :
        cmd \in PublicCommands(c, k) \/ (RequireRedis(c) /\ cmd \in RedisCommands(c, k))
  BY DEF Commands
<1>2. c \in DOMAIN cacheConfig.connections /\ c \in Connections
  BY <1>1 DEF Reachable, Connections, CacheTypeOK
<1>3. Ttls \subseteq Nat \ {0}
  BY CacheTimes
<1>4. CASE cmd \in PublicCommands(c, k)
  <2> DEFINE sets == {Cmd(c, k, "set", v, t, 0, FALSE) :
                        v \in CValues, t \in Ttls \cup {DefaultExpiration, NoExpiration}}
  <2>0. PublicCommands(c, k) = sets \cup {Cmd(c, k, "delete", 0, 0, 0, FALSE)}
    BY DEF PublicCommands
  <2>1. CASE cmd \in sets
    <3>1. PICK v \in CValues, t \in Ttls \cup {DefaultExpiration, NoExpiration} :
            cmd = Cmd(c, k, "set", v, t, 0, FALSE)
      BY <2>1 DEF Cmd
    <3>2. t \in (Nat \ {0}) \cup {DefaultExpiration, NoExpiration}
      BY <1>3
    <3> QED
      BY <1>1, <1>2, <3>1, <3>2 DEF Cmd, ShapedCommand, Writers
  <2>2. CASE cmd = Cmd(c, k, "delete", 0, 0, 0, FALSE)
    BY <1>1, <1>2, <2>2 DEF Cmd, ShapedCommand, Writers
  <2> HIDE DEF sets
  <2> QED
    BY <1>4, <2>0, <2>1, <2>2
<1>5. CASE RequireRedis(c) /\ cmd \in RedisCommands(c, k)
  <2> DEFINE A1 == {Cmd(c, k, "set_if_absent", v, t, 0, FALSE) : v \in CValues, t \in Ttls}
             A2 == {Cmd(c, k, "expire", 0, t, 0, FALSE) : t \in Ttls}
             A3 == {Cmd(c, k, op, m, 0, 0, FALSE) : op \in {"set_add", "sorted_set_remove"}, m \in CValues}
             A4 == {Cmd(c, k, "hash_set", m, 0, s, FALSE) : m \in CValues, s \in Scores}
             A5 == {Cmd(c, k, "sorted_set_add", m, 0, s, nx) : m \in CValues, s \in Scores, nx \in BOOLEAN}
  <2>0. RedisCommands(c, k) = A1 \cup A2 \cup A3 \cup A4 \cup A5
    BY DEF RedisCommands
  <2>1. CASE cmd \in A1
    <3>1. PICK v \in CValues, t \in Ttls : cmd = Cmd(c, k, "set_if_absent", v, t, 0, FALSE)
      BY <2>1 DEF Cmd
    <3> QED
      BY <1>2, <1>3, <1>5, <3>1 DEF Cmd, ShapedCommand, Writers
  <2>2. CASE cmd \in A2
    BY <1>2, <1>3, <1>5, <2>2 DEF Cmd, ShapedCommand, Writers
  <2>3. CASE cmd \in A3
    BY <1>2, <1>5, <2>3 DEF Cmd, ShapedCommand, Writers
  <2>4. CASE cmd \in A4
    BY <1>2, <1>5, <2>4 DEF Cmd, ShapedCommand, Writers
  <2>5. CASE cmd \in A5
    BY <1>2, <1>5, <2>5 DEF Cmd, ShapedCommand, Writers
  <2> HIDE DEF A1, A2, A3, A4, A5
  <2> QED
    BY <1>5, <2>0, <2>1, <2>2, <2>3, <2>4, <2>5
<1> QED
  BY <1>1, <1>4, <1>5

(* Deadlines: both drivers, on both sides of Memcached's limit.            *)
LEMMA Deadlines ==
  ASSUME CacheTypeOK, NEW c, NEW ttl \in Nat
  PROVE  /\ Deadline(c, ttl) \in Nat /\ Lifetime(ttl) \in Nat
         /\ RequireRedis(c) => Deadline(c, ttl) = Lifetime(ttl)
         /\ ttl = NoTtl => Deadline(c, ttl) = Never /\ Lifetime(ttl) = Never
         /\ ttl # NoTtl =>
              /\ Deadline(c, ttl) # Never /\ Lifetime(ttl) # Never
              /\ Lifetime(ttl) = Deadline(c, ttl) \/ Lifetime(ttl) = Deadline(c, ttl) + 1
<1>0. clock \in Nat /\ RelativeLimit \in Nat \ {0} /\ clock > 2 * RelativeLimit
  BY CacheTimes DEF CacheTypeOK
<1>1. PICK half \in Nat : half = clock \div 2 /\ (clock = 2 * half \/ clock = 2 * half + 1)
  BY <1>0
<1>2. CASE ttl = 0
  <2>1. RedisDeadline(ttl) = 0 /\ Lifetime(ttl) = 0 /\ Expiry(ttl) = 0
    BY <1>0, <1>2 DEF RedisDeadline, Expiry, Lifetime, NoTtl, Never
  <2>2. MemcachedDeadline(Expiry(ttl)) = 0
    BY <1>0, <2>1 DEF MemcachedDeadline, Never
  <2> QED
    BY <1>2, <2>1, <2>2 DEF Deadline, NoTtl, Never
<1>3. CASE ttl # 0
  <2>1. RedisDeadline(ttl) = clock + 2 * ttl /\ Lifetime(ttl) = clock + 2 * ttl
    BY <1>3 DEF RedisDeadline, Lifetime, NoTtl
  <2>2. MemcachedDeadline(Expiry(ttl)) = 2 * (half + ttl)
    <3>1. CASE ttl <= RelativeLimit
      <4>1. Expiry(ttl) = ttl
        BY <1>0, <1>3, <3>1 DEF Expiry, NoTtl
      <4> QED
        BY <1>0, <1>1, <1>3, <3>1, <4>1 DEF MemcachedDeadline
    <3>2. CASE ttl > RelativeLimit
      <4>1. Expiry(ttl) = half + ttl
        BY <1>0, <1>1, <1>3, <3>2 DEF Expiry, NoTtl
      <4>2. half + ttl > RelativeLimit /\ half + ttl # 0
        BY <1>0, <1>1, <1>3, <3>2
      <4> QED
        BY <1>0, <4>1, <4>2 DEF MemcachedDeadline
    <3> QED
      BY <1>0, <3>1, <3>2
  <2>3. CASE RequireRedis(c)
    BY <1>0, <1>3, <2>1, <2>3 DEF Deadline, Never, NoTtl
  <2>4. CASE ~RequireRedis(c)
    BY <1>0, <1>1, <1>3, <2>1, <2>2, <2>4 DEF Deadline, Never, NoTtl
  <2> QED
    BY <2>3, <2>4
<1> QED
  BY <1>2, <1>3

(* _resolve_ttl yields a positive lifetime or none.                        *)
LEMMA TtlResolved ==
  ASSUME CacheTypeOK, NEW ttl \in (Nat \ {0}) \cup {DefaultExpiration, NoExpiration}
  PROVE  ResolveTtl(ttl) \in Nat
  BY DefaultTtlAssumption DEF ResolveTtl, CacheTypeOK, NoTtl, DefaultExpiration, NoExpiration

(* Values of entries.                                                      *)
LEMMA StringShaped ==
  ASSUME NEW v \in CValues, NEW until \in Nat
  PROVE  /\ Shaped(String(v, until)) /\ String(v, until).type = "string"
         /\ String(v, until).until = until /\ String(v, until).val = {<<v, 0>>}
<1>1. {<<v, 0>>} \in SUBSET (CValues \X Scores) /\ {<<v, 0>>} # {}
  BY DEF Scores
<1> QED
  BY <1>1 DEF String, Shaped, Entries

(* Writing a collection; Redis deletes an empty one.                       *)
LEMMA CollectionShaped ==
  ASSUME NEW e, Shaped(e), NEW type \in {"hash", "set", "zset"}, NEW val \in SUBSET (CValues \X Scores),
         type = "set" => \A p \in val : p[2] = 0
  PROVE  /\ Shaped(Collection(e, type, val))
         /\ val # {} => Collection(e, type, val) = [type |-> type, val |-> val, until |-> e.until]
         /\ val = {} => Collection(e, type, val) = Absent
  BY AbsentShaped DEF Collection, Shaped, Entries

(* An entry is the record of its fields.                                   *)
LEMMA EntryIs ==
  ASSUME NEW e, Shaped(e) PROVE e = [type |-> e.type, val |-> e.val, until |-> e.until]
  BY DEF Shaped, Entries

(* The members of a collection and their scores.                           *)
LEMMA Pairs ==
  ASSUME NEW e, Shaped(e), NEW m \in CValues, NEW s \in Scores
  PROVE  /\ Without(e, m) \in SUBSET (CValues \X Scores)
         /\ Without(e, m) \cup {<<m, s>>} \in SUBSET (CValues \X Scores)
         /\ e.val \cup {<<m, s>>} \in SUBSET (CValues \X Scores)
         /\ m \notin Members(e) => Without(e, m) = e.val
  BY DEF Without, Members, Shaped, Entries

(* The type that a collection command has met.                             *)
LEMMA NotRefused ==
  ASSUME NEW cmd, NEW w, Shaped(w), ~Refuses(cmd, w)
  PROVE  /\ cmd.op = "hash_set" => w.type \in {"none", "hash"}
         /\ cmd.op = "set_add" => w.type \in {"none", "set"}
         /\ cmd.op \in {"sorted_set_add", "sorted_set_remove"} => w.type \in {"none", "zset"}
  BY DEF Refuses, WrongType, TypeOf

(* Every command leaves a well-formed entry.                               *)
LEMMA EffectShaped ==
  ASSUME CacheTypeOK, NEW cmd, ShapedCommand(cmd), NEW w, Shaped(w), ~Refuses(cmd, w)
  PROVE  Shaped(Effect(cmd, w))
<1>c. clock \in Nat /\ cmd.op \in Writers \cup {"delete", "expire"} /\ 0 \in Scores
  BY DEF CacheTypeOK, ShapedCommand, Scores
<1>1. CASE cmd.op = "set"
  <2>1. ResolveTtl(cmd.ttl) \in Nat
    BY <1>1, TtlResolved DEF ShapedCommand
  <2>2. Deadline(cmd.c, ResolveTtl(cmd.ttl)) \in Nat
    BY <2>1, Deadlines
  <2>3. cmd.member \in CValues
    BY <1>1 DEF ShapedCommand, Writers
  <2>4. Effect(cmd, w) = String(cmd.member, Deadline(cmd.c, ResolveTtl(cmd.ttl)))
    BY <1>1 DEF Effect, Set
  <2> QED
    BY <2>2, <2>3, <2>4, StringShaped
<1>2. CASE cmd.op = "delete"
  BY <1>2, AbsentShaped DEF Effect
<1>3. CASE cmd.op = "set_if_absent"
  <2>1. cmd.member \in CValues /\ clock + cmd.ttl \in Nat
    BY <1>c, <1>3 DEF ShapedCommand, Writers
  <2>2. Effect(cmd, w) \in {String(cmd.member, clock + cmd.ttl), w}
    BY <1>3 DEF Effect, SetIfAbsent
  <2> QED
    BY <2>1, <2>2, StringShaped
<1>4. CASE cmd.op = "expire"
  <2>1. PICK d \in Nat : d = clock + 2 * cmd.ttl
    BY <1>c, <1>4 DEF ShapedCommand
  <2>2. Effect(cmd, w) = IF w.type = "none" THEN w ELSE [w EXCEPT !.until = d]
    BY <1>4, <2>1 DEF Effect, Expire
  <2>3. w.type # "none" => Shaped([w EXCEPT !.until = d])
    BY DEF Shaped, Entries
  <2> QED
    BY <2>2, <2>3
<1>5. CASE cmd.op = "hash_set"
  <2>1. cmd.member \in CValues /\ cmd.score \in Scores
    BY <1>5 DEF ShapedCommand, Writers
  <2>2. Effect(cmd, w) = Collection(w, "hash", Without(w, cmd.member) \cup {<<cmd.member, cmd.score>>})
    BY <1>5 DEF Effect, HashSet
  <2> QED
    BY <2>1, <2>2, Pairs, CollectionShaped
<1>6. CASE cmd.op = "set_add"
  <2>1. cmd.member \in CValues /\ w.type \in {"none", "set"}
    BY <1>6, NotRefused DEF ShapedCommand, Writers
  <2>2. \A p \in w.val \cup {<<cmd.member, 0>>} : p[2] = 0
    <3>1. \A p \in w.val : p[2] = 0
      BY <2>1, AbsentShaped DEF Shaped
    <3> QED
      BY <3>1
  <2>3. Effect(cmd, w) = Collection(w, "set", w.val \cup {<<cmd.member, 0>>})
    BY <1>6 DEF Effect, SetAdd
  <2> QED
    BY <1>c, <2>1, <2>2, <2>3, Pairs, CollectionShaped
<1>7. CASE cmd.op = "sorted_set_add"
  <2>1. cmd.member \in CValues /\ cmd.score \in Scores
    BY <1>7 DEF ShapedCommand, Writers
  <2>2. \/ Effect(cmd, w) = w
        \/ Effect(cmd, w) = Collection(w, "zset", Without(w, cmd.member) \cup {<<cmd.member, cmd.score>>})
    BY <1>7 DEF Effect, SortedSetAdd
  <2> QED
    BY <2>1, <2>2, Pairs, CollectionShaped
<1>8. CASE cmd.op = "sorted_set_remove"
  <2>1. cmd.member \in CValues
    BY <1>8 DEF ShapedCommand, Writers
  <2>2. Effect(cmd, w) = Collection(w, "zset", Without(w, cmd.member))
    BY <1>8 DEF Effect, SortedSetRemove
  <2> QED
    BY <1>c, <2>1, <2>2, Pairs, CollectionShaped
<1> QED
  BY <1>c, <1>1, <1>2, <1>3, <1>4, <1>5, <1>6, <1>7, <1>8 DEF Writers

-----------------------------------------------------------------------------
(* The cache: what is concluded from a reply                               *)

(* On Redis: what is concluded is what the command has made of the entry,  *)
(* or nothing new, and then a known entry is as it was.                    *)
LEMMA RedisReplies ==
  ASSUME CacheTypeOK, NEW cmd, ShapedCommand(cmd), RequireRedis(cmd.c),
         NEW w, Shaped(w), ~Refuses(cmd, w),
         NEW t, t = Unknown \/ (Shaped(t) /\ Current(t) = w),
         NEW new, new = Conclude(cmd, t, Reply(cmd, w))
  PROVE  new = Effect(cmd, w) \/ (new = t /\ (t.type # "unknown" => Effect(cmd, w) = w))
<1>c. clock \in Nat /\ cmd.op \in Writers \cup {"delete", "expire"} /\ 0 \in Scores
  BY DEF CacheTypeOK, ShapedCommand, Scores
<1>t. t.type = "unknown" \/ (t.type # "unknown" /\ Current(t) = w)
  BY DEF Shaped, Entries, Unknown
<1>a. w.type = "none" => w.until = Never /\ w.val = {}
  BY AbsentShaped DEF Shaped
<1>1. CASE cmd.op = "set"
  <2>1. ResolveTtl(cmd.ttl) \in Nat
    BY <1>1, TtlResolved DEF ShapedCommand
  <2>2. Deadline(cmd.c, ResolveTtl(cmd.ttl)) = Lifetime(ResolveTtl(cmd.ttl))
    BY <2>1, Deadlines
  <2>3. Effect(cmd, w) = String(cmd.member, Deadline(cmd.c, ResolveTtl(cmd.ttl)))
    BY <1>1 DEF Effect, Set
  <2>4. new = String(cmd.member, Lifetime(ResolveTtl(cmd.ttl)))
    BY <1>1 DEF Conclude
  <2> QED
    BY <2>2, <2>3, <2>4
<1>2. CASE cmd.op = "delete"
  BY <1>2 DEF Effect, Conclude
<1>3. CASE cmd.op = "set_if_absent"
  <2>1. CASE w.type = "none"
    BY <1>3, <2>1 DEF Effect, SetIfAbsent, Conclude, Reply
  <2>2. CASE w.type # "none"
    <3>1. Effect(cmd, w) = w
      BY <1>3, <2>2 DEF Effect, SetIfAbsent
    <3>2. new = t
      BY <1>3, <2>2 DEF Conclude, Reply
    <3> QED
      BY <3>1, <3>2
  <2> QED
    BY <2>1, <2>2
<1>4. CASE cmd.op = "expire"
  <2>1. CASE w.type = "none"
    <3>1. Effect(cmd, w) = Absent
      BY <1>4, <2>1 DEF Effect, Expire, Shaped
    <3>2. new = Absent
      BY <1>4, <2>1 DEF Conclude, Reply
    <3> QED
      BY <3>1, <3>2
  <2>2. CASE w.type # "none"
    <3>1. Effect(cmd, w) = [w EXCEPT !.until = clock + 2 * cmd.ttl]
      BY <1>4, <2>2 DEF Effect, Expire
    <3>2. CASE t.type = "unknown"
      BY <1>4, <2>2, <3>2 DEF Conclude, Reply
    <3>3. CASE t.type # "unknown" /\ Current(t) = w
      <4>1. Lifetime(cmd.ttl) = clock + 2 * cmd.ttl
        BY <1>4 DEF Lifetime, ShapedCommand, NoTtl
      <4>2. new = [w EXCEPT !.until = Lifetime(cmd.ttl)]
        BY <1>4, <2>2, <3>3 DEF Conclude, Reply
      <4> QED
        BY <3>1, <4>1, <4>2
    <3> QED
      BY <1>t, <3>2, <3>3
  <2> QED
    BY <2>1, <2>2
<1>5. CASE cmd.op = "hash_set"
  <2> DEFINE val == Without(w, cmd.member) \cup {<<cmd.member, cmd.score>>}
  <2>1. Effect(cmd, w) = [type |-> "hash", val |-> val, until |-> w.until]
    BY <1>5 DEF Effect, HashSet, Collection
  <2>2. CASE t.type = "unknown"
    BY <1>5, <2>2 DEF Conclude
  <2>3. CASE t.type # "unknown" /\ Current(t) = w
    <3>1. new = [type |-> "hash", val |-> val, until |-> IF w.type = "none" THEN Never ELSE w.until]
      BY <1>5, <2>3 DEF Conclude
    <3> QED
      BY <1>a, <2>1, <3>1
  <2> QED
    BY <1>t, <2>2, <2>3
<1>6. CASE cmd.op = "set_add"
  <2>0. cmd.member \in CValues /\ w.type \in {"none", "set"}
    BY <1>6, NotRefused DEF ShapedCommand, Writers
  <2> DEFINE val == w.val \cup {<<cmd.member, 0>>}
  <2>1. Effect(cmd, w) = [type |-> "set", val |-> val, until |-> w.until]
    BY <1>6 DEF Effect, SetAdd, Collection
  <2>2. CASE t.type = "unknown"
    BY <1>6, <2>2 DEF Conclude
  <2>3. CASE t.type # "unknown" /\ Current(t) = w /\ cmd.member \notin Members(w)
    <3>1. new = [type |-> "set", val |-> val, until |-> IF w.type = "none" THEN Never ELSE w.until]
      BY <1>6, <2>3 DEF Conclude, Reply
    <3> QED
      BY <1>a, <2>1, <3>1
  <2>4. CASE t.type # "unknown" /\ Current(t) = w /\ cmd.member \in Members(w)
    <3>1. new = t
      BY <1>6, <2>4 DEF Conclude, Reply
    <3>2. PICK p \in w.val : p[1] = cmd.member
      BY <2>4 DEF Members
    <3>3. w.type = "set"
      BY <1>a, <2>0, <3>2
    <3>4. p = <<cmd.member, 0>>
      BY <3>2, <3>3 DEF Shaped, Entries
    <3>5. val = w.val
      BY <3>2, <3>4
    <3> HIDE DEF val
    <3>6. Effect(cmd, w) = w
      BY <2>1, <3>3, <3>5, EntryIs
    <3> QED
      BY <3>1, <3>6
  <2> QED
    BY <1>t, <2>2, <2>3, <2>4
<1>7. CASE cmd.op = "sorted_set_add"
  <2> DEFINE val == Without(w, cmd.member) \cup {<<cmd.member, cmd.score>>}
  <2>1. CASE cmd.nx /\ cmd.member \in Members(w)
    <3>1. Effect(cmd, w) = w
      BY <1>7, <2>1 DEF Effect, SortedSetAdd
    <3>2. new = t
      BY <1>7, <2>1 DEF Conclude, Reply
    <3> QED
      BY <3>1, <3>2
  <2>2. CASE ~(cmd.nx /\ cmd.member \in Members(w))
    <3>1. Effect(cmd, w) = [type |-> "zset", val |-> val, until |-> w.until]
      BY <1>7, <2>2 DEF Effect, SortedSetAdd, Collection
    <3>2. CASE t.type = "unknown"
      BY <1>7, <3>2 DEF Conclude
    <3>3. CASE t.type # "unknown" /\ Current(t) = w
      <4>1. new = [type |-> "zset", val |-> val, until |-> IF w.type = "none" THEN Never ELSE w.until]
        BY <1>7, <2>2, <3>3 DEF Conclude, Reply
      <4> QED
        BY <1>a, <3>1, <4>1
    <3> QED
      BY <1>t, <3>2, <3>3
  <2> QED
    BY <2>1, <2>2
<1>8. CASE cmd.op = "sorted_set_remove"
  <2>0. cmd.member \in CValues /\ w.type \in {"none", "zset"}
    BY <1>8, NotRefused DEF ShapedCommand, Writers
  <2>1. Effect(cmd, w) = Collection(w, "zset", Without(w, cmd.member))
    BY <1>8 DEF Effect, SortedSetRemove
  <2>2. CASE t.type = "unknown"
    BY <1>8, <2>2 DEF Conclude
  <2>3. CASE t.type # "unknown" /\ Current(t) = w /\ cmd.member \in Members(w)
    <3>1. new = Collection(w, "zset", Without(w, cmd.member))
      BY <1>8, <2>3 DEF Conclude, Reply
    <3> QED
      BY <2>1, <3>1
  <2>4. CASE t.type # "unknown" /\ Current(t) = w /\ cmd.member \notin Members(w)
    <3>1. new = t
      BY <1>8, <2>4 DEF Conclude, Reply
    <3>2. Without(w, cmd.member) = w.val
      BY <1>c, <2>0, <2>4, Pairs
    <3>3. CASE w.type = "none"
      <4>1. w = Absent /\ w.val = {}
        BY <1>a, <3>3 DEF Shaped
      <4>2. Effect(cmd, w) = Absent
        BY <2>1, <3>2, <4>1 DEF Collection
      <4> QED
        BY <3>1, <4>1, <4>2
    <3>4. CASE w.type = "zset"
      <4>1. w.val # {}
        BY <3>4 DEF Shaped
      <4>2. Effect(cmd, w) = [type |-> "zset", val |-> w.val, until |-> w.until]
        BY <2>1, <3>2, <4>1 DEF Collection
      <4>3. Effect(cmd, w) = w
        BY <3>4, <4>2, EntryIs
      <4> QED
        BY <3>1, <4>3
    <3> QED
      BY <2>0, <3>3, <3>4
  <2> QED
    BY <1>t, <2>2, <2>3, <2>4
<1> QED
  BY <1>c, <1>1, <1>2, <1>3, <1>4, <1>5, <1>6, <1>7, <1>8 DEF Writers

(* On Memcached there are set and delete.                                  *)
LEMMA MemcachedReplies ==
  ASSUME CacheTypeOK, NEW cmd, ShapedCommand(cmd), ~RequireRedis(cmd.c),
         NEW w, NEW t, NEW new, new = Conclude(cmd, t, Reply(cmd, w))
  PROVE  Close(Effect(cmd, w), new) /\ Shaped(new)
<1>0. cmd.op \in {"set", "delete"}
  BY DEF ShapedCommand
<1>1. CASE cmd.op = "set"
  <2>1. PICK ttl \in Nat : ttl = ResolveTtl(cmd.ttl)
    BY <1>1, TtlResolved DEF ShapedCommand
  <2>2. cmd.member \in CValues
    BY <1>1 DEF ShapedCommand, Writers
  <2>3. Effect(cmd, w) = String(cmd.member, Deadline(cmd.c, ttl))
    BY <1>1, <2>1 DEF Effect, Set
  <2>4. new = String(cmd.member, Lifetime(ttl))
    BY <1>1, <2>1 DEF Conclude
  <2>5. /\ Deadline(cmd.c, ttl) \in Nat /\ Lifetime(ttl) \in Nat
        /\ ttl = NoTtl => Deadline(cmd.c, ttl) = Never /\ Lifetime(ttl) = Never
        /\ ttl # NoTtl =>
              /\ Deadline(cmd.c, ttl) # Never /\ Lifetime(ttl) # Never
              /\ Lifetime(ttl) = Deadline(cmd.c, ttl) \/ Lifetime(ttl) = Deadline(cmd.c, ttl) + 1
    BY Deadlines
  <2>6. /\ Shaped(new) /\ new.type = "string" /\ new.until = Lifetime(ttl) /\ new.val = {<<cmd.member, 0>>}
    BY <2>2, <2>4, <2>5, StringShaped
  <2>7. /\ Effect(cmd, w).type = "string" /\ Effect(cmd, w).until = Deadline(cmd.c, ttl)
        /\ Effect(cmd, w).val = {<<cmd.member, 0>>}
    BY <2>2, <2>3, <2>5, StringShaped
  <2> QED
    BY <2>5, <2>6, <2>7 DEF Close
<1>2. CASE cmd.op = "delete"
  BY <1>2, AbsentShaped DEF Effect, Conclude, Close
<1> QED
  BY <1>0, <1>1, <1>2

-----------------------------------------------------------------------------
(* The cache: the invariant is kept                                        *)

(* Changing one entry of one connection.                                   *)
LEMMA PutOne ==
  ASSUME NEW f, DOMAIN f = Connections, \A c \in Connections : DOMAIN f[c] = CKeys,
         NEW c0 \in Connections, NEW k0 \in CKeys, NEW v, NEW g, g = [f EXCEPT ![c0][k0] = v]
  PROVE  /\ DOMAIN g = Connections /\ \A c \in Connections : DOMAIN g[c] = CKeys
         /\ \A c \in Connections, k \in CKeys : g[c][k] = IF c = c0 /\ k = k0 THEN v ELSE f[c][k]
  OBVIOUS

(* What is promised of the key of a command becomes t.                     *)
Learns(cmd, t) ==
  /\ DOMAIN told' = Connections /\ \A c \in Connections : DOMAIN told'[c] = CKeys
  /\ \A c \in Connections, k \in CKeys :
       told'[c][k] = IF c = cmd.c /\ k = cmd.k THEN t ELSE told[c][k]

(* So it does when the reply is taken into account.                        *)
LEMMA KnowLearns == ASSUME CacheInv, NEW cmd, ShapedCommand(cmd), NEW t, Know(cmd, t) PROVE Learns(cmd, t)
  BY PutOne DEF CacheInv, CacheTypeOK, Know, Learns, ShapedCommand

(* The promises about keys that late commands may reach stay empty.        *)
LEMMA StaysSilent ==
  ASSUME CacheInv, NEW cmd, ShapedCommand(cmd), NEW t, Learns(cmd, t),
         \/ t = Unknown /\ adrift' \subseteq adrift \cup {cmd}
         \/ ~Pending(cmd.c, cmd.k) /\ adrift' = adrift
  PROVE  SilenceOK'
<1> SUFFICES ASSUME NEW other \in adrift' PROVE told'[other.c][other.k] = Unknown
  BY DEF SilenceOK
<1>1. other = cmd \/ other \in adrift
  OBVIOUS
<1>2. other.c \in Connections /\ other.k \in CKeys
  BY <1>1 DEF CacheInv, CacheTypeOK, ShapedCommand
<1>3. told'[other.c][other.k] = IF other.c = cmd.c /\ other.k = cmd.k THEN t ELSE told[other.c][other.k]
  BY <1>2 DEF Learns
<1>4. other \in adrift => told[other.c][other.k] = Unknown
  BY DEF CacheInv, SilenceOK
<1> QED
  BY <1>1, <1>3, <1>4 DEF Pending

(* A command changes one entry and what is promised of it; what it leaves  *)
(* must be shaped and agree.                                               *)
LEMMA CommandKeeps ==
  ASSUME CacheInv, NEW cmd, ShapedCommand(cmd), UNCHANGED <<cacheConfig, clock>>,
         NEW e, Shaped(e), Store(cmd, e), NEW t, t = Unknown \/ Shaped(t), Learns(cmd, t),
         \/ t = Unknown /\ adrift' \subseteq adrift \cup {cmd}
         \/ ~Pending(cmd.c, cmd.k) /\ adrift' = adrift,
         cmd.c \in DOMAIN cacheConfig.connections => Agree(cmd.c, e, t)
  PROVE  CacheInv'
<1>0. cmd.c \in Connections /\ cmd.k \in CKeys
  BY DEF ShapedCommand
<1>1. /\ DOMAIN entry' = Connections /\ \A c \in Connections : DOMAIN entry'[c] = CKeys
      /\ \A c \in Connections, k \in CKeys :
           entry'[c][k] = IF c = cmd.c /\ k = cmd.k THEN e ELSE entry[c][k]
  BY <1>0, PutOne DEF CacheInv, CacheTypeOK, Store
<1>2. /\ DOMAIN told' = Connections /\ \A c \in Connections : DOMAIN told'[c] = CKeys
      /\ \A c \in Connections, k \in CKeys :
           told'[c][k] = IF c = cmd.c /\ k = cmd.k THEN t ELSE told[c][k]
  BY DEF Learns
<1>3. \A c \in Connections, k \in CKeys :
        Shaped(entry'[c][k]) /\ (told'[c][k] = Unknown \/ Shaped(told'[c][k]))
  BY <1>1, <1>2 DEF CacheInv, CacheTypeOK
<1>4. (\A other \in adrift : ShapedCommand(other))'
  BY DEF CacheInv, CacheTypeOK, ShapedCommand, RequireRedis, Driver
<1>5. CacheTypeOK'
  BY <1>1, <1>2, <1>3, <1>4 DEF CacheInv, CacheTypeOK
<1>6. \A c \in Connections, k \in CKeys :
        c \in DOMAIN cacheConfig.connections => Agree(c, entry'[c][k], told'[c][k])
  BY <1>1, <1>2 DEF CacheInv, WordOK
<1>7. WordOK'
  BY <1>6 DEF WordOK, Agree, RequireRedis, Driver, Current, Unexpired
<1>8. SilenceOK'
  BY StaysSilent
<1> QED
  BY <1>5, <1>7, <1>8 DEF CacheInv

(* Callers who know nothing are never wrong.                               *)
LEMMA UnknownAgrees == \A c, e : Agree(c, e, Unknown)
  BY DEF Agree, Unknown

(* A command that was answered leaves its callers right about the entry.   *)
LEMMA AnsweredKeeps == ASSUME CacheInv, NEW cmd \in Commands, Answered(cmd) PROVE CacheInv'
<1>0. ShapedCommand(cmd) /\ cmd.c \in DOMAIN cacheConfig.connections /\ cmd.c \in Connections /\ cmd.k \in CKeys
  BY CommandsShaped DEF CacheInv, ShapedCommand
<1> DEFINE w == Carried(cmd)
           t == told[cmd.c][cmd.k]
           new == Conclude(cmd, t, Reply(cmd, w))
<1>1. /\ ~Refuses(cmd, w) /\ Store(cmd, Effect(cmd, w))
      /\ UNCHANGED <<cacheConfig, clock, adrift>>
  BY DEF Answered
<1>a. Know(cmd, IF Pending(cmd.c, cmd.k) THEN Unknown ELSE new)
  BY DEF Answered
<1>2. Shaped(entry[cmd.c][cmd.k]) /\ (t = Unknown \/ Shaped(t))
  BY <1>0 DEF CacheInv, CacheTypeOK
<1>3. Shaped(w) /\ Current(w) = w /\ w = Current(entry[cmd.c][cmd.k])
  BY <1>2, CurrentFacts DEF Carried
<1>4. Agree(cmd.c, entry[cmd.c][cmd.k], t)
  BY <1>0 DEF CacheInv, WordOK
<1>5. Shaped(Effect(cmd, w))
  BY <1>0, <1>1, <1>3, EffectShaped DEF CacheInv
<1> HIDE DEF w, t, new
<1>8. CASE Pending(cmd.c, cmd.k)
  <2>1. Learns(cmd, Unknown)
    BY <1>0, <1>8, <1>a, KnowLearns
  <2> QED
    BY <1>0, <1>1, <1>5, <2>1, UnknownAgrees, CommandKeeps
<1>9. ASSUME ~Pending(cmd.c, cmd.k), new = Unknown \/ Shaped(new), Agree(cmd.c, Effect(cmd, w), new)
      PROVE  CacheInv'
  <2>1. Learns(cmd, new)
    BY <1>0, <1>9, <1>a, KnowLearns
  <2> QED
    BY <1>0, <1>1, <1>5, <1>9, <2>1, CommandKeeps
<1>6. CASE ~Pending(cmd.c, cmd.k) /\ RequireRedis(cmd.c)
  <2>1. t = Unknown \/ (Shaped(t) /\ Current(t) = w)
    BY <1>2, <1>3, <1>4, <1>6 DEF Agree, Shaped, Entries
  <2>2. new = Effect(cmd, w) \/ (new = t /\ (t.type # "unknown" => Effect(cmd, w) = w))
    BY <1>0, <1>1, <1>3, <1>6, <2>1, RedisReplies DEF CacheInv, new
  <2>3. new = Unknown \/ Shaped(new)
    BY <1>5, <2>1, <2>2
  <2>4. Agree(cmd.c, Effect(cmd, w), new)
    BY <1>3, <1>6, <2>1, <2>2, UnknownAgrees DEF Agree
  <2> QED
    BY <1>6, <1>9, <2>3, <2>4
<1>7. CASE ~Pending(cmd.c, cmd.k) /\ ~RequireRedis(cmd.c)
  <2>1. Close(Effect(cmd, w), new) /\ Shaped(new)
    BY <1>0, <1>7, MemcachedReplies DEF CacheInv, new
  <2>2. Agree(cmd.c, Effect(cmd, w), new)
    BY <1>7, <2>1 DEF Agree
  <2> QED
    BY <1>7, <1>9, <2>1, <2>2
<1> QED
  BY <1>6, <1>7, <1>8

(* Steps after which nothing is known of the entry.                        *)
LEMMA ForgettingKeeps ==
  ASSUME CacheInv, NEW cmd, ShapedCommand(cmd), UNCHANGED <<cacheConfig, clock>>, Learns(cmd, Unknown),
         \/ UNCHANGED entry \/ Store(cmd, Absent)
         \/ ~Refuses(cmd, Carried(cmd)) /\ Store(cmd, Effect(cmd, Carried(cmd))),
         adrift' \subseteq adrift \cup {cmd}
  PROVE  CacheInv'
<1>0. cmd.c \in Connections /\ cmd.k \in CKeys
  BY DEF ShapedCommand
<1>1. Shaped(entry[cmd.c][cmd.k])
  BY <1>0 DEF CacheInv, CacheTypeOK
<1>2. Shaped(Carried(cmd))
  BY <1>1, CurrentFacts DEF Carried
<1>3. CASE UNCHANGED entry
  <2>1. /\ DOMAIN told' = Connections /\ \A c \in Connections : DOMAIN told'[c] = CKeys
        /\ \A c \in Connections, k \in CKeys :
             told'[c][k] = IF c = cmd.c /\ k = cmd.k THEN Unknown ELSE told[c][k]
    BY DEF Learns
  <2>2. (\A other \in adrift : ShapedCommand(other))'
    BY DEF CacheInv, CacheTypeOK, ShapedCommand, RequireRedis, Driver
  <2>3. CacheTypeOK'
    BY <1>3, <2>1, <2>2 DEF CacheInv, CacheTypeOK
  <2>4. \A c \in Connections, k \in CKeys :
          c \in DOMAIN cacheConfig.connections => Agree(c, entry'[c][k], told'[c][k])
    BY <1>3, <2>1, UnknownAgrees DEF CacheInv, WordOK
  <2>5. WordOK'
    BY <2>4 DEF WordOK, Agree, RequireRedis, Driver, Current, Unexpired
  <2>6. SilenceOK'
    BY StaysSilent
  <2> QED
    BY <2>3, <2>5, <2>6 DEF CacheInv
<1>4. CASE Store(cmd, Absent)
  BY <1>4, AbsentShaped, UnknownAgrees, CommandKeeps
<1>5. CASE ~Refuses(cmd, Carried(cmd)) /\ Store(cmd, Effect(cmd, Carried(cmd)))
  <2>1. Shaped(Effect(cmd, Carried(cmd)))
    BY <1>2, <1>5, EffectShaped DEF CacheInv
  <2> QED
    BY <1>5, <2>1, UnknownAgrees, CommandKeeps
<1> QED
  BY <1>3, <1>4, <1>5

(* Time passes: on Redis two equal entries end together.                   *)
LEMMA ClockKeeps ==
  ASSUME CacheInv, clock' = clock + 1, UNCHANGED <<cacheConfig, entry, told, adrift>>
  PROVE  CacheInv'
<1>0. clock \in Nat /\ RelativeLimit \in Nat
  BY CacheTimes DEF CacheInv, CacheTypeOK
<1>1. CacheTypeOK'
  BY <1>0 DEF CacheInv, CacheTypeOK, ShapedCommand, RequireRedis, Driver
<1>2. ASSUME NEW e, NEW t, Shaped(e), Shaped(t), Current(e) = Current(t)
      PROVE  (IF e.until = Never \/ clock' < e.until THEN e ELSE Absent)
               = (IF t.until = Never \/ clock' < t.until THEN t ELSE Absent)
  <2>1. e.until \in Nat /\ t.until \in Nat
    BY <1>2 DEF Shaped, Entries
  <2>2. CASE Current(e) = Absent
    <3>1. \A x : Shaped(x) /\ Current(x) = Absent => (IF x.until = Never \/ clock' < x.until THEN x ELSE Absent) = Absent
      <4> SUFFICES ASSUME NEW x, Shaped(x), Current(x) = Absent
                   PROVE  (IF x.until = Never \/ clock' < x.until THEN x ELSE Absent) = Absent
        OBVIOUS
      <4>1. x.until \in Nat
        BY DEF Shaped, Entries
      <4> QED
        BY <1>0, <4>1 DEF Current, Unexpired
    <3> QED
      BY <1>2, <2>2, <3>1
  <2>3. CASE Current(e) # Absent
    <3>1. Current(e) = e /\ Current(t) = t
      BY <1>2, <2>3, CurrentFacts
    <3> QED
      BY <1>2, <3>1
  <2> QED
    BY <2>2, <2>3
<1>3. WordOK'
  <2> SUFFICES ASSUME NEW c \in Connections, NEW k \in CKeys, c \in DOMAIN cacheConfig.connections,
                      told[c][k].type # "unknown"
               PROVE  IF RequireRedis(c)
                      THEN (IF entry[c][k].until = Never \/ clock' < entry[c][k].until THEN entry[c][k] ELSE Absent)
                             = (IF told[c][k].until = Never \/ clock' < told[c][k].until THEN told[c][k] ELSE Absent)
                      ELSE Close(entry[c][k], told[c][k])
    BY DEF WordOK, Agree, RequireRedis, Driver, Current, Unexpired
  <2>1. Shaped(entry[c][k]) /\ Shaped(told[c][k])
    BY DEF CacheInv, CacheTypeOK, Unknown
  <2>2. IF RequireRedis(c) THEN Current(entry[c][k]) = Current(told[c][k]) ELSE Close(entry[c][k], told[c][k])
    BY DEF CacheInv, WordOK, Agree
  <2> QED
    BY <1>2, <2>1, <2>2
<1>4. SilenceOK'
  BY DEF CacheInv, SilenceOK
<1> QED
  BY <1>1, <1>3, <1>4 DEF CacheInv

(* CacheInv is inductive, late commands and the clock included.            *)
LEMMA CacheInvStep == CacheInv /\ [CacheNext]_cacheVars => CacheInv'
<1> SUFFICES ASSUME CacheInv, [CacheNext]_cacheVars PROVE CacheInv'
  OBVIOUS
<1>a. \A other \in adrift : ShapedCommand(other)
  BY DEF CacheInv, CacheTypeOK
<1>1. ASSUME NEW cmd \in Commands, Answered(cmd) PROVE CacheInv'
  BY <1>1, AnsweredKeeps
<1>2. ASSUME NEW cmd \in Commands, Failed(cmd) PROVE CacheInv'
  <2>1. ShapedCommand(cmd)
    BY CommandsShaped DEF CacheInv
  <2>2. UNCHANGED <<cacheConfig, clock, adrift>> /\ Know(cmd, Unknown) /\ (UNCHANGED entry \/ Store(cmd, Absent))
    BY <1>2 DEF Failed
  <2> QED
    BY <2>1, <2>2, KnowLearns, ForgettingKeeps
<1>3. ASSUME NEW cmd \in Commands, Lost(cmd) PROVE CacheInv'
  <2>1. ShapedCommand(cmd)
    BY CommandsShaped DEF CacheInv
  <2>2. UNCHANGED <<cacheConfig, clock, entry>> /\ Know(cmd, Unknown) /\ adrift' = adrift \cup {cmd}
    BY <1>3 DEF Lost
  <2> QED
    BY <2>1, <2>2, KnowLearns, ForgettingKeeps
<1>4. ASSUME NEW cmd \in adrift, Arrive(cmd) PROVE CacheInv'
  <2>1. ShapedCommand(cmd)
    BY <1>a
  <2>2. /\ UNCHANGED <<cacheConfig, clock, told>> /\ adrift' = adrift \ {cmd}
        /\ UNCHANGED entry \/ (~Refuses(cmd, Carried(cmd)) /\ Store(cmd, Effect(cmd, Carried(cmd))))
    BY <1>4 DEF Arrive
  <2>3. Learns(cmd, Unknown)
    BY <2>2 DEF CacheInv, CacheTypeOK, SilenceOK, Learns
  <2> QED
    BY <2>1, <2>2, <2>3, ForgettingKeeps
<1>5. CASE Clock
  BY <1>5, ClockKeeps DEF Clock
<1>6. CASE Aclose \/ UNCHANGED cacheVars
  <2>1. UNCHANGED <<cacheConfig, clock, entry, told, adrift>>
    BY <1>6 DEF Aclose, cacheVars
  <2>2. CacheTypeOK'
    BY <2>1 DEF CacheInv, CacheTypeOK, ShapedCommand, RequireRedis, Driver
  <2>3. WordOK'
    BY <2>1 DEF CacheInv, WordOK, Agree, RequireRedis, Driver, Current, Unexpired
  <2>4. SilenceOK'
    BY <2>1 DEF CacheInv, SilenceOK
  <2> QED
    BY <2>2, <2>3, <2>4 DEF CacheInv
<1> QED
  BY <1>1, <1>2, <1>3, <1>4, <1>5, <1>6 DEF CacheNext

(* It holds of empty servers.                                              *)
LEMMA CacheInvInit == CacheInit => CacheInv
<1> SUFFICES ASSUME CacheInit PROVE CacheInv
  OBVIOUS
<1>1. /\ DOMAIN entry = Connections /\ DOMAIN told = Connections
      /\ \A c \in Connections : DOMAIN entry[c] = CKeys /\ DOMAIN told[c] = CKeys
      /\ \A c \in Connections, k \in CKeys : entry[c][k] = Absent /\ told[c][k] = Absent
  BY DEF CacheInit
<1>2. CacheTypeOK
  BY <1>1, AbsentShaped, CacheTimes DEF CacheInit, CacheTypeOK
<1>3. WordOK
  BY <1>1 DEF WordOK, Agree, Close
<1>4. SilenceOK
  BY DEF CacheInit, SilenceOK
<1> QED
  BY <1>2, <1>3, <1>4 DEF CacheInv

(* RedisKeyStorage.ttl rounds half seconds up.                             *)
LEMMA RoundedUp ==
  ASSUME NEW d \in Nat
  PROVE  (d + 1) \div 2 \in Nat /\ 2 * ((d + 1) \div 2) - d \in {0, 1}
  OBVIOUS

(* What the callers of a cache may conclude from its replies holds, for    *)
(* any settings, keys and lifetimes and either driver, on every key that   *)
(* no command of a caller who has given up may still reach.                *)
THEOREM CachesKeepTheirWord == CacheSpec => []CacheKeepsItsWord
<1>1. CacheInv => CacheKeepsItsWord
  <2> SUFFICES ASSUME CacheInv, NEW c \in DOMAIN cacheConfig.connections, NEW k \in CKeys,
                      NEW e, e = entry[c][k], NEW t, t = told[c][k], t.type # "unknown"
               PROVE  /\ HasEntry(c, k) => Current(t).type = e.type
                      /\ Current(t).type # "none" /\ ~HasEntry(c, k) =>
                           t.until # Never /\ clock + (IF RequireRedis(c) THEN 0 ELSE 1) >= t.until
                      /\ HasEntry(c, k) =>
                           /\ Current(t).type = "string" => Get(c, k) = Current(t).val
                           /\ Current(t).type \in {"hash", "set"} => HashGetAll(c, k) = Current(t).val
                           /\ Current(t).type = "zset" =>
                                \A m \in Scores : RangeByScore(c, k, 0, m) = {p \in Current(t).val : p[2] <= m}
                           /\ RequireRedis(c) =>
                                IF t.until = Never THEN Ttl(c, k) = -1
                                ELSE 2 * Ttl(c, k) - (t.until - clock) \in {0, 1}
    BY DEF CacheKeepsItsWord
  <2>0. c \in Connections /\ clock \in Nat
    BY DEF CacheInv, CacheTypeOK, Connections
  <2>1. Shaped(e) /\ Shaped(t)
    BY <2>0 DEF CacheInv, CacheTypeOK, Unknown
  <2>2. IF RequireRedis(c) THEN Current(e) = Current(t) ELSE Close(e, t)
    BY <2>0 DEF CacheInv, WordOK, Agree
  <2>3. e.until \in Nat /\ t.until \in Nat
    BY <2>1 DEF Shaped, Entries
  <2>4. HasEntry(c, k) <=> Current(e).type # "none"
    BY DEF HasEntry
  <2>5. Get(c, k) = Current(e).val /\ HashGetAll(c, k) = Current(e).val
    BY DEF Get, HashGetAll
  <2>6. CASE RequireRedis(c)
    <3>1. Current(e) = Current(t)
      BY <2>2, <2>6
    <3>2. CASE Current(e).type = "none"
      BY <2>4, <3>1, <3>2
    <3>3. CASE Current(e).type # "none"
      <4>1. Current(e) = e /\ Current(t) = t /\ e = t
        BY <2>1, <3>1, <3>3, CurrentFacts, AbsentShaped
      <4>2. \A m \in Scores : RangeByScore(c, k, 0, m) = {p \in t.val : p[2] <= m}
        <5>1. \A p \in t.val : 0 <= p[2]
          BY <2>1 DEF Shaped, Entries, Scores
        <5>2. \A m \in Scores : RangeByScore(c, k, 0, m) = {p \in t.val : 0 <= p[2] /\ p[2] <= m}
          BY <4>1 DEF RangeByScore
        <5> QED
          BY <5>1, <5>2
      <4>3. IF t.until = Never THEN Ttl(c, k) = -1 ELSE 2 * Ttl(c, k) - (t.until - clock) \in {0, 1}
        <5>1. CASE t.until = Never
          BY <3>3, <4>1, <5>1 DEF Ttl
        <5>2. CASE t.until # Never
          <6>1. clock < t.until
            BY <3>3, <4>1, <5>2, AbsentShaped DEF Current, Unexpired
          <6>2. PICK d \in Nat : d = t.until - clock
            BY <2>0, <2>3, <6>1
          <6>3. Ttl(c, k) = (d + 1) \div 2
            BY <3>3, <4>1, <5>2, <6>2 DEF Ttl
          <6> QED
            BY <5>2, <6>2, <6>3, RoundedUp
        <5> QED
          BY <5>1, <5>2
      <4> QED
        BY <2>4, <2>5, <2>6, <3>3, <4>1, <4>2, <4>3
    <3> QED
      BY <3>2, <3>3
  <2>7. CASE ~RequireRedis(c)
    <3>1. CASE e = Absent /\ t = Absent
      <4>1. Current(e) = Absent /\ Current(t) = Absent
        BY <3>1 DEF Current
      <4> QED
        BY <2>4, <2>7, <4>1, AbsentShaped
    <3>2. CASE /\ e.type = "string" /\ t.type = "string" /\ e.val = t.val
               /\ e.until = Never /\ t.until = Never
      <4>1. Current(e) = e /\ Current(t) = t
        BY <3>2 DEF Current, Unexpired
      <4> QED
        BY <2>4, <2>5, <2>7, <3>2, <4>1
    <3>3. CASE /\ e.type = "string" /\ t.type = "string" /\ e.val = t.val
               /\ e.until # Never /\ t.until # Never
               /\ t.until = e.until \/ t.until = e.until + 1
      <4>1. CASE clock < e.until
        <5>1. Current(e) = e /\ Current(t) = t
          BY <2>0, <2>3, <3>3, <4>1 DEF Current, Unexpired
        <5> QED
          BY <2>4, <2>5, <2>7, <3>3, <5>1
      <4>2. CASE ~(clock < e.until)
        <5>1. Current(e) = Absent
          BY <3>3, <4>2 DEF Current, Unexpired
        <5>2. clock + 1 >= t.until
          BY <2>0, <2>3, <3>3, <4>2
        <5> QED
          BY <2>4, <2>7, <3>3, <5>1, <5>2, AbsentShaped
      <4> QED
        BY <4>1, <4>2
    <3> QED
      BY <2>2, <2>7, <3>1, <3>2, <3>3 DEF Close
  <2> QED
    BY <2>6, <2>7
<1> QED
  BY <1>1, CacheInvInit, CacheInvStep, PTL DEF CacheSpec
=============================================================================
