----------------------------- MODULE HttpServer -----------------------------
(***************************************************************************)
(* A request on its way through the middleware chain of interfaces/http/:  *)
(* CORS, request id, trace context, access log, exception capture, rate    *)
(* limit, query decoding, then the framework's exception handlers and the  *)
(* endpoint, with JSON answers and with event streams.                     *)
(*                                                                         *)
(* A step is the code of one request between two awaits; the layers a      *)
(* request passes without waiting are one step.  What an endpoint does is  *)
(* modelled elsewhere: here it returns, raises one of the kinds of error   *)
(* the handlers tell apart, or streams.                                    *)
(***************************************************************************)
EXTENDS RateLimit, Sequences

CONSTANTS
  Requests,    \* request tasks
  ClientOf,    \* ClientOf[r]: the identity of the peer of r
  MaxEvents    \* bound: messages of an event stream

ASSUME ClientsAssumption == ClientOf \in [Requests -> Clients]

VARIABLES
  settings,   \* the process's rate_limit.fail_open and app.debug
  reqPc,      \* reqPc[r]: the await at which r is
  decoded,    \* decoded[r]: the endpoint sees the decoded query
  decision,   \* decision[r]: what Redis has answered r
  started,    \* started[r]: statuses of the response starts sent
  seen,       \* seen[r]: the status the access log's wrapper has seen
  sse,        \* sse[r]: events of the stream sent
  generator,  \* generator[r]: the business generator is open
  access,     \* access[r]: the access log's entries
  exposedDetail, \* exposedDetail[r]: the answer carries the error's own content
  retryAt,    \* retryAt[r]: Retry-After, and once it is sent the time it is over
  refusedIn   \* refusedIn[r]: the window that refused r

requestVars == <<settings, reqPc, decoded, decision, started, seen, sse, generator, access,
                 exposedDetail, retryAt, refusedIn>>
httpVars == <<requestVars, limitVars>>

HttpInit ==
  /\ LimitInit
  /\ settings \in [failOpen : BOOLEAN, debug : BOOLEAN]
  /\ reqPc = [r \in Requests |-> "new"]
  /\ decoded = [r \in Requests |-> FALSE]
  /\ decision = [r \in Requests |-> "none"]
  /\ started = [r \in Requests |-> <<>>]
  /\ seen = [r \in Requests |-> 0]
  /\ sse = [r \in Requests |-> <<>>]
  /\ generator = [r \in Requests |-> FALSE]
  /\ access = [r \in Requests |-> <<>>]
  /\ exposedDetail = [r \in Requests |-> FALSE]
  /\ retryAt = [r \in Requests |-> 0]
  /\ refusedIn = [r \in Requests |-> 0]

-----------------------------------------------------------------------------
(* What the outer layers do with the end of a request                      *)

(* _write_log: the status sent; without one 499 for a cancellation, else   *)
(* 500.                                                                    *)
EffectiveStatus(status, failed, cancelled) ==
  IF status # 0 THEN status ELSE IF cancelled THEN 499 ELSE 500

(* AccessLogMiddleware writes its line in any case, except for a success   *)
(* on an excluded route.                                                   *)
WriteLog(r, status, failed, cancelled, excluded) ==
  access' = IF excluded /\ ~failed /\ EffectiveStatus(status, failed, cancelled) < 400
            THEN access
            ELSE [access EXCEPT ![r] =
                    Append(@, [status |-> EffectiveStatus(status, failed, cancelled),
                               failed |-> failed])]

Answer(r, status) == started' = [started EXCEPT ![r] = Append(@, status)]

(* The headers of an answer pass all wrappers; its body, and perhaps a     *)
(* background task, follows.                                               *)
Respond(r, status) ==
  /\ Answer(r, status)
  /\ seen' = [seen EXCEPT ![r] = status]
  /\ reqPc' = [reqPc EXCEPT ![r] = "body"]
  /\ UNCHANGED access

(* Mutant: an error response is rendered although one has begun.           *)
CaptureAlways(r) == Respond(r, 500)

(* ExceptionCaptureMiddleware: an exception from within.  Before the       *)
(* headers it is rendered as a 500; after them, or in debug mode, it goes  *)
(* on through the access log to the server, which can only answer a        *)
(* request that has no answer yet (external).                              *)
Capture(r) ==
  IF seen[r] = 0 /\ ~settings.debug
  THEN Respond(r, 500)
  ELSE /\ WriteLog(r, seen[r], TRUE, FALSE, FALSE)
       /\ started' = IF seen[r] = 0 THEN [started EXCEPT ![r] = Append(@, 500)] ELSE started
       /\ reqPc' = [reqPc EXCEPT ![r] = "done"]
       /\ UNCHANGED seen

(* The client is gone: the cancellation passes every layer.                *)
Cancel(r) ==
  /\ reqPc[r] \in {"limit", "answer", "endpoint", "body", "events"}
  /\ WriteLog(r, seen[r], TRUE, TRUE, FALSE)
  /\ generator' = [generator EXCEPT ![r] = FALSE]
  /\ reqPc' = [reqPc EXCEPT ![r] = "done"]
  /\ UNCHANGED <<decoded, decision, started, seen, sse, exposedDetail, retryAt, refusedIn,
                 limitVars>>

-----------------------------------------------------------------------------
(* From the door to the endpoint                                           *)

(* Answered before the access log: a CORS preflight, or a request id that  *)
(* is not a UUID.                                                          *)
AnsweredAtDoor(r) ==
  /\ reqPc[r] = "new"
  /\ \E status \in {200, 400} : Answer(r, status)
  /\ reqPc' = [reqPc EXCEPT ![r] = "done"]
  /\ UNCHANGED <<decoded, decision, seen, sse, generator, access, exposedDetail, retryAt,
                 refusedIn, limitVars>>

(* QueryParamDecodeMiddleware: a well-formed "f" replaces the query, any   *)
(* other leaves it as it is.                                               *)
DecodeQuery(r) == \E wellFormed \in BOOLEAN : decoded' = [decoded EXCEPT ![r] = wellFormed]

(* _should_limit: paths outside /api are not counted.                      *)
Unlimited(r) ==
  /\ reqPc[r] = "new"
  /\ DecodeQuery(r)
  /\ reqPc' = [reqPc EXCEPT ![r] = "endpoint"]
  /\ UNCHANGED <<decision, started, seen, sse, generator, access, exposedDetail, retryAt,
                 refusedIn, limitVars>>

(* RateLimitMiddleware awaits the limiter.                                 *)
Limited(r) ==
  /\ reqPc[r] = "new"
  /\ reqPc' = [reqPc EXCEPT ![r] = "limit"]
  /\ UNCHANGED <<decoded, decision, started, seen, sse, generator, access, exposedDetail,
                 retryAt, refusedIn, limitVars>>

(* The script runs in Redis; its answer is on its way, or is lost.         *)
LimitScript(r) ==
  LET c == ClientOf[r] IN
  /\ reqPc[r] = "limit" /\ decision[r] = "none"
  /\ AcquireWindow(c)
  /\ \/ /\ decision' = [decision EXCEPT ![r] = IF Reply(c).allowed THEN "allowed" ELSE "refused"]
        /\ refusedIn' = [refusedIn EXCEPT ![r] = IF Reply(c).allowed THEN 0 ELSE windows[c]]
        /\ retryAt' = [retryAt EXCEPT ![r] = IF Reply(c).allowed THEN 0
                                             ELSE RetryAfter(Reply(c).ttl)]
     \/ /\ decision' = [decision EXCEPT ![r] = "unavailable"]
        /\ UNCHANGED <<refusedIn, retryAt>>
  /\ reqPc' = [reqPc EXCEPT ![r] = "answer"]
  /\ UNCHANGED <<decoded, started, seen, sse, generator, access, exposedDetail, now>>

(* Redis cannot be reached: CacheConnectionError or CacheOperationError.   *)
LimitUnavailable(r) ==
  /\ reqPc[r] = "limit"
  /\ decision' = [decision EXCEPT ![r] = "unavailable"]
  /\ reqPc' = [reqPc EXCEPT ![r] = "answer"]
  /\ UNCHANGED <<decoded, started, seen, sse, generator, access, exposedDetail, retryAt,
                 refusedIn, limitVars>>

(* Anything else the limiter raises is an unexpected exception.            *)
LimitRaises(r) ==
  /\ reqPc[r] = "limit"
  /\ Capture(r)
  /\ UNCHANGED <<decoded, decision, sse, generator, exposedDetail, retryAt, refusedIn,
                 limitVars>>

(* The decision: on to the endpoint, or 429 with Retry-After, or 503.      *)
LimitPassed(r) ==
  /\ reqPc[r] = "answer"
  /\ decision[r] = "allowed" \/ (decision[r] = "unavailable" /\ settings.failOpen)
  /\ DecodeQuery(r)
  /\ reqPc' = [reqPc EXCEPT ![r] = "endpoint"]
  /\ UNCHANGED <<decision, started, seen, sse, generator, access, exposedDetail, retryAt,
                 refusedIn, limitVars>>

LimitRefused(r) ==
  /\ reqPc[r] = "answer"
  /\ \/ /\ decision[r] = "refused" /\ Respond(r, 429)
        /\ retryAt' = [retryAt EXCEPT ![r] = now + @ * TicksPerSecond]
     \/ /\ decision[r] = "unavailable" /\ ~settings.failOpen /\ Respond(r, 503)
        /\ UNCHANGED retryAt
  /\ UNCHANGED <<decoded, decision, sse, generator, exposedDetail, refusedIn, limitVars>>

-----------------------------------------------------------------------------
(* The endpoint and the exception handlers                                 *)

(* What an endpoint may raise: HttpError and HTTPException with their      *)
(* status, a validation error, anything else.                              *)
Errors == [type : {"HttpError", "HTTPException"}, status : {404, 503}]
          \cup {[type |-> "HTTPException", status |-> 304],
                [type |-> "RequestValidationError", status |-> 422]}

(* handle_http_error: a 5xx becomes the general one.                       *)
HttpErrorStatus(e) == IF e.status >= 500 THEN 500 ELSE e.status

(* _resolve_http_exception_content and handle_http_error: the content of   *)
(* a 5xx stays inside, and so does that of a 404 or 405 of the framework.  *)
DetailShown(e) ==
  \/ e.type = "HttpError" /\ e.status < 500
  \/ e.type = "HTTPException" /\ e.status < 500 /\ e.status \notin {404, 405}

(* render_exception: the status of the answer for each kind of error.      *)
RenderedStatus(e) == IF e.type = "HttpError" THEN HttpErrorStatus(e) ELSE e.status

(* An endpoint that answers at once, with success ...                      *)
EndpointReturns(r) ==
  /\ reqPc[r] = "endpoint"
  /\ Respond(r, 200)
  /\ UNCHANGED <<decoded, decision, sse, generator, exposedDetail, retryAt, refusedIn, limitVars>>

(* ... or with an error the framework has a handler for ...                *)
EndpointRaises(r) ==
  /\ reqPc[r] = "endpoint"
  /\ \E e \in Errors : /\ Respond(r, RenderedStatus(e))
                       /\ exposedDetail' = [exposedDetail EXCEPT ![r] = DetailShown(e)]
  /\ UNCHANGED <<decoded, decision, sse, generator, retryAt, refusedIn, limitVars>>

(* ... or with one it has not.                                             *)
EndpointCrashes(r) ==
  /\ reqPc[r] = "endpoint"
  /\ Capture(r)
  /\ UNCHANGED <<decoded, decision, sse, generator, exposedDetail, retryAt, refusedIn, limitVars>>

(* ... or the response is a stream of events.                              *)
StreamBegins(r) ==
  /\ reqPc[r] = "endpoint"
  /\ Answer(r, 200)
  /\ seen' = [seen EXCEPT ![r] = 200]
  /\ reqPc' = [reqPc EXCEPT ![r] = "events"]
  /\ generator' = [generator EXCEPT ![r] = TRUE]
  /\ UNCHANGED <<decoded, decision, sse, access, exposedDetail, retryAt, refusedIn, limitVars>>

(* The body has been sent and the background task has ended: the request   *)
(* is over ...                                                             *)
ResponseEnds(r) ==
  /\ reqPc[r] = "body"
  /\ \E excluded \in BOOLEAN : WriteLog(r, seen[r], FALSE, FALSE, excluded)
  /\ reqPc' = [reqPc EXCEPT ![r] = "done"]
  /\ UNCHANGED <<decoded, decision, started, seen, sse, generator, exposedDetail, retryAt,
                 refusedIn, limitVars>>

(* ... or one of them has failed, after the headers.                       *)
BodyFails(r) ==
  /\ reqPc[r] = "body"
  /\ Capture(r)
  /\ UNCHANGED <<decoded, decision, sse, generator, exposedDetail, retryAt, refusedIn, limitVars>>

-----------------------------------------------------------------------------
(* Event streams                                                           *)

(* _generate_events: the next message.                                     *)
SseMessage(r) ==
  /\ reqPc[r] = "events" /\ generator[r] /\ Len(sse[r]) < MaxEvents
  /\ sse' = [sse EXCEPT ![r] = Append(@, "message")]
  /\ UNCHANGED <<reqPc, decoded, decision, started, seen, generator, access, exposedDetail,
                 retryAt, refusedIn, limitVars>>

(* All messages are out: done, and the generator ends.                     *)
SseDone(r) ==
  /\ reqPc[r] = "events" /\ generator[r]
  /\ sse' = [sse EXCEPT ![r] = Append(@, "done")]
  /\ generator' = [generator EXCEPT ![r] = FALSE]
  /\ UNCHANGED <<reqPc, decoded, decision, started, seen, access, exposedDetail, retryAt,
                 refusedIn, limitVars>>

(* Mutant: the error is passed on to a server that has sent the headers.   *)
SseFailsSilently(r) ==
  /\ reqPc[r] = "events" /\ generator[r]
  /\ generator' = [generator EXCEPT ![r] = FALSE]
  /\ UNCHANGED <<reqPc, decoded, decision, started, seen, sse, access, exposedDetail, retryAt,
                 refusedIn, limitVars>>

(* handle_sse_exceptions: whatever the generator raises becomes the last   *)
(* event, with its own content only below 500 and if it can be serialised. *)
SseFails(r) ==
  /\ reqPc[r] = "events" /\ generator[r]
  /\ sse' = [sse EXCEPT ![r] = Append(@, "stream_error")]
  /\ generator' = [generator EXCEPT ![r] = FALSE]
  /\ \E status \in {404, 500}, serialisable \in BOOLEAN :
       exposedDetail' = [exposedDetail EXCEPT ![r] = status < 500 /\ serialisable]
  /\ UNCHANGED <<reqPc, decoded, decision, started, seen, access, retryAt, refusedIn, limitVars>>

(* The stream is over and so is the request.                               *)
SseEnds(r) ==
  /\ reqPc[r] = "events" /\ ~generator[r]
  /\ \E excluded \in BOOLEAN : WriteLog(r, seen[r], FALSE, FALSE, excluded)
  /\ reqPc' = [reqPc EXCEPT ![r] = "done"]
  /\ UNCHANGED <<decoded, decision, started, seen, sse, generator, exposedDetail, retryAt,
                 refusedIn, limitVars>>

-----------------------------------------------------------------------------
RequestStep(r) ==
  \/ AnsweredAtDoor(r) \/ Unlimited(r) \/ Limited(r) \/ LimitScript(r) \/ LimitUnavailable(r)
  \/ LimitRaises(r) \/ LimitPassed(r) \/ LimitRefused(r) \/ EndpointReturns(r)
  \/ EndpointRaises(r) \/ EndpointCrashes(r) \/ StreamBegins(r) \/ ResponseEnds(r) \/ BodyFails(r)
  \/ SseMessage(r) \/ SseDone(r) \/ SseFails(r) \/ SseEnds(r) \/ Cancel(r)

HttpNext == \/ UNCHANGED settings /\ \E r \in Requests : RequestStep(r)
            \/ ClockTick /\ UNCHANGED requestVars

HttpSpec == HttpInit /\ [][HttpNext]_httpVars

-----------------------------------------------------------------------------
(* Properties                                                              *)

(* A request gets one answer at most, and exactly one unless the client    *)
(* went away; what the access log says of it is what was sent (499 when    *)
(* nothing was); a line is missing only for successes and for the 400 of   *)
(* a request refused at the door, before the access log.  An exception     *)
(* after the headers neither sends a second answer nor hides the first.    *)
AnsweredOnce ==
  \A r \in Requests :
    /\ Len(started[r]) <= 1
    /\ Len(access[r]) <= 1
    /\ reqPc[r] = "done" =>
         /\ started[r] = <<>> => access[r] = <<[status |-> 499, failed |-> TRUE]>>
         /\ started[r] # <<>> /\ access[r] # <<>> => access[r][1].status = started[r][1]
         /\ access[r] = <<>> => started[r][1] <= 400

(* A stream that was not cut off by the client ends with exactly one       *)
(* terminal event, which is its last, and leaves no generator open; no     *)
(* answer of 500 or more carries the content of the error.                 *)
StreamsEnd ==
  \A r \in Requests :
    /\ \A i \in 1..(Len(sse[r]) - 1) : sse[r][i] = "message"
    /\ reqPc[r] = "events" /\ ~generator[r] =>
         sse[r] # <<>> /\ sse[r][Len(sse[r])] \in {"done", "stream_error"}
    /\ reqPc[r] = "done" => ~generator[r]
    /\ reqPc[r] = "done" /\ started[r] # <<>> /\ started[r][1] >= 500 => ~exposedDetail[r]

(* No window admits more than its quota, however the scripts of concurrent *)
(* requests interleave and whichever answers are lost, and a refused       *)
(* client that waits as long as Retry-After says finds the window closed.  *)
WindowHonest ==
  /\ \A c \in Clients : granted[c] <= MaxRequests
  /\ \A r \in Requests :
       started[r] = <<429>> /\ now >= retryAt[r] =>
         LET c == ClientOf[r] IN refusedIn[r] < windows[c] \/ ~KeyExists(c)
=============================================================================
