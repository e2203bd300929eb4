---------------------------- MODULE UserRequests ----------------------------
(***************************************************************************)
(* A request to the user endpoints, from the router down to the database   *)
(* session and back: interfaces/http/controllers/v1/users, the units of    *)
(* work that UserApplicationService opens one after the other, and         *)
(* DatabaseManager.  Accounts models what these transactions do to each    *)
(* other; this module what one of them leaves behind when a step of it     *)
(* fails: which answer the client gets, whether the change was made, and   *)
(* that the session is given back.                                         *)
(*                                                                         *)
(* The unit of work's clean-up is shielded from anyio's cancellation, but  *)
(* not from that of asyncio.Task.cancel, which may strike at any await.    *)
(***************************************************************************)
EXTENDS Naturals

CONSTANT UserCalls   \* concurrent requests

VARIABLES
  dbClosed,   \* DatabaseManager._closed
  engine,     \* the named resource: none, created or disposed
  endpoint,   \* endpoint[u]: the endpoint that serves u
  unitsLeft,  \* unitsLeft[u]: units of work u has yet to enter
  unitPc,     \* unitPc[u]: the await at which u is
  session,    \* session[u]: none, open, closing or closed
  tx,         \* tx[u]: the transaction of the session
  error,      \* error[u]: the exception on its way out
  cleanup,    \* cleanup[u]: the clean-up of the unit has raised
  reply       \* reply[u]: the answer's status; 0 before and without one

userVars == <<dbClosed, engine, endpoint, unitsLeft, unitPc, session, tx, error, cleanup, reply>>
unitVars == <<session, tx, error, cleanup>>

(* The endpoints of the router, with the units of work of their use case:  *)
(* creating and resetting check before they hash the password.             *)
Units == [create |-> 2, list |-> 1, get |-> 1, update |-> 1, status |-> 1, password |-> 2,
          delete |-> 1]
ReadOnly == {"list", "get"}

(* The errors of a router's "responses".                                   *)
Declared == [create |-> {409, 422}, list |-> {422}, get |-> {404, 422},
             update |-> {404, 409, 422}, status |-> {404, 409, 422},
             password |-> {404, 409, 422}, delete |-> {404, 422}]

NoError == "none"

UserInit ==
  /\ dbClosed = FALSE /\ engine = "none"
  /\ endpoint = [u \in UserCalls |-> "none"]
  /\ unitsLeft = [u \in UserCalls |-> 0]
  /\ unitPc = [u \in UserCalls |-> "new"]
  /\ session = [u \in UserCalls |-> "none"]
  /\ tx = [u \in UserCalls |-> "none"]
  /\ error = [u \in UserCalls |-> NoError]
  /\ cleanup = [u \in UserCalls |-> FALSE]
  /\ reply = [u \in UserCalls |-> 0]

At(u, where) == unitPc[u] = where
Move(u, where) == unitPc' = [unitPc EXCEPT ![u] = where]
Raise(u, e) == error' = [error EXCEPT ![u] = e]

-----------------------------------------------------------------------------
(* The use case                                                            *)

(* The service normalises its input first; what it refuses is              *)
(* InvalidUserDataError.                                                   *)
Receive(u, e) ==
  /\ At(u, "new")
  /\ endpoint' = [endpoint EXCEPT ![u] = e]
  /\ unitsLeft' = [unitsLeft EXCEPT ![u] = Units[e]]
  /\ \/ Move(u, "enter") /\ UNCHANGED error
     \/ e \in {"create", "password"} /\ Raise(u, "invalid") /\ Move(u, "router")
  /\ UNCHANGED <<dbClosed, engine, session, tx, cleanup, reply>>

(* __aenter__ and DatabaseManager.session: the resource is created by its  *)
(* first use, and a session is handed out.                                 *)
EnterUnit(u) ==
  /\ At(u, "enter") /\ ~dbClosed
  /\ engine' = "created"
  /\ unitsLeft' = [unitsLeft EXCEPT ![u] = @ - 1]
  /\ session' = [session EXCEPT ![u] = "open"]
  /\ tx' = [tx EXCEPT ![u] = "open"]
  /\ Move(u, "work")
  /\ UNCHANGED <<dbClosed, endpoint, error, cleanup, reply>>

(* A closed manager, a name or driver that is not there, a cancellation:   *)
(* there is no session yet, and __aexit__ is not called.                   *)
EnterFails(u) ==
  /\ At(u, "enter")
  /\ \E e \in {"failure", "cancelled"} : Raise(u, e)
  /\ Move(u, "router")
  /\ UNCHANGED <<dbClosed, engine, endpoint, unitsLeft, session, tx, cleanup, reply>>

(* The first unit of two only looks; the last one writes.                  *)
Writes(u) == endpoint[u] \notin ReadOnly /\ unitsLeft[u] = 0

(* What the body of a unit raises of its own accord: the target is gone,   *)
(* _ensure_unique, _ensure_updated, update_profile.                        *)
UseCaseErrors(u) ==
  (IF endpoint[u] \notin {"create", "list", "get"} THEN {"notFound"} ELSE {})
  \cup (IF endpoint[u] \in {"create", "update"} THEN {"conflict"} ELSE {})
  \cup (IF endpoint[u] \in {"update", "status", "password"} /\ Writes(u) THEN {"concurrent"} ELSE {})
  \cup (IF endpoint[u] = "update" THEN {"invalid"} ELSE {})

(* ... and what the database or the caller adds.                           *)
WorkRaises(u) ==
  /\ At(u, "work")
  /\ \E e \in UseCaseErrors(u) \cup {"failure", "cancelled"}
                \cup (IF endpoint[u] = "update" THEN {"integrity"} ELSE {}) : Raise(u, e)
  /\ Move(u, "rollback")
  /\ UNCHANGED <<dbClosed, engine, endpoint, unitsLeft, session, tx, cleanup, reply>>

(* A unit that only reads is left without a commit.                        *)
WorkRead(u) ==
  /\ At(u, "work") /\ ~Writes(u)
  /\ Move(u, "close")
  /\ UNCHANGED <<dbClosed, engine, endpoint, unitsLeft, unitVars, reply>>

WorkWritten(u) ==
  /\ At(u, "work") /\ Writes(u)
  /\ Move(u, "commit")
  /\ UNCHANGED <<dbClosed, engine, endpoint, unitsLeft, unitVars, reply>>

(* The password is hashed between the units.                               *)
Hashed(u) ==
  /\ At(u, "hash")
  /\ \/ Move(u, "enter") /\ UNCHANGED error
     \/ /\ \E e \in {"failure", "cancelled"} : Raise(u, e)
        /\ Move(u, "router")
  /\ UNCHANGED <<dbClosed, engine, endpoint, unitsLeft, session, tx, cleanup, reply>>

-----------------------------------------------------------------------------
(* SqlAlchemyUserUnitOfWork                                                *)

Committed(u) ==
  /\ At(u, "commit")
  /\ tx' = [tx EXCEPT ![u] = "committed"]
  /\ Move(u, "close")
  /\ UNCHANGED <<dbClosed, engine, endpoint, unitsLeft, session, error, cleanup, reply>>

(* The INSERT of a new user goes out with its COMMIT and a constraint      *)
(* refuses it; commit() rolls back before it tells.                        *)
CommitRefused(u) ==
  /\ At(u, "commit") /\ endpoint[u] = "create"
  /\ Move(u, "undo")
  /\ UNCHANGED <<dbClosed, engine, endpoint, unitsLeft, unitVars, reply>>

(* _resolve_user_conflict_field: a constraint of the two unique columns,   *)
(* or another one.                                                         *)
ConflictField == {"conflict", "failure"}

CommitUndone(u) ==
  /\ At(u, "undo")
  /\ \/ /\ tx' = [tx EXCEPT ![u] = "rolledback"]
        /\ \E e \in ConflictField : Raise(u, e)
     \/ UNCHANGED tx /\ Raise(u, "group")
  /\ Move(u, "rollback")
  /\ UNCHANGED <<dbClosed, engine, endpoint, unitsLeft, session, cleanup, reply>>

(* Mutant: whatever a COMMIT raises is taken for a conflict.               *)
CommitLostAsConflict(u) ==
  /\ At(u, "commit")
  /\ \E t \in {"open", "committed"} : tx' = [tx EXCEPT ![u] = t]
  /\ Raise(u, "conflict")
  /\ Move(u, "rollback")
  /\ UNCHANGED <<dbClosed, engine, endpoint, unitsLeft, session, cleanup, reply>>

(* The connection breaks or the task is cancelled at COMMIT, which the     *)
(* database may have carried out.                                          *)
CommitLost(u) ==
  /\ At(u, "commit")
  /\ \E t \in {"open", "committed"} : tx' = [tx EXCEPT ![u] = t]
  /\ \E e \in {"failure", "cancelled"} : Raise(u, e)
  /\ Move(u, "rollback")
  /\ UNCHANGED <<dbClosed, engine, endpoint, unitsLeft, session, cleanup, reply>>

RolledBack(u) == tx' = [tx EXCEPT ![u] = IF @ = "open" THEN "rolledback" ELSE @]

(* __aexit__ after an exception: roll back, or remember that it failed or  *)
(* was cut short, and go on.                                               *)
ExitRollback(u) ==
  /\ At(u, "rollback")
  /\ \/ RolledBack(u) /\ UNCHANGED cleanup
     \/ UNCHANGED tx /\ cleanup' = [cleanup EXCEPT ![u] = TRUE]
  /\ Move(u, "close")
  /\ UNCHANGED <<dbClosed, engine, endpoint, unitsLeft, session, error, reply>>

(* What __aexit__ raises: everything that went wrong as a group; else a    *)
(* unique constraint as the conflict it is; else what came in.             *)
ExitErrors(u, broken) ==
  IF broken THEN {"group"}
  ELSE IF error[u] = "integrity" THEN ConflictField ELSE {error[u]}

AfterUnit(u, e) ==
  /\ Raise(u, e)
  /\ Move(u, IF e = NoError /\ unitsLeft[u] > 0 THEN "hash" ELSE "router")
  /\ cleanup' = [cleanup EXCEPT ![u] = FALSE]

(* Then close the session, which ends an open transaction and gives the    *)
(* connection back; SQLAlchemy completes a close that is cancelled.        *)
ExitClose(u) ==
  /\ At(u, "close")
  /\ \/ /\ session' = [session EXCEPT ![u] = "closed"]
        /\ RolledBack(u)
        /\ \E broken \in {cleanup[u], TRUE} : \E e \in ExitErrors(u, broken) : AfterUnit(u, e)
     \/ /\ session' = [session EXCEPT ![u] = "closing"]
        /\ UNCHANGED tx
        /\ AfterUnit(u, "group")
  /\ UNCHANGED <<dbClosed, engine, endpoint, unitsLeft, reply>>

CloseCompletes(u) ==
  /\ session[u] = "closing"
  /\ session' = [session EXCEPT ![u] = "closed"]
  /\ RolledBack(u)
  /\ UNCHANGED <<dbClosed, engine, endpoint, unitsLeft, unitPc, error, cleanup, reply>>

-----------------------------------------------------------------------------
(* The router                                                              *)

(* get raises UserNotFoundError once its unit is left.                     *)
Missing(u) == endpoint[u] = "get" /\ error[u] = NoError

(* user_error_to_http; every other exception is rendered as a 500.         *)
ErrorStatus(e) ==
  CASE e = "notFound" -> 404
    [] e \in {"conflict", "concurrent"} -> 409
    [] e = "invalid" -> 422
    [] OTHER -> 500

SuccessStatus(e) ==
  CASE e = "create" -> 201
    [] e \in {"password", "delete"} -> 204
    [] OTHER -> 200

(* The endpoint's answer; a cancelled request has none, nor one whose      *)
(* group of exceptions holds a cancellation.                               *)
Route(u) ==
  /\ At(u, "router")
  /\ \/ /\ error[u] = NoError
        /\ reply' = [reply EXCEPT ![u] = SuccessStatus(endpoint[u])]
     \/ Missing(u) /\ reply' = [reply EXCEPT ![u] = ErrorStatus("notFound")]
     \/ /\ error[u] \notin {NoError, "cancelled"}
        /\ reply' = [reply EXCEPT ![u] = ErrorStatus(error[u])]
     \/ error[u] \in {"cancelled", "group"} /\ UNCHANGED reply
  /\ Move(u, "done")
  /\ UNCHANGED <<dbClosed, engine, endpoint, unitsLeft, unitVars>>

(* DatabaseManager.aclose: no new session; the engine is disposed of, a    *)
(* session that is out keeps its connection.                               *)
DatabaseAclose ==
  /\ ~dbClosed
  /\ dbClosed' = TRUE
  /\ engine' = IF engine = "created" THEN "disposed" ELSE engine
  /\ UNCHANGED <<endpoint, unitsLeft, unitPc, unitVars, reply>>

UserCallStep(u) ==
  \/ \E e \in DOMAIN Units : Receive(u, e)
  \/ EnterUnit(u) \/ EnterFails(u) \/ WorkRaises(u) \/ WorkRead(u) \/ WorkWritten(u) \/ Hashed(u)
  \/ Committed(u) \/ CommitRefused(u) \/ CommitUndone(u) \/ CommitLost(u)
  \/ ExitRollback(u) \/ ExitClose(u) \/ CloseCompletes(u) \/ Route(u)

UserNext == (\E u \in UserCalls : UserCallStep(u)) \/ DatabaseAclose

UserSpec == UserInit /\ [][UserNext]_userVars

-----------------------------------------------------------------------------
(* The answer tells the truth about the database, wherever a step failed,  *)
(* was refused or cancelled: after a success of a changing endpoint the    *)
(* change is committed; after a 4xx, which is one the endpoint declares,   *)
(* nothing is.  Whatever the answer, no session is left open, no session   *)
(* is out between two units or at the router, and no transaction outlives  *)
(* its session.                                                            *)
AnswersTellTheTruth ==
  \A u \in UserCalls :
    /\ reply[u] \in 200..299 /\ endpoint[u] \notin ReadOnly => tx[u] = "committed"
    /\ reply[u] \in 400..499 => tx[u] # "committed" /\ reply[u] \in Declared[endpoint[u]]
    /\ unitPc[u] \in {"enter", "hash", "router", "done"} => session[u] # "open"
    /\ session[u] \in {"none", "closed"} => tx[u] # "open"
=============================================================================
