------------------------------ MODULE HttpProofs -----------------------------
(***************************************************************************)
(* Proofs about the sides of HTTP: the user endpoints down to the database *)
(* session, the requests in the middleware chain with the rate limit, and  *)
(* the calls the application makes, for any number of each.                *)
(***************************************************************************)
EXTENDS HttpServer, UserRequests, OutboundHttp, FiniteSetTheorems, TLAPS

-----------------------------------------------------------------------------
(* The user endpoints                                                      *)

(* What a request to a user endpoint holds at every await: a session is    *)
(* open exactly while a unit of work is, its transaction is committed only *)
(* by a unit that writes, and an error that a client may see has left      *)
(* nothing committed.                                                      *)
UserTypeOK ==
  /\ endpoint \in [UserCalls -> DOMAIN Units \cup {"none"}]
  /\ unitsLeft \in [UserCalls -> Nat]
  /\ unitPc \in [UserCalls -> {"new", "enter", "work", "hash", "commit", "undo", "rollback",
                               "close", "router", "done"}]
  /\ session \in [UserCalls -> {"none", "open", "closing", "closed"}]
  /\ tx \in [UserCalls -> {"none", "open", "committed", "rolledback"}]
  /\ error \in [UserCalls -> {NoError, "invalid", "notFound", "conflict", "concurrent",
                              "integrity", "failure", "cancelled", "group"}]
  /\ reply \in [UserCalls -> Nat]

ClientErrors == {"invalid", "notFound", "conflict", "concurrent"}
InUnit == {"work", "commit", "undo", "rollback", "close"}

SessionOK(u) ==
  /\ unitPc[u] \in InUnit <=> session[u] = "open"
  /\ session[u] = "none" <=> tx[u] = "none"
  /\ session[u] = "closed" => tx[u] \in {"committed", "rolledback"}
  /\ session[u] = "closing" => error[u] = "group" /\ unitPc[u] \in {"router", "done"}

TxOK(u) ==
  /\ unitPc[u] = "new" => session[u] = "none"
  /\ unitPc[u] # "new" => endpoint[u] \in DOMAIN Units
  /\ unitPc[u] \in {"new", "enter", "work", "hash", "commit", "undo"} => tx[u] # "committed"
  /\ unitPc[u] \in {"new", "enter", "work", "hash", "commit", "undo"} => error[u] = NoError
  /\ unitPc[u] \in {"enter", "hash"} => unitsLeft[u] > 0
  /\ unitPc[u] \in {"commit", "undo"} \/ tx[u] = "committed" => Writes(u)
  /\ unitPc[u] = "undo" => endpoint[u] = "create"

ErrorOK(u) ==
  /\ error[u] \in ClientErrors =>
       tx[u] # "committed" /\ ErrorStatus(error[u]) \in Declared[endpoint[u]]
  /\ error[u] = "integrity" =>
       tx[u] # "committed" /\ endpoint[u] = "update" /\ unitPc[u] \in {"rollback", "close"}
  /\ unitPc[u] = "rollback" => error[u] # NoError
  /\ unitPc[u] \in {"close", "router", "done"} /\ error[u] = NoError =>
       tx[u] = "committed" \/ ~Writes(u)
  /\ unitPc[u] \in {"router", "done"} /\ error[u] = NoError => unitsLeft[u] = 0

ReplyOK(u) ==
  /\ unitPc[u] # "done" => reply[u] = 0
  /\ reply[u] \in 200..299 => error[u] = NoError
  /\ reply[u] \in 400..499 => tx[u] # "committed" /\ reply[u] \in Declared[endpoint[u]]

UserInv ==
  /\ UserTypeOK
  /\ \A u \in UserCalls : SessionOK(u) /\ TxOK(u) /\ ErrorOK(u) /\ ReplyOK(u)

(* The tables of the router.                                               *)
LEMMA Tables ==
  /\ DOMAIN Units = {"create", "list", "get", "update", "status", "password", "delete"}
  /\ \A e \in DOMAIN Units : Units[e] \in Nat \ {0}
  /\ \A e \in DOMAIN Units : e \notin {"create", "list", "get"} => 404 \in Declared[e]
  /\ \A e \in {"create", "update", "status", "password"} : {409, 422} \subseteq Declared[e]
  /\ 404 \in Declared["get"]
  BY DEF Units, Declared

(* The status each error and each success is answered with.                *)
LEMMA Statuses ==
  /\ \A e \in {"failure", "group", "cancelled", "integrity"} : ErrorStatus(e) = 500
  /\ ErrorStatus("notFound") = 404 /\ ErrorStatus("invalid") = 422
  /\ ErrorStatus("conflict") = 409 /\ ErrorStatus("concurrent") = 409
  /\ \A e \in DOMAIN Units : SuccessStatus(e) \in {200, 201, 204}
  BY DEF ErrorStatus, SuccessStatus

(* One request moves at a time: the others keep what they hold.            *)
LEMMA OneCall ==
  ASSUME UserInv, UserTypeOK', NEW u \in UserCalls,
         SessionOK(u)', TxOK(u)', ErrorOK(u)', ReplyOK(u)',
         \A v \in UserCalls \ {u} :
           /\ endpoint'[v] = endpoint[v] /\ unitsLeft'[v] = unitsLeft[v] /\ unitPc'[v] = unitPc[v]
           /\ session'[v] = session[v] /\ tx'[v] = tx[v] /\ error'[v] = error[v]
           /\ reply'[v] = reply[v]
  PROVE  UserInv'
<1>1. ASSUME NEW v \in UserCalls \ {u} PROVE SessionOK(v)' /\ TxOK(v)' /\ ErrorOK(v)' /\ ReplyOK(v)'
  BY <1>1 DEF UserInv, SessionOK, TxOK, ErrorOK, ReplyOK, Writes
<1> QED
  BY <1>1 DEF UserInv

(* UserInv is inductive: one case for each step of a unit of work.         *)
LEMMA UserStep == UserInv /\ [UserNext]_userVars => UserInv'
<1> SUFFICES ASSUME UserInv, [UserNext]_userVars PROVE UserInv'
  OBVIOUS
<1> USE DEF NoError
<1>1. ASSUME NEW u \in UserCalls, NEW e \in DOMAIN Units, Receive(u, e) PROVE UserInv'
  <2>1. UserTypeOK'
    BY <1>1, Tables, Statuses DEF UserInv, UserTypeOK, TxOK, ErrorOK, Receive, At, Move, Raise
  <2>2. SessionOK(u)'
    BY <1>1 DEF UserInv, UserTypeOK, SessionOK, TxOK, InUnit, Receive, At, Move, Raise
  <2>3. TxOK(u)'
    BY <1>1, Tables DEF UserInv, UserTypeOK, SessionOK, TxOK, ErrorOK, InUnit, Writes, Receive, At,
      Move, Raise
  <2>4. ErrorOK(u)'
    BY <1>1, Tables, Statuses DEF UserInv, UserTypeOK, TxOK, ErrorOK, ClientErrors, Writes, Receive,
      At, Move, Raise
  <2>5. ReplyOK(u)'
    BY <1>1, Tables, Statuses DEF UserInv, UserTypeOK, TxOK, ErrorOK, ReplyOK, ClientErrors, Writes,
      Receive, At, Move, Raise
  <2> QED
    BY <1>1, <2>1, <2>2, <2>3, <2>4, <2>5, OneCall DEF UserInv, UserTypeOK, Receive, At, Move, Raise
<1>2. ASSUME NEW u \in UserCalls, EnterUnit(u) PROVE UserInv'
  <2>1. UserTypeOK'
    BY <1>2, Tables, Statuses DEF UserInv, UserTypeOK, TxOK, ErrorOK, EnterUnit, At, Move
  <2>2. SessionOK(u)'
    BY <1>2 DEF UserInv, UserTypeOK, SessionOK, TxOK, InUnit, EnterUnit, At, Move
  <2>3. TxOK(u)'
    BY <1>2, Tables DEF UserInv, UserTypeOK, SessionOK, TxOK, ErrorOK, InUnit, Writes, EnterUnit,
      At, Move
  <2>4. ErrorOK(u)'
    BY <1>2, Tables, Statuses DEF UserInv, UserTypeOK, TxOK, ErrorOK, ClientErrors, Writes,
      EnterUnit, At, Move
  <2>5. ReplyOK(u)'
    BY <1>2, Tables, Statuses DEF UserInv, UserTypeOK, TxOK, ErrorOK, ReplyOK, ClientErrors, Writes,
      EnterUnit, At, Move
  <2> QED
    BY <1>2, <2>1, <2>2, <2>3, <2>4, <2>5, OneCall DEF UserInv, UserTypeOK, EnterUnit, At, Move
<1>3. ASSUME NEW u \in UserCalls, EnterFails(u) PROVE UserInv'
  <2>1. UserTypeOK'
    BY <1>3, Tables, Statuses DEF UserInv, UserTypeOK, TxOK, ErrorOK, EnterFails, Raise, At, Move
  <2>2. SessionOK(u)'
    BY <1>3 DEF UserInv, UserTypeOK, SessionOK, TxOK, InUnit, EnterFails, Raise, At, Move
  <2>3. TxOK(u)'
    BY <1>3, Tables DEF UserInv, UserTypeOK, SessionOK, TxOK, ErrorOK, InUnit, Writes, EnterFails,
      Raise, At, Move
  <2>4. ErrorOK(u)'
    BY <1>3, Tables, Statuses DEF UserInv, UserTypeOK, TxOK, ErrorOK, ClientErrors, Writes,
      EnterFails, Raise, At, Move
  <2>5. ReplyOK(u)'
    BY <1>3, Tables, Statuses DEF UserInv, UserTypeOK, TxOK, ErrorOK, ReplyOK, ClientErrors, Writes,
      EnterFails, Raise, At, Move
  <2> QED
    BY <1>3, <2>1, <2>2, <2>3, <2>4, <2>5, OneCall DEF UserInv, UserTypeOK, EnterFails, Raise, At,
      Move
<1>4. ASSUME NEW u \in UserCalls, WorkRaises(u) PROVE UserInv'
  <2>1. UserTypeOK'
    BY <1>4, Tables, Statuses DEF UserInv, UserTypeOK, TxOK, ErrorOK, WorkRaises, UseCaseErrors,
      Raise, At, Move
  <2>2. SessionOK(u)'
    BY <1>4 DEF UserInv, UserTypeOK, SessionOK, TxOK, InUnit, WorkRaises, UseCaseErrors, Raise, At,
      Move
  <2>3. TxOK(u)'
    BY <1>4, Tables DEF UserInv, UserTypeOK, SessionOK, TxOK, ErrorOK, InUnit, Writes, WorkRaises,
      UseCaseErrors, Raise, At, Move
  <2>4. ErrorOK(u)'
    BY <1>4, Tables, Statuses DEF UserInv, UserTypeOK, TxOK, ErrorOK, ClientErrors, Writes,
      WorkRaises, UseCaseErrors, Raise, At, Move
  <2>5. ReplyOK(u)'
    BY <1>4, Tables, Statuses DEF UserInv, UserTypeOK, TxOK, ErrorOK, ReplyOK, ClientErrors, Writes,
      WorkRaises, UseCaseErrors, Raise, At, Move
  <2> QED
    BY <1>4, <2>1, <2>2, <2>3, <2>4, <2>5, OneCall DEF UserInv, UserTypeOK, WorkRaises,
      UseCaseErrors, Raise, At, Move
<1>5. ASSUME NEW u \in UserCalls, WorkRead(u) PROVE UserInv'
  <2>1. UserTypeOK'
    BY <1>5, Tables, Statuses DEF UserInv, UserTypeOK, TxOK, ErrorOK, WorkRead, At, Move, unitVars
  <2>2. SessionOK(u)'
    BY <1>5 DEF UserInv, UserTypeOK, SessionOK, TxOK, InUnit, WorkRead, At, Move, unitVars
  <2>3. TxOK(u)'
    BY <1>5, Tables DEF UserInv, UserTypeOK, SessionOK, TxOK, ErrorOK, InUnit, Writes, WorkRead, At,
      Move, unitVars
  <2>4. ErrorOK(u)'
    BY <1>5, Tables, Statuses DEF UserInv, UserTypeOK, TxOK, ErrorOK, ClientErrors, Writes,
      WorkRead, At, Move, unitVars
  <2>5. ReplyOK(u)'
    BY <1>5, Tables, Statuses DEF UserInv, UserTypeOK, TxOK, ErrorOK, ReplyOK, ClientErrors, Writes,
      WorkRead, At, Move, unitVars
  <2> QED
    BY <1>5, <2>1, <2>2, <2>3, <2>4, <2>5, OneCall DEF UserInv, UserTypeOK, WorkRead, At, Move,
      unitVars
<1>6. ASSUME NEW u \in UserCalls, WorkWritten(u) PROVE UserInv'
  <2>1. UserTypeOK'
    BY <1>6, Tables, Statuses DEF UserInv, UserTypeOK, TxOK, ErrorOK, WorkWritten, At, Move,
      unitVars
  <2>2. SessionOK(u)'
    BY <1>6 DEF UserInv, UserTypeOK, SessionOK, TxOK, InUnit, WorkWritten, At, Move, unitVars
  <2>3. TxOK(u)'
    BY <1>6, Tables DEF UserInv, UserTypeOK, SessionOK, TxOK, ErrorOK, InUnit, Writes, WorkWritten,
      At, Move, unitVars
  <2>4. ErrorOK(u)'
    BY <1>6, Tables, Statuses DEF UserInv, UserTypeOK, TxOK, ErrorOK, ClientErrors, Writes,
      WorkWritten, At, Move, unitVars
  <2>5. ReplyOK(u)'
    BY <1>6, Tables, Statuses DEF UserInv, UserTypeOK, TxOK, ErrorOK, ReplyOK, ClientErrors, Writes,
      WorkWritten, At, Move, unitVars
  <2> QED
    BY <1>6, <2>1, <2>2, <2>3, <2>4, <2>5, OneCall DEF UserInv, UserTypeOK, WorkWritten, At, Move,
      unitVars
<1>7. ASSUME NEW u \in UserCalls, Hashed(u) PROVE UserInv'
  <2>1. UserTypeOK'
    BY <1>7, Tables, Statuses DEF UserInv, UserTypeOK, TxOK, ErrorOK, Hashed, Raise, At, Move
  <2>2. SessionOK(u)'
    BY <1>7 DEF UserInv, UserTypeOK, SessionOK, TxOK, InUnit, Hashed, Raise, At, Move
  <2>3. TxOK(u)'
    BY <1>7, Tables DEF UserInv, UserTypeOK, SessionOK, TxOK, ErrorOK, InUnit, Writes, Hashed,
      Raise, At, Move
  <2>4. ErrorOK(u)'
    BY <1>7, Tables, Statuses DEF UserInv, UserTypeOK, TxOK, ErrorOK, ClientErrors, Writes, Hashed,
      Raise, At, Move
  <2>5. ReplyOK(u)'
    BY <1>7, Tables, Statuses DEF UserInv, UserTypeOK, TxOK, ErrorOK, ReplyOK, ClientErrors, Writes,
      Hashed, Raise, At, Move
  <2> QED
    BY <1>7, <2>1, <2>2, <2>3, <2>4, <2>5, OneCall DEF UserInv, UserTypeOK, Hashed, Raise, At, Move
<1>8. ASSUME NEW u \in UserCalls, Committed(u) PROVE UserInv'
  <2>1. UserTypeOK'
    BY <1>8, Tables, Statuses DEF UserInv, UserTypeOK, TxOK, ErrorOK, Committed, At, Move
  <2>2. SessionOK(u)'
    BY <1>8 DEF UserInv, UserTypeOK, SessionOK, TxOK, InUnit, Committed, At, Move
  <2>3. TxOK(u)'
    BY <1>8, Tables DEF UserInv, UserTypeOK, SessionOK, TxOK, ErrorOK, InUnit, Writes, Committed,
      At, Move
  <2>4. ErrorOK(u)'
    BY <1>8, Tables, Statuses DEF UserInv, UserTypeOK, TxOK, ErrorOK, ClientErrors, Writes,
      Committed, At, Move
  <2>5. ReplyOK(u)'
    BY <1>8, Tables, Statuses DEF UserInv, UserTypeOK, TxOK, ErrorOK, ReplyOK, ClientErrors, Writes,
      Committed, At, Move
  <2> QED
    BY <1>8, <2>1, <2>2, <2>3, <2>4, <2>5, OneCall DEF UserInv, UserTypeOK, Committed, At, Move
<1>9. ASSUME NEW u \in UserCalls, CommitRefused(u) PROVE UserInv'
  <2>1. UserTypeOK'
    BY <1>9, Tables, Statuses DEF UserInv, UserTypeOK, TxOK, ErrorOK, CommitRefused, At, Move,
      unitVars
  <2>2. SessionOK(u)'
    BY <1>9 DEF UserInv, UserTypeOK, SessionOK, TxOK, InUnit, CommitRefused, At, Move, unitVars
  <2>3. TxOK(u)'
    BY <1>9, Tables DEF UserInv, UserTypeOK, SessionOK, TxOK, ErrorOK, InUnit, Writes,
      CommitRefused, At, Move, unitVars
  <2>4. ErrorOK(u)'
    BY <1>9, Tables, Statuses DEF UserInv, UserTypeOK, TxOK, ErrorOK, ClientErrors, Writes,
      CommitRefused, At, Move, unitVars
  <2>5. ReplyOK(u)'
    BY <1>9, Tables, Statuses DEF UserInv, UserTypeOK, TxOK, ErrorOK, ReplyOK, ClientErrors, Writes,
      CommitRefused, At, Move, unitVars
  <2> QED
    BY <1>9, <2>1, <2>2, <2>3, <2>4, <2>5, OneCall DEF UserInv, UserTypeOK, CommitRefused, At, Move,
      unitVars
<1>10. ASSUME NEW u \in UserCalls, CommitUndone(u) PROVE UserInv'
  <2>1. UserTypeOK'
    BY <1>10, Tables, Statuses DEF UserInv, UserTypeOK, TxOK, ErrorOK, CommitUndone, ConflictField,
      Raise, At, Move
  <2>2. SessionOK(u)'
    BY <1>10 DEF UserInv, UserTypeOK, SessionOK, TxOK, InUnit, CommitUndone, ConflictField, Raise,
      At, Move
  <2>3. TxOK(u)'
    BY <1>10, Tables DEF UserInv, UserTypeOK, SessionOK, TxOK, ErrorOK, InUnit, Writes,
      CommitUndone, ConflictField, Raise, At, Move
  <2>4. ErrorOK(u)'
    BY <1>10, Tables, Statuses DEF UserInv, UserTypeOK, TxOK, ErrorOK, ClientErrors, Writes,
      CommitUndone, ConflictField, Raise, At, Move
  <2>5. ReplyOK(u)'
    BY <1>10, Tables, Statuses DEF UserInv, UserTypeOK, TxOK, ErrorOK, ReplyOK, ClientErrors,
      Writes, CommitUndone, ConflictField, Raise, At, Move
  <2> QED
    BY <1>10, <2>1, <2>2, <2>3, <2>4, <2>5, OneCall DEF UserInv, UserTypeOK, CommitUndone,
      ConflictField, Raise, At, Move
<1>11. ASSUME NEW u \in UserCalls, CommitLost(u) PROVE UserInv'
  <2>1. UserTypeOK'
    BY <1>11, Tables, Statuses DEF UserInv, UserTypeOK, TxOK, ErrorOK, CommitLost, Raise, At, Move
  <2>2. SessionOK(u)'
    BY <1>11 DEF UserInv, UserTypeOK, SessionOK, TxOK, InUnit, CommitLost, Raise, At, Move
  <2>3. TxOK(u)'
    BY <1>11, Tables DEF UserInv, UserTypeOK, SessionOK, TxOK, ErrorOK, InUnit, Writes, CommitLost,
      Raise, At, Move
  <2>4. ErrorOK(u)'
    BY <1>11, Tables, Statuses DEF UserInv, UserTypeOK, TxOK, ErrorOK, ClientErrors, Writes,
      CommitLost, Raise, At, Move
  <2>5. ReplyOK(u)'
    BY <1>11, Tables, Statuses DEF UserInv, UserTypeOK, TxOK, ErrorOK, ReplyOK, ClientErrors,
      Writes, CommitLost, Raise, At, Move
  <2> QED
    BY <1>11, <2>1, <2>2, <2>3, <2>4, <2>5, OneCall DEF UserInv, UserTypeOK, CommitLost, Raise, At,
      Move
<1>12. ASSUME NEW u \in UserCalls, ExitRollback(u) PROVE UserInv'
  <2>1. UserTypeOK'
    BY <1>12, Tables, Statuses DEF UserInv, UserTypeOK, TxOK, ErrorOK, ExitRollback, RolledBack, At,
      Move
  <2>2. SessionOK(u)'
    BY <1>12 DEF UserInv, UserTypeOK, SessionOK, TxOK, InUnit, ExitRollback, RolledBack, At, Move
  <2>3. TxOK(u)'
    BY <1>12, Tables DEF UserInv, UserTypeOK, SessionOK, TxOK, ErrorOK, InUnit, Writes,
      ExitRollback, RolledBack, At, Move
  <2>4. ErrorOK(u)'
    BY <1>12, Tables, Statuses DEF UserInv, UserTypeOK, TxOK, ErrorOK, ClientErrors, Writes,
      ExitRollback, RolledBack, At, Move
  <2>5. ReplyOK(u)'
    BY <1>12, Tables, Statuses DEF UserInv, UserTypeOK, TxOK, ErrorOK, ReplyOK, ClientErrors,
      Writes, ExitRollback, RolledBack, At, Move
  <2> QED
    BY <1>12, <2>1, <2>2, <2>3, <2>4, <2>5, OneCall DEF UserInv, UserTypeOK, ExitRollback,
      RolledBack, At, Move
<1>13. ASSUME NEW u \in UserCalls, ExitClose(u) PROVE UserInv'
  <2>1. UserTypeOK'
    BY <1>13, Tables, Statuses DEF UserInv, UserTypeOK, TxOK, ErrorOK, ExitClose, ExitErrors,
      AfterUnit, RolledBack, ConflictField, Raise, At, Move
  <2>2. SessionOK(u)'
    BY <1>13 DEF UserInv, UserTypeOK, SessionOK, TxOK, InUnit, ExitClose, ExitErrors, AfterUnit,
      RolledBack, ConflictField, Raise, At, Move
  <2>3. TxOK(u)'
    BY <1>13, Tables DEF UserInv, UserTypeOK, SessionOK, TxOK, ErrorOK, InUnit, Writes, ExitClose,
      ExitErrors, AfterUnit, RolledBack, ConflictField, Raise, At, Move
  <2>4. ErrorOK(u)'
    BY <1>13, Tables, Statuses DEF UserInv, UserTypeOK, TxOK, ErrorOK, ClientErrors, Writes,
      ExitClose, ExitErrors, AfterUnit, RolledBack, ConflictField, Raise, At, Move
  <2>5. ReplyOK(u)'
    BY <1>13, Tables, Statuses DEF UserInv, UserTypeOK, TxOK, ErrorOK, ReplyOK, ClientErrors,
      Writes, ExitClose, ExitErrors, AfterUnit, RolledBack, ConflictField, Raise, At, Move
  <2> QED
    BY <1>13, <2>1, <2>2, <2>3, <2>4, <2>5, OneCall DEF UserInv, UserTypeOK, ExitClose, ExitErrors,
      AfterUnit, RolledBack, ConflictField, Raise, At, Move
<1>14. ASSUME NEW u \in UserCalls, CloseCompletes(u) PROVE UserInv'
  <2>1. UserTypeOK'
    BY <1>14, Tables, Statuses DEF UserInv, UserTypeOK, TxOK, ErrorOK, CloseCompletes, RolledBack
  <2>2. SessionOK(u)'
    BY <1>14 DEF UserInv, UserTypeOK, SessionOK, TxOK, InUnit, CloseCompletes, RolledBack
  <2>3. TxOK(u)'
    BY <1>14, Tables DEF UserInv, UserTypeOK, SessionOK, TxOK, ErrorOK, InUnit, Writes,
      CloseCompletes, RolledBack
  <2>4. ErrorOK(u)'
    BY <1>14, Tables, Statuses DEF UserInv, UserTypeOK, TxOK, ErrorOK, ClientErrors, Writes,
      CloseCompletes, RolledBack
  <2>5. ReplyOK(u)'
    BY <1>14, Tables, Statuses DEF UserInv, UserTypeOK, TxOK, ErrorOK, ReplyOK, ClientErrors,
      Writes, CloseCompletes, RolledBack
  <2> QED
    BY <1>14, <2>1, <2>2, <2>3, <2>4, <2>5, OneCall DEF UserInv, UserTypeOK, CloseCompletes,
      RolledBack
<1>15. ASSUME NEW u \in UserCalls, Route(u) PROVE UserInv'
  <2>1. UserTypeOK'
    BY <1>15, Tables, Statuses DEF UserInv, UserTypeOK, TxOK, ErrorOK, Route, Missing, At, Move,
      unitVars
  <2>2. SessionOK(u)'
    BY <1>15 DEF UserInv, UserTypeOK, SessionOK, TxOK, InUnit, Route, Missing, At, Move, unitVars
  <2>3. TxOK(u)'
    BY <1>15, Tables DEF UserInv, UserTypeOK, SessionOK, TxOK, ErrorOK, InUnit, Writes, Route,
      Missing, At, Move, unitVars
  <2>4. ErrorOK(u)'
    BY <1>15, Tables, Statuses DEF UserInv, UserTypeOK, TxOK, ErrorOK, ClientErrors, Writes, Route,
      Missing, At, Move, unitVars
  <2>5. ReplyOK(u)'
    <3>0. /\ tx' = tx /\ error' = error /\ endpoint' = endpoint /\ unitPc'[u] = "done"
          /\ reply[u] = 0 /\ endpoint[u] \in DOMAIN Units
      BY <1>15 DEF UserInv, UserTypeOK, TxOK, ReplyOK, Route, At, Move, unitVars
    <3>1. CASE error[u] = NoError /\ reply' = [reply EXCEPT ![u] = SuccessStatus(endpoint[u])]
      BY <3>0, <3>1, Statuses DEF UserInv, UserTypeOK, ReplyOK
    <3>2. CASE Missing(u) /\ reply' = [reply EXCEPT ![u] = ErrorStatus("notFound")]
      <4>1. reply'[u] = 404 /\ endpoint[u] = "get" /\ tx[u] # "committed"
        BY <3>2, Statuses DEF UserInv, UserTypeOK, TxOK, Writes, ReadOnly, Missing
      <4> QED
        BY <3>0, <4>1, Tables DEF ReplyOK
    <3>3. CASE error[u] \notin {NoError, "cancelled"} /\ reply' = [reply EXCEPT ![u] = ErrorStatus(error[u])]
      <4>1. CASE error[u] \in ClientErrors
        BY <3>0, <3>3, <4>1, Statuses DEF UserInv, UserTypeOK, ErrorOK, ReplyOK, ClientErrors
      <4>2. CASE error[u] \notin ClientErrors
        BY <3>0, <3>3, <4>2, Statuses DEF UserInv, UserTypeOK, ReplyOK, ClientErrors
      <4> QED
        BY <4>1, <4>2
    <3>4. CASE UNCHANGED reply
      BY <3>0, <3>4 DEF ReplyOK
    <3> QED
      BY <1>15, <3>1, <3>2, <3>3, <3>4 DEF Route
  <2> QED
    BY <1>15, <2>1, <2>2, <2>3, <2>4, <2>5, OneCall DEF UserInv, UserTypeOK, Route, Missing, At,
      Move, unitVars
<1>16. CASE DatabaseAclose \/ UNCHANGED userVars
  BY <1>16 DEF UserInv, UserTypeOK, SessionOK, TxOK, ErrorOK, ReplyOK, Writes, DatabaseAclose,
    userVars,
     unitVars
<1> QED
  BY <1>1, <1>2, <1>3, <1>4, <1>5, <1>6, <1>7, <1>8, <1>9, <1>10, <1>11, <1>12, <1>13, <1>14,
     <1>15, <1>16
  DEF UserNext, UserCallStep

(* The answer of a user endpoint tells the truth about the database,       *)
(* wherever a step failed, was refused or was cancelled: for any number of *)
(* requests, AnswersTellTheTruth.                                          *)
THEOREM UserAnswersTellTheTruth == UserSpec => []AnswersTellTheTruth
<1>1. UserInit => UserInv
  BY Tables DEF UserInit, UserInv, UserTypeOK, SessionOK, TxOK, ErrorOK, ReplyOK, InUnit,
    ClientErrors, Writes, NoError
<1>2. UserInv => AnswersTellTheTruth
  <2> SUFFICES ASSUME UserInv, NEW u \in UserCalls
               PROVE  /\ reply[u] \in 200..299 /\ endpoint[u] \notin ReadOnly => tx[u] = "committed"
                      /\ reply[u] \in 400..499 => tx[u] # "committed" /\ reply[u] \in Declared[endpoint[u]]
                      /\ unitPc[u] \in {"enter", "hash", "router", "done"} => session[u] # "open"
                      /\ session[u] \in {"none", "closed"} => tx[u] # "open"
    BY DEF AnswersTellTheTruth
  <2> QED
    BY DEF UserInv, UserTypeOK, SessionOK, TxOK, ErrorOK, ReplyOK, InUnit, Writes, NoError
<1> QED
  BY <1>1, <1>2, UserStep, PTL DEF UserSpec

-----------------------------------------------------------------------------
(* The requests of the server: answers and access log                      *)

(* What has been sent, seen and logged of a request at every await.        *)
SentStatuses == {200, 304, 400, 404, 422, 429, 500, 503}
Before == {"new", "limit", "answer", "endpoint"}
Sending == {"body", "events"}

ServerTypeOK ==
  /\ reqPc \in [Requests -> Before \cup Sending \cup {"done"}]
  /\ decision \in [Requests -> {"none", "allowed", "refused", "unavailable"}]
  /\ seen \in [Requests -> SentStatuses \cup {0}]
  /\ DOMAIN started = Requests /\ DOMAIN access = Requests

AnswerShape(pc, sent, status, lines) ==
  /\ pc \in Before => sent = <<>> /\ status = 0 /\ lines = <<>>
  /\ pc \in Sending => status \in SentStatuses /\ sent = <<status>> /\ lines = <<>>
  /\ pc = "events" => status = 200
  /\ pc = "done" =>
       \/ sent = <<>> /\ lines = <<[status |-> 499, failed |-> TRUE]>>
       \/ \E s \in SentStatuses :
            /\ sent = <<s>>
            /\ \/ s <= 400 /\ lines = <<>>
               \/ Len(lines) = 1 /\ lines # <<>> /\ lines[1].status = s

AnswerOK(r) == AnswerShape(reqPc[r], started[r], seen[r], access[r])

AnswerInv == ServerTypeOK /\ \A r \in Requests : AnswerOK(r)


(* One request moves at a time.                                            *)
LEMMA OneAnswer ==
  ASSUME AnswerInv, ServerTypeOK', NEW r \in Requests, AnswerOK(r)',
         \A q \in Requests \ {r} : /\ reqPc'[q] = reqPc[q] /\ seen'[q] = seen[q]
                                   /\ started'[q] = started[q] /\ access'[q] = access[q]
  PROVE  AnswerInv'
<1>1. ASSUME NEW q \in Requests \ {r} PROVE AnswerOK(q)'
  BY <1>1 DEF AnswerInv, AnswerOK
<1> QED
  BY <1>1 DEF AnswerInv

(* A log of one line.                                                      *)
LEMMA OneTuple == \A x : Len(<<x>>) = 1 /\ <<x>> # <<>> /\ <<x>>[1] = x
  OBVIOUS

(* The line a request leaves when it ends with status s in the log.        *)
LEMMA Logged ==
  ASSUME AnswerInv, NEW r \in Requests, reqPc[r] # "done",
         NEW failed \in BOOLEAN, NEW cancelled \in BOOLEAN, NEW excluded,
         WriteLog(r, seen[r], failed, cancelled, excluded)
  PROVE  /\ DOMAIN access' = Requests
         /\ \A q \in Requests \ {r} : access'[q] = access[q]
         /\ \/ ~failed /\ EffectiveStatus(seen[r], failed, cancelled) < 400 /\ access'[r] = <<>>
            \/ access'[r] = <<[status |-> EffectiveStatus(seen[r], failed, cancelled), failed |-> failed]>>
<1> DEFINE line == [status |-> EffectiveStatus(seen[r], failed, cancelled), failed |-> failed]
<1>1. access[r] = <<>> /\ DOMAIN access = Requests
  BY DEF AnswerInv, AnswerOK, AnswerShape, ServerTypeOK
<1>2. \/ ~failed /\ EffectiveStatus(seen[r], failed, cancelled) < 400 /\ access' = access
      \/ access' = [access EXCEPT ![r] = Append(access[r], line)]
  BY DEF WriteLog
<1> HIDE DEF line
<1>3. Append(<<>>, line) = <<line>>
  OBVIOUS
<1>4. CASE access' = [access EXCEPT ![r] = Append(access[r], line)]
  BY <1>1, <1>3, <1>4 DEF line
<1> QED
  BY <1>1, <1>2, <1>4

(* An answer begins.                                                       *)
LEMMA Responds ==
  ASSUME AnswerInv, NEW r \in Requests, reqPc[r] \in Before, NEW s \in SentStatuses,
         Respond(r, s), decision' \in [Requests -> {"none", "allowed", "refused", "unavailable"}]
  PROVE  AnswerInv' /\ started'[r] = <<s>> /\ reqPc'[r] = "body"
<1>1. /\ reqPc' = [reqPc EXCEPT ![r] = "body"] /\ seen' = [seen EXCEPT ![r] = s]
      /\ started' = [started EXCEPT ![r] = <<s>>] /\ access' = access
  <2>1. started[r] = <<>> /\ Append(<<>>, s) = <<s>>
    BY DEF AnswerInv, AnswerOK, AnswerShape
  <2> QED
    BY <2>1 DEF Respond, Answer
<1>2. ServerTypeOK'
  BY <1>1 DEF AnswerInv, ServerTypeOK, Sending
<1>3. AnswerOK(r)'
  BY <1>1 DEF AnswerInv, ServerTypeOK, AnswerOK, AnswerShape, Before, Sending
<1> QED
  BY <1>1, <1>2, <1>3, OneAnswer DEF AnswerInv, ServerTypeOK

(* A request ends with what it has sent and the line in the log.           *)
LEMMA Ends ==
  ASSUME AnswerInv, NEW r \in Requests, reqPc[r] # "done", reqPc' = [reqPc EXCEPT ![r] = "done"],
         UNCHANGED <<seen, decision>>, NEW failed \in BOOLEAN, NEW cancelled \in BOOLEAN, NEW excluded,
         WriteLog(r, seen[r], failed, cancelled, excluded),
         IF seen[r] = 0 /\ ~cancelled THEN failed /\ started' = [started EXCEPT ![r] = Append(@, 500)]
                                     ELSE started' = started,
         seen[r] = 0 => failed
  PROVE  AnswerInv'
<1>0. /\ DOMAIN access' = Requests
      /\ \A q \in Requests \ {r} : access'[q] = access[q]
      /\ \/ ~failed /\ EffectiveStatus(seen[r], failed, cancelled) < 400 /\ access'[r] = <<>>
         \/ access'[r] = <<[status |-> EffectiveStatus(seen[r], failed, cancelled), failed |-> failed]>>
  BY Logged
<1>1. ServerTypeOK'
  BY <1>0 DEF AnswerInv, ServerTypeOK
<1>2. AnswerOK(r)'
  <2>1. CASE seen[r] # 0
    <3>1. started'[r] = <<seen[r]>> /\ seen[r] \in SentStatuses /\ EffectiveStatus(seen[r], failed, cancelled) = seen[r]
      BY <2>1 DEF AnswerInv, AnswerOK, AnswerShape, ServerTypeOK, EffectiveStatus, Before, Sending
    <3>2. \/ seen[r] <= 400 /\ access'[r] = <<>>
          \/ Len(access'[r]) = 1 /\ access'[r] # <<>> /\ access'[r][1].status = seen[r]
      <4>1. [status |-> seen[r], failed |-> failed].status = seen[r]
        OBVIOUS
      <4>2. CASE access'[r] = <<[status |-> seen[r], failed |-> failed]>>
        BY <4>1, <4>2, OneTuple
      <4>3. CASE access'[r] = <<>> /\ seen[r] < 400
        BY <3>1, <4>3 DEF SentStatuses
      <4> QED
        BY <1>0, <3>1, <4>2, <4>3
    <3>3. reqPc'[r] = "done"
      BY DEF AnswerInv, ServerTypeOK
    <3> QED
      BY <3>1, <3>2, <3>3 DEF AnswerOK, AnswerShape, Before, Sending
  <2>2. CASE seen[r] = 0 /\ cancelled
    <3>1. started'[r] = <<>> /\ access'[r] = <<[status |-> 499, failed |-> TRUE]>> /\ reqPc'[r] = "done"
      BY <1>0, <2>2 DEF AnswerInv, AnswerOK, AnswerShape, ServerTypeOK, EffectiveStatus, Before,
        Sending, SentStatuses
    <3> QED
      BY <3>1 DEF AnswerOK, AnswerShape, Before, Sending
  <2>3. CASE seen[r] = 0 /\ ~cancelled
    <3>1. started'[r] = <<500>> /\ reqPc'[r] = "done"
      BY <2>3 DEF AnswerInv, AnswerOK, AnswerShape, ServerTypeOK, Before, Sending, SentStatuses
    <3>2. access'[r] = <<[status |-> 500, failed |-> TRUE]>>
      BY <1>0, <2>3 DEF EffectiveStatus
    <3>3. [status |-> 500, failed |-> TRUE].status = 500
      OBVIOUS
    <3>4. Len(access'[r]) = 1 /\ access'[r] # <<>> /\ access'[r][1].status = 500
      BY <3>2, <3>3, OneTuple
    <3> QED
      BY <3>1, <3>4 DEF AnswerOK, AnswerShape, Before, Sending, SentStatuses
  <2> QED
    BY <2>1, <2>2, <2>3
<1> QED
  BY <1>0, <1>1, <1>2, OneAnswer DEF AnswerInv, ServerTypeOK

(* An exception from within, before or after the headers.                  *)
LEMMA Captured ==
  ASSUME AnswerInv, NEW r \in Requests, reqPc[r] # "done", Capture(r), UNCHANGED decision
  PROVE  AnswerInv'
<1>1. CASE seen[r] = 0 /\ ~settings.debug
  <2>1. reqPc[r] \in Before
    BY <1>1 DEF AnswerInv, ServerTypeOK, AnswerOK, AnswerShape, SentStatuses, Sending
  <2>2. Respond(r, 500) /\ 500 \in SentStatuses
    BY <1>1 DEF Capture, SentStatuses
  <2> QED
    BY <2>1, <2>2, Responds DEF AnswerInv, ServerTypeOK
<1>2. CASE ~(seen[r] = 0 /\ ~settings.debug)
  <2>1. /\ WriteLog(r, seen[r], TRUE, FALSE, FALSE) /\ reqPc' = [reqPc EXCEPT ![r] = "done"]
        /\ UNCHANGED seen
        /\ started' = IF seen[r] = 0 THEN [started EXCEPT ![r] = Append(@, 500)] ELSE started
    BY <1>2 DEF Capture
  <2>2. IF seen[r] = 0 THEN started' = [started EXCEPT ![r] = Append(@, 500)] ELSE started' = started
    BY <2>1
  <2> QED
    BY <2>1, <2>2, Ends
<1> QED
  BY <1>1, <1>2

(* A request that has not ended yet moves on without an answer.            *)
LEMMA AnswerQuiet ==
  ASSUME AnswerInv, ServerTypeOK', UNCHANGED <<seen, started, access>>, NEW r \in Requests,
         \A q \in Requests \ {r} : reqPc'[q] = reqPc[q],
         \/ reqPc'[r] = reqPc[r]
         \/ reqPc[r] \in Before /\ reqPc'[r] \in Before
  PROVE  AnswerInv'
  BY DEF AnswerInv, AnswerOK, AnswerShape, ServerTypeOK, Before, Sending

(* Every error an endpoint raises is rendered with a status of its own,    *)
(* and none of 500 or more shows its content.                              *)
LEMMA Rendered ==
  ASSUME NEW e \in Errors
  PROVE  /\ RenderedStatus(e) \in SentStatuses \ {429}
         /\ DetailShown(e) => RenderedStatus(e) < 500
<1>1. /\ e.type \in {"HttpError", "HTTPException", "RequestValidationError"}
      /\ e.status \in {404, 503, 304, 422}
  BY DEF Errors
<1> QED
  BY <1>1 DEF RenderedStatus, HttpErrorStatus, DetailShown, SentStatuses

(* AnswerInv is inductive: one case for each step of a request.            *)
LEMMA AnswerStep == AnswerInv /\ [HttpNext]_httpVars => AnswerInv'
<1> SUFFICES ASSUME AnswerInv, [HttpNext]_httpVars PROVE AnswerInv'
  OBVIOUS
<1>1. ASSUME NEW r \in Requests, AnsweredAtDoor(r) PROVE AnswerInv'
  <2>1. PICK s \in {200, 400} : Answer(r, s)
    BY <1>1 DEF AnsweredAtDoor
  <2>2. /\ started' = [started EXCEPT ![r] = <<s>>] /\ reqPc' = [reqPc EXCEPT ![r] = "done"]
        /\ UNCHANGED <<seen, decision, access>> /\ access[r] = <<>>
    <3>1. started[r] = <<>> /\ access[r] = <<>> /\ Append(<<>>, s) = <<s>>
      BY <1>1 DEF AnswerInv, AnswerOK, AnswerShape, Before, AnsweredAtDoor
    <3> QED
      BY <1>1, <2>1, <3>1 DEF AnsweredAtDoor, Answer
  <2>3. ServerTypeOK' /\ AnswerOK(r)'
    BY <2>2 DEF AnswerInv, ServerTypeOK, AnswerOK, AnswerShape, Before, Sending, SentStatuses
  <2> QED
    BY <2>2, <2>3, OneAnswer DEF AnswerInv, ServerTypeOK
<1>2. ASSUME NEW r \in Requests, Unlimited(r) PROVE AnswerInv'
  <2>1. ServerTypeOK'
    BY <1>2 DEF AnswerInv, ServerTypeOK, Before, Sending, Unlimited
  <2> QED
    BY <1>2, <2>1, AnswerQuiet DEF AnswerInv, ServerTypeOK, Before, Unlimited
<1>3. ASSUME NEW r \in Requests, Limited(r) PROVE AnswerInv'
  <2>1. ServerTypeOK'
    BY <1>3 DEF AnswerInv, ServerTypeOK, Before, Sending, Limited
  <2> QED
    BY <1>3, <2>1, AnswerQuiet DEF AnswerInv, ServerTypeOK, Before, Limited
<1>4. ASSUME NEW r \in Requests, LimitScript(r) PROVE AnswerInv'
  <2>1. ServerTypeOK'
    BY <1>4 DEF AnswerInv, ServerTypeOK, Before, Sending, LimitScript
  <2> QED
    BY <1>4, <2>1, AnswerQuiet DEF AnswerInv, ServerTypeOK, Before, LimitScript
<1>5. ASSUME NEW r \in Requests, LimitUnavailable(r) PROVE AnswerInv'
  <2>1. ServerTypeOK'
    BY <1>5 DEF AnswerInv, ServerTypeOK, Before, Sending, LimitUnavailable
  <2> QED
    BY <1>5, <2>1, AnswerQuiet DEF AnswerInv, ServerTypeOK, Before, LimitUnavailable
<1>6. ASSUME NEW r \in Requests, LimitRaises(r) PROVE AnswerInv'
  BY <1>6, Captured DEF LimitRaises
<1>7. ASSUME NEW r \in Requests, LimitPassed(r) PROVE AnswerInv'
  <2>1. ServerTypeOK'
    BY <1>7 DEF AnswerInv, ServerTypeOK, Before, Sending, LimitPassed
  <2> QED
    BY <1>7, <2>1, AnswerQuiet DEF AnswerInv, ServerTypeOK, Before, LimitPassed
<1>8. ASSUME NEW r \in Requests, LimitRefused(r) PROVE AnswerInv'
  <2>1. reqPc[r] \in Before /\ UNCHANGED decision /\ \E s \in {429, 503} : Respond(r, s)
    BY <1>8 DEF LimitRefused, Before
  <2> QED
    BY <2>1, Responds DEF AnswerInv, ServerTypeOK, SentStatuses
<1>9. ASSUME NEW r \in Requests, EndpointReturns(r) PROVE AnswerInv'
  BY <1>9, Responds DEF AnswerInv, ServerTypeOK, SentStatuses, Before, EndpointReturns
<1>10. ASSUME NEW r \in Requests, EndpointRaises(r) PROVE AnswerInv'
  <2>1. PICK e \in Errors : Respond(r, RenderedStatus(e))
    BY <1>10 DEF EndpointRaises
  <2>2. RenderedStatus(e) \in SentStatuses
    BY Rendered
  <2> QED
    BY <1>10, <2>1, <2>2, Responds DEF AnswerInv, ServerTypeOK, Before, EndpointRaises
<1>11. ASSUME NEW r \in Requests, EndpointCrashes(r) PROVE AnswerInv'
  BY <1>11, Captured DEF EndpointCrashes
<1>12. ASSUME NEW r \in Requests, StreamBegins(r) PROVE AnswerInv'
  <2>1. /\ started' = [started EXCEPT ![r] = <<200>>] /\ reqPc' = [reqPc EXCEPT ![r] = "events"]
        /\ seen' = [seen EXCEPT ![r] = 200] /\ UNCHANGED <<decision, access>> /\ access[r] = <<>>
    <3>1. started[r] = <<>> /\ access[r] = <<>> /\ Append(<<>>, 200) = <<200>>
      BY <1>12 DEF AnswerInv, AnswerOK, AnswerShape, Before, StreamBegins
    <3> QED
      BY <1>12, <3>1 DEF StreamBegins, Answer
  <2>2. ServerTypeOK' /\ AnswerOK(r)'
    BY <2>1 DEF AnswerInv, ServerTypeOK, AnswerOK, AnswerShape, Before, Sending, SentStatuses
  <2> QED
    BY <2>1, <2>2, OneAnswer DEF AnswerInv, ServerTypeOK
<1>13. ASSUME NEW r \in Requests, ResponseEnds(r) PROVE AnswerInv'
  <2>1. PICK excluded \in BOOLEAN : WriteLog(r, seen[r], FALSE, FALSE, excluded)
    BY <1>13 DEF ResponseEnds
  <2>2. /\ reqPc[r] # "done" /\ reqPc' = [reqPc EXCEPT ![r] = "done"] /\ seen[r] # 0
        /\ UNCHANGED <<seen, decision, started>>
    BY <1>13 DEF AnswerInv, AnswerOK, AnswerShape, Sending, SentStatuses, ResponseEnds
  <2> QED
    BY <2>1, <2>2, Ends
<1>14. ASSUME NEW r \in Requests, BodyFails(r) PROVE AnswerInv'
  BY <1>14, Captured DEF BodyFails
<1>15. ASSUME NEW r \in Requests, SseMessage(r) PROVE AnswerInv'
  <2>1. ServerTypeOK'
    BY <1>15 DEF AnswerInv, ServerTypeOK, Before, Sending, SseMessage
  <2> QED
    BY <1>15, <2>1, AnswerQuiet DEF AnswerInv, ServerTypeOK, Before, SseMessage
<1>16. ASSUME NEW r \in Requests, SseDone(r) PROVE AnswerInv'
  <2>1. ServerTypeOK'
    BY <1>16 DEF AnswerInv, ServerTypeOK, Before, Sending, SseDone
  <2> QED
    BY <1>16, <2>1, AnswerQuiet DEF AnswerInv, ServerTypeOK, Before, SseDone
<1>17. ASSUME NEW r \in Requests, SseFails(r) PROVE AnswerInv'
  <2>1. ServerTypeOK'
    BY <1>17 DEF AnswerInv, ServerTypeOK, Before, Sending, SseFails
  <2> QED
    BY <1>17, <2>1, AnswerQuiet DEF AnswerInv, ServerTypeOK, Before, SseFails
<1>18. ASSUME NEW r \in Requests, SseEnds(r) PROVE AnswerInv'
  <2>1. PICK excluded \in BOOLEAN : WriteLog(r, seen[r], FALSE, FALSE, excluded)
    BY <1>18 DEF SseEnds
  <2>2. /\ reqPc[r] # "done" /\ reqPc' = [reqPc EXCEPT ![r] = "done"] /\ seen[r] # 0
        /\ UNCHANGED <<seen, decision, started>>
    BY <1>18 DEF AnswerInv, AnswerOK, AnswerShape, Sending, SentStatuses, SseEnds
  <2> QED
    BY <2>1, <2>2, Ends
<1>19. ASSUME NEW r \in Requests, Cancel(r) PROVE AnswerInv'
  <2>1. /\ WriteLog(r, seen[r], TRUE, TRUE, FALSE)
        /\ reqPc[r] # "done" /\ reqPc' = [reqPc EXCEPT ![r] = "done"]
        /\ UNCHANGED <<seen, decision, started>>
    BY <1>19 DEF Cancel
  <2> QED
    BY <2>1, Ends
<1>20. CASE ClockTick /\ UNCHANGED requestVars
  BY <1>20 DEF AnswerInv, ServerTypeOK, AnswerOK, AnswerShape, requestVars
<1>21. CASE UNCHANGED httpVars
  BY <1>21 DEF AnswerInv, ServerTypeOK, AnswerOK, AnswerShape, httpVars, requestVars
<1> QED
  BY <1>1, <1>2, <1>3, <1>4, <1>5, <1>6, <1>7, <1>8, <1>9, <1>10, <1>11, <1>12, <1>13, <1>14,
     <1>15, <1>16, <1>17, <1>18, <1>19, <1>20, <1>21
  DEF HttpNext, RequestStep

(* It holds before a request arrives.                                      *)
LEMMA AnswerInit == HttpInit => AnswerInv
  BY DEF HttpInit, AnswerInv, ServerTypeOK, AnswerOK, AnswerShape, Before, Sending

(* A request gets one answer, and the access log tells which: for any      *)
(* number of requests, AnsweredOnce.                                       *)
THEOREM RequestsAnsweredOnce == HttpSpec => []AnsweredOnce
<1>1. AnswerInv => AnsweredOnce
  <2> SUFFICES ASSUME AnswerInv, NEW r \in Requests
      PROVE /\ Len(started[r]) <= 1
            /\ Len(access[r]) <= 1
            /\ reqPc[r] = "done" =>
                 /\ started[r] = <<>> => access[r] = <<[status |-> 499, failed |-> TRUE]>>
                 /\ started[r] # <<>> /\ access[r] # <<>> => access[r][1].status = started[r][1]
                 /\ access[r] = <<>> => started[r][1] <= 400
    BY DEF AnsweredOnce
  <2>1. CASE reqPc[r] \in Before \cup Sending
    <3>1. access[r] = <<>> /\ (started[r] = <<>> \/ started[r] = <<seen[r]>>) /\ reqPc[r] # "done"
      BY <2>1 DEF AnswerInv, AnswerOK, AnswerShape, Before, Sending
    <3>2. Len(<<>>) = 0
      OBVIOUS
    <3>3. Len(started[r]) \in {0, 1}
      <4>1. CASE started[r] = <<>>
        BY <4>1, <3>2
      <4>2. CASE started[r] = <<seen[r]>>
        BY <4>2, OneTuple
      <4> QED
        BY <3>1, <4>1, <4>2
    <3>4. Len(access[r]) <= 1
      BY <3>1, <3>2
    <3>5. Len(started[r]) <= 1
      BY <3>3
    <3> QED
      BY <3>1, <3>4, <3>5
  <2>2. CASE reqPc[r] = "done"
    <3>1. \/ started[r] = <<>> /\ access[r] = <<[status |-> 499, failed |-> TRUE]>>
          \/ \E s \in SentStatuses :
               /\ started[r] = <<s>>
               /\ \/ s <= 400 /\ access[r] = <<>>
                  \/ Len(access[r]) = 1 /\ access[r] # <<>> /\ access[r][1].status = s
      BY <2>2 DEF AnswerInv, AnswerOK, AnswerShape
    <3>2. CASE started[r] = <<>> /\ access[r] = <<[status |-> 499, failed |-> TRUE]>>
      <4>1. Len(<<>>) = 0
        OBVIOUS
      <4>2. Len(started[r]) <= 1 /\ Len(access[r]) <= 1 /\ access[r] # <<>>
        BY <3>2, <4>1, OneTuple
      <4> QED
        BY <3>2, <4>2
    <3>3. ASSUME NEW s \in SentStatuses, started[r] = <<s>>,
                 \/ s <= 400 /\ access[r] = <<>>
                 \/ Len(access[r]) = 1 /\ access[r] # <<>> /\ access[r][1].status = s
          PROVE  /\ Len(started[r]) <= 1
                 /\ Len(access[r]) <= 1
                 /\ started[r] # <<>>
                 /\ access[r] # <<>> => access[r][1].status = started[r][1]
                 /\ access[r] = <<>> => started[r][1] <= 400
      <4>1. Len(started[r]) = 1 /\ started[r] # <<>> /\ started[r][1] = s /\ Len(<<>>) = 0
        BY <3>3, OneTuple
      <4>2. Len(started[r]) <= 1
        BY <4>1
      <4>3. Len(access[r]) <= 1
        <5>1. CASE access[r] = <<>>
          BY <4>1, <5>1
        <5>2. CASE Len(access[r]) = 1
          BY <5>2
        <5> QED
          BY <3>3, <5>1, <5>2
      <4>4. access[r] = <<>> => s <= 400
        BY <3>3
      <4> QED
        BY <3>3, <4>1, <4>2, <4>3, <4>4
    <3> QED
      BY <3>1, <3>2, <3>3
  <2> QED
    BY <2>1, <2>2 DEF AnswerInv, ServerTypeOK
<1> QED
  BY <1>1, AnswerInit, AnswerStep, PTL DEF HttpSpec

-----------------------------------------------------------------------------
(* The event streams                                                       *)

(* What the stream of a request has sent.                                  *)
StreamShape(pc, sent, open) ==
  /\ pc \in Before \cup {"body"} => sent = <<>>
  /\ open => pc = "events" /\ \A i \in 1..Len(sent) : sent[i] = "message"
  /\ \A i \in 1..(Len(sent) - 1) : sent[i] = "message"
  /\ pc = "events" /\ ~open =>
       sent # <<>> /\ sent[Len(sent)] \in {"done", "stream_error"}

StreamOK(r) == StreamShape(reqPc[r], sse[r], generator[r])

DetailOK(r) == exposedDetail[r] =>
                 reqPc[r] \notin Before /\ started[r] # <<>> /\ started[r][1] < 500

StreamInv ==
  /\ sse \in [Requests -> Seq({"message", "done", "stream_error"})]
  /\ DOMAIN generator = Requests /\ DOMAIN exposedDetail = Requests
  /\ \A r \in Requests : StreamOK(r) /\ DetailOK(r)


(* A step that sends no event: the request moves before its answer, begins *)
(* one without a stream, or ends with its generator closed.                *)
LEMMA StreamQuiet ==
  ASSUME StreamInv, NEW r \in Requests, NEW w \in Before \cup {"body", "done"},
         reqPc \in [Requests -> Before \cup Sending \cup {"done"}],
         reqPc' = [reqPc EXCEPT ![r] = w], UNCHANGED <<sse, exposedDetail>>,
         \A q \in Requests \ {r} : started'[q] = started[q] /\ generator'[q] = generator[q],
         DOMAIN generator' = Requests,
         \/ w = "done" /\ ~generator'[r]
         \/ reqPc[r] \in Before /\ generator'[r] = generator[r],
         \/ reqPc[r] \in Before
         \/ w = "done" /\ started'[r] = started[r]
  PROVE  StreamInv'
<1>1. ASSUME NEW q \in Requests \ {r} PROVE StreamOK(q)' /\ DetailOK(q)'
  <2>1. StreamOK(q) /\ DetailOK(q) /\ reqPc'[q] = reqPc[q]
    BY <1>1 DEF StreamInv
  <2>2. UNCHANGED <<reqPc[q], sse[q], generator[q], started[q], exposedDetail[q]>>
    BY <1>1, <2>1
  <2> QED BY <2>1, <2>2 DEF StreamOK, DetailOK
<1>2. StreamOK(r)'
  <2>1. StreamShape(reqPc[r], sse[r], generator[r]) /\ reqPc'[r] = w /\ sse'[r] = sse[r]
    BY DEF StreamInv, StreamOK
  <2>2. StreamShape(w, sse[r], generator'[r])
    BY <2>1 DEF StreamShape, Before
  <2> QED
    BY <2>1, <2>2 DEF StreamOK
<1>3. DetailOK(r)'
  BY DEF StreamInv, DetailOK, Before
<1> QED
  BY <1>1, <1>2, <1>3 DEF StreamInv

(* The frame of an exception from within.                                  *)
LEMMA CaptureFrame ==
  ASSUME AnswerInv, NEW r \in Requests, reqPc[r] # "done", Capture(r)
  PROVE  /\ \E w \in {"body", "done"} : reqPc' = [reqPc EXCEPT ![r] = w]
         /\ \A q \in Requests \ {r} : started'[q] = started[q]
         /\ reqPc[r] \in Before \/ (reqPc'[r] = "done" /\ started' = started)
<1>1. reqPc[r] \in Before \/ seen[r] # 0
  BY DEF AnswerInv, ServerTypeOK, AnswerOK, AnswerShape, Sending, SentStatuses
<1>2. /\ reqPc \in [Requests -> Before \cup Sending \cup {"done"}]
      /\ DOMAIN started = Requests
  BY DEF AnswerInv, ServerTypeOK
<1>3. CASE seen[r] = 0 /\ ~settings.debug
  <2>1. /\ reqPc' = [reqPc EXCEPT ![r] = "body"]
        /\ started' = [started EXCEPT ![r] = Append(@, 500)]
    BY <1>3 DEF Capture, Respond, Answer
  <2> QED BY <1>1, <1>2, <1>3, <2>1
<1>4. CASE seen[r] # 0 \/ settings.debug
  <2>1. /\ reqPc' = [reqPc EXCEPT ![r] = "done"]
        /\ started' = IF seen[r] = 0 THEN [started EXCEPT ![r] = Append(@, 500)] ELSE started
    BY <1>4 DEF Capture
  <2>2. \A q \in Requests \ {r} : started'[q] = started[q]
    BY <1>2, <2>1
  <2>3. reqPc'[r] = "done" /\ (seen[r] # 0 => started' = started)
    BY <1>2, <2>1
  <2> QED BY <1>1, <2>1, <2>2, <2>3
<1> QED BY <1>3, <1>4

(* The next event of a stream that is open.                                *)
LEMMA NextEvent ==
  ASSUME StreamInv, NEW r \in Requests, reqPc[r] = "events", generator[r],
         NEW e \in {"message", "done", "stream_error"},
         reqPc \in [Requests -> Before \cup Sending \cup {"done"}],
         sse' = [sse EXCEPT ![r] = Append(@, e)], UNCHANGED <<reqPc, started>>,
         generator' = IF e = "message" THEN generator ELSE [generator EXCEPT ![r] = FALSE],
         DOMAIN exposedDetail' = Requests,
         \A q \in Requests : exposedDetail'[q] => exposedDetail[q] \/ DetailOK(q)'
  PROVE  StreamInv'
<1>1. ASSUME NEW q \in Requests \ {r} PROVE StreamOK(q)'
  BY <1>1 DEF StreamInv, StreamOK
<1>2. StreamOK(r)'
  <2>1. /\ sse[r] \in Seq({"message", "done", "stream_error"})
        /\ \A i \in 1..Len(sse[r]) : sse[r][i] = "message"
    BY DEF StreamInv, StreamOK, StreamShape
  <2>2. /\ Len(Append(sse[r], e)) = Len(sse[r]) + 1
        /\ \A i \in 1..Len(sse[r]) : Append(sse[r], e)[i] = "message"
        /\ Append(sse[r], e)[Len(sse[r]) + 1] = e /\ Append(sse[r], e) # <<>> /\ Len(sse[r]) \in Nat
    BY <2>1
  <2>3. sse'[r] = Append(sse[r], e) /\ reqPc'[r] = "events"
    BY DEF StreamInv
  <2>4. CASE e = "message"
    <3>1. generator'[r] = generator[r]
      BY <2>4
    <3>2. StreamShape("events", Append(sse[r], e), generator[r])
      BY <2>2, <2>4 DEF StreamShape, Before
    <3> QED
      BY <2>3, <3>1, <3>2 DEF StreamOK
  <2>5. CASE e # "message"
    <3>1. generator'[r] = FALSE
      BY <2>5 DEF StreamInv
    <3>2. StreamShape("events", Append(sse[r], e), FALSE)
      BY <2>2, <2>5 DEF StreamShape, Before
    <3> QED
      BY <2>3, <3>1, <3>2 DEF StreamOK
  <2> QED
    BY <2>4, <2>5
<1>3. ASSUME NEW q \in Requests PROVE DetailOK(q)'
  BY <1>3 DEF StreamInv, DetailOK
<1> QED
  BY <1>1, <1>2, <1>3 DEF StreamInv

(* StreamInv is inductive, given the places AnswerInv allows.              *)
LEMMA StreamStep == AnswerInv /\ AnswerInv' /\ StreamInv /\ [HttpNext]_httpVars => StreamInv'
<1> SUFFICES ASSUME AnswerInv, AnswerInv', StreamInv, [HttpNext]_httpVars PROVE StreamInv'
  OBVIOUS
<1>0. /\ reqPc \in [Requests -> Before \cup Sending \cup {"done"}] /\ DOMAIN started = Requests
      /\ DOMAIN generator = Requests /\ DOMAIN exposedDetail = Requests
      /\ \A q \in Requests : reqPc[q] # "events" => ~generator[q]
  BY DEF AnswerInv, ServerTypeOK, StreamInv, StreamOK, StreamShape
<1>1. ASSUME NEW r \in Requests, AnsweredAtDoor(r) PROVE StreamInv'
  <2>1. PICK s \in {200, 400} : Answer(r, s)
    BY <1>1 DEF AnsweredAtDoor
  <2>2. \A q \in Requests \ {r} : started'[q] = started[q]
    BY <1>0, <2>1 DEF Answer
  <2>3. /\ reqPc[r] = "new" /\ reqPc' = [reqPc EXCEPT ![r] = "done"]
        /\ UNCHANGED <<sse, generator, exposedDetail>>
    BY <1>1 DEF AnsweredAtDoor
  <2>4. reqPc[r] \in Before /\ ~generator'[r] /\ generator' = generator
    BY <1>0, <2>3 DEF Before
  <2>5. "done" \in Before \cup {"body", "done"}
    OBVIOUS
  <2>6. /\ \A q \in Requests \ {r} : started'[q] = started[q] /\ generator'[q] = generator[q]
        /\ DOMAIN generator' = Requests
    BY <1>0, <2>2, <2>4
  <2> QED
    BY <1>0, <2>3, <2>4, <2>5, <2>6, StreamQuiet
<1>2. ASSUME NEW r \in Requests, Unlimited(r) PROVE StreamInv'
  BY <1>0, <1>2, StreamQuiet DEF Before, Unlimited
<1>3. ASSUME NEW r \in Requests, Limited(r) PROVE StreamInv'
  BY <1>0, <1>3, StreamQuiet DEF Before, Limited
<1>4. ASSUME NEW r \in Requests, LimitScript(r) PROVE StreamInv'
  BY <1>0, <1>4, StreamQuiet DEF Before, LimitScript
<1>5. ASSUME NEW r \in Requests, LimitUnavailable(r) PROVE StreamInv'
  BY <1>0, <1>5, StreamQuiet DEF Before, LimitUnavailable
<1>6. ASSUME NEW r \in Requests, LimitRaises(r) PROVE StreamInv'
  <2>1. Capture(r) /\ reqPc[r] \notin {"events", "done"} /\ UNCHANGED <<sse, generator, exposedDetail>>
    BY <1>6 DEF LimitRaises
  <2>2. PICK w \in {"body", "done"} : reqPc' = [reqPc EXCEPT ![r] = w]
    BY <2>1, CaptureFrame
  <2> QED
    BY <1>0, <2>1, <2>2, CaptureFrame, StreamQuiet
<1>7. ASSUME NEW r \in Requests, LimitPassed(r) PROVE StreamInv'
  BY <1>0, <1>7, StreamQuiet DEF Before, LimitPassed
<1>8. ASSUME NEW r \in Requests, LimitRefused(r) PROVE StreamInv'
  BY <1>0, <1>8, StreamQuiet DEF Before, LimitRefused, Respond, Answer
<1>9. ASSUME NEW r \in Requests, EndpointReturns(r) PROVE StreamInv'
  BY <1>0, <1>9, StreamQuiet DEF Before, EndpointReturns, Respond, Answer
<1>10. ASSUME NEW r \in Requests, EndpointRaises(r) PROVE StreamInv'
  <2>1. PICK e \in Errors : /\ Respond(r, RenderedStatus(e))
                             /\ exposedDetail' = [exposedDetail EXCEPT ![r] = DetailShown(e)]
    BY <1>10 DEF EndpointRaises
  <2>2. /\ reqPc[r] = "endpoint" /\ reqPc'[r] = "body" /\ started'[r] = <<RenderedStatus(e)>>
        /\ UNCHANGED <<sse, generator>> /\ ~generator[r] /\ sse[r] = <<>>
    BY <1>10, <1>0, <2>1, Responds, Rendered
       DEF EndpointRaises, AnswerInv, ServerTypeOK, Before, StreamInv, StreamOK, StreamShape
  <2>3. \A q \in Requests \ {r} : /\ reqPc'[q] = reqPc[q] /\ started'[q] = started[q]
                                  /\ exposedDetail'[q] = exposedDetail[q]
    BY <1>0, <2>1 DEF Respond, Answer
  <2>4. ASSUME NEW q \in Requests \ {r} PROVE StreamOK(q)' /\ DetailOK(q)'
    BY <2>2, <2>3, <2>4 DEF StreamInv, StreamOK, DetailOK
  <2>5. StreamOK(r)'
    BY <2>2 DEF StreamOK, StreamShape, Before
  <2>6. DetailOK(r)'
    <3>1. exposedDetail'[r] = DetailShown(e)
      BY <1>0, <2>1
    <3>2. started'[r] # <<>> /\ started'[r][1] = RenderedStatus(e)
      BY <2>2
    <3>3. DetailShown(e) => RenderedStatus(e) < 500
      BY Rendered
    <3>4. reqPc'[r] \notin Before
      BY <2>2 DEF Before
    <3> QED
      BY <3>1, <3>2, <3>3, <3>4 DEF DetailOK
  <2> QED
    BY <2>1, <2>2, <2>4, <2>5, <2>6 DEF StreamInv
<1>11. ASSUME NEW r \in Requests, EndpointCrashes(r) PROVE StreamInv'
  <2>1. Capture(r) /\ reqPc[r] \notin {"events", "done"} /\ UNCHANGED <<sse, generator, exposedDetail>>
    BY <1>11 DEF EndpointCrashes
  <2>2. PICK w \in {"body", "done"} : reqPc' = [reqPc EXCEPT ![r] = w]
    BY <2>1, CaptureFrame
  <2> QED
    BY <1>0, <2>1, <2>2, CaptureFrame, StreamQuiet
<1>12. ASSUME NEW r \in Requests, StreamBegins(r) PROVE StreamInv'
  <2>1. /\ reqPc' = [reqPc EXCEPT ![r] = "events"] /\ generator' = [generator EXCEPT ![r] = TRUE]
        /\ UNCHANGED <<sse, exposedDetail>> /\ reqPc[r] = "endpoint" /\ sse[r] = <<>>
        /\ \A q \in Requests \ {r} : started'[q] = started[q]
    BY <1>12, <1>0 DEF StreamBegins, Answer, StreamInv, StreamOK, StreamShape, Before
  <2>2. ASSUME NEW q \in Requests \ {r} PROVE StreamOK(q)' /\ DetailOK(q)'
    BY <1>0, <2>1, <2>2 DEF StreamInv, StreamOK, DetailOK
  <2>3. StreamShape("events", <<>>, TRUE)
    BY DEF StreamShape, Before
  <2>4. StreamOK(r)' /\ DetailOK(r)'
    BY <1>0, <2>1, <2>3 DEF StreamInv, StreamOK, DetailOK, Before
  <2> QED
    BY <1>0, <2>1, <2>2, <2>4 DEF StreamInv
<1>13. ASSUME NEW r \in Requests, ResponseEnds(r) PROVE StreamInv'
  BY <1>0, <1>13, StreamQuiet DEF Before, ResponseEnds
<1>14. ASSUME NEW r \in Requests, BodyFails(r) PROVE StreamInv'
  <2>1. Capture(r) /\ reqPc[r] \notin {"events", "done"} /\ UNCHANGED <<sse, generator, exposedDetail>>
    BY <1>14 DEF BodyFails
  <2>2. PICK w \in {"body", "done"} : reqPc' = [reqPc EXCEPT ![r] = w]
    BY <2>1, CaptureFrame
  <2> QED
    BY <1>0, <2>1, <2>2, CaptureFrame, StreamQuiet
<1>15. ASSUME NEW r \in Requests, SseMessage(r) PROVE StreamInv'
  BY <1>0, <1>15, NextEvent DEF SseMessage
<1>16. ASSUME NEW r \in Requests, SseDone(r) PROVE StreamInv'
  BY <1>0, <1>16, NextEvent DEF SseDone
<1>17. ASSUME NEW r \in Requests, SseFails(r) PROVE StreamInv'
  <2>1. /\ reqPc[r] = "events" /\ generator[r] /\ UNCHANGED <<reqPc, started>>
        /\ sse' = [sse EXCEPT ![r] = Append(@, "stream_error")]
        /\ generator' = [generator EXCEPT ![r] = FALSE]
        /\ DOMAIN exposedDetail' = Requests
        /\ \A q \in Requests \ {r} : exposedDetail'[q] = exposedDetail[q]
    BY <1>0, <1>17 DEF SseFails
  <2>2. DetailOK(r)'
    <3>1. started'[r] = <<seen[r]>> /\ seen[r] = 200
      BY <1>0, <2>1 DEF StreamInv, StreamShape, AnswerInv, AnswerOK, AnswerShape, Sending
    <3> QED
      BY <2>1, <3>1 DEF DetailOK, Before
  <2> QED
    BY <1>0, <2>1, <2>2, NextEvent
<1>18. ASSUME NEW r \in Requests, SseEnds(r) PROVE StreamInv'
  BY <1>0, <1>18, StreamQuiet DEF Before, SseEnds
<1>19. ASSUME NEW r \in Requests, Cancel(r) PROVE StreamInv'
  BY <1>0, <1>19, StreamQuiet DEF Before, Cancel
<1>20. CASE ClockTick /\ UNCHANGED requestVars
  BY <1>20 DEF StreamInv, StreamOK, DetailOK, requestVars
<1>21. CASE UNCHANGED httpVars
  BY <1>21 DEF StreamInv, StreamOK, DetailOK, httpVars, requestVars
<1> QED
  BY <1>1, <1>2, <1>3, <1>4, <1>5, <1>6, <1>7, <1>8, <1>9, <1>10, <1>11, <1>12, <1>13, <1>14,
     <1>15, <1>16, <1>17, <1>18, <1>19, <1>20, <1>21
  DEF HttpNext, RequestStep

(* A stream that the client has not cut off ends with one terminal event,  *)
(* and no answer of 500 or more shows the content of an error: for any     *)
(* number of requests and events, StreamsEnd.                              *)
THEOREM StreamsAlwaysEnd == HttpSpec => []StreamsEnd
<1>1. HttpInit => StreamInv
  BY DEF HttpInit, StreamInv, StreamOK, StreamShape, DetailOK, Before
<1>2. AnswerInv /\ StreamInv => StreamsEnd
  <2> SUFFICES ASSUME AnswerInv, StreamInv, NEW r \in Requests
      PROVE /\ \A i \in 1..(Len(sse[r]) - 1) : sse[r][i] = "message"
            /\ reqPc[r] = "events" /\ ~generator[r] =>
                 sse[r] # <<>> /\ sse[r][Len(sse[r])] \in {"done", "stream_error"}
            /\ reqPc[r] = "done" => ~generator[r]
            /\ reqPc[r] = "done" /\ started[r] # <<>> /\ started[r][1] >= 500 => ~exposedDetail[r]
    BY DEF StreamsEnd
  <2>1. /\ \A i \in 1..(Len(sse[r]) - 1) : sse[r][i] = "message"
        /\ reqPc[r] = "events" /\ ~generator[r] =>
             sse[r] # <<>> /\ sse[r][Len(sse[r])] \in {"done", "stream_error"}
        /\ reqPc[r] = "done" => ~generator[r]
    BY DEF StreamInv, StreamOK, StreamShape
  <2>2. ASSUME reqPc[r] = "done", started[r] # <<>>, started[r][1] >= 500, exposedDetail[r] PROVE FALSE
    <3>1. PICK s \in SentStatuses : started[r] = <<s>>
      BY <2>2 DEF AnswerInv, AnswerOK, AnswerShape
    <3>2. started[r][1] = s /\ s \in Nat
      BY <3>1 DEF SentStatuses
    <3> QED
      BY <2>2, <3>2 DEF StreamInv, DetailOK
  <2> QED
    BY <2>1, <2>2
<1> QED
  BY <1>1, <1>2, AnswerInit, AnswerStep, StreamStep, PTL DEF HttpSpec

-----------------------------------------------------------------------------
(* The rate limit                                                          *)

(* The quota and the promise of a refusal: while the window that refused a *)
(* request is the current one, what Retry-After promises is not before its *)
(* end.                                                                    *)
QuotaInv ==
  /\ now \in Nat /\ expiry \in [Clients -> Nat] /\ windows \in [Clients -> Nat]
  /\ quota \in [Clients -> Nat] /\ granted = quota
  /\ \A c \in Clients : quota[c] <= MaxRequests

PromiseOK(r) ==
  LET c == ClientOf[r] IN
  /\ refusedIn[r] <= windows[c]
  /\ refusedIn[r] = windows[c] /\ reqPc[r] = "answer" /\ decision[r] = "refused" =>
       expiry[c] <= now + retryAt[r] * TicksPerSecond
  /\ refusedIn[r] = windows[c] /\ started[r] = <<429>> => expiry[c] <= retryAt[r]

PromiseInv ==
  /\ retryAt \in [Requests -> Nat] /\ refusedIn \in [Requests -> Nat]
  /\ \A r \in Requests : PromiseOK(r)

(* The greater of two numbers.                                             *)
LEMMA MaxOfTwo ==
  ASSUME NEW a \in Nat, NEW b \in Nat
  PROVE  Max({a, b}) \in Nat /\ Max({a, b}) \in {a, b} /\ Max({a, b}) >= a /\ Max({a, b}) >= b
  BY DEF Max

(* Retry-After in whole seconds covers what is left of the window.         *)
LEMMA RetryCovers ==
  ASSUME NEW ttl \in Nat
  PROVE  RetryAfter(ttl) \in Nat /\ ttl <= RetryAfter(ttl) * TicksPerSecond
<1> DEFINE q == (ttl + TicksPerSecond - 1) \div TicksPerSecond
<1>1. TicksPerSecond \in Nat \ {0} /\ ttl + TicksPerSecond - 1 \in Nat
  BY LimitAssumption
<1>2. /\ q \in Int
      /\ ttl + TicksPerSecond - 1 = TicksPerSecond * q + ((ttl + TicksPerSecond - 1) % TicksPerSecond)
      /\ (ttl + TicksPerSecond - 1) % TicksPerSecond \in 0..(TicksPerSecond - 1)
  BY <1>1
<1>3. q \in Nat /\ ttl <= q * TicksPerSecond
  BY <1>1, <1>2
<1>4. RetryAfter(ttl) = Max({1, q})
  BY DEF RetryAfter
<1> HIDE DEF q
<1>5. PICK k \in Nat : k = RetryAfter(ttl) /\ k >= q
  BY <1>3, <1>4, MaxOfTwo
<1>6. k * TicksPerSecond >= q * TicksPerSecond
  BY <1>1, <1>3, <1>5
<1>7. k * TicksPerSecond \in Nat /\ q * TicksPerSecond \in Nat
  BY <1>1, <1>3
<1> QED
  BY <1>3, <1>5, <1>6, <1>7

(* The script never counts past the quota it grants.                       *)
LEMMA QuotaStep == QuotaInv /\ [HttpNext]_httpVars => QuotaInv'
<1> SUFFICES ASSUME QuotaInv, [HttpNext]_httpVars PROVE QuotaInv'
  OBVIOUS
<1> USE LimitAssumption
<1>1. ASSUME NEW c \in Clients, AcquireWindow(c), UNCHANGED now PROVE QuotaInv'
  BY <1>1 DEF QuotaInv, AcquireWindow, KeyExists
<1>2. CASE ClockTick
  BY <1>2 DEF QuotaInv, ClockTick
<1>3. CASE UNCHANGED limitVars
  BY <1>3 DEF QuotaInv, limitVars
<1>4. ASSUME NEW r \in Requests, RequestStep(r)
      PROVE  UNCHANGED limitVars \/ (UNCHANGED now /\ \E c \in Clients : AcquireWindow(c))
  <2>1. ClientOf[r] \in Clients
    BY ClientsAssumption
  <2> QED
    BY <1>4, <2>1 DEF RequestStep, AnsweredAtDoor, Unlimited, Limited, LimitScript,
      LimitUnavailable, LimitRaises, LimitPassed, LimitRefused, EndpointReturns, EndpointRaises,
      EndpointCrashes, StreamBegins, ResponseEnds, BodyFails, SseMessage, SseDone, SseFails,
      SseEnds, Cancel
<1> QED
  BY <1>1, <1>2, <1>3, <1>4 DEF HttpNext, httpVars

(* A step of a request that is neither its call of the script nor its      *)
(* refusal breaks no promise.                                              *)
LEMMA PromiseQuiet ==
  ASSUME PromiseInv, UNCHANGED <<retryAt, refusedIn, limitVars>>, NEW r \in Requests,
         \A q \in Requests \ {r} : /\ reqPc'[q] = reqPc[q] /\ decision'[q] = decision[q]
                                   /\ started'[q] = started[q],
         ~(reqPc'[r] = "answer" /\ decision'[r] = "refused")
  PROVE  (started'[r] = <<429>> => started[r] = <<429>>) => PromiseInv'
<1> HAVE started'[r] = <<429>> => started[r] = <<429>>
<1>1. \A q \in Requests : PromiseOK(q)'
  BY DEF PromiseInv, PromiseOK, limitVars
<1> QED
  BY <1>1 DEF PromiseInv

(* An exception is never answered with a 429.                              *)
LEMMA CaptureKeepsPromises ==
  ASSUME AnswerInv, NEW r \in Requests, reqPc[r] # "done", Capture(r)
  PROVE  started'[r] = <<429>> => started[r] = <<429>>
<1>1. CASE seen[r] # 0
  BY <1>1 DEF Capture
<1>2. CASE seen[r] = 0
  <2>1. started[r] = <<>> /\ r \in DOMAIN started
    BY <1>2 DEF AnswerInv, ServerTypeOK, AnswerOK, AnswerShape, Sending, SentStatuses
  <2>2. started' = [started EXCEPT ![r] = Append(started[r], 500)]
    BY <1>2 DEF Capture, Respond, Answer
  <2>3. Append(<<>>, 500) = <<500>> /\ <<500>> # <<429>>
    OBVIOUS
  <2> QED
    BY <2>1, <2>2, <2>3
<1> QED
  BY <1>1, <1>2

(* A Retry-After that was promised is still long enough after every step.  *)
LEMMA PromiseStep ==
  AnswerInv /\ AnswerInv' /\ QuotaInv /\ PromiseInv /\ [HttpNext]_httpVars => PromiseInv'
<1> SUFFICES ASSUME AnswerInv, AnswerInv', QuotaInv, PromiseInv, [HttpNext]_httpVars
      PROVE PromiseInv'
  OBVIOUS
<1>0. /\ reqPc \in [Requests -> Before \cup Sending \cup {"done"}] /\ DOMAIN started = Requests
      /\ decision \in [Requests -> {"none", "allowed", "refused", "unavailable"}]
  BY DEF AnswerInv, ServerTypeOK
<1>00. \A s \in Nat \ {429} : <<s>> # <<429>>
  OBVIOUS
<1>1. ASSUME NEW r \in Requests, AnsweredAtDoor(r) PROVE PromiseInv'
  <2>1. /\ reqPc[r] \in Before /\ reqPc' = [reqPc EXCEPT ![r] = "done"]
        /\ UNCHANGED <<decision, retryAt, refusedIn, limitVars>>
    BY <1>1 DEF AnsweredAtDoor, Before
  <2>2. PICK s \in {200, 400} : started' = [started EXCEPT ![r] = Append(@, s)]
    BY <1>1 DEF AnsweredAtDoor, Answer
  <2>3. started[r] = <<>> /\ Append(<<>>, s) = <<s>>
    BY <2>1 DEF AnswerInv, AnswerOK, AnswerShape
  <2>4. started'[r] # <<429>>
    BY <1>0, <1>00, <2>2, <2>3
  <2> QED
    BY <1>0, <2>1, <2>2, <2>4, PromiseQuiet
<1>2. ASSUME NEW r \in Requests, Unlimited(r) PROVE PromiseInv'
  BY <1>0, <1>2, PromiseQuiet DEF Unlimited
<1>3. ASSUME NEW r \in Requests, Limited(r) PROVE PromiseInv'
  BY <1>0, <1>3, PromiseQuiet DEF Limited
<1>4. ASSUME NEW r \in Requests, LimitScript(r) PROVE PromiseInv'
  <2> DEFINE c == ClientOf[r]
  <2>1. c \in Clients
    BY ClientsAssumption
  <2>2. /\ reqPc[r] = "limit" /\ AcquireWindow(c) /\ reqPc' = [reqPc EXCEPT ![r] = "answer"]
        /\ UNCHANGED <<started, now>>
        /\ \/ /\ decision' = [decision EXCEPT ![r] = IF Reply(c).allowed THEN "allowed" ELSE "refused"]
              /\ refusedIn' = [refusedIn EXCEPT ![r] = IF Reply(c).allowed THEN 0 ELSE windows[c]]
              /\ retryAt' = [retryAt EXCEPT ![r] = IF Reply(c).allowed THEN 0
                                                   ELSE RetryAfter(Reply(c).ttl)]
           \/ decision' = [decision EXCEPT ![r] = "unavailable"] /\ UNCHANGED <<refusedIn, retryAt>>
    BY <1>4 DEF LimitScript
  <2>3. started[r] # <<429>>
    <3>1. started[r] = <<>>
      BY <2>2 DEF AnswerInv, AnswerOK, AnswerShape, Before
    <3> QED
      BY <3>1, OneTuple
  <2>4. CASE KeyExists(c) /\ quota[c] >= MaxRequests
    <3>1. Reply(c) = [allowed |-> FALSE, ttl |-> expiry[c] - now]
      BY <2>1, <2>4, LimitAssumption DEF Reply, QuotaInv
    <3>2. Reply(c).allowed = FALSE /\ Reply(c).ttl = expiry[c] - now
      BY <3>1
    <3>3. expiry[c] - now \in Nat
      BY <2>1, <2>4 DEF KeyExists, QuotaInv
    <3>4. PICK k \in Nat : k = RetryAfter(expiry[c] - now) /\ expiry[c] - now <= k * TicksPerSecond
      BY <3>3, RetryCovers
    <3>5. /\ UNCHANGED <<quota, expiry, windows, granted>>
          /\ \/ /\ decision' = [decision EXCEPT ![r] = "refused"]
                /\ refusedIn' = [refusedIn EXCEPT ![r] = windows[c]]
                /\ retryAt' = [retryAt EXCEPT ![r] = k]
             \/ decision' = [decision EXCEPT ![r] = "unavailable"] /\ UNCHANGED <<refusedIn, retryAt>>
      BY <2>1, <2>2, <2>4, <3>2, <3>4, LimitAssumption DEF AcquireWindow, QuotaInv
    <3>6. k * TicksPerSecond \in Nat /\ expiry[c] <= now + k * TicksPerSecond
      BY <2>1, <3>3, <3>4, LimitAssumption DEF QuotaInv
    <3>7. PromiseOK(r)'
      <4>1. CASE /\ decision' = [decision EXCEPT ![r] = "refused"]
                 /\ refusedIn' = [refusedIn EXCEPT ![r] = windows[c]]
                 /\ retryAt' = [retryAt EXCEPT ![r] = k]
        BY <2>1, <2>2, <2>3, <3>5, <3>6, <4>1 DEF PromiseInv, PromiseOK, QuotaInv
      <4>2. CASE decision' = [decision EXCEPT ![r] = "unavailable"] /\ UNCHANGED <<refusedIn, retryAt>>
        BY <1>0, <2>1, <2>2, <2>3, <3>5, <4>2 DEF PromiseInv, PromiseOK
      <4> QED
        BY <3>5, <4>1, <4>2
    <3>8. ASSUME NEW q \in Requests \ {r} PROVE PromiseOK(q)'
      BY <1>0, <2>2, <3>5, <3>8 DEF PromiseInv, PromiseOK
    <3> QED
      BY <2>1, <3>5, <3>7, <3>8 DEF PromiseInv, QuotaInv
  <2>5. CASE ~KeyExists(c) \/ quota[c] < MaxRequests
    <3>1. Reply(c).allowed
      BY <2>5 DEF Reply
    <3>2. /\ decision'[r] # "refused"
          /\ (refusedIn' = [refusedIn EXCEPT ![r] = 0] /\ retryAt' = [retryAt EXCEPT ![r] = 0])
             \/ UNCHANGED <<refusedIn, retryAt>>
          /\ \A q \in Requests \ {r} : decision'[q] = decision[q] /\ reqPc'[q] = reqPc[q]
      BY <1>0, <2>2, <3>1
    <3>3. /\ windows' \in [Clients -> Nat] /\ \A d \in Clients : windows[d] <= windows'[d]
          /\ \A d \in Clients : windows'[d] = windows[d] => expiry'[d] = expiry[d]
      BY <2>1, <2>2, <2>5, LimitAssumption DEF AcquireWindow, QuotaInv
    <3>4. ASSUME NEW q \in Requests PROVE PromiseOK(q)'
      <4> DEFINE d == ClientOf[q]
      <4>1. d \in Clients /\ windows[d] \in Nat /\ windows'[d] \in Nat /\ windows[d] <= windows'[d]
        BY <3>3, ClientsAssumption DEF QuotaInv
      <4>2. refusedIn[q] \in Nat /\ refusedIn[q] <= windows[d] /\ refusedIn'[q] \in {0, refusedIn[q]}
        BY <3>2 DEF PromiseInv, PromiseOK
      <4>3. CASE q = r
        BY <2>2, <2>3, <3>2, <4>1, <4>2, <4>3 DEF PromiseOK
      <4>4. CASE q # r
        <5>1. /\ refusedIn'[q] = refusedIn[q] /\ retryAt'[q] = retryAt[q] /\ reqPc'[q] = reqPc[q]
              /\ decision'[q] = decision[q] /\ started' = started /\ now' = now
          BY <2>2, <3>2, <4>4 DEF PromiseInv
        <5>2. refusedIn[q] = windows'[d] => windows[d] = refusedIn[q] /\ expiry'[d] = expiry[d]
          BY <3>3, <4>1, <4>2
        <5> QED
          BY <4>1, <4>2, <5>1, <5>2 DEF PromiseInv, PromiseOK
      <4> QED
        BY <4>3, <4>4
    <3> QED
      BY <3>2, <3>4 DEF PromiseInv
  <2> QED
    BY <2>1, <2>4, <2>5, LimitAssumption DEF QuotaInv
<1>5. ASSUME NEW r \in Requests, LimitUnavailable(r) PROVE PromiseInv'
  BY <1>0, <1>5, PromiseQuiet DEF LimitUnavailable
<1>6. ASSUME NEW r \in Requests, LimitRaises(r) PROVE PromiseInv'
  <2>1. Capture(r) /\ reqPc[r] # "done" /\ UNCHANGED <<decision, retryAt, refusedIn, limitVars>>
    BY <1>6 DEF LimitRaises
  <2>2. reqPc'[r] \in {"body", "done"} /\ \A q \in Requests \ {r} : reqPc'[q] = reqPc[q] /\ started'[q] = started[q]
    BY <1>0, <2>1, CaptureFrame
  <2>3. started'[r] = <<429>> => started[r] = <<429>>
    BY <2>1, CaptureKeepsPromises
  <2> QED
    BY <2>1, <2>2, <2>3, PromiseQuiet
<1>7. ASSUME NEW r \in Requests, LimitPassed(r) PROVE PromiseInv'
  BY <1>0, <1>7, PromiseQuiet DEF LimitPassed
<1>8. ASSUME NEW r \in Requests, LimitRefused(r) PROVE PromiseInv'
  <2>1. /\ reqPc[r] = "answer" /\ UNCHANGED <<decision, refusedIn, limitVars>>
        /\ \/ /\ decision[r] = "refused" /\ Respond(r, 429)
              /\ retryAt' = [retryAt EXCEPT ![r] = now + @ * TicksPerSecond]
           \/ Respond(r, 503) /\ UNCHANGED retryAt
    BY <1>8 DEF LimitRefused
  <2>2. ASSUME NEW s \in {429, 503}, Respond(r, s)
        PROVE  /\ started'[r] = <<s>> /\ reqPc'[r] = "body"
               /\ \A q \in Requests \ {r} : reqPc'[q] = reqPc[q] /\ started'[q] = started[q]
    <3>1. started'[r] = <<s>> /\ reqPc'[r] = "body"
      BY <1>0, <2>1, <2>2, Responds DEF Before, SentStatuses
    <3> QED
      BY <1>0, <2>2, <3>1 DEF Respond, Answer
  <2>3. CASE Respond(r, 503) /\ UNCHANGED retryAt
    BY <1>00, <2>1, <2>2, <2>3, PromiseQuiet
  <2>4. CASE decision[r] = "refused" /\ Respond(r, 429) /\ retryAt' = [retryAt EXCEPT ![r] = now + @ * TicksPerSecond]
    <3> DEFINE k == retryAt[r] * TicksPerSecond
    <3>1. k \in Nat
      BY LimitAssumption DEF PromiseInv
    <3>2. retryAt' = [retryAt EXCEPT ![r] = now + k] /\ now + k \in Nat
      BY <2>4, <3>1 DEF QuotaInv
    <3>3. refusedIn[r] = windows[ClientOf[r]] => expiry[ClientOf[r]] <= now + k
      BY <2>1, <2>4 DEF PromiseInv, PromiseOK
    <3> HIDE DEF k
    <3>4. PromiseOK(r)'
      BY <2>1, <2>2, <2>4, <3>2, <3>3 DEF PromiseInv, PromiseOK, limitVars
    <3>5. ASSUME NEW q \in Requests \ {r} PROVE PromiseOK(q)'
      BY <2>1, <2>2, <2>4, <3>2, <3>5 DEF PromiseInv, PromiseOK, limitVars
    <3> QED
      BY <2>1, <3>2, <3>4, <3>5 DEF PromiseInv
  <2> QED
    BY <2>1, <2>3, <2>4
<1>9. ASSUME NEW r \in Requests, EndpointReturns(r) PROVE PromiseInv'
  <2>1. /\ reqPc[r] = "endpoint" /\ UNCHANGED <<decision, retryAt, refusedIn, limitVars>>
        /\ \E s \in SentStatuses \ {429} : Respond(r, s)
    BY <1>9, Rendered DEF EndpointReturns, SentStatuses
  <2>2. PICK s \in SentStatuses \ {429} : Respond(r, s)
    BY <2>1
  <2>3. started'[r] = <<s>> /\ reqPc'[r] = "body"
    BY <1>0, <2>1, <2>2, Responds DEF Before
  <2>4. started'[r] # <<429>>
    BY <1>00, <2>3 DEF SentStatuses
  <2>5. \A q \in Requests \ {r} : reqPc'[q] = reqPc[q] /\ started'[q] = started[q]
    BY <1>0, <2>2 DEF Respond, Answer
  <2> QED
    BY <2>1, <2>3, <2>4, <2>5, PromiseQuiet
<1>10. ASSUME NEW r \in Requests, EndpointRaises(r) PROVE PromiseInv'
  <2>1. /\ reqPc[r] = "endpoint" /\ UNCHANGED <<decision, retryAt, refusedIn, limitVars>>
        /\ \E s \in SentStatuses \ {429} : Respond(r, s)
    BY <1>10, Rendered DEF EndpointRaises, SentStatuses
  <2>2. PICK s \in SentStatuses \ {429} : Respond(r, s)
    BY <2>1
  <2>3. started'[r] = <<s>> /\ reqPc'[r] = "body"
    BY <1>0, <2>1, <2>2, Responds DEF Before
  <2>4. started'[r] # <<429>>
    BY <1>00, <2>3 DEF SentStatuses
  <2>5. \A q \in Requests \ {r} : reqPc'[q] = reqPc[q] /\ started'[q] = started[q]
    BY <1>0, <2>2 DEF Respond, Answer
  <2> QED
    BY <2>1, <2>3, <2>4, <2>5, PromiseQuiet
<1>11. ASSUME NEW r \in Requests, EndpointCrashes(r) PROVE PromiseInv'
  <2>1. Capture(r) /\ reqPc[r] # "done" /\ UNCHANGED <<decision, retryAt, refusedIn, limitVars>>
    BY <1>11 DEF EndpointCrashes
  <2>2. reqPc'[r] \in {"body", "done"} /\ \A q \in Requests \ {r} : reqPc'[q] = reqPc[q] /\ started'[q] = started[q]
    BY <1>0, <2>1, CaptureFrame
  <2>3. started'[r] = <<429>> => started[r] = <<429>>
    BY <2>1, CaptureKeepsPromises
  <2> QED
    BY <2>1, <2>2, <2>3, PromiseQuiet
<1>12. ASSUME NEW r \in Requests, StreamBegins(r) PROVE PromiseInv'
  <2>1. /\ reqPc[r] \in Before /\ reqPc' = [reqPc EXCEPT ![r] = "events"]
        /\ UNCHANGED <<decision, retryAt, refusedIn, limitVars>>
    BY <1>12 DEF StreamBegins, Before
  <2>2. PICK s \in {200, 400} : started' = [started EXCEPT ![r] = Append(@, s)]
    BY <1>12 DEF StreamBegins, Answer
  <2>3. started[r] = <<>> /\ Append(<<>>, s) = <<s>>
    BY <2>1 DEF AnswerInv, AnswerOK, AnswerShape
  <2>4. started'[r] # <<429>>
    BY <1>0, <1>00, <2>2, <2>3
  <2> QED
    BY <1>0, <2>1, <2>2, <2>4, PromiseQuiet
<1>13. ASSUME NEW r \in Requests, ResponseEnds(r) PROVE PromiseInv'
  BY <1>0, <1>13, PromiseQuiet DEF ResponseEnds
<1>14. ASSUME NEW r \in Requests, BodyFails(r) PROVE PromiseInv'
  <2>1. Capture(r) /\ reqPc[r] # "done" /\ UNCHANGED <<decision, retryAt, refusedIn, limitVars>>
    BY <1>14 DEF BodyFails
  <2>2. reqPc'[r] \in {"body", "done"} /\ \A q \in Requests \ {r} : reqPc'[q] = reqPc[q] /\ started'[q] = started[q]
    BY <1>0, <2>1, CaptureFrame
  <2>3. started'[r] = <<429>> => started[r] = <<429>>
    BY <2>1, CaptureKeepsPromises
  <2> QED
    BY <2>1, <2>2, <2>3, PromiseQuiet
<1>15. ASSUME NEW r \in Requests, SseMessage(r) PROVE PromiseInv'
  BY <1>0, <1>15, PromiseQuiet DEF SseMessage
<1>16. ASSUME NEW r \in Requests, SseDone(r) PROVE PromiseInv'
  BY <1>0, <1>16, PromiseQuiet DEF SseDone
<1>17. ASSUME NEW r \in Requests, SseFails(r) PROVE PromiseInv'
  BY <1>0, <1>17, PromiseQuiet DEF SseFails
<1>18. ASSUME NEW r \in Requests, SseEnds(r) PROVE PromiseInv'
  BY <1>0, <1>18, PromiseQuiet DEF SseEnds
<1>19. ASSUME NEW r \in Requests, Cancel(r) PROVE PromiseInv'
  BY <1>0, <1>19, PromiseQuiet DEF Cancel
<1>20. CASE ClockTick /\ UNCHANGED requestVars
  <2>1. ASSUME NEW q \in Requests PROVE PromiseOK(q)'
    <3>1. PICK k \in Nat : k = retryAt[q] * TicksPerSecond
      BY LimitAssumption DEF PromiseInv
    <3>2. PICK e \in Nat : e = expiry[ClientOf[q]]
      BY ClientsAssumption DEF QuotaInv
    <3>3. now \in Nat /\ now' = now + 1 /\ (e <= now + k => e <= now' + k)
      BY <1>20 DEF ClockTick, QuotaInv
    <3> QED
      BY <1>20, <3>1, <3>2, <3>3 DEF PromiseInv, PromiseOK, ClockTick, requestVars
  <2> QED
    BY <1>20, <2>1 DEF PromiseInv, requestVars
<1>21. CASE UNCHANGED httpVars
  BY <1>21 DEF PromiseInv, PromiseOK, httpVars, requestVars, limitVars
<1> QED
  BY <1>1, <1>2, <1>3, <1>4, <1>5, <1>6, <1>7, <1>8, <1>9, <1>10, <1>11, <1>12, <1>13, <1>14,
     <1>15, <1>16, <1>17, <1>18, <1>19, <1>20, <1>21
  DEF HttpNext, RequestStep

(* The window is honest: for any number of clients and requests, whatever  *)
(* the quota, the window and the length of a second, WindowHonest.         *)
THEOREM WindowsAreHonest == HttpSpec => []WindowHonest
<1>1. HttpInit => QuotaInv /\ PromiseInv
  <2> SUFFICES ASSUME HttpInit PROVE QuotaInv /\ PromiseInv
    OBVIOUS
  <2>1. QuotaInv
    BY LimitAssumption DEF HttpInit, LimitInit, QuotaInv
  <2>2. ASSUME NEW r \in Requests PROVE PromiseOK(r)
    <3>1. ClientOf[r] \in Clients
      BY ClientsAssumption
    <3>2. started[r] # <<429>> /\ reqPc[r] = "new"
      BY OneTuple DEF HttpInit
    <3> QED
      BY <3>1, <3>2 DEF HttpInit, LimitInit, PromiseOK
  <2> QED
    BY <2>1, <2>2 DEF PromiseInv, HttpInit
<1>2. QuotaInv /\ PromiseInv => WindowHonest
  <2> SUFFICES ASSUME QuotaInv, PromiseInv PROVE WindowHonest
    OBVIOUS
  <2>1. \A c \in Clients : granted[c] <= MaxRequests
    BY DEF QuotaInv
  <2>2. \A r \in Requests : started[r] = <<429>> /\ now >= retryAt[r] =>
          refusedIn[r] < windows[ClientOf[r]] \/ ~KeyExists(ClientOf[r])
    <3> TAKE r \in Requests
    <3> HAVE started[r] = <<429>> /\ now >= retryAt[r]
    <3>1. /\ ClientOf[r] \in Clients /\ refusedIn[r] \in Nat /\ retryAt[r] \in Nat /\ now \in Nat
          /\ windows[ClientOf[r]] \in Nat /\ expiry[ClientOf[r]] \in Nat
      BY ClientsAssumption DEF QuotaInv, PromiseInv
    <3>2. /\ refusedIn[r] <= windows[ClientOf[r]]
          /\ refusedIn[r] = windows[ClientOf[r]] => expiry[ClientOf[r]] <= retryAt[r]
      BY DEF PromiseInv, PromiseOK
    <3> QED
      BY <3>1, <3>2 DEF KeyExists
  <2> QED
    BY <2>1, <2>2 DEF WindowHonest
<1> QED
  BY <1>1, <1>2, AnswerInit, AnswerStep, QuotaStep, PromiseStep, PTL DEF HttpSpec

-----------------------------------------------------------------------------
(* The outbound calls                                                      *)

(* What a call has been counted for, holds and has logged at every await.  *)
Counted == {"opening", "body", "exiting"}
InCall(k) == {t \in Callers : callPool[t] = k /\ callPc[t] \in Counted}
Endings == {"ok", "http", "foreign", "cancel", "caller", "callerForeign"}
OutEvents == {"pressure", "connected", "pool_timeout"} \cup Terminal

OutTypeOK ==
  /\ callPc \in [Callers -> Counted \cup {"idle", "ending"}]
  /\ callPool \in [Callers -> PoolNames]
  /\ ending \in [Callers -> Endings \cup {"none"}]
  /\ active \in [PoolNames -> Nat]
  /\ conns \in SUBSET Callers
  /\ events \in [Callers -> Seq(OutEvents)]

ActiveOK == \A k \in PoolNames : active[k] = Cardinality(InCall(k))

ConnsOK == \A t \in conns : callPc[t] \in {"body", "exiting"}

LastEvent(log) == log[Len(log)]

CallShape(pc, pool, how, log) ==
  /\ pc # "idle" => \A i \in 1..Len(log) : log[i] \notin Terminal
  /\ pc \in {"opening", "body"} => how = "none"
  /\ pc \in {"exiting", "ending"} => how # "none"
  /\ \/ pc = "body" /\ pool = "stream"
     \/ pc # "opening" /\ how \in {"caller", "callerForeign"}
     => log # <<>> /\ LastEvent(log) = "connected"
  /\ pc = "idle" /\ how \notin {"none", "caller", "callerForeign"} =>
       log # <<>> /\ LastEvent(log) \in Terminal /\ (LastEvent(log) = "completed" <=> how = "ok")

CallOK(t) == CallShape(callPc[t], callPool[t], ending[t], events[t])

OutInv == OutTypeOK /\ ActiveOK /\ ConnsOK /\ \A t \in Callers : CallOK(t)

(* The calls of a pool can be counted.                                     *)
LEMMA CallSets ==
  ASSUME NEW S \in SUBSET Callers
  PROVE  IsFiniteSet(S) /\ Cardinality(S) \in Nat
  BY CallersAssumption, FS_Subset, FS_CardinalityType

(* Nobody is counted in or out.                                            *)
LEMMA CountSame ==
  ASSUME ActiveOK, UNCHANGED <<callPool, active>>,
         \A t \in Callers : callPc'[t] \in Counted <=> callPc[t] \in Counted
  PROVE  ActiveOK'
<1>1. ASSUME NEW k \in PoolNames PROVE active'[k] = Cardinality(InCall(k)')
  <2>1. InCall(k)' = InCall(k)
    BY DEF InCall
  <2> QED
    BY <2>1 DEF ActiveOK
<1> QED
  BY <1>1 DEF ActiveOK

(* A call is counted in.                                                   *)
LEMMA CountIn ==
  ASSUME OutTypeOK, ActiveOK, NEW t \in Callers, NEW k \in PoolNames, callPc[t] \notin Counted,
         callPc' = [callPc EXCEPT ![t] = "opening"], callPool' = [callPool EXCEPT ![t] = k], Acquire(k)
  PROVE  ActiveOK' /\ active' \in [PoolNames -> Nat]
<1>1. InCall(k)' = InCall(k) \cup {t} /\ t \notin InCall(k)
  BY DEF OutTypeOK, InCall, Counted
<1>2. ASSUME NEW j \in PoolNames \ {k} PROVE InCall(j)' = InCall(j)
  BY <1>2 DEF OutTypeOK, InCall, Counted
<1>3. active'[k] = Cardinality(InCall(k)')
  <2>1. InCall(k) \in SUBSET Callers
    BY DEF InCall
  <2>2. Cardinality(InCall(k) \cup {t}) = Cardinality(InCall(k)) + 1
    BY <1>1, <2>1, CallSets, FS_AddElement
  <2> QED
    BY <1>1, <2>2 DEF OutTypeOK, ActiveOK, Acquire
<1>4. active' \in [PoolNames -> Nat] /\ \A j \in PoolNames \ {k} : active'[j] = active[j]
  BY DEF OutTypeOK, Acquire
<1>5. ASSUME NEW j \in PoolNames PROVE active'[j] = Cardinality(InCall(j)')
  <2>1. CASE j = k
    BY <1>3, <2>1
  <2>2. CASE j # k
    BY <1>2, <1>4, <2>2 DEF ActiveOK
  <2> QED
    BY <2>1, <2>2
<1> QED
  BY <1>4, <1>5 DEF ActiveOK

(* A call is counted out; the floor at zero is never needed.               *)
LEMMA CountOut ==
  ASSUME OutTypeOK, ActiveOK, NEW t \in Callers, callPc[t] \in Counted,
         callPc' = [callPc EXCEPT ![t] = "ending"], UNCHANGED callPool, Release(callPool[t])
  PROVE  ActiveOK' /\ active' \in [PoolNames -> Nat]
<1>0. PICK k \in PoolNames : k = callPool[t]
  BY DEF OutTypeOK
<1>1. InCall(k)' = InCall(k) \ {t} /\ t \in InCall(k)
  BY <1>0 DEF OutTypeOK, InCall, Counted
<1>2. ASSUME NEW j \in PoolNames \ {k} PROVE InCall(j)' = InCall(j)
  BY <1>0, <1>2 DEF OutTypeOK, InCall, Counted
<1>3. PICK n \in Nat : n = active[k] /\ n > 0 /\ Cardinality(InCall(k)') = n - 1
  <2>1. InCall(k) \in SUBSET Callers
    BY DEF InCall
  <2>2. /\ Cardinality(InCall(k) \ {t}) = Cardinality(InCall(k)) - 1
        /\ Cardinality(InCall(k)) \in Nat /\ Cardinality(InCall(k) \ {t}) \in Nat
    BY <1>1, <2>1, CallSets, FS_RemoveElement
  <2> QED
    BY <1>1, <2>2 DEF ActiveOK
<1>4. Max({0, n - 1}) = n - 1
  BY <1>3, MaxOfTwo
<1>5. active' = [active EXCEPT ![k] = n - 1]
  BY <1>0, <1>3, <1>4 DEF Release
<1>6. active' \in [PoolNames -> Nat] /\ active'[k] = n - 1 /\ \A j \in PoolNames \ {k} : active'[j] = active[j]
  BY <1>3, <1>5 DEF OutTypeOK
<1>7. ASSUME NEW j \in PoolNames PROVE active'[j] = Cardinality(InCall(j)')
  <2>1. CASE j = k
    BY <1>3, <1>6, <2>1
  <2>2. CASE j # k
    BY <1>2, <1>6, <2>2 DEF ActiveOK
  <2> QED
    BY <2>1, <2>2
<1> QED
  BY <1>6, <1>7 DEF ActiveOK

(* What an event at the end of the log leaves of the log.                  *)
LEMMA LogAppend ==
  ASSUME NEW log \in Seq(OutEvents), NEW e \in OutEvents
  PROVE  /\ Append(log, e) \in Seq(OutEvents) /\ Append(log, e) # <<>> /\ LastEvent(Append(log, e)) = e
         /\ (\A i \in 1..Len(log) : log[i] \notin Terminal) /\ e \notin Terminal
              => \A i \in 1..Len(Append(log, e)) : Append(log, e)[i] \notin Terminal
  BY DEF LastEvent

(* One call moves at a time.                                               *)
LEMMA OneOut ==
  ASSUME OutInv, OutTypeOK', ActiveOK', ConnsOK', NEW t \in Callers, CallOK(t)',
         \A u \in Callers \ {t} : /\ callPc'[u] = callPc[u] /\ callPool'[u] = callPool[u]
                                  /\ ending'[u] = ending[u] /\ events'[u] = events[u]
  PROVE  OutInv'
<1>1. ASSUME NEW u \in Callers \ {t} PROVE CallOK(u)'
  BY <1>1 DEF OutInv, CallOK
<1> QED
  BY <1>1 DEF OutInv

(* Every way out of open_httpx2_stream.                                    *)
LEMMA Leaves ==
  ASSUME OutInv, NEW t \in Callers, callPc[t] \in {"opening", "body"},
         NEW how \in Endings \ {"callerForeign"}, Leave(t, how), UNCHANGED <<callPool, conns>>,
         how = "caller" => callPc[t] = "body" /\ callPool[t] = "stream",
         NEW log \in Seq(OutEvents), events' = [events EXCEPT ![t] = log],
         \/ log = events[t]
         \/ log = Append(events[t], "pool_timeout") /\ how # "caller"
  PROVE  OutInv'
<1>0. OutTypeOK /\ ActiveOK /\ ConnsOK /\ CallShape(callPc[t], callPool[t], ending[t], events[t])
  BY DEF OutInv, CallOK
<1>1. /\ ending' = [ending EXCEPT ![t] = how]
      /\ \/ callPc[t] = "opening" /\ callPc' = [callPc EXCEPT ![t] = "ending"] /\ Release(callPool[t])
         \/ callPc[t] = "body" /\ callPc' = [callPc EXCEPT ![t] = "exiting"] /\ UNCHANGED active
  BY DEF Leave, OutGoto
<1>2. ActiveOK' /\ active' \in [PoolNames -> Nat]
  <2>1. CASE callPc[t] = "opening" /\ callPc' = [callPc EXCEPT ![t] = "ending"] /\ Release(callPool[t])
    BY <1>0, <2>1, CountOut DEF Counted
  <2>2. CASE callPc[t] = "body" /\ callPc' = [callPc EXCEPT ![t] = "exiting"] /\ UNCHANGED active
    <3>1. \A u \in Callers : callPc'[u] \in Counted <=> callPc[u] \in Counted
      BY <1>0, <2>2 DEF OutTypeOK, Counted
    <3> QED
      BY <1>0, <2>2, <3>1, CountSame DEF OutTypeOK
  <2> QED
    BY <1>1, <2>1, <2>2
<1>3. OutTypeOK'
  BY <1>0, <1>1, <1>2 DEF OutTypeOK, Counted
<1>4. ConnsOK'
  BY <1>0, <1>1 DEF OutTypeOK, ConnsOK
<1>5. CallOK(t)'
  <2>1. events[t] \in Seq(OutEvents) /\ "pool_timeout" \in OutEvents \ Terminal
    BY <1>0 DEF OutTypeOK, OutEvents, Terminal
  <2>2. \A i \in 1..Len(log) : log[i] \notin Terminal
    BY <1>0, <2>1, LogAppend DEF CallShape
  <2>3. how = "caller" => log # <<>> /\ LastEvent(log) = "connected"
    BY <1>0 DEF CallShape
  <2>4. callPc'[t] \in {"exiting", "ending"} /\ ending'[t] = how /\ events'[t] = log
    BY <1>0, <1>1 DEF OutTypeOK
  <2>5. CallShape(callPc'[t], callPool'[t], how, log)
    BY <2>2, <2>3, <2>4 DEF CallShape, Endings
  <2> QED
    BY <2>4, <2>5 DEF CallOK
<1> QED
  BY <1>0, <1>1, <1>2, <1>3, <1>4, <1>5, OneOut DEF OutTypeOK

(* OutInv is inductive: permits, connections and streams balance.          *)
LEMMA OutStep == OutInv /\ [OutNext]_outVars => OutInv'
<1> SUFFICES ASSUME OutInv, [OutNext]_outVars PROVE OutInv'
  OBVIOUS
<1>0. OutTypeOK /\ ActiveOK /\ ConnsOK
  BY DEF OutInv
<1>1. CASE ManagerAclose \/ UNCHANGED outVars
  <2>1. UNCHANGED <<callPc, callPool, ending, conns, active, events>>
    BY <1>1 DEF ManagerAclose, outVars
  <2> QED
    BY <2>1 DEF OutInv, OutTypeOK, ActiveOK, InCall, ConnsOK, CallOK
<1>2. CASE ClientAclose
  <2>1. UNCHANGED <<callPc, callPool, ending, active, events>> /\ conns' \in SUBSET conns
    BY <1>2 DEF ClientAclose
  <2>2. OutTypeOK' /\ ConnsOK'
    BY <1>0, <2>1 DEF OutTypeOK, ConnsOK
  <2>3. ActiveOK' /\ \A t \in Callers : CallOK(t)'
    BY <2>1 DEF OutInv, ActiveOK, InCall, CallOK
  <2> QED
    BY <2>2, <2>3 DEF OutInv
<1>3. ASSUME NEW t \in Callers, NEW k \in PoolNames, Call(t, k) PROVE OutInv'
  <2>1. PICK log \in {<<"pressure">>, <<>>} : events' = [events EXCEPT ![t] = log]
    BY <1>3 DEF Call
  <2>2. /\ callPc[t] = "idle" /\ callPc' = [callPc EXCEPT ![t] = "opening"] /\ UNCHANGED conns
        /\ callPool' = [callPool EXCEPT ![t] = k] /\ ending' = [ending EXCEPT ![t] = "none"] /\ Acquire(k)
    BY <1>3 DEF Call, OutGoto
  <2>3. ActiveOK' /\ active' \in [PoolNames -> Nat]
    BY <1>0, <2>2, CountIn DEF Counted
  <2>4. log \in Seq(OutEvents) /\ \A i \in 1..Len(log) : log[i] \notin Terminal
    <3>1. "pressure" \in OutEvents \ Terminal
      BY DEF OutEvents, Terminal
    <3>2. CASE log = <<>>
      BY <3>2
    <3>3. CASE log = <<"pressure">>
      BY <3>1, <3>3
    <3> QED
      BY <2>1, <3>2, <3>3
  <2>5. OutTypeOK'
    BY <1>0, <2>1, <2>2, <2>3, <2>4 DEF OutTypeOK, Counted
  <2>6. ConnsOK'
    BY <1>0, <2>2 DEF OutTypeOK, ConnsOK
  <2>7. CallOK(t)'
    <3>1. CallShape("opening", k, "none", log)
      BY <2>4 DEF CallShape
    <3>2. callPc'[t] = "opening" /\ callPool'[t] = k /\ ending'[t] = "none" /\ events'[t] = log
      BY <1>0, <2>1, <2>2 DEF OutTypeOK
    <3> QED
      BY <3>1, <3>2 DEF CallOK
  <2> QED
    BY <1>0, <2>1, <2>2, <2>3, <2>5, <2>6, <2>7, OneOut DEF OutTypeOK
<1>4. ASSUME NEW t \in Callers, Opened(t) PROVE OutInv'
  <2> DEFINE log == IF callPool[t] = "stream" THEN Append(events[t], "connected") ELSE events[t]
  <2>1. /\ callPc[t] = "opening" /\ callPc' = [callPc EXCEPT ![t] = "body"] /\ conns' = conns \cup {t}
        /\ UNCHANGED <<callPool, ending, active>> /\ events' = [events EXCEPT ![t] = log]
    BY <1>0, <1>4 DEF Opened, OutGoto, Log, OutTypeOK
  <2>2. /\ CallShape("opening", callPool[t], ending[t], events[t]) /\ events[t] \in Seq(OutEvents)
        /\ "connected" \in OutEvents \ Terminal
    BY <1>0, <2>1 DEF OutInv, OutTypeOK, CallOK, OutEvents, Terminal
  <2>3. /\ log \in Seq(OutEvents) /\ \A i \in 1..Len(log) : log[i] \notin Terminal
        /\ callPool[t] = "stream" => log # <<>> /\ LastEvent(log) = "connected"
    <3>1. \A i \in 1..Len(events[t]) : events[t][i] \notin Terminal
      BY <2>2 DEF CallShape
    <3> QED
      BY <2>2, <3>1, LogAppend
  <2> HIDE DEF log
  <2>4. ActiveOK'
    <3>1. \A u \in Callers : callPc'[u] \in Counted <=> callPc[u] \in Counted
      BY <1>0, <2>1 DEF OutTypeOK, Counted
    <3> QED
      BY <1>0, <2>1, <3>1, CountSame
  <2>5. OutTypeOK' /\ ConnsOK'
    BY <1>0, <2>1, <2>3 DEF OutTypeOK, ConnsOK, Counted
  <2>6. CallOK(t)'
    <3>1. CallShape("body", callPool[t], ending[t], log)
      BY <2>2, <2>3 DEF CallShape
    <3> QED
      BY <1>0, <2>1, <3>1 DEF CallOK, OutTypeOK
  <2> QED
    BY <1>0, <2>1, <2>4, <2>5, <2>6, OneOut DEF OutTypeOK
<1>5. ASSUME NEW t \in Callers, PoolTimeout(t) PROVE OutInv'
  <2>1. /\ callPc[t] = "opening" /\ Leave(t, "http") /\ UNCHANGED <<callPool, conns>>
        /\ events' = [events EXCEPT ![t] = Append(events[t], "pool_timeout")]
    BY <1>5 DEF PoolTimeout, Log
  <2>2. Append(events[t], "pool_timeout") \in Seq(OutEvents)
    BY <1>0, LogAppend DEF OutTypeOK, OutEvents
  <2>3. PICK log \in Seq(OutEvents) : log = Append(events[t], "pool_timeout")
    BY <2>2
  <2>4. "http" \in Endings \ {"callerForeign"}
    BY DEF Endings
  <2> QED
    BY <2>1, <2>3, <2>4, Leaves
<1>6. ASSUME NEW t \in Callers, OpenFails(t) \/ CallCancelled(t) \/ ReadFails(t) \/ BodyEnds(t) \/ CallerFails(t)
      PROVE  OutInv'
  <2>1. PICK how \in Endings \ {"callerForeign"} :
          /\ callPc[t] \in {"opening", "body"} /\ Leave(t, how)
          /\ how = "caller" => callPc[t] = "body" /\ callPool[t] = "stream"
    BY <1>6 DEF OpenFails, CallCancelled, ReadFails, BodyEnds, CallerFails, Endings
  <2>2. UNCHANGED <<callPool, conns, events>>
    BY <1>6 DEF OpenFails, CallCancelled, ReadFails, BodyEnds, CallerFails
  <2>3. events[t] \in Seq(OutEvents) /\ events' = [events EXCEPT ![t] = events[t]]
    BY <1>0, <2>2 DEF OutTypeOK
  <2> QED
    BY <2>1, <2>2, <2>3, Leaves
<1>7. ASSUME NEW t \in Callers, Exited(t) PROVE OutInv'
  <2>1. /\ callPc[t] = "exiting" /\ callPc' = [callPc EXCEPT ![t] = "ending"] /\ conns' = conns \ {t}
        /\ Release(callPool[t]) /\ UNCHANGED <<callPool, events>>
    BY <1>7 DEF Exited, OutGoto
  <2>2. PICK how \in Endings :
          /\ ending' = [ending EXCEPT ![t] = how]
          /\ how \in {"caller", "callerForeign"} => ending[t] \in {"caller", "callerForeign"}
    <3>1. ending[t] \in Endings
      BY <1>0, <2>1 DEF OutInv, OutTypeOK, CallOK, CallShape
    <3>2. CASE UNCHANGED ending
      <4>1. ending' = [ending EXCEPT ![t] = ending[t]]
        BY <1>0, <3>2 DEF OutTypeOK
      <4> QED
        BY <3>1, <4>1
    <3>3. CASE ending' = [ending EXCEPT ![t] = IF @ = "caller" THEN "callerForeign" ELSE "foreign"]
      <4>1. CASE ending[t] = "caller"
        BY <3>3, <4>1 DEF Endings
      <4>2. CASE ending[t] # "caller"
        BY <3>3, <4>2 DEF Endings
      <4> QED
        BY <4>1, <4>2
    <3>4. CASE ending' = [ending EXCEPT ![t] = "cancel"]
      <4>1. "cancel" \in Endings /\ "cancel" \notin {"caller", "callerForeign"}
        BY DEF Endings
      <4> QED
        BY <3>4, <4>1
    <3> QED
      BY <1>7, <3>2, <3>3, <3>4 DEF Exited
  <2>3. ActiveOK' /\ active' \in [PoolNames -> Nat]
    BY <1>0, <2>1, CountOut DEF Counted
  <2>4. OutTypeOK' /\ ConnsOK'
    BY <1>0, <2>1, <2>2, <2>3 DEF OutTypeOK, ConnsOK, Counted
  <2>5. CallOK(t)'
    <3>1. CallShape("exiting", callPool[t], ending[t], events[t])
      BY <2>1 DEF OutInv, CallOK
    <3>2. CallShape("ending", callPool[t], how, events[t])
      BY <2>2, <3>1 DEF CallShape, Endings
    <3> QED
      BY <1>0, <2>1, <2>2, <3>2 DEF CallOK, OutTypeOK
  <2> QED
    BY <1>0, <2>1, <2>2, <2>3, <2>4, <2>5, OneOut DEF OutTypeOK
<1>8. ASSUME NEW t \in Callers, ReadChunk(t) PROVE OutInv'
  <2>1. CASE Leave(t, "http")
    <3>1. callPc[t] = "body" /\ UNCHANGED <<callPool, conns, events>>
      BY <1>8 DEF ReadChunk
    <3>2. events[t] \in Seq(OutEvents) /\ events' = [events EXCEPT ![t] = events[t]]
      BY <1>0, <3>1 DEF OutTypeOK
    <3> QED
      BY <2>1, <3>1, <3>2, Leaves DEF Endings
  <2>2. CASE UNCHANGED <<callPc, ending, active>>
    <3>1. UNCHANGED <<callPc, callPool, ending, conns, active, events>>
      BY <1>8, <2>2 DEF ReadChunk
    <3> QED
      BY <3>1 DEF OutInv, OutTypeOK, ActiveOK, InCall, ConnsOK, CallOK
  <2> QED
    BY <1>8, <2>1, <2>2 DEF ReadChunk
<1>9. ASSUME NEW t \in Callers, CallEnd(t) PROVE OutInv'
  <2>1. /\ callPc[t] = "ending" /\ callPc' = [callPc EXCEPT ![t] = "idle"]
        /\ events' = [events EXCEPT ![t] = events[t] \o EventOf(ending[t])]
        /\ UNCHANGED <<callPool, ending, conns, active>>
    BY <1>9 DEF CallEnd, OutGoto
  <2>2. CallShape("ending", callPool[t], ending[t], events[t]) /\ events[t] \in Seq(OutEvents) /\ ending[t] \in Endings
    BY <1>0, <2>1 DEF OutInv, OutTypeOK, CallOK, CallShape
  <2>3. PICK log : log = events[t] \o EventOf(ending[t])
    OBVIOUS
  <2>4. log \in Seq(OutEvents) /\ CallShape("idle", callPool[t], ending[t], log)
    <3>1. CASE ending[t] \in {"caller", "callerForeign"}
      <4>1. EventOf(ending[t]) = <<>>
        BY <3>1 DEF EventOf
      <4>2. log = events[t]
        BY <2>2, <2>3, <4>1
      <4> QED
        BY <2>2, <3>1, <4>2 DEF CallShape
    <3>2. CASE ending[t] \notin {"caller", "callerForeign"}
      <4>1. PICK e \in Terminal : EventOf(ending[t]) = <<e>> /\ (e = "completed" <=> ending[t] = "ok")
        BY <2>2, <3>2 DEF EventOf, Endings, Terminal
      <4>2. log = Append(events[t], e) /\ e \in OutEvents
        BY <2>2, <2>3, <4>1 DEF OutEvents
      <4>3. log \in Seq(OutEvents) /\ log # <<>> /\ LastEvent(log) = e
        BY <2>2, <4>2, LogAppend
      <4> QED
        BY <3>2, <4>1, <4>3 DEF CallShape
    <3> QED
      BY <3>1, <3>2
  <2>5. ActiveOK'
    <3>1. \A u \in Callers : callPc'[u] \in Counted <=> callPc[u] \in Counted
      BY <1>0, <2>1 DEF OutTypeOK, Counted
    <3> QED
      BY <1>0, <2>1, <3>1, CountSame
  <2>6. OutTypeOK' /\ ConnsOK'
    BY <1>0, <2>1, <2>3, <2>4 DEF OutTypeOK, ConnsOK
  <2>7. CallOK(t)'
    BY <1>0, <2>1, <2>3, <2>4 DEF CallOK, OutTypeOK
  <2> QED
    BY <1>0, <2>1, <2>5, <2>6, <2>7, OneOut DEF OutTypeOK
<1> QED
  BY <1>1, <1>2, <1>3, <1>4, <1>5, <1>6, <1>7, <1>8, <1>9 DEF OutNext

(* Every outbound call is accounted for, for any number of callers, any    *)
(* pool and any number of calls: CallsAccounted.                           *)
THEOREM CallsAreAccounted == OutSpec => []CallsAccounted
<1>1. OutInit => OutInv
  <2> SUFFICES ASSUME OutInit PROVE OutInv
    OBVIOUS
  <2>1. OutTypeOK /\ ConnsOK
    BY DEF OutInit, OutTypeOK, ConnsOK, PoolNames
  <2>2. ASSUME NEW k \in PoolNames PROVE active[k] = Cardinality(InCall(k))
    <3>1. InCall(k) = {} /\ active[k] = 0
      BY DEF OutInit, InCall, Counted
    <3> QED
      BY <3>1, FS_EmptySet
  <2>3. ASSUME NEW t \in Callers PROVE CallOK(t)
    BY <2>3 DEF OutInit, CallOK, CallShape
  <2> QED
    BY <2>1, <2>2, <2>3 DEF OutInv, ActiveOK
<1>2. OutInv => CallsAccounted
  <2> SUFFICES ASSUME OutInv PROVE CallsAccounted
    OBVIOUS
  <2>1. \A k \in PoolNames :
          active[k] = Cardinality({t \in Callers : callPool[t] = k /\ callPc[t] \in {"opening", "body", "exiting"}})
    BY DEF OutInv, ActiveOK, InCall, Counted
  <2>2. ASSUME NEW t \in Callers
        PROVE  /\ callPc[t] # "idle" => \A i \in DOMAIN events[t] : events[t][i] \notin Terminal
               /\ callPc[t] = "idle" /\ ending[t] # "none" =>
                    LET last == events[t][Len(events[t])]
                    IN  IF ending[t] \in {"caller", "callerForeign"}
                        THEN last = "connected"
                        ELSE last \in Terminal /\ (last = "completed" <=> ending[t] = "ok")
    <3>1. CallShape(callPc[t], callPool[t], ending[t], events[t]) /\ DOMAIN events[t] = 1..Len(events[t])
      BY DEF OutInv, OutTypeOK, CallOK
    <3> QED
      BY <3>1 DEF CallShape, LastEvent
  <2> QED
    BY <2>1, <2>2 DEF OutInv, ConnsOK, CallsAccounted
<1> QED
  BY <1>1, <1>2, OutStep, PTL DEF OutSpec
=============================================================================
