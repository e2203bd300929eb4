--------------------------- MODULE AccountsProofs ---------------------------
(***************************************************************************)
(* Theorems about Accounts for any number of users, names, requests,       *)
(* hashes, versions and tokens.                                            *)
(***************************************************************************)
EXTENDS Accounts, TLAPS

Writing == {"profile", "status", "reset", "revoke"}
SubjectPcs == Writing \cup {"insert", "rehash", "verify", "session"}
CopyPcs    == Writing \cup {"hashing", "insert", "verify", "session"}

(* A request past its first transaction has an aggregate and, once it has  *)
(* chosen it, a user.                                                      *)
InHand ==
  \A r \in Requests :
    /\ pc[r] \in CopyPcs => copy[r] \in UserRow
    /\ pc[r] \in SubjectPcs => subject[r] \in born
    /\ pc[r] \notin SubjectPcs => subject[r] = None

TypeInv == TypeOK /\ InHand /\ \A u \in Users : Exists(u) => u \in born

(* The id of a user about to be inserted is nobody else's.                 *)
NewIds ==
  \A r \in Requests :
    pc[r] = "insert" => /\ row[subject[r]] = NoRow
                        /\ \A q \in Requests \ {r} : subject[q] # subject[r]

(* An aggregate whose version is the row's agrees with the row, but for    *)
(* the one column its use case changes; no aggregate is ahead of its row.  *)
Current ==
  \A r \in Requests :
    LET u == subject[r]
    IN  pc[r] \in Writing /\ Exists(u) =>
          /\ copy[r].version <= row[u].version
          /\ copy[r].version = row[u].version =>
               \/ pc[r] = "profile" /\ copy[r].hash = row[u].hash
                                    /\ copy[r].status = row[u].status
               \/ /\ pc[r] \in {"status", "revoke"} /\ copy[r].hash = row[u].hash
                  /\ copy[r].name = row[u].name
               \/ /\ pc[r] \in {"reset", "revoke"} /\ copy[r].status = row[u].status
                  /\ copy[r].name = row[u].name

(* A row under an uncommitted UPDATE stays as it was read, and only one    *)
(* request updates it.                                                     *)
Staged ==
  \A r \in Requests :
    pc[r] = "revoke" => /\ Exists(subject[r])
                        /\ row[subject[r]].version = copy[r].version
                        /\ \A q \in Requests \ {r} :
                             ~(pc[q] = "revoke" /\ subject[q] = subject[r])

RowInv == NewIds /\ Current /\ Staged

(* A login that has accepted its user, and has met no revocation so far,   *)
(* would still be accepted.                                                *)
Accepted ==
  \A r \in Requests :
    pc[r] = "session" /\ r \notin raced /\ Exists(subject[r]) =>
      /\ row[subject[r]].status = "active"
      /\ row[subject[r]].hash = copy[r].hash
      /\ ~Locked(subject[r])

(* What a revocation leaves standing was committed while it was under way. *)
Missed ==
  \A r \in Requests, s \in sessions :
    pc[r] = "revoke" /\ s.user = subject[r] /\ s.token \notin doomed[r] => s.raced

SessionInv == NoOrphanSession /\ RevokedUnlessRacing /\ Accepted /\ Missed

USE NoneIsNoId, AccountBounds

-----------------------------------------------------------------------------
(* Type correctness.                                                       *)

(* The tables and requests start with their types.                         *)
LEMMA InitTypeInv == Init => TypeInv
BY DEF Init, TypeInv, TypeOK, InHand, Pcs, Exists, SubjectPcs, CopyPcs, Writing

(* What a login inserts is a session row.                                  *)
LEMMA SessionRecord ==
  ASSUME NEW k \in 1..MaxTokens, NEW u \in Users, NEW h \in 0..MaxHashes, NEW b \in BOOLEAN
  PROVE  [token |-> k, user |-> u, hash |-> h, expired |-> FALSE, raced |-> b] \in Session
BY DEF Session

(* No step of a request breaks the types or what is in its hands.          *)
LEMMA TypeInvStep == TypeInv /\ [Next]_vars => TypeInv'
<1> SUFFICES ASSUME TypeInv, [Next]_vars PROVE TypeInv'
  OBVIOUS
<1> USE DEF TypeInv, TypeOK, InHand, Pcs, Exists, SubjectPcs, CopyPcs, Writing,
            UserRow, NoRow, None, Session
<1>1. ASSUME NEW r \in Requests, NEW n \in Names, CreateCheck(r, n) PROVE TypeInv'
  BY <1>1 DEF CreateCheck, Enter, NewUser, Status
<1>2. ASSUME NEW r \in Requests, NEW u \in Users, CreateRecheck(r, u) PROVE TypeInv'
  BY <1>2 DEF CreateRecheck, Enter, NewUser, NewHash, Status
<1>3. ASSUME NEW r \in Requests, NEW u \in Users, ResetCheck(r, u) PROVE TypeInv'
  BY <1>3 DEF ResetCheck, Enter
<1>4. ASSUME NEW r \in Requests, NEW u \in Users, NEW n \in Names,
             UpdateRead(r, u, n) PROVE TypeInv'
  BY <1>4 DEF UpdateRead, Enter
<1>5. ASSUME NEW r \in Requests, NEW u \in Users, NEW st \in Status,
             StatusRead(r, u, st) PROVE TypeInv'
  BY <1>5 DEF StatusRead, Enter, Status
<1>6. ASSUME NEW r \in Requests, CreateInsert(r) PROVE TypeInv'
  BY <1>6 DEF CreateInsert, Leave
<1>7. ASSUME NEW r \in Requests, UpdateWrite(r) PROVE TypeInv'
  BY <1>7 DEF UpdateWrite, Leave, WriteRow, Matches
<1>8. ASSUME NEW r \in Requests, EnableWrite(r) PROVE TypeInv'
  BY <1>8 DEF EnableWrite, Leave, WriteRow, Matches
<1>9. ASSUME NEW r \in Requests, ResetRead(r) PROVE TypeInv'
  BY <1>9 DEF ResetRead, Enter, NewHash
<1>10. ASSUME NEW r \in Requests, RevokeExecute(r) PROVE TypeInv'
  BY <1>10 DEF RevokeExecute, Matches, SessionsOf
<1>11. ASSUME NEW r \in Requests, RevokeCommit(r) PROVE TypeInv'
  BY <1>11 DEF RevokeCommit, Leave, WriteRow
<1>12. ASSUME NEW r \in Requests, NEW u \in Users, LoginLookup(r, u) PROVE TypeInv'
  BY <1>12 DEF LoginLookup, Enter
<1>13. ASSUME NEW r \in Requests, LoginReread(r) PROVE TypeInv'
  BY <1>13 DEF LoginReread, SameAccount
<1>14. ASSUME NEW r \in Requests, LoginInsert(r) PROVE TypeInv'
  <2>1. tokens + 1 \in 1..MaxTokens /\ subject[r] \in Users /\ copy[r].hash \in 0..MaxHashes
    BY <1>14 DEF LoginInsert
  <2>2. [token |-> tokens + 1, user |-> subject[r], hash |-> copy[r].hash,
         expired |-> FALSE, raced |-> r \in raced] \in Session
    <3> DEFINE b == r \in raced
    <3> b \in BOOLEAN
      OBVIOUS
    <3> HIDE DEF b, Session
    <3>1. [token |-> tokens + 1, user |-> subject[r], hash |-> copy[r].hash,
           expired |-> FALSE, raced |-> b] \in Session
      BY <2>1, SessionRecord
    <3> QED
      BY <3>1 DEF b
  <2>3. sessions' \in SUBSET Session
    BY <1>14, <2>2 DEF LoginInsert, Live
  <2>4. TypeOK' /\ InHand'
    BY <1>14, <2>3 DEF LoginInsert, Leave
  <2> QED
    BY <1>14, <2>4 DEF LoginInsert
<1>15. ASSUME NEW r \in Requests, Abandon(r) PROVE TypeInv'
  BY <1>15 DEF Abandon, Leave
<1>16. ASSUME NEW u \in Users, Delete(u) PROVE TypeInv'
  BY <1>16 DEF Delete, SessionsOf
<1>17. ASSUME NEW s \in sessions, Logout(s) PROVE TypeInv'
  BY <1>17 DEF Logout
<1>18. ASSUME NEW s \in sessions, Expire(s) PROVE TypeInv'
  BY <1>18 DEF Expire
<1>19. CASE CleanupExpired
  BY <1>19 DEF CleanupExpired, Live
<1>20. CASE UNCHANGED vars
  BY <1>20 DEF vars
<1> QED
  BY <1>1, <1>2, <1>3, <1>4, <1>5, <1>6, <1>7, <1>8, <1>9, <1>10,
     <1>11, <1>12, <1>13, <1>14, <1>15, <1>16, <1>17, <1>18, <1>19, <1>20
     DEF Next, UserStep, LoginStep

-----------------------------------------------------------------------------
(* Rows.                                                                   *)

(* No statement breaks what the version in WHERE guarantees.               *)
LEMMA RowInvStep == TypeInv /\ RowInv /\ [Next]_vars => RowInv'
<1> SUFFICES ASSUME TypeInv, RowInv, [Next]_vars PROVE RowInv'
  OBVIOUS
<1> USE DEF TypeInv, TypeOK, InHand, Pcs, Exists, SubjectPcs, CopyPcs, Writing,
            UserRow, NoRow, None, RowInv, NewIds, Current, Staged
<1>1. ASSUME NEW r \in Requests, NEW n \in Names, CreateCheck(r, n) PROVE RowInv'
  BY <1>1 DEF CreateCheck, Enter, NewUser
<1>2. ASSUME NEW r \in Requests, NEW u \in Users, CreateRecheck(r, u) PROVE RowInv'
  BY <1>2 DEF CreateRecheck, Enter, NewUser, NewHash
<1>3. ASSUME NEW r \in Requests, NEW u \in Users, ResetCheck(r, u) PROVE RowInv'
  BY <1>3 DEF ResetCheck, Enter
<1>4. ASSUME NEW r \in Requests, NEW u \in Users, NEW n \in Names,
             UpdateRead(r, u, n) PROVE RowInv'
  BY <1>4 DEF UpdateRead, Enter
<1>5. ASSUME NEW r \in Requests, NEW u \in Users, NEW st \in Status,
             StatusRead(r, u, st) PROVE RowInv'
  BY <1>5 DEF StatusRead, Enter
<1>6. ASSUME NEW r \in Requests, CreateInsert(r) PROVE RowInv'
  <2>1. NewIds'
    BY <1>6 DEF CreateInsert, Leave
  <2>2. Current'
    BY <1>6 DEF CreateInsert, Leave
  <2>3. Staged'
    BY <1>6 DEF CreateInsert, Leave
  <2> QED
    BY <2>1, <2>2, <2>3
<1>7. ASSUME NEW r \in Requests, UpdateWrite(r) PROVE RowInv'
  <2>1. NewIds'
    BY <1>7 DEF UpdateWrite, Leave, WriteRow, Matches, Locked
  <2>2. Current'
    BY <1>7 DEF UpdateWrite, Leave, WriteRow, Matches, Locked
  <2>3. Staged'
    BY <1>7 DEF UpdateWrite, Leave, WriteRow, Matches, Locked
  <2> QED
    BY <2>1, <2>2, <2>3
<1>8. ASSUME NEW r \in Requests, EnableWrite(r) PROVE RowInv'
  <2>1. NewIds'
    BY <1>8 DEF EnableWrite, Leave, WriteRow, Matches, Locked
  <2>2. Current'
    BY <1>8 DEF EnableWrite, Leave, WriteRow, Matches, Locked
  <2>3. Staged'
    BY <1>8 DEF EnableWrite, Leave, WriteRow, Matches, Locked
  <2> QED
    BY <2>1, <2>2, <2>3
<1>9. ASSUME NEW r \in Requests, ResetRead(r) PROVE RowInv'
  BY <1>9 DEF ResetRead, Enter, NewHash
<1>10. ASSUME NEW r \in Requests, RevokeExecute(r) PROVE RowInv'
  <2>1. NewIds'
    BY <1>10 DEF RevokeExecute, Matches, Locked
  <2>2. Current'
    BY <1>10 DEF RevokeExecute, Matches, Locked
  <2>3. Staged'
    BY <1>10 DEF RevokeExecute, Matches, Locked
  <2> QED
    BY <2>1, <2>2, <2>3
<1>11. ASSUME NEW r \in Requests, RevokeCommit(r) PROVE RowInv'
  <2>1. NewIds'
    BY <1>11 DEF RevokeCommit, Leave, WriteRow
  <2>2. Current'
    BY <1>11 DEF RevokeCommit, Leave, WriteRow
  <2>3. Staged'
    BY <1>11 DEF RevokeCommit, Leave, WriteRow
  <2> QED
    BY <2>1, <2>2, <2>3
<1>12. ASSUME NEW r \in Requests, NEW u \in Users, LoginLookup(r, u) PROVE RowInv'
  BY <1>12 DEF LoginLookup, Enter
<1>13. ASSUME NEW r \in Requests, LoginReread(r) PROVE RowInv'
  BY <1>13 DEF LoginReread
<1>14. ASSUME NEW r \in Requests, LoginInsert(r) PROVE RowInv'
  BY <1>14 DEF LoginInsert, Leave
<1>15. ASSUME NEW r \in Requests, Abandon(r) PROVE RowInv'
  BY <1>15 DEF Abandon, Leave
<1>16. ASSUME NEW u \in Users, Delete(u) PROVE RowInv'
  BY <1>16 DEF Delete, Locked
<1>17. ASSUME NEW s \in sessions, Logout(s) PROVE RowInv'
  BY <1>17 DEF Logout
<1>18. ASSUME NEW s \in sessions, Expire(s) PROVE RowInv'
  BY <1>18 DEF Expire
<1>19. CASE CleanupExpired
  BY <1>19 DEF CleanupExpired
<1>20. CASE UNCHANGED vars
  BY <1>20 DEF vars
<1> QED
  BY <1>1, <1>2, <1>3, <1>4, <1>5, <1>6, <1>7, <1>8, <1>9, <1>10,
     <1>11, <1>12, <1>13, <1>14, <1>15, <1>16, <1>17, <1>18, <1>19, <1>20
     DEF Next, UserStep, LoginStep

-----------------------------------------------------------------------------
(* Sessions.                                                               *)

(* No step leaves a session that RevokedUnlessRacing forbids.              *)
LEMMA SessionInvStep == TypeInv /\ RowInv /\ SessionInv /\ [Next]_vars => SessionInv'
<1> SUFFICES ASSUME TypeInv, RowInv, SessionInv, [Next]_vars PROVE SessionInv'
  OBVIOUS
<1> USE DEF TypeInv, TypeOK, InHand, Pcs, Exists, SubjectPcs, CopyPcs, Writing, Session, Locked,
            UserRow, NoRow, None, RowInv, NewIds, Current, Staged,
            SessionInv, NoOrphanSession, RevokedUnlessRacing, Accepted, Missed
<1>1. ASSUME NEW r \in Requests, NEW n \in Names, CreateCheck(r, n) PROVE SessionInv'
  BY <1>1 DEF CreateCheck, Enter, NewUser
<1>2. ASSUME NEW r \in Requests, NEW u \in Users, CreateRecheck(r, u) PROVE SessionInv'
  BY <1>2 DEF CreateRecheck, Enter, NewUser, NewHash
<1>3. ASSUME NEW r \in Requests, NEW u \in Users, ResetCheck(r, u) PROVE SessionInv'
  BY <1>3 DEF ResetCheck, Enter
<1>4. ASSUME NEW r \in Requests, NEW u \in Users, NEW n \in Names,
             UpdateRead(r, u, n) PROVE SessionInv'
  BY <1>4 DEF UpdateRead, Enter
<1>5. ASSUME NEW r \in Requests, NEW u \in Users, NEW st \in Status,
             StatusRead(r, u, st) PROVE SessionInv'
  BY <1>5 DEF StatusRead, Enter
<1>6. ASSUME NEW r \in Requests, CreateInsert(r) PROVE SessionInv'
  <2>1. NoOrphanSession'
    BY <1>6 DEF CreateInsert, Leave
  <2>2. RevokedUnlessRacing'
    BY <1>6 DEF CreateInsert, Leave
  <2>3. Accepted'
    BY <1>6 DEF CreateInsert, Leave
  <2>4. Missed'
    BY <1>6 DEF CreateInsert, Leave
  <2> QED
    BY <2>1, <2>2, <2>3, <2>4
<1>7. ASSUME NEW r \in Requests, UpdateWrite(r) PROVE SessionInv'
  <2>1. NoOrphanSession'
    BY <1>7 DEF UpdateWrite, Leave, WriteRow, Matches
  <2>2. RevokedUnlessRacing'
    BY <1>7 DEF UpdateWrite, Leave, WriteRow, Matches
  <2>3. Accepted'
    BY <1>7 DEF UpdateWrite, Leave, WriteRow, Matches
  <2>4. Missed'
    BY <1>7 DEF UpdateWrite, Leave, WriteRow, Matches
  <2> QED
    BY <2>1, <2>2, <2>3, <2>4
<1>8. ASSUME NEW r \in Requests, EnableWrite(r) PROVE SessionInv'
  <2>1. NoOrphanSession'
    BY <1>8 DEF EnableWrite, Leave, WriteRow, Matches
  <2>2. RevokedUnlessRacing'
    BY <1>8 DEF EnableWrite, Leave, WriteRow, Matches
  <2>3. Accepted'
    BY <1>8 DEF EnableWrite, Leave, WriteRow, Matches
  <2>4. Missed'
    BY <1>8 DEF EnableWrite, Leave, WriteRow, Matches
  <2> QED
    BY <2>1, <2>2, <2>3, <2>4
<1>9. ASSUME NEW r \in Requests, ResetRead(r) PROVE SessionInv'
  BY <1>9 DEF ResetRead, Enter, NewHash
<1>10. ASSUME NEW r \in Requests, RevokeExecute(r) PROVE SessionInv'
  <2>1. NoOrphanSession'
    BY <1>10 DEF RevokeExecute, Matches, SessionsOf
  <2>2. RevokedUnlessRacing'
    BY <1>10 DEF RevokeExecute, Matches, SessionsOf
  <2>3. Accepted'
    BY <1>10 DEF RevokeExecute, Matches, SessionsOf
  <2>4. Missed'
    BY <1>10 DEF RevokeExecute, Matches, SessionsOf
  <2> QED
    BY <2>1, <2>2, <2>3, <2>4
<1>11. ASSUME NEW r \in Requests, RevokeCommit(r) PROVE SessionInv'
  <2>1. NoOrphanSession'
    BY <1>11 DEF RevokeCommit, Leave, WriteRow
  <2>2. RevokedUnlessRacing'
    BY <1>11 DEF RevokeCommit, Leave, WriteRow
  <2>3. Accepted'
    BY <1>11 DEF RevokeCommit, Leave, WriteRow
  <2>4. Missed'
    BY <1>11 DEF RevokeCommit, Leave, WriteRow
  <2> QED
    BY <2>1, <2>2, <2>3, <2>4
<1>12. ASSUME NEW r \in Requests, NEW u \in Users, LoginLookup(r, u) PROVE SessionInv'
  BY <1>12 DEF LoginLookup, Enter
<1>13. ASSUME NEW r \in Requests, LoginReread(r) PROVE SessionInv'
  <2>1. NoOrphanSession'
    BY <1>13 DEF LoginReread, SameAccount
  <2>2. RevokedUnlessRacing'
    BY <1>13 DEF LoginReread, SameAccount
  <2>3. Accepted'
    BY <1>13 DEF LoginReread, SameAccount
  <2>4. Missed'
    BY <1>13 DEF LoginReread, SameAccount
  <2> QED
    BY <2>1, <2>2, <2>3, <2>4
<1>14. ASSUME NEW r \in Requests, LoginInsert(r) PROVE SessionInv'
  <2> DEFINE b == r \in raced
             new == [token |-> tokens + 1, user |-> subject[r], hash |-> copy[r].hash,
                     expired |-> FALSE, raced |-> b]
  <2>1. sessions' = Live(sessions) \cup {new}
    BY <1>14 DEF LoginInsert
  <2>2. b <=> r \in raced
    OBVIOUS
  <2> HIDE DEF b
  <2>3. /\ new.user = subject[r] /\ new.hash = copy[r].hash /\ new.token = tokens + 1
        /\ new.raced = b
    OBVIOUS
  <2> HIDE DEF new
  <2>4. NoOrphanSession'
    BY <1>14, <2>1, <2>3 DEF LoginInsert, Leave, Live
  <2>5. RevokedUnlessRacing'
    BY <1>14, <2>1, <2>2, <2>3 DEF LoginInsert, Leave, Live
  <2>6. Accepted'
    BY <1>14 DEF LoginInsert, Leave
  <2>7. Missed'
    BY <1>14, <2>1, <2>2, <2>3 DEF LoginInsert, Leave, Live
  <2> QED
    BY <2>4, <2>5, <2>6, <2>7
<1>15. ASSUME NEW r \in Requests, Abandon(r) PROVE SessionInv'
  BY <1>15 DEF Abandon, Leave
<1>16. ASSUME NEW u \in Users, Delete(u) PROVE SessionInv'
  BY <1>16 DEF Delete, SessionsOf
<1>17. ASSUME NEW s \in sessions, Logout(s) PROVE SessionInv'
  BY <1>17 DEF Logout
<1>18. ASSUME NEW s \in sessions, Expire(s) PROVE SessionInv'
  <2>1. \A k \in sessions' : k \in sessions \/ (k.expired /\ k.user = s.user /\ k.token = s.token)
    BY <1>18 DEF Expire
  <2>2. sessions' = (sessions \ {s}) \cup {[s EXCEPT !.expired = TRUE]}
    BY <1>18 DEF Expire
  <2>3. NoOrphanSession'
    BY <1>18, <2>1 DEF Expire
  <2>4. RevokedUnlessRacing'
    BY <1>18, <2>1 DEF Expire
  <2>5. Accepted'
    BY <1>18, <2>1 DEF Expire
  <2>6. Missed'
    BY <1>18, <2>1, <2>2 DEF Expire
  <2> QED BY <2>3, <2>4, <2>5, <2>6
<1>19. ASSUME CleanupExpired PROVE SessionInv'
  BY <1>19 DEF CleanupExpired, Live
<1>20. ASSUME UNCHANGED vars PROVE SessionInv'
  BY <1>20 DEF vars
<1> QED
  BY <1>1, <1>2, <1>3, <1>4, <1>5, <1>6, <1>7, <1>8, <1>9, <1>10,
     <1>11, <1>12, <1>13, <1>14, <1>15, <1>16, <1>17, <1>18, <1>19, <1>20
     DEF Next, UserStep, LoginStep

-----------------------------------------------------------------------------
(* Names and columns.                                                      *)

(* The steps that change a row of "users".                                 *)
LEMMA RowWriters ==
  ASSUME [Next]_vars
  PROVE  \/ row' = row
         \/ \E r \in Requests : CreateInsert(r) \/ UpdateWrite(r) \/ EnableWrite(r) \/ RevokeCommit(r)
         \/ \E u \in Users : Delete(u)
BY DEF Next, vars, UserStep, LoginStep, CreateCheck, CreateRecheck, ResetCheck, UpdateRead,
       StatusRead, ResetRead, RevokeExecute, LoginLookup, LoginReread, LoginInsert, Abandon,
       Logout, Expire, CleanupExpired

(* The unique index, and nothing but it, keeps names apart.                *)
LEMMA UniqueNamesStep == TypeInv /\ RowInv /\ UniqueNames /\ [Next]_vars => UniqueNames'
<1> SUFFICES ASSUME TypeInv, RowInv, UniqueNames, [Next]_vars PROVE UniqueNames'
  OBVIOUS
<1> USE DEF TypeInv, TypeOK, InHand, Exists, SubjectPcs, CopyPcs, Writing,
            UserRow, NoRow, None, RowInv, Current, Staged, UniqueNames
<1>1. CASE row' = row
  BY <1>1
<1>2. ASSUME NEW r \in Requests, CreateInsert(r) PROVE UniqueNames'
  BY <1>2 DEF CreateInsert, NameFree, TakenByOther
<1>3. ASSUME NEW r \in Requests, UpdateWrite(r) PROVE UniqueNames'
  BY <1>3 DEF UpdateWrite, WriteRow, Matches, NameFree, TakenByOther
<1>4. ASSUME NEW r \in Requests, EnableWrite(r) PROVE UniqueNames'
  BY <1>4 DEF EnableWrite, WriteRow, Matches
<1>5. ASSUME NEW r \in Requests, RevokeCommit(r) PROVE UniqueNames'
  BY <1>5 DEF RevokeCommit, WriteRow
<1>6. ASSUME NEW u \in Users, Delete(u) PROVE UniqueNames'
  BY <1>6 DEF Delete
<1> QED
  BY <1>1, <1>2, <1>3, <1>4, <1>5, <1>6, RowWriters

(* A row goes from old to new by a change of one column.                   *)
OneColumn(old, new) ==
  /\ new.version = old.version + 1
  /\ \/ new.hash = old.hash /\ new.status = old.status
     \/ new.hash = old.hash /\ new.name = old.name
     \/ new.status = old.status /\ new.name = old.name

(* A write of a whole aggregate changes the one column it is about.        *)
LEMMA OneColumnStep ==
  ASSUME TypeInv, RowInv, [Next]_vars, NEW u \in Users,
         row[u] # NoRow, row'[u] # NoRow, row'[u] # row[u]
  PROVE  OneColumn(row[u], row'[u])
<1> USE DEF TypeInv, TypeOK, InHand, Exists, SubjectPcs, CopyPcs, Writing,
            UserRow, NoRow, None, RowInv, NewIds, Current, Staged, OneColumn
<1>1. ASSUME NEW r \in Requests, CreateInsert(r) PROVE FALSE
  BY <1>1 DEF CreateInsert
<1>2. ASSUME NEW r \in Requests, UpdateWrite(r) PROVE OneColumn(row[u], row'[u])
  BY <1>2 DEF UpdateWrite, WriteRow, Matches
<1>3. ASSUME NEW r \in Requests, EnableWrite(r) PROVE OneColumn(row[u], row'[u])
  BY <1>3 DEF EnableWrite, WriteRow, Matches
<1>4. ASSUME NEW r \in Requests, RevokeCommit(r) PROVE OneColumn(row[u], row'[u])
  BY <1>4 DEF RevokeCommit, WriteRow
<1>5. ASSUME NEW v \in Users, Delete(v) PROVE FALSE
  BY <1>5 DEF Delete
<1> QED
  BY <1>1, <1>2, <1>3, <1>4, <1>5, RowWriters

-----------------------------------------------------------------------------
(* Theorems.                                                               *)

(* All of it holds of the empty tables.                                    *)
LEMMA InitInv == Init => RowInv /\ SessionInv /\ UniqueNames
BY DEF Init, RowInv, NewIds, Current, Staged, SessionInv, NoOrphanSession, RevokedUnlessRacing,
       Accepted, Missed, UniqueNames, Exists, Writing

(* Every variable keeps its type, so every request past its first          *)
(* transaction has a well-formed aggregate of a user whose id was given    *)
(* out.                                                                    *)
THEOREM AccountsTypeCorrect == Spec => []TypeOK
<1>1. Spec => []TypeInv
  BY InitTypeInv, TypeInvStep, PTL DEF Spec
<1> QED
  BY <1>1, PTL DEF TypeInv

(* The invariants behind the theorems, together.                           *)
LEMMA AccountsInvariant == Spec => []TypeInv /\ []RowInv /\ []SessionInv
<1>1. Spec => []TypeInv
  BY InitTypeInv, TypeInvStep, PTL DEF Spec
<1>2. Spec => []RowInv
  BY <1>1, InitInv, RowInvStep, PTL DEF Spec
<1>3. Spec => []SessionInv
  BY <1>1, <1>2, InitInv, SessionInvStep, PTL DEF Spec
<1> QED
  BY <1>1, <1>2, <1>3, PTL

(* No two users have one name: the constraint covers INSERT and renaming,  *)
(* and the writers of other columns write back the name the row still has. *)
THEOREM NamesUnique == Spec => []UniqueNames
BY AccountsInvariant, InitInv, UniqueNamesStep, PTL DEF Spec

(* No write undoes a concurrent one: the version in the WHERE clause makes *)
(* an aggregate that is written agree with its row in every column but the *)
(* changed one.                                                            *)
THEOREM UpdatesNotLost == Spec => NoLostUpdate
<1>1. TypeInv /\ RowInv /\ [Next]_vars =>
        [\A u \in Users :
           LET old == row[u]
               new == row'[u]
           IN  old # NoRow /\ new # NoRow /\ new # old =>
                 /\ new.version = old.version + 1
                 /\ \/ new.hash = old.hash /\ new.status = old.status
                    \/ new.hash = old.hash /\ new.name = old.name
                    \/ new.status = old.status /\ new.name = old.name]_vars
  BY OneColumnStep DEF OneColumn
<1> QED
  BY <1>1, AccountsInvariant, PTL DEF Spec, NoLostUpdate

(* Sessions belong to existing users.                                      *)
THEOREM SessionsHaveUsers == Spec => []NoOrphanSession
BY AccountsInvariant, PTL DEF SessionInv

(* Disabling and resetting end all sessions but those of logins that       *)
(* overlap with them.                                                      *)
THEOREM RevocationEndsSessions == Spec => []RevokedUnlessRacing
BY AccountsInvariant, PTL DEF SessionInv
=============================================================================
