------------------------------ MODULE Accounts ------------------------------
(***************************************************************************)
(* Users and their login sessions in the database, under concurrent HTTP   *)
(* requests: UserApplicationService and AuthenticationApplicationService   *)
(* (contexts/user/application), their repositories and unit of work        *)
(* (contexts/user/infrastructure/persistence).                             *)
(*                                                                         *)
(* A use case is one or two transactions with a slow password hash between *)
(* them.  A transaction is the step in which it reads the committed tables *)
(* (READ COMMITTED, the weakest isolation the code may run under) and the  *)
(* step in which it writes and commits.  A transaction that both changes a *)
(* row and deletes its sessions is split once more, because a login may    *)
(* commit between its DELETE and its COMMIT.                               *)
(*                                                                         *)
(* The e-mail address is a second unique column, handled like the user     *)
(* name; it is left out.  A salted hash is a number of its own, so that    *)
(* equal passwords have different hashes.                                  *)
(***************************************************************************)
EXTENDS Naturals, FiniteSets

CONSTANTS Users,       \* user ids that new_user_id may return, never reused
          Names,       \* normalised user names
          Requests,    \* concurrent requests; an idle one may be used again
          MaxHashes,   \* bound: password hashes computed
          MaxVersion,  \* bound: version of a row
          MaxTokens    \* bound: session tokens issued

ASSUME NoneIsNoId == "none" \notin Users \cup Names
ASSUME AccountBounds == MaxHashes \in Nat /\ MaxVersion \in Nat \ {0} /\ MaxTokens \in Nat

VARIABLES
  row,       \* row[u]: the committed row of u in "users", or NoRow
  born,      \* ids that have been given out
  sessions,  \* the committed rows of "user_sessions"
  pc,        \* pc[r]: the await at which request r is
  subject,   \* subject[r]: the id of the user r works on
  copy,      \* copy[r]: r's aggregate, at the version it was read
  doomed,    \* doomed[r]: tokens r has deleted but not yet committed
  hashes,    \* hashes computed so far
  tokens,    \* tokens issued so far
  raced      \* history: logins whose second transaction overlaps with a
             \* transaction that is revoking the user's sessions

vars == <<row, born, sessions, pc, subject, copy, doomed, hashes, tokens, raced>>

Status  == {"active", "disabled"}
UserRow == [name: Names, hash: 0..MaxHashes, status: Status, version: 0..MaxVersion]
None    == "none"
NoRow   == [name |-> None, hash |-> 0, status |-> None, version |-> 0]

(* A login session.  hash is the hash its password was verified against    *)
(* and raced the login's history; neither is a column.                     *)
Session == [token: 1..MaxTokens, user: Users, hash: 0..MaxHashes,
            expired: BOOLEAN, raced: BOOLEAN]

(* Where a request is:                                                     *)
(*   hashing   create: first uniqueness check passed, hashing              *)
(*   insert    create: second check passed, about to INSERT                *)
(*   profile   update: row read and changed, about to UPDATE               *)
(*   status    change_status: the same                                     *)
(*   rehash    reset_password: the user exists, hashing                    *)
(*   reset     reset_password: row read and changed, about to UPDATE       *)
(*   revoke    UPDATE and DELETE of the sessions executed, not committed   *)
(*   verify    login: snapshot read, verifying the password                *)
(*   session   login: row read again and accepted, about to INSERT         *)
Pcs == {"idle", "hashing", "insert", "profile", "status", "rehash", "reset",
        "revoke", "verify", "session"}

TypeOK ==
  /\ row \in [Users -> UserRow \cup {NoRow}]
  /\ born \in SUBSET Users
  /\ sessions \in SUBSET Session
  /\ pc \in [Requests -> Pcs]
  /\ subject \in [Requests -> Users \cup {None}]
  /\ copy \in [Requests -> UserRow \cup {NoRow}]
  /\ doomed \in [Requests -> SUBSET (1..MaxTokens)]
  /\ hashes \in 0..MaxHashes
  /\ tokens \in 0..MaxTokens
  /\ raced \in SUBSET Requests

Init ==
  /\ row = [u \in Users |-> NoRow]
  /\ born = {} /\ sessions = {}
  /\ pc = [r \in Requests |-> "idle"]
  /\ subject = [r \in Requests |-> None]
  /\ copy = [r \in Requests |-> NoRow]
  /\ doomed = [r \in Requests |-> {}]
  /\ hashes = 0 /\ tokens = 0 /\ raced = {}

-----------------------------------------------------------------------------
(* Repositories.                                                           *)

Exists(u) == row[u] # NoRow

(* exists_by_username, with the row of u excluded.                         *)
TakenByOther(n, u) == \E v \in Users \ {u} : Exists(v) /\ row[v].name = n

(* u's row is locked by an uncommitted UPDATE; other writers of it wait.   *)
Locked(u) == \E r \in Requests : pc[r] = "revoke" /\ subject[r] = u

SessionsOf(u) == {s \in sessions : s.user = u}

Live(ss) == {s \in ss : ~s.expired}

(* Mutant: UPDATE without the version in its WHERE clause.                 *)
MatchesId(r) == Exists(subject[r]) /\ ~Locked(subject[r])

(* The WHERE clause of SqlAlchemyUserRepository.update matches one row.    *)
Matches(r) == /\ Exists(subject[r]) /\ ~Locked(subject[r])
              /\ row[subject[r]].version = copy[r].version

(* user_update_values: every column of the aggregate, the next version.    *)
WriteRow(r) ==
  /\ copy[r].version < MaxVersion
  /\ row' = [row EXCEPT ![subject[r]] = [copy[r] EXCEPT !.version = @ + 1]]

(* The unique constraint on users.username.                                *)
NameFree(r) == ~TakenByOther(copy[r].name, subject[r])

-----------------------------------------------------------------------------
(* Building blocks.                                                        *)

(* The use case is left; its aggregate and open transaction are gone.      *)
Leave(r) == /\ pc' = [pc EXCEPT ![r] = "idle"]
            /\ subject' = [subject EXCEPT ![r] = None]
            /\ copy' = [copy EXCEPT ![r] = NoRow]
            /\ doomed' = [doomed EXCEPT ![r] = {}]
            /\ raced' = raced \ {r}

(* The use case goes on with user u and aggregate c.                       *)
Enter(r, where, u, c) == /\ pc' = [pc EXCEPT ![r] = where]
                         /\ subject' = [subject EXCEPT ![r] = u]
                         /\ copy' = [copy EXCEPT ![r] = c]

NewHash == hashes < MaxHashes /\ hashes' = hashes + 1

(* An error ends the use case and __aexit__ rolls back: user not found,    *)
(* name taken, version conflict, unique or foreign key violation, refused  *)
(* credentials, failed login counter, driver error, cancelled request.     *)
Abandon(r) ==
  /\ pc[r] # "idle"
  /\ Leave(r)
  /\ UNCHANGED <<row, born, sessions, hashes, tokens>>

-----------------------------------------------------------------------------
(* UserApplicationService.create                                           *)

(* User.create: enabled, at version 1.                                     *)
NewUser(n, h) == [name |-> n, hash |-> h, status |-> "active", version |-> 1]

(* First transaction: the name is free; then hash the password.            *)
CreateCheck(r, n) ==
  /\ pc[r] = "idle"
  /\ \A u \in Users : ~(Exists(u) /\ row[u].name = n)
  /\ Enter(r, "hashing", None, NewUser(n, 0))
  /\ UNCHANGED <<row, born, sessions, doomed, hashes, tokens, raced>>

(* Second transaction: build the aggregate and check again.                *)
CreateRecheck(r, u) ==
  /\ pc[r] = "hashing" /\ u \notin born
  /\ NewHash
  /\ ~TakenByOther(copy[r].name, u)
  /\ born' = born \cup {u}
  /\ Enter(r, "insert", u, NewUser(copy[r].name, hashes + 1))
  /\ UNCHANGED <<row, sessions, doomed, tokens, raced>>

(* Mutant: INSERT without the unique constraint.                           *)
CreateInsertBlind(r) ==
  /\ pc[r] = "insert"
  /\ row' = [row EXCEPT ![subject[r]] = copy[r]]
  /\ Leave(r)
  /\ UNCHANGED <<born, sessions, hashes, tokens>>

(* INSERT and COMMIT.                                                      *)
CreateInsert(r) ==
  /\ pc[r] = "insert" /\ NameFree(r)
  /\ row' = [row EXCEPT ![subject[r]] = copy[r]]
  /\ Leave(r)
  /\ UNCHANGED <<born, sessions, hashes, tokens>>

-----------------------------------------------------------------------------
(* UserApplicationService.update, change_status, reset_password, delete    *)

UpdateRead(r, u, n) ==
  /\ pc[r] = "idle" /\ Exists(u)
  /\ ~TakenByOther(n, u)
  /\ Enter(r, "profile", u, [row[u] EXCEPT !.name = n])
  /\ UNCHANGED <<row, born, sessions, doomed, hashes, tokens, raced>>

UpdateWrite(r) ==
  /\ pc[r] = "profile" /\ Matches(r) /\ NameFree(r)
  /\ WriteRow(r)
  /\ Leave(r)
  /\ UNCHANGED <<born, sessions, hashes, tokens>>

StatusRead(r, u, st) ==
  /\ pc[r] = "idle" /\ Exists(u)
  /\ Enter(r, "status", u, [row[u] EXCEPT !.status = st])
  /\ UNCHANGED <<row, born, sessions, doomed, hashes, tokens, raced>>

(* Enabling an account leaves the sessions alone.                          *)
EnableWrite(r) ==
  /\ pc[r] = "status" /\ copy[r].status = "active" /\ Matches(r)
  /\ WriteRow(r)
  /\ Leave(r)
  /\ UNCHANGED <<born, sessions, hashes, tokens>>

(* First transaction: the user exists; then hash the new password.         *)
ResetCheck(r, u) ==
  /\ pc[r] = "idle" /\ Exists(u)
  /\ Enter(r, "rehash", u, NoRow)
  /\ UNCHANGED <<row, born, sessions, doomed, hashes, tokens, raced>>

(* Second transaction: read the user again.                                *)
ResetRead(r) ==
  /\ pc[r] = "rehash" /\ Exists(subject[r])
  /\ NewHash
  /\ Enter(r, "reset", subject[r], [row[subject[r]] EXCEPT !.hash = hashes + 1])
  /\ UNCHANGED <<row, born, sessions, doomed, tokens, raced>>

(* Disabling and resetting: UPDATE, then remove_for_user deletes the       *)
(* sessions committed by now.  The row stays locked until COMMIT.          *)
RevokeExecute(r) ==
  /\ \/ pc[r] = "status" /\ copy[r].status = "disabled"
     \/ pc[r] = "reset"
  /\ Matches(r)
  /\ copy[r].version < MaxVersion
  /\ pc' = [pc EXCEPT ![r] = "revoke"]
  /\ doomed' = [doomed EXCEPT ![r] = {s.token : s \in SessionsOf(subject[r])}]
  /\ raced' = raced \cup {q \in Requests : pc[q] = "session" /\ subject[q] = subject[r]}
  /\ UNCHANGED <<row, born, sessions, subject, copy, hashes, tokens>>

RevokeCommit(r) ==
  /\ pc[r] = "revoke"
  /\ WriteRow(r)
  /\ sessions' = {s \in sessions : s.token \notin doomed[r]}
  /\ Leave(r)
  /\ UNCHANGED <<born, hashes, tokens>>

(* DELETE and COMMIT; the foreign key cascades to the sessions.            *)
Delete(u) ==
  /\ Exists(u) /\ ~Locked(u)
  /\ row' = [row EXCEPT ![u] = NoRow]
  /\ sessions' = sessions \ SessionsOf(u)
  /\ UNCHANGED <<born, pc, subject, copy, doomed, hashes, tokens, raced>>

-----------------------------------------------------------------------------
(* AuthenticationApplicationService                                        *)

(* First transaction of login: a snapshot of the account of that name.     *)
LoginLookup(r, u) ==
  /\ pc[r] = "idle" /\ Exists(u)
  /\ Enter(r, "verify", u, row[u])
  /\ UNCHANGED <<row, born, sessions, doomed, hashes, tokens, raced>>

(* Mutant: the hash is not compared with the snapshot's.                   *)
SameAccountAnyHash(c, s) == c.status = "active" /\ c.name = s.name

(* Account c, read again, is still the verified snapshot s.                *)
SameAccount(c, s) == c.status = "active" /\ c.hash = s.hash /\ c.name = s.name

(* The password is the snapshot's (a wrong one Abandons the login).        *)
(* Second transaction: read the account again and compare.                 *)
LoginReread(r) ==
  /\ pc[r] = "verify" /\ copy[r].status = "active"
  /\ Exists(subject[r]) /\ SameAccount(row[subject[r]], copy[r])
  /\ pc' = [pc EXCEPT ![r] = "session"]
  /\ raced' = IF Locked(subject[r]) THEN raced \cup {r} ELSE raced
  /\ UNCHANGED <<row, born, sessions, subject, copy, doomed, hashes, tokens>>

(* remove_expired, INSERT of the new session (the foreign key demands the  *)
(* user, and waits for nothing but a DELETE of it) and COMMIT.             *)
LoginInsert(r) ==
  /\ pc[r] = "session" /\ tokens < MaxTokens
  /\ Exists(subject[r])
  /\ tokens' = tokens + 1
  /\ sessions' = Live(sessions) \cup
       {[token |-> tokens + 1, user |-> subject[r], hash |-> copy[r].hash,
         expired |-> FALSE, raced |-> r \in raced]}
  /\ Leave(r)
  /\ UNCHANGED <<row, born, hashes>>

Logout(s) ==
  /\ sessions' = sessions \ {s}
  /\ UNCHANGED <<row, born, pc, subject, copy, doomed, hashes, tokens, raced>>

CleanupExpired ==
  /\ sessions' = Live(sessions)
  /\ UNCHANGED <<row, born, pc, subject, copy, doomed, hashes, tokens, raced>>

(* The clock reaches expires_at.                                           *)
Expire(s) ==
  /\ ~s.expired
  /\ sessions' = (sessions \ {s}) \cup {[s EXCEPT !.expired = TRUE]}
  /\ UNCHANGED <<row, born, pc, subject, copy, doomed, hashes, tokens, raced>>

(* current_user accepts the token of session s.                            *)
Authenticates(s) == ~s.expired /\ Exists(s.user) /\ row[s.user].status = "active"

-----------------------------------------------------------------------------
UserStep(r) ==
  \/ \E n \in Names : CreateCheck(r, n)
  \/ \E u \in Users : CreateRecheck(r, u) \/ ResetCheck(r, u)
  \/ \E u \in Users, n \in Names : UpdateRead(r, u, n)
  \/ \E u \in Users, st \in Status : StatusRead(r, u, st)
  \/ CreateInsert(r) \/ UpdateWrite(r) \/ EnableWrite(r) \/ ResetRead(r)
  \/ RevokeExecute(r) \/ RevokeCommit(r)

LoginStep(r) ==
  \/ \E u \in Users : LoginLookup(r, u)
  \/ LoginReread(r) \/ LoginInsert(r)

Next ==
  \/ \E r \in Requests : UserStep(r) \/ LoginStep(r) \/ Abandon(r)
  \/ \E u \in Users : Delete(u)
  \/ \E s \in sessions : Logout(s) \/ Expire(s)
  \/ CleanupExpired

Spec == Init /\ [][Next]_vars

-----------------------------------------------------------------------------
(* Properties.                                                             *)

(* No two users have one name, however creations and renamings interleave  *)
(* with their own uniqueness checks.                                       *)
UniqueNames ==
  \A u, v \in Users : u # v /\ Exists(u) /\ Exists(v) => row[u].name # row[v].name

(* A write of the whole aggregate never undoes a concurrent change: a step *)
(* changes at most one of name, status and hash of an existing user, and   *)
(* takes its row to the next version, so a value read before someone       *)
(* else's commit is never written back.                                    *)
NoLostUpdate ==
  [][\A u \in Users :
       LET old == row[u]
           new == row'[u]
       IN  old # NoRow /\ new # NoRow /\ new # old =>
             /\ new.version = old.version + 1
             /\ \/ new.hash = old.hash /\ new.status = old.status
                \/ new.hash = old.hash /\ new.name = old.name
                \/ new.status = old.status /\ new.name = old.name]_vars

(* Every session belongs to an existing user: a login that has accepted a  *)
(* user who is deleted before it commits leaves no session behind.         *)
NoOrphanSession == \A s \in sessions : Exists(s.user)

(* Disabling a user or resetting its password ends every session, but for  *)
(* those of logins whose second transaction overlaps with the revoking     *)
(* one: any other session belongs to an enabled user and was opened with   *)
(* the password that is still valid, also when the password was reset      *)
(* while the login was verifying the old one.                              *)
RevokedUnlessRacing ==
  \A s \in sessions :
    s.raced \/ (row[s.user].status = "active" /\ row[s.user].hash = s.hash)

(* docs/authentication.md on re-enabling a user: old sessions are not      *)
(* restored, a new login is required.  Violated by a login that commits    *)
(* between the deletion of the sessions and the re-enabling.               *)
ReEnableRestoresNothing ==
  [][\A u \in Users :
       row[u].status = "disabled" /\ row'[u].status = "active" =>
         \A s \in SessionsOf(u) : ~Authenticates(s)']_vars
=============================================================================
