---------------------------- MODULE UserAccounts ----------------------------
(***************************************************************************)
(* Registration, update and deletion of users and the credential check of  *)
(* a login: internal/handlers/user_handler.go, UserService and the first   *)
(* half of AuthService.Login over the users table.  Each Proc is a         *)
(* goroutine serving one request.  Hashing and comparing passwords takes   *)
(* long, so a request has two steps: what it does before its last          *)
(* statement, and that statement.                                          *)
(*                                                                         *)
(* A bcrypt hash is the password it was made from.  name behaves like      *)
(* password_hash and is left out.  Reads (get, list) change nothing.       *)
(***************************************************************************)
CONSTANTS Id, Email, Password, Proc, None

Row == [email: Email, hash: Password]

ASSUME NoneAssumption ==
  None \notin Id \cup Email \cup Password \cup Row \cup (Id \X Email \X Password)

\* The fields of an UPDATE; None leaves the column as it is.
Patch == [email: Email \cup {None}, hash: Password \cup {None}]

VARIABLES
  users,     \* the users table: id -> row, or None
  issued,    \* ids ever given to a row (gen_random_uuid is fresh)
  pc,        \* proc -> the statement its request runs next
  job,       \* proc -> the user it is about and the values it will write or has checked
  asked,     \* history: proc -> the patch its client sent
  valid,     \* history: <<id, email, password>> that ever were a row
  session    \* history: <<id, email, password>> of the last login that opened a session

vars == <<users, issued, pc, job, asked, valid, session>>

NoPatch == [email |-> None, hash |-> None]

NoJob == [id |-> None, set |-> NoPatch]

TypeOK ==
  /\ users \in [Id -> Row \cup {None}]
  /\ issued \subseteq Id
  /\ pc \in [Proc -> {"idle", "insert", "update", "open"}]
  /\ job \in [Proc -> [id: Id \cup {None}, set: Patch]]
  /\ asked \in [Proc -> Patch]
  /\ valid \subseteq Id \X Email \X Password
  /\ session \in (Id \X Email \X Password) \cup {None}

Init ==
  /\ users = [i \in Id |-> None]
  /\ issued = {}
  /\ pc = [p \in Proc |-> "idle"]
  /\ job = [p \in Proc |-> NoJob]
  /\ asked = [p \in Proc |-> NoPatch]
  /\ valid = {}
  /\ session = None

-----------------------------------------------------------------------------

Exists == {i \in Id : users[i] # None}

\* The unique index on email: does another row than i have it?
Taken(e, i) == \E k \in Exists \ {i} : users[k].email = e

\* COALESCE($n, column) for every column of a row.
Coalesce(patch, row) ==
  [f \in {"email", "hash"} |-> IF patch[f] = None THEN row[f] ELSE patch[f]]

Begin(p, l, i, patch) ==
  /\ pc[p] = "idle"
  /\ pc' = [pc EXCEPT ![p] = l]
  /\ job' = [job EXCEPT ![p] = [id |-> i, set |-> patch]]

Return(p) ==
  /\ pc' = [pc EXCEPT ![p] = "idle"]
  /\ job' = [job EXCEPT ![p] = NoJob]
  /\ asked' = [asked EXCEPT ![p] = NoPatch]

Write(i, row) ==
  /\ users' = [users EXCEPT ![i] = row]
  /\ valid' = valid \cup {<<i, row.email, row.hash>>}

(* Register: hash the password, then INSERT; 409 if the email is taken. *)

Register(p, e, w) ==
  /\ Begin(p, "insert", None, [email |-> e, hash |-> w])
  /\ UNCHANGED <<users, issued, asked, valid, session>>

Insert(p) ==
  /\ pc[p] = "insert"
  /\ \/ /\ ~Taken(job[p].set.email, None)
        /\ \E i \in Id \ issued : Write(i, job[p].set) /\ issued' = issued \cup {i}
     \/ Taken(job[p].set.email, None) /\ UNCHANGED <<users, issued, valid>>
  /\ Return(p)
  /\ UNCHANGED session

(* Update: the fields the client left out stay NULL up to the UPDATE. *)

\* Mutant: the service reads the row and fills in what the client left out.
UpdateFilled(p, i, patch) ==
  /\ i \in Exists
  /\ Begin(p, "update", i, Coalesce(patch, users[i]))
  /\ asked' = [asked EXCEPT ![p] = patch]
  /\ UNCHANGED <<users, issued, valid, session>>

Update(p, i, patch) ==
  /\ Begin(p, "update", i, patch)
  /\ asked' = [asked EXCEPT ![p] = patch]
  /\ UNCHANGED <<users, issued, valid, session>>

\* Mutant: an UPDATE that finds no row inserts it.
UpsertRow(p) ==
  /\ pc[p] = "update"
  /\ LET i == job[p].id  set == job[p].set IN
       \/ i \in Exists /\ ~Taken(set.email, i) /\ Write(i, Coalesce(set, users[i]))
       \/ i \in issued \ Exists /\ set \in Row /\ ~Taken(set.email, i) /\ Write(i, set)
       \/ UNCHANGED <<users, valid>>
  /\ Return(p)
  /\ UNCHANGED <<issued, session>>

\* Mutant: the columns the client left out are written as NULL.
UpdateRowNulls(p) ==
  /\ pc[p] = "update"
  /\ LET i == job[p].id  set == job[p].set IN
       IF i \in Exists /\ ~Taken(set.email, i)
       THEN Write(i, set)
       ELSE UNCHANGED <<users, valid>>
  /\ Return(p)
  /\ UNCHANGED <<issued, session>>

\* 200 with the row; 404 without one; 409 if the new email is another user's.
UpdateRow(p) ==
  /\ pc[p] = "update"
  /\ LET i == job[p].id  set == job[p].set IN
       IF i \in Exists /\ ~Taken(set.email, i)
       THEN Write(i, Coalesce(set, users[i]))
       ELSE UNCHANGED <<users, valid>>
  /\ Return(p)
  /\ UNCHANGED <<issued, session>>

\* DELETE: 204, whether there was a row or not.
Delete(i) ==
  /\ users' = [users EXCEPT ![i] = None]
  /\ UNCHANGED <<issued, pc, job, asked, valid, session>>

(* Login: GetByEmail, then the comparison with the hash it returned. *)

Login(p, i, w) ==
  /\ i \in Exists
  /\ users[i].hash = w
  /\ Begin(p, "open", i, [email |-> users[i].email, hash |-> w])
  /\ UNCHANGED <<users, issued, asked, valid, session>>

\* Mutant: the session is opened for whoever has the email by now.
OpenSessionByEmail(p) ==
  /\ pc[p] = "open"
  /\ \E i \in Exists :
       /\ users[i].email = job[p].set.email
       /\ session' = <<i, job[p].set.email, job[p].set.hash>>
  /\ Return(p)
  /\ UNCHANGED <<users, issued, valid>>

\* issueRefreshAndAccess with the id of the row: its INSERT needs the user.
OpenSession(p) ==
  /\ pc[p] = "open"
  /\ job[p].id \in Exists
  /\ session' = <<job[p].id, job[p].set.email, job[p].set.hash>>
  /\ Return(p)
  /\ UNCHANGED <<users, issued, valid>>

\* A statement fails, the client is gone or the process dies.
Abandon(p) ==
  /\ pc[p] # "idle"
  /\ Return(p)
  /\ UNCHANGED <<users, issued, valid, session>>

Next ==
  \/ \E p \in Proc, e \in Email, w \in Password : Register(p, e, w)
  \/ \E p \in Proc : Insert(p)
  \/ \E p \in Proc, i \in Id, patch \in Patch : Update(p, i, patch)
  \/ \E p \in Proc : UpdateRow(p)
  \/ \E i \in Id : Delete(i)
  \/ \E p \in Proc, i \in Id, w \in Password : Login(p, i, w)
  \/ \E p \in Proc : OpenSession(p)
  \/ \E p \in Proc : Abandon(p)

Spec == Init /\ [][Next]_vars

-----------------------------------------------------------------------------
(* Properties *)

\* A column of a user changes only to what some request in flight asks for:
\* concurrent updates of different fields do not undo each other
\* (user.sql UpdateUser, UserService.Update).
NoLostUpdate ==
  [][\A i \in Id, f \in {"email", "hash"} :
       i \in Exists /\ users'[i] # None /\ users'[i][f] # users[i][f] =>
         \E p \in Proc : pc[p] = "update" /\ job[p].id = i /\ asked[p][f] = users'[i][f]]_vars

\* A deleted user stays deleted, whatever updates were in flight (ErrNoRows
\* becomes ErrUserNotFound, user_service.go:174-178).
DeletedStaysDeleted ==
  [][\A i \in issued : users[i] = None => users'[i] = None]_vars

\* A login opens a session only for the user whose email and password it was
\* given, also when that user changes or loses the email while bcrypt runs and
\* somebody else takes it (auth_service.go:72-87).
SessionsMatchCredentials == session # None => session \in valid
=============================================================================
