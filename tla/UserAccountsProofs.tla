------------------------- MODULE UserAccountsProofs -------------------------
(* UserAccounts, for any sets of users, emails, passwords and requests. *)
EXTENDS UserAccounts, TLAPS

\* What a request knows before its last statement: whom it writes about, and
\* what it was asked or has checked.
JobsFit ==
  \A p \in Proc :
    /\ pc[p] = "insert" => job[p].set \in Row
    /\ pc[p] = "update" => job[p].id \in Id /\ job[p].set = asked[p]
    /\ pc[p] = "open" => <<job[p].id, job[p].set.email, job[p].set.hash>> \in valid

\* A row has an id that was given out, so that no INSERT gives it again.
RowsAreIssued == Exists \subseteq issued

\* The email and hash that a login reads are remembered as valid.
RowsAreValid == \A i \in Exists : <<i, users[i].email, users[i].hash>> \in valid

AccountInv ==
  /\ TypeOK
  /\ JobsFit
  /\ RowsAreIssued
  /\ RowsAreValid
  /\ SessionsMatchCredentials

-----------------------------------------------------------------------------
(* The statements *)

\* COALESCE makes a row of a row and a patch.
LEMMA CoalesceIsRow ==
  ASSUME NEW patch \in Patch, NEW row \in Row
  PROVE  Coalesce(patch, row) \in Row
  BY DEF Coalesce, Patch, Row

\* An existing user has a row.
LEMMA ExistsIsRow ==
  ASSUME TypeOK, NEW i \in Exists
  PROVE  i \in Id /\ users[i] \in Row
  BY NoneAssumption DEF TypeOK, Exists

\* The statement of a request that ends keeps what the others know.
LEMMA ReturnKeepsJobs ==
  ASSUME TypeOK, JobsFit, NEW p \in Proc, Return(p), valid \subseteq valid'
  PROVE  /\ JobsFit'
         /\ pc' \in [Proc -> {"idle", "insert", "update", "open"}]
         /\ job' \in [Proc -> [id: Id \cup {None}, set: Patch]]
         /\ asked' \in [Proc -> Patch]
<1>1. NoJob \in [id: Id \cup {None}, set: Patch] /\ NoPatch \in Patch
  BY DEF NoJob, NoPatch, Patch
<1>2. /\ pc' \in [Proc -> {"idle", "insert", "update", "open"}]
      /\ job' \in [Proc -> [id: Id \cup {None}, set: Patch]]
      /\ asked' \in [Proc -> Patch]
  BY <1>1 DEF Return, TypeOK
<1>3. \A q \in Proc : /\ q # p => /\ pc'[q] = pc[q]
                                  /\ job'[q] = job[q]
                                  /\ asked'[q] = asked[q]
                      /\ q = p => pc'[q] = "idle"
  BY DEF Return, TypeOK
<1>4. JobsFit'
  BY <1>3 DEF JobsFit
<1>5. QED
  BY <1>2, <1>4

\* A request that begins learns only what is there.
LEMMA BeginKeepsInv ==
  ASSUME AccountInv, NEW p \in Proc, NEW l \in {"insert", "update", "open"},
         NEW i \in Id \cup {None}, NEW patch \in Patch, Begin(p, l, i, patch),
         asked' \in [Proc -> Patch],
         \A q \in Proc \ {p} : asked'[q] = asked[q],
         UNCHANGED <<users, issued, valid, session>>,
         l = "insert" => patch \in Row,
         l = "update" => i \in Id /\ asked'[p] = patch,
         l = "open" => <<i, patch.email, patch.hash>> \in valid
  PROVE  AccountInv'
<1>1. [id |-> i, set |-> patch] \in [id: Id \cup {None}, set: Patch]
  OBVIOUS
<1>2. TypeOK'
  BY <1>1 DEF Begin, AccountInv, TypeOK
<1>3. /\ \A q \in Proc \ {p} : pc'[q] = pc[q] /\ job'[q] = job[q] /\ asked'[q] = asked[q]
      /\ pc'[p] = l
      /\ job'[p] = [id |-> i, set |-> patch]
  BY DEF Begin, AccountInv, TypeOK
<1>4. JobsFit'
  BY <1>3 DEF AccountInv, JobsFit
<1>5. (RowsAreIssued /\ RowsAreValid /\ SessionsMatchCredentials)'
  BY DEF AccountInv, RowsAreIssued, RowsAreValid, SessionsMatchCredentials, Exists
<1>6. QED
  BY <1>2, <1>4, <1>5 DEF AccountInv

\* Writing a row of an issued id keeps the table's part of the invariant.
LEMMA WriteKeepsRows ==
  ASSUME AccountInv, NEW i \in Id, NEW row \in Row, Write(i, row),
         issued \subseteq issued', i \in issued', issued' \subseteq Id,
         UNCHANGED session
  PROVE  /\ users' \in [Id -> Row \cup {None}]
         /\ valid' \subseteq Id \X Email \X Password
         /\ valid \subseteq valid'
         /\ RowsAreIssued' /\ RowsAreValid' /\ SessionsMatchCredentials'
<1>1. row.email \in Email /\ row.hash \in Password
  BY DEF Row
<1>2. /\ users' \in [Id -> Row \cup {None}]
      /\ valid' \subseteq Id \X Email \X Password
      /\ valid \subseteq valid'
  BY <1>1 DEF Write, AccountInv, TypeOK
<1>3. /\ users'[i] = row
      /\ \A k \in Id \ {i} : users'[k] = users[k]
      /\ <<i, row.email, row.hash>> \in valid'
  BY DEF Write, AccountInv, TypeOK
<1>4. RowsAreIssued'
  BY <1>3 DEF AccountInv, RowsAreIssued, Exists
<1>5. RowsAreValid'
  BY <1>2, <1>3 DEF AccountInv, RowsAreValid, Exists
<1>6. SessionsMatchCredentials'
  BY <1>2 DEF AccountInv, SessionsMatchCredentials
<1>7. QED
  BY <1>2, <1>4, <1>5, <1>6

-----------------------------------------------------------------------------

\* The invariant holds of an empty table.
LEMMA AccountInvInit == Init => AccountInv
<1> SUFFICES ASSUME Init PROVE AccountInv
  OBVIOUS
<1>1. NoJob \in [id: Id \cup {None}, set: Patch] /\ NoPatch \in Patch
  BY DEF NoJob, NoPatch, Patch
<1>2. TypeOK
  BY <1>1 DEF Init, TypeOK
<1>3. Exists = {} /\ \A p \in Proc : pc[p] = "idle"
  BY DEF Init, Exists
<1>4. JobsFit /\ RowsAreIssued /\ RowsAreValid /\ SessionsMatchCredentials
  BY <1>3 DEF Init, JobsFit, RowsAreIssued, RowsAreValid, SessionsMatchCredentials
<1>5. QED
  BY <1>2, <1>4 DEF AccountInv

\* Every step keeps the invariant.
LEMMA AccountInvStep == AccountInv /\ [Next]_vars => AccountInv'
<1> SUFFICES ASSUME AccountInv, [Next]_vars PROVE AccountInv'
  OBVIOUS
<1>0. TypeOK /\ JobsFit
  BY DEF AccountInv
<1>1. ASSUME NEW p \in Proc, NEW e \in Email, NEW w \in Password, Register(p, e, w)
      PROVE  AccountInv'
  <2>1. [email |-> e, hash |-> w] \in Row \cap Patch
    BY DEF Row, Patch
  <2>2. QED
    BY <1>0, <1>1, <2>1, BeginKeepsInv DEF Register, TypeOK
<1>2. ASSUME NEW p \in Proc, Insert(p) PROVE AccountInv'
  <2>1. CASE UNCHANGED <<users, issued, valid>>
    <3>1. JobsFit' /\ TypeOK'
      BY <1>0, <1>2, <2>1, ReturnKeepsJobs DEF Insert, TypeOK
    <3>2. QED
      BY <1>2, <2>1, <3>1 DEF Insert, AccountInv, RowsAreIssued, RowsAreValid,
                              SessionsMatchCredentials, Exists
  <2>2. CASE \E i \in Id \ issued : Write(i, job[p].set) /\ issued' = issued \cup {i}
    <3>1. PICK i \in Id \ issued : Write(i, job[p].set) /\ issued' = issued \cup {i}
      BY <2>2
    <3>2. job[p].set \in Row /\ issued' \subseteq Id
      BY <1>0, <1>2, <3>1 DEF Insert, JobsFit, TypeOK
    <3>3. /\ users' \in [Id -> Row \cup {None}]
          /\ valid' \subseteq Id \X Email \X Password
          /\ valid \subseteq valid'
          /\ RowsAreIssued' /\ RowsAreValid' /\ SessionsMatchCredentials'
      BY <1>2, <3>1, <3>2, WriteKeepsRows DEF Insert
    <3>4. JobsFit' /\ TypeOK'
      BY <1>0, <1>2, <3>2, <3>3, ReturnKeepsJobs DEF Insert, TypeOK
    <3>5. QED
      BY <3>3, <3>4 DEF AccountInv
  <2>3. QED
    BY <1>2, <2>1, <2>2 DEF Insert
<1>3. ASSUME NEW p \in Proc, NEW i \in Id, NEW patch \in Patch, Update(p, i, patch)
      PROVE  AccountInv'
  <2>1. /\ asked' \in [Proc -> Patch]
        /\ asked'[p] = patch
        /\ \A q \in Proc \ {p} : asked'[q] = asked[q]
    BY <1>0, <1>3 DEF Update, TypeOK
  <2>2. QED
    BY <1>3, <2>1, BeginKeepsInv DEF Update
<1>4. ASSUME NEW p \in Proc, UpdateRow(p) PROVE AccountInv'
  <2> DEFINE i == job[p].id
             row == Coalesce(job[p].set, users[i])
  <2>1. CASE UNCHANGED <<users, valid>>
    <3>1. JobsFit' /\ TypeOK'
      BY <1>0, <1>4, <2>1, ReturnKeepsJobs DEF UpdateRow, TypeOK
    <3>2. QED
      BY <1>4, <2>1, <3>1 DEF UpdateRow, AccountInv, RowsAreIssued, RowsAreValid,
                              SessionsMatchCredentials, Exists
  <2>2. CASE i \in Exists /\ Write(i, row)
    <3>1. i \in Id /\ users[i] \in Row
      BY <1>0, <2>2, ExistsIsRow
    <3>2. row \in Row
      BY <1>0, <3>1, CoalesceIsRow DEF TypeOK
    <3>3. i \in issued /\ issued \subseteq Id /\ UNCHANGED <<issued, session>>
      BY <1>0, <1>4, <2>2 DEF AccountInv, RowsAreIssued, UpdateRow, TypeOK
    <3>4. /\ users' \in [Id -> Row \cup {None}]
          /\ valid' \subseteq Id \X Email \X Password
          /\ valid \subseteq valid'
          /\ RowsAreIssued' /\ RowsAreValid' /\ SessionsMatchCredentials'
      BY <2>2, <3>1, <3>2, <3>3, WriteKeepsRows
    <3>5. JobsFit' /\ TypeOK'
      BY <1>0, <1>4, <3>3, <3>4, ReturnKeepsJobs DEF UpdateRow, TypeOK
    <3>6. QED
      BY <3>4, <3>5 DEF AccountInv
  <2>3. QED
    BY <1>4, <2>1, <2>2 DEF UpdateRow
<1>5. ASSUME NEW i \in Id, Delete(i) PROVE AccountInv'
  <2>1. users' \in [Id -> Row \cup {None}]
    BY <1>0, <1>5 DEF Delete, TypeOK
  <2>2. /\ Exists' \subseteq Exists
        /\ \A k \in Exists' : users'[k] = users[k]
    BY <1>0, <1>5 DEF Delete, TypeOK, Exists
  <2>3. TypeOK' /\ JobsFit'
    BY <1>0, <1>5, <2>1 DEF Delete, TypeOK, JobsFit
  <2>4. QED
    BY <1>5, <2>2, <2>3 DEF Delete, AccountInv, RowsAreIssued, RowsAreValid,
                            SessionsMatchCredentials
<1>6. ASSUME NEW p \in Proc, NEW i \in Id, NEW w \in Password, Login(p, i, w)
      PROVE  AccountInv'
  <2>1. i \in Id /\ users[i] \in Row
    BY <1>0, <1>6, ExistsIsRow DEF Login
  <2> DEFINE patch == [email |-> users[i].email, hash |-> w]
  <2>2. patch \in Patch
    BY <2>1 DEF Patch, Row
  <2>3. <<i, patch.email, patch.hash>> \in valid
    BY <1>6 DEF Login, AccountInv, RowsAreValid
  <2>4. QED
    BY <1>0, <1>6, <2>2, <2>3, BeginKeepsInv DEF Login, TypeOK
<1>7. ASSUME NEW p \in Proc, OpenSession(p) PROVE AccountInv'
  <2>1. session' \in valid
    BY <1>0, <1>7 DEF OpenSession, JobsFit
  <2>2. JobsFit' /\ TypeOK'
    BY <1>0, <1>7, <2>1, ReturnKeepsJobs DEF OpenSession, TypeOK
  <2>3. QED
    BY <1>7, <2>1, <2>2 DEF OpenSession, AccountInv, RowsAreIssued, RowsAreValid,
                            SessionsMatchCredentials, Exists
<1>8. ASSUME NEW p \in Proc, Abandon(p) PROVE AccountInv'
  <2>1. JobsFit' /\ TypeOK'
    BY <1>0, <1>8, ReturnKeepsJobs DEF Abandon, TypeOK
  <2>2. QED
    BY <1>8, <2>1 DEF Abandon, AccountInv, RowsAreIssued, RowsAreValid,
                      SessionsMatchCredentials, Exists
<1>9. CASE UNCHANGED vars
  BY <1>9 DEF vars, AccountInv, TypeOK, JobsFit, RowsAreIssued, RowsAreValid,
              SessionsMatchCredentials, Exists
<1>10. QED
  BY <1>1, <1>2, <1>3, <1>4, <1>5, <1>6, <1>7, <1>8, <1>9 DEF Next

\* The invariant, in every reachable state.
LEMMA AccountInvariance == Spec => []AccountInv
<1>1. QED
  BY AccountInvInit, AccountInvStep, PTL DEF Spec

-----------------------------------------------------------------------------
(* The theorems *)

\* Only three statements write to the users table; the others leave it alone.
LEMMA Writers ==
  ASSUME [Next]_vars
  PROVE  \/ UNCHANGED users
         \/ \E p \in Proc : Insert(p) \/ UpdateRow(p)
         \/ \E i \in Id : Delete(i)
  BY DEF Next, vars, Register, Update, Login, OpenSession, Abandon

\* An INSERT leaves every row that is or was there as it is.
LEMMA InsertKeepsIssued ==
  ASSUME AccountInv, NEW p \in Proc, Insert(p), NEW i \in issued
  PROVE  users'[i] = users[i]
  BY DEF Insert, Write, AccountInv, TypeOK

\* Of every reachable state, one type invariant.
THEOREM AccountTypes == Spec => []TypeOK
<1>1. AccountInv => TypeOK
  BY DEF AccountInv
<1>2. QED
  BY <1>1, AccountInvariance, PTL

\* A session is opened only for the user whose email and password the login was
\* given, whatever other requests do while bcrypt runs.
THEOREM CredentialsDecide == Spec => []SessionsMatchCredentials
<1>1. AccountInv => SessionsMatchCredentials
  BY DEF AccountInv
<1>2. QED
  BY <1>1, AccountInvariance, PTL

\* No update undoes another one: a column of a user changes only to what a
\* request in flight asks for, for any number of concurrent updates.
THEOREM UpdatesCompose == Spec => NoLostUpdate
<1> DEFINE Asked == \A i \in Id, f \in {"email", "hash"} :
             i \in Exists /\ users'[i] # None /\ users'[i][f] # users[i][f] =>
               \E p \in Proc : pc[p] = "update" /\ job[p].id = i /\ asked[p][f] = users'[i][f]
<1>1. ASSUME AccountInv, [Next]_vars PROVE Asked
  <2> SUFFICES ASSUME NEW i \in Exists, NEW f \in {"email", "hash"},
                      users'[i] # None, users'[i][f] # users[i][f]
               PROVE  \E p \in Proc : /\ pc[p] = "update" /\ job[p].id = i
                                      /\ asked[p][f] = users'[i][f]
    OBVIOUS
  <2>1. TypeOK /\ i \in Id
    BY <1>1 DEF AccountInv, Exists
  <2>2. ASSUME NEW p \in Proc, Insert(p) PROVE FALSE
    BY <1>1, <2>2, InsertKeepsIssued DEF AccountInv, RowsAreIssued
  <2>3. ASSUME NEW k \in Id, Delete(k) PROVE FALSE
    BY <2>1, <2>3 DEF Delete, TypeOK
  <2>4. ASSUME NEW p \in Proc, UpdateRow(p)
        PROVE  /\ pc[p] = "update" /\ job[p].id = i
               /\ asked[p][f] = users'[i][f]
    <3>1. users'[i] # users[i]
      OBVIOUS
    <3>2. job[p].id = i /\ users'[i] = Coalesce(job[p].set, users[i])
      BY <2>1, <2>4, <3>1 DEF UpdateRow, Write, TypeOK
    <3>3. pc[p] = "update" /\ job[p].set = asked[p]
      BY <1>1, <2>4 DEF UpdateRow, AccountInv, JobsFit
    <3>4. users'[i][f] = IF asked[p][f] = None THEN users[i][f] ELSE asked[p][f]
      BY <3>2, <3>3 DEF Coalesce
    <3>5. QED
      BY <3>2, <3>3, <3>4
  <2>5. QED
    BY <1>1, <2>2, <2>3, <2>4, Writers
<1>2. QED
  BY <1>1, AccountInvariance, PTL DEF Spec, NoLostUpdate

\* A deleted user stays deleted: no update or registration that was in flight
\* brings the row back.
THEOREM DeletionIsFinal == Spec => DeletedStaysDeleted
<1> DEFINE Gone == \A i \in issued : users[i] = None => users'[i] = None
<1>1. ASSUME AccountInv, [Next]_vars PROVE Gone
  <2> SUFFICES ASSUME NEW i \in issued, users[i] = None PROVE users'[i] = None
    OBVIOUS
  <2>1. TypeOK /\ i \in Id /\ i \notin Exists
    BY <1>1 DEF AccountInv, TypeOK, Exists
  <2>2. ASSUME NEW p \in Proc, Insert(p) PROVE users'[i] = None
    BY <1>1, <2>2, InsertKeepsIssued
  <2>3. ASSUME NEW p \in Proc, UpdateRow(p) PROVE users'[i] = None
    BY <2>1, <2>3 DEF UpdateRow, Write, TypeOK, Exists
  <2>4. ASSUME NEW k \in Id, Delete(k) PROVE users'[i] = None
    BY <2>1, <2>4 DEF Delete, TypeOK
  <2>5. QED
    BY <1>1, <2>2, <2>3, <2>4, Writers
<1>2. QED
  BY <1>1, AccountInvariance, PTL DEF Spec, DeletedStaysDeleted
=============================================================================
