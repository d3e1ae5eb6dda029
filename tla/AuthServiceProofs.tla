-------------------------- MODULE AuthServiceProofs --------------------------
(* Theorems about AuthService for every number of requests, users, sessions *)
(* and tokens: its inductive invariant, and that it implements              *)
(* SessionLedger.                                                           *)
EXTENDS AuthService, TLAPS

-----------------------------------------------------------------------------
(* What each statement on the refresh_tokens table does to its rows *)

\* A table has no rows at first, so no token is active.
LEMMA EmptyTableRows ==
  /\ EmptyTable \in Table
  /\ \A t \in Token : EmptyTable[t] = None
BY DEF EmptyTable, Table

\* A row has an owner and a chain.
LEMMA RowFields ==
  ASSUME NEW table \in Table, NEW t \in Token, table[t] # None
  PROVE  table[t].user \in User /\ table[t].chain \in Chain
BY DEF Table, Row

\* The INSERT adds one active, unexpired row and leaves the others alone.
LEMMA InsertRows ==
  ASSUME NEW table \in Table, NEW t \in Token, NEW u \in User, NEW c \in Chain
  PROVE  /\ Insert(table, t, u, c) \in Table
         /\ \A s \in Token \ {t} : Insert(table, t, u, c)[s] = table[s]
         /\ Insert(table, t, u, c)[t] # None
         /\ Insert(table, t, u, c)[t].user = u
         /\ Insert(table, t, u, c)[t].chain = c
         /\ Usable(Insert(table, t, u, c), t)
<1>1. [user |-> u, chain |-> c, revoked |-> FALSE, expired |-> FALSE] \in Row
  BY DEF Row
<1>2. [user |-> u, chain |-> c, revoked |-> FALSE, expired |-> FALSE] # None
  BY <1>1, NoneAssumption
<1>3. QED
  BY <1>1, <1>2 DEF Insert, Table, Usable, Active

\* The UPDATE makes inactive exactly the rows it names, and changes nothing
\* else: a row keeps its user, its chain and its expiry, and no row comes or goes.
LEMMA RevokeRows ==
  ASSUME NEW table \in Table, NEW ids
  PROVE  /\ Revoke(table, ids) \in Table
         /\ \A t \in Token :
              /\ table[t] = None <=> Revoke(table, ids)[t] = None
              /\ table[t] # None =>
                   /\ Revoke(table, ids)[t].user = table[t].user
                   /\ Revoke(table, ids)[t].chain = table[t].chain
                   /\ Revoke(table, ids)[t].expired = table[t].expired
              /\ Active(Revoke(table, ids), t) <=> Active(table, t) /\ t \notin ids
<1> DEFINE R(t) == [table[t] EXCEPT !.revoked = TRUE]
<1>1. ASSUME NEW t \in Token, table[t] # None
      PROVE  /\ R(t) \in Row \ {None}
             /\ R(t).user = table[t].user
             /\ R(t).chain = table[t].chain
             /\ R(t).expired = table[t].expired
             /\ R(t).revoked = TRUE
  BY <1>1, NoneAssumption DEF Table, Row
<1>2. Revoke(table, ids) = [t \in Token |-> IF t \in ids /\ Active(table, t) THEN R(t) ELSE table[t]]
  BY DEF Revoke
<1>3. \A t \in Token : Revoke(table, ids)[t] = IF t \in ids /\ Active(table, t) THEN R(t) ELSE table[t]
  BY <1>2
<1> HIDE DEF R
<1>4. Revoke(table, ids) \in Table
  BY <1>1, <1>2 DEF Table, Active
<1>5. QED
  BY <1>1, <1>3, <1>4 DEF Active

\* Time makes one row unusable and changes nothing else.
LEMMA ExpireRows ==
  ASSUME NEW table \in Table, NEW t \in Token, table[t] # None
  PROVE  /\ Expire(table, t) \in Table
         /\ \A s \in Token :
              /\ table[s] = None <=> Expire(table, t)[s] = None
              /\ table[s] # None =>
                   /\ Expire(table, t)[s].user = table[s].user
                   /\ Expire(table, t)[s].chain = table[s].chain
              /\ Active(Expire(table, t), s) <=> Active(table, s)
              /\ Usable(Expire(table, t), s) <=> Usable(table, s) /\ s # t
<1> DEFINE R == [table[t] EXCEPT !.expired = TRUE]
<1>1. /\ R \in Row \ {None}
      /\ R.user = table[t].user
      /\ R.chain = table[t].chain
      /\ R.revoked = table[t].revoked
      /\ R.expired = TRUE
  BY NoneAssumption DEF Table, Row
<1>2. Expire(table, t) = [table EXCEPT ![t] = R]
  BY DEF Expire
<1> HIDE DEF R
<1>3. QED
  BY <1>1, <1>2 DEF Table, Active, Usable

\* The cascade removes the rows of one user and leaves the others alone.
LEMMA CascadeRows ==
  ASSUME NEW table \in Table, NEW u
  PROVE  /\ Cascade(table, u) \in Table
         /\ \A t \in Token : Cascade(table, u)[t] \in {None, table[t]}
         /\ \A t \in Token : Cascade(table, u)[t] # None => table[t].user # u
BY DEF Cascade, OfUser, Table

-----------------------------------------------------------------------------
(* The service *)

\* The service starts with no rows, no sessions and no requests.
LEMMA InvInit == Init => Inv
<1> SUFFICES ASSUME Init PROVE Inv
  OBVIOUS
<1> USE DEF Init
<1>1. NoJob \in Job /\ NoJob.chain = None
  BY DEF NoJob, Job, MaybeToken
<1>2. TypeOK
  BY <1>1, EmptyTableRows DEF TypeOK, Label, MaybeToken
<1>3. MintedOnly /\ PredecessorRevoked
  BY EmptyTableRows DEF MintedOnly, PredecessorRevoked
<1>4. JobsMatchLabels
  BY <1>1 DEF JobsMatchLabels
<1>5. SessionsKeepTheirOwner
  BY EmptyTableRows DEF SessionsKeepTheirOwner, NoJob
<1>6. QED
  BY <1>2, <1>3, <1>4, <1>5 DEF Inv

-----------------------------------------------------------------------------
(* Control *)

\* A request moves to its next statement without touching the other requests.
LEMMA GotoEffect ==
  ASSUME TypeOK, NEW p \in Proc, NEW l \in Label, NEW j \in Job, Goto(p, l, j)
  PROVE  /\ pc' \in [Proc -> Label] /\ job' \in [Proc -> Job]
         /\ pc'[p] = l /\ job'[p] = j
         /\ \A q \in Proc \ {p} : pc'[q] = pc[q] /\ job'[q] = job[q]
BY DEF TypeOK, Goto

\* An answered request leaves no locals behind.
LEMMA ReturnEffect ==
  ASSUME TypeOK, NEW p \in Proc, Return(p)
  PROVE  /\ pc' \in [Proc -> Label] /\ job' \in [Proc -> Job]
         /\ pc'[p] = "idle" /\ job'[p] = NoJob
         /\ \A q \in Proc \ {p} : pc'[q] = pc[q] /\ job'[q] = job[q]
<1>1. NoJob \in Job /\ "idle" \in Label
  BY DEF NoJob, Job, MaybeToken, Label
<1>2. QED
  BY <1>1, GotoEffect DEF Return

\* The locals a request takes from the row it looked up.
LEMMA RowJobFields ==
  ASSUME Inv, NEW t \in Token, rows[t] # None
  PROVE  /\ RowJob(t) \in Job
         /\ RowJob(t).tok = t /\ t \in minted
         /\ RowJob(t).user = rows[t].user /\ rows[t].user \in User
         /\ RowJob(t).chain = rows[t].chain /\ rows[t].chain \in Chain
         /\ owner[rows[t].chain] = rows[t].user
<1>1. rows[t] \in Row
  BY DEF Inv, TypeOK, Table
<1>2. rows[t].user \in User /\ rows[t].chain \in Chain
  BY <1>1 DEF Row
<1>3. t \in minted /\ owner[rows[t].chain] = rows[t].user
  BY DEF Inv, MintedOnly, SessionsKeepTheirOwner
<1>4. QED
  BY <1>2, <1>3 DEF RowJob, Job, MaybeToken

\* What a job must satisfy when only the requests move: the part of Inv that
\* speaks of one request, at label l with locals j.
JobAt(l, j) ==
  /\ l \in {"revoke_chain", "revoke_old", "logout_revoke", "sign"} =>
       j.tok \in minted /\ j.chain \in Chain /\ j.user \in User
  /\ l = "create" =>
       /\ j.user \in User
       /\ j.tok = None <=> j.chain = None
       /\ j.tok # None => j.tok \in minted /\ ~Active(rows, j.tok)
  /\ l = "revoke_all" => j.user \in User
  /\ j.chain # None => j.user # None /\ owner[j.chain] = j.user


\* Rows may go, be revoked or expire, and users may go with their rows.
RowsShrink ==
  /\ rows' \in Table
  /\ users' \subseteq User
  /\ \A t \in Token : rows'[t] # None =>
       /\ rows[t] # None
       /\ rows'[t].user = rows[t].user /\ rows'[t].user \in users'
       /\ rows'[t].chain = rows[t].chain
  /\ \A t \in Token : Active(rows', t) => Active(rows, t)

\* A step that mints nothing and leaves the request it moves, if any, in a good
\* place keeps Inv: what the invariant says only gets weaker as rows shrink.
LEMMA ShrinkKeepsInv ==
  ASSUME Inv, RowsShrink, UNCHANGED ledger, told' \subseteq Answer,
         held' \subseteq minted, access' \subseteq User \X Chain,
         \A a \in access' : owner[a[2]] = a[1],
         pc' \in [Proc -> Label], job' \in [Proc -> Job],
         \A q \in Proc : (pc'[q] = pc[q] /\ job'[q] = job[q]) \/ JobAt(pc[q], job[q])'
  PROVE  Inv'
<1> USE DEF ledger
<1>1. TypeOK'
  BY DEF Inv, TypeOK, RowsShrink
<1>2. MintedOnly'
  BY DEF Inv, MintedOnly, RowsShrink
<1>3. PredecessorRevoked'
  BY DEF Inv, TypeOK, MaybeToken, PredecessorRevoked, RowsShrink
<1>4. \A q \in Proc : JobAt(pc[q], job[q])'
  <2> SUFFICES ASSUME NEW q \in Proc, pc'[q] = pc[q], job'[q] = job[q]
               PROVE  JobAt(pc[q], job[q])'
    OBVIOUS
  <2>1. JobAt(pc[q], job[q]) /\ job[q].tok \in MaybeToken
    BY DEF Inv, TypeOK, Job, JobsMatchLabels, SessionsKeepTheirOwner, JobAt
  <2>2. QED
    BY <2>1 DEF JobAt, RowsShrink, MaybeToken
<1>5. JobsMatchLabels'
  BY <1>4 DEF JobsMatchLabels, JobAt
<1>6. SessionsKeepTheirOwner'
  BY <1>4 DEF Inv, SessionsKeepTheirOwner, JobAt, RowsShrink
<1>7. QED
  BY <1>1, <1>2, <1>3, <1>5, <1>6 DEF Inv

\* The same for a request that moves and leaves the clients alone.
LEMMA MoveKeepsInv ==
  ASSUME Inv, RowsShrink, UNCHANGED <<ledger, clients>>, told' \subseteq Answer,
         NEW p \in Proc, NEW l \in Label, NEW j \in Job, Goto(p, l, j), JobAt(l, j)'
  PROVE  Inv'
<1>1. /\ pc' \in [Proc -> Label] /\ job' \in [Proc -> Job]
      /\ pc'[p] = l /\ job'[p] = j
      /\ \A q \in Proc \ {p} : pc'[q] = pc[q] /\ job'[q] = job[q]
  BY GotoEffect DEF Inv
<1>2. JobAt(pc[p], job[p])'
  BY <1>1 DEF JobAt
<1>3. /\ held' \subseteq minted /\ access' \subseteq User \X Chain
      /\ \A a \in access' : owner[a[2]] = a[1]
  BY DEF Inv, TypeOK, SessionsKeepTheirOwner, clients
<1>4. QED
  BY <1>1, <1>2, <1>3, ShrinkKeepsInv

\* The same for a request that ends.
LEMMA ReturnKeepsInv ==
  ASSUME Inv, RowsShrink, UNCHANGED <<ledger, clients>>, told' \subseteq Answer,
         NEW p \in Proc, Return(p)
  PROVE  Inv'
<1>1. NoJob \in Job /\ "idle" \in Label /\ NoJob.chain = None
  BY DEF NoJob, Job, MaybeToken, Label
<1>2. JobAt("idle", NoJob)'
  BY <1>1 DEF JobAt
<1>3. QED
  BY <1>1, <1>2, MoveKeepsInv DEF Return

\* An UPDATE that sets revoked_at shrinks the rows, and so does doing nothing.
LEMMA RevokeShrinks ==
  ASSUME Inv, NEW ids, rows' \in {rows, Revoke(rows, ids)}, UNCHANGED users
  PROVE  RowsShrink
<1>1. \A t \in Token : rows[t] # None => rows[t].user \in users
  BY DEF Inv, SessionsKeepTheirOwner
<1>2. QED
  BY <1>1, RevokeRows DEF Inv, TypeOK, RowsShrink

-----------------------------------------------------------------------------
(* Every step keeps the invariant *)

\* The INSERT: the token is fresh, so it is nobody's predecessor and no other
\* request holds it; the chain is the request's own or was never opened.
LEMMA CreateKeepsInv ==
  ASSUME Inv, NEW p \in Proc, Create(p)
  PROVE  Inv'
<1> DEFINE u == job[p].user
           old == job[p].tok
<1>1. PICK t \in FreshTokens, c \in JobChains(p) :
        /\ rows' = Insert(rows, t, u, c)
        /\ owner' = [owner EXCEPT ![c] = u]
        /\ minted' = minted \cup {t}
        /\ parent' = [parent EXCEPT ![t] = old]
        /\ Goto(p, "sign", [job[p] EXCEPT !.tok = t, !.chain = c]) \/ Return(p)
  BY DEF Create
<1>2. /\ u \in User /\ u \in users /\ old \in MaybeToken
      /\ old # None => old \in minted /\ ~Active(rows, old)
      /\ UNCHANGED <<users, held, access, told>>
      /\ t \in Token /\ t \notin minted
      /\ job[p] \in Job
  BY DEF Inv, TypeOK, Job, JobsMatchLabels, Create, clients, FreshTokens
<1>3. c \in Chain /\ (owner[c] = None \/ owner[c] = u)
  BY DEF Inv, TypeOK, Job, JobChains, SessionsKeepTheirOwner
<1>4. /\ rows' \in Table
      /\ \A s \in Token \ {t} : rows'[s] = rows[s]
      /\ rows'[t] # None /\ rows'[t].user = u /\ rows'[t].chain = c
  BY <1>1, <1>2, <1>3, InsertRows DEF Inv, TypeOK
<1>5. \A d \in Chain : owner[d] # None => owner'[d] = owner[d]
  BY <1>1, <1>3 DEF Inv, TypeOK
<1>6. owner'[c] = u /\ owner' \in [Chain -> User \cup {None}]
  BY <1>1, <1>2, <1>3 DEF Inv, TypeOK
<1>7. /\ pc' \in [Proc -> Label] /\ job' \in [Proc -> Job]
      /\ \A q \in Proc \ {p} : pc'[q] = pc[q] /\ job'[q] = job[q]
      /\ \/ pc'[p] = "idle" /\ job'[p].chain = None
         \/ /\ pc'[p] = "sign" /\ job'[p].tok = t /\ job'[p].chain = c /\ job'[p].user = u
  <2> DEFINE j == [job[p] EXCEPT !.tok = t, !.chain = c]
  <2>1. j \in Job /\ j.tok = t /\ j.chain = c /\ j.user = u
    BY <1>2, <1>3 DEF Job, MaybeToken
  <2>2. NoJob.chain = None /\ "sign" \in Label
    BY DEF NoJob, Label
  <2> HIDE DEF j
  <2>3. CASE Goto(p, "sign", j)
    BY <2>1, <2>2, <2>3, GotoEffect DEF Inv
  <2>4. CASE Return(p)
    BY <2>2, <2>4, ReturnEffect DEF Inv
  <2>5. QED
    BY <1>1, <2>3, <2>4 DEF j
<1>8. TypeOK'
  BY <1>1, <1>2, <1>4, <1>6, <1>7 DEF Inv, TypeOK
<1>9. MintedOnly'
  BY <1>1, <1>2, <1>4 DEF Inv, TypeOK, MintedOnly
<1>10. \A s \in minted : Active(rows, s)' <=> Active(rows, s)
  BY <1>2, <1>4 DEF Active, Inv, TypeOK
<1>11. PredecessorRevoked'
  BY <1>1, <1>2, <1>10 DEF Inv, TypeOK, MintedOnly, PredecessorRevoked
<1>12. ASSUME NEW q \in Proc \ {p} PROVE JobAt(pc[q], job[q])'
  <2>1. JobAt(pc[q], job[q]) /\ job[q] \in Job
    BY DEF Inv, TypeOK, JobsMatchLabels, SessionsKeepTheirOwner, JobAt
  <2>2. job[q].chain \in Chain \cup {None}
    BY <2>1 DEF Job
  <2>3. QED
    BY <1>1, <1>5, <1>7, <1>10, <2>1, <2>2 DEF JobAt
<1>13. JobAt(pc[p], job[p])'
  BY <1>1, <1>2, <1>3, <1>6, <1>7, NoneAssumption DEF JobAt
<1>14. JobsMatchLabels'
  BY <1>12, <1>13 DEF JobsMatchLabels, JobAt
<1>15. SessionsKeepTheirOwner'
  <2>1. \A q \in Proc : job'[q].chain # None => owner'[job'[q].chain] = job'[q].user
    BY <1>12, <1>13 DEF JobAt
  <2>2. ASSUME NEW s \in Token, rows[s] # None PROVE rows[s].chain \in Chain /\ rows[s].user \in User
    BY <2>2, RowFields DEF Inv, TypeOK
  <2>3. \A s \in Token : rows'[s] # None =>
          rows'[s].user \in users' /\ rows'[s].user = owner'[rows'[s].chain]
    BY <1>2, <1>4, <1>5, <1>6, <2>2, NoneAssumption DEF Inv, SessionsKeepTheirOwner
  <2>4. \A a \in access' : owner'[a[2]] = a[1]
    BY <1>2, <1>5, NoneAssumption DEF Inv, TypeOK, SessionsKeepTheirOwner
  <2>5. QED
    BY <2>1, <2>3, <2>4 DEF SessionsKeepTheirOwner
<1>16. QED
  BY <1>8, <1>9, <1>11, <1>14, <1>15 DEF Inv

\* Deleting a user takes all rows of the user along.
LEMMA DeleteUserKeepsInv ==
  ASSUME Inv, NEW u \in users, DeleteUser(u)
  PROVE  Inv'
<1>1. /\ rows' = Cascade(rows, u) /\ users' = users \ {u}
      /\ UNCHANGED <<ledger, clients, told, pc, job>>
  BY DEF DeleteUser
<1>2. \A t \in Token : rows[t] # None => rows[t].user \in users
  BY DEF Inv, SessionsKeepTheirOwner
<1>3. RowsShrink
  BY <1>1, <1>2, CascadeRows DEF Inv, TypeOK, RowsShrink, Active
<1>4. QED
  BY <1>1, <1>3, ShrinkKeepsInv DEF Inv, TypeOK, SessionsKeepTheirOwner, clients

\* The clock only makes rows less usable.
LEMMA TokenExpiresKeepsInv ==
  ASSUME Inv, NEW t \in Token, TokenExpires(t)
  PROVE  Inv'
<1>1. /\ rows' = Expire(rows, t) /\ rows[t] # None
      /\ UNCHANGED <<users, ledger, clients, told, pc, job>>
  BY DEF TokenExpires, Usable, Active
<1>2. \A s \in Token : rows[s] # None => rows[s].user \in users
  BY DEF Inv, SessionsKeepTheirOwner
<1>3. RowsShrink
  BY <1>1, <1>2, ExpireRows DEF Inv, TypeOK, RowsShrink
<1>4. QED
  BY <1>1, <1>3, ShrinkKeepsInv DEF Inv, TypeOK, SessionsKeepTheirOwner, clients

\* Every statement of every request keeps Inv.
LEMMA ServeKeepsInv ==
  ASSUME Inv, NEW p \in Proc, Serve(p)
  PROVE  Inv'
<1> USE DEF Label
<1>0. /\ job[p] \in Job /\ JobAt(pc[p], job[p])
      /\ told \subseteq Answer
  BY DEF Inv, TypeOK, JobsMatchLabels, SessionsKeepTheirOwner, JobAt
<1>1. ASSUME UNCHANGED <<users, rows>> PROVE RowsShrink
  BY <1>1 DEF Inv, TypeOK, SessionsKeepTheirOwner, RowsShrink
<1>2. ASSUME NEW u \in User, Login(p, u) PROVE Inv'
  <2> DEFINE j == [NoJob EXCEPT !.user = u]
  <2>1. j \in Job /\ j.user = u /\ j.tok = None /\ j.chain = None
    BY DEF NoJob, Job, MaybeToken
  <2>2. Goto(p, "create", j) /\ UNCHANGED <<users, rows, ledger, clients, told>>
    BY <1>2 DEF Login
  <2> HIDE DEF j
  <2>3. JobAt("create", j)'
    BY <2>1 DEF JobAt
  <2>4. QED
    BY <1>0, <1>1, <2>1, <2>2, <2>3, MoveKeepsInv
<1>3. ASSUME NEW t \in held, Refresh(p, t) PROVE Inv'
  <2>1. /\ t \in Token /\ rows[t] # None
        /\ UNCHANGED <<users, rows, ledger, clients, told>>
        /\ Goto(p, "revoke_chain", RowJob(t)) \/ Goto(p, "revoke_old", RowJob(t))
    BY <1>3 DEF Refresh, Inv, TypeOK
  <2>2. PICK j \in Job : j = RowJob(t)
    BY <2>1, RowJobFields
  <2>3. \A l \in {"revoke_chain", "revoke_old"} : JobAt(l, j)'
    BY <2>1, <2>2, RowJobFields, NoneAssumption DEF JobAt, ledger
  <2>4. QED
    BY <1>0, <1>1, <2>1, <2>2, <2>3, MoveKeepsInv
<1>4. ASSUME RevokeChain(p) PROVE Inv'
  <2>1. told' \subseteq Answer
    BY <1>0, <1>4 DEF RevokeChain, JobAt, Answer
  <2>2. RowsShrink
    BY <1>4, RevokeShrinks DEF RevokeChain
  <2>3. QED
    BY <1>4, <2>1, <2>2, ReturnKeepsInv DEF RevokeChain
<1>5. ASSUME RevokeOld(p) PROVE Inv'
  <2>1. RowsShrink
    BY <1>5, RevokeShrinks DEF RevokeOld
  <2>2. CASE Return(p)
    BY <1>0, <1>5, <2>1, <2>2, ReturnKeepsInv DEF RevokeOld
  <2>3. CASE Goto(p, "create", job[p])
    <3>1. PICK j \in Job : j = job[p]
      BY <1>0
    <3>2. j.tok \in minted /\ j.tok \in Token /\ ~Active(rows', j.tok)
      BY <1>0, <1>5, <3>1, RevokeRows DEF RevokeOld, JobAt, Inv, TypeOK
    <3>3. JobAt("create", j)'
      BY <1>0, <1>5, <3>1, <3>2, NoneAssumption DEF RevokeOld, JobAt, ledger, Active
    <3>4. QED
      BY <1>0, <1>5, <2>1, <2>3, <3>1, <3>3, MoveKeepsInv DEF RevokeOld
  <2>4. QED
    BY <1>5, <2>2, <2>3 DEF RevokeOld
<1>6. ASSUME Create(p) PROVE Inv'
  BY <1>6, CreateKeepsInv
<1>7. ASSUME Sign(p) PROVE Inv'
  <2>1. /\ Return(p) /\ UNCHANGED <<users, rows, ledger, told>>
        /\ held' = held \cup {job[p].tok}
        /\ access' = access \cup {<<job[p].user, job[p].chain>>}
        /\ pc[p] = "sign"
    BY <1>7 DEF Sign
  <2>2. /\ job[p].tok \in minted /\ job[p].user \in User /\ job[p].chain \in Chain
        /\ owner[job[p].chain] = job[p].user
    BY <1>0, <2>1, NoneAssumption DEF JobAt
  <2>3. /\ held' \subseteq minted /\ access' \subseteq User \X Chain
        /\ \A a \in access' : owner[a[2]] = a[1]
    BY <2>1, <2>2 DEF Inv, TypeOK, SessionsKeepTheirOwner
  <2>4. /\ pc' \in [Proc -> Label] /\ job' \in [Proc -> Job]
        /\ pc'[p] = "idle" /\ job'[p].chain = None
        /\ \A q \in Proc \ {p} : pc'[q] = pc[q] /\ job'[q] = job[q]
    BY <2>1, ReturnEffect DEF Inv, NoJob
  <2>5. JobAt(pc[p], job[p])'
    BY <2>4 DEF JobAt
  <2>6. QED
    BY <1>0, <1>1, <2>1, <2>3, <2>4, <2>5, ShrinkKeepsInv
<1>8. ASSUME NEW t \in held, Logout(p, t) PROVE Inv'
  <2>1. t \in Token /\ UNCHANGED <<users, rows, ledger, clients>>
    BY <1>8 DEF Logout, Inv, TypeOK
  <2>2. CASE rows[t] # None /\ Goto(p, "logout_revoke", RowJob(t)) /\ UNCHANGED told
    <3>1. PICK j \in Job : j = RowJob(t)
      BY <2>1, <2>2, RowJobFields
    <3>2. JobAt("logout_revoke", j)'
      BY <2>1, <2>2, <3>1, RowJobFields, NoneAssumption DEF JobAt, ledger
    <3>3. QED
      BY <1>0, <1>1, <2>1, <2>2, <3>1, <3>2, MoveKeepsInv
  <2>3. CASE LoggedOut(t) /\ UNCHANGED <<pc, job>>
    <3>1. told' \subseteq Answer
      BY <1>0, <2>1, <2>3 DEF LoggedOut, Answer
    <3>2. QED
      BY <1>1, <2>1, <2>3, <3>1, ShrinkKeepsInv
         DEF Inv, TypeOK, SessionsKeepTheirOwner, clients
  <2>4. QED
    BY <1>8, <2>2, <2>3 DEF Logout
<1>9. ASSUME LogoutRevoke(p) PROVE Inv'
  <2>1. job[p].tok \in Token
    BY <1>0, <1>9 DEF LogoutRevoke, JobAt, Inv, TypeOK
  <2>2. told' \subseteq Answer
    BY <1>0, <1>9, <2>1 DEF LogoutRevoke, LoggedOut, Answer
  <2>3. RowsShrink
    BY <1>9, RevokeShrinks DEF LogoutRevoke
  <2>4. QED
    BY <1>9, <2>2, <2>3, ReturnKeepsInv DEF LogoutRevoke
<1>10. ASSUME NEW a \in access, LogoutAll(p, a) PROVE Inv'
  <2> DEFINE j == [NoJob EXCEPT !.user = a[1]]
  <2>1. j \in Job /\ j.chain = None /\ j.user \in User
    BY DEF NoJob, Job, MaybeToken, Inv, TypeOK
  <2>2. Goto(p, "revoke_all", j) /\ UNCHANGED <<users, rows, ledger, clients, told>>
    BY <1>10 DEF LogoutAll
  <2> HIDE DEF j
  <2>3. JobAt("revoke_all", j)'
    BY <2>1 DEF JobAt
  <2>4. QED
    BY <1>0, <1>1, <2>1, <2>2, <2>3, MoveKeepsInv
<1>11. ASSUME RevokeAll(p) PROVE Inv'
  <2>1. told' \subseteq Answer
    BY <1>0, <1>11 DEF RevokeAll, Answer
  <2>2. RowsShrink
    BY <1>11, RevokeShrinks DEF RevokeAll
  <2>3. QED
    BY <1>11, <2>1, <2>2, ReturnKeepsInv DEF RevokeAll
<1>12. ASSUME Abandon(p) PROVE Inv'
  BY <1>0, <1>1, <1>12, ReturnKeepsInv DEF Abandon
<1>13. QED
  BY <1>2, <1>3, <1>4, <1>5, <1>6, <1>7, <1>8, <1>9, <1>10, <1>11, <1>12 DEF Serve

\* Every step of a request or of its surroundings keeps the invariant.
LEMMA InvStep == Inv /\ [Next]_vars => Inv'
<1> SUFFICES ASSUME Inv, [Next]_vars PROVE Inv'
  OBVIOUS
<1>1. ASSUME NEW p \in Proc, Serve(p) PROVE Inv'
  BY <1>1, ServeKeepsInv
<1>2. ASSUME NEW t \in Token, TokenExpires(t) PROVE Inv'
  BY <1>2, TokenExpiresKeepsInv
<1>3. ASSUME NEW a \in access, AccessExpires(a) PROVE Inv'
  <2>1. /\ UNCHANGED <<users, rows, ledger, held, told, pc, job>>
        /\ access' \subseteq access
    BY <1>3 DEF AccessExpires
  <2>2. RowsShrink
    BY <2>1 DEF Inv, TypeOK, SessionsKeepTheirOwner, RowsShrink
  <2>3. QED
    BY <2>1, <2>2, ShrinkKeepsInv DEF Inv, TypeOK, SessionsKeepTheirOwner
<1>4. ASSUME NEW u \in users, DeleteUser(u) PROVE Inv'
  BY <1>4, DeleteUserKeepsInv
<1>5. ASSUME UNCHANGED vars PROVE Inv'
  BY <1>5 DEF vars, Inv, TypeOK, MintedOnly, JobsMatchLabels, PredecessorRevoked,
              SessionsKeepTheirOwner, Active
<1>6. QED
  BY <1>1, <1>2, <1>3, <1>4, <1>5 DEF Next

-----------------------------------------------------------------------------
(* Invariance *)

\* The invariant holds in every state of every execution.
THEOREM Invariance == Spec => []Inv
BY InvInit, InvStep, PTL DEF Spec

\* Every variable keeps its type: rows name known users and chains, clients
\* hold only minted tokens, jobs hold what their statement reads.
THEOREM TypeCorrect == Spec => []TypeOK
<1>1. Inv => TypeOK
  BY DEF Inv
<1>2. QED
  BY <1>1, Invariance, PTL

\* However many requests race on a chain, a token that has been rotated is not
\* active: Refresh revokes the old row before it inserts the new one.
THEOREM PredecessorsStayRevoked == Spec => []PredecessorRevoked
<1>1. Inv => PredecessorRevoked
  BY DEF Inv
<1>2. QED
  BY <1>1, Invariance, PTL

\* Rows, access tokens and requests of a session name the user who opened it,
\* and no row outlives its user.
THEOREM SessionsKeepOwners == Spec => []SessionsKeepTheirOwner
<1>1. Inv => SessionsKeepTheirOwner
  BY DEF Inv
<1>2. QED
  BY <1>1, Invariance, PTL

-----------------------------------------------------------------------------
(* Refinement: what a step does to the sessions *)

\* The service starts as an empty ledger.
LEMMA LedgerInit == Init => Ledger!Init
<1> SUFFICES ASSUME Init PROVE Ledger!Init
  OBVIOUS
<1>1. SessionLive = [c \in Chain |-> {}]
  BY EmptyTableRows DEF Init, SessionLive, InChain
<1>2. SessionGrants = [c \in Chain |-> {}]
  BY DEF Init, SessionGrants, Granted
<1>3. QED
  BY <1>1, <1>2 DEF Init, Ledger!Init


\* A request that holds a grant of its session.
HasGrant(p) == pc[p] \in Granted /\ job[p].chain \in Chain

\* A step that makes no row usable and gives no request a grant it did not have
\* retires the tokens and the clients that lose theirs.
LEMMA RetireStep ==
  ASSUME UNCHANGED ledger,
         \A t \in Token : Usable(rows', t) => Usable(rows, t) /\ rows'[t].chain = rows[t].chain,
         \A q \in Proc : HasGrant(q)' => HasGrant(q) /\ job'[q] = job[q]
  PROVE  Ledger!Next
<1> DEFINE T == {t \in Token : Usable(rows, t) /\ ~Usable(rows', t)}
           C == {q \in Proc : HasGrant(q) /\ ~HasGrant(q)'}
<1>1. SessionLive' = [c \in Chain |-> SessionLive[c] \ T]
  <2> SUFFICES ASSUME NEW c \in Chain PROVE SessionLive'[c] = SessionLive[c] \ T
    BY DEF SessionLive
  <2>1. SessionLive[c] = {t \in Token : rows[t].chain = c /\ Usable(rows, t)}
    BY DEF SessionLive, InChain, Usable, Active
  <2>2. SessionLive'[c] = {t \in Token : rows'[t].chain = c /\ Usable(rows', t)}
    BY DEF SessionLive, InChain, Usable, Active
  <2>3. QED
    BY <2>1, <2>2
<1>2. SessionGrants' = [c \in Chain |-> {g \in SessionGrants[c] : g[1] \notin C}]
  <2> SUFFICES ASSUME NEW c \in Chain
               PROVE  SessionGrants'[c] = {g \in SessionGrants[c] : g[1] \notin C}
    BY DEF SessionGrants
  <2>1. SessionGrants[c] = {<<p, job[p].tok>> : p \in {q \in Proc : pc[q] \in Granted /\ job[q].chain = c}}
    BY DEF SessionGrants
  <2>2. SessionGrants'[c] = {<<p, job'[p].tok>> : p \in {q \in Proc : pc'[q] \in Granted /\ job'[q].chain = c}}
    BY DEF SessionGrants, Granted
  <2>3. \A q \in Proc : pc'[q] \in Granted /\ job'[q].chain = c <=>
                          q \notin C /\ pc[q] \in Granted /\ job[q].chain = c
    BY DEF HasGrant, Granted
  <2>4. \A q \in Proc : pc'[q] \in Granted /\ job'[q].chain = c => job'[q] = job[q]
    BY DEF HasGrant, Granted
  <2>5. QED
    BY <2>1, <2>2, <2>3, <2>4
<1>3. UNCHANGED <<owner, minted>>
  BY DEF ledger
<1>4. Ledger!Retire(T, C)
  BY <1>1, <1>2, <1>3 DEF Ledger!Retire
<1>5. T \in SUBSET Token /\ C \in SUBSET Proc
  OBVIOUS
<1> HIDE DEF T, C
<1>6. QED
  BY <1>4, <1>5 DEF Ledger!Next

\* A refresh that finds its row usable is granted the one successor it may mint.
LEMMA GrantStep ==
  ASSUME Inv, NEW p \in Proc, NEW t \in Token, pc[p] = "idle", Usable(rows, t),
         Goto(p, "revoke_old", RowJob(t)), UNCHANGED <<rows, ledger>>
  PROVE  Ledger!Next
<1> DEFINE s == rows[t].chain
<1>1. /\ s \in Chain /\ rows[t] # None
      /\ pc'[p] = "revoke_old" /\ job'[p].tok = t /\ job'[p].chain = s
      /\ \A q \in Proc \ {p} : pc'[q] = pc[q] /\ job'[q] = job[q]
  BY RowJobFields, GotoEffect DEF Usable, Active, Inv, Label
<1>2. t \in SessionLive[s]
  BY <1>1 DEF SessionLive, InChain
<1>3. SessionGrants' = [SessionGrants EXCEPT ![s] = @ \cup {<<p, t>>}]
  <2> SUFFICES ASSUME NEW c \in Chain
               PROVE  SessionGrants'[c] = IF c = s THEN SessionGrants[c] \cup {<<p, t>>}
                                                   ELSE SessionGrants[c]
    BY <1>1 DEF SessionGrants
  <2>1. SessionGrants[c] = {<<r, job[r].tok>> : r \in {q \in Proc : pc[q] \in Granted /\ job[q].chain = c}}
    BY DEF SessionGrants
  <2>2. SessionGrants'[c] = {<<r, job'[r].tok>> : r \in {q \in Proc : pc'[q] \in Granted /\ job'[q].chain = c}}
    BY DEF SessionGrants, Granted
  <2>3. pc[p] \notin Granted /\ pc'[p] \in Granted
    BY <1>1 DEF Granted
  <2>4. CASE c = s
    BY <1>1, <2>1, <2>2, <2>3, <2>4
  <2>5. CASE c # s
    BY <1>1, <2>1, <2>2, <2>3, <2>5
  <2>6. QED
    BY <2>4, <2>5
<1>4. UNCHANGED <<owner, minted, SessionLive>>
  BY DEF ledger, SessionLive, InChain, Usable, Active
<1>5. Ledger!Grant(s, p, t)
  BY <1>2, <1>3, <1>4 DEF Ledger!Grant
<1>6. QED
  BY <1>1, <1>5 DEF Ledger!Next

\* What an INSERT does to the live tokens: its chain gains the fresh one.
LEMMA InsertGivesLive ==
  ASSUME Inv, NEW t \in Token \ minted, NEW u \in User, NEW c \in Chain,
         rows' = Insert(rows, t, u, c)
  PROVE  /\ SessionLive' = [SessionLive EXCEPT ![c] = @ \cup {t}]
         /\ owner[c] = None => SessionLive[c] = {}
<1>1. /\ \A s \in Token \ {t} : rows'[s] = rows[s]
      /\ rows'[t].chain = c /\ rows'[t] # None /\ Usable(rows', t)
  BY InsertRows DEF Inv, TypeOK
<1>2. rows[t] = None
  BY DEF Inv, MintedOnly
<1>3. ASSUME NEW d \in Chain
      PROVE  SessionLive'[d] = IF d = c THEN SessionLive[d] \cup {t} ELSE SessionLive[d]
  <2>1. SessionLive[d] = {s \in Token : rows[s] # None /\ rows[s].chain = d /\ Usable(rows, s)}
    BY DEF SessionLive, InChain
  <2>2. SessionLive'[d] = {s \in Token : rows'[s] # None /\ rows'[s].chain = d /\ Usable(rows', s)}
    BY DEF SessionLive, InChain, Usable, Active
  <2>3. \A s \in Token \ {t} : Usable(rows', s) <=> Usable(rows, s)
    BY <1>1 DEF Usable, Active
  <2>4. QED
    BY <1>1, <1>2, <2>1, <2>2, <2>3
<1>4. SessionLive' = [SessionLive EXCEPT ![c] = @ \cup {t}]
  BY <1>3 DEF SessionLive
<1>5. ASSUME owner[c] = None, NEW s \in SessionLive[c] PROVE FALSE
  <2>1. s \in Token /\ rows[s] # None /\ rows[s].chain = c
    BY <1>5 DEF SessionLive, InChain
  <2>2. rows[s].user \in User /\ rows[s].user = None
    BY <1>5, <2>1, RowFields DEF Inv, TypeOK, SessionsKeepTheirOwner
  <2>3. QED
    BY <2>2, NoneAssumption
<1>6. QED
  BY <1>4, <1>5

\* What an INSERT does, as the ledger and the signing of access tokens see it: a
\* fresh token goes live in the request's session, or in one never opened, the
\* request gives up its grant and, if it learns of the INSERT, goes on to sign.
LEMMA CreateEffect ==
  ASSUME Inv, NEW p \in Proc, Create(p)
  PROVE  \E t \in FreshTokens, c \in JobChains(p) :
           /\ t \in Token \ minted /\ c \in Chain
           /\ minted' = minted \cup {t}
           /\ owner' = [owner EXCEPT ![c] = job[p].user]
           /\ SessionLive' = [SessionLive EXCEPT ![c] = @ \cup {t}]
           /\ owner[c] = None => SessionLive[c] = {}
           /\ \A d \in Chain : SessionGrants'[d] = {g \in SessionGrants[d] : g[1] # p}
           /\ \A q \in Proc \ {p} : pc'[q] = pc[q] /\ job'[q] = job[q]
           /\ pc'[p] = "idle" \/ (pc'[p] = "sign" /\ job'[p].chain = c)
<1> DEFINE u == job[p].user
<1>1. PICK t \in FreshTokens, c \in JobChains(p) :
        /\ rows' = Insert(rows, t, u, c)
        /\ owner' = [owner EXCEPT ![c] = u]
        /\ minted' = minted \cup {t}
        /\ Goto(p, "sign", [job[p] EXCEPT !.tok = t, !.chain = c]) \/ Return(p)
  BY DEF Create
<1>2. t \in Token \ minted /\ u \in User /\ job[p] \in Job
  BY DEF Inv, TypeOK, Job, JobsMatchLabels, Create, FreshTokens
<1>3. c \in Chain
  BY DEF Inv, TypeOK, Job, JobChains
<1>4. /\ SessionLive' = [SessionLive EXCEPT ![c] = @ \cup {t}]
      /\ owner[c] = None => SessionLive[c] = {}
  BY <1>1, <1>2, <1>3, InsertGivesLive
<1>5. /\ pc'[p] = "idle" \/ (pc'[p] = "sign" /\ job'[p].chain = c)
      /\ \A q \in Proc \ {p} : pc'[q] = pc[q] /\ job'[q] = job[q]
  <2> DEFINE j == [job[p] EXCEPT !.tok = t, !.chain = c]
  <2>1. j \in Job /\ j.chain = c
    BY <1>2, <1>3 DEF Job, MaybeToken
  <2> HIDE DEF j
  <2>2. CASE Goto(p, "sign", j)
    BY <2>1, <2>2, GotoEffect DEF Inv, Label
  <2>3. CASE Return(p)
    BY <2>3, ReturnEffect DEF Inv
  <2>4. QED
    BY <1>1, <2>2, <2>3 DEF j
<1>6. ASSUME NEW d \in Chain
      PROVE  SessionGrants'[d] = {g \in SessionGrants[d] : g[1] # p}
  <2>1. SessionGrants[d] = {<<r, job[r].tok>> : r \in {q \in Proc : pc[q] \in Granted /\ job[q].chain = d}}
    BY DEF SessionGrants
  <2>2. SessionGrants'[d] = {<<r, job'[r].tok>> : r \in {q \in Proc : pc'[q] \in Granted /\ job'[q].chain = d}}
    BY DEF SessionGrants, Granted
  <2>3. pc'[p] \notin Granted
    BY <1>5 DEF Granted
  <2>4. QED
    BY <1>5, <2>1, <2>2, <2>3
<1>7. QED
  BY <1>1, <1>2, <1>3, <1>4, <1>5, <1>6

\* The grant a request gives up is one of its own session, if it has one.
LEMMA OwnGrants ==
  ASSUME NEW p \in Proc, NEW d \in Chain, NEW g \in SessionGrants[d], g[1] = p
  PROVE  d = job[p].chain /\ g = <<p, job[p].tok>>
BY DEF SessionGrants

\* An INSERT opens a session for a login; for a refresh it mints the successor
\* the request was granted, whose predecessor is no longer live.
LEMMA CreateStep ==
  ASSUME Inv, NEW p \in Proc, Create(p)
  PROVE  Ledger!Next
<1> DEFINE u == job[p].user
           old == job[p].tok
<1>1. PICK t \in FreshTokens, c \in JobChains(p) :
        /\ t \in Token \ minted /\ c \in Chain
        /\ minted' = minted \cup {t}
        /\ owner' = [owner EXCEPT ![c] = u]
        /\ SessionLive' = [SessionLive EXCEPT ![c] = @ \cup {t}]
        /\ owner[c] = None => SessionLive[c] = {}
        /\ \A d \in Chain : SessionGrants'[d] = {g \in SessionGrants[d] : g[1] # p}
  BY CreateEffect
<1>2. /\ t \in Token \ minted /\ u \in User /\ pc[p] = "create"
      /\ job[p] \in Job /\ old \in MaybeToken
  BY <1>1 DEF Inv, TypeOK, Job, JobsMatchLabels, Create
<1>3. c \in Chain
  BY <1>1
<1>4. /\ SessionLive' = [SessionLive EXCEPT ![c] = @ \cup {t}]
      /\ owner[c] = None => SessionLive[c] = {}
  BY <1>1
<1>5. ASSUME NEW d \in Chain
      PROVE  SessionGrants'[d] = {g \in SessionGrants[d] : g[1] # p}
  BY <1>1
<1>6. \A d \in Chain : \A g \in SessionGrants[d] :
        g[1] = p => d = job[p].chain /\ g = <<p, old>>
  BY OwnGrants
<1>7. CASE job[p].chain = None
  <2>1. owner[c] = None /\ u # None
    BY <1>2, <1>7, NoneAssumption DEF JobChains
  <2>2. SessionLive' = [SessionLive EXCEPT ![c] = {t}]
    BY <1>4, <2>1 DEF SessionLive
  <2>3. SessionGrants' = SessionGrants
    BY <1>5, <1>6, <1>7, NoneAssumption DEF SessionGrants
  <2>4. {d \in Chain : owner'[d] # None} = {d \in Chain : owner[d] # None} \cup {c}
    BY <1>1, <1>3, <2>1 DEF Inv, TypeOK
  <2>5. Ledger!Open(c, t)
    BY <1>1, <1>2, <2>1, <2>2, <2>3, <2>4 DEF Ledger!Open
  <2>6. QED
    BY <1>2, <1>3, <2>5 DEF Ledger!Next
<1>8. CASE job[p].chain # None
  <2>1. /\ c = job[p].chain /\ owner[c] = u /\ u # None
        /\ old \in Token /\ ~Active(rows, old)
    BY <1>2, <1>8, NoneAssumption
       DEF JobChains, Inv, JobsMatchLabels, SessionsKeepTheirOwner, MaybeToken
  <2>2. <<p, old>> \in SessionGrants[c]
    BY <1>2, <1>3, <2>1 DEF SessionGrants, Granted
  <2>3. old \notin SessionLive[c]
    BY <1>3, <2>1 DEF SessionLive, Usable
  <2>4. SessionGrants' = [SessionGrants EXCEPT ![c] = @ \ {<<p, old>>}]
    <3> SUFFICES ASSUME NEW d \in Chain
                 PROVE  SessionGrants'[d] = IF d = c THEN SessionGrants[d] \ {<<p, old>>}
                                                     ELSE SessionGrants[d]
      BY <1>3 DEF SessionGrants
    <3>1. SessionGrants'[d] = {g \in SessionGrants[d] : g[1] # p}
      BY <1>5
    <3>2. \A g \in SessionGrants[d] : g[1] = p => d = c /\ g = <<p, old>>
      BY <1>6, <2>1
    <3>3. <<p, old>>[1] = p
      OBVIOUS
    <3>4. QED
      BY <3>1, <3>2, <3>3
  <2>5. owner' = owner
    BY <1>1, <2>1 DEF Inv, TypeOK
  <2>6. Ledger!Mint(c, p, old, t)
    BY <1>1, <1>2, <1>4, <2>2, <2>3, <2>4, <2>5 DEF Ledger!Mint
  <2>7. QED
    BY <1>2, <1>3, <2>1, <2>6 DEF Ledger!Next
<1>9. QED
  BY <1>7, <1>8

\* Every statement of a request is a step of the ledger: a refresh that is
\* accepted is a grant, an INSERT opens or mints, all others retire.
LEMMA ServeStep ==
  ASSUME Inv, Inv', NEW p \in Proc, Serve(p)
  PROVE  Ledger!Next
<1> USE DEF Label
<1>0. NoJob.chain = None /\ None \notin Chain
  BY NoneAssumption DEF NoJob
<1>1. ASSUME rows' = rows, UNCHANGED ledger,
             \A q \in Proc : HasGrant(q)' => HasGrant(q) /\ job'[q] = job[q]
      PROVE  Ledger!Next
  BY <1>1, RetireStep
<1>2. ASSUME NEW ids, rows' \in {rows, Revoke(rows, ids)}, UNCHANGED ledger,
             \A q \in Proc : HasGrant(q)' => HasGrant(q) /\ job'[q] = job[q]
      PROVE  Ledger!Next
  <2>1. \A t \in Token : Usable(rows', t) => Usable(rows, t) /\ rows'[t].chain = rows[t].chain
    BY <1>2, RevokeRows DEF Inv, TypeOK, Usable, Active
  <2>2. QED
    BY <1>2, <2>1, RetireStep
<1>3. ASSUME NEW l \in Label, NEW j \in Job, Goto(p, l, j), l \notin Granted \/ j.chain = None
      PROVE  \A q \in Proc : HasGrant(q)' => HasGrant(q) /\ job'[q] = job[q]
  BY <1>0, <1>3, GotoEffect DEF Inv, HasGrant
<1>4. ASSUME Return(p)
      PROVE  \A q \in Proc : HasGrant(q)' => HasGrant(q) /\ job'[q] = job[q]
  BY <1>4, ReturnEffect DEF Inv, HasGrant, Granted
<1>5. ASSUME NEW u \in User, Login(p, u) PROVE Ledger!Next
  <2> DEFINE j == [NoJob EXCEPT !.user = u]
  <2>1. j \in Job /\ j.chain = None
    BY DEF NoJob, Job, MaybeToken
  <2>2. Goto(p, "create", j) /\ UNCHANGED <<rows, ledger>>
    BY <1>5 DEF Login
  <2> HIDE DEF j
  <2>3. QED
    BY <1>1, <1>3, <2>1, <2>2
<1>6. ASSUME NEW t \in held, Refresh(p, t) PROVE Ledger!Next
  <2>1. /\ t \in Token /\ rows[t] # None /\ pc[p] = "idle"
        /\ UNCHANGED <<rows, ledger>>
    BY <1>6 DEF Refresh, Inv, TypeOK
  <2>2. CASE Goto(p, "revoke_chain", RowJob(t))
    BY <1>1, <1>3, <2>1, <2>2, RowJobFields DEF Granted
  <2>3. CASE Usable(rows, t) /\ Goto(p, "revoke_old", RowJob(t))
    BY <2>1, <2>3, GrantStep
  <2>4. QED
    BY <1>6, <2>2, <2>3 DEF Refresh
<1>7. ASSUME RevokeChain(p) PROVE Ledger!Next
  BY <1>2, <1>4, <1>7 DEF RevokeChain
<1>8. ASSUME RevokeOld(p) PROVE Ledger!Next
  <2>1. CASE Return(p)
    BY <1>2, <1>4, <1>8, <2>1 DEF RevokeOld
  <2>2. CASE Goto(p, "create", job[p])
    <3>1. job[p] \in Job /\ pc[p] = "revoke_old"
      BY <1>8 DEF RevokeOld, Inv, TypeOK
    <3>2. pc'[p] = "create" /\ job'[p] = job[p]
      BY <2>2, <3>1, GotoEffect DEF Inv
    <3>3. \A q \in Proc \ {p} : pc'[q] = pc[q] /\ job'[q] = job[q]
      BY <2>2, <3>1, GotoEffect DEF Inv
    <3>4. \A q \in Proc : HasGrant(q)' => HasGrant(q) /\ job'[q] = job[q]
      BY <3>1, <3>2, <3>3 DEF HasGrant, Granted
    <3>5. QED
      BY <1>2, <1>8, <3>4 DEF RevokeOld
  <2>3. QED
    BY <1>8, <2>1, <2>2 DEF RevokeOld
<1>9. ASSUME Create(p) PROVE Ledger!Next
  BY <1>9, CreateStep
<1>10. ASSUME Sign(p) PROVE Ledger!Next
  BY <1>1, <1>4, <1>10 DEF Sign
<1>11. ASSUME NEW t \in held, Logout(p, t) PROVE Ledger!Next
  <2>1. t \in Token /\ UNCHANGED <<rows, ledger>>
    BY <1>11 DEF Logout, Inv, TypeOK
  <2>2. CASE rows[t] # None /\ Goto(p, "logout_revoke", RowJob(t))
    BY <1>1, <1>3, <2>1, <2>2, RowJobFields DEF Granted
  <2>3. CASE UNCHANGED <<pc, job>>
    BY <1>1, <2>1, <2>3 DEF HasGrant
  <2>4. QED
    BY <1>11, <2>2, <2>3 DEF Logout
<1>12. ASSUME LogoutRevoke(p) PROVE Ledger!Next
  BY <1>2, <1>4, <1>12 DEF LogoutRevoke
<1>13. ASSUME NEW a \in access, LogoutAll(p, a) PROVE Ledger!Next
  <2> DEFINE j == [NoJob EXCEPT !.user = a[1]]
  <2>1. j \in Job /\ j.chain = None
    BY DEF NoJob, Job, MaybeToken, Inv, TypeOK
  <2>2. Goto(p, "revoke_all", j) /\ UNCHANGED <<rows, ledger>>
    BY <1>13 DEF LogoutAll
  <2> HIDE DEF j
  <2>3. QED
    BY <1>1, <1>3, <2>1, <2>2
<1>14. ASSUME RevokeAll(p) PROVE Ledger!Next
  BY <1>2, <1>4, <1>14 DEF RevokeAll
<1>15. ASSUME Abandon(p) PROVE Ledger!Next
  BY <1>1, <1>4, <1>15 DEF Abandon
<1>16. QED
  BY <1>5, <1>6, <1>7, <1>8, <1>9, <1>10, <1>11, <1>12, <1>13, <1>14, <1>15 DEF Serve

\* Every step of the service is a step of the ledger or leaves it alone.
LEMMA LedgerStep == Inv /\ Inv' /\ [Next]_vars => [Ledger!Next]_(Ledger!vars)
<1> SUFFICES ASSUME Inv, Inv', [Next]_vars PROVE [Ledger!Next]_(Ledger!vars)
  OBVIOUS
<1>1. ASSUME NEW p \in Proc, Serve(p) PROVE Ledger!Next
  BY <1>1, ServeStep
<1>2. ASSUME NEW t \in Token, TokenExpires(t) PROVE Ledger!Next
  <2>1. rows[t] # None /\ rows' = Expire(rows, t) /\ UNCHANGED <<ledger, pc, job>>
    BY <1>2 DEF TokenExpires, Usable, Active
  <2>2. \A s \in Token : Usable(rows', s) => Usable(rows, s) /\ rows'[s].chain = rows[s].chain
    BY <2>1, ExpireRows DEF Inv, TypeOK, Usable, Active
  <2>3. QED
    BY <2>1, <2>2, RetireStep DEF HasGrant
<1>3. ASSUME NEW a \in access, AccessExpires(a) PROVE Ledger!Next
  BY <1>3, RetireStep DEF AccessExpires, HasGrant
<1>4. ASSUME NEW u \in users, DeleteUser(u) PROVE Ledger!Next
  <2>1. rows' = Cascade(rows, u) /\ UNCHANGED <<ledger, pc, job>>
    BY <1>4 DEF DeleteUser
  <2>2. \A s \in Token : Usable(rows', s) => Usable(rows, s) /\ rows'[s].chain = rows[s].chain
    BY <2>1, CascadeRows DEF Inv, TypeOK, Usable, Active
  <2>3. QED
    BY <2>1, <2>2, RetireStep DEF HasGrant
<1>5. ASSUME UNCHANGED vars PROVE UNCHANGED Ledger!vars
  BY <1>5 DEF vars, Ledger!vars, SessionLive, SessionGrants, InChain, Usable, Active, Granted
<1>6. QED
  BY <1>1, <1>2, <1>3, <1>4, <1>5 DEF Next

\* However requests interleave and wherever they fail, the service does to its
\* sessions only what SessionLedger allows.
THEOREM Refinement == Spec => ImplementsLedger
BY LedgerInit, Invariance, LedgerStep, PTL DEF Spec, ImplementsLedger, Ledger!Spec

-----------------------------------------------------------------------------
(* What the ledger promises, the service keeps *)

\* No step of the ledger gives a session that is over a token or a grant.
LEMMA OverStep ==
  ASSUME Ledger!Next, NEW s \in Chain, Ledger!Over(s)
  PROVE  Ledger!Over(s)'
<1> USE DEF Ledger!Over
<1> DEFINE opened == {c \in Chain : owner[c] # None}
<1>0. s \in opened /\ SessionLive[s] = {} /\ SessionGrants[s] = {}
  OBVIOUS
<1>1. ASSUME NEW c \in Chain, NEW t \in Token, Ledger!Open(c, t)
      PROVE  s \in opened' /\ SessionLive'[s] = {} /\ SessionGrants'[s] = {}
  BY <1>0, <1>1 DEF Ledger!Open, SessionLive
<1>2. ASSUME NEW c \in Chain, NEW p \in Proc, NEW t \in Token, Ledger!Grant(c, p, t)
      PROVE  s \in opened' /\ SessionLive'[s] = {} /\ SessionGrants'[s] = {}
  BY <1>0, <1>2 DEF Ledger!Grant, SessionGrants
<1>3. ASSUME NEW c \in Chain, NEW p \in Proc, NEW old \in Token, NEW t \in Token,
             Ledger!Mint(c, p, old, t)
      PROVE  s \in opened' /\ SessionLive'[s] = {} /\ SessionGrants'[s] = {}
  BY <1>0, <1>3 DEF Ledger!Mint, SessionLive, SessionGrants
<1>4. ASSUME NEW T \in SUBSET Token, NEW C \in SUBSET Proc, Ledger!Retire(T, C)
      PROVE  s \in opened' /\ SessionLive'[s] = {} /\ SessionGrants'[s] = {}
  BY <1>0, <1>4 DEF Ledger!Retire
<1>5. QED
  BY <1>1, <1>2, <1>3, <1>4 DEF Ledger!Next

\* A session without a live token and without a refresh past its judgement is
\* over for good, whatever late requests do: revocation cannot be undone once
\* the requests it raced with have drained.
THEOREM SessionsEndForGood == Spec => OverIsFinal
<1>1. [Ledger!Next]_(Ledger!vars) =>
        [\A s \in Chain : Ledger!Over(s) => Ledger!Over(s)']_(Ledger!vars)
  BY OverStep
<1>2. QED
  BY <1>1, Refinement, PTL DEF ImplementsLedger, Ledger!Spec, OverIsFinal, Ledger!OverIsFinal

-----------------------------------------------------------------------------
(* Where the sessions meet the access tokens *)

\* Before any login every session is still to be opened.
LEMMA AccessInit == Init => Access!Init
<1> SUFFICES ASSUME Init PROVE Access!Init
  OBVIOUS
<1>1. OpenSessions = Chain
  BY DEF Init, OpenSessions, Ledger!Over
<1>2. Signings = {} /\ Accessible = {}
  BY DEF Init, Signings, Accessible
<1>3. QED
  BY <1>1, <1>2 DEF Access!Init

\* A session that is not open is over, and stays so.
LEMMA OpenShrinks ==
  ASSUME [Ledger!Next]_(Ledger!vars)
  PROVE  OpenSessions' \subseteq OpenSessions
<1> SUFFICES ASSUME NEW s \in Chain, Ledger!Over(s) PROVE Ledger!Over(s)'
  BY DEF OpenSessions
<1>1. CASE Ledger!Next
  BY <1>1, OverStep
<1>2. CASE UNCHANGED Ledger!vars
  BY <1>2 DEF Ledger!vars, Ledger!Over
<1>3. QED
  BY <1>1, <1>2

\* Requests that neither come to Sign nor leave it change nothing about it.
LEMMA SigningsStay ==
  ASSUME \A q \in Proc : pc[q] = "sign" <=> pc'[q] = "sign",
         \A q \in Proc : pc'[q] = "sign" => job'[q].chain = job[q].chain
  PROVE  Signings' = Signings
BY DEF Signings

\* A request that leaves Sign takes its own pair along, and no other's.
LEMMA SigningsLose ==
  ASSUME NEW p \in Proc, pc[p] = "sign", pc'[p] # "sign",
         \A q \in Proc \ {p} : pc'[q] = pc[q] /\ job'[q] = job[q]
  PROVE  /\ <<p, job[p].chain>> \in Signings
         /\ Signings' = Signings \ {<<p, job[p].chain>>}
BY DEF Signings

\* A step that signs nothing can only end sessions.
LEMMA EndStep ==
  ASSUME OpenSessions' \subseteq OpenSessions, Signings' = Signings, access' = access
  PROVE  Access!Next
<1> DEFINE C == OpenSessions \ OpenSessions'
<1>1. Access!End(C)
  BY DEF Access!End, Accessible
<1>2. C \in SUBSET Chain
  BY DEF OpenSessions
<1> HIDE DEF C
<1>3. QED
  BY <1>1, <1>2 DEF Access!Next

\* The sessions an INSERT finds open it leaves open, its own among them.
LEMMA CreateKeepsOpen ==
  ASSUME Inv, NEW p \in Proc, pc[p] = "create",
         NEW t \in Token, NEW c \in JobChains(p), c \in Chain,
         owner' = [owner EXCEPT ![c] = job[p].user],
         SessionLive' = [SessionLive EXCEPT ![c] = @ \cup {t}],
         \A d \in Chain : SessionGrants'[d] = {g \in SessionGrants[d] : g[1] # p}
  PROVE  c \in OpenSessions /\ OpenSessions \subseteq OpenSessions'
<1>1. t \in SessionLive'[c]
  BY DEF SessionLive
<1>2. ASSUME NEW d \in Chain \ {c}, Ledger!Over(d)' PROVE Ledger!Over(d)
  <2>1. owner[d] # None /\ SessionLive[d] = {}
    BY <1>2 DEF Ledger!Over, Inv, TypeOK, SessionLive
  <2>2. job[p].chain # d
    BY NoneAssumption DEF JobChains
  <2>3. SessionGrants'[d] = SessionGrants[d]
    BY <2>2, OwnGrants
  <2>4. QED
    BY <1>2, <2>1, <2>3 DEF Ledger!Over
<1>3. c \in OpenSessions
  <2>1. CASE job[p].chain = None
    BY <2>1 DEF JobChains, OpenSessions, Ledger!Over
  <2>2. CASE job[p].chain # None
    <3>1. <<p, job[p].tok>> \in SessionGrants[c]
      BY <2>2 DEF JobChains, SessionGrants, Granted
    <3>2. QED
      BY <3>1 DEF OpenSessions, Ledger!Over
  <2>3. QED
    BY <2>1, <2>2
<1>4. ~Ledger!Over(c)'
  BY <1>1 DEF Ledger!Over
<1>5. QED
  BY <1>2, <1>3, <1>4 DEF OpenSessions

\* An INSERT whose result arrives is an Issue for an open session; one whose
\* result is lost may end the session of its request.
LEMMA CreateIssues ==
  ASSUME Inv, NEW p \in Proc, Create(p), OpenSessions' \subseteq OpenSessions
  PROVE  Access!Next
<1>1. PICK t \in FreshTokens, c \in JobChains(p) :
        /\ t \in Token \ minted /\ c \in Chain
        /\ owner' = [owner EXCEPT ![c] = job[p].user]
        /\ SessionLive' = [SessionLive EXCEPT ![c] = @ \cup {t}]
        /\ \A d \in Chain : SessionGrants'[d] = {g \in SessionGrants[d] : g[1] # p}
        /\ \A q \in Proc \ {p} : pc'[q] = pc[q] /\ job'[q] = job[q]
        /\ pc'[p] = "idle" \/ (pc'[p] = "sign" /\ job'[p].chain = c)
  BY CreateEffect
<1>2. pc[p] = "create" /\ access' = access
  BY DEF Create, clients
<1>3. CASE pc'[p] = "idle"
  <2>1. Signings' = Signings
    BY <1>1, <1>2, <1>3, SigningsStay
  <2>2. QED
    BY <1>2, <2>1, EndStep
<1>4. CASE pc'[p] = "sign" /\ job'[p].chain = c
  <2>1. Signings' = Signings \cup {<<p, c>>}
    BY <1>1, <1>2, <1>4 DEF Signings
  <2>2. c \in OpenSessions /\ OpenSessions' = OpenSessions
    BY <1>1, <1>2, CreateKeepsOpen
  <2>3. Access!Issue(p, c)
    BY <1>2, <2>1, <2>2 DEF Access!Issue, Accessible
  <2>4. QED
    BY <1>1, <2>3 DEF Access!Next
<1>5. QED
  BY <1>1, <1>3, <1>4

\* A request that neither inserts nor signs.
LEMMA SigningsOfOthers ==
  ASSUME Inv, NEW p \in Proc, pc[p] # "sign",
         NEW l \in Label \ {"sign"}, NEW j \in Job, Goto(p, l, j)
  PROVE  Signings' = Signings
<1>1. /\ pc'[p] # "sign"
      /\ \A q \in Proc \ {p} : pc'[q] = pc[q] /\ job'[q] = job[q]
  BY GotoEffect DEF Inv
<1>2. QED
  BY <1>1, SigningsStay

\* A request at Sign grants nothing, so its end ends no session.
LEMMA SignLeavesOpen ==
  ASSUME Inv, NEW p \in Proc, pc[p] = "sign", Return(p), UNCHANGED <<rows, ledger>>
  PROVE  OpenSessions' = OpenSessions
<1>1. pc'[p] = "idle" /\ \A q \in Proc \ {p} : pc'[q] = pc[q] /\ job'[q] = job[q]
  BY ReturnEffect DEF Inv
<1>2. SessionLive' = SessionLive
  BY DEF SessionLive, InChain, Usable, Active
<1>3. ASSUME NEW d \in Chain PROVE SessionGrants'[d] = SessionGrants[d]
  <2>1. SessionGrants[d] = {<<r, job[r].tok>> : r \in {q \in Proc : pc[q] \in Granted /\ job[q].chain = d}}
    BY DEF SessionGrants
  <2>2. SessionGrants'[d] = {<<r, job'[r].tok>> : r \in {q \in Proc : pc'[q] \in Granted /\ job'[q].chain = d}}
    BY DEF SessionGrants, Granted
  <2>3. pc[p] \notin Granted /\ pc'[p] \notin Granted
    BY <1>1 DEF Granted
  <2>4. QED
    BY <1>1, <2>1, <2>2, <2>3
<1>4. QED
  BY <1>2, <1>3 DEF OpenSessions, Ledger!Over, ledger

\* Every statement of a request issues, signs, gives up or ends sessions.
LEMMA ServeAccess ==
  ASSUME Inv, OpenSessions' \subseteq OpenSessions, NEW p \in Proc, Serve(p)
  PROVE  Access!Next
<1> USE DEF Label
<1>0. job[p] \in Job /\ NoJob \in Job
  BY DEF Inv, TypeOK, NoJob, Job, MaybeToken
<1>1. ASSUME pc[p] # "sign", access' = access,
             NEW l \in Label \ {"sign"}, NEW j \in Job, Goto(p, l, j)
      PROVE  Access!Next
  BY <1>1, SigningsOfOthers, EndStep
<1>2. ASSUME pc[p] # "sign", access' = access, Return(p) PROVE Access!Next
  BY <1>0, <1>1, <1>2 DEF Return
<1>3. ASSUME NEW u \in User, Login(p, u) PROVE Access!Next
  <2> DEFINE j == [NoJob EXCEPT !.user = u]
  <2>1. j \in Job
    BY DEF NoJob, Job, MaybeToken
  <2> HIDE DEF j
  <2>2. QED
    BY <1>1, <1>3, <2>1 DEF Login, clients, j
<1>4. ASSUME NEW t \in held, Refresh(p, t) PROVE Access!Next
  <2>1. t \in Token /\ rows[t] # None
    BY <1>4 DEF Refresh, Inv, TypeOK
  <2>2. RowJob(t) \in Job
    BY <2>1, RowJobFields
  <2>3. QED
    BY <1>1, <1>4, <2>2 DEF Refresh, clients
<1>5. ASSUME RevokeChain(p) PROVE Access!Next
  BY <1>2, <1>5 DEF RevokeChain, clients
<1>6. ASSUME RevokeOld(p) PROVE Access!Next
  BY <1>0, <1>1, <1>2, <1>6 DEF RevokeOld, clients
<1>7. ASSUME Create(p) PROVE Access!Next
  BY <1>7, CreateIssues
<1>8. ASSUME Sign(p) PROVE Access!Next
  <2>0. PICK c \in Chain : c = job[p].chain
    BY <1>8 DEF Sign, Inv, JobsMatchLabels
  <2>1. pc[p] = "sign" /\ access' = access \cup {<<job[p].user, c>>}
    BY <1>8, <2>0 DEF Sign
  <2>2. OpenSessions' = OpenSessions
    BY <1>8, SignLeavesOpen DEF Sign
  <2>3. pc'[p] = "idle" /\ \A q \in Proc \ {p} : pc'[q] = pc[q] /\ job'[q] = job[q]
    BY <1>8, ReturnEffect DEF Sign, Inv
  <2>4. <<p, c>> \in Signings /\ Signings' = Signings \ {<<p, c>>}
    BY <2>0, <2>1, <2>3, SigningsLose
  <2>5. Accessible' = Accessible \cup {c}
    <3>1. PICK u : u = job[p].user
      OBVIOUS
    <3>2. access' = access \cup {<<u, c>>} /\ <<u, c>>[2] = c
      BY <2>1, <3>1
    <3>3. ASSUME NEW x \in Accessible' PROVE x \in Accessible \cup {c}
      BY <3>2, <3>3 DEF Accessible
    <3>4. ASSUME NEW x \in Accessible \cup {c} PROVE x \in Accessible'
      BY <3>2, <3>4 DEF Accessible
    <3>5. QED
      BY <3>3, <3>4
  <2>6. Access!Sign(p, c)
    BY <2>2, <2>4, <2>5 DEF Access!Sign
  <2>7. QED
    BY <2>6 DEF Access!Next
<1>9. ASSUME NEW t \in held, Logout(p, t) PROVE Access!Next
  <2>1. t \in Token /\ pc[p] = "idle" /\ access' = access
    BY <1>9 DEF Logout, clients, Inv, TypeOK
  <2>2. CASE rows[t] # None /\ Goto(p, "logout_revoke", RowJob(t))
    <3>1. RowJob(t) \in Job
      BY <2>1, <2>2, RowJobFields
    <3>2. QED
      BY <1>1, <2>1, <2>2, <3>1
  <2>3. CASE UNCHANGED <<pc, job>>
    BY <2>1, <2>3, SigningsStay, EndStep
  <2>4. QED
    BY <1>9, <2>2, <2>3 DEF Logout
<1>10. ASSUME LogoutRevoke(p) PROVE Access!Next
  BY <1>2, <1>10 DEF LogoutRevoke, clients
<1>11. ASSUME NEW a \in access, LogoutAll(p, a) PROVE Access!Next
  <2> DEFINE j == [NoJob EXCEPT !.user = a[1]]
  <2>1. j \in Job
    BY DEF NoJob, Job, MaybeToken, Inv, TypeOK
  <2> HIDE DEF j
  <2>2. QED
    BY <1>1, <1>11, <2>1 DEF LogoutAll, clients, j
<1>12. ASSUME RevokeAll(p) PROVE Access!Next
  BY <1>2, <1>12 DEF RevokeAll, clients
<1>13. ASSUME Abandon(p) PROVE Access!Next
  <2>1. CASE pc[p] # "sign"
    BY <1>2, <1>13, <2>1 DEF Abandon, clients
  <2>2. CASE pc[p] = "sign"
    <3> DEFINE R == {<<p, job[p].chain>>}
    <3>1. OpenSessions' = OpenSessions
      BY <1>13, <2>2, SignLeavesOpen DEF Abandon
    <3>2. pc'[p] = "idle" /\ \A q \in Proc \ {p} : pc'[q] = pc[q] /\ job'[q] = job[q]
      BY <1>13, ReturnEffect DEF Abandon, Inv
    <3>3. R \in SUBSET Signings /\ Signings' = Signings \ R
      BY <2>2, <3>2, SigningsLose
    <3>4. Accessible' = Accessible
      BY <1>13 DEF Abandon, clients, Accessible
    <3> HIDE DEF R
    <3>5. Access!Abandon(R)
      BY <3>1, <3>3, <3>4 DEF Access!Abandon
    <3>6. QED
      BY <3>3, <3>5 DEF Access!Next
  <2>3. QED
    BY <2>1, <2>2
<1>14. QED
  BY <1>3, <1>4, <1>5, <1>6, <1>7, <1>8, <1>9, <1>10, <1>11, <1>12, <1>13 DEF Serve

\* Every step of the service is one AccessTokens reckons with.
LEMMA AccessStep ==
  Inv /\ [Ledger!Next]_(Ledger!vars) /\ [Next]_vars => [Access!Next]_(Access!vars)
<1> SUFFICES ASSUME Inv, [Ledger!Next]_(Ledger!vars), [Next]_vars
             PROVE  [Access!Next]_(Access!vars)
  OBVIOUS
<1>1. OpenSessions' \subseteq OpenSessions
  BY OpenShrinks
<1>2. ASSUME NEW p \in Proc, Serve(p) PROVE Access!Next
  BY <1>1, <1>2, ServeAccess
<1>3. ASSUME NEW t \in Token, TokenExpires(t) PROVE Access!Next
  BY <1>1, <1>3, SigningsStay, EndStep DEF TokenExpires, clients
<1>4. ASSUME NEW a \in access, AccessExpires(a) PROVE [Access!Next]_(Access!vars)
  <2>1. a[2] \in Chain
    BY DEF Inv, TypeOK
  <2>2. Accessible' = Accessible \ {a[2]} \/ Accessible' = Accessible
    BY <1>4 DEF AccessExpires, Accessible
  <2>3. OpenSessions' = OpenSessions /\ Signings' = Signings
    BY <1>4 DEF AccessExpires, ledger, OpenSessions, Ledger!Over, Signings, SessionLive,
                SessionGrants, InChain, Usable, Active, Granted
  <2>4. QED
    BY <2>1, <2>2, <2>3 DEF Access!Next, Access!Expire, Access!vars
<1>5. ASSUME NEW u \in users, DeleteUser(u) PROVE Access!Next
  BY <1>1, <1>5, SigningsStay, EndStep DEF DeleteUser, clients
<1>6. ASSUME UNCHANGED vars PROVE UNCHANGED Access!vars
  BY <1>6 DEF vars, Access!vars, OpenSessions, Ledger!Over, Signings, Accessible, SessionLive,
              SessionGrants, InChain, Usable, Active, Granted
<1>7. QED
  BY <1>2, <1>3, <1>4, <1>5, <1>6 DEF Next

\* The service keeps what AccessTokens assumes of it, so what is shown there of
\* clocks and secrets holds of the sessions as they really begin and end.
THEOREM AccessRefinement == Spec => ImplementsAccess
<1>1. Spec => [][Ledger!Next]_(Ledger!vars)
  BY Refinement, PTL DEF ImplementsLedger, Ledger!Spec
<1>2. QED
  BY <1>1, AccessInit, Invariance, AccessStep, PTL DEF Spec, ImplementsAccess, Access!Spec

\* No step brings a session back that nobody can sign for any more.
LEMMA QuietStep ==
  ASSUME Access!Next, NEW c \in Chain, Access!Quiet(c)
  PROVE  Access!Quiet(c)' /\ (c \in Accessible' => c \in Accessible)
<1>1. ASSUME NEW r \in Proc, NEW d \in Chain, Access!Issue(r, d) \/ Access!Sign(r, d)
      PROVE  d # c /\ OpenSessions' = OpenSessions /\ Signings' \subseteq Signings \cup {<<r, d>>}
             /\ Accessible' \subseteq Accessible \cup {d}
  BY <1>1 DEF Access!Issue, Access!Sign, Access!Quiet
<1>2. ASSUME NEW C \in SUBSET Chain, Access!End(C)
      PROVE  OpenSessions' \subseteq OpenSessions /\ UNCHANGED <<Signings, Accessible>>
  BY <1>2 DEF Access!End
<1>3. ASSUME NEW R \in SUBSET Signings, Access!Abandon(R)
      PROVE  Signings' \subseteq Signings /\ UNCHANGED <<OpenSessions, Accessible>>
  BY <1>3 DEF Access!Abandon
<1>4. ASSUME NEW d \in Chain, Access!Expire(d)
      PROVE  Accessible' \subseteq Accessible /\ UNCHANGED <<OpenSessions, Signings>>
  BY <1>4 DEF Access!Expire
<1>5. QED
  BY <1>1, <1>2, <1>3, <1>4 DEF Access!Next, Access!Quiet

\* Once a session has ended and no request stands between its INSERT and Sign,
\* nobody gets an access token of it again, in whatever order the rest comes.
THEOREM NobodySignsForQuiet == Spec => QuietIsFinal
<1>1. [Access!Next]_(Access!vars) =>
        [\A c \in Chain : Access!Quiet(c) =>
           Access!Quiet(c)' /\ (c \in Accessible' => c \in Accessible)]_(Access!vars)
  BY QuietStep
<1>2. QED
  BY <1>1, AccessRefinement, PTL DEF ImplementsAccess, Access!Spec, QuietIsFinal, Access!QuietIsFinal

-----------------------------------------------------------------------------
(* One request at a time *)

OneAtATime == \A p, q \in Proc : p = q

\* No request but that of p is under way.
Alone(p) == \A q \in Proc \ {p} : pc[q] = "idle"

ActiveIn(c) == {t \in InChain(rows, c) : Active(rows, t)}

\* The client of session c was told that it is over.
Ended(c) == <<"session_revoked", c>> \in told \/ <<"logged_out_all", c>> \in told

\* Between its UPDATE and its INSERT a refresh leaves its session without an
\* active token, and before the UPDATE with no other than the one it presents.
SequentialInv ==
  /\ OneActivePerSession
  /\ \A p \in Proc : \A c \in Chain : job[p].chain = c =>
       /\ pc[p] = "revoke_old" => ActiveIn(c) \subseteq {job[p].tok}
       /\ pc[p] = "create" => ActiveIn(c) = {}
  /\ \A c \in Chain : Ended(c) =>
       /\ owner[c] # None
       /\ ActiveIn(c) = {}
       /\ \A p \in Proc : pc[p] \in Granted => job[p].chain # c

\* The active tokens of a session only get fewer when rows shrink.
LEMMA ShrinkActive ==
  ASSUME RowsShrink
  PROVE  \A c \in Chain : ActiveIn(c)' \subseteq ActiveIn(c)
BY DEF RowsShrink, ActiveIn, InChain, Active

\* SequentialInv survives a step that mints nothing, grants nothing and tells
\* nobody anything new.
LEMMA ShrinkKeepsSequential ==
  ASSUME SequentialInv, RowsShrink, UNCHANGED ledger,
         \A c \in Chain : Ended(c)' => Ended(c),
         \A q \in Proc : pc'[q] \in Granted /\ job'[q].chain \in Chain =>
                           pc'[q] = pc[q] /\ job'[q] = job[q]
  PROVE  SequentialInv'
<1>1. \A c \in Chain : ActiveIn(c)' \subseteq ActiveIn(c)
  BY ShrinkActive
<1>2. OneActivePerSession'
  BY <1>1 DEF SequentialInv, OneActivePerSession, ActiveIn
<1>3. \A p \in Proc : \A c \in Chain : job'[p].chain = c =>
       /\ pc'[p] = "revoke_old" => ActiveIn(c)' \subseteq {job'[p].tok}
       /\ pc'[p] = "create" => ActiveIn(c)' = {}
  BY <1>1 DEF SequentialInv, Granted
<1>4. ASSUME NEW c \in Chain, Ended(c)'
      PROVE  /\ owner'[c] # None /\ ActiveIn(c)' = {}
             /\ \A p \in Proc : pc'[p] \in Granted => job'[p].chain # c
  BY <1>1, <1>4 DEF SequentialInv, ledger
<1>5. QED
  BY <1>2, <1>3, <1>4 DEF SequentialInv, Granted

\* Statements that take sessions away and tell the client so: afterwards no
\* session in S has an active token, and the one request under way has ended.
LEMMA EndKeepsSequential ==
  ASSUME Inv, SequentialInv, NEW p \in Proc, Alone(p), Return(p),
         NEW ids, rows' = Revoke(rows, ids), UNCHANGED <<users, ledger>>,
         NEW S \in SUBSET Chain,
         \A c \in S : owner[c] # None /\ InChain(rows, c) \subseteq ids,
         \A c \in Chain : Ended(c)' => Ended(c) \/ c \in S
  PROVE  SequentialInv'
<1>1. RowsShrink
  BY RevokeShrinks
<1>2. \A q \in Proc : pc'[q] = "idle"
  BY ReturnEffect DEF Inv, Alone
<1>3. \A c \in Chain : ActiveIn(c)' \subseteq ActiveIn(c)
  BY <1>1, ShrinkActive
<1>4. \A c \in S : ActiveIn(c)' = {}
  BY <1>3, RevokeRows DEF ActiveIn, InChain, Inv, TypeOK, Active
<1>5. OneActivePerSession'
  BY <1>3 DEF SequentialInv, OneActivePerSession, ActiveIn
<1>6. \A c \in Chain : Ended(c)' => owner'[c] # None /\ ActiveIn(c)' = {}
  BY <1>3, <1>4 DEF SequentialInv, ledger
<1>7. QED
  BY <1>2, <1>5, <1>6 DEF SequentialInv, Granted

\* The INSERT gives its session the one active token it may have.
LEMMA CreateKeepsSequential ==
  ASSUME Inv, SequentialInv, NEW p \in Proc, Alone(p), Create(p)
  PROVE  SequentialInv'
<1> DEFINE u == job[p].user
<1>1. PICK t \in FreshTokens, c \in JobChains(p) :
        /\ rows' = Insert(rows, t, u, c)
        /\ owner' = [owner EXCEPT ![c] = u]
        /\ Goto(p, "sign", [job[p] EXCEPT !.tok = t, !.chain = c]) \/ Return(p)
  BY DEF Create
<1>2. /\ t \in Token \ minted /\ u \in User /\ pc[p] = "create" /\ told' = told
      /\ job[p] \in Job
  BY DEF Inv, TypeOK, Job, JobsMatchLabels, Create, FreshTokens
<1>3. c \in Chain
  BY DEF Inv, TypeOK, Job, JobChains
<1>4. \A q \in Proc : pc'[q] \notin Granted
  <2> DEFINE j == [job[p] EXCEPT !.tok = t, !.chain = c]
  <2>1. j \in Job
    BY <1>2, <1>3 DEF Job, MaybeToken
  <2> HIDE DEF j
  <2>2. CASE Goto(p, "sign", j)
    BY <2>1, <2>2, GotoEffect DEF Inv, Label, Granted, Alone
  <2>3. CASE Return(p)
    BY <2>3, ReturnEffect DEF Inv, Granted, Alone
  <2>4. QED
    BY <1>1, <2>2, <2>3 DEF j
<1>5. /\ \A s \in Token \ {t} : rows'[s] = rows[s]
      /\ rows'[t].chain = c /\ rows'[t] # None
  BY <1>1, <1>2, <1>3, InsertRows DEF Inv, TypeOK
<1>6. \A d \in Chain \ {c} : ActiveIn(d)' \subseteq ActiveIn(d)
  BY <1>5 DEF ActiveIn, InChain, Active
<1>7. ActiveIn(c)' \subseteq ActiveIn(c) \cup {t}
  BY <1>5 DEF ActiveIn, InChain, Active
<1>8. ActiveIn(c) = {} /\ ~Ended(c)
  <2>1. CASE job[p].chain = None
    <3>1. owner[c] = None
      BY <2>1 DEF JobChains
    <3>2. ASSUME NEW s \in ActiveIn(c) PROVE FALSE
      <4>1. s \in Token /\ rows[s] # None /\ rows[s].chain = c
        BY <3>2 DEF ActiveIn, InChain
      <4>2. rows[s].user \in User /\ rows[s].user = None
        BY <3>1, <4>1, RowFields DEF Inv, TypeOK, SessionsKeepTheirOwner
      <4>3. QED
        BY <4>2, NoneAssumption
    <3>3. QED
      BY <1>3, <3>1, <3>2 DEF SequentialInv
  <2>2. CASE job[p].chain # None
    BY <1>2, <1>3, <2>2 DEF JobChains, SequentialInv, Granted
  <2>3. QED
    BY <2>1, <2>2
<1>9. OneActivePerSession'
  <2>1. \A d \in Chain : \A s, r \in ActiveIn(d) : s = r
    BY DEF SequentialInv, OneActivePerSession, ActiveIn
  <2>2. \A d \in Chain : \A s, r \in ActiveIn(d)' : s = r
    BY <1>6, <1>7, <1>8, <2>1
  <2>3. QED
    BY <2>2 DEF OneActivePerSession, ActiveIn
<1>10. \A d \in Chain : Ended(d)' => owner'[d] # None /\ ActiveIn(d)' = {}
  BY <1>1, <1>2, <1>3, <1>6, <1>8 DEF SequentialInv, Ended, Inv, TypeOK
<1>11. QED
  BY <1>4, <1>9, <1>10 DEF SequentialInv, Granted

\* An accepted refresh presents the one active token of its session, and the
\* session has not ended.
LEMMA GrantKeepsSequential ==
  ASSUME Inv, SequentialInv, NEW p \in Proc, Alone(p), NEW t \in Token, Usable(rows, t),
         Goto(p, "revoke_old", RowJob(t)), UNCHANGED <<users, rows, ledger, told>>
  PROVE  SequentialInv'
<1> DEFINE s == rows[t].chain
<1>1. /\ s \in Chain /\ rows[t] # None
      /\ pc'[p] = "revoke_old" /\ job'[p].tok = t /\ job'[p].chain = s
      /\ \A q \in Proc \ {p} : pc'[q] = "idle"
  BY RowJobFields, GotoEffect DEF Usable, Active, Inv, Label, Alone
<1>2. t \in ActiveIn(s)
  BY <1>1 DEF ActiveIn, InChain, Usable
<1>3. ActiveIn(s) \subseteq {t} /\ ~Ended(s)
  BY <1>1, <1>2 DEF SequentialInv, OneActivePerSession, ActiveIn
<1>4. \A c \in Chain : ActiveIn(c)' = ActiveIn(c) /\ (Ended(c)' <=> Ended(c))
  BY DEF ActiveIn, InChain, Active, Ended
<1>5. OneActivePerSession'
  BY DEF SequentialInv, OneActivePerSession, InChain, Active
<1>6. QED
  BY <1>1, <1>3, <1>4, <1>5 DEF SequentialInv, Granted, ledger

\* Every statement of the one request keeps SequentialInv.
LEMMA ServeKeepsSequential ==
  ASSUME Inv, SequentialInv, NEW p \in Proc, Alone(p), Serve(p)
  PROVE  SequentialInv'
<1> USE DEF Label
<1>0. NoJob.chain = None /\ None \notin Chain
  BY NoneAssumption DEF NoJob
<1>1. ASSUME NEW ids, rows' \in {rows, Revoke(rows, ids)}, UNCHANGED <<users, ledger>>,
             \A c \in Chain : Ended(c)' => Ended(c),
             \A q \in Proc : pc'[q] \in Granted /\ job'[q].chain \in Chain =>
                               pc'[q] = pc[q] /\ job'[q] = job[q]
      PROVE  SequentialInv'
  BY <1>1, RevokeShrinks, ShrinkKeepsSequential
<1>2. ASSUME NEW l \in Label, NEW j \in Job, Goto(p, l, j), l \notin Granted \/ j.chain = None
      PROVE  \A q \in Proc : pc'[q] \in Granted /\ job'[q].chain \in Chain =>
                               pc'[q] = pc[q] /\ job'[q] = job[q]
  BY <1>0, <1>2, GotoEffect DEF Inv
<1>3. ASSUME Return(p)
      PROVE  \A q \in Proc : pc'[q] \in Granted /\ job'[q].chain \in Chain =>
                               pc'[q] = pc[q] /\ job'[q] = job[q]
  BY <1>3, ReturnEffect DEF Inv, Granted
<1>4. ASSUME UNCHANGED told PROVE \A c \in Chain : Ended(c)' => Ended(c)
  BY <1>4 DEF Ended
<1>5. ASSUME NEW t \in Token, LoggedOut(t) PROVE \A c \in Chain : Ended(c)' => Ended(c)
  BY <1>5 DEF Ended, LoggedOut
<1>6. ASSUME NEW u \in User, Login(p, u) PROVE SequentialInv'
  <2> DEFINE j == [NoJob EXCEPT !.user = u]
  <2>1. j \in Job /\ j.chain = None
    BY DEF NoJob, Job, MaybeToken
  <2>2. Goto(p, "create", j) /\ UNCHANGED <<users, rows, ledger, told>>
    BY <1>6 DEF Login
  <2> HIDE DEF j
  <2>3. QED
    BY <1>1, <1>2, <1>4, <2>1, <2>2
<1>7. ASSUME NEW t \in held, Refresh(p, t) PROVE SequentialInv'
  <2>1. t \in Token /\ rows[t] # None /\ UNCHANGED <<users, rows, ledger, told>>
    BY <1>7 DEF Refresh, Inv, TypeOK
  <2>2. CASE Goto(p, "revoke_chain", RowJob(t))
    BY <1>1, <1>2, <1>4, <2>1, <2>2, RowJobFields DEF Granted
  <2>3. CASE Usable(rows, t) /\ Goto(p, "revoke_old", RowJob(t))
    BY <2>1, <2>3, GrantKeepsSequential
  <2>4. QED
    BY <1>7, <2>2, <2>3 DEF Refresh
<1>8. ASSUME RevokeChain(p) PROVE SequentialInv'
  <2>1. job[p].chain \in Chain /\ owner[job[p].chain] = job[p].user /\ job[p].user \in User
    BY <1>8, NoneAssumption
       DEF RevokeChain, Inv, JobsMatchLabels, SessionsKeepTheirOwner
  <2> DEFINE S == {job[p].chain}
             ids == InChain(rows, job[p].chain)
  <2>2. Return(p) /\ rows' = Revoke(rows, ids) /\ UNCHANGED <<users, ledger>>
    BY <1>8 DEF RevokeChain
  <2>3. \A c \in Chain : Ended(c)' => Ended(c) \/ c \in S
    BY <1>8 DEF RevokeChain, Ended
  <2>4. S \in SUBSET Chain /\ \A c \in S : owner[c] # None /\ InChain(rows, c) \subseteq ids
    BY <2>1, NoneAssumption
  <2> HIDE DEF S, ids
  <2>5. QED
    BY <2>2, <2>3, <2>4, EndKeepsSequential
<1>9. ASSUME RevokeOld(p) PROVE SequentialInv'
  <2>1. CASE Return(p)
    BY <1>1, <1>3, <1>4, <1>9, <2>1 DEF RevokeOld
  <2>2. CASE Goto(p, "create", job[p])
    <3>1. /\ job[p] \in Job /\ pc[p] = "revoke_old" /\ job[p].chain \in Chain
          /\ rows' = Revoke(rows, {job[p].tok}) /\ UNCHANGED <<users, ledger, told>>
      BY <1>9 DEF RevokeOld, Inv, TypeOK, JobsMatchLabels
    <3>2. /\ pc'[p] = "create" /\ job'[p] = job[p]
          /\ \A q \in Proc \ {p} : pc'[q] = "idle"
      BY <2>2, <3>1, GotoEffect DEF Inv, Alone
    <3>3. \A c \in Chain : ActiveIn(c)' \subseteq ActiveIn(c)
      BY <3>1, RevokeShrinks, ShrinkActive
    <3>4. ActiveIn(job[p].chain) \subseteq {job[p].tok}
      BY <3>1 DEF SequentialInv
    <3>5. \A s \in Token : Active(rows', s) => s # job[p].tok
      BY <3>1, RevokeRows DEF Inv, TypeOK
    <3>6. \A s \in ActiveIn(job[p].chain)' : s \in Token /\ Active(rows', s)
      BY <3>2 DEF ActiveIn, InChain, Active
    <3>7. \A c \in Chain : job[p].chain = c => ActiveIn(c)' = {}
      BY <3>3, <3>4, <3>5 DEF ActiveIn, InChain, Active
    <3>8. OneActivePerSession'
      BY <3>3 DEF SequentialInv, OneActivePerSession, ActiveIn
    <3>9. \A c \in Chain : Ended(c)' =>
            /\ owner'[c] # None /\ ActiveIn(c)' = {}
            /\ job'[p].chain # c
      BY <3>1, <3>2, <3>3, <1>4 DEF SequentialInv, ledger, Granted
    <3>10. QED
      BY <3>2, <3>7, <3>8, <3>9 DEF SequentialInv, Granted
  <2>3. QED
    BY <1>9, <2>1, <2>2 DEF RevokeOld
<1>10. ASSUME Create(p) PROVE SequentialInv'
  BY <1>10, CreateKeepsSequential
<1>11. ASSUME Sign(p) PROVE SequentialInv'
  BY <1>1, <1>3, <1>4, <1>11 DEF Sign
<1>12. ASSUME NEW t \in held, Logout(p, t) PROVE SequentialInv'
  <2>1. t \in Token /\ UNCHANGED <<users, rows, ledger>>
    BY <1>12 DEF Logout, Inv, TypeOK
  <2>2. CASE rows[t] # None /\ Goto(p, "logout_revoke", RowJob(t)) /\ UNCHANGED told
    BY <1>1, <1>2, <1>4, <2>1, <2>2, RowJobFields DEF Granted
  <2>3. CASE LoggedOut(t) /\ UNCHANGED <<pc, job>>
    BY <1>1, <1>5, <2>1, <2>3
  <2>4. QED
    BY <1>12, <2>2, <2>3 DEF Logout
<1>13. ASSUME LogoutRevoke(p) PROVE SequentialInv'
  <2>1. job[p].tok \in Token
    BY <1>13 DEF LogoutRevoke, Inv, TypeOK, JobsMatchLabels
  <2>2. QED
    BY <1>1, <1>3, <1>5, <1>13, <2>1 DEF LogoutRevoke
<1>14. ASSUME NEW a \in access, LogoutAll(p, a) PROVE SequentialInv'
  <2> DEFINE j == [NoJob EXCEPT !.user = a[1]]
  <2>1. j \in Job /\ j.chain = None
    BY DEF NoJob, Job, MaybeToken, Inv, TypeOK
  <2>2. Goto(p, "revoke_all", j) /\ UNCHANGED <<users, rows, ledger, told>>
    BY <1>14 DEF LogoutAll
  <2> HIDE DEF j
  <2>3. QED
    BY <1>1, <1>2, <1>4, <2>1, <2>2 DEF Granted
<1>15. ASSUME RevokeAll(p) PROVE SequentialInv'
  <2> DEFINE S == {c \in Chain : owner[c] = job[p].user}
             ids == OfUser(rows, job[p].user)
  <2>1. Return(p) /\ rows' = Revoke(rows, ids) /\ UNCHANGED <<users, ledger>>
    BY <1>15 DEF RevokeAll
  <2>2. job[p].user \in User
    BY <1>15 DEF RevokeAll, Inv, JobsMatchLabels
  <2>3. \A c \in Chain : Ended(c)' => Ended(c) \/ c \in S
    BY <1>15 DEF RevokeAll, Ended
  <2>4. \A c \in S : owner[c] # None /\ InChain(rows, c) \subseteq ids
    BY <2>2, NoneAssumption DEF InChain, OfUser, Inv, SessionsKeepTheirOwner
  <2>5. S \in SUBSET Chain
    OBVIOUS
  <2> HIDE DEF S, ids
  <2>6. QED
    BY <2>1, <2>3, <2>4, <2>5, EndKeepsSequential
<1>16. ASSUME Abandon(p) PROVE SequentialInv'
  BY <1>1, <1>3, <1>4, <1>16 DEF Abandon
<1>17. QED
  BY <1>6, <1>7, <1>8, <1>9, <1>10, <1>11, <1>12, <1>13, <1>14, <1>15, <1>16 DEF Serve

\* Without rows and requests every session is in order.
LEMMA SequentialInit == Init => SequentialInv
<1> SUFFICES ASSUME Init PROVE SequentialInv
  OBVIOUS
<1>1. \A c \in Chain : InChain(rows, c) = {}
  BY EmptyTableRows DEF Init, InChain
<1>2. QED
  BY <1>1 DEF Init, SequentialInv, OneActivePerSession, Ended, Granted

\* What happens around the requests keeps SequentialInv.
LEMMA SurroundingsKeepSequential ==
  ASSUME Inv, SequentialInv,
         \/ \E t \in Token : TokenExpires(t)
         \/ \E a \in access : AccessExpires(a)
         \/ \E u \in users : DeleteUser(u)
         \/ UNCHANGED vars
  PROVE  SequentialInv'
<1>1. ASSUME RowsShrink, UNCHANGED <<ledger, told, pc, job>> PROVE SequentialInv'
  BY <1>1, ShrinkKeepsSequential DEF Ended
<1>2. \A s \in Token : rows[s] # None => rows[s].user \in users
  BY DEF Inv, SessionsKeepTheirOwner
<1>3. ASSUME NEW t \in Token, TokenExpires(t) PROVE SequentialInv'
  <2>1. /\ rows' = Expire(rows, t) /\ rows[t] # None
        /\ UNCHANGED <<users, ledger, told, pc, job>>
    BY <1>3 DEF TokenExpires, Usable, Active
  <2>2. RowsShrink
    BY <1>2, <2>1, ExpireRows DEF Inv, TypeOK, RowsShrink
  <2>3. QED
    BY <1>1, <2>1, <2>2
<1>4. ASSUME NEW a \in access, AccessExpires(a) PROVE SequentialInv'
  <2>1. UNCHANGED <<users, rows, ledger, told, pc, job>>
    BY <1>4 DEF AccessExpires
  <2>2. RowsShrink
    BY <1>2, <2>1 DEF Inv, TypeOK, RowsShrink
  <2>3. QED
    BY <1>1, <2>1, <2>2
<1>5. ASSUME NEW u \in users, DeleteUser(u) PROVE SequentialInv'
  <2>1. /\ rows' = Cascade(rows, u) /\ users' = users \ {u}
        /\ UNCHANGED <<ledger, told, pc, job>>
    BY <1>5 DEF DeleteUser
  <2>2. RowsShrink
    BY <1>2, <2>1, CascadeRows DEF Inv, TypeOK, RowsShrink, Active
  <2>3. QED
    BY <1>1, <2>1, <2>2
<1>6. ASSUME UNCHANGED vars PROVE SequentialInv'
  BY <1>6 DEF vars, SequentialInv, OneActivePerSession, ActiveIn, InChain, Active, Ended, Granted
<1>7. QED
  BY <1>3, <1>4, <1>5, <1>6

\* With one request at a time every step keeps sessions in order.
LEMMA SequentialStep ==
  ASSUME OneAtATime, Inv, SequentialInv, [Next]_vars
  PROVE  SequentialInv'
BY ServeKeepsSequential, SurroundingsKeepSequential DEF OneAtATime, Alone, Next

\* As long as requests come one at a time a session has one active token, and
\* an answer that says a session is over is true from then on: what the README
\* promises of reuse detection and of logout-all, which racing requests break.
THEOREM OneAtATimeIsSafe ==
  ASSUME OneAtATime
  PROVE  Spec => [](OneActivePerSession /\ ReuseEndsSession /\ LogoutAllEndsSessions)
<1>1. SequentialInv => OneActivePerSession /\ ReuseEndsSession /\ LogoutAllEndsSessions
  BY DEF SequentialInv, ReuseEndsSession, LogoutAllEndsSessions, Ended, ActiveIn
<1>2. Inv /\ SequentialInv /\ [Next]_vars => SequentialInv'
  BY SequentialStep
<1>3. QED
  BY <1>1, <1>2, SequentialInit, Invariance, PTL DEF Spec
=============================================================================
