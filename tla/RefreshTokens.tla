---------------------------- MODULE RefreshTokens ----------------------------
(***************************************************************************)
(* The refresh_tokens table and the statements the repository runs on it   *)
(* (db/queries/refresh_token.sql, migrations/00002_refresh_tokens.sql).    *)
(* A table maps every token to its row, or to None.  One identity stands   *)
(* for a token's plaintext, its SHA-256 hash and its row id: the plaintext *)
(* is 32 random bytes and token_hash is UNIQUE, so they pair up one to     *)
(* one.  Timestamps are abstracted to what the code asks of them: whether  *)
(* revoked_at is set and whether the clock has passed expires_at.          *)
(***************************************************************************)
CONSTANTS User, Chain, Token, None

Row == [user: User, chain: Chain, revoked: BOOLEAN, expired: BOOLEAN]

ASSUME NoneAssumption == None \notin User \cup Chain \cup Token \cup Row

Table == [Token -> Row \cup {None}]

EmptyTable == [t \in Token |-> None]

\* revoked_at IS NULL: what the SQL and the comments call an active token.
Active(table, t) == table[t] # None /\ ~table[t].revoked

\* What GetByHash must find for Refresh to go on to rotate the token.
Usable(table, t) == Active(table, t) /\ ~table[t].expired

InChain(table, c) == {t \in Token : table[t] # None /\ table[t].chain = c}

OfUser(table, u) == {t \in Token : table[t] # None /\ table[t].user = u}

Insert(table, t, u, c) ==
  [table EXCEPT ![t] = [user |-> u, chain |-> c, revoked |-> FALSE, expired |-> FALSE]]

\* The one UPDATE behind RevokeRefreshToken, RevokeChain and RevokeAllForUser:
\* revoked_at is set on the rows of ids that do not have it yet.
Revoke(table, ids) ==
  [t \in Token |-> IF t \in ids /\ Active(table, t)
                   THEN [table[t] EXCEPT !.revoked = TRUE]
                   ELSE table[t]]

\* The clock passes the expires_at of one row.
Expire(table, t) == [table EXCEPT ![t].expired = TRUE]

\* ON DELETE CASCADE of the user_id foreign key.
Cascade(table, u) == [t \in Token |-> IF t \in OfUser(table, u) THEN None ELSE table[t]]
=============================================================================
