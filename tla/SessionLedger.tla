---------------------------- MODULE SessionLedger ----------------------------
(***************************************************************************)
(* What rotating refresh tokens promise, without requests, rows or clocks. *)
(* A session is opened once, with one token nobody has seen before.  A     *)
(* client that shows a live token is granted ONE successor; the successor  *)
(* is minted only after the token it replaces has stopped being live.      *)
(* Everything else can only take tokens and grants away.  A session left   *)
(* with neither is over for good, and only a new login gets the user in.   *)
(***************************************************************************)
CONSTANTS Client, Session, Token

VARIABLES
  opened,  \* the sessions that were ever opened
  minted,  \* the tokens that were ever minted
  live,    \* session -> its live tokens
  grants   \* session -> the granted, not yet minted successors, as <<client, predecessor>>

vars == <<opened, minted, live, grants>>

TypeOK ==
  /\ opened \subseteq Session
  /\ minted \subseteq Token
  /\ live \in [Session -> SUBSET minted]
  /\ grants \in [Session -> SUBSET (Client \X minted)]

Init ==
  /\ opened = {}
  /\ minted = {}
  /\ live = [s \in Session |-> {}]
  /\ grants = [s \in Session |-> {}]

Open(s, t) ==
  /\ s \notin opened
  /\ t \notin minted
  /\ opened' = opened \cup {s}
  /\ minted' = minted \cup {t}
  /\ live' = [live EXCEPT ![s] = {t}]
  /\ UNCHANGED grants

Grant(s, c, t) ==
  /\ t \in live[s]
  /\ grants' = [grants EXCEPT ![s] = @ \cup {<<c, t>>}]
  /\ UNCHANGED <<opened, minted, live>>

Mint(s, c, old, t) ==
  /\ <<c, old>> \in grants[s]
  /\ old \notin live[s]
  /\ t \notin minted
  /\ minted' = minted \cup {t}
  /\ live' = [live EXCEPT ![s] = @ \cup {t}]
  /\ grants' = [grants EXCEPT ![s] = @ \ {<<c, old>>}]
  /\ UNCHANGED opened

\* Tokens are revoked, expire or go with their user; clients give up.
Retire(T, C) ==
  /\ live' = [s \in Session |-> live[s] \ T]
  /\ grants' = [s \in Session |-> {g \in grants[s] : g[1] \notin C}]
  /\ UNCHANGED <<opened, minted>>

Next ==
  \/ \E s \in Session, t \in Token : Open(s, t)
  \/ \E s \in Session, c \in Client, t \in Token : Grant(s, c, t)
  \/ \E s \in Session, c \in Client, old, t \in Token : Mint(s, c, old, t)
  \/ \E T \in SUBSET Token, C \in SUBSET Client : Retire(T, C)

Spec == Init /\ [][Next]_vars

Over(s) == s \in opened /\ live[s] = {} /\ grants[s] = {}

\* A session without a live token and without a granted successor stays so:
\* nothing but a new login, which opens another session, issues a token.
OverIsFinal == [][\A s \in Session : Over(s) => Over(s)']_vars
=============================================================================
