---------------------------- MODULE SessionAccess ----------------------------
(***************************************************************************)
(* What AuthService guarantees about access tokens and AccessTokens relies *)
(* on: where the two meet, at the end of issueRefreshAndAccess.  A request *)
(* that has put a refresh token into a session goes on to sign an access   *)
(* token for it, even if the session ends meanwhile.  A session that has   *)
(* ended never opens again, and nobody else signs for it.                  *)
(***************************************************************************)
CONSTANTS
  Signer,  \* who signs: a request, or a server with any number of requests
  Session

VARIABLES
  open,     \* sessions still to be opened, with a live token or a refresh under way
  signing,  \* <<signer, session>> of the requests past their INSERT
  access    \* the sessions that unexpired access tokens were signed for

vars == <<open, signing, access>>

Init ==
  /\ open = Session
  /\ signing = {}
  /\ access = {}

\* Login and Refresh come to the end of issueRefreshAndAccess ...
Issue(r, c) ==
  /\ c \in open
  /\ signing' = signing \cup {<<r, c>>}
  /\ UNCHANGED <<open, access>>

\* ... while logout, logout-all, reuse, expiry or failure ends sessions ...
End(C) ==
  /\ open' = open \ C
  /\ UNCHANGED <<signing, access>>

\* ... and Sign does not look.  The signer may be at it for another request.
Sign(r, c) ==
  /\ <<r, c>> \in signing
  /\ signing' \in {signing, signing \ {<<r, c>>}}
  /\ access' = access \cup {c}
  /\ UNCHANGED open

\* Requests are given up, or their server stops.
Abandon(R) ==
  /\ signing' = signing \ R
  /\ UNCHANGED <<open, access>>

Expire(c) ==
  /\ access' = access \ {c}
  /\ UNCHANGED <<open, signing>>

Next ==
  \/ \E r \in Signer, c \in Session : Issue(r, c) \/ Sign(r, c)
  \/ \E C \in SUBSET Session : End(C)
  \/ \E R \in SUBSET signing : Abandon(R)
  \/ \E c \in Session : Expire(c)

Spec == Init /\ [][Next]_vars

\* Nobody can get an access token of the session any more.
Quiet(c) == c \notin open /\ \A r \in Signer : <<r, c>> \notin signing

\* A quiet session stays quiet, and what access tokens it has can only expire.
QuietIsFinal ==
  [][\A c \in Session : Quiet(c) => Quiet(c)' /\ (c \in access' => c \in access)]_vars
=============================================================================
