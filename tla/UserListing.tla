----------------------------- MODULE UserListing -----------------------------
(***************************************************************************)
(* GET /api/v1/users: keyset pagination over (created_at DESC, id DESC),   *)
(* from the query parameters (internal/handlers/user_handler.go) through   *)
(* UserService.List to the ListUsers statement, and one client that walks  *)
(* the list page by page while other requests register and delete users.   *)
(*                                                                         *)
(* created_at and ids count only by their order.  created_at is the start  *)
(* of the inserting transaction on the database's clock, and rows become   *)
(* visible in any order: a new row may carry any stamp, also one older     *)
(* than rows the client has seen, or the same one as another row.  An      *)
(* update changes neither of the two.  A page that fails or is lost leaves *)
(* the client where it was.                                                *)
(***************************************************************************)
EXTENDS Integers, FiniteSets

CONSTANTS
  Stamp,         \* created_at: microseconds, kept exactly by RFC3339Nano
  Id,            \* uuids
  Query,         \* the numbers a client may send as limit; 0 also when there is none
  DefaultLimit,  \* 20
  MaxLimit,      \* 100
  MaxMangled,    \* bound: malformed cursors the client sends
  MaxPages,      \* bound: pages counted
  None

ASSUME OrderAssumption == Stamp \subseteq Int /\ Id \subseteq Int

ASSUME LimitAssumption ==
  Query \subseteq Int /\ MaxLimit \in Nat /\ DefaultLimit \in 1..MaxLimit

Row == [created : Stamp, id : Id]

ASSUME CursorAssumption == None \notin Row /\ MaxMangled \in Nat /\ MaxPages \in Nat

VARIABLES
  rows,    \* the committed rows of the users table
  issued,  \* the ids ever given to a row
  limit,   \* the limit the client usually asks for
  walk,    \* the client has not started, is on its way, or got a page without next_cursor
  cursor,  \* the cursor of its next request, or None
  seen,    \* the rows it received so far
  again,   \* the rows it received more than once
  stable,  \* the rows there were when it started and that nobody deleted since
  mangled, \* how many malformed cursors it sent
  pages    \* history: how many pages it received since its last first page

vars == <<rows, issued, limit, walk, cursor, seen, again, stable, mangled, pages>>

TypeOK ==
  /\ rows \subseteq Row
  /\ issued \subseteq Id
  /\ limit \in Query
  /\ walk \in {"off", "on", "done"}
  /\ cursor \in Row \cup {None}
  /\ seen \subseteq Row
  /\ again \subseteq seen
  /\ stable \subseteq rows
  /\ mangled \in 0..MaxMangled
  /\ pages \in Nat

Init ==
  /\ rows = {}
  /\ issued = {}
  /\ limit \in Query
  /\ walk = "off"
  /\ cursor = None
  /\ seen = {}
  /\ again = {}
  /\ stable = {}
  /\ mangled = 0
  /\ pages = 0

-----------------------------------------------------------------------------
(* The list as the code computes it. *)

\* Only 1..100 is taken from the query; everything else means the default.
ParseLimit(q) == IF q \in 1..MaxLimit THEN q ELSE DefaultLimit

ClampLimit(n) == IF n <= 0 THEN DefaultLimit ELSE IF n < MaxLimit THEN n ELSE MaxLimit

\* Mutant: the cursor's own row belongs to the next page.
NewerOrSame(r, s) == r.created > s.created \/ (r.created = s.created /\ r.id >= s.id)

\* (s.created_at, s.id) < (r.created_at, r.id): s comes after r in the list.
Newer(r, s) == r.created > s.created \/ (r.created = s.created /\ r.id > s.id)

\* Mutant: the cursor is compared by created_at alone, ties are skipped.
AfterByStamp(from) == IF from = None THEN rows ELSE {r \in rows : from.created > r.created}

\* WHERE: without a cursor created_at is compared with 'infinity'.
After(from) == IF from = None THEN rows ELSE {r \in rows : Newer(from, r)}

\* ORDER BY created_at DESC, id DESC LIMIT n: the n newest, or all there are.
Pages(from, n) ==
  {page \in SUBSET After(from) :
     /\ \A r \in page, s \in After(from) \ page : Newer(r, s)
     /\ Cardinality(page) <= n
     /\ Cardinality(page) < n => page = After(from)}

\* Mutant: next_cursor carries created_at only.
NextCursorWithoutId(page, n) ==
  IF Cardinality(page) = n THEN {[created |-> r.created, id |-> None] : r \in page} ELSE {None}

\* Mutant: the next page starts after the first row of this one, not the last.
NextCursorOfFirst(page, n) ==
  IF Cardinality(page) = n
  THEN {r \in page : \A s \in page \ {r} : Newer(r, s)}
  ELSE {None}

\* List sets NextCursor to the last row of a page that is exactly full.
NextCursor(page, n) ==
  IF Cardinality(page) = n
  THEN {r \in page : \A s \in page \ {r} : Newer(s, r)}
  ELSE {None}

-----------------------------------------------------------------------------
(* The client and the others. *)

StartWalk ==
  /\ walk = "off"
  /\ walk' = "on"
  /\ stable' = rows
  /\ UNCHANGED <<rows, issued, limit, cursor, seen, again, mangled, pages>>

\* The client receives the page that starts after from.
Receive(from, n) ==
  /\ walk = "on"
  /\ \E page \in Pages(from, n) :
       /\ seen' = seen \cup page
       /\ again' = again \cup (seen \cap page)
       /\ cursor' \in NextCursor(page, n)
  /\ walk' = IF cursor' = None THEN "done" ELSE "on"
  /\ pages' = IF from = None THEN 1 ELSE IF pages < MaxPages THEN pages + 1 ELSE pages
  /\ UNCHANGED <<rows, issued, limit, stable>>

\* The client sends next_cursor back as it got it; the limit may change.
NextPage(q) == Receive(cursor, ClampLimit(ParseLimit(q))) /\ UNCHANGED mangled

\* parseCursor takes a cursor it cannot parse, or half a cursor, for no
\* cursor: the client gets the first page and a 200.
MangledPage(q) ==
  /\ cursor # None
  /\ mangled < MaxMangled
  /\ mangled' = mangled + 1
  /\ Receive(None, ClampLimit(ParseLimit(q)))

\* A registration commits: id is a fresh gen_random_uuid().
Register(r) ==
  /\ r.id \notin issued
  /\ rows' = rows \cup {r}
  /\ issued' = issued \cup {r.id}
  /\ UNCHANGED <<limit, walk, cursor, seen, again, stable, mangled, pages>>

Delete(r) ==
  /\ rows' = rows \ {r}
  /\ stable' = stable \ {r}
  /\ UNCHANGED <<issued, limit, walk, cursor, seen, again, mangled, pages>>

Next ==
  \/ StartWalk
  \/ \E q \in Query : NextPage(q)
  \/ \E q \in Query : MangledPage(q)
  \/ \E r \in Row : Register(r)
  \/ \E r \in rows : Delete(r)

\* The client keeps asking for the next page, with its usual limit.
Fairness == WF_vars(NextPage(limit))

Spec == Init /\ [][Next]_vars /\ Fairness

-----------------------------------------------------------------------------
(* Properties *)

\* A client that sends back every cursor as it got it never receives a user
\* twice, whatever is registered and deleted between its requests and
\* whichever limits it mixes (user.sql ListUsers, UserService.List).
NoUserTwice == mangled = 0 => again = {}

\* When a page comes without next_cursor, the client has received every user
\* who was there throughout the walk: nobody is skipped, not at equal stamps,
\* not when the cursor's own row is deleted, and not when a malformed cursor
\* sent it back to the first page (user_handler.go:222-244).
WalkIsComplete == walk = "done" => stable \subseteq seen

\* Every page but the last brings a user the pages before it did not have: from
\* its first page on, also when a malformed cursor sent it back there, a client
\* asks at most once more than the users it has received, with every limit and
\* under every change of the table (user_service.go:137-147).
PagesPay == pages <= Cardinality(seen) + 1

\* A walk ends: the cursor moves down the list with every page.  (With
\* unboundedly many registrations this needs new rows to be new.)
WalkEnds == (walk = "on") ~> (walk = "done")
=============================================================================
