-------------------------- MODULE UserListingProofs --------------------------
(* UserListing, for any sets of stamps, ids and limits. *)
EXTENDS UserListing, FiniteSetTheorems, TLAPS

\* What was received lies at the cursor or before it in the list.
SeenUpToCursor ==
  mangled = 0 =>
    /\ cursor = None /\ walk # "done" => seen = {}
    /\ cursor # None => \A r \in seen : r = cursor \/ Newer(r, cursor)

\* Who was there throughout is received or still ahead of the client.
StableSeenOrAhead ==
  /\ walk = "off" => cursor = None /\ stable = {}
  /\ walk = "on" => \A r \in stable : r \in seen \/ r \in After(cursor)
  /\ walk = "done" => stable \subseteq seen

UpTo(r) == {s \in seen : ~Newer(r, s)}

\* Every page so far brought a user, who lies at the cursor or before it.
PagesBySeen == cursor # None => pages <= Cardinality(UpTo(cursor))

\* The inductive invariant: only finitely many users are ever there.
WalkInv ==
  /\ TypeOK
  /\ IsFiniteSet(rows)
  /\ SeenUpToCursor
  /\ NoUserTwice
  /\ StableSeenOrAhead
  /\ IsFiniteSet(seen)
  /\ PagesBySeen
  /\ PagesPay

-----------------------------------------------------------------------------
(* The order of the list and its pages *)

\* Newer is a strict order on rows.
LEMMA NewerIsOrder ==
  ASSUME NEW r \in Row, NEW s \in Row, NEW t \in Row
  PROVE  /\ ~Newer(r, r)
         /\ Newer(r, s) => ~Newer(s, r)
         /\ Newer(r, s) /\ Newer(s, t) => Newer(r, t)
<1>1. \A x \in Row : x.created \in Int /\ x.id \in Int
  BY OrderAssumption DEF Row
<1>2. /\ r.created \in Int /\ s.created \in Int /\ t.created \in Int
      /\ r.id \in Int /\ s.id \in Int /\ t.id \in Int
  BY <1>1
<1>3. QED
  BY <1>2 DEF Newer

\* The limit of a page is a positive number, whatever the query says.
LEMMA LimitIsPositive ==
  ASSUME NEW q \in Query
  PROVE  ClampLimit(ParseLimit(q)) \in 1..MaxLimit
  BY LimitAssumption DEF ClampLimit, ParseLimit

\* A page is full and every row after it comes after its last row, or there
\* is no row after it.
LEMMA PageSplits ==
  ASSUME IsFiniteSet(rows), rows \subseteq Row, NEW from \in Row \cup {None}, NEW n \in Int,
         NEW page \in Pages(from, n), NEW c \in NextCursor(page, n)
  PROVE  /\ page \subseteq After(from)
         /\ After(from) \subseteq rows
         /\ c \in page \cup {None}
         /\ c = None => page = After(from)
         /\ c # None => \A r \in After(from) \ page : Newer(c, r)
         /\ c # None => \A r \in page \ {c} : Newer(r, c)
<1>1. page \subseteq After(from) /\ After(from) \subseteq rows
  BY DEF Pages, After
<1>2. Cardinality(page) \in Nat
  BY <1>1, FS_Subset, FS_CardinalityType
<1>3. c \in page \cup {None}
  BY DEF NextCursor
<1>4. ASSUME c = None PROVE page = After(from)
  <2>1. None \notin page
    BY <1>1, CursorAssumption
  <2>2. Cardinality(page) # n
    BY <1>4, <2>1 DEF NextCursor
  <2>3. Cardinality(page) < n
    BY <1>2, <2>2 DEF Pages
  <2>4. QED
    BY <2>3 DEF Pages
<1>5. ASSUME c # None PROVE c \in page /\ \A r \in page \ {c} : Newer(r, c)
  BY <1>5 DEF NextCursor
<1>6. ASSUME c # None PROVE \A r \in After(from) \ page : Newer(c, r)
  BY <1>5, <1>6 DEF Pages
<1>7. QED
  BY <1>1, <1>3, <1>4, <1>5, <1>6

-----------------------------------------------------------------------------
(* The invariant *)

\* Before its first page the client has received nobody.
LEMMA WalkInvInit == Init => WalkInv
<1> SUFFICES ASSUME Init PROVE WalkInv
  OBVIOUS
<1>1. TypeOK
  BY CursorAssumption DEF Init, TypeOK
<1>2. IsFiniteSet(rows)
  BY FS_EmptySet DEF Init
<1>3. QED
  BY <1>1, <1>2, FS_EmptySet
     DEF Init, WalkInv, SeenUpToCursor, NoUserTwice, StableSeenOrAhead, PagesBySeen, PagesPay

\* A page keeps the type, and leaves the stable rows received or ahead,
\* wherever it starts as long as nothing in front of it is still missing.
LEMMA ReceiveKeepsStable ==
  ASSUME WalkInv, NEW from \in Row \cup {None}, NEW n \in Int, Receive(from, n),
         \A r \in stable : r \in seen \/ r \in After(from)
  PROVE  /\ cursor' \in Row \cup {None}
         /\ walk' \in {"on", "done"}
         /\ seen' \subseteq Row
         /\ again' \subseteq seen'
         /\ StableSeenOrAhead'
<1>1. PICK page \in Pages(from, n) :
        /\ seen' = seen \cup page
        /\ again' = again \cup (seen \cap page)
        /\ cursor' \in NextCursor(page, n)
  BY DEF Receive
<1>2. /\ walk' = IF cursor' = None THEN "done" ELSE "on"
      /\ rows' = rows /\ stable' = stable
  BY DEF Receive
<1>3. rows \subseteq Row /\ seen \subseteq Row /\ stable \subseteq rows /\ again \subseteq seen /\ IsFiniteSet(rows)
  BY DEF WalkInv, TypeOK
<1>4. /\ page \subseteq After(from)
      /\ After(from) \subseteq rows
      /\ cursor' \in page \cup {None}
      /\ cursor' = None => page = After(from)
      /\ cursor' # None => \A r \in After(from) \ page : Newer(cursor', r)
  BY <1>1, <1>3, PageSplits
<1>5. cursor' \in Row \cup {None} /\ seen' \subseteq Row /\ again' \subseteq seen'
  BY <1>1, <1>3, <1>4
<1>6. ASSUME cursor' = None PROVE stable' \subseteq seen'
  BY <1>1, <1>2, <1>4, <1>6
<1>7. ASSUME cursor' # None, NEW r \in stable PROVE r \in seen' \/ r \in After(cursor)'
  BY <1>1, <1>2, <1>3, <1>4, <1>7 DEF After
<1>8. QED
  BY <1>2, <1>5, <1>6, <1>7 DEF StableSeenOrAhead

\* A page is counted against its last row, whom no page since the last first
\* page has brought.
LEMMA ReceivePays ==
  ASSUME WalkInv, NEW from \in {None, cursor}, NEW n \in Int, Receive(from, n)
  PROVE  IsFiniteSet(seen') /\ PagesBySeen' /\ PagesPay'
<1> DEFINE c == cursor'
           new == UpTo(cursor)'
<1>1. PICK page \in Pages(from, n) :
        seen' = seen \cup page /\ cursor' \in NextCursor(page, n)
  BY DEF Receive
<1>2. /\ rows \subseteq Row /\ IsFiniteSet(rows) /\ seen \subseteq Row /\ IsFiniteSet(seen)
      /\ pages \in Nat /\ pages <= Cardinality(seen) + 1 /\ MaxPages \in Nat
      /\ cursor \in Row \cup {None}
  BY CursorAssumption DEF WalkInv, TypeOK, PagesPay
<1>3. page \subseteq After(from) /\ After(from) \subseteq rows /\ c \in page \cup {None}
  BY <1>1, <1>2, PageSplits
<1>4. IsFiniteSet(seen') /\ Cardinality(seen) <= Cardinality(seen')
      /\ Cardinality(seen) \in Nat /\ Cardinality(seen') \in Nat /\ seen' \subseteq Row
  <2>1. IsFiniteSet(seen')
    BY <1>1, <1>2, <1>3, FS_Subset, FS_Union
  <2>2. QED
    BY <1>1, <1>2, <1>3, <2>1, FS_Subset, FS_CardinalityType
<1>5. pages' \in Nat /\ (from = None => pages' = 1) /\ (from # None => pages' <= pages + 1)
  BY <1>2 DEF Receive
<1>6. ASSUME c # None PROVE /\ IsFiniteSet(new) /\ Cardinality(new) \in Nat
                            /\ Cardinality(new) <= Cardinality(seen')
                            /\ pages' <= Cardinality(new)
  <2>1. c \in Row /\ c \in seen' /\ ~Newer(c, c)
    BY <1>1, <1>2, <1>3, <1>6, NewerIsOrder
  <2>2. new = {s \in seen' : ~Newer(c, s)}
    BY DEF UpTo
  <2>3. /\ IsFiniteSet(new) /\ Cardinality(new) \in Nat
        /\ Cardinality(new) <= Cardinality(seen')
        /\ c \in new
    BY <1>4, <2>1, <2>2, FS_Subset, FS_CardinalityType
  <2> HIDE DEF c, new
  <2>4. CASE from = None
    <3>1. Cardinality(new) # 0
      BY <2>3, FS_EmptySet
    <3>2. QED
      BY <1>5, <2>3, <2>4, <3>1
  <2>5. CASE from # None
    <3>1. cursor = from /\ cursor \in Row /\ pages <= Cardinality(UpTo(cursor))
      BY <1>2, <2>5 DEF WalkInv, PagesBySeen
    <3>2. Newer(cursor, c)
      BY <1>3, <1>6, <2>5, <3>1 DEF After
    <3>3. UpTo(cursor) \subseteq seen /\ c \notin UpTo(cursor)
      BY <3>2 DEF UpTo
    <3>4. \A s \in UpTo(cursor) : s \in new
      BY <1>1, <1>2, <2>1, <2>2, <3>1, <3>2, NewerIsOrder DEF UpTo
    <3>5. IsFiniteSet(UpTo(cursor)) /\ Cardinality(UpTo(cursor)) \in Nat
      BY <1>2, <3>3, FS_Subset, FS_CardinalityType
    <3>6. Cardinality(UpTo(cursor) \cup {c}) = Cardinality(UpTo(cursor)) + 1
      BY <3>3, <3>5, FS_AddElement
    <3>7. UpTo(cursor) \cup {c} \subseteq new
      BY <2>3, <3>4
    <3>8. Cardinality(UpTo(cursor)) + 1 <= Cardinality(new)
      BY <2>3, <3>6, <3>7, FS_Subset
    <3>9. QED
      BY <1>2, <1>5, <2>3, <2>5, <3>1, <3>5, <3>8
  <2>6. QED
    BY <2>3, <2>4, <2>5
<1>7. PagesBySeen'
  BY <1>6 DEF PagesBySeen
<1>8. PagesPay'
  <2>1. pages' <= Cardinality(seen') + 1
    <3>1. CASE c # None
      BY <1>4, <1>5, <1>6, <3>1
    <3>2. CASE c = None /\ from = None
      BY <1>4, <1>5, <3>2
    <3>3. CASE c = None /\ from # None
      <4>1. pages <= Cardinality(UpTo(cursor)) /\ UpTo(cursor) \subseteq seen
        BY <3>3 DEF WalkInv, PagesBySeen, UpTo
      <4>2. Cardinality(UpTo(cursor)) \in Nat /\ Cardinality(UpTo(cursor)) <= Cardinality(seen)
        BY <1>2, <4>1, FS_Subset, FS_CardinalityType
      <4>3. QED
        BY <1>2, <1>4, <1>5, <3>3, <4>1, <4>2
    <3>4. QED
      BY <3>1, <3>2, <3>3
  <2>2. QED
    BY <2>1 DEF PagesPay
<1>9. QED
  BY <1>4, <1>7, <1>8

\* A page after the cursor keeps the invariant.
LEMMA NextPageKeepsInv ==
  ASSUME WalkInv, NEW q \in Query, NextPage(q)
  PROVE  WalkInv'
<1> DEFINE n == ClampLimit(ParseLimit(q))
<1>1. n \in Int /\ Receive(cursor, n) /\ mangled' = mangled /\ walk = "on"
  BY LimitIsPositive DEF NextPage, Receive
<1>2. /\ cursor \in Row \cup {None}
      /\ \A r \in stable : r \in seen \/ r \in After(cursor)
  BY <1>1 DEF WalkInv, TypeOK, StableSeenOrAhead
<1>3. /\ cursor' \in Row \cup {None}
      /\ walk' \in {"on", "done"}
      /\ seen' \subseteq Row
      /\ again' \subseteq seen'
      /\ StableSeenOrAhead'
  BY <1>1, <1>2, ReceiveKeepsStable
<1>4. TypeOK' /\ IsFiniteSet(rows')
  BY <1>1, <1>3, CursorAssumption DEF Receive, WalkInv, TypeOK
<1>5. ASSUME mangled' = 0 PROVE SeenUpToCursor' /\ again' = {}
  <2>1. PICK page \in Pages(cursor, n) :
          /\ seen' = seen \cup page
          /\ again' = again \cup (seen \cap page)
          /\ cursor' \in NextCursor(page, n)
    BY <1>1 DEF Receive
  <2>2. rows \subseteq Row /\ seen \subseteq Row /\ IsFiniteSet(rows)
    BY DEF WalkInv, TypeOK
  <2>3. /\ page \subseteq After(cursor) /\ page \subseteq Row
        /\ cursor' # None => \A r \in page \ {cursor'} : Newer(r, cursor')
        /\ cursor' \in page \cup {None}
    BY <1>1, <1>2, <2>1, <2>2, PageSplits
  <2>4. /\ again = {}
        /\ cursor = None => seen = {}
        /\ cursor # None => \A r \in seen : r = cursor \/ Newer(r, cursor)
    BY <1>1, <1>5 DEF WalkInv, SeenUpToCursor, NoUserTwice
  <2>5. ASSUME cursor # None, NEW r \in page PROVE Newer(cursor, r)
    BY <2>3, <2>5 DEF After
  <2>6. seen \cap page = {}
    BY <1>2, <2>2, <2>3, <2>4, <2>5, NewerIsOrder
  <2>7. ASSUME cursor' # None, NEW r \in seen' PROVE r = cursor' \/ Newer(r, cursor')
    BY <1>2, <2>1, <2>2, <2>3, <2>4, <2>5, <2>7, NewerIsOrder
  <2>8. cursor' = None => walk' = "done"
    BY <1>1 DEF Receive
  <2>9. QED
    BY <2>1, <2>4, <2>6, <2>7, <2>8 DEF SeenUpToCursor
<1>6. IsFiniteSet(seen') /\ PagesBySeen' /\ PagesPay'
  BY <1>1, ReceivePays
<1>7. QED
  BY <1>3, <1>4, <1>5, <1>6 DEF WalkInv, NoUserTwice, SeenUpToCursor

\* So does starting over.
LEMMA MangledPageKeepsInv ==
  ASSUME WalkInv, NEW q \in Query, MangledPage(q)
  PROVE  WalkInv'
<1> DEFINE n == ClampLimit(ParseLimit(q))
<1>1. n \in Int /\ Receive(None, n) /\ mangled' = mangled + 1 /\ mangled < MaxMangled
  BY LimitIsPositive DEF MangledPage
<1>2. \A r \in stable : r \in After(None)
  BY DEF WalkInv, TypeOK, After
<1>3. /\ cursor' \in Row \cup {None}
      /\ walk' \in {"on", "done"}
      /\ seen' \subseteq Row
      /\ again' \subseteq seen'
      /\ StableSeenOrAhead'
  BY <1>1, <1>2, ReceiveKeepsStable
<1>4. mangled' \in 0..MaxMangled /\ mangled' # 0
  BY <1>1, CursorAssumption DEF WalkInv, TypeOK
<1>5. TypeOK' /\ IsFiniteSet(rows')
  BY <1>1, <1>3, <1>4 DEF Receive, WalkInv, TypeOK
<1>6. IsFiniteSet(seen') /\ PagesBySeen' /\ PagesPay'
  BY <1>1, ReceivePays
<1>7. QED
  BY <1>3, <1>4, <1>5, <1>6 DEF WalkInv, SeenUpToCursor, NoUserTwice

\* Every step of the client and of the others preserves the invariant.
LEMMA WalkInvStep == WalkInv /\ [Next]_vars => WalkInv'
<1> SUFFICES ASSUME WalkInv, [Next]_vars PROVE WalkInv'
  OBVIOUS
<1> USE DEF WalkInv
<1>1. CASE StartWalk
  BY <1>1 DEF StartWalk, TypeOK, SeenUpToCursor, NoUserTwice, StableSeenOrAhead, After,
     PagesBySeen, UpTo, PagesPay
<1>2. ASSUME NEW q \in Query, NextPage(q) PROVE WalkInv'
  BY <1>2, NextPageKeepsInv
<1>3. ASSUME NEW q \in Query, MangledPage(q) PROVE WalkInv'
  BY <1>3, MangledPageKeepsInv
<1>4. ASSUME NEW r \in Row, Register(r) PROVE WalkInv'
  <2>1. IsFiniteSet(rows')
    BY <1>4, FS_AddElement DEF Register
  <2>2. TypeOK'
    BY <1>4 DEF Register, TypeOK, Row
  <2>3. StableSeenOrAhead'
    BY <1>4 DEF Register, StableSeenOrAhead, After
  <2>4. QED
    BY <1>4, <2>1, <2>2, <2>3 DEF Register, SeenUpToCursor, NoUserTwice, PagesBySeen, UpTo, PagesPay
<1>5. ASSUME NEW r \in rows, Delete(r) PROVE WalkInv'
  <2>1. IsFiniteSet(rows')
    BY <1>5, FS_RemoveElement DEF Delete
  <2>2. TypeOK'
    BY <1>5 DEF Delete, TypeOK
  <2>3. StableSeenOrAhead'
    BY <1>5 DEF Delete, TypeOK, StableSeenOrAhead, After
  <2>4. QED
    BY <1>5, <2>1, <2>2, <2>3 DEF Delete, SeenUpToCursor, NoUserTwice, PagesBySeen, UpTo, PagesPay
<1>6. CASE UNCHANGED vars
  BY <1>6 DEF vars, TypeOK, SeenUpToCursor, NoUserTwice, StableSeenOrAhead, After,
     PagesBySeen, UpTo, PagesPay
<1>7. QED
  BY <1>1, <1>2, <1>3, <1>4, <1>5, <1>6 DEF Next

\* The invariant, in every reachable state.
LEMMA WalkInvariance == Spec => []WalkInv
<1>1. QED
  BY WalkInvInit, WalkInvStep, PTL DEF Spec

-----------------------------------------------------------------------------
(* The theorems *)

\* The variables of the listing keep their types, for any sets of stamps and
\* ids and any limits.
THEOREM ListingTypes == Spec => []TypeOK
<1>1. WalkInv => TypeOK
  BY DEF WalkInv
<1>2. QED
  BY <1>1, WalkInvariance, PTL

\* A client that passes every cursor on as it got it receives nobody twice,
\* however many users register and leave during its walk.
THEOREM NobodyTwice == Spec => []NoUserTwice
<1>1. WalkInv => NoUserTwice
  BY DEF WalkInv
<1>2. QED
  BY <1>1, WalkInvariance, PTL

\* A walk that has come to its end received everybody who was there
\* throughout, whatever limits and malformed cursors it used.
THEOREM NobodyMissed == Spec => []WalkIsComplete
<1>1. WalkInv => WalkIsComplete
  BY DEF WalkInv, StableSeenOrAhead, WalkIsComplete
<1>2. QED
  BY <1>1, WalkInvariance, PTL

\* A client asks at most once more than the users it has received since it
\* last began, however the table changes under its walk (user_service.go:137-147).
THEOREM NoPageWasted == Spec => []PagesPay
<1>1. WalkInv => PagesPay
  BY DEF WalkInv
<1>2. QED
  BY <1>1, WalkInvariance, PTL
=============================================================================
