--------------------------- MODULE UnitOfWorkProofs ---------------------------
(* Proofs about UnitOfWork, for any number of calls and connections. *)
EXTENDS UnitOfWork, FiniteSetTheorems, TLAPS

\* The initial state is well typed.
LEMMA TypeInit == Init => TypeOK
BY DEF Init, TypeOK, Label

\* Every step keeps the types.
LEMMA TypeNext == TypeOK /\ [Next]_vars => TypeOK'
<1> SUFFICES ASSUME TypeOK, [Next]_vars PROVE TypeOK'
  OBVIOUS
<1> USE DEF TypeOK, Label, Outcome
<1>1. CASE UNCHANGED vars
  BY <1>1 DEF vars
<1>2. ASSUME NEW c \in Call, Start(c) PROVE TypeOK'
  BY <1>2 DEF Start, Goto
<1>3. ASSUME NEW c \in Call, BeginFails(c) PROVE TypeOK'
  BY <1>3 DEF BeginFails, Return, Goto
<1>4. ASSUME NEW c \in Call, FnEnds(c) PROVE TypeOK'
  BY <1>4 DEF FnEnds, Goto
<1>5. ASSUME NEW c \in Call, FnExits(c) PROVE TypeOK'
  BY <1>5 DEF FnExits, Return, Goto
<1>6. ASSUME NEW c \in Call, RollbackOnError(c) PROVE TypeOK'
  BY <1>6 DEF RollbackOnError, Return, Goto, CloseUnlessDone, Close
<1>7. ASSUME NEW c \in Call, RollbackOnPanic(c) PROVE TypeOK'
  BY <1>7 DEF RollbackOnPanic, Return, Goto, CloseUnlessDone, Close
<1>8. ASSUME NEW c \in Call, CommitFails(c) PROVE TypeOK'
  BY <1>8 DEF CommitFails, Return, Goto, Close
<1>9. ASSUME NEW c \in Call, Commit(c) PROVE TypeOK'
  BY <1>9 DEF Commit, Goto
<1>10. ASSUME NEW c \in Call, CommitAnswered(c) PROVE TypeOK'
  BY <1>10 DEF CommitAnswered, Return, Goto
<1>11. ASSUME NEW c \in Call, Begin(c) PROVE TypeOK'
  BY <1>11 DEF Begin, Goto
<1>12. ASSUME NEW c \in Call, StatementFails(c) PROVE TypeOK'
  BY <1>12 DEF StatementFails
<1>13. ASSUME NEW c \in Call, ContextEnds(c) PROVE TypeOK'
  BY <1>13 DEF ContextEnds
<1>14. ASSUME NEW c \in Call, RollbackOnContext(c) PROVE TypeOK'
  BY <1>14 DEF RollbackOnContext, Close
<1> QED
  BY <1>1, <1>2, <1>3, <1>4, <1>5, <1>6, <1>7,
     <1>8, <1>9, <1>10, <1>11, <1>12, <1>13, <1>14
     DEF Next, Step

\* Type correctness of WithTx (repositories.go:42-74).
THEOREM TypeCorrect == Spec => []TypeOK
BY TypeInit, TypeNext, PTL DEF Spec

-----------------------------------------------------------------------------
(* Where a call is, how it was answered and what became of its transaction *)

\* Where a call is says whether it has been answered and what became of its
\* transaction: the invariant behind the proofs.
CallsConsistent ==
  \A c \in Call :
    /\ answer[c] = None <=> pc[c] # "end"
    /\ pc[c] \in {"start", "begin"} => tx[c] = "none"
    /\ pc[c] = "commit_sent" => tx[c] = "done"
    /\ pc[c] = "commit_sent" \/ answer[c] = "nil" => c \in kept
    /\ c \in kept => pc[c] = "commit_sent" \/ answer[c] \in {"nil", "commit_error"}

\* No call has begun, nor been answered.
LEMMA CallsInit == Init => CallsConsistent
BY UnitOfWorkAssumption DEF Init, CallsConsistent, Outcome

\* Every step moves one call's place, answer and transaction together.
LEMMA CallsNext == TypeOK /\ CallsConsistent /\ [Next]_vars => CallsConsistent'
<1> SUFFICES ASSUME TypeOK, CallsConsistent, [Next]_vars PROVE CallsConsistent'
  OBVIOUS
<1> USE UnitOfWorkAssumption DEF TypeOK, Label, Outcome, CallsConsistent
<1>1. CASE UNCHANGED vars
  BY <1>1 DEF vars
<1>2. ASSUME NEW c \in Call, Start(c) PROVE CallsConsistent'
  BY <1>2 DEF Start, Goto
<1>3. ASSUME NEW c \in Call, BeginFails(c) PROVE CallsConsistent'
  BY <1>3 DEF BeginFails, Return, Goto
<1>4. ASSUME NEW c \in Call, FnEnds(c) PROVE CallsConsistent'
  BY <1>4 DEF FnEnds, Goto
<1>5. ASSUME NEW c \in Call, FnExits(c) PROVE CallsConsistent'
  BY <1>5 DEF FnExits, Return, Goto
<1>6. ASSUME NEW c \in Call, RollbackOnError(c) PROVE CallsConsistent'
  BY <1>6 DEF RollbackOnError, Return, Goto, CloseUnlessDone, Close
<1>7. ASSUME NEW c \in Call, RollbackOnPanic(c) PROVE CallsConsistent'
  BY <1>7 DEF RollbackOnPanic, Return, Goto, CloseUnlessDone, Close
<1>8. ASSUME NEW c \in Call, CommitFails(c) PROVE CallsConsistent'
  BY <1>8 DEF CommitFails, Return, Goto, Close
<1>9. ASSUME NEW c \in Call, Commit(c) PROVE CallsConsistent'
  BY <1>9 DEF Commit, Goto
<1>10. ASSUME NEW c \in Call, CommitAnswered(c) PROVE CallsConsistent'
  BY <1>10 DEF CommitAnswered, Return, Goto
<1>11. ASSUME NEW c \in Call, Begin(c) PROVE CallsConsistent'
  BY <1>11 DEF Begin, Goto
<1>12. ASSUME NEW c \in Call, StatementFails(c) PROVE CallsConsistent'
  BY <1>12 DEF StatementFails
<1>13. ASSUME NEW c \in Call, ContextEnds(c) PROVE CallsConsistent'
  BY <1>13 DEF ContextEnds
<1>14. ASSUME NEW c \in Call, RollbackOnContext(c) PROVE CallsConsistent'
  BY <1>14 DEF RollbackOnContext, Close
<1> QED
  BY <1>1, <1>2, <1>3, <1>4, <1>5, <1>6, <1>7,
     <1>8, <1>9, <1>10, <1>11, <1>12, <1>13, <1>14
     DEF Next, Step

\* The labels, answers and transactions of calls agree (repositories.go:42-74).
THEOREM CallsAgree == Spec => [](TypeOK /\ CallsConsistent)
BY TypeInit, TypeNext, CallsInit, CallsNext, PTL DEF Spec

-----------------------------------------------------------------------------
(* Connections *)

InUse == {c \in Call : tx[c] \in {"open", "aborted"} \/ pc[c] = "commit_sent"}

NothingLeft == \A c \in held : pc[c] = "end" => c \in over \/ answer[c] = "exit"

\* A connection is taken with its transaction and given back with its end.
LEMMA InUseNext ==
  TypeOK /\ CallsConsistent /\ held = InUse /\ [Next]_vars => held' = InUse'
<1> SUFFICES ASSUME TypeOK, CallsConsistent, held = InUse, [Next]_vars PROVE held' = InUse'
  OBVIOUS
<1> USE DEF TypeOK, Label, CallsConsistent, InUse
<1>1. CASE UNCHANGED vars
  BY <1>1 DEF vars
<1>2. ASSUME NEW c \in Call, Start(c) PROVE held' = InUse'
  BY <1>2 DEF Start, Goto
<1>3. ASSUME NEW c \in Call, BeginFails(c) PROVE held' = InUse'
  BY <1>3 DEF BeginFails, Return, Goto
<1>4. ASSUME NEW c \in Call, FnEnds(c) PROVE held' = InUse'
  BY <1>4 DEF FnEnds, Goto
<1>5. ASSUME NEW c \in Call, FnExits(c) PROVE held' = InUse'
  BY <1>5 DEF FnExits, Return, Goto
<1>6. ASSUME NEW c \in Call, RollbackOnError(c) PROVE held' = InUse'
  BY <1>6 DEF RollbackOnError, Return, Goto, CloseUnlessDone, Close
<1>7. ASSUME NEW c \in Call, RollbackOnPanic(c) PROVE held' = InUse'
  BY <1>7 DEF RollbackOnPanic, Return, Goto, CloseUnlessDone, Close
<1>8. ASSUME NEW c \in Call, CommitFails(c) PROVE held' = InUse'
  BY <1>8 DEF CommitFails, Return, Goto, Close
<1>9. ASSUME NEW c \in Call, Commit(c) PROVE held' = InUse'
  BY <1>9 DEF Commit, Goto
<1>10. ASSUME NEW c \in Call, CommitAnswered(c) PROVE held' = InUse'
  BY <1>10 DEF CommitAnswered, Return, Goto
<1>11. ASSUME NEW c \in Call, Begin(c) PROVE held' = InUse'
  BY <1>11 DEF Begin, Goto
<1>12. ASSUME NEW c \in Call, StatementFails(c) PROVE held' = InUse'
  BY <1>12 DEF StatementFails
<1>13. ASSUME NEW c \in Call, ContextEnds(c) PROVE held' = InUse'
  BY <1>13 DEF ContextEnds
<1>14. ASSUME NEW c \in Call, RollbackOnContext(c) PROVE held' = InUse'
  BY <1>14 DEF RollbackOnContext, Close
<1> QED
  BY <1>1, <1>2, <1>3, <1>4, <1>5, <1>6, <1>7,
     <1>8, <1>9, <1>10, <1>11, <1>12, <1>13, <1>14
     DEF Next, Step

\* A call returns with its transaction ended, unless its context is over or its
\* goroutine exits.
LEMMA NothingLeftNext ==
  TypeOK /\ CallsConsistent /\ held = InUse /\ NothingLeft /\ [Next]_vars => NothingLeft'
<1> SUFFICES ASSUME TypeOK, CallsConsistent, held = InUse, NothingLeft, [Next]_vars
             PROVE  NothingLeft'
  OBVIOUS
<1> USE UnitOfWorkAssumption DEF TypeOK, Label, Outcome, CallsConsistent, InUse, NothingLeft
<1>1. CASE UNCHANGED vars
  BY <1>1 DEF vars
<1>2. ASSUME NEW c \in Call, Start(c) PROVE NothingLeft'
  BY <1>2 DEF Start, Goto
<1>3. ASSUME NEW c \in Call, BeginFails(c) PROVE NothingLeft'
  BY <1>3 DEF BeginFails, Return, Goto
<1>4. ASSUME NEW c \in Call, FnEnds(c) PROVE NothingLeft'
  BY <1>4 DEF FnEnds, Goto
<1>5. ASSUME NEW c \in Call, FnExits(c) PROVE NothingLeft'
  BY <1>5 DEF FnExits, Return, Goto
<1>6. ASSUME NEW c \in Call, RollbackOnError(c) PROVE NothingLeft'
  BY <1>6 DEF RollbackOnError, Return, Goto, CloseUnlessDone, Close
<1>7. ASSUME NEW c \in Call, RollbackOnPanic(c) PROVE NothingLeft'
  BY <1>7 DEF RollbackOnPanic, Return, Goto, CloseUnlessDone, Close
<1>8. ASSUME NEW c \in Call, CommitFails(c) PROVE NothingLeft'
  BY <1>8 DEF CommitFails, Return, Goto, Close
<1>9. ASSUME NEW c \in Call, Commit(c) PROVE NothingLeft'
  BY <1>9 DEF Commit, Goto
<1>10. ASSUME NEW c \in Call, CommitAnswered(c) PROVE NothingLeft'
  BY <1>10 DEF CommitAnswered, Return, Goto
<1>11. ASSUME NEW c \in Call, Begin(c) PROVE NothingLeft'
  BY <1>11 DEF Begin, Goto
<1>12. ASSUME NEW c \in Call, StatementFails(c) PROVE NothingLeft'
  BY <1>12 DEF StatementFails
<1>13. ASSUME NEW c \in Call, ContextEnds(c) PROVE NothingLeft'
  BY <1>13 DEF ContextEnds
<1>14. ASSUME NEW c \in Call, RollbackOnContext(c) PROVE NothingLeft'
  BY <1>14 DEF RollbackOnContext, Close
<1> QED
  BY <1>1, <1>2, <1>3, <1>4, <1>5, <1>6, <1>7,
     <1>8, <1>9, <1>10, <1>11, <1>12, <1>13, <1>14
     DEF Next, Step

\* Only Begin takes a connection, and only when the pool has one.
LEMMA PoolNext ==
  TypeOK /\ Cardinality(held) <= MaxConns /\ [Next]_vars => Cardinality(held') <= MaxConns
<1> SUFFICES ASSUME TypeOK, Cardinality(held) <= MaxConns, [Next]_vars
             PROVE  Cardinality(held') <= MaxConns
  OBVIOUS
<1> DEFINE Shrinks == held' \subseteq held
<1>1. IsFiniteSet(held) /\ Cardinality(held) \in Nat
  BY UnitOfWorkAssumption, FS_Subset, FS_CardinalityType DEF TypeOK
<1>2. CASE Shrinks
  <2>1. Cardinality(held') <= Cardinality(held) /\ Cardinality(held') \in Nat
    BY <1>1, <1>2, FS_Subset, FS_CardinalityType
  <2> QED
    BY <1>1, <2>1, UnitOfWorkAssumption
<1>3. ASSUME NEW c \in Call, Begin(c) PROVE Cardinality(held') <= MaxConns
  <2>1. held' = held \cup {c} /\ Cardinality(held) < MaxConns
    BY <1>3 DEF Begin
  <2>2. Cardinality(held \cup {c}) =
          IF c \in held THEN Cardinality(held) ELSE Cardinality(held) + 1
    BY <1>1, FS_AddElement
  <2>3. Cardinality(held') \in Nat
    BY <1>1, <2>1, FS_AddElement, FS_CardinalityType
  <2>4. Cardinality(held') <= Cardinality(held) + 1
    BY <1>1, <2>1, <2>2
  <2> QED
    BY <1>1, <2>1, <2>3, <2>4, UnitOfWorkAssumption
<1>4. CASE UNCHANGED vars
  BY <1>2, <1>4 DEF vars
<1>5. ASSUME NEW c \in Call, ~Begin(c),
             Step(c) \/ StatementFails(c) \/ ContextEnds(c) \/ RollbackOnContext(c)
      PROVE  Shrinks
  BY <1>5 DEF Step, Start, BeginFails, FnEnds, FnExits, RollbackOnError, RollbackOnPanic,
              CommitFails, Commit, CommitAnswered, StatementFails, ContextEnds,
              RollbackOnContext, CloseUnlessDone, Close
<1> QED
  BY <1>2, <1>3, <1>4, <1>5 DEF Next

\* No connection is in use at first.
LEMMA ConnectionsInit == Init => ConnectionsAccounted
<1> SUFFICES ASSUME Init PROVE ConnectionsAccounted
  OBVIOUS
<1>1. Cardinality(held) = 0
  BY FS_EmptySet DEF Init
<1> QED
  BY <1>1, UnitOfWorkAssumption DEF Init, ConnectionsAccounted

\* Every step keeps the connections accounted for.
LEMMA ConnectionsNext ==
  TypeOK /\ CallsConsistent /\ ConnectionsAccounted /\ [Next]_vars => ConnectionsAccounted'
BY InUseNext, NothingLeftNext, PoolNext DEF ConnectionsAccounted, InUse, NothingLeft

\* No answer, error, panic or context leaves a connection behind, and the pool
\* is never overdrawn (repositories.go:53-72).
THEOREM ConnectionsSafe == Spec => []ConnectionsAccounted
BY TypeInit, TypeNext, CallsInit, CallsNext, ConnectionsInit, ConnectionsNext, PTL DEF Spec

-----------------------------------------------------------------------------
(* Refinement *)

\* The initial state is one of AtomicCalls.
LEMMA PromiseInit == Init => Promise!Init
BY DEF Init, Promise!Init

\* Every step takes effect, returns, or is invisible to AtomicCalls.
LEMMA PromiseNext ==
  TypeOK /\ CallsConsistent /\ [Next]_vars => [Promise!Next]_<<kept, answer>>
<1> SUFFICES ASSUME TypeOK, CallsConsistent, [Next]_vars
             PROVE  [Promise!Next]_<<kept, answer>>
  OBVIOUS
<1> USE UnitOfWorkAssumption
    DEF TypeOK, Label, Outcome, CallsConsistent, Promise!Next, Promise!TakeEffect,
        Promise!Return, Promise!Answer
<1>1. CASE UNCHANGED vars
  BY <1>1 DEF vars
<1>2. ASSUME NEW c \in Call, Start(c) PROVE [Promise!Next]_<<kept, answer>>
  BY <1>2 DEF Start, Goto
<1>3. ASSUME NEW c \in Call, BeginFails(c) PROVE [Promise!Next]_<<kept, answer>>
  BY <1>3 DEF BeginFails, Return, Goto
<1>4. ASSUME NEW c \in Call, FnEnds(c) PROVE [Promise!Next]_<<kept, answer>>
  BY <1>4 DEF FnEnds, Goto
<1>5. ASSUME NEW c \in Call, FnExits(c) PROVE [Promise!Next]_<<kept, answer>>
  BY <1>5 DEF FnExits, Return, Goto
<1>6. ASSUME NEW c \in Call, RollbackOnError(c) PROVE [Promise!Next]_<<kept, answer>>
  BY <1>6 DEF RollbackOnError, Return, Goto, CloseUnlessDone, Close
<1>7. ASSUME NEW c \in Call, RollbackOnPanic(c) PROVE [Promise!Next]_<<kept, answer>>
  BY <1>7 DEF RollbackOnPanic, Return, Goto, CloseUnlessDone, Close
<1>8. ASSUME NEW c \in Call, CommitFails(c) PROVE [Promise!Next]_<<kept, answer>>
  BY <1>8 DEF CommitFails, Return, Goto, Close
<1>9. ASSUME NEW c \in Call, Commit(c) PROVE [Promise!Next]_<<kept, answer>>
  BY <1>9 DEF Commit, Goto
<1>10. ASSUME NEW c \in Call, CommitAnswered(c) PROVE [Promise!Next]_<<kept, answer>>
  BY <1>10 DEF CommitAnswered, Return, Goto
<1>11. ASSUME NEW c \in Call, Begin(c) PROVE [Promise!Next]_<<kept, answer>>
  BY <1>11 DEF Begin, Goto
<1>12. ASSUME NEW c \in Call, StatementFails(c) PROVE [Promise!Next]_<<kept, answer>>
  BY <1>12 DEF StatementFails
<1>13. ASSUME NEW c \in Call, ContextEnds(c) PROVE [Promise!Next]_<<kept, answer>>
  BY <1>13 DEF ContextEnds
<1>14. ASSUME NEW c \in Call, RollbackOnContext(c) PROVE [Promise!Next]_<<kept, answer>>
  BY <1>14 DEF RollbackOnContext, Close
<1> QED
  BY <1>1, <1>2, <1>3, <1>4, <1>5, <1>6, <1>7,
     <1>8, <1>9, <1>10, <1>11, <1>12, <1>13, <1>14
     DEF Next, Step

\* Whatever the function, the context and the commit do, the answer of WithTx
\* is true of the database (repositories.go:37-41).
THEOREM WithTxKeepsPromise == Spec => KeepsPromise
BY TypeInit, TypeNext, CallsInit, CallsNext, PromiseInit, PromiseNext, PTL
   DEF Spec, KeepsPromise, Promise!Spec

-----------------------------------------------------------------------------
(* What CallsReturn and ConnectionsReturn rest on: calls run out of steps, and *)
(* none waits in vain while another can still give its connection back         *)

\* The steps a call has ahead of it at most: its own, those of its transaction
\* and the end of its context.
Left(c) ==
  [start |-> 5, begin |-> 4, fn |-> 3, fn_error |-> 2, fn_panic |-> 2, commit |-> 2,
   commit_sent |-> 1, end |-> 0][pc[c]]
  + [none |-> 3, open |-> 2, aborted |-> 1, done |-> 0][tx[c]]
  + IF c \in over THEN 0 ELSE 1

\* One call moves, and has less ahead of it.
Advances == \E c \in Call : Left(c)' < Left(c) /\ \A d \in Call \ {c} : Left(d)' = Left(d)

\* The number of steps ahead is a natural number.
LEMMA LeftType == TypeOK => \A c \in Call : Left(c) \in Nat
BY DEF TypeOK, Label, Left

\* No step goes back.
LEMMA AdvancesNext == TypeOK /\ CallsConsistent /\ [Next]_vars => [Advances]_vars
<1> SUFFICES ASSUME TypeOK, CallsConsistent, Next PROVE Advances
  BY DEF vars
<1> USE DEF TypeOK, Label, Left, CallsConsistent
<1>1. ASSUME NEW c \in Call,
             Step(c) \/ Begin(c) \/ StatementFails(c) \/ ContextEnds(c) \/ RollbackOnContext(c)
      PROVE  Left(c)' < Left(c)
  <2>1. CASE Start(c)
    BY <2>1 DEF Start, Goto
  <2>2. CASE BeginFails(c) \/ FnEnds(c) \/ FnExits(c)
    BY <2>2 DEF BeginFails, FnEnds, FnExits, Return, Goto
  <2>3. CASE RollbackOnError(c) \/ RollbackOnPanic(c) \/ CommitFails(c)
    BY <2>3 DEF RollbackOnError, RollbackOnPanic, CommitFails, Return, Goto, CloseUnlessDone, Close
  <2>4. CASE Commit(c) \/ CommitAnswered(c)
    BY <2>4 DEF Commit, CommitAnswered, Return, Goto
  <2>5. CASE Begin(c)
    BY <2>5 DEF Begin, Goto
  <2>6. CASE StatementFails(c) \/ ContextEnds(c)
    BY <2>6 DEF StatementFails, ContextEnds
  <2>7. CASE RollbackOnContext(c)
    BY <2>7 DEF RollbackOnContext, Close
  <2> QED
    BY <1>1, <2>1, <2>2, <2>3, <2>4, <2>5, <2>6, <2>7 DEF Step
<1>2. ASSUME NEW c \in Call,
             Step(c) \/ Begin(c) \/ StatementFails(c) \/ ContextEnds(c) \/ RollbackOnContext(c),
             NEW d \in Call \ {c}
      PROVE  pc'[d] = pc[d] /\ tx'[d] = tx[d] /\ (d \in over' <=> d \in over)
  BY <1>2 DEF Step, Start, BeginFails, FnEnds, FnExits, RollbackOnError, RollbackOnPanic,
              CommitFails, Commit, CommitAnswered, Begin, StatementFails, ContextEnds,
              RollbackOnContext, Return, Goto, CloseUnlessDone, Close
<1> QED
  BY <1>1, <1>2 DEF Next, Advances

\* A call never goes back and takes a bounded number of steps, whatever the
\* others do, so the pool cannot be kept from it by calls that go on for ever:
\* the measure of CallsReturn and ConnectionsReturn (repositories.go:42-74).
THEOREM CallsRunDown == Spec => [][Advances]_vars
BY TypeInit, TypeNext, CallsInit, CallsNext, AdvancesNext, PTL DEF Spec

\* The guards of the steps that the fairness of Spec brings about.
CanMove(c) ==
  \/ pc[c] \notin {"begin", "end"}
  \/ pc[c] = "begin" /\ (c \in over \/ Cardinality(held) < MaxConns)
  \/ answer[c] # None /\ c \notin Background \cup over
  \/ c \in over /\ tx[c] \in {"open", "aborted"}

\* While a call waits for a connection, or one has to come back, some call can
\* still move, unless the whole pool is leaked: no cycle of waiters
\* (repositories.go:43, 53-72).
NobodyStuck ==
  (\E c \in Call : pc[c] = "begin" \/ c \in held \ Leaked)
    => (\E c \in Call : CanMove(c)) \/ Cardinality(Leaked) = MaxConns

\* A connection that is not leaked belongs to a call that can move.
LEMMA HolderMoves ==
  TypeOK /\ CallsConsistent /\ ConnectionsAccounted => \A h \in held \ Leaked : CanMove(h)
<1> SUFFICES ASSUME TypeOK, CallsConsistent, ConnectionsAccounted,
                    NEW h \in held, h \notin Leaked
             PROVE  CanMove(h)
  OBVIOUS
<1> USE DEF TypeOK, Label, CallsConsistent, ConnectionsAccounted, Leaked, CanMove
<1>1. CASE pc[h] = "end"
  <2>1. answer[h] # None /\ (h \in over \/ h \notin Background)
    BY <1>1
  <2>2. tx[h] \in {"open", "aborted"}
    BY <1>1
  <2> QED
    BY <2>1, <2>2
<1>2. CASE pc[h] = "begin"
  BY <1>2
<1> QED
  BY <1>1, <1>2

\* When a call waits, either the pool has a connection or a holder can move.
LEMMA StuckFree == TypeOK /\ CallsConsistent /\ ConnectionsAccounted => NobodyStuck
<1> SUFFICES ASSUME TypeOK, CallsConsistent, ConnectionsAccounted,
                    Cardinality(Leaked) # MaxConns,
                    NEW c \in Call, pc[c] = "begin" \/ c \in held \ Leaked
             PROVE  \E d \in Call : CanMove(d)
  BY DEF NobodyStuck
<1>1. \A h \in held \ Leaked : h \in Call /\ CanMove(h)
  BY HolderMoves DEF TypeOK
<1>2. IsFiniteSet(held) /\ Cardinality(held) \in Nat
  BY UnitOfWorkAssumption, FS_Subset, FS_CardinalityType DEF TypeOK
<1>3. CASE pc[c] = "begin" /\ held = Leaked
  <2>1. Cardinality(held) < MaxConns
    BY <1>2, <1>3, UnitOfWorkAssumption DEF ConnectionsAccounted
  <2> QED
    BY <1>3, <2>1 DEF CanMove
<1>4. CASE held # Leaked
  <2>1. Leaked \subseteq held
    BY DEF Leaked
  <2> QED
    BY <1>1, <1>4, <2>1
<1> QED
  BY <1>1, <1>3, <1>4

\* While a call waits for a connection, or one has to come back, some call can
\* still move, unless functions that exited have leaked the whole pool: waiters
\* never wait only for one another (repositories.go:43-72).
THEOREM PoolNeverStuck == Spec => []NobodyStuck
BY TypeInit, TypeNext, CallsInit, CallsNext, ConnectionsInit, ConnectionsNext, StuckFree, PTL
   DEF Spec
=============================================================================
