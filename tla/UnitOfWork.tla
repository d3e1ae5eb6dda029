------------------------------ MODULE UnitOfWork ------------------------------
(***************************************************************************)
(* Repositories.WithTx over database/sql: calls that wait for a connection *)
(* of the pool, run their function in a transaction and commit it or roll  *)
(* it back.  The function is the caller's: it runs statements, ignores     *)
(* their errors or not, and returns, panics or leaves by runtime.Goexit.   *)
(* When a context is over, database/sql rolls its transaction back from a  *)
(* goroutine of its own.  The driver and the database are modelled from    *)
(* what WithTx relies on.                                                  *)
(***************************************************************************)
EXTENDS Naturals, FiniteSets

CONSTANTS
  Call,
  Background, \* the calls whose context never ends (context.Background)
  MaxConns,   \* sql.DB.SetMaxOpenConns
  None

Outcome == {"nil", "error", "commit_error", "panic", "exit"}

ASSUME UnitOfWorkAssumption ==
  /\ IsFiniteSet(Call) /\ Background \subseteq Call
  /\ MaxConns \in Nat \ {0}
  /\ None \notin Outcome

VARIABLES
  pc,     \* call -> where it is in WithTx
  tx,     \* call -> its transaction: "none", "open", "aborted" by the database, "done"
  over,   \* the calls whose context is over
  held,   \* the calls whose transaction has a connection
  kept,   \* the calls whose statements are in the database
  answer  \* call -> how WithTx ended, or None

vars == <<pc, tx, over, held, kept, answer>>

Label == {"start", "begin", "fn", "fn_error", "fn_panic", "commit", "commit_sent", "end"}

TypeOK ==
  /\ pc \in [Call -> Label]
  /\ tx \in [Call -> {"none", "open", "aborted", "done"}]
  /\ over \subseteq Call \ Background
  /\ held \subseteq Call
  /\ kept \subseteq Call
  /\ answer \in [Call -> Outcome \cup {None}]

Init ==
  /\ pc = [c \in Call |-> "start"]
  /\ tx = [c \in Call |-> "none"]
  /\ over = {}
  /\ held = {}
  /\ kept = {}
  /\ answer = [c \in Call |-> None]

-----------------------------------------------------------------------------

Goto(c, from, to) == pc[c] = from /\ pc' = [pc EXCEPT ![c] = to]

Return(c, from, a) == Goto(c, from, "end") /\ answer' = [answer EXCEPT ![c] = a]

\* Tx.rollback and Tx.Commit: whoever is first closes the transaction and gives
\* the connection back.
Close(c) == tx' = [tx EXCEPT ![c] = "done"] /\ held' = held \ {c}

CloseUnlessDone(c) == IF tx[c] = "done" THEN UNCHANGED <<tx, held>> ELSE Close(c)

Start(c) ==
  /\ Goto(c, "start", "begin")
  /\ UNCHANGED <<tx, over, held, kept, answer>>

\* BeginTx waits for a connection of the pool.
Begin(c) ==
  /\ c \notin over /\ Cardinality(held) < MaxConns
  /\ Goto(c, "begin", "fn")
  /\ tx' = [tx EXCEPT ![c] = "open"]
  /\ held' = held \cup {c}
  /\ UNCHANGED <<over, kept, answer>>

\* The context ends while it waits, or the connection cannot be had or used.
BeginFails(c) ==
  /\ c \in over \/ Cardinality(held) < MaxConns
  /\ Return(c, "begin", "error")
  /\ UNCHANGED <<tx, over, held, kept>>

\* A statement fails in the database, which then refuses all but a rollback.
StatementFails(c) ==
  /\ pc[c] = "fn" /\ tx[c] = "open"
  /\ tx' = [tx EXCEPT ![c] = "aborted"]
  /\ UNCHANGED <<pc, over, held, kept, answer>>

\* The function returns nil, returns an error or panics.
FnEnds(c) ==
  /\ \E to \in {"commit", "fn_error", "fn_panic"} : Goto(c, "fn", to)
  /\ UNCHANGED <<tx, over, held, kept, answer>>

\* recover returns nil in a goroutine that is exiting: nothing is rolled back.
FnExits(c) ==
  /\ Return(c, "fn", "exit")
  /\ UNCHANGED <<tx, over, held, kept>>

\* Mutant: without the rollback.
ErrorThrough(c) ==
  /\ Return(c, "fn_error", "error")
  /\ UNCHANGED <<tx, over, held, kept>>

\* Roll back and return the function's error, joined with that of the rollback.
RollbackOnError(c) ==
  /\ Return(c, "fn_error", "error")
  /\ CloseUnlessDone(c)
  /\ UNCHANGED <<over, kept>>

\* Mutant: the panic goes on without a rollback.
PanicThrough(c) ==
  /\ Return(c, "fn_panic", "panic")
  /\ UNCHANGED <<tx, over, held, kept>>

RollbackOnPanic(c) ==
  /\ Return(c, "fn_panic", "panic")
  /\ CloseUnlessDone(c)
  /\ UNCHANGED <<over, kept>>

\* Mutant: the error of the commit is not looked at.
CommitFailsAsNil(c) ==
  /\ Return(c, "commit", "nil")
  /\ IF c \in over THEN UNCHANGED <<tx, held>> ELSE Close(c)
  /\ UNCHANGED <<over, kept>>

\* Commit fails at once when the context is over: its goroutine has rolled back
\* or will.  It fails in the database after a statement has failed, or when the
\* request does not reach it.
CommitFails(c) ==
  /\ Return(c, "commit", "commit_error")
  /\ IF c \in over THEN UNCHANGED <<tx, held>> ELSE Close(c)
  /\ UNCHANGED <<over, kept>>

Commit(c) ==
  /\ c \notin over /\ tx[c] = "open"
  /\ Goto(c, "commit", "commit_sent")
  /\ tx' = [tx EXCEPT ![c] = "done"]
  /\ kept' = kept \cup {c}
  /\ UNCHANGED <<over, held, answer>>

\* The result of the commit arrives, or is lost with the connection.
CommitAnswered(c) ==
  /\ \E a \in {"nil", "commit_error"} : Return(c, "commit_sent", a)
  /\ held' = held \ {c}
  /\ UNCHANGED <<tx, over, kept>>

\* Mutant: a context that never ends is given a deadline.
ContextTimesOut(c) ==
  /\ c \notin over
  /\ over' = over \cup {c}
  /\ UNCHANGED <<pc, tx, held, kept, answer>>

ContextEnds(c) ==
  /\ c \notin Background \cup over
  /\ over' = over \cup {c}
  /\ UNCHANGED <<pc, tx, held, kept, answer>>

\* Tx.awaitDone.
RollbackOnContext(c) ==
  /\ c \in over /\ tx[c] \in {"open", "aborted"}
  /\ Close(c)
  /\ UNCHANGED <<pc, over, kept, answer>>

Step(c) ==
  \/ Start(c) \/ BeginFails(c)
  \/ FnEnds(c) \/ FnExits(c)
  \/ RollbackOnError(c) \/ RollbackOnPanic(c)
  \/ CommitFails(c) \/ Commit(c) \/ CommitAnswered(c)

Next ==
  \E c \in Call : Step(c) \/ Begin(c) \/ StatementFails(c) \/ ContextEnds(c) \/ RollbackOnContext(c)

\* Functions end, statements are answered, a request's context ends once it has
\* been served, and no waiter of the pool is passed over for ever.
Fairness ==
  \A c \in Call :
    /\ WF_vars(Step(c)) /\ SF_vars(Begin(c))
    /\ WF_vars(answer[c] # None /\ ContextEnds(c))
    /\ WF_vars(RollbackOnContext(c))

Spec == Init /\ [][Next]_vars /\ Fairness

-----------------------------------------------------------------------------
(* Properties *)

Promise == INSTANCE AtomicCalls

\* WithTx keeps the promise of AtomicCalls whatever the function, the context
\* and the commit do (repositories.go:37-41).
KeepsPromise == Promise!Spec

\* The connections in use are those of transactions not yet ended, never more than the
\* pool has; a call that has returned holds one only while its context, which
\* is over, is being cleaned up, or when its goroutine was made to exit.
ConnectionsAccounted ==
  /\ held = {c \in Call : tx[c] \in {"open", "aborted"} \/ pc[c] = "commit_sent"}
  /\ Cardinality(held) <= MaxConns
  /\ \A c \in held : pc[c] = "end" => c \in over \/ answer[c] = "exit"

Leaked == {c \in held \cap Background : answer[c] = "exit"}

\* A call that asks for a connection is answered, unless functions that exited
\* without returning have taken the whole pool with contexts that never end.
CallsReturn ==
  \A c \in Call : pc[c] = "begin" ~> answer[c] # None \/ Cardinality(Leaked) = MaxConns

\* The connection of a call that has been answered comes back to the pool.
ConnectionsReturn ==
  \A c \in Call : answer[c] # None ~> c \notin held \/ c \in Leaked
=============================================================================
