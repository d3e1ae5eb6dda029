------------------------------ MODULE Lifecycle ------------------------------
(***************************************************************************)
(* The life of one server process (cmd/api/main.go): main starts up and    *)
(* serves; a goroutine waits for SIGINT or SIGTERM, drains the requests    *)
(* for at most five seconds, closes the database and lets main return.     *)
(* Requests may take any time: nothing in the handlers or their queries    *)
(* has a deadline, and WriteTimeout (30 s) does not stop a handler.        *)
(*                                                                         *)
(* net/http, os/signal and database/sql are not part of the repository.    *)
(* From how main uses them: Shutdown closes the listener at once, which    *)
(* makes ListenAndServe return, and waits for running requests until its   *)
(* context ends; a signal nobody is registered for kills the process; a    *)
(* closed sql.DB fails every later query and does not wait for handlers.   *)
(***************************************************************************)
EXTENDS Naturals

CONSTANTS
  Conn,       \* connections, each with one request
  MaxSignals  \* bound: SIGINT and SIGTERM received

ASSUME BoundAssumption == MaxSignals \in Nat

VARIABLES
  process,    \* up, or how it ended
  main,       \* where the main goroutine is
  shutdown,   \* where gracefulShutdown is
  listening,  \* the listener is open
  db,         \* the connection pool
  done,       \* values in the done channel, which has room for one
  timedOut,   \* five seconds have passed since Shutdown was called
  req,        \* connection -> the state of its request
  signals     \* how many signals the process received

vars == <<process, main, shutdown, listening, db, done, timedOut, req, signals>>

TypeOK ==
  /\ process \in {"up", "exited", "panicked", "killed"}
  /\ main \in {"boot", "ready", "spawned", "serving", "waiting"}
  /\ shutdown \in {"unborn", "unarmed", "armed", "signalled", "draining", "closing", "closed", "ended"}
  /\ listening \in BOOLEAN
  /\ db \in {"none", "open", "closed"}
  /\ done \in 0..1
  /\ timedOut \in BOOLEAN
  /\ req \in [Conn -> {"none", "running", "answered", "failed", "cut"}]
  /\ signals \in 0..MaxSignals

Init ==
  /\ process = "up"
  /\ main = "boot"
  /\ shutdown = "unborn"
  /\ listening = FALSE
  /\ db = "none"
  /\ done = 0
  /\ timedOut = FALSE
  /\ req = [c \in Conn |-> "none"]
  /\ signals = 0

-----------------------------------------------------------------------------

Running == {c \in Conn : req[c] = "running"}

\* The process ends; what it was serving is cut off.
End(how) ==
  /\ process' = how
  /\ req' = [c \in Conn |-> IF c \in Running THEN "cut" ELSE req[c]]
  /\ UNCHANGED <<main, shutdown, listening, db, done, timedOut>>

(* main *)

\* Load the configuration, open the database, build the server; each may panic.
Boot ==
  /\ process = "up"
  /\ main = "boot"
  /\ \/ /\ main' = "ready"
        /\ db' = "open"
        /\ UNCHANGED <<process, shutdown, listening, done, timedOut, req>>
     \/ End("panicked")
  /\ UNCHANGED signals

Spawn ==
  /\ process = "up"
  /\ main = "ready"
  /\ main' = "spawned"
  /\ shutdown' = "unarmed"
  /\ UNCHANGED <<process, listening, db, done, timedOut, req, signals>>

ShuttingDown == shutdown \in {"draining", "closing", "closed", "ended"}

\* ListenAndServe takes the port, panics because it cannot, or finds that
\* Shutdown was called before it.
Listen ==
  /\ process = "up"
  /\ main = "spawned"
  /\ \/ /\ main' = IF ShuttingDown THEN "waiting" ELSE "serving"
        /\ listening' = ~ShuttingDown
        /\ UNCHANGED <<process, shutdown, db, done, timedOut, req>>
     \/ ~ShuttingDown /\ End("panicked")
  /\ UNCHANGED signals

\* ListenAndServe returns ErrServerClosed when Shutdown closes the listener.
ServerClosed ==
  /\ process = "up"
  /\ main = "serving"
  /\ ~listening
  /\ main' = "waiting"
  /\ UNCHANGED <<process, shutdown, listening, db, done, timedOut, req, signals>>

\* Accept fails for good: ListenAndServe returns another error.
ServeFails ==
  /\ process = "up"
  /\ main = "serving"
  /\ listening
  /\ End("panicked")
  /\ UNCHANGED signals

\* Mutant: main returns as soon as ListenAndServe does.
ExitAtOnce ==
  /\ process = "up"
  /\ main = "waiting"
  /\ End("exited")
  /\ UNCHANGED signals

\* main receives from done and returns.
Exit ==
  /\ process = "up"
  /\ main = "waiting"
  /\ done > 0
  /\ End("exited")
  /\ UNCHANGED signals

(* gracefulShutdown *)

\* signal.NotifyContext registers for the signals, some time after go.
Arm ==
  /\ process = "up"
  /\ shutdown = "unarmed"
  /\ shutdown' = "armed"
  /\ UNCHANGED <<process, main, listening, db, done, timedOut, req, signals>>

\* stop() and Shutdown.
Drain ==
  /\ process = "up"
  /\ shutdown = "signalled"
  /\ shutdown' = "draining"
  /\ listening' = FALSE
  /\ UNCHANGED <<process, main, db, done, timedOut, req, signals>>

FiveSeconds ==
  /\ process = "up"
  /\ shutdown = "draining"
  /\ ~timedOut
  /\ timedOut' = TRUE
  /\ UNCHANGED <<process, main, shutdown, listening, db, done, req, signals>>

\* Mutant: the database is closed without waiting for the requests.
DrainedAtOnce ==
  /\ process = "up"
  /\ shutdown = "draining"
  /\ shutdown' = "closing"
  /\ UNCHANGED <<process, main, listening, db, done, timedOut, req, signals>>

\* Mutant: Shutdown gets a context without the deadline.
DrainedWithoutDeadline ==
  /\ process = "up"
  /\ shutdown = "draining"
  /\ Running = {}
  /\ shutdown' = "closing"
  /\ UNCHANGED <<process, main, listening, db, done, timedOut, req, signals>>

\* Shutdown returns: nothing is running any more, or the time is over.
Drained ==
  /\ process = "up"
  /\ shutdown = "draining"
  /\ Running = {} \/ timedOut
  /\ shutdown' = "closing"
  /\ UNCHANGED <<process, main, listening, db, done, timedOut, req, signals>>

\* Mutant: done is also told when the database is closed.
CloseDbSending ==
  /\ process = "up"
  /\ shutdown = "closing"
  /\ db' = "closed"
  /\ done' = done + 1
  /\ shutdown' = "closed"
  /\ UNCHANGED <<process, main, listening, timedOut, req, signals>>

CloseDb ==
  /\ process = "up"
  /\ shutdown = "closing"
  /\ db' = "closed"
  /\ shutdown' = "closed"
  /\ UNCHANGED <<process, main, listening, done, timedOut, req, signals>>

\* Mutant: done has no room and the send does not wait, so that it is lost
\* while main is still in ListenAndServe.
SendDoneIfAwaited ==
  /\ process = "up"
  /\ shutdown = "closed"
  /\ done' = IF main = "waiting" THEN done + 1 ELSE done
  /\ shutdown' = "ended"
  /\ UNCHANGED <<process, main, listening, db, timedOut, req, signals>>

\* done has room for one: the send does not wait for main.
SendDone ==
  /\ process = "up"
  /\ shutdown = "closed"
  /\ done' = done + 1
  /\ shutdown' = "ended"
  /\ UNCHANGED <<process, main, listening, db, timedOut, req, signals>>

(* Requests and signals *)

Accept(c) ==
  /\ process = "up"
  /\ listening
  /\ req[c] = "none"
  /\ req' = [req EXCEPT ![c] = "running"]
  /\ UNCHANGED <<process, main, shutdown, listening, db, done, timedOut, signals>>

\* The handler answers; one that queries the closed database answers 500.
Answer(c) ==
  /\ process = "up"
  /\ c \in Running
  /\ \/ req' = [req EXCEPT ![c] = "answered"]
     \/ db = "closed" /\ req' = [req EXCEPT ![c] = "failed"]
  /\ UNCHANGED <<process, main, shutdown, listening, db, done, timedOut, signals>>

\* A signal starts the shutdown, is swallowed until stop(), or kills.
Signal ==
  /\ process = "up"
  /\ signals < MaxSignals
  /\ signals' = signals + 1
  /\ \/ /\ shutdown \in {"armed", "signalled"}
        /\ shutdown' = "signalled"
        /\ UNCHANGED <<process, main, listening, db, done, timedOut, req>>
     \/ shutdown \notin {"armed", "signalled"} /\ End("killed")

Main == Boot \/ Spawn \/ Listen \/ ServerClosed \/ Exit

GracefulShutdown == Arm \/ Drain \/ Drained \/ CloseDb \/ SendDone

Next ==
  \/ Main
  \/ ServeFails
  \/ GracefulShutdown
  \/ FiveSeconds
  \/ \E c \in Conn : Accept(c) \/ Answer(c)
  \/ Signal

\* The two goroutines are scheduled and the timer fires.  Nothing says that a
\* request is ever answered.
Fairness ==
  /\ WF_vars(Main)
  /\ WF_vars(GracefulShutdown)
  /\ WF_vars(FiveSeconds)

Spec == Init /\ [][Next]_vars /\ Fairness

-----------------------------------------------------------------------------
(* Properties *)

\* The process returns from main only after the database was closed, although
\* ListenAndServe returns while the shutdown is still draining.
ExitsAfterClose == process = "exited" => db = "closed"

\* A request is cut off or loses its database only when the drain ran out of
\* time, the server failed or a signal killed the process: never in a
\* shutdown whose requests answer in time.
OnlyForcedCuts ==
  (\E c \in Conn : req[c] \in {"failed", "cut"}) => timedOut \/ process \in {"panicked", "killed"}

\* No wake-up is lost: whenever gracefulShutdown has ended, what main waits for
\* has happened or will find main, which is yet to call ListenAndServe, is in
\* it, or has returned from it (main.go:69-78).
NoLostWakeup ==
  process = "up" /\ shutdown = "ended" =>
    \/ main = "spawned"
    \/ main = "serving" /\ ~listening
    \/ main = "waiting" /\ done > 0

\* Once a signal is taken the process ends, however long its requests hang and
\* wherever main is (main.go:31-51).
EndsOnceSignalled == (shutdown = "signalled") ~> (process # "up")
=============================================================================
