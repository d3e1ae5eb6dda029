--------------------------- MODULE LifecycleProofs ---------------------------
(* Lifecycle, for any number of requests and signals. *)
EXTENDS Lifecycle, TLAPS

\* The shutdown has stopped waiting for requests.
Finishing == shutdown \in {"closing", "closed", "ended"}

\* What each point of the shutdown has behind it: no more requests are
\* accepted, none is running unless the time is over, the database is closed,
\* and then, and only then, main is told.
ShutdownOrder ==
  /\ ShuttingDown => ~listening
  /\ Finishing => Running = {} \/ timedOut
  /\ shutdown \in {"closed", "ended"} <=> db = "closed"
  /\ done > 0 <=> shutdown = "ended"
  /\ shutdown = "closed" => done = 0
  /\ main \in {"boot", "ready"} => shutdown = "unborn"
  /\ main = "boot" => db = "none"

LifeInv == TypeOK /\ ShutdownOrder /\ ExitsAfterClose /\ OnlyForcedCuts

-----------------------------------------------------------------------------

\* A process that has just been started is in order.
LEMMA LifeInvInit == Init => LifeInv
<1> SUFFICES ASSUME Init PROVE LifeInv
  OBVIOUS
<1>1. \A c \in Conn : req[c] = "none"
  BY DEF Init
<1>2. TypeOK
  <2>1. signals \in 0..MaxSignals /\ done \in 0..1
    BY BoundAssumption DEF Init
  <2>2. req \in [Conn -> {"none", "running", "answered", "failed", "cut"}]
    BY DEF Init
  <2>3. QED
    BY <2>1, <2>2 DEF Init, TypeOK
<1>3. ShutdownOrder
  BY DEF Init, ShutdownOrder, ShuttingDown, Finishing
<1>4. ExitsAfterClose /\ OnlyForcedCuts
  BY <1>1 DEF Init, ExitsAfterClose, OnlyForcedCuts
<1>5. QED
  BY <1>2, <1>3, <1>4 DEF LifeInv

\* The process may end where nothing is cut, or where a cut counts as forced.
LEMMA EndKeepsInv ==
  ASSUME LifeInv, process = "up", NEW how, End(how), signals' \in 0..MaxSignals,
         \/ how \in {"panicked", "killed"}
         \/ how = "exited" /\ shutdown = "ended"
  PROVE  LifeInv'
<1>1. \A c \in Conn : /\ c \in Running => req'[c] = "cut"
                      /\ c \notin Running => req'[c] = req[c]
  BY DEF End, LifeInv, TypeOK, Running
<1>2. TypeOK'
  BY DEF End, LifeInv, TypeOK
<1>3. Running' = {}
  BY <1>1 DEF Running
<1>4. ShutdownOrder'
  BY <1>3 DEF End, LifeInv, ShutdownOrder, ShuttingDown, Finishing
<1>5. ExitsAfterClose'
  BY DEF End, LifeInv, ShutdownOrder, ExitsAfterClose
<1>6. OnlyForcedCuts'
  <2>1. CASE how \in {"panicked", "killed"}
    BY <2>1 DEF End, OnlyForcedCuts
  <2>2. CASE how = "exited" /\ shutdown = "ended"
    <3>1. timedOut \/ Running = {}
      BY <2>2 DEF LifeInv, ShutdownOrder, Finishing
    <3>2. CASE timedOut
      BY <3>2 DEF End, OnlyForcedCuts
    <3>3. CASE Running = {}
      BY <1>1, <3>3 DEF End, LifeInv, OnlyForcedCuts
    <3>4. QED
      BY <3>1, <3>2, <3>3
  <2>3. QED
    BY <2>1, <2>2
<1>7. QED
  BY <1>2, <1>4, <1>5, <1>6 DEF LifeInv

\* Every step of main, of the shutdown, of the requests and of the world
\* around them preserves the invariant.
LEMMA LifeInvStep == LifeInv /\ [Next]_vars => LifeInv'
<1> SUFFICES ASSUME LifeInv, [Next]_vars PROVE LifeInv'
  OBVIOUS
<1> USE DEF LifeInv, TypeOK, ShutdownOrder, ExitsAfterClose, OnlyForcedCuts,
            ShuttingDown, Finishing, Running
<1>1. ASSUME Boot PROVE LifeInv'
  <2>1. CASE End("panicked")
    BY <1>1, <2>1, EndKeepsInv DEF Boot
  <2>2. CASE main' = "ready"
    BY <1>1, <2>2, EndKeepsInv DEF Boot
  <2>3. QED
    BY <1>1, <2>1, <2>2 DEF Boot
<1>2. ASSUME Spawn PROVE LifeInv'
  BY <1>2 DEF Spawn
<1>3. ASSUME Listen PROVE LifeInv'
  <2>1. CASE End("panicked")
    BY <1>3, <2>1, EndKeepsInv DEF Listen
  <2>2. CASE listening' = ~ShuttingDown
    BY <1>3, <2>2, EndKeepsInv DEF Listen
  <2>3. QED
    BY <1>3, <2>1, <2>2 DEF Listen
<1>4. ASSUME ServerClosed PROVE LifeInv'
  BY <1>4 DEF ServerClosed
<1>5. ASSUME ServeFails PROVE LifeInv'
  BY <1>5, EndKeepsInv DEF ServeFails
<1>6. ASSUME Exit PROVE LifeInv'
  BY <1>6, EndKeepsInv DEF Exit
<1>7. ASSUME Arm PROVE LifeInv'
  BY <1>7 DEF Arm
<1>8. ASSUME Drain PROVE LifeInv'
  BY <1>8 DEF Drain
<1>9. ASSUME FiveSeconds PROVE LifeInv'
  BY <1>9 DEF FiveSeconds
<1>10. ASSUME Drained PROVE LifeInv'
  BY <1>10 DEF Drained
<1>11. ASSUME CloseDb PROVE LifeInv'
  BY <1>11 DEF CloseDb
<1>12. ASSUME SendDone PROVE LifeInv'
  BY <1>12 DEF SendDone
<1>13. ASSUME NEW c \in Conn, Accept(c) PROVE LifeInv'
  BY <1>13 DEF Accept
<1>14. ASSUME NEW c \in Conn, Answer(c) PROVE LifeInv'
  BY <1>14 DEF Answer
<1>15. ASSUME Signal PROVE LifeInv'
  <2>1. signals' \in 0..MaxSignals
    BY <1>15, BoundAssumption DEF Signal
  <2>2. CASE End("killed")
    BY <1>15, <2>1, <2>2, EndKeepsInv DEF Signal
  <2>3. CASE shutdown \in {"armed", "signalled"} /\ shutdown' = "signalled"
    BY <1>15, <2>1, <2>3 DEF Signal
  <2>4. QED
    BY <1>15, <2>2, <2>3 DEF Signal
<1>16. CASE UNCHANGED vars
  BY <1>16 DEF vars
<1>17. QED
  BY <1>1, <1>2, <1>3, <1>4, <1>5, <1>6, <1>7, <1>8, <1>9, <1>10, <1>11, <1>12,
     <1>13, <1>14, <1>15, <1>16
  DEF Next, Main, GracefulShutdown

\* It stays so to its end.
LEMMA LifeInvariance == Spec => []LifeInv
<1>1. QED
  BY LifeInvInit, LifeInvStep, PTL DEF Spec

-----------------------------------------------------------------------------
(* The theorems *)

\* The types of main, of the shutdown and of the requests, and with them that
\* done never holds more than the one value it has room for.
THEOREM LifecycleTypes == Spec => []TypeOK
<1>1. LifeInv => TypeOK
  BY DEF LifeInv
<1>2. QED
  BY <1>1, LifeInvariance, PTL

\* The process returns from main only with its database closed.
THEOREM ClosedBeforeExit == Spec => []ExitsAfterClose
<1>1. LifeInv => ExitsAfterClose
  BY DEF LifeInv
<1>2. QED
  BY <1>1, LifeInvariance, PTL

\* A shutdown whose requests answer in time cuts none of them off and takes
\* the database from none, for any number of requests and signals.
THEOREM NoUnforcedCuts == Spec => []OnlyForcedCuts
<1>1. LifeInv => OnlyForcedCuts
  BY DEF LifeInv
<1>2. QED
  BY <1>1, LifeInvariance, PTL

\* main, wherever it is when the shutdown ends, is not left waiting: either of
\* the two goroutines may be first at every point (main.go:69-78).
THEOREM WakeupsArrive == Spec => []NoLostWakeup
<1>1. LifeInv => NoLostWakeup
  <2> SUFFICES ASSUME LifeInv, shutdown = "ended"
               PROVE  \/ main = "spawned"
                      \/ main = "serving" /\ ~listening
                      \/ main = "waiting" /\ done > 0
    BY DEF NoLostWakeup
  <2>1. main \in {"spawned", "serving", "waiting"}
    BY DEF LifeInv, TypeOK, ShutdownOrder
  <2>2. ~listening /\ done > 0
    BY DEF LifeInv, ShutdownOrder, ShuttingDown
  <2>3. QED
    BY <2>1, <2>2
<1>2. QED
  BY <1>1, LifeInvariance, PTL

-----------------------------------------------------------------------------
(* A measure of what is left to do *)

\* Places main and the shutdown have still to go through, and the timer.
MainLeft ==
  CASE main = "boot" -> 4 [] main = "ready" -> 3 [] main = "spawned" -> 2
    [] main = "serving" -> 1 [] OTHER -> 0

ShutdownLeft ==
  CASE shutdown = "unborn" -> 7 [] shutdown = "unarmed" -> 6 [] shutdown = "armed" -> 5
    [] shutdown = "signalled" -> 4 [] shutdown = "draining" -> 3 [] shutdown = "closing" -> 2
    [] shutdown = "closed" -> 1 [] OTHER -> 0

StepsLeft ==
  IF process = "up" THEN 1 + MainLeft + ShutdownLeft + (IF timedOut THEN 0 ELSE 1) ELSE 0

\* What is left is a number.
LEMMA StepsLeftType == StepsLeft \in Nat
BY DEF StepsLeft, MainLeft, ShutdownLeft

\* Nothing is left once the process has ended.
LEMMA EndLeavesNothing ==
  ASSUME process = "up", NEW how \in {"exited", "panicked", "killed"}, End(how)
  PROVE  StepsLeft' < StepsLeft
BY DEF End, StepsLeft, MainLeft, ShutdownLeft

\* Every step of the two goroutines and the timer is one less to do, and
\* neither requests nor signals add to it.
LEMMA StepsRunDown ==
  ASSUME LifeInv, [Next]_vars
  PROVE  /\ StepsLeft' <= StepsLeft
         /\ Main \/ GracefulShutdown \/ FiveSeconds => StepsLeft' < StepsLeft
<1> USE DEF LifeInv, TypeOK, StepsLeft, MainLeft, ShutdownLeft
<1>1. ASSUME Main PROVE StepsLeft' < StepsLeft
  <2>1. CASE Boot
    BY <2>1, EndLeavesNothing DEF Boot
  <2>2. CASE Spawn
    BY <2>2 DEF Spawn, ShutdownOrder
  <2>3. CASE Listen
    BY <2>3, EndLeavesNothing DEF Listen
  <2>4. CASE ServerClosed
    BY <2>4 DEF ServerClosed
  <2>5. CASE Exit
    BY <2>5, EndLeavesNothing DEF Exit
  <2>6. QED
    BY <1>1, <2>1, <2>2, <2>3, <2>4, <2>5 DEF Main
<1>2. ASSUME GracefulShutdown PROVE StepsLeft' < StepsLeft
  BY <1>2 DEF GracefulShutdown, Arm, Drain, Drained, CloseDb, SendDone
<1>3. ASSUME FiveSeconds PROVE StepsLeft' < StepsLeft
  BY <1>3 DEF FiveSeconds
<1>4. ASSUME ServeFails PROVE StepsLeft' < StepsLeft
  BY <1>4, EndLeavesNothing DEF ServeFails
<1>5. ASSUME NEW c \in Conn, Accept(c) \/ Answer(c) PROVE StepsLeft' = StepsLeft
  BY <1>5 DEF Accept, Answer
<1>6. ASSUME Signal PROVE StepsLeft' <= StepsLeft
  <2>1. CASE End("killed")
    BY <1>6, <2>1, StepsLeftType, EndLeavesNothing DEF Signal
  <2>2. CASE shutdown \in {"armed", "signalled"}
    BY <1>6, <2>2 DEF Signal
  <2>3. QED
    BY <1>6, <2>1, <2>2 DEF Signal
<1>7. ASSUME UNCHANGED vars PROVE StepsLeft' = StepsLeft
  BY <1>7 DEF vars
<1>8. StepsLeft \in Nat /\ StepsLeft' \in Nat
  BY StepsLeftType
<1> HIDE DEF LifeInv, TypeOK, StepsLeft, MainLeft, ShutdownLeft
<1>9. ASSUME Main \/ GracefulShutdown \/ FiveSeconds PROVE StepsLeft' < StepsLeft
  BY <1>1, <1>2, <1>3, <1>9
<1>10. StepsLeft' <= StepsLeft
  BY <1>4, <1>5, <1>6, <1>7, <1>8, <1>9 DEF Next
<1>11. QED
  BY <1>9, <1>10

\* The goroutines cannot go round in circles: together with NoLostWakeup and
\* the fairness of Spec, this is why a process that was signalled ends
\* (main.go:27-80).
THEOREM ShutdownRunsDown ==
  Spec => [][/\ StepsLeft' <= StepsLeft
             /\ Main \/ GracefulShutdown \/ FiveSeconds => StepsLeft' < StepsLeft]_vars
<1>1. LifeInv /\ [Next]_vars =>
        [/\ StepsLeft' <= StepsLeft
         /\ Main \/ GracefulShutdown \/ FiveSeconds => StepsLeft' < StepsLeft]_vars
  BY StepsRunDown
<1>2. QED
  BY <1>1, LifeInvariance, PTL DEF Spec
=============================================================================
