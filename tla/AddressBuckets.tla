---------------------------- MODULE AddressBuckets ----------------------------
(***************************************************************************)
(* What the rate limiter promises, without map, mutex or limiters: every   *)
(* address has a bucket from the beginning, which refills a tick's worth   *)
(* every tick.  A request is answered by the bucket of its own address, at *)
(* one moment: it takes a token and passes, or there is none.              *)
(***************************************************************************)
EXTENDS Integers

CONSTANTS
  Addr, Proc, None,
  Burst,  \* tokens a full bucket holds
  Cost    \* ticks one token takes

VARIABLES
  level,   \* address -> what its bucket holds, in ticks
  asking,  \* proc -> the address of its request, or None
  passed   \* address -> how many of its requests passed

vars == <<level, asking, passed>>

Full == Burst * Cost

Init ==
  /\ level = [a \in Addr |-> Full]
  /\ asking = [p \in Proc |-> None]
  /\ passed = [a \in Addr |-> 0]

Ask(p, a) ==
  /\ asking[p] = None
  /\ asking' = [asking EXCEPT ![p] = a]
  /\ UNCHANGED <<level, passed>>

Pass(p, a) ==
  /\ asking[p] = a /\ level[a] >= Cost
  /\ asking' = [asking EXCEPT ![p] = None]
  /\ level' = [level EXCEPT ![a] = @ - Cost]
  /\ passed' = [passed EXCEPT ![a] = @ + 1]

Refuse(p, a) ==
  /\ asking[p] = a /\ level[a] < Cost
  /\ asking' = [asking EXCEPT ![p] = None]
  /\ UNCHANGED <<level, passed>>

Refill ==
  /\ level' = [a \in Addr |-> IF level[a] < Full THEN level[a] + 1 ELSE Full]
  /\ UNCHANGED <<asking, passed>>

Next ==
  \/ \E p \in Proc, a \in Addr : Ask(p, a) \/ Pass(p, a) \/ Refuse(p, a)
  \/ Refill

Spec == Init /\ [][Next]_vars
=============================================================================
