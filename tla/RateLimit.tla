------------------------------ MODULE RateLimit ------------------------------
(***************************************************************************)
(* internal/middleware/ratelimit.go: one token bucket per client address,  *)
(* made on the address's first request.  Each Proc is a goroutine serving  *)
(* a request: get, under the mutex, finds or makes the limiter; Allow then *)
(* asks it, after the mutex was released.  POST /login (5 per second,      *)
(* burst 10) and POST /users (3 per second, burst 5) each have a           *)
(* middleware, a map and limiters of their own (server/routes.go).         *)
(*                                                                         *)
(* Time goes in ticks of which Cost make the time one token takes, so that *)
(* fractions of a token count.  rate.Limiter (golang.org/x/time/rate) is   *)
(* not part of the repository: Allow is one atomic step on its bucket.     *)
(***************************************************************************)
EXTENDS Integers, FiniteSetsExt

CONSTANTS
  Ip, Port,  \* RemoteAddr is "ip:port"; net/http always sets it
  Limiter,   \* the *rate.Limiter values that can be made
  Proc, None,
  Burst,     \* tokens a full bucket holds
  Cost,      \* ticks one token takes
  MaxTick    \* bound: ticks of the clock

ASSUME LimiterAssumption == Burst \in Nat \ {0} /\ Cost \in Nat \ {0} /\ MaxTick \in Nat

Addr == Ip \X Port

ASSUME NoneAssumption == None \notin Addr \cup Limiter

Tick == 0..MaxTick

VARIABLES
  now,       \* the clock
  limiters,  \* the map: address -> limiter, or None
  bucket,    \* limiter -> its tokens, in ticks, and when they were counted
  job,       \* proc -> the address and limiter of its request, or None
  admitted   \* history: address -> tick -> requests let through up to that tick

vars == <<now, limiters, bucket, job, admitted>>

NoJob == [addr |-> None, lim |-> None]

TypeOK ==
  /\ now \in Tick
  /\ limiters \in [Addr -> Limiter \cup {None}]
  /\ bucket \in [Limiter -> [tokens: 0..(Burst * Cost), last: Tick]]
  /\ job \in [Proc -> {NoJob} \cup [addr: Addr, lim: Limiter]]
  /\ admitted \in [Addr -> [Tick -> Nat]]

\* Mutant: the burst is one more than what was asked for.
FullBucketOneMore == [tokens |-> (Burst + 1) * Cost, last |-> 0]

\* rate.NewLimiter: the bucket starts full.
FullBucket == [tokens |-> Burst * Cost, last |-> 0]

Init ==
  /\ now = 0
  /\ limiters = [a \in Addr |-> None]
  /\ bucket = [l \in Limiter |-> FullBucket]
  /\ job = [p \in Proc |-> NoJob]
  /\ admitted = [a \in Addr |-> [t \in Tick |-> 0]]

-----------------------------------------------------------------------------

LimitersInUse == {limiters[a] : a \in Addr} \ {None}

FreshLimiters == Limiter \ LimitersInUse

\* Mutant: the lookup and the insertion are not under one lock, so a request
\* may miss the limiter that another one has just put into the map.
GetUnlocked(p, a) ==
  /\ job[p] = NoJob
  /\ \E l \in FreshLimiters :
       /\ limiters' = [limiters EXCEPT ![a] = l]
       /\ job' = [job EXCEPT ![p] = [addr |-> a, lim |-> l]]
  /\ UNCHANGED <<now, bucket, admitted>>

\* Mutant: one limiter serves all addresses.
GetShared(p, a) ==
  /\ job[p] = NoJob
  /\ \E l \in Limiter :
       /\ limiters' = [b \in Addr |-> IF limiters[b] = None THEN l ELSE limiters[b]]
       /\ job' = [job EXCEPT ![p] = [addr |-> a, lim |-> limiters'[a]]]
  /\ UNCHANGED <<now, bucket, admitted>>

Get(p, a) ==
  /\ job[p] = NoJob
  /\ \E l \in IF limiters[a] = None THEN FreshLimiters ELSE {limiters[a]} :
       /\ limiters' = [limiters EXCEPT ![a] = l]
       /\ job' = [job EXCEPT ![p] = [addr |-> a, lim |-> l]]
  /\ UNCHANGED <<now, bucket, admitted>>

\* Mutant: the refill is not capped.
LevelUncapped(l) == bucket[l].tokens + (now - bucket[l].last)

\* What a bucket holds now: it refills with the clock, never beyond Burst.
Level(l) ==
  LET refilled == bucket[l].tokens + (now - bucket[l].last)
  IN  IF refilled <= Burst * Cost THEN refilled ELSE Burst * Cost

CountAdmitted(a) ==
  admitted' = [admitted EXCEPT ![a] = [t \in Tick |-> IF now <= t THEN @[t] + 1 ELSE @[t]]]

\* A full token is taken and the handler runs, or the answer is 429 and the
\* bucket is left alone.
Allow(p) ==
  /\ job[p] # NoJob
  /\ LET l == job[p].lim IN
       \/ /\ Level(l) >= Cost
          /\ bucket' = [bucket EXCEPT ![l] = [tokens |-> Level(l) - Cost, last |-> now]]
          /\ CountAdmitted(job[p].addr)
       \/ Level(l) < Cost /\ UNCHANGED <<bucket, admitted>>
  /\ job' = [job EXCEPT ![p] = NoJob]
  /\ UNCHANGED <<now, limiters>>

ClockTick ==
  /\ now < MaxTick
  /\ now' = now + 1
  /\ UNCHANGED <<limiters, bucket, job, admitted>>

Next ==
  \/ \E p \in Proc, a \in Addr : Get(p, a)
  \/ \E p \in Proc : Allow(p)
  \/ ClockTick

Spec == Init /\ [][Next]_vars

-----------------------------------------------------------------------------
(* The limiters, seen as AddressBuckets: an address that has none yet is one
   with a full bucket, and what a bucket holds is reckoned at the next request. *)

LevelOf == [a \in Addr |-> IF limiters[a] = None THEN Burst * Cost ELSE Level(limiters[a])]

Asking == [p \in Proc |-> job[p].addr]

Passed == [a \in Addr |-> admitted[a][MaxTick]]

Buckets == INSTANCE AddressBuckets WITH level <- LevelOf, asking <- Asking, passed <- Passed

-----------------------------------------------------------------------------
(* Properties *)

\* Making limiters on the first request, looking them up under the mutex but
\* asking them after it, and refilling them only when asked, is the same to
\* clients as a bucket of their own for every address (ratelimit.go get,
\* RateLimit).
ImplementsBuckets == Buckets!Spec

\* The requests of address a admitted in the window i..j.
Admitted(a, i, j) == admitted[a][j] - IF i = 0 THEN 0 ELSE admitted[a][i - 1]

\* What burst and rate allow for a window of j - i ticks.
WithinLimit(n, i, j) == n * Cost <= Burst * Cost + (j - i)

\* Over every window an address gets at most its burst plus what the rate
\* yields, also when its first requests race to make the limiter
\* (ratelimit.go get, RateLimit).
WindowBound ==
  \A a \in Addr : \A j \in Tick : \A i \in 0..j : WithinLimit(Admitted(a, i, j), i, j)

\* An address without a token has used up what some window up to now allows:
\* nobody is refused for the requests of other addresses, nor for requests
\* that were themselves refused.
RefusedOnlyOverLimit ==
  \A a \in Addr : limiters[a] # None /\ Level(limiters[a]) < Cost =>
    \E i \in 0..now : ~WithinLimit(Admitted(a, i, now) + 1, i, now)

\* "limits each client IP to rps requests per second with the given burst
\* size" (ratelimit.go:45-46).
EachClientIPLimited ==
  \A ip \in Ip : \A j \in Tick : \A i \in 0..j :
    WithinLimit(MapThenSumSet(LAMBDA q : Admitted(<<ip, q>>, i, j), Port), i, j)
=============================================================================
