--------------------------- MODULE RateLimitProofs ---------------------------
(* Theorems about RateLimit for any numbers of addresses and requests, any *)
(* burst, any rate and any length of the clock.                            *)
EXTENDS RateLimit, TLAPS

\* Two addresses never share a limiter.
OwnLimiters ==
  \A a, b \in Addr : limiters[a] # None /\ limiters[a] = limiters[b] => a = b

\* A request asks the limiter its address has in the map.
JobsUseTheMap == \A p \in Proc : job[p] # NoJob => job[p].lim = limiters[job[p].addr]

\* Nothing was taken from a limiter nobody has, nor let through for an
\* address without one.
UnusedIsUntouched ==
  /\ \A l \in Limiter : (\A a \in Addr : limiters[a] # l) => bucket[l] = FullBucket
  /\ \A a \in Addr : limiters[a] = None => \A t \in Tick : admitted[a][t] = 0

\* The history does not run ahead of the clock.
NothingAhead == \A a \in Addr : \A t \in Tick : now <= t => admitted[a][t] = admitted[a][now]

\* What is in the bucket and what was let through since i is at most what
\* burst and rate allow since i...
LevelBound(a) ==
  \A i \in 0..now : Level(limiters[a]) + Admitted(a, i, now) * Cost <= Burst * Cost + (now - i)

\* ... and exactly that since the bucket was last full.
LevelReached(a) ==
  \E i \in 0..now : Level(limiters[a]) + Admitted(a, i, now) * Cost = Burst * Cost + (now - i)

LevelsRight == \A a \in Addr : limiters[a] # None => LevelBound(a) /\ LevelReached(a)

RateInv ==
  /\ TypeOK
  /\ OwnLimiters
  /\ JobsUseTheMap
  /\ UnusedIsUntouched
  /\ NothingAhead
  /\ LevelsRight
  /\ WindowBound

-----------------------------------------------------------------------------
(* Arithmetic and types *)

\* Burst and rate make a positive, whole amount of ticks.
LEMMA FullIsPositive == Burst * Cost \in Nat /\ Burst * Cost >= 1 /\ Burst * Cost >= Cost
<1>1. Burst \in Nat /\ Burst >= 1 /\ Cost \in Nat /\ Cost >= 1
  BY LimiterAssumption
<1>2. QED
  BY <1>1

\* One more request costs one token more.
LEMMA OneMoreCost == \A n \in Int : n * Cost \in Int /\ (n + 1) * Cost = n * Cost + Cost /\ 0 * Cost = 0
BY LimiterAssumption

\* A bucket's level is a whole number of ticks and never above the burst.
LEMMA LevelType ==
  ASSUME TypeOK, NEW l \in Limiter
  PROVE  /\ Level(l) \in Int
         /\ Level(l) <= Burst * Cost
         /\ Level(l) <= bucket[l].tokens + (now - bucket[l].last)
         /\ Level(l) = Burst * Cost \/ Level(l) = bucket[l].tokens + (now - bucket[l].last)
<1>1. bucket[l].tokens \in Int /\ bucket[l].last \in Int /\ now \in Int
  BY FullIsPositive, LimiterAssumption DEF TypeOK, Tick
<1>2. QED
  BY <1>1, FullIsPositive DEF Level

\* A limiter nobody has asked holds the burst.
LEMMA FreshLevel ==
  ASSUME TypeOK, NEW l \in Limiter, bucket[l] = FullBucket
  PROVE  Level(l) = Burst * Cost
<1>1. bucket[l].tokens = Burst * Cost /\ bucket[l].last = 0 /\ now \in Nat
  BY LimiterAssumption DEF TypeOK, Tick, FullBucket
<1>2. QED
  BY <1>1, FullIsPositive DEF Level

\* A window's count is a whole number.
LEMMA AdmittedType ==
  ASSUME TypeOK, NEW a \in Addr, NEW j \in Tick, NEW i \in 0..j
  PROVE  /\ Admitted(a, i, j) \in Int
         /\ i > 0 => i - 1 \in Tick /\ Admitted(a, i, j) = admitted[a][j] - admitted[a][i - 1]
         /\ i = 0 => Admitted(a, i, j) = admitted[a][j]
<1>1. admitted[a][j] \in Nat /\ \A t \in Tick : admitted[a][t] \in Nat
  BY DEF TypeOK
<1>2. i > 0 => i - 1 \in Tick
  BY LimiterAssumption DEF Tick
<1>3. QED
  BY <1>1, <1>2, LimiterAssumption DEF Admitted, Tick

\* A job that is not NoJob has an address and a limiter.
LEMMA JobFields ==
  ASSUME TypeOK, NEW p \in Proc, job[p] # NoJob
  PROVE  job[p].addr \in Addr /\ job[p].lim \in Limiter
BY DEF TypeOK

-----------------------------------------------------------------------------
(* The invariant *)

\* The server starts with an empty map and a clock at zero.
LEMMA RateInit == Init => RateInv
<1> SUFFICES ASSUME Init PROVE RateInv
  OBVIOUS
<1> USE DEF Init
<1>1. 0 \in Tick /\ now \in Tick
  BY LimiterAssumption DEF Tick
<1>2. FullBucket \in [tokens: 0..(Burst * Cost), last: Tick]
  BY <1>1, FullIsPositive DEF FullBucket
<1>3. TypeOK
  BY <1>1, <1>2 DEF TypeOK
<1>4. OwnLimiters /\ JobsUseTheMap /\ UnusedIsUntouched /\ NothingAhead /\ LevelsRight
  BY <1>1 DEF OwnLimiters, JobsUseTheMap, UnusedIsUntouched, NothingAhead, LevelsRight
<1>5. WindowBound
  <2> SUFFICES ASSUME NEW a \in Addr, NEW j \in Tick, NEW i \in 0..j
               PROVE  WithinLimit(Admitted(a, i, j), i, j)
    BY DEF WindowBound
  <2>1. Admitted(a, i, j) = 0
    BY <1>3, AdmittedType
  <2>2. i \in Int /\ j \in Int /\ i <= j
    BY LimiterAssumption DEF Tick
  <2>3. QED
    BY <2>1, <2>2, FullIsPositive, OneMoreCost DEF WithinLimit
<1>6. QED
  BY <1>3, <1>4, <1>5 DEF RateInv

\* The lookup gives an address its limiter, a full one of its own the first time.
LEMMA GetKeepsInv ==
  ASSUME RateInv, NEW p \in Proc, NEW a \in Addr, Get(p, a)
  PROVE  RateInv'
<1> USE DEF RateInv
<1>1. PICK l \in IF limiters[a] = None THEN FreshLimiters ELSE {limiters[a]} :
        /\ limiters' = [limiters EXCEPT ![a] = l]
        /\ job' = [job EXCEPT ![p] = [addr |-> a, lim |-> l]]
  BY DEF Get
<1>2. UNCHANGED <<now, bucket, admitted>>
  BY DEF Get
<1>3. l \in Limiter /\ l # None
  BY <1>1, NoneAssumption DEF TypeOK, FreshLimiters
<1>4. \A b \in Addr : b # a => limiters[b] # l
  BY <1>1, <1>3 DEF FreshLimiters, LimitersInUse, OwnLimiters, TypeOK
<1>5. limiters'[a] = l /\ \A b \in Addr : b # a => limiters'[b] = limiters[b]
  BY <1>1 DEF TypeOK
<1>6. [addr |-> a, lim |-> l] # NoJob
  BY <1>3, NoneAssumption DEF NoJob
<1>7. TypeOK'
  BY <1>1, <1>2, <1>3 DEF TypeOK
<1>8. OwnLimiters'
  BY <1>4, <1>5 DEF OwnLimiters
<1>9. JobsUseTheMap'
  <2> SUFFICES ASSUME NEW q \in Proc, job'[q] # NoJob
               PROVE  job'[q].lim = limiters'[job'[q].addr]
    BY DEF JobsUseTheMap
  <2>1. CASE q = p
    BY <1>1, <1>5, <2>1 DEF TypeOK
  <2>2. CASE q # p
    <3>1. job'[q] = job[q]
      BY <1>1, <2>2 DEF TypeOK
    <3>2. job[q].lim = limiters[job[q].addr] /\ job[q].addr \in Addr /\ job[q].lim \in Limiter
      BY <3>1, JobFields DEF JobsUseTheMap
    <3>3. job[q].addr = a => l = limiters[a]
      BY <1>1, <3>2, NoneAssumption
    <3>4. QED
      BY <1>5, <3>1, <3>2, <3>3
  <2>3. QED
    BY <2>1, <2>2
<1>10. UnusedIsUntouched'
  <2>1. ASSUME NEW k \in Limiter, \A b \in Addr : limiters'[b] # k
        PROVE  bucket'[k] = FullBucket
    <3>1. \A b \in Addr : limiters[b] # k
      BY <1>1, <1>3, <1>5, <2>1, NoneAssumption
    <3>2. QED
      BY <1>2, <3>1 DEF UnusedIsUntouched
  <2>2. ASSUME NEW b \in Addr, limiters'[b] = None
        PROVE  \A t \in Tick : admitted'[b][t] = 0
    BY <1>2, <1>3, <1>5, <2>2 DEF UnusedIsUntouched
  <2>3. QED
    BY <2>1, <2>2 DEF UnusedIsUntouched, FullBucket
<1>11. NothingAhead' /\ WindowBound'
  BY <1>2 DEF NothingAhead, WindowBound, WithinLimit, Admitted
<1>12. LevelsRight'
  <2> SUFFICES ASSUME NEW b \in Addr, limiters'[b] # None
               PROVE  LevelBound(b)' /\ LevelReached(b)'
    BY DEF LevelsRight
  <2>1. CASE limiters[b] = limiters'[b]
    BY <1>2, <2>1 DEF LevelsRight, LevelBound, LevelReached, Level, Admitted
  <2>2. CASE limiters[b] # limiters'[b]
    <3>1. b = a /\ limiters[a] = None
      BY <1>1, <1>5, <2>2
    <3>2. \A c \in Addr : limiters[c] # l
      BY <1>3, <1>4, <3>1
    <3>3. bucket[l] = FullBucket /\ \A t \in Tick : admitted[a][t] = 0
      BY <1>3, <3>1, <3>2 DEF UnusedIsUntouched
    <3>4. Level(l) = Burst * Cost
      BY <1>3, <3>3, FreshLevel
    <3>5. now \in Tick /\ now \in Nat
      BY LimiterAssumption DEF TypeOK, Tick
    <3>6. \A i \in 0..now : Admitted(a, i, now) = 0
      BY <3>3, <3>5, AdmittedType
    <3> DEFINE F(i) == Level(l) + Admitted(a, i, now) * Cost
    <3>7. \A i \in 0..now : F(i) = Burst * Cost
      BY <3>4, <3>6, FullIsPositive, OneMoreCost
    <3>8. /\ LevelBound(b)' <=> \A i \in 0..now : F(i) <= Burst * Cost + (now - i)
          /\ LevelReached(b)' <=> \E i \in 0..now : F(i) = Burst * Cost + (now - i)
      BY <1>2, <1>5, <3>1 DEF LevelBound, LevelReached, Level, Admitted
    <3> HIDE DEF F
    <3>9. (\A i \in 0..now : F(i) <= Burst * Cost + (now - i)) /\ now \in 0..now /\ F(now) = Burst * Cost + (now - now)
      BY <3>5, <3>7, FullIsPositive
    <3>10. QED
      BY <3>8, <3>9
  <2>3. QED
    BY <2>1, <2>2
<1>13. QED
  BY <1>7, <1>8, <1>9, <1>10, <1>11, <1>12

\* The check takes a token and counts the request, or does neither.
LEMMA AllowKeepsInv ==
  ASSUME RateInv, NEW p \in Proc, Allow(p)
  PROVE  RateInv'
<1> USE DEF RateInv
<1>1. PICK a \in Addr, l \in Limiter :
        a = job[p].addr /\ l = job[p].lim /\ l = limiters[a] /\ limiters[a] # None
  BY JobFields, NoneAssumption DEF Allow, JobsUseTheMap
<1>2. /\ UNCHANGED <<now, limiters>>
      /\ job' = [job EXCEPT ![p] = NoJob]
      /\ \/ /\ Level(l) >= Cost
            /\ bucket' = [bucket EXCEPT ![l] = [tokens |-> Level(l) - Cost, last |-> now]]
            /\ CountAdmitted(a)
         \/ UNCHANGED <<bucket, admitted>>
  BY <1>1 DEF Allow
<1>3. OwnLimiters' /\ JobsUseTheMap'
  BY <1>2 DEF OwnLimiters, JobsUseTheMap, TypeOK
<1>4. CASE UNCHANGED <<bucket, admitted>>
  <2>1. TypeOK'
    BY <1>2, <1>4 DEF TypeOK
  <2>2. UnusedIsUntouched' /\ NothingAhead' /\ WindowBound' /\ LevelsRight'
    BY <1>2, <1>4 DEF UnusedIsUntouched, FullBucket, NothingAhead, WindowBound, WithinLimit,
                      LevelsRight, LevelBound, LevelReached, Level, Admitted
  <2>3. QED
    BY <1>3, <2>1, <2>2
<1>5. CASE /\ Level(l) >= Cost
           /\ bucket' = [bucket EXCEPT ![l] = [tokens |-> Level(l) - Cost, last |-> now]]
           /\ CountAdmitted(a)
  <2>1. /\ now \in Tick /\ now \in Nat /\ Tick \subseteq Nat
        /\ \A b \in Addr, t \in Tick : admitted[b][t] \in Nat
    BY LimiterAssumption DEF TypeOK, Tick
  <2>2. /\ admitted' = [admitted EXCEPT ![a] =
                         [t \in Tick |-> IF now <= t THEN @[t] + 1 ELSE @[t]]]
        /\ \A t \in Tick : admitted'[a][t] = IF now <= t THEN admitted[a][t] + 1 ELSE admitted[a][t]
        /\ \A b \in Addr : b # a => admitted'[b] = admitted[b]
    BY <1>1, <1>5 DEF CountAdmitted, TypeOK
  <2>3. /\ bucket'[l] = [tokens |-> Level(l) - Cost, last |-> now]
        /\ \A k \in Limiter : k # l => bucket'[k] = bucket[k]
    BY <1>1, <1>5 DEF TypeOK
  <2>4. Level(l) - Cost \in 0..(Burst * Cost)
    BY <1>1, <1>5, LevelType, FullIsPositive, LimiterAssumption
  <2>5. TypeOK'
    <3>1. [t \in Tick |-> IF now <= t THEN admitted[a][t] + 1 ELSE admitted[a][t]] \in [Tick -> Nat]
      BY <1>1, <2>1
    <3>2. admitted' \in [Addr -> [Tick -> Nat]]
      BY <1>1, <2>2, <3>1 DEF TypeOK
    <3>3. bucket' \in [Limiter -> [tokens: 0..(Burst * Cost), last: Tick]]
      BY <1>5, <2>1, <2>4 DEF TypeOK
    <3>4. QED
      BY <1>2, <3>2, <3>3 DEF TypeOK
  <2>6. UnusedIsUntouched'
    BY <1>1, <1>2, <2>2, <2>3 DEF UnusedIsUntouched, FullBucket
  <2>7. NothingAhead'
    <3> SUFFICES ASSUME NEW b \in Addr, NEW t \in Tick, now <= t
                 PROVE  admitted'[b][t] = admitted'[b][now]
      BY <1>2 DEF NothingAhead
    <3>1. admitted[b][t] = admitted[b][now]
      BY DEF NothingAhead
    <3>2. QED
      BY <2>1, <2>2, <3>1
  <2>8. \A i \in 0..now : Admitted(a, i, now)' = Admitted(a, i, now) + 1
    <3> TAKE i \in 0..now
    <3>1. i > 0 => i - 1 \in Tick /\ ~(now <= i - 1)
      BY <2>1, LimiterAssumption DEF Tick
    <3>2. QED
      BY <1>1, <1>2, <2>1, <2>2, <3>1 DEF Admitted
  <2>9. Level(l)' = Level(l) - Cost
    <3>1. bucket'[l].tokens = Level(l) - Cost /\ bucket'[l].last = now
      BY <2>3
    <3>2. QED
      BY <1>2, <2>1, <2>4, <3>1, FullIsPositive DEF Level
  <2>10. LevelBound(a) /\ LevelReached(a)
    BY <1>1 DEF LevelsRight
  <2>11. \A i \in 0..now : /\ i \in Int /\ i <= now
                           /\ Admitted(a, i, now) \in Int
                           /\ Admitted(a, i, now) * Cost \in Int
                           /\ (Admitted(a, i, now) + 1) * Cost = Admitted(a, i, now) * Cost + Cost
    BY <1>1, <2>1, AdmittedType, OneMoreCost
  <2>12. \A i \in 0..now :
           (Level(l) - Cost) + (Admitted(a, i, now) + 1) * Cost = Level(l) + Admitted(a, i, now) * Cost
    BY <1>1, <2>11, LevelType, LimiterAssumption
  <2>13. LevelBound(a)' /\ LevelReached(a)'
    BY <1>1, <1>2, <2>8, <2>9, <2>10, <2>12 DEF LevelBound, LevelReached
  <2>14. LevelsRight'
    <3> SUFFICES ASSUME NEW b \in Addr, limiters[b] # None
                 PROVE  LevelBound(b)' /\ LevelReached(b)'
      BY <1>2 DEF LevelsRight
    <3>1. CASE b = a
      BY <2>13, <3>1
    <3>2. CASE b # a
      <4>1. limiters[b] # l /\ limiters[b] \in Limiter
        BY <1>1, <3>2 DEF OwnLimiters, TypeOK
      <4>2. QED
        BY <1>2, <2>2, <2>3, <3>2, <4>1 DEF LevelsRight, LevelBound, LevelReached, Level, Admitted
    <3>3. QED
      BY <3>1, <3>2
  <2>15. WindowBound'
    <3> SUFFICES ASSUME NEW b \in Addr, NEW j \in Tick, NEW i \in 0..j
                 PROVE  WithinLimit(Admitted(b, i, j)', i, j)
      BY DEF WindowBound, WithinLimit
    <3>1. WithinLimit(Admitted(b, i, j), i, j) /\ i \in Nat /\ j \in Nat /\ i <= j
      BY <2>1 DEF WindowBound
    <3>2. i > 0 => i - 1 \in Tick
      BY <2>1, <3>1, AdmittedType
    <3>3. CASE b # a \/ j < now
      <4>1. Admitted(b, i, j)' = Admitted(b, i, j)
        BY <2>1, <2>2, <3>1, <3>2, <3>3 DEF Admitted
      <4>2. QED
        BY <3>1, <4>1
    <3>4. CASE b = a /\ now <= j /\ i <= now
      <4>1. i \in 0..now /\ admitted'[a][j] = admitted'[a][now]
        BY <1>1, <1>2, <2>1, <2>7, <3>1, <3>4 DEF NothingAhead
      <4>2. Admitted(b, i, j)' = Admitted(a, i, now) + 1
        BY <1>2, <2>8, <3>4, <4>1 DEF Admitted
      <4>3. Level(l) - Cost + (Admitted(a, i, now) + 1) * Cost <= Burst * Cost + (now - i)
        BY <1>1, <2>10, <2>12, <4>1 DEF LevelBound
      <4>4. (Admitted(a, i, now) + 1) * Cost \in Int
        BY <2>11, <4>1, LimiterAssumption
      <4>5. QED
        BY <2>1, <2>4, <3>1, <3>4, <4>2, <4>3, <4>4, FullIsPositive DEF WithinLimit
    <3>5. CASE b = a /\ now < i
      <4>1. i - 1 \in Tick /\ now <= i - 1 /\ now <= j /\ i # 0
        BY <2>1, <3>1, <3>2, <3>5
      <4>2. admitted'[a][j] = admitted'[a][now] /\ admitted'[a][i - 1] = admitted'[a][now]
        BY <1>1, <1>2, <2>7, <4>1 DEF NothingAhead
      <4>3. admitted'[a][now] \in Int
        BY <1>1, <2>1, <2>5 DEF TypeOK
      <4>4. Admitted(b, i, j)' = 0
        BY <3>5, <4>1, <4>2, <4>3 DEF Admitted
      <4>5. QED
        BY <3>1, <4>4, FullIsPositive, OneMoreCost DEF WithinLimit
    <3>6. QED
      BY <2>1, <3>1, <3>3, <3>4, <3>5
  <2>16. QED
    BY <1>3, <2>5, <2>6, <2>7, <2>14, <2>15
<1>6. QED
  BY <1>2, <1>4, <1>5

\* As time goes by, buckets refill and windows grow.
LEMMA TickKeepsInv ==
  ASSUME RateInv, ClockTick
  PROVE  RateInv'
<1> USE DEF RateInv
<1>1. UNCHANGED <<limiters, bucket, job, admitted>> /\ now' = now + 1 /\ now < MaxTick
  BY DEF ClockTick
<1>2. /\ now \in Tick /\ now + 1 \in Tick /\ now \in Nat
      /\ \A b \in Addr, t \in Tick : admitted[b][t] \in Nat
  BY <1>1, LimiterAssumption DEF TypeOK, Tick
<1>3. TypeOK'
  BY <1>1, <1>2 DEF TypeOK
<1>4. OwnLimiters' /\ JobsUseTheMap' /\ WindowBound'
  BY <1>1 DEF OwnLimiters, JobsUseTheMap, WindowBound, WithinLimit, Admitted
<1>5. UnusedIsUntouched'
  BY <1>1 DEF UnusedIsUntouched, FullBucket
<1>6. \A b \in Addr : admitted[b][now + 1] = admitted[b][now]
  BY <1>2 DEF NothingAhead
<1>7. NothingAhead'
  <2> SUFFICES ASSUME NEW b \in Addr, NEW t \in Tick, now + 1 <= t
               PROVE  admitted[b][t] = admitted[b][now + 1]
    BY <1>1 DEF NothingAhead
  <2>1. t \in Int /\ now <= t
    BY <1>2, LimiterAssumption DEF Tick
  <2>2. QED
    BY <1>6, <2>1 DEF NothingAhead
<1>8. LevelsRight'
  <2> SUFFICES ASSUME NEW b \in Addr, limiters[b] # None
               PROVE  LevelBound(b)' /\ LevelReached(b)'
    BY <1>1 DEF LevelsRight
  <2> DEFINE l == limiters[b]
  <2>1. l \in Limiter /\ bucket[l].tokens \in Int /\ bucket[l].last \in Int
    BY LimiterAssumption, FullIsPositive DEF TypeOK, Tick
  <2>2. LevelBound(b) /\ LevelReached(b)
    BY DEF LevelsRight
  <2> DEFINE full == Burst * Cost
             old == Level(l)
             new == Level(l)'
             F(i) == Admitted(b, i, now) * Cost
             G(i) == Admitted(b, i, now + 1) * Cost
  <2>3. new = IF old + 1 <= full THEN old + 1 ELSE full
    BY <1>1, <1>2, <2>1, FullIsPositive DEF Level
  <2>4. old \in Int /\ old <= full /\ full \in Nat
    BY <2>1, LevelType, FullIsPositive
  <2>5. \A i \in 0..now : i \in Nat /\ i <= now /\ F(i) \in Int
    BY <1>2, AdmittedType, OneMoreCost
  <2>6. \A i \in 0..now : G(i) = F(i)
    BY <1>2, <1>6 DEF Admitted
  <2>7. G(now + 1) = 0
    <3>1. now + 1 \in 0..(now + 1) /\ now + 1 > 0 /\ (now + 1) - 1 = now
      BY <1>2
    <3>2. Admitted(b, now + 1, now + 1) = admitted[b][now + 1] - admitted[b][now]
      BY <1>2, <3>1, AdmittedType
    <3>3. QED
      BY <1>2, <1>6, <3>2, OneMoreCost
  <2>8. 0..(now + 1) = (0..now) \cup {now + 1}
    BY <1>2
  <2>9. /\ LevelBound(b)' <=> \A i \in 0..(now + 1) : new + G(i) <= full + ((now + 1) - i)
        /\ LevelReached(b)' <=> \E i \in 0..(now + 1) : new + G(i) = full + ((now + 1) - i)
    BY <1>1 DEF LevelBound, LevelReached, Admitted
  <2>10. /\ \A i \in 0..now : old + F(i) <= full + (now - i)
         /\ \E i \in 0..now : old + F(i) = full + (now - i)
    BY <2>2 DEF LevelBound, LevelReached
  <2> HIDE DEF l, full, old, new, F, G
  <2>11. \A i \in 0..(now + 1) : new + G(i) <= full + ((now + 1) - i)
    <3>1. ASSUME NEW i \in 0..now
          PROVE  new + G(i) <= full + ((now + 1) - i)
      <4>1. i \in Nat /\ F(i) \in Int /\ G(i) = F(i) /\ old + F(i) <= full + (now - i)
        BY <2>5, <2>6, <2>10
      <4>2. QED
        BY <1>2, <2>3, <2>4, <4>1
    <3>2. new + G(now + 1) <= full + ((now + 1) - (now + 1))
      BY <1>2, <2>3, <2>4, <2>7
    <3>3. QED
      BY <2>8, <3>1, <3>2
  <2>12. \E i \in 0..(now + 1) : new + G(i) = full + ((now + 1) - i)
    <3>1. CASE old + 1 <= full
      <4>1. PICK i \in 0..now : old + F(i) = full + (now - i)
        BY <2>10
      <4>2. i \in Nat /\ F(i) \in Int /\ G(i) = F(i) /\ new = old + 1
        BY <2>3, <2>5, <2>6, <3>1
      <4>3. new + G(i) = full + ((now + 1) - i)
        BY <1>2, <2>4, <4>1, <4>2
      <4>4. QED
        BY <2>8, <4>3
    <3>2. CASE ~(old + 1 <= full)
      <4>1. new + G(now + 1) = full + ((now + 1) - (now + 1))
        BY <1>2, <2>3, <2>4, <2>7, <3>2
      <4>2. QED
        BY <2>8, <4>1
    <3>3. QED
      BY <3>1, <3>2
  <2>13. QED
    BY <2>9, <2>11, <2>12
<1>9. QED
  BY <1>3, <1>4, <1>5, <1>7, <1>8

\* The invariant holds for ever.
LEMMA RateInvariance == Spec => []RateInv
<1>1. RateInv /\ [Next]_vars => RateInv'
  <2> SUFFICES ASSUME RateInv, [Next]_vars
               PROVE  RateInv'
    OBVIOUS
  <2>1. ASSUME NEW p \in Proc, NEW a \in Addr, Get(p, a)
        PROVE  RateInv'
    BY <2>1, GetKeepsInv
  <2>2. ASSUME NEW p \in Proc, Allow(p)
        PROVE  RateInv'
    BY <2>2, AllowKeepsInv
  <2>3. CASE ClockTick
    BY <2>3, TickKeepsInv
  <2>4. CASE UNCHANGED vars
    BY <2>4 DEF vars, RateInv, TypeOK, OwnLimiters, JobsUseTheMap, UnusedIsUntouched, FullBucket,
                NothingAhead, LevelsRight, LevelBound, LevelReached, Level, WindowBound, WithinLimit,
                Admitted
  <2>5. QED
    BY <2>1, <2>2, <2>3, <2>4 DEF Next
<1>2. QED
  BY <1>1, RateInit, PTL DEF Spec

-----------------------------------------------------------------------------
(* A bucket for every address *)

\* At first every bucket is full and nobody asks.
LEMMA BucketsInit == Init => Buckets!Init
<1>1. ASSUME Init, NEW a \in Addr PROVE Passed[a] = 0
  BY <1>1, LimiterAssumption DEF Init, Passed, Tick
<1>2. ASSUME Init PROVE Buckets!Init
  BY <1>1, <1>2 DEF Init, Buckets!Init, Buckets!Full, LevelOf, Asking, Passed, NoJob
<1>3. QED
  BY <1>2

\* A step that leaves clock, map and buckets alone leaves the levels alone.
LEMMA LevelsStay ==
  ASSUME UNCHANGED <<now, limiters, bucket>> PROVE LevelOf' = LevelOf
BY DEF LevelOf, Level

\* Finding the limiter of an address, or making it, does not change what the
\* address has: a limiter that was just made is as full as none.
LEMMA GetAsks ==
  ASSUME RateInv, NEW p \in Proc, NEW a \in Addr, Get(p, a)
  PROVE  Buckets!Ask(p, a)
<1> USE DEF RateInv
<1>1. PICK l \in IF limiters[a] = None THEN FreshLimiters ELSE {limiters[a]} :
        /\ limiters' = [limiters EXCEPT ![a] = l]
        /\ job' = [job EXCEPT ![p] = [addr |-> a, lim |-> l]]
  BY DEF Get
<1>2. UNCHANGED <<now, bucket, admitted>> /\ job[p] = NoJob
  BY DEF Get
<1>3. l \in Limiter /\ l # None
  BY <1>1, NoneAssumption DEF TypeOK, FreshLimiters
<1>4. limiters'[a] = l /\ \A b \in Addr : b # a => limiters'[b] = limiters[b]
  BY <1>1 DEF TypeOK
<1>5. LevelOf' = LevelOf
  <2>1. CASE limiters[a] # None
    <3>1. limiters' = limiters
      BY <1>1, <2>1 DEF TypeOK
    <3>2. QED
      BY <1>2, <3>1, LevelsStay
  <2>2. CASE limiters[a] = None
    <3>1. bucket[l] = FullBucket
      BY <1>1, <1>3, <2>2 DEF FreshLimiters, LimitersInUse, UnusedIsUntouched
    <3>2. Level(l)' = Level(l) /\ Level(l) = Burst * Cost
      BY <1>2, <1>3, <3>1, FreshLevel DEF Level
    <3>3. ASSUME NEW b \in Addr PROVE LevelOf'[b] = LevelOf[b]
      BY <1>2, <1>3, <1>4, <2>2, <3>2 DEF LevelOf, Level
    <3>4. QED
      BY <3>3 DEF LevelOf
  <2>3. QED
    BY <2>1, <2>2
<1>6. Asking' = [Asking EXCEPT ![p] = a] /\ Asking[p] = None
  <2>1. ASSUME NEW q \in Proc PROVE Asking'[q] = IF q = p THEN a ELSE Asking[q]
    BY <1>1, <2>1 DEF Asking, TypeOK
  <2>2. Asking[p] = None
    BY <1>2 DEF Asking, NoJob
  <2>3. QED
    BY <2>1, <2>2 DEF Asking
<1>7. QED
  BY <1>2, <1>5, <1>6 DEF Buckets!Ask, Passed

\* Asking the limiter is asking the bucket of the request's own address, and
\* changes no other address's.
LEMMA AllowAnswers ==
  ASSUME RateInv, NEW p \in Proc, Allow(p)
  PROVE  \E a \in Addr : Buckets!Pass(p, a) \/ Buckets!Refuse(p, a)
<1> USE DEF RateInv
<1>1. PICK a \in Addr, l \in Limiter :
        a = job[p].addr /\ l = job[p].lim /\ l = limiters[a] /\ limiters[a] # None
  BY JobFields, NoneAssumption DEF Allow, JobsUseTheMap
<1>2. UNCHANGED <<now, limiters>> /\ job' = [job EXCEPT ![p] = NoJob]
  BY DEF Allow
<1>3. Asking[p] = a /\ Asking' = [Asking EXCEPT ![p] = None] /\ LevelOf[a] = Level(l)
  BY <1>1, <1>2 DEF Asking, LevelOf, NoJob, TypeOK
<1>4. CASE Level(l) < Cost /\ UNCHANGED <<bucket, admitted>>
  BY <1>1, <1>2, <1>3, <1>4, LevelsStay DEF Buckets!Refuse, Passed
<1>5. CASE /\ Level(l) >= Cost
           /\ bucket' = [bucket EXCEPT ![l] = [tokens |-> Level(l) - Cost, last |-> now]]
           /\ CountAdmitted(a)
  <2>1. Level(l) \in Int /\ Level(l) <= Burst * Cost /\ now \in Int
    <3>1. now \in Int
      BY LimiterAssumption DEF TypeOK, Tick
    <3>2. QED
      BY <3>1, LevelType
  <2>2. /\ bucket'[l].tokens = Level(l) - Cost /\ bucket'[l].last = now
        /\ \A k \in Limiter : k # l => bucket'[k] = bucket[k]
    BY <1>5 DEF TypeOK
  <2>3. Level(l)' = Level(l) - Cost
    BY <1>2, <2>1, <2>2, FullIsPositive, LimiterAssumption DEF Level
  <2>4. ASSUME NEW b \in Addr, b # a PROVE LevelOf'[b] = LevelOf[b]
    <3>1. limiters[b] # None => limiters[b] # l /\ limiters[b] \in Limiter
      BY <1>1, <2>4 DEF OwnLimiters, TypeOK
    <3>2. QED
      BY <1>2, <2>2, <2>4, <3>1 DEF LevelOf, Level
  <2>5. LevelOf'[a] = LevelOf[a] - Cost
    BY <1>1, <1>2, <1>3, <2>3 DEF LevelOf
  <2>6. LevelOf' = [LevelOf EXCEPT ![a] = @ - Cost]
    BY <2>4, <2>5 DEF LevelOf
  <2>7. ASSUME NEW b \in Addr
        PROVE  Passed'[b] = IF b = a THEN Passed[b] + 1 ELSE Passed[b]
    BY <1>5, LimiterAssumption DEF CountAdmitted, Passed, TypeOK, Tick
  <2>8. Passed' = [Passed EXCEPT ![a] = @ + 1]
    BY <2>7 DEF Passed
  <2>9. QED
    BY <1>3, <1>5, <2>6, <2>8 DEF Buckets!Pass
<1>6. QED
  BY <1>1, <1>4, <1>5 DEF Allow

\* A tick gives every bucket its worth, though no limiter is touched.
LEMMA TickRefills ==
  ASSUME RateInv, ClockTick
  PROVE  Buckets!Refill
<1> USE DEF RateInv
<1>1. UNCHANGED <<limiters, bucket, job, admitted>> /\ now' = now + 1
  BY DEF ClockTick
<1>2. ASSUME NEW a \in Addr
      PROVE  LevelOf'[a] = IF LevelOf[a] < Burst * Cost THEN LevelOf[a] + 1 ELSE Burst * Cost
  <2>1. CASE limiters[a] = None
    BY <1>1, <2>1, FullIsPositive DEF LevelOf
  <2>2. CASE limiters[a] # None
    <3>1. PICK l \in Limiter : l = limiters[a]
      BY <2>2 DEF TypeOK
    <3>2. bucket[l].tokens \in Int /\ bucket[l].last \in Int /\ now \in Int
      BY FullIsPositive, LimiterAssumption DEF TypeOK, Tick
    <3>3. Level(l)' = IF Level(l) < Burst * Cost THEN Level(l) + 1 ELSE Burst * Cost
      BY <1>1, <3>2, FullIsPositive DEF Level
    <3>4. QED
      BY <1>1, <2>2, <3>1, <3>3 DEF LevelOf
  <2>3. QED
    BY <2>1, <2>2
<1>3. LevelOf' = [a \in Addr |-> IF LevelOf[a] < Burst * Cost THEN LevelOf[a] + 1 ELSE Burst * Cost]
  BY <1>2 DEF LevelOf
<1>4. QED
  BY <1>1, <1>3 DEF Buckets!Refill, Buckets!Full, Asking, Passed

\* Every step is one of a bucket for every address.
LEMMA BucketsStep == RateInv /\ [Next]_vars => [Buckets!Next]_(Buckets!vars)
<1> SUFFICES ASSUME RateInv, [Next]_vars PROVE [Buckets!Next]_(Buckets!vars)
  OBVIOUS
<1>1. ASSUME NEW p \in Proc, NEW a \in Addr, Get(p, a) PROVE Buckets!Next
  BY <1>1, GetAsks DEF Buckets!Next
<1>2. ASSUME NEW p \in Proc, Allow(p) PROVE Buckets!Next
  BY <1>2, AllowAnswers DEF Buckets!Next
<1>3. CASE ClockTick
  BY <1>3, TickRefills DEF Buckets!Next
<1>4. CASE UNCHANGED vars
  BY <1>4, LevelsStay DEF vars, Buckets!vars, Asking, Passed
<1>5. QED
  BY <1>1, <1>2, <1>3, <1>4 DEF Next

-----------------------------------------------------------------------------
(* Theorems *)

\* Every address, limiter, bucket and count stays what it should be; a bucket
\* never goes below zero nor above the burst (ratelimit.go get, RateLimit).
THEOREM LimiterTypes == Spec => []TypeOK
<1>1. RateInv => TypeOK
  BY DEF RateInv
<1>2. QED
  BY <1>1, RateInvariance, PTL

\* Over no window does an address get more than its burst plus what the rate
\* yields, however its first requests race (ratelimit.go get, RateLimit).
THEOREM WindowsBounded == Spec => []WindowBound
<1>1. RateInv => WindowBound
  BY DEF RateInv
<1>2. QED
  BY <1>1, RateInvariance, PTL

\* Who is refused has used up what some window allows: requests of others
\* and refused requests cost an address nothing (ratelimit.go RateLimit).
THEOREM RefusalsAreDue == Spec => []RefusedOnlyOverLimit
<1>1. RateInv => RefusedOnlyOverLimit
  <2> SUFFICES ASSUME RateInv, NEW a \in Addr, limiters[a] # None, Level(limiters[a]) < Cost
               PROVE  \E i \in 0..now : ~WithinLimit(Admitted(a, i, now) + 1, i, now)
    BY DEF RefusedOnlyOverLimit
  <2> USE DEF RateInv
  <2>1. PICK i \in 0..now :
          Level(limiters[a]) + Admitted(a, i, now) * Cost = Burst * Cost + (now - i)
    BY DEF LevelsRight, LevelReached
  <2>2. now \in Tick /\ now \in Nat
    BY LimiterAssumption DEF TypeOK, Tick
  <2>3. limiters[a] \in Limiter /\ Level(limiters[a]) \in Int
    <3>1. limiters[a] \in Limiter
      BY DEF TypeOK
    <3>2. QED
      BY <3>1, LevelType
  <2> DEFINE n == Admitted(a, i, now)
  <2>4. n \in Int
    BY <2>2, AdmittedType
  <2> HIDE DEF n
  <2>5. n * Cost \in Int /\ (n + 1) * Cost = n * Cost + Cost
    BY <2>4, OneMoreCost
  <2>6. Level(limiters[a]) + n * Cost = Burst * Cost + (now - i)
    BY <2>1 DEF n
  <2>7. (n + 1) * Cost > Burst * Cost + (now - i)
    BY <2>2, <2>3, <2>5, <2>6, FullIsPositive, LimiterAssumption
  <2>8. ~WithinLimit(n + 1, i, now)
    <3>1. (n + 1) * Cost \in Int /\ Burst * Cost + (now - i) \in Int
      BY <2>2, <2>5, FullIsPositive, LimiterAssumption
    <3>2. QED
      BY <2>7, <3>1 DEF WithinLimit
  <2>9. QED
    BY <2>8 DEF n
<1>2. QED
  BY <1>1, RateInvariance, PTL

\* The middleware is, for any numbers of addresses and racing requests and any
\* burst and rate, a bucket of its own for every address (ratelimit.go get,
\* RateLimit).
THEOREM LimiterImplementsBuckets == Spec => ImplementsBuckets
<1>1. RateInv /\ [Next]_vars => [Buckets!Next]_(Buckets!vars)
  BY BucketsStep
<1>2. QED
  BY <1>1, BucketsInit, RateInvariance, PTL DEF Spec, ImplementsBuckets, Buckets!Spec
=============================================================================
