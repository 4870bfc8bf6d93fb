--------------------------- MODULE RateLimiterProofs ---------------------------
(* What the rate limiter guarantees for every number of workers, ips and calls,
   and every limit and window. *)
EXTENDS RateLimiter, FiniteSetTheorems, TLAPS

\* A stamp that is recent now was recent before.
LEMMA RecentBefore ==
  ASSUME NEW s \in Nat, NEW t \in Nat, NEW u \in Nat, t <= u, Recent(s, u)
  PROVE  Recent(s, t)
BY LimiterAssumption DEF Recent

\* An answer fills in one call that had none and leaves the others alone.
LEMMA Answering ==
  ASSUME TypeOK, InFlight, NEW w \in Workers,
         NEW c \in Calls, NEW i \in Ips, NEW t \in 0..MaxTime,
         busy[w] # None, busy[w] = [id |-> c, ip |-> i, at |-> t],
         NEW how \in {"redis", "memory"}, NEW ok \in BOOLEAN, Answer(w, how, ok)
  PROVE  /\ log[c] = None /\ t <= now
         /\ log'[c] = [by |-> w, ip |-> i, at |-> t, via |-> how,
                       res |-> IF ok THEN "allowed" ELSE "refused"]
         /\ log'[c] # None
         /\ \A d \in Calls : d # c => log'[d] = log[d]
         /\ log' \in [Calls -> Answers \cup {None}]
         /\ busy' \in [Workers -> [id : Calls, ip : Ips, at : 0..MaxTime] \cup {None}]
         /\ busy'[w] = None
         /\ \A v \in Workers : v # w => busy'[v] = busy[v]
<1> DEFINE r == [by |-> w, ip |-> i, at |-> t, via |-> how,
                 res |-> IF ok THEN "allowed" ELSE "refused"]
<1>1. log[c] = None /\ t <= now
  BY DEF InFlight
<1>2. r \in Answers
  BY DEF Answers
<1>3. r # None
  BY <1>2, LimiterAssumption DEF Answers
<1>4. log' = [log EXCEPT ![c] = r] /\ busy' = [busy EXCEPT ![w] = None]
  BY DEF Answer
<1>5. log'[c] = r /\ \A d \in Calls : d # c => log'[d] = log[d]
  BY <1>4 DEF TypeOK
<1>6. log' \in [Calls -> Answers \cup {None}]
  BY <1>2, <1>4 DEF TypeOK
<1>7. /\ busy' \in [Workers -> [id : Calls, ip : Ips, at : 0..MaxTime] \cup {None}]
      /\ busy'[w] = None
      /\ \A v \in Workers : v # w => busy'[v] = busy[v]
  BY <1>4 DEF TypeOK
<1> QED
  BY <1>1, <1>3, <1>5, <1>6, <1>7

\* Sets of calls and of stamps are finite.
LEMMA Finite ==
  /\ \A S \in SUBSET Calls : IsFiniteSet(S) /\ Cardinality(S) \in Nat
  /\ \A S \in SUBSET (0..MaxTime) : IsFiniteSet(S) /\ Cardinality(S) \in Nat
<1>1. IsFiniteSet(Calls) /\ MaxTime \in Nat
  BY LimiterAssumption
<1>2. IsFiniteSet(0..MaxTime)
  BY <1>1, FS_Interval
<1> QED
  BY <1>1, <1>2, FS_Subset, FS_CardinalityType

\* A subset of a set of calls, or of stamps, is no larger.
LEMMA Smaller ==
  /\ \A S \in SUBSET Calls : \A T \in SUBSET S : Cardinality(T) <= Cardinality(S)
  /\ \A S \in SUBSET (0..MaxTime) : \A T \in SUBSET S : Cardinality(T) <= Cardinality(S)
BY Finite, FS_Subset

\* The list of a process is exact after is_allowed and cleanup: the admission
\* under way is added to what was kept only below the limit.
LEMMA ListAfterCheck ==
  ASSUME TypeOK, InFlight, KeptLive, NEW w \in Workers,
         NEW c \in Calls, NEW i \in Ips, NEW t \in 0..MaxTime,
         busy[w] # None, busy[w] = [id |-> c, ip |-> i, at |-> t],
         MemoryCheck(w), now' = now
  PROVE  KeptLive' /\ kept' \in [Workers -> [Ips -> SUBSET Calls]]
<1> DEFINE left == Filtered(w, i, t)
           ok == Cardinality(left) < Max
<1>1. /\ Answer(w, "memory", ok)
      /\ kept' = [kept EXCEPT ![w][i] = IF ok THEN left \cup {c} ELSE left]
  BY DEF MemoryCheck
<1> HIDE DEF ok
<1>2. ok \in BOOLEAN
  BY DEF ok
<1>3. /\ log[c] = None /\ t <= now
      /\ log'[c] = [by |-> w, ip |-> i, at |-> t, via |-> "memory",
                    res |-> IF ok THEN "allowed" ELSE "refused"]
      /\ log'[c] # None
      /\ \A d \in Calls : d # c => log'[d] = log[d]
  BY <1>1, <1>2, Answering
<1>4. t <= now /\ t \in Nat /\ now \in Nat /\ Max \in Nat
  BY <1>3, LimiterAssumption DEF TypeOK
<1>5. left \subseteq kept[w][i] /\ left \subseteq Calls
  BY <1>3 DEF Filtered, TypeOK
<1>6. /\ kept' \in [Workers -> [Ips -> SUBSET Calls]]
      /\ kept'[w][i] = IF ok THEN left \cup {c} ELSE left
      /\ \A v \in Workers, j \in Ips : (v # w \/ j # i) => kept'[v][j] = kept[v][j]
  BY <1>1, <1>3, <1>5 DEF TypeOK
<1>7. /\ \A v \in Workers, j \in Ips : (v # w \/ j # i) => ByMemory(v, j)' = ByMemory(v, j)
      /\ ByMemory(w, i)' = ByMemory(w, i) \cup (IF ok THEN {c} ELSE {})
      /\ c \notin ByMemory(w, i)
  <2>1. ASSUME NEW v \in Workers, NEW j \in Ips, v # w \/ j # i
        PROVE  ByMemory(v, j)' = ByMemory(v, j)
    <3>1. c \notin ByMemory(v, j) /\ c \notin ByMemory(v, j)'
      BY <1>3, <2>1 DEF ByMemory
    <3>2. \A d \in Calls : d # c => (d \in ByMemory(v, j)' <=> d \in ByMemory(v, j))
      BY <1>3 DEF ByMemory
    <3> QED
      BY <3>1, <3>2 DEF ByMemory
  <2>2. c \notin ByMemory(w, i) /\ (c \in ByMemory(w, i)' <=> ok)
    BY <1>2, <1>3 DEF ByMemory
  <2>3. \A d \in Calls : d # c => (d \in ByMemory(w, i)' <=> d \in ByMemory(w, i))
    BY <1>3 DEF ByMemory
  <2>4. ByMemory(w, i) \subseteq Calls /\ ByMemory(w, i)' \subseteq Calls
    BY DEF ByMemory
  <2>5. ByMemory(w, i)' = ByMemory(w, i) \cup (IF ok THEN {c} ELSE {})
    BY <1>3, <2>2, <2>3, <2>4
  <2> QED
    BY <2>1, <2>2, <2>5
<1>8. ASSUME NEW v \in Workers, NEW j \in Ips
      PROVE  /\ \A d \in ByMemory(v, j)' : Recent(log'[d].at, now') => d \in kept'[v][j]
             /\ kept'[v][j] \subseteq ByMemory(v, j)'
             /\ Cardinality(kept'[v][j]) <= Max
  <2>1. CASE v # w \/ j # i
    <3>1. \A d \in ByMemory(v, j) : log'[d] = log[d]
      BY <1>3 DEF ByMemory
    <3> QED
      BY <2>1, <3>1, <1>6, <1>7 DEF KeptLive
  <2>2. CASE v = w /\ j = i
    <3>1. ASSUME NEW d \in ByMemory(w, i), Recent(log[d].at, now)
          PROVE  d \in left
      <4>1. d \in kept[w][i]
        BY <1>3, <3>1 DEF KeptLive
      <4>2. log[d].at \in Nat
        <5>1. d \in Calls /\ log[d] # None
          BY DEF ByMemory
        <5> QED
          BY <5>1 DEF TypeOK, Answers
      <4> QED
        BY <1>4, <3>1, <4>1, <4>2, RecentBefore DEF Filtered
    <3>2. \A d \in ByMemory(w, i)' : Recent(log'[d].at, now') => d \in kept'[w][i]
      <4> SUFFICES ASSUME NEW d \in ByMemory(w, i)', Recent(log'[d].at, now)
                   PROVE  d \in kept'[w][i]
        OBVIOUS
      <4>1. CASE d = c
        BY <4>1, <1>6, <1>7
      <4>2. CASE d # c
        <5>1. d \in ByMemory(w, i) /\ log'[d] = log[d]
          BY <4>2, <1>3, <1>7 DEF ByMemory
        <5> QED
          BY <5>1, <3>1, <1>6
      <4> QED
        BY <4>1, <4>2
    <3>3. kept'[w][i] \subseteq ByMemory(w, i)'
      BY <1>3, <1>5, <1>6, <1>7 DEF KeptLive
    <3>4. Cardinality(kept'[w][i]) <= Max
      <4>1. CASE ok
        <5>1. IsFiniteSet(left) /\ Cardinality(left) \in Nat
          BY <1>5, Finite
        <5>2. Cardinality(left \cup {c}) <= Cardinality(left) + 1
          BY <5>1, FS_AddElement
        <5>3. IsFiniteSet(left \cup {c}) /\ Cardinality(left \cup {c}) \in Nat
          BY <1>3, <1>5, Finite
        <5>4. Cardinality(left) < Max
          BY <4>1 DEF ok
        <5> HIDE DEF left
        <5>5. Cardinality(left \cup {c}) <= Max
          BY <5>1, <5>2, <5>3, <5>4, <1>4
        <5> QED
          BY <4>1, <1>6, <5>5
      <4>2. CASE ~ok
        <5>1. Cardinality(left) <= Cardinality(kept[w][i])
          BY <1>3, <1>5, Smaller DEF TypeOK
        <5>2. Cardinality(kept[w][i]) <= Max
          BY <1>3 DEF KeptLive
        <5>3. Cardinality(left) \in Nat /\ Cardinality(kept[w][i]) \in Nat
          BY <1>3, <1>5, Finite DEF TypeOK
        <5>4. kept'[w][i] = left
          BY <4>2, <1>6
        <5> HIDE DEF left
        <5> QED
          BY <5>1, <5>2, <5>3, <5>4, <1>4
      <4> QED
        BY <4>1, <4>2
    <3>5. \A d : d \in ByMemory(v, j)' <=> d \in ByMemory(w, i)'
      BY <2>2 DEF ByMemory
    <3> QED
      BY <2>2, <3>2, <3>3, <3>4, <3>5
  <2> QED
    BY <2>1, <2>2
<1> QED
  BY <1>6, <1>8 DEF KeptLive

\* The sorted set stays exact whether or not the pipeline reached Redis before
\* a process answered on its own.
LEMMA SetAfterCheck ==
  ASSUME TypeOK, InFlight, ZsetLive, NEW w \in Workers,
         NEW c \in Calls, NEW i \in Ips, NEW t \in 0..MaxTime,
         busy[w] # None, busy[w] = [id |-> c, ip |-> i, at |-> t],
         NEW how \in {"redis", "memory"}, NEW ok \in BOOLEAN, Answer(w, how, ok),
         \/ zset' = [zset EXCEPT ![busy[w].ip] = Stamped(w)]
         \/ how = "memory" /\ zset' = zset,
         now' = now
  PROVE  ZsetLive' /\ zset' \in [Ips -> SUBSET (0..MaxTime)]
<1>1. /\ log[c] = None /\ t <= now
      /\ log'[c] = [by |-> w, ip |-> i, at |-> t, via |-> how,
                    res |-> IF ok THEN "allowed" ELSE "refused"]
      /\ log'[c] # None
      /\ \A d \in Calls : d # c => log'[d] = log[d]
  BY Answering
<1>2. Stamped(w) = {s \in zset[i] : Recent(s, t)} \cup {t}
  BY DEF Stamped
<1>3. Stamped(w) \subseteq 0..MaxTime
  BY <1>2 DEF TypeOK
<1>4. zset' \in [Ips -> SUBSET (0..MaxTime)]
  BY <1>3 DEF TypeOK
<1>5. /\ \A j \in Ips : j # i => zset'[j] = zset[j]
      /\ zset'[i] = Stamped(w) \/ (how = "memory" /\ zset'[i] = zset[i])
  BY <1>3 DEF TypeOK
<1>6. ASSUME NEW j \in Ips, NEW d \in ByRedis(j)', Recent(log'[d].at, now)
      PROVE  log'[d].at \in zset'[j]
  <2>1. CASE d = c
    <3>1. j = i /\ how = "redis"
      BY <1>1, <2>1 DEF ByRedis
    <3> QED
      BY <1>1, <1>2, <1>5, <2>1, <3>1
  <2>2. CASE d # c
    <3>1. d \in ByRedis(j) /\ log'[d] = log[d] /\ d \in Calls
      BY <1>1, <2>2 DEF ByRedis
    <3>2. log[d].at \in zset[j]
      BY <1>6, <3>1 DEF ZsetLive
    <3>3. log[d].at \in Nat
      BY <3>1 DEF ByRedis, TypeOK, Answers
    <3>4. Recent(log[d].at, t)
      BY <1>1, <1>6, <3>1, <3>3, RecentBefore, LimiterAssumption DEF TypeOK
    <3> QED
      BY <1>2, <1>5, <3>1, <3>2, <3>4
  <2> QED
    BY <2>1, <2>2
<1>7. ASSUME NEW j \in Ips, NEW s \in zset'[j]
      PROVE  \E d \in Logged(j)' : log'[d].at = s
  <2>1. CASE s \in zset[j]
    <3>1. PICK d \in Logged(j) : log[d].at = s
      BY <2>1 DEF ZsetLive
    <3>2. d \in Calls /\ log'[d] = log[d]
      BY <1>1, <3>1 DEF Logged
    <3> QED
      BY <3>1, <3>2 DEF Logged
  <2>2. CASE s \notin zset[j]
    <3>1. j = i /\ s = t
      BY <1>2, <1>5, <2>2
    <3>2. c \in Logged(j)'
      BY <1>1, <3>1 DEF Logged
    <3> QED
      BY <1>1, <3>1, <3>2
  <2> QED
    BY <2>1, <2>2
<1> QED
  BY <1>4, <1>6, <1>7 DEF ZsetLive

\* Redis admits at few different times: what it admitted and is recent is in
\* the set that was just counted.
LEMMA WindowAfterCheck ==
  ASSUME TypeOK, InFlight, ZsetLive, RedisWindow, NEW w \in Workers,
         NEW c \in Calls, NEW i \in Ips, NEW t \in 0..MaxTime,
         busy[w] # None, busy[w] = [id |-> c, ip |-> i, at |-> t],
         NEW how \in {"redis", "memory"}, NEW ok \in BOOLEAN, Answer(w, how, ok),
         (how = "redis" /\ ok) => Cardinality(Stamped(w)) <= Max,
         now' = now
  PROVE  RedisWindow'
<1>1. /\ log[c] = None /\ t <= now
      /\ log'[c] = [by |-> w, ip |-> i, at |-> t, via |-> how,
                    res |-> IF ok THEN "allowed" ELSE "refused"]
      /\ \A d \in Calls : d # c => log'[d] = log[d]
  BY Answering
<1>2. SUFFICES ASSUME NEW j \in Ips
               PROVE  Cardinality(RedisStamps(j)') <= Max
  BY DEF RedisWindow
<1>3. \A d \in Calls : d # c => (d \in ByRedis(j)' <=> d \in ByRedis(j))
  BY <1>1 DEF ByRedis
<1>4. CASE j = i /\ how = "redis" /\ ok
  <2>1. Stamped(w) = {s \in zset[i] : Recent(s, t)} \cup {t}
    BY DEF Stamped
  <2>2. Stamped(w) \in SUBSET (0..MaxTime)
    BY <2>1 DEF TypeOK
  <2>3. ASSUME NEW s \in RedisStamps(i)' PROVE s \in Stamped(w)
    <3>1. PICK d \in ByRedis(i)' : log'[d].at = s
      BY <2>3 DEF RedisStamps
    <3>2. Recent(s, now) /\ s \in 0..MaxTime
      BY <2>3 DEF RedisStamps
    <3>3. CASE d = c
      BY <1>1, <2>1, <3>1, <3>3
    <3>4. CASE d # c
      <4>1. d \in ByRedis(i) /\ log'[d] = log[d]
        BY <1>1, <1>3, <1>4, <3>1, <3>4 DEF ByRedis
      <4>2. s \in zset[i]
        BY <3>1, <3>2, <4>1 DEF ZsetLive
      <4>3. Recent(s, t)
        BY <1>1, <3>2, RecentBefore, LimiterAssumption DEF TypeOK
      <4> QED
        BY <2>1, <4>2, <4>3
    <3> QED
      BY <3>3, <3>4
  <2>4. RedisStamps(i)' \subseteq Stamped(w)
    BY <2>3
  <2>5. Cardinality(RedisStamps(i)') <= Cardinality(Stamped(w))
    BY <2>2, <2>4, Smaller
  <2>6. /\ Cardinality(RedisStamps(i)') \in Nat
        /\ Cardinality(Stamped(w)) \in Nat /\ Max \in Nat
    <3>1. RedisStamps(i)' \in SUBSET (0..MaxTime)
      BY <2>2, <2>4
    <3> QED
      BY <2>2, <3>1, Finite, LimiterAssumption
  <2>7. Cardinality(RedisStamps(i)') <= Max
    BY <1>4, <2>5, <2>6
  <2>8. RedisStamps(j)' = RedisStamps(i)'
    BY <1>4
  <2> QED
    BY <2>7, <2>8
<1>5. CASE ~(j = i /\ how = "redis" /\ ok)
  <2>1. c \notin ByRedis(j) /\ c \notin ByRedis(j)'
    BY <1>1, <1>5 DEF ByRedis
  <2>2. ByRedis(j)' = ByRedis(j)
    BY <1>3, <2>1 DEF ByRedis
  <2>3. \A d \in ByRedis(j) : log'[d] = log[d]
    BY <1>1, <2>1 DEF ByRedis
  <2>4. RedisStamps(j)' = RedisStamps(j)
    BY <2>2, <2>3 DEF RedisStamps
  <2> QED
    BY <2>4 DEF RedisWindow
<1> QED
  BY <1>4, <1>5

\* The answers that justify an earlier refusal are there for good.
LEMMA Justified ==
  ASSUME TypeOK, InFlight, RefusedOverRate, MemoryRefusesAdmitted, NEW w \in Workers,
         NEW c \in Calls, NEW i \in Ips, NEW t \in 0..MaxTime,
         busy[w] # None, busy[w] = [id |-> c, ip |-> i, at |-> t],
         NEW how \in {"redis", "memory"}, NEW ok \in BOOLEAN, Answer(w, how, ok),
         ~ok => Cardinality(Rivals(c)') >= Max,
         (~ok /\ how = "memory") => Cardinality(Admitted(c)') >= Max
  PROVE  RefusedOverRate' /\ MemoryRefusesAdmitted'
<1>1. /\ log[c] = None
      /\ log'[c] = [by |-> w, ip |-> i, at |-> t, via |-> how,
                    res |-> IF ok THEN "allowed" ELSE "refused"]
      /\ \A d \in Calls : d # c => log'[d] = log[d]
  BY Answering
<1>2. Refused(c)' => ~ok
  BY <1>1 DEF Refused
<1>3. ASSUME NEW b \in Calls, b # c, Refused(b)'
      PROVE  /\ Cardinality(Rivals(b)') >= Max
             /\ log'[b].via = "memory" => Cardinality(Admitted(b)') >= Max
  <2>1. Refused(b) /\ log'[b] = log[b]
    BY <1>1, <1>3 DEF Refused
  <2>2. Rivals(b) \subseteq Rivals(b)' /\ Rivals(b)' \in SUBSET Calls
    BY <1>1, <2>1 DEF Rivals
  <2>3. Admitted(b) \subseteq Admitted(b)' /\ Admitted(b)' \in SUBSET Calls
    BY <1>1, <2>1 DEF Admitted, ByMemory
  <2>4. /\ Cardinality(Rivals(b)) <= Cardinality(Rivals(b)')
        /\ Cardinality(Admitted(b)) <= Cardinality(Admitted(b)')
    BY <2>2, <2>3, Smaller
  <2>5. /\ Cardinality(Rivals(b)) >= Max
        /\ log'[b].via = "memory" => Cardinality(Admitted(b)) >= Max
    BY <2>1 DEF RefusedOverRate, MemoryRefusesAdmitted
  <2>6. /\ {Cardinality(Rivals(b)), Cardinality(Rivals(b)')} \subseteq Nat
        /\ {Cardinality(Admitted(b)), Cardinality(Admitted(b)')} \subseteq Nat
        /\ Max \in Nat
    <3>1. /\ Rivals(b) \in SUBSET Calls /\ Admitted(b) \in SUBSET Calls
      BY <2>2, <2>3
    <3> QED
      BY <2>2, <2>3, <3>1, Finite, LimiterAssumption
  <2> QED
    BY <2>4, <2>5, <2>6
<1>4. \A b \in Calls : Refused(b)' => Cardinality(Rivals(b)') >= Max
  <2>1. SUFFICES ASSUME NEW b \in Calls, Refused(b)'
                 PROVE  Cardinality(Rivals(b)') >= Max
    OBVIOUS
  <2>2. CASE b = c
    <3>1. Refused(c)' /\ Rivals(b)' = Rivals(c)'
      BY <2>1, <2>2
    <3> QED
      BY <1>2, <3>1
  <2>3. CASE b # c
    BY <1>3, <2>1, <2>3
  <2> QED
    BY <2>2, <2>3
<1>5. \A b \in Calls :
        Refused(b)' /\ log'[b].via = "memory" => Cardinality(Admitted(b)') >= Max
  <2>1. SUFFICES ASSUME NEW b \in Calls, Refused(b)', log'[b].via = "memory"
                 PROVE  Cardinality(Admitted(b)') >= Max
    OBVIOUS
  <2>2. CASE b = c
    <3>1. Refused(c)' /\ Admitted(b)' = Admitted(c)' /\ how = "memory"
      BY <1>1, <2>1, <2>2
    <3> QED
      BY <1>2, <3>1
  <2>3. CASE b # c
    BY <1>3, <2>1, <2>3
  <2> QED
    BY <2>2, <2>3
<1> QED
  BY <1>4, <1>5 DEF RefusedOverRate, MemoryRefusesAdmitted

\* A process's list refuses when it is full, and all it holds was admitted in
\* the window of the call.
LEMMA ListRefusal ==
  ASSUME TypeOK, InFlight, KeptLive, NEW w \in Workers,
         NEW c \in Calls, NEW i \in Ips, NEW t \in 0..MaxTime,
         busy[w] # None, busy[w] = [id |-> c, ip |-> i, at |-> t],
         Answer(w, "memory", FALSE), Cardinality(Filtered(w, i, t)) >= Max
  PROVE  Cardinality(Rivals(c)') >= Max /\ Cardinality(Admitted(c)') >= Max
<1>1. /\ log[c] = None
      /\ log'[c] = [by |-> w, ip |-> i, at |-> t, via |-> "memory", res |-> "refused"]
      /\ \A d \in Calls : d # c => log'[d] = log[d]
  <2> DEFINE ok == FALSE
  <2>1. ok \in BOOLEAN /\ "memory" \in {"redis", "memory"} /\ Answer(w, "memory", ok)
    OBVIOUS
  <2> HIDE DEF ok
  <2>2. /\ log[c] = None
        /\ log'[c] = [by |-> w, ip |-> i, at |-> t, via |-> "memory",
                      res |-> IF ok THEN "allowed" ELSE "refused"]
        /\ \A d \in Calls : d # c => log'[d] = log[d]
    BY <2>1, Answering
  <2> QED
    BY <2>2 DEF ok
<1>2. ASSUME NEW d \in Filtered(w, i, t)
      PROVE  d \in Rivals(c)' /\ d \in Admitted(c)'
  <2>1. d \in ByMemory(w, i) /\ Recent(log[d].at, t)
    BY <1>2 DEF Filtered, KeptLive
  <2>2. /\ d \in Calls /\ d # c /\ log'[d] = log[d] /\ log'[d] # None
        /\ log[d].ip = i
    BY <1>1, <2>1 DEF ByMemory
  <2>3. d \in ByMemory(w, i)'
    BY <2>1, <2>2 DEF ByMemory
  <2>4. d \in Rivals(c)'
    BY <1>1, <2>1, <2>2 DEF Rivals, Recent
  <2>5. d \in Admitted(c)'
    BY <1>1, <2>1, <2>2, <2>3 DEF Admitted, ByMemory, Recent
  <2> QED
    BY <2>4, <2>5
<1>3. /\ Filtered(w, i, t) \subseteq Rivals(c)' /\ Rivals(c)' \in SUBSET Calls
      /\ Filtered(w, i, t) \subseteq Admitted(c)' /\ Admitted(c)' \in SUBSET Calls
  BY <1>2 DEF Rivals, Admitted, ByMemory
<1>4. /\ Cardinality(Filtered(w, i, t)) <= Cardinality(Rivals(c)')
      /\ Cardinality(Filtered(w, i, t)) <= Cardinality(Admitted(c)')
  BY <1>3, Smaller
<1>5. /\ Cardinality(Filtered(w, i, t)) \in Nat /\ Max \in Nat
      /\ Cardinality(Rivals(c)') \in Nat /\ Cardinality(Admitted(c)') \in Nat
  <2>1. Filtered(w, i, t) \in SUBSET Calls
    BY <1>3
  <2> QED
    BY <1>3, <2>1, Finite, LimiterAssumption
<1> QED
  BY <1>4, <1>5

\* The sorted set refuses when it holds more stamps than the limit; apart from
\* the call's own, each is the stamp of a different answered call.
LEMMA SetRefusal ==
  ASSUME TypeOK, InFlight, ZsetLive, NEW w \in Workers,
         NEW c \in Calls, NEW i \in Ips, NEW t \in 0..MaxTime,
         busy[w] # None, busy[w] = [id |-> c, ip |-> i, at |-> t],
         Answer(w, "redis", FALSE), ~(Cardinality(Stamped(w)) <= Max)
  PROVE  Cardinality(Rivals(c)') >= Max
<1> DEFINE others == Stamped(w) \ {t}
<1>1. /\ log[c] = None
      /\ log'[c] = [by |-> w, ip |-> i, at |-> t, via |-> "redis", res |-> "refused"]
      /\ \A d \in Calls : d # c => log'[d] = log[d]
  <2> DEFINE ok == FALSE
  <2>1. ok \in BOOLEAN /\ "redis" \in {"redis", "memory"} /\ Answer(w, "redis", ok)
    OBVIOUS
  <2> HIDE DEF ok
  <2>2. /\ log[c] = None
        /\ log'[c] = [by |-> w, ip |-> i, at |-> t, via |-> "redis",
                      res |-> IF ok THEN "allowed" ELSE "refused"]
        /\ \A d \in Calls : d # c => log'[d] = log[d]
    BY <2>1, Answering
  <2> QED
    BY <2>2 DEF ok
<1>2. Stamped(w) = {s \in zset[i] : Recent(s, t)} \cup {t}
  BY DEF Stamped
<1>3. Stamped(w) \in SUBSET (0..MaxTime)
  BY <1>2 DEF TypeOK
<1>4. \A s \in others : \E d \in Rivals(c)' : log'[d].at = s
  <2>1. SUFFICES ASSUME NEW s \in others
                 PROVE  \E d \in Rivals(c)' : log'[d].at = s
    OBVIOUS
  <2>2. s \in zset[i] /\ Recent(s, t)
    BY <1>2
  <2>3. PICK d \in Logged(i) : log[d].at = s
    BY <2>2 DEF ZsetLive
  <2>4. d \in Calls /\ d # c /\ log'[d] = log[d] /\ log'[d] # None /\ log[d].ip = i
    BY <1>1, <2>3 DEF Logged
  <2>5. d \in Rivals(c)'
    BY <1>1, <2>2, <2>3, <2>4 DEF Rivals, Recent
  <2> QED
    BY <2>3, <2>4, <2>5
<1>5. Rivals(c)' \in SUBSET Calls
  BY DEF Rivals
<1>6. Cardinality(others) <= Cardinality(Rivals(c)')
  <2> DEFINE f == [s \in others |-> CHOOSE d \in Rivals(c)' : log'[d].at = s]
  <2>1. \A s \in others : f[s] \in Rivals(c)' /\ log'[f[s]].at = s
    BY <1>4
  <2>2. f \in [others -> Rivals(c)']
    BY <2>1
  <2> HIDE DEF f
  <2>3. f \in Injection(others, Rivals(c)')
    BY <2>1, <2>2 DEF Injection, IsInjective
  <2> QED
    BY <1>5, <2>3, Finite, FS_Injection
<1>7. Cardinality(others) = Cardinality(Stamped(w)) - 1
  BY <1>2, <1>3, Finite, FS_RemoveElement
<1>8. /\ Cardinality(Stamped(w)) \in Nat /\ Max \in Nat
      /\ Cardinality(Rivals(c)') \in Nat
  BY <1>3, <1>5, Finite, LimiterAssumption
<1> HIDE DEF others
<1> QED
  BY <1>6, <1>7, <1>8

LEMMA InitIInv == Init => IInv
<1> SUFFICES ASSUME Init PROVE IInv
  OBVIOUS
<1>1. \A ip \in Ips : ByRedis(ip) = {} /\ RedisStamps(ip) = {}
  BY DEF Init, ByRedis, RedisStamps
<1>2. \A w \in Workers, ip \in Ips : ByMemory(w, ip) = {} /\ kept[w][ip] = {}
  BY DEF Init, ByMemory
<1>3. Cardinality({}) = 0 /\ Max \in Nat
  BY FS_EmptySet, LimiterAssumption
<1>4. TypeOK
  BY LimiterAssumption DEF Init, TypeOK
<1>5. InFlight
  BY DEF Init, InFlight
<1>6. KeptLive
  BY <1>2, <1>3 DEF KeptLive
<1>7. ZsetLive
  BY <1>1 DEF Init, ZsetLive
<1>8. RedisWindow
  BY <1>1, <1>3 DEF RedisWindow
<1>9. RefusedOverRate /\ MemoryRefusesAdmitted
  BY DEF Init, RefusedOverRate, MemoryRefusesAdmitted, Refused
<1> QED
  BY <1>4, <1>5, <1>6, <1>7, <1>8, <1>9 DEF IInv

\* A worker in a call holds its number, its ip and its clock.
LEMMA BusyCall ==
  ASSUME TypeOK, NEW w \in Workers, busy[w] # None
  PROVE  \E c \in Calls, i \in Ips, t \in 0..MaxTime : busy[w] = [id |-> c, ip |-> i, at |-> t]
BY DEF TypeOK

\* Answering ends a call, so no two workers come to hold one.
LEMMA InFlightAfterCheck ==
  ASSUME TypeOK, InFlight, NEW w \in Workers,
         NEW c \in Calls, NEW i \in Ips, NEW t \in 0..MaxTime,
         busy[w] # None, busy[w] = [id |-> c, ip |-> i, at |-> t],
         NEW how \in {"redis", "memory"}, NEW ok \in BOOLEAN, Answer(w, how, ok),
         now' = now
  PROVE  InFlight'
<1>1. /\ log[c] = None /\ t <= now
      /\ log'[c] = [by |-> w, ip |-> i, at |-> t, via |-> how,
                    res |-> IF ok THEN "allowed" ELSE "refused"]
      /\ \A d \in Calls : d # c => log'[d] = log[d]
      /\ busy'[w] = None
      /\ \A v \in Workers : v # w => busy'[v] = busy[v]
  BY Answering
<1>2. SUFFICES ASSUME NEW v \in Workers, busy'[v] # None
               PROVE  /\ log'[busy'[v].id] = None /\ busy'[v].at <= now
                      /\ \A u \in Workers : u # v /\ busy'[u] # None => busy'[u].id # busy'[v].id
  BY DEF InFlight
<1>3. v # w /\ busy'[v] = busy[v] /\ busy[v].id \in Calls
  BY <1>1, <1>2 DEF TypeOK
<1>4. busy[v].id # c /\ log[busy[v].id] = None /\ busy[v].at <= now
  BY <1>2, <1>3 DEF InFlight
<1>5. \A u \in Workers : u # v /\ busy'[u] # None => busy'[u].id # busy'[v].id
  BY <1>1, <1>2, <1>3 DEF InFlight
<1> QED
  BY <1>1, <1>3, <1>4, <1>5

\* A process decides alone: its list changes, the sorted set may have.
LEMMA MemoryStep ==
  ASSUME IInv, NEW w \in Workers, busy[w] # None, MemoryCheck(w),
         \/ zset' = zset
         \/ zset' = [zset EXCEPT ![busy[w].ip] = Stamped(w)],
         UNCHANGED <<redis, now>>, faults' \in 0..MaxFaults
  PROVE  IInv'
<1> USE DEF IInv
<1>1. PICK c \in Calls, i \in Ips, t \in 0..MaxTime :
        busy[w] = [id |-> c, ip |-> i, at |-> t]
  BY BusyCall
<1> DEFINE ok == Cardinality(Filtered(w, i, t)) < Max
<1>2. Answer(w, "memory", ok) /\ ok \in BOOLEAN
  BY <1>1 DEF MemoryCheck
<1>3. KeptLive' /\ kept' \in [Workers -> [Ips -> SUBSET Calls]]
  BY <1>1, ListAfterCheck
<1>4. Filtered(w, i, t) \in SUBSET Calls
  BY <1>1 DEF Filtered, TypeOK
<1>5. Cardinality(Filtered(w, i, t)) \in Nat /\ Max \in Nat
  BY <1>4, Finite, LimiterAssumption
<1>6. ~ok => /\ Cardinality(Filtered(w, i, t)) >= Max
             /\ Answer(w, "memory", FALSE)
  <2>1. ASSUME ~ok PROVE ok = FALSE
    BY <1>2, <2>1
  <2>2. ASSUME ~ok PROVE Cardinality(Filtered(w, i, t)) >= Max
    <3> HIDE DEF Filtered
    <3> QED
      BY <1>5, <2>2
  <2>3. ASSUME ~ok PROVE Answer(w, "memory", FALSE)
    <3>1. ok = FALSE
      BY <2>1, <2>3
    <3> HIDE DEF ok
    <3> QED
      BY <1>2, <3>1
  <2> QED
    BY <2>2, <2>3
<1> HIDE DEF ok
<1>7. ~ok => Cardinality(Rivals(c)') >= Max /\ Cardinality(Admitted(c)') >= Max
  BY <1>1, <1>6, ListRefusal
<1>8. RefusedOverRate' /\ MemoryRefusesAdmitted'
  BY <1>1, <1>2, <1>7, Justified
<1>9. ZsetLive' /\ zset' \in [Ips -> SUBSET (0..MaxTime)]
  BY <1>1, <1>2, SetAfterCheck
<1>10. RedisWindow'
  BY <1>1, <1>2, WindowAfterCheck
<1>11. InFlight'
  BY <1>1, <1>2, InFlightAfterCheck
<1>12. /\ log' \in [Calls -> Answers \cup {None}]
       /\ busy' \in [Workers -> [id : Calls, ip : Ips, at : 0..MaxTime] \cup {None}]
  BY <1>1, <1>2, Answering
<1>13. TypeOK'
  BY <1>3, <1>9, <1>12 DEF TypeOK
<1> QED
  BY <1>3, <1>8, <1>9, <1>10, <1>11, <1>13

\* Redis decides: the lists stay as they are.
LEMMA RedisStep ==
  ASSUME IInv, NEW w \in Workers, RedisCheck(w)
  PROVE  IInv'
<1> USE DEF IInv
<1>1. /\ busy[w] # None
      /\ zset' = [zset EXCEPT ![busy[w].ip] = Stamped(w)]
      /\ Answer(w, "redis", Cardinality(Stamped(w)) <= Max)
      /\ UNCHANGED <<redis, now, kept, faults>>
  BY DEF RedisCheck
<1>2. PICK c \in Calls, i \in Ips, t \in 0..MaxTime :
        busy[w] = [id |-> c, ip |-> i, at |-> t]
  BY <1>1, BusyCall
<1> DEFINE ok == Cardinality(Stamped(w)) <= Max
<1>3. Answer(w, "redis", ok) /\ ok \in BOOLEAN
  BY <1>1
<1>4. ok <=> Cardinality(Stamped(w)) <= Max
  OBVIOUS
<1> HIDE DEF ok
<1>5. ~ok => Answer(w, "redis", FALSE)
  <2>1. ASSUME ~ok PROVE ok = FALSE
    BY <1>3, <2>1
  <2> QED
    BY <1>3, <2>1
<1>6. ~ok => Cardinality(Rivals(c)') >= Max
  BY <1>1, <1>2, <1>4, <1>5, SetRefusal
<1>7. RefusedOverRate' /\ MemoryRefusesAdmitted'
  BY <1>1, <1>2, <1>3, <1>6, Justified
<1>8. ZsetLive' /\ zset' \in [Ips -> SUBSET (0..MaxTime)]
  BY <1>1, <1>2, <1>3, SetAfterCheck
<1>9. RedisWindow'
  BY <1>1, <1>2, <1>3, <1>4, WindowAfterCheck
<1>10. InFlight'
  BY <1>1, <1>2, <1>3, InFlightAfterCheck
<1>11. /\ log[c] = None
       /\ log'[c] = [by |-> w, ip |-> i, at |-> t, via |-> "redis",
                     res |-> IF ok THEN "allowed" ELSE "refused"]
       /\ \A d \in Calls : d # c => log'[d] = log[d]
       /\ log' \in [Calls -> Answers \cup {None}]
       /\ busy' \in [Workers -> [id : Calls, ip : Ips, at : 0..MaxTime] \cup {None}]
  BY <1>1, <1>2, <1>3, Answering
<1>12. KeptLive'
  <2>1. SUFFICES ASSUME NEW v \in Workers, NEW j \in Ips
                 PROVE  /\ \A d \in ByMemory(v, j)' : Recent(log'[d].at, now) => d \in kept[v][j]
                        /\ kept[v][j] \subseteq ByMemory(v, j)'
                        /\ Cardinality(kept[v][j]) <= Max
    BY <1>1 DEF KeptLive
  <2>2. c \notin ByMemory(v, j) /\ c \notin ByMemory(v, j)'
    BY <1>11 DEF ByMemory
  <2>3. \A d \in Calls : d # c => (d \in ByMemory(v, j)' <=> d \in ByMemory(v, j))
    BY <1>11 DEF ByMemory
  <2>4. ByMemory(v, j)' = ByMemory(v, j)
    BY <2>2, <2>3 DEF ByMemory
  <2>5. \A d \in ByMemory(v, j) : log'[d] = log[d]
    BY <1>11, <2>2 DEF ByMemory
  <2> QED
    BY <2>4, <2>5 DEF KeptLive
<1>13. TypeOK'
  BY <1>1, <1>8, <1>11 DEF TypeOK
<1> QED
  BY <1>7, <1>8, <1>9, <1>10, <1>12, <1>13

\* When the answers are the same and the clock has not gone back, what was
\* proved of them stays true.
LEMMA SameLog ==
  ASSUME IInv, log' = log, zset' = zset, now' \in Nat, now <= now'
  PROVE  ZsetLive' /\ RedisWindow' /\ RefusedOverRate' /\ MemoryRefusesAdmitted'
<1> USE DEF IInv
<1>1. now \in Nat
  BY LimiterAssumption DEF TypeOK
<1>2. \A j \in Ips : ByRedis(j)' = ByRedis(j) /\ Logged(j)' = Logged(j)
  BY DEF ByRedis, Logged
<1>3. ASSUME NEW j \in Ips, NEW d \in ByRedis(j), Recent(log[d].at, now')
      PROVE  log[d].at \in zset[j]
  <2>1. log[d].at \in Nat
    BY DEF ByRedis, TypeOK, Answers
  <2>2. Recent(log[d].at, now)
    BY <1>1, <1>3, <2>1, RecentBefore
  <2> QED
    BY <2>2 DEF ZsetLive
<1>4. ZsetLive'
  BY <1>2, <1>3 DEF ZsetLive
<1>5. ASSUME NEW j \in Ips PROVE Cardinality(RedisStamps(j)') <= Max
  <2>1. RedisStamps(j)' \subseteq RedisStamps(j)
    <3>1. ASSUME NEW s \in RedisStamps(j)' PROVE s \in RedisStamps(j)
      <4>1. s \in 0..MaxTime /\ Recent(s, now') /\ \E d \in ByRedis(j) : log[d].at = s
        BY <1>2, <3>1 DEF RedisStamps
      <4>2. Recent(s, now)
        BY <1>1, <4>1, RecentBefore
      <4> QED
        BY <4>1, <4>2 DEF RedisStamps
    <3> QED
      BY <3>1
  <2>2. RedisStamps(j) \in SUBSET (0..MaxTime)
    BY DEF RedisStamps
  <2>3. RedisStamps(j)' \in SUBSET (0..MaxTime)
    BY <2>1, <2>2
  <2>4. Cardinality(RedisStamps(j)') <= Cardinality(RedisStamps(j))
    BY <2>1, <2>2, Smaller
  <2>5. Cardinality(RedisStamps(j)) <= Max
    BY DEF RedisWindow
  <2> QED
    BY <2>2, <2>3, <2>4, <2>5, Finite, LimiterAssumption
<1>6. RedisWindow'
  BY <1>5 DEF RedisWindow
<1>7. \A b \in Calls : /\ Refused(b)' <=> Refused(b)
                       /\ Rivals(b)' = Rivals(b) /\ Admitted(b)' = Admitted(b)
  BY DEF Refused, Rivals, Admitted, ByMemory
<1>8. RefusedOverRate' /\ MemoryRefusesAdmitted'
  BY <1>7 DEF RefusedOverRate, MemoryRefusesAdmitted
<1> QED
  BY <1>4, <1>6, <1>8

LEMMA BeginStep ==
  ASSUME IInv, NEW w \in Workers, NEW c \in Calls, NEW i \in Ips, Begin(w, c, i)
  PROVE  IInv'
<1> USE DEF IInv
<1>1. /\ busy[w] = None /\ log[c] = None
      /\ \A v \in Workers : busy[v] # None => busy[v].id # c
      /\ busy' = [busy EXCEPT ![w] = [id |-> c, ip |-> i, at |-> now]]
      /\ UNCHANGED <<redis, now, zset, kept, log, faults>>
  BY DEF Begin
<1>2. now \in Nat /\ now \in 0..MaxTime
  BY LimiterAssumption DEF TypeOK
<1>3. ZsetLive' /\ RedisWindow' /\ RefusedOverRate' /\ MemoryRefusesAdmitted'
  BY <1>1, <1>2, SameLog
<1>4. TypeOK'
  BY <1>1, <1>2 DEF TypeOK
<1>5. /\ busy'[w] = [id |-> c, ip |-> i, at |-> now]
      /\ \A v \in Workers : v # w => busy'[v] = busy[v]
  BY <1>1 DEF TypeOK
<1>6. InFlight'
  BY <1>1, <1>2, <1>5 DEF InFlight
<1>7. \A v \in Workers, j \in Ips : ByMemory(v, j)' = ByMemory(v, j)
  BY <1>1 DEF ByMemory
<1>8. KeptLive'
  BY <1>1, <1>7 DEF KeptLive
<1> QED
  BY <1>3, <1>4, <1>6, <1>8

LEMMA CleanupStep ==
  ASSUME IInv, NEW w \in Workers, Cleanup(w)
  PROVE  IInv'
<1> USE DEF IInv
<1>1. /\ kept' = [kept EXCEPT ![w] = [ip \in Ips |->
            IF Filtered(w, ip, now) = {} THEN {} ELSE kept[w][ip]]]
      /\ UNCHANGED <<redis, now, zset, busy, log, faults>>
  BY DEF Cleanup
<1>2. now \in Nat
  BY LimiterAssumption DEF TypeOK
<1>3. ZsetLive' /\ RedisWindow' /\ RefusedOverRate' /\ MemoryRefusesAdmitted'
  BY <1>1, <1>2, SameLog
<1>4. /\ kept' \in [Workers -> [Ips -> SUBSET Calls]]
      /\ \A j \in Ips : kept'[w][j] = IF Filtered(w, j, now) = {} THEN {} ELSE kept[w][j]
      /\ \A v \in Workers : v # w => kept'[v] = kept[v]
  BY <1>1 DEF TypeOK
<1>5. \A v \in Workers, j \in Ips : ByMemory(v, j)' = ByMemory(v, j)
  BY <1>1 DEF ByMemory
<1>6. ASSUME NEW v \in Workers, NEW j \in Ips
      PROVE  /\ \A d \in ByMemory(v, j) : Recent(log[d].at, now) => d \in kept'[v][j]
             /\ kept'[v][j] \subseteq ByMemory(v, j)
             /\ Cardinality(kept'[v][j]) <= Max
  <2>1. /\ \A d \in ByMemory(v, j) : Recent(log[d].at, now) => d \in kept[v][j]
        /\ kept[v][j] \subseteq ByMemory(v, j)
        /\ Cardinality(kept[v][j]) <= Max
    BY DEF KeptLive
  <2>2. CASE kept'[v][j] = kept[v][j]
    BY <2>1, <2>2
  <2>3. CASE kept'[v][j] # kept[v][j]
    <3>1. v = w /\ Filtered(w, j, now) = {} /\ kept'[v][j] = {}
      BY <1>4, <2>3
    <3>2. \A d \in ByMemory(v, j) : ~Recent(log[d].at, now)
      BY <2>1, <3>1 DEF Filtered
    <3>3. Cardinality({}) <= Max
      BY FS_EmptySet, LimiterAssumption
    <3> QED
      BY <3>1, <3>2, <3>3
  <2> QED
    BY <2>2, <2>3
<1>7. KeptLive'
  BY <1>1, <1>5, <1>6 DEF KeptLive
<1>8. TypeOK' /\ InFlight'
  BY <1>1, <1>4 DEF TypeOK, InFlight
<1> QED
  BY <1>3, <1>7, <1>8

LEMMA TickStep ==
  ASSUME IInv, Tick
  PROVE  IInv'
<1> USE DEF IInv
<1>1. now < MaxTime /\ now' = now + 1 /\ UNCHANGED <<redis, zset, kept, busy, log, faults>>
  BY DEF Tick
<1>2. now \in Nat /\ now' \in Nat /\ now <= now' /\ now' \in 0..MaxTime
  BY <1>1, LimiterAssumption DEF TypeOK
<1>3. ZsetLive' /\ RedisWindow' /\ RefusedOverRate' /\ MemoryRefusesAdmitted'
  BY <1>1, <1>2, SameLog
<1>4. TypeOK'
  BY <1>1, <1>2 DEF TypeOK
<1>5. ASSUME NEW v \in Workers, busy[v] # None
      PROVE  busy[v].at <= now'
  <2>1. busy[v].at <= now /\ busy[v].at \in Nat
    BY <1>5 DEF InFlight, TypeOK
  <2> QED
    BY <1>2, <2>1
<1>6. InFlight'
  BY <1>1, <1>5 DEF InFlight
<1>7. ASSUME NEW v \in Workers, NEW j \in Ips, NEW d \in ByMemory(v, j), Recent(log[d].at, now')
      PROVE  d \in kept[v][j]
  <2>1. log[d].at \in Nat
    BY DEF ByMemory, TypeOK, Answers
  <2>2. Recent(log[d].at, now)
    BY <1>2, <1>7, <2>1, RecentBefore
  <2> QED
    BY <2>2 DEF KeptLive
<1>8. \A v \in Workers, j \in Ips : ByMemory(v, j)' = ByMemory(v, j)
  BY <1>1 DEF ByMemory
<1>9. KeptLive'
  BY <1>1, <1>7, <1>8 DEF KeptLive
<1> QED
  BY <1>3, <1>4, <1>6, <1>9

\* The inductive invariant holds in every state.
THEOREM Invariance == Spec => []IInv
<1>1. Init => IInv
  BY InitIInv
<1>2. IInv /\ [Next]_vars => IInv'
  <2> SUFFICES ASSUME IInv, [Next]_vars PROVE IInv'
    OBVIOUS
  <2>1. CASE \E w \in Workers, c \in Calls, ip \in Ips : Begin(w, c, ip)
    BY <2>1, BeginStep
  <2>2. CASE \E w \in Workers : RedisCheck(w)
    BY <2>2, RedisStep
  <2>3. ASSUME NEW w \in Workers, Local(w) PROVE IInv'
    <3>1. /\ busy[w] # None /\ MemoryCheck(w) /\ zset' = zset
          /\ UNCHANGED <<redis, now>> /\ faults' = faults
      BY <2>3 DEF Local
    <3>2. faults' \in 0..MaxFaults
      BY <3>1 DEF IInv, TypeOK
    <3> QED
      BY <3>1, <3>2, MemoryStep
  <2>4. ASSUME NEW w \in Workers, FallBack(w) PROVE IInv'
    <3>1. /\ busy[w] # None /\ MemoryCheck(w)
          /\ zset' = zset \/ zset' = [zset EXCEPT ![busy[w].ip] = Stamped(w)]
          /\ UNCHANGED <<redis, now>> /\ faults < MaxFaults /\ faults' = faults + 1
      BY <2>4 DEF FallBack
    <3>2. faults' \in 0..MaxFaults
      BY <3>1, LimiterAssumption DEF IInv, TypeOK
    <3> QED
      BY <3>1, <3>2, MemoryStep
  <2>5. CASE \E w \in Workers : Cleanup(w)
    BY <2>5, CleanupStep
  <2>6. CASE Tick
    BY <2>6, TickStep
  <2>7. CASE UNCHANGED vars
    BY <2>7 DEF vars, IInv, TypeOK, InFlight, KeptLive, ZsetLive, RedisWindow,
      RefusedOverRate, MemoryRefusesAdmitted, ByMemory, ByRedis, Logged, RedisStamps,
      Refused, Rivals, Admitted, Recent
  <2> QED
    BY <2>1, <2>2, <2>3, <2>4, <2>5, <2>6, <2>7 DEF Next
<1> QED
  BY <1>1, <1>2, PTL DEF Spec

\* The stores, the calls in progress and the answers keep their types.
THEOREM TypeCorrect == Spec => []TypeOK
BY Invariance, PTL DEF IInv

\* A process's list admits at most max_requests calls of an ip in a window.
THEOREM ListBound == Spec => []MemoryWindow
<1>1. IInv => MemoryWindow
  <2> SUFFICES ASSUME IInv, NEW w \in Workers, NEW ip \in Ips
               PROVE  Cardinality({c \in ByMemory(w, ip) : Recent(log[c].at, now)}) <= Max
    BY DEF MemoryWindow
  <2> DEFINE S == {c \in ByMemory(w, ip) : Recent(log[c].at, now)}
  <2>1. /\ S \subseteq kept[w][ip] /\ Cardinality(kept[w][ip]) <= Max
        /\ kept[w][ip] \in SUBSET Calls
    BY DEF IInv, KeptLive, TypeOK
  <2>2. S \in SUBSET Calls
    BY <2>1
  <2>3. Cardinality(S) <= Cardinality(kept[w][ip])
    BY <2>1, Smaller
  <2>4. Cardinality(S) \in Nat /\ Cardinality(kept[w][ip]) \in Nat /\ Max \in Nat
    BY <2>1, <2>2, Finite, LimiterAssumption
  <2> HIDE DEF S
  <2>5. Cardinality(S) <= Max
    BY <2>1, <2>3, <2>4
  <2> QED
    BY <2>5 DEF S
<1> QED
  BY <1>1, Invariance, PTL

\* Redis admits an ip at no more than max_requests different times in a window.
THEOREM SetBound == Spec => []RedisWindow
BY Invariance, PTL DEF IInv

\* Whoever is refused is over the rate, counting refused calls.
THEOREM NoUndueRefusal == Spec => []RefusedOverRate
BY Invariance, PTL DEF IInv

\* A process's list refuses only on account of calls it admitted.
THEOREM ListRefusals == Spec => []MemoryRefusesAdmitted
BY Invariance, PTL DEF IInv
=============================================================================
