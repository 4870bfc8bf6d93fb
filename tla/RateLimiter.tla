----------------------------- MODULE RateLimiter -----------------------------
(***************************************************************************)
(* The per-IP sliding-window rate limiter.  is_allowed asks a sorted set   *)
(* in Redis that all workers share, or, without Redis or when Redis fails, *)
(* a list of timestamps of its own process.                                *)
(*                                                                         *)
(* is_allowed never awaits: its worker is blocked from reading the clock   *)
(* to the answer.  Other workers run in between, so the stamp of a call may*)
(* be old when its commands reach Redis.  The list of a process is modelled*)
(* as the set of the calls whose stamps it holds; an ip with an empty list *)
(* and an ip without one are the same.                                     *)
(***************************************************************************)
EXTENDS Naturals, FiniteSets

CONSTANTS Workers,      \* worker processes
          Ips,          \* client addresses
          Calls,        \* calls of is_allowed
          Max,          \* max_requests
          Window,       \* window_seconds
          MaxTime,      \* bound: the clock
          MaxFaults,    \* bound: failing pipelines
          None

ASSUME LimiterAssumption ==
  /\ IsFiniteSet(Calls)
  /\ {Max, Window, MaxTime, MaxFaults} \subseteq Nat
  /\ None \notin [id : Calls, ip : Ips, at : Nat]
  /\ None \notin [by : Workers, ip : Ips, at : Nat, via : {"redis", "memory"},
                  res : {"allowed", "refused"}]

VARIABLES
  redis,    \* whether Redis is configured; never changes
  now,      \* the clock of the workers' machine
  zset,     \* rate_limit:{ip}: the members are the stamps themselves
  kept,     \* _requests of each process
  busy,     \* the call each worker is in, with the clock it read
  log,      \* history: how each call was answered
  faults    \* how much of the bound is used

vars == <<redis, now, zset, kept, busy, log, faults>>

Answers ==
  [by : Workers, ip : Ips, at : 0..MaxTime, via : {"redis", "memory"},
   res : {"allowed", "refused"}]

Init ==
  /\ redis \in BOOLEAN
  /\ now = 0
  /\ zset = [ip \in Ips |-> {}]
  /\ kept = [w \in Workers |-> [ip \in Ips |-> {}]]
  /\ busy = [w \in Workers |-> None]
  /\ log = [c \in Calls |-> None]
  /\ faults = 0

-----------------------------------------------------------------------------
(* is_allowed *)

\* Mutant: the clock is rounded up to the next second.
BeginRounded(w, c, ip) ==
  /\ busy[w] = None
  /\ log[c] = None
  /\ \A v \in Workers : busy[v] # None => busy[v].id # c
  /\ busy' = [busy EXCEPT ![w] = [id |-> c, ip |-> ip, at |-> now + 1]]
  /\ UNCHANGED <<redis, now, zset, kept, log, faults>>

Begin(w, c, ip) ==
  /\ busy[w] = None
  /\ log[c] = None
  /\ \A v \in Workers : busy[v] # None => busy[v].id # c
  /\ busy' = [busy EXCEPT ![w] = [id |-> c, ip |-> ip, at |-> now]]
  /\ UNCHANGED <<redis, now, zset, kept, log, faults>>

Answer(w, how, ok) ==
  /\ log' = [log EXCEPT ![busy[w].id] =
       [by |-> w, ip |-> busy[w].ip, at |-> busy[w].at, via |-> how,
        res |-> IF ok THEN "allowed" ELSE "refused"]]
  /\ busy' = [busy EXCEPT ![w] = None]

\* Is a stamp inside the window that ends at t?
Recent(stamp, t) == stamp + Window > t

\* zremrangebyscore and zadd: a refused call leaves its stamp all the same.
Stamped(w) == {s \in zset[busy[w].ip] : Recent(s, busy[w].at)} \cup {busy[w].at}

\* Mutant: zcard runs ahead of zadd, and its result is compared as before.
RedisCheckLate(w) ==
  /\ busy[w] # None
  /\ redis
  /\ LET ok == Cardinality(Stamped(w) \ {busy[w].at}) <= Max
     IN /\ zset' = [zset EXCEPT ![busy[w].ip] = Stamped(w)]
        /\ Answer(w, "redis", ok)
  /\ UNCHANGED <<redis, now, kept, faults>>

\* Mutant: the set is not trimmed to the window.
RedisCheckUntrimmed(w) ==
  /\ busy[w] # None
  /\ redis
  /\ LET all == zset[busy[w].ip] \cup {busy[w].at}
     IN /\ zset' = [zset EXCEPT ![busy[w].ip] = all]
        /\ Answer(w, "redis", Cardinality(all) <= Max)
  /\ UNCHANGED <<redis, now, kept, faults>>

\* The pipeline, one request to Redis whose commands are taken for one step;
\* zcard counts the call itself.
RedisCheck(w) ==
  /\ busy[w] # None
  /\ redis
  /\ zset' = [zset EXCEPT ![busy[w].ip] = Stamped(w)]
  /\ Answer(w, "redis", Cardinality(Stamped(w)) <= Max)
  /\ UNCHANGED <<redis, now, kept, faults>>

\* The calls in the process's list after the stale ones are filtered out.
Filtered(w, ip, t) == {c \in kept[w][ip] : Recent(log[c].at, t)}

\* Mutant: the refused calls are listed too, as they are in Redis.
MemoryCheckGreedy(w) ==
  LET c == busy[w].id
      ip == busy[w].ip
      left == Filtered(w, ip, busy[w].at)
      ok == Cardinality(left) < Max
  IN /\ kept' = [kept EXCEPT ![w][ip] = left \cup {c}]
     /\ Answer(w, "memory", ok)

\* Mutant: the filter cuts one second too much.
MemoryCheckShort(w) ==
  LET c == busy[w].id
      ip == busy[w].ip
      left == {d \in kept[w][ip] : log[d].at + Window > busy[w].at + 1}
      ok == Cardinality(left) < Max
  IN /\ kept' = [kept EXCEPT ![w][ip] = IF ok THEN left \cup {c} ELSE left]
     /\ Answer(w, "memory", ok)

MemoryCheck(w) ==
  LET c == busy[w].id
      ip == busy[w].ip
      left == Filtered(w, ip, busy[w].at)
      ok == Cardinality(left) < Max
  IN /\ kept' = [kept EXCEPT ![w][ip] = IF ok THEN left \cup {c} ELSE left]
     /\ Answer(w, "memory", ok)

\* No Redis.
Local(w) ==
  /\ busy[w] # None
  /\ ~redis
  /\ MemoryCheck(w)
  /\ UNCHANGED <<redis, now, zset, faults>>

\* The pipeline fails before it runs, or runs and its reply is lost; the
\* process's list decides.
FallBack(w) ==
  /\ busy[w] # None
  /\ redis
  /\ faults < MaxFaults
  /\ faults' = faults + 1
  /\ \/ UNCHANGED zset
     \/ zset' = [zset EXCEPT ![busy[w].ip] = Stamped(w)]
  /\ MemoryCheck(w)
  /\ UNCHANGED <<redis, now>>

\* cleanup: drop the ips whose stamps are all stale.
Cleanup(w) ==
  /\ ~redis
  /\ busy[w] = None
  /\ kept' = [kept EXCEPT ![w] = [ip \in Ips |->
       IF Filtered(w, ip, now) = {} THEN {} ELSE kept[w][ip]]]
  /\ UNCHANGED <<redis, now, zset, busy, log, faults>>

Tick ==
  /\ now < MaxTime
  /\ now' = now + 1
  /\ UNCHANGED <<redis, zset, kept, busy, log, faults>>

Next ==
  \/ \E w \in Workers, c \in Calls, ip \in Ips : Begin(w, c, ip)
  \/ \E w \in Workers : RedisCheck(w) \/ Local(w) \/ FallBack(w) \/ Cleanup(w)
  \/ Tick

Spec == Init /\ [][Next]_vars

-----------------------------------------------------------------------------
(* Properties *)

\* The stores, the calls in progress and the history have their types.
TypeOK ==
  /\ redis \in BOOLEAN
  /\ now \in 0..MaxTime
  /\ zset \in [Ips -> SUBSET (0..MaxTime)]
  /\ kept \in [Workers -> [Ips -> SUBSET Calls]]
  /\ busy \in [Workers -> [id : Calls, ip : Ips, at : 0..MaxTime] \cup {None}]
  /\ log \in [Calls -> Answers \cup {None}]
  /\ faults \in 0..MaxFaults

\* What a process's list admitted to an ip, and what Redis admitted.
ByMemory(w, ip) ==
  {c \in Calls : log[c] # None /\ log[c].via = "memory" /\ log[c].res = "allowed"
                   /\ log[c].by = w /\ log[c].ip = ip}
ByRedis(ip) ==
  {c \in Calls : log[c] # None /\ log[c].via = "redis" /\ log[c].res = "allowed" /\ log[c].ip = ip}

\* A process's list never admits more than max_requests calls of an ip in the
\* window that ends now, whatever was filtered or cleaned up on the way
\* (RateLimiter: "Sliding-window rate limiter").
MemoryWindow ==
  \A w \in Workers, ip \in Ips :
    Cardinality({c \in ByMemory(w, ip) : Recent(log[c].at, now)}) <= Max

\* Redis never admits an ip at more than max_requests different times in the
\* window that ends now, although workers read the clock before their turn.
\* Two calls with one stamp are one member of the sorted set.
RedisStamps(ip) ==
  {s \in 0..MaxTime : Recent(s, now) /\ \E c \in ByRedis(ip) : log[c].at = s}

RedisWindow == \A ip \in Ips : Cardinality(RedisStamps(ip)) <= Max

\* Either store refuses a call only if at least max_requests other calls of the
\* same ip, refused ones included, fall into its window or came later.
Rivals(c) ==
  {d \in Calls \ {c} : /\ log[d] # None
                       /\ log[d].ip = log[c].ip
                       /\ Recent(log[d].at, log[c].at)}

Refused(c) == log[c] # None /\ log[c].res = "refused"

RefusedOverRate == \A c \in Calls : Refused(c) => Cardinality(Rivals(c)) >= Max

\* The process's list refuses a call only for calls it admitted: unlike the
\* sorted set, it does not charge refused calls.
Admitted(c) ==
  {d \in ByMemory(log[c].by, log[c].ip) : Recent(log[d].at, log[c].at)}

MemoryRefusesAdmitted ==
  \A c \in Calls :
    Refused(c) /\ log[c].via = "memory" => Cardinality(Admitted(c)) >= Max

-----------------------------------------------------------------------------
(* The inductive invariant *)

Logged(ip) == {c \in Calls : log[c] # None /\ log[c].ip = ip}

\* A call in progress is in one worker, is not answered, and its clock is past.
InFlight ==
  \A w \in Workers : busy[w] # None =>
    /\ log[busy[w].id] = None
    /\ busy[w].at <= now
    /\ \A v \in Workers : v # w /\ busy[v] # None => busy[v].id # busy[w].id

\* A list holds every admission that is still recent, and only admissions.
KeptLive ==
  \A w \in Workers, ip \in Ips :
    /\ \A c \in ByMemory(w, ip) : Recent(log[c].at, now) => c \in kept[w][ip]
    /\ kept[w][ip] \subseteq ByMemory(w, ip)
    /\ Cardinality(kept[w][ip]) <= Max

\* The sorted set holds the stamp of every admission that is still recent, and
\* only stamps of answered calls.
ZsetLive ==
  \A ip \in Ips :
    /\ \A c \in ByRedis(ip) : Recent(log[c].at, now) => log[c].at \in zset[ip]
    /\ \A s \in zset[ip] : \E c \in Logged(ip) : log[c].at = s

IInv ==
  /\ TypeOK
  /\ InFlight
  /\ KeptLive
  /\ ZsetLive
  /\ RedisWindow
  /\ RefusedOverRate
  /\ MemoryRefusesAdmitted
=============================================================================
