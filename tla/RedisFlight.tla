----------------------------- MODULE RedisFlight -----------------------------
(***************************************************************************)
(* The single flight of /api/resolve and its background poller when the    *)
(* workers share a Redis: the flight is a lock that expires after 30       *)
(* seconds and names no owner, followers poll, and the poller's lock       *)
(* expires after 300 seconds.                                              *)
(*                                                                         *)
(* The Redis client is synchronous: between two awaits a worker runs one   *)
(* request's commands, while other workers run theirs in between.  Every   *)
(* action is one command; a request that is in the middle of a chain of    *)
(* commands is in a phase of InChain.  A lock's value is modelled as the   *)
(* request that set it, which the program never reads.                     *)
(***************************************************************************)
EXTENDS Naturals, FiniteSets

CONSTANTS Requests,   \* calls of the route
          Links,      \* share links
          Workers,    \* worker processes
          WorkerOf,   \* the worker that serves each request
          MayAsk,     \* bound: the keys each request may ask for
          MaxFaults,  \* bound: failing Redis commands and dying workers
          None

Keys == Links \X BOOLEAN

NoWait(k) == <<k[1], FALSE>>
Wait(k)   == <<k[1], TRUE>>

ASSUME RedisAssumption ==
  /\ None \notin Requests \cup Keys
  /\ WorkerOf \in [Requests -> Workers]
  /\ MayAsk \in [Requests -> SUBSET Keys]
  /\ MaxFaults \in Nat

VARIABLES
  phase,    \* where each request stands
  key,      \* the cache key it asks for
  lock,     \* lock:resolve:{key}
  cached,   \* cache:response:{key}: the keys with a live entry
  events,   \* _sf_events of each process, the fallback for the lock
  store,    \* _store of each process, the fallback for the cache
  poll,     \* the background task a request spawned
  plock,    \* lock:transcode:{key}
  excused,  \* history: keys for which collapsing may break, see Excuse
  loose,    \* history: keys for which pollers may overlap
  faults    \* how much of the bound is used

vars == <<phase, key, lock, cached, events, store, poll, plock,
          excused, loose, faults>>

flightVars == <<phase, key, lock, events, excused>>
pollVars   == <<poll, plock, loose>>

Init ==
  /\ phase = [r \in Requests |-> "new"]
  /\ key = [r \in Requests |-> None]
  /\ lock = [k \in Keys |-> None]
  /\ cached = {}
  /\ events = [w \in Workers |-> {}]
  /\ store = [w \in Workers |-> {}]
  /\ poll = [r \in Requests |-> "none"]
  /\ plock = [k \in Keys |-> None]
  /\ excused = {}
  /\ loose = {}
  /\ faults = 0

-----------------------------------------------------------------------------
(* Helpers *)

InChain == {"missed", "polling", "probing", "leaving", "alone", "releasing"}

\* The event loop of w is free to resume a coroutine.
Idle(w) ==
  \A r \in Requests : WorkerOf[r] = w => phase[r] \notin InChain /\ poll[r] # "storing"

Resolving(k) == {r \in Requests : phase[r] = "resolving" /\ key[r] = k}

Go(r, to) == phase' = [phase EXCEPT ![r] = to]

Ok == UNCHANGED faults

\* A Redis command raises or a worker dies.
Fault == faults < MaxFaults /\ faults' = faults + 1

\* After a fault, a follower's timeout, a flight with nothing to share, the
\* expiry of a lock in use, a crash or an eviction, requests for k may resolve
\* side by side.
Excuse(k) == excused' = excused \cup {k}

\* cache.get by r: a hit if the entry lives; when Redis raises, what a failed
\* put left in the process counts, if that has not expired.
Hit(r, k) ==
  \/ k \in cached /\ Ok /\ UNCHANGED excused
  \/ k \in store[WorkerOf[r]] /\ Fault /\ Excuse(k)

Miss(r, k) ==
  \/ k \notin cached /\ Ok /\ UNCHANGED excused
  \/ Fault /\ Excuse(k)

-----------------------------------------------------------------------------
(* A request arrives: GET, and on a miss SET NX *)

ServeHit(r, k) ==
  /\ phase[r] = "new" /\ Idle(WorkerOf[r])
  /\ Hit(r, k)
  /\ key' = [key EXCEPT ![r] = k]
  /\ Go(r, "done")
  /\ UNCHANGED <<lock, cached, events, store, pollVars>>

\* Mutant: the key is not kept for the rest of the request.
LookUpKeyless(r, k) ==
  /\ phase[r] = "new" /\ Idle(WorkerOf[r])
  /\ Miss(r, k)
  /\ Go(r, "missed")
  /\ UNCHANGED <<key, lock, cached, events, store, pollVars>>

LookUp(r, k) ==
  /\ phase[r] = "new" /\ Idle(WorkerOf[r])
  /\ Miss(r, k)
  /\ key' = [key EXCEPT ![r] = k]
  /\ Go(r, "missed")
  /\ UNCHANGED <<lock, cached, events, store, pollVars>>

\* The lock is free and is taken.
TakeLock(r) ==
  /\ lock[key[r]] = None
  /\ Ok
  /\ lock' = [lock EXCEPT ![key[r]] = r]
  /\ UNCHANGED <<events, excused>>

\* The lock is taken already.
FindLock(r) ==
  /\ lock[key[r]] # None
  /\ Ok
  /\ UNCHANGED <<lock, events, excused>>

\* Redis raises: the process's events decide, if `free' that there is none.
FallBack(r, free) ==
  /\ Fault
  /\ Excuse(key[r])
  /\ free <=> key[r] \notin events[WorkerOf[r]]
  /\ events' = [events EXCEPT ![WorkerOf[r]] = @ \cup {key[r]}]
  /\ UNCHANGED lock

Lead(r) ==
  /\ phase[r] = "missed"
  /\ TakeLock(r) \/ FallBack(r, TRUE)
  /\ Go(r, "resolving")
  /\ UNCHANGED <<key, cached, store, pollVars>>

Follow(r) ==
  /\ phase[r] = "missed"
  /\ FindLock(r) \/ FallBack(r, FALSE)
  /\ Go(r, "polling")
  /\ UNCHANGED <<key, cached, store, pollVars>>

-----------------------------------------------------------------------------
(* _wait_for_resolution: GET and EXISTS about every second for 30 seconds, *)
(* then a last GET; on a miss SET NX again, whose result is ignored        *)

\* The first look follows the lock attempt at once, the others a sleep.
Looks(r) == phase[r] = "polling" \/ (phase[r] = "waiting" /\ Idle(WorkerOf[r]))

PollHit(r) ==
  /\ Looks(r) \/ phase[r] = "leaving"
  /\ Hit(r, key[r])
  /\ Go(r, "done")
  /\ UNCHANGED <<key, lock, cached, events, store, pollVars>>

PollMiss(r) ==
  /\ Looks(r)
  /\ Miss(r, key[r])
  /\ Go(r, "probing")
  /\ UNCHANGED <<key, lock, cached, events, store, pollVars>>

Probe(r) ==
  /\ phase[r] = "probing"
  /\ Go(r, IF lock[key[r]] # None THEN "waiting" ELSE "leaving")
  /\ UNCHANGED <<key, lock, cached, events, store, excused, faults, pollVars>>

\* EXISTS raises; nothing catches it ahead of the route's try block.
ProbeFails(r) ==
  /\ phase[r] = "probing"
  /\ Fault
  /\ Excuse(key[r])
  /\ Go(r, "done")
  /\ UNCHANGED <<key, lock, cached, events, store, pollVars>>

\* The 30 seconds are over.
TimeOut(r) ==
  /\ phase[r] = "waiting" /\ Idle(WorkerOf[r])
  /\ Excuse(key[r])
  /\ Go(r, "leaving")
  /\ UNCHANGED <<key, lock, cached, events, store, faults, pollVars>>

\* Mutant: no second look into the cache once the lock is gone.
LeaveBlindly(r) ==
  /\ phase[r] = "leaving"
  /\ Go(r, "alone")
  /\ UNCHANGED <<key, lock, cached, events, store, excused, faults, pollVars>>

LastMiss(r) ==
  /\ phase[r] = "leaving"
  /\ Miss(r, key[r])
  /\ Go(r, "alone")
  /\ UNCHANGED <<key, lock, cached, events, store, pollVars>>

ResolveAlone(r) ==
  /\ phase[r] = "alone"
  /\ TakeLock(r) \/ FindLock(r) \/ FallBack(r, TRUE) \/ FallBack(r, FALSE)
  /\ Go(r, "resolving")
  /\ UNCHANGED <<key, cached, store, pollVars>>

-----------------------------------------------------------------------------
(* resolve_link_with_retry returned: SET of the response, then the finally  *)
(* clause with DEL of the lock, whoever holds it by now                     *)

Succeed(r) ==
  /\ phase[r] = "resolving" /\ Idle(WorkerOf[r])
  /\ \/ /\ Ok
        /\ cached' = cached \cup {key[r]}
        /\ UNCHANGED <<store, excused>>
     \/ /\ Fault /\ Excuse(key[r])
        /\ store' = [store EXCEPT ![WorkerOf[r]] = @ \cup {key[r]}]
        /\ UNCHANGED cached
  /\ Go(r, "releasing")
  /\ UNCHANGED <<key, lock, events, pollVars>>

Transcoding(r) ==
  /\ phase[r] = "resolving" /\ Idle(WorkerOf[r])
  /\ poll' = [poll EXCEPT ![r] = IF key[r] = NoWait(key[r]) THEN "spawned" ELSE @]
  /\ Excuse(key[r])
  /\ Go(r, "releasing")
  /\ UNCHANGED <<key, lock, cached, events, store, plock, loose, faults>>

Fail(r) ==
  /\ phase[r] = "resolving" /\ Idle(WorkerOf[r])
  /\ Excuse(key[r])
  /\ Go(r, "releasing")
  /\ UNCHANGED <<key, lock, cached, events, store, faults, pollVars>>

Finish(r) == Succeed(r) \/ Transcoding(r) \/ Fail(r)

Release(r) ==
  /\ phase[r] = "releasing"
  /\ \/ Ok /\ lock' = [lock EXCEPT ![key[r]] = None]
     \/ Fault /\ UNCHANGED lock
  /\ events' = [events EXCEPT ![WorkerOf[r]] = @ \ {key[r]}]
  /\ Go(r, "done")
  /\ UNCHANGED <<key, cached, store, excused, pollVars>>

-----------------------------------------------------------------------------
(* _background_transcode_poll *)

\* Pollers for k may overlap.
Loosen(k) == loose' = loose \cup {k}

\* Mutant: a poller that finds the key taken clears it on its way out.
PollStartClearing(r) ==
  /\ poll[r] = "spawned" /\ Idle(WorkerOf[r])
  /\ \/ /\ plock[key[r]] # None
        /\ poll' = [poll EXCEPT ![r] = "over"]
        /\ plock' = [plock EXCEPT ![key[r]] = None]
     \/ /\ plock[key[r]] = None
        /\ poll' = [poll EXCEPT ![r] = "running"]
        /\ plock' = [plock EXCEPT ![key[r]] = r]
  /\ UNCHANGED <<cached, store, loose, faults, flightVars>>

PollStart(r) ==
  /\ poll[r] = "spawned" /\ Idle(WorkerOf[r])
  /\ \/ /\ plock[key[r]] # None
        /\ Ok
        /\ poll' = [poll EXCEPT ![r] = "over"]
        /\ UNCHANGED <<plock, loose>>
     \/ /\ plock[key[r]] = None
        /\ Ok
        /\ poll' = [poll EXCEPT ![r] = "running"]
        /\ plock' = [plock EXCEPT ![key[r]] = r]
        /\ UNCHANGED loose
     \/ /\ Fault
        /\ Loosen(key[r])
        /\ poll' = [poll EXCEPT ![r] = "running"]
        /\ UNCHANGED plock
  /\ UNCHANGED <<cached, store, flightVars>>

\* One of the two puts of the ready response.
Put(r, k) ==
  /\ \/ Ok /\ cached' = cached \cup {k} /\ UNCHANGED store
     \/ /\ Fault
        /\ store' = [store EXCEPT ![WorkerOf[r]] = @ \cup {k}]
        /\ UNCHANGED cached
  /\ UNCHANGED <<plock, loose, flightVars>>

PollReady(r) ==
  /\ poll[r] = "running" /\ Idle(WorkerOf[r])
  /\ poll' = [poll EXCEPT ![r] = "storing"]
  /\ Put(r, NoWait(key[r]))

PollStore(r) ==
  /\ poll[r] = "storing"
  /\ poll' = [poll EXCEPT ![r] = "alerting"]
  /\ Put(r, Wait(key[r]))

\* The alert returned, or the resolve failed or is still transcoding: DEL.
PollEnd(r) ==
  /\ poll[r] \in {"running", "alerting"} /\ Idle(WorkerOf[r])
  /\ poll' = [poll EXCEPT ![r] = "over"]
  /\ \/ Ok /\ plock' = [plock EXCEPT ![key[r]] = None]
     \/ Fault /\ UNCHANGED plock
  /\ UNCHANGED <<cached, store, loose, flightVars>>

-----------------------------------------------------------------------------
(* Redis lets entries expire, processes die *)

\* Mutant: the lock is set without an expiry.
ExpireNever(k) == lock[k] # None /\ UNCHANGED vars

\* 30 seconds after it was set, whether its flight is over or not.
Expire(k) ==
  /\ lock[k] # None
  /\ lock' = [lock EXCEPT ![k] = None]
  /\ IF phase[lock[k]] \in {"resolving", "releasing"} THEN Excuse(k) ELSE UNCHANGED excused
  /\ UNCHANGED <<phase, key, cached, events, store, faults, pollVars>>

PollExpire(k) ==
  /\ plock[k] # None
  /\ plock' = [plock EXCEPT ![k] = None]
  /\ IF poll[plock[k]] # "over" THEN Loosen(k) ELSE UNCHANGED loose
  /\ UNCHANGED <<poll, cached, store, faults, flightVars>>

Evict(k) ==
  /\ k \in cached
  /\ cached' = cached \ {k}
  /\ Excuse(k)
  /\ UNCHANGED <<phase, key, lock, events, store, faults, pollVars>>

\* The process dies with everything in its memory and is started again.
Crash(w) ==
  /\ Fault
  /\ phase' = [r \in Requests |->
       IF WorkerOf[r] = w /\ phase[r] # "new" THEN "done" ELSE phase[r]]
  /\ poll' = [r \in Requests |->
       IF WorkerOf[r] = w /\ poll[r] # "none" THEN "over" ELSE poll[r]]
  /\ events' = [events EXCEPT ![w] = {}]
  /\ store' = [store EXCEPT ![w] = {}]
  /\ excused' = excused \cup
       {key[r] : r \in {s \in Requests : WorkerOf[s] = w
                                         /\ phase[s] \in {"resolving", "releasing"}}}
  /\ UNCHANGED <<key, lock, cached, plock, loose>>

-----------------------------------------------------------------------------

Next ==
  \/ \E r \in Requests : \E k \in MayAsk[r] : ServeHit(r, k) \/ LookUp(r, k)
  \/ \E r \in Requests : Lead(r) \/ Follow(r)
  \/ \E r \in Requests : PollHit(r) \/ PollMiss(r) \/ Probe(r) \/ ProbeFails(r)
  \/ \E r \in Requests : TimeOut(r) \/ LastMiss(r) \/ ResolveAlone(r)
  \/ \E r \in Requests : Succeed(r) \/ Transcoding(r) \/ Fail(r) \/ Release(r)
  \/ \E r \in Requests : PollStart(r) \/ PollReady(r) \/ PollStore(r) \/ PollEnd(r)
  \/ \E k \in Keys : Expire(k) \/ PollExpire(k) \/ Evict(k)
  \/ \E w \in Workers : Crash(w)

Spec == Init /\ [][Next]_vars

(***************************************************************************)
(* A worker goes on with the chain it is in and resumes what sleeps, an    *)
(* upstream call ends, Redis lets a lock expire.  The follower's own 30    *)
(* seconds, new requests and evictions are under no obligation.                     *)
(***************************************************************************)
Advance(r) ==
  \/ Lead(r) \/ Follow(r) \/ PollHit(r) \/ PollMiss(r) \/ Probe(r)
  \/ LastMiss(r) \/ ResolveAlone(r) \/ Finish(r) \/ Release(r) \/ PollStore(r)

Fairness ==
  /\ \A r \in Requests : WF_vars(Advance(r))
  /\ \A k \in Keys : WF_vars(Expire(k))

FairSpec == Spec /\ Fairness

-----------------------------------------------------------------------------

\* The values each variable ranges over.
TypeOK ==
  /\ phase \in [Requests -> {"new", "waiting", "resolving", "done"} \cup InChain]
  /\ key \in [Requests -> Keys \cup {None}]
  /\ \A r \in Requests : phase[r] # "new" => key[r] \in Keys
  /\ lock \in [Keys -> Requests \cup {None}]
  /\ cached \in SUBSET Keys
  /\ events \in [Workers -> SUBSET Keys]
  /\ store \in [Workers -> SUBSET Keys]
  /\ poll \in [Requests -> {"none", "spawned", "running", "storing", "alerting", "over"}]
  /\ plock \in [Keys -> Requests \cup {None}]
  /\ excused \in SUBSET Keys
  /\ loose \in SUBSET Keys
  /\ faults \in 0..MaxFaults

Active(r) == poll[r] \in {"running", "storing", "alerting"}

\* One background poller works for a key among all workers, unless its lock
\* expired under it or could not be taken: a second poller leaves the lock
\* alone, and a poller that ends deletes no other poller's lock.
PollerExclusive ==
  \A k \in Keys \ loose : \A r, s \in Requests :
    Active(r) /\ Active(s) /\ key[r] = k /\ key[s] = k => r = s

-----------------------------------------------------------------------------
(* The lock implements the single flight *)

Following == {"polling", "waiting", "probing", "leaving", "alone"}

Stage == [r \in Requests |->
  CASE phase[r] \in {"new", "missed"} -> "out"
    [] phase[r] \in Following         -> "waiting"
    [] phase[r] = "resolving"         -> "resolving"
    [] OTHER                          -> "over"]

Asks == [r \in Requests |-> IF Stage[r] = "out" THEN None ELSE key[r]]

SF == INSTANCE SingleFlight WITH stage <- Stage, asks <- Asks, shared <- cached

\* The lock does what a single flight promises, though workers interleave
\* between any two commands: it is taken for an unexcused key only while nobody
\* calls upstream, and a follower of such a key that finds the lock gone finds
\* the response.
ImplementsSingleFlight == SF!Spec

-----------------------------------------------------------------------------
(* The inductive invariant *)

\* While nothing excuses k, its lock is held by whoever resolves it or has just
\* stored the response, and followers wait for a lock or find the response.
FlightLive ==
  \A k \in Keys \ excused :
    /\ \A r \in Requests : key[r] = k =>
         /\ phase[r] = "resolving" => lock[k] = r
         /\ phase[r] = "releasing" => lock[k] = r /\ k \in cached
         /\ phase[r] \in {"polling", "waiting", "probing"} => lock[k] # None \/ k \in cached
         /\ phase[r] = "leaving" => k \in cached
         /\ phase[r] # "alone"
    /\ lock[k] # None /\ k \notin cached => lock[k] \in Resolving(k)

\* An active poller holds the lock of its key unless pollers may overlap; only
\* answered requests have pollers.
PollLive ==
  /\ \A r \in Requests : poll[r] # "none" => phase[r] \in {"releasing", "done"}
  /\ \A r \in Requests : Active(r) /\ key[r] \notin loose => plock[key[r]] = r

IInv == TypeOK /\ FlightLive /\ PollLive

-----------------------------------------------------------------------------

\* Every request that arrives is answered or dies with its worker, even if no
\* follower's own 30 seconds ever end and the worker of the request it waits for
\* dies: the lock expires.  (Each of finitely many requests arrives once, so all
\* of them are answered exactly if at some time nobody is left waiting.)
RequestsAnswered == <>[](\A r \in Requests : phase[r] \in {"new", "done"})
=============================================================================
