---------------------------- MODULE ResolveRoute ----------------------------
(***************************************************************************)
(* The /api/resolve route of one worker process without Redis: the         *)
(* response cache in front of it, the asyncio.Event based single flight    *)
(* that collapses duplicate requests, and the background poller that a     *)
(* still-transcoding answer leaves behind.                                 *)
(*                                                                         *)
(* The event loop runs a coroutine until its next await, so every action   *)
(* below is the code between two awaits.  A request is one call of the     *)
(* route that passed authentication and the rate limiter; what the         *)
(* upstream service answers is a nondeterministic outcome.                 *)
(***************************************************************************)
EXTENDS Naturals, FiniteSets

CONSTANTS Requests,   \* calls of the route
          Links,      \* share links
          None        \* absent event, key or cache entry

\* A cache key is the digest of link, action and wait flag; the action is
\* left out because nothing relates two actions of the same link.
Keys == Links \X BOOLEAN

NoWait(k) == <<k[1], FALSE>>
Wait(k)   == <<k[1], TRUE>>

\* A formatted response, told apart by whether a request was at hand to build
\* its signed proxy links ("proxied") or not: then the download link is the
\* upstream one and there is no stream_url ("bare").
Bodies == {"proxied", "bare"}

ASSUME RouteAssumption == None \notin Requests \cup Bodies

VARIABLES
  phase,      \* where each request stands
  key,        \* the cache key it asks for
  waitOn,     \* the event a follower awaits, named by the request that made it
  answer,     \* what it was answered
  sfEvents,   \* _sf_events: the event registered for a key
  evSet,      \* the events that are set
  cache,      \* the live entry of a key
  poll,       \* the background task a request spawned
  jobs,       \* _active_transcode_jobs
  excused     \* history: a key for which collapsing may break, see Excuse

vars == <<phase, key, waitOn, answer, sfEvents, evSet, cache, poll, jobs, excused>>

Init ==
  /\ phase    = [r \in Requests |-> "new"]
  /\ key      = [r \in Requests |-> None]
  /\ waitOn   = [r \in Requests |-> None]
  /\ answer   = [r \in Requests |-> "none"]
  /\ sfEvents = [k \in Keys |-> None]
  /\ evSet    = {}
  /\ cache    = [k \in Keys |-> None]
  /\ poll     = [r \in Requests |-> "none"]
  /\ jobs     = {}
  /\ excused  = {}

-----------------------------------------------------------------------------
(* Helpers *)

Resolving(k) == {r \in Requests : phase[r] = "resolving" /\ key[r] = k}

Answer(r, a) ==
  /\ phase'  = [phase EXCEPT ![r] = "answered"]
  /\ answer' = [answer EXCEPT ![r] = a]

\* Variant of Release without the test that an event was popped.
ReleaseUntested(k) ==
  /\ sfEvents' = [sfEvents EXCEPT ![k] = None]
  /\ evSet'    = evSet \cup {sfEvents[k]}

\* _release_resolve_lock: whoever releases pops and sets the registered event,
\* be it its own or not.
Release(k) ==
  /\ sfEvents' = [sfEvents EXCEPT ![k] = None]
  /\ evSet'    = evSet \cup ({sfEvents[k]} \ {None})

\* The three things after which requests for k may resolve side by side: a
\* follower stopped waiting, a flight ended with nothing to share, or the
\* shared entry is gone.
Excuse(k) == excused' = excused \cup {k}

-----------------------------------------------------------------------------
(* A request arrives: cache lookup and lock attempt, with no await between *)

ServeHit(r, k) ==
  /\ phase[r] = "new"
  /\ cache[k] # None
  /\ key' = [key EXCEPT ![r] = k]
  /\ Answer(r, cache[k])
  /\ UNCHANGED <<waitOn, sfEvents, evSet, cache, poll, jobs, excused>>

Lead(r, k) ==
  /\ phase[r] = "new"
  /\ cache[k] = None
  /\ sfEvents[k] = None
  /\ key'      = [key EXCEPT ![r] = k]
  /\ phase'    = [phase EXCEPT ![r] = "resolving"]
  /\ sfEvents' = [sfEvents EXCEPT ![k] = r]
  /\ UNCHANGED <<waitOn, answer, evSet, cache, poll, jobs, excused>>

Follow(r, k) ==
  /\ phase[r] = "new"
  /\ cache[k] = None
  /\ sfEvents[k] # None
  /\ key'    = [key EXCEPT ![r] = k]
  /\ phase'  = [phase EXCEPT ![r] = "waiting"]
  /\ waitOn' = [waitOn EXCEPT ![r] = sfEvents[k]]
  /\ UNCHANGED <<answer, sfEvents, evSet, cache, poll, jobs, excused>>

-----------------------------------------------------------------------------
(* A follower resumes: the cache is read again; on a miss it resolves on its *)
(* own and registers an event only if none is registered.                    *)

Collapse(r) ==
  /\ cache[key[r]] # None
  /\ Answer(r, cache[key[r]])
  /\ UNCHANGED <<sfEvents>>

ResolveAlone(r) ==
  /\ cache[key[r]] = None
  /\ phase' = [phase EXCEPT ![r] = "resolving"]
  /\ sfEvents' = [sfEvents EXCEPT ![key[r]] = IF @ = None THEN r ELSE @]
  /\ UNCHANGED answer

Resume(r) ==
  /\ phase[r] = "waiting"
  /\ Collapse(r) \/ ResolveAlone(r)
  /\ UNCHANGED <<key, waitOn, evSet, cache, poll, jobs>>

\* The awaited event was set.
Wake(r) ==
  /\ waitOn[r] \in evSet
  /\ Resume(r)
  /\ UNCHANGED excused

\* wait_for gave up after 30 seconds, however far the leader is.
TimeOut(r) ==
  /\ waitOn[r] \notin evSet
  /\ Resume(r)
  /\ Excuse(key[r])

-----------------------------------------------------------------------------
(* resolve_link_with_retry returns or raises; the finally clause releases   *)

\* Variant of Succeed that forgets to cache the response.
SucceedUncached(r) ==
  /\ phase[r] = "resolving"
  /\ Answer(r, "proxied")
  /\ Release(key[r])
  /\ UNCHANGED <<key, waitOn, cache, poll, jobs, excused>>

Succeed(r) ==
  /\ phase[r] = "resolving"
  /\ cache' = [cache EXCEPT ![key[r]] = "proxied"]
  /\ Answer(r, "proxied")
  /\ Release(key[r])
  /\ UNCHANGED <<key, waitOn, poll, jobs, excused>>

\* Not cached; unless the caller asked to wait, a poller is spawned.
Transcoding(r) ==
  /\ phase[r] = "resolving"
  /\ poll' = [poll EXCEPT ![r] = IF key[r] = NoWait(key[r]) THEN "spawned" ELSE @]
  /\ Answer(r, "transcoding")
  /\ Release(key[r])
  /\ Excuse(key[r])
  /\ UNCHANGED <<key, waitOn, cache, jobs>>

\* Variant of Fail whose early return skips the finally clause.
FailUnreleased(r) ==
  /\ phase[r] = "resolving"
  /\ Answer(r, "error")
  /\ Excuse(key[r])
  /\ UNCHANGED <<key, waitOn, sfEvents, evSet, cache, poll, jobs>>

\* A non-zero errno, a ValueError or any other exception.
Fail(r) ==
  /\ phase[r] = "resolving"
  /\ Answer(r, "error")
  /\ Release(key[r])
  /\ Excuse(key[r])
  /\ UNCHANGED <<key, waitOn, cache, poll, jobs>>

Finish(r) == Succeed(r) \/ Transcoding(r) \/ Fail(r)

-----------------------------------------------------------------------------
(* _background_transcode_poll, running for the key of the request r that    *)
(* spawned it                                                               *)

\* Variant of PollStart whose early return runs the clean-up of a poller.
PollStartClearing(r) ==
  /\ poll[r] = "spawned"
  /\ poll' = [poll EXCEPT ![r] = IF key[r] \in jobs THEN "over" ELSE "running"]
  /\ jobs' = IF key[r] \in jobs THEN jobs \ {key[r]} ELSE jobs \cup {key[r]}
  /\ UNCHANGED <<phase, key, waitOn, answer, sfEvents, evSet, cache, excused>>

PollStart(r) ==
  /\ poll[r] = "spawned"
  /\ \/ /\ key[r] \in jobs
        /\ poll' = [poll EXCEPT ![r] = "over"]
        /\ UNCHANGED jobs
     \/ /\ key[r] \notin jobs
        /\ poll' = [poll EXCEPT ![r] = "running"]
        /\ jobs' = jobs \cup {key[r]}
  /\ UNCHANGED <<phase, key, waitOn, answer, sfEvents, evSet, cache, excused>>

\* The waiting resolve came back ready: formatted without a request, cached
\* for both values of the wait flag, then the alert is awaited.
PollReady(r) ==
  /\ poll[r] = "running"
  /\ poll'  = [poll EXCEPT ![r] = "alerting"]
  /\ cache' = [k \in Keys |-> IF k \in {NoWait(key[r]), Wait(key[r])}
                              THEN "bare" ELSE cache[k]]
  /\ UNCHANGED <<phase, key, waitOn, answer, sfEvents, evSet, jobs, excused>>

\* Variant of PollEnd that clears the job only after success.
PollEndKeeping(r) ==
  /\ poll[r] \in {"running", "alerting"}
  /\ poll' = [poll EXCEPT ![r] = "over"]
  /\ jobs' = IF poll[r] = "alerting" THEN jobs \ {key[r]} ELSE jobs
  /\ UNCHANGED <<phase, key, waitOn, answer, sfEvents, evSet, cache, excused>>

\* The alert returned, or the resolve failed, raised or is still transcoding.
PollEnd(r) ==
  /\ poll[r] \in {"running", "alerting"}
  /\ poll' = [poll EXCEPT ![r] = "over"]
  /\ jobs' = jobs \ {key[r]}
  /\ UNCHANGED <<phase, key, waitOn, answer, sfEvents, evSet, cache, excused>>

\* The entry expires or falls off the end of the LRU order.
Evict(k) ==
  /\ cache[k] # None
  /\ cache' = [cache EXCEPT ![k] = None]
  /\ Excuse(k)
  /\ UNCHANGED <<phase, key, waitOn, answer, sfEvents, evSet, poll, jobs>>

-----------------------------------------------------------------------------

Next ==
  \/ \E r \in Requests, k \in Keys : ServeHit(r, k) \/ Lead(r, k) \/ Follow(r, k)
  \/ \E r \in Requests : Wake(r) \/ TimeOut(r)
  \/ \E r \in Requests : Succeed(r) \/ Transcoding(r) \/ Fail(r)
  \/ \E r \in Requests : PollStart(r) \/ PollReady(r) \/ PollEnd(r)
  \/ \E k \in Keys : Evict(k)

Spec == Init /\ [][Next]_vars

(***************************************************************************)
(* Every upstream call has a timeout and every retry loop a bound, so a    *)
(* resolve or a poll returns; the event loop runs a task whose event is    *)
(* set.  The follower's own timeout, new requests and evictions are under  *)
(* no obligation.                                                          *)
(***************************************************************************)
Fairness ==
  /\ \A r \in Requests : WF_vars(Wake(r)) /\ WF_vars(Finish(r))
  /\ \A r \in Requests : WF_vars(PollStart(r)) /\ WF_vars(PollEnd(r))

FairSpec == Spec /\ Fairness

-----------------------------------------------------------------------------

\* The values each variable ranges over.
TypeOK ==
  /\ phase    \in [Requests -> {"new", "waiting", "resolving", "answered"}]
  /\ key      \in [Requests -> Keys \cup {None}]
  /\ waitOn   \in [Requests -> Requests \cup {None}]
  /\ answer   \in [Requests -> Bodies \cup {"none", "transcoding", "error"}]
  /\ sfEvents \in [Keys -> Requests \cup {None}]
  /\ evSet    \in SUBSET Requests
  /\ cache    \in [Keys -> Bodies \cup {None}]
  /\ poll     \in [Requests -> {"none", "spawned", "running", "alerting", "over"}]
  /\ jobs     \in SUBSET Keys
  /\ excused  \in SUBSET Keys
  /\ \A r \in Requests : phase[r] # "new" => key[r] \in Keys

\* A follower whose event is not set yet waits on the event that is
\* registered for its key, and the request that made this event is still
\* resolving the same key, so its finally clause owes the wake-up.  Timed-out
\* followers release events they did not create and may register one of their
\* own: no such step may strand another follower on an event nobody sets.
WakeUpOwed ==
  \A r \in Requests :
    phase[r] = "waiting" /\ waitOn[r] \notin evSet =>
      /\ sfEvents[key[r]] = waitOn[r]
      /\ waitOn[r] \in Resolving(key[r])

\* Duplicate requests are collapsed: two requests resolve the same key side by
\* side only after a follower's timeout, a flight that ended with nothing to
\* cache, or the eviction of the shared entry.  In particular a successful
\* flight leaves none of the followers it wakes with a cache miss.
CollapseUnlessExcused ==
  \A k \in Keys : k \notin excused => Cardinality(Resolving(k)) <= 1

Active(r) == poll[r] \in {"running", "alerting"}

\* At most one background poller works for a key, and the key is in the job
\* set exactly as long as it does: a second poller that finds the key taken
\* must not clear it on its way out.
PollerExclusive ==
  \A k \in Keys :
    LET pollers == {r \in Requests : Active(r) /\ key[r] = k}
    IN /\ Cardinality(pollers) <= 1
       /\ k \in jobs <=> pollers # {}

-----------------------------------------------------------------------------
(* The inductive invariant behind the safety properties *)

\* A registered event was made by a request that still resolves its key, and
\* is not set; an event exists only once its maker left the waiting state.
EventLive ==
  /\ \A k \in Keys : sfEvents[k] # None =>
       sfEvents[k] \in Resolving(k) /\ sfEvents[k] \notin evSet
  /\ \A r \in evSet : phase[r] \in {"resolving", "answered"}

\* While nothing excuses k, its only resolver is the registered one and every
\* follower that was woken will find the response in the cache.
FlightLive ==
  \A k \in Keys \ excused :
    /\ \A r \in Resolving(k) : sfEvents[k] = r
    /\ \A r \in Requests :
         phase[r] = "waiting" /\ key[r] = k /\ waitOn[r] \in evSet => cache[k] # None

\* Pollers belong to answered requests, a job to exactly one active poller.
PollLive ==
  /\ \A r \in Requests : poll[r] # "none" => phase[r] = "answered"
  /\ \A k \in Keys : k \in jobs <=> \E r \in Requests : Active(r) /\ key[r] = k
  /\ \A r, s \in Requests : Active(r) /\ Active(s) /\ key[r] = key[s] => r = s

IInv == TypeOK /\ WakeUpOwed /\ EventLive /\ FlightLive /\ PollLive

-----------------------------------------------------------------------------
(* The route implements the single flight *)

Stage == [r \in Requests |->
  CASE phase[r] = "new"      -> "out"
    [] phase[r] = "answered" -> "over"
    [] OTHER                 -> phase[r]]

SF == INSTANCE SingleFlight
        WITH stage <- Stage, asks <- key, shared <- {k \in Keys : cache[k] # None}

\* The event based route does what a single flight promises: a request leads
\* an unexcused key only while nobody calls upstream for it, and a woken
\* follower of such a key never calls upstream itself.
ImplementsSingleFlight == SF!Spec

-----------------------------------------------------------------------------
(* Liveness, and what the documentation says *)

\* Every follower gets its answer even if its own 30 second timeout never
\* fires: the single flight does not rely on it.
FollowersAnswered ==
  \A r \in Requests : phase[r] = "waiting" ~> phase[r] = "answered"

\* The job set drains: a poller that ends by success, by giving up or by an
\* exception never blocks later pollers of its key for good.
JobsDrain == \A k \in Keys : k \in jobs ~> k \notin jobs

=============================================================================
