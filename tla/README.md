# TeraBridge API: verification

TLA+ models of the TeraBridge API service, the TLC runs that check them on
small instances, and TLAPS proofs of what matters most for every instance.
All paths below are relative to `src/`, the root of the repository.

The service resolves share links of an upstream storage provider through a
pool of accounts and proxies the files. It is an asyncio program: within one
worker process a coroutine runs alone from one `await` to the next, and
everything hard about it happens between two awaits, between two worker
processes (`gunicorn.conf.py:30` starts up to four), or between two commands
to the Redis that the workers share.

## 1. The system

| Part | Code | State it keeps | Operations | Modelled in |
|---|---|---|---|---|
| Resolve route and single flight | `api/routes/resolve.py` | `_sf_events`, `_active_transcode_jobs`, lock and poll keys in Redis | resolve, acquire / wait / release, background transcode poll, quality pre-warming | `SingleFlight` (abstract), `ResolveRoute` (without Redis), `RedisFlight` (with Redis); formatting by tier and pre-warming in `LinkCache` |
| Multi-account retry | `api/routes/resolve.py:86-196` | account captured per attempt | attempt, classify the failure, mark, rotate, reload, retry | `AccountPool` |
| Account pool | `api/account_pool.py` | hash of account records, active account key | select next, mark, save credentials, list | `AccountPool` |
| Account loading | `api/account_manager.py`, `api/middleware.py:178-209` | the account and session a worker has loaded | load from Redis, refresh before a request | `AccountPool` |
| Admin and cron | `api/routes/admin.py:182-550` | none of its own | activate, verify, update, delete, list, validate all | `AccountPool`; what update and delete do to the dashboard cache in `DashboardCache` |
| Share resolution and transfer | `downloader.py:52-820` | global tokens, cookies of the shared session, the files of the account upstream | refresh tokens, open a share session, list, transfer, wait, search, probe streams, ask for links | `Transfer` |
| Download and chunked streaming | `api/routes/download.py`, `downloader.py:1000-1079` | two semaphores, events and buffers per chunk | make a byte range, download, retry, yield in order, cancel | `ChunkStream` |
| Response cache and the routes that share it | `api/cache.py`, `api/routes/resolve.py`, `download.py`, `stream.py` | LRU of entries with TTL, or Redis keys | get, put; resolve, download, thumbnail, manifest, poll, pre-warm | `LinkCache`; in `ResolveRoute` and `RedisFlight` as keys whose entries may vanish |
| Storage dashboard and its cache | `api/routes/admin.py:552-814`, `api/cache.py:119-228` | dashboard entries in Redis and in each process | quota, listing, deletion, purge | `DashboardCache` |
| Rate limiter | `api/rate_limiter.py` | sorted set per ip in Redis, list per ip in each process | `is_allowed`, cleanup | `RateLimiter` |
| Sub-playlists, segment proxy, thumbnail bytes | `api/routes/stream.py`, `download.py`, `api/cache.py` | thumbnail LRU of 500 | pass one upstream answer through | not modelled |
| Authentication, tiers, signing | `api/auth.py`, `api/signing.py`, `api/config.py` | tier cache per process and in Redis | verify, sign, expiry per tier | not modelled |
| Wiring | `api/index.py`, `api/middleware.py`, `api/redis_client.py` | none that several steps share | start, periodic cleanup, request ids | not modelled |
| Command line, page, tests, deployment | `downloader.py:827-999`, `api/static`, tests, `gunicorn.conf.py` | | | not modelled |

How they interact. A request passes the middleware (which may reload the
account configuration), authentication and the rate limiter. The route looks
the link up in the response cache; on a miss it takes or joins a flight; the
leader calls `resolve_link_with_retry`, which uses the account the worker has
loaded and, on failures, drives the account pool; the response goes into the
cache and the flight's event wakes the followers. A transcoding answer leaves
a background poller behind that writes the cache later. Links in the response
lead back to the download route, which streams chunks. The cron check and the
administrator change the pool from any worker at any time.

What has to be right, per part:

* single flight: nobody waits on an event that is never set or on a lock whose
  holder died; duplicates collapse, within a worker and across workers; the
  poller of a key is unique and frees the key;
* pool: a failed account stays out; a retry goes elsewhere; workers agree;
* streaming: bounded memory and connections, no deadlock between the two
  semaphores, nothing missing from a stream that ends well;
* limiter: neither store admits too many, neither refuses without cause;
* resolution: the link a caller gets leads to the file that was asked for; the
  account does not fill with copies; tokens, cookies and account belong together;
* response cache: what one route stores can be used by the route that reads it,
  or the caller is wrong for no longer than an entry lives;
* dashboard: what is shown is recent, of the account that was named, and does
  not bring back what was deleted.

`PROJECT.json` lists the hazards one by one, at their lines.

## 2. The modules

### SingleFlight (abstract)

What the single flight promises, without saying how. A request is `out`,
`waiting`, `resolving` or `over` (`stage`), for the key it `asks`; `shared` are
the keys whose response everybody can have. Two requests call upstream for a
key at the same time (`Lead`), and a follower calls upstream at all
(`GoAlone`) or ends without the response (`Collapse`), only if the key is
`excused`. Which trouble excuses a key is up to the implementation, which has
to say so in its history variable `excused`; what an excuse permits is fixed
here. One step is looser: in `Barren` requests end with nothing to share, those that
resolved leaving their key excused, and followers may end with them (a worker that
dies takes its own along) without an excuse of their own. So the followers of a flight
that ends empty all call upstream afterwards, and nothing here forbids it. `ResolveRoute` and `RedisFlight` implement it under refinement mappings
(`Stage`, `Asks`, and the filled cache for `shared`); both claims are checked by
TLC and proved.

### ResolveRoute (`api/routes/resolve.py`)

One worker without Redis. Each action is the code between two awaits:
`ServeHit`, `Lead`, `Follow` are the cache lookup with the lock attempt;
`Wake` and `TimeOut` are the resumption of `_wait_for_inflight` with the second
cache lookup and the second lock attempt, whose result the route ignores;
`Succeed`, `Transcoding`, `Fail` are the ends of the upstream call with the
`finally` clause (`Release`); `PollStart`, `PollReady`, `PollEnd` are
`_background_transcode_poll`; `Evict` is a cache entry that goes away.

Abstractions: upstream answers are outcomes; a response is `proxied` or `bare`
(built with or without a request at hand); a cache key is a link and the wait
flag. `excused` is a history variable: keys for which something happened after
which duplicates are to be expected.

### RedisFlight (`api/routes/resolve.py`, `api/cache.py`)

The same route in several workers that share a Redis. Every action is one Redis
command with what the code does up to the next one; a request between two
commands of one chain is in a phase of `InChain` and keeps its worker's event
loop (`Idle`), while other workers go on. `LookUp` is the `GET`; `Lead` and
`Follow` the two results of `SET NX EX 30`, or of the process's own events when
the command raises (`FallBack`); `PollHit`, `PollMiss`, `Probe`, `ProbeFails`
the polling follower; `TimeOut`, `LastMiss`, `ResolveAlone` its end, with the
second lock attempt whose result the route ignores. `Succeed`, `Transcoding`
and `Fail` are the ends of the upstream call, `Release` the `DEL` of the
`finally` clause, which deletes the lock whoever holds it. `PollStart`,
`PollReady`, `PollStore`, `PollEnd` are the background poller with its own
lock of 300 seconds. `Crash` is a worker that dies and is started again
(`gunicorn.conf.py:36-50`).

Abstractions: a lock's value is the request that set it, which the code stores
as a constant and never reads: it only serves to tell whether a lock expired
under its holder. Locks expire at any time, not after a count of seconds. A
failing command has no effect; what a failed `put` leaves in the process
(`store`) is found again only when a `get` fails as well, and may have expired
by then. These excuse a key: a failing `GET`, `SET` or `EXISTS` of a request
for it, a follower's 30 seconds running out, an upstream call that ends with
nothing to cache, a lock that expires or a worker that dies during the call,
an eviction. A failing `DEL` does not: the lock then stays until it expires,
and until then the cache answers.

### AccountPool (`api/account_pool.py`, `api/account_manager.py`, `api/routes/resolve.py:86-196`, `api/routes/admin.py`, `api/middleware.py`)

The Redis client is synchronous, so a worker runs a chain of commands without
yielding to its other coroutines, while other workers' commands may run
between any two of them. `todo[w]` is the rest of worker `w`'s chain, one
action per command (`NextRead`, `NextWrite`, `NextSet`, `MarkRead`,
`MarkWrite`, `LoadGet`, `LoadCreds`, ...). A command that writes a record back
carries the record that was read. Handlers that await the upstream service
between read and write keep what they read in `pending`. A resolve (`req`)
goes through `Attempt`, then `Return`, `AccountError` or `TransientError`, then
`Retry`. The clock has whole seconds because `last_used` has.

Any command may fail, its effect done or lost: `NextFails`, `MarkFails`,
`LoadFails`, `AdminFails`, `DeleteFails` and `EndEditFails` are the `except`
clauses, which log and give up the function (`Cut` is what is left of the chain).
So a mark that could not be read or written is forgotten and the retry may start
on the account that failed. `marker` (who made an account unhealthy) and `spoilt`
(resolves whose failover a failing command or another worker came across) are
history variables.

Abstractions: a record is its status and its `last_used`; profiles, cookies
and alerts are left out; on equal stamps the selection is nondeterministic
(the order of the hash); the refresh interval is "now and then".

### ChunkStream (`api/routes/download.py`, `downloader.py:1000-1079`)

`range` is what the download route makes of the Range header, the numbers
unchecked against each other: a last byte behind the file is brought back, a
first one is not, so a length may be negative (`Length`) and the stream empty.
The generator cuts it into `N` slices (`SliceLength`). One task per chunk;
tasks start in order and asyncio semaphores are first in, first out, so two
counters say which tasks have passed which semaphore. A try ends in a body
(`FetchBody`: status 206, the slice, or 200, the whole file), another status
(`FetchStatus`) or an exception (`FetchRaise`). `Yield`, `Abort`, `Resume`,
`Disconnect` are the generator; `sent` counts the bytes it yielded.

### Transfer (`downloader.py:52-820`)

`_resolve_link` in one worker, from the token refresh to the links. Calls of a
worker share `session` (the account whose cookies the client carries), its
`tsid` cookie and the global tokens `js` and `bds`. A request is sent by one
action and answered by the next: `via` is what it was sent with, and what it
does to the account (`dir`, `root`, `tasks`) happens with the answer. Between
two awaits a call is at `item`, `over` or `failed` and has the event loop to
itself (`Turn`).

| Action | Code |
|---|---|
| `Start`, `Refreshed` | `refresh_account_tokens`: asks with the current cookies, stores the tokens of the account that answered |
| `SessionOpened`, `PreListed` | the share's listing and session cookie, the listing "to prevent duplication" |
| `TakeFolder`, `TakeKnown`, `TakeNew` | the head of `_process_single_file_metadata`: folder, file already in the account, file to transfer |
| `Copied`, `Queued`, `Claimed`, `NoRoot`, `Refused`, `Disrupted`, `Resume`, `Again` | the answers of a transfer by errno, and the pause and refresh before the next profile |
| `Poll`, `RootMade`, `Searched` | `wait_for_transfer`, the directory, the search by name |
| `Scan`, `Rescan` | a pass over the stream qualities, the wait for transcoding |
| `Finish`, `Metas`, `Locate`, `Return` | the links, by id and then by path, and the end |
| `TaskDone`, `Load` | external: a copy that ends upstream; a change of credentials under the calls |

Abstractions: names, sizes and which name contains which are constants; of the
upstream service only what the code relies on is modelled (it accepts a
transfer if tokens, cookies and share session belong together, lists the newest
first, renames a copy whose name is taken); it may ask for verification whenever it
likes (`Refused`), also with the last profile, after which the code still pauses and
refreshes before the file fails (`Again`); an answer that fails, for no reason in the
model, is a fault and bounded. One such fault is a task that failed with errno 0,
which `Poll` takes for a copy that was made. `trouble` is a history variable: what
happened while a call was under way (another call, a switch of the account, a
fault, ...), which the properties name as the only excuses.

### DashboardCache (`api/routes/admin.py:552-814`, `api/cache.py`)

The dashboard's quota and listing behind entries of 60 seconds, and deletions.
`cred` and `active` are the records, by the drive a cookie belongs to; `redis`
and `mem` the two tiers. A request is `Hit` or `Miss` (credentials picked,
tokens looked up: `Resolved`, and saved with the whole record: `Write`), then
done by the service (`Snap`, `Erase`), then answered (`Answer` with the `put`,
`Confirm` with the purge). `Update`, `RemoveRecord`, `Activate` change the records
meanwhile. While Redis is down (`Outage`, which stands for a single failing
call as well) the worker uses its own tier and the environment's cookie. Where
that is unset, which is the default, it uses the cookies of the session it has
loaded for the links (`Fallback`, `loaded`), which follow the active account:
`Load` is `load_config_from_redis` at the end of an administrator's call or of a
rotation, `Reload` ahead of any request. Workers start while Redis answers, so
their first load succeeds.

Abstractions: of a drive one file; ages instead of a clock; the three kinds of
pages are one. `named` (how long ago a key last stood for a drive, and each drive
for the fallback of a worker) and `gone`
(deletions after which nothing can bring the file back) are history variables.

### LinkCache (`api/cache.py`, `api/routes/resolve.py`, `download.py`, `stream.py`)

Who stores what under which key, and who finds it. An entry is of a `kind`:
an answer signed for a tier, one without links, a raw result, the qualities of
a file. `AskResolve`, `AskRaw`, `AskManifest` look the key up (`Looked`: a hit
moves to the end, what is out of time goes), `AnswerResolve`, `AnswerRaw`,
`PickFile` and `AnswerManifest` store. `shared` are the entries in Redis
(`Share`), `own` those of the worker's store (`Stored`), which keeps to a time of
its own and to `MaxEntries`. `PollEnds` is the poller, `WarmLook` and
`WarmProbed` the pre-warmer, which writes qualities. While calls of Redis fail
(`Outage` to `Recover`) answers are looked up and stored in the worker's store,
qualities are looked up there but kept nowhere, and a call that fails may have
been done all the same.

Abstractions: the single flight, which `ResolveRoute` models; other workers,
which would only write more of the same entries to Redis; `Outage` and `Recover`
happen between any two calls and so stand for a single failing one as well;
wall-clock time is a step count per entry. A link is the one a route makes or is
given; `Canon` is the one the routes of handed-out links make of a surl. `parse_surl`
strips a leading 1 of a long surl (`downloader.py:425-429`), so that a link asked for
and the handed-out ones mostly have different keys; they share one for links whose
surl is not stripped. `filled` (what was stored under which key) and `strayed`
(qualities that a manifest by fs_id left under another file's index) are history
variables; their marks age and go when what they excuse is out of time.

### RateLimiter (`api/rate_limiter.py`)

`Begin` reads the clock; `RedisCheck` is the pipeline; `Local` and `FallBack`
are the list of the process, without Redis and after a failed pipeline (which
may have run all the same); `Cleanup` is the housekeeping of
`api/index.py:92-95`. Between `Begin` and the check the clock and the other
workers may move on. `log` is a history variable.

Abstraction: the four commands of a pipeline are one step. Upstash sends them as one
request and does not promise to run them without another worker's in between. The
window and the refusals are stated so that calls in flight count as rivals, but
an interleaving inside a pipeline is not explored.

## 3. The runs

| Run | Instance | Shows |
|---|---|---|
| `resolve_route` | 3 requests, 1 link, both wait flags | the events implement the abstract single flight, no follower is stranded, duplicates collapse unless excused, pollers exclude each other, followers are answered and jobs drain |
| `redis_flight` | 3 requests in 2 workers, 1 link, 1 failing command or dying worker | the lock implements the abstract single flight, pollers exclude each other across workers, everybody is answered |
| `chunk_stream` | files of 7 and 8 bytes, chunks of 2, ranges over 0, 3, 8, 2 connections, window 3, 2 tries | bounded look-ahead and connections, no window deadlock, no gap, the announced length is kept unless it is negative, waits end |
| `pool` | 2 accounts, 2 workers, 1 resolve of 2 tries, 2 faults (upstream calls or Redis commands), 1 admin call of any kind, 2 clock values | a mark is lifted by the administrator and two named races only, a retry goes elsewhere unless its own failover was disturbed, and when things are quiet all workers settle on one healthy account |
| `rate_limiter` | 2 workers, 2 ips, 4 calls, 2 per 3 s, clock to 4, 1 failing pipeline | window bounds and justified refusals in both stores |
| `transfer` | a download and a waiting stream call, 2 shares with one file of the same name and size, 2 accounts, one without tokens, 1 fault or switch | copies, wrong links, failures and foreign tokens happen only for the reasons named; every call ends |
| `dashboard` | 2 workers without a cookie in the environment, 2 requests at a time, 3 in all, 2 records, 2 drives, entries of 2 steps, flights of 1, 1 outage or change | pages are recent and of the account named or of the named fallback, deleted files stay away |
| `link_cache` | 1 link, 2 files of which the second is a video, 2 requests at a time, 3 in all, times 1, 2 and 3, store of 2, 1 outage | what a caller cannot use was stored for its very key within the TTL; another file's qualities are given only from the cache, of the file at the index or of one a manifest by fs_id left there |
| `stream_hangs` | 2 chunks, 1 connection, 3 tries | violated: the generator waits for ever |
| `mark_lost` | 2 workers, no admin | violated: a rotation writes a mark away |
| `manifest_mixed` | 1 request at a time, 2 videos | violated: a manifest by fs_id is of another file, whose qualities are cached under the same index |
| `wrong_drive` | as `dashboard` | violated: a deletion for a named account hits the loaded account's drive while Redis fails |

Why the bounds suffice. Three requests are a leader, a follower and a third
one that leads, follows, times out or polls beside them; the interesting
interference is between two requests and a third. One link with two flags is
two keys, which the poller relates. In `redis_flight` one request may ask with
either flag and two ask without (`MayAsk`), which are the ones that spawn
pollers; one fault of `MaxFaults` may be any Redis command or the death of any
worker, while expiries and evictions are unbounded. Four chunks with a window of
three and two connections make every semaphore fill and refill; sizes 7 and 8
have a short and an exact last chunk, and 0, 3, 8 a range from the start, within
a chunk and behind the end. Two accounts are a failing and a remaining one; two
workers are a writer and the one it overwrites. Four calls with a limit of two
allow one refusal in each store and a window that slides past admitted calls.

In `transfer` two calls are enough for every sharing of session and tokens,
because each property speaks of a call and what others do to it; the account may
hold a file of the same name and another size and one whose name contains the
name, which are the two ways in which the search can go wrong; a listing page of
two and a search page of one file are exceeded. In `dashboard` three requests
are an old listing, a deletion and a look; a lifetime of 2 with a flight of 1
lets an entry be put, age and be read at its last moment; with one entry per
worker the store evicts. In `link_cache` three requests are one that stores, one
that stores something else under the key or evicts it, and one that reads. The one
link is `Canon`, the worst case, in which all routes share their keys; a second link
only has entries of its own. One outage is enough for an entry that stays in the worker's store
while Redis moves on, and for its return when Redis fails at the last moment; the
theorems cover any number. Where a theorem exists the instance does not matter: the theorem holds
for every value of the constants.

In `pool` the resolve's first failure is one fault and a failing command the
other; the admin call may be the listing (`api/routes/admin.py:422`), which writes
back a record it read before an await, or the cron check. In `dashboard` no cookie is
in the environment, the case in which the fallback moves; the theorems cover both.

The runs whose requests, calls or bounds are used up after finitely many steps
set `CHECK_DEADLOCK FALSE`. `dashboard`, `link_cache`, `wrong_drive` and `manifest_mixed`
check deadlock, but only weakly: there time can always go on.

Fairness is on what the program runs by itself. `ResolveRoute`: woken tasks
run, upstream calls end (each has a timeout and each retry loop a bound),
pollers start and end; the follower's own 30 second timeout is *not* assumed.
`RedisFlight`: a worker goes on with its chains, upstream calls end, a lock
expires in the end; the follower's 30 seconds are again not assumed, so that a
follower of a dead leader is answered because the lock goes away.
`ChunkStream`: tasks and the generator run when they can, every try ends
(60 second timeout); the client need not read. `AccountPool`: a worker
finishes its chain and reloads again and again, as requests keep coming in.
`Transfer`: each call goes on, its requests being answered or timing out
(15 to 30 seconds each, at the call or by the client); copies that are under way
upstream need *not* end, nor need the service ever accept one. `DashboardCache`
and `LinkCache` state no fairness: they have only safety properties.

## 4. The proofs

Every theorem is checked by TLAPS to the last leaf, for arbitrary constants
under the named assumption of its module: `RouteAssumption` and
`RedisAssumption` (the absent value is none of the others; each request has a
worker and the keys it may ask for), `StreamAssumption` (the other parameters
positive naturals, and no file longer than `MaxChunks` chunks),
`LimiterAssumption` (finitely many calls, natural parameters, the absent value
is no record), `PoolAssumption` (each request has a worker, at least one try,
the absent value is no account and no record), `LinkAssumption` (positive times
and sizes; an answer lives no longer than the longest time),
`DashboardAssumption` (positive lifetime and capacity, the absent value is
no drive and no record, the active key is no record) and `TransferAssumption` (a share is a list of files with distinct
names; what an account holds at first is finite, told apart by id and by name and
copy number, numbered below `next`, and put there by none of the calls). TLC
checked each invariant first.

* `ResolveRouteProofs`. `WakeUpOwed` and `CollapseUnlessExcused` are not
  inductive. `IInv` adds `EventLive` (a registered event belongs to a request
  that still resolves that key and is not set), `FlightLive` (a key without an
  excuse has its one resolver registered, and woken followers find the cache
  filled) and `PollLive`. The argument: a release by a request that does not
  own the event is harmless because it *sets* what it pops, so followers of
  that event are woken, not stranded; and it presupposes a timeout, which
  excuses the key.
  `Refinement` (`Spec => ImplementsSingleFlight`) rests on the same invariant:
  `FlightLive` says that a request takes the flight of an unexcused key only
  when nobody resolves it, and that a woken follower finds the response.
  `OneCallAtATime` is the promise of `SingleFlight` read in the implementation: at
  most one request calls upstream for an unexcused key. It is proved here of the
  event table and in `RedisFlightProofs` of the lock, each from its `FlightLive`.
* `RedisFlightProofs`. The lock has no owner, so the invariant cannot come from
  the lock alone. `FlightLive` ties it to the history: while nothing excuses a
  key, whoever resolves it holds its lock, a lock without a response in the
  cache has a resolver behind it, a releasing request has stored its response
  first, followers see a lock or a response, and one that has seen the lock gone
  will find the response in its last look. A `DEL` of somebody else's lock
  needs an expiry or a request that resolves alone, and both are excuses.
  `PollLive` is the same for the poll lock. `Refinement` maps every step to a
  step of `SingleFlight` or to a stutter.
* `ChunkStreamProofs`. `WindowLive` is the accounting
  `windowFree + admitted = MaxAhead + Consumed`, with the order
  `Consumed <= entered <= admitted`. The look-ahead is the interval between
  `Consumed` and `admitted`; the awaited chunk is next after `Consumed`, so
  either it is admitted or the equation leaves a free permit. `LengthAnnounced`
  adds `SentLive`: what was sent is the length of the first `Consumed` chunks
  (`Upto`), and all `N` of them are the announced length when that is positive. For
  a range that starts behind its end by more than a byte the code announces a
  negative length with status 206 (`download.py:123-134`); there are no chunks then,
  and the theorem says that nothing is sent.
* `RateLimiterProofs`. A list holds every admission that is still recent
  (`KeptLive`), the sorted set every stamp of one (`ZsetLive`); what is recent
  only shrinks as time passes, and a check adds to a set it has just counted.
  The sorted set needs more care: its trimmer may have read an older clock,
  which trims less and never too much. `RedisWindow` speaks of *stamps*,
  because two calls with one stamp are one member of the set.
* `AccountPoolProofs`. `TypeCorrect` needs to know which chains of commands there
  are (`Typed`: sequences of the commands of the code, with what each carries).
  `MarksStick` and `FailsOver` hold for any number of workers, with every kind of
  admin call and whatever commands fail. The key is that a worker that is in the
  middle of a chain takes no other step (`Idle`). `WriteLive` follows a rotation
  between its read and its write: a mark by the *same* worker cannot fall in
  between, so what it writes back is healthy over an unhealthy record only if the
  record was marked by another one (`marker`). `BlameLive` follows a resolve that
  blamed an account along its chain (mark, reload, retry): unless it is `spoilt`, the
  account is marked before anything else, and the chain ends with another account
  loaded if there is one. Without the excuse of the other worker `MarkSticks` is
  false: `mark_lost` shows it.
* `TransferProofs`. All safety properties of `Transfer`, from one invariant in
  four parts.
  - `Types` and `TokensLive`. The tokens of a transfer were captured steps before;
    `TokensLive` says of a call to which nothing happened what it holds at each
    phase: the refresh is under way with the session's cookies, or both globals
    and the token it captured are the session's account. `Refresh` by another call
    preserves it because it answers for the account it asked, which is the session
    or marks all others as stomped.
  - `DriveOK`: files stay told apart by id and by name and copy number. The number
    of a new copy is the least free one, and there is one by the pigeonhole
    principle (`FreeNumber`): an account with n files leaves one of n+1 numbers.
  - `CopiesLive`, for `CopiedOnce`: a call's copies are of files it has come to, one
    of each unless it is excused, and none of a file its whole listing showed.
  - `LinksLive`, for `LinksRight` and `AloneIsServed`: calls on their way together
    both know it (`OverlapLive`); what a call found is still in the account it is
    in (`StayLive`); and for a lone call each phase is followed to the right link
    (`AloneLive`: its tokens are accepted by a service that does not ask for
    verification with every profile, its copy is the newest file of the
    account, so the search by name, which shows the newest first and is cut at a
    page, finds it under its own name or another).
  Most steps disturb little: `SteadyStep`, `StoreStep`, `QueueStep` and
  `GentleStep` say once what a step of another call, a new file, a queued copy and
  a step that keeps the session preserve.

* `DashboardCacheProofs`. A request goes for the drive its key stood for when it
  came, or for the fallback of its worker (`named` under `None`); an entry tells of a drive its key stood for no longer ago than the age
  of the entry and the time its request was under way. The invariant says this of
  both tiers and of each phase of a request (`Stood`, `CallOK`), and of ages,
  which saturate, that a saturated one counts for every older one. `StaysDeleted`
  follows from a claim about entries (`Fine`): `Confirm` is the only step after
  which a file counts as deleted, and its purge has just emptied the tiers,
  unless a listing was on its way, another worker held one or Redis failed.

* `LinkCacheProofs`. An entry of the cache outlives the request that stored it, so
  the properties, which speak of what a request was given, need a claim about
  every entry: `Backed` (an answer that still counts has its mark, of the same age,
  in `filled`) and `Aimed` (qualities are of the file at their index or have a mark of
  their age in `strayed`). Marks and entries age together, hence what is live has a mark that
  is not yet forgotten, in either tier; `CallOK` carries it to the requests.
  The worker's store is a sequence written with `RemoveAt`, `Append` and `Tail`:
  the lemmas `WithoutIs`, `AppendIs`, `TailIs` and `StoredIs` say that these keep
  its keys unique and its length bounded. An outage changes no entry, and `Share`
  preserves the claim for whichever of its writes were done.

Only model-checked: all liveness (`FollowersAnswered`, `RequestsAnswered`,
`JobsDrain`, `WaitEnds`, `WorkersConverge`, `ResolveEnds`), which is out of the
prover's reach. Every other property of a passing run is a theorem.

## 5. Where code and documentation disagree

Four runs end in a violation, each of a statement of the repository's own
documentation or docstrings; `PROJECT.json` quotes them.

1. `stream_hangs`: three answers with an error status never set the event of
   their chunk.
2. `mark_lost`: `get_next_healthy_account` writes a stale record back.
3. `manifest_mixed`: the qualities of a manifest are looked for by index alone,
   and the links handed out carry an fs_id without an index.
4. `wrong_drive`: what is done for a named account is done with another account's
   cookies when its record cannot be read.

The passing runs name further behaviour that surprises, as the excuses in their
properties: followers of a flight that ends with nothing all resolve on their
own (`CollapseUnlessExcused`); the poller caches an answer without links and
premium links reach free callers, and where a link is its own canonical form a
download takes a cached answer of `/api/resolve` for an error
(`ForeignExplained`, which bounds how long); two calls for one share
copy it twice (`DuplicateExplained`); a renamed copy can make the search return
another file, and so can a task that failed with errno 0 (`ServedIsAsked`); a lone
call fails when all profiles are asked for verification (`AloneSucceeds`); a range
behind the end of the file is announced with a negative length (`LengthKept`); the
listing of the pool brings a marked account back (`MarkSticks`); a purge leaves the entries of other workers and
those filed under the active key (`DeletedGone`); credentials change under calls
that are half way (`TokensOfTheSession`). `README.md:106-107` of the repository
gives 60 seconds and 256 entries as the defaults of the response cache,
`api/config.py:25-26` has 300 and 512.

## 6. Not modelled

* Sub-playlists, segment proxy and the single stream of small files: each passes
  one upstream answer through and keeps nothing.
* The thumbnail store: immutable bytes under their own URL; cache hit counters.
* Authentication and signing: cryptography and one remote check per request. The
  tier cache (`api/auth.py:190-286`) is in each process and in Redis, 300 seconds
  each; an entry found in Redis starts its time anew in the process, so a tier can
  be nearly two lifetimes old. No other state depends on it.
* The status record that the cron check writes and the statistics page shows.
* Command line, dashboard page, HTML and formatting, logging, deployment.

## 7. Plan

What remains, in order of worth:

1. A composition of `ResolveRoute` with `AccountPool`: today a resolve's outcome
   is free in the former and its account's health in the latter.
2. The tier cache, together with the lifetimes of signed links by tier.
