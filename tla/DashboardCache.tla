--------------------------- MODULE DashboardCache ---------------------------
(***************************************************************************)
(* The storage pages of the dashboard: quota and listings of an account's  *)
(* drive behind a cache of 60 seconds, and the deletion of files.          *)
(*                                                                         *)
(* Several workers share Redis: the account records, the active account    *)
(* and the cache.  While Redis is down, which includes the failure of one  *)
(* call, a worker goes on with a store of its own and with the cookie of   *)
(* its environment, or without one with the cookies of the session it has  *)
(* loaded for the links.  A request is sent by one action, done by the service  *)
(* in a second and answered in a third.  Of a drive only one file matters, *)
(* the one that is deleted; of time only how long ago things were.         *)
(***************************************************************************)
EXTENDS Naturals, FiniteSets, SequencesExt

CONSTANTS Workers,
          Requests,    \* requests that are under way at once
          Ids,         \* ids of account records
          Bare,        \* those whose records, and the sessions, have no tokens
          Active,      \* the key of requests that name no account
          Asked,       \* the ids and keys that requests name
          Drives,      \* accounts of the service
          Env,         \* the drive of the environment's cookie, None if it is unset
          TTL,         \* CACHE_DASHBOARD_TTL
          Flight,      \* bound: the longest a request is under way
          MaxEntries,  \* entries of a worker's own store
          Start,       \* what the records may be at the start
          MaxTrouble,  \* bound: outages of Redis and changes of the records
          MaxStarts,   \* bound: requests that arrive
          None

Keys == Ids \union {Active}
Long == TTL + Flight
Ages == 0..Long

ASSUME DashboardAssumption ==
  /\ None \notin Ids \union Drives \union {Active} /\ Active \notin Ids
  /\ Asked \subseteq Keys /\ Bare \subseteq Ids /\ Env \in Drives \union {None}
  /\ Start \subseteq [Ids -> Drives \union {None}]
  /\ {TTL, MaxEntries} \subseteq Nat \ {0}
  /\ {Flight, MaxTrouble, MaxStarts} \subseteq Nat

VARIABLES
  cred,     \* the drive of each record's cookie
  active,   \* the id under the active key
  loaded,   \* the drive of the cookies of each worker's session
  redis,    \* the cached entries in Redis
  mem,      \* each worker's own store, the least recently used first
  full,     \* the drives that hold the file
  req,      \* the requests
  named,    \* history: how long ago each key last stood for each drive, and
            \* under None each drive for what workers take without a record
  down,     \* calls of Redis fail
  gone,     \* history: keys and drives of confirmed deletions
  outages, changes, starts

pool == <<cred, active, loaded, named>>
stores == <<redis, mem>>
wire == <<down, outages>>
vars == <<pool, stores, full, req, gone, wire, changes, starts>>

\* The drive that a key stands for.
Meant(records, id) == IF id = None THEN None ELSE records[id]
Designated(k) == Meant(cred, IF k = Active THEN active ELSE k)

\* What is taken without a record: the cookie of the environment, or when that
\* is unset the cookies of the worker's session.
Fallback(w) == IF Env # None THEN Env ELSE loaded[w]

Stands(k, d) == IF k = None THEN d \in {Fallback(w) : w \in Workers} \union {None}
                ELSE d = Designated(k)

Older(age) == IF age < Long THEN age + 1 ELSE Long

Idle == [at |-> "idle", op |-> "list", w |-> None, key |-> Active, id |-> None,
         drive |-> None, rec |-> None, has |-> FALSE, taken |-> 0, spent |-> 0]

Init ==
  /\ cred \in Start
  /\ active \in {id \in Ids : cred[id] # None} \union {None}
  /\ loaded = [w \in Workers |->
                 IF Designated(Active) = None THEN Env ELSE Designated(Active)]
  /\ redis = {}
  /\ mem = [w \in Workers |-> <<>>]
  /\ full = Drives
  /\ req = [r \in Requests |-> Idle]
  /\ named = [k \in Asked \union {None} |-> [d \in Drives \union {None} |->
                IF Stands(k, d) THEN 0 ELSE Long]]
  /\ down = FALSE
  /\ gone = {}
  /\ outages = 0 /\ changes = 0 /\ starts = 0

-----------------------------------------------------------------------------
(* Calls of Redis and the two tiers of the cache *)

\* A worker's own store without the entry of a key.
Without(seq, key) ==
  IF \E i \in DOMAIN seq : seq[i].key = key
  THEN RemoveAt(seq, CHOOSE i \in DOMAIN seq : seq[i].key = key)
  ELSE seq

\* Mutant: the key of a listing leaves out the account.
KeyShared(k) == Active

\* The part of cache keys that tells accounts apart.
Key(k) == k

\* move_to_end
Touch(w, e) == Append(Without(mem[w], e.key), e)

\* get_dashboard: the entries that answer, at most one.
Cached(w, k) == {e \in IF down THEN {mem[w][i] : i \in DOMAIN mem[w]} ELSE redis :
                  e.key = Key(k) /\ (down => e.put < TTL)}

\* Its effect on the worker's own store when Redis fails.
Looked(w, k) ==
  mem' = IF ~down THEN mem
         ELSE [mem EXCEPT ![w] = IF Cached(w, k) = {} THEN Without(@, Key(k))
                                 ELSE Touch(w, CHOOSE e \in Cached(w, k) : TRUE)]

\* Mutant: nothing is dropped from the worker's own store.
PutGrowing(w, e) ==
  /\ redis' = IF down THEN redis ELSE {x \in redis : x.key # e.key} \union {e}
  /\ mem' = IF ~down THEN mem ELSE [mem EXCEPT ![w] = Append(Without(@, e.key), e)]

\* put_dashboard: into Redis, or when that fails (done all the same or not)
\* into the worker's own store.
Put(w, e) ==
  LET stored == {x \in redis : x.key # e.key} \union {e}
      own    == Append(Without(mem[w], e.key), e)
  IN /\ redis' \in {stored} \union (IF down THEN {redis} ELSE {})
     /\ mem' = IF ~down THEN mem
               ELSE [mem EXCEPT ![w] = IF Len(own) > MaxEntries THEN Tail(own) ELSE own]

\* The entries of an account, or all of them when none is named.
Scope(k) == IF k = Active THEN Keys ELSE {k}
Purged(seq, k) == IF k = Active THEN <<>> ELSE Without(seq, k)

\* Mutant: only the worker's own store is purged.
PurgeOwn(w, k) ==
  /\ mem' = [mem EXCEPT ![w] = Purged(@, k)]
  /\ UNCHANGED redis

\* invalidate_dashboard, in Redis and in the store of this worker alone.
Purge(w, k) ==
  /\ redis' \in {{e \in redis : e.key \notin Scope(k)}} \union (IF down THEN {redis} ELSE {})
  /\ mem' = [mem EXCEPT ![w] = Purged(@, k)]

-----------------------------------------------------------------------------
(* The requests *)

\* Between two calls of Redis a request does not await: it has its worker to
\* itself.
Turn(w) == \A q \in Requests : req[q].at = "write" => req[q].w # w
At(r, phase) == req[r].at = phase /\ (phase # "write" => Turn(req[r].w))
Become(r, m) == req' = [req EXCEPT ![r] = m]

\* _get_account_credentials: the cookie of the record, or what is taken without
\* a record or when Redis fails, which may be no cookie at all.
Credentials(w, k) == IF ~down /\ Designated(k) # None THEN Designated(k) ELSE Fallback(w)

\* The request is sent, or the tokens are looked up first when neither the
\* record nor the worker's session has them; not with the session's cookies.
Send(r, op, w, k) ==
  LET id == IF k # Active THEN k ELSE IF down THEN None ELSE active
      looked == id \in Bare /\ (Env # None \/ (~down /\ Designated(k) # None))
  IN Become(r, [Idle EXCEPT !.at = IF looked THEN "tokens" ELSE "sent",
                  !.op = op, !.w = w, !.key = k, !.id = IF looked THEN id ELSE None,
                  !.drive = Credentials(w, k)])

Arrives(r, w) == /\ req[r].at = "idle" /\ Turn(w)
                 /\ starts < MaxStarts
                 /\ starts' = starts + 1

\* A listing is answered from the cache.
Hit(r) ==
  /\ \E w \in Workers, k \in Asked :
       /\ Arrives(r, w)
       /\ Looked(w, k)
       /\ \E e \in Cached(w, k) :
            Become(r, [Idle EXCEPT !.at = "done", !.w = w, !.key = k, !.drive = e.drive,
                                   !.has = e.has, !.taken = e.taken])
  /\ UNCHANGED <<pool, redis, full, gone, wire, changes>>

\* It is not in the cache, or a fresh one is asked for.
Miss(r) ==
  /\ \E w \in Workers, k \in Asked :
       /\ Arrives(r, w)
       /\ UNCHANGED mem \/ (Cached(w, k) = {} /\ Looked(w, k))
       /\ Send(r, "list", w, k)
  /\ UNCHANGED <<pool, redis, full, gone, wire, changes>>

Delete(r) ==
  /\ \E w \in Workers, k \in Asked : Arrives(r, w) /\ Send(r, "delete", w, k)
  /\ UNCHANGED <<pool, stores, full, gone, wire, changes>>

\* The tokens have come, or not; they are to be saved in the record.
Resolved(r) ==
  /\ At(r, "tokens")
  /\ LET id == req[r].id
     IN \/ Become(r, [req[r] EXCEPT !.at = "sent", !.id = None])
        \/ /\ id # None /\ cred[id] # None /\ ~down
           /\ Become(r, [req[r] EXCEPT !.at = "write", !.rec = cred[id]])
  /\ UNCHANGED <<pool, stores, full, gone, wire, changes, starts>>

\* What the keys stand for after a change of the records or of a session.
Renamed ==
  named' = [k \in Asked \union {None} |-> [d \in Drives \union {None} |->
              IF Stands(k, d)' THEN 0 ELSE named[k][d]]]

\* The record goes back as it was read, with the tokens.
Write(r) ==
  /\ At(r, "write")
  /\ cred' = [cred EXCEPT ![req[r].id] = req[r].rec]
  /\ UNCHANGED <<active, loaded>> /\ Renamed
  /\ Become(r, [req[r] EXCEPT !.at = "sent", !.id = None, !.rec = None])
  /\ UNCHANGED <<stores, full, gone, wire, changes, starts>>

\* The service lists the drive.  (A directory that is missing is made on the
\* way back, and the listing is the empty one.)
Snap(r) ==
  /\ At(r, "sent") /\ req[r].op = "list" /\ req[r].drive # None
  /\ Become(r, [req[r] EXCEPT !.at = "back", !.has = req[r].drive \in full])
  /\ UNCHANGED <<pool, stores, full, gone, wire, changes, starts>>

\* The service deletes the file, at the first endpoint or, when that refuses, at
\* the second.
Erase(r) ==
  /\ At(r, "sent") /\ req[r].op = "delete" /\ req[r].drive # None
  /\ full' = full \ {req[r].drive}
  /\ Become(r, [req[r] EXCEPT !.at = "back"])
  /\ UNCHANGED <<pool, stores, gone, wire, changes, starts>>

\* An error is answered or no answer comes: nothing is stored or purged.
Failed(r) ==
  /\ At(r, "sent") \/ At(r, "back")
  /\ Become(r, Idle)
  /\ UNCHANGED <<pool, stores, full, gone, wire, changes, starts>>

\* The listing arrives, is stored and answered.
Answer(r) ==
  /\ At(r, "back") /\ req[r].op = "list"
  /\ LET m == req[r]
         e == [key |-> Key(m.key), drive |-> m.drive, has |-> m.has,
               taken |-> m.taken, put |-> 0]
     IN Put(m.w, e)
  /\ Become(r, [req[r] EXCEPT !.at = "done"])
  /\ UNCHANGED <<pool, full, gone, wire, changes, starts>>

\* Nothing is left that could bring the file back under k: no listing from
\* before on its way, no entry in another worker, and Redis was purged.
Clear(w, k) ==
  /\ ~down
  /\ \A q \in Requests : ~(req[q].at = "back" /\ req[q].key = k /\ req[q].has)
  /\ \A v \in Workers \ {w} : \A i \in DOMAIN mem[v] : mem[v][i].key # k

\* The deletion is confirmed and the account's entries are purged.
Confirm(r) ==
  /\ At(r, "back") /\ req[r].op = "delete"
  /\ Purge(req[r].w, req[r].key)
  /\ gone' = gone \union {<<k, req[r].drive>> :
                            k \in {x \in Scope(req[r].key) \intersect Asked : Clear(req[r].w, x)}}
  /\ Become(r, Idle)
  /\ UNCHANGED <<pool, full, wire, changes, starts>>

Return(r) ==
  /\ req[r].at = "done"
  /\ Become(r, Idle)
  /\ UNCHANGED <<pool, stores, full, gone, wire, changes, starts>>

-----------------------------------------------------------------------------
(* The account records, the sessions, Redis and time *)

Change == /\ outages + changes < MaxTrouble
          /\ changes' = changes + 1
          /\ UNCHANGED <<full, req, gone, wire, starts>>

\* load_config_from_redis, at the end of a step: the worker's session takes the
\* cookies of the active account, if it has a record.
Load(w) == loaded' = IF Meant(cred', active') = None THEN loaded
                     ELSE [loaded EXCEPT ![w] = cred'[active']]

\* An account is stored by the configuration route.
Update(w, id) ==
  /\ Turn(w) /\ ~down /\ Change
  /\ \E d \in Drives : cred' = [cred EXCEPT ![id] = d]
  /\ active' = IF active \in {id, None} THEN id ELSE active
  /\ IF active' = id THEN Load(w) ELSE UNCHANGED loaded
  /\ Renamed
  /\ Purge(w, id)

\* It is deleted; if it was the active one the next healthy account follows,
\* and if there is none the active key stays as it is.
RemoveRecord(w, id) ==
  /\ Turn(w) /\ ~down /\ Change
  /\ cred' = [cred EXCEPT ![id] = None]
  /\ IF active = id
     THEN active' \in {id} \union {x \in Ids : cred'[x] # None} /\ Load(w)
     ELSE UNCHANGED <<active, loaded>>
  /\ Renamed
  /\ Purge(w, id)

\* Another account becomes the active one, by the administrator, a rotation or
\* the cron job: the cache is left alone, and the worker's session may follow.
Activate(w, id) ==
  /\ Turn(w) /\ Change
  /\ active' = id
  /\ UNCHANGED cred
  /\ Load(w) \/ UNCHANGED loaded
  /\ Renamed
  /\ UNCHANGED stores

\* A session follows what another worker has made the active account, with the
\* next request of any kind.
Reload(w) ==
  /\ Turn(w) /\ ~down
  /\ UNCHANGED <<cred, active>>
  /\ Load(w) /\ loaded' # loaded
  /\ Renamed
  /\ UNCHANGED <<stores, full, req, gone, wire, changes, starts>>

Outage ==
  /\ ~down /\ outages + changes < MaxTrouble
  /\ outages' = outages + 1
  /\ down' = TRUE
  /\ UNCHANGED <<pool, stores, full, req, gone, changes, starts>>

Recover ==
  /\ down
  /\ down' = FALSE
  /\ UNCHANGED <<pool, stores, full, req, gone, outages, changes, starts>>

\* Mutant: entries are written to Redis without an expiry.
KeptForEver(e) == TRUE

\* The expiry of an entry, seen one step of time before.
Kept(e) == e.put + 1 < TTL

\* Time goes on; Redis drops what has expired.
Tick ==
  /\ \A r \in Requests : req[r].at # "idle" => req[r].spent < Flight
  /\ redis' = {[e EXCEPT !.put = Older(@), !.taken = Older(@)] : e \in {x \in redis : Kept(x)}}
  /\ mem' = [w \in Workers |-> [i \in DOMAIN mem[w] |->
               [mem[w][i] EXCEPT !.put = Older(@), !.taken = Older(@)]]]
  /\ req' = [r \in Requests |->
               IF req[r].at = "idle" THEN req[r]
               ELSE [req[r] EXCEPT !.spent = @ + 1,
                                   !.taken = IF req[r].at = "back" /\ req[r].op = "list"
                                             THEN Older(@) ELSE @]]
  /\ named' = [k \in Asked \union {None} |-> [d \in Drives \union {None} |->
                 IF Stands(k, d) THEN 0 ELSE Older(named[k][d])]]
  /\ UNCHANGED <<cred, active, loaded, full, gone, wire, changes, starts>>

-----------------------------------------------------------------------------

\* An answer is looked at before anything else happens.
Next ==
  \/ \E r \in Requests : Return(r)
  \/ /\ \A r \in Requests : req[r].at # "done"
     /\ \/ \E r \in Requests :
             \/ Hit(r) \/ Miss(r) \/ Delete(r) \/ Resolved(r) \/ Write(r)
             \/ Snap(r) \/ Erase(r) \/ Failed(r) \/ Answer(r) \/ Confirm(r)
        \/ \E w \in Workers, id \in Ids :
             Update(w, id) \/ RemoveRecord(w, id) \/ Activate(w, id)
        \/ \E w \in Workers : Reload(w)
        \/ Outage \/ Recover \/ Tick

Spec == Init /\ [][Next]_vars

-----------------------------------------------------------------------------
(* Properties *)

Entries == {e \in [key : Keys, drive : Drives, has : BOOLEAN, taken : Ages, put : Ages] :
              e.put <= e.taken}

\* The state is well formed: data is at least as old as its entry, Redis and a
\* worker's own store hold one entry of a key, and the store its limit.
TypeOK ==
  /\ cred \in [Ids -> Drives \union {None}] /\ active \in Ids \union {None}
  /\ loaded \in [Workers -> Drives \union {None}]
  /\ redis \subseteq Entries
  /\ \A e, f \in redis : e.key = f.key => e = f
  /\ \A w \in Workers :
       /\ Len(mem[w]) <= MaxEntries
       /\ \A i \in DOMAIN mem[w] :
            mem[w][i] \in Entries /\ \A j \in DOMAIN mem[w] : mem[w][i].key = mem[w][j].key => i = j
  /\ \A r \in Requests :
       /\ req[r].at \in {"idle", "tokens", "write", "sent", "back", "done"}
       /\ req[r].at \in {"back", "done"} => req[r].drive \in Drives
       /\ req[r].spent <= Flight
  /\ full \subseteq Drives

\* What the dashboard shows was true of the drive a minute and the time of one
\* request ago at most, whichever tier it comes from and whatever Redis did.
AgeBounded ==
  \A r \in Requests : req[r].at = "done" => req[r].taken < TTL + Flight

\* A listing is of the drive its key stood for within that time, though records
\* are replaced, deleted and activated while listings are cached and on their
\* way, and a deletion hits the drive its key stood for when it was asked.  The
\* exception is what a worker takes without a record, when the key stood for
\* none or a call of Redis fails: the environment's drive, or where that is
\* unset the drive its session had loaded then, which is any account's.
OfTheNamed ==
  \A r \in Requests :
    LET m == req[r]
        lately == IF m.op = "list" THEN TTL + Flight - 1 ELSE Flight
    IN m.at = (IF m.op = "list" THEN "done" ELSE "back") =>
         \/ named[m.key][m.drive] <= lately
         \/ /\ named[None][m.drive] <= lately
            /\ named[m.key][None] <= lately \/ outages > 0

\* A file whose deletion was confirmed is not shown again under the account it
\* was deleted from, in whichever worker, unless at that moment a listing from
\* before was on its way, another worker held one of its own, or the purge of
\* Redis failed.
DeletedGone ==
  \A r \in Requests :
    req[r].at = "done" /\ req[r].has => <<req[r].key, req[r].drive>> \notin gone

\* What _get_account_credentials says of itself: an account that is named is the
\* one whose cookie it returns.  So a deletion for a named account that has had
\* its record all the time hits a drive of that account.
AccountUsed ==
  \A r \in Requests :
    LET m == req[r]
    IN m.at = "back" /\ m.op = "delete" /\ m.key # Active /\ named[m.key][None] > Flight =>
         named[m.key][m.drive] <= Flight
=============================================================================
