----------------------------- MODULE LinkCache -----------------------------
(***************************************************************************)
(* The response cache and the routes that share it: /api/resolve, the      *)
(* downloads and thumbnails, the manifests, and the two background tasks   *)
(* that fill it, the poll for a transcoding and the quality pre-warmer.    *)
(*                                                                         *)
(* The cache is Redis and, without it or while its calls fail, a worker's  *)
(* own store, which drops the least recently used entry.  Every route      *)
(* stores what suits itself, under keys made of link, action and wait.     *)
(* Resolving and probing await the service; that one flight is shared by   *)
(* equal calls of /api/resolve is the subject of ResolveRoute and left out *)
(* here.                                                                   *)
(***************************************************************************)
EXTENDS Naturals, FiniteSets, SequencesExt

CONSTANTS Links,       \* links of one share, as they are asked for
          Canon,       \* the one that the routes of the links handed out make of
                       \* the share's surl, whose leading 1 parse_surl strips
          Files,       \* the number of files of the share
          Videos,      \* the places of its videos
          Acts,        \* actions /api/resolve is asked for
          Tiers,       \* tiers of its callers
          Requests,    \* requests that are under way at once
          TTL,         \* CACHE_TTL_SECONDS
          ShortTTL,    \* of qualities in Redis while a file is transcoding
          LongTTL,     \* of qualities in Redis otherwise
          MaxEntries,  \* CACHE_MAX_ENTRIES
          MaxStarts,   \* bound: requests that arrive
          MaxOutages   \* bound: times that Redis begins to fail

ASSUME LinkAssumption ==
  /\ Canon \in Links
  /\ {Files, TTL, ShortTTL, LongTTL, MaxEntries} \subseteq Nat \ {0}
  /\ {MaxStarts, MaxOutages} \subseteq Nat
  /\ Videos \subseteq 1..Files
  /\ Acts \subseteq {"d", "l", "s"} /\ Tiers \subseteq {"free", "premium"}
  /\ ShortTTL <= LongTTL /\ TTL <= LongTTL

VARIABLES
  redis,   \* Redis is configured
  down,    \* its calls fail
  shared,  \* the entries in Redis
  own,     \* the entries of the worker's store, the least recently used first
  req,     \* the requests
  polls,   \* keys with a poll for their transcoding
  warm,    \* pre-warmers: their link and the file they are at
  filled,  \* history: what was stored under which key, for the time it counts
  strayed, \* history: the qualities that were stored under another file's
           \* index, for the longest time they count
  starts, outages

wire == <<redis, down, outages>>
stores == <<shared, own>>
tasks == <<polls, warm>>
history == <<filled, strayed>>
vars == <<wire, stores, req, tasks, history, starts>>

\* What an entry holds: an answer of /api/resolve with links signed for a tier
\* or, from a poll, without any; a raw result of resolve_link; the qualities of
\* a file.
Kinds == {"free", "premium", "bare", "raw", "qualities"}

\* make_key
Key(link, act, wait) == [link |-> link, act |-> act, wait |-> wait, index |-> 0]
Qualities(link, i) == [link |-> link, act |-> "q", wait |-> FALSE, index |-> i]

Idle == [at |-> "idle", route |-> "resolve", key |-> Key(Canon, "d", FALSE),
         tier |-> "free", fs |-> 0, index |-> 1, short |-> FALSE,
         kind |-> "none", file |-> 0, hit |-> FALSE]

Init ==
  /\ redis \in BOOLEAN /\ down = FALSE
  /\ shared = {} /\ own = <<>>
  /\ req = [r \in Requests |-> Idle]
  /\ polls = {} /\ warm = {}
  /\ filled = {} /\ strayed = {}
  /\ starts = 0 /\ outages = 0

-----------------------------------------------------------------------------
(* get and put *)

Entry(key, kind, file, ttl) ==
  [key |-> key, kind |-> kind, file |-> file, age |-> 0, ttl |-> ttl]

\* An entry still counts.
Live(e) == e.age < e.ttl

\* A store without the entry of a key.
Without(s, key) ==
  IF \E i \in DOMAIN s : s[i].key = key
  THEN RemoveAt(s, CHOOSE i \in DOMAIN s : s[i].key = key)
  ELSE s

\* Redis answers.
Up == redis /\ ~down

\* The entries that answer, at most one.
Found(key) == {e \in IF Up THEN shared ELSE {own[i] : i \in DOMAIN own} :
                 e.key = key /\ Live(e)}

\* Mutant: an entry that is read counts as new.
LookedSliding(key) ==
  own' = IF Up THEN own
         ELSE IF Found(key) = {} THEN Without(own, key)
         ELSE Append(Without(own, key), [(CHOOSE e \in Found(key) : TRUE) EXCEPT !.age = 0])

\* get, in the worker's store: a hit becomes the last, and what is out of time
\* is dropped.
Looked(key) ==
  own' = IF Up THEN own
         ELSE IF Found(key) = {} THEN Without(own, key)
         ELSE Append(Without(own, key), CHOOSE e \in Found(key) : TRUE)

\* Mutant: the old entry of the key is left in place.
StoredTwice(s, e) ==
  LET t == Append(s, e)
  IN IF Len(t) > MaxEntries THEN Tail(t) ELSE t

\* put, in the worker's store, which has a time of its own.
Stored(s, e) ==
  LET t == Append(Without(s, e.key), [e EXCEPT !.ttl = TTL])
  IN IF Len(t) > MaxEntries THEN Tail(t) ELSE t

\* The calls of Redis for new entries, each of which is done all the same or not
\* when it fails.
Share(new) ==
  \E done \in IF ~redis THEN {{}} ELSE IF down THEN SUBSET new ELSE {new} :
    shared' = {e \in shared : \A d \in done : d.key # e.key} \union done

\* put: into Redis, or when that fails into the worker's store.
Put(e) == /\ Share({e})
          /\ own' = IF Up THEN own ELSE Stored(own, e)

\* An answer is stored under one key.
Keep(key, kind) ==
  /\ Put(Entry(key, kind, 0, TTL))
  /\ filled' = filled \union {[key |-> key, kind |-> kind, age |-> 0]}

\* The qualities of a file are stored, under an index: in Redis, if it answers,
\* for the time that is given; without Redis in the worker's store.
KeepQualities(link, i, file, ttl) ==
  LET e == Entry(Qualities(link, i), "qualities", file, ttl)
  IN /\ Share({e})
     /\ own' = IF redis THEN own ELSE Stored(own, e)

-----------------------------------------------------------------------------
(* The requests *)

Become(r, m) == req' = [req EXCEPT ![r] = m]

\* A request looks into the cache, and awaits the service when that has nothing.
Ask(r, m) ==
  /\ req[r].at = "idle" /\ starts < MaxStarts
  /\ starts' = starts + 1
  /\ Looked(m.key)
  /\ Become(r, IF Found(m.key) = {} THEN [m EXCEPT !.at = "up"]
               ELSE LET e == CHOOSE e \in Found(m.key) : TRUE
                    IN [m EXCEPT !.at = "done", !.hit = TRUE, !.kind = e.kind, !.file = e.file])
  /\ UNCHANGED <<wire, shared, tasks, history>>

AskResolve(r) ==
  \E link \in Links, act \in Acts, wait \in BOOLEAN, tier \in Tiers :
    Ask(r, [Idle EXCEPT !.route = "resolve", !.key = Key(link, act, wait), !.tier = tier])

\* A download or a thumbnail, by the surl and fs_id of a link that was handed
\* out.
AskRaw(r) ==
  \E act \in Acts \intersect {"d", "l"} :
    Ask(r, [Idle EXCEPT !.route = "raw", !.key = Key(Canon, act, FALSE)])

\* A master playlist, of a file by its fs_id or none, with or without an index,
\* which is then the first one's; the links handed out have an fs_id alone.
AskManifest(r) ==
  \E link \in Links, fs \in 0..Files, i \in 1..Files :
    Ask(r, [Idle EXCEPT !.route = "manifest", !.key = Qualities(link, i),
                        !.fs = fs, !.index = i])

\* What the service says of the share: an error, or all files, some of them
\* still being transcoded.
Outcomes == {"error", "coding", "ready"}

\* The answer is formatted for the caller; what is complete is stored, and the
\* background tasks are started.
AnswerResolve(r) ==
  /\ req[r].at = "up" /\ req[r].route = "resolve"
  /\ \E outcome \in Outcomes :
       LET key == req[r].key
       IN /\ Become(r, [req[r] EXCEPT !.at = "done",
                          !.kind = IF outcome = "error" THEN "none" ELSE req[r].tier])
          /\ polls' = IF outcome = "coding" /\ ~key.wait THEN polls \union {key} ELSE polls
          /\ warm' = IF outcome = "ready" /\ key.act = "s"
                     THEN warm \union {[link |-> key.link, i |-> 1, at |-> "look"]} ELSE warm
          /\ IF outcome = "ready" THEN Keep(key, req[r].tier) ELSE UNCHANGED <<stores, filled>>
  /\ UNCHANGED <<wire, strayed, starts>>

\* The raw result is used; what is complete is stored as it is.  (A listing for
\* a thumbnail is of action "l", which knows of no transcoding.)
AnswerRaw(r) ==
  /\ req[r].at = "up" /\ req[r].route = "raw"
  /\ \E outcome \in Outcomes :
       /\ Become(r, [req[r] EXCEPT !.at = "done",
                       !.kind = IF outcome = "error" THEN "none" ELSE "raw"])
       /\ IF outcome = "ready" THEN Keep(req[r].key, "raw") ELSE UNCHANGED <<stores, filled>>
  /\ UNCHANGED <<wire, tasks, strayed, starts>>

\* _pick_file: the file of that fs_id, else the one at the index.
Pick(m) == IF m.fs # 0 THEN m.fs ELSE m.index

\* The share is resolved for a manifest: its file is picked and probed, unless
\* it is no video or nothing is ready.
PickFile(r) ==
  /\ req[r].at = "up" /\ req[r].route = "manifest"
  /\ \/ Become(r, [req[r] EXCEPT !.at = "done"])
     \/ /\ Pick(req[r]) \in Videos
        /\ \E short \in BOOLEAN :
             Become(r, [req[r] EXCEPT !.at = "probe", !.short = short])
  /\ UNCHANGED <<wire, stores, tasks, history, starts>>

\* Mutant: the qualities are stored under the default index.
SaveFirst(m) == KeepQualities(m.key.link, 1, Pick(m), IF m.short THEN ShortTTL ELSE LongTTL)

\* _save_qualities_to_cache
Save(m) == KeepQualities(m.key.link, m.index, Pick(m), IF m.short THEN ShortTTL ELSE LongTTL)

\* What a manifest by fs_id leaves under the index of another file.
Strays(m) ==
  IF Pick(m) = m.index THEN {}
  ELSE {[key |-> Qualities(m.key.link, m.index), file |-> Pick(m), age |-> 0]}

\* The qualities have been probed; when some are ready they are stored.
AnswerManifest(r) ==
  /\ req[r].at = "probe"
  /\ \/ /\ Become(r, [req[r] EXCEPT !.at = "done"])
        /\ UNCHANGED <<stores, strayed>>
     \/ /\ Become(r, [req[r] EXCEPT !.at = "done", !.kind = "qualities", !.file = Pick(req[r])])
        /\ Save(req[r])
        /\ strayed' = strayed \union Strays(req[r])
  /\ UNCHANGED <<wire, tasks, filled, starts>>

Return(r) ==
  /\ req[r].at = "done"
  /\ Become(r, Idle)
  /\ UNCHANGED <<wire, stores, tasks, history, starts>>

-----------------------------------------------------------------------------
(* The background tasks and time *)

\* _background_transcode_poll: once all is transcoded the answer is stored for
\* callers that wait and for those that do not.
PollEnds(key) ==
  /\ polls' = polls \ {key}
  /\ LET waiting == [key EXCEPT !.wait = TRUE]
     IN \/ UNCHANGED <<stores, filled>>
        \/ /\ LET e == Entry(key, "bare", 0, TTL)
                  f == Entry(waiting, "bare", 0, TTL)
              IN Share({e, f}) /\ own' = IF Up THEN own ELSE Stored(Stored(own, e), f)
           /\ filled' = filled \union {[key |-> k, kind |-> "bare", age |-> 0] : k \in {key, waiting}}
  /\ UNCHANGED <<wire, req, warm, strayed, starts>>

Advance(t) ==
  warm' = (warm \ {t}) \union (IF t.i < Files THEN {[t EXCEPT !.i = @ + 1, !.at = "look"]} ELSE {})

\* _prewarm_quality_cache at a file: only a video without an entry is probed.
WarmLook(t) ==
  /\ t.at = "look"
  /\ IF t.i \notin Videos THEN Advance(t) /\ UNCHANGED stores
     ELSE /\ Looked(Qualities(t.link, t.i)) /\ UNCHANGED shared
          /\ IF Found(Qualities(t.link, t.i)) # {} THEN Advance(t)
             ELSE warm' = (warm \ {t}) \union {[t EXCEPT !.at = "probe"]}
  /\ UNCHANGED <<wire, req, polls, history, starts>>

\* It has been probed; what is ready is stored.
WarmProbed(t) ==
  /\ t.at = "probe"
  /\ \/ UNCHANGED stores
     \/ KeepQualities(t.link, t.i, t.i, LongTTL)
  /\ Advance(t)
  /\ UNCHANGED <<wire, req, polls, history, starts>>

\* Calls of Redis fail from here on, if only one of them, until they do not.
Outage ==
  /\ Up /\ outages < MaxOutages
  /\ down' = TRUE
  /\ outages' = outages + 1
  /\ UNCHANGED <<redis, stores, req, tasks, history, starts>>

Recover ==
  /\ down
  /\ down' = FALSE
  /\ UNCHANGED <<redis, outages, stores, req, tasks, history, starts>>

Older(e) == IF Live(e) THEN [e EXCEPT !.age = @ + 1] ELSE e

\* The history one step of time later.
Past(marks, time) == {[x EXCEPT !.age = @ + 1] : x \in {y \in marks : y.age + 1 < time}}

\* Time goes on; Redis drops what is out of time.
Tick ==
  /\ shared' = {e \in {Older(x) : x \in shared} : Live(e)}
  /\ own' = [i \in DOMAIN own |-> Older(own[i])]
  /\ filled' = Past(filled, TTL)
  /\ strayed' = Past(strayed, LongTTL)
  /\ UNCHANGED <<wire, req, tasks, starts>>

-----------------------------------------------------------------------------

\* An answer is looked at before anything else happens.
Next ==
  \/ \E r \in Requests : Return(r)
  \/ /\ \A r \in Requests : req[r].at # "done"
     /\ \/ \E r \in Requests :
             \/ AskResolve(r) \/ AskRaw(r) \/ AskManifest(r)
             \/ AnswerResolve(r) \/ AnswerRaw(r) \/ PickFile(r) \/ AnswerManifest(r)
        \/ \E key \in polls : PollEnds(key)
        \/ \E t \in warm : WarmLook(t) \/ WarmProbed(t)
        \/ Outage \/ Recover \/ Tick

Spec == Init /\ [][Next]_vars

-----------------------------------------------------------------------------
(* Properties *)

\* The state is well formed: either tier holds one entry of a key, Redis none
\* that is out of time, a worker's own store keeps within its limit, and only
\* manifests' keys hold qualities.
EntryOK(e) ==
  /\ e.kind \in Kinds /\ e.age \in 0..e.ttl
  /\ e.kind = "qualities" <=> e.key.act = "q"

TypeOK ==
  /\ redis \in BOOLEAN /\ down \in BOOLEAN
  /\ \A e \in shared : EntryOK(e) /\ Live(e) /\ redis
  /\ \A e, f \in shared : e.key = f.key => e = f
  /\ Len(own) <= MaxEntries
  /\ \A i \in DOMAIN own :
       EntryOK(own[i]) /\ \A j \in DOMAIN own : own[i].key = own[j].key => i = j
  /\ \A r \in Requests : req[r].at \in {"idle", "up", "probe", "done"}

\* The kinds of answer that a request can deal with.
Proper(m) == CASE m.route = "resolve"  -> {m.tier}
               [] m.route = "raw"      -> {"raw"}
               [] m.route = "manifest" -> {"qualities"}

\* A caller is given something it cannot use or should not have, a download the
\* answer of /api/resolve (which it takes for an error), a caller of /api/resolve
\* a raw result, links without the proxy or links signed for another tier, only
\* if such an answer was stored for the same link, action and wait less than the
\* cache's time ago: it never lasts longer, and no other call brings it about.
ForeignExplained ==
  \A r \in Requests :
    LET m == req[r]
    IN m.at = "done" /\ m.hit /\ m.kind \notin Proper(m) =>
         \E x \in filled : x.key = m.key /\ x.kind = m.kind

\* A manifest is of another file than was asked for only from the cache: either
\* it was asked for by fs_id under another index and is of the file at that
\* index, or a manifest by fs_id of the very file that is given left it under
\* this link and index within the longest time that qualities count.  So no
\* caller without an fs_id, pre-warmer, lifetime or failure of Redis mixes
\* files up, and what was mixed up does not last.
ManifestExplained ==
  \A r \in Requests :
    LET m == req[r]
    IN m.kind = "qualities" /\ m.file # Pick(m) =>
         /\ m.hit
         /\ m.file = m.index \/ \E x \in strayed : x.key = m.key /\ x.file = m.file

\* What the documentation says of fs_id: a manifest that is asked for by it is of
\* that file.
FileTargeted ==
  \A r \in Requests :
    LET m == req[r]
    IN m.kind = "qualities" /\ m.fs # 0 => m.file = m.fs
=============================================================================
