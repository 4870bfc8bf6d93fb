-------------------------- MODULE LinkCacheProofs --------------------------
(***************************************************************************)
(* What callers find in the response cache, for any number of links, files *)
(* and requests, any lifetimes and any failures of Redis: an entry that is *)
(* of no use to the one who finds it was stored for its very key within    *)
(* its time, and so was the manifest of a file that was not asked for.     *)
(***************************************************************************)
EXTENDS LinkCache, SequenceTheorems, TLAPS

-----------------------------------------------------------------------------
(* The inductive invariant *)

AllKeys == [link : Links, act : {"d", "l", "s", "q"}, wait : BOOLEAN, index : 0..Files]
Entries == [key : AllKeys, kind : Kinds, file : 0..Files, age : Nat, ttl : Nat]
Marks == [key : AllKeys, kind : Kinds, age : Nat]
Calls == [at : {"idle", "up", "probe", "done"}, route : {"resolve", "raw", "manifest"},
          key : AllKeys, tier : {"free", "premium"}, fs : 0..Files, index : 1..Files,
          short : BOOLEAN, kind : Kinds \cup {"none"}, file : 0..Files, hit : BOOLEAN]

Mark(key, kind, age) == [key |-> key, kind |-> kind, age |-> age]

\* An answer that still counts has been stored for its key, within its time.
Backed(e) ==
  e.kind # "qualities" =>
    /\ e.ttl = TTL
    /\ Live(e) => Mark(e.key, e.kind, e.age) \in filled

Stray(key, file, age) == [key |-> key, file |-> file, age |-> age]

\* Qualities that still count are those of the file at their index, or were left
\* there by a manifest for another.
Aimed(e) ==
  e.kind = "qualities" =>
    /\ e.ttl <= LongTTL
    /\ Live(e) => e.file = e.key.index \/ Stray(e.key, e.file, e.age) \in strayed

\* The entries there may be.
Fine == {e \in Entries : EntryOK(e) /\ Backed(e) /\ Aimed(e)}

Unique(s) == \A i, j \in DOMAIN s : s[i].key = s[j].key => i = j
Distinct(c) == \A e, f \in c : e.key = f.key => e = f

SharedLive ==
  /\ shared \subseteq Fine
  /\ \A e \in shared : Live(e) /\ redis
  /\ Distinct(shared)

OwnLive == own \in Seq(Fine) /\ Unique(own) /\ Len(own) <= MaxEntries

\* What a request asks for and what it was given, when F is what was stored and
\* K the qualities under the index of another file.
CallOK(m, F, K) ==
  /\ m.route = "manifest" =>
       m.key.act = "q" /\ m.key.index = m.index /\ m.kind \in {"qualities", "none"}
  /\ m.route # "manifest" => m.key.act # "q" /\ m.kind # "qualities"
  /\ m.at # "done" => ~m.hit /\ m.kind = "none"
  /\ m.at = "probe" => m.route = "manifest"
  /\ m.hit /\ m.kind # "qualities" => \E x \in F : x.key = m.key /\ x.kind = m.kind
  /\ m.kind = "qualities" /\ m.file # Pick(m) =>
       m.hit /\ (m.file = m.index \/ \E x \in K : x.key = m.key /\ x.file = m.file)

CallsLive ==
  /\ req \in [Requests -> Calls]
  /\ \A r \in Requests : CallOK(req[r], filled, strayed)

TasksLive ==
  /\ polls \subseteq {k \in AllKeys : k.act # "q"}
  /\ warm \subseteq [link : Links, i : 1..Files, at : {"look", "probe"}]

IInv ==
  /\ redis \in BOOLEAN /\ down \in BOOLEAN
  /\ filled \subseteq Marks
  /\ SharedLive /\ OwnLive /\ CallsLive /\ TasksLive

-----------------------------------------------------------------------------
(* The stores *)

\* A sequence without one of its places.
LEMMA RemoveAtIs ==
  ASSUME NEW S, NEW s \in Seq(S), NEW i \in 1..Len(s)
  PROVE  /\ RemoveAt(s, i) \in Seq(S)
         /\ Len(RemoveAt(s, i)) = Len(s) - 1
         /\ \A j \in 1..(Len(s) - 1) : RemoveAt(s, i)[j] = IF j < i THEN s[j] ELSE s[j + 1]
<1> DEFINE a == SubSeq(s, 1, i - 1)
           b == SubSeq(s, i + 1, Len(s))
<1>0. Len(s) \in Nat /\ i \in Nat /\ i >= 1 /\ i <= Len(s)  BY LenProperties
<1>1. \A j \in 1..Len(s) : s[j] \in S  BY ElementOfSeq
<1>2. /\ a \in Seq(S) /\ Len(a) = i - 1
      /\ \A j \in 1..(i - 1) : a[j] = s[j]
  <2>1. \A j \in 1..(i - 1) : s[j] \in S  BY <1>0, <1>1
  <2>2. /\ a \in Seq(S)
        /\ Len(a) = IF 1 <= i - 1 THEN (i - 1) - 1 + 1 ELSE 0
        /\ \A j \in 1..((i - 1) - 1 + 1) : a[j] = s[1 + j - 1]
    BY <1>0, <2>1, SubSeqProperties
  <2> QED  BY <1>0, <2>2
<1>3. /\ b \in Seq(S) /\ Len(b) = Len(s) - i
      /\ \A j \in 1..(Len(s) - i) : b[j] = s[i + j]
  <2>1. \A j \in (i + 1)..Len(s) : s[j] \in S  BY <1>0, <1>1
  <2>2. /\ b \in Seq(S)
        /\ Len(b) = IF i + 1 <= Len(s) THEN Len(s) - (i + 1) + 1 ELSE 0
        /\ \A j \in 1..(Len(s) - (i + 1) + 1) : b[j] = s[(i + 1) + j - 1]
    BY <1>0, <2>1, SubSeqProperties
  <2> QED  BY <1>0, <2>2
<1>4. /\ a \o b \in Seq(S) /\ Len(a \o b) = Len(a) + Len(b)
      /\ \A j \in 1..(Len(a) + Len(b)) :
           (a \o b)[j] = IF j <= Len(a) THEN a[j] ELSE b[j - Len(a)]
  BY <1>2, <1>3, ConcatProperties
<1>5. RemoveAt(s, i) = a \o b  BY DEF RemoveAt
<1> HIDE DEF a, b
<1>6. ASSUME NEW j \in 1..(Len(s) - 1)
      PROVE  (a \o b)[j] = IF j < i THEN s[j] ELSE s[j + 1]
  <2>1. CASE j < i
    BY <1>0, <1>2, <1>3, <1>4, <2>1
  <2>2. CASE ~(j < i)
    <3>1. (a \o b)[j] = b[j - (i - 1)]  BY <1>0, <1>2, <1>3, <1>4, <2>2
    <3>2. j - (i - 1) \in 1..(Len(s) - i)  BY <1>0, <2>2
    <3>3. i + (j - (i - 1)) = j + 1  BY <1>0
    <3> QED  BY <1>3, <2>2, <3>1, <3>2, <3>3
  <2> QED  BY <2>1, <2>2
<1>7. Len(a \o b) = Len(s) - 1  BY <1>0, <1>2, <1>3, <1>4
<1> QED  BY <1>4, <1>5, <1>6, <1>7

\* A store without a key is shorter by its entry, if it has one.
LEMMA WithoutIs ==
  ASSUME NEW S, NEW s \in Seq(S), Unique(s), NEW key
  PROVE  /\ Without(s, key) \in Seq(S)
         /\ Unique(Without(s, key))
         /\ \A i \in DOMAIN Without(s, key) : Without(s, key)[i].key # key
         /\ Len(Without(s, key)) <= Len(s)
         /\ (\E i \in DOMAIN s : s[i].key = key) => Len(Without(s, key)) = Len(s) - 1
<1>0. Len(s) \in Nat /\ DOMAIN s = 1..Len(s)  BY LenProperties
<1>1. CASE \E i \in DOMAIN s : s[i].key = key
  <2> DEFINE i == CHOOSE i \in DOMAIN s : s[i].key = key
             t == RemoveAt(s, i)
  <2>1. i \in 1..Len(s) /\ s[i].key = key  BY <1>0, <1>1
  <2> HIDE DEF i
  <2>2. /\ t \in Seq(S) /\ Len(t) = Len(s) - 1
        /\ \A j \in 1..(Len(s) - 1) : t[j] = IF j < i THEN s[j] ELSE s[j + 1]
    BY <2>1, RemoveAtIs
  <2>3. DOMAIN t = 1..(Len(s) - 1)  BY <2>2, LenProperties
  <2>4. Without(s, key) = t  BY <1>1 DEF Without, i
  <2> HIDE DEF t
  <2>5. \A j \in DOMAIN t : t[j].key # key
    <3> SUFFICES ASSUME NEW j \in 1..(Len(s) - 1)  PROVE t[j].key # key
      BY <2>3
    <3>1. PICK n \in 1..Len(s) : t[j] = s[n] /\ n # i
      <4>1. CASE j < i  BY <1>0, <2>1, <2>2, <4>1
      <4>2. CASE ~(j < i)
        <5>1. j + 1 \in 1..Len(s) /\ j + 1 # i  BY <1>0, <2>1, <4>2
        <5> QED  BY <2>2, <4>2, <5>1
      <4> QED  BY <4>1, <4>2
    <3> QED  BY <1>0, <2>1, <3>1 DEF Unique
  <2>6. Unique(t)
    <3> SUFFICES ASSUME NEW j \in 1..(Len(s) - 1), NEW k \in 1..(Len(s) - 1),
                        t[j].key = t[k].key
                 PROVE  j = k
      BY <2>3 DEF Unique
    <3> DEFINE J == IF j < i THEN j ELSE j + 1
               K == IF k < i THEN k ELSE k + 1
    <3>1. J \in 1..Len(s) /\ K \in 1..Len(s)  BY <1>0, <2>1
    <3>2. t[j] = s[J] /\ t[k] = s[K]  BY <2>2
    <3>3. J = K  BY <1>0, <3>1, <3>2 DEF Unique
    <3> QED  BY <1>0, <2>1, <3>3
  <2>7. Len(t) <= Len(s)  BY <1>0, <2>2
  <2> QED  BY <2>2, <2>4, <2>5, <2>6, <2>7
<1>2. CASE ~(\E i \in DOMAIN s : s[i].key = key)
  <2>1. Without(s, key) = s  BY <1>2 DEF Without
  <2>2. Len(s) <= Len(s)  BY <1>0
  <2> QED  BY <1>2, <2>1, <2>2
<1> QED  BY <1>1, <1>2

\* A new entry goes to the end.
LEMMA AppendIs ==
  ASSUME NEW S, NEW s \in Seq(S), Unique(s), NEW e \in S,
         \A i \in DOMAIN s : s[i].key # e.key
  PROVE  /\ Append(s, e) \in Seq(S) /\ Unique(Append(s, e))
         /\ Len(Append(s, e)) = Len(s) + 1
<1>1. /\ Append(s, e) \in Seq(S) /\ Len(Append(s, e)) = Len(s) + 1
      /\ \A i \in 1..Len(s) : Append(s, e)[i] = s[i]
      /\ Append(s, e)[Len(s) + 1] = e
  BY AppendProperties
<1>2. Len(s) \in Nat /\ DOMAIN s = 1..Len(s) /\ DOMAIN Append(s, e) = 1..(Len(s) + 1)
  BY <1>1, LenProperties
<1>3. ASSUME NEW i \in 1..(Len(s) + 1), NEW j \in 1..(Len(s) + 1),
             Append(s, e)[i].key = Append(s, e)[j].key
      PROVE  i = j
  <2>1. CASE i <= Len(s) /\ j <= Len(s)  BY <1>1, <1>2, <1>3, <2>1 DEF Unique
  <2>2. CASE i = Len(s) + 1 /\ j <= Len(s)  BY <1>1, <1>2, <1>3, <2>2
  <2>3. CASE j = Len(s) + 1 /\ i <= Len(s)  BY <1>1, <1>2, <1>3, <2>3
  <2>4. CASE i = Len(s) + 1 /\ j = Len(s) + 1  BY <2>4
  <2> QED  BY <1>2, <2>1, <2>2, <2>3, <2>4
<1> QED  BY <1>1, <1>2, <1>3 DEF Unique

\* The first one goes.
LEMMA TailIs ==
  ASSUME NEW S, NEW s \in Seq(S), Unique(s), s # <<>>
  PROVE  Tail(s) \in Seq(S) /\ Unique(Tail(s)) /\ Len(Tail(s)) = Len(s) - 1
<1>1. /\ Tail(s) \in Seq(S) /\ Len(Tail(s)) = Len(s) - 1
      /\ \A i \in 1..Len(Tail(s)) : Tail(s)[i] = s[i + 1]
  BY HeadTailProperties
<1>2. /\ Len(s) \in Nat /\ DOMAIN s = 1..Len(s) /\ DOMAIN Tail(s) = 1..Len(Tail(s))
  BY <1>1, LenProperties
<1> QED  BY <1>1, <1>2 DEF Unique

\* put keeps the worker's store in order and within its limit.
LEMMA StoredIs ==
  ASSUME NEW S, NEW s \in Seq(S), Unique(s), Len(s) <= MaxEntries,
         NEW e \in Entries, [e EXCEPT !.ttl = TTL] \in S
  PROVE  Stored(s, e) \in Seq(S) /\ Unique(Stored(s, e)) /\ Len(Stored(s, e)) <= MaxEntries
<1> DEFINE f == [e EXCEPT !.ttl = TTL]
           u == Without(s, e.key)
           t == Append(u, f)
<1>1. f.key = e.key  BY DEF Entries
<1>2. u \in Seq(S) /\ Unique(u) /\ Len(u) <= Len(s) /\ \A i \in DOMAIN u : u[i].key # e.key
  BY WithoutIs
<1>3. Stored(s, e) = IF Len(t) > MaxEntries THEN Tail(t) ELSE t  BY DEF Stored
<1> HIDE DEF f, u
<1>4. f \in S  BY DEF f
<1>5. t \in Seq(S) /\ Unique(t) /\ Len(t) = Len(u) + 1
  BY <1>1, <1>2, <1>4, AppendIs
<1>6. Len(s) \in Nat /\ Len(u) \in Nat /\ MaxEntries \in Nat
  BY <1>2, LenProperties, LinkAssumption
<1> HIDE DEF t
<1>7. CASE Len(t) > MaxEntries
  <2>1. t # <<>>  BY <1>5, <1>6, <1>7, EmptySeq
  <2>2. Tail(t) \in Seq(S) /\ Unique(Tail(t)) /\ Len(Tail(t)) = Len(t) - 1
    BY <1>5, <2>1, TailIs
  <2> QED  BY <1>2, <1>3, <1>5, <1>6, <1>7, <2>2
<1>8. CASE ~(Len(t) > MaxEntries)
  BY <1>3, <1>5, <1>6, <1>8
<1> QED  BY <1>7, <1>8

-----------------------------------------------------------------------------
(* Steps on the cache *)

\* The history grows.
Grows == filled \subseteq filled' /\ strayed \subseteq strayed'

LEMMA FineGrows ==
  ASSUME Grows
  PROVE  Fine \subseteq Fine'
BY DEF Grows, Fine, Backed, Aimed, Live

\* What Redis is told, done or not, leaves it in order.
LEMMA ShareIs ==
  ASSUME NEW S, shared \subseteq S, SharedLive, redis \in BOOLEAN,
         NEW new, new \subseteq S, Distinct(new), \A e \in new : Live(e), Share(new)
  PROVE  /\ shared' \subseteq S /\ Distinct(shared')
         /\ \A e \in shared' : Live(e) /\ redis
<1>1. PICK done \in SUBSET new :
        /\ shared' = {e \in shared : \A d \in done : d.key # e.key} \union done
        /\ ~redis => done = {}
  BY DEF Share
<1>2. shared' \subseteq S  BY <1>1
<1>3. Distinct(shared')  BY <1>1 DEF Distinct, SharedLive
<1>4. \A e \in shared' : Live(e) /\ redis  BY <1>1 DEF SharedLive
<1> QED  BY <1>2, <1>3, <1>4

\* A step that tells Redis of entries keeps its part of the invariant.
LEMMA ShareStep ==
  ASSUME IInv, Grows, redis' = redis,
         NEW new, new \subseteq Fine', Distinct(new), \A e \in new : Live(e), Share(new)
  PROVE  SharedLive'
<1>1. shared \subseteq Fine'  BY FineGrows DEF IInv, SharedLive
<1>2. /\ shared' \subseteq Fine' /\ Distinct(shared')
      /\ \A e \in shared' : Live(e) /\ redis
  BY <1>1, ShareIs DEF IInv
<1> QED  BY <1>2 DEF SharedLive, Distinct, Live

LEMMA SharedKept ==
  ASSUME IInv, Grows, UNCHANGED <<redis, shared>>
  PROVE  SharedLive'
BY FineGrows DEF IInv, SharedLive, Distinct, Live

\* The worker's store when nothing is put there.
LEMMA OwnFine ==
  ASSUME IInv, Grows
  PROVE  own \in Seq(Fine') /\ Unique(own) /\ Len(own) <= MaxEntries
BY FineGrows, SeqMonotonic DEF IInv, OwnLive

LEMMA OwnKept ==
  ASSUME IInv, Grows, UNCHANGED own
  PROVE  OwnLive'
BY OwnFine DEF OwnLive, Unique

LEMMA OwnPut ==
  ASSUME IInv, Grows, NEW e \in Entries, [e EXCEPT !.ttl = TTL] \in Fine',
         own' = Stored(own, e)
  PROVE  OwnLive'
<1>1. own \in Seq(Fine') /\ Unique(own) /\ Len(own) <= MaxEntries  BY OwnFine
<1>2. own' \in Seq(Fine') /\ Unique(own') /\ Len(own') <= MaxEntries
  BY <1>1, StoredIs
<1> QED  BY <1>2 DEF OwnLive, Unique

\* An entry that is found counts and is of the key that was asked for.
LEMMA FoundIs ==
  ASSUME IInv, NEW key, NEW e \in Found(key)
  PROVE  /\ e \in Fine /\ e.key = key /\ Live(e)
         /\ ~Up => \E i \in DOMAIN own : own[i] = e
<1>1. Len(own) \in Nat /\ DOMAIN own = 1..Len(own) /\ \A i \in 1..Len(own) : own[i] \in Fine
  BY LenProperties, ElementOfSeq DEF IInv, OwnLive
<1> QED  BY <1>1 DEF Found, IInv, SharedLive

\* get keeps the worker's store in order and within its limit.
LEMMA LookedIs ==
  ASSUME IInv, Grows, NEW key, Looked(key)
  PROVE  OwnLive'
<1>1. own \in Seq(Fine') /\ Unique(own) /\ Len(own) <= MaxEntries  BY OwnFine
<1>2. CASE Up
  <2>1. own' = own  BY <1>2 DEF Looked
  <2> QED  BY <2>1, OwnKept
<1> DEFINE u == Without(own, key)
<1>3. /\ u \in Seq(Fine') /\ Unique(u) /\ Len(u) <= Len(own)
      /\ \A i \in DOMAIN u : u[i].key # key
      /\ (\E i \in DOMAIN own : own[i].key = key) => Len(u) = Len(own) - 1
  BY <1>1, WithoutIs
<1>4. Len(own) \in Nat /\ Len(u) \in Nat /\ MaxEntries \in Nat
  BY <1>1, <1>3, LenProperties, LinkAssumption
<1>5. CASE ~Up /\ Found(key) = {}
  <2>1. own' = u  BY <1>5 DEF Looked
  <2> HIDE DEF u
  <2>2. own' \in Seq(Fine') /\ Unique(own') /\ Len(own') <= MaxEntries
    BY <1>1, <1>3, <1>4, <2>1
  <2> QED  BY <2>2 DEF OwnLive, Unique
<1>6. CASE ~Up /\ Found(key) # {}
  <2> DEFINE e == CHOOSE e \in Found(key) : TRUE
  <2>1. e \in Found(key)  BY <1>6
  <2>2. own' = Append(u, e)  BY <1>6 DEF Looked
  <2> HIDE DEF e, u
  <2>3. e \in Fine' /\ e.key = key /\ \E i \in DOMAIN own : own[i] = e
    BY <1>6, <2>1, FoundIs, FineGrows
  <2>4. Append(u, e) \in Seq(Fine') /\ Unique(Append(u, e)) /\ Len(Append(u, e)) = Len(u) + 1
    BY <1>3, <2>3, AppendIs
  <2>5. Len(u) = Len(own) - 1  BY <1>3, <2>3
  <2>6. Len(own') <= MaxEntries  BY <1>1, <1>4, <2>2, <2>4, <2>5
  <2>7. own' \in Seq(Fine') /\ Unique(own')  BY <2>2, <2>4
  <2> QED  BY <2>6, <2>7 DEF OwnLive, Unique
<1> QED  BY <1>2, <1>5, <1>6

\* An entry that is new, for an answer that is counted or for qualities.
LEMMA AnswerFine ==
  ASSUME NEW key \in AllKeys, key.act # "q", NEW kind \in Kinds \ {"qualities"},
         NEW e, e = Entry(key, kind, 0, TTL), Mark(key, kind, 0) \in filled'
  PROVE  e \in Entries /\ e \in Fine' /\ [e EXCEPT !.ttl = TTL] \in Fine' /\ Live(e) /\ e.key = key
<1>1. /\ e \in Entries /\ e.key = key /\ e.kind = kind /\ e.age = 0 /\ e.ttl = TTL
      /\ [e EXCEPT !.ttl = TTL] = e
  BY LinkAssumption DEF Entry, Entries
<1>2. EntryOK(e) /\ Live(e)  BY <1>1, LinkAssumption DEF EntryOK, Live
<1> QED  BY <1>1, <1>2 DEF Fine, Backed, Aimed

LEMMA QualitiesFine ==
  ASSUME NEW link \in Links, NEW i \in 1..Files, NEW file \in 0..Files,
         NEW ttl \in Nat \ {0}, ttl <= LongTTL,
         file = i \/ Stray(Qualities(link, i), file, 0) \in strayed',
         NEW e, e = Entry(Qualities(link, i), "qualities", file, ttl)
  PROVE  e \in Entries /\ e \in Fine' /\ [e EXCEPT !.ttl = TTL] \in Fine' /\ Live(e)
<1> DEFINE f == [e EXCEPT !.ttl = TTL]
<1>1. Qualities(link, i) \in AllKeys /\ Qualities(link, i).act = "q" /\ Qualities(link, i).index = i
  BY LinkAssumption DEF Qualities, AllKeys
<1>2. /\ e \in Entries /\ e.key = Qualities(link, i) /\ e.kind = "qualities" /\ e.age = 0
      /\ e.ttl = ttl /\ e.file = file
  BY <1>1 DEF Entry, Entries, Kinds
<1>3. /\ f \in Entries /\ f.key = Qualities(link, i) /\ f.kind = "qualities" /\ f.age = 0
      /\ f.ttl = TTL /\ f.file = file
  BY <1>2, LinkAssumption DEF Entries
<1> HIDE DEF f
<1>4. EntryOK(e) /\ Live(e) /\ EntryOK(f)
  BY <1>1, <1>2, <1>3, LinkAssumption DEF EntryOK, Live, Kinds
<1>5. e \in Fine' /\ f \in Fine'
  BY <1>1, <1>2, <1>3, <1>4, LinkAssumption DEF Fine, Backed, Aimed
<1> QED  BY <1>2, <1>4, <1>5 DEF f

-----------------------------------------------------------------------------
(* Steps of the requests *)

LEMMA IdleIs == Idle \in Calls /\ \A F, K : CallOK(Idle, F, K)
BY LinkAssumption DEF Idle, Calls, AllKeys, Key, Kinds, CallOK

\* What holds of a request stays when the history grows.
LEMMA CallGrows ==
  ASSUME Grows, NEW m, CallOK(m, filled, strayed)
  PROVE  CallOK(m, filled', strayed')
BY DEF Grows, CallOK

\* A step of one request.
LEMMA CallStep ==
  ASSUME IInv, Grows, NEW r \in Requests, NEW m \in Calls, CallOK(m, filled', strayed'),
         Become(r, m)
  PROVE  CallsLive'
<1>1. req' = [req EXCEPT ![r] = m]  BY DEF Become
<1>2. req \in [Requests -> Calls] /\ \A q \in Requests : CallOK(req[q], filled, strayed)
  BY DEF IInv, CallsLive
<1>3. req' \in [Requests -> Calls]  BY <1>1, <1>2
<1>4. ASSUME NEW q \in Requests  PROVE CallOK(req'[q], filled', strayed')
  <2>1. CASE q = r
    <3>1. req'[q] = m  BY <1>1, <1>2, <2>1
    <3> QED  BY <3>1
  <2>2. CASE q # r
    <3>1. req'[q] = req[q]  BY <1>1, <1>2, <2>2
    <3> QED  BY <1>2, <3>1, CallGrows
  <2> QED  BY <2>1, <2>2
<1> QED  BY <1>3, <1>4 DEF CallsLive

LEMMA CallsKept ==
  ASSUME IInv, Grows, UNCHANGED req
  PROVE  CallsLive'
BY CallGrows DEF IInv, CallsLive

\* A request that looks into the cache.
LEMMA AskStep ==
  ASSUME IInv, NEW r \in Requests, NEW m \in Calls, Ask(r, m),
         m.at = "idle", ~m.hit, m.kind = "none",
         m.route = "manifest" =>
           m.key.act = "q" /\ m.key.index = m.index,
         m.route # "manifest" => m.key.act # "q"
  PROVE  IInv'
<1>1. Grows  BY DEF Ask, Grows, history
<1>2. OwnLive'  BY <1>1, LookedIs DEF Ask
<1>3. SharedLive'  BY <1>1, SharedKept DEF Ask, wire
<1>4. CallsLive'
  <2>1. CASE Found(m.key) = {}
    <3> DEFINE n == [m EXCEPT !.at = "up"]
    <3>1. Become(r, n)  BY <2>1 DEF Ask
    <3>2. n \in Calls  BY DEF Calls
    <3>3. /\ n.at = "up" /\ n.route = m.route /\ n.key = m.key /\ n.index = m.index
          /\ n.hit = m.hit /\ n.kind = m.kind /\ n.fs = m.fs
      BY DEF Calls
    <3> HIDE DEF n
    <3>4. CallOK(n, filled', strayed')  BY <3>3 DEF CallOK, Pick
    <3> QED  BY <1>1, <3>1, <3>2, <3>4, CallStep
  <2>2. CASE Found(m.key) # {}
    <3> DEFINE e == CHOOSE e \in Found(m.key) : TRUE
               n == [m EXCEPT !.at = "done", !.hit = TRUE, !.kind = e.kind, !.file = e.file]
    <3>1. Become(r, n)  BY <2>2 DEF Ask
    <3>2. e \in Found(m.key)  BY <2>2
    <3> HIDE DEF e
    <3>3. e \in Fine /\ e.key = m.key /\ Live(e)  BY <3>2, FoundIs
    <3>4. /\ e.kind \in Kinds /\ e.file \in 0..Files
          /\ e.kind = "qualities" <=> m.key.act = "q"
          /\ e.kind # "qualities" => Mark(m.key, e.kind, e.age) \in filled
          /\ e.kind = "qualities" =>
               e.file = m.key.index \/ Stray(m.key, e.file, e.age) \in strayed
      BY <3>3 DEF Fine, Entries, EntryOK, Backed, Aimed
    <3>5. n \in Calls  BY <3>4 DEF Calls
    <3>6. /\ n.at = "done" /\ n.route = m.route /\ n.key = m.key /\ n.index = m.index
          /\ n.kind = e.kind /\ n.fs = m.fs /\ n.file = e.file
      BY DEF Calls
    <3> HIDE DEF n
    <3>7. e.kind # "qualities" => \E x \in filled' : x.key = m.key /\ x.kind = e.kind
      BY <1>1, <3>4 DEF Grows, Mark
    <3>8. e.kind # "none"  BY <3>4 DEF Kinds
    <3>9. e.kind = "qualities" =>
            e.file = m.key.index \/ \E x \in strayed' : x.key = m.key /\ x.file = e.file
      BY <1>1, <3>4 DEF Grows, Stray
    <3>10. n.hit  BY DEF n, Calls
    <3>11. CallOK(n, filled', strayed')
      BY <3>4, <3>6, <3>7, <3>8, <3>9, <3>10 DEF CallOK, Pick
    <3> QED  BY <1>1, <3>1, <3>5, <3>11, CallStep
  <2> QED  BY <2>1, <2>2
<1> QED  BY <1>2, <1>3, <1>4 DEF IInv, Ask, wire, tasks, history, TasksLive

LEMMA AskResolveStep ==
  ASSUME IInv, NEW r \in Requests, AskResolve(r)  PROVE IInv'
<1>1. PICK link \in Links, act \in Acts, wait \in BOOLEAN, tier \in Tiers :
        Ask(r, [Idle EXCEPT !.route = "resolve", !.key = Key(link, act, wait), !.tier = tier])
  BY DEF AskResolve
<1> DEFINE m == [Idle EXCEPT !.route = "resolve", !.key = Key(link, act, wait), !.tier = tier]
<1>2. act \in {"d", "l", "s"} /\ tier \in {"free", "premium"}  BY LinkAssumption
<1>3. m \in Calls
  <2>1. Key(link, act, wait) \in AllKeys  BY <1>2, LinkAssumption DEF AllKeys, Key
  <2> QED  BY <1>2, <2>1, IdleIs DEF Calls
<1>4. /\ m.at = "idle" /\ ~m.hit /\ m.kind = "none" /\ m.route = "resolve"
      /\ m.key.act # "q"
  BY <1>2 DEF Idle, Key
<1>5. Ask(r, m)  BY <1>1
<1> HIDE DEF m
<1> QED  BY <1>3, <1>4, <1>5, AskStep

LEMMA AskRawStep ==
  ASSUME IInv, NEW r \in Requests, AskRaw(r)  PROVE IInv'
<1>1. PICK act \in Acts \intersect {"d", "l"} :
        Ask(r, [Idle EXCEPT !.route = "raw", !.key = Key(Canon, act, FALSE)])
  BY DEF AskRaw
<1> DEFINE m == [Idle EXCEPT !.route = "raw", !.key = Key(Canon, act, FALSE)]
<1>2. m \in Calls
  <2>1. Key(Canon, act, FALSE) \in AllKeys  BY LinkAssumption DEF AllKeys, Key
  <2> QED  BY <2>1, IdleIs DEF Calls
<1>3. /\ m.at = "idle" /\ ~m.hit /\ m.kind = "none" /\ m.route = "raw"
      /\ m.key.act # "q"
  BY DEF Idle, Key
<1>4. Ask(r, m)  BY <1>1
<1> HIDE DEF m
<1> QED  BY <1>2, <1>3, <1>4, AskStep

LEMMA AskManifestStep ==
  ASSUME IInv, NEW r \in Requests, AskManifest(r)  PROVE IInv'
<1>1. PICK link \in Links, fs \in 0..Files, i \in 1..Files :
        Ask(r, [Idle EXCEPT !.route = "manifest", !.key = Qualities(link, i),
                            !.fs = fs, !.index = i])
  BY DEF AskManifest
<1> DEFINE m == [Idle EXCEPT !.route = "manifest", !.key = Qualities(link, i),
                             !.fs = fs, !.index = i]
<1>2. i \in 0..Files  BY LinkAssumption
<1>3. m \in Calls
  <2>1. Qualities(link, i) \in AllKeys  BY <1>2 DEF AllKeys, Qualities
  <2> QED  BY <2>1, IdleIs DEF Calls
<1>4. /\ m.at = "idle" /\ ~m.hit /\ m.kind = "none" /\ m.route = "manifest"
      /\ m.key.act = "q" /\ m.key.index = i /\ m.index = i /\ m.fs = fs
  BY DEF Idle, Qualities
<1>5. Ask(r, m)  BY <1>1
<1> HIDE DEF m
<1> QED  BY <1>3, <1>4, <1>5, AskStep

\* A step that stores one answer.
LEMMA KeepStep ==
  ASSUME IInv, NEW key \in AllKeys, key.act # "q", NEW kind \in Kinds \ {"qualities"},
         Keep(key, kind), UNCHANGED <<redis, strayed>>
  PROVE  Grows /\ SharedLive' /\ OwnLive' /\ filled' \subseteq Marks
<1> DEFINE e == Entry(key, kind, 0, TTL)
<1>1. filled' = filled \union {Mark(key, kind, 0)}  BY DEF Keep, Mark
<1>2. Grows  BY <1>1 DEF Grows
<1>3. Share({e}) /\ (own' = own \/ own' = Stored(own, e))  BY DEF Keep, Put
<1>4. e \in Entries /\ e \in Fine' /\ [e EXCEPT !.ttl = TTL] \in Fine' /\ Live(e)
  BY <1>1, AnswerFine
<1> HIDE DEF e
<1>5. SharedLive'
  <2>1. {e} \subseteq Fine' /\ Distinct({e}) /\ \A x \in {e} : Live(x)
    BY <1>4 DEF Distinct
  <2> QED  BY <1>2, <1>3, <2>1, ShareStep
<1>6. OwnLive'  BY <1>2, <1>3, <1>4, OwnPut, OwnKept
<1>7. Mark(key, kind, 0) \in Marks  BY DEF Mark, Marks
<1> QED  BY <1>1, <1>2, <1>5, <1>6, <1>7 DEF IInv

\* A step that stores the qualities of a file.
LEMMA QualitiesStep ==
  ASSUME IInv, NEW link \in Links, NEW i \in 1..Files, NEW file \in 0..Files,
         NEW ttl \in Nat \ {0}, ttl <= LongTTL, KeepQualities(link, i, file, ttl),
         file = i \/ Stray(Qualities(link, i), file, 0) \in strayed',
         Grows, UNCHANGED redis
  PROVE  SharedLive' /\ OwnLive'
<1> DEFINE e == Entry(Qualities(link, i), "qualities", file, ttl)
<1>1. Grows  OBVIOUS
<1>2. Share({e}) /\ (own' = own \/ own' = Stored(own, e))  BY DEF KeepQualities
<1>3. e \in Entries /\ e \in Fine' /\ [e EXCEPT !.ttl = TTL] \in Fine' /\ Live(e)
  BY <1>1, QualitiesFine
<1> HIDE DEF e
<1>4. SharedLive'
  <2>1. {e} \subseteq Fine' /\ Distinct({e}) /\ \A x \in {e} : Live(x)
    BY <1>3 DEF Distinct
  <2> QED  BY <1>1, <1>2, <2>1, ShareStep
<1> QED  BY <1>1, <1>2, <1>3, <1>4, OwnPut, OwnKept

LEMMA AnswerResolveStep ==
  ASSUME IInv, NEW r \in Requests, AnswerResolve(r)  PROVE IInv'
<1> DEFINE key == req[r].key
<1>1. PICK outcome \in Outcomes :
        /\ Become(r, [req[r] EXCEPT !.at = "done",
                        !.kind = IF outcome = "error" THEN "none" ELSE req[r].tier])
        /\ polls' = IF outcome = "coding" /\ ~key.wait THEN polls \union {key} ELSE polls
        /\ warm' = IF outcome = "ready" /\ key.act = "s"
                   THEN warm \union {[link |-> key.link, i |-> 1, at |-> "look"]} ELSE warm
        /\ IF outcome = "ready" THEN Keep(key, req[r].tier) ELSE UNCHANGED <<stores, filled>>
  BY DEF AnswerResolve
<1>2. /\ req[r] \in Calls /\ CallOK(req[r], filled, strayed)
      /\ req[r].at = "up" /\ req[r].route = "resolve"
      /\ UNCHANGED <<redis, down, strayed>>
  BY DEF AnswerResolve, IInv, CallsLive, wire
<1>3. /\ key \in AllKeys /\ key.act # "q" /\ ~req[r].hit /\ key.link \in Links
      /\ req[r].tier \in {"free", "premium"}
  BY <1>2 DEF Calls, CallOK, AllKeys
<1> DEFINE m == [req[r] EXCEPT !.at = "done",
                        !.kind = IF outcome = "error" THEN "none" ELSE req[r].tier]
<1>4. /\ m \in Calls /\ m.route = "resolve" /\ m.key = key /\ m.at = "done" /\ ~m.hit
      /\ m.kind \in {"none", "free", "premium"}
  BY <1>2, <1>3 DEF Calls, Kinds
<1>5. Become(r, m)  BY <1>1
<1> HIDE DEF m, key
<1>6. Grows /\ SharedLive' /\ OwnLive' /\ filled' \subseteq Marks
  <2>1. CASE outcome = "ready"
    <3>1. req[r].tier \in Kinds \ {"qualities"}  BY <1>3 DEF Kinds
    <3>2. Keep(key, req[r].tier)  BY <1>1, <2>1
    <3> QED  BY <1>2, <1>3, <3>1, <3>2, KeepStep
  <2>2. CASE outcome # "ready"
    <3>1. UNCHANGED <<shared, own, filled>>  BY <1>1, <2>2 DEF stores
    <3>2. Grows  BY <1>2, <3>1 DEF Grows
    <3> QED  BY <1>2, <3>1, <3>2, SharedKept, OwnKept DEF IInv
  <2> QED  BY <2>1, <2>2
<1>7. CallsLive'
  <2>1. CallOK(m, filled', strayed')  BY <1>3, <1>4 DEF CallOK
  <2> QED  BY <1>4, <1>5, <1>6, <2>1, CallStep
<1>8. TasksLive'
  <2>1. polls' \subseteq polls \union {key}  BY <1>1
  <2>2. warm' \subseteq warm \union {[link |-> key.link, i |-> 1, at |-> "look"]}  BY <1>1
  <2>3. 1 \in 1..Files  BY LinkAssumption
  <2> QED  BY <1>3, <2>1, <2>2, <2>3 DEF IInv, TasksLive
<1> QED  BY <1>2, <1>6, <1>7, <1>8 DEF IInv

LEMMA AnswerRawStep ==
  ASSUME IInv, NEW r \in Requests, AnswerRaw(r)  PROVE IInv'
<1>1. PICK outcome \in Outcomes :
        /\ Become(r, [req[r] EXCEPT !.at = "done",
                        !.kind = IF outcome = "error" THEN "none" ELSE "raw"])
        /\ IF outcome = "ready" THEN Keep(req[r].key, "raw") ELSE UNCHANGED <<stores, filled>>
  BY DEF AnswerRaw
<1>2. /\ req[r] \in Calls /\ CallOK(req[r], filled, strayed)
      /\ req[r].at = "up" /\ req[r].route = "raw"
      /\ UNCHANGED <<redis, down, strayed, polls, warm>>
  BY DEF AnswerRaw, IInv, CallsLive, wire, tasks
<1>3. req[r].key \in AllKeys /\ req[r].key.act # "q" /\ ~req[r].hit
  BY <1>2 DEF Calls, CallOK
<1> DEFINE m == [req[r] EXCEPT !.at = "done",
                        !.kind = IF outcome = "error" THEN "none" ELSE "raw"]
<1>4. /\ m \in Calls /\ m.route = "raw" /\ m.key = req[r].key /\ m.at = "done" /\ ~m.hit
      /\ m.kind \in {"none", "raw"}
  BY <1>2, <1>3 DEF Calls, Kinds
<1>5. Become(r, m)  BY <1>1
<1> HIDE DEF m
<1>6. Grows /\ SharedLive' /\ OwnLive' /\ filled' \subseteq Marks
  <2>1. CASE outcome = "ready"
    <3>1. "raw" \in Kinds \ {"qualities"}  BY DEF Kinds
    <3>2. Keep(req[r].key, "raw")  BY <1>1, <2>1
    <3> QED  BY <1>2, <1>3, <3>1, <3>2, KeepStep
  <2>2. CASE outcome # "ready"
    <3>1. UNCHANGED <<shared, own, filled>>  BY <1>1, <2>2 DEF stores
    <3>2. Grows  BY <1>2, <3>1 DEF Grows
    <3> QED  BY <1>2, <3>1, <3>2, SharedKept, OwnKept DEF IInv
  <2> QED  BY <2>1, <2>2
<1>7. CallsLive'
  <2>1. CallOK(m, filled', strayed')  BY <1>3, <1>4 DEF CallOK
  <2> QED  BY <1>4, <1>5, <1>6, <2>1, CallStep
<1> QED  BY <1>2, <1>6, <1>7 DEF IInv, TasksLive

\* A step of one request that stores no answer.
LEMMA QuietStep ==
  ASSUME IInv, NEW r \in Requests, NEW m \in Calls, Become(r, m),
         CallOK(m, filled, strayed), UNCHANGED <<wire, tasks, filled>>,
         strayed \subseteq strayed', UNCHANGED stores \/ (SharedLive' /\ OwnLive')
  PROVE  IInv'
<1>1. Grows /\ UNCHANGED <<redis, down, polls, warm, filled>>
  BY DEF Grows, wire, tasks
<1>2. CallsLive'  BY <1>1, CallGrows, CallStep
<1>3. SharedLive' /\ OwnLive'  BY <1>1, SharedKept, OwnKept DEF stores
<1> QED  BY <1>1, <1>2, <1>3 DEF IInv, TasksLive

LEMMA PickFileStep ==
  ASSUME IInv, NEW r \in Requests, PickFile(r)  PROVE IInv'
<1>1. /\ req[r] \in Calls /\ CallOK(req[r], filled, strayed)
      /\ req[r].at = "up" /\ req[r].route = "manifest"
      /\ UNCHANGED <<wire, stores, tasks, filled, strayed>>
  BY DEF PickFile, IInv, CallsLive, history
<1>2. CASE Become(r, [req[r] EXCEPT !.at = "done"])
  <2> DEFINE m == [req[r] EXCEPT !.at = "done"]
  <2>1. /\ m \in Calls /\ m.route = req[r].route /\ m.key = req[r].key /\ m.fs = req[r].fs
        /\ m.index = req[r].index /\ m.kind = req[r].kind /\ m.hit = req[r].hit
        /\ m.file = req[r].file
    BY <1>1 DEF Calls
  <2> HIDE DEF m
  <2>2. CallOK(m, filled, strayed)  BY <1>1, <2>1 DEF CallOK, Pick
  <2>3. Become(r, m)  BY <1>2 DEF m
  <2> QED  BY <1>1, <2>1, <2>2, <2>3, QuietStep
<1>3. CASE \E short \in BOOLEAN : Become(r, [req[r] EXCEPT !.at = "probe", !.short = short])
  <2>1. PICK short \in BOOLEAN : Become(r, [req[r] EXCEPT !.at = "probe", !.short = short])
    BY <1>3
  <2> DEFINE m == [req[r] EXCEPT !.at = "probe", !.short = short]
  <2>2. /\ m \in Calls /\ m.route = req[r].route /\ m.key = req[r].key /\ m.fs = req[r].fs
        /\ m.index = req[r].index /\ m.kind = req[r].kind /\ m.hit = req[r].hit
        /\ m.file = req[r].file /\ m.at = "probe"
    BY <1>1 DEF Calls
  <2>3. Become(r, m)  BY <2>1
  <2> HIDE DEF m
  <2>4. CallOK(m, filled, strayed)  BY <1>1, <2>2 DEF CallOK, Pick
  <2> QED  BY <1>1, <2>2, <2>3, <2>4, QuietStep
<1> QED  BY <1>2, <1>3 DEF PickFile

LEMMA AnswerManifestStep ==
  ASSUME IInv, NEW r \in Requests, AnswerManifest(r)  PROVE IInv'
<1>1. /\ req[r] \in Calls /\ CallOK(req[r], filled, strayed)
      /\ req[r].at = "probe" /\ UNCHANGED <<wire, tasks, filled>>
  BY DEF AnswerManifest, IInv, CallsLive
<1>2. /\ req[r].route = "manifest" /\ req[r].key.act = "q" /\ req[r].key.index = req[r].index
      /\ ~req[r].hit /\ req[r].kind = "none"
      /\ req[r].fs \in 0..Files /\ req[r].index \in 1..Files /\ req[r].key.link \in Links
  BY <1>1 DEF CallOK, Calls, AllKeys
<1>3. Pick(req[r]) \in 0..Files  BY <1>2, LinkAssumption DEF Pick
<1>4. CASE Become(r, [req[r] EXCEPT !.at = "done"]) /\ UNCHANGED <<stores, strayed>>
  <2> DEFINE m == [req[r] EXCEPT !.at = "done"]
  <2>1. /\ m \in Calls /\ m.route = req[r].route /\ m.key = req[r].key /\ m.fs = req[r].fs
        /\ m.index = req[r].index /\ m.kind = req[r].kind /\ m.hit = req[r].hit
        /\ m.file = req[r].file /\ m.at = "done"
    BY <1>1 DEF Calls
  <2> HIDE DEF m
  <2>2. CallOK(m, filled, strayed)  BY <1>1, <2>1 DEF CallOK, Pick
  <2>3. Become(r, m)  BY <1>4 DEF m
  <2> QED  BY <1>1, <1>4, <2>1, <2>2, <2>3, QuietStep
<1>5. CASE /\ Become(r, [req[r] EXCEPT !.at = "done", !.kind = "qualities", !.file = Pick(req[r])])
           /\ Save(req[r])
           /\ strayed' = strayed \union Strays(req[r])
  <2> DEFINE m == [req[r] EXCEPT !.at = "done", !.kind = "qualities", !.file = Pick(req[r])]
             ttl == IF req[r].short THEN ShortTTL ELSE LongTTL
  <2>1. /\ m \in Calls /\ m.route = req[r].route /\ m.key = req[r].key /\ m.fs = req[r].fs
        /\ m.index = req[r].index /\ m.kind = "qualities" /\ m.hit = req[r].hit
        /\ m.file = Pick(req[r]) /\ m.at = "done"
    BY <1>1, <1>3 DEF Calls, Kinds
  <2> HIDE DEF m
  <2>2. CallOK(m, filled, strayed)  BY <1>1, <1>2, <2>1 DEF CallOK, Pick
  <2>3. Become(r, m)  BY <1>5 DEF m
  <2>4. ttl \in Nat \ {0} /\ ttl <= LongTTL  BY LinkAssumption
  <2>5. KeepQualities(req[r].key.link, req[r].index, Pick(req[r]), ttl)  BY <1>5 DEF Save
  <2> HIDE DEF ttl
  <2>6. Grows /\ strayed \subseteq strayed' /\ UNCHANGED redis
    BY <1>1, <1>5 DEF Grows, wire
  <2>7. \/ Pick(req[r]) = req[r].index
        \/ Stray(Qualities(req[r].key.link, req[r].index), Pick(req[r]), 0) \in strayed'
    BY <1>5 DEF Strays, Stray
  <2>8. SharedLive' /\ OwnLive'
    BY <1>2, <1>3, <2>4, <2>5, <2>6, <2>7, QualitiesStep
  <2> QED  BY <1>1, <2>1, <2>2, <2>3, <2>6, <2>8, QuietStep
<1> QED  BY <1>4, <1>5 DEF AnswerManifest

LEMMA ReturnStep ==
  ASSUME IInv, NEW r \in Requests, Return(r)  PROVE IInv'
BY IdleIs, QuietStep DEF Return, history

-----------------------------------------------------------------------------
(* Steps of the background tasks, of Redis and of time *)

LEMMA PollStep ==
  ASSUME IInv, NEW key \in polls, PollEnds(key)  PROVE IInv'
<1> DEFINE waiting == [key EXCEPT !.wait = TRUE]
           e == Entry(key, "bare", 0, TTL)
           f == Entry(waiting, "bare", 0, TTL)
<1>1. /\ key \in AllKeys /\ key.act # "q" /\ polls' \subseteq polls
      /\ UNCHANGED <<redis, down, req, warm, strayed>>
  BY DEF PollEnds, IInv, TasksLive, wire
<1>2. waiting \in AllKeys /\ waiting.act # "q"  BY <1>1 DEF AllKeys
<1>3. \/ UNCHANGED <<shared, own, filled>>
      \/ /\ Share({e, f}) /\ (own' = own \/ own' = Stored(Stored(own, e), f))
         /\ filled' = filled \union {Mark(key, "bare", 0), Mark(waiting, "bare", 0)}
  BY DEF PollEnds, stores, Mark
<1> HIDE DEF waiting, e, f
<1>4. CASE UNCHANGED <<shared, own, filled>>
  <2>1. Grows  BY <1>1, <1>4 DEF Grows
  <2> QED  BY <1>1, <1>4, <2>1, SharedKept, OwnKept, CallsKept DEF IInv, TasksLive
<1>5. CASE /\ Share({e, f}) /\ (own' = own \/ own' = Stored(Stored(own, e), f))
           /\ filled' = filled \union {Mark(key, "bare", 0), Mark(waiting, "bare", 0)}
  <2>1. Grows  BY <1>1, <1>5 DEF Grows
  <2>2. "bare" \in Kinds \ {"qualities"}  BY DEF Kinds
  <2>3. /\ e \in Entries /\ e \in Fine' /\ [e EXCEPT !.ttl = TTL] \in Fine' /\ Live(e)
        /\ e.key = key
    BY <1>1, <1>5, <2>2, AnswerFine DEF e
  <2>4. /\ f \in Entries /\ f \in Fine' /\ [f EXCEPT !.ttl = TTL] \in Fine' /\ Live(f)
        /\ f.key = waiting
    BY <1>2, <1>5, <2>2, AnswerFine DEF f
  <2>5. SharedLive'
    <3>1. key = waiting => e = f  BY DEF e, f
    <3>2. Distinct({e, f})  BY <2>3, <2>4, <3>1 DEF Distinct
    <3>3. {e, f} \subseteq Fine' /\ \A x \in {e, f} : Live(x)  BY <2>3, <2>4
    <3> QED  BY <1>1, <1>5, <2>1, <3>2, <3>3, ShareStep
  <2>6. OwnLive'
    <3>1. CASE own' = own  BY <2>1, <3>1, OwnKept
    <3>2. CASE own' = Stored(Stored(own, e), f)
      <4> DEFINE s == Stored(own, e)
      <4>1. own \in Seq(Fine') /\ Unique(own) /\ Len(own) <= MaxEntries  BY <2>1, OwnFine
      <4>2. s \in Seq(Fine') /\ Unique(s) /\ Len(s) <= MaxEntries
        BY <2>3, <4>1, StoredIs
      <4>3. own' = Stored(s, f)  BY <3>2
      <4> HIDE DEF s
      <4>4. own' \in Seq(Fine') /\ Unique(own') /\ Len(own') <= MaxEntries
        BY <2>4, <4>2, <4>3, StoredIs
      <4> QED  BY <4>4 DEF OwnLive, Unique
    <3> QED  BY <1>5, <3>1, <3>2
  <2>7. CallsLive'  BY <1>1, <2>1, CallsKept
  <2>8. filled' \subseteq Marks
    BY <1>1, <1>2, <1>5, <2>2 DEF IInv, Mark, Marks
  <2> QED  BY <1>1, <2>5, <2>6, <2>7, <2>8 DEF IInv, TasksLive
<1> QED  BY <1>3, <1>4, <1>5

\* A step of a pre-warmer.
LEMMA WarmKept ==
  ASSUME IInv, NEW t \in warm, UNCHANGED <<wire, req, polls, history>>,
         warm' \subseteq (warm \ {t}) \union {[t EXCEPT !.i = @ + 1, !.at = "look"],
                                             [t EXCEPT !.at = "probe"]},
         t.i = Files => [t EXCEPT !.i = @ + 1, !.at = "look"] \notin warm',
         SharedLive', OwnLive'
  PROVE  IInv'
<1>1. Grows /\ UNCHANGED <<redis, down, filled>>  BY DEF Grows, history, wire
<1>2. t \in [link : Links, i : 1..Files, at : {"look", "probe"}]  BY DEF IInv, TasksLive
<1>3. [t EXCEPT !.at = "probe"] \in [link : Links, i : 1..Files, at : {"look", "probe"}]
  BY <1>2
<1>4. t.i # Files => [t EXCEPT !.i = @ + 1, !.at = "look"]
                       \in [link : Links, i : 1..Files, at : {"look", "probe"}]
  <2> SUFFICES ASSUME t.i # Files
               PROVE  [t EXCEPT !.i = @ + 1, !.at = "look"]
                        \in [link : Links, i : 1..Files, at : {"look", "probe"}]
    OBVIOUS
  <2>1. t.i + 1 \in 1..Files  BY <1>2, LinkAssumption
  <2> QED  BY <1>2, <2>1
<1>5. TasksLive'  BY <1>3, <1>4 DEF IInv, TasksLive
<1> QED  BY <1>1, <1>5, CallsKept DEF IInv

\* The next file of a pre-warmer.
LEMMA AdvanceIs ==
  ASSUME IInv, NEW t \in warm, Advance(t)
  PROVE  /\ warm' \subseteq (warm \ {t}) \union {[t EXCEPT !.i = @ + 1, !.at = "look"]}
         /\ t.i = Files => warm' \subseteq warm
         /\ t.i = Files => [t EXCEPT !.i = @ + 1, !.at = "look"] \notin warm'
<1>1. t \in [link : Links, i : 1..Files, at : {"look", "probe"}]
      /\ warm \subseteq [link : Links, i : 1..Files, at : {"look", "probe"}]
  BY DEF IInv, TasksLive
<1>2. t.i = Files => warm' = warm \ {t}  BY <1>1, LinkAssumption DEF Advance
<1>3. t.i = Files => [t EXCEPT !.i = @ + 1, !.at = "look"].i \notin 1..Files
  BY <1>1, LinkAssumption
<1> QED  BY <1>1, <1>2, <1>3 DEF Advance

LEMMA WarmLookStep ==
  ASSUME IInv, NEW t \in warm, WarmLook(t)  PROVE IInv'
<1> DEFINE key == Qualities(t.link, t.i)
<1>1. /\ UNCHANGED <<wire, req, polls, history, shared>>
      /\ UNCHANGED own \/ Looked(key)
      /\ Advance(t) \/ warm' = (warm \ {t}) \union {[t EXCEPT !.at = "probe"]}
  BY DEF WarmLook, stores
<1> HIDE DEF key
<1>2. Grows /\ UNCHANGED redis  BY <1>1 DEF Grows, history, wire
<1>3. SharedLive' /\ OwnLive'  BY <1>1, <1>2, SharedKept, OwnKept, LookedIs
<1>4. CASE Advance(t)
  BY <1>1, <1>3, <1>4, AdvanceIs, WarmKept
<1>5. CASE warm' = (warm \ {t}) \union {[t EXCEPT !.at = "probe"]}
  <2>1. t \in [link : Links, i : 1..Files, at : {"look", "probe"}]
        /\ warm \subseteq [link : Links, i : 1..Files, at : {"look", "probe"}]
    BY DEF IInv, TasksLive
  <2>2. [t EXCEPT !.at = "probe"] \in [link : Links, i : 1..Files, at : {"look", "probe"}]
    BY <2>1
  <2>3. t.i = Files => [t EXCEPT !.i = @ + 1, !.at = "look"].i \notin 1..Files
    BY <2>1, LinkAssumption
  <2>4. t.i = Files => [t EXCEPT !.i = @ + 1, !.at = "look"] \notin warm'
    BY <1>5, <2>1, <2>2, <2>3
  <2> QED  BY <1>1, <1>3, <1>5, <2>4, WarmKept
<1> QED  BY <1>1, <1>4, <1>5

LEMMA WarmProbedStep ==
  ASSUME IInv, NEW t \in warm, WarmProbed(t)  PROVE IInv'
<1>1. /\ UNCHANGED <<wire, req, polls, history>> /\ Advance(t)
      /\ UNCHANGED <<shared, own>> \/ KeepQualities(t.link, t.i, t.i, LongTTL)
  BY DEF WarmProbed, stores
<1>2. Grows /\ UNCHANGED redis  BY <1>1 DEF Grows, history, wire
<1>3. /\ t.link \in Links /\ t.i \in 1..Files /\ t.i \in 0..Files
      /\ LongTTL \in Nat \ {0} /\ LongTTL <= LongTTL
  BY LinkAssumption DEF IInv, TasksLive
<1>4. CASE UNCHANGED <<shared, own>>
  <2>1. SharedLive' /\ OwnLive'  BY <1>2, <1>4, SharedKept, OwnKept
  <2> QED  BY <1>1, <2>1, AdvanceIs, WarmKept
<1>5. CASE KeepQualities(t.link, t.i, t.i, LongTTL)
  <2>1. SharedLive' /\ OwnLive'  BY <1>1, <1>2, <1>3, <1>5, QualitiesStep
  <2> QED  BY <1>1, <2>1, AdvanceIs, WarmKept
<1> QED  BY <1>1, <1>4, <1>5

\* An entry that grows older stays fine, as its mark does.
LEMMA OlderIs ==
  ASSUME IInv, Tick, NEW e \in Fine
  PROVE  Older(e) \in Fine' /\ Older(e).key = e.key
<1>1. e \in Entries /\ EntryOK(e) /\ Backed(e) /\ Aimed(e)  BY DEF Fine
<1>2. CASE ~Live(e)
  <2>1. Older(e) = e  BY <1>2 DEF Older
  <2>2. Backed(e)'  BY <1>1, <1>2 DEF Backed, Live
  <2>3. Aimed(e)'  BY <1>1, <1>2 DEF Aimed, Live
  <2> QED  BY <1>1, <2>1, <2>2, <2>3 DEF Fine
<1>3. CASE Live(e)
  <2> DEFINE f == Older(e)
  <2>1. /\ f \in Entries /\ f.key = e.key /\ f.kind = e.kind /\ f.file = e.file
        /\ f.ttl = e.ttl /\ f.age = e.age + 1
    BY <1>1, <1>3 DEF Older, Entries
  <2> HIDE DEF f
  <2>2. e.age \in Nat /\ e.ttl \in Nat /\ e.age < e.ttl  BY <1>1, <1>3 DEF Entries, Live
  <2>3. EntryOK(f)  BY <1>1, <2>1, <2>2 DEF EntryOK
  <2>4. Aimed(f)'
    <3> SUFFICES ASSUME f.kind = "qualities", Live(f), f.file # f.key.index
                 PROVE  Stray(f.key, f.file, f.age) \in strayed'
      BY <1>1, <2>1 DEF Aimed, Live
    <3> DEFINE x == Stray(e.key, e.file, e.age)
    <3>1. x \in strayed /\ e.ttl <= LongTTL  BY <1>1, <1>3, <2>1 DEF Aimed
    <3>2. x.age + 1 < LongTTL  BY <2>1, <2>2, <3>1, LinkAssumption DEF Live, Stray
    <3>3. [x EXCEPT !.age = @ + 1] = Stray(f.key, f.file, f.age)  BY <2>1 DEF Stray
    <3>4. [x EXCEPT !.age = @ + 1] \in strayed'  BY <3>1, <3>2 DEF Tick, Past
    <3> QED  BY <3>3, <3>4
  <2>5. ASSUME f.kind # "qualities", Live(f)  PROVE Mark(f.key, f.kind, f.age) \in filled'
    <3> DEFINE x == Mark(e.key, e.kind, e.age)
    <3>1. x \in filled /\ e.ttl = TTL  BY <1>1, <1>3, <2>1, <2>5 DEF Backed
    <3>2. x.age + 1 < TTL  BY <2>1, <2>5, <3>1 DEF Live, Mark
    <3>3. [x EXCEPT !.age = @ + 1] = Mark(f.key, f.kind, f.age)  BY <2>1 DEF Mark
    <3>4. [x EXCEPT !.age = @ + 1] \in filled'  BY <3>1, <3>2 DEF Tick, Past
    <3> QED  BY <3>3, <3>4
  <2>6. Backed(f)'  BY <1>1, <2>1, <2>5 DEF Backed, Live
  <2>7. f \in Fine'  BY <2>1, <2>3, <2>4, <2>6 DEF Fine
  <2> QED  BY <2>1, <2>7 DEF f
<1> QED  BY <1>2, <1>3

LEMMA TickStep ==
  ASSUME IInv, Tick, \A r \in Requests : req[r].at # "done"  PROVE IInv'
<1>1. UNCHANGED <<redis, down, req, polls, warm>>  BY DEF Tick, wire, tasks
<1>2. SharedLive'
  <2>1. shared' = {e \in {Older(x) : x \in shared} : Live(e)}  BY DEF Tick
  <2>2. shared \subseteq Fine /\ Distinct(shared) /\ \A e \in shared : redis
    BY DEF IInv, SharedLive
  <2>3. \A x \in shared : Older(x) \in Fine' /\ Older(x).key = x.key  BY <2>2, OlderIs
  <2>4. shared' \subseteq Fine' /\ \A e \in shared' : Live(e) /\ redis
    BY <2>1, <2>2, <2>3
  <2>5. ASSUME NEW e \in shared', NEW f \in shared', e.key = f.key  PROVE e = f
    <3>1. PICK x \in shared : e = Older(x)  BY <2>1
    <3>2. PICK y \in shared : f = Older(y)  BY <2>1
    <3>3. x = y  BY <2>2, <2>3, <2>5, <3>1, <3>2 DEF Distinct
    <3> QED  BY <3>1, <3>2, <3>3
  <2> QED  BY <1>1, <2>4, <2>5 DEF SharedLive, Distinct, Live
<1>3. OwnLive'
  <2>1. own' = [i \in DOMAIN own |-> Older(own[i])]  BY DEF Tick
  <2>2. own \in Seq(Fine) /\ Unique(own) /\ Len(own) <= MaxEntries  BY DEF IInv, OwnLive
  <2>3. Len(own) \in Nat /\ DOMAIN own = 1..Len(own) /\ \A i \in 1..Len(own) : own[i] \in Fine
    BY <2>2, LenProperties, ElementOfSeq
  <2>4. \A i \in 1..Len(own) : Older(own[i]) \in Fine' /\ Older(own[i]).key = own[i].key
    BY <2>3, OlderIs
  <2>5. own' \in [1..Len(own) -> Fine']  BY <2>1, <2>3, <2>4
  <2>6. own' \in Seq(Fine') /\ Len(own') = Len(own) /\ DOMAIN own' = 1..Len(own)
    BY <2>3, <2>5, IsASeq, LenProperties
  <2>7. Unique(own')  BY <2>1, <2>2, <2>3, <2>4, <2>6 DEF Unique
  <2> QED  BY <2>2, <2>6, <2>7 DEF OwnLive, Unique
<1>4. CallsLive'
  <2>1. \A r \in Requests : CallOK(req[r], filled, strayed) /\ req[r].at # "done"
    BY DEF IInv, CallsLive
  <2>2. \A r \in Requests : CallOK(req[r], filled', strayed')  BY <2>1 DEF CallOK
  <2> QED  BY <1>1, <2>2 DEF IInv, CallsLive
<1>5. filled' \subseteq Marks
  <2>1. filled \subseteq Marks  BY DEF IInv
  <2>2. \A x \in Marks : [x EXCEPT !.age = @ + 1] \in Marks  BY DEF Marks
  <2> QED  BY <2>1, <2>2 DEF Tick, Past
<1> QED  BY <1>1, <1>2, <1>3, <1>4, <1>5 DEF IInv, TasksLive

\* Redis begins or ceases to fail.
LEMMA WireStep ==
  ASSUME IInv, Outage \/ Recover  PROVE IInv'
<1>1. /\ UNCHANGED <<redis, shared, own, req, polls, warm, filled, strayed>>
      /\ down' \in BOOLEAN
  BY DEF Outage, Recover, stores, tasks, history
<1>2. Grows  BY <1>1 DEF Grows
<1> QED  BY <1>1, <1>2, SharedKept, OwnKept, CallsKept DEF IInv, TasksLive

-----------------------------------------------------------------------------
(* The theorems *)

LEMMA InitIInv == Init => IInv
<1> SUFFICES ASSUME Init  PROVE IInv
  OBVIOUS
<1>1. own \in Seq(Fine) /\ Len(own) = 0 /\ DOMAIN own = {}  BY EmptySeq DEF Init
<1>2. OwnLive  BY <1>1, LinkAssumption DEF OwnLive, Unique
<1>3. CallsLive  BY IdleIs DEF Init, CallsLive
<1> QED  BY <1>2, <1>3 DEF Init, IInv, SharedLive, Distinct, TasksLive

LEMMA NextIInv == IInv /\ [Next]_vars => IInv'
<1> SUFFICES ASSUME IInv, [Next]_vars  PROVE IInv'
  OBVIOUS
<1>1. CASE UNCHANGED vars
  <2>1. UNCHANGED <<redis, down, shared, own, req, polls, warm, filled, strayed>>
    BY <1>1 DEF vars, wire, stores, tasks, history
  <2>2. Grows  BY <2>1 DEF Grows
  <2> QED  BY <2>1, <2>2, SharedKept, OwnKept, CallsKept DEF IInv, TasksLive
<1>2. CASE \E r \in Requests : Return(r)  BY <1>2, ReturnStep
<1>3. CASE \E r \in Requests : AskResolve(r) \/ AskRaw(r) \/ AskManifest(r)
  BY <1>3, AskResolveStep, AskRawStep, AskManifestStep
<1>4. CASE \E r \in Requests : \/ AnswerResolve(r) \/ AnswerRaw(r)
                               \/ PickFile(r) \/ AnswerManifest(r)
  BY <1>4, AnswerResolveStep, AnswerRawStep, PickFileStep, AnswerManifestStep
<1>5. CASE \E key \in polls : PollEnds(key)  BY <1>5, PollStep
<1>6. CASE \E t \in warm : WarmLook(t) \/ WarmProbed(t)  BY <1>6, WarmLookStep, WarmProbedStep
<1>7. CASE Outage \/ Recover  BY <1>7, WireStep
<1>8. CASE Tick /\ \A r \in Requests : req[r].at # "done"  BY <1>8, TickStep
<1> QED  BY <1>1, <1>2, <1>3, <1>4, <1>5, <1>6, <1>7, <1>8 DEF Next

\* Every answer that still counts was stored for its key within its time, and
\* qualities are of the file at their index unless a manifest by the fs_id of
\* their file left them there within theirs.
THEOREM Invariance == Spec => []IInv
BY InitIInv, NextIInv, PTL DEF Spec

\* Both tiers of the cache keep one entry of a key, the worker's own no more
\* than its limit, whatever Redis does.
THEOREM TypeCorrect == Spec => []TypeOK
<1>1. IInv => TypeOK
  <2> SUFFICES ASSUME IInv  PROVE TypeOK
    OBVIOUS
  <2>1. own \in Seq(Fine) /\ Unique(own) /\ Len(own) <= MaxEntries  BY DEF IInv, OwnLive
  <2>2. DOMAIN own = 1..Len(own) /\ \A i \in 1..Len(own) : own[i] \in Fine
    BY <2>1, LenProperties, ElementOfSeq
  <2>3. \A i \in DOMAIN own :
          EntryOK(own[i]) /\ \A j \in DOMAIN own : own[i].key = own[j].key => i = j
    BY <2>1, <2>2 DEF Fine, Unique
  <2>4. \A e \in shared : EntryOK(e) /\ Live(e) /\ redis  BY DEF IInv, SharedLive, Fine
  <2>5. \A e, f \in shared : e.key = f.key => e = f  BY DEF IInv, SharedLive, Distinct
  <2>6. \A r \in Requests : req[r].at \in {"idle", "up", "probe", "done"}
    BY DEF IInv, CallsLive, Calls
  <2> QED  BY <2>1, <2>3, <2>4, <2>5, <2>6 DEF IInv, TypeOK
<1> QED  BY <1>1, Invariance, PTL

\* What a caller finds and cannot use was stored for its very link, action and
\* wait, within the cache's time, for any number of links, files and requests.
THEOREM ForeignBounded == Spec => []ForeignExplained
<1>1. IInv => ForeignExplained
  <2> SUFFICES ASSUME IInv, NEW r \in Requests, req[r].at = "done", req[r].hit,
                      req[r].kind \notin Proper(req[r])
               PROVE  \E x \in filled : x.key = req[r].key /\ x.kind = req[r].kind
    BY DEF ForeignExplained
  <2>1. req[r] \in Calls /\ CallOK(req[r], filled, strayed)  BY DEF IInv, CallsLive
  <2>2. req[r].kind # "qualities"  BY <2>1 DEF Calls, CallOK, Proper
  <2> QED  BY <2>1, <2>2 DEF CallOK
<1> QED  BY <1>1, Invariance, PTL

\* A manifest of another file than was asked for is from the cache, and is of the
\* file at its index or was left there, within the longest time that qualities
\* count, by a manifest for the fs_id of the file that is given; the links
\* handed out, which have an fs_id and no index, are no exception.
THEOREM ManifestsOfTheFile == Spec => []ManifestExplained
<1>1. IInv => ManifestExplained
  <2> SUFFICES ASSUME IInv, NEW r \in Requests, req[r].kind = "qualities",
                      req[r].file # Pick(req[r])
               PROVE  /\ req[r].hit
                      /\ \/ req[r].file = req[r].index
                         \/ \E x \in strayed : x.key = req[r].key /\ x.file = req[r].file
    BY DEF ManifestExplained
  <2>1. req[r] \in Calls /\ CallOK(req[r], filled, strayed)  BY DEF IInv, CallsLive
  <2> QED  BY <2>1 DEF CallOK
<1> QED  BY <1>1, Invariance, PTL
=============================================================================
