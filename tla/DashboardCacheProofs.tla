------------------------- MODULE DashboardCacheProofs -------------------------
(***************************************************************************)
(* What the dashboard shows, for any number of workers, requests, accounts *)
(* and drives, any lifetimes, and any number of outages of Redis and of    *)
(* changes of the records: pages are recent, of the account that was named *)
(* and without what was deleted.                                           *)
(***************************************************************************)
EXTENDS DashboardCache, SequenceTheorems, TLAPS

-----------------------------------------------------------------------------
(* The inductive invariant *)

Maybe(S) == S \union {None}

Calls == [at : {"idle", "tokens", "write", "sent", "back", "done"}, op : {"list", "delete"},
          w : Maybe(Workers), key : Keys, id : Maybe(Ids), drive : Maybe(Drives),
          rec : Maybe(Drives), has : BOOLEAN, taken : Ages, spent : 0..Flight]

\* A key stood for a drive n steps ago or later, going by the history N; or the
\* drive was then what some worker takes without a record, and the key stood for
\* nothing or Redis failed at one of its O outages.
Stood(k, d, n, N, O) == \/ N[k][d] <= n
                        \/ N[None][d] <= n /\ (N[k][None] <= n \/ O > 0)

\* What was current at its time, an entry that counts is no older than a request
\* and its own time; what was deleted for good, G, is not in it.
EntryOK(e, N, O, G) ==
  /\ e.key \in Asked
  /\ e.put < TTL => e.taken <= e.put + Flight /\ Stood(e.key, e.drive, e.put + Flight, N, O)
  /\ e.has => <<e.key, e.drive>> \notin G

Fine == {e \in Entries : EntryOK(e, named, outages, gone)}

Unique(s) == \A i, j \in DOMAIN s : s[i].key = s[j].key => i = j
Distinct(c) == \A e, f \in c : e.key = f.key => e = f

RedisLive == redis \subseteq Fine /\ Distinct(redis) /\ \A e \in redis : e.put < TTL

StoreOK(s, S) == s \in Seq(S) /\ Unique(s) /\ Len(s) <= MaxEntries

MemLive == mem \in [Workers -> Seq(Fine)] /\ \A w \in Workers : StoreOK(mem[w], Fine)

\* A request on its way goes for the drive its key stood for since it arrived, or
\* has no cookie at all and will fail.
CallOK(m, N, O, G, F) ==
  /\ m.at # "idle" => m.key \in Asked /\ m.w \in Workers
  /\ m.at \in {"back", "done"} => m.drive \in Drives
  /\ m.at \in {"tokens", "write", "sent", "back"} =>
       m.drive = None \/ Stood(m.key, m.drive, m.spent, N, O)
  /\ m.at = "write" => m.id \in Ids /\ m.rec \in Drives
  /\ m.at \notin {"back", "done"} => ~m.has /\ m.taken = 0
  /\ m.at = "back" =>
       /\ m.taken <= m.spent
       /\ m.op = "delete" => m.drive \notin F /\ ~m.has
  /\ m.at = "done" =>
       /\ m.op = "list" /\ m.taken < TTL + Flight
       /\ Stood(m.key, m.drive, TTL + Flight - 1, N, O)
  /\ m.has => <<m.key, m.drive>> \notin G

CallsLive ==
  /\ req \in [Requests -> Calls]
  /\ \A r \in Requests : CallOK(req[r], named, outages, gone, full)

\* The history is up to date.
PoolLive ==
  /\ cred \in [Ids -> Maybe(Drives)] /\ active \in Maybe(Ids)
  /\ loaded \in [Workers -> Maybe(Drives)]
  /\ named \in [Maybe(Asked) -> [Maybe(Drives) -> Ages]]
  /\ \A k \in Maybe(Asked), d \in Maybe(Drives) : Stands(k, d) => named[k][d] = 0

\* What was deleted for good is nowhere.
GoneLive ==
  /\ full \subseteq Drives
  /\ \A x \in gone : x[2] \notin full

WireLive == down \in BOOLEAN /\ outages \in Nat /\ (down => outages > 0)

IInv == PoolLive /\ WireLive /\ GoneLive /\ RedisLive /\ MemLive /\ CallsLive

-----------------------------------------------------------------------------
(* The stores of the workers *)

\* A sequence without one of its places.
LEMMA RemoveAtIs ==
  ASSUME NEW S, NEW s \in Seq(S), NEW i \in 1..Len(s)
  PROVE  /\ RemoveAt(s, i) \in Seq(S)
         /\ Len(RemoveAt(s, i)) = Len(s) - 1
         /\ \A j \in 1..(Len(s) - 1) : RemoveAt(s, i)[j] = IF j < i THEN s[j] ELSE s[j + 1]
<1> DEFINE a == SubSeq(s, 1, i - 1)
           b == SubSeq(s, i + 1, Len(s))
<1>0. Len(s) \in Nat /\ i \in Nat /\ i >= 1 /\ i <= Len(s)  BY LenProperties
<1>1. \A j \in 1..Len(s) : s[j] \in S  BY ElementOfSeq
<1>2. /\ a \in Seq(S) /\ Len(a) = i - 1
      /\ \A j \in 1..(i - 1) : a[j] = s[j]
  <2>1. \A j \in 1..(i - 1) : s[j] \in S  BY <1>0, <1>1
  <2>2. /\ a \in Seq(S)
        /\ Len(a) = IF 1 <= i - 1 THEN (i - 1) - 1 + 1 ELSE 0
        /\ \A j \in 1..((i - 1) - 1 + 1) : a[j] = s[1 + j - 1]
    BY <1>0, <2>1, SubSeqProperties
  <2> QED  BY <1>0, <2>2
<1>3. /\ b \in Seq(S) /\ Len(b) = Len(s) - i
      /\ \A j \in 1..(Len(s) - i) : b[j] = s[i + j]
  <2>1. \A j \in (i + 1)..Len(s) : s[j] \in S  BY <1>0, <1>1
  <2>2. /\ b \in Seq(S)
        /\ Len(b) = IF i + 1 <= Len(s) THEN Len(s) - (i + 1) + 1 ELSE 0
        /\ \A j \in 1..(Len(s) - (i + 1) + 1) : b[j] = s[(i + 1) + j - 1]
    BY <1>0, <2>1, SubSeqProperties
  <2> QED  BY <1>0, <2>2
<1>4. /\ a \o b \in Seq(S) /\ Len(a \o b) = Len(a) + Len(b)
      /\ \A j \in 1..(Len(a) + Len(b)) :
           (a \o b)[j] = IF j <= Len(a) THEN a[j] ELSE b[j - Len(a)]
  BY <1>2, <1>3, ConcatProperties
<1>5. RemoveAt(s, i) = a \o b  BY DEF RemoveAt
<1> HIDE DEF a, b
<1>6. ASSUME NEW j \in 1..(Len(s) - 1)
      PROVE  (a \o b)[j] = IF j < i THEN s[j] ELSE s[j + 1]
  <2>1. CASE j < i
    BY <1>0, <1>2, <1>3, <1>4, <2>1
  <2>2. CASE ~(j < i)
    <3>1. (a \o b)[j] = b[j - (i - 1)]  BY <1>0, <1>2, <1>3, <1>4, <2>2
    <3>2. j - (i - 1) \in 1..(Len(s) - i)  BY <1>0, <2>2
    <3>3. i + (j - (i - 1)) = j + 1  BY <1>0
    <3> QED  BY <1>3, <2>2, <3>1, <3>2, <3>3
  <2> QED  BY <2>1, <2>2
<1>7. Len(a \o b) = Len(s) - 1  BY <1>0, <1>2, <1>3, <1>4
<1> QED  BY <1>4, <1>5, <1>6, <1>7

\* A store without a key is shorter by its entry, if it has one.
LEMMA WithoutIs ==
  ASSUME NEW S, NEW s \in Seq(S), Unique(s), NEW key
  PROVE  /\ Without(s, key) \in Seq(S)
         /\ Unique(Without(s, key))
         /\ \A i \in DOMAIN Without(s, key) : Without(s, key)[i].key # key
         /\ Len(Without(s, key)) <= Len(s)
         /\ (\E i \in DOMAIN s : s[i].key = key) => Len(Without(s, key)) = Len(s) - 1
<1>0. Len(s) \in Nat /\ DOMAIN s = 1..Len(s)  BY LenProperties
<1>1. CASE \E i \in DOMAIN s : s[i].key = key
  <2> DEFINE i == CHOOSE i \in DOMAIN s : s[i].key = key
             t == RemoveAt(s, i)
  <2>1. i \in 1..Len(s) /\ s[i].key = key  BY <1>0, <1>1
  <2> HIDE DEF i
  <2>2. /\ t \in Seq(S) /\ Len(t) = Len(s) - 1
        /\ \A j \in 1..(Len(s) - 1) : t[j] = IF j < i THEN s[j] ELSE s[j + 1]
    BY <2>1, RemoveAtIs
  <2>3. DOMAIN t = 1..(Len(s) - 1)  BY <2>2, LenProperties
  <2>4. Without(s, key) = t  BY <1>1 DEF Without, i
  <2> HIDE DEF t
  <2>5. \A j \in DOMAIN t : t[j].key # key
    <3> SUFFICES ASSUME NEW j \in 1..(Len(s) - 1)  PROVE t[j].key # key
      BY <2>3
    <3>1. PICK n \in 1..Len(s) : t[j] = s[n] /\ n # i
      <4>1. CASE j < i  BY <1>0, <2>1, <2>2, <4>1
      <4>2. CASE ~(j < i)
        <5>1. j + 1 \in 1..Len(s) /\ j + 1 # i  BY <1>0, <2>1, <4>2
        <5> QED  BY <2>2, <4>2, <5>1
      <4> QED  BY <4>1, <4>2
    <3> QED  BY <1>0, <2>1, <3>1 DEF Unique
  <2>6. Unique(t)
    <3> SUFFICES ASSUME NEW j \in 1..(Len(s) - 1), NEW k \in 1..(Len(s) - 1),
                        t[j].key = t[k].key
                 PROVE  j = k
      BY <2>3 DEF Unique
    <3> DEFINE J == IF j < i THEN j ELSE j + 1
               K == IF k < i THEN k ELSE k + 1
    <3>1. J \in 1..Len(s) /\ K \in 1..Len(s)  BY <1>0, <2>1
    <3>2. t[j] = s[J] /\ t[k] = s[K]  BY <2>2
    <3>3. J = K  BY <1>0, <3>1, <3>2 DEF Unique
    <3> QED  BY <1>0, <2>1, <3>3
  <2>7. Len(t) <= Len(s)  BY <1>0, <2>2
  <2> QED  BY <2>2, <2>4, <2>5, <2>6, <2>7
<1>2. CASE ~(\E i \in DOMAIN s : s[i].key = key)
  <2>1. Without(s, key) = s  BY <1>2 DEF Without
  <2>2. Len(s) <= Len(s)  BY <1>0
  <2> QED  BY <1>2, <2>1, <2>2
<1> QED  BY <1>1, <1>2

\* A new entry goes to the end.
LEMMA AppendIs ==
  ASSUME NEW S, NEW s \in Seq(S), Unique(s), NEW e \in S,
         \A i \in DOMAIN s : s[i].key # e.key
  PROVE  /\ Append(s, e) \in Seq(S) /\ Unique(Append(s, e))
         /\ Len(Append(s, e)) = Len(s) + 1
<1>1. /\ Append(s, e) \in Seq(S) /\ Len(Append(s, e)) = Len(s) + 1
      /\ \A i \in 1..Len(s) : Append(s, e)[i] = s[i]
      /\ Append(s, e)[Len(s) + 1] = e
  BY AppendProperties
<1>2. Len(s) \in Nat /\ DOMAIN s = 1..Len(s) /\ DOMAIN Append(s, e) = 1..(Len(s) + 1)
  BY <1>1, LenProperties
<1>3. ASSUME NEW i \in 1..(Len(s) + 1), NEW j \in 1..(Len(s) + 1),
             Append(s, e)[i].key = Append(s, e)[j].key
      PROVE  i = j
  <2>1. CASE i <= Len(s) /\ j <= Len(s)  BY <1>1, <1>2, <1>3, <2>1 DEF Unique
  <2>2. CASE i = Len(s) + 1 /\ j <= Len(s)  BY <1>1, <1>2, <1>3, <2>2
  <2>3. CASE j = Len(s) + 1 /\ i <= Len(s)  BY <1>1, <1>2, <1>3, <2>3
  <2>4. CASE i = Len(s) + 1 /\ j = Len(s) + 1  BY <2>4
  <2> QED  BY <1>2, <2>1, <2>2, <2>3, <2>4
<1> QED  BY <1>1, <1>2, <1>3 DEF Unique

\* The first one goes.
LEMMA TailIs ==
  ASSUME NEW S, NEW s \in Seq(S), Unique(s), s # <<>>
  PROVE  Tail(s) \in Seq(S) /\ Unique(Tail(s)) /\ Len(Tail(s)) = Len(s) - 1
<1>1. /\ Tail(s) \in Seq(S) /\ Len(Tail(s)) = Len(s) - 1
      /\ \A i \in 1..Len(Tail(s)) : Tail(s)[i] = s[i + 1]
  BY HeadTailProperties
<1>2. /\ Len(s) \in Nat /\ DOMAIN s = 1..Len(s) /\ DOMAIN Tail(s) = 1..Len(Tail(s))
  BY <1>1, LenProperties
<1> QED  BY <1>1, <1>2 DEF Unique

\* The empty store, and what each kind of change makes of a store.
LEMMA EmptyOK == \A S : StoreOK(<<>>, S)
<1> SUFFICES ASSUME NEW S  PROVE StoreOK(<<>>, S)
  OBVIOUS
<1>1. <<>> \in Seq(S) /\ Len(<<>>) = 0  BY EmptySeq
<1>2. DOMAIN (<<>>) = {}  BY <1>1, LenProperties
<1>3. 0 <= MaxEntries  BY DashboardAssumption
<1> QED  BY <1>1, <1>2, <1>3 DEF StoreOK, Unique

LEMMA WithoutOK ==
  ASSUME NEW S, NEW s, StoreOK(s, S), NEW key
  PROVE  /\ StoreOK(Without(s, key), S)
         /\ \A i \in DOMAIN Without(s, key) : Without(s, key)[i].key # key
<1>1. /\ Without(s, key) \in Seq(S) /\ Unique(Without(s, key))
      /\ \A i \in DOMAIN Without(s, key) : Without(s, key)[i].key # key
      /\ Len(Without(s, key)) <= Len(s)
  BY WithoutIs DEF StoreOK
<1>2. Len(s) \in Nat /\ Len(Without(s, key)) \in Nat /\ MaxEntries \in Nat
  BY <1>1, LenProperties, DashboardAssumption DEF StoreOK
<1> QED  BY <1>1, <1>2 DEF StoreOK

\* An entry is moved to the end.
LEMMA TouchOK ==
  ASSUME NEW S, NEW s, StoreOK(s, S), NEW i \in DOMAIN s, NEW e, e = s[i]
  PROVE  StoreOK(Append(Without(s, e.key), e), S)
<1> DEFINE u == Without(s, e.key)
<1>0. Len(s) \in Nat /\ DOMAIN s = 1..Len(s) /\ MaxEntries \in Nat
  BY LenProperties, DashboardAssumption DEF StoreOK
<1>1. e \in S  BY <1>0, ElementOfSeq DEF StoreOK
<1>2. /\ u \in Seq(S) /\ Unique(u) /\ Len(u) = Len(s) - 1
      /\ \A j \in DOMAIN u : u[j].key # e.key
  BY WithoutIs DEF StoreOK
<1> HIDE DEF u
<1>3. Append(u, e) \in Seq(S) /\ Unique(Append(u, e)) /\ Len(Append(u, e)) = Len(u) + 1
  BY <1>1, <1>2, AppendIs
<1>4. Len(u) \in Nat  BY <1>2, LenProperties
<1>5. Len(Append(u, e)) <= MaxEntries  BY <1>0, <1>2, <1>3, <1>4 DEF StoreOK
<1> QED  BY <1>3, <1>5 DEF StoreOK, u

\* An entry is stored, and the least recently used one dropped.
LEMMA PutOK ==
  ASSUME NEW S, NEW s, StoreOK(s, S), NEW e \in S
  PROVE  LET t == Append(Without(s, e.key), e)
         IN StoreOK(IF Len(t) > MaxEntries THEN Tail(t) ELSE t, S)
<1> DEFINE u == Without(s, e.key)
           t == Append(u, e)
<1>1. u \in Seq(S) /\ Unique(u) /\ Len(u) <= Len(s) /\ \A i \in DOMAIN u : u[i].key # e.key
  BY WithoutIs DEF StoreOK
<1> HIDE DEF u
<1>2. t \in Seq(S) /\ Unique(t) /\ Len(t) = Len(u) + 1  BY <1>1, AppendIs
<1>3. Len(s) \in Nat /\ Len(u) \in Nat /\ MaxEntries \in Nat /\ Len(s) <= MaxEntries
  BY <1>1, LenProperties, DashboardAssumption DEF StoreOK
<1> HIDE DEF t
<1>4. CASE Len(t) > MaxEntries
  <2>1. t # <<>>  BY <1>2, <1>3, <1>4, EmptySeq
  <2>2. Tail(t) \in Seq(S) /\ Unique(Tail(t)) /\ Len(Tail(t)) = Len(t) - 1
    BY <1>2, <2>1, TailIs
  <2>3. Len(Tail(t)) <= MaxEntries  BY <1>1, <1>2, <1>3, <1>4, <2>2
  <2> QED  BY <1>4, <2>2, <2>3 DEF StoreOK, t, u
<1>5. CASE ~(Len(t) > MaxEntries)
  <2>1. Len(t) <= MaxEntries  BY <1>2, <1>3, <1>5
  <2> QED  BY <1>2, <1>5, <2>1 DEF StoreOK, t, u
<1> QED  BY <1>4, <1>5

\* The entries of a store may be of a smaller set.
LEMMA StoreOf ==
  ASSUME NEW S, NEW T, NEW s, StoreOK(s, S), \A i \in DOMAIN s : s[i] \in T
  PROVE  StoreOK(s, T)
<1>1. Len(s) \in Nat /\ DOMAIN s = 1..Len(s) /\ s \in [1..Len(s) -> S]
  BY LenProperties DEF StoreOK
<1>2. SubSeq(s, 1, Len(s)) \in Seq(T)
  <2>1. \A i \in 1..Len(s) : s[i] \in T  BY <1>1
  <2> QED  BY <1>1, <2>1, SubSeqProperties
<1>3. SubSeq(s, 1, Len(s)) = s  BY SubSeqFull DEF StoreOK
<1> QED  BY <1>2, <1>3 DEF StoreOK

-----------------------------------------------------------------------------
(* Steps that leave the clock and the deletions alone *)

TimesOK(N) == N \in [Maybe(Asked) -> [Maybe(Drives) -> Ages]]

\* The history only gets nearer, and outages more.
Nearer(N, O, N1, O1) ==
  /\ TimesOK(N) /\ TimesOK(N1)
  /\ \A k \in Maybe(Asked), d \in Maybe(Drives) : N1[k][d] <= N[k][d]
  /\ O \in Nat /\ O1 \in Nat /\ O <= O1

Grows == Nearer(named, outages, named', outages') /\ gone' = gone /\ full' \subseteq full

LEMMA Numbers ==
  /\ {TTL, MaxEntries} \subseteq Nat \ {0} /\ Flight \in Nat /\ Long \in Nat
  /\ Long = TTL + Flight /\ Ages = 0..Long /\ Ages \subseteq Nat
  /\ None \notin Ids /\ None \notin Drives /\ Env \in Maybe(Drives) /\ Asked \subseteq Keys
  /\ None \notin Asked /\ None # Active
BY DashboardAssumption DEF Long, Ages, Maybe, Keys

LEMMA StoodNearer ==
  ASSUME NEW N, NEW O, NEW N1, NEW O1, Nearer(N, O, N1, O1),
         NEW k \in Asked, NEW d \in Drives, NEW n \in Nat, Stood(k, d, n, N, O)
  PROVE  Stood(k, d, n, N1, O1)
<1>1. /\ d \in Maybe(Drives) /\ None \in Maybe(Drives)
      /\ k \in Maybe(Asked) /\ None \in Maybe(Asked)
  BY DEF Maybe
<1>2. /\ N[k][d] \in Nat /\ N1[k][d] \in Nat /\ N[k][None] \in Nat /\ N1[k][None] \in Nat
      /\ N[None][d] \in Nat /\ N1[None][d] \in Nat
      /\ N1[k][d] <= N[k][d] /\ N1[k][None] <= N[k][None] /\ N1[None][d] <= N[None][d]
  BY <1>1, Numbers DEF Nearer, TimesOK
<1> QED  BY <1>2 DEF Stood, Nearer

\* What was long enough ago is so all the more for a longer time.
LEMMA StoodLonger ==
  ASSUME NEW N, NEW O, TimesOK(N), NEW k \in Asked, NEW d \in Drives,
         NEW n \in Nat, NEW m \in Nat, n <= m, Stood(k, d, n, N, O)
  PROVE  Stood(k, d, m, N, O)
<1>1. /\ d \in Maybe(Drives) /\ None \in Maybe(Drives)
      /\ k \in Maybe(Asked) /\ None \in Maybe(Asked)
  BY DEF Maybe
<1>2. N[k][d] \in Nat /\ N[k][None] \in Nat /\ N[None][d] \in Nat
  BY <1>1, Numbers DEF TimesOK
<1> QED  BY <1>2 DEF Stood

LEMMA FineGrows ==
  ASSUME Grows
  PROVE  Fine \subseteq Fine'
<1> SUFFICES ASSUME NEW e \in Fine  PROVE EntryOK(e, named', outages', gone')
  BY DEF Fine
<1>1. e \in Entries /\ EntryOK(e, named, outages, gone)  BY DEF Fine
<1>2. e.put < TTL => Stood(e.key, e.drive, e.put + Flight, named', outages')
  <2> SUFFICES ASSUME e.put < TTL  PROVE Stood(e.key, e.drive, e.put + Flight, named', outages')
    OBVIOUS
  <2>1. e.put + Flight \in Nat /\ e.drive \in Drives  BY <1>1, Numbers DEF Entries
  <2> QED  BY <1>1, <2>1, StoodNearer DEF Grows, EntryOK
<1> QED  BY <1>1, <1>2 DEF EntryOK, Grows

LEMMA CallNearer ==
  ASSUME Grows, NEW m \in Calls, CallOK(m, named, outages, gone, full)
  PROVE  CallOK(m, named', outages', gone', full')
<1>1. m.spent \in Nat /\ TTL + Flight - 1 \in Nat /\ m.drive \in Maybe(Drives)
  BY Numbers DEF Calls
<1>2. ASSUME m.at \in {"tokens", "write", "sent", "back"}, m.drive # None
      PROVE  Stood(m.key, m.drive, m.spent, named', outages')
  BY <1>1, <1>2, StoodNearer DEF Grows, CallOK, Maybe
<1>3. ASSUME m.at = "done"
      PROVE  Stood(m.key, m.drive, TTL + Flight - 1, named', outages')
  BY <1>1, <1>3, StoodNearer DEF Grows, CallOK
<1> QED  BY <1>2, <1>3 DEF CallOK, Grows

\* One request moves, or none.
LEMMA CallStep ==
  ASSUME IInv, Grows, NEW r \in Requests, NEW m \in Calls,
         CallOK(m, named', outages', gone', full'), Become(r, m)
  PROVE  CallsLive'
<1>1. req' = [req EXCEPT ![r] = m] /\ req \in [Requests -> Calls]
  BY DEF Become, IInv, CallsLive
<1>2. req' \in [Requests -> Calls]  BY <1>1
<1>3. ASSUME NEW q \in Requests  PROVE CallOK(req'[q], named', outages', gone', full')
  <2>1. CASE q = r  BY <1>1, <2>1
  <2>2. CASE q # r
    <3>1. req'[q] = req[q] /\ req[q] \in Calls  BY <1>1, <2>2
    <3>2. CallOK(req[q], named, outages, gone, full)  BY DEF IInv, CallsLive
    <3> QED  BY <3>1, <3>2, CallNearer
  <2> QED  BY <2>1, <2>2
<1> QED  BY <1>2, <1>3 DEF CallsLive

LEMMA CallsKept ==
  ASSUME IInv, Grows, UNCHANGED req
  PROVE  CallsLive'
<1>1. \A q \in Requests : CallOK(req[q], named', outages', gone', full')
  BY CallNearer DEF IInv, CallsLive
<1> QED  BY <1>1 DEF IInv, CallsLive

\* Nothing happens to the records.
LEMMA PoolKept ==
  ASSUME IInv, UNCHANGED <<pool, outages, gone>>, full' \subseteq full
  PROVE  PoolLive' /\ Grows
<1>1. PoolLive'  BY DEF IInv, PoolLive, pool, Stands, Fallback, Designated, Meant
<1>2. \A k \in Maybe(Asked), d \in Maybe(Drives) : named[k][d] \in Nat
  BY Numbers DEF IInv, PoolLive
<1>3. Grows  BY <1>1, <1>2 DEF Grows, Nearer, IInv, PoolLive, WireLive, TimesOK, pool
<1> QED  BY <1>1, <1>3

\* The records or a session change.
LEMMA RenamedStep ==
  ASSUME IInv, cred' \in [Ids -> Maybe(Drives)], active' \in Maybe(Ids),
         loaded' \in [Workers -> Maybe(Drives)], Renamed,
         UNCHANGED <<outages, gone>>, full' \subseteq full
  PROVE  PoolLive' /\ Grows
<1>1. named' = [k \in Maybe(Asked) |-> [d \in Maybe(Drives) |->
                  IF Stands(k, d)' THEN 0 ELSE named[k][d]]]
  BY DEF Renamed, Maybe
<1>2. \A k \in Maybe(Asked), d \in Maybe(Drives) : named[k][d] \in Ages
  BY DEF IInv, PoolLive
<1>3. \A k \in Maybe(Asked), d \in Maybe(Drives) :
        named'[k][d] = IF Stands(k, d)' THEN 0 ELSE named[k][d]
  BY <1>1
<1>4. TimesOK(named')  BY <1>1, <1>2, Numbers DEF TimesOK
<1>5. \A k \in Maybe(Asked), d \in Maybe(Drives) : named'[k][d] <= named[k][d]
  BY <1>2, <1>3, Numbers
<1>6. PoolLive'  BY <1>3, <1>4 DEF PoolLive, TimesOK
<1>7. Grows  BY <1>4, <1>5 DEF Grows, Nearer, IInv, PoolLive, WireLive, TimesOK
<1> QED  BY <1>6, <1>7

\* What a load makes of a session is a drive or nothing.
LEMMA LoadIs ==
  ASSUME IInv, NEW w \in Workers, Load(w),
         cred' \in [Ids -> Maybe(Drives)], active' \in Maybe(Ids)
  PROVE  loaded' \in [Workers -> Maybe(Drives)]
<1>1. loaded \in [Workers -> Maybe(Drives)]  BY DEF IInv, PoolLive
<1>2. CASE Meant(cred', active') = None  BY <1>1, <1>2 DEF Load
<1>3. CASE Meant(cred', active') # None
  <2>1. cred'[active'] \in Maybe(Drives)  BY <1>3 DEF Meant, Maybe
  <2> QED  BY <1>1, <1>3, <2>1 DEF Load
<1> QED  BY <1>2, <1>3

\* Nothing happens to the stores.
LEMMA MemFine ==
  ASSUME IInv, Grows, NEW w \in Workers
  PROVE  StoreOK(mem[w], Fine')
<1>1. StoreOK(mem[w], Fine)  BY DEF IInv, MemLive
<1>2. mem[w] \in Seq(Fine')  BY <1>1, FineGrows, SeqMonotonic DEF StoreOK
<1> QED  BY <1>1, <1>2 DEF StoreOK

LEMMA RedisKept ==
  ASSUME IInv, Grows, UNCHANGED redis
  PROVE  RedisLive'
BY FineGrows DEF IInv, RedisLive, Distinct

\* One store becomes another, or none.
LEMMA MemStep ==
  ASSUME IInv, Grows, NEW w \in Workers, NEW s, StoreOK(s, Fine'),
         mem' = [mem EXCEPT ![w] = s]
  PROVE  MemLive'
<1>1. \A v \in Workers : StoreOK(mem[v], Fine')  BY MemFine
<1>2. mem \in [Workers -> Seq(Fine)]  BY DEF IInv, MemLive
<1>3. \A v \in Workers : mem'[v] = IF v = w THEN s ELSE mem[v]  BY <1>2
<1>4. \A v \in Workers : StoreOK(mem'[v], Fine')  BY <1>1, <1>3
<1>5. mem' \in [Workers -> Seq(Fine')]  BY <1>1, <1>2 DEF StoreOK
<1> QED  BY <1>4, <1>5 DEF MemLive, StoreOK, Unique

LEMMA MemKept ==
  ASSUME IInv, Grows, UNCHANGED mem
  PROVE  MemLive'
<1>1. \A v \in Workers : StoreOK(mem[v], Fine')  BY MemFine
<1>2. mem' \in [Workers -> Seq(Fine')]  BY <1>1 DEF IInv, MemLive, StoreOK
<1> QED  BY <1>1, <1>2 DEF MemLive, StoreOK, Unique

\* What the cache answers is in order and counts, in either tier.
LEMMA CachedIs ==
  ASSUME IInv, NEW w \in Workers, NEW k, NEW e \in Cached(w, k)
  PROVE  /\ e \in Fine /\ e.key = Key(k) /\ e.put < TTL
         /\ down => \E i \in DOMAIN mem[w] : e = mem[w][i]
<1>1. DOMAIN mem[w] = 1..Len(mem[w]) /\ \A i \in 1..Len(mem[w]) : mem[w][i] \in Fine
  BY LenProperties, ElementOfSeq DEF IInv, MemLive, StoreOK
<1> QED  BY <1>1 DEF Cached, IInv, RedisLive

LEMMA LookedStep ==
  ASSUME IInv, Grows, NEW w \in Workers, NEW k, Looked(w, k)
  PROVE  MemLive'
<1>1. StoreOK(mem[w], Fine')  BY MemFine
<1>2. CASE ~down
  BY <1>2, MemKept DEF Looked
<1>3. CASE down /\ Cached(w, k) = {}
  <2>1. StoreOK(Without(mem[w], Key(k)), Fine')  BY <1>1, WithoutOK
  <2>2. mem' = [mem EXCEPT ![w] = Without(mem[w], Key(k))]  BY <1>3 DEF Looked
  <2> QED  BY <2>1, <2>2, MemStep
<1>4. CASE down /\ Cached(w, k) # {}
  <2> DEFINE e == CHOOSE e \in Cached(w, k) : TRUE
  <2>1. e \in Cached(w, k)  BY <1>4
  <2>2. mem' = [mem EXCEPT ![w] = Touch(w, e)]  BY <1>4 DEF Looked
  <2> HIDE DEF e
  <2>3. PICK i \in DOMAIN mem[w] : e = mem[w][i]  BY <1>4, <2>1, CachedIs
  <2>4. StoreOK(Touch(w, e), Fine')  BY <1>1, <2>3, TouchOK DEF Touch
  <2> QED  BY <2>2, <2>4, MemStep
<1> QED  BY <1>2, <1>3, <1>4

LEMMA PutStep ==
  ASSUME IInv, Grows, NEW w \in Workers, NEW e \in Fine', e.put = 0, Put(w, e)
  PROVE  RedisLive' /\ MemLive'
<1>1. RedisLive'
  <2> DEFINE stored == {x \in redis : x.key # e.key} \union {e}
  <2>1. redis' = stored \/ redis' = redis  BY DEF Put
  <2>2. CASE redis' = stored
    <3>1. stored \subseteq Fine' /\ Distinct(stored)
      BY FineGrows DEF IInv, RedisLive, Distinct
    <3>2. \A x \in stored : x.put < TTL  BY Numbers DEF IInv, RedisLive
    <3> QED  BY <2>2, <3>1, <3>2 DEF RedisLive, Distinct
  <2> QED  BY <2>1, <2>2, RedisKept
<1>2. MemLive'
  <2> DEFINE t == Append(Without(mem[w], e.key), e)
             s == IF Len(t) > MaxEntries THEN Tail(t) ELSE t
  <2>1. StoreOK(s, Fine')  BY MemFine, PutOK
  <2>2. IF down THEN mem' = [mem EXCEPT ![w] = s] ELSE mem' = mem  BY DEF Put
  <2> HIDE DEF s
  <2> QED  BY <2>1, <2>2, MemStep, MemKept
<1> QED  BY <1>1, <1>2

\* A purge leaves a store in order, without the entries of the account.
LEMMA PurgedOK ==
  ASSUME NEW S, NEW s, StoreOK(s, S), NEW k
  PROVE  /\ StoreOK(Purged(s, k), S)
         /\ \A i \in DOMAIN Purged(s, k) : Purged(s, k)[i].key \notin Scope(k)
<1>1. CASE k = Active
  <2>1. Purged(s, k) = <<>>  BY <1>1 DEF Purged
  <2>2. DOMAIN (<<>>) = {}
    <3>1. <<>> \in Seq(S) /\ Len(<<>>) = 0  BY EmptySeq
    <3> QED  BY <3>1, LenProperties
  <2> QED  BY <2>1, <2>2, EmptyOK
<1>2. CASE k # Active
  BY <1>2, WithoutOK DEF Purged, Scope
<1> QED  BY <1>1, <1>2

LEMMA PurgeStep ==
  ASSUME IInv, Grows, NEW w \in Workers, NEW k, Purge(w, k)
  PROVE  RedisLive' /\ MemLive'
<1>1. redis' \subseteq redis  BY DEF Purge
<1>2. RedisLive'  BY <1>1, FineGrows DEF IInv, RedisLive, Distinct
<1>3. StoreOK(Purged(mem[w], k), Fine')  BY MemFine, PurgedOK
<1>4. mem' = [mem EXCEPT ![w] = Purged(mem[w], k)]  BY DEF Purge
<1> QED  BY <1>2, <1>3, <1>4, MemStep

-----------------------------------------------------------------------------
(* The requests *)

LEMMA IdleIs ==
  /\ Idle \in Calls
  /\ \A N, O, G, F : CallOK(Idle, N, O, G, F)
BY Numbers DEF Idle, Calls, CallOK, Maybe, Keys

LEMMA InitIInv == Init => IInv
<1> SUFFICES ASSUME Init  PROVE IInv
  OBVIOUS
<1>1. cred \in [Ids -> Maybe(Drives)] /\ active \in Maybe(Ids)
  BY DashboardAssumption DEF Init, Maybe
<1>2. loaded \in [Workers -> Maybe(Drives)]
  <2>1. Designated(Active) \in Maybe(Drives)
    BY <1>1, Numbers DEF Designated, Meant, Maybe
  <2> QED  BY <2>1, Numbers DEF Init
<1>3. named = [k \in Maybe(Asked) |-> [d \in Maybe(Drives) |-> IF Stands(k, d) THEN 0 ELSE Long]]
  BY DEF Init, Maybe
<1>4. PoolLive
  <2>1. named \in [Maybe(Asked) -> [Maybe(Drives) -> Ages]]  BY <1>3, Numbers
  <2> QED  BY <1>1, <1>2, <1>3, <2>1 DEF PoolLive
<1>5. WireLive /\ GoneLive  BY DEF Init, WireLive, GoneLive
<1>6. RedisLive  BY DEF Init, RedisLive, Distinct
<1>7. MemLive
  <2>1. StoreOK(<<>>, Fine)  BY EmptyOK
  <2> QED  BY <2>1 DEF Init, MemLive, StoreOK
<1>8. CallsLive  BY IdleIs DEF Init, CallsLive
<1> QED  BY <1>4, <1>5, <1>6, <1>7, <1>8 DEF IInv

\* What a request that arrives goes for is what its key stands for, or what its
\* worker takes without a record.
LEMMA CredentialsNow ==
  ASSUME IInv, NEW w \in Workers, NEW k \in Asked
  PROVE  /\ Credentials(w, k) \in Maybe(Drives)
         /\ Credentials(w, k) # None => Stood(k, Credentials(w, k), 0, named, outages)
<1>1. Designated(k) \in Maybe(Drives)
  BY Numbers DEF IInv, PoolLive, Designated, Meant, Maybe, Keys
<1>2. Fallback(w) \in Maybe(Drives)  BY Numbers DEF Fallback, IInv, PoolLive
<1>3. named[k][Designated(k)] = 0 /\ named[None][Fallback(w)] = 0
  <2>1. k # None /\ k \in Maybe(Asked) /\ None \in Maybe(Asked)  BY Numbers DEF Maybe
  <2>2. Stands(k, Designated(k)) /\ Stands(None, Fallback(w))  BY <2>1 DEF Stands
  <2> QED  BY <1>1, <1>2, <2>1, <2>2 DEF IInv, PoolLive
<1>4. CASE ~down /\ Designated(k) # None
  BY <1>1, <1>3, <1>4 DEF Credentials, Stood
<1>5. CASE down
  <2>1. outages > 0  BY <1>5 DEF IInv, WireLive
  <2> QED  BY <1>2, <1>3, <1>5, <2>1 DEF Credentials, Stood
<1>6. CASE ~down /\ Designated(k) = None
  BY <1>2, <1>3, <1>6 DEF Credentials, Stood
<1> QED  BY <1>4, <1>5, <1>6

LEMMA SendStep ==
  ASSUME IInv, Grows, UNCHANGED <<named, outages>>,
         NEW r \in Requests, NEW op \in {"list", "delete"},
         NEW w \in Workers, NEW k \in Asked, Send(r, op, w, k)
  PROVE  CallsLive'
<1> DEFINE id == IF k # Active THEN k ELSE IF down THEN None ELSE active
           looked == id \in Bare /\ (Env # None \/ (~down /\ Designated(k) # None))
           C == Credentials(w, k)
           m == [Idle EXCEPT !.at = IF looked THEN "tokens" ELSE "sent",
                   !.op = op, !.w = w, !.key = k, !.id = IF looked THEN id ELSE None,
                   !.drive = C]
<1>1. Become(r, m)  BY DEF Send
<1>2. id \in Maybe(Ids)  BY Numbers DEF IInv, PoolLive, Maybe, Keys
<1>3. C \in Maybe(Drives) /\ (C # None => Stood(k, C, 0, named', outages'))
  BY CredentialsNow
<1> HIDE DEF id, looked, C
<1>4. /\ m.at \in {"tokens", "sent"} /\ m.key = k /\ m.w = w /\ m.drive = C
      /\ ~m.has /\ m.taken = 0 /\ m.spent = 0
  BY DEF Idle
<1>5. m \in Calls
  <2>1. Idle \in Calls /\ k \in Keys  BY IdleIs, Numbers
  <2> QED  BY <1>2, <1>3, <2>1 DEF Calls, Maybe
<1> HIDE DEF m
<1>6. CallOK(m, named', outages', gone', full')  BY <1>3, <1>4 DEF CallOK
<1> QED  BY <1>1, <1>5, <1>6, CallStep

LEMMA HitStep ==
  ASSUME IInv, NEW r \in Requests, Hit(r)  PROVE IInv'
<1>1. PICK w \in Workers, k \in Asked :
        /\ Looked(w, k)
        /\ \E e \in Cached(w, k) :
             Become(r, [Idle EXCEPT !.at = "done", !.w = w, !.key = k, !.drive = e.drive,
                                    !.has = e.has, !.taken = e.taken])
  BY DEF Hit
<1>2. PICK e \in Cached(w, k) :
        Become(r, [Idle EXCEPT !.at = "done", !.w = w, !.key = k, !.drive = e.drive,
                               !.has = e.has, !.taken = e.taken])
  BY <1>1
<1> DEFINE m == [Idle EXCEPT !.at = "done", !.w = w, !.key = k, !.drive = e.drive,
                             !.has = e.has, !.taken = e.taken]
<1>3. PoolLive' /\ Grows  BY PoolKept DEF Hit, wire
<1>4. RedisLive' /\ MemLive'  BY <1>1, <1>3, RedisKept, LookedStep DEF Hit
<1>5. e \in Fine /\ e.key = k /\ e.put < TTL  BY CachedIs DEF Key
<1>6. /\ e.put \in Nat /\ e.taken \in Ages /\ e.taken <= e.put + Flight
      /\ e.drive \in Drives /\ e.has \in BOOLEAN
      /\ Stood(k, e.drive, e.put + Flight, named, outages)
      /\ e.has => <<k, e.drive>> \notin gone
  BY <1>5, Numbers DEF Fine, Entries, EntryOK
<1>7. e.taken < TTL + Flight /\ e.put + Flight <= TTL + Flight - 1
      /\ e.put + Flight \in Nat /\ TTL + Flight - 1 \in Nat
  BY <1>5, <1>6, Numbers
<1>8. Stood(k, e.drive, TTL + Flight - 1, named, outages)
  <2>1. TimesOK(named)  BY DEF IInv, PoolLive, TimesOK
  <2> QED  BY <1>6, <1>7, <2>1, StoodLonger
<1>9. /\ m.at = "done" /\ m.op = "list" /\ m.key = k /\ m.w = w /\ m.drive = e.drive
      /\ m.has = e.has /\ m.taken = e.taken
  BY DEF Idle
<1>10. m \in Calls
  <2>1. Idle \in Calls /\ k \in Keys  BY IdleIs, Numbers
  <2> QED  BY <1>6, <2>1 DEF Calls, Maybe
<1>11. Become(r, m)  BY <1>2
<1> HIDE DEF m
<1>12. CallOK(m, named, outages, gone, full)  BY <1>6, <1>7, <1>8, <1>9 DEF CallOK
<1>13. CallsLive'  BY <1>3, <1>10, <1>11, <1>12, CallNearer, CallStep
<1> QED  BY <1>3, <1>4, <1>13 DEF IInv, Hit, WireLive, GoneLive, wire

LEMMA MissStep ==
  ASSUME IInv, NEW r \in Requests, Miss(r)  PROVE IInv'
<1>1. PICK w \in Workers, k \in Asked :
        (UNCHANGED mem \/ (Cached(w, k) = {} /\ Looked(w, k))) /\ Send(r, "list", w, k)
  BY DEF Miss
<1>2. PoolLive' /\ Grows  BY PoolKept DEF Miss, wire
<1>3. RedisLive' /\ MemLive'  BY <1>1, <1>2, RedisKept, MemKept, LookedStep DEF Miss
<1>4. CallsLive'  BY <1>1, <1>2, SendStep DEF Miss, pool, wire
<1> QED  BY <1>2, <1>3, <1>4 DEF IInv, Miss, WireLive, GoneLive, wire

LEMMA DeleteStep ==
  ASSUME IInv, NEW r \in Requests, Delete(r)  PROVE IInv'
<1>1. PICK w \in Workers, k \in Asked : Send(r, "delete", w, k)  BY DEF Delete
<1>2. PoolLive' /\ Grows  BY PoolKept DEF Delete, wire
<1>3. RedisLive' /\ MemLive'  BY <1>2, RedisKept, MemKept DEF Delete, stores
<1>4. CallsLive'  BY <1>1, <1>2, SendStep DEF Delete, pool, wire
<1> QED  BY <1>2, <1>3, <1>4 DEF IInv, Delete, WireLive, GoneLive, wire

\* A request moves on and leaves the records and the stores alone.
LEMMA MoveStep ==
  ASSUME IInv, NEW r \in Requests, NEW m \in Calls, Become(r, m),
         CallOK(m, named, outages, gone, full'),
         UNCHANGED <<pool, stores, gone, wire>>, full' \subseteq full
  PROVE  IInv'
<1>1. PoolLive' /\ Grows  BY PoolKept DEF wire
<1>2. RedisLive' /\ MemLive'  BY <1>1, RedisKept, MemKept DEF stores
<1>3. CallsLive'
  <2>1. CallOK(m, named', outages', gone', full')  BY DEF pool, wire
  <2> QED  BY <1>1, <2>1, CallStep
<1>4. WireLive' /\ GoneLive'  BY DEF IInv, WireLive, GoneLive, wire
<1> QED  BY <1>1, <1>2, <1>3, <1>4 DEF IInv

LEMMA CallIs ==
  ASSUME IInv, NEW r \in Requests
  PROVE  req[r] \in Calls /\ CallOK(req[r], named, outages, gone, full)
BY DEF IInv, CallsLive

LEMMA ResolvedStep ==
  ASSUME IInv, NEW r \in Requests, Resolved(r)  PROVE IInv'
<1> DEFINE c == req[r]
<1>1. c.at = "tokens" /\ c \in Calls /\ CallOK(c, named, outages, gone, full)
  BY CallIs DEF Resolved, At
<1>2. CASE Become(r, [c EXCEPT !.at = "sent", !.id = None])
  <2> DEFINE m == [c EXCEPT !.at = "sent", !.id = None]
  <2>1. m \in Calls  BY <1>1 DEF Calls, Maybe
  <2>2. /\ m.at = "sent" /\ m.key = c.key /\ m.w = c.w /\ m.drive = c.drive
        /\ m.spent = c.spent /\ m.has = c.has /\ m.taken = c.taken
    BY <1>1 DEF Calls
  <2> HIDE DEF m, c
  <2>3. CallOK(m, named, outages, gone, full')  BY <1>1, <2>2 DEF CallOK, Resolved
  <2>4. Become(r, m)  BY <1>2 DEF m
  <2> QED  BY <2>1, <2>3, <2>4, MoveStep DEF Resolved
<1>3. CASE /\ c.id # None /\ cred[c.id] # None
           /\ Become(r, [c EXCEPT !.at = "write", !.rec = cred[c.id]])
  <2> DEFINE m == [c EXCEPT !.at = "write", !.rec = cred[c.id]]
  <2>1. c.id \in Ids  BY <1>1, <1>3 DEF Calls, Maybe
  <2>2. cred[c.id] \in Drives  BY <1>3, <2>1 DEF IInv, PoolLive, Maybe
  <2>3. m \in Calls  BY <1>1, <2>2 DEF Calls, Maybe
  <2>4. /\ m.at = "write" /\ m.key = c.key /\ m.w = c.w /\ m.drive = c.drive
        /\ m.spent = c.spent /\ m.has = c.has /\ m.taken = c.taken
        /\ m.id = c.id /\ m.rec = cred[c.id]
    BY <1>1 DEF Calls
  <2>5. Become(r, m)  BY <1>3
  <2> HIDE DEF m, c
  <2>6. CallOK(m, named, outages, gone, full')
    BY <1>1, <2>1, <2>2, <2>4 DEF CallOK, Resolved
  <2> QED  BY <2>3, <2>5, <2>6, MoveStep DEF Resolved
<1> QED  BY <1>2, <1>3 DEF Resolved

LEMMA WriteStep ==
  ASSUME IInv, NEW r \in Requests, Write(r)  PROVE IInv'
<1> DEFINE c == req[r]
           m == [c EXCEPT !.at = "sent", !.id = None, !.rec = None]
<1>1. c.at = "write" /\ c \in Calls /\ CallOK(c, named, outages, gone, full)
  BY CallIs DEF Write, At
<1>2. c.id \in Ids /\ c.rec \in Drives  BY <1>1 DEF CallOK
<1>3. /\ cred' \in [Ids -> Maybe(Drives)] /\ active' \in Maybe(Ids)
      /\ loaded' \in [Workers -> Maybe(Drives)]
  BY <1>2 DEF Write, IInv, PoolLive, Maybe
<1>4. PoolLive' /\ Grows  BY <1>3, RenamedStep DEF Write, wire
<1>5. RedisLive' /\ MemLive'  BY <1>4, RedisKept, MemKept DEF Write, stores
<1>6. m \in Calls  BY <1>1 DEF Calls, Maybe
<1>7. /\ m.at = "sent" /\ m.key = c.key /\ m.w = c.w /\ m.drive = c.drive
      /\ m.spent = c.spent /\ m.has = c.has /\ m.taken = c.taken
  BY <1>1 DEF Calls
<1>8. Become(r, m)  BY DEF Write
<1>9. CallOK(c, named', outages', gone', full')  BY <1>1, <1>4, CallNearer
<1> HIDE DEF m, c
<1>10. CallOK(m, named', outages', gone', full')  BY <1>1, <1>7, <1>9 DEF CallOK
<1>11. CallsLive'  BY <1>4, <1>6, <1>8, <1>10, CallStep
<1>12. WireLive' /\ GoneLive'  BY DEF Write, IInv, WireLive, GoneLive, wire
<1> QED  BY <1>4, <1>5, <1>11, <1>12 DEF IInv

LEMMA SnapStep ==
  ASSUME IInv, NEW r \in Requests, Snap(r)  PROVE IInv'
<1> DEFINE c == req[r]
           m == [c EXCEPT !.at = "back", !.has = c.drive \in full]
<1>1. /\ c.at = "sent" /\ c.op = "list" /\ c.drive # None
      /\ c \in Calls /\ CallOK(c, named, outages, gone, full)
  BY CallIs DEF Snap, At
<1>2. (c.drive \in full) \in BOOLEAN  OBVIOUS
<1>3. m \in Calls  BY <1>1, <1>2 DEF Calls
<1>4. /\ m.at = "back" /\ m.op = "list" /\ m.key = c.key /\ m.w = c.w /\ m.drive = c.drive
      /\ m.spent = c.spent /\ m.taken = c.taken /\ m.has = (c.drive \in full)
  BY <1>1 DEF Calls
<1>5. m.has => <<m.key, m.drive>> \notin gone  BY <1>4 DEF IInv, GoneLive
<1>6. Become(r, m)  BY DEF Snap
<1>7. c.spent \in Nat /\ c.drive \in Drives  BY <1>1, Numbers DEF Calls, Maybe
<1> HIDE DEF m, c
<1>8. CallOK(m, named, outages, gone, full')
  <2>1. Stood(m.key, m.drive, m.spent, named, outages) /\ m.taken <= m.spent
    BY <1>1, <1>4, <1>7 DEF CallOK
  <2> QED  BY <1>1, <1>4, <1>5, <1>7, <2>1 DEF CallOK
<1> QED  BY <1>3, <1>6, <1>8, MoveStep DEF Snap

LEMMA EraseStep ==
  ASSUME IInv, NEW r \in Requests, Erase(r)  PROVE IInv'
<1> DEFINE c == req[r]
           m == [c EXCEPT !.at = "back"]
<1>1. /\ c.at = "sent" /\ c.op = "delete" /\ c.drive # None
      /\ c \in Calls /\ CallOK(c, named, outages, gone, full)
  BY CallIs DEF Erase, At
<1>2. m \in Calls  BY <1>1 DEF Calls
<1>3. /\ m.at = "back" /\ m.op = "delete" /\ m.key = c.key /\ m.w = c.w /\ m.drive = c.drive
      /\ m.spent = c.spent /\ m.taken = c.taken /\ m.has = c.has
  BY <1>1 DEF Calls
<1>4. Become(r, m) /\ full' = full \ {c.drive}  BY DEF Erase
<1>5. c.spent \in Nat /\ c.drive \in Drives  BY <1>1, Numbers DEF Calls, Maybe
<1> HIDE DEF m, c
<1>6. CallOK(m, named, outages, gone, full')
  BY <1>1, <1>3, <1>4, <1>5 DEF CallOK
<1> QED  BY <1>2, <1>4, <1>6, MoveStep DEF Erase

LEMMA FailedStep ==
  ASSUME IInv, NEW r \in Requests, Failed(r)  PROVE IInv'
BY IdleIs, MoveStep DEF Failed

LEMMA ReturnStep ==
  ASSUME IInv, NEW r \in Requests, Return(r)  PROVE IInv'
BY IdleIs, MoveStep DEF Return

LEMMA AnswerStep ==
  ASSUME IInv, NEW r \in Requests, Answer(r)  PROVE IInv'
<1> DEFINE c == req[r]
           e == [key |-> Key(c.key), drive |-> c.drive, has |-> c.has,
                 taken |-> c.taken, put |-> 0]
           m == [c EXCEPT !.at = "done"]
<1>1. /\ c.at = "back" /\ c.op = "list"
      /\ c \in Calls /\ CallOK(c, named, outages, gone, full)
  BY CallIs DEF Answer, At
<1>2. PoolLive' /\ Grows  BY PoolKept DEF Answer, wire
<1>3. /\ c.key \in Asked /\ c.w \in Workers /\ c.drive \in Drives /\ c.has \in BOOLEAN
      /\ c.taken \in Ages /\ c.taken \in Nat /\ c.spent \in Nat /\ c.spent <= Flight
      /\ c.taken <= c.spent /\ (c.has => <<c.key, c.drive>> \notin gone)
      /\ Stood(c.key, c.drive, c.spent, named, outages)
  BY <1>1, Numbers DEF Calls, CallOK
<1>4. TimesOK(named)  BY DEF IInv, PoolLive, TimesOK
<1>5. e \in Fine
  <2>1. Stood(c.key, c.drive, 0 + Flight, named, outages)
    BY <1>3, <1>4, Numbers, StoodLonger
  <2>2. /\ e.key = c.key /\ e.drive = c.drive /\ e.has = c.has /\ e.taken = c.taken
        /\ e.put = 0
    BY DEF Key
  <2>3. e \in Entries  BY <1>3, Numbers DEF Entries, Key
  <2> HIDE DEF e, c
  <2>4. EntryOK(e, named, outages, gone)  BY <1>3, <2>1, <2>2, Numbers DEF EntryOK
  <2> QED  BY <2>3, <2>4 DEF Fine
<1>6. e.put = 0 /\ Put(c.w, e)  BY DEF Answer
<1> HIDE DEF e
<1>7. RedisLive' /\ MemLive'  BY <1>2, <1>3, <1>5, <1>6, FineGrows, PutStep
<1>8. m \in Calls  BY <1>1 DEF Calls
<1>9. /\ m.at = "done" /\ m.op = "list" /\ m.key = c.key /\ m.w = c.w /\ m.drive = c.drive
      /\ m.spent = c.spent /\ m.taken = c.taken /\ m.has = c.has
  BY <1>1 DEF Calls
<1>10. Become(r, m)  BY DEF Answer
<1>11. Stood(c.key, c.drive, TTL + Flight - 1, named, outages)
  <2>1. c.spent <= TTL + Flight - 1 /\ TTL + Flight - 1 \in Nat  BY <1>3, Numbers
  <2> QED  BY <1>3, <1>4, <2>1, StoodLonger
<1>12. c.taken < TTL + Flight  BY <1>3, Numbers
<1> HIDE DEF m, c
<1>13. CallOK(m, named, outages, gone, full)  BY <1>3, <1>9, <1>11, <1>12 DEF CallOK
<1>14. CallsLive'  BY <1>2, <1>8, <1>10, <1>13, CallNearer, CallStep
<1>15. WireLive' /\ GoneLive'  BY DEF Answer, IInv, WireLive, GoneLive, wire
<1> QED  BY <1>2, <1>7, <1>14, <1>15 DEF IInv

\* A confirmed deletion purges the entries of its account; what it counts as gone
\* is in no store and no listing any more.
LEMMA ConfirmStep ==
  ASSUME IInv, NEW r \in Requests, Confirm(r), \A q \in Requests : req[q].at # "done"
  PROVE  IInv'
<1> DEFINE c == req[r]
           cleared == {k \in Scope(c.key) \intersect Asked : Clear(c.w, k)}
<1>1. /\ c.at = "back" /\ c.op = "delete"
      /\ c \in Calls /\ CallOK(c, named, outages, gone, full)
  BY CallIs DEF Confirm, At
<1>2. c.w \in Workers /\ c.drive \notin full  BY <1>1 DEF CallOK
<1>3. /\ Purge(c.w, c.key) /\ Become(r, Idle)
      /\ gone' = gone \union {<<k, c.drive>> : k \in cleared}
      /\ UNCHANGED <<pool, full, wire>>
  BY DEF Confirm
<1>4. ASSUME NEW k \in cleared
      PROVE  /\ ~down /\ k \in Scope(c.key)
             /\ \A q \in Requests : ~(req[q].at = "back" /\ req[q].key = k /\ req[q].has)
             /\ \A v \in Workers \ {c.w} : \A i \in DOMAIN mem[v] : mem[v][i].key # k
  BY DEF Clear
<1>5. PoolLive'  BY <1>3 DEF IInv, PoolLive, pool, Stands, Fallback, Designated, Meant
<1>6. WireLive'  BY <1>3 DEF IInv, WireLive, wire
<1>7. GoneLive'  BY <1>2, <1>3 DEF IInv, GoneLive
<1> HIDE DEF cleared
<1>8. ASSUME NEW e \in Fine, e.key \notin cleared
      PROVE  e \in Fine'
  <2>1. EntryOK(e, named, outages, gone)  BY DEF Fine
  <2>2. e.has => <<e.key, e.drive>> \notin gone'  BY <1>3, <1>8, <2>1 DEF EntryOK
  <2>3. EntryOK(e, named', outages', gone')
    BY <1>3, <2>1, <2>2 DEF EntryOK, pool, wire
  <2> QED  BY <2>3 DEF Fine
<1>9. RedisLive'
  <2>1. \A e \in redis' : e \in redis /\ e.key \notin cleared
    BY <1>3, <1>4 DEF Purge
  <2>2. redis' \subseteq Fine'  BY <1>8, <2>1 DEF IInv, RedisLive
  <2> QED  BY <2>1, <2>2 DEF IInv, RedisLive, Distinct
<1>10. MemLive'
  <2>1. ASSUME NEW v \in Workers  PROVE StoreOK(mem'[v], Fine')
    <3>1. StoreOK(mem[v], Fine) /\ mem \in [Workers -> Seq(Fine)]  BY DEF IInv, MemLive
    <3>2. mem' = [mem EXCEPT ![c.w] = Purged(mem[c.w], c.key)]  BY <1>3 DEF Purge
    <3>3. /\ StoreOK(mem'[v], Fine)
          /\ \A i \in DOMAIN mem'[v] : mem'[v][i].key \notin cleared
      <4>1. CASE v = c.w
        <5>1. mem'[v] = Purged(mem[v], c.key)  BY <3>1, <3>2, <4>1
        <5>2. StoreOK(mem'[v], Fine) /\ \A i \in DOMAIN mem'[v] : mem'[v][i].key \notin Scope(c.key)
          BY <3>1, <5>1, PurgedOK
        <5> QED  BY <1>4, <5>2
      <4>2. CASE v # c.w
        <5>1. mem'[v] = mem[v]  BY <3>1, <3>2, <4>2
        <5> QED  BY <1>4, <3>1, <4>2, <5>1
      <4> QED  BY <4>1, <4>2
    <3>4. \A i \in DOMAIN mem'[v] : mem'[v][i] \in Fine
      BY <3>3, LenProperties, ElementOfSeq DEF StoreOK
    <3> QED  BY <1>8, <3>3, <3>4, StoreOf
  <2>2. mem' \in [Workers -> Seq(Fine')]
    <3>1. DOMAIN mem' = Workers /\ mem' = [v \in Workers |-> mem'[v]]
      BY <1>3 DEF Purge, IInv, MemLive
    <3> QED  BY <2>1, <3>1 DEF StoreOK
  <2> QED  BY <2>1, <2>2 DEF MemLive, StoreOK, Unique
<1>11. CallsLive'
  <2>1. req' = [req EXCEPT ![r] = Idle] /\ req \in [Requests -> Calls]
    BY <1>3 DEF Become, IInv, CallsLive
  <2>2. req' \in [Requests -> Calls]  BY <2>1, IdleIs
  <2>3. ASSUME NEW q \in Requests  PROVE CallOK(req'[q], named', outages', gone', full')
    <3>1. CASE q = r  BY <2>1, <3>1, IdleIs
    <3>2. CASE q # r
      <4> DEFINE m == req[q]
      <4>1. req'[q] = m /\ m.at # "done" /\ m \in Calls  BY <2>1, <3>2
      <4>2. CallOK(m, named, outages, gone, full)  BY CallIs
      <4>3. m.has => m.at = "back"  BY <4>1, <4>2 DEF CallOK
      <4>4. m.has => m.key \notin cleared  BY <1>4, <4>3
      <4> HIDE DEF m
      <4>5. m.has => <<m.key, m.drive>> \notin gone'  BY <1>3, <4>2, <4>4 DEF CallOK
      <4>6. named' = named /\ outages' = outages /\ full' = full  BY <1>3 DEF pool, wire
      <4>7. CallOK(m, named', outages', gone', full')  BY <4>2, <4>5, <4>6 DEF CallOK
      <4> QED  BY <4>1, <4>7
    <3> QED  BY <3>1, <3>2
  <2> QED  BY <2>2, <2>3 DEF CallsLive
<1> QED  BY <1>5, <1>6, <1>7, <1>9, <1>10, <1>11 DEF IInv

-----------------------------------------------------------------------------
(* The records, Redis and time *)

LEMMA UpdateStep ==
  ASSUME IInv, NEW w \in Workers, NEW id \in Ids, Update(w, id)  PROVE IInv'
<1>1. cred' \in [Ids -> Maybe(Drives)] /\ active' \in Maybe(Ids)
  BY DEF Update, IInv, PoolLive, Maybe
<1>2. loaded' \in [Workers -> Maybe(Drives)]
  BY <1>1, LoadIs DEF Update, IInv, PoolLive
<1>3. PoolLive' /\ Grows  BY <1>1, <1>2, RenamedStep DEF Update, Change, wire
<1>4. RedisLive' /\ MemLive'  BY <1>3, PurgeStep DEF Update
<1>5. CallsLive'  BY <1>3, CallsKept DEF Update, Change
<1> QED  BY <1>3, <1>4, <1>5 DEF IInv, Update, Change, WireLive, GoneLive, wire

LEMMA RemoveStep ==
  ASSUME IInv, NEW w \in Workers, NEW id \in Ids, RemoveRecord(w, id)  PROVE IInv'
<1>1. cred' \in [Ids -> Maybe(Drives)] /\ active' \in Maybe(Ids)
  BY DEF RemoveRecord, IInv, PoolLive, Maybe
<1>2. loaded' \in [Workers -> Maybe(Drives)]
  BY <1>1, LoadIs DEF RemoveRecord, IInv, PoolLive
<1>3. PoolLive' /\ Grows  BY <1>1, <1>2, RenamedStep DEF RemoveRecord, Change, wire
<1>4. RedisLive' /\ MemLive'  BY <1>3, PurgeStep DEF RemoveRecord
<1>5. CallsLive'  BY <1>3, CallsKept DEF RemoveRecord, Change
<1> QED  BY <1>3, <1>4, <1>5 DEF IInv, RemoveRecord, Change, WireLive, GoneLive, wire

LEMMA ActivateStep ==
  ASSUME IInv, NEW w \in Workers, NEW id \in Ids, Activate(w, id)  PROVE IInv'
<1>1. cred' \in [Ids -> Maybe(Drives)] /\ active' \in Maybe(Ids)
  BY DEF Activate, IInv, PoolLive, Maybe
<1>2. loaded' \in [Workers -> Maybe(Drives)]
  BY <1>1, LoadIs DEF Activate, IInv, PoolLive
<1>3. PoolLive' /\ Grows  BY <1>1, <1>2, RenamedStep DEF Activate, Change, wire
<1>4. RedisLive' /\ MemLive'  BY <1>3, RedisKept, MemKept DEF Activate, stores
<1>5. CallsLive'  BY <1>3, CallsKept DEF Activate, Change
<1> QED  BY <1>3, <1>4, <1>5 DEF IInv, Activate, Change, WireLive, GoneLive, wire

LEMMA ReloadStep ==
  ASSUME IInv, NEW w \in Workers, Reload(w)  PROVE IInv'
<1>1. cred' \in [Ids -> Maybe(Drives)] /\ active' \in Maybe(Ids)
  BY DEF Reload, IInv, PoolLive
<1>2. loaded' \in [Workers -> Maybe(Drives)]  BY <1>1, LoadIs DEF Reload
<1>3. PoolLive' /\ Grows  BY <1>1, <1>2, RenamedStep DEF Reload, wire
<1>4. RedisLive' /\ MemLive'  BY <1>3, RedisKept, MemKept DEF Reload, stores
<1>5. CallsLive'  BY <1>3, CallsKept DEF Reload
<1> QED  BY <1>3, <1>4, <1>5 DEF IInv, Reload, WireLive, GoneLive, wire

LEMMA OutageStep ==
  ASSUME IInv, Outage  PROVE IInv'
<1>1. outages \in Nat /\ outages' = outages + 1 /\ down' = TRUE  BY DEF Outage, IInv, WireLive
<1>2. PoolLive'  BY DEF Outage, IInv, PoolLive, pool, Stands, Fallback, Designated, Meant
<1>3. \A k \in Maybe(Asked), d \in Maybe(Drives) : named[k][d] \in Nat
  BY Numbers DEF IInv, PoolLive
<1>4. Grows
  BY <1>1, <1>3 DEF Outage, Grows, Nearer, IInv, PoolLive, TimesOK, pool
<1>5. RedisLive' /\ MemLive'  BY <1>4, RedisKept, MemKept DEF Outage, stores
<1>6. CallsLive'  BY <1>4, CallsKept DEF Outage
<1>7. WireLive' /\ GoneLive'  BY <1>1 DEF Outage, IInv, WireLive, GoneLive
<1> QED  BY <1>2, <1>5, <1>6, <1>7 DEF IInv

LEMMA RecoverStep ==
  ASSUME IInv, Recover  PROVE IInv'
<1>1. PoolLive' /\ Grows  BY PoolKept DEF Recover
<1>2. RedisLive' /\ MemLive'  BY <1>1, RedisKept, MemKept DEF Recover, stores
<1>3. CallsLive'  BY <1>1, CallsKept DEF Recover
<1>4. WireLive' /\ GoneLive'  BY DEF Recover, IInv, WireLive, GoneLive
<1> QED  BY <1>1, <1>2, <1>3, <1>4 DEF IInv

LEMMA OlderIs ==
  ASSUME NEW a \in Ages
  PROVE  /\ Older(a) \in Ages /\ Older(a) \in Nat /\ Older(a) <= a + 1
         /\ a < Long => Older(a) = a + 1
         /\ \A b \in Ages : b <= a => Older(b) <= Older(a)
BY Numbers DEF Older

\* A step of time moves everything by one at most.
LEMMA StoodOlder ==
  ASSUME IInv, Tick, NEW k \in Asked, NEW d \in Drives, NEW n \in Nat,
         Stood(k, d, n, named, outages)
  PROVE  Stood(k, d, n + 1, named', outages')
<1>1. /\ d \in Maybe(Drives) /\ None \in Maybe(Drives)
      /\ k \in Maybe(Asked) /\ None \in Maybe(Asked)
  BY DEF Maybe
<1>2. \A x \in Maybe(Asked), y \in Maybe(Drives) :
        /\ named[x][y] \in Ages
        /\ named'[x][y] = IF Stands(x, y) THEN 0 ELSE Older(named[x][y])
  BY DEF IInv, PoolLive, Tick, Maybe
<1>3. \A x \in Maybe(Asked), y \in Maybe(Drives) : named[x][y] <= n => named'[x][y] <= n + 1
  BY <1>2, Numbers DEF Older
<1>4. outages' = outages  BY DEF Tick, wire
<1>5. /\ named[k][d] <= n => named'[k][d] <= n + 1
      /\ named[k][None] <= n => named'[k][None] <= n + 1
      /\ named[None][d] <= n => named'[None][d] <= n + 1
  BY <1>1, <1>3
<1> QED  BY <1>4, <1>5 DEF Stood

Aged(e) == [e EXCEPT !.put = Older(@), !.taken = Older(@)]

\* With time what an entry holds gets older as the entry does.
LEMMA AgedFine ==
  ASSUME IInv, Tick, NEW e \in Fine
  PROVE  /\ Aged(e) \in Fine' /\ Aged(e).key = e.key
         /\ Aged(e).put = Older(e.put)
<1>1. e \in Entries /\ EntryOK(e, named, outages, gone)  BY DEF Fine
<1>2. /\ e.put \in Ages /\ e.taken \in Ages /\ e.put <= e.taken /\ e.key \in Asked
      /\ e.drive \in Drives
  BY <1>1 DEF Entries, EntryOK
<1>3. /\ Older(e.put) \in Ages /\ Older(e.taken) \in Ages /\ Older(e.put) <= Older(e.taken)
      /\ Older(e.put) \in Nat /\ Older(e.taken) <= e.taken + 1
  BY <1>2, OlderIs
<1>4. /\ Aged(e).key = e.key /\ Aged(e).drive = e.drive /\ Aged(e).has = e.has
      /\ Aged(e).put = Older(e.put) /\ Aged(e).taken = Older(e.taken)
  BY <1>1 DEF Aged, Entries
<1>5. Aged(e) \in Entries
  <2>1. Aged(e) \in [key : Keys, drive : Drives, has : BOOLEAN, taken : Ages, put : Ages]
    BY <1>1, <1>3 DEF Aged, Entries
  <2> QED  BY <1>3, <1>4, <2>1 DEF Entries
<1>6. ASSUME Older(e.put) < TTL
      PROVE  /\ Older(e.taken) <= Older(e.put) + Flight
             /\ Stood(e.key, e.drive, Older(e.put) + Flight, named', outages')
  <2>1. e.put < TTL /\ Older(e.put) = e.put + 1
    BY <1>2, <1>6, Numbers DEF Older
  <2>2. e.taken <= e.put + Flight /\ Stood(e.key, e.drive, e.put + Flight, named, outages)
    BY <1>1, <2>1 DEF EntryOK
  <2>3. Stood(e.key, e.drive, (e.put + Flight) + 1, named', outages')
    BY <1>2, <2>2, StoodOlder, Numbers
  <2>4. (e.put + Flight) + 1 = (e.put + 1) + Flight  BY <1>2, Numbers
  <2> QED  BY <1>2, <1>3, <2>1, <2>2, <2>3, <2>4, Numbers
<1>7. e.has => <<e.key, e.drive>> \notin gone'  BY <1>1 DEF EntryOK, Tick
<1> HIDE DEF Aged
<1>8. EntryOK(Aged(e), named', outages', gone')  BY <1>2, <1>4, <1>6, <1>7 DEF EntryOK
<1> QED  BY <1>4, <1>5, <1>8 DEF Fine

LEMMA TickStep ==
  ASSUME IInv, Tick, \A q \in Requests : req[q].at # "done"  PROVE IInv'
<1>1. PoolLive'
  <2>1. /\ named' = [k \in Maybe(Asked) |-> [d \in Maybe(Drives) |->
                       IF Stands(k, d) THEN 0 ELSE Older(named[k][d])]]
        /\ \A k, d : Stands(k, d)' = Stands(k, d)
    BY DEF Tick, Maybe, Stands, Fallback, Designated, Meant
  <2>2. \A k \in Maybe(Asked), d \in Maybe(Drives) : Older(named[k][d]) \in Ages
    BY OlderIs DEF IInv, PoolLive
  <2>3. 0 \in Ages  BY Numbers
  <2>4. named' \in [Maybe(Asked) -> [Maybe(Drives) -> Ages]]  BY <2>1, <2>2, <2>3
  <2>5. \A k \in Maybe(Asked), d \in Maybe(Drives) : Stands(k, d)' => named'[k][d] = 0
    BY <2>1
  <2> QED  BY <2>4, <2>5 DEF PoolLive, Tick, IInv
<1>2. WireLive' /\ GoneLive'  BY DEF Tick, IInv, WireLive, GoneLive, wire
<1>3. RedisLive'
  <2>1. redis' = {Aged(e) : e \in {x \in redis : Kept(x)}}  BY DEF Tick, Aged
  <2>2. ASSUME NEW e \in redis, Kept(e)
        PROVE  Aged(e) \in Fine' /\ Aged(e).key = e.key /\ Aged(e).put < TTL
    <3>1. e \in Fine /\ e.put \in Ages  BY DEF IInv, RedisLive, Fine, Entries
    <3>2. Older(e.put) <= e.put + 1 /\ Older(e.put) \in Nat /\ e.put + 1 < TTL
      BY <2>2, <3>1, OlderIs DEF Kept
    <3>3. Older(e.put) < TTL  BY <3>1, <3>2, Numbers
    <3> QED  BY <3>1, <3>3, AgedFine
  <2>3. redis' \subseteq Fine' /\ \A e \in redis' : e.put < TTL  BY <2>1, <2>2
  <2>4. Distinct(redis')
    <3> SUFFICES ASSUME NEW e \in redis', NEW f \in redis', e.key = f.key  PROVE e = f
      BY DEF Distinct
    <3>1. PICK x \in redis : Kept(x) /\ e = Aged(x)  BY <2>1
    <3>2. PICK y \in redis : Kept(y) /\ f = Aged(y)  BY <2>1
    <3>3. x.key = y.key  BY <2>2, <3>1, <3>2
    <3> QED  BY <3>1, <3>2, <3>3 DEF IInv, RedisLive, Distinct
  <2> QED  BY <2>3, <2>4 DEF RedisLive, Distinct
<1>4. MemLive'
  <2>1. mem' = [w \in Workers |-> [i \in DOMAIN mem[w] |-> Aged(mem[w][i])]]
    BY DEF Tick, Aged
  <2>2. ASSUME NEW w \in Workers  PROVE StoreOK(mem'[w], Fine')
    <3> DEFINE s == mem[w]
               t == [i \in 1..Len(s) |-> Aged(s[i])]
    <3>1. StoreOK(s, Fine)  BY DEF IInv, MemLive
    <3>2. /\ Len(s) \in Nat /\ DOMAIN s = 1..Len(s)
          /\ \A i \in 1..Len(s) : s[i] \in Fine
      BY <3>1, LenProperties, ElementOfSeq DEF StoreOK
    <3>3. mem'[w] = t  BY <2>1, <3>2
    <3> HIDE DEF s
    <3>4. \A i \in 1..Len(s) : Aged(s[i]) \in Fine' /\ Aged(s[i]).key = s[i].key
      BY <3>2, AgedFine
    <3>5. t \in [1..Len(s) -> Fine']  BY <3>4
    <3>6. t \in Seq(Fine')  BY <3>2, <3>5
    <3>7. DOMAIN t = 1..Len(t) /\ Len(t) \in Nat  BY <3>6, LenProperties
    <3>8. Len(t) = Len(s)
      <4>1. DOMAIN t = 1..Len(s)  OBVIOUS
      <4> QED  BY <3>2, <3>7, <4>1
    <3>9. Unique(t)  BY <3>1, <3>2, <3>4 DEF StoreOK, Unique
    <3> QED  BY <3>1, <3>3, <3>6, <3>8, <3>9 DEF StoreOK
  <2>3. mem' \in [Workers -> Seq(Fine')]
    <3>1. mem' = [w \in Workers |-> mem'[w]]  BY <2>1
    <3> QED  BY <2>2, <3>1 DEF StoreOK
  <2> QED  BY <2>2, <2>3 DEF MemLive, StoreOK, Unique
<1>5. CallsLive'
  <2>1. ASSUME NEW q \in Requests
        PROVE  req'[q] \in Calls /\ CallOK(req'[q], named', outages', gone', full')
    <3> DEFINE c == req[q]
               m == [c EXCEPT !.spent = @ + 1,
                               !.taken = IF c.at = "back" /\ c.op = "list" THEN Older(@) ELSE @]
    <3>1. c \in Calls /\ CallOK(c, named, outages, gone, full) /\ c.at # "done"  BY CallIs
    <3>2. req'[q] = IF c.at = "idle" THEN c ELSE m  BY DEF Tick
    <3>3. CASE c.at = "idle"
      <4>1. ~c.has  BY <3>1, <3>3 DEF CallOK
      <4> QED  BY <3>1, <3>2, <3>3, <4>1 DEF CallOK
    <3>4. CASE c.at # "idle"
      <4>1. c.spent < Flight /\ c.spent \in Nat /\ c.taken \in Ages
        <5>1. c.spent < Flight  BY <3>4 DEF Tick
        <5>2. c.spent \in 0..Flight /\ c.taken \in Ages  BY <3>1 DEF Calls
        <5> QED  BY <5>1, <5>2, Numbers
      <4>2. /\ c.key \in Asked /\ c.w \in Workers /\ (c.at = "back" => c.drive \in Drives)
            /\ c.drive # None => c.drive \in Drives
        BY <3>1, <3>4 DEF CallOK, Calls, Maybe
      <4>3. c.spent + 1 \in 0..Flight  BY <4>1, Numbers
      <4>4. Older(c.taken) \in Ages /\ Older(c.taken) <= c.taken + 1  BY <4>1, OlderIs
      <4>5. m \in Calls  BY <3>1, <4>3, <4>4 DEF Calls
      <4>6. /\ m.at = c.at /\ m.op = c.op /\ m.key = c.key /\ m.w = c.w /\ m.drive = c.drive
            /\ m.id = c.id /\ m.rec = c.rec /\ m.has = c.has /\ m.spent = c.spent + 1
            /\ m.taken = IF c.at = "back" /\ c.op = "list" THEN Older(c.taken) ELSE c.taken
        BY <3>1 DEF Calls
      <4>7. c.at \in {"tokens", "write", "sent", "back"} /\ c.drive # None =>
              Stood(c.key, c.drive, c.spent + 1, named', outages')
        BY <3>1, <4>1, <4>2, StoodOlder DEF CallOK
      <4>8. c.at = "back" => Older(c.taken) <= c.spent + 1 /\ c.taken <= c.spent + 1
        <5>1. c.taken \in Nat /\ Older(c.taken) \in Nat  BY <4>1, <4>4, Numbers
        <5> QED  BY <3>1, <4>1, <4>4, <5>1 DEF CallOK
      <4>9. gone' = gone /\ full' = full  BY DEF Tick
      <4> HIDE DEF m, c
      <4>10. CallOK(m, named', outages', gone', full')
        BY <3>1, <3>4, <4>2, <4>6, <4>7, <4>8, <4>9 DEF CallOK
      <4> QED  BY <3>2, <3>4, <4>5, <4>10
    <3> QED  BY <3>3, <3>4
  <2>2. req' = [q \in Requests |-> req'[q]]  BY DEF Tick
  <2> QED  BY <2>1, <2>2 DEF CallsLive
<1> QED  BY <1>1, <1>2, <1>3, <1>4, <1>5 DEF IInv

-----------------------------------------------------------------------------
(* What the runs check *)

LEMMA Stutter == ASSUME IInv, UNCHANGED vars  PROVE IInv'
<1>1. PoolLive' /\ Grows  BY PoolKept DEF vars, wire
<1>2. RedisLive' /\ MemLive'  BY <1>1, RedisKept, MemKept DEF vars, stores
<1>3. CallsLive'  BY <1>1, CallsKept DEF vars
<1> QED  BY <1>1, <1>2, <1>3 DEF IInv, vars, WireLive, GoneLive, wire

LEMMA NextIInv == IInv /\ [Next]_vars => IInv'
<1> SUFFICES ASSUME IInv, [Next]_vars  PROVE IInv'
  OBVIOUS
<1>1. CASE UNCHANGED vars  BY <1>1, Stutter
<1>2. ASSUME NEW r \in Requests, Return(r)  PROVE IInv'
  BY <1>2, ReturnStep
<1>3. ASSUME NEW r \in Requests, \A q \in Requests : req[q].at # "done",
             \/ Hit(r) \/ Miss(r) \/ Delete(r) \/ Resolved(r) \/ Write(r)
             \/ Snap(r) \/ Erase(r) \/ Failed(r) \/ Answer(r) \/ Confirm(r)
      PROVE  IInv'
  BY <1>3, HitStep, MissStep, DeleteStep, ResolvedStep, WriteStep, SnapStep, EraseStep,
     FailedStep, AnswerStep, ConfirmStep
<1>4. ASSUME NEW w \in Workers, NEW id \in Ids,
             Update(w, id) \/ RemoveRecord(w, id) \/ Activate(w, id)
      PROVE  IInv'
  BY <1>4, UpdateStep, RemoveStep, ActivateStep
<1>5. ASSUME NEW w \in Workers, Reload(w)  PROVE IInv'
  BY <1>5, ReloadStep
<1>6. ASSUME Outage \/ Recover \/ Tick, \A q \in Requests : req[q].at # "done"
      PROVE  IInv'
  BY <1>6, OutageStep, RecoverStep, TickStep
<1> QED  BY <1>1, <1>2, <1>3, <1>4, <1>5, <1>6 DEF Next

\* Entries and requests have gone for the drive their key stood for, or for what
\* some worker then took without a record, are as old as their age says, and
\* hold nothing that was deleted for good.
THEOREM Invariance == Spec => []IInv
BY InitIInv, NextIInv, PTL DEF Spec

\* Redis and every worker's store hold one entry of a key, none older than what
\* it shows, and a worker's store keeps its limit.
THEOREM TypeCorrect == Spec => []TypeOK
<1>1. IInv => TypeOK
  <2> SUFFICES ASSUME IInv  PROVE TypeOK
    OBVIOUS
  <2>1. \A w \in Workers : DOMAIN mem[w] = 1..Len(mem[w]) /\ \A i \in 1..Len(mem[w]) : mem[w][i] \in Fine
    BY LenProperties, ElementOfSeq DEF IInv, MemLive, StoreOK
  <2>2. \A w \in Workers :
          /\ Len(mem[w]) <= MaxEntries
          /\ \A i \in DOMAIN mem[w] :
               mem[w][i] \in Entries
               /\ \A j \in DOMAIN mem[w] : mem[w][i].key = mem[w][j].key => i = j
    BY <2>1 DEF IInv, MemLive, StoreOK, Unique, Fine
  <2>3. redis \subseteq Entries /\ \A e, f \in redis : e.key = f.key => e = f
    BY DEF IInv, RedisLive, Fine, Distinct
  <2>4. ASSUME NEW r \in Requests
        PROVE  /\ req[r].at \in {"idle", "tokens", "write", "sent", "back", "done"}
               /\ req[r].at \in {"back", "done"} => req[r].drive \in Drives
               /\ req[r].spent <= Flight
    <3>1. req[r] \in Calls /\ CallOK(req[r], named, outages, gone, full)  BY CallIs
    <3> QED  BY <3>1, Numbers DEF Calls, CallOK
  <2> QED  BY <2>2, <2>3, <2>4 DEF TypeOK, IInv, PoolLive, GoneLive, Maybe
<1> QED  BY <1>1, Invariance, PTL

\* A page is never older than a minute and the time of one request, in any
\* worker and through any outages.
THEOREM RecentEnough == Spec => []AgeBounded
<1>1. IInv => AgeBounded  BY DEF AgeBounded, IInv, CallsLive, CallOK
<1> QED  BY <1>1, Invariance, PTL

\* A page or a deletion is of the drive that the account named stood for a moment
\* before; when it stood for none or Redis failed, of the environment's or, with
\* no cookie in the environment, of the one that a worker's session had loaded.
THEOREM RightDrive == Spec => []OfTheNamed
<1>1. IInv => OfTheNamed
  <2> SUFFICES ASSUME IInv, NEW r \in Requests,
                      req[r].at = (IF req[r].op = "list" THEN "done" ELSE "back")
               PROVE  Stood(req[r].key, req[r].drive,
                            IF req[r].op = "list" THEN TTL + Flight - 1 ELSE Flight,
                            named, outages)
    BY DEF OfTheNamed, Stood
  <2>1. req[r] \in Calls /\ CallOK(req[r], named, outages, gone, full)  BY CallIs
  <2>2. CASE req[r].op = "list"  BY <2>1, <2>2 DEF CallOK
  <2>3. CASE req[r].op # "list"
    <3>1. /\ Stood(req[r].key, req[r].drive, req[r].spent, named, outages)
          /\ req[r].key \in Asked /\ req[r].drive \in Drives
      BY <2>1, <2>3, Numbers DEF CallOK
    <3>2. req[r].spent \in Nat /\ req[r].spent <= Flight /\ Flight \in Nat
      BY <2>1, Numbers DEF Calls
    <3>3. TimesOK(named)  BY DEF IInv, PoolLive, TimesOK
    <3> QED  BY <2>3, <3>1, <3>2, <3>3, StoodLonger
  <2> QED  BY <2>2, <2>3
<1> QED  BY <1>1, Invariance, PTL

\* What was deleted is not shown again, unless a listing or another worker's
\* entry was left when the deletion was confirmed.
THEOREM StaysDeleted == Spec => []DeletedGone
<1>1. IInv => DeletedGone  BY DEF DeletedGone, IInv, CallsLive, CallOK
<1> QED  BY <1>1, Invariance, PTL
=============================================================================
