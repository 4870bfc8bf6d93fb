------------------------- MODULE AccountPoolProofs --------------------------
(***************************************************************************)
(* For any number of accounts, workers and requests, whatever commands of  *)
(* Redis fail, the pool keeps its types, a worker does not undo its own    *)
(* marks, and a resolve whose account failed goes on with another one.     *)
(***************************************************************************)
EXTENDS AccountPool, SequenceTheorems, TLAPS

Chains == [Workers -> Seq(Commands)]

Resolves == [at : {"new", "upstream", "rotating", "done"}, used : Ids,
             left : 1..MaxTries, why : {"none", "account", "transient"}]

Checks == [probe : SUBSET Accounts, bad : SUBSET Accounts, on : BOOLEAN]

\* The type invariant with the chains as sequences: the inductive form.
Typed ==
  /\ acct \in [Accounts -> Records \cup {None}]
  /\ active \in Ids
  /\ now \in 0..MaxTime
  /\ current \in [Workers -> Ids]
  /\ todo \in Chains
  /\ req \in [Requests -> Resolves]
  /\ pending \subseteq Edits
  /\ cron \in [Workers -> Checks]
  /\ faults \in 0..MaxFaults /\ admin \in 0..MaxAdmin
  /\ marker \in [Accounts -> Workers \cup {None}]
  /\ spoilt \subseteq Requests

-----------------------------------------------------------------------------
(* Chains of commands *)

\* A command in front of a chain is replaced by commands.
LEMMA ThenChains ==
  ASSUME NEW w \in Workers, todo \in Chains, todo[w] # <<>>,
         NEW s \in Seq(Commands), Then(w, s)
  PROVE  todo' \in Chains
<1>1. todo[w] \in Seq(Commands)  BY DEF Chains
<1>2. Tail(todo[w]) \in Seq(Commands)  BY <1>1, HeadTailProperties
<1>3. s \o Tail(todo[w]) \in Seq(Commands)  BY <1>2, ConcatProperties
<1> QED  BY <1>3 DEF Then, Chains

\* A command that leaves nothing behind.
LEMMA ThenDone ==
  ASSUME NEW w \in Workers, todo \in Chains, todo[w] # <<>>, Then(w, <<>>)
  PROVE  todo' \in Chains
<1>1. <<>> \in Seq(Commands)  OBVIOUS
<1> QED  BY <1>1, ThenChains

\* Short chains.
LEMMA Short ==
  ASSUME NEW S
  PROVE  /\ <<>> \in Seq(S)
         /\ \A x \in S : <<x>> \in Seq(S)
         /\ \A x, y \in S : <<x, y>> \in Seq(S)
         /\ \A x, y, z \in S : <<x, y, z>> \in Seq(S)
OBVIOUS

\* A worker starts a chain.
LEMMA StartChains ==
  ASSUME NEW w \in Workers, todo \in Chains, NEW s \in Seq(Commands),
         todo' = [todo EXCEPT ![w] = s]
  PROVE  todo' \in Chains
BY DEF Chains

\* A part of a sequence, and the chain a failing command leaves.
LEMMA PartTyped ==
  ASSUME NEW S, NEW t \in Seq(S), NEW n \in Nat \ {0}
  PROVE  /\ SubSeq(t, n, Len(t)) \in Seq(S)
         /\ \A i \in DOMAIN SubSeq(t, n, Len(t)) :
              i + n - 1 \in DOMAIN t /\ SubSeq(t, n, Len(t))[i] = t[i + n - 1]
OBVIOUS

LEMMA CutChains ==
  ASSUME NEW w \in Workers, todo \in Chains, todo' = [todo EXCEPT ![w] = Cut(@)]
  PROVE  todo' \in Chains
<1>1. todo[w] \in Seq(Commands)  BY DEF Chains
<1>2. Cut(todo[w]) \in Seq(Commands)  BY <1>1, PartTyped DEF Cut
<1> QED  BY <1>2 DEF Chains

\* A record that is written, and its mark, have their types.
LEMMA StoreTyped ==
  ASSUME acct \in [Accounts -> Records \cup {None}],
         marker \in [Accounts -> Workers \cup {None}],
         NEW w \in Workers, NEW a \in Accounts, NEW d \in Records, Store(w, a, d)
  PROVE  /\ acct' \in [Accounts -> Records \cup {None}]
         /\ marker' \in [Accounts -> Workers \cup {None}]
BY DEF Store

\* The elements of a chain are commands.
LEMMA ChainsTyped ==
  ASSUME todo \in Chains
  PROVE  \A w \in Workers : \A i \in DOMAIN todo[w] : todo[w][i] \in Commands
<1> SUFFICES ASSUME NEW w \in Workers, NEW i \in DOMAIN todo[w]
             PROVE  todo[w][i] \in Commands
  OBVIOUS
<1>1. todo[w] \in Seq(Commands)  BY DEF Chains
<1>2. i \in 1..Len(todo[w])  BY <1>1, LenProperties
<1> QED  BY <1>1, <1>2, ElementOfSeq

\* The command a worker runs is one of the commands.
LEMMA HeadCommand ==
  ASSUME NEW w \in Workers, todo \in Chains, NEW op, At(w, op)
  PROVE  /\ todo[w] # <<>>
         /\ Head(todo[w]) \in Commands
         /\ Head(todo[w]).op = op
<1>1. todo[w] \in Seq(Commands)  BY DEF Chains
<1> QED  BY <1>1, HeadTailProperties DEF At

LEMMA HeadTyped ==
  ASSUME NEW w \in Workers, todo \in Chains, todo[w] # <<>>
  PROVE  Head(todo[w]) \in Commands
<1>1. todo[w] \in Seq(Commands)  BY DEF Chains
<1> QED  BY <1>1, HeadTailProperties

\* A command that fails.
LEMMA BrokenTyped ==
  ASSUME PoolAssumption, faults \in 0..MaxFaults, todo \in Chains,
         NEW w \in Workers, NEW ops, Broken(w, ops)
  PROVE  todo' \in Chains /\ faults' \in 0..MaxFaults
<1>1. todo' \in Chains  BY CutChains DEF Broken
<1>2. faults' \in 0..MaxFaults  BY DEF Broken, Fault, PoolAssumption
<1> QED  BY <1>1, <1>2

\* What a command carries, by its name.
LEMMA CommandParts ==
  ASSUME NEW c \in Commands
  PROVE  /\ c.op \in {"nextWrite", "markWrite"} => c.id \in Accounts /\ c.data \in Records
         /\ c.op = "nextSet" => c.id \in Accounts /\ c.pick \in BOOLEAN
         /\ c.op = "nextRead" => c.pick \in BOOLEAN
         /\ c.op \in {"markRead", "loadCreds", "setActive", "activateIf"} => c.id \in Accounts
         /\ c.op = "retry" => c.by \in Requests
BY DEF Commands

\* The commands that chains are built of.
LEMMA CommandsBuilt ==
  /\ LoadOps \in Commands
  /\ \A b \in BOOLEAN : RotateOps(b) \in Commands
  /\ \A a \in Accounts, d \in Records :
       /\ [op |-> "nextWrite", id |-> a, data |-> d] \in Commands
       /\ [op |-> "markWrite", id |-> a, data |-> d] \in Commands
  /\ \A a \in Accounts, b \in BOOLEAN : [op |-> "nextSet", id |-> a, pick |-> b] \in Commands
  /\ \A a \in Accounts :
       /\ [op |-> "markRead", id |-> a] \in Commands
       /\ [op |-> "loadCreds", id |-> a] \in Commands
       /\ [op |-> "setActive", id |-> a] \in Commands
       /\ [op |-> "activateIf", id |-> a] \in Commands
  /\ \A A \in SUBSET Accounts : [op |-> "rotateIf", ids |-> A] \in Commands
  /\ \A p \in Requests : [op |-> "retry", by |-> p] \in Commands
BY DEF Commands, LoadOps, RotateOps

\* A record that is read is one, and stays one with a new stamp or status.
LEMMA RecordsKept ==
  ASSUME NEW d \in Records, NEW n \in 0..MaxTime
  PROVE  /\ [d EXCEPT !.used = n] \in Records
         /\ [d EXCEPT !.used = n].status = d.status
         /\ [d EXCEPT !.status = "unhealthy"] \in Records
         /\ [d EXCEPT !.status = "unhealthy"].status = "unhealthy"
         /\ [d EXCEPT !.status = "healthy"] \in Records
         /\ [status |-> "healthy", used |-> n] \in Records
BY DEF Records

LEMMA ClockTyped ==
  ASSUME PoolAssumption, now \in 0..MaxTime, Clock
  PROVE  now' \in 0..MaxTime
BY DEF Clock, PoolAssumption

\* A resolve keeps its type when it moves on.
LEMMA ResolvesKept ==
  ASSUME NEW r \in Resolves, NEW u \in Ids,
         NEW at \in {"new", "upstream", "rotating", "done"},
         NEW why \in {"none", "account", "transient"}
  PROVE  /\ [r EXCEPT !.at = at] \in Resolves
         /\ [r EXCEPT !.at = at, !.used = u] \in Resolves
         /\ [r EXCEPT !.at = at, !.why = why] \in Resolves
BY DEF Resolves

LEMMA ResolveTyped ==
  ASSUME PoolAssumption, NEW at \in {"new", "upstream", "rotating", "done"}
  PROVE  Resolve(at) \in Resolves
BY DEF Resolve, Resolves, Ids, PoolAssumption

-----------------------------------------------------------------------------
(* Type correctness *)

LEMMA TypedInit ==
  ASSUME PoolAssumption, Init
  PROVE  Typed
<1>1. todo \in Chains  BY CommandsBuilt DEF Init, Chains, LoadOps
<1>2. acct \in [Accounts -> Records \cup {None}]
  BY DEF Init, Records, PoolAssumption
<1>3. req \in [Requests -> Resolves]  BY ResolveTyped DEF Init
<1>4. cron \in [Workers -> Checks]  BY DEF Init, NoCron, Checks
<1> QED  BY <1>1, <1>2, <1>3, <1>4 DEF Init, Typed, Ids, PoolAssumption

\* The commands of the rotation.
LEMMA TypedRotation ==
  ASSUME PoolAssumption, Typed, NEW w \in Workers,
         NextRead(w) \/ NextWrite(w) \/ NextSet(w) \/ NextFails(w)
  PROVE  Typed'
<1> USE DEF Typed
<1>1. CASE NextRead(w)
  <2>1. todo[w] # <<>> /\ Head(todo[w]).pick \in BOOLEAN
    BY <1>1, HeadCommand, CommandParts DEF NextRead
  <2>2. CASE ~SomeHealthy /\ Then(w, <<>>)
    <3>1. todo' \in Chains  BY <2>1, <2>2, ThenDone
    <3> QED  BY <1>1, <3>1 DEF NextRead
  <2>3. ASSUME NEW a \in LeastRecent,
               Then(w, <<[op |-> "nextWrite", id |-> a, data |-> acct[a]],
                         [op |-> "nextSet", id |-> a, pick |-> Head(todo[w]).pick]>>)
        PROVE  Typed'
    <3>1. a \in Accounts /\ acct[a] \in Records  BY DEF LeastRecent, Healthy
    <3>2. /\ [op |-> "nextWrite", id |-> a, data |-> acct[a]] \in Commands
          /\ [op |-> "nextSet", id |-> a, pick |-> Head(todo[w]).pick] \in Commands
      BY <2>1, <3>1, CommandsBuilt
    <3>3. todo' \in Chains  BY <2>1, <2>3, <3>2, Short, ThenChains
    <3> QED  BY <1>1, <3>3 DEF NextRead
  <2> QED  BY <1>1, <2>2, <2>3 DEF NextRead
<1>2. CASE NextWrite(w)
  <2> DEFINE c == Head(todo[w])
  <2>1. todo[w] # <<>> /\ c.id \in Accounts /\ c.data \in Records
    BY <1>2, HeadCommand, CommandParts DEF NextWrite
  <2>2. todo' \in Chains  BY <1>2, <2>1, ThenDone DEF NextWrite
  <2>3. now' \in 0..MaxTime  BY <1>2, ClockTyped DEF NextWrite
  <2>4. Stamped(c, now') \in Records  BY <2>1, <2>3, RecordsKept DEF Stamped
  <2>5. Store(w, c.id, Stamped(c, now'))  BY <1>2 DEF NextWrite
  <2> HIDE DEF c
  <2>6. /\ acct' \in [Accounts -> Records \cup {None}]
        /\ marker' \in [Accounts -> Workers \cup {None}]
    BY <2>1, <2>4, <2>5, StoreTyped
  <2>7. spoilt' \subseteq Requests  BY <1>2 DEF NextWrite, Surprised
  <2> QED  BY <1>2, <2>2, <2>3, <2>6, <2>7 DEF NextWrite
<1>3. CASE NextSet(w)
  <2> DEFINE c == Head(todo[w])
  <2>1. todo[w] # <<>> /\ c.id \in Accounts
    BY <1>3, HeadCommand, CommandParts DEF NextSet
  <2>2. todo' \in Chains  BY <1>3, <2>1, ThenDone DEF NextSet
  <2> QED  BY <1>3, <2>1, <2>2 DEF NextSet, Ids
<1>4. CASE NextFails(w)
  <2> DEFINE c == Head(todo[w])
  <2>1. c \in Commands  BY <1>4, HeadTyped DEF NextFails, Broken
  <2>2. todo' \in Chains /\ faults' \in 0..MaxFaults
    BY <1>4, BrokenTyped DEF NextFails
  <2>3. spoilt' \subseteq Requests  BY <1>4 DEF NextFails, Surprised, Own
  <2>4. CASE UNCHANGED <<acct, marker, active, now>>
    BY <1>4, <2>2, <2>3, <2>4 DEF NextFails
  <2>5. CASE c.op = "nextWrite" /\ Clock /\ Store(w, c.id, Stamped(c, now')) /\ UNCHANGED active
    <3>1. c.id \in Accounts /\ c.data \in Records  BY <2>1, <2>5, CommandParts
    <3>2. now' \in 0..MaxTime  BY <2>5, ClockTyped
    <3>3. Stamped(c, now') \in Records  BY <3>1, <3>2, RecordsKept DEF Stamped
    <3> HIDE DEF c
    <3>4. /\ acct' \in [Accounts -> Records \cup {None}]
          /\ marker' \in [Accounts -> Workers \cup {None}]
      BY <2>5, <3>1, <3>3, StoreTyped
    <3> QED  BY <1>4, <2>2, <2>3, <2>5, <3>2, <3>4 DEF NextFails
  <2>6. CASE c.op = "nextSet" /\ active' = c.id /\ UNCHANGED <<acct, marker, now>>
    <3>1. active' \in Ids  BY <2>1, <2>6, CommandParts DEF Ids
    <3> QED  BY <1>4, <2>2, <2>3, <2>6, <3>1 DEF NextFails
  <2> QED  BY <1>4, <2>4, <2>5, <2>6 DEF NextFails
<1> QED  BY <1>1, <1>2, <1>3, <1>4

\* The commands of a mark.
LEMMA TypedMark ==
  ASSUME PoolAssumption, Typed, NEW w \in Workers,
         MarkRead(w) \/ MarkWrite(w) \/ MarkFails(w)
  PROVE  Typed'
<1> USE DEF Typed
<1>1. CASE MarkRead(w)
  <2> DEFINE a == Head(todo[w]).id
             s == IF acct[a] = None THEN <<>>
                  ELSE <<[op |-> "markWrite", id |-> a, data |-> acct[a]]>>
  <2>1. todo[w] # <<>> /\ a \in Accounts
    BY <1>1, HeadCommand, CommandParts DEF MarkRead
  <2>2. acct[a] # None => acct[a] \in Records  BY <2>1
  <2>3. s \in Seq(Commands)  BY <2>1, <2>2, CommandsBuilt, Short
  <2>4. Then(w, s)  BY <1>1 DEF MarkRead
  <2>5. todo' \in Chains  BY <2>1, <2>3, <2>4, ThenChains
  <2> QED  BY <1>1, <2>5 DEF MarkRead
<1>2. CASE MarkWrite(w)
  <2> DEFINE c == Head(todo[w])
  <2>1. todo[w] # <<>> /\ c.id \in Accounts /\ c.data \in Records
    BY <1>2, HeadCommand, CommandParts DEF MarkWrite
  <2>2. todo' \in Chains  BY <1>2, <2>1, ThenDone DEF MarkWrite
  <2>3. Blamed(c) \in Records  BY <2>1, RecordsKept DEF Blamed
  <2>4. Store(w, c.id, Blamed(c))  BY <1>2 DEF MarkWrite
  <2> HIDE DEF c
  <2>5. /\ acct' \in [Accounts -> Records \cup {None}]
        /\ marker' \in [Accounts -> Workers \cup {None}]
    BY <2>1, <2>3, <2>4, StoreTyped
  <2> QED  BY <1>2, <2>2, <2>5 DEF MarkWrite
<1>3. CASE MarkFails(w)
  <2> DEFINE c == Head(todo[w])
  <2>1. c \in Commands  BY <1>3, HeadTyped DEF MarkFails, Broken
  <2>2. todo' \in Chains /\ faults' \in 0..MaxFaults
    BY <1>3, BrokenTyped DEF MarkFails
  <2>3. spoilt' \subseteq Requests  BY <1>3 DEF MarkFails, Own
  <2>4. CASE UNCHANGED <<acct, marker>>
    BY <1>3, <2>2, <2>3, <2>4 DEF MarkFails
  <2>5. CASE c.op = "markWrite" /\ Store(w, c.id, Blamed(c))
    <3>1. c.id \in Accounts /\ c.data \in Records  BY <2>1, <2>5, CommandParts
    <3>2. Blamed(c) \in Records  BY <3>1, RecordsKept DEF Blamed
    <3> HIDE DEF c
    <3>3. /\ acct' \in [Accounts -> Records \cup {None}]
          /\ marker' \in [Accounts -> Workers \cup {None}]
      BY <2>5, <3>1, <3>2, StoreTyped
    <3> QED  BY <1>3, <2>2, <2>3, <3>3 DEF MarkFails
  <2> QED  BY <1>3, <2>4, <2>5 DEF MarkFails
<1> QED  BY <1>1, <1>2, <1>3

\* The commands of a reload, and its start.
LEMMA TypedLoad ==
  ASSUME PoolAssumption, Typed, NEW w \in Workers,
         LoadGet(w) \/ LoadCreds(w) \/ LoadFails(w) \/ Refresh(w)
  PROVE  Typed'
<1> USE DEF Typed
<1>1. CASE LoadGet(w)
  <2> DEFINE s == IF active = None THEN <<RotateOps(TRUE)>>
                  ELSE <<[op |-> "loadCreds", id |-> active]>>
  <2>1. todo[w] # <<>>  BY <1>1, HeadCommand DEF LoadGet
  <2>2. active # None => active \in Accounts  BY DEF Ids
  <2>3. s \in Seq(Commands)  BY <2>2, CommandsBuilt, Short
  <2>4. Then(w, s)  BY <1>1 DEF LoadGet
  <2>5. todo' \in Chains  BY <2>1, <2>3, <2>4, ThenChains
  <2> QED  BY <1>1, <2>5 DEF LoadGet
<1>2. CASE LoadCreds(w)
  <2> DEFINE a == Head(todo[w]).id
  <2>1. todo[w] # <<>> /\ a \in Accounts
    BY <1>2, HeadCommand, CommandParts DEF LoadCreds
  <2>2. <<RotateOps(TRUE)>> \in Seq(Commands)  BY CommandsBuilt, Short
  <2>3. todo' \in Chains
    <3>1. CASE Healthy(a)  BY <1>2, <2>1, <3>1, ThenDone DEF LoadCreds
    <3>2. CASE ~Healthy(a)  BY <1>2, <2>1, <2>2, <3>2, ThenChains DEF LoadCreds
    <3> QED  BY <3>1, <3>2
  <2>4. current' \in [Workers -> Ids]  BY <1>2, <2>1 DEF LoadCreds, Ids
  <2> QED  BY <1>2, <2>3, <2>4 DEF LoadCreds
<1>3. CASE Refresh(w)
  <2>1. <<LoadOps>> \in Seq(Commands)  BY CommandsBuilt
  <2>2. todo' \in Chains  BY <1>3, <2>1, StartChains DEF Refresh
  <2> QED  BY <1>3, <2>2 DEF Refresh
<1>4. CASE LoadFails(w)
  <2>1. todo' \in Chains /\ faults' \in 0..MaxFaults
    BY <1>4, BrokenTyped DEF LoadFails
  <2> QED  BY <1>4, <2>1 DEF LoadFails, Own
<1> QED  BY <1>1, <1>2, <1>3, <1>4

\* The resolves.
LEMMA TypedResolve ==
  ASSUME PoolAssumption, Typed, NEW p \in Requests,
         Attempt(p) \/ Return(p) \/ AccountError(p) \/ TransientError(p)
  PROVE  Typed'
<1> USE DEF Typed
<1>0. WorkerOf[p] \in Workers  BY DEF PoolAssumption
<1>1. CASE Attempt(p)
  <2>1. current[WorkerOf[p]] \in Ids  BY <1>0
  <2>2. [req[p] EXCEPT !.at = "upstream", !.used = current[WorkerOf[p]]] \in Resolves
    BY <2>1, ResolvesKept
  <2>3. req' = [req EXCEPT ![p] =
                 [req[p] EXCEPT !.at = "upstream", !.used = current[WorkerOf[p]]]]
    BY <1>1 DEF Attempt
  <2>4. req' \in [Requests -> Resolves]  BY <2>2, <2>3
  <2> QED  BY <1>1, <2>4 DEF Attempt
<1>2. CASE Return(p)
  <2>1. req' \in [Requests -> Resolves]  BY <1>2, ResolveTyped DEF Return
  <2> QED  BY <1>2, <2>1 DEF Return
<1>3. CASE AccountError(p)
  <2>1. req[p].used \in Accounts  BY <1>3 DEF AccountError, Resolves, Ids
  <2>2. <<[op |-> "markRead", id |-> req[p].used], LoadOps,
          [op |-> "retry", by |-> p]>> \in Seq(Commands)
    BY <2>1, CommandsBuilt, Short
  <2>3. todo' \in Chains  BY <1>0, <1>3, <2>2, StartChains DEF AccountError
  <2>4. req' \in [Requests -> Resolves]
    <3>1. [req[p] EXCEPT !.at = "rotating", !.why = "account"] \in Resolves
      <4>1. req[p].used \in Ids  BY DEF Resolves
      <4> QED  BY <4>1, ResolvesKept
    <3>2. req' = [req EXCEPT ![p] = [req[p] EXCEPT !.at = "rotating", !.why = "account"]]
      BY <1>3 DEF AccountError
    <3> QED  BY <3>1, <3>2
  <2>5. faults' \in 0..MaxFaults  BY <1>3 DEF AccountError, Fault, PoolAssumption
  <2> QED  BY <1>3, <2>3, <2>4, <2>5 DEF AccountError
<1>4. CASE TransientError(p)
  <2>1. <<RotateOps(FALSE), LoadOps, [op |-> "retry", by |-> p]>> \in Seq(Commands)
    BY CommandsBuilt, Short
  <2>2. todo' \in Chains  BY <1>0, <1>4, <2>1, StartChains DEF TransientError
  <2>3. req' \in [Requests -> Resolves]
    <3>1. [req[p] EXCEPT !.at = "rotating", !.why = "transient"] \in Resolves
      <4>1. req[p].used \in Ids  BY DEF Resolves
      <4> QED  BY <4>1, ResolvesKept
    <3>2. req' = [req EXCEPT ![p] = [req[p] EXCEPT !.at = "rotating", !.why = "transient"]]
      BY <1>4 DEF TransientError
    <3> QED  BY <3>1, <3>2
  <2>4. faults' \in 0..MaxFaults  BY <1>4 DEF TransientError, Fault, PoolAssumption
  <2> QED  BY <1>4, <2>2, <2>3, <2>4 DEF TransientError
<1> QED  BY <1>1, <1>2, <1>3, <1>4

LEMMA TypedRetry ==
  ASSUME PoolAssumption, Typed, NEW w \in Workers, Retry(w)
  PROVE  Typed'
<1> USE DEF Typed
<1> DEFINE p == Head(todo[w]).by
<1>1. todo[w] # <<>> /\ p \in Requests
  BY HeadCommand, CommandParts DEF Retry
<1>2. todo' \in Chains  BY <1>1, ThenDone DEF Retry
<1>3. IF req[p].left > 1
      THEN req' = [req EXCEPT ![p] = Retried(p, w)]
      ELSE req' = [req EXCEPT ![p] = Resolve("done")]
  BY DEF Retry
<1>4. spoilt' \subseteq Requests  BY DEF Retry
<1> HIDE DEF p
<1>5. ASSUME req[p].left > 1  PROVE  Retried(p, w) \in Resolves
  <2>1. current[w] \in Ids /\ req[p].left - 1 \in 1..MaxTries
    BY <1>1, <1>5 DEF Resolves, PoolAssumption
  <2> QED  BY <2>1 DEF Retried, Resolves
<1>6. req' \in [Requests -> Resolves]
  BY <1>1, <1>3, <1>5, ResolveTyped
<1> QED  BY <1>2, <1>4, <1>6 DEF Retry

\* The administrator's calls, up to what they await.
LEMMA TypedAdmin ==
  ASSUME PoolAssumption, Typed, NEW w \in Workers, NEW a \in Accounts,
         Activate(w, a) \/ Delete(w, a) \/ DeleteFails(w, a)
  PROVE  Typed'
<1> USE DEF Typed
<1>1. CASE Activate(w, a)
  <2>1. <<[op |-> "setActive", id |-> a], LoadOps>> \in Seq(Commands)
    BY CommandsBuilt, Short
  <2>2. todo' \in Chains  BY <1>1, <2>1, StartChains DEF Activate
  <2> QED  BY <1>1, <2>2 DEF Activate, Call, PoolAssumption
<1>2. CASE Delete(w, a)
  <2>1. <<[op |-> "rotateIf", ids |-> {a}]>> \in Seq(Commands)
    BY CommandsBuilt, Short
  <2>2. todo' \in Chains  BY <1>2, <2>1, StartChains DEF Delete
  <2> QED  BY <1>2, <2>2 DEF Delete, Call, PoolAssumption
<1>3. CASE DeleteFails(w, a)
  BY <1>3 DEF DeleteFails, Call, Fault, PoolAssumption
<1> QED  BY <1>1, <1>2, <1>3

\* The commands of those calls.
LEMMA TypedAdminSteps ==
  ASSUME PoolAssumption, Typed, NEW w \in Workers,
         SetActive(w) \/ RotateIf(w) \/ ActivateIf(w) \/ AdminFails(w)
  PROVE  Typed'
<1> USE DEF Typed
<1>1. CASE SetActive(w)
  <2>1. todo[w] # <<>> /\ Head(todo[w]).id \in Accounts
    BY <1>1, HeadCommand, CommandParts DEF SetActive
  <2>2. todo' \in Chains  BY <1>1, <2>1, ThenDone DEF SetActive
  <2> QED  BY <1>1, <2>1, <2>2 DEF SetActive, Ids
<1>2. CASE RotateIf(w)
  <2> DEFINE s == IF active \in Head(todo[w]).ids THEN <<RotateOps(FALSE), LoadOps>> ELSE <<>>
  <2>1. todo[w] # <<>>  BY <1>2, HeadCommand DEF RotateIf
  <2>2. s \in Seq(Commands)  BY CommandsBuilt, Short
  <2>3. Then(w, s)  BY <1>2 DEF RotateIf
  <2>4. todo' \in Chains  BY <2>1, <2>2, <2>3, ThenChains
  <2> QED  BY <1>2, <2>4 DEF RotateIf
<1>3. CASE ActivateIf(w)
  <2> DEFINE b == Head(todo[w]).id
             s == IF active \in {b, None}
                  THEN <<[op |-> "setActive", id |-> b], LoadOps>> ELSE <<>>
  <2>1. todo[w] # <<>> /\ b \in Accounts
    BY <1>3, HeadCommand, CommandParts DEF ActivateIf
  <2>2. s \in Seq(Commands)  BY <2>1, CommandsBuilt, Short
  <2>3. Then(w, s)  BY <1>3 DEF ActivateIf
  <2>4. todo' \in Chains  BY <2>1, <2>2, <2>3, ThenChains
  <2> QED  BY <1>3, <2>4 DEF ActivateIf
<1>4. CASE AdminFails(w)
  <2> DEFINE c == Head(todo[w])
  <2>1. c \in Commands  BY <1>4, HeadTyped DEF AdminFails, Broken
  <2>2. todo' \in Chains /\ faults' \in 0..MaxFaults
    BY <1>4, BrokenTyped DEF AdminFails
  <2>3. active' \in Ids  BY <1>4, <2>1, CommandParts DEF AdminFails, Ids
  <2> QED  BY <1>4, <2>2, <2>3 DEF AdminFails, Own
<1> QED  BY <1>1, <1>2, <1>3, <1>4

\* The calls that read a record, await and write it back.
LEMMA VerdictsTyped ==
  ASSUME NEW e \in Edits, NEW n \in 0..MaxTime
  PROVE  Verdicts(e, n) \subseteq Records
<1>1. e.data \in Records /\ e.kind \in {"verify", "update", "profile"}  BY DEF Edits
<1> QED  BY <1>1, RecordsKept DEF Verdicts

LEMMA TypedEdit ==
  ASSUME PoolAssumption, Typed,
         \/ \E w \in Workers, a \in Accounts, kind \in AdminKinds : BeginEdit(w, a, kind)
         \/ \E e \in pending : EndEdit(e) \/ EndEditFails(e)
  PROVE  Typed'
<1> USE DEF Typed
<1>1. ASSUME NEW w \in Workers, NEW a \in Accounts, NEW kind \in AdminKinds,
             BeginEdit(w, a, kind)
      PROVE  Typed'
  <2> DEFINE d == IF acct[a] = None THEN [status |-> "healthy", used |-> now'] ELSE acct[a]
             e == [by |-> w, id |-> a, kind |-> kind, data |-> d]
  <2>0. now' \in 0..MaxTime  BY <1>1, ClockTyped DEF BeginEdit
  <2>1. d \in Records
    <3>1. CASE acct[a] = None  BY <2>0, <3>1 DEF Records
    <3>2. CASE acct[a] # None  BY <3>2
    <3> QED  BY <3>1, <3>2
  <2>2. kind \in {"verify", "update", "profile"} /\ pending' = pending \cup {e}
    BY <1>1 DEF BeginEdit
  <2> HIDE DEF d
  <2>3. e \in Edits  BY <2>1, <2>2 DEF Edits
  <2>4. pending' \subseteq Edits  BY <2>2, <2>3
  <2> QED  BY <1>1, <2>0, <2>4 DEF BeginEdit, Call, PoolAssumption
<1>2. ASSUME NEW e \in pending, EndEdit(e)
      PROVE  Typed'
  <2>1. e.by \in Workers /\ e.id \in Accounts /\ e \in Edits  BY DEF Edits
  <2>2. pending' \subseteq Edits /\ spoilt' \subseteq Requests
    BY <1>2 DEF EndEdit, Revives, Surprised
  <2>3. now' \in 0..MaxTime  BY <1>2, ClockTyped DEF EndEdit
  <2>4. PICK d \in Verdicts(e, now') : Store(e.by, e.id, d)
    BY <1>2 DEF EndEdit
  <2>5. d \in Records  BY <2>1, <2>3, VerdictsTyped
  <2>6. /\ acct' \in [Accounts -> Records \cup {None}]
        /\ marker' \in [Accounts -> Workers \cup {None}]
    BY <2>1, <2>4, <2>5, StoreTyped
  <2>7. <<[op |-> "activateIf", id |-> e.id]>> \in Seq(Commands)
    BY <2>1, CommandsBuilt, Short
  <2>8. todo' \in Chains  BY <1>2, <2>1, <2>7, StartChains DEF EndEdit
  <2> QED  BY <1>2, <2>2, <2>3, <2>6, <2>8 DEF EndEdit
<1>3. ASSUME NEW e \in pending, EndEditFails(e)
      PROVE  Typed'
  <2>1. e.by \in Workers /\ e.id \in Accounts /\ e \in Edits  BY DEF Edits
  <2>2. pending' \subseteq Edits  BY <1>3 DEF EndEditFails
  <2>3. now' \in 0..MaxTime  BY <1>3, ClockTyped DEF EndEditFails
  <2>4. PICK d \in Verdicts(e, now') :
          /\ \/ UNCHANGED <<acct, marker, spoilt>>
             \/ Store(e.by, e.id, d) /\ spoilt' = spoilt \cup Revives(e, d)
          /\ IF e.kind = "verify" /\ d.status = "healthy"
             THEN todo' = [todo EXCEPT ![e.by] =
                            <<[op |-> "markWrite", id |-> e.id, data |-> d]>>]
             ELSE UNCHANGED todo
    BY <1>3 DEF EndEditFails
  <2>5. d \in Records  BY <2>1, <2>3, VerdictsTyped
  <2>6. /\ acct' \in [Accounts -> Records \cup {None}]
        /\ marker' \in [Accounts -> Workers \cup {None}]
    BY <2>1, <2>4, <2>5, StoreTyped
  <2>7. <<[op |-> "markWrite", id |-> e.id, data |-> d]>> \in Seq(Commands)
    BY <2>1, <2>5, CommandsBuilt, Short
  <2>8. todo' \in Chains  BY <2>1, <2>4, <2>7, StartChains
  <2>9. spoilt' \subseteq Requests  BY <2>4 DEF Revives, Surprised
  <2>10. faults' \in 0..MaxFaults  BY <1>3 DEF EndEditFails, Fault, PoolAssumption
  <2> QED  BY <1>3, <2>2, <2>3, <2>6, <2>8, <2>9, <2>10 DEF EndEditFails
<1> QED  BY <1>1, <1>2, <1>3

\* The cron check.
LEMMA TypedCron ==
  ASSUME PoolAssumption, Typed, NEW w \in Workers,
         CronStart(w) \/ CronEnd(w) \/ \E a \in Accounts : CronProbe(w, a)
  PROVE  Typed'
<1> USE DEF Typed
<1>1. CASE CronStart(w)
  <2>1. cron' \in [Workers -> Checks]  BY <1>1 DEF CronStart, Checks
  <2> QED  BY <1>1, <2>1 DEF CronStart, Call, PoolAssumption
<1>2. CASE CronEnd(w)
  <2>1. cron' \in [Workers -> Checks]  BY <1>2 DEF CronEnd, NoCron, Checks
  <2>2. cron[w].bad \in SUBSET Accounts  BY DEF Checks
  <2>3. <<[op |-> "rotateIf", ids |-> cron[w].bad]>> \in Seq(Commands)
    BY <2>2, CommandsBuilt, Short
  <2>4. todo' \in Chains  BY <1>2, <2>3, StartChains DEF CronEnd
  <2> QED  BY <1>2, <2>1, <2>4 DEF CronEnd
<1>3. ASSUME NEW a \in Accounts, CronProbe(w, a)
      PROVE  Typed'
  <2> DEFINE passed == [cron[w] EXCEPT !.probe = @ \ {a}]
             failed == [cron[w] EXCEPT !.probe = @ \ {a}, !.bad = @ \cup {a}]
  <2>0. cron[w].probe \subseteq Accounts /\ cron[w] \in Checks  BY DEF Checks
  <2>1. passed \in Checks /\ failed \in Checks
    <3> HIDE DEF Typed
    <3> QED  BY <2>0 DEF Checks
  <2>2. CASE cron' = [cron EXCEPT ![w].probe = @ \ {a}] /\ UNCHANGED <<todo, faults>>
    <3>1. cron' = [cron EXCEPT ![w] = passed]  BY <2>2
    <3>2. cron' \in [Workers -> Checks]  BY <2>1, <3>1
    <3> QED  BY <1>3, <2>2, <3>2 DEF CronProbe
  <2>3. CASE /\ Fault
             /\ cron' = [cron EXCEPT ![w].probe = @ \ {a}, ![w].bad = @ \cup {a}]
             /\ todo' = [todo EXCEPT ![w] = <<[op |-> "markRead", id |-> a]>>]
    <3>1. cron' = [cron EXCEPT ![w] = failed]  BY <2>3
    <3>2. cron' \in [Workers -> Checks]  BY <2>1, <3>1
    <3>3. <<[op |-> "markRead", id |-> a]>> \in Seq(Commands)
      BY CommandsBuilt, Short
    <3>4. todo' \in Chains  BY <2>3, <3>3, StartChains
    <3>5. faults' \in 0..MaxFaults  BY <2>3 DEF Fault, PoolAssumption
    <3> QED  BY <1>3, <3>2, <3>4, <3>5 DEF CronProbe
  <2> QED  BY <1>3, <2>2, <2>3 DEF CronProbe
<1> QED  BY <1>1, <1>2, <1>3

LEMMA TypedNext ==
  ASSUME PoolAssumption, Typed, [Next]_vars
  PROVE  Typed'
<1>1. CASE \E w \in Workers : Step(w) \/ Refresh(w)
  BY <1>1, TypedRotation, TypedMark, TypedLoad, TypedRetry, TypedAdminSteps DEF Step
<1>2. CASE \E w \in Workers : NextFails(w) \/ MarkFails(w) \/ LoadFails(w) \/ AdminFails(w)
  BY <1>2, TypedRotation, TypedMark, TypedLoad, TypedAdminSteps
<1>3. CASE \E p \in Requests : Attempt(p) \/ Return(p) \/ AccountError(p) \/ TransientError(p)
  BY <1>3, TypedResolve
<1>4. CASE \E w \in Workers, a \in Accounts :
             Activate(w, a) \/ Delete(w, a) \/ DeleteFails(w, a)
  BY <1>4, TypedAdmin
<1>5. CASE \E w \in Workers, a \in Accounts : CronProbe(w, a)
  BY <1>5, TypedCron
<1>6. CASE \/ \E w \in Workers, a \in Accounts, kind \in AdminKinds : BeginEdit(w, a, kind)
           \/ \E e \in pending : EndEdit(e) \/ EndEditFails(e)
  BY <1>6, TypedEdit
<1>7. CASE \E w \in Workers : CronStart(w) \/ CronEnd(w)
  BY <1>7, TypedCron
<1>8. CASE UNCHANGED vars  BY <1>8 DEF vars, Typed
<1> QED  BY <1>1, <1>2, <1>3, <1>4, <1>5, <1>6, <1>7, <1>8 DEF Next

\* The shared records, the chains of commands and the calls in flight keep
\* their types for every number of accounts, workers and requests, and no
\* resolve has more attempts than it may.
THEOREM TypeCorrect == Spec => []TypeOK
<1>1. Init => Typed  BY PoolAssumption, TypedInit
<1>2. Typed /\ [Next]_vars => Typed'  BY PoolAssumption, TypedNext
<1>3. Typed => TypeOK
  BY ChainsTyped DEF Typed, TypeOK, Resolves, Checks
<1> QED  BY <1>1, <1>2, <1>3, PTL DEF Spec


-----------------------------------------------------------------------------
(* What is left to do in a chain *)

\* A rotation that is about to write stands at the head of its chain, and its
\* worker did not mark the account since it was read; a retry stands in the
\* chain of the worker that serves the resolve.
Unmarked(w, a) ==
  acct[a] # None /\ acct[a].status = "unhealthy" => marker[a] # w

WriteLive ==
  \A w \in Workers : \A i \in DOMAIN todo[w] :
    /\ todo[w][i].op = "nextWrite" => i = 1 /\ Unmarked(w, todo[w][i].id)
    /\ todo[w][i].op = "retry" => WorkerOf[todo[w][i].by] = w

Again(p) == [op |-> "retry", by |-> p]

\* What is left to do, on worker w, for a resolve that blamed account u.
ToMark(w, p, u) ==
  \/ todo[w] = <<[op |-> "markRead", id |-> u], LoadOps, Again(p)>>
  \/ \E d \in Records :
       todo[w] = <<[op |-> "markWrite", id |-> u, data |-> d], LoadOps, Again(p)>>

ToLoad(w, p, u) ==
  \/ todo[w] = <<LoadOps, Again(p)>>
  \/ \E a \in Accounts : todo[w] = <<[op |-> "loadCreds", id |-> a], Again(p)>>
  \/ todo[w] = <<RotateOps(TRUE), Again(p)>>
  \/ \E a \in Accounts : \E d \in Records :
       /\ a # u
       /\ todo[w] = <<[op |-> "nextWrite", id |-> a, data |-> d],
                      [op |-> "nextSet", id |-> a, pick |-> TRUE], Again(p)>>
  \/ \E a \in Accounts :
       a # u /\ todo[w] = <<[op |-> "nextSet", id |-> a, pick |-> TRUE], Again(p)>>

ToRetry(w, p, u) == todo[w] = <<Again(p)>> /\ (SomeHealthy => current[w] # u)

\* A resolve that blamed an account, and that nothing came across, marks it
\* before it does anything else; at the end of the reload its worker holds
\* another account if any is healthy.
BlameLive ==
  \A p \in Requests :
    Blaming(p) /\ p \notin spoilt =>
      LET w == WorkerOf[p]  u == req[p].used
      IN  /\ u \in Accounts
          /\ ToMark(w, p, u) \/ (~Healthy(u) /\ (ToLoad(w, p, u) \/ ToRetry(w, p, u)))

\* The inductive invariant of the pool.
Pooled == Typed /\ WriteLive /\ BlameLive

Failing(w) == NextFails(w) \/ MarkFails(w) \/ LoadFails(w) \/ AdminFails(w)

\* A worker that is in a chain runs its next command, fails there, or leaves
\* the chain as it is.
LEMMA Moves ==
  ASSUME PoolAssumption, Typed, [Next]_vars, NEW w \in Workers, todo[w] # <<>>
  PROVE  Step(w) \/ Failing(w) \/ todo'[w] = todo[w]
<1>1. todo \in Chains /\ ~Idle(w)  BY DEF Typed, Idle
<1>2. ASSUME NEW v \in Workers, NEW s, v # w \/ Idle(v), todo' = [todo EXCEPT ![v] = s]
      PROVE  todo'[w] = todo[w]
  BY <1>1, <1>2 DEF Chains
<1>3. ASSUME NEW v \in Workers, Step(v)
      PROVE  Step(w) \/ todo'[w] = todo[w]
  <2>1. PICK s : Then(v, s)
    BY <1>3 DEF Step, NextRead, NextWrite, NextSet, MarkRead, MarkWrite, LoadGet, LoadCreds,
       Retry, SetActive, RotateIf, ActivateIf
  <2> QED  BY <1>2, <1>3, <2>1 DEF Then
<1>4. ASSUME NEW v \in Workers, Failing(v)
      PROVE  Failing(w) \/ todo'[w] = todo[w]
  <2>1. todo' = [todo EXCEPT ![v] = Cut(@)]
    BY <1>4 DEF Failing, NextFails, MarkFails, LoadFails, AdminFails, Broken
  <2> QED  BY <1>2, <1>4, <2>1
<1>5. ASSUME NEW v \in Workers, Refresh(v) \/ CronStart(v) \/ CronEnd(v)
      PROVE  todo'[w] = todo[w]
  BY <1>2, <1>5 DEF Refresh, CronStart, CronEnd
<1>6. ASSUME NEW p \in Requests,
             Attempt(p) \/ Return(p) \/ AccountError(p) \/ TransientError(p)
      PROVE  todo'[w] = todo[w]
  <2>1. WorkerOf[p] \in Workers  BY DEF PoolAssumption
  <2> QED  BY <1>2, <1>6, <2>1 DEF Attempt, Return, AccountError, TransientError
<1>7. ASSUME NEW v \in Workers, NEW a \in Accounts,
             Activate(v, a) \/ Delete(v, a) \/ DeleteFails(v, a) \/ CronProbe(v, a)
      PROVE  todo'[w] = todo[w]
  BY <1>2, <1>7 DEF Activate, Delete, DeleteFails, CronProbe
<1>8. ASSUME NEW v \in Workers, NEW a \in Accounts, NEW kind \in AdminKinds,
             BeginEdit(v, a, kind)
      PROVE  todo'[w] = todo[w]
  BY <1>8 DEF BeginEdit
<1>9. ASSUME NEW e \in pending, EndEdit(e) \/ EndEditFails(e)
      PROVE  todo'[w] = todo[w]
  <2>1. e.by \in Workers /\ Idle(e.by)  BY <1>9 DEF EndEdit, EndEditFails, Typed, Edits
  <2>2. UNCHANGED todo \/ \E s : todo' = [todo EXCEPT ![e.by] = s]
    BY <1>9 DEF EndEdit, EndEditFails
  <2> QED  BY <1>2, <2>1, <2>2
<1>10. CASE UNCHANGED vars  BY <1>10 DEF vars
<1> QED  BY <1>3, <1>4, <1>5, <1>6, <1>7, <1>8, <1>9, <1>10 DEF Next, Failing

\* The command at the head of a chain is the one that runs.
LEMMA HeadRuns ==
  ASSUME NEW w \in Workers, Step(w)
  PROVE  /\ todo[w] # <<>>
         /\ Head(todo[w]).op = "nextRead" => NextRead(w)
         /\ Head(todo[w]).op = "nextWrite" => NextWrite(w)
         /\ Head(todo[w]).op = "nextSet" => NextSet(w)
         /\ Head(todo[w]).op = "markRead" => MarkRead(w)
         /\ Head(todo[w]).op = "markWrite" => MarkWrite(w)
         /\ Head(todo[w]).op = "loadGet" => LoadGet(w)
         /\ Head(todo[w]).op = "loadCreds" => LoadCreds(w)
         /\ Head(todo[w]).op = "retry" => Retry(w)
         /\ Head(todo[w]).op = "setActive" => SetActive(w)
         /\ Head(todo[w]).op = "rotateIf" => RotateIf(w)
         /\ Head(todo[w]).op = "activateIf" => ActivateIf(w)
BY DEF Step, At, NextRead, NextWrite, NextSet, MarkRead, MarkWrite, LoadGet, LoadCreds,
       Retry, SetActive, RotateIf, ActivateIf

\* Chains, command by command.
LEMMA ChainParts ==
  ASSUME NEW x, NEW y, NEW z
  PROVE  /\ <<x>> # <<>> /\ Head(<<x>>) = x /\ Tail(<<x>>) = <<>>
         /\ <<x, y>> # <<>> /\ Head(<<x, y>>) = x /\ Tail(<<x, y>>) = <<y>>
         /\ <<x, y, z>> # <<>> /\ Head(<<x, y, z>>) = x /\ Tail(<<x, y, z>>) = <<y, z>>
<1>1. <<x>> # <<>> /\ Head(<<x>>) = x /\ Tail(<<x>>) = <<>>  OBVIOUS
<1>2. <<x, y>> # <<>> /\ Head(<<x, y>>) = x /\ Tail(<<x, y>>) = <<y>>  OBVIOUS
<1>3. <<x, y, z>> # <<>> /\ Head(<<x, y, z>>) = x  OBVIOUS
<1>4. Tail(<<x, y, z>>) = <<y, z>>  OBVIOUS
<1> QED  BY <1>1, <1>2, <1>3, <1>4

LEMMA JoinOne ==
  ASSUME NEW x, NEW y
  PROVE  <<x>> \o <<y>> = <<x, y>>
<1> DEFINE S == {x, y}
           left == <<x>> \o <<y>>
           right == <<x, y>>
<1>1. <<x>> \in Seq(S) /\ <<y>> \in Seq(S) /\ right \in Seq(S)  BY Short
<1> HIDE DEF S
<1>2. left \in Seq(S) /\ Len(left) = 2 /\ Len(right) = 2  BY <1>1, ConcatProperties
<1>3. left[1] = x /\ left[2] = y  BY <1>1, ConcatProperties
<1>4. \A i \in 1..2 : left[i] = right[i]
  <2>1. \A i \in 1..2 : i \in {1, 2}  OBVIOUS
  <2> QED  BY <1>3, <2>1
<1> HIDE DEF left, right
<1>5. left = right  BY <1>1, <1>2, <1>4, SeqEqual
<1> QED  BY <1>5 DEF left, right

LEMMA JoinOneTwo ==
  ASSUME NEW x, NEW y, NEW z
  PROVE  <<x>> \o <<y, z>> = <<x, y, z>>
<1> DEFINE S == {x, y, z}
           left == <<x>> \o <<y, z>>
           right == <<x, y, z>>
<1>1. <<x>> \in Seq(S) /\ <<y, z>> \in Seq(S) /\ right \in Seq(S)  BY Short
<1> HIDE DEF S
<1>2. left \in Seq(S) /\ Len(left) = 3 /\ Len(right) = 3  BY <1>1, ConcatProperties
<1>3. left[1] = x /\ left[2] = y /\ left[3] = z  BY <1>1, ConcatProperties
<1>4. \A i \in 1..3 : left[i] = right[i]
  <2>1. \A i \in 1..3 : i \in {1, 2, 3}  OBVIOUS
  <2> QED  BY <1>3, <2>1
<1> HIDE DEF left, right
<1>5. left = right  BY <1>1, <1>2, <1>4, SeqEqual
<1> QED  BY <1>5 DEF left, right

LEMMA JoinTwoOne ==
  ASSUME NEW x, NEW y, NEW z
  PROVE  <<x, y>> \o <<z>> = <<x, y, z>>
<1> DEFINE S == {x, y, z}
           left == <<x, y>> \o <<z>>
           right == <<x, y, z>>
<1>1. <<x, y>> \in Seq(S) /\ <<z>> \in Seq(S) /\ right \in Seq(S)  BY Short
<1> HIDE DEF S
<1>2. left \in Seq(S) /\ Len(left) = 3 /\ Len(right) = 3  BY <1>1, ConcatProperties
<1>3. left[1] = x /\ left[2] = y /\ left[3] = z  BY <1>1, ConcatProperties
<1>4. \A i \in 1..3 : left[i] = right[i]
  <2>1. \A i \in 1..3 : i \in {1, 2, 3}  OBVIOUS
  <2> QED  BY <1>3, <2>1
<1> HIDE DEF left, right
<1>5. left = right  BY <1>1, <1>2, <1>4, SeqEqual
<1> QED  BY <1>5 DEF left, right

\* Chains of w that contain no rotation about to write.
Fit(w, c) == c.op # "nextWrite" /\ (c.op = "retry" => WorkerOf[c.by] = w)

Writeless(w, t) == \A i \in DOMAIN t : Fit(w, t[i])

LEMMA WritelessShort ==
  ASSUME NEW w
  PROVE  /\ Writeless(w, <<>>)
         /\ \A x : Fit(w, x) => Writeless(w, <<x>>)
         /\ \A x, y : Fit(w, x) /\ Fit(w, y) => Writeless(w, <<x, y>>)
         /\ \A x, y, z : Fit(w, x) /\ Fit(w, y) /\ Fit(w, z) => Writeless(w, <<x, y, z>>)
<1> HIDE DEF Fit
<1> QED  BY DEF Writeless

LEMMA FitCommands ==
  ASSUME NEW w
  PROVE  /\ Fit(w, LoadOps) /\ \A b \in BOOLEAN : Fit(w, RotateOps(b))
         /\ \A p : WorkerOf[p] = w => Fit(w, Again(p))
         /\ \A a : /\ Fit(w, [op |-> "markRead", id |-> a])
                   /\ Fit(w, [op |-> "loadCreds", id |-> a])
                   /\ Fit(w, [op |-> "setActive", id |-> a])
                   /\ Fit(w, [op |-> "activateIf", id |-> a])
                   /\ Fit(w, [op |-> "rotateIf", ids |-> a])
                   /\ \A d : Fit(w, [op |-> "markWrite", id |-> a, data |-> d])
                   /\ \A b : Fit(w, [op |-> "nextSet", id |-> a, pick |-> b])
BY DEF Fit, LoadOps, RotateOps, Again

\* What follows the head of a chain is no write, so neither is what a command
\* leaves behind unless it puts one there.
LEMMA ThenParts ==
  ASSUME NEW w \in Workers, todo \in Chains, todo[w] # <<>>, WriteLive,
         NEW s \in Seq(Commands), Then(w, s)
  PROVE  \A i \in DOMAIN todo'[w] :
            (i \in DOMAIN s /\ todo'[w][i] = s[i]) \/ Fit(w, todo'[w][i])
<1> DEFINE t == todo[w]
<1>1. t \in Seq(Commands) /\ t # <<>>  BY DEF Chains
<1>2. /\ Tail(t) \in Seq(Commands) /\ Len(Tail(t)) = Len(t) - 1
      /\ \A i \in 1..Len(Tail(t)) : Tail(t)[i] = t[i + 1]
  BY <1>1, HeadTailProperties
<1>3. \A i \in 1..Len(t) : i # 1 => Fit(w, t[i])
  BY <1>1 DEF WriteLive, Fit
<1>4. todo'[w] = s \o Tail(t)  BY DEF Then, Chains
<1> HIDE DEF t
<1> SUFFICES ASSUME NEW i \in DOMAIN todo'[w]
             PROVE  (i \in DOMAIN s /\ todo'[w][i] = s[i]) \/ Fit(w, todo'[w][i])
  OBVIOUS
<1>5. i \in 1..Len(s) + Len(Tail(t))
  BY <1>2, <1>4, ConcatProperties, LenProperties
<1>6. todo'[w][i] = IF i <= Len(s) THEN s[i] ELSE Tail(t)[i - Len(s)]
  BY <1>2, <1>4, <1>5, ConcatProperties
<1>7. CASE i <= Len(s)
  <2>1. i \in DOMAIN s  BY <1>5, <1>7
  <2> QED  BY <1>6, <1>7, <2>1
<1>8. CASE ~(i <= Len(s))
  <2>1. Len(s) \in Nat /\ Len(t) \in Nat  BY <1>1, LenProperties
  <2>2. i - Len(s) \in 1..Len(Tail(t))  BY <1>2, <1>5, <1>8, <2>1
  <2>3. todo'[w][i] = t[(i - Len(s)) + 1]  BY <1>2, <1>6, <1>8, <2>2
  <2>4. (i - Len(s)) + 1 \in 1..Len(t) /\ (i - Len(s)) + 1 # 1
    BY <1>2, <2>1, <2>2
  <2> QED  BY <1>3, <2>3, <2>4
<1> QED  BY <1>7, <1>8

LEMMA ThenWriteless ==
  ASSUME NEW w \in Workers, todo \in Chains, todo[w] # <<>>, WriteLive,
         NEW s \in Seq(Commands), Then(w, s), Writeless(w, s)
  PROVE  Writeless(w, todo'[w])
BY ThenParts DEF Writeless

\* A new chain starts with no write.
LEMMA StartWriteless ==
  ASSUME NEW w \in Workers, todo \in Chains, NEW s, Writeless(w, s),
         todo' = [todo EXCEPT ![w] = s]
  PROVE  Writeless(w, todo'[w])
BY DEF Chains


\* A command of a chain puts a write in front only after a read, and then of a
\* healthy account.
LEMMA WriteRead ==
  ASSUME PoolAssumption, Typed, WriteLive, NEW w \in Workers, NextRead(w),
         NEW i \in DOMAIN todo'[w], ~Fit(w, todo'[w][i])
  PROVE  i = 1 /\ acct'[todo'[w][i].id].status = "healthy" /\ todo'[w][i].op # "retry"
<1>1. todo \in Chains /\ todo[w] # <<>> /\ Head(todo[w]).pick \in BOOLEAN
  BY HeadCommand, CommandParts DEF NextRead, Typed
<1>2. ~Then(w, <<>>)
  <2>1. <<>> \in Seq(Commands) /\ Writeless(w, <<>>)  BY WritelessShort
  <2> QED  BY <1>1, <2>1, ThenWriteless DEF Writeless
<1>3. PICK a \in LeastRecent :
        Then(w, <<[op |-> "nextWrite", id |-> a, data |-> acct[a]],
                  [op |-> "nextSet", id |-> a, pick |-> Head(todo[w]).pick]>>)
  BY <1>2 DEF NextRead
<1> DEFINE x == [op |-> "nextWrite", id |-> a, data |-> acct[a]]
           y == [op |-> "nextSet", id |-> a, pick |-> Head(todo[w]).pick]
<1>4. a \in Accounts /\ acct[a] \in Records /\ acct[a].status = "healthy"
  BY DEF LeastRecent, Healthy, Typed
<1>5. x.id = a /\ x.op # "retry" /\ Fit(w, y)  BY FitCommands
<1>6. x \in Commands /\ y \in Commands  BY <1>1, <1>4, CommandsBuilt
<1>7. Then(w, <<x, y>>)  BY <1>3
<1>8. acct' = acct  BY DEF NextRead
<1> HIDE DEF x, y
<1>9. <<x, y>> \in Seq(Commands)  BY <1>6, Short
<1>10. \A j \in DOMAIN <<x, y>> : j = 1 \/ <<x, y>>[j] = y  OBVIOUS
<1>11. i = 1 /\ todo'[w][i] = x
  BY <1>1, <1>5, <1>7, <1>9, <1>10, ThenParts
<1> QED  BY <1>4, <1>5, <1>8, <1>11 

LEMMA WriteStep ==
  ASSUME PoolAssumption, Typed, WriteLive, NEW w \in Workers, Step(w), ~NextRead(w)
  PROVE  Writeless(w, todo'[w])
<1>1. todo \in Chains /\ todo[w] # <<>>  BY HeadRuns DEF Typed
<1>2. ASSUME NEW s \in Seq(Commands), Then(w, s), Writeless(w, s)
      PROVE  Writeless(w, todo'[w])
  BY <1>1, <1>2, ThenWriteless
<1>3. <<>> \in Seq(Commands) /\ Writeless(w, <<>>)  BY WritelessShort
<1>4. CASE NextWrite(w) \/ NextSet(w) \/ MarkWrite(w) \/ Retry(w) \/ SetActive(w)
  BY <1>2, <1>3, <1>4 DEF NextWrite, NextSet, MarkWrite, Retry, SetActive
<1>5. CASE MarkRead(w)
  <2> DEFINE a == Head(todo[w]).id
             x == [op |-> "markWrite", id |-> a, data |-> acct[a]]
  <2>1. a \in Accounts  BY <1>1, <1>5, HeadCommand, CommandParts DEF MarkRead
  <2>2. CASE acct[a] = None  BY <1>2, <1>3, <1>5, <2>2 DEF MarkRead
  <2>3. CASE acct[a] # None
    <3>1. x \in Commands /\ Fit(w, x)
      BY <2>1, <2>3, CommandsBuilt, FitCommands DEF Typed
    <3>2. Then(w, <<x>>)  BY <1>5, <2>3 DEF MarkRead
    <3> HIDE DEF x
    <3> QED  BY <1>2, <3>1, <3>2, Short, WritelessShort
  <2> QED  BY <2>2, <2>3
<1>6. CASE LoadGet(w) \/ LoadCreds(w)
  <2>1. RotateOps(TRUE) \in Commands /\ Fit(w, RotateOps(TRUE))
    BY CommandsBuilt, FitCommands
  <2>2. <<RotateOps(TRUE)>> \in Seq(Commands) /\ Writeless(w, <<RotateOps(TRUE)>>)
    BY <2>1, Short, WritelessShort
  <2>3. CASE Then(w, <<>>) \/ Then(w, <<RotateOps(TRUE)>>)
    BY <1>2, <1>3, <2>2, <2>3
  <2>4. CASE active # None /\ Then(w, <<[op |-> "loadCreds", id |-> active]>>)
    <3> DEFINE x == [op |-> "loadCreds", id |-> active]
    <3>1. x \in Commands /\ Fit(w, x)
      BY <2>4, CommandsBuilt, FitCommands DEF Typed, Ids
    <3> HIDE DEF x
    <3> QED  BY <1>2, <2>4, <3>1, Short, WritelessShort DEF x
  <2> QED  BY <1>6, <2>3, <2>4 DEF LoadGet, LoadCreds
<1>7. CASE RotateIf(w)
  <2> DEFINE x == RotateOps(FALSE)
  <2>1. x \in Commands /\ Fit(w, x) /\ LoadOps \in Commands /\ Fit(w, LoadOps)
    BY CommandsBuilt, FitCommands
  <2>2. <<x, LoadOps>> \in Seq(Commands) /\ Writeless(w, <<x, LoadOps>>)
    BY <2>1, Short, WritelessShort
  <2> QED  BY <1>2, <1>3, <1>7, <2>2 DEF RotateIf
<1>8. CASE ActivateIf(w)
  <2> DEFINE a == Head(todo[w]).id
             x == [op |-> "setActive", id |-> a]
  <2>1. a \in Accounts  BY <1>1, <1>8, HeadCommand, CommandParts DEF ActivateIf
  <2>2. x \in Commands /\ Fit(w, x) /\ LoadOps \in Commands /\ Fit(w, LoadOps)
    BY <2>1, CommandsBuilt, FitCommands
  <2>3. Then(w, <<x, LoadOps>>) \/ Then(w, <<>>)  BY <1>8 DEF ActivateIf
  <2> HIDE DEF x
  <2>4. <<x, LoadOps>> \in Seq(Commands) /\ Writeless(w, <<x, LoadOps>>)
    BY <2>2, Short, WritelessShort
  <2> QED  BY <1>2, <1>3, <2>3, <2>4
<1> QED  BY <1>4, <1>5, <1>6, <1>7, <1>8 DEF Step

\* A command that fails leaves no write behind.
LEMMA CutWriteless ==
  ASSUME Typed, WriteLive, NEW w \in Workers, Failing(w)
  PROVE  Writeless(w, todo'[w])
<1> DEFINE t == todo[w]
<1>1. t \in Seq(Commands) /\ todo'[w] = Cut(t)
  BY DEF Typed, Chains, Failing, NextFails, MarkFails, LoadFails, AdminFails, Broken
<1>2. \A i \in DOMAIN t : i # 1 => Fit(w, t[i])  BY DEF WriteLive, Fit
<1> HIDE DEF t
<1>3. PICK n \in {1, 2} : Cut(t) = SubSeq(t, n + 1, Len(t))  BY DEF Cut
<1>4. ASSUME NEW i \in DOMAIN Cut(t)  PROVE  Fit(w, Cut(t)[i])
  <2>1. n + 1 \in Nat \ {0} /\ n >= 1  OBVIOUS
  <2>2. Cut(t) \in Seq(Commands)  BY <1>1, <1>3, <2>1, PartTyped
  <2>3. i \in 1..Len(Cut(t))  BY <2>2, LenProperties
  <2>4. i + (n + 1) - 1 \in DOMAIN t /\ Cut(t)[i] = t[i + (n + 1) - 1]
    BY <1>1, <1>3, <2>1, PartTyped
  <2>5. i + (n + 1) - 1 # 1
    <3>1. i \in Nat /\ i >= 1 /\ n \in Nat /\ n >= 1  BY <2>3
    <3> QED  BY <3>1
  <2> QED  BY <1>2, <2>4, <2>5
<1> QED  BY <1>1, <1>4 DEF Writeless

\* The chains that handlers start with.
Started(w, t) ==
  \/ t = <<>> \/ t = <<LoadOps>>
  \/ \E a \in Accounts :
       \/ t = <<[op |-> "markRead", id |-> a]>>
       \/ t = <<[op |-> "activateIf", id |-> a]>>
       \/ \E d : t = <<[op |-> "markWrite", id |-> a, data |-> d]>>
       \/ t = <<[op |-> "setActive", id |-> a], LoadOps>>
       \/ \E p \in Requests : WorkerOf[p] = w /\ t = <<[op |-> "markRead", id |-> a], LoadOps, Again(p)>>
  \/ \E p \in Requests : WorkerOf[p] = w /\ t = <<RotateOps(FALSE), LoadOps, Again(p)>>
  \/ \E A \in SUBSET Accounts : t = <<[op |-> "rotateIf", ids |-> A]>>

LEMMA StartsWriteless ==
  ASSUME NEW w, NEW t, Started(w, t)
  PROVE  Writeless(w, t)
<1>1. Fit(w, LoadOps) /\ Fit(w, RotateOps(FALSE))  BY FitCommands
<1>2. CASE t = <<>> \/ t = <<LoadOps>>  BY <1>1, <1>2, WritelessShort
<1>3. ASSUME NEW a \in Accounts,
             \/ t = <<[op |-> "markRead", id |-> a]>>
             \/ t = <<[op |-> "activateIf", id |-> a]>>
             \/ \E d : t = <<[op |-> "markWrite", id |-> a, data |-> d]>>
             \/ t = <<[op |-> "setActive", id |-> a], LoadOps>>
             \/ \E p \in Requests : WorkerOf[p] = w /\ t = <<[op |-> "markRead", id |-> a], LoadOps, Again(p)>>
      PROVE  Writeless(w, t)
  BY <1>1, <1>3, FitCommands, WritelessShort
<1>4. ASSUME NEW p \in Requests, WorkerOf[p] = w, t = <<RotateOps(FALSE), LoadOps, Again(p)>>
      PROVE  Writeless(w, t)
  BY <1>1, <1>4, FitCommands, WritelessShort
<1>5. ASSUME NEW A \in SUBSET Accounts, t = <<[op |-> "rotateIf", ids |-> A]>>
      PROVE  Writeless(w, t)
  BY <1>5, FitCommands, WritelessShort
<1> QED  BY <1>2, <1>3, <1>4, <1>5 DEF Started

\* An idle worker stays idle or starts one of those chains.
LEMMA IdleStarts ==
  ASSUME PoolAssumption, Typed, [Next]_vars,
         NEW w \in Workers, todo[w] = <<>>
  PROVE  Started(w, todo'[w])
<1>1. Started(w, <<>>)  BY DEF Started
<1>2. todo \in Chains  BY DEF Typed
<1>3. UNCHANGED todo => Started(w, todo'[w])  BY DEF Started
<1>4. ASSUME NEW s, NEW v \in Workers, v = w => Started(w, s), todo' = [todo EXCEPT ![v] = s]
      PROVE  Started(w, todo'[w])
  BY <1>1, <1>2, <1>4 DEF Chains
<1>5. ASSUME NEW v \in Workers, Step(v) \/ Refresh(v)
      PROVE  Started(w, todo'[w])
  <2>1. CASE Refresh(v)
    <3>1. Started(w, <<LoadOps>>)  BY DEF Started
    <3> QED  BY <1>4, <2>1, <3>1 DEF Refresh
  <2>2. CASE Step(v)
    <3>1. v # w  BY <2>2, HeadRuns
    <3>2. \E s : Then(v, s)
      BY <2>2 DEF Step, NextRead, NextWrite, NextSet, MarkRead, MarkWrite, LoadGet, LoadCreds,
         Retry, SetActive, RotateIf, ActivateIf
    <3> QED  BY <1>1, <1>2, <3>1, <3>2 DEF Then, Chains
  <2> QED  BY <1>5, <2>1, <2>2
<1>6. ASSUME NEW p \in Requests,
             Attempt(p) \/ Return(p) \/ AccountError(p) \/ TransientError(p)
      PROVE  Started(w, todo'[w])
  <2>1. WorkerOf[p] \in Workers  BY DEF PoolAssumption
  <2>2. CASE Attempt(p) \/ Return(p)  BY <1>3, <2>2 DEF Attempt, Return
  <2>3. CASE AccountError(p)
    <3>1. req[p].used \in Accounts
      BY <2>3 DEF AccountError, Typed, Resolves, Ids
    <3>2. WorkerOf[p] = w => Started(w, <<[op |-> "markRead", id |-> req[p].used], LoadOps, Again(p)>>)
      BY <3>1 DEF Started
    <3> QED  BY <1>4, <2>1, <2>3, <3>2 DEF AccountError, Again
  <2>4. CASE TransientError(p)
    <3>1. WorkerOf[p] = w => Started(w, <<RotateOps(FALSE), LoadOps, Again(p)>>)  BY DEF Started
    <3> QED  BY <1>4, <2>1, <2>4, <3>1 DEF TransientError, Again
  <2> QED  BY <1>6, <2>2, <2>3, <2>4
<1>7. ASSUME NEW v \in Workers, NEW a \in Accounts,
             Activate(v, a) \/ Delete(v, a) \/ DeleteFails(v, a) \/ CronProbe(v, a)
      PROVE  Started(w, todo'[w])
  <2>1. /\ Started(w, <<[op |-> "setActive", id |-> a], LoadOps>>)
        /\ Started(w, <<[op |-> "rotateIf", ids |-> {a}]>>)
        /\ Started(w, <<[op |-> "markRead", id |-> a]>>)
    BY DEF Started
  <2> QED  BY <1>3, <1>4, <1>7, <2>1 DEF Activate, Delete, DeleteFails, CronProbe
<1>8. ASSUME NEW v \in Workers, NEW a \in Accounts, NEW kind \in AdminKinds,
             BeginEdit(v, a, kind)
      PROVE  Started(w, todo'[w])
  BY <1>3, <1>8 DEF BeginEdit
<1>9. ASSUME NEW e \in pending, EndEdit(e) \/ EndEditFails(e)
      PROVE  Started(w, todo'[w])
  <2>1. e.by \in Workers /\ e.id \in Accounts  BY DEF Typed, Edits
  <2>2. Started(w, <<[op |-> "activateIf", id |-> e.id]>>)  BY <2>1 DEF Started
  <2>3. \A d : Started(w, <<[op |-> "markWrite", id |-> e.id, data |-> d]>>)
    BY <2>1 DEF Started
  <2>4. \/ UNCHANGED todo
        \/ todo' = [todo EXCEPT ![e.by] = <<[op |-> "activateIf", id |-> e.id]>>]
        \/ \E d : todo' = [todo EXCEPT ![e.by] = <<[op |-> "markWrite", id |-> e.id, data |-> d]>>]
    BY <1>9 DEF EndEdit, EndEditFails
  <2> QED  BY <1>3, <1>4, <2>1, <2>2, <2>3, <2>4
<1>10. ASSUME NEW v \in Workers, CronStart(v) \/ CronEnd(v)
       PROVE  Started(w, todo'[w])
  <2>1. cron[v].bad \in SUBSET Accounts  BY DEF Typed, Checks
  <2>2. Started(w, <<[op |-> "rotateIf", ids |-> cron[v].bad]>>)  BY <2>1 DEF Started
  <2> QED  BY <1>3, <1>4, <1>10, <2>2 DEF CronStart, CronEnd
<1>11. CASE UNCHANGED vars  BY <1>3, <1>11 DEF vars
<1>12. ASSUME NEW v \in Workers, Failing(v)
       PROVE  Started(w, todo'[w])
  <2>1. todo' = [todo EXCEPT ![v] = Cut(@)] /\ v # w
    BY <1>12 DEF Failing, NextFails, MarkFails, LoadFails, AdminFails, Broken
  <2> QED  BY <1>1, <1>2, <2>1 DEF Chains
<1> QED  BY <1>12, <1>5, <1>6, <1>7, <1>8, <1>9, <1>10, <1>11 DEF Next, Failing

\* A chain gets shorter when a command leaves nothing behind, or fails.
LEMMA CutMoves ==
  ASSUME todo \in Chains, NEW v \in Workers, todo[v] # <<>>,
         todo'[v] = Tail(todo[v]) \/ todo'[v] = Cut(todo[v])
  PROVE  todo'[v] # todo[v]
<1>1. todo[v] \in Seq(Commands)  BY DEF Chains
<1>2. Len(todo[v]) # 0 /\ Len(todo[v]) \in Nat  BY <1>1, EmptySeq, LenProperties
<1>3. Len(Tail(todo[v])) = Len(todo[v]) - 1  BY <1>1, HeadTailProperties
<1>4. Len(Cut(todo[v])) < Len(todo[v])
  <2>1. PICK n \in {1, 2} : Cut(todo[v]) = SubSeq(todo[v], n + 1, Len(todo[v]))  BY DEF Cut
  <2>2. Len(SubSeq(todo[v], n + 1, Len(todo[v]))) < Len(todo[v])  BY <1>1, <1>2
  <2> QED  BY <2>1, <2>2
<1>5. Len(Tail(todo[v])) # Len(todo[v]) /\ Len(Cut(todo[v])) # Len(todo[v])
  BY <1>2, <1>3, <1>4
<1> QED  BY <1>5

LEMMA DoneMoves ==
  ASSUME todo \in Chains, NEW v \in Workers, todo[v] # <<>>, Then(v, <<>>)
  PROVE  todo'[v] # todo[v]
<1>1. todo'[v] = <<>> \o Tail(todo[v])  BY DEF Then, Chains
<1>2. Tail(todo[v]) \in Seq(Commands)  BY HeadTailProperties DEF Chains
<1>3. todo'[v] = Tail(todo[v])  BY <1>1, <1>2, ConcatEmptySeq
<1> QED  BY <1>3, CutMoves

\* An unhealthy account was so before, or somebody just wrote it, and that was
\* no worker that is in a chain and stays there.
LEMMA MarksMade ==
  ASSUME PoolAssumption, Typed, [Next]_vars, NEW a \in Accounts,
         acct'[a] # None, acct'[a].status = "unhealthy"
  PROVE  \/ acct'[a] = acct[a] /\ marker'[a] = marker[a]
         \/ \E v \in Workers : marker'[a] = v /\ (todo[v] = <<>> \/ todo'[v] # todo[v])
<1> USE DEF Typed
<1>1. ASSUME NEW v \in Workers, NEW b \in Accounts, NEW d \in Records, Store(v, b, d),
             todo[v] = <<>> \/ todo'[v] # todo[v]
      PROVE  \/ acct'[a] = acct[a] /\ marker'[a] = marker[a]
             \/ \E u \in Workers : marker'[a] = u /\ (todo[u] = <<>> \/ todo'[u] # todo[u])
  <2>1. CASE a # b  BY <1>1, <2>1 DEF Store
  <2>2. CASE a = b
    <3>1. acct'[a] = d /\ marker'[a] = IF d.status = "unhealthy" THEN v ELSE None
      BY <1>1, <2>2 DEF Store
    <3> QED  BY <1>1, <3>1
  <2> QED  BY <2>1, <2>2
<1>2. CASE UNCHANGED <<acct, marker>>  BY <1>2
<1>5. ASSUME NEW v \in Workers, NextWrite(v) \/ MarkWrite(v)
      PROVE  \E b \in Accounts, d \in Records : Store(v, b, d) /\ todo'[v] # todo[v]
  <2> DEFINE c == Head(todo[v])
  <2>1. todo[v] # <<>> /\ c.id \in Accounts /\ c.data \in Records
    BY <1>5, HeadCommand, CommandParts DEF NextWrite, MarkWrite
  <2>2. todo'[v] # todo[v]  BY <1>5, <2>1, DoneMoves DEF NextWrite, MarkWrite
  <2>3. now' \in 0..MaxTime \/ MarkWrite(v)  BY <1>5, ClockTyped DEF NextWrite
  <2>4. MarkWrite(v) \/ Stamped(c, now') \in Records  BY <2>1, <2>3, RecordsKept DEF Stamped
  <2>5. Blamed(c) \in Records  BY <2>1, RecordsKept DEF Blamed
  <2>6. (MarkWrite(v) /\ Store(v, c.id, Blamed(c))) \/ Store(v, c.id, Stamped(c, now'))
    BY <1>5 DEF NextWrite, MarkWrite
  <2> HIDE DEF c
  <2>7. CASE MarkWrite(v) /\ Store(v, c.id, Blamed(c))  BY <2>1, <2>2, <2>5, <2>7
  <2>8. CASE ~MarkWrite(v)  BY <2>1, <2>2, <2>4, <2>6, <2>8
  <2>9. CASE MarkWrite(v)
    <3>1. Store(v, c.id, Blamed(c))  BY <2>9 DEF MarkWrite, c
    <3> QED  BY <2>1, <2>2, <2>5, <3>1
  <2> QED  BY <2>8, <2>9
<1>6. ASSUME NEW v \in Workers, NextFails(v) \/ MarkFails(v)
      PROVE  \/ UNCHANGED <<acct, marker>>
             \/ \E b \in Accounts, d \in Records : Store(v, b, d) /\ todo'[v] # todo[v]
  <2> DEFINE c == Head(todo[v])
  <2>1. c \in Commands /\ todo[v] # <<>>
    BY <1>6, HeadTyped DEF NextFails, MarkFails, Broken
  <2>2. todo'[v] = Cut(todo[v])  BY <1>6 DEF NextFails, MarkFails, Broken, Chains
  <2>3. todo'[v] # todo[v]  BY <2>1, <2>2, CutMoves
  <2>4. c.op \in {"nextWrite", "markWrite"} => c.id \in Accounts /\ c.data \in Records
    BY <2>1, CommandParts
  <2>5. CASE c.op = "nextWrite" /\ Clock /\ Store(v, c.id, Stamped(c, now'))
    <3>1. now' \in 0..MaxTime  BY <2>5, ClockTyped
    <3>2. Stamped(c, now') \in Records  BY <2>4, <2>5, <3>1, RecordsKept DEF Stamped
    <3> HIDE DEF c
    <3> QED  BY <2>3, <2>4, <2>5, <3>2
  <2>6. CASE c.op = "markWrite" /\ Store(v, c.id, Blamed(c))
    <3>1. Blamed(c) \in Records  BY <2>4, <2>6, RecordsKept DEF Blamed
    <3> HIDE DEF c
    <3> QED  BY <2>3, <2>4, <2>6, <3>1
  <2>7. \/ UNCHANGED <<acct, marker>>
        \/ c.op = "nextWrite" /\ Clock /\ Store(v, c.id, Stamped(c, now'))
        \/ c.op = "markWrite" /\ Store(v, c.id, Blamed(c))
    BY <1>6 DEF NextFails, MarkFails
  <2> QED  BY <2>5, <2>6, <2>7
<1>7. ASSUME NEW v \in Workers, NEW b \in Accounts, Delete(v, b) \/ DeleteFails(v, b)
      PROVE  acct'[a] = acct[a] /\ marker'[a] = marker[a]
  <2>1. \/ UNCHANGED <<acct, marker>>
        \/ /\ acct' = [acct EXCEPT ![b] = None]
           /\ marker' = [marker EXCEPT ![b] = None]
    BY <1>7 DEF Delete, DeleteFails
  <2> QED  BY <2>1
<1>8. ASSUME NEW e \in pending, EndEdit(e) \/ EndEditFails(e)
      PROVE  \/ UNCHANGED <<acct, marker>>
             \/ \E v \in Workers, b \in Accounts, d \in Records :
                  Store(v, b, d) /\ todo[v] = <<>>
  <2>1. /\ e.by \in Workers /\ e.id \in Accounts /\ e \in Edits
        /\ todo[e.by] = <<>>
    BY <1>8 DEF EndEdit, EndEditFails, Edits, Idle
  <2>2. now' \in 0..MaxTime  BY <1>8, ClockTyped DEF EndEdit, EndEditFails
  <2>3. Verdicts(e, now') \subseteq Records  BY <2>1, <2>2, VerdictsTyped
  <2>4. UNCHANGED <<acct, marker>> \/ \E d \in Verdicts(e, now') : Store(e.by, e.id, d)
    BY <1>8 DEF EndEdit, EndEditFails
  <2> QED  BY <2>1, <2>3, <2>4
<1>9. CASE \E v \in Workers : LoadFails(v) \/ AdminFails(v) \/ CronStart(v) \/ CronEnd(v)
  BY <1>2, <1>9 DEF LoadFails, AdminFails, CronStart, CronEnd
<1>10. ASSUME NEW v \in Workers, Step(v) \/ Refresh(v), ~NextWrite(v), ~MarkWrite(v)
       PROVE  UNCHANGED <<acct, marker>>
  BY <1>10 DEF Refresh, Step, NextRead, NextSet, MarkRead, LoadGet, LoadCreds, Retry,
     SetActive, RotateIf, ActivateIf
<1>11. CASE \E p \in Requests : Attempt(p) \/ Return(p) \/ AccountError(p) \/ TransientError(p)
  BY <1>2, <1>11 DEF Attempt, Return, AccountError, TransientError
<1>12. CASE \E v \in Workers, b \in Accounts : Activate(v, b) \/ CronProbe(v, b)
  BY <1>2, <1>12 DEF Activate, CronProbe
<1>13. CASE \E v \in Workers, b \in Accounts, kind \in AdminKinds : BeginEdit(v, b, kind)
  BY <1>2, <1>13 DEF BeginEdit
<1>14. CASE UNCHANGED vars  BY <1>2, <1>14 DEF vars
<1> HIDE DEF Typed
<1> QED
  BY <1>1, <1>2, <1>5, <1>6, <1>7, <1>8, <1>9, <1>10, <1>11, <1>12, <1>13, <1>14 DEF Next

LEMMA WriteNext ==
  ASSUME PoolAssumption, Typed, WriteLive, [Next]_vars
  PROVE  WriteLive'
<1> SUFFICES ASSUME NEW w \in Workers, NEW i \in DOMAIN todo'[w],
                    NEW c, c = todo'[w][i], ~Fit(w, c)
             PROVE  c.op # "retry" /\ i = 1 /\ Unmarked(w, c.id)'
  BY DEF WriteLive, Fit
<1>1. ~Writeless(w, todo'[w])  BY DEF Writeless
<1>2. todo[w] # <<>>  BY <1>1, IdleStarts, StartsWriteless
<1>3. CASE Step(w)
  <2>1. NextRead(w)  BY <1>1, <1>3, WriteStep
  <2>2. i = 1 /\ acct'[c.id].status = "healthy" /\ c.op # "retry"  BY <2>1, WriteRead
  <2> QED  BY <2>2 DEF Unmarked
<1>4. CASE Failing(w)  BY <1>1, <1>4, CutWriteless
<1>5. CASE todo'[w] = todo[w]
  <2>1. c.op # "retry" /\ c.op = "nextWrite" /\ i = 1 /\ Unmarked(w, c.id)
    BY <1>5 DEF WriteLive, Fit
  <2>2. c.id \in Accounts
    <3>1. c \in Commands  BY <1>5, ChainsTyped DEF Typed
    <3> QED  BY <2>1, <3>1, CommandParts
  <2>3. \A v \in Workers : v = w => ~(todo[v] = <<>> \/ todo'[v] # todo[v])
    BY <1>2, <1>5
  <2>4. Unmarked(w, c.id)'
    <3>1. ASSUME acct'[c.id] # None, acct'[c.id].status = "unhealthy"
          PROVE  marker'[c.id] # w
      <4>1. \/ acct'[c.id] = acct[c.id] /\ marker'[c.id] = marker[c.id]
            \/ \E v \in Workers : marker'[c.id] = v /\ (todo[v] = <<>> \/ todo'[v] # todo[v])
        BY <2>2, <3>1, MarksMade
      <4> QED  BY <2>1, <2>3, <3>1, <4>1 DEF Unmarked
    <3> QED  BY <3>1 DEF Unmarked
  <2> QED  BY <2>1, <2>4
<1> QED  BY <1>2, <1>3, <1>4, <1>5, Moves

-----------------------------------------------------------------------------
(* A resolve that blamed an account *)

\* What a command leaves of a chain of two commands, and of three.
LEMMA LeavesOne ==
  ASSUME NEW w \in Workers, todo \in Chains, NEW z, Tail(todo[w]) = <<z>>
  PROVE  /\ Then(w, <<>>) => todo'[w] = <<z>>
         /\ \A x : Then(w, <<x>>) => todo'[w] = <<x, z>>
         /\ \A x, y : Then(w, <<x, y>>) => todo'[w] = <<x, y, z>>
<1>1. \A s : Then(w, s) => todo'[w] = s \o <<z>>  BY DEF Then, Chains
<1>2. <<>> \o <<z>> = <<z>>
  <2>1. <<z>> \in Seq({z})  BY Short
  <2> QED  BY <2>1, ConcatEmptySeq
<1>3. ASSUME NEW x  PROVE  <<x>> \o <<z>> = <<x, z>>  BY JoinOne
<1>4. ASSUME NEW x, NEW y  PROVE  <<x, y>> \o <<z>> = <<x, y, z>>  BY JoinTwoOne
<1> QED  BY <1>1, <1>2, <1>3, <1>4

LEMMA LeavesTwo ==
  ASSUME NEW w \in Workers, todo \in Chains, NEW y, NEW z, Tail(todo[w]) = <<y, z>>
  PROVE  /\ Then(w, <<>>) => todo'[w] = <<y, z>>
         /\ \A x : Then(w, <<x>>) => todo'[w] = <<x, y, z>>
<1>1. \A s : Then(w, s) => todo'[w] = s \o <<y, z>>  BY DEF Then, Chains
<1>2. <<>> \o <<y, z>> = <<y, z>>
  <2>1. <<y, z>> \in Seq({y, z})  BY Short
  <2> QED  BY <2>1, ConcatEmptySeq
<1>3. ASSUME NEW x  PROVE  <<x>> \o <<y, z>> = <<x, y, z>>  BY JoinOneTwo
<1> QED  BY <1>1, <1>2, <1>3

LEMMA BlameMark ==
  ASSUME PoolAssumption, Typed, NEW w \in Workers, NEW p \in Requests, NEW u \in Accounts,
         ToMark(w, p, u), Step(w)
  PROVE  ToMark(w, p, u)' \/ (~Healthy(u)' /\ ToLoad(w, p, u)')
<1>0. todo \in Chains  BY DEF Typed
<1>1. CASE todo[w] = <<[op |-> "markRead", id |-> u], LoadOps, Again(p)>>
  <2> DEFINE x == [op |-> "markWrite", id |-> u, data |-> acct[u]]
  <2>1. Head(todo[w]).op = "markRead" /\ Head(todo[w]).id = u
        /\ Tail(todo[w]) = <<LoadOps, Again(p)>>
    BY <1>1, ChainParts
  <2>2. MarkRead(w)  BY <2>1, HeadRuns
  <2>3. CASE acct[u] = None
    <3>1. Then(w, <<>>) /\ acct' = acct  BY <2>1, <2>2, <2>3 DEF MarkRead
    <3>2. todo'[w] = <<LoadOps, Again(p)>>  BY <1>0, <2>1, <3>1, LeavesTwo
    <3> QED  BY <2>3, <3>1, <3>2 DEF Healthy, ToLoad
  <2>4. CASE acct[u] # None
    <3>1. Then(w, <<x>>)  BY <2>1, <2>2, <2>4 DEF MarkRead
    <3>2. acct[u] \in Records  BY <2>4 DEF Typed
    <3> HIDE DEF x
    <3>3. todo'[w] = <<x, LoadOps, Again(p)>>  BY <1>0, <2>1, <3>1, LeavesTwo
    <3> QED  BY <3>2, <3>3 DEF ToMark, x
  <2> QED  BY <2>3, <2>4
<1>2. ASSUME NEW d \in Records,
             todo[w] = <<[op |-> "markWrite", id |-> u, data |-> d], LoadOps, Again(p)>>
      PROVE  ~Healthy(u)' /\ ToLoad(w, p, u)'
  <2>1. /\ Head(todo[w]).op = "markWrite" /\ Head(todo[w]).id = u /\ Head(todo[w]).data = d
        /\ Tail(todo[w]) = <<LoadOps, Again(p)>>
    BY <1>2, ChainParts
  <2>2. MarkWrite(w)  BY <2>1, HeadRuns
  <2>3. Then(w, <<>>) /\ acct' = [acct EXCEPT ![u] = [d EXCEPT !.status = "unhealthy"]]
    BY <2>1, <2>2 DEF MarkWrite, Store, Blamed
  <2>4. [d EXCEPT !.status = "unhealthy"].status = "unhealthy"  BY DEF Records
  <2>5. ~Healthy(u)'
    <3>1. acct'[u] = [d EXCEPT !.status = "unhealthy"]  BY <2>3 DEF Typed
    <3> QED  BY <2>4, <3>1 DEF Healthy
  <2>6. todo'[w] = <<LoadOps, Again(p)>>  BY <1>0, <2>1, <2>3, LeavesTwo
  <2> QED  BY <2>5, <2>6 DEF ToLoad
<1> QED  BY <1>1, <1>2 DEF ToMark

LEMMA BlameLoad ==
  ASSUME PoolAssumption, Typed, NEW w \in Workers, NEW p \in Requests,
         NEW u \in Accounts, ~Healthy(u), ToLoad(w, p, u), Step(w)
  PROVE  ~Healthy(u)' /\ (ToLoad(w, p, u)' \/ ToRetry(w, p, u)')
<1>0. todo \in Chains  BY DEF Typed
<1>1. CASE todo[w] = <<LoadOps, Again(p)>>
  <2>1. Head(todo[w]).op = "loadGet" /\ Tail(todo[w]) = <<Again(p)>>
    BY <1>1, ChainParts DEF LoadOps
  <2>2. LoadGet(w)  BY <2>1, HeadRuns
  <2>3. ~Healthy(u)'  BY <2>2 DEF LoadGet, Healthy
  <2>4. CASE Then(w, <<RotateOps(TRUE)>>)
    <3>1. todo'[w] = <<RotateOps(TRUE), Again(p)>>
      BY <1>0, <2>1, <2>4, LeavesOne
    <3> QED  BY <2>3, <3>1 DEF ToLoad
  <2>5. ASSUME NEW a \in Accounts, Then(w, <<[op |-> "loadCreds", id |-> a]>>)
        PROVE  ToLoad(w, p, u)'
    <3>1. todo'[w] = <<[op |-> "loadCreds", id |-> a], Again(p)>>
      BY <1>0, <2>1, <2>5, LeavesOne
    <3> QED  BY <3>1 DEF ToLoad
  <2>6. active # None => active \in Accounts  BY DEF Typed, Ids
  <2> QED  BY <2>2, <2>3, <2>4, <2>5, <2>6 DEF LoadGet
<1>2. ASSUME NEW a \in Accounts, todo[w] = <<[op |-> "loadCreds", id |-> a], Again(p)>>
      PROVE  ~Healthy(u)' /\ (ToLoad(w, p, u)' \/ ToRetry(w, p, u)')
  <2>1. Head(todo[w]).op = "loadCreds" /\ Head(todo[w]).id = a /\ Tail(todo[w]) = <<Again(p)>>
    BY <1>2, ChainParts
  <2>2. LoadCreds(w)  BY <2>1, HeadRuns
  <2>3. acct' = acct  BY <2>2 DEF LoadCreds
  <2>4. CASE Healthy(a)
    <3>1. Then(w, <<>>) /\ current' = [current EXCEPT ![w] = a]
      BY <2>1, <2>2, <2>4 DEF LoadCreds
    <3>2. todo'[w] = <<Again(p)>>  BY <1>0, <2>1, <3>1, LeavesOne
    <3>3. current'[w] = a  BY <3>1 DEF Typed
    <3>4. a # u  BY <2>4
    <3> QED  BY <2>3, <3>2, <3>3, <3>4 DEF ToRetry, Healthy
  <2>5. CASE ~Healthy(a)
    <3>1. Then(w, <<RotateOps(TRUE)>>)  BY <2>1, <2>2, <2>5 DEF LoadCreds
    <3>2. todo'[w] = <<RotateOps(TRUE), Again(p)>>
      BY <1>0, <2>1, <3>1, LeavesOne
    <3> QED  BY <2>3, <3>2 DEF ToLoad, Healthy
  <2> QED  BY <2>4, <2>5
<1>3. CASE todo[w] = <<RotateOps(TRUE), Again(p)>>
  <2>1. Head(todo[w]).op = "nextRead" /\ Head(todo[w]).pick = TRUE
        /\ Tail(todo[w]) = <<Again(p)>>
    BY <1>3, ChainParts DEF RotateOps
  <2>2. NextRead(w)  BY <2>1, HeadRuns
  <2>3. acct' = acct  BY <2>2 DEF NextRead
  <2>4. CASE ~SomeHealthy /\ Then(w, <<>>)
    <3>1. todo'[w] = <<Again(p)>>  BY <1>0, <2>1, <2>4, LeavesOne
    <3>2. ~Healthy(u)'  BY <2>3 DEF Healthy
    <3> QED  BY <2>3, <2>4, <3>1, <3>2 DEF ToRetry, SomeHealthy, Healthy
  <2>5. ASSUME NEW a \in LeastRecent,
               Then(w, <<[op |-> "nextWrite", id |-> a, data |-> acct[a]],
                         [op |-> "nextSet", id |-> a, pick |-> Head(todo[w]).pick]>>)
        PROVE  ToLoad(w, p, u)'
    <3>1. a \in Accounts /\ acct[a] \in Records /\ a # u  BY DEF LeastRecent, Healthy, Typed
    <3>2. todo'[w] = <<[op |-> "nextWrite", id |-> a, data |-> acct[a]],
                       [op |-> "nextSet", id |-> a, pick |-> TRUE], Again(p)>>
      BY <1>0, <2>1, <2>5, LeavesOne
    <3> QED  BY <3>1, <3>2 DEF ToLoad
  <2>6. ~Healthy(u)'  BY <2>3 DEF Healthy
  <2> QED  BY <2>2, <2>4, <2>5, <2>6 DEF NextRead
<1>4. ASSUME NEW a \in Accounts, NEW d \in Records, a # u,
             todo[w] = <<[op |-> "nextWrite", id |-> a, data |-> d],
                         [op |-> "nextSet", id |-> a, pick |-> TRUE], Again(p)>>
      PROVE  ~Healthy(u)' /\ ToLoad(w, p, u)'
  <2>1. /\ Head(todo[w]).op = "nextWrite" /\ Head(todo[w]).id = a
        /\ Tail(todo[w]) = <<[op |-> "nextSet", id |-> a, pick |-> TRUE], Again(p)>>
    <3> DEFINE x == [op |-> "nextWrite", id |-> a, data |-> d]
               y == [op |-> "nextSet", id |-> a, pick |-> TRUE]
    <3>1. x.op = "nextWrite" /\ x.id = a  OBVIOUS
    <3>2. todo[w] = <<x, y, Again(p)>>  BY <1>4
    <3> HIDE DEF x, y
    <3>3. Head(todo[w]) = x /\ Tail(todo[w]) = <<y, Again(p)>>  BY <3>2, ChainParts
    <3> QED  BY <3>1, <3>3 DEF y
  <2>2. NextWrite(w)  BY <2>1, HeadRuns
  <2>3. Then(w, <<>>) /\ \E t : acct' = [acct EXCEPT ![a] = t]
    BY <2>1, <2>2 DEF NextWrite, Store
  <2>4. ~Healthy(u)'
    <3>1. acct'[u] = acct[u]  BY <1>4, <2>3 DEF Typed
    <3> QED  BY <3>1 DEF Healthy
  <2>5. todo'[w] = <<[op |-> "nextSet", id |-> a, pick |-> TRUE], Again(p)>>
    BY <1>0, <2>1, <2>3, LeavesTwo
  <2> QED  BY <1>4, <2>4, <2>5 DEF ToLoad
<1>5. ASSUME NEW a \in Accounts, a # u,
             todo[w] = <<[op |-> "nextSet", id |-> a, pick |-> TRUE], Again(p)>>
      PROVE  ~Healthy(u)' /\ ToRetry(w, p, u)'
  <2>1. /\ Head(todo[w]).op = "nextSet" /\ Head(todo[w]).id = a /\ Head(todo[w]).pick = TRUE
        /\ Tail(todo[w]) = <<Again(p)>>
    BY <1>5, ChainParts
  <2>2. NextSet(w)  BY <2>1, HeadRuns
  <2>3. Then(w, <<>>) /\ acct' = acct /\ current' = [current EXCEPT ![w] = a]
    BY <2>1, <2>2 DEF NextSet
  <2>4. todo'[w] = <<Again(p)>>  BY <1>0, <2>1, <2>3, LeavesOne
  <2>5. current'[w] = a  BY <2>3 DEF Typed
  <2> QED  BY <1>5, <2>3, <2>4, <2>5 DEF ToRetry, Healthy
<1> QED  BY <1>1, <1>2, <1>3, <1>4, <1>5 DEF ToLoad

\* Nothing but an account error makes a resolve blame an account, and until its
\* retry the resolve stays as it is.
LEMMA BlameKept ==
  ASSUME PoolAssumption, Typed, [Next]_vars, NEW p \in Requests,
         req'[p].at = "rotating", req'[p].why = "account"
  PROVE  AccountError(p) \/ req'[p] = req[p]
<1> USE DEF Typed
<1>1. ASSUME NEW w \in Workers, Step(w) \/ Refresh(w)
      PROVE  req'[p] = req[p]
  <2>1. CASE Retry(w)
    <3> DEFINE q == Head(todo[w]).by
    <3>1. q \in Requests  BY <2>1, HeadCommand, CommandParts DEF Retry
    <3>2. req' = [req EXCEPT ![q] = Retried(q, w)] \/ req' = [req EXCEPT ![q] = Resolve("done")]
      BY <2>1 DEF Retry
    <3> HIDE DEF q
    <3>3. req'[q].at # "rotating"  BY <3>1, <3>2 DEF Retried, Resolve
    <3>4. p # q  BY <3>3
    <3> QED  BY <3>1, <3>2, <3>4
  <2>2. CASE ~Retry(w)
    BY <1>1, <2>2 DEF Refresh, Step, NextRead, NextWrite, NextSet, MarkRead, MarkWrite,
       LoadGet, LoadCreds, SetActive, RotateIf, ActivateIf
  <2> QED  BY <2>1, <2>2
<1>2. ASSUME NEW q \in Requests,
             Attempt(q) \/ Return(q) \/ AccountError(q) \/ TransientError(q)
      PROVE  AccountError(p) \/ req'[p] = req[p]
  <2>1. CASE q = p
    <3>1. CASE Attempt(p)
      <4>1. req'[p].at = "upstream"  BY <3>1 DEF Attempt, Resolves
      <4> QED  BY <4>1
    <3>2. CASE Return(p)
      <4>1. req'[p].at = "done"  BY <3>2 DEF Return, Resolve
      <4> QED  BY <4>1
    <3>3. CASE TransientError(p)
      <4>1. req'[p].why = "transient"  BY <3>3 DEF TransientError, Resolves
      <4> QED  BY <4>1
    <3> QED  BY <1>2, <2>1, <3>1, <3>2, <3>3
  <2>2. CASE q # p
    BY <1>2, <2>2 DEF Attempt, Return, AccountError, TransientError
  <2> QED  BY <2>1, <2>2
<1>3. CASE \E w \in Workers, a \in Accounts :
             Activate(w, a) \/ Delete(w, a) \/ DeleteFails(w, a) \/ CronProbe(w, a)
  BY <1>3 DEF Activate, Delete, DeleteFails, CronProbe
<1>4. CASE \E w \in Workers, a \in Accounts, kind \in AdminKinds : BeginEdit(w, a, kind)
  BY <1>4 DEF BeginEdit
<1>5. CASE \E e \in pending : EndEdit(e) \/ EndEditFails(e)  BY <1>5 DEF EndEdit, EndEditFails
<1>6. CASE \E w \in Workers : CronStart(w) \/ CronEnd(w)  BY <1>6 DEF CronStart, CronEnd
<1>7. CASE UNCHANGED vars  BY <1>7 DEF vars
<1>8. CASE \E w \in Workers : Failing(w)
  BY <1>8 DEF Failing, NextFails, MarkFails, LoadFails, AdminFails
<1> QED  BY <1>1, <1>2, <1>3, <1>4, <1>5, <1>6, <1>7, <1>8 DEF Next, Failing

\* While a worker is in a chain for a resolve that nothing comes across, only
\* that chain moves the worker, and no account of the pool becomes healthy.
LEMMA Calm ==
  ASSUME PoolAssumption, Typed, [Next]_vars, NEW p \in Requests, Blaming(p), p \notin spoilt',
         NEW w \in Workers, w = WorkerOf[p], todo[w] # <<>>, ~Step(w)
  PROVE  /\ todo'[w] = todo[w]
         /\ current'[w] = current[w]
         /\ \A a \in Accounts : Healthy(a)' => Healthy(a)
<1> DEFINE Still == \A a \in Accounts : Healthy(a)' => Healthy(a)
<1>1. ASSUME Failing(w)  PROVE  FALSE
  <2>1. Own(w) \subseteq spoilt'
    BY <1>1 DEF Failing, NextFails, MarkFails, LoadFails, AdminFails
  <2> QED  BY <2>1 DEF Own
<1>2. todo'[w] = todo[w]  BY <1>1, Moves
<1>3. ASSUME NEW v \in Workers, v # w, NEW b \in Accounts, NEW d, Store(v, b, d),
             d.status = "healthy" => Surprised(v, b) \subseteq spoilt'
      PROVE  Still
  <2> SUFFICES ASSUME NEW a \in Accounts, Healthy(a)', ~Healthy(a)  PROVE  FALSE
    OBVIOUS
  <2>1. acct \in [Accounts -> Records \cup {None}]  BY DEF Typed
  <2>2. acct' = [acct EXCEPT ![b] = d]  BY <1>3 DEF Store
  <2>3. a = b
    <3>1. CASE a # b
      <4>1. acct'[a] = acct[a]  BY <2>1, <2>2, <3>1
      <4> QED  BY <4>1 DEF Healthy
    <3> QED  BY <3>1
  <2>4. d.status = "healthy"
    <3>1. acct'[a] = d  BY <2>1, <2>2, <2>3
    <3> QED  BY <3>1 DEF Healthy
  <2>5. p \in Surprised(v, b)  BY <1>3, <2>3 DEF Surprised
  <2> QED  BY <1>3, <2>4, <2>5
<1>4. ASSUME NEW v \in Workers, NEW c \in Commands, Store(v, c.id, Blamed(c)), v # w,
             c.op = "markWrite"
      PROVE  Still
  <2>1. c.id \in Accounts /\ c.data \in Records  BY <1>4, CommandParts
  <2>2. Blamed(c).status = "unhealthy"
    <3>1. \A d \in Records : [d EXCEPT !.status = "unhealthy"].status = "unhealthy"
      BY DEF Records
    <3> QED  BY <2>1, <3>1 DEF Blamed
  <2>3. Blamed(c).status # "healthy"  BY <2>2
  <2> QED  BY <1>3, <1>4, <2>1, <2>3
<1>5. UNCHANGED acct => Still  BY DEF Healthy
<1>6. ASSUME NEW v \in Workers, Step(v) \/ Refresh(v)
      PROVE  current'[w] = current[w] /\ Still
  <2>1. v # w
    <3>1. ~Refresh(w)  BY DEF Refresh, Idle
    <3> QED  BY <1>6, <3>1
  <2>2. current'[w] = current[w]
    BY <1>6, <2>1 DEF Typed, Refresh, Step, NextRead, NextWrite, NextSet, MarkRead, MarkWrite,
       LoadGet, LoadCreds, Retry, SetActive, RotateIf, ActivateIf
  <2>3. CASE NextWrite(v)
    <3> DEFINE c == Head(todo[v])
    <3>1. c.id \in Accounts /\ Store(v, c.id, Stamped(c, now')) /\ Surprised(v, c.id) \subseteq spoilt'
      BY <2>3, HeadCommand, CommandParts DEF NextWrite, Typed
    <3> HIDE DEF c
    <3> QED  BY <1>3, <2>1, <2>2, <3>1
  <2>4. CASE MarkWrite(v)
    <3> DEFINE c == Head(todo[v])
    <3>1. c \in Commands /\ Store(v, c.id, Blamed(c)) /\ c.op = "markWrite"
      BY <2>4, HeadCommand DEF MarkWrite, Typed
    <3> HIDE DEF c
    <3> QED  BY <1>4, <2>1, <2>2, <3>1
  <2>5. CASE ~NextWrite(v) /\ ~MarkWrite(v)
    <3>1. acct' = acct
      BY <1>6, <2>5 DEF Refresh, Step, NextRead, NextSet, MarkRead, LoadGet, LoadCreds, Retry,
         SetActive, RotateIf, ActivateIf
    <3> QED  BY <1>5, <2>2, <3>1
  <2> QED  BY <2>3, <2>4, <2>5
<1>7. ASSUME NEW v \in Workers, Failing(v)
      PROVE  current'[w] = current[w] /\ Still
  <2>1. v # w  BY <1>1, <1>7
  <2>2. current'[w] = current[w]
    BY <1>7 DEF Failing, NextFails, MarkFails, LoadFails, AdminFails
  <2> DEFINE c == Head(todo[v])
  <2>3. c \in Commands
    BY <1>7, HeadTyped DEF Failing, NextFails, MarkFails, LoadFails, AdminFails, Broken, Typed
  <2>4. \/ UNCHANGED acct
        \/ /\ c.op = "nextWrite" /\ Store(v, c.id, Stamped(c, now'))
           /\ Surprised(v, c.id) \subseteq spoilt'
        \/ c.op = "markWrite" /\ Store(v, c.id, Blamed(c))
    BY <1>7 DEF Failing, NextFails, MarkFails, LoadFails, AdminFails
  <2> HIDE DEF c
  <2>5. c.op = "nextWrite" => c.id \in Accounts  BY <2>3, CommandParts
  <2> QED  BY <1>3, <1>4, <1>5, <2>1, <2>2, <2>3, <2>4, <2>5
<1>8. ASSUME NEW v \in Workers, NEW b \in Accounts, Delete(v, b) \/ DeleteFails(v, b)
      PROVE  current'[w] = current[w] /\ Still
  <2>1. UNCHANGED acct \/ acct' = [acct EXCEPT ![b] = None]
    BY <1>8 DEF Delete, DeleteFails
  <2>2. ASSUME NEW a \in Accounts, Healthy(a)', acct' = [acct EXCEPT ![b] = None]
        PROVE  Healthy(a)
    <3>1. acct'[a] = acct[a]  BY <2>2 DEF Healthy, Typed
    <3> QED  BY <2>2, <3>1 DEF Healthy
  <2>3. current' = current  BY <1>8 DEF Delete, DeleteFails
  <2> QED  BY <1>5, <2>1, <2>2, <2>3
<1>9. ASSUME NEW e \in pending, EndEdit(e) \/ EndEditFails(e)
      PROVE  current'[w] = current[w] /\ Still
  <2>1. e.by \in Workers /\ e.id \in Accounts  BY DEF Typed, Edits
  <2>2. e.by # w  BY <1>9 DEF EndEdit, EndEditFails, Idle
  <2>3. \/ UNCHANGED acct
        \/ \E d : Store(e.by, e.id, d) /\ Revives(e, d) \subseteq spoilt'
    BY <1>9 DEF EndEdit, EndEditFails
  <2>4. current' = current  BY <1>9 DEF EndEdit, EndEditFails
  <2>5. \A d : d.status = "healthy" => Revives(e, d) = Surprised(e.by, e.id)  BY DEF Revives
  <2> QED  BY <1>3, <1>5, <2>1, <2>2, <2>3, <2>4, <2>5
<1>10. ASSUME \E q \in Requests : Attempt(q) \/ Return(q) \/ AccountError(q) \/ TransientError(q)
       PROVE  current'[w] = current[w] /\ Still
  BY <1>2, <1>5, <1>10 DEF Attempt, Return, AccountError, TransientError
<1>11. ASSUME \E v \in Workers, b \in Accounts : Activate(v, b) \/ CronProbe(v, b)
       PROVE  current'[w] = current[w] /\ Still
  BY <1>2, <1>5, <1>11 DEF Activate, CronProbe
<1>12. ASSUME \E v \in Workers, b \in Accounts, kind \in AdminKinds : BeginEdit(v, b, kind)
       PROVE  current'[w] = current[w] /\ Still
  BY <1>2, <1>5, <1>12 DEF BeginEdit
<1>13. ASSUME \E v \in Workers : CronStart(v) \/ CronEnd(v)
       PROVE  current'[w] = current[w] /\ Still
  BY <1>2, <1>5, <1>13 DEF CronStart, CronEnd
<1>14. ASSUME UNCHANGED vars
       PROVE  current'[w] = current[w] /\ Still
  BY <1>2, <1>5, <1>14 DEF vars
<1> HIDE DEF Still
<1>15. current'[w] = current[w] /\ Still
  BY <1>6, <1>7, <1>8, <1>9, <1>10, <1>11, <1>12, <1>13, <1>14 DEF Next, Failing
<1> QED  BY <1>2, <1>15 DEF Still

\* A resolve that something came across stays so until its retry.
LEMMA SpoiltKept ==
  ASSUME PoolAssumption, Typed, [Next]_vars, NEW p \in Requests, Blaming(p)', p \in spoilt
  PROVE  p \in spoilt'
<1>1. ASSUME NEW w \in Workers, Retry(w)
      PROVE  Head(todo[w]).by # p
  <2> DEFINE q == Head(todo[w]).by
  <2>1. q \in Requests  BY <1>1, HeadCommand, CommandParts DEF Retry, Typed
  <2>2. req' = [req EXCEPT ![q] = Retried(q, w)] \/ req' = [req EXCEPT ![q] = Resolve("done")]
    BY <1>1 DEF Retry
  <2> HIDE DEF q
  <2>3. req'[q].at # "rotating"  BY <2>1, <2>2 DEF Retried, Resolve, Typed
  <2>4. q # p  BY <2>3 DEF Blaming
  <2> QED  BY <2>4 DEF q
<1>2. ASSUME NEW w \in Workers, Step(w) \/ Refresh(w)
      PROVE  p \in spoilt'
  BY <1>1, <1>2 DEF Refresh, Step, NextRead, NextWrite, NextSet, MarkRead, MarkWrite, LoadGet,
     LoadCreds, Retry, SetActive, RotateIf, ActivateIf
<1>3. CASE \E w \in Workers : Failing(w)
  BY <1>3 DEF Failing, NextFails, MarkFails, LoadFails, AdminFails
<1>4. CASE \E q \in Requests : Attempt(q) \/ Return(q) \/ AccountError(q) \/ TransientError(q)
  BY <1>4 DEF Attempt, Return, AccountError, TransientError
<1>5. CASE \E w \in Workers, a \in Accounts :
             Activate(w, a) \/ Delete(w, a) \/ DeleteFails(w, a) \/ CronProbe(w, a)
  BY <1>5 DEF Activate, Delete, DeleteFails, CronProbe
<1>6. CASE \E w \in Workers, a \in Accounts, kind \in AdminKinds : BeginEdit(w, a, kind)
  BY <1>6 DEF BeginEdit
<1>7. CASE \E e \in pending : EndEdit(e) \/ EndEditFails(e)
  BY <1>7 DEF EndEdit, EndEditFails
<1>8. CASE \E w \in Workers : CronStart(w) \/ CronEnd(w)  BY <1>8 DEF CronStart, CronEnd
<1>9. CASE UNCHANGED vars  BY <1>9 DEF vars
<1> QED  BY <1>2, <1>3, <1>4, <1>5, <1>6, <1>7, <1>8, <1>9 DEF Next, Failing

LEMMA BlameNext ==
  ASSUME PoolAssumption, Typed, BlameLive, [Next]_vars
  PROVE  BlameLive'
<1> SUFFICES ASSUME NEW p \in Requests,
                    Blaming(p)', p \notin spoilt',
                    NEW w, w = WorkerOf[p], NEW u, u = req'[p].used
             PROVE  /\ u \in Accounts
                    /\ ToMark(w, p, u)' \/ (~Healthy(u)' /\ (ToLoad(w, p, u)' \/ ToRetry(w, p, u)'))
  BY DEF BlameLive, Blaming
<1>0. w \in Workers /\ todo \in Chains  BY DEF PoolAssumption, Typed
<1>1. CASE AccountError(p)
  <2>1. req'[p].used = req[p].used
    BY <1>1 DEF AccountError, Typed, Resolves
  <2>2. todo'[w] = <<[op |-> "markRead", id |-> u], LoadOps, Again(p)>>
    BY <1>0, <1>1, <2>1 DEF AccountError, Chains, Again
  <2>3. u \in Accounts  BY <1>1, <2>1 DEF AccountError, Typed, Resolves, Ids
  <2> QED  BY <2>2, <2>3 DEF ToMark
<1>2. CASE req'[p] = req[p]
  <2>1. /\ u \in Accounts
        /\ ToMark(w, p, u) \/ (~Healthy(u) /\ (ToLoad(w, p, u) \/ ToRetry(w, p, u)))
    BY <1>2, SpoiltKept DEF BlameLive, Blaming
  <2>2. todo[w] # <<>>
    <3>1. \A x, y, z : <<x>> # <<>> /\ <<x, y>> # <<>> /\ <<x, y, z>> # <<>>
      BY ChainParts
    <3>2. ToMark(w, p, u) => todo[w] # <<>>  BY <3>1 DEF ToMark
    <3>3. ToLoad(w, p, u) => todo[w] # <<>>  BY <3>1 DEF ToLoad
    <3>4. ToRetry(w, p, u) => todo[w] # <<>>  BY <3>1 DEF ToRetry
    <3> QED  BY <2>1, <3>2, <3>3, <3>4
  <2>3. CASE ~Step(w)
    <3>0. Blaming(p)  BY <1>2 DEF Blaming
    <3>1. /\ todo'[w] = todo[w] /\ current'[w] = current[w]
          /\ \A a \in Accounts : Healthy(a)' => Healthy(a)
      BY <1>0, <2>2, <2>3, <3>0, Calm
    <3>2. ToMark(w, p, u) => ToMark(w, p, u)'  BY <3>1 DEF ToMark
    <3>3. ToLoad(w, p, u) => ToLoad(w, p, u)'  BY <3>1 DEF ToLoad
    <3>4. SomeHealthy' => SomeHealthy  BY <3>1 DEF SomeHealthy
    <3>5. ToRetry(w, p, u) => ToRetry(w, p, u)'  BY <3>1, <3>4 DEF ToRetry
    <3> QED  BY <2>1, <3>1, <3>2, <3>3, <3>5
  <2>4. CASE Step(w)
    <3>1. CASE ToMark(w, p, u)  BY <1>0, <2>1, <2>4, <3>1, BlameMark
    <3>2. CASE ~Healthy(u) /\ ToLoad(w, p, u)  BY <1>0, <2>1, <2>4, <3>2, BlameLoad
    <3>3. CASE ToRetry(w, p, u)
      <4>1. Head(todo[w]).op = "retry" /\ Head(todo[w]).by = p
        BY <3>3, ChainParts DEF ToRetry, Again
      <4>2. Retry(w)  BY <2>4, <4>1, HeadRuns
      <4>3. req'[p].at # "rotating"  BY <4>1, <4>2 DEF Retry, Typed, Retried, Resolve
      <4>4. Blaming(p)' => req'[p].at = "rotating"  BY DEF Blaming
      <4> QED  BY <4>3, <4>4
    <3> QED  BY <2>1, <3>1, <3>2, <3>3
  <2> QED  BY <2>3, <2>4
<1> QED  BY <1>1, <1>2, BlameKept DEF Blaming

LEMMA PooledInit ==
  ASSUME PoolAssumption, Init
  PROVE  Pooled
<1>1. Typed  BY TypedInit
<1>2. BlameLive  BY DEF Init, BlameLive, Blaming, Resolve
<1>3. ASSUME NEW w \in Workers, NEW i \in DOMAIN todo[w]
      PROVE  todo[w][i].op \notin {"nextWrite", "retry"}
  BY DEF Init
<1> QED  BY <1>1, <1>2, <1>3 DEF Pooled, WriteLive

LEMMA PooledNext ==
  ASSUME PoolAssumption, Pooled, [Next]_vars
  PROVE  Pooled'
BY TypedNext, WriteNext, BlameNext DEF Pooled

-----------------------------------------------------------------------------
(* What a step may not do *)

\* An unhealthy account that is healthy after a step was edited, or it was
\* selected by a worker that did not mark it.
LEMMA SticksStep ==
  ASSUME PoolAssumption, Typed, WriteLive, [Next]_vars, NEW a \in Accounts, Lifted(a)
  PROVE  \/ \E e \in pending \ pending' : e.id = a
         \/ \E w \in Workers : Restores(w, a) /\ marker[a] # w
<1> USE DEF Typed
<1>0. acct[a] # None /\ acct[a].status = "unhealthy" /\ Healthy(a)'  BY DEF Lifted
<1>1. acct'[a] # acct[a]  BY <1>0 DEF Healthy
<1>2. ASSUME NEW w \in Workers, NEW c \in Commands, c.op = "nextWrite", c = Head(todo[w]),
             todo[w] # <<>>, todo'[w] # todo[w], NEW t, Store(w, c.id, t)
      PROVE  Restores(w, a) /\ marker[a] # w
  <2>1. c.id = a
    <3>1. c.id \in Accounts  BY <1>2, CommandParts
    <3>2. acct' = [acct EXCEPT ![c.id] = t]  BY <1>2 DEF Store
    <3> QED  BY <1>1, <3>1, <3>2
  <2>2. todo[w] \in Seq(Commands)  BY DEF Chains
  <2>3. 1 \in DOMAIN todo[w] /\ todo[w][1] = c  BY <1>2, <2>2, HeadTailProperties
  <2>4. Unmarked(w, a)  BY <1>2, <2>1, <2>3 DEF WriteLive
  <2> QED  BY <1>0, <1>2, <2>1, <2>4 DEF Unmarked, Restores, At
<1>3. ASSUME NEW w \in Workers, NEW c \in Commands, c.op = "markWrite",
             Store(w, c.id, Blamed(c))
      PROVE  FALSE
  <2>1. c.id \in Accounts /\ c.data \in Records  BY <1>3, CommandParts
  <2>2. Blamed(c).status = "unhealthy"  BY <2>1, RecordsKept DEF Blamed
  <2>3. acct' = [acct EXCEPT ![c.id] = Blamed(c)]  BY <1>3 DEF Store
  <2>4. acct'[a] = Blamed(c)  BY <1>1, <2>1, <2>3
  <2> QED  BY <1>0, <2>2, <2>4 DEF Healthy
<1>4. ASSUME NEW w \in Workers, Step(w) \/ Failing(w)
      PROVE  Restores(w, a) /\ marker[a] # w
  <2> DEFINE c == Head(todo[w])
  <2>1. todo[w] # <<>> /\ c \in Commands
    <3>1. todo[w] # <<>>
      BY <1>4, HeadRuns DEF Failing, NextFails, MarkFails, LoadFails, AdminFails, Broken
    <3> QED  BY <3>1, HeadTyped
  <2>2. CASE Step(w)
    <3>1. NextWrite(w) \/ MarkWrite(w)
      BY <1>1, <2>2 DEF Step, NextRead, NextSet, MarkRead, LoadGet, LoadCreds, Retry,
         SetActive, RotateIf, ActivateIf
    <3>2. \/ c.op = "nextWrite" /\ (\E t : Store(w, c.id, t))
          \/ c.op = "markWrite" /\ Store(w, c.id, Blamed(c))
      BY <3>1 DEF NextWrite, MarkWrite, At
    <3>3. todo'[w] # todo[w]  BY <2>1, <3>1, DoneMoves DEF NextWrite, MarkWrite
    <3> HIDE DEF c
    <3> QED  BY <1>2, <1>3, <2>1, <3>2, <3>3 DEF c
  <2>3. CASE Failing(w)
    <3>1. \/ c.op = "nextWrite" /\ (\E t : Store(w, c.id, t))
          \/ c.op = "markWrite" /\ Store(w, c.id, Blamed(c))
      BY <1>1, <2>3 DEF Failing, NextFails, MarkFails, LoadFails, AdminFails
    <3>2. todo'[w] = Cut(todo[w])
      BY <2>3 DEF Failing, NextFails, MarkFails, LoadFails, AdminFails, Broken, Chains
    <3>3. todo'[w] # todo[w]  BY <2>1, <3>2, CutMoves
    <3> HIDE DEF c
    <3> QED  BY <1>2, <1>3, <2>1, <3>1, <3>3 DEF c
  <2> QED  BY <1>4, <2>2, <2>3
<1>5. ASSUME NEW w \in Workers, NEW b \in Accounts, Delete(w, b) \/ DeleteFails(w, b)
      PROVE  FALSE
  <2>1. acct' = [acct EXCEPT ![b] = None]  BY <1>1, <1>5 DEF Delete, DeleteFails
  <2> QED  BY <1>0, <1>1, <2>1 DEF Healthy
<1>6. ASSUME NEW e \in pending, EndEdit(e) \/ EndEditFails(e)
      PROVE  e \notin pending' /\ e.id = a
  <2>1. e.id \in Accounts /\ e \notin pending'  BY <1>6 DEF Edits, EndEdit, EndEditFails
  <2>2. \E d : acct' = [acct EXCEPT ![e.id] = d]
    BY <1>1, <1>6 DEF EndEdit, EndEditFails, Store
  <2> QED  BY <1>1, <2>1, <2>2
<1>7. CASE \E w \in Workers : Refresh(w) \/ CronStart(w) \/ CronEnd(w)
  BY <1>1, <1>7 DEF Refresh, CronStart, CronEnd
<1>8. CASE \E p \in Requests : Attempt(p) \/ Return(p) \/ AccountError(p) \/ TransientError(p)
  BY <1>1, <1>8 DEF Attempt, Return, AccountError, TransientError
<1>9. CASE \E w \in Workers, b \in Accounts : Activate(w, b) \/ CronProbe(w, b)
  BY <1>1, <1>9 DEF Activate, CronProbe
<1>10. CASE \E w \in Workers, b \in Accounts, kind \in AdminKinds : BeginEdit(w, b, kind)
  BY <1>1, <1>10 DEF BeginEdit
<1>11. CASE UNCHANGED vars  BY <1>1, <1>11 DEF vars
<1> HIDE DEF Typed
<1> QED  BY <1>4, <1>5, <1>6, <1>7, <1>8, <1>9, <1>10, <1>11 DEF Next, Failing

\* For any number of workers, accounts and resolves, and whatever commands of
\* Redis fail: no worker's rotation brings back an account that it marked, and
\* beside such rotations of other workers only edits of the account lift a
\* mark.
THEOREM MarksStick == Spec => MarkSticks
<1>1. Init => Pooled  BY PoolAssumption, PooledInit
<1>2. Pooled /\ [Next]_vars => Pooled'  BY PoolAssumption, PooledNext
<1>3. Pooled /\ [Next]_vars =>
        [\A a \in Accounts : Lifted(a) =>
           \/ \E e \in pending \ pending' : e.id = a
           \/ \E w \in Workers : Restores(w, a) /\ marker[a] # w]_vars
  BY PoolAssumption, SticksStep DEF Pooled
<1> QED  BY <1>1, <1>2, <1>3, PTL DEF Spec, MarkSticks

\* A retry after a blame uses another account if any account is healthy.
LEMMA ElsewhereStep ==
  ASSUME PoolAssumption, Pooled, [Next]_vars, NEW p \in Requests,
         Blaming(p), p \notin spoilt, req'[p].at = "upstream", SomeHealthy
  PROVE  req'[p].used # req[p].used
<1> USE DEF Pooled, Typed
<1> DEFINE w == WorkerOf[p]  u == req[p].used
<1>0. w \in Workers  BY DEF PoolAssumption
<1>1. u \in Accounts /\ (ToMark(w, p, u) \/ (~Healthy(u) /\ (ToLoad(w, p, u) \/ ToRetry(w, p, u))))
  BY DEF BlameLive
<1> HIDE DEF w
<1>4. Retry(w)
  <2>0. req[p].at = "rotating" /\ req'[p] # req[p]  BY DEF Blaming
  <2>1. PICK v \in Workers : Retry(v)
    <3>1. ASSUME NEW v \in Workers, Step(v) \/ Refresh(v), ~Retry(v)  PROVE  FALSE
      BY <2>0, <3>1 DEF Refresh, Step, NextRead, NextWrite, NextSet, MarkRead, MarkWrite,
         LoadGet, LoadCreds, SetActive, RotateIf, ActivateIf
    <3>2. ASSUME NEW v \in Workers, Failing(v)  PROVE  FALSE
      BY <2>0, <3>2 DEF Failing, NextFails, MarkFails, LoadFails, AdminFails
    <3>3. ASSUME NEW q \in Requests,
                 Attempt(q) \/ Return(q) \/ AccountError(q) \/ TransientError(q)
          PROVE  FALSE
      <4>1. q # p  BY <2>0, <3>3 DEF Attempt, Return, AccountError, TransientError
      <4> QED  BY <2>0, <3>3, <4>1 DEF Attempt, Return, AccountError, TransientError
    <3>4. ASSUME NEW v \in Workers, NEW a \in Accounts,
                 Activate(v, a) \/ Delete(v, a) \/ DeleteFails(v, a) \/ CronProbe(v, a)
          PROVE  FALSE
      BY <2>0, <3>4 DEF Activate, Delete, DeleteFails, CronProbe
    <3>5. ASSUME NEW v \in Workers, NEW a \in Accounts, NEW kind \in AdminKinds,
                 BeginEdit(v, a, kind)
          PROVE  FALSE
      BY <2>0, <3>5 DEF BeginEdit
    <3>6. ASSUME NEW e \in pending, EndEdit(e) \/ EndEditFails(e)  PROVE  FALSE
      BY <2>0, <3>6 DEF EndEdit, EndEditFails
    <3>7. ASSUME NEW v \in Workers, CronStart(v) \/ CronEnd(v)  PROVE  FALSE
      BY <2>0, <3>7 DEF CronStart, CronEnd
    <3>8. CASE UNCHANGED vars  BY <2>0, <3>8 DEF vars
    <3> HIDE DEF Typed, Pooled
    <3> QED  BY <3>1, <3>2, <3>3, <3>4, <3>5, <3>6, <3>7, <3>8 DEF Next, Failing
  <2>2. Head(todo[v]).by = p
    <3>1. Head(todo[v]).by \in Requests  BY <2>1, HeadCommand, CommandParts DEF Retry
    <3> QED  BY <2>0, <2>1, <3>1 DEF Retry
  <2>3. v = w
    <3>1. todo[v] \in Seq(Commands) /\ todo[v] # <<>> /\ Head(todo[v]).op = "retry"
      BY <2>1 DEF Retry, At, Chains
    <3>2. 1 \in DOMAIN todo[v] /\ todo[v][1] = Head(todo[v])  BY <3>1, HeadTailProperties
    <3> QED  BY <2>2, <3>1, <3>2 DEF WriteLive, w
  <2> QED  BY <2>1, <2>3
<1>5. Head(todo[w]).op = "retry"  BY <1>4 DEF Retry, At
<1>6. ~ToMark(w, p, u)
  <2>1. todo[w] # <<[op |-> "markRead", id |-> u], LoadOps, Again(p)>>
    BY <1>5, ChainParts
  <2>2. ASSUME NEW d \in Records,
               todo[w] = <<[op |-> "markWrite", id |-> u, data |-> d], LoadOps, Again(p)>>
        PROVE  FALSE
    BY <1>5, <2>2, ChainParts
  <2> QED  BY <2>1, <2>2 DEF ToMark
<1>7. ~ToLoad(w, p, u)
  <2>1. todo[w] # <<LoadOps, Again(p)>>  BY <1>5, ChainParts DEF LoadOps
  <2>2. ASSUME NEW a \in Accounts, todo[w] = <<[op |-> "loadCreds", id |-> a], Again(p)>>
        PROVE  FALSE
    BY <1>5, <2>2, ChainParts
  <2>3. todo[w] # <<RotateOps(TRUE), Again(p)>>  BY <1>5, ChainParts DEF RotateOps
  <2>4. ASSUME NEW a \in Accounts, NEW d \in Records,
               todo[w] = <<[op |-> "nextWrite", id |-> a, data |-> d],
                           [op |-> "nextSet", id |-> a, pick |-> TRUE], Again(p)>>
        PROVE  FALSE
    BY <1>5, <2>4, ChainParts
  <2>5. ASSUME NEW a \in Accounts,
               todo[w] = <<[op |-> "nextSet", id |-> a, pick |-> TRUE], Again(p)>>
        PROVE  FALSE
    BY <1>5, <2>5, ChainParts
  <2> QED  BY <2>1, <2>2, <2>3, <2>4, <2>5 DEF ToLoad
<1>8. current[w] # u /\ Head(todo[w]) = Again(p)
  BY <1>1, <1>6, <1>7, ChainParts DEF ToRetry
<1>9. req'[p].used = current[w]
  <2>1. Head(todo[w]).by = p  BY <1>8 DEF Again
  <2>2. req' = [req EXCEPT ![p] = Retried(p, w)] \/ req' = [req EXCEPT ![p] = Resolve("done")]
    BY <1>4, <2>1 DEF Retry
  <2>3. req'[p] = Retried(p, w)  BY <2>2 DEF Resolve
  <2> QED  BY <2>3 DEF Retried
<1> QED  BY <1>8, <1>9

\* After the failure of an account a resolve goes on with another one as long
\* as any is healthy, for any number of workers, accounts and resolves, unless
\* a command of its mark and reload failed or another worker made an account
\* healthy in between.
THEOREM FailsOver == Spec => FailoverElsewhere
<1>1. Init => Pooled  BY PoolAssumption, PooledInit
<1>2. Pooled /\ [Next]_vars => Pooled'  BY PoolAssumption, PooledNext
<1>3. Pooled /\ [Next]_vars =>
        [\A p \in Requests :
           (Blaming(p) /\ p \notin spoilt /\ req'[p].at = "upstream" /\ SomeHealthy)
             => req'[p].used # req[p].used]_vars
  BY PoolAssumption, ElsewhereStep
<1> QED  BY <1>1, <1>2, <1>3, PTL DEF Spec, FailoverElsewhere

=============================================================================
