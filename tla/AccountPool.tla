----------------------------- MODULE AccountPool -----------------------------
(***************************************************************************)
(* The pool of upstream accounts that the worker processes share through   *)
(* Redis: rotation, health marks, the retry loop of a resolve, the admin   *)
(* configuration handlers and the cron check.                              *)
(*                                                                         *)
(* Inside a worker the code between two awaits runs alone, so a worker     *)
(* executes one chain of Redis commands at a time (`todo').  Between two   *)
(* commands of a chain any other worker may run its own commands.  Handlers*)
(* that read a record, await the upstream service and write the record     *)
(* back keep what they read in `pending'.                                  *)
(***************************************************************************)
EXTENDS Naturals, Sequences, FiniteSets

CONSTANTS Accounts,     \* account identifiers
          Workers,      \* worker processes
          Requests,     \* calls of resolve_link_with_retry
          WorkerOf,     \* the worker that serves each request
          AdminKinds,   \* operations the administrator uses
          MaxTries,     \* max_retries
          MaxFaults,    \* bound: failing attempts, cron probes and Redis commands
          MaxAdmin,     \* bound: admin and cron calls
          MaxTime,      \* bound: the clock, in seconds
          None

Records == [status : {"healthy", "unhealthy"}, used : 0..MaxTime]

ASSUME PoolAssumption ==
  /\ None \notin Accounts /\ None \notin Records
  /\ WorkerOf \in [Requests -> Workers]
  /\ AdminKinds \subseteq {"activate", "delete", "verify", "update", "profile", "cron"}
  /\ MaxTries \in Nat \ {0}
  /\ {MaxFaults, MaxAdmin, MaxTime} \subseteq Nat

VARIABLES
  acct,     \* the accounts hash: a record, or None for a missing field
  active,   \* the active account key
  now,      \* time.time(), in whole seconds
  current,  \* _current_active_account_id and the loaded session of each worker
  todo,     \* the chain of commands each worker still has to run
  req,      \* the resolve calls
  pending,  \* handlers that await the upstream service between read and write
  cron,     \* the cron check of each worker: accounts to probe and found bad
  faults, admin, \* how much of the bounds is used
  marker,   \* history: the worker that made an unhealthy account so
  spoilt    \* history: resolves whose failover something came across

vars == <<acct, active, now, current, todo, req, pending, cron, faults, admin, marker, spoilt>>

Healthy(a) == acct[a] # None /\ acct[a].status = "healthy"
SomeHealthy == \E a \in Accounts : Healthy(a)

\* A resolve before its first attempt, and after its answer.
Resolve(at) == [at |-> at, used |-> None, left |-> MaxTries, why |-> "none"]

NoCron == [probe |-> {}, bad |-> {}, on |-> FALSE]

Init ==
  /\ acct = [a \in Accounts |-> [status |-> "healthy", used |-> 0]]
  /\ active = None
  /\ now = 0
  /\ current = [w \in Workers |-> None]
  /\ todo = [w \in Workers |-> <<[op |-> "loadGet"]>>]    \* lifespan startup
  /\ req = [p \in Requests |-> Resolve("new")]
  /\ pending = {}
  /\ cron = [w \in Workers |-> NoCron]
  /\ faults = 0
  /\ admin = 0
  /\ marker = [a \in Accounts |-> None]
  /\ spoilt = {}

Idle(w) == todo[w] = <<>>

\* Replace the command at the head of w's chain by the commands of s.
Then(w, s) == todo' = [todo EXCEPT ![w] = s \o Tail(@)]

\* What is left of a chain when its function gives up: the command that failed
\* and, where there is one, the command that was to follow it are left out.
Cut(t) ==
  LET n == IF Head(t).op \in {"nextWrite", "setActive"} THEN 2 ELSE 1
  IN SubSeq(t, n + 1, Len(t))

At(w, op) == todo[w] # <<>> /\ Head(todo[w]).op = op

\* A record is written whole; the history keeps who made it unhealthy.
Store(w, a, d) ==
  /\ acct' = [acct EXCEPT ![a] = d]
  /\ marker' = [marker EXCEPT ![a] = IF d.status = "unhealthy" THEN w ELSE None]

\* The resolves on their way from a failed account to another one: those of w
\* itself, and those of other workers on which w springs a healthy account.
Blaming(p) == req[p].at = "rotating" /\ req[p].why = "account"
Own(w) == {p \in Requests : Blaming(p) /\ WorkerOf[p] = w}
Surprised(w, a) ==
  IF Healthy(a) THEN {} ELSE {p \in Requests : Blaming(p) /\ WorkerOf[p] # w}

\* time.time() is read; the clock has moved on or not.
Clock == now' \in now..MaxTime

Fault == faults < MaxFaults /\ faults' = faults + 1

\* A command of w to Redis fails, its effect lost or only its reply, and the
\* function that ran it gives up.
Broken(w, ops) ==
  /\ todo[w] # <<>> /\ Head(todo[w]).op \in ops
  /\ Fault
  /\ todo' = [todo EXCEPT ![w] = Cut(@)]

RotateOps(pick) == [op |-> "nextRead", pick |-> pick]
LoadOps == [op |-> "loadGet"]

-----------------------------------------------------------------------------
(* get_next_healthy_account: HGETALL, HSET, SET *)

\* The healthy accounts no healthy account was used before; on equal stamps
\* the order of the hash decides, which is unspecified.
LeastRecent ==
  {a \in Accounts : Healthy(a)
     /\ \A b \in Accounts : Healthy(b) => acct[a].used <= acct[b].used}

NextRead(w) ==
  /\ At(w, "nextRead")
  /\ \/ /\ ~SomeHealthy
        /\ Then(w, <<>>)
     \/ \E a \in LeastRecent :
          Then(w, <<[op |-> "nextWrite", id |-> a, data |-> acct[a]],
                    [op |-> "nextSet", id |-> a, pick |-> Head(todo[w]).pick]>>)
  /\ UNCHANGED <<acct, active, now, current, req, pending, cron, faults, admin, marker, spoilt>>

Stamped(c, t) == [c.data EXCEPT !.used = t]

NextWrite(w) ==
  /\ At(w, "nextWrite")
  /\ Clock
  /\ LET c == Head(todo[w])
     IN Store(w, c.id, Stamped(c, now')) /\ spoilt' = spoilt \cup Surprised(w, c.id)
  /\ Then(w, <<>>)
  /\ UNCHANGED <<active, current, req, pending, cron, faults, admin>>

\* Mutant: a selection made for the worker is not stored as the active one.
NextSetUnstored(w) ==
  /\ At(w, "nextSet")
  /\ LET c == Head(todo[w])
     IN IF c.pick THEN current' = [current EXCEPT ![w] = c.id] /\ UNCHANGED active
                  ELSE active' = c.id /\ UNCHANGED current
  /\ Then(w, <<>>)
  /\ UNCHANGED <<acct, now, req, pending, cron, faults, admin, marker, spoilt>>

\* Called by load_config_from_redis (pick) the selection becomes the worker's
\* account as well.
NextSet(w) ==
  /\ At(w, "nextSet")
  /\ LET c == Head(todo[w])
     IN /\ active' = c.id
        /\ current' = IF c.pick THEN [current EXCEPT ![w] = c.id] ELSE current
  /\ Then(w, <<>>)
  /\ UNCHANGED <<acct, now, req, pending, cron, faults, admin, marker, spoilt>>

\* A failing command ends the function: nothing is selected, and after a write
\* that failed the active key is not set.
NextFails(w) ==
  /\ Broken(w, {"nextRead", "nextWrite", "nextSet"})
  /\ LET c == Head(todo[w])
     IN \/ /\ UNCHANGED <<acct, marker, active, now>>
           /\ spoilt' = spoilt \cup Own(w)
        \/ /\ c.op = "nextWrite" /\ Clock /\ Store(w, c.id, Stamped(c, now'))
           /\ spoilt' = spoilt \cup Own(w) \cup Surprised(w, c.id)
           /\ UNCHANGED active
        \/ /\ c.op = "nextSet" /\ active' = c.id
           /\ spoilt' = spoilt \cup Own(w)
           /\ UNCHANGED <<acct, marker, now>>
  /\ UNCHANGED <<current, req, pending, cron, admin>>

-----------------------------------------------------------------------------
(* mark_account_unhealthy: HGETALL, HSET *)

MarkRead(w) ==
  /\ At(w, "markRead")
  /\ LET a == Head(todo[w]).id
     IN Then(w, IF acct[a] = None THEN <<>>
                ELSE <<[op |-> "markWrite", id |-> a, data |-> acct[a]]>>)
  /\ UNCHANGED <<acct, active, now, current, req, pending, cron, faults, admin, marker, spoilt>>

Blamed(c) == [c.data EXCEPT !.status = "unhealthy"]

MarkWrite(w) ==
  /\ At(w, "markWrite")
  /\ LET c == Head(todo[w]) IN Store(w, c.id, Blamed(c))
  /\ Then(w, <<>>)
  /\ UNCHANGED <<active, now, current, req, pending, cron, faults, admin, spoilt>>

\* A mark that fails is logged and forgotten: a failed read counts as an empty
\* pool, a failed write may have arrived.
MarkFails(w) ==
  /\ Broken(w, {"markRead", "markWrite"})
  /\ LET c == Head(todo[w])
     IN \/ UNCHANGED <<acct, marker>>
        \/ c.op = "markWrite" /\ Store(w, c.id, Blamed(c))
  /\ spoilt' = spoilt \cup Own(w)
  /\ UNCHANGED <<active, now, current, req, pending, cron, admin>>

-----------------------------------------------------------------------------
(* load_config_from_redis: GET, HGET, and a rotation when the active account *)
(* is missing or not healthy                                                 *)

LoadGet(w) ==
  /\ At(w, "loadGet")
  /\ Then(w, IF active = None THEN <<RotateOps(TRUE)>>
             ELSE <<[op |-> "loadCreds", id |-> active]>>)
  /\ UNCHANGED <<acct, active, now, current, req, pending, cron, faults, admin, marker, spoilt>>

LoadCreds(w) ==
  /\ At(w, "loadCreds")
  /\ LET a == Head(todo[w]).id
     IN IF Healthy(a)
        THEN current' = [current EXCEPT ![w] = a] /\ Then(w, <<>>)
        ELSE Then(w, <<RotateOps(TRUE)>>) /\ UNCHANGED current
  /\ UNCHANGED <<acct, active, now, req, pending, cron, faults, admin, marker, spoilt>>

\* A reload that cannot read leaves the worker with the account it has.
LoadFails(w) ==
  /\ Broken(w, {"loadGet", "loadCreds"})
  /\ spoilt' = spoilt \cup Own(w)
  /\ UNCHANGED <<acct, active, now, current, req, pending, cron, admin, marker>>

\* ConfigRefreshMiddleware reloads ahead of a request now and then.
Refresh(w) ==
  /\ Idle(w)
  /\ todo' = [todo EXCEPT ![w] = <<LoadOps>>]
  /\ UNCHANGED <<acct, active, now, current, req, pending, cron, faults, admin, marker, spoilt>>

-----------------------------------------------------------------------------
(* resolve_link_with_retry *)

\* An attempt captures the worker's account and awaits the upstream service.
Attempt(p) ==
  /\ req[p].at = "new"
  /\ Idle(WorkerOf[p])
  /\ req' = [req EXCEPT ![p].at = "upstream", ![p].used = current[WorkerOf[p]]]
  /\ UNCHANGED <<acct, active, now, current, todo, pending, cron, faults, admin, marker, spoilt>>

\* Success, or a failure that no account is blamed for.
Return(p) ==
  /\ req[p].at = "upstream"
  /\ Idle(WorkerOf[p])
  /\ req' = [req EXCEPT ![p] = Resolve("done")]
  /\ UNCHANGED <<acct, active, now, current, todo, pending, cron, faults, admin, marker, spoilt>>

\* Mutant: the configuration is reloaded ahead of the mark.
AccountErrorReloadFirst(p) ==
  /\ req[p].at = "upstream"
  /\ req[p].used # None
  /\ Idle(WorkerOf[p])
  /\ Fault
  /\ req' = [req EXCEPT ![p].at = "rotating", ![p].why = "account"]
  /\ todo' = [todo EXCEPT ![WorkerOf[p]] =
               <<LoadOps, [op |-> "markRead", id |-> req[p].used],
                 [op |-> "retry", by |-> p]>>]
  /\ UNCHANGED <<acct, active, now, current, pending, cron, admin, marker, spoilt>>

\* The session, the network or the storage failed: mark, reload, retry.
AccountError(p) ==
  /\ req[p].at = "upstream"
  /\ req[p].used # None
  /\ Idle(WorkerOf[p])
  /\ Fault
  /\ req' = [req EXCEPT ![p].at = "rotating", ![p].why = "account"]
  /\ todo' = [todo EXCEPT ![WorkerOf[p]] =
               <<[op |-> "markRead", id |-> req[p].used], LoadOps,
                 [op |-> "retry", by |-> p]>>]
  /\ UNCHANGED <<acct, active, now, current, pending, cron, admin, marker, spoilt>>

\* errno 400810: rotate, reload, retry.
TransientError(p) ==
  /\ req[p].at = "upstream"
  /\ req[p].used # None
  /\ Idle(WorkerOf[p])
  /\ Fault
  /\ req' = [req EXCEPT ![p].at = "rotating", ![p].why = "transient"]
  /\ todo' = [todo EXCEPT ![WorkerOf[p]] =
               <<RotateOps(FALSE), LoadOps, [op |-> "retry", by |-> p]>>]
  /\ UNCHANGED <<acct, active, now, current, pending, cron, admin, marker, spoilt>>

\* The next attempt, on the account the worker has by now.
Retried(p, w) ==
  [at |-> "upstream", used |-> current[w], left |-> req[p].left - 1, why |-> "none"]

\* Mutant: the budget of attempts is charged and never tested.
RetryFree(w) ==
  /\ At(w, "retry")
  /\ LET p == Head(todo[w]).by
     IN req' = [req EXCEPT ![p] = Retried(p, w)]
  /\ spoilt' = spoilt \ {Head(todo[w]).by}
  /\ Then(w, <<>>)
  /\ UNCHANGED <<acct, active, now, current, pending, cron, faults, admin, marker>>

Retry(w) ==
  /\ At(w, "retry")
  /\ LET p == Head(todo[w]).by
     IN IF req[p].left > 1
        THEN req' = [req EXCEPT ![p] = Retried(p, w)]
        ELSE req' = [req EXCEPT ![p] = Resolve("done")]
  /\ spoilt' = spoilt \ {Head(todo[w]).by}
  /\ Then(w, <<>>)
  /\ UNCHANGED <<acct, active, now, current, pending, cron, faults, admin, marker>>

-----------------------------------------------------------------------------
(* Admin handlers.  None of them checks that the account exists but verify. *)

Call(kind) == kind \in AdminKinds /\ admin < MaxAdmin /\ admin' = admin + 1

Activate(w, a) ==
  /\ Idle(w) /\ Call("activate")
  /\ todo' = [todo EXCEPT ![w] = <<[op |-> "setActive", id |-> a], LoadOps>>]
  /\ UNCHANGED <<acct, active, now, current, req, pending, cron, faults, marker, spoilt>>

SetActive(w) ==
  /\ At(w, "setActive")
  /\ active' = Head(todo[w]).id
  /\ Then(w, <<>>)
  /\ UNCHANGED <<acct, now, current, req, pending, cron, faults, admin, marker, spoilt>>

Delete(w, a) ==
  /\ Idle(w) /\ Call("delete")
  /\ acct' = [acct EXCEPT ![a] = None]
  /\ marker' = [marker EXCEPT ![a] = None]
  /\ todo' = [todo EXCEPT ![w] = <<[op |-> "rotateIf", ids |-> {a}]>>]
  /\ UNCHANGED <<active, now, current, req, pending, cron, faults, spoilt>>

\* HDEL fails: the handler answers 500 and looks at nothing else.
DeleteFails(w, a) ==
  /\ Idle(w) /\ Call("delete") /\ Fault
  /\ \/ UNCHANGED <<acct, marker>>
     \/ /\ acct' = [acct EXCEPT ![a] = None]
        /\ marker' = [marker EXCEPT ![a] = None]
  /\ UNCHANGED <<active, now, current, todo, req, pending, cron, spoilt>>

\* GET of the active key: rotate and reload if it is one of the given accounts.
RotateIf(w) ==
  /\ At(w, "rotateIf")
  /\ Then(w, IF active \in Head(todo[w]).ids THEN <<RotateOps(FALSE), LoadOps>> ELSE <<>>)
  /\ UNCHANGED <<acct, active, now, current, req, pending, cron, faults, admin, marker, spoilt>>

\* Verify reads the record, update reads it or starts from an empty one, the
\* configuration listing reads a healthy one; all three then await.  (A read
\* that fails ends the call.)
BeginEdit(w, a, kind) ==
  /\ Idle(w) /\ Call(kind)
  /\ kind \in {"verify", "update", "profile"}
  /\ kind = "verify" => acct[a] # None
  /\ kind = "profile" => Healthy(a)
  /\ Clock
  /\ pending' = pending \cup {[by |-> w, id |-> a, kind |-> kind, data |->
                    IF acct[a] = None THEN [status |-> "healthy", used |-> now']
                                      ELSE acct[a]]}
  /\ UNCHANGED <<acct, active, current, todo, req, cron, faults, marker, spoilt>>

\* What is written back when the upstream service has answered.
Verdicts(e, t) ==
  CASE e.kind = "verify"  -> {[status |-> "healthy", used |-> t],
                              [e.data EXCEPT !.status = "unhealthy"]}
    [] e.kind = "update"  -> {[e.data EXCEPT !.status = "healthy"]}
    [] e.kind = "profile" -> {e.data}

Revives(e, d) == IF d.status = "healthy" THEN Surprised(e.by, e.id) ELSE {}

\* The record is written back.  Only update looks at the active account then.
EndEdit(e) ==
  /\ Idle(e.by) /\ Clock
  /\ pending' = pending \ {e}
  /\ \E d \in Verdicts(e, now') :
       Store(e.by, e.id, d) /\ spoilt' = spoilt \cup Revives(e, d)
  /\ IF e.kind = "update"
     THEN todo' = [todo EXCEPT ![e.by] = <<[op |-> "activateIf", id |-> e.id]>>]
     ELSE UNCHANGED todo
  /\ UNCHANGED <<active, current, req, cron, faults, admin>>

\* The write fails.  Verify takes that for a failed test of the account and
\* writes once more, now that it is unhealthy.
EndEditFails(e) ==
  /\ Idle(e.by) /\ Fault /\ Clock
  /\ pending' = pending \ {e}
  /\ \E d \in Verdicts(e, now') :
       /\ \/ UNCHANGED <<acct, marker, spoilt>>
          \/ Store(e.by, e.id, d) /\ spoilt' = spoilt \cup Revives(e, d)
       /\ IF e.kind = "verify" /\ d.status = "healthy"
          THEN todo' = [todo EXCEPT ![e.by] =
                         <<[op |-> "markWrite", id |-> e.id, data |-> d]>>]
          ELSE UNCHANGED todo
  /\ UNCHANGED <<active, current, req, cron, admin>>

\* GET of the active key after an update.
ActivateIf(w) ==
  /\ At(w, "activateIf")
  /\ LET a == Head(todo[w]).id
     IN Then(w, IF active \in {a, None}
                THEN <<[op |-> "setActive", id |-> a], LoadOps>> ELSE <<>>)
  /\ UNCHANGED <<acct, active, now, current, req, pending, cron, faults, admin, marker, spoilt>>

\* A command of these handlers, or of the cron check, fails: they end there.
AdminFails(w) ==
  /\ Broken(w, {"setActive", "rotateIf", "activateIf"})
  /\ LET c == Head(todo[w])
     IN \/ UNCHANGED active
        \/ c.op = "setActive" /\ active' = c.id
  /\ spoilt' = spoilt \cup Own(w)
  /\ UNCHANGED <<acct, now, current, req, pending, cron, admin, marker>>

-----------------------------------------------------------------------------
(* cron_validate: probe the healthy accounts of one HGETALL, mark the bad    *)
(* ones, rotate if the active account is among them                          *)

CronStart(w) ==
  /\ Idle(w) /\ ~cron[w].on /\ Call("cron")
  /\ cron' = [cron EXCEPT ![w] =
               [probe |-> {a \in Accounts : Healthy(a)}, bad |-> {}, on |-> TRUE]]
  /\ UNCHANGED <<acct, active, now, current, todo, req, pending, faults, marker, spoilt>>

\* Mutant: a valid session is stamped with the record read before the probes.
CronProbeStamping(w, a) ==
  /\ Idle(w) /\ a \in cron[w].probe
  /\ \/ /\ cron' = [cron EXCEPT ![w].probe = @ \ {a}]
        /\ acct' = [acct EXCEPT ![a] = [status |-> "healthy", used |-> now]]
        /\ UNCHANGED <<todo, faults>>
     \/ /\ Fault
        /\ cron' = [cron EXCEPT ![w].probe = @ \ {a}, ![w].bad = @ \cup {a}]
        /\ todo' = [todo EXCEPT ![w] = <<[op |-> "markRead", id |-> a]>>]
        /\ UNCHANGED acct
  /\ UNCHANGED <<active, now, current, req, pending, admin, marker, spoilt>>

CronProbe(w, a) ==
  /\ Idle(w) /\ a \in cron[w].probe
  /\ \/ /\ cron' = [cron EXCEPT ![w].probe = @ \ {a}]
        /\ UNCHANGED <<todo, faults>>
     \/ /\ Fault
        /\ cron' = [cron EXCEPT ![w].probe = @ \ {a}, ![w].bad = @ \cup {a}]
        /\ todo' = [todo EXCEPT ![w] = <<[op |-> "markRead", id |-> a]>>]
  /\ UNCHANGED <<acct, active, now, current, req, pending, admin, marker, spoilt>>

CronEnd(w) ==
  /\ Idle(w) /\ cron[w].on /\ cron[w].probe = {}
  /\ cron' = [cron EXCEPT ![w] = NoCron]
  /\ todo' = [todo EXCEPT ![w] = <<[op |-> "rotateIf", ids |-> cron[w].bad]>>]
  /\ UNCHANGED <<acct, active, now, current, req, pending, faults, admin, marker, spoilt>>

-----------------------------------------------------------------------------

Step(w) ==
  \/ NextRead(w) \/ NextWrite(w) \/ NextSet(w)
  \/ MarkRead(w) \/ MarkWrite(w)
  \/ LoadGet(w) \/ LoadCreds(w) \/ Retry(w)
  \/ SetActive(w) \/ RotateIf(w) \/ ActivateIf(w)

Next ==
  \/ \E w \in Workers : Step(w) \/ Refresh(w)
  \/ \E p \in Requests : Attempt(p) \/ Return(p) \/ AccountError(p) \/ TransientError(p)
  \/ \E w \in Workers : NextFails(w) \/ MarkFails(w) \/ LoadFails(w) \/ AdminFails(w)
  \/ \E w \in Workers, a \in Accounts : Activate(w, a) \/ Delete(w, a) \/ DeleteFails(w, a)
  \/ \E w \in Workers, a \in Accounts : CronProbe(w, a)
  \/ \E w \in Workers, a \in Accounts, kind \in AdminKinds : BeginEdit(w, a, kind)
  \/ \E e \in pending : EndEdit(e) \/ EndEditFails(e)
  \/ \E w \in Workers : CronStart(w) \/ CronEnd(w)

Spec == Init /\ [][Next]_vars

\* A worker goes on with the chain it is in; when it has none it reloads its
\* configuration sooner or later, as long as requests come in.
Fairness == \A w \in Workers : WF_vars(Step(w) \/ Refresh(w))

FairSpec == Spec /\ Fairness

-----------------------------------------------------------------------------
(* Properties *)

Ids == Accounts \cup {None}

Commands ==
  [op : {"loadGet"}]
    \cup [op : {"nextRead"}, pick : BOOLEAN]
    \cup [op : {"nextWrite", "markWrite"}, id : Accounts, data : Records]
    \cup [op : {"nextSet"}, id : Accounts, pick : BOOLEAN]
    \cup [op : {"markRead", "loadCreds", "setActive", "activateIf"}, id : Accounts]
    \cup [op : {"rotateIf"}, ids : SUBSET Accounts]
    \cup [op : {"retry"}, by : Requests]

Edits == [by : Workers, id : Accounts, kind : {"verify", "update", "profile"}, data : Records]

\* The shared records, what each worker has loaded, its chain of commands and
\* the handlers in flight have their types, and no request has more attempts
\* than resolve_link_with_retry allows.
TypeOK ==
  /\ acct \in [Accounts -> Records \cup {None}]
  /\ active \in Ids
  /\ now \in 0..MaxTime
  /\ current \in [Workers -> Ids]
  /\ \A w \in Workers : \A i \in DOMAIN todo[w] : todo[w][i] \in Commands
  /\ req \in [Requests -> [at : {"new", "upstream", "rotating", "done"}, used : Ids,
                           left : 1..MaxTries, why : {"none", "account", "transient"}]]
  /\ pending \subseteq Edits
  /\ cron \in [Workers -> [probe : SUBSET Accounts, bad : SUBSET Accounts, on : BOOLEAN]]
  /\ faults \in 0..MaxFaults /\ admin \in 0..MaxAdmin
  /\ marker \in [Accounts -> Workers \cup {None}]
  /\ spoilt \subseteq Requests

\* An account that was unhealthy is in the pool again.
Lifted(a) == acct[a] # None /\ acct[a].status = "unhealthy" /\ Healthy(a)'

\* Worker w writes back the record of a that a rotation selected.
Restores(w, a) == At(w, "nextWrite") /\ Head(todo[w]).id = a /\ todo'[w] # todo[w]

\* A mark is lifted by the administrator, who verifies the account or stores
\* new credentials, and by two races only: a configuration listing that read
\* the record before the mark writes it back with the profile, or another
\* worker than the one that marked it finishes a rotation it began before.  So
\* a worker's own rotations, reloads, probes and retries never bring back what
\* it marked, whatever commands fail.
MarkSticks ==
  [][\A a \in Accounts : Lifted(a) =>
       \/ \E e \in pending \ pending' : e.id = a
       \/ \E w \in Workers : Restores(w, a) /\ marker[a] # w]_vars

\* What mark_account_unhealthy promises, that a mark is made "to prevent
\* reuse": only the administrator lifts it.
MarkKept ==
  [][\A a \in Accounts : Lifted(a) =>
       \E e \in pending \ pending' : e.id = a /\ e.kind \in {"verify", "update"}]_vars

\* A resolve that fails on an account goes on with another one as long as the
\* pool has a healthy account (resolve_link_with_retry: mark, reload, retry),
\* unless one of the Redis commands of its mark and reload failed, which the
\* code only logs, or meanwhile another worker made an account healthy.
FailoverElsewhere ==
  [][\A p \in Requests :
       (Blaming(p) /\ p \notin spoilt /\ req'[p].at = "upstream" /\ SomeHealthy)
         => req'[p].used # req[p].used]_vars

\* Once the administrator, the faults and the clock are quiet, every worker
\* settles on one and the same healthy account, the stored active one, if the
\* pool has any (ConfigRefreshMiddleware and load_config_from_redis).
WorkersConverge ==
  <>[](SomeHealthy => active \in Accounts /\ Healthy(active)
                      /\ \A w \in Workers : current[w] = active)
=============================================================================
