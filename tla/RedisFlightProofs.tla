--------------------------- MODULE RedisFlightProofs ---------------------------
(***************************************************************************)
(* The single flight over Redis is safe and implements the abstract one,   *)
(* for any number of requests, links, workers, faults and crashes.         *)
(***************************************************************************)
EXTENDS RedisFlight, TLAPS

LEMMA InitIInv == Init => IInv
  <1> SUFFICES ASSUME Init PROVE IInv
    OBVIOUS
  <1>1. TypeOK
    BY RedisAssumption DEF Init, TypeOK
  <1>2. FlightLive /\ PollLive
    BY DEF Init, FlightLive, PollLive, Active
  <1>3. QED
    BY <1>1, <1>2 DEF IInv

LEMMA TypeStep == TypeOK /\ PollLive /\ [Next]_vars => TypeOK'
  <1> SUFFICES ASSUME TypeOK, PollLive, [Next]_vars PROVE TypeOK'
    OBVIOUS
  <1> USE RedisAssumption DEF TypeOK, InChain, Go, Ok, Fault, Excuse
  <1>1. ASSUME NEW r \in Requests, NEW k \in Keys, ServeHit(r, k) \/ LookUp(r, k)
        PROVE  TypeOK'
    BY <1>1 DEF ServeHit, LookUp, Hit, Miss, pollVars
  <1>2. ASSUME NEW r \in Requests, Lead(r) \/ Follow(r) \/ ResolveAlone(r)
        PROVE  TypeOK'
    <2>1. key[r] \in Keys /\ WorkerOf[r] \in Workers
      BY <1>2 DEF Lead, Follow, ResolveAlone
    <2>2. \/ TakeLock(r) \/ FindLock(r) \/ FallBack(r, TRUE) \/ FallBack(r, FALSE)
      BY <1>2 DEF Lead, Follow, ResolveAlone
    <2>3. /\ lock' \in [Keys -> Requests \cup {None}]
          /\ events' \in [Workers -> SUBSET Keys]
          /\ excused' \in SUBSET Keys
          /\ faults' \in 0..MaxFaults
      BY <2>1, <2>2 DEF TakeLock, FindLock, FallBack
    <2>4. QED
      BY <1>2, <2>1, <2>3 DEF Lead, Follow, ResolveAlone, pollVars
  <1>3. ASSUME NEW r \in Requests,
               PollHit(r) \/ PollMiss(r) \/ Probe(r) \/ ProbeFails(r) \/ TimeOut(r) \/ LastMiss(r)
        PROVE  TypeOK'
    <2>1. key[r] \in Keys
      BY <1>3 DEF PollHit, PollMiss, Probe, ProbeFails, TimeOut, LastMiss, Looks
    <2>2. QED
      BY <1>3, <2>1 DEF PollHit, PollMiss, Probe, ProbeFails, TimeOut, LastMiss, Hit, Miss,
                        Looks, pollVars
  <1>4. ASSUME NEW r \in Requests, Finish(r)
        PROVE  TypeOK'
    <2>1. key[r] \in Keys /\ WorkerOf[r] \in Workers
      BY <1>4 DEF Finish, Succeed, Transcoding, Fail
    <2>2. QED
      BY <1>4, <2>1 DEF Finish, Succeed, Transcoding, Fail, pollVars
  <1>5. ASSUME NEW r \in Requests, Release(r)
        PROVE  TypeOK'
    <2>1. key[r] \in Keys /\ WorkerOf[r] \in Workers
      BY <1>5 DEF Release
    <2>2. QED
      BY <1>5, <2>1 DEF Release, pollVars
  <1>6. ASSUME NEW r \in Requests, PollStart(r) \/ PollEnd(r)
        PROVE  TypeOK'
    <2>1. key[r] \in Keys
      BY <1>6 DEF PollStart, PollEnd, PollLive
    <2>2. QED
      BY <1>6, <2>1 DEF PollStart, PollEnd, Loosen, flightVars
  <1>7. ASSUME NEW r \in Requests, PollReady(r) \/ PollStore(r)
        PROVE  TypeOK'
    <2>1. NoWait(key[r]) \in Keys /\ Wait(key[r]) \in Keys /\ WorkerOf[r] \in Workers
      BY <1>7 DEF PollReady, PollStore, PollLive, NoWait, Wait, Keys
    <2>2. QED
      BY <1>7, <2>1 DEF PollReady, PollStore, Put, flightVars
  <1>8. ASSUME NEW k \in Keys, Expire(k) \/ PollExpire(k) \/ Evict(k)
        PROVE  TypeOK'
    BY <1>8 DEF Expire, PollExpire, Evict, Loosen, pollVars, flightVars
  <1>9. ASSUME NEW w \in Workers, Crash(w)
        PROVE  TypeOK'
    <2>1. \A r \in Requests : phase[r] \in {"resolving", "releasing"} => key[r] \in Keys
      OBVIOUS
    <2>2. excused' \in SUBSET Keys
      BY <1>9, <2>1 DEF Crash
    <2>3. phase' \in [Requests -> {"new", "waiting", "resolving", "done"} \cup InChain]
      BY <1>9 DEF Crash
    <2>4. poll' \in [Requests -> {"none", "spawned", "running", "storing", "alerting", "over"}]
      BY <1>9 DEF Crash
    <2>5. \A r \in Requests : phase'[r] # "new" => phase[r] # "new"
      BY <1>9 DEF Crash
    <2>6. /\ events' \in [Workers -> SUBSET Keys] /\ store' \in [Workers -> SUBSET Keys]
          /\ faults' \in 0..MaxFaults
      BY <1>9 DEF Crash
    <2>7. QED
      BY <1>9, <2>2, <2>3, <2>4, <2>5, <2>6 DEF Crash
  <1>10. CASE UNCHANGED vars
    BY <1>10 DEF vars
  <1>11. QED
    BY <1>1, <1>2, <1>3, <1>4, <1>5, <1>6, <1>7, <1>8, <1>9, <1>10 DEF Next, Finish

-----------------------------------------------------------------------------
(* The parts of the invariant *)

LEMMA FlightLiveStep == IInv /\ [Next]_vars => FlightLive'
  <1> SUFFICES ASSUME IInv, [Next]_vars PROVE FlightLive'
    OBVIOUS
  <1> USE RedisAssumption DEF IInv, TypeOK, FlightLive, Resolving, InChain, Go, Ok, Excuse
  <1>1. ASSUME NEW r \in Requests, NEW k \in Keys, ServeHit(r, k) \/ LookUp(r, k)
        PROVE  FlightLive'
    BY <1>1 DEF ServeHit, LookUp, Hit, Miss
  <1>2. ASSUME NEW r \in Requests, Lead(r)
        PROVE  FlightLive'
    <2>1. CASE TakeLock(r)
      BY <1>2, <2>1 DEF Lead, TakeLock
    <2>2. CASE FallBack(r, TRUE)
      BY <1>2, <2>2 DEF Lead, FallBack
    <2>3. QED
      BY <1>2, <2>1, <2>2 DEF Lead
  <1>3. ASSUME NEW r \in Requests, Follow(r)
        PROVE  FlightLive'
    BY <1>3 DEF Follow, FindLock, FallBack
  <1>4. ASSUME NEW r \in Requests, ResolveAlone(r)
        PROVE  FlightLive'
    <2>1. key[r] \in excused /\ excused \subseteq excused'
      BY <1>4 DEF ResolveAlone, TakeLock, FindLock, FallBack
    <2>2. \A k \in Keys : k # key[r] => lock'[k] = lock[k]
      BY <1>4 DEF ResolveAlone, TakeLock, FindLock, FallBack
    <2>3. QED
      BY <1>4, <2>1, <2>2 DEF ResolveAlone
  <1>5. ASSUME NEW r \in Requests,
               PollHit(r) \/ PollMiss(r) \/ Probe(r) \/ ProbeFails(r) \/ TimeOut(r) \/ LastMiss(r)
        PROVE  FlightLive'
    BY <1>5 DEF PollHit, PollMiss, Probe, ProbeFails, TimeOut, LastMiss, Hit, Miss, Looks
  <1>6. ASSUME NEW r \in Requests, Finish(r)
        PROVE  FlightLive'
    BY <1>6 DEF Finish, Succeed, Transcoding, Fail
  <1>7. ASSUME NEW r \in Requests, Release(r)
        PROVE  FlightLive'
    BY <1>7 DEF Release
  <1>8. ASSUME NEW r \in Requests,
               PollStart(r) \/ PollEnd(r) \/ PollReady(r) \/ PollStore(r)
        PROVE  FlightLive'
    BY <1>8 DEF PollStart, PollEnd, PollReady, PollStore, Put, flightVars
  <1>9. ASSUME NEW k \in Keys, Expire(k) \/ PollExpire(k) \/ Evict(k)
        PROVE  FlightLive'
    BY <1>9 DEF Expire, PollExpire, Evict, flightVars
  <1>10. ASSUME NEW w \in Workers, Crash(w)
        PROVE  FlightLive'
    BY <1>10 DEF Crash
  <1>11. CASE UNCHANGED vars
    BY <1>11 DEF vars
  <1>12. QED
    BY <1>1, <1>2, <1>3, <1>4, <1>5, <1>6, <1>7, <1>8, <1>9, <1>10, <1>11
    DEF Next, Finish

LEMMA PollLiveStep == IInv /\ [Next]_vars => PollLive'
  <1> SUFFICES ASSUME IInv, [Next]_vars PROVE PollLive'
    OBVIOUS
  <1> USE RedisAssumption DEF IInv, TypeOK, PollLive, Active, InChain, Go
  <1>1. ASSUME NEW r \in Requests, NEW k \in Keys, ServeHit(r, k) \/ LookUp(r, k)
        PROVE  PollLive'
    BY <1>1 DEF ServeHit, LookUp, pollVars
  <1>2. ASSUME NEW r \in Requests, Lead(r) \/ Follow(r) \/ ResolveAlone(r)
        PROVE  PollLive'
    BY <1>2 DEF Lead, Follow, ResolveAlone, pollVars
  <1>3. ASSUME NEW r \in Requests,
               PollHit(r) \/ PollMiss(r) \/ Probe(r) \/ ProbeFails(r) \/ TimeOut(r) \/ LastMiss(r)
        PROVE  PollLive'
    BY <1>3 DEF PollHit, PollMiss, Probe, ProbeFails, TimeOut, LastMiss, Looks, pollVars
  <1>4. ASSUME NEW r \in Requests, Finish(r) \/ Release(r)
        PROVE  PollLive'
    BY <1>4 DEF Finish, Succeed, Transcoding, Fail, Release, pollVars
  <1>5. ASSUME NEW r \in Requests, PollStart(r)
        PROVE  PollLive'
    BY <1>5 DEF PollStart, Loosen, flightVars
  <1>6. ASSUME NEW r \in Requests, PollEnd(r) \/ PollReady(r) \/ PollStore(r)
        PROVE  PollLive'
    BY <1>6 DEF PollEnd, PollReady, PollStore, Put, flightVars
  <1>7. ASSUME NEW k \in Keys, Expire(k) \/ PollExpire(k) \/ Evict(k)
        PROVE  PollLive'
    BY <1>7 DEF Expire, PollExpire, Evict, Loosen, pollVars, flightVars
  <1>8. ASSUME NEW w \in Workers, Crash(w)
        PROVE  PollLive'
    BY <1>8 DEF Crash
  <1>9. CASE UNCHANGED vars
    BY <1>9 DEF vars
  <1>10. QED
    BY <1>1, <1>2, <1>3, <1>4, <1>5, <1>6, <1>7, <1>8, <1>9 DEF Next, Finish

LEMMA Inductive == IInv /\ [Next]_vars => IInv'
  BY TypeStep, FlightLiveStep, PollLiveStep DEF IInv

THEOREM Invariance == Spec => []IInv
  BY InitIInv, Inductive, PTL DEF Spec

-----------------------------------------------------------------------------
(* The properties the runs check *)

\* Type correctness of the flight over Redis.
THEOREM TypeCorrect == Spec => []TypeOK
  BY Invariance, PTL DEF IInv

\* One background poller per key among all workers, unless its lock expired or
\* could not be taken.
THEOREM OnePoller == Spec => []PollerExclusive
  <1>1. IInv => PollerExclusive
    BY DEF IInv, PollLive, PollerExclusive
  <1>2. QED
    BY <1>1, Invariance, PTL

-----------------------------------------------------------------------------
(* The refinement: every command is a step of a single flight or a stutter *)

LEMMA ShapeNext == TypeOK' => SF!Shape'
  BY DEF TypeOK, SF!Shape, Stage, Asks, Following, InChain

\* How a request that changes its phase moves in the abstract flight.
LEMMA StageMove ==
  ASSUME TypeOK, NEW r \in Requests, phase[r] # "new", Stage[r] # "out", NEW to,
         to \in Following \cup {"resolving", "releasing", "done"}, Go(r, to), UNCHANGED key
  PROVE  /\ Stage' = [Stage EXCEPT ![r] = IF to \in Following THEN "waiting"
                                         ELSE IF to = "resolving" THEN "resolving" ELSE "over"]
         /\ Asks' = [Asks EXCEPT ![r] = Asks[r]]
         /\ Asks[r] = key[r] /\ key[r] \in Keys
  BY DEF TypeOK, Stage, Asks, Go, Following, InChain

\* The same for a request that leaves the state "out".
LEMMA StageArrive ==
  ASSUME TypeOK, NEW r \in Requests, NEW k \in Keys, Stage[r] = "out", NEW to,
         to \in Following \cup {"resolving", "done"}, Go(r, to),
         key' = [key EXCEPT ![r] = k]
  PROVE  /\ Stage' = [Stage EXCEPT ![r] = IF to \in Following THEN "waiting"
                                         ELSE IF to = "resolving" THEN "resolving" ELSE "over"]
         /\ Asks' = [Asks EXCEPT ![r] = k]
  BY DEF TypeOK, Stage, Asks, Go, Following, InChain

\* Trouble alone, or nothing.
LEMMA TroubleMaps ==
  ASSUME NEW k \in Keys, UNCHANGED <<Stage, Asks, cached>>,
         excused' = excused \/ excused' = excused \cup {k}
  PROVE  SF!Next \/ UNCHANGED SF!vars
  <1>1. CASE excused' = excused
    BY <1>1 DEF SF!vars
  <1>2. CASE excused' = excused \cup {k}
    <2>1. SF!Trouble(k)
      BY <1>2 DEF SF!Trouble
    <2>2. QED
      BY <2>1 DEF SF!Next
  <1>3. QED
    BY <1>1, <1>2

LEMMA ArrivalMaps ==
  ASSUME IInv, NEW r \in Requests, NEW k \in Keys, ServeHit(r, k) \/ LookUp(r, k)
  PROVE  SF!Next \/ UNCHANGED SF!vars
  <1>1. /\ TypeOK /\ key' = [key EXCEPT ![r] = k] /\ UNCHANGED cached
        /\ phase[r] = "new" /\ Stage[r] = "out"
    BY DEF ServeHit, LookUp, Stage, Following, IInv
  <1>2. excused' = excused \/ excused' = excused \cup {k}
    BY DEF ServeHit, LookUp, Hit, Miss, Excuse
  <1>3. CASE ServeHit(r, k)
    <2>1. Go(r, "done") /\ "done" \notin Following
      BY <1>3 DEF ServeHit, Following
    <2>2. Stage' = [Stage EXCEPT ![r] = "over"] /\ Asks' = [Asks EXCEPT ![r] = k]
      BY <1>1, <2>1, StageArrive
    <2>3. SF!Serve(r, k)
      BY <1>1, <1>2, <2>2 DEF SF!Serve, SF!Move, SF!Excusing
    <2>4. QED
      BY <2>3 DEF SF!Next
  <1>4. CASE LookUp(r, k)
    <2>1. UNCHANGED <<Stage, Asks>>
      BY <1>1, <1>4 DEF LookUp, Go, Stage, Asks, TypeOK, Following
    <2>2. QED
      BY <1>1, <1>2, <2>1, TroubleMaps
  <1>5. QED
    BY <1>3, <1>4

LEMMA LockMaps ==
  ASSUME IInv, NEW r \in Requests, Lead(r) \/ Follow(r)
  PROVE  SF!Next
  <1>1. /\ TypeOK /\ Stage[r] = "out" /\ key[r] \in Keys /\ UNCHANGED cached
        /\ key' = [key EXCEPT ![r] = key[r]]
    BY DEF Lead, Follow, Stage, Following, IInv, TypeOK
  <1>2. excused' = excused \/ excused' = excused \cup {key[r]}
    BY DEF Lead, Follow, TakeLock, FindLock, FallBack, Excuse
  <1>3. CASE Lead(r)
    <2>1. Stage' = [Stage EXCEPT ![r] = "resolving"] /\ Asks' = [Asks EXCEPT ![r] = key[r]]
      BY <1>1, <1>3, StageArrive DEF Lead, Following
    <2>2. key[r] \notin excused' => Resolving(key[r]) = {}
      BY <1>1, <1>3, RedisAssumption
      DEF Lead, TakeLock, FallBack, Excuse, IInv, FlightLive, Resolving
    <2>3. SF!Calling(key[r]) = Resolving(key[r])
      BY DEF SF!Calling, Resolving, Stage, Asks, Following
    <2>4. SF!Lead(r, key[r])
      BY <1>1, <1>2, <2>1, <2>2, <2>3 DEF SF!Lead, SF!Move, SF!Excusing
    <2>5. QED
      BY <1>1, <2>4 DEF SF!Next
  <1>4. CASE Follow(r)
    <2>1. Stage' = [Stage EXCEPT ![r] = "waiting"] /\ Asks' = [Asks EXCEPT ![r] = key[r]]
      BY <1>1, <1>4, StageArrive DEF Follow, Following
    <2>2. SF!Follow(r, key[r])
      BY <1>1, <1>2, <2>1 DEF SF!Follow, SF!Move, SF!Excusing
    <2>3. QED
      BY <1>1, <2>2 DEF SF!Next
  <1>5. QED
    BY <1>3, <1>4

LEMMA FollowerMaps ==
  ASSUME IInv, NEW r \in Requests,
         \/ PollHit(r) \/ PollMiss(r) \/ Probe(r) \/ ProbeFails(r)
         \/ TimeOut(r) \/ LastMiss(r) \/ ResolveAlone(r)
  PROVE  SF!Next \/ UNCHANGED SF!vars
  <1> DEFINE k == key[r]
  <1>1. /\ TypeOK /\ Stage[r] = "waiting" /\ phase[r] # "new"
        /\ UNCHANGED <<cached, key>>
        /\ excused' = excused \/ excused' = excused \cup {k}
    BY DEF PollHit, PollMiss, Probe, ProbeFails, TimeOut, LastMiss, ResolveAlone, Looks,
           Hit, Miss, TakeLock, FindLock, FallBack, Excuse, Stage, Following, IInv
  <1>2. Asks[r] = k /\ k \in Keys
    BY <1>1 DEF Asks, TypeOK
  <1>3. CASE PollHit(r) \/ ProbeFails(r)
    <2>1. Stage' = [Stage EXCEPT ![r] = "over"] /\ Asks' = [Asks EXCEPT ![r] = k]
      BY <1>1, <1>2, <1>3, StageMove DEF PollHit, ProbeFails, Following
    <2>2. k \notin excused' => k \in cached
      BY <1>3 DEF PollHit, ProbeFails, Hit, Excuse
    <2>3. SF!Collapse(r)
      BY <1>1, <1>2, <2>1, <2>2 DEF SF!Collapse, SF!Move, SF!Excusing
    <2>4. QED
      BY <2>3 DEF SF!Next
  <1>4. CASE PollMiss(r) \/ Probe(r) \/ TimeOut(r) \/ LastMiss(r)
    <2>1. \E to \in Following : Go(r, to)
      BY <1>4 DEF PollMiss, Probe, TimeOut, LastMiss, Following
    <2>2. Stage' = [Stage EXCEPT ![r] = Stage[r]] /\ Asks' = [Asks EXCEPT ![r] = Asks[r]]
      BY <1>1, <2>1, StageMove
    <2>3. UNCHANGED <<Stage, Asks>>
      BY <2>2 DEF Stage, Asks
    <2>4. QED
      BY <1>1, <1>2, <2>3, TroubleMaps
  <1>5. CASE ResolveAlone(r)
    <2>1. Stage' = [Stage EXCEPT ![r] = "resolving"] /\ Asks' = [Asks EXCEPT ![r] = k]
      BY <1>1, <1>2, <1>5, StageMove DEF ResolveAlone, Following
    <2>2. k \in excused
      BY <1>2, <1>5 DEF ResolveAlone, IInv, FlightLive
    <2>3. SF!GoAlone(r)
      BY <1>1, <1>2, <2>1, <2>2 DEF SF!GoAlone, SF!Move, SF!Excusing
    <2>4. QED
      BY <2>3 DEF SF!Next
  <1>6. QED
    BY <1>3, <1>4, <1>5

LEMMA FinishMaps ==
  ASSUME IInv, NEW r \in Requests, Finish(r)
  PROVE  SF!Next
  <1> DEFINE k == key[r]
  <1>1. TypeOK /\ Stage[r] = "resolving" /\ phase[r] # "new" /\ UNCHANGED key
    BY DEF Finish, Succeed, Transcoding, Fail, Stage, Following, InChain, IInv
  <1>2. /\ Stage' = [Stage EXCEPT ![r] = "over"] /\ Asks' = [Asks EXCEPT ![r] = k]
        /\ Asks[r] = k /\ k \in Keys
    BY <1>1, StageMove DEF Finish, Succeed, Transcoding, Fail, Following
  <1>3. CASE cached' = cached \cup {k} /\ UNCHANGED excused
    <2>1. SF!Share(r)
      BY <1>1, <1>2, <1>3 DEF SF!Share, SF!Move, SF!Excusing
    <2>2. QED
      BY <2>1 DEF SF!Next
  <1>4. CASE UNCHANGED cached /\ excused' = excused \cup {k}
    <2>1. /\ \A s \in Requests : s # r => Stage'[s] = Stage[s] /\ Asks'[s] = Asks[s]
          /\ Stage'[r] = "over" /\ Asks'[r] = k
      BY <1>2 DEF Stage, Asks
    <2>2. excused \subseteq Keys
      BY <1>1 DEF TypeOK
    <2>3. SF!Shape'
      BY TypeStep, ShapeNext DEF IInv, Next, Finish
    <2>4. SF!Barren
      BY <1>1, <1>2, <1>4, <2>1, <2>2, <2>3 DEF SF!Barren
    <2>5. QED
      BY <2>4 DEF SF!Next
  <1>5. QED
    BY <1>3, <1>4 DEF Finish, Succeed, Transcoding, Fail, Excuse

LEMMA ReleaseMaps ==
  ASSUME IInv, NEW r \in Requests, Release(r)
  PROVE  SF!Next \/ UNCHANGED SF!vars
  <1>1. key[r] \in Keys
    BY DEF Release, IInv, TypeOK
  <1>2. UNCHANGED <<Stage, Asks, cached>>
    BY DEF Release, Go, Stage, Asks, Following, IInv, TypeOK
  <1>3. excused' = excused \/ excused' = excused \cup {key[r]}
    BY DEF Release, Excuse
  <1>4. QED
    BY <1>1, <1>2, <1>3, TroubleMaps

LEMMA PollMaps ==
  ASSUME IInv, NEW r \in Requests,
         PollStart(r) \/ PollReady(r) \/ PollStore(r) \/ PollEnd(r)
  PROVE  SF!Next \/ UNCHANGED SF!vars
  <1>1. UNCHANGED <<Stage, Asks, excused>>
    BY DEF PollStart, PollReady, PollStore, PollEnd, Put, flightVars, Stage, Asks
  <1>2. key[r] \in Keys
    BY DEF IInv, PollLive, TypeOK, PollStart, PollReady, PollStore, PollEnd
  <1>3. NoWait(key[r]) \in Keys /\ Wait(key[r]) \in Keys
    BY <1>2 DEF NoWait, Wait, Keys
  <1>4. cached \subseteq cached' /\ cached' \subseteq Keys
    BY <1>3 DEF PollStart, PollReady, PollStore, PollEnd, Put, IInv, TypeOK
  <1>5. SF!Fill
    BY <1>1, <1>4 DEF SF!Fill
  <1>6. QED
    BY <1>5 DEF SF!Next

LEMMA ExpiryMaps ==
  ASSUME IInv, NEW k \in Keys, Expire(k) \/ PollExpire(k) \/ Evict(k)
  PROVE  SF!Next \/ UNCHANGED SF!vars
  <1>1. /\ UNCHANGED <<Stage, Asks>>
        /\ excused' = excused \/ excused' = excused \cup {k}
    BY DEF Expire, PollExpire, Evict, Excuse, flightVars, Stage, Asks
  <1>2. CASE Evict(k)
    <2>1. SF!Lose(k)
      BY <1>1, <1>2 DEF Evict, Excuse, SF!Lose
    <2>2. QED
      BY <2>1 DEF SF!Next
  <1>3. CASE UNCHANGED cached
    BY <1>1, <1>3, TroubleMaps
  <1>4. QED
    BY <1>2, <1>3 DEF Expire, PollExpire

LEMMA CrashMaps ==
  ASSUME IInv, NEW w \in Workers, Crash(w)
  PROVE  SF!Next
  <1>1. TypeOK
    BY DEF IInv
  <1>2. excused \subseteq excused' /\ excused' \subseteq Keys
    BY <1>1 DEF Crash, TypeOK
  <1>3. UNCHANGED <<key, cached>>
    BY DEF Crash
  <1>4. ASSUME NEW r \in Requests, WorkerOf[r] # w \/ phase[r] = "new"
        PROVE  Stage'[r] = Stage[r] /\ Asks'[r] = Asks[r]
    BY <1>1, <1>3, <1>4 DEF Crash, Stage, Asks, TypeOK
  <1>5. ASSUME NEW r \in Requests, WorkerOf[r] = w, phase[r] # "new"
        PROVE  /\ Stage'[r] = "over" /\ Asks'[r] = key[r] /\ key[r] \in Keys
               /\ Stage[r] # "out" => Asks[r] = key[r]
               /\ Stage[r] = "resolving" => Asks[r] = key[r] /\ key[r] \in excused'
    BY <1>1, <1>3, <1>5 DEF Crash, Stage, Asks, TypeOK, Following
  <1>6. SF!Shape'
    BY TypeStep, ShapeNext DEF IInv, Next
  <1>7. SF!Barren
    BY <1>2, <1>3, <1>4, <1>5, <1>6 DEF SF!Barren
  <1>8. QED
    BY <1>7 DEF SF!Next

\* The lock in Redis, shared by several workers, implements the single flight.
THEOREM Refinement == Spec => ImplementsSingleFlight
  <1>1. Init => SF!Init
    <2> SUFFICES ASSUME Init PROVE SF!Init
      OBVIOUS
    <2>1. Stage = [r \in Requests |-> "out"]
      BY DEF Init, Stage, Following
    <2>2. Asks = [r \in Requests |-> None]
      BY <2>1 DEF Asks
    <2>3. QED
      BY <2>1, <2>2 DEF Init, SF!Init
  <1>2. IInv /\ [Next]_vars => SF!Next \/ UNCHANGED SF!vars
    <2> SUFFICES ASSUME IInv, [Next]_vars PROVE SF!Next \/ UNCHANGED SF!vars
      OBVIOUS
    <2>1. CASE UNCHANGED vars
      BY <2>1 DEF vars, SF!vars, Stage, Asks
    <2>2. \A r \in Requests : MayAsk[r] \subseteq Keys
      BY RedisAssumption
    <2>3. QED
      BY <2>1, <2>2, ArrivalMaps, LockMaps, FollowerMaps, FinishMaps, ReleaseMaps, PollMaps,
         ExpiryMaps, CrashMaps
      DEF Next, Finish
  <1>3. QED
    BY <1>1, <1>2, Invariance, PTL DEF Spec, ImplementsSingleFlight, SF!Spec

\* Among all workers, however their commands interleave and whichever fail, no
\* two requests call upstream for a key that nothing excuses.
THEOREM OneCallAtATime == Spec => []SF!OneCall
  <1>1. IInv => SF!OneCall
    <2> SUFFICES ASSUME IInv, NEW k \in Keys \ excused,
                        NEW r \in SF!Calling(k), NEW s \in SF!Calling(k)
                 PROVE  r = s
      BY DEF SF!OneCall
    <2>1. phase[r] = "resolving" /\ key[r] = k /\ phase[s] = "resolving" /\ key[s] = k
      BY DEF SF!Calling, Stage, Asks, Following
    <2>2. QED
      BY <2>1 DEF IInv, FlightLive, SF!Calling
  <1>2. QED
    BY <1>1, Invariance, PTL
=============================================================================
