-------------------------- MODULE ResolveRouteProofs --------------------------
(***************************************************************************)
(* Safety of the resolve route for any number of requests and links: the   *)
(* inductive invariant IInv of ResolveRoute and what follows from it.      *)
(***************************************************************************)
EXTENDS ResolveRoute, FiniteSetTheorems, TLAPS

LEMMA InitIInv == Init => IInv
  <1> SUFFICES ASSUME Init PROVE IInv
    OBVIOUS
  <1> USE DEF Init
  <1>1. TypeOK
    BY DEF TypeOK
  <1>2. WakeUpOwed /\ EventLive /\ FlightLive
    BY DEF WakeUpOwed, EventLive, FlightLive, Resolving
  <1>3. PollLive
    BY DEF PollLive, Active
  <1>4. QED
    BY <1>1, <1>2, <1>3 DEF IInv

-----------------------------------------------------------------------------
(* Each part of the invariant is preserved by every step *)

LEMMA TypeStep == TypeOK /\ PollLive /\ [Next]_vars => TypeOK'
  <1> SUFFICES ASSUME TypeOK, PollLive, [Next]_vars PROVE TypeOK'
    OBVIOUS
  <1> USE RouteAssumption DEF TypeOK, Bodies, Answer
  <1>1. ASSUME NEW r \in Requests, NEW k \in Keys, ServeHit(r, k)
        PROVE  TypeOK'
    BY <1>1 DEF ServeHit
  <1>2. ASSUME NEW r \in Requests, NEW k \in Keys, Lead(r, k)
        PROVE  TypeOK'
    BY <1>2 DEF Lead
  <1>3. ASSUME NEW r \in Requests, NEW k \in Keys, Follow(r, k)
        PROVE  TypeOK'
    BY <1>3 DEF Follow
  <1>4. ASSUME NEW r \in Requests, Wake(r) \/ TimeOut(r)
        PROVE  TypeOK'
    <2>1. key[r] \in Keys
      BY <1>4 DEF Wake, TimeOut, Resume
    <2>2. CASE Collapse(r)
      BY <1>4, <2>1, <2>2 DEF Wake, TimeOut, Resume, Collapse, Excuse
    <2>3. CASE ResolveAlone(r)
      BY <1>4, <2>1, <2>3 DEF Wake, TimeOut, Resume, ResolveAlone, Excuse
    <2>4. QED
      BY <1>4, <2>2, <2>3 DEF Wake, TimeOut, Resume
  <1>5. ASSUME NEW r \in Requests, Finish(r)
        PROVE  TypeOK'
    <2>1. key[r] \in Keys
      BY <1>5 DEF Finish, Succeed, Transcoding, Fail
    <2>2. CASE Succeed(r)
      BY <2>1, <2>2 DEF Succeed, Release
    <2>3. CASE Transcoding(r)
      BY <2>1, <2>3 DEF Transcoding, Release, Excuse
    <2>4. CASE Fail(r)
      BY <2>1, <2>4 DEF Fail, Release, Excuse
    <2>5. QED
      BY <1>5, <2>2, <2>3, <2>4 DEF Finish
  <1>6. ASSUME NEW r \in Requests, PollStart(r)
        PROVE  TypeOK'
    BY <1>6 DEF PollStart, PollLive
  <1>7. ASSUME NEW r \in Requests, PollReady(r)
        PROVE  TypeOK'
    BY <1>7 DEF PollReady
  <1>8. ASSUME NEW r \in Requests, PollEnd(r)
        PROVE  TypeOK'
    BY <1>8 DEF PollEnd
  <1>9. ASSUME NEW k \in Keys, Evict(k)
        PROVE  TypeOK'
    BY <1>9 DEF Evict, Excuse
  <1>10. CASE UNCHANGED vars
    BY <1>10 DEF vars
  <1>11. QED
    BY <1>1, <1>2, <1>3, <1>4, <1>5, <1>6, <1>7, <1>8, <1>9, <1>10
    DEF Next, Finish

LEMMA WakeUpOwedStep == IInv /\ [Next]_vars => WakeUpOwed'
  <1> SUFFICES ASSUME IInv, [Next]_vars PROVE WakeUpOwed'
    OBVIOUS
  <1> USE RouteAssumption DEF IInv, TypeOK, WakeUpOwed, Resolving, Answer, Bodies, EventLive
  <1>1. ASSUME NEW r \in Requests, NEW k \in Keys, ServeHit(r, k)
        PROVE  WakeUpOwed'
    BY <1>1 DEF ServeHit
  <1>2. ASSUME NEW r \in Requests, NEW k \in Keys, Lead(r, k)
        PROVE  WakeUpOwed'
    BY <1>2 DEF Lead
  <1>3. ASSUME NEW r \in Requests, NEW k \in Keys, Follow(r, k)
        PROVE  WakeUpOwed'
    BY <1>3 DEF Follow
  <1>4. ASSUME NEW r \in Requests, Wake(r) \/ TimeOut(r)
        PROVE  WakeUpOwed'
    <2>1. CASE Collapse(r)
      BY <1>4, <2>1 DEF Wake, TimeOut, Resume, Collapse, Excuse
    <2>2. CASE ResolveAlone(r)
      BY <1>4, <2>2 DEF Wake, TimeOut, Resume, ResolveAlone, Excuse
    <2>3. QED
      BY <1>4, <2>1, <2>2 DEF Wake, TimeOut, Resume
  <1>5. ASSUME NEW r \in Requests, Finish(r)
        PROVE  WakeUpOwed'
    <2>1. CASE Succeed(r)
      BY <2>1 DEF Succeed, Release
    <2>2. CASE Transcoding(r)
      BY <2>2 DEF Transcoding, Release, Excuse
    <2>3. CASE Fail(r)
      BY <2>3 DEF Fail, Release, Excuse
    <2>4. QED
      BY <1>5, <2>1, <2>2, <2>3 DEF Finish
  <1>6. ASSUME NEW r \in Requests, PollStart(r) \/ PollReady(r) \/ PollEnd(r)
        PROVE  WakeUpOwed'
    BY <1>6 DEF PollStart, PollReady, PollEnd
  <1>7. ASSUME NEW k \in Keys, Evict(k)
        PROVE  WakeUpOwed'
    BY <1>7 DEF Evict, Excuse
  <1>8. CASE UNCHANGED vars
    BY <1>8 DEF vars
  <1>9. QED
    BY <1>1, <1>2, <1>3, <1>4, <1>5, <1>6, <1>7, <1>8 DEF Next, Finish

LEMMA EventLiveStep == IInv /\ [Next]_vars => EventLive'
  <1> SUFFICES ASSUME IInv, [Next]_vars PROVE EventLive'
    OBVIOUS
  <1> USE RouteAssumption DEF IInv, TypeOK, EventLive, Resolving, Answer, Bodies
  <1>1. ASSUME NEW r \in Requests, NEW k \in Keys, ServeHit(r, k)
        PROVE  EventLive'
    BY <1>1 DEF ServeHit
  <1>2. ASSUME NEW r \in Requests, NEW k \in Keys, Lead(r, k)
        PROVE  EventLive'
    BY <1>2 DEF Lead
  <1>3. ASSUME NEW r \in Requests, NEW k \in Keys, Follow(r, k)
        PROVE  EventLive'
    BY <1>3 DEF Follow
  <1>4. ASSUME NEW r \in Requests, Wake(r) \/ TimeOut(r)
        PROVE  EventLive'
    <2>1. CASE Collapse(r)
      BY <1>4, <2>1 DEF Wake, TimeOut, Resume, Collapse, Excuse
    <2>2. CASE ResolveAlone(r)
      BY <1>4, <2>2 DEF Wake, TimeOut, Resume, ResolveAlone, Excuse
    <2>3. QED
      BY <1>4, <2>1, <2>2 DEF Wake, TimeOut, Resume
  <1>5. ASSUME NEW r \in Requests, Finish(r)
        PROVE  EventLive'
    <2>1. CASE Succeed(r)
      BY <2>1 DEF Succeed, Release
    <2>2. CASE Transcoding(r)
      BY <2>2 DEF Transcoding, Release, Excuse
    <2>3. CASE Fail(r)
      BY <2>3 DEF Fail, Release, Excuse
    <2>4. QED
      BY <1>5, <2>1, <2>2, <2>3 DEF Finish
  <1>6. ASSUME NEW r \in Requests, PollStart(r) \/ PollReady(r) \/ PollEnd(r)
        PROVE  EventLive'
    BY <1>6 DEF PollStart, PollReady, PollEnd
  <1>7. ASSUME NEW k \in Keys, Evict(k)
        PROVE  EventLive'
    BY <1>7 DEF Evict, Excuse
  <1>8. CASE UNCHANGED vars
    BY <1>8 DEF vars
  <1>9. QED
    BY <1>1, <1>2, <1>3, <1>4, <1>5, <1>6, <1>7, <1>8 DEF Next, Finish

LEMMA FlightLiveStep == IInv /\ [Next]_vars => FlightLive'
  <1> SUFFICES ASSUME IInv, [Next]_vars PROVE FlightLive'
    OBVIOUS
  <1> USE RouteAssumption DEF IInv, TypeOK, FlightLive, Resolving, Answer, Bodies, EventLive, WakeUpOwed
  <1>1. ASSUME NEW r \in Requests, NEW k \in Keys, ServeHit(r, k)
        PROVE  FlightLive'
    BY <1>1 DEF ServeHit
  <1>2. ASSUME NEW r \in Requests, NEW k \in Keys, Lead(r, k)
        PROVE  FlightLive'
    BY <1>2 DEF Lead
  <1>3. ASSUME NEW r \in Requests, NEW k \in Keys, Follow(r, k)
        PROVE  FlightLive'
    BY <1>3 DEF Follow
  <1>4. ASSUME NEW r \in Requests, Wake(r) \/ TimeOut(r)
        PROVE  FlightLive'
    <2>1. CASE Collapse(r)
      BY <1>4, <2>1 DEF Wake, TimeOut, Resume, Collapse, Excuse
    <2>2. CASE ResolveAlone(r)
      BY <1>4, <2>2 DEF Wake, TimeOut, Resume, ResolveAlone, Excuse
    <2>3. QED
      BY <1>4, <2>1, <2>2 DEF Wake, TimeOut, Resume
  <1>5. ASSUME NEW r \in Requests, Finish(r)
        PROVE  FlightLive'
    <2>1. CASE Succeed(r)
      BY <2>1 DEF Succeed, Release
    <2>2. CASE Transcoding(r)
      BY <2>2 DEF Transcoding, Release, Excuse
    <2>3. CASE Fail(r)
      BY <2>3 DEF Fail, Release, Excuse
    <2>4. QED
      BY <1>5, <2>1, <2>2, <2>3 DEF Finish
  <1>6. ASSUME NEW r \in Requests, PollStart(r) \/ PollReady(r) \/ PollEnd(r)
        PROVE  FlightLive'
    BY <1>6 DEF PollStart, PollReady, PollEnd
  <1>7. ASSUME NEW k \in Keys, Evict(k)
        PROVE  FlightLive'
    BY <1>7 DEF Evict, Excuse
  <1>8. CASE UNCHANGED vars
    BY <1>8 DEF vars
  <1>9. QED
    BY <1>1, <1>2, <1>3, <1>4, <1>5, <1>6, <1>7, <1>8 DEF Next, Finish

LEMMA PollLiveStep == IInv /\ [Next]_vars => PollLive'
  <1> SUFFICES ASSUME IInv, [Next]_vars PROVE PollLive'
    OBVIOUS
  <1> USE RouteAssumption DEF IInv, TypeOK, PollLive, Resolving, Answer, Bodies, Active
  <1>1. ASSUME NEW r \in Requests, NEW k \in Keys, ServeHit(r, k)
        PROVE  PollLive'
    BY <1>1 DEF ServeHit
  <1>2. ASSUME NEW r \in Requests, NEW k \in Keys, Lead(r, k)
        PROVE  PollLive'
    BY <1>2 DEF Lead
  <1>3. ASSUME NEW r \in Requests, NEW k \in Keys, Follow(r, k)
        PROVE  PollLive'
    BY <1>3 DEF Follow
  <1>4. ASSUME NEW r \in Requests, Wake(r) \/ TimeOut(r)
        PROVE  PollLive'
    <2>1. CASE Collapse(r)
      BY <1>4, <2>1 DEF Wake, TimeOut, Resume, Collapse, Excuse
    <2>2. CASE ResolveAlone(r)
      BY <1>4, <2>2 DEF Wake, TimeOut, Resume, ResolveAlone, Excuse
    <2>3. QED
      BY <1>4, <2>1, <2>2 DEF Wake, TimeOut, Resume
  <1>5. ASSUME NEW r \in Requests, Finish(r)
        PROVE  PollLive'
    <2>1. CASE Succeed(r)
      BY <2>1 DEF Succeed, Release
    <2>2. CASE Transcoding(r)
      BY <2>2 DEF Transcoding, Release, Excuse
    <2>3. CASE Fail(r)
      BY <2>3 DEF Fail, Release, Excuse
    <2>4. QED
      BY <1>5, <2>1, <2>2, <2>3 DEF Finish
  <1>6. ASSUME NEW r \in Requests, PollStart(r) \/ PollReady(r) \/ PollEnd(r)
        PROVE  PollLive'
    BY <1>6 DEF PollStart, PollReady, PollEnd
  <1>7. ASSUME NEW k \in Keys, Evict(k)
        PROVE  PollLive'
    BY <1>7 DEF Evict, Excuse
  <1>8. CASE UNCHANGED vars
    BY <1>8 DEF vars
  <1>9. QED
    BY <1>1, <1>2, <1>3, <1>4, <1>5, <1>6, <1>7, <1>8 DEF Next, Finish

LEMMA Inductive == IInv /\ [Next]_vars => IInv'
  BY TypeStep, WakeUpOwedStep, EventLiveStep, FlightLiveStep, PollLiveStep DEF IInv

THEOREM Invariance == Spec => []IInv
  BY InitIInv, Inductive, PTL DEF Spec

-----------------------------------------------------------------------------
(* The properties the runs check, for every set of requests and links *)

\* Type correctness of the route.
THEOREM TypeCorrect == Spec => []TypeOK
  BY Invariance, PTL DEF IInv

\* No follower is stranded: whatever mix of leaders, timed-out followers and
\* failed resolves releases whatever event, the wake-up of every follower is
\* owed by a request that is still resolving.
THEOREM NoStrandedFollower == Spec => []WakeUpOwed
  BY Invariance, PTL DEF IInv

\* A set with at most one element has cardinality at most one.
LEMMA AtMostOne ==
  ASSUME NEW S, NEW x, S \subseteq {x}
  PROVE  Cardinality(S) <= 1
  <1>1. IsFiniteSet({x}) /\ Cardinality({x}) = 1
    BY FS_Singleton
  <1>2. QED
    BY <1>1, FS_Subset

\* The single flight collapses the requests for a key until something in the
\* list of excuses happens to that key.
THEOREM Collapsing == Spec => []CollapseUnlessExcused
  <1>1. IInv => CollapseUnlessExcused
    <2> SUFFICES ASSUME IInv, NEW k \in Keys, k \notin excused
                 PROVE  Cardinality(Resolving(k)) <= 1
      BY DEF CollapseUnlessExcused
    <2>1. Resolving(k) \subseteq {sfEvents[k]}
      BY DEF IInv, FlightLive
    <2>2. QED
      BY <2>1, AtMostOne
  <1>2. QED
    BY <1>1, Invariance, PTL

\* One background poller per key, and the job set is exact.
THEOREM OnePoller == Spec => []PollerExclusive
  <1>1. IInv => PollerExclusive
    <2> SUFFICES ASSUME IInv, NEW k \in Keys
                 PROVE  LET pollers == {r \in Requests : Active(r) /\ key[r] = k}
                        IN /\ Cardinality(pollers) <= 1
                           /\ k \in jobs <=> pollers # {}
      BY DEF PollerExclusive
    <2> DEFINE pollers == {r \in Requests : Active(r) /\ key[r] = k}
    <2>1. k \in jobs <=> pollers # {}
      BY DEF IInv, PollLive
    <2>2. \E x : pollers \subseteq {x}
      BY DEF IInv, PollLive
    <2>3. Cardinality(pollers) <= 1
      BY <2>2, AtMostOne
    <2>4. QED
      BY <2>1, <2>3
  <1>2. QED
    BY <1>1, Invariance, PTL

-----------------------------------------------------------------------------
(* The refinement: every step of the route is a step of a single flight *)

LEMMA ShapeNext == TypeOK' => SF!Shape'
  BY DEF TypeOK, SF!Shape, Stage

\* A request that moves and only that moves in the abstract flight.
LEMMA StageMove ==
  ASSUME IInv, NEW r \in Requests, NEW to,
         phase' = [phase EXCEPT ![r] = to]
  PROVE  Stage' = [Stage EXCEPT ![r] =
           CASE to = "new" -> "out" [] to = "answered" -> "over" [] OTHER -> to]
  BY DEF IInv, TypeOK, Stage

LEMMA ArrivalMaps ==
  ASSUME IInv, NEW r \in Requests, NEW k \in Keys,
         ServeHit(r, k) \/ Lead(r, k) \/ Follow(r, k)
  PROVE  SF!Next
  <1>1. Stage[r] = "out" /\ key' = [key EXCEPT ![r] = k]
    BY DEF ServeHit, Lead, Follow, Stage
  <1>2. CASE ServeHit(r, k)
    <2>1. Stage' = [Stage EXCEPT ![r] = "over"]
      BY <1>2, StageMove DEF ServeHit, Answer
    <2>2. SF!Serve(r, k)
      BY <1>1, <1>2, <2>1 DEF ServeHit, SF!Serve, SF!Move, SF!Excusing
    <2>3. QED
      BY <2>2 DEF SF!Next
  <1>3. CASE Lead(r, k)
    <2>1. Stage' = [Stage EXCEPT ![r] = "resolving"]
      BY <1>3, StageMove DEF Lead
    <2>2. k \notin excused => Resolving(k) = {}
      BY <1>3, RouteAssumption DEF Lead, IInv, FlightLive, Resolving
    <2>3. SF!Calling(k) = Resolving(k)
      BY DEF SF!Calling, Resolving, Stage
    <2>4. SF!Lead(r, k)
      BY <1>1, <1>3, <2>1, <2>2, <2>3 DEF Lead, SF!Lead, SF!Move, SF!Excusing
    <2>5. QED
      BY <2>4 DEF SF!Next
  <1>4. CASE Follow(r, k)
    <2>1. Stage' = [Stage EXCEPT ![r] = "waiting"]
      BY <1>4, StageMove DEF Follow
    <2>2. SF!Follow(r, k)
      BY <1>1, <1>4, <2>1 DEF Follow, SF!Follow, SF!Move, SF!Excusing
    <2>3. QED
      BY <2>2 DEF SF!Next
  <1>5. QED
    BY <1>2, <1>3, <1>4

LEMMA ResumptionMaps ==
  ASSUME IInv, NEW r \in Requests, Wake(r) \/ TimeOut(r)
  PROVE  SF!Next
  <1>1. /\ Stage[r] = "waiting" /\ key[r] \in Keys
        /\ key' = [key EXCEPT ![r] = key[r]]
        /\ UNCHANGED cache
    BY DEF Wake, TimeOut, Resume, Stage, IInv, TypeOK
  <1>2. SF!Excusing(key[r])
    BY DEF Wake, TimeOut, Excuse, SF!Excusing
  <1>3. CASE Collapse(r)
    <2>1. Stage' = [Stage EXCEPT ![r] = "over"]
      BY <1>3, StageMove DEF Collapse, Answer
    <2>2. SF!Collapse(r)
      BY <1>1, <1>2, <1>3, <2>1 DEF Collapse, SF!Collapse, SF!Move
    <2>3. QED
      BY <2>2 DEF SF!Next
  <1>4. CASE ResolveAlone(r)
    <2>1. Stage' = [Stage EXCEPT ![r] = "resolving"]
      BY <1>4, StageMove DEF ResolveAlone
    <2>2. key[r] \in excused'
      BY <1>1, <1>4 DEF Wake, TimeOut, Resume, ResolveAlone, Excuse, IInv, FlightLive
    <2>3. SF!GoAlone(r)
      BY <1>1, <1>2, <2>1, <2>2 DEF SF!GoAlone, SF!Move
    <2>4. QED
      BY <2>3 DEF SF!Next
  <1>5. QED
    BY <1>3, <1>4 DEF Wake, TimeOut, Resume

LEMMA FinishMaps ==
  ASSUME IInv, NEW r \in Requests, Finish(r)
  PROVE  SF!Next
  <1>1. Stage[r] = "resolving" /\ key[r] \in Keys /\ UNCHANGED key
    BY DEF Finish, Succeed, Transcoding, Fail, Stage, IInv, TypeOK
  <1>2. Stage' = [Stage EXCEPT ![r] = "over"]
    BY StageMove DEF Finish, Succeed, Transcoding, Fail, Answer
  <1>3. CASE Succeed(r)
    <2>1. {k \in Keys : cache'[k] # None}
            = {k \in Keys : cache[k] # None} \cup {key[r]}
      BY <1>1, <1>3, RouteAssumption DEF Succeed, IInv, TypeOK, Bodies
    <2>2. key' = [key EXCEPT ![r] = key[r]]
      BY <1>1 DEF IInv, TypeOK
    <2>3. SF!Share(r)
      BY <1>1, <1>2, <1>3, <2>1, <2>2 DEF Succeed, SF!Share, SF!Move, SF!Excusing
    <2>4. QED
      BY <2>3 DEF SF!Next
  <1>4. CASE Transcoding(r) \/ Fail(r)
    <2>1. excused' = excused \cup {key[r]} /\ UNCHANGED cache
      BY <1>4 DEF Transcoding, Fail, Excuse
    <2>2. Stage'[r] = "over" /\ \A s \in Requests : s # r => Stage'[s] = Stage[s]
      BY <1>2 DEF Stage
    <2>3. SF!Shape'
      BY TypeStep, ShapeNext DEF IInv, Next, Finish
    <2>4. SF!Barren
      BY <1>1, <2>1, <2>2, <2>3 DEF SF!Barren, IInv, TypeOK
    <2>5. QED
      BY <2>4 DEF SF!Next
  <1>5. QED
    BY <1>3, <1>4 DEF Finish

LEMMA PollMaps ==
  ASSUME IInv, NEW r \in Requests, PollStart(r) \/ PollReady(r) \/ PollEnd(r)
  PROVE  SF!Next \/ UNCHANGED SF!vars
  <1>1. UNCHANGED <<phase, key, excused>> /\ UNCHANGED Stage
    BY DEF PollStart, PollReady, PollEnd, Stage
  <1>2. CASE PollReady(r)
    <2>1. {k \in Keys : cache[k] # None} \subseteq {k \in Keys : cache'[k] # None}
      BY <1>2, RouteAssumption DEF PollReady, Bodies
    <2>2. SF!Fill
      BY <1>1, <2>1 DEF SF!Fill
    <2>3. QED
      BY <2>2 DEF SF!Next
  <1>3. CASE PollStart(r) \/ PollEnd(r)
    <2>1. UNCHANGED cache
      BY <1>3 DEF PollStart, PollEnd
    <2>2. QED
      BY <1>1, <2>1 DEF SF!vars
  <1>4. QED
    BY <1>2, <1>3

LEMMA EvictMaps ==
  ASSUME IInv, NEW k \in Keys, Evict(k)
  PROVE  SF!Next
  <1>1. UNCHANGED key /\ UNCHANGED Stage /\ excused' = excused \cup {k}
    BY DEF Evict, Excuse, Stage
  <1>2. {j \in Keys : cache'[j] # None} = {j \in Keys : cache[j] # None} \ {k}
    BY DEF Evict, IInv, TypeOK
  <1>3. SF!Lose(k)
    BY <1>1, <1>2 DEF SF!Lose
  <1>4. QED
    BY <1>3 DEF SF!Next

\* The event based single flight of one process implements the abstract one.
THEOREM Refinement == Spec => ImplementsSingleFlight
  <1>1. Init => SF!Init
    BY DEF Init, SF!Init, Stage
  <1>2. IInv /\ [Next]_vars => SF!Next \/ UNCHANGED SF!vars
    <2> SUFFICES ASSUME IInv, [Next]_vars PROVE SF!Next \/ UNCHANGED SF!vars
      OBVIOUS
    <2>1. CASE UNCHANGED vars
      BY <2>1 DEF vars, SF!vars, Stage
    <2>2. QED
      BY <2>1, ArrivalMaps, ResumptionMaps, FinishMaps, PollMaps, EvictMaps
      DEF Next, Finish
  <1>3. QED
    BY <1>1, <1>2, Invariance, PTL DEF Spec, ImplementsSingleFlight, SF!Spec

\* In one worker the events never let two requests call upstream for a key that
\* nothing excuses: the promise of the single flight in a nutshell.
THEOREM OneCallAtATime == Spec => []SF!OneCall
  <1>1. IInv => SF!OneCall
    <2> SUFFICES ASSUME IInv, NEW k \in Keys \ excused,
                        NEW r \in SF!Calling(k), NEW s \in SF!Calling(k)
                 PROVE  r = s
      BY DEF SF!OneCall
    <2>1. r \in Resolving(k) /\ s \in Resolving(k)
      BY DEF SF!Calling, Stage, Resolving
    <2>2. QED
      BY <2>1 DEF IInv, FlightLive
  <1>2. QED
    BY <1>1, Invariance, PTL
=============================================================================
