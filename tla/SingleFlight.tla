----------------------------- MODULE SingleFlight -----------------------------
(***************************************************************************)
(* What the single flight of /api/resolve promises, whatever carries it:   *)
(* asyncio events within a process (ResolveRoute) or a lock in Redis       *)
(* (RedisFlight).  Requests for one key lead, follow or resolve alone; two *)
(* of them call upstream for one key at the same time, and a follower      *)
(* calls upstream at all, only if something excuses the key.  What excuses *)
(* a key is up to the implementation; once excused it stays so.            *)
(***************************************************************************)

CONSTANTS Requests, Keys, None

VARIABLES
  stage,    \* where a request stands
  asks,     \* the key it asks for, None before it led, followed or was served
  shared,   \* the keys whose response is there for everybody
  excused   \* the keys for which collapsing may break

vars == <<stage, asks, shared, excused>>

Init ==
  /\ stage = [r \in Requests |-> "out"]
  /\ asks = [r \in Requests |-> None]
  /\ shared = {}
  /\ excused = {}

Shape ==
  /\ stage \in [Requests -> {"out", "waiting", "resolving", "over"}]
  /\ asks \in [Requests -> Keys \cup {None}]

Calling(k) == {r \in Requests : stage[r] = "resolving" /\ asks[r] = k}

Move(r, k, to) ==
  /\ stage' = [stage EXCEPT ![r] = to]
  /\ asks' = [asks EXCEPT ![r] = k]

\* Any step for k may come with trouble that excuses it.
Excusing(k) == excused' = excused \/ excused' = excused \cup {k}

Serve(r, k) ==
  /\ stage[r] = "out"
  /\ Move(r, k, "over")
  /\ Excusing(k)
  /\ UNCHANGED shared

Lead(r, k) ==
  /\ stage[r] = "out"
  /\ Move(r, k, "resolving")
  /\ Excusing(k)
  /\ k \notin excused' => Calling(k) = {}
  /\ UNCHANGED shared

Follow(r, k) ==
  /\ stage[r] = "out"
  /\ Move(r, k, "waiting")
  /\ Excusing(k)
  /\ UNCHANGED shared

\* A follower is served the shared response.
Collapse(r) ==
  /\ stage[r] = "waiting"
  /\ Move(r, asks[r], "over")
  /\ Excusing(asks[r])
  /\ asks[r] \notin excused' => asks[r] \in shared
  /\ UNCHANGED shared

\* A follower calls upstream after all.
GoAlone(r) ==
  /\ stage[r] = "waiting"
  /\ Move(r, asks[r], "resolving")
  /\ Excusing(asks[r])
  /\ asks[r] \in excused'
  /\ UNCHANGED shared

Share(r) ==
  /\ stage[r] = "resolving"
  /\ Move(r, asks[r], "over")
  /\ shared' = shared \cup {asks[r]}
  /\ Excusing(asks[r])

\* Requests end with nothing to share: an upstream failure, a crash.
Barren ==
  /\ Shape'
  /\ \A r \in Requests :
       \/ stage'[r] = stage[r] /\ asks'[r] = asks[r]
       \/ /\ stage'[r] = "over" /\ asks'[r] \in Keys
          /\ stage[r] # "out" => asks'[r] = asks[r]
          /\ stage[r] = "resolving" => asks[r] \in excused'
  /\ excused \subseteq excused' /\ excused' \subseteq Keys
  /\ UNCHANGED shared

\* A response arrives or goes away without a flight.
Fill ==
  /\ shared \subseteq shared' /\ shared' \subseteq Keys
  /\ UNCHANGED <<stage, asks, excused>>

Lose(k) ==
  /\ shared' = shared \ {k}
  /\ excused' = excused \cup {k}
  /\ UNCHANGED <<stage, asks>>

Trouble(k) ==
  /\ excused' = excused \cup {k}
  /\ UNCHANGED <<stage, asks, shared>>

Next ==
  \/ \E r \in Requests, k \in Keys : Serve(r, k) \/ Lead(r, k) \/ Follow(r, k)
  \/ \E r \in Requests : Collapse(r) \/ GoAlone(r) \/ Share(r)
  \/ Barren \/ Fill
  \/ \E k \in Keys : Lose(k) \/ Trouble(k)

Spec == Init /\ [][Next]_vars

\* The promise in a nutshell: at most one request calls upstream for a key that
\* nothing excuses.
OneCall ==
  \A k \in Keys \ excused : \A r, s \in Calling(k) : r = s
=============================================================================
