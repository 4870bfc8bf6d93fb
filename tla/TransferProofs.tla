--------------------------- MODULE TransferProofs ---------------------------
(***************************************************************************)
(* The resolution of share links, for any number of calls, accounts and    *)
(* shares: transfers carry the tokens of the session they are sent in,     *)
(* nothing is copied twice, and links lead to the files that were asked    *)
(* for, unless the history names what went wrong.                          *)
(***************************************************************************)
EXTENDS Transfer, SequenceTheorems, FiniteSetTheorems, WellFoundedInduction, TLAPS

Fields == DOMAIN New

\* Every call is a record of these fields.
Shape ==
  /\ DOMAIN res = Resolves /\ DOMAIN trouble = Resolves
  /\ \A r \in Resolves : DOMAIN res[r] = Fields

\* Nothing happened to the call that could take its tokens away.
Clean(r) == trouble[r] \intersect {"switch", "stomped", "fault"} = {}

\* Phases that the loop over the files goes through.
Looping == {"session", "prelist", "item", "transfer", "task", "pause", "again", "mkdir",
            "search", "stream", "recode"}

\* What a call that nothing happened to knows of the tokens.
Holds(m) ==
  /\ m.at \in {"refresh", "again"} => m.via.acct = session
  /\ m.at # "refresh" => js = session /\ bds = session
  /\ m.at \in Looping => m.bds = session
  /\ m.at = "transfer" => m.via.acct = session /\ m.via.js = session /\ m.tb = session

TokensLive == \A r \in Active : Clean(r) => Holds(res[r])

Base == Shape /\ TokensLive

-----------------------------------------------------------------------------
(* Records of calls *)

LEMMA FieldsAre ==
  Fields = {"at", "via", "bds", "tb", "sess", "known", "seen", "i", "k", "made", "left",
            "own", "out"}
BY DEF Fields, New

\* A call that goes on keeps its fields.
LEMMA DoneIs ==
  ASSUME NEW m, DOMAIN m = Fields, NEW x
  PROVE  /\ DOMAIN Done(m, x) = Fields
         /\ Done(m, x).at = "item" /\ Done(m, x).bds = m.bds
BY FieldsAre DEF Done

LEMMA EndedIs ==
  ASSUME NEW m, NEW phase, NEW out
  PROVE  DOMAIN Ended(m, phase, out) = Fields /\ Ended(m, phase, out).at = phase
BY FieldsAre DEF Ended, New

\* What happened to a call stays in its history, and others may add to it.
LEMMA NoteGrows ==
  ASSUME NEW r, NEW mine, NEW theirs, Note(r, mine, theirs)
  PROVE  /\ DOMAIN trouble' = Resolves
         /\ \A q \in Resolves : trouble[q] \subseteq trouble'[q]
         /\ r \in Resolves => mine \subseteq trouble'[r]
         /\ \A q \in Active : q # r => theirs \subseteq trouble'[q]
BY DEF Note, Active

\* Every call's history stays or grows.
Grows == /\ DOMAIN trouble' = Resolves
         /\ \A q \in Resolves : trouble[q] \subseteq trouble'[q]

LEMMA GrowsClean ==
  ASSUME Grows, NEW q \in Resolves, Clean(q)'
  PROVE  Clean(q)
BY DEF Grows, Clean

-----------------------------------------------------------------------------
(* Steps of a call *)

\* The others' histories stay or grow, and so does the call's own.
GrowsBut(r) == /\ DOMAIN trouble' = Resolves
               /\ \A q \in Resolves \ {r} : trouble[q] \subseteq trouble'[q]

\* A step of one call that leaves the session and the tokens alone.
LEMMA CallStep ==
  ASSUME Base, NEW r \in Resolves, NEW m, Become(r, m), DOMAIN m = Fields,
         UNCHANGED <<session, js, bds>>, GrowsBut(r),
         m.at \notin {"new", "gone"} /\ Clean(r)' => Holds(m)
  PROVE  Base'
<1>1. DOMAIN res = Resolves /\ \A q \in Resolves : DOMAIN res[q] = Fields
  BY DEF Base, Shape
<1>2. res'[r] = m /\ \A q \in Resolves \ {r} : res'[q] = res[q]
  BY <1>1 DEF Become
<1>3. DOMAIN res' = Resolves  BY <1>1 DEF Become
<1>4. Shape'
  BY <1>1, <1>2, <1>3 DEF Shape, GrowsBut
<1>5. ASSUME NEW q \in Resolves, res'[q].at \notin {"new", "gone"}, Clean(q)'
      PROVE  Holds(res[q])'
  <2>1. CASE q # r
    <3>1. res'[q] = res[q]  BY <1>2, <2>1
    <3>2. Clean(q)  BY <1>5, <2>1 DEF Clean, GrowsBut
    <3>3. Holds(res[q])  BY <1>5, <3>1, <3>2 DEF Base, TokensLive, Active
    <3> QED  BY <3>1, <3>3 DEF Holds
  <2>2. CASE q = r
    <3>1. Holds(m)  BY <1>2, <1>5, <2>2
    <3> QED  BY <1>2, <2>2, <3>1 DEF Holds
  <2> QED  BY <2>1, <2>2
<1> QED  BY <1>4, <1>5 DEF Base, TokensLive, Active

\* Phases that promise nothing new.
Plain == {"session", "prelist", "item", "task", "pause", "mkdir", "search", "stream",
          "recode", "metas", "locate", "over", "failed"}

\* The call is past its first refresh, and neither it nor the globals change
\* but for what a step says.
Under(r) == /\ res[r].at \notin {"new", "refresh", "gone"}
            /\ UNCHANGED <<session, js, bds>>
            /\ Grows

\* A call goes on to a plain phase, with the token it had.
LEMMA OnwardStep ==
  ASSUME Base, NEW r \in Resolves, NEW m, Under(r), Become(r, m), DOMAIN m = Fields,
         m.at \in Plain,
         m.at \in Looping => res[r].at \in Looping /\ m.bds = res[r].bds
  PROVE  Base'
<1>1. ASSUME Clean(r)'
      PROVE  Holds(m)
  <2>1. Clean(r)  BY <1>1 DEF Clean, Grows, Under
  <2>2. Holds(res[r])  BY <2>1 DEF Base, TokensLive, Active, Under
  <2> QED  BY <2>2 DEF Holds, Plain, Under
<1>2. UNCHANGED <<session, js, bds>> /\ GrowsBut(r)  BY DEF Grows, GrowsBut, Under
<1> QED  BY <1>1, <1>2, CallStep

LEMMA FileFailsStep ==
  ASSUME Base, NEW r \in Resolves, Under(r), res[r].at \in Looping,
         NEW error, FileFails(r, error)
  PROVE  Base'
<1> DEFINE m == Done(res[r], Result(Item(r), NoOwn, error))
<1>1. DOMAIN res[r] = Fields  BY DEF Base, Shape
<1>2. DOMAIN m = Fields /\ m.at = "item" /\ m.bds = res[r].bds  BY <1>1, DoneIs
<1>3. Become(r, m)  BY DEF FileFails
<1> HIDE DEF m
<1> QED  BY <1>2, <1>3, OnwardStep DEF Plain

LEMMA HaveStep ==
  ASSUME Base, NEW r \in Resolves, Under(r), res[r].at \in Looping,
         NEW f, NEW how, Have(r, f, how)
  PROVE  Base'
<1> DEFINE own == [id |-> f.id, name |-> f.name, copy |-> f.copy, how |-> how]
           m == [res[r] EXCEPT !.at = "stream", !.own = own, !.k = 1, !.tb = None,
                               !.made = FALSE, !.via = NoVia]
           n == Done(res[r], Result(Item(r), own, "none"))
<1>1. DOMAIN res[r] = Fields  BY DEF Base, Shape
<1>2. DOMAIN m = Fields /\ m.at = "stream" /\ m.bds = res[r].bds  BY <1>1, FieldsAre
<1>3. DOMAIN n = Fields /\ n.at = "item" /\ n.bds = res[r].bds  BY <1>1, DoneIs
<1>4. Become(r, m) \/ Become(r, n)  BY DEF Have
<1> HIDE DEF m, n
<1> QED  BY <1>2, <1>3, <1>4, OnwardStep DEF Plain

LEMMA SearchStep ==
  ASSUME Base, NEW r \in Resolves, Under(r), res[r].at \in Looping, Search(r)
  PROVE  Base'
<1> DEFINE m == [res[r] EXCEPT !.at = "search", !.k = 1, !.left = 0, !.tb = None,
                               !.made = FALSE, !.via = Cookies]
<1>1. DOMAIN res[r] = Fields  BY DEF Base, Shape
<1>2. DOMAIN m = Fields /\ m.at = "search" /\ m.bds = res[r].bds  BY <1>1, FieldsAre
<1>3. Become(r, m)  BY DEF Search
<1> HIDE DEF m
<1> QED  BY <1>2, <1>3, OnwardStep DEF Plain

LEMMA EndedStep ==
  ASSUME Base, NEW r \in Resolves, Under(r), NEW out, NEW phase \in {"over", "failed"},
         Become(r, Ended(res[r], phase, out))
  PROVE  Base'
<1> DEFINE m == Ended(res[r], phase, out)
<1>1. DOMAIN m = Fields /\ m.at = phase  BY EndedIs
<1>2. Become(r, m)  OBVIOUS
<1> HIDE DEF m
<1> QED  BY <1>1, <1>2, OnwardStep DEF Plain, Looping
-----------------------------------------------------------------------------
(* The actions *)

LEMMA GrowsAll ==
  ASSUME Base
  PROVE  /\ UNCHANGED trouble => Grows
         /\ Answers => Grows
         /\ Calm => Grows /\ UNCHANGED <<session, js, bds>>
         /\ \A r, mine, theirs : Note(r, mine, theirs) => Grows
         /\ \A r, free : Fails(r, free) => Grows
         /\ UNCHANGED globals => UNCHANGED <<session, js, bds>>
<1>1. UNCHANGED trouble => Grows  BY DEF Base, Shape, Grows
<1>2. ASSUME NEW r, NEW mine, NEW theirs, Note(r, mine, theirs)
      PROVE  Grows
  BY <1>2, NoteGrows DEF Grows
<1> QED  BY <1>1, <1>2 DEF Answers, Calm, Fails, globals

LEMMA StartStep ==
  ASSUME Base, NEW r \in Resolves, Start(r)
  PROVE  Base'
<1> DEFINE m == [New EXCEPT !.at = "refresh", !.via = Cookies]
<1>1. DOMAIN m = Fields /\ m.at = "refresh" /\ m.via.acct = session
  BY FieldsAre DEF New, Cookies, NoVia, Fields
<1>2. Become(r, m) /\ UNCHANGED <<session, js, bds>>  BY DEF Start, globals
<1>3. GrowsBut(r)  BY GrowsAll DEF Start, Grows, GrowsBut
<1> HIDE DEF m
<1>4. Holds(m)  BY <1>1 DEF Holds, Looping
<1> QED  BY <1>1, <1>2, <1>3, <1>4, CallStep

\* A call that gives up has had a fault.
LEMMA GiveUpStep ==
  ASSUME Base, NEW r \in Resolves, GiveUp(r)
  PROVE  Base'
<1> DEFINE m == Ended(res[r], "failed", <<>>)
<1>1. DOMAIN m = Fields /\ m.at = "failed"  BY EndedIs
<1>2. Become(r, m) /\ UNCHANGED <<session, js, bds>>  BY DEF GiveUp, globals
<1>3. Note(r, {"fault"}, {})  BY DEF GiveUp, Fails
<1>4. GrowsBut(r) /\ ~Clean(r)'  BY <1>3, NoteGrows DEF GrowsBut, Clean
<1> HIDE DEF m
<1> QED  BY <1>1, <1>2, <1>4, CallStep

\* A refresh answers a call: its account's tokens are the globals.
LEMMA RefreshStep ==
  ASSUME Base, NEW r \in Resolves, Refresh(r), NEW m, Become(r, m), DOMAIN m = Fields,
         res[r].at \in {"refresh", "again"},
         m.at \notin {"new", "gone", "refresh", "again"},
         m.at \in Looping => m.bds = res[r].via.acct \/ (m.bds = res[r].bds /\ res[r].at = "again"),
         m.at = "transfer" => m.via.acct = session' /\ m.via.js = js' /\ m.tb = bds'
  PROVE  Base'
<1> DEFINE a == res[r].via.acct
<1>1. PICK whole \in BOOLEAN :
         /\ bds' = a /\ js' = (IF whole THEN a ELSE js) /\ session' = session
         /\ Note(r, IF whole THEN {} ELSE {"fault"}, IF a = session THEN {} ELSE {"stomped"})
  BY DEF Refresh
<1>2. /\ DOMAIN trouble' = Resolves
      /\ \A q \in Resolves : trouble[q] \subseteq trouble'[q]
      /\ ~whole => "fault" \in trouble'[r]
      /\ \A q \in Active : q # r /\ a # session => "stomped" \in trouble'[q]
  BY <1>1, NoteGrows
<1>3. DOMAIN res = Resolves /\ \A q \in Resolves : DOMAIN res[q] = Fields
  BY DEF Base, Shape
<1>4. /\ DOMAIN res' = Resolves
      /\ res'[r] = m /\ \A q \in Resolves \ {r} : res'[q] = res[q]
  BY <1>3 DEF Become
<1>5. Shape'  BY <1>2, <1>3, <1>4 DEF Shape
<1> HIDE DEF a
<1>6. ASSUME NEW q \in Resolves, q # r, res'[q].at \notin {"new", "gone"}, Clean(q)'
      PROVE  Holds(res[q])'
  <2>1. res'[q] = res[q] /\ q \in Active  BY <1>4, <1>6 DEF Active
  <2>2. a = session  BY <1>2, <1>6, <2>1 DEF Clean
  <2>3. Clean(q)  BY <1>2, <1>6 DEF Clean
  <2>4. Holds(res[q])  BY <2>1, <2>3 DEF Base, TokensLive
  <2> QED  BY <1>1, <2>1, <2>2, <2>4 DEF Holds
<1>7. ASSUME Clean(r)'
      PROVE  Holds(res[r])'
  <2>1. whole /\ Clean(r)  BY <1>2, <1>7 DEF Clean
  <2>2. Holds(res[r])  BY <2>1 DEF Base, TokensLive, Active
  <2>3. a = session  BY <2>2 DEF Holds, a
  <2>4. res[r].at = "again" => res[r].bds = session  BY <2>2 DEF Holds, Looping
  <2>5. m.at \in Looping => m.bds = session  BY <2>3, <2>4 DEF a
  <2>6. session' = session /\ js' = session /\ bds' = session  BY <1>1, <2>1, <2>3
  <2> QED  BY <1>4, <2>5, <2>6 DEF Holds
<1> QED  BY <1>4, <1>5, <1>6, <1>7 DEF Base, TokensLive, Active

LEMMA RefreshedStep ==
  ASSUME Base, NEW r \in Resolves, Refreshed(r)
  PROVE  Base'
<1>1. CASE GiveUp(r)  BY <1>1, GiveUpStep
<1>2. CASE /\ Refresh(r)
           /\ Become(r, [res[r] EXCEPT !.at = "session", !.via = NoVia,
                                       !.bds = res[r].via.acct])
  <2> DEFINE m == [res[r] EXCEPT !.at = "session", !.via = NoVia, !.bds = res[r].via.acct]
  <2>1. DOMAIN res[r] = Fields  BY DEF Base, Shape
  <2>2. DOMAIN m = Fields /\ m.at = "session" /\ m.bds = res[r].via.acct
    BY <2>1, FieldsAre
  <2>3. Become(r, m) /\ res[r].at = "refresh"  BY <1>2 DEF Refreshed, At
  <2> HIDE DEF m
  <2> QED  BY <1>2, <2>2, <2>3, RefreshStep
<1> QED  BY <1>1, <1>2 DEF Refreshed

LEMMA AgainStep ==
  ASSUME Base, NEW r \in Resolves, Again(r)
  PROVE  Base'
<1>0. res[r].at = "again"  BY DEF Again, At
<1>1. CASE Fails(r, FALSE) /\ FileFails(r, "transfer") /\ UNCHANGED globals
  <2>1. Under(r) /\ res[r].at \in Looping  BY <1>0, <1>1, GrowsAll DEF Under, Looping
  <2> QED  BY <1>1, <2>1, FileFailsStep
<1>2. CASE /\ Refresh(r)
           /\ Become(r, [res[r] EXCEPT !.at = "transfer", !.k = @ + 1, !.tb = bds', !.via = Via'])
  <2>1. PICK m : m = [res[r] EXCEPT !.at = "transfer", !.k = @ + 1, !.tb = bds', !.via = Via']
    OBVIOUS
  <2>2. DOMAIN res[r] = Fields  BY DEF Base, Shape
  <2>3. /\ DOMAIN m = Fields /\ m.at = "transfer" /\ m.bds = res[r].bds
        /\ m.tb = bds' /\ m.via = Via'
    BY <2>1, <2>2, FieldsAre
  <2>4. m.via.acct = session' /\ m.via.js = js'  BY <2>3 DEF Via
  <2>5. Become(r, m)  BY <1>2, <2>1 DEF Become
  <2> QED  BY <1>0, <1>2, <2>3, <2>4, <2>5, RefreshStep
<1>3. CASE Refresh(r) /\ FileFails(r, "refused")
  <2> DEFINE m == Done(res[r], Result(Item(r), NoOwn, "refused"))
  <2>1. DOMAIN res[r] = Fields  BY DEF Base, Shape
  <2>2. DOMAIN m = Fields /\ m.at = "item" /\ m.bds = res[r].bds  BY <2>1, DoneIs
  <2>3. Become(r, m)  BY <1>3 DEF FileFails
  <2> HIDE DEF m
  <2> QED  BY <1>0, <1>3, <2>2, <2>3, RefreshStep
<1> QED  BY <1>1, <1>2, <1>3 DEF Again

\* The requests before the loop.
LEMMA OpeningStep ==
  ASSUME Base, NEW r \in Resolves, SessionOpened(r) \/ PreListed(r)
  PROVE  Base'
<1>1. DOMAIN res[r] = Fields  BY DEF Base, Shape
<1>2. CASE SessionOpened(r) /\ ~GiveUp(r)
  <2>1. res[r].at = "session"  BY <1>2 DEF SessionOpened, At
  <2>2. PICK got \in BOOLEAN :
          /\ Fails(r, got)
          /\ UNCHANGED <<session, js, bds>>
          /\ Become(r, IF Action[r] = "l" THEN Ended(res[r], "over", Listing(r))
                       ELSE [res[r] EXCEPT !.at = "prelist", !.via = Cookies,
                                           !.sess = IF got THEN ShareOf[r] ELSE None])
    BY <1>2 DEF SessionOpened
  <2>3. Under(r)  BY <2>1, <2>2, GrowsAll DEF Under
  <2>4. CASE Action[r] = "l"
    <3>1. Become(r, Ended(res[r], "over", Listing(r)))  BY <2>2, <2>4
    <3> QED  BY <2>3, <3>1, EndedStep
  <2>5. CASE Action[r] # "l"
    <3> DEFINE m == [res[r] EXCEPT !.at = "prelist", !.via = Cookies,
                                   !.sess = IF got THEN ShareOf[r] ELSE None]
    <3>1. DOMAIN m = Fields /\ m.at = "prelist" /\ m.bds = res[r].bds  BY <1>1, FieldsAre
    <3>2. Become(r, m)  BY <2>2, <2>5
    <3> HIDE DEF m
    <3> QED  BY <2>1, <2>3, <3>1, <3>2, OnwardStep DEF Plain, Looping
  <2> QED  BY <2>4, <2>5
<1>3. CASE PreListed(r)
  <2>1. res[r].at = "prelist"  BY <1>3 DEF PreListed, At
  <2>2. Under(r)  BY <1>3, <2>1, GrowsAll DEF PreListed, Under
  <2>3. PICK known, seen :
          \/ Become(r, [res[r] EXCEPT !.at = "item", !.known = known, !.seen = seen])
          \/ Become(r, [res[r] EXCEPT !.at = "item", !.seen = seen])
    BY <1>3 DEF PreListed
  <2> DEFINE m == [res[r] EXCEPT !.at = "item", !.known = known, !.seen = seen]
             n == [res[r] EXCEPT !.at = "item", !.seen = seen]
  <2>4. /\ DOMAIN m = Fields /\ m.at = "item" /\ m.bds = res[r].bds
        /\ DOMAIN n = Fields /\ n.at = "item" /\ n.bds = res[r].bds
    BY <1>1, FieldsAre
  <2>5. Become(r, m) \/ Become(r, n)  BY <2>3
  <2> HIDE DEF m, n
  <2> QED  BY <2>1, <2>2, <2>4, <2>5, OnwardStep DEF Plain, Looping
<1> QED  BY <1>2, <1>3, GiveUpStep

\* A file of the share is taken up.
LEMMA TakeStep ==
  ASSUME Base, NEW r \in Resolves, TakeFolder(r) \/ TakeKnown(r) \/ TakeNew(r)
  PROVE  Base'
<1>1. res[r].at = "item"  BY DEF TakeFolder, TakeKnown, TakeNew, At
<1>2. Under(r)  BY <1>1, GrowsAll DEF TakeFolder, TakeKnown, TakeNew, Under
<1>3. CASE TakeFolder(r)
  BY <1>1, <1>2, <1>3, FileFailsStep DEF TakeFolder, Looping
<1>4. CASE TakeKnown(r)
  BY <1>1, <1>2, <1>4, HaveStep DEF TakeKnown, Looping
<1>5. CASE TakeNew(r)
  <2> DEFINE m == [res[r] EXCEPT !.at = "transfer", !.tb = res[r].bds, !.via = Via]
  <2>1. DOMAIN res[r] = Fields  BY DEF Base, Shape
  <2>2. /\ DOMAIN m = Fields /\ m.at = "transfer" /\ m.bds = res[r].bds
        /\ m.tb = res[r].bds /\ m.via.acct = session /\ m.via.js = js
    BY <2>1, FieldsAre DEF Via
  <2>3. Become(r, m)  BY <1>5 DEF TakeNew
  <2> HIDE DEF m
  <2>4. ASSUME Clean(r)'
        PROVE  Holds(m)
    <3>1. Clean(r)  BY <1>2, <2>4 DEF Clean, Under, Grows
    <3>2. Holds(res[r])  BY <1>1, <3>1 DEF Base, TokensLive, Active
    <3> QED  BY <1>1, <2>2, <3>2 DEF Holds, Looping
  <2>5. UNCHANGED <<session, js, bds>> /\ GrowsBut(r)
    BY <1>2 DEF Under, Grows, GrowsBut
  <2> QED  BY <2>2, <2>3, <2>4, <2>5, CallStep
<1> QED  BY <1>3, <1>4, <1>5
\* The answers to a transfer.
LEMMA TransferStep ==
  ASSUME Base, NEW r \in Resolves,
         \/ Copied(r) \/ Queued(r) \/ Claimed(r) \/ NoRoot(r) \/ Refused(r) \/ Disrupted(r)
  PROVE  Base'
<1>1. res[r].at = "transfer" /\ res[r].at \in Looping
  BY DEF Copied, Queued, Claimed, NoRoot, Refused, Disrupted, At, Looping
<1>2. Under(r)
  BY <1>1, GrowsAll DEF Copied, Queued, Claimed, NoRoot, Refused, Disrupted, Under
<1>3. DOMAIN res[r] = Fields  BY DEF Base, Shape
<1>4. CASE Copied(r)
  <2>1. (\E f : Have(r, f, "named")) \/ Search(r)  BY <1>4 DEF Copied
  <2> QED  BY <1>1, <1>2, <2>1, HaveStep, SearchStep
<1>5. CASE Queued(r)
  <2> DEFINE m == [res[r] EXCEPT !.at = "task", !.left = Polls, !.k = 1, !.tb = None,
                                 !.made = FALSE, !.via = NoVia]
  <2>1. DOMAIN m = Fields /\ m.at = "task" /\ m.bds = res[r].bds  BY <1>3, FieldsAre
  <2>2. Become(r, m)  BY <1>5 DEF Queued
  <2> HIDE DEF m
  <2> QED  BY <1>1, <1>2, <2>1, <2>2, OnwardStep DEF Plain
<1>6. CASE Claimed(r)  BY <1>1, <1>2, <1>6, SearchStep DEF Claimed
<1>7. CASE NoRoot(r)
  <2> DEFINE m == [res[r] EXCEPT !.at = "mkdir", !.via = Cookies]
  <2>1. DOMAIN m = Fields /\ m.at = "mkdir" /\ m.bds = res[r].bds  BY <1>3, FieldsAre
  <2>2. FileFails(r, "transfer") \/ Become(r, m)  BY <1>7 DEF NoRoot
  <2> HIDE DEF m
  <2> QED  BY <1>1, <1>2, <2>1, <2>2, OnwardStep, FileFailsStep DEF Plain
<1>8. CASE Refused(r)
  <2> DEFINE m == [res[r] EXCEPT !.at = "pause", !.via = NoVia]
  <2>1. DOMAIN m = Fields /\ m.at = "pause" /\ m.bds = res[r].bds  BY <1>3, FieldsAre
  <2>2. Become(r, m)  BY <1>8 DEF Refused
  <2> HIDE DEF m
  <2> QED  BY <1>1, <1>2, <2>1, <2>2, OnwardStep DEF Plain
<1>9. CASE Disrupted(r)  BY <1>1, <1>2, <1>9, FileFailsStep DEF Disrupted
<1> QED  BY <1>4, <1>5, <1>6, <1>7, <1>8, <1>9

\* The pause before another profile, and a second transfer after the directory
\* was made.
LEMMA SecondStep ==
  ASSUME Base, NEW r \in Resolves, Resume(r) \/ RootMade(r)
  PROVE  Base'
<1>1. res[r].at \in {"pause", "mkdir"} /\ res[r].at \in Looping
  BY DEF Resume, RootMade, At, Looping
<1>2. Under(r)  BY <1>1, GrowsAll DEF Resume, RootMade, Under
<1>3. DOMAIN res[r] = Fields  BY DEF Base, Shape
<1>4. UNCHANGED <<session, js, bds>> /\ GrowsBut(r)  BY <1>2 DEF Under, Grows, GrowsBut
<1>5. Clean(r)' => Holds(res[r])
  <2>1. Clean(r)' => Clean(r)  BY <1>2 DEF Clean, Under, Grows
  <2> QED  BY <1>1, <2>1 DEF Base, TokensLive, Active
<1>6. CASE Resume(r)
  <2> DEFINE m == [res[r] EXCEPT !.at = "again", !.via = Cookies]
  <2>1. DOMAIN m = Fields /\ m.at = "again" /\ m.bds = res[r].bds /\ m.via.acct = session
    BY <1>3, FieldsAre DEF Cookies, NoVia
  <2>2. Become(r, m)  BY <1>6 DEF Resume
  <2> HIDE DEF m
  <2>3. Clean(r)' => Holds(m)  BY <1>1, <1>5, <2>1 DEF Holds
  <2> QED  BY <1>4, <2>1, <2>2, <2>3, CallStep
<1>7. CASE RootMade(r)
  <2> DEFINE m == [res[r] EXCEPT !.at = "transfer", !.k = 1, !.made = TRUE,
                                 !.tb = bds, !.via = Via]
  <2>1. /\ DOMAIN m = Fields /\ m.at = "transfer" /\ m.bds = res[r].bds
        /\ m.tb = bds /\ m.via.acct = session /\ m.via.js = js
    BY <1>3, FieldsAre DEF Via
  <2>2. FileFails(r, "transfer") \/ Become(r, m)  BY <1>7 DEF RootMade
  <2> HIDE DEF m
  <2>3. Clean(r)' => Holds(m)  BY <1>1, <1>5, <2>1 DEF Holds
  <2> QED  BY <1>1, <1>2, <1>4, <2>1, <2>2, <2>3, CallStep, FileFailsStep
<1> QED  BY <1>6, <1>7

\* The wait for a copy and the search for it.
LEMMA WaitStep ==
  ASSUME Base, NEW r \in Resolves, Poll(r) \/ Searched(r)
  PROVE  Base'
<1>1. res[r].at \in {"task", "search"} /\ res[r].at \in Looping
  BY DEF Poll, Searched, At, Looping
<1>2. Under(r)  BY <1>1, GrowsAll DEF Poll, Searched, Under
<1>3. CASE Poll(r)
  <2> DEFINE m == [res[r] EXCEPT !.left = @ - 1]
  <2>1. DOMAIN res[r] = Fields  BY DEF Base, Shape
  <2>2. DOMAIN m = Fields /\ m.at = "task" /\ m.bds = res[r].bds
    BY <1>3, <2>1, FieldsAre DEF Poll, At
  <2>3. Search(r) \/ Become(r, m) \/ FileFails(r, "transfer")  BY <1>3 DEF Poll
  <2> HIDE DEF m
  <2> QED  BY <1>1, <1>2, <2>2, <2>3, SearchStep, FileFailsStep, OnwardStep DEF Plain
<1>4. CASE Searched(r)
  <2>1. (\E f : Have(r, f, "search")) \/ FileFails(r, "lost")  BY <1>4 DEF Searched
  <2> QED  BY <1>1, <1>2, <2>1, HaveStep, FileFailsStep
<1> QED  BY <1>3, <1>4

\* The streams of a video.
LEMMA StreamStep ==
  ASSUME Base, NEW r \in Resolves, Scan(r) \/ Rescan(r)
  PROVE  Base'
<1>1. res[r].at \in {"stream", "recode"} /\ res[r].at \in Looping
  BY DEF Scan, Rescan, At, Looping
<1>2. Under(r)  BY <1>1, GrowsAll DEF Scan, Rescan, Under
<1>3. DOMAIN res[r] = Fields  BY DEF Base, Shape
<1>4. ASSUME NEW error, Stream(r, error)
      PROVE  Base'
  <2>1. PICK x : Become(r, Done(res[r], x))  BY <1>4 DEF Stream
  <2> DEFINE m == Done(res[r], x)
  <2>2. DOMAIN m = Fields /\ m.at = "item" /\ m.bds = res[r].bds  BY <1>3, DoneIs
  <2>3. Become(r, m)  BY <2>1
  <2> HIDE DEF m
  <2> QED  BY <1>1, <1>2, <2>2, <2>3, OnwardStep DEF Plain
<1>5. CASE Scan(r)
  <2> DEFINE m == [res[r] EXCEPT !.at = "recode", !.left = Rounds]
  <2>1. DOMAIN m = Fields /\ m.at = "recode" /\ m.bds = res[r].bds  BY <1>3, FieldsAre
  <2>2. (\E error : Stream(r, error)) \/ Become(r, m)  BY <1>5 DEF Scan
  <2> HIDE DEF m
  <2> QED  BY <1>1, <1>2, <1>4, <2>1, <2>2, OnwardStep DEF Plain
<1>6. CASE Rescan(r)
  <2> DEFINE m == [res[r] EXCEPT !.left = @ - 1]
  <2>1. DOMAIN m = Fields /\ m.at = "recode" /\ m.bds = res[r].bds
    BY <1>3, <1>6, FieldsAre DEF Rescan, At
  <2>2. (\E error : Stream(r, error)) \/ Become(r, m)  BY <1>6 DEF Rescan
  <2> HIDE DEF m
  <2> QED  BY <1>1, <1>2, <1>4, <2>1, <2>2, OnwardStep DEF Plain
<1> QED  BY <1>5, <1>6

\* The links.
LEMMA LinkStep ==
  ASSUME Base, NEW r \in Resolves, Finish(r) \/ Metas(r) \/ Locate(r)
  PROVE  Base'
<1>1. res[r].at \in {"item", "metas", "locate"}  BY DEF Finish, Metas, Locate, At
<1>2. Under(r)  BY <1>1, GrowsAll DEF Finish, Metas, Locate, Under
<1>3. DOMAIN res[r] = Fields  BY DEF Base, Shape
<1>4. CASE Finish(r)
  <2> DEFINE m == [res[r] EXCEPT !.at = "metas", !.via = Cookies, !.known = {},
                                 !.sess = None, !.bds = None]
  <2>1. DOMAIN m = Fields /\ m.at = "metas"  BY <1>3, FieldsAre
  <2>2. Become(r, Ended(res[r], "over", res[r].out)) \/ Become(r, m)  BY <1>4 DEF Finish
  <2> HIDE DEF m
  <2> QED  BY <1>2, <2>1, <2>2, EndedStep, OnwardStep DEF Plain, Looping
<1>5. CASE Metas(r)
  <2>1. PICK linked :
          \/ Become(r, Ended(res[r], "over", linked))
          \/ Become(r, [res[r] EXCEPT !.at = "locate", !.out = linked, !.via = Cookies])
    BY <1>5 DEF Metas
  <2> DEFINE m == [res[r] EXCEPT !.at = "locate", !.out = linked, !.via = Cookies]
  <2>2. DOMAIN m = Fields /\ m.at = "locate"  BY <1>3, FieldsAre
  <2>3. Become(r, Ended(res[r], "over", linked)) \/ Become(r, m)  BY <2>1
  <2> HIDE DEF m
  <2> QED  BY <1>2, <2>2, <2>3, EndedStep, OnwardStep DEF Plain, Looping
<1>6. CASE Locate(r)
  <2>1. PICK out : Become(r, Ended(res[r], "over", out))  BY <1>6 DEF Locate
  <2> QED  BY <1>2, <2>1, EndedStep
<1> QED  BY <1>4, <1>5, <1>6

LEMMA ReturnStep ==
  ASSUME Base, NEW r \in Resolves, Return(r)
  PROVE  Base'
<1> DEFINE m == [New EXCEPT !.at = "gone", !.seen = res[r].seen]
<1>1. DOMAIN m = Fields /\ m.at = "gone"  BY FieldsAre DEF New, Fields
<1>2. Become(r, m) /\ UNCHANGED <<session, js, bds>>  BY DEF Return, globals
<1>3. GrowsBut(r)
  <2>1. DOMAIN trouble = Resolves /\ trouble' = [trouble EXCEPT ![r] = {}]
    BY DEF Return, Base, Shape
  <2> QED  BY <2>1 DEF GrowsBut
<1> HIDE DEF m
<1> QED  BY <1>1, <1>2, <1>3, CallStep

-----------------------------------------------------------------------------
(* The worker and the service *)

\* A load of credentials is an excuse of every call on its way.
LEMMA LoadStep ==
  ASSUME Base, NEW a \in Accounts, Load(a)
  PROVE  Base'
<1>1. res' = res /\ DOMAIN trouble' = Resolves /\ \A q \in Active : "switch" \in trouble'[q]
  BY DEF Load, Active
<1>2. Shape'  BY <1>1 DEF Base, Shape
<1>3. \A q \in Active : ~Clean(q)'  BY <1>1 DEF Clean
<1> QED  BY <1>1, <1>2, <1>3 DEF Base, TokensLive, Active

LEMMA TaskStep ==
  ASSUME Base, NEW t \in tasks, TaskDone(t)
  PROVE  Base'
<1>1. UNCHANGED <<session, js, bds, res>> /\ Grows
  BY GrowsAll DEF TaskDone, globals
<1>2. Shape'  BY <1>1 DEF Base, Shape, Grows
<1>3. \A q \in Resolves : Clean(q)' => Clean(q)  BY <1>1 DEF Clean, Grows
<1> QED  BY <1>1, <1>2, <1>3 DEF Base, TokensLive, Active, Holds

LEMMA BaseInit ==
  ASSUME Init
  PROVE  Base
<1>1. \A r \in Resolves : DOMAIN res[r] = Fields /\ res[r].at = "new"
  BY FieldsAre DEF Init, New, Fields
<1> QED  BY <1>1 DEF Init, Base, Shape, TokensLive, Active

LEMMA BaseNext ==
  ASSUME Base, [Next]_vars
  PROVE  Base'
<1>1. ASSUME NEW r \in Resolves, Start(r) \/ Step(r)
      PROVE  Base'
  BY <1>1, StartStep, RefreshedStep, OpeningStep, TakeStep, TransferStep, SecondStep,
     AgainStep, WaitStep, StreamStep, LinkStep, ReturnStep DEF Step
<1>2. CASE \E t \in tasks : TaskDone(t)  BY <1>2, TaskStep
<1>3. CASE \E a \in Accounts : Load(a)  BY <1>3, LoadStep
<1>4. CASE UNCHANGED vars
  BY <1>4 DEF vars, globals, Base, Shape, TokensLive, Active, Clean, Holds
<1> QED  BY <1>1, <1>2, <1>3, <1>4 DEF Next

-----------------------------------------------------------------------------
(* What a step does to its call *)

Files(r) == FilesOf[ShareOf[r]]
Size(r) == Len(Files(r))

\* The call goes on to a phase with the file it is at.
Stays(r, phase) ==
  /\ res'[r].at = phase
  /\ res'[r].i = res[r].i /\ res'[r].out = res[r].out /\ res'[r].known = res[r].known
  /\ res'[r].seen = res[r].seen

\* It keeps its share session and its place in the profiles.
Keeps(r) == /\ res'[r].sess = res[r].sess
            /\ res'[r].k = res[r].k /\ res'[r].made = res[r].made

\* It starts over with the profiles.
Afresh(r) == res'[r].k = 1 /\ res'[r].made = FALSE

\* The call is done with a file, as x says, and goes on to the next one.
Moves(r, x) ==
  /\ res'[r].at = "item" /\ res'[r].i = res[r].i + 1 /\ res'[r].out = Append(res[r].out, x)
  /\ res'[r].known = res[r].known /\ res'[r].seen = res[r].seen
  /\ res'[r].sess = res[r].sess /\ Afresh(r)

\* It ends with an answer.
Ends(r, phase, out) ==
  /\ res'[r].at = phase /\ res'[r].i = 1 /\ res'[r].out = out /\ res'[r].known = {}
  /\ res'[r].seen = res[r].seen /\ Afresh(r)

\* No other call takes part.
Others(r) == \A q \in Resolves \ {r} : res'[q] = res[q]

\* What the call found in the account.
Own(f, how) == [id |-> f.id, name |-> f.name, copy |-> f.copy, how |-> how]

\* It has found its file, or looks for it.
Finds(r, f, how) ==
  \/ Moves(r, Result(Item(r), Own(f, how), "none"))
  \/ /\ Stays(r, "stream") /\ Afresh(r) /\ res'[r].sess = res[r].sess
     /\ res'[r].own = Own(f, how) /\ Action[r] = "s"
Seeks(r) == /\ Stays(r, "search") /\ Afresh(r) /\ res'[r].sess = res[r].sess
            /\ res'[r].via = Cookies

LEMMA BecomeIs ==
  ASSUME Shape, NEW r \in Resolves, NEW m, Become(r, m)
  PROVE  /\ DOMAIN res[r] = Fields
         /\ res'[r] = m /\ Others(r)
BY DEF Shape, Become, Others

LEMMA CookiesAre == Cookies.acct = session
BY DEF Cookies, NoVia

LEMMA DoneMoves ==
  ASSUME Shape, NEW r \in Resolves, NEW x, Become(r, Done(res[r], x))
  PROVE  Moves(r, x) /\ Others(r)
<1>1. res'[r] = Done(res[r], x) /\ Others(r) /\ DOMAIN res[r] = Fields  BY BecomeIs
<1> QED  BY <1>1, FieldsAre DEF Done, Moves, Afresh

LEMMA FileFailsIs ==
  ASSUME Shape, NEW r \in Resolves, NEW error, FileFails(r, error)
  PROVE  Moves(r, Result(Item(r), NoOwn, error)) /\ Others(r)
BY DoneMoves DEF FileFails

LEMMA HaveIs ==
  ASSUME Shape, NEW r \in Resolves, NEW f, NEW how, Have(r, f, how)
  PROVE  Finds(r, f, how) /\ Others(r)
<1>1. CASE Action[r] = "s" /\ Item(r).kind = "video"
  <2> DEFINE m == [res[r] EXCEPT !.at = "stream", !.own = Own(f, how), !.k = 1,
                                 !.tb = None, !.made = FALSE, !.via = NoVia]
  <2>1. Become(r, m)  BY <1>1 DEF Have, Own
  <2>2. res'[r] = m /\ Others(r) /\ DOMAIN res[r] = Fields  BY <2>1, BecomeIs
  <2> QED  BY <1>1, <2>2, FieldsAre DEF Finds, Stays, Afresh
<1>2. CASE ~(Action[r] = "s" /\ Item(r).kind = "video")
  <2>1. Become(r, Done(res[r], Result(Item(r), Own(f, how), "none")))
    BY <1>2 DEF Have, Own
  <2> QED  BY <2>1, DoneMoves DEF Finds
<1> QED  BY <1>1, <1>2

LEMMA SearchIs ==
  ASSUME Shape, NEW r \in Resolves, Search(r)
  PROVE  Seeks(r) /\ Others(r)
<1> DEFINE m == [res[r] EXCEPT !.at = "search", !.k = 1, !.left = 0, !.tb = None,
                               !.made = FALSE, !.via = Cookies]
<1>1. Become(r, m)  BY DEF Search
<1>2. res'[r] = m /\ Others(r) /\ DOMAIN res[r] = Fields  BY <1>1, BecomeIs
<1> QED  BY <1>2, FieldsAre DEF Seeks, Stays, Afresh

LEMMA EndedEnds ==
  ASSUME Shape, NEW r \in Resolves, NEW phase, NEW out, Become(r, Ended(res[r], phase, out))
  PROVE  Ends(r, phase, out) /\ Others(r)
<1>1. res'[r] = Ended(res[r], phase, out) /\ Others(r)  BY BecomeIs
<1> QED  BY <1>1, FieldsAre DEF Ended, Ends, Afresh, New

\* The call ends because an answer failed.
Surrenders(r) == /\ Ends(r, "failed", <<>>) /\ Others(r)
                 /\ Fails(r, FALSE) /\ UNCHANGED globals

LEMMA GiveUpIs ==
  ASSUME Shape, NEW r \in Resolves, GiveUp(r)
  PROVE  Surrenders(r)
BY EndedEnds DEF GiveUp, Surrenders

LEMMA StartIs ==
  ASSUME Shape, NEW r \in Resolves, Start(r)
  PROVE  /\ Others(r)
         /\ res'[r].at = "refresh" /\ res'[r].i = 1 /\ res'[r].out = <<>>
         /\ res'[r].known = {} /\ res'[r].seen = New.seen /\ res'[r].sess = None
         /\ Afresh(r) /\ res'[r].via.acct = session
<1> DEFINE m == [New EXCEPT !.at = "refresh", !.via = Cookies]
<1>1. Become(r, m)  BY DEF Start
<1>2. res'[r] = m /\ Others(r)  BY <1>1, BecomeIs
<1> QED  BY <1>2, CookiesAre DEF New, Afresh

LEMMA RefreshedIs ==
  ASSUME Shape, NEW r \in Resolves, Refreshed(r)
  PROVE  /\ res[r].at = "refresh" /\ Others(r) /\ UNCHANGED drive
         /\ \/ Surrenders(r)
            \/ Refresh(r) /\ Stays(r, "session") /\ Keeps(r)
<1>1. res[r].at = "refresh" /\ UNCHANGED drive  BY DEF Refreshed, At
<1>2. CASE GiveUp(r)  BY <1>1, <1>2, GiveUpIs DEF Surrenders
<1>3. CASE Refresh(r) /\ ~GiveUp(r)
  <2> DEFINE m == [res[r] EXCEPT !.at = "session", !.via = NoVia, !.bds = res[r].via.acct]
  <2>1. Become(r, m)  BY <1>3 DEF Refreshed
  <2>2. res'[r] = m /\ Others(r) /\ DOMAIN res[r] = Fields  BY <2>1, BecomeIs
  <2>3. Stays(r, "session") /\ Keeps(r)  BY <2>2, FieldsAre DEF Stays, Keeps
  <2> QED  BY <1>1, <1>3, <2>2, <2>3
<1> QED  BY <1>2, <1>3 DEF Refreshed

LEMMA SessionOpenedIs ==
  ASSUME Shape, NEW r \in Resolves, SessionOpened(r)
  PROVE  /\ res[r].at = "session" /\ Others(r) /\ UNCHANGED drive
         /\ \/ Surrenders(r)
            \/ \E got \in BOOLEAN :
                 /\ Fails(r, got)
                 /\ tsid' = IF got THEN ShareOf[r] ELSE tsid
                 /\ UNCHANGED <<session, js, bds>>
                 /\ \/ Action[r] = "l" /\ Ends(r, "over", Listing(r))
                    \/ /\ Action[r] # "l"
                       /\ Stays(r, "prelist") /\ res'[r].via = Cookies
                       /\ res'[r].k = res[r].k /\ res'[r].made = res[r].made
                       /\ res'[r].sess = IF got THEN ShareOf[r] ELSE None
<1>1. res[r].at = "session" /\ UNCHANGED drive  BY DEF SessionOpened, At
<1>2. CASE GiveUp(r)  BY <1>1, <1>2, GiveUpIs DEF Surrenders
<1>3. CASE ~GiveUp(r)
  <2>1. PICK got \in BOOLEAN :
          /\ Fails(r, got)
          /\ tsid' = IF got THEN ShareOf[r] ELSE tsid
          /\ UNCHANGED <<session, js, bds>>
          /\ Become(r, IF Action[r] = "l" THEN Ended(res[r], "over", Listing(r))
                       ELSE [res[r] EXCEPT !.at = "prelist", !.via = Cookies,
                                           !.sess = IF got THEN ShareOf[r] ELSE None])
    BY <1>3 DEF SessionOpened
  <2>2. CASE Action[r] = "l"
    <3>1. Become(r, Ended(res[r], "over", Listing(r)))  BY <2>1, <2>2
    <3> QED  BY <1>1, <2>1, <2>2, <3>1, EndedEnds
  <2>3. CASE Action[r] # "l"
    <3> DEFINE m == [res[r] EXCEPT !.at = "prelist", !.via = Cookies,
                                   !.sess = IF got THEN ShareOf[r] ELSE None]
    <3>1. Become(r, m)  BY <2>1, <2>3
    <3>2. res'[r] = m /\ Others(r) /\ DOMAIN res[r] = Fields  BY <3>1, BecomeIs
    <3>3. /\ Stays(r, "prelist") /\ res'[r].via = Cookies
          /\ res'[r].k = res[r].k /\ res'[r].made = res[r].made
          /\ res'[r].sess = IF got THEN ShareOf[r] ELSE None
      BY <3>2, FieldsAre DEF Stays
    <3> QED  BY <1>1, <2>1, <2>3, <3>2, <3>3
  <2> QED  BY <2>2, <2>3
<1> QED  BY <1>2, <1>3

LEMMA PreListedIs ==
  ASSUME Shape, NEW r \in Resolves, PreListed(r)
  PROVE  LET a    == res[r].via.acct
             page == Newest(dir[a], ListPage)
         IN /\ res[r].at = "prelist" /\ Others(r) /\ UNCHANGED <<globals, drive>>
            /\ res'[r].at = "item" /\ res'[r].i = res[r].i /\ res'[r].out = res[r].out
            /\ Keeps(r)
            /\ res'[r].seen.acct = a /\ res'[r].seen.upto = next
            /\ \/ /\ res'[r].known = page
                  /\ res'[r].seen.how = IF page = dir[a] THEN "whole" ELSE "cut"
                  /\ Answers
               \/ /\ res'[r].known = res[r].known /\ res'[r].seen.how = "failed"
                  /\ Fails(r, Spoilt(r))
<1> DEFINE a == res[r].via.acct
           page == Newest(dir[a], ListPage)
           Seen(how) == [acct |-> a, upto |-> next, how |-> how]
           full == Seen(IF page = dir[a] THEN "whole" ELSE "cut")
           m == [res[r] EXCEPT !.at = "item", !.known = page, !.seen = full]
           n == [res[r] EXCEPT !.at = "item", !.seen = Seen("failed")]
<1>1. \/ Become(r, m) /\ Answers
      \/ Become(r, n) /\ Fails(r, Spoilt(r))
  BY DEF PreListed
<1>2. res[r].at = "prelist" /\ UNCHANGED <<globals, drive>>  BY DEF PreListed, At
<1>3. CASE Become(r, m) /\ Answers
  <2>1. res'[r] = m /\ Others(r) /\ DOMAIN res[r] = Fields  BY <1>3, BecomeIs
  <2> QED  BY <1>2, <1>3, <2>1, FieldsAre DEF Keeps
<1>4. CASE Become(r, n) /\ Fails(r, Spoilt(r))
  <2>1. res'[r] = n /\ Others(r) /\ DOMAIN res[r] = Fields  BY <1>4, BecomeIs
  <2> QED  BY <1>2, <1>4, <2>1, FieldsAre DEF Keeps
<1> QED  BY <1>1, <1>3, <1>4

LEMMA TakeFolderIs ==
  ASSUME Shape, NEW r \in Resolves, TakeFolder(r)
  PROVE  /\ res[r].at = "item" /\ More(r) /\ Others(r) /\ Calm
         /\ Item(r).kind = "folder" /\ Moves(r, Result(Item(r), NoOwn, "folder"))
BY FileFailsIs DEF TakeFolder, At

LEMMA TakeKnownIs ==
  ASSUME Shape, NEW r \in Resolves, TakeKnown(r)
  PROVE  /\ res[r].at = "item" /\ More(r) /\ Others(r) /\ Calm
         /\ \E f \in Known(r) : Finds(r, f, "known")
<1>1. res[r].at = "item" /\ More(r) /\ Calm  BY DEF TakeKnown, At
<1>2. PICK f \in Known(r) : Have(r, f, "known")  BY DEF TakeKnown
<1> QED  BY <1>1, <1>2, HaveIs

LEMMA TakeNewIs ==
  ASSUME Shape, NEW r \in Resolves, TakeNew(r)
  PROVE  /\ res[r].at = "item" /\ More(r) /\ Others(r) /\ Calm
         /\ Known(r) = {} /\ Stays(r, "transfer") /\ Keeps(r) /\ res'[r].via = Via
<1> DEFINE m == [res[r] EXCEPT !.at = "transfer", !.tb = res[r].bds, !.via = Via]
<1>1. res[r].at = "item" /\ More(r) /\ Calm /\ Known(r) = {}  BY DEF TakeNew, At
<1>2. Become(r, m)  BY DEF TakeNew
<1>3. res'[r] = m /\ Others(r) /\ DOMAIN res[r] = Fields  BY <1>2, BecomeIs
<1> QED  BY <1>1, <1>3, FieldsAre DEF Stays, Keeps

\* The copy of the file that is asked for next.
Copy(r) == CopyOf(res[r].via.acct, Item(r), r)

LEMMA CopiedIs ==
  ASSUME Shape, NEW r \in Resolves, Copied(r)
  PROVE  /\ res[r].at = "transfer" /\ Others(r) /\ UNCHANGED <<globals, root, tasks, faults>>
         /\ Store(res[r].via.acct, Copy(r))
         /\ \/ Finds(r, Copy(r), "named") /\ UNCHANGED trouble
            \/ Seeks(r) /\ Note(r, Clash(Copy(r)), {})
<1>1. /\ res[r].at = "transfer" /\ UNCHANGED <<globals, root, tasks, faults>>
      /\ Store(res[r].via.acct, Copy(r))
  BY DEF Copied, At, Copy
<1>2. \/ Have(r, Copy(r), "named") /\ UNCHANGED trouble
      \/ Search(r) /\ Note(r, Clash(Copy(r)), {})
  BY DEF Copied, Copy
<1> QED  BY <1>1, <1>2, HaveIs, SearchIs

LEMMA QueuedIs ==
  ASSUME Shape, NEW r \in Resolves, Queued(r)
  PROVE  /\ res[r].at = "transfer" /\ Others(r) /\ UNCHANGED <<globals, dir, root, next>>
         /\ Answers
         /\ tasks' = tasks \union {[acct |-> res[r].via.acct, item |-> Item(r), by |-> r]}
         /\ Stays(r, "task") /\ Afresh(r) /\ res'[r].sess = res[r].sess
<1> DEFINE m == [res[r] EXCEPT !.at = "task", !.left = Polls, !.k = 1, !.tb = None,
                               !.made = FALSE, !.via = NoVia]
<1>1. Become(r, m)  BY DEF Queued
<1>2. res'[r] = m /\ Others(r) /\ DOMAIN res[r] = Fields  BY <1>1, BecomeIs
<1>3. Stays(r, "task") /\ Afresh(r) /\ res'[r].sess = res[r].sess
  BY <1>2, FieldsAre DEF Stays, Afresh
<1> QED  BY <1>2, <1>3 DEF Queued, At

LEMMA ClaimedIs ==
  ASSUME Shape, NEW r \in Resolves, Claimed(r)
  PROVE  /\ res[r].at = "transfer" /\ Others(r) /\ UNCHANGED <<globals, drive>>
         /\ Fails(r, FALSE) /\ Seeks(r)
BY SearchIs DEF Claimed, At

LEMMA NoRootIs ==
  ASSUME Shape, NEW r \in Resolves, NoRoot(r)
  PROVE  /\ res[r].at = "transfer" /\ Others(r) /\ Calm /\ ~Rooted(r)
         /\ \/ res[r].made /\ Moves(r, Result(Item(r), NoOwn, "transfer"))
            \/ /\ ~res[r].made
               /\ Stays(r, "mkdir") /\ Keeps(r) /\ res'[r].via = Cookies
<1>1. res[r].at = "transfer" /\ Calm /\ ~Rooted(r)  BY DEF NoRoot, At
<1>2. CASE res[r].made
  <2>1. FileFails(r, "transfer")  BY <1>2 DEF NoRoot
  <2> QED  BY <1>1, <1>2, <2>1, FileFailsIs
<1>3. CASE ~res[r].made
  <2> DEFINE m == [res[r] EXCEPT !.at = "mkdir", !.via = Cookies]
  <2>1. Become(r, m)  BY <1>3 DEF NoRoot
  <2>2. res'[r] = m /\ Others(r) /\ DOMAIN res[r] = Fields  BY <2>1, BecomeIs
  <2>3. Stays(r, "mkdir") /\ Keeps(r) /\ res'[r].via = Cookies
    BY <2>2, FieldsAre DEF Stays, Keeps
  <2> QED  BY <1>1, <1>3, <2>2, <2>3
<1> QED  BY <1>2, <1>3

LEMMA RefusedIs ==
  ASSUME Shape, NEW r \in Resolves, Refused(r)
  PROVE  /\ res[r].at = "transfer" /\ Others(r) /\ UNCHANGED <<globals, drive, faults>>
         /\ Note(r, IF res[r].k = Profiles /\ Accepted(r) THEN {"refused"} ELSE {}, {})
         /\ Stays(r, "pause") /\ Keeps(r)
<1> DEFINE m == [res[r] EXCEPT !.at = "pause", !.via = NoVia]
<1>1. Become(r, m)  BY DEF Refused
<1>2. res'[r] = m /\ Others(r) /\ DOMAIN res[r] = Fields  BY <1>1, BecomeIs
<1>3. Stays(r, "pause") /\ Keeps(r)  BY <1>2, FieldsAre DEF Stays, Keeps
<1> QED  BY <1>2, <1>3 DEF Refused, At

LEMMA DisruptedIs ==
  ASSUME Shape, NEW r \in Resolves, Disrupted(r)
  PROVE  /\ res[r].at = "transfer" /\ Others(r) /\ UNCHANGED <<globals, root, tasks>>
         /\ Store(res[r].via.acct, Copy(r)) \/ UNCHANGED <<dir, next>>
         /\ Fails(r, ~Accepted(r)) /\ Moves(r, Result(Item(r), NoOwn, "transfer"))
BY FileFailsIs DEF Disrupted, At, Copy

LEMMA ResumeIs ==
  ASSUME Shape, NEW r \in Resolves, Resume(r)
  PROVE  /\ res[r].at = "pause" /\ Others(r) /\ Calm
         /\ Stays(r, "again") /\ Keeps(r) /\ res'[r].via = Cookies
<1> DEFINE m == [res[r] EXCEPT !.at = "again", !.via = Cookies]
<1>1. Become(r, m)  BY DEF Resume
<1>2. res'[r] = m /\ Others(r) /\ DOMAIN res[r] = Fields  BY <1>1, BecomeIs
<1>3. Stays(r, "again") /\ Keeps(r) /\ res'[r].via = Cookies
  BY <1>2, FieldsAre DEF Stays, Keeps
<1> QED  BY <1>2, <1>3 DEF Resume, At

LEMMA AgainIs ==
  ASSUME Shape, NEW r \in Resolves, Again(r)
  PROVE  /\ res[r].at = "again" /\ Others(r) /\ UNCHANGED drive
         /\ \/ /\ Refresh(r) /\ Stays(r, "transfer")
               /\ res[r].k < Profiles /\ res'[r].k = res[r].k + 1
               /\ res'[r].made = res[r].made /\ res'[r].sess = res[r].sess
               /\ res'[r].via.acct = session' /\ res'[r].via.tsid = tsid'
            \/ /\ Refresh(r) /\ ~(res[r].k < Profiles)
               /\ Moves(r, Result(Item(r), NoOwn, "refused"))
            \/ /\ Fails(r, FALSE) /\ UNCHANGED globals
               /\ Moves(r, Result(Item(r), NoOwn, "transfer"))
<1>1. res[r].at = "again" /\ UNCHANGED drive  BY DEF Again, At
<1>2. CASE Fails(r, FALSE) /\ FileFails(r, "transfer") /\ UNCHANGED globals
  BY <1>1, <1>2, FileFailsIs
<1>3. CASE Refresh(r) /\ ~(res[r].k < Profiles) /\ FileFails(r, "refused")
  BY <1>1, <1>3, FileFailsIs
<1>4. CASE /\ Refresh(r) /\ res[r].k < Profiles
           /\ Become(r, [res[r] EXCEPT !.at = "transfer", !.k = @ + 1, !.tb = bds', !.via = Via'])
  <2>1. PICK m : m = [res[r] EXCEPT !.at = "transfer", !.k = @ + 1, !.tb = bds', !.via = Via']
    OBVIOUS
  <2>2. Become(r, m)  BY <1>4, <2>1 DEF Become
  <2>3. res'[r] = m /\ Others(r) /\ DOMAIN res[r] = Fields  BY <2>2, BecomeIs
  <2>4. m.via = Via' /\ m.k = res[r].k + 1 /\ m.made = res[r].made /\ m.sess = res[r].sess
    BY <2>1, <2>3, FieldsAre
  <2>5. Stays(r, "transfer")  BY <2>1, <2>3, FieldsAre DEF Stays
  <2>6. m.via.acct = session' /\ m.via.tsid = tsid'  BY <2>4 DEF Via
  <2> QED  BY <1>1, <1>4, <2>3, <2>4, <2>5, <2>6
<1> QED  BY <1>2, <1>3, <1>4 DEF Again

LEMMA PollIs ==
  ASSUME Shape, NEW r \in Resolves, Poll(r)
  PROVE  /\ res[r].at = "task" /\ Others(r) /\ UNCHANGED <<globals, dir, root, next>>
         /\ tasks' \subseteq tasks
         /\ \/ ~Running(r) /\ Seeks(r) /\ Answers /\ UNCHANGED tasks
            \/ /\ Stays(r, "task") /\ Keeps(r) /\ Answers /\ Running(r) /\ UNCHANGED tasks
            \/ /\ Note(r, {"fault"}, {}) /\ UNCHANGED faults
               /\ Moves(r, Result(Item(r), NoOwn, "transfer"))
            \/ /\ Fails(r, Spoilt(r))
               /\ Moves(r, Result(Item(r), NoOwn, "transfer"))
            \/ Fails(r, FALSE) /\ Seeks(r)
<1>1. res[r].at = "task" /\ UNCHANGED <<globals, dir, root, next>> /\ tasks' \subseteq tasks
  BY DEF Poll, At
<1>2. CASE Search(r) /\ ~Running(r) /\ Answers /\ UNCHANGED tasks
  BY <1>1, <1>2, SearchIs
<1>3. CASE FileFails(r, "transfer") /\ Note(r, {"fault"}, {}) /\ UNCHANGED faults
  BY <1>1, <1>3, FileFailsIs
<1>4. CASE FileFails(r, "transfer") /\ Fails(r, Spoilt(r))
  BY <1>1, <1>4, FileFailsIs
<1> DEFINE m == [res[r] EXCEPT !.left = @ - 1]
<1>5. CASE Become(r, m) /\ Answers /\ Running(r) /\ UNCHANGED tasks
  <2>1. res'[r] = m /\ Others(r) /\ DOMAIN res[r] = Fields  BY <1>5, BecomeIs
  <2>2. Stays(r, "task") /\ Keeps(r)  BY <1>1, <2>1, FieldsAre DEF Stays, Keeps
  <2> QED  BY <1>1, <1>5, <2>1, <2>2
<1>6. CASE Fails(r, FALSE) /\ Search(r)
  BY <1>1, <1>6, SearchIs
<1>7. \/ Search(r) /\ ~Running(r) /\ Answers /\ UNCHANGED tasks
      \/ Fails(r, FALSE) /\ Search(r)
      \/ FileFails(r, "transfer") /\ Note(r, {"fault"}, {}) /\ UNCHANGED faults
      \/ FileFails(r, "transfer") /\ Fails(r, Spoilt(r))
      \/ Become(r, m) /\ Answers /\ Running(r) /\ UNCHANGED tasks
  <2> HIDE DEF m
  <2> QED  BY DEF Poll, m
<1> QED  BY <1>2, <1>3, <1>4, <1>5, <1>6, <1>7

LEMMA RootMadeIs ==
  ASSUME Shape, NEW r \in Resolves, RootMade(r)
  PROVE  /\ res[r].at = "mkdir" /\ Others(r) /\ UNCHANGED <<globals, dir, tasks, next>>
         /\ \/ /\ root' = root \union {res[r].via.acct}
               /\ Stays(r, "transfer") /\ Answers
               /\ res'[r].k = 1 /\ res'[r].made = TRUE /\ res'[r].sess = res[r].sess
               /\ res'[r].via = Via
            \/ /\ Fails(r, Spoilt(r)) /\ UNCHANGED root
               /\ Moves(r, Result(Item(r), NoOwn, "transfer"))
<1>1. res[r].at = "mkdir" /\ UNCHANGED <<globals, dir, tasks, next>>  BY DEF RootMade, At
<1>2. CASE Fails(r, Spoilt(r)) /\ FileFails(r, "transfer") /\ UNCHANGED root
  BY <1>1, <1>2, FileFailsIs
<1>3. CASE ~(Fails(r, Spoilt(r)) /\ FileFails(r, "transfer") /\ UNCHANGED root)
  <2> DEFINE m == [res[r] EXCEPT !.at = "transfer", !.k = 1, !.made = TRUE,
                                 !.tb = bds, !.via = Via]
  <2>1. Become(r, m) /\ root' = root \union {res[r].via.acct} /\ Answers
    BY <1>3 DEF RootMade
  <2>2. res'[r] = m /\ Others(r) /\ DOMAIN res[r] = Fields  BY <2>1, BecomeIs
  <2>3. /\ Stays(r, "transfer")
        /\ res'[r].k = 1 /\ res'[r].made = TRUE /\ res'[r].sess = res[r].sess
        /\ res'[r].via = Via
    BY <2>2, FieldsAre DEF Stays
  <2> QED  BY <1>1, <2>1, <2>2, <2>3
<1> QED  BY <1>2, <1>3

\* What the search finds.
Like(r) == {f \in Newest(dir[res[r].via.acct], SearchPage) : Alike(f, Item(r).name)}

LEMMA SearchedIs ==
  ASSUME Shape, NEW r \in Resolves, Searched(r)
  PROVE  /\ res[r].at = "search" /\ Others(r) /\ UNCHANGED <<globals, drive>>
         /\ \/ /\ \E f \in Like(r) : (\A g \in Like(r) : g.id <= f.id) /\ Finds(r, f, "search")
               /\ Answers
            \/ Like(r) = {} /\ Answers /\ Moves(r, Result(Item(r), NoOwn, "lost"))
            \/ Fails(r, Spoilt(r)) /\ Moves(r, Result(Item(r), NoOwn, "lost"))
<1>1. res[r].at = "search" /\ UNCHANGED <<globals, drive>>  BY DEF Searched, At
<1>2. \/ /\ \E f \in Like(r) : (\A g \in Like(r) : g.id <= f.id) /\ Have(r, f, "search")
         /\ Answers
      \/ Like(r) = {} /\ Answers /\ FileFails(r, "lost")
      \/ Fails(r, Spoilt(r)) /\ FileFails(r, "lost")
  BY DEF Searched, Like
<1>3. CASE /\ \E f \in Like(r) : (\A g \in Like(r) : g.id <= f.id) /\ Have(r, f, "search")
           /\ Answers
  <2>1. PICK f \in Like(r) : (\A g \in Like(r) : g.id <= f.id) /\ Have(r, f, "search")
    BY <1>3
  <2>2. Finds(r, f, "search") /\ Others(r)  BY <2>1, HaveIs
  <2> QED  BY <1>1, <1>3, <2>1, <2>2
<1>4. CASE FileFails(r, "lost")
  BY <1>1, <1>2, <1>4, FileFailsIs, HaveIs
<1> QED  BY <1>1, <1>2, <1>3, <1>4, FileFailsIs

LEMMA ScanIs ==
  ASSUME Shape, NEW r \in Resolves, Scan(r) \/ Rescan(r)
  PROVE  /\ res[r].at \in {"stream", "recode"} /\ Others(r) /\ Calm
         /\ \/ /\ Stays(r, "recode") /\ Keeps(r) /\ res'[r].own = res[r].own
            \/ \E x : /\ Moves(r, x)
                      /\ x.item = Item(r) /\ x.own = res[r].own /\ x.link = None
                      /\ DOMAIN x = DOMAIN Result(Item(r), NoOwn, "none")
<1>1. res[r].at \in {"stream", "recode"} /\ Calm  BY DEF Scan, Rescan, At
<1>2. ASSUME NEW error, Stream(r, error)
      PROVE  /\ Others(r)
             /\ \E x : /\ Moves(r, x)
                       /\ x.item = Item(r) /\ x.own = res[r].own /\ x.link = None
                       /\ DOMAIN x = DOMAIN Result(Item(r), NoOwn, "none")
  <2> DEFINE x == [Result(Item(r), res[r].own, error) EXCEPT !.ready = error = "none"]
  <2>1. Become(r, Done(res[r], x))  BY <1>2 DEF Stream
  <2>2. Moves(r, x) /\ Others(r)  BY <2>1, DoneMoves
  <2>3. /\ x.item = Item(r) /\ x.own = res[r].own /\ x.link = None
        /\ DOMAIN x = DOMAIN Result(Item(r), NoOwn, "none")
    BY DEF Result
  <2> QED  BY <2>2, <2>3
<1>3. ASSUME NEW left, Become(r, [res[r] EXCEPT !.at = "recode", !.left = left])
      PROVE  Others(r) /\ Stays(r, "recode") /\ Keeps(r) /\ res'[r].own = res[r].own
  <2> DEFINE m == [res[r] EXCEPT !.at = "recode", !.left = left]
  <2>1. res'[r] = m /\ Others(r) /\ DOMAIN res[r] = Fields  BY <1>3, BecomeIs
  <2> QED  BY <2>1, FieldsAre DEF Stays, Keeps
<1>4. CASE Scan(r)
  <2>1. (\E error : Stream(r, error))
        \/ Become(r, [res[r] EXCEPT !.at = "recode", !.left = Rounds])
    BY <1>4 DEF Scan
  <2> QED  BY <1>1, <1>2, <1>3, <2>1
<1>5. CASE Rescan(r)
  <2>1. (\E error : Stream(r, error)) \/ Become(r, [res[r] EXCEPT !.left = @ - 1])
    BY <1>5 DEF Rescan
  <2>2. CASE \E error : Stream(r, error)  BY <1>1, <1>2, <2>2
  <2>3. CASE Become(r, [res[r] EXCEPT !.left = @ - 1])
    <3> DEFINE m == [res[r] EXCEPT !.left = @ - 1]
    <3>1. res[r].at = "recode"  BY <1>5 DEF Rescan, At
    <3>2. res'[r] = m /\ Others(r) /\ DOMAIN res[r] = Fields  BY <2>3, BecomeIs
    <3>3. Stays(r, "recode") /\ Keeps(r) /\ res'[r].own = res[r].own
      BY <3>1, <3>2, FieldsAre DEF Stays, Keeps
    <3> QED  BY <1>1, <3>2, <3>3
  <2> QED  BY <2>1, <2>2, <2>3
<1> QED  BY <1>4, <1>5

LEMMA FinishIs ==
  ASSUME Shape, NEW r \in Resolves, Finish(r)
  PROVE  /\ res[r].at = "item" /\ ~More(r) /\ Others(r) /\ Calm
         /\ \/ Good(res[r].out) = {} /\ Ends(r, "over", res[r].out)
            \/ /\ res'[r].at = "metas" /\ res'[r].i = res[r].i /\ res'[r].out = res[r].out
               /\ res'[r].known = {} /\ res'[r].seen = res[r].seen /\ res'[r].via = Cookies
               /\ res'[r].k = res[r].k /\ res'[r].made = res[r].made
<1>1. res[r].at = "item" /\ ~More(r) /\ Calm  BY DEF Finish, At
<1>2. CASE Good(res[r].out) = {}
  <2>1. Become(r, Ended(res[r], "over", res[r].out))  BY <1>2 DEF Finish
  <2> QED  BY <1>1, <1>2, <2>1, EndedEnds
<1>3. CASE Good(res[r].out) # {}
  <2> DEFINE m == [res[r] EXCEPT !.at = "metas", !.via = Cookies, !.known = {},
                                 !.sess = None, !.bds = None]
  <2>1. Become(r, m)  BY <1>3 DEF Finish
  <2>2. res'[r] = m /\ Others(r) /\ DOMAIN res[r] = Fields  BY <2>1, BecomeIs
  <2> QED  BY <1>1, <2>2, FieldsAre
<1> QED  BY <1>2, <1>3

\* The file of a result, by its id and by its path.
ById(r, x) == {f \in dir[res[r].via.acct] : f.id = x.own.id}
ByPath(r, x) == {f \in dir[res[r].via.acct] : f.name = x.own.name /\ f.copy = x.own.copy}
Linked(x, files) == [x EXCEPT !.link = Content(CHOOSE f \in files : TRUE)]

LEMMA MetasIs ==
  ASSUME Shape, NEW r \in Resolves, Metas(r)
  PROVE  /\ res[r].at = "metas" /\ Others(r) /\ UNCHANGED <<globals, drive>>
         /\ LET out   == res[r].out
                there == {i \in Good(out) : ById(r, out[i]) # {}}
            IN \E got \in SUBSET there :
                 LET linked == [i \in DOMAIN out |->
                                 IF i \in got THEN Linked(out[i], ById(r, out[i]))
                                 ELSE IF i \in Good(out) /\ Action[r] = "d"
                                 THEN [out[i] EXCEPT !.error = "nolink"] ELSE out[i]]
                 IN /\ Fails(r, got = there \/ Spoilt(r))
                    /\ \/ Ends(r, "over", linked) /\ Good(linked) = {}
                       \/ /\ res'[r].at = "locate" /\ res'[r].i = res[r].i
                          /\ res'[r].out = linked /\ res'[r].known = res[r].known
                          /\ res'[r].seen = res[r].seen /\ res'[r].via = Cookies /\ Keeps(r)
<1> DEFINE out == res[r].out
           there == {i \in Good(out) : ById(r, out[i]) # {}}
           Links(got) == [i \in DOMAIN out |->
                           IF i \in got THEN Linked(out[i], ById(r, out[i]))
                           ELSE IF i \in Good(out) /\ Action[r] = "d"
                           THEN [out[i] EXCEPT !.error = "nolink"] ELSE out[i]]
<1>1. res[r].at = "metas" /\ UNCHANGED <<globals, drive>>  BY DEF Metas, At
<1>2. PICK got \in SUBSET there :
        /\ Fails(r, got = there \/ Spoilt(r))
        /\ Become(r, IF Good(Links(got)) = {} THEN Ended(res[r], "over", Links(got))
                     ELSE [res[r] EXCEPT !.at = "locate", !.out = Links(got), !.via = Cookies])
  BY DEF Metas, ById, Linked
<1> DEFINE linked == Links(got)
<1> HIDE DEF Links
<1>3. CASE Good(linked) = {}
  <2>1. Become(r, Ended(res[r], "over", linked))  BY <1>2, <1>3
  <2>2. Ends(r, "over", linked) /\ Others(r)  BY <2>1, EndedEnds
  <2> QED  BY <1>1, <1>2, <1>3, <2>2 DEF Links
<1>4. CASE Good(linked) # {}
  <2> DEFINE m == [res[r] EXCEPT !.at = "locate", !.out = linked, !.via = Cookies]
  <2>1. Become(r, m)  BY <1>2, <1>4
  <2>2. res'[r] = m /\ Others(r) /\ DOMAIN res[r] = Fields  BY <2>1, BecomeIs
  <2>3. /\ res'[r].at = "locate" /\ res'[r].i = res[r].i
        /\ res'[r].out = linked /\ res'[r].known = res[r].known
        /\ res'[r].seen = res[r].seen /\ res'[r].via = Cookies /\ Keeps(r)
    BY <2>2, FieldsAre DEF Keeps
  <2> QED  BY <1>1, <1>2, <2>2, <2>3 DEF Links
<1> QED  BY <1>3, <1>4

LEMMA LocateIs ==
  ASSUME Shape, NEW r \in Resolves, Locate(r)
  PROVE  /\ res[r].at = "locate" /\ Others(r) /\ Calm
         /\ LET out == res[r].out
            IN \E got \in SUBSET {i \in Good(out) : ByPath(r, out[i]) # {}} :
                 Ends(r, "over", [i \in DOMAIN out |->
                                    IF i \in got THEN Linked(out[i], ByPath(r, out[i]))
                                    ELSE out[i]])
<1> DEFINE out == res[r].out
           Links(got) == [i \in DOMAIN out |->
                           IF i \in got THEN Linked(out[i], ByPath(r, out[i])) ELSE out[i]]
<1>1. res[r].at = "locate" /\ Calm  BY DEF Locate, At
<1>2. PICK got \in SUBSET {i \in Good(out) : ByPath(r, out[i]) # {}} :
        Become(r, Ended(res[r], "over", Links(got)))
  BY DEF Locate, ByPath, Linked
<1> HIDE DEF Links
<1>3. Ends(r, "over", Links(got)) /\ Others(r)  BY <1>2, EndedEnds
<1> QED  BY <1>1, <1>2, <1>3 DEF Links

LEMMA ReturnIs ==
  ASSUME Shape, NEW r \in Resolves, Return(r)
  PROVE  /\ res[r].at \in {"over", "failed"} /\ Others(r)
         /\ UNCHANGED <<globals, drive, faults>>
         /\ trouble' = [trouble EXCEPT ![r] = {}]
         /\ Ends(r, "gone", <<>>)
<1> DEFINE m == [New EXCEPT !.at = "gone", !.seen = res[r].seen]
<1>1. Become(r, m)  BY DEF Return
<1>2. res'[r] = m /\ Others(r)  BY <1>1, BecomeIs
<1>3. Ends(r, "gone", <<>>)  BY <1>2, FieldsAre DEF New, Ends, Afresh, Fields
<1> QED  BY <1>2, <1>3 DEF Return
-----------------------------------------------------------------------------
(* Sequences of results, and copies of files *)

\* A sequence, whatever it holds.
IsSeq(s) == s \in Seq({s[i] : i \in DOMAIN s})

LEMMA SeqIs ==
  ASSUME NEW s, IsSeq(s)
  PROVE  Len(s) \in Nat /\ DOMAIN s = 1..Len(s)
BY LenProperties DEF IsSeq

LEMMA EmptyIs == IsSeq(<<>>) /\ Len(<<>>) = 0 /\ DOMAIN <<>> = {}
<1>1. \A S : <<>> \in Seq(S) /\ Len(<<>>) = 0  BY EmptySeq
<1>2. IsSeq(<<>>)  BY <1>1 DEF IsSeq
<1>3. DOMAIN <<>> = 1..0  BY <1>1, <1>2, SeqIs
<1> QED  BY <1>1, <1>2, <1>3

LEMMA MapIs ==
  ASSUME NEW s, IsSeq(s), NEW t, t = [i \in DOMAIN s |-> t[i]]
  PROVE  IsSeq(t) /\ Len(t) = Len(s) /\ DOMAIN t = DOMAIN s
<1> DEFINE S == {t[i] : i \in DOMAIN t}
<1>1. Len(s) \in Nat /\ DOMAIN s = 1..Len(s)  BY SeqIs
<1>2. DOMAIN t = DOMAIN s  OBVIOUS
<1>3. t \in [1..Len(s) -> S]  BY <1>1, <1>2
<1>4. t \in Seq(S)
  <2> HIDE DEF S
  <2> QED  BY <1>1, <1>3, SeqDef
<1>5. IsSeq(t)  BY <1>4 DEF IsSeq
<1>6. 1..Len(t) = 1..Len(s) /\ Len(t) \in Nat  BY <1>1, <1>2, <1>5, SeqIs
<1>7. Len(t) = Len(s)  BY <1>1, <1>6
<1> QED  BY <1>2, <1>5, <1>7

LEMMA AppendIs ==
  ASSUME NEW s, IsSeq(s), NEW x
  PROVE  /\ IsSeq(Append(s, x)) /\ Len(Append(s, x)) = Len(s) + 1
         /\ \A i \in DOMAIN s : Append(s, x)[i] = s[i]
         /\ Append(s, x)[Len(s) + 1] = x
         /\ DOMAIN Append(s, x) = DOMAIN s \union {Len(s) + 1}
<1> DEFINE S == {s[i] : i \in DOMAIN s} \union {x}
           t == Append(s, x)
<1>1. Len(s) \in Nat /\ DOMAIN s = 1..Len(s)  BY SeqIs
<1>2. s \in Seq(S)  BY SeqMonotonic DEF IsSeq
<1>3. /\ t \in Seq(S) /\ Len(t) = Len(s) + 1
      /\ \A i \in 1..Len(s) : t[i] = s[i]
      /\ t[Len(s) + 1] = x
  <2> HIDE DEF S
  <2> QED  BY <1>2, AppendProperties DEF S
<1>4. DOMAIN t = 1..(Len(s) + 1) /\ t \in [1..(Len(s) + 1) -> S]
  <2> HIDE DEF S, t
  <2> QED  BY <1>3, LenProperties
<1>5. t = [i \in DOMAIN t |-> t[i]]  BY <1>4
<1>6. t \in [1..(Len(s) + 1) -> {t[i] : i \in DOMAIN t}]  BY <1>4, <1>5
<1>7. IsSeq(t)
  <2> DEFINE T == {t[i] : i \in DOMAIN t}
  <2>1. t \in [1..(Len(s) + 1) -> T]  BY <1>6
  <2>2. Len(s) + 1 \in Nat  BY <1>1
  <2> HIDE DEF T
  <2>3. t \in Seq(T)  BY <2>1, <2>2, SeqDef
  <2> QED  BY <2>3 DEF IsSeq, T
<1>8. DOMAIN t = DOMAIN s \union {Len(s) + 1}  BY <1>1, <1>4
<1> QED  BY <1>1, <1>3, <1>7, <1>8

Less == {p \in Nat \X Nat : p[1] < p[2]}

\* A set of numbers has a least one.
LEMMA Least ==
  ASSUME NEW T, T \subseteq Nat, T # {}
  PROVE  \E n \in T : \A m \in T : n <= m
<1>1. IsWellFoundedOn(Less, Nat)  BY NatLessThanWellFounded DEF OpToRel, Less
<1>2. PICK n \in T : \A m \in T : <<m, n>> \notin Less  BY <1>1, WFMin
<1>3. ASSUME NEW m \in T
      PROVE  n <= m
  <2>1. m \in Nat /\ n \in Nat  OBVIOUS
  <2>2. ~(m < n)  BY <1>2, <2>1 DEF Less
  <2> QED  BY <2>1, <2>2
<1> QED  BY <1>3

LEMMA Twice ==
  ASSUME NEW files, IsFiniteSet(files), NEW c \in Nat, c = Cardinality(files),
         NEW pick \in [0..c -> files]
  PROVE  \E x, y \in 0..c : x # y /\ pick[x] = pick[y]
<1> DEFINE D == 0..c
<1>1. IsFiniteSet(D) /\ Cardinality(D) = c + 1  BY FS_Interval
<1>2. Cardinality(files) < Cardinality(D)  BY <1>1
<1>3. pick \in [D -> files]  OBVIOUS
<1> HIDE DEF D
<1>4. \E x, y \in D : x # y /\ pick[x] = pick[y]  BY <1>1, <1>2, <1>3, FS_PigeonHole
<1> QED  BY <1>4 DEF D

\* The least number that no copy of that name has yet.
Unused(files, name, n) ==
  /\ \A f \in files : f.name = name => f.copy # n
  /\ \A m \in 0..(n - 1) : \E f \in files : f.name = name /\ f.copy = m

\* Among as many files there is a number that no copy of that name has yet.
LEMMA FreeNumber ==
  ASSUME NEW files, IsFiniteSet(files), NEW name
  PROVE  \E n \in 0..Cardinality(files) : Unused(files, name, n)
<1> DEFINE c == Cardinality(files)
           taken == {n \in 0..c : \E f \in files : f.name = name /\ f.copy = n}
           free == 0..c \ taken
<1>1. c \in Nat  BY FS_CardinalityType
<1>2. free # {}
  <2> SUFFICES ASSUME free = {}
               PROVE  FALSE
    OBVIOUS
  <2> DEFINE pick == [n \in 0..c |-> CHOOSE f \in files : f.name = name /\ f.copy = n]
  <2>1. pick \in [0..c -> files]  OBVIOUS
  <2>2. PICK x \in 0..c, y \in 0..c : x # y /\ pick[x] = pick[y]
    <3> HIDE DEF pick
    <3> QED  BY <1>1, <2>1, Twice
  <2>3. pick[x].copy = x /\ pick[y].copy = y  OBVIOUS
  <2> QED  BY <2>2, <2>3
<1>3. PICK n \in free : \A m \in free : n <= m
  <2>1. free \subseteq Nat  BY <1>1
  <2> HIDE DEF free
  <2> QED  BY <1>2, <2>1, Least
<1>4. ASSUME NEW m \in 0..(n - 1)
      PROVE  \E f \in files : f.name = name /\ f.copy = m
  <2>1. m \in 0..c /\ m < n  BY <1>1, <1>3
  <2>2. m \notin free  BY <1>1, <1>3, <2>1
  <2> QED  BY <2>1, <2>2
<1> QED  BY <1>3, <1>4 DEF Unused

\* A copy takes the next id and a number of its own.
LEMMA CopyOfIs ==
  ASSUME NEW a, IsFiniteSet(dir[a]), NEW item, NEW r
  PROVE  LET f == CopyOf(a, item, r)
         IN /\ f.id = next /\ f.name = item.name /\ f.size = item.size /\ f.by = r
            /\ \A g \in dir[a] : g.name = f.name => g.copy # f.copy
<1> DEFINE c == CHOOSE n \in 0..Cardinality(dir[a]) : Unused(dir[a], item.name, n)
<1>1. Unused(dir[a], item.name, c)
  <2>1. \E n \in 0..Cardinality(dir[a]) : Unused(dir[a], item.name, n)  BY FreeNumber
  <2> QED  BY <2>1
<1>2. CopyOf(a, item, r) = [id |-> next, name |-> item.name, size |-> item.size, by |-> r,
                            copy |-> c]
  BY DEF CopyOf, Unused
<1> HIDE DEF c
<1> QED  BY <1>1, <1>2 DEF Unused
-----------------------------------------------------------------------------
(* Types *)

Opening == {"new", "refresh", "session", "prelist"}
Held == {"transfer", "task", "pause", "again", "mkdir", "search", "stream", "recode"}
Asking == {"refresh", "prelist", "transfer", "again", "mkdir", "search", "metas", "locate"}
Linking == {"metas", "locate"}

Marks == DOMAIN Result(None, None, None)

\* A call is at one of its files, or before or behind them.
PlaceOK(r, m) ==
  /\ m.at \in Phases /\ m.i \in Nat \ {0}
  /\ m.at \in Opening => m.i = 1
  /\ m.at = "item" => m.i <= Size(r) + 1
  /\ m.at \in Held => m.i <= Size(r)
  /\ m.at \in Linking => m.i = Size(r) + 1

\* It has a result for each file it is done with.
OutOK(r, m) ==
  /\ IsSeq(m.out)
  /\ \A j \in DOMAIN m.out : DOMAIN m.out[j] = Marks
  /\ m.at \notin {"over", "failed", "gone"} => Len(m.out) = m.i - 1
  /\ m.at = "over" => Len(m.out) = Size(r)
  /\ m.at \in {"failed", "gone"} => Len(m.out) = 0

CallOK(r, m) ==
  /\ PlaceOK(r, m) /\ OutOK(r, m)
  /\ m.at \in Asking => m.via.acct \in Accounts
  /\ m.k \in 1..Profiles

CallsOK == \A r \in Resolves : CallOK(r, res[r])

WorldOK ==
  /\ session \in Accounts /\ js \in Accounts /\ bds \in Accounts
  /\ tsid \in DOMAIN FilesOf \union {None}
  /\ root \subseteq Accounts
  /\ faults \in 0..MaxFaults

\* The files of an account are told apart, and older than the next one.
DriveOK ==
  /\ next \in Nat \ {0}
  /\ DOMAIN dir = Accounts
  /\ \A a \in Accounts : /\ IsFiniteSet(dir[a]) /\ Apart(dir[a])
                         /\ \A f \in dir[a] : f.id \in 1..(next - 1)

\* A copy under way is of a file of the share that its call asks for.
TasksOK ==
  \A t \in tasks : /\ t.acct \in Accounts /\ t.by \in Resolves
                   /\ \E j \in 1..Size(t.by) : t.item = Files(t.by)[j]

Types == WorldOK /\ DriveOK /\ TasksOK /\ CallsOK

LEMMA SizeIs ==
  ASSUME NEW r \in Resolves
  PROVE  /\ ShareOf[r] \in DOMAIN FilesOf
         /\ IsSeq(Files(r)) /\ Size(r) \in Nat /\ DOMAIN Files(r) = 1..Size(r)
<1>1. ShareOf[r] \in DOMAIN FilesOf  BY TransferAssumption
<1>2. IsSeq(Files(r))  BY <1>1, TransferAssumption DEF IsSeq, Files
<1> QED  BY <1>1, <1>2, SeqIs DEF Size

LEMMA MoreIs ==
  ASSUME NEW r
  PROVE  More(r) <=> res[r].i <= Size(r)
BY DEF More, Size, Files

LEMMA MarksIs ==
  /\ Marks = {"item", "own", "error", "ready", "link"}
  /\ \A item, own, error : /\ DOMAIN Result(item, own, error) = Marks
                           /\ Result(item, own, error).item = item
                           /\ Result(item, own, error).own = own
                           /\ Result(item, own, error).error = error
                           /\ Result(item, own, error).link = None
BY DEF Marks, Result

LEMMA FaultBounds ==
  ASSUME NEW free, faults \in 0..MaxFaults, Fault(free)
  PROVE  faults' \in 0..MaxFaults
BY TransferAssumption DEF Fault

\* A call at one of its files moves on.
LEMMA MovesOK ==
  ASSUME NEW r \in Resolves, CallOK(r, res[r]), NEW x, DOMAIN x = Marks, Moves(r, x),
         res[r].at \in Held \/ (res[r].at = "item" /\ More(r))
  PROVE  CallOK(r, res'[r])
<1>1. res[r].i \in Nat \ {0} /\ res[r].i <= Size(r) /\ Size(r) \in Nat
  BY SizeIs, MoreIs DEF CallOK, PlaceOK
<1>2. PlaceOK(r, res'[r])  BY <1>1 DEF Moves, PlaceOK, Phases, Held, Opening, Linking
<1>3. /\ IsSeq(res[r].out) /\ Len(res[r].out) = res[r].i - 1
      /\ \A j \in DOMAIN res[r].out : DOMAIN res[r].out[j] = Marks
  BY DEF CallOK, OutOK, Held
<1>4. OutOK(r, res'[r])
  <2> DEFINE s == res[r].out
  <2>1. /\ IsSeq(Append(s, x)) /\ Len(Append(s, x)) = Len(s) + 1
        /\ \A j \in DOMAIN Append(s, x) : Append(s, x)[j] = x \/ (j \in DOMAIN s /\ Append(s, x)[j] = s[j])
    BY <1>3, AppendIs
  <2>2. res'[r].out = Append(s, x) /\ res'[r].i = res[r].i + 1 /\ res'[r].at = "item"
    BY DEF Moves
  <2>3. \A j \in DOMAIN Append(s, x) : DOMAIN Append(s, x)[j] = Marks  BY <1>3, <2>1
  <2>4. Len(Append(s, x)) = (res[r].i + 1) - 1  BY <1>1, <1>3, <2>1
  <2> QED  BY <2>1, <2>2, <2>3, <2>4 DEF OutOK
<1>5. res'[r].k \in 1..Profiles  BY TransferAssumption DEF Moves, Afresh
<1> QED  BY <1>2, <1>4, <1>5 DEF CallOK, Moves, Asking

\* A call stays with its file.
LEMMA StaysOK ==
  ASSUME NEW r \in Resolves, CallOK(r, res[r]), NEW phase \in Held, Stays(r, phase),
         res[r].at \in Held \/ (res[r].at = "item" /\ More(r)),
         phase \in Asking => res'[r].via.acct \in Accounts,
         res'[r].k \in 1..Profiles
  PROVE  CallOK(r, res'[r])
<1>1. res[r].i \in Nat \ {0} /\ res[r].i <= Size(r)
  BY MoreIs DEF CallOK, PlaceOK
<1>2. PlaceOK(r, res'[r])  BY <1>1 DEF Stays, PlaceOK, Phases, Held, Opening, Linking
<1>3. OutOK(r, res'[r])  BY DEF CallOK, OutOK, Held, Stays
<1> QED  BY <1>2, <1>3 DEF CallOK, Stays

LEMMA EndsOK ==
  ASSUME NEW r \in Resolves, NEW phase \in {"over", "failed", "gone"}, NEW out,
         Ends(r, phase, out), IsSeq(out), \A j \in DOMAIN out : DOMAIN out[j] = Marks,
         IF phase = "over" THEN Len(out) = Size(r) ELSE Len(out) = 0
  PROVE  CallOK(r, res'[r])
<1>1. PlaceOK(r, res'[r])  BY DEF Ends, PlaceOK, Phases, Held, Opening, Linking
<1>2. OutOK(r, res'[r])  BY DEF Ends, OutOK
<1>3. res'[r].k \in 1..Profiles  BY TransferAssumption DEF Ends, Afresh
<1> QED  BY <1>1, <1>2, <1>3 DEF CallOK, Ends, Asking

LEMMA FindsOK ==
  ASSUME NEW r \in Resolves, CallOK(r, res[r]), NEW f, NEW how, Finds(r, f, how),
         res[r].at \in Held \/ (res[r].at = "item" /\ More(r))
  PROVE  CallOK(r, res'[r])
<1>1. CASE Moves(r, Result(Item(r), Own(f, how), "none"))
  BY <1>1, MovesOK, MarksIs
<1>2. CASE Stays(r, "stream") /\ Afresh(r)
  <2>1. res'[r].k \in 1..Profiles  BY <1>2, TransferAssumption DEF Afresh
  <2> QED  BY <1>2, <2>1, StaysOK DEF Held, Asking
<1> QED  BY <1>1, <1>2 DEF Finds

LEMMA SeeksOK ==
  ASSUME WorldOK, NEW r \in Resolves, CallOK(r, res[r]), Seeks(r), res[r].at \in Held
  PROVE  CallOK(r, res'[r])
<1>1. res'[r].k \in 1..Profiles  BY TransferAssumption DEF Seeks, Afresh
<1>2. res'[r].via.acct \in Accounts  BY CookiesAre DEF Seeks, WorldOK
<1> QED  BY <1>1, <1>2, StaysOK DEF Seeks, Held

\* A step of one call.
LEMMA CallTyped ==
  ASSUME Types, NEW r \in Resolves, Others(r), CallOK(r, res'[r]),
         WorldOK', DriveOK', TasksOK'
  PROVE  Types'
<1>1. \A q \in Resolves : CallOK(q, res'[q])  BY DEF Types, CallsOK, Others
<1>2. CallsOK'  BY <1>1 DEF CallsOK, CallOK, PlaceOK, OutOK, Size, Files
<1> QED  BY <1>2 DEF Types

\* One that leaves the account's files alone.
LEMMA QuietTyped ==
  ASSUME Types, UNCHANGED <<dir, next>>, tasks' \subseteq tasks
  PROVE  DriveOK' /\ TasksOK'
BY DEF Types, DriveOK, TasksOK, Apart, Size, Files

\* A file is stored.
LEMMA StoreTyped ==
  ASSUME DriveOK, NEW a \in Accounts, NEW item, NEW r, Store(a, CopyOf(a, item, r))
  PROVE  DriveOK'
<1> DEFINE f == CopyOf(a, item, r)
<1>1. /\ f.id = next /\ \A g \in dir[a] : g.name = f.name => g.copy # f.copy
  BY CopyOfIs DEF DriveOK
<1>2. next \in Nat \ {0} /\ next' = next + 1 /\ dir' = [dir EXCEPT ![a] = dir[a] \union {f}]
  BY DEF DriveOK, Store
<1> HIDE DEF f
<1>3. DOMAIN dir' = Accounts  BY <1>2 DEF DriveOK
<1>4. ASSUME NEW b \in Accounts
      PROVE  /\ IsFiniteSet(dir'[b]) /\ Apart(dir'[b])
             /\ \A g \in dir'[b] : g.id \in 1..(next' - 1)
  <2>1. /\ IsFiniteSet(dir[b]) /\ Apart(dir[b])
        /\ \A g \in dir[b] : g.id \in 1..(next - 1)
    BY DEF DriveOK
  <2>2. CASE b # a
    <3>1. dir'[b] = dir[b]  BY <1>2, <2>2 DEF DriveOK
    <3>2. \A g \in dir[b] : g.id \in 1..(next' - 1)  BY <1>2, <2>1
    <3> QED  BY <2>1, <3>1, <3>2
  <2>3. CASE b = a
    <3>1. dir'[b] = dir[b] \union {f}  BY <1>2, <2>3 DEF DriveOK
    <3>2. IsFiniteSet(dir'[b])  BY <2>1, <3>1, FS_AddElement
    <3>3. \A g \in dir[b] : g.id # f.id  BY <1>1, <1>2, <2>1
    <3>4. Apart(dir'[b])  BY <1>1, <2>1, <2>3, <3>1, <3>3 DEF Apart
    <3>5. \A g \in dir'[b] : g.id \in 1..(next' - 1)  BY <1>1, <1>2, <2>1, <3>1
    <3> QED  BY <3>2, <3>4, <3>5
  <2> QED  BY <2>2, <2>3
<1>5. next' \in Nat \ {0}  BY <1>2
<1> QED  BY <1>3, <1>4, <1>5 DEF DriveOK, Apart

\* The answer of a refresh.
LEMMA RefreshWorld ==
  ASSUME WorldOK, NEW r, res[r].via.acct \in Accounts, Refresh(r), UNCHANGED drive
  PROVE  WorldOK' /\ session' = session
<1>1. PICK whole \in BOOLEAN :
         /\ bds' = res[r].via.acct
         /\ js' = (IF whole THEN res[r].via.acct ELSE js)
         /\ Fault(whole) /\ UNCHANGED <<session, tsid>>
  BY DEF Refresh
<1>2. faults' \in 0..MaxFaults  BY <1>1, FaultBounds DEF WorldOK
<1>3. root' = root  BY DEF drive
<1> QED  BY <1>1, <1>2, <1>3 DEF WorldOK

\* A failing answer, or a good one, that leaves the globals alone.
LEMMA PlainWorld ==
  ASSUME WorldOK, UNCHANGED globals, root' = root,
         \/ Answers
         \/ \E r, free : Fails(r, free)
         \/ UNCHANGED faults
  PROVE  WorldOK'
<1>1. faults' \in 0..MaxFaults  BY FaultBounds DEF WorldOK, Answers, Fails
<1> QED  BY <1>1 DEF WorldOK, globals

\* The requests before the loop.
LEMMA OpeningTyped ==
  ASSUME Shape, Types, NEW r \in Resolves,
         Start(r) \/ Refreshed(r) \/ SessionOpened(r) \/ PreListed(r)
  PROVE  Types'
<1>1. CallOK(r, res[r]) /\ WorldOK /\ Size(r) \in Nat  BY SizeIs DEF Types, CallsOK
<1>2. ASSUME Surrenders(r), UNCHANGED drive
      PROVE  Types'
  <2>1. CallOK(r, res'[r])  BY <1>2, EmptyIs, EndsOK DEF Surrenders
  <2>2. WorldOK'  BY <1>1, <1>2, PlainWorld DEF Surrenders, drive
  <2>3. DriveOK' /\ TasksOK'  BY <1>2, QuietTyped DEF drive
  <2> QED  BY <1>2, <2>1, <2>2, <2>3, CallTyped DEF Surrenders
<1>3. CASE Start(r)
  <2>1. /\ Others(r)
        /\ res'[r].at = "refresh" /\ res'[r].i = 1 /\ res'[r].out = <<>>
        /\ Afresh(r) /\ res'[r].via.acct = session
    BY <1>3, StartIs
  <2>2. UNCHANGED <<globals, drive, faults>>  BY <1>3 DEF Start
  <2>3. PlaceOK(r, res'[r])  BY <2>1, <1>1 DEF PlaceOK, Phases, Held, Opening, Linking
  <2>4. OutOK(r, res'[r])  BY <2>1, EmptyIs DEF OutOK
  <2>5. CallOK(r, res'[r])
    BY <1>1, <2>1, <2>3, <2>4, TransferAssumption DEF CallOK, WorldOK, Afresh
  <2>6. WorldOK'  BY <1>1, <2>2, PlainWorld DEF drive
  <2>7. DriveOK' /\ TasksOK'  BY <2>2, QuietTyped DEF drive
  <2> QED  BY <2>1, <2>5, <2>6, <2>7, CallTyped
<1>4. CASE Refreshed(r)
  <2>1. /\ res[r].at = "refresh" /\ Others(r) /\ UNCHANGED drive
        /\ Surrenders(r) \/ (Refresh(r) /\ Stays(r, "session") /\ Keeps(r))
    BY <1>4, RefreshedIs
  <2>2. CASE Refresh(r) /\ Stays(r, "session") /\ Keeps(r)
    <3>1. PlaceOK(r, res'[r])
      BY <1>1, <2>1, <2>2 DEF CallOK, Stays, PlaceOK, Phases, Held, Opening, Linking
    <3>2. OutOK(r, res'[r])  BY <1>1, <2>1, <2>2 DEF CallOK, OutOK, Stays
    <3>3. CallOK(r, res'[r])  BY <1>1, <2>2, <3>1, <3>2 DEF CallOK, Stays, Keeps, Asking
    <3>4. WorldOK'  BY <1>1, <2>1, <2>2, RefreshWorld DEF CallOK, Asking
    <3>5. DriveOK' /\ TasksOK'  BY <2>1, QuietTyped DEF drive
    <3> QED  BY <2>1, <3>3, <3>4, <3>5, CallTyped
  <2> QED  BY <1>2, <2>1, <2>2
<1>5. CASE SessionOpened(r) /\ ~Surrenders(r)
  <2>1. res[r].at = "session" /\ Others(r) /\ UNCHANGED drive  BY <1>5, SessionOpenedIs
  <2>2. PICK got \in BOOLEAN :
          /\ Fails(r, got)
          /\ tsid' = IF got THEN ShareOf[r] ELSE tsid
          /\ UNCHANGED <<session, js, bds>>
          /\ \/ Ends(r, "over", Listing(r))
             \/ /\ Stays(r, "prelist") /\ res'[r].via = Cookies
                /\ res'[r].k = res[r].k
    BY <1>5, SessionOpenedIs
  <2>3. DriveOK' /\ TasksOK'  BY <2>1, QuietTyped DEF drive
  <2>4. WorldOK'
    <3>1. faults' \in 0..MaxFaults  BY <1>1, <2>2, FaultBounds DEF WorldOK, Fails
    <3>2. tsid' \in DOMAIN FilesOf \union {None}  BY <1>1, <2>2, SizeIs DEF WorldOK
    <3> QED  BY <1>1, <2>1, <2>2, <3>1, <3>2 DEF WorldOK, drive
  <2>5. CASE Ends(r, "over", Listing(r))
    <3>1. Listing(r) = [i \in DOMAIN Files(r) |-> Listing(r)[i]]  BY DEF Listing, Files
    <3>2. /\ IsSeq(Listing(r)) /\ Len(Listing(r)) = Size(r)
          /\ DOMAIN Listing(r) = DOMAIN Files(r)
      <4> DEFINE t == Listing(r)
      <4>1. t = [i \in DOMAIN Files(r) |-> t[i]]  BY <3>1
      <4> HIDE DEF t
      <4> QED  BY <4>1, SizeIs, MapIs DEF Size, t
    <3>3. \A j \in DOMAIN Listing(r) : DOMAIN Listing(r)[j] = Marks
      BY <3>2, MarksIs DEF Listing, Files
    <3>4. CallOK(r, res'[r])  BY <2>5, <3>2, <3>3, EndsOK
    <3> QED  BY <2>1, <2>3, <2>4, <3>4, CallTyped
  <2>6. CASE Stays(r, "prelist") /\ res'[r].via = Cookies /\ res'[r].k = res[r].k
    <3>1. PlaceOK(r, res'[r])
      BY <1>1, <2>1, <2>6 DEF CallOK, Stays, PlaceOK, Phases, Held, Opening, Linking
    <3>2. OutOK(r, res'[r])  BY <1>1, <2>1, <2>6 DEF CallOK, OutOK, Stays
    <3>3. res'[r].via.acct \in Accounts  BY <1>1, <2>6, CookiesAre DEF WorldOK
    <3>4. CallOK(r, res'[r])  BY <1>1, <2>6, <3>1, <3>2, <3>3 DEF CallOK, Stays
    <3> QED  BY <2>1, <2>3, <2>4, <3>4, CallTyped
  <2> QED  BY <2>2, <2>5, <2>6
<1>6. CASE PreListed(r)
  <2>1. /\ res[r].at = "prelist" /\ Others(r) /\ UNCHANGED <<globals, drive>>
        /\ res'[r].at = "item" /\ res'[r].i = res[r].i /\ res'[r].out = res[r].out
        /\ Keeps(r)
        /\ Answers \/ Fails(r, Spoilt(r))
    BY <1>6, PreListedIs
  <2>2. res[r].i = 1  BY <1>1, <2>1 DEF CallOK, PlaceOK, Opening
  <2>3. PlaceOK(r, res'[r])  BY <1>1, <2>1, <2>2 DEF PlaceOK, Phases, Held, Opening, Linking
  <2>4. OutOK(r, res'[r])  BY <1>1, <2>1 DEF CallOK, OutOK
  <2>5. CallOK(r, res'[r])  BY <1>1, <2>1, <2>3, <2>4 DEF CallOK, Keeps, Asking
  <2>6. WorldOK'  BY <1>1, <2>1, PlainWorld DEF drive
  <2>7. DriveOK' /\ TasksOK'  BY <2>1, QuietTyped DEF drive
  <2> QED  BY <2>1, <2>5, <2>6, <2>7, CallTyped
<1> QED  BY <1>2, <1>3, <1>4, <1>5, <1>6, SessionOpenedIs

\* A file of the share is taken up.
LEMMA TakeTyped ==
  ASSUME Shape, Types, NEW r \in Resolves, TakeFolder(r) \/ TakeKnown(r) \/ TakeNew(r)
  PROVE  Types'
<1>1. CallOK(r, res[r]) /\ WorldOK  BY DEF Types, CallsOK
<1>2. res[r].at = "item" /\ More(r) /\ Others(r) /\ Calm
  BY TakeFolderIs, TakeKnownIs, TakeNewIs
<1>3. WorldOK'  BY <1>1, <1>2, PlainWorld DEF Calm, drive
<1>4. DriveOK' /\ TasksOK'  BY <1>2, QuietTyped DEF Calm, drive
<1>5. CallOK(r, res'[r])
  <2>1. CASE TakeFolder(r)
    <3>1. Moves(r, Result(Item(r), NoOwn, "folder"))  BY <2>1, TakeFolderIs
    <3> QED  BY <1>1, <1>2, <3>1, MarksIs, MovesOK
  <2>2. CASE TakeKnown(r)
    <3>1. \E f : Finds(r, f, "known")  BY <2>2, TakeKnownIs
    <3> QED  BY <1>1, <1>2, <3>1, FindsOK
  <2>3. CASE TakeNew(r)
    <3>1. Stays(r, "transfer") /\ Keeps(r) /\ res'[r].via = Via  BY <2>3, TakeNewIs
    <3>2. res'[r].via.acct \in Accounts  BY <1>1, <3>1 DEF Via, WorldOK
    <3>3. res'[r].k \in 1..Profiles  BY <1>1, <3>1 DEF Keeps, CallOK
    <3> QED  BY <1>1, <1>2, <3>1, <3>2, <3>3, StaysOK DEF Held
  <2> QED  BY <2>1, <2>2, <2>3
<1> QED  BY <1>2, <1>3, <1>4, <1>5, CallTyped

\* The answers to a transfer.
LEMMA TransferTyped ==
  ASSUME Shape, Types, NEW r \in Resolves,
         \/ Copied(r) \/ Queued(r) \/ Claimed(r) \/ NoRoot(r) \/ Refused(r) \/ Disrupted(r)
  PROVE  Types'
<1>1. CallOK(r, res[r]) /\ WorldOK /\ DriveOK /\ TasksOK  BY DEF Types, CallsOK
<1>2. res[r].at = "transfer" /\ Others(r)
  BY CopiedIs, QueuedIs, ClaimedIs, NoRootIs, RefusedIs, DisruptedIs
<1>3. res[r].via.acct \in Accounts /\ res[r].at \in Held  BY <1>1, <1>2 DEF CallOK, Asking, Held
<1>4. ASSUME NEW x, DOMAIN x = Marks, Moves(r, x)
      PROVE  CallOK(r, res'[r])
  BY <1>1, <1>3, <1>4, MovesOK
<1>5. CASE Copied(r)
  <2>1. UNCHANGED <<globals, root, tasks, faults>> /\ Store(res[r].via.acct, Copy(r))
    BY <1>5, CopiedIs
  <2>2. CallOK(r, res'[r])
    <3>1. Finds(r, Copy(r), "named") \/ Seeks(r)  BY <1>5, CopiedIs
    <3> QED  BY <1>1, <1>3, <3>1, FindsOK, SeeksOK
  <2>3. DriveOK'  BY <1>1, <1>3, <2>1, StoreTyped DEF Copy
  <2>4. TasksOK'  BY <1>1, <2>1 DEF TasksOK, Size, Files
  <2>5. WorldOK'  BY <1>1, <2>1, PlainWorld
  <2> QED  BY <1>2, <2>2, <2>3, <2>4, <2>5, CallTyped
<1>6. CASE Queued(r)
  <2>1. /\ UNCHANGED <<globals, dir, root, next>> /\ Answers
        /\ tasks' = tasks \union {[acct |-> res[r].via.acct, item |-> Item(r), by |-> r]}
        /\ Stays(r, "task") /\ Afresh(r)
    BY <1>6, QueuedIs
  <2>2. res'[r].k \in 1..Profiles  BY <2>1, TransferAssumption DEF Afresh
  <2>3. CallOK(r, res'[r])  BY <1>1, <1>3, <2>1, <2>2, StaysOK DEF Held, Asking
  <2>4. \E j \in 1..Size(r) : Item(r) = Files(r)[j]
    BY <1>1, <1>3, SizeIs DEF CallOK, PlaceOK, Item, Files
  <2>5. TasksOK'
    BY <1>1, <1>3, <2>1, <2>4 DEF TasksOK, Size, Files
  <2>6. DriveOK'  BY <1>1, <2>1 DEF DriveOK, Apart
  <2>7. WorldOK'  BY <1>1, <2>1, PlainWorld
  <2> QED  BY <1>2, <2>3, <2>5, <2>6, <2>7, CallTyped
<1>7. CASE Claimed(r)
  <2>1. UNCHANGED <<globals, drive>> /\ Fails(r, FALSE) /\ Seeks(r)  BY <1>7, ClaimedIs
  <2>2. CallOK(r, res'[r])  BY <1>1, <1>3, <2>1, SeeksOK
  <2>3. WorldOK'  BY <1>1, <2>1, PlainWorld DEF drive
  <2>4. DriveOK' /\ TasksOK'  BY <2>1, QuietTyped DEF drive
  <2> QED  BY <1>2, <2>2, <2>3, <2>4, CallTyped
<1>8. CASE NoRoot(r)
  <2>1. /\ Calm
        /\ \/ Moves(r, Result(Item(r), NoOwn, "transfer"))
           \/ Stays(r, "mkdir") /\ Keeps(r) /\ res'[r].via = Cookies
    BY <1>8, NoRootIs
  <2>2. CallOK(r, res'[r])
    <3>1. CASE Moves(r, Result(Item(r), NoOwn, "transfer"))  BY <1>4, <3>1, MarksIs
    <3>2. CASE Stays(r, "mkdir") /\ Keeps(r) /\ res'[r].via = Cookies
      <4>1. res'[r].via.acct \in Accounts  BY <1>1, <3>2, CookiesAre DEF WorldOK
      <4>2. res'[r].k \in 1..Profiles  BY <1>1, <3>2 DEF Keeps, CallOK
      <4> QED  BY <1>1, <1>3, <3>2, <4>1, <4>2, StaysOK DEF Held
    <3> QED  BY <2>1, <3>1, <3>2
  <2>3. WorldOK'  BY <1>1, <2>1, PlainWorld DEF Calm, drive
  <2>4. DriveOK' /\ TasksOK'  BY <2>1, QuietTyped DEF Calm, drive
  <2> QED  BY <1>2, <2>2, <2>3, <2>4, CallTyped
<1>9. CASE Refused(r)
  <2>1. UNCHANGED <<globals, drive, faults>> /\ Stays(r, "pause") /\ Keeps(r)
    BY <1>9, RefusedIs
  <2>2. res'[r].k \in 1..Profiles  BY <1>1, <2>1 DEF Keeps, CallOK
  <2>3. CallOK(r, res'[r])  BY <1>1, <1>3, <2>1, <2>2, StaysOK DEF Held, Asking
  <2>4. WorldOK'  BY <1>1, <2>1, PlainWorld DEF drive
  <2>5. DriveOK' /\ TasksOK'  BY <2>1, QuietTyped DEF drive
  <2> QED  BY <1>2, <2>3, <2>4, <2>5, CallTyped
<1>10. CASE Disrupted(r)
  <2>1. /\ UNCHANGED <<globals, root, tasks>>
        /\ Store(res[r].via.acct, Copy(r)) \/ UNCHANGED <<dir, next>>
        /\ Fails(r, ~Accepted(r)) /\ Moves(r, Result(Item(r), NoOwn, "transfer"))
    BY <1>10, DisruptedIs
  <2>2. CallOK(r, res'[r])  BY <1>4, <2>1, MarksIs
  <2>3. DriveOK'
    <3>1. CASE Store(res[r].via.acct, Copy(r))  BY <1>1, <1>3, <3>1, StoreTyped DEF Copy
    <3>2. CASE UNCHANGED <<dir, next>>  BY <1>1, <3>2 DEF DriveOK, Apart
    <3> QED  BY <2>1, <3>1, <3>2
  <2>4. TasksOK'  BY <1>1, <2>1 DEF TasksOK, Size, Files
  <2>5. WorldOK'  BY <1>1, <2>1, PlainWorld
  <2> QED  BY <1>2, <2>2, <2>3, <2>4, <2>5, CallTyped
<1> QED  BY <1>5, <1>6, <1>7, <1>8, <1>9, <1>10

\* The second tries of a transfer.
LEMMA SecondTyped ==
  ASSUME Shape, Types, NEW r \in Resolves, Resume(r) \/ Again(r) \/ RootMade(r)
  PROVE  Types'
<1>1. CallOK(r, res[r]) /\ WorldOK /\ DriveOK /\ TasksOK  BY DEF Types, CallsOK
<1>2. res[r].at \in {"pause", "again", "mkdir"} /\ Others(r)
  BY ResumeIs, AgainIs, RootMadeIs
<1>3. res[r].at \in Held  BY <1>2 DEF Held
<1>4. ASSUME NEW x, DOMAIN x = Marks, Moves(r, x)
      PROVE  CallOK(r, res'[r])
  BY <1>1, <1>3, <1>4, MovesOK
<1>5. CASE Resume(r)
  <2>1. /\ Calm /\ res[r].at = "pause"
        /\ Stays(r, "again") /\ Keeps(r) /\ res'[r].via = Cookies
    BY <1>5, ResumeIs
  <2>2. res'[r].via.acct \in Accounts  BY <1>1, <2>1, CookiesAre DEF WorldOK
  <2>3. res'[r].k \in 1..Profiles  BY <1>1, <2>1 DEF Keeps, CallOK
  <2>4. CallOK(r, res'[r])  BY <1>1, <1>3, <2>1, <2>2, <2>3, StaysOK DEF Held
  <2>5. WorldOK'  BY <1>1, <2>1, PlainWorld DEF Calm, drive
  <2>6. DriveOK' /\ TasksOK'  BY <2>1, QuietTyped DEF Calm, drive
  <2> QED  BY <1>2, <2>4, <2>5, <2>6, CallTyped
<1>6. CASE Again(r)
  <2>1. /\ res[r].at = "again" /\ UNCHANGED drive
        /\ \/ /\ Refresh(r) /\ Stays(r, "transfer") /\ res[r].k < Profiles
              /\ res'[r].k = res[r].k + 1 /\ res'[r].via.acct = session'
           \/ Refresh(r) /\ Moves(r, Result(Item(r), NoOwn, "refused"))
           \/ /\ Fails(r, FALSE) /\ UNCHANGED globals
              /\ Moves(r, Result(Item(r), NoOwn, "transfer"))
    BY <1>6, AgainIs
  <2>2. DriveOK' /\ TasksOK'  BY <2>1, QuietTyped DEF drive
  <2>3. CASE Fails(r, FALSE) /\ UNCHANGED globals
             /\ Moves(r, Result(Item(r), NoOwn, "transfer"))
    <3>1. CallOK(r, res'[r])  BY <1>4, <2>3, MarksIs
    <3>2. WorldOK'  BY <1>1, <2>1, <2>3, PlainWorld DEF drive
    <3> QED  BY <1>2, <2>2, <3>1, <3>2, CallTyped
  <2>4. CASE /\ Refresh(r) /\ Stays(r, "transfer") /\ res[r].k < Profiles
             /\ res'[r].k = res[r].k + 1 /\ res'[r].via.acct = session'
    <3>1. WorldOK' /\ session' = session
      BY <1>1, <2>1, <2>4, RefreshWorld DEF CallOK, Asking
    <3>2. res'[r].via.acct \in Accounts  BY <1>1, <2>4, <3>1 DEF WorldOK
    <3>3. res[r].k \in 1..Profiles /\ res[r].k < Profiles  BY <1>1, <2>4 DEF CallOK
    <3>4. Profiles \in Nat  BY TransferAssumption
    <3>5. res'[r].k \in 1..Profiles  BY <2>4, <3>3, <3>4
    <3>6. CallOK(r, res'[r])  BY <1>1, <1>3, <2>4, <3>2, <3>5, StaysOK DEF Held
    <3> QED  BY <1>2, <2>2, <3>1, <3>6, CallTyped
  <2>5. CASE Refresh(r) /\ Moves(r, Result(Item(r), NoOwn, "refused"))
    <3>1. CallOK(r, res'[r])  BY <1>4, <2>5, MarksIs
    <3>2. WorldOK'  BY <1>1, <2>1, <2>5, RefreshWorld DEF CallOK, Asking
    <3> QED  BY <1>2, <2>2, <3>1, <3>2, CallTyped
  <2> QED  BY <2>1, <2>3, <2>4, <2>5
<1>7. CASE RootMade(r)
  <2>1. /\ UNCHANGED <<globals, dir, tasks, next>> /\ res[r].at = "mkdir"
        /\ \/ /\ root' = root \union {res[r].via.acct} /\ Answers
              /\ Stays(r, "transfer") /\ res'[r].k = 1 /\ res'[r].via = Via
           \/ /\ Fails(r, Spoilt(r)) /\ UNCHANGED root
              /\ Moves(r, Result(Item(r), NoOwn, "transfer"))
    BY <1>7, RootMadeIs
  <2>2. DriveOK' /\ TasksOK'  BY <2>1, QuietTyped
  <2>3. CASE Fails(r, Spoilt(r)) /\ UNCHANGED root
             /\ Moves(r, Result(Item(r), NoOwn, "transfer"))
    <3>1. CallOK(r, res'[r])  BY <1>4, <2>3, MarksIs
    <3>2. WorldOK'  BY <1>1, <2>1, <2>3, PlainWorld
    <3> QED  BY <1>2, <2>2, <3>1, <3>2, CallTyped
  <2>4. CASE /\ root' = root \union {res[r].via.acct} /\ Answers
             /\ Stays(r, "transfer") /\ res'[r].k = 1 /\ res'[r].via = Via
    <3>1. res[r].via.acct \in Accounts  BY <1>1, <2>1 DEF CallOK, Asking
    <3>2. WorldOK'  BY <1>1, <2>1, <2>4, <3>1 DEF WorldOK, globals, Answers
    <3>3. res'[r].via.acct \in Accounts  BY <1>1, <2>4 DEF WorldOK, Via
    <3>4. res'[r].k \in 1..Profiles  BY <2>4, TransferAssumption
    <3>5. CallOK(r, res'[r])  BY <1>1, <1>3, <2>4, <3>3, <3>4, StaysOK DEF Held
    <3> QED  BY <1>2, <2>2, <3>2, <3>5, CallTyped
  <2> QED  BY <2>1, <2>3, <2>4
<1> QED  BY <1>5, <1>6, <1>7

\* The wait for a copy, the search for it, and its streams.
LEMMA WaitTyped ==
  ASSUME Shape, Types, NEW r \in Resolves, Poll(r) \/ Searched(r) \/ Scan(r) \/ Rescan(r)
  PROVE  Types'
<1>1. CallOK(r, res[r]) /\ WorldOK  BY DEF Types, CallsOK
<1>2. /\ res[r].at \in {"task", "search", "stream", "recode"} /\ Others(r)
      /\ UNCHANGED <<globals, dir, root, next>> /\ tasks' \subseteq tasks
  BY PollIs, SearchedIs, ScanIs DEF Calm, drive
<1>3. res[r].at \in Held  BY <1>2 DEF Held
<1>4. DriveOK' /\ TasksOK'  BY <1>2, QuietTyped
<1>5. WorldOK'
  <2>1. \/ Answers \/ (\E q, free : Fails(q, free)) \/ UNCHANGED faults
    BY PollIs, SearchedIs, ScanIs DEF Calm
  <2> QED  BY <1>1, <1>2, <2>1, PlainWorld
<1>6. ASSUME NEW x, DOMAIN x = Marks, Moves(r, x)
      PROVE  CallOK(r, res'[r])
  BY <1>1, <1>3, <1>6, MovesOK
<1>7. ASSUME NEW phase \in {"task", "recode"}, Stays(r, phase), Keeps(r)
      PROVE  CallOK(r, res'[r])
  <2>1. res'[r].k \in 1..Profiles  BY <1>1, <1>7 DEF Keeps, CallOK
  <2> QED  BY <1>1, <1>3, <1>7, <2>1, StaysOK DEF Held, Asking
<1>8. CallOK(r, res'[r])
  <2>1. CASE Poll(r)
    <3>1. \/ Seeks(r)
          \/ Stays(r, "task") /\ Keeps(r)
          \/ Moves(r, Result(Item(r), NoOwn, "transfer"))
      BY <2>1, PollIs
    <3> QED  BY <1>1, <1>3, <1>6, <1>7, <3>1, SeeksOK, MarksIs
  <2>2. CASE Searched(r)
    <3>1. \/ \E f : Finds(r, f, "search")
          \/ Moves(r, Result(Item(r), NoOwn, "lost"))
      BY <2>2, SearchedIs
    <3> QED  BY <1>1, <1>3, <1>6, <3>1, FindsOK, MarksIs
  <2>3. CASE Scan(r) \/ Rescan(r)
    <3>1. \/ Stays(r, "recode") /\ Keeps(r)
          \/ \E x : Moves(r, x) /\ DOMAIN x = DOMAIN Result(Item(r), NoOwn, "none")
      BY <2>3, ScanIs
    <3> QED  BY <1>6, <1>7, <3>1, MarksIs
  <2> QED  BY <2>1, <2>2, <2>3
<1> QED  BY <1>2, <1>4, <1>5, <1>8, CallTyped

LEMMA LinkedIs ==
  ASSUME NEW x, DOMAIN x = Marks, NEW files
  PROVE  /\ DOMAIN Linked(x, files) = Marks
         /\ Linked(x, files).item = x.item /\ Linked(x, files).own = x.own
         /\ Linked(x, files).error = x.error
         /\ Linked(x, files).link = Content(CHOOSE f \in files : TRUE)
BY MarksIs DEF Linked

\* The links.
LEMMA LinkTyped ==
  ASSUME Shape, Types, NEW r \in Resolves, Finish(r) \/ Metas(r) \/ Locate(r) \/ Return(r)
  PROVE  Types'
<1>1. CallOK(r, res[r]) /\ WorldOK /\ Size(r) \in Nat  BY SizeIs DEF Types, CallsOK
<1>2. Others(r) /\ UNCHANGED <<globals, drive>>
  BY FinishIs, MetasIs, LocateIs, ReturnIs DEF Calm
<1>3. DriveOK' /\ TasksOK'  BY <1>2, QuietTyped DEF drive
<1>4. WorldOK'
  <2>1. \/ Answers \/ (\E q, free : Fails(q, free)) \/ UNCHANGED faults
    BY FinishIs, MetasIs, LocateIs, ReturnIs DEF Calm
  <2> QED  BY <1>1, <1>2, <2>1, PlainWorld DEF drive
<1>5. /\ IsSeq(res[r].out)
      /\ \A j \in DOMAIN res[r].out : DOMAIN res[r].out[j] = Marks
  BY <1>1 DEF CallOK, OutOK
<1>6. Cookies.acct \in Accounts  BY <1>1, CookiesAre DEF WorldOK
<1>7. CallOK(r, res'[r])
  <2>1. CASE Finish(r)
    <3>1. /\ res[r].at = "item" /\ ~More(r)
          /\ \/ Ends(r, "over", res[r].out)
             \/ /\ res'[r].at = "metas" /\ res'[r].i = res[r].i /\ res'[r].out = res[r].out
                /\ res'[r].via = Cookies /\ res'[r].k = res[r].k
      BY <2>1, FinishIs
    <3>2. res[r].i = Size(r) + 1 /\ Len(res[r].out) = Size(r)
      <4>1. res[r].i \in Nat \ {0} /\ res[r].i <= Size(r) + 1 /\ ~(res[r].i <= Size(r))
        BY <1>1, <3>1, MoreIs DEF CallOK, PlaceOK
      <4>2. Len(res[r].out) = res[r].i - 1  BY <1>1, <3>1 DEF CallOK, OutOK
      <4> QED  BY <1>1, <4>1, <4>2
    <3>3. CASE Ends(r, "over", res[r].out)  BY <1>5, <3>2, <3>3, EndsOK
    <3>4. CASE /\ res'[r].at = "metas" /\ res'[r].i = res[r].i /\ res'[r].out = res[r].out
               /\ res'[r].via = Cookies /\ res'[r].k = res[r].k
      <4>1. PlaceOK(r, res'[r])
        BY <1>1, <3>2, <3>4 DEF PlaceOK, Phases, Held, Opening, Linking
      <4>2. OutOK(r, res'[r])  BY <1>1, <3>1, <3>4 DEF CallOK, OutOK
      <4> QED  BY <1>1, <1>6, <3>4, <4>1, <4>2 DEF CallOK
    <3> QED  BY <3>1, <3>3, <3>4
  <2>2. CASE Metas(r)
    <3>1. res[r].at = "metas"  BY <2>2, MetasIs
    <3>2. res[r].i = Size(r) + 1 /\ Len(res[r].out) = Size(r)
      BY <1>1, <3>1 DEF CallOK, PlaceOK, OutOK, Linking
    <3>3. PICK got \in SUBSET Good(res[r].out) :
            LET out == res[r].out
                linked == [i \in DOMAIN out |->
                            IF i \in got THEN Linked(out[i], ById(r, out[i]))
                            ELSE IF i \in Good(out) /\ Action[r] = "d"
                            THEN [out[i] EXCEPT !.error = "nolink"] ELSE out[i]]
            IN \/ Ends(r, "over", linked)
               \/ /\ res'[r].at = "locate" /\ res'[r].i = res[r].i /\ res'[r].out = linked
                  /\ res'[r].via = Cookies /\ Keeps(r)
      BY <2>2, MetasIs
    <3> DEFINE out == res[r].out
               linked == [i \in DOMAIN out |->
                            IF i \in got THEN Linked(out[i], ById(r, out[i]))
                            ELSE IF i \in Good(out) /\ Action[r] = "d"
                            THEN [out[i] EXCEPT !.error = "nolink"] ELSE out[i]]
    <3>4. \A j \in DOMAIN out : DOMAIN linked[j] = Marks
      <4> SUFFICES ASSUME NEW j \in DOMAIN out
                   PROVE  DOMAIN linked[j] = Marks
        OBVIOUS
      <4>1. DOMAIN out[j] = Marks  BY <1>5
      <4>2. DOMAIN Linked(out[j], ById(r, out[j])) = Marks  BY <4>1, LinkedIs
      <4>3. DOMAIN [out[j] EXCEPT !.error = "nolink"] = Marks  BY <4>1
      <4> QED  BY <4>1, <4>2, <4>3
    <3>5. linked = [i \in DOMAIN out |-> linked[i]]  OBVIOUS
    <3>6. Ends(r, "over", linked)
          \/ /\ res'[r].at = "locate" /\ res'[r].i = res[r].i /\ res'[r].out = linked
             /\ res'[r].via = Cookies /\ Keeps(r)
      BY <3>3
    <3> HIDE DEF linked
    <3>7. IsSeq(linked) /\ Len(linked) = Len(out) /\ DOMAIN linked = DOMAIN out
      BY <1>5, <3>5, MapIs
    <3>8. CASE Ends(r, "over", linked)  BY <3>2, <3>4, <3>7, <3>8, EndsOK
    <3>9. CASE /\ res'[r].at = "locate" /\ res'[r].i = res[r].i /\ res'[r].out = linked
               /\ res'[r].via = Cookies /\ Keeps(r)
      <4>1. PlaceOK(r, res'[r])
        BY <1>1, <3>2, <3>9 DEF PlaceOK, Phases, Held, Opening, Linking
      <4>2. OutOK(r, res'[r])  BY <1>1, <3>2, <3>4, <3>7, <3>9 DEF OutOK
      <4> QED  BY <1>1, <1>6, <3>9, <4>1, <4>2 DEF CallOK, Keeps
    <3> QED  BY <3>6, <3>8, <3>9
  <2>3. CASE Locate(r)
    <3>1. res[r].at = "locate"  BY <2>3, LocateIs
    <3>2. Len(res[r].out) = Size(r)
      BY <1>1, <3>1 DEF CallOK, PlaceOK, OutOK, Linking
    <3>3. PICK got \in SUBSET Good(res[r].out) :
            LET out == res[r].out
            IN Ends(r, "over", [i \in DOMAIN out |->
                                  IF i \in got THEN Linked(out[i], ByPath(r, out[i]))
                                  ELSE out[i]])
      BY <2>3, LocateIs
    <3> DEFINE out == res[r].out
               linked == [i \in DOMAIN out |->
                            IF i \in got THEN Linked(out[i], ByPath(r, out[i])) ELSE out[i]]
    <3>4. \A j \in DOMAIN out : DOMAIN linked[j] = Marks
      <4> SUFFICES ASSUME NEW j \in DOMAIN out
                   PROVE  DOMAIN linked[j] = Marks
        OBVIOUS
      <4>1. DOMAIN out[j] = Marks  BY <1>5
      <4>2. DOMAIN Linked(out[j], ByPath(r, out[j])) = Marks  BY <4>1, LinkedIs
      <4> QED  BY <4>1, <4>2
    <3>5. linked = [i \in DOMAIN out |-> linked[i]]  OBVIOUS
    <3>6. Ends(r, "over", linked)  BY <3>3
    <3> HIDE DEF linked
    <3>7. IsSeq(linked) /\ Len(linked) = Len(out) /\ DOMAIN linked = DOMAIN out
      BY <1>5, <3>5, MapIs
    <3> QED  BY <3>2, <3>4, <3>6, <3>7, EndsOK
  <2>4. CASE Return(r)
    <3>1. Ends(r, "gone", <<>>)  BY <2>4, ReturnIs
    <3> QED  BY <3>1, EmptyIs, EndsOK
  <2> QED  BY <2>1, <2>2, <2>3, <2>4
<1> QED  BY <1>2, <1>3, <1>4, <1>7, CallTyped

\* A copy ends upstream, or the credentials are loaded.
LEMMA OutsideTyped ==
  ASSUME Types,
         (\E t \in tasks : TaskDone(t)) \/ (\E a \in Accounts : Load(a)) \/ UNCHANGED vars
  PROVE  Types'
<1>1. res' = res  BY DEF TaskDone, Load, vars
<1>2. CallsOK'  BY <1>1 DEF Types, CallsOK, CallOK, PlaceOK, OutOK, Size, Files
<1>3. WorldOK'
  <2>1. CASE \E t \in tasks : TaskDone(t)
    BY <2>1, PlainWorld DEF TaskDone, Types
  <2>2. CASE \E a \in Accounts : Load(a)
    <3>1. PICK a \in Accounts : Load(a)  BY <2>2
    <3>2. faults' \in 0..MaxFaults  BY <3>1, FaultBounds DEF Load, Types, WorldOK
    <3> QED  BY <3>1, <3>2 DEF Load, Types, WorldOK, drive
  <2>3. CASE UNCHANGED vars
    BY <2>3 DEF Types, WorldOK, vars, globals, drive
  <2> QED  BY <2>1, <2>2, <2>3
<1>4. DriveOK' /\ TasksOK'
  <2>1. CASE \E t \in tasks : TaskDone(t)
    <3>1. PICK t \in tasks : TaskDone(t)  BY <2>1
    <3>2. t.acct \in Accounts /\ DriveOK  BY DEF Types, TasksOK
    <3>3. Store(t.acct, CopyOf(t.acct, t.item, t.by))  BY <3>1 DEF TaskDone
    <3>4. DriveOK'  BY <3>2, <3>3, StoreTyped
    <3>5. TasksOK'  BY <3>1 DEF TaskDone, Types, TasksOK, Size, Files
    <3> QED  BY <3>4, <3>5
  <2>2. CASE \E a \in Accounts : Load(a)
    BY <2>2, QuietTyped DEF Load, drive
  <2>3. CASE UNCHANGED vars
    BY <2>3, QuietTyped DEF vars, drive
  <2> QED  BY <2>1, <2>2, <2>3
<1> QED  BY <1>2, <1>3, <1>4 DEF Types

LEMMA TypesInit ==
  ASSUME Init
  PROVE  Types
<1>1. WorldOK
  BY TransferAssumption DEF Init, WorldOK
<1>2. DriveOK
  <2>1. PICK old \in Old : dir = [a \in Accounts |-> IF a = session THEN old ELSE {}]
    BY DEF Init
  <2>2. Cardinality(UNION Old) \in Nat /\ IsFiniteSet(UNION Old)
    BY TransferAssumption, FS_CardinalityType
  <2>3. IsFiniteSet(old)
    <3>1. old \in SUBSET (UNION Old)  BY <2>1
    <3> QED  BY <2>2, <3>1, FS_Subset
  <2>4. next = Cardinality(UNION Old) + 1 /\ next \in Nat \ {0}  BY <2>2 DEF Init
  <2>5. Apart(old) /\ \A f \in old : f.id \in 1..(next - 1)
    <3>1. Apart(old) /\ \A f \in old : f.id \in 1..Cardinality(UNION Old)
      BY <2>1, TransferAssumption
    <3>2. (Cardinality(UNION Old) + 1) - 1 = Cardinality(UNION Old)  BY <2>2
    <3> QED  BY <2>4, <3>1, <3>2
  <2>6. IsFiniteSet({}) /\ Apart({})  BY FS_EmptySet DEF Apart
  <2> QED  BY <2>1, <2>3, <2>4, <2>5, <2>6 DEF DriveOK
<1>3. TasksOK  BY DEF Init, TasksOK
<1>4. ASSUME NEW r \in Resolves
      PROVE  CallOK(r, res[r])
  <2>1. /\ res[r].at = "new" /\ res[r].i = 1 /\ res[r].k = 1 /\ res[r].out = <<>>
    BY DEF Init, New
  <2>2. PlaceOK(r, res[r])  BY <2>1 DEF PlaceOK, Phases, Held, Opening, Linking
  <2>3. OutOK(r, res[r])  BY <2>1, EmptyIs DEF OutOK
  <2> QED  BY <2>1, <2>2, <2>3, TransferAssumption DEF CallOK, Asking
<1> QED  BY <1>1, <1>2, <1>3, <1>4 DEF Types, CallsOK

LEMMA TypesNext ==
  ASSUME Shape, Types, [Next]_vars
  PROVE  Types'
<1>1. ASSUME NEW r \in Resolves, Start(r) \/ Step(r)
      PROVE  Types'
  BY <1>1, OpeningTyped, TakeTyped, TransferTyped, SecondTyped, WaitTyped, LinkTyped DEF Step
<1> QED  BY <1>1, OutsideTyped DEF Next
-----------------------------------------------------------------------------
(* Copies *)

\* Phases in which the call has still to get its file copied.
Copying == {"transfer", "pause", "again", "mkdir"}

\* The number of files that the call may have had copied.
Reached(r, m) ==
  IF m.at \in Opening THEN 0
  ELSE IF m.at = "item" \/ m.at \in Copying THEN m.i - 1
  ELSE IF m.at \in Held THEN m.i ELSE Size(r)

Met(r, m, name) == \E j \in 1..Reached(r, m) : Files(r)[j].name = name

\* A call has copied no file that it has not come to.
MetLive ==
  /\ \A a \in Accounts : \A f \in dir[a] : f.by \in Resolves => Met(f.by, res[f.by], f.name)
  /\ \A t \in tasks : Met(t.by, res[t.by], t.item.name)

\* It has each file copied once.
OnceLive ==
  /\ \A a \in Accounts : \A f, g \in dir[a] :
       f.by \in Resolves /\ f.by = g.by /\ f.name = g.name => f = g
  /\ \A a \in Accounts : \A f \in dir[a] : \A t \in tasks :
       ~(t.by = f.by /\ t.item.name = f.name)
  /\ \A t, u \in tasks : t.by = u.by /\ t.item.name = u.item.name => t = u

\* No file from before is what the call copies.
Missing(upto, files, x) ==
  \A f \in files : f.id < upto /\ f.copy = 0 => ~(f.name = x.name /\ f.size = x.size)

\* What a call that saw the whole listing knows of the files from before.
Saw(r, m) ==
  LET upto  == m.seen.upto
      files == dir[m.seen.acct]
  IN /\ m.seen.acct \in Accounts /\ upto \in 1..next
     /\ m.at = "item" \/ m.at \in Held => \A f \in files : f.id < upto => f \in m.known
     /\ m.at \in Copying => Missing(upto, files, Files(r)[m.i])
     /\ \A t \in tasks : t.by = r => Missing(upto, files, t.item)
     /\ \A g \in files : g.by = r => Missing(upto, files, g)

SeenLive ==
  \A r \in Resolves : /\ res[r].at \in Opening => res[r].seen.how = "none"
                      /\ res[r].seen.how = "whole" => Saw(r, res[r])

CopiesLive == MetLive /\ OnceLive /\ SeenLive

-----------------------------------------------------------------------------

\* A step of a call that only comes to more files.
Onward(r) == Others(r) /\ Reached(r, res[r]) <= Reached(r, res'[r])

\* One that keeps what it knows of the files from before.
Steady(r) ==
  LET m == res[r]
      n == res'[r]
  IN /\ Onward(r)
     /\ n.seen = m.seen \/ n.seen.how = "none"
     /\ n.at \in Opening => n.seen.how = "none"
     /\ n.at = "item" \/ n.at \in Held =>
          (m.at = "item" \/ m.at \in Held \/ m.seen.how # "whole") /\ n.known = m.known
     /\ n.at \in Copying =>
          \/ m.at \in Copying /\ n.i = m.i
          \/ m.seen.how = "whole" => Missing(m.seen.upto, dir[m.seen.acct], Files(r)[n.i])

LEMMA ReachedIs ==
  ASSUME NEW r \in Resolves, NEW m, PlaceOK(r, m)
  PROVE  Reached(r, m) \in 0..Size(r)
BY SizeIs DEF PlaceOK, Reached, Opening, Held, Copying, Linking, Phases

LEMMA MetStays ==
  ASSUME NEW r \in Resolves, NEW m, NEW n, PlaceOK(r, m), PlaceOK(r, n),
         Reached(r, m) <= Reached(r, n), NEW name, Met(r, m, name)
  PROVE  Met(r, n, name)
<1>1. Reached(r, m) \in Nat /\ Reached(r, n) \in Nat  BY ReachedIs, SizeIs
<1> QED  BY <1>1 DEF Met

\* Names that were met stay met.
LEMMA OnwardMet ==
  ASSUME Types, Types', NEW r \in Resolves, Onward(r),
         NEW q \in Resolves, NEW name, Met(q, res[q], name)
  PROVE  Met(q, res'[q], name)
<1>1. PlaceOK(q, res[q])  BY DEF Types, CallsOK, CallOK
<1>2. PlaceOK(q, res'[q])
  <2>1. CallOK(q, res[q])'  BY DEF Types, CallsOK
  <2> QED  BY <2>1 DEF CallOK, PlaceOK, Size, Files
<1>3. CASE q = r  BY <1>1, <1>2, <1>3, MetStays DEF Onward
<1>4. CASE q # r  BY <1>4 DEF Onward, Others
<1> QED  BY <1>3, <1>4

\* Without a copy.
LEMMA OnwardCopies ==
  ASSUME Types, Types', CopiesLive, NEW r \in Resolves, Onward(r),
         UNCHANGED <<dir, next>>, tasks' \subseteq tasks
  PROVE  MetLive' /\ OnceLive'
<1>1. MetLive'
  <2>1. ASSUME NEW a \in Accounts, NEW f \in dir[a], f.by \in Resolves
        PROVE  Met(f.by, res'[f.by], f.name)
    BY <2>1, OnwardMet DEF CopiesLive, MetLive
  <2>2. ASSUME NEW t \in tasks
        PROVE  Met(t.by, res'[t.by], t.item.name)
    BY OnwardMet DEF CopiesLive, MetLive, Types, TasksOK
  <2> QED  BY <2>1, <2>2 DEF MetLive, Met, Reached, Files, Size
<1>2. OnceLive'  BY DEF CopiesLive, OnceLive
<1> QED  BY <1>1, <1>2

\* The call knows of the files from before what it knew.
LEMMA SteadyStep ==
  ASSUME Types, Types', CopiesLive, NEW r \in Resolves, Steady(r),
         UNCHANGED <<dir, next>>, tasks' \subseteq tasks
  PROVE  CopiesLive'
<1>1. MetLive' /\ OnceLive'  BY OnwardCopies DEF Steady
<1>2. SeenLive'
  <2> SUFFICES ASSUME NEW q \in Resolves
               PROVE  /\ res'[q].at \in Opening => res'[q].seen.how = "none"
                      /\ res'[q].seen.how = "whole" => Saw(q, res[q])'
    BY DEF SeenLive
  <2>1. /\ res[q].at \in Opening => res[q].seen.how = "none"
        /\ res[q].seen.how = "whole" => Saw(q, res[q])
    BY DEF CopiesLive, SeenLive
  <2>2. CASE q # r
    <3>1. res'[q] = res[q]  BY <2>2 DEF Steady, Onward, Others
    <3> QED  BY <2>1, <3>1 DEF Saw, Missing, Files
  <2>3. CASE q = r
    BY <2>1, <2>3 DEF Steady, Saw, Missing, Files
  <2> QED  BY <2>2, <2>3
<1> QED  BY <1>1, <1>2 DEF CopiesLive

\* A file f of call r is stored, which it has not copied before.
LEMMA StoreStep ==
  ASSUME Types, Types', CopiesLive, NEW r \in Resolves, Steady(r),
         NEW a \in Accounts, NEW f, Store(a, f),
         f.id = next, f.by = r, Met(r, res'[r], f.name),
         \A b \in Accounts : \A g \in dir[b] : ~(g.by = r /\ g.name = f.name),
         tasks' \subseteq tasks, \A t \in tasks' : ~(t.by = r /\ t.item.name = f.name),
         res[r].seen.how = "whole" => Missing(res[r].seen.upto, dir[res[r].seen.acct], f)
  PROVE  CopiesLive'
<1>1. next \in Nat /\ next' = next + 1 /\ DOMAIN dir = Accounts
      /\ \A b \in Accounts : dir'[b] = IF b = a THEN dir[b] \union {f} ELSE dir[b]
  BY DEF Types, DriveOK, Store
<1>2. \A b \in Accounts : \A g \in dir'[b] : g \in dir[b] \/ g = f  BY <1>1
<1>3. MetLive'
  <2>1. ASSUME NEW b \in Accounts, NEW g \in dir'[b], g.by \in Resolves
        PROVE  Met(g.by, res'[g.by], g.name)
    BY <1>2, <2>1, OnwardMet DEF CopiesLive, MetLive, Steady
  <2>2. ASSUME NEW t \in tasks
        PROVE  Met(t.by, res'[t.by], t.item.name)
    BY OnwardMet DEF CopiesLive, MetLive, Types, TasksOK, Steady
  <2> QED  BY <2>1, <2>2 DEF MetLive, Met, Reached, Files, Size
<1>4. OnceLive'
  <2>1. ASSUME NEW b \in Accounts, NEW g \in dir'[b], NEW h \in dir'[b],
               g.by \in Resolves, g.by = h.by, g.name = h.name
        PROVE  g = h
    <3>1. (g \in dir[b] \/ g = f) /\ (h \in dir[b] \/ h = f)  BY <1>2
    <3>2. CASE g \in dir[b] /\ h \in dir[b]  BY <2>1, <3>2 DEF CopiesLive, OnceLive
    <3> QED  BY <2>1, <3>1, <3>2
  <2>2. ASSUME NEW b \in Accounts, NEW g \in dir'[b], NEW t \in tasks'
        PROVE  ~(t.by = g.by /\ t.item.name = g.name)
    BY <1>2 DEF CopiesLive, OnceLive
  <2>3. \A t, u \in tasks' : t.by = u.by /\ t.item.name = u.item.name => t = u
    BY DEF CopiesLive, OnceLive
  <2> QED  BY <2>1, <2>2, <2>3 DEF OnceLive
<1>5. SeenLive'
  <2> SUFFICES ASSUME NEW q \in Resolves
               PROVE  /\ res'[q].at \in Opening => res'[q].seen.how = "none"
                      /\ res'[q].seen.how = "whole" => Saw(q, res[q])'
    BY DEF SeenLive
  <2>1. /\ res[q].at \in Opening => res[q].seen.how = "none"
        /\ res[q].seen.how = "whole" => Saw(q, res[q])
    BY DEF CopiesLive, SeenLive
  <2>2. res'[q].seen = res[q].seen \/ res'[q].seen.how = "none"
    BY DEF Steady, Onward, Others
  <2>3. res'[q].at \in Opening => res'[q].seen.how = "none"
    BY <2>1 DEF Steady, Onward, Others
  <2>4. ASSUME res'[q].seen.how = "whole", res[q].seen.how = "whole"
        PROVE  Saw(q, res[q])'
    <3> DEFINE acct == res[q].seen.acct
               upto == res[q].seen.upto
    <3>1. Saw(q, res[q]) /\ acct \in Accounts /\ upto \in 1..next
      BY <2>1, <2>4 DEF Saw
    <3>2. upto \in 1..next'  BY <1>1, <3>1
    <3>3. ~(f.id < upto)  BY <1>1, <3>1
    <3>4. ASSUME NEW x, Missing(upto, dir[acct], x)
          PROVE  Missing(upto, dir'[acct], x)
      BY <1>2, <3>1, <3>3, <3>4 DEF Missing
    <3>5. \A t \in tasks' : t.by = q => Missing(upto, dir'[acct], t.item)
      BY <3>1, <3>4 DEF Saw
    <3>6. ASSUME NEW g \in dir'[acct], g.by = q
          PROVE  Missing(upto, dir'[acct], g)
      <4>1. CASE g \in dir[acct]  BY <3>1, <3>4, <3>6, <4>1 DEF Saw
      <4>2. CASE g = f
        <5>1. q = r  BY <3>6, <4>2
        <5>2. Missing(upto, dir[acct], f)  BY <2>4, <5>1
        <5> QED  BY <3>4, <4>2, <5>2
      <4> QED  BY <1>2, <3>1, <4>1, <4>2
    <3>7. res'[q].at = "item" \/ res'[q].at \in Held =>
            \A g \in dir'[acct] : g.id < upto => g \in res'[q].known
      <4>1. res'[q].at = "item" \/ res'[q].at \in Held =>
              (res[q].at = "item" \/ res[q].at \in Held) /\ res'[q].known = res[q].known
        BY <2>4 DEF Steady, Onward, Others
      <4> QED  BY <1>2, <3>1, <3>3, <4>1 DEF Saw
    <3>8. res'[q].at \in Copying => Missing(upto, dir'[acct], Files(q)[res'[q].i])
      <4>1. res'[q].at \in Copying => Missing(upto, dir[acct], Files(q)[res'[q].i])
        BY <2>4, <3>1 DEF Steady, Onward, Others, Saw
      <4> QED  BY <3>4, <4>1
    <3>9. res'[q].seen.acct = acct /\ res'[q].seen.upto = upto  BY <2>2, <2>4
    <3> HIDE DEF acct, upto
    <3> QED  BY <3>1, <3>2, <3>5, <3>6, <3>7, <3>8, <3>9 DEF Saw, Files
  <2> QED  BY <2>2, <2>3, <2>4
<1> QED  BY <1>3, <1>4, <1>5 DEF CopiesLive

\* A copy is started upstream.
LEMMA QueueStep ==
  ASSUME Types, Types', CopiesLive, NEW r \in Resolves, Steady(r),
         UNCHANGED <<dir, next>>, NEW t, tasks' = tasks \union {t},
         t.by = r, Met(r, res'[r], t.item.name),
         \A b \in Accounts : \A g \in dir[b] : ~(g.by = r /\ g.name = t.item.name),
         \A u \in tasks : ~(u.by = r /\ u.item.name = t.item.name),
         res[r].seen.how = "whole" =>
           Missing(res[r].seen.upto, dir[res[r].seen.acct], t.item)
  PROVE  CopiesLive'
<1>1. MetLive'
  <2>1. ASSUME NEW a \in Accounts, NEW f \in dir[a], f.by \in Resolves
        PROVE  Met(f.by, res'[f.by], f.name)
    BY <2>1, OnwardMet DEF CopiesLive, MetLive, Steady
  <2>2. ASSUME NEW u \in tasks
        PROVE  Met(u.by, res'[u.by], u.item.name)
    BY OnwardMet DEF CopiesLive, MetLive, Types, TasksOK, Steady
  <2> QED  BY <2>1, <2>2 DEF MetLive, Met, Reached, Files, Size
<1>2. OnceLive'
  <2>1. \A a \in Accounts : \A f \in dir[a] : \A u \in tasks' :
          ~(u.by = f.by /\ u.item.name = f.name)
    BY DEF CopiesLive, OnceLive
  <2>2. \A v, u \in tasks' : v.by = u.by /\ v.item.name = u.item.name => v = u
    BY DEF CopiesLive, OnceLive
  <2> QED  BY <2>1, <2>2 DEF CopiesLive, OnceLive
<1>3. SeenLive'
  <2> SUFFICES ASSUME NEW q \in Resolves
               PROVE  /\ res'[q].at \in Opening => res'[q].seen.how = "none"
                      /\ res'[q].seen.how = "whole" => Saw(q, res[q])'
    BY DEF SeenLive
  <2>1. /\ res[q].at \in Opening => res[q].seen.how = "none"
        /\ res[q].seen.how = "whole" => Saw(q, res[q])
    BY DEF CopiesLive, SeenLive
  <2>2. CASE q # r
    <3>1. res'[q] = res[q]  BY <2>2 DEF Steady, Onward, Others
    <3> QED  BY <2>1, <2>2, <3>1 DEF Saw, Missing, Files
  <2>3. CASE q = r
    BY <2>1, <2>3 DEF Steady, Onward, Saw, Missing, Files
  <2> QED  BY <2>2, <2>3
<1> QED  BY <1>1, <1>2, <1>3 DEF CopiesLive

\* Steps of the loop over the files, and ends of a call, are steady.
LEMMA SteadyIs ==
  ASSUME NEW r \in Resolves, PlaceOK(r, res[r]), Others(r)
  PROVE  /\ \A x : Moves(r, x) /\ (res[r].at \in Held \/ (res[r].at = "item" /\ More(r)))
                     => Steady(r) /\ Reached(r, res'[r]) = res[r].i
         /\ \A phase \in Held \ Copying :
              Stays(r, phase) /\ (res[r].at \in Held \/ (res[r].at = "item" /\ More(r)))
                => Steady(r) /\ Reached(r, res'[r]) = res[r].i
         /\ \A phase \in Copying : Stays(r, phase) /\ res[r].at \in Copying => Steady(r)
         /\ \A phase \in {"over", "failed", "gone"} : \A out : Ends(r, phase, out) => Steady(r)
<1>1. Reached(r, res[r]) \in 0..Size(r) /\ Size(r) \in Nat  BY ReachedIs, SizeIs
<1>2. res[r].i \in Nat \ {0}  BY DEF PlaceOK
<1>3. res[r].at \in Held \/ res[r].at = "item" => Reached(r, res[r]) <= res[r].i
  BY <1>2 DEF Reached, Opening, Held
<1>4. ASSUME NEW x, Moves(r, x), res[r].at \in Held \/ (res[r].at = "item" /\ More(r))
      PROVE  Steady(r) /\ Reached(r, res'[r]) = res[r].i
  <2>1. Reached(r, res'[r]) = res[r].i  BY <1>2, <1>4 DEF Moves, Reached, Opening
  <2>2. Onward(r)  BY <1>3, <1>4, <2>1 DEF Onward
  <2> QED  BY <1>4, <2>1, <2>2 DEF Steady, Moves, Opening, Held, Copying
<1>5. ASSUME NEW phase \in Held \ Copying, Stays(r, phase),
             res[r].at \in Held \/ (res[r].at = "item" /\ More(r))
      PROVE  Steady(r) /\ Reached(r, res'[r]) = res[r].i
  <2>1. Reached(r, res'[r]) = res[r].i  BY <1>5 DEF Stays, Reached, Opening, Held, Copying
  <2>2. Onward(r)  BY <1>3, <1>5, <2>1 DEF Onward
  <2> QED  BY <1>5, <2>1, <2>2 DEF Steady, Stays, Opening, Held, Copying
<1>6. ASSUME NEW phase \in Copying, Stays(r, phase), res[r].at \in Copying
      PROVE  Steady(r)
  <2>1. Reached(r, res'[r]) = Reached(r, res[r])
    BY <1>6 DEF Stays, Reached, Opening, Held, Copying
  <2>2. Onward(r)  BY <1>1, <2>1 DEF Onward
  <2> QED  BY <1>6, <2>2 DEF Steady, Stays, Opening, Held, Copying
<1>7. ASSUME NEW phase \in {"over", "failed", "gone"}, NEW out, Ends(r, phase, out)
      PROVE  Steady(r)
  <2>1. Reached(r, res'[r]) = Size(r)  BY <1>7 DEF Ends, Reached, Opening, Held, Copying
  <2>2. Onward(r)  BY <1>1, <2>1 DEF Onward
  <2> QED  BY <1>7, <2>2 DEF Steady, Ends, Opening, Held, Copying
<1> QED  BY <1>4, <1>5, <1>6, <1>7

LEMMA PlaceIs ==
  ASSUME Types, NEW r \in Resolves
  PROVE  PlaceOK(r, res[r]) /\ CallOK(r, res[r])
BY DEF Types, CallsOK, CallOK

\* A file that the call has still to get copied is not under way, not copied by
\* this call, and not one that its listing showed.
LEMMA Uncopied ==
  ASSUME Types, CopiesLive, NEW r \in Resolves, res[r].at \in Copying
  PROVE  /\ \A a \in Accounts : \A f \in dir[a] : ~(f.by = r /\ f.name = Item(r).name)
         /\ \A t \in tasks : ~(t.by = r /\ t.item.name = Item(r).name)
         /\ res[r].seen.how = "whole" =>
              Missing(res[r].seen.upto, dir[res[r].seen.acct], Item(r))
<1>1. /\ res[r].i \in 1..Size(r) /\ Size(r) \in Nat /\ DOMAIN Files(r) = 1..Size(r)
      /\ ShareOf[r] \in DOMAIN FilesOf
  BY PlaceIs, SizeIs DEF PlaceOK, Copying, Held
<1>2. Reached(r, res[r]) = res[r].i - 1  BY DEF Reached, Copying, Opening
<1>3. Item(r) = Files(r)[res[r].i]  BY DEF Item, Files
<1>4. ~Met(r, res[r], Item(r).name)
  <2> SUFFICES ASSUME NEW j \in 1..(res[r].i - 1), Files(r)[j].name = Item(r).name
               PROVE  FALSE
    BY <1>2 DEF Met
  <2>1. j # res[r].i /\ j \in DOMAIN Files(r) /\ res[r].i \in DOMAIN Files(r)  BY <1>1
  <2> QED  BY <1>1, <1>3, <2>1, TransferAssumption DEF Files
<1>5. \A t \in tasks : t.by \in Resolves  BY DEF Types, TasksOK
<1> QED  BY <1>3, <1>4, <1>5 DEF CopiesLive, MetLive, SeenLive, Saw

\* What the copy of a file is.
LEMMA CopyIs ==
  ASSUME Types, NEW r \in Resolves, res[r].at \in Copying, res[r].via.acct \in Accounts
  PROVE  /\ Copy(r).id = next /\ Copy(r).by = r
         /\ Copy(r).name = Item(r).name /\ Copy(r).size = Item(r).size
BY CopyOfIs DEF Types, DriveOK, Copy

LEMMA MetItem ==
  ASSUME Types, NEW r \in Resolves, res[r].at \in Held, Reached(r, res'[r]) = res[r].i
  PROVE  Met(r, res'[r], Item(r).name)
<1>1. res[r].i \in Nat \ {0}  BY PlaceIs DEF PlaceOK
<1> QED  BY <1>1 DEF Met, Item, Files

\* The requests before the loop.
LEMMA OpeningCopies ==
  ASSUME Shape, Types, Types', CopiesLive, NEW r \in Resolves,
         Start(r) \/ Refreshed(r) \/ SessionOpened(r)
  PROVE  CopiesLive'
<1>1. PlaceOK(r, res[r])  BY PlaceIs
<1>2. Others(r) /\ UNCHANGED drive /\ res[r].at \in Opening
  BY StartIs, RefreshedIs, SessionOpenedIs DEF Start, At, Opening
<1>3. res[r].seen.how = "none"  BY <1>2 DEF CopiesLive, SeenLive
<1>4. Steady(r)
  <2>1. ASSUME res'[r].at \in Opening, res'[r].seen.how = "none"
        PROVE  Steady(r)
    <3>1. Onward(r)  BY <1>2, <2>1 DEF Onward, Reached
    <3> QED  BY <2>1, <3>1 DEF Steady, Opening, Held, Copying
  <2>2. ASSUME NEW phase \in {"over", "failed"}, NEW out, Ends(r, phase, out)
        PROVE  Steady(r)
    BY <1>1, <1>2, <2>2, SteadyIs
  <2>3. CASE Start(r)  BY <2>1, <2>3, StartIs DEF Opening, New
  <2>4. CASE Refreshed(r)
    BY <1>3, <2>1, <2>2, <2>4, RefreshedIs DEF Surrenders, Stays, Opening
  <2>5. CASE SessionOpened(r)
    BY <1>3, <2>1, <2>2, <2>5, SessionOpenedIs DEF Surrenders, Stays, Opening
  <2> QED  BY <2>3, <2>4, <2>5
<1> QED  BY <1>2, <1>4, SteadyStep DEF drive

\* The listing: nothing of this call's is in the account or on its way there.
LEMMA PreListedCopies ==
  ASSUME Shape, Types, Types', CopiesLive, NEW r \in Resolves, PreListed(r)
  PROVE  CopiesLive'
<1> DEFINE a == res[r].via.acct
<1>1. /\ res[r].at = "prelist" /\ Others(r) /\ UNCHANGED <<dir, tasks, next>>
      /\ res'[r].at = "item" /\ res'[r].i = res[r].i
      /\ res'[r].seen.acct = a /\ res'[r].seen.upto = next
      /\ res'[r].seen.how = "whole" => res'[r].known = dir[a]
  BY PreListedIs DEF drive
<1>2. res[r].i = 1 /\ a \in Accounts  BY <1>1, PlaceIs DEF PlaceOK, CallOK, Opening, Asking
<1>3. Reached(r, res[r]) = 0 /\ Reached(r, res'[r]) = 0
  BY <1>1, <1>2 DEF Reached, Opening
<1>4. Onward(r)  BY <1>1, <1>3 DEF Onward
<1>5. MetLive' /\ OnceLive'  BY <1>1, <1>4, OnwardCopies
<1>6. \A name : ~Met(r, res[r], name)  BY <1>3 DEF Met
<1>7. /\ \A b \in Accounts : \A g \in dir[b] : g.by # r
      /\ \A t \in tasks : t.by # r
  BY <1>6 DEF CopiesLive, MetLive
<1>8. SeenLive'
  <2> SUFFICES ASSUME NEW q \in Resolves
               PROVE  /\ res'[q].at \in Opening => res'[q].seen.how = "none"
                      /\ res'[q].seen.how = "whole" => Saw(q, res[q])'
    BY DEF SeenLive
  <2>1. CASE q # r
    <3>1. res'[q] = res[q]  BY <1>1, <2>1 DEF Others
    <3> QED  BY <1>1, <3>1 DEF CopiesLive, SeenLive, Saw, Missing, Files
  <2>2. CASE q = r
    <3>1. next \in 1..next  BY DEF Types, DriveOK
    <3> QED  BY <1>1, <1>2, <1>7, <2>2, <3>1 DEF Saw, Opening, Copying
  <2> QED  BY <2>1, <2>2
<1> QED  BY <1>5, <1>8 DEF CopiesLive

\* A file of the share is taken up: when it is to be copied, the listing showed
\* no file like it.
LEMMA TakeCopies ==
  ASSUME Shape, Types, Types', CopiesLive, NEW r \in Resolves,
         TakeFolder(r) \/ TakeKnown(r) \/ TakeNew(r)
  PROVE  CopiesLive'
<1>1. PlaceOK(r, res[r])  BY PlaceIs
<1>2. Others(r) /\ Calm /\ res[r].at = "item" /\ More(r)
  BY TakeFolderIs, TakeKnownIs, TakeNewIs
<1>3. CASE TakeFolder(r)
  <2>1. Steady(r)  BY <1>1, <1>2, <1>3, TakeFolderIs, SteadyIs
  <2> QED  BY <1>2, <2>1, SteadyStep DEF Calm, drive
<1>4. CASE TakeKnown(r)
  <2>1. PICK f : Finds(r, f, "known")  BY <1>4, TakeKnownIs
  <2>2. Steady(r)  BY <1>1, <1>2, <2>1, SteadyIs DEF Finds, Held, Copying
  <2> QED  BY <1>2, <2>2, SteadyStep DEF Calm, drive
<1>5. CASE TakeNew(r)
  <2>1. Known(r) = {} /\ Stays(r, "transfer")  BY <1>5, TakeNewIs
  <2>2. Reached(r, res'[r]) = Reached(r, res[r]) /\ Reached(r, res[r]) \in Nat
    BY <1>1, <1>2, <2>1, ReachedIs, SizeIs DEF Stays, Reached, Copying, Opening
  <2>3. Onward(r)  BY <1>2, <2>2 DEF Onward
  <2>4. ASSUME res[r].seen.how = "whole"
        PROVE  Missing(res[r].seen.upto, dir[res[r].seen.acct], Item(r))
    <3>1. \A f \in dir[res[r].seen.acct] : f.id < res[r].seen.upto => f \in res[r].known
      BY <1>2, <2>4 DEF CopiesLive, SeenLive, Saw
    <3> QED  BY <2>1, <3>1 DEF Missing, Known
  <2>5. Item(r) = Files(r)[res'[r].i]  BY <2>1 DEF Item, Files, Stays
  <2>6. Steady(r)  BY <1>2, <2>1, <2>3, <2>4, <2>5 DEF Steady, Stays, Opening, Held, Copying
  <2> QED  BY <1>2, <2>6, SteadyStep DEF Calm, drive
<1> QED  BY <1>3, <1>4, <1>5

\* The answers to a transfer: a copy, one under way, or none.
LEMMA TransferCopies ==
  ASSUME Shape, Types, Types', CopiesLive, NEW r \in Resolves,
         \/ Copied(r) \/ Queued(r) \/ Claimed(r) \/ NoRoot(r) \/ Refused(r) \/ Disrupted(r)
  PROVE  CopiesLive'
<1>1. PlaceOK(r, res[r])  BY PlaceIs
<1>2. Others(r) /\ res[r].at = "transfer"
  BY CopiedIs, QueuedIs, ClaimedIs, NoRootIs, RefusedIs, DisruptedIs
<1>3. res[r].at \in Copying /\ res[r].at \in Held  BY <1>2 DEF Copying, Held
<1>4. res[r].via.acct \in Accounts  BY <1>2, PlaceIs DEF CallOK, Asking
<1>5. ASSUME Store(res[r].via.acct, Copy(r)), tasks' = tasks,
             Steady(r), Reached(r, res'[r]) = res[r].i
      PROVE  CopiesLive'
  <2>1. /\ Copy(r).id = next /\ Copy(r).by = r
        /\ Copy(r).name = Item(r).name /\ Copy(r).size = Item(r).size
    BY <1>3, <1>4, CopyIs
  <2>2. Met(r, res'[r], Copy(r).name)  BY <1>3, <1>5, <2>1, MetItem
  <2>3. /\ \A b \in Accounts : \A g \in dir[b] : ~(g.by = r /\ g.name = Copy(r).name)
        /\ \A t \in tasks' : ~(t.by = r /\ t.item.name = Copy(r).name)
        /\ res[r].seen.how = "whole" =>
             Missing(res[r].seen.upto, dir[res[r].seen.acct], Copy(r))
    BY <1>3, <1>5, <2>1, Uncopied DEF Missing
  <2> QED  BY <1>4, <1>5, <2>1, <2>2, <2>3, StoreStep
<1>6. ASSUME NEW x, Moves(r, x)
      PROVE  Steady(r) /\ Reached(r, res'[r]) = res[r].i
  BY <1>1, <1>2, <1>3, <1>6, SteadyIs
<1>7. ASSUME Seeks(r)
      PROVE  Steady(r) /\ Reached(r, res'[r]) = res[r].i
  BY <1>1, <1>2, <1>3, <1>7, SteadyIs DEF Seeks, Held, Copying
<1>8. CASE Copied(r)
  <2>1. /\ Store(res[r].via.acct, Copy(r)) /\ tasks' = tasks
        /\ Finds(r, Copy(r), "named") \/ Seeks(r)
    BY <1>8, CopiedIs
  <2>2. Steady(r) /\ Reached(r, res'[r]) = res[r].i
    BY <1>1, <1>2, <1>3, <1>6, <1>7, <2>1, SteadyIs DEF Finds, Held, Copying
  <2> QED  BY <1>5, <2>1, <2>2
<1>9. CASE Queued(r)
  <2> DEFINE t == [acct |-> res[r].via.acct, item |-> Item(r), by |-> r]
  <2>1. /\ UNCHANGED <<dir, next>> /\ tasks' = tasks \union {t} /\ Stays(r, "task")
        /\ t.by = r /\ t.item = Item(r)
    BY <1>9, QueuedIs
  <2>2. Steady(r) /\ Reached(r, res'[r]) = res[r].i
    BY <1>1, <1>2, <1>3, <2>1, SteadyIs DEF Held, Copying
  <2>3. Met(r, res'[r], t.item.name)  BY <1>3, <2>1, <2>2, MetItem
  <2> HIDE DEF t
  <2>4. /\ \A b \in Accounts : \A g \in dir[b] : ~(g.by = r /\ g.name = t.item.name)
        /\ \A u \in tasks : ~(u.by = r /\ u.item.name = t.item.name)
        /\ res[r].seen.how = "whole" =>
             Missing(res[r].seen.upto, dir[res[r].seen.acct], t.item)
    BY <1>3, <2>1, Uncopied
  <2> QED  BY <2>1, <2>2, <2>3, <2>4, QueueStep
<1>10. CASE Claimed(r)
  <2>1. UNCHANGED drive /\ Seeks(r)  BY <1>10, ClaimedIs
  <2> QED  BY <1>7, <2>1, SteadyStep DEF drive
<1>11. CASE NoRoot(r)
  <2>1. Calm /\ ((\E x : Moves(r, x)) \/ Stays(r, "mkdir"))  BY <1>11, NoRootIs
  <2>2. Steady(r)  BY <1>1, <1>2, <1>3, <1>6, <2>1, SteadyIs DEF Copying
  <2> QED  BY <2>1, <2>2, SteadyStep DEF Calm, drive
<1>12. CASE Refused(r)
  <2>1. UNCHANGED drive /\ Stays(r, "pause")  BY <1>12, RefusedIs
  <2>2. Steady(r)  BY <1>1, <1>2, <1>3, <1>6, <2>1, SteadyIs DEF Copying
  <2> QED  BY <2>1, <2>2, SteadyStep DEF drive
<1>13. CASE Disrupted(r)
  <2>1. /\ Store(res[r].via.acct, Copy(r)) \/ UNCHANGED <<dir, next>>
        /\ tasks' = tasks /\ Moves(r, Result(Item(r), NoOwn, "transfer"))
    BY <1>13, DisruptedIs
  <2> QED  BY <1>5, <1>6, <2>1, SteadyStep
<1> QED  BY <1>8, <1>9, <1>10, <1>11, <1>12, <1>13

\* The steps between the transfers, and those after the copy.
LEMMA LaterCopies ==
  ASSUME Shape, Types, Types', CopiesLive, NEW r \in Resolves,
         \/ Resume(r) \/ Again(r) \/ RootMade(r)
         \/ Poll(r) \/ Searched(r) \/ Scan(r) \/ Rescan(r)
  PROVE  CopiesLive'
<1>1. PlaceOK(r, res[r])  BY PlaceIs
<1>2. CASE Resume(r) \/ Again(r) \/ RootMade(r)
  <2>1. /\ Others(r) /\ res[r].at \in {"pause", "again", "mkdir"}
        /\ UNCHANGED <<dir, tasks, next>>
        /\ (\E x : Moves(r, x)) \/ (\E phase \in {"again", "transfer"} : Stays(r, phase))
    BY <1>2, ResumeIs, AgainIs, RootMadeIs DEF Calm, drive
  <2>2. Steady(r)  BY <1>1, <2>1, SteadyIs DEF Copying, Held
  <2> QED  BY <2>1, <2>2, SteadyStep
<1>3. CASE Poll(r) \/ Searched(r) \/ Scan(r) \/ Rescan(r)
  <2>1. /\ Others(r) /\ res[r].at \in {"task", "search", "stream", "recode"}
        /\ UNCHANGED <<dir, next>> /\ tasks' \subseteq tasks
        /\ \/ \E x : Moves(r, x)
           \/ \E phase \in {"task", "search", "stream", "recode"} : Stays(r, phase)
    <3>1. CASE Poll(r)  BY <3>1, PollIs DEF Seeks
    <3>2. CASE Searched(r)
      BY <3>2, SearchedIs DEF Finds, drive
    <3>3. CASE Scan(r) \/ Rescan(r)  BY <3>3, ScanIs DEF Calm, drive
    <3> QED  BY <1>3, <3>1, <3>2, <3>3
  <2>2. Steady(r)  BY <1>1, <2>1, SteadyIs DEF Copying, Held
  <2> QED  BY <2>1, <2>2, SteadyStep
<1> QED  BY <1>2, <1>3

\* The links and the answer.
LEMMA LinkCopies ==
  ASSUME Shape, Types, Types', CopiesLive, NEW r \in Resolves,
         Finish(r) \/ Metas(r) \/ Locate(r) \/ Return(r)
  PROVE  CopiesLive'
<1>1. PlaceOK(r, res[r])  BY PlaceIs
<1>2. /\ Others(r) /\ UNCHANGED drive
      /\ \/ \E phase \in {"over", "failed", "gone"} : \E out : Ends(r, phase, out)
         \/ res'[r].at \in Linking /\ res'[r].seen = res[r].seen
  <2>1. CASE Finish(r)  BY <2>1, FinishIs DEF Calm, Linking
  <2>2. CASE Metas(r)  BY <2>2, MetasIs DEF Linking
  <2>3. CASE Locate(r)  BY <2>3, LocateIs DEF Calm
  <2>4. CASE Return(r)  BY <2>4, ReturnIs
  <2> QED  BY <2>1, <2>2, <2>3, <2>4
<1>3. CASE res'[r].at \in Linking /\ res'[r].seen = res[r].seen
  <2>1. Reached(r, res'[r]) = Size(r)
    BY <1>3 DEF Reached, Linking, Opening, Held, Copying
  <2>2. Onward(r)  BY <1>1, <1>2, <2>1, ReachedIs, SizeIs DEF Onward
  <2>3. Steady(r)  BY <1>3, <2>2 DEF Steady, Linking, Opening, Held, Copying
  <2> QED  BY <1>2, <2>3, SteadyStep DEF drive
<1>4. CASE \E phase \in {"over", "failed", "gone"} : \E out : Ends(r, phase, out)
  <2>1. Steady(r)  BY <1>1, <1>2, <1>4, SteadyIs
  <2> QED  BY <1>2, <2>1, SteadyStep DEF drive
<1> QED  BY <1>2, <1>3, <1>4

\* The service finishes a copy, which its call did not make before.
LEMMA TaskCopies ==
  ASSUME Types, Types', CopiesLive, NEW t \in tasks, TaskDone(t)
  PROVE  CopiesLive'
<1> DEFINE f == CopyOf(t.acct, t.item, t.by)
<1>1. res' = res /\ tasks' = tasks \ {t} /\ Store(t.acct, f)  BY DEF TaskDone
<1>2. t.acct \in Accounts /\ t.by \in Resolves  BY DEF Types, TasksOK
<1>3. f.id = next /\ f.by = t.by /\ f.name = t.item.name /\ f.size = t.item.size
  BY <1>2, CopyOfIs DEF Types, DriveOK
<1> HIDE DEF f
<1>4. Steady(t.by)
  <2>1. Reached(t.by, res[t.by]) \in Nat  BY <1>2, PlaceIs, ReachedIs, SizeIs
  <2>2. Onward(t.by)  BY <1>1, <2>1 DEF Onward, Others
  <2> QED  BY <1>1, <1>2, <2>2 DEF Steady, CopiesLive, SeenLive
<1>5. Met(t.by, res'[t.by], f.name)  BY <1>1, <1>3 DEF CopiesLive, MetLive
<1>6. /\ \A b \in Accounts : \A g \in dir[b] : ~(g.by = t.by /\ g.name = f.name)
      /\ \A u \in tasks' : ~(u.by = t.by /\ u.item.name = f.name)
  BY <1>1, <1>3 DEF CopiesLive, OnceLive
<1>7. res[t.by].seen.how = "whole" =>
        Missing(res[t.by].seen.upto, dir[res[t.by].seen.acct], f)
  BY <1>2, <1>3 DEF CopiesLive, SeenLive, Saw, Missing
<1>8. tasks' \subseteq tasks  BY <1>1
<1> QED  BY <1>1, <1>2, <1>3, <1>4, <1>5, <1>6, <1>7, <1>8, StoreStep

\* The account holds nothing of these calls at first.
LEMMA CopiesInit ==
  ASSUME Init
  PROVE  CopiesLive
<1>1. tasks = {} /\ \A r \in Resolves : res[r].seen.how = "none"  BY DEF Init, New
<1>2. \A a \in Accounts : \A f \in dir[a] : f.by \notin Resolves
  <2>1. PICK old \in Old : dir = [a \in Accounts |-> IF a = session THEN old ELSE {}]
    BY DEF Init
  <2> QED  BY <2>1, TransferAssumption
<1> QED  BY <1>1, <1>2 DEF CopiesLive, MetLive, OnceLive, SeenLive

LEMMA CopiesNext ==
  ASSUME Shape, Types, Types', CopiesLive, [Next]_vars
  PROVE  CopiesLive'
<1>1. ASSUME NEW r \in Resolves, Start(r) \/ Step(r)
      PROVE  CopiesLive'
  BY <1>1, OpeningCopies, PreListedCopies, TakeCopies, TransferCopies, LaterCopies,
     LinkCopies DEF Step
<1>2. CASE \E t \in tasks : TaskDone(t)  BY <1>2, TaskCopies
<1>3. CASE (\E a \in Accounts : Load(a)) \/ UNCHANGED vars
  <2>1. res' = res /\ UNCHANGED drive  BY <1>3 DEF Load, vars
  <2> QED  BY <2>1 DEF drive, CopiesLive, MetLive, Met, OnceLive, SeenLive, Saw, Missing,
                       Reached, Files, Size
<1> QED  BY <1>1, <1>2, <1>3 DEF Next
-----------------------------------------------------------------------------
(* What happens to the others *)

\* What a step of a call adds to the histories.
Tells(r) ==
  \/ UNCHANGED trouble
  \/ \E mine \in SUBSET {"fault", "clash", "refused"}, theirs \in SUBSET {"stomped"} : Note(r, mine, theirs)

DirGrows == \A a \in Accounts : dir[a] \subseteq dir'[a]

LEMMA TellsIs ==
  ASSUME NEW r
  PROVE  /\ Answers => Tells(r)
         /\ Calm => Tells(r)
         /\ \A free : Fails(r, free) => Tells(r)
         /\ Refresh(r) => Tells(r) /\ session' = session /\ tsid' = tsid
         /\ \A f : Note(r, Clash(f), {}) => Tells(r)
         /\ Note(r, {"fault"}, {}) => Tells(r)
<1>1. ASSUME NEW free, Fails(r, free)
      PROVE  Tells(r)
  <2>1. CASE free  BY <1>1, <2>1 DEF Fails, Tells
  <2>2. CASE ~free  BY <1>1, <2>2 DEF Fails, Tells
  <2> QED  BY <2>1, <2>2
<1>2. ASSUME Refresh(r)
      PROVE  Tells(r) /\ session' = session /\ tsid' = tsid
  <2>1. PICK whole \in BOOLEAN :
          /\ session' = session /\ tsid' = tsid
          /\ Note(r, IF whole THEN {} ELSE {"fault"},
                  IF res[r].via.acct = session THEN {} ELSE {"stomped"})
    BY <1>2 DEF Refresh
  <2> DEFINE mine == IF whole THEN {} ELSE {"fault"}
             theirs == IF res[r].via.acct = session THEN {} ELSE {"stomped"}
  <2>2. mine \in SUBSET {"fault", "clash", "refused"} /\ theirs \in SUBSET {"stomped"}  OBVIOUS
  <2>3. Note(r, mine, theirs)  BY <2>1
  <2> HIDE DEF mine, theirs
  <2> QED  BY <2>1, <2>2, <2>3 DEF Tells
<1>3. ASSUME NEW f, Note(r, Clash(f), {})
      PROVE  Tells(r)
  <2>1. Clash(f) \in SUBSET {"fault", "clash", "refused"}  BY DEF Clash
  <2> QED  BY <1>3, <2>1 DEF Tells
<1>4. Note(r, {"fault"}, {}) => Tells(r)  BY DEF Tells
<1>5. Answers \/ Calm => Tells(r)  BY DEF Answers, Calm, Tells
<1> QED  BY <1>1, <1>2, <1>3, <1>4, <1>5

LEMMA StoreGrows ==
  ASSUME DriveOK, NEW a, NEW f, Store(a, f)
  PROVE  DirGrows
BY DEF DriveOK, Store, DirGrows

\* A step of a call leaves the session, the other calls and the files alone.
Gentle(r) == /\ res[r].at \notin {"new", "gone"} /\ Others(r)
             /\ session' = session /\ DirGrows /\ Tells(r)

LEMMA GentleEarly ==
  ASSUME Shape, Types, NEW r \in Resolves,
         \/ Refreshed(r) \/ SessionOpened(r) \/ PreListed(r)
         \/ TakeFolder(r) \/ TakeKnown(r) \/ TakeNew(r)
  PROVE  Gentle(r)
<1>1. UNCHANGED drive => DirGrows  BY DEF drive, DirGrows
<1>2. UNCHANGED globals => session' = session  BY DEF globals
<1>3. CASE Refreshed(r)
  BY <1>1, <1>2, <1>3, RefreshedIs, TellsIs DEF Gentle, Surrenders
<1>4. CASE SessionOpened(r)
  BY <1>1, <1>2, <1>4, SessionOpenedIs, TellsIs DEF Gentle, Surrenders
<1>5. CASE PreListed(r)
  BY <1>1, <1>2, <1>5, PreListedIs, TellsIs DEF Gentle
<1>6. CASE TakeFolder(r) \/ TakeKnown(r) \/ TakeNew(r)
  BY <1>1, <1>2, <1>6, TakeFolderIs, TakeKnownIs, TakeNewIs, TellsIs DEF Gentle, Calm
<1> QED  BY <1>3, <1>4, <1>5, <1>6

LEMMA GentleTransfer ==
  ASSUME Shape, Types, NEW r \in Resolves,
         \/ Copied(r) \/ Queued(r) \/ Claimed(r) \/ NoRoot(r) \/ Refused(r) \/ Disrupted(r)
  PROVE  Gentle(r)
<1>1. dir' = dir => DirGrows  BY DEF DirGrows
<1>2. UNCHANGED globals => session' = session  BY DEF globals
<1>3. \A a, f : Store(a, f) => DirGrows  BY StoreGrows DEF Types
<1>4. UNCHANGED trouble => Tells(r)  BY DEF Tells
<1>5. CASE Copied(r)  BY <1>2, <1>3, <1>4, <1>5, CopiedIs, TellsIs DEF Gentle
<1>6. CASE Queued(r)  BY <1>1, <1>2, <1>6, QueuedIs, TellsIs DEF Gentle
<1>7. CASE Claimed(r)  BY <1>1, <1>2, <1>7, ClaimedIs, TellsIs DEF Gentle, drive
<1>8. CASE NoRoot(r)  BY <1>1, <1>2, <1>8, NoRootIs, TellsIs DEF Gentle, Calm, drive
<1>9. CASE Refused(r)
  <2> DEFINE mine == IF res[r].k = Profiles /\ Accepted(r) THEN {"refused"} ELSE {}
  <2>1. res[r].at = "transfer" /\ Others(r) /\ UNCHANGED <<globals, drive>> /\ Note(r, mine, {})
    BY <1>9, RefusedIs
  <2>2. mine \in SUBSET {"fault", "clash", "refused"}  OBVIOUS
  <2> HIDE DEF mine
  <2>3. Tells(r)  BY <2>1, <2>2 DEF Tells
  <2> QED  BY <1>1, <1>2, <2>1, <2>3 DEF Gentle, drive
<1>10. CASE Disrupted(r)  BY <1>1, <1>2, <1>3, <1>10, DisruptedIs, TellsIs DEF Gentle
<1> QED  BY <1>5, <1>6, <1>7, <1>8, <1>9, <1>10

LEMMA GentleLate ==
  ASSUME Shape, Types, NEW r \in Resolves,
         \/ Resume(r) \/ Again(r) \/ Poll(r) \/ RootMade(r) \/ Searched(r)
         \/ Scan(r) \/ Rescan(r) \/ Finish(r) \/ Metas(r) \/ Locate(r)
  PROVE  Gentle(r)
<1>1. dir' = dir => DirGrows  BY DEF DirGrows
<1>2. UNCHANGED globals => session' = session  BY DEF globals
<1>3. CASE Resume(r)  BY <1>1, <1>2, <1>3, ResumeIs, TellsIs DEF Gentle, Calm, drive
<1>4. CASE Again(r)  BY <1>1, <1>2, <1>4, AgainIs, TellsIs DEF Gentle, drive
<1>5. CASE Poll(r)  BY <1>1, <1>2, <1>5, PollIs, TellsIs DEF Gentle
<1>6. CASE RootMade(r)  BY <1>1, <1>2, <1>6, RootMadeIs, TellsIs DEF Gentle
<1>7. CASE Searched(r)  BY <1>1, <1>2, <1>7, SearchedIs, TellsIs DEF Gentle, drive
<1>8. CASE Scan(r) \/ Rescan(r)  BY <1>1, <1>2, <1>8, ScanIs, TellsIs DEF Gentle, Calm, drive
<1>9. CASE Finish(r)  BY <1>1, <1>2, <1>9, FinishIs, TellsIs DEF Gentle, Calm, drive
<1>10. CASE Metas(r)
  <2>1. /\ res[r].at = "metas" /\ Others(r) /\ UNCHANGED <<globals, drive>>
        /\ \E free : Fails(r, free)
    BY <1>10, MetasIs
  <2> QED  BY <1>1, <1>2, <2>1, TellsIs DEF Gentle, drive
<1>11. CASE Locate(r)
  <2>1. res[r].at = "locate" /\ Others(r) /\ Calm  BY <1>11, LocateIs
  <2> QED  BY <1>1, <1>2, <2>1, TellsIs DEF Gentle, Calm, drive
<1> QED  BY <1>3, <1>4, <1>5, <1>6, <1>7, <1>8, <1>9, <1>10, <1>11

LEMMA GentleStep ==
  ASSUME Shape, Types, NEW r \in Resolves, Step(r)
  PROVE  Gentle(r) \/ Return(r)
BY GentleEarly, GentleTransfer, GentleLate DEF Step

-----------------------------------------------------------------------------
(* Calls that are alone *)

\* Calls that are on their way together know it, and nobody else's refresh is
\* heard of by a call that was alone.
OverlapLive ==
  /\ \A r \in Resolves : "stomped" \in trouble[r] => "overlap" \in trouble[r]
  /\ \A r, q \in Active : q # r => "overlap" \in trouble[r]

\* Nothing spoiled the call.
Alone(r) == trouble[r] \intersect {"overlap", "fault", "switch", "clash"} = {}

LEMMA TellsGrows ==
  ASSUME Shape, NEW r \in Resolves, Tells(r)
  PROVE  /\ \A q \in Resolves : trouble[q] \subseteq trouble'[q]
         /\ \A q \in Resolves : "stomped" \in trouble'[q] =>
              "stomped" \in trouble[q] \/ (q \in Active /\ q # r)
BY DEF Tells, Note, Active, Shape

LEMMA OverlapStep ==
  ASSUME Shape, Types, OverlapLive, [Next]_vars
  PROVE  OverlapLive'
<1>1. ASSUME NEW r \in Resolves, Gentle(r)
      PROVE  OverlapLive'
  <2>1. /\ r \in Active
        /\ \A q \in Resolves : q # r => res'[q] = res[q]
    BY <1>1 DEF Gentle, Active, Others
  <2>2. \A q \in Active' : q \in Active  BY <2>1 DEF Active
  <2> QED  BY <1>1, <2>1, <2>2, TellsGrows DEF OverlapLive, Gentle, Active
<1>2. ASSUME NEW r \in Resolves, Return(r)
      PROVE  OverlapLive'
  <2>1. /\ trouble' = [trouble EXCEPT ![r] = {}] /\ res'[r].at = "gone"
        /\ \A q \in Resolves : q # r => res'[q] = res[q]
    BY <1>2, ReturnIs DEF Ends, Others
  <2> QED  BY <2>1 DEF OverlapLive, Active, Shape
<1>3. ASSUME NEW r \in Resolves, Start(r)
      PROVE  OverlapLive'
  <2>1. /\ res[r].at = "new" /\ \A q \in Resolves : q # r => res'[q] = res[q]
    BY <1>3, StartIs DEF Start, At, Others
  <2>2. CASE Active = {} /\ UNCHANGED trouble
    <3>1. \A q \in Active' : q = r  BY <2>1, <2>2 DEF Active
    <3> QED  BY <2>2, <3>1 DEF OverlapLive
  <2>3. CASE Note(r, {"overlap"}, {"overlap"})
    <3>1. /\ \A q \in Resolves : trouble[q] \subseteq trouble'[q]
          /\ \A q \in Resolves : "stomped" \in trouble'[q] => "stomped" \in trouble[q]
          /\ \A q \in Active \union {r} : "overlap" \in trouble'[q]
      BY <2>3 DEF Note, Active, Shape
    <3>2. \A q \in Active' : q \in Active \union {r}  BY <2>1 DEF Active
    <3> QED  BY <3>1, <3>2 DEF OverlapLive
  <2> QED  BY <1>3, <2>2, <2>3 DEF Start
<1>4. ASSUME NEW t \in tasks, TaskDone(t)
      PROVE  OverlapLive'
  <2> DEFINE mine == IF t.by \in Active THEN Clash(CopyOf(t.acct, t.item, t.by)) ELSE {}
  <2>1. res' = res /\ Note(t.by, mine, {"overlap"}) /\ "stomped" \notin mine
    BY <1>4 DEF TaskDone, Clash
  <2> HIDE DEF mine
  <2>2. /\ \A q \in Resolves : trouble[q] \subseteq trouble'[q]
        /\ \A q \in Resolves : "stomped" \in trouble'[q] => "stomped" \in trouble[q]
    BY <2>1 DEF Note, Active, Shape
  <2> QED  BY <2>1, <2>2 DEF OverlapLive, Active
<1>5. ASSUME NEW a \in Accounts, Load(a)
      PROVE  OverlapLive'
  <2>1. /\ res' = res
        /\ \A q \in Resolves : trouble[q] \subseteq trouble'[q]
        /\ \A q \in Resolves : "stomped" \in trouble'[q] => "stomped" \in trouble[q]
    BY <1>5 DEF Load, Shape
  <2> QED  BY <2>1 DEF OverlapLive, Active
<1>6. CASE UNCHANGED vars  BY <1>6 DEF vars, OverlapLive, Active
<1>7. CASE \E r \in Resolves : Step(r)  BY <1>1, <1>2, <1>7, GentleStep
<1> QED  BY <1>3, <1>4, <1>5, <1>6, <1>7 DEF Next
-----------------------------------------------------------------------------
(* What a call found *)

\* A copy may have been taken for another one's in the search.
Excuse(r) == trouble[r] \intersect {"clash", "overlap", "fault"} # {}

\* What the call found is one of the files, and the one asked for unless the
\* search has an excuse.
FileIn(files, excuse, own, item) ==
  \E f \in files :
    /\ f.id = own.id /\ f.name = own.name /\ f.copy = own.copy
    /\ (f.name = item.name /\ f.size = item.size) \/ (own.how = "search" /\ excuse)

\* A result that still counts is of such a file, and its link leads there.
Served(files, excuse, x, open) ==
  /\ open /\ x.error = "none" => FileIn(files, excuse, x.own, x.item)
  /\ x.link \in {None, Content(x.item)} \/ (x.own.how = "search" /\ excuse)

\* What a call knows of the account, as long as the session stays.
StayOK(r) ==
  LET m == res[r]
  IN /\ m.at \in Asking => m.via.acct = session
     /\ m.known \subseteq dir[session]
     /\ m.at \in {"stream", "recode"} => FileIn(dir[session], Excuse(r), m.own, Item(r))
     /\ \A j \in DOMAIN m.out : Served(dir[session], Excuse(r), m.out[j], m.at # "over")

StayLive == \A r \in Active : "switch" \notin trouble[r] => StayOK(r)

\* The newest file of the account is the copy of the call's file.
Fresh(r) ==
  \E f \in dir[session] : /\ f.id = next - 1 /\ f.copy = 0
                          /\ f.name = Item(r).name /\ f.size = Item(r).size

\* A call that is alone: its session is the one of its share,
SessionOK(r) ==
  LET m == res[r]
  IN /\ m.at \in Looping \ {"session"} => m.sess = ShareOf[r] /\ tsid = ShareOf[r]
     /\ m.at = "transfer" => m.via.tsid = ShareOf[r]
     /\ m.made => session \in root

\* its copy is the one under way or the newest file,
CopyOK(r) ==
  LET m == res[r]
  IN /\ m.at = "search" => Fresh(r)
     /\ m.at = "task" => Running(r) \/ Fresh(r)
     /\ \A t \in tasks : t.by = r => m.at = "task" /\ t.item = Item(r) /\ t.acct = session

\* nothing it is done with failed, but for what was refused to the last,
Answered(happened, x) ==
  x.item.kind # "folder" => x.error = "none" \/ (x.error = "refused" /\ "refused" \in happened)

Led(x) == x.item.kind # "folder" /\ x.error = "none" => x.link = Content(x.item)

LinksOK(r) ==
  LET m == res[r]
  IN /\ m.at # "failed"
     /\ Action[r] = "d" =>
          /\ m.at \notin {"stream", "recode"}
          /\ \A j \in DOMAIN m.out :
               /\ Answered(trouble[r], m.out[j])
               /\ m.at \in {"locate", "over"} => Led(m.out[j])

\* and a refusal with the last profile was one to ask for verification.
AskedOK(r) == res[r].at \in {"pause", "again"} /\ res[r].k = Profiles => "refused" \in trouble[r]

AloneOK(r) == SessionOK(r) /\ CopyOK(r) /\ LinksOK(r) /\ AskedOK(r)

AloneLive == \A r \in Active : Alone(r) => AloneOK(r)

LinksLive == OverlapLive /\ StayLive /\ AloneLive

-----------------------------------------------------------------------------

\* The session stays; files and excuses only grow.
Kept(r) == /\ session' = session /\ dir[session] \subseteq dir'[session]
           /\ trouble[r] \subseteq trouble'[r]

LEMMA KeptIs ==
  ASSUME Shape, Types, NEW r \in Resolves, Gentle(r)
  PROVE  \A q \in Resolves : Kept(q)
BY TellsGrows DEF Gentle, Kept, Types, WorldOK, DirGrows

LEMMA FileStays ==
  ASSUME NEW r, Kept(r), NEW own, NEW item, FileIn(dir[session], Excuse(r), own, item)
  PROVE  FileIn(dir'[session'], Excuse(r)', own, item)
<1>1. Excuse(r) => Excuse(r)'  BY DEF Kept, Excuse
<1>2. PICK f \in dir[session] :
        /\ f.id = own.id /\ f.name = own.name /\ f.copy = own.copy
        /\ (f.name = item.name /\ f.size = item.size) \/ (own.how = "search" /\ Excuse(r))
  BY DEF FileIn
<1>3. f \in dir'[session']  BY DEF Kept
<1> QED  BY <1>1, <1>2, <1>3 DEF FileIn

LEMMA ServedStays ==
  ASSUME NEW r, Kept(r), NEW x, NEW open, NEW open2, open2 => open,
         Served(dir[session], Excuse(r), x, open)
  PROVE  Served(dir'[session'], Excuse(r)', x, open2)
<1>1. Excuse(r) => Excuse(r)'  BY DEF Kept, Excuse
<1> QED  BY <1>1, FileStays DEF Served

LEMMA StaysAside ==
  ASSUME NEW r, Kept(r), res'[r] = res[r], StayOK(r)
  PROVE  StayOK(r)'
<1>1. \A j \in DOMAIN res[r].out :
        Served(dir'[session'], Excuse(r)', res[r].out[j], res[r].at # "over")
  BY ServedStays DEF StayOK
<1>2. res[r].at \in {"stream", "recode"} =>
        FileIn(dir'[session'], Excuse(r)', res[r].own, Item(r))
  BY FileStays DEF StayOK
<1>3. Item(r)' = Item(r)  BY DEF Item
<1>4. res[r].known \subseteq dir'[session']  BY DEF StayOK, Kept
<1>5. res[r].at \in Asking => res[r].via.acct = session'  BY DEF StayOK, Kept
<1> QED  BY <1>1, <1>2, <1>3, <1>4, <1>5 DEF StayOK

\* The call goes on with its file.
LEMMA StaysStay ==
  ASSUME NEW r, Kept(r), StayOK(r), NEW phase, Stays(r, phase), res[r].at # "over",
         phase \in Asking => res'[r].via.acct = session,
         phase \in {"stream", "recode"} =>
           FileIn(dir'[session'], Excuse(r)', res'[r].own, Item(r))
  PROVE  StayOK(r)'
<1>1. \A j \in DOMAIN res[r].out :
        Served(dir'[session'], Excuse(r)', res[r].out[j], res'[r].at # "over")
  BY ServedStays DEF StayOK
<1>2. Item(r)' = Item(r)  BY DEF Item, Stays
<1>3. res[r].known \subseteq dir'[session']  BY DEF StayOK, Kept
<1>4. session' = session  BY DEF Kept
<1> QED  BY <1>1, <1>2, <1>3, <1>4 DEF StayOK, Stays

\* It is done with its file.
LEMMA MovesStay ==
  ASSUME NEW r, Kept(r), StayOK(r), NEW x, Moves(r, x), res[r].at # "over", IsSeq(res[r].out),
         Served(dir'[session'], Excuse(r)', x, TRUE)
  PROVE  StayOK(r)'
<1> DEFINE s == res[r].out
<1>1. \A j \in DOMAIN s : Served(dir'[session'], Excuse(r)', s[j], TRUE)
  BY ServedStays DEF StayOK
<1>2. \A j \in DOMAIN Append(s, x) : Append(s, x)[j] = x \/ (j \in DOMAIN s /\ Append(s, x)[j] = s[j])
  BY AppendIs
<1>3. \A j \in DOMAIN Append(s, x) : Served(dir'[session'], Excuse(r)', Append(s, x)[j], TRUE)
  BY <1>1, <1>2
<1>4. res'[r].out = Append(s, x)  BY DEF Moves
<1>5. \A j \in DOMAIN res'[r].out :
        Served(dir'[session'], Excuse(r)', res'[r].out[j], res'[r].at # "over")
  <2>1. (res'[r].at # "over") = TRUE  BY DEF Moves
  <2> QED  BY <1>3, <1>4, <2>1
<1>6. res'[r].known \subseteq dir'[session']  BY DEF StayOK, Kept, Moves
<1> QED  BY <1>5, <1>6 DEF StayOK, Moves, Asking

\* A result without a file is served by none.
LEMMA NoneServed ==
  ASSUME NEW files, NEW excuse, NEW item, NEW own, NEW error, error # "none"
  PROVE  Served(files, excuse, Result(item, own, error), TRUE)
BY MarksIs DEF Served

LEMMA FailsStay ==
  ASSUME NEW r, Kept(r), StayOK(r), NEW error, Moves(r, Result(Item(r), NoOwn, error)),
         error # "none", res[r].at # "over", IsSeq(res[r].out)
  PROVE  StayOK(r)'
BY MovesStay, NoneServed

\* It has its file.
LEMMA FindsStay ==
  ASSUME NEW r, Kept(r), StayOK(r), NEW f, NEW how, Finds(r, f, how), res[r].at # "over",
         IsSeq(res[r].out), f \in dir'[session'],
         (f.name = Item(r).name /\ f.size = Item(r).size) \/ (how = "search" /\ Excuse(r)')
  PROVE  StayOK(r)'
<1>1. FileIn(dir'[session'], Excuse(r)', Own(f, how), Item(r))  BY DEF FileIn, Own
<1>2. CASE Moves(r, Result(Item(r), Own(f, how), "none"))
  <2>1. Served(dir'[session'], Excuse(r)', Result(Item(r), Own(f, how), "none"), TRUE)
    BY <1>1, MarksIs DEF Served
  <2> QED  BY <1>2, <2>1, MovesStay
<1>3. CASE Stays(r, "stream") /\ res'[r].own = Own(f, how)
  BY <1>1, <1>3, StaysStay DEF Asking
<1> QED  BY <1>2, <1>3 DEF Finds

\* It ends.
LEMMA EndsStay ==
  ASSUME NEW r, NEW phase \in {"over", "failed"}, NEW out, Ends(r, phase, out),
         \A j \in DOMAIN out : Served(dir'[session'], Excuse(r)', out[j], phase # "over")
  PROVE  StayOK(r)'
BY DEF StayOK, Ends, Asking

LEMMA SurrendersStay ==
  ASSUME NEW r, Surrenders(r)
  PROVE  StayOK(r)'
BY EndsStay, EmptyIs DEF Surrenders

\* A link by the id or the path of a file leads to the one that was found.
LEMMA LinkServed ==
  ASSUME NEW files, Apart(files), NEW excuse, NEW x, DOMAIN x = Marks, x.error = "none",
         Served(files, excuse, x, TRUE),
         NEW S, \/ S = {f \in files : f.id = x.own.id}
                \/ S = {f \in files : f.name = x.own.name /\ f.copy = x.own.copy}
  PROVE  /\ Served(files, excuse, Linked(x, S), TRUE)
         /\ S # {}
<1>1. PICK f \in files :
        /\ f.id = x.own.id /\ f.name = x.own.name /\ f.copy = x.own.copy
        /\ (f.name = x.item.name /\ f.size = x.item.size) \/ (x.own.how = "search" /\ excuse)
  BY DEF Served, FileIn
<1>2. S = {f}  BY <1>1 DEF Apart
<1>3. (CHOOSE g \in S : TRUE) = f  BY <1>2
<1>4. /\ Linked(x, S).item = x.item /\ Linked(x, S).own = x.own
      /\ Linked(x, S).error = x.error /\ Linked(x, S).link = Content(f)
  BY <1>3, LinkedIs
<1>5. Content(f) = Content(x.item) \/ (x.own.how = "search" /\ excuse)
  BY <1>1 DEF Content
<1>6. Served(files, excuse, Linked(x, S), TRUE)  BY <1>4, <1>5 DEF Served
<1> QED  BY <1>2, <1>6

\* Without an excuse it leads to the file that was asked for.
LEMMA LinkRight ==
  ASSUME NEW files, Apart(files), NEW x, DOMAIN x = Marks, x.error = "none",
         Served(files, FALSE, x, TRUE),
         NEW S, \/ S = {f \in files : f.id = x.own.id}
                \/ S = {f \in files : f.name = x.own.name /\ f.copy = x.own.copy}
  PROVE  /\ S # {}
         /\ Linked(x, S).link = Content(x.item)
<1>1. PICK f \in files :
        /\ f.id = x.own.id /\ f.name = x.own.name /\ f.copy = x.own.copy
        /\ f.name = x.item.name /\ f.size = x.item.size
  BY DEF Served, FileIn
<1>2. S = {f}  BY <1>1 DEF Apart
<1>3. (CHOOSE g \in S : TRUE) = f  BY <1>2
<1>4. Linked(x, S).link = Content(f)  BY <1>3, LinkedIs
<1>5. Content(f) = Content(x.item)  BY <1>1 DEF Content
<1> QED  BY <1>2, <1>4, <1>5

LEMMA DropServed ==
  ASSUME NEW files, NEW excuse, NEW x, DOMAIN x = Marks, Served(files, excuse, x, TRUE)
  PROVE  Served(files, excuse, [x EXCEPT !.error = "nolink"], TRUE)
<1> DEFINE y == [x EXCEPT !.error = "nolink"]
<1>1. y.error = "nolink" /\ y.link = x.link /\ y.item = x.item /\ y.own = x.own
  BY MarksIs
<1> QED  BY <1>1 DEF Served

LEMMA AtIs ==
  ASSUME Types, NEW r \in Resolves
  PROVE  /\ IsSeq(res[r].out) /\ \A j \in DOMAIN res[r].out : DOMAIN res[r].out[j] = Marks
         /\ session \in Accounts /\ Apart(dir[session])
         /\ \A f \in dir[session] : f.id \in 1..(next - 1)
BY DEF Types, CallsOK, CallOK, OutOK, WorldOK, DriveOK

\* The requests before the loop.
LEMMA OpeningStay ==
  ASSUME Shape, Types, NEW r \in Resolves, StayOK(r), Kept(r),
         Refreshed(r) \/ SessionOpened(r) \/ PreListed(r)
  PROVE  StayOK(r)'
<1>1. CASE Refreshed(r)
  BY <1>1, RefreshedIs, SurrendersStay, StaysStay DEF Asking
<1>2. CASE SessionOpened(r)
  <2>1. CASE Surrenders(r)  BY <2>1, SurrendersStay
  <2>2. CASE Ends(r, "over", Listing(r))
    <3>1. \A j \in DOMAIN Listing(r) : Listing(r)[j].link = None
      BY MarksIs DEF Listing
    <3>2. \A j \in DOMAIN Listing(r) :
            Served(dir'[session'], Excuse(r)', Listing(r)[j], "over" # "over")
      BY <3>1 DEF Served
    <3> QED  BY <2>2, <3>2, EndsStay
  <2>3. CASE Stays(r, "prelist") /\ res'[r].via = Cookies
    <3>1. res[r].at # "over"  BY <1>2, SessionOpenedIs
    <3> QED  BY <2>3, <3>1, CookiesAre, StaysStay
  <2> QED  BY <1>2, <2>1, <2>2, <2>3, SessionOpenedIs
<1>3. CASE PreListed(r)
  <2> DEFINE a == res[r].via.acct
  <2>1. /\ res[r].at = "prelist" /\ UNCHANGED dir /\ res'[r].at = "item"
        /\ res'[r].out = res[r].out
        /\ res'[r].known = Newest(dir[a], ListPage) \/ res'[r].known = res[r].known
    BY <1>3, PreListedIs DEF drive
  <2>2. a = session  BY <2>1 DEF StayOK, Asking
  <2>3. res'[r].known \subseteq dir'[session']
    BY <2>1, <2>2 DEF Kept, StayOK, Newest
  <2>4. \A j \in DOMAIN res[r].out :
          Served(dir'[session'], Excuse(r)', res[r].out[j], res'[r].at # "over")
    BY <2>1, ServedStays DEF StayOK
  <2> QED  BY <2>1, <2>3, <2>4 DEF StayOK, Asking
<1> QED  BY <1>1, <1>2, <1>3

LEMMA TakeStay ==
  ASSUME Shape, Types, NEW r \in Resolves, StayOK(r), Kept(r),
         TakeFolder(r) \/ TakeKnown(r) \/ TakeNew(r)
  PROVE  StayOK(r)'
<1>1. res[r].at = "item" /\ IsSeq(res[r].out) /\ Calm
  BY AtIs, TakeFolderIs, TakeKnownIs, TakeNewIs
<1>2. CASE TakeFolder(r)  BY <1>1, <1>2, TakeFolderIs, FailsStay
<1>3. CASE TakeKnown(r)
  <2>1. PICK f \in Known(r) : Finds(r, f, "known")  BY <1>3, TakeKnownIs
  <2>2. f \in dir'[session'] /\ f.name = Item(r).name /\ f.size = Item(r).size
    BY DEF Known, StayOK, Kept
  <2> QED  BY <1>1, <2>1, <2>2, FindsStay
<1>4. CASE TakeNew(r)
  <2>1. Stays(r, "transfer") /\ res'[r].via.acct = session  BY <1>4, TakeNewIs DEF Via
  <2> QED  BY <1>1, <2>1, StaysStay
<1> QED  BY <1>2, <1>3, <1>4

LEMMA TransferStay ==
  ASSUME Shape, Types, NEW r \in Resolves, StayOK(r), Kept(r),
         \/ Copied(r) \/ Queued(r) \/ Claimed(r) \/ NoRoot(r) \/ Refused(r) \/ Disrupted(r)
  PROVE  StayOK(r)'
<1>1. res[r].at = "transfer" /\ IsSeq(res[r].out)
  BY AtIs, CopiedIs, QueuedIs, ClaimedIs, NoRootIs, RefusedIs, DisruptedIs
<1>2. res[r].via.acct = session /\ session \in Accounts  BY <1>1, AtIs DEF StayOK, Asking
<1>3. Seeks(r) => StayOK(r)'  BY <1>1, CookiesAre, StaysStay DEF Seeks
<1>4. Moves(r, Result(Item(r), NoOwn, "transfer")) => StayOK(r)'  BY <1>1, FailsStay
<1>5. CASE Copied(r)
  <2>1. Copy(r).name = Item(r).name /\ Copy(r).size = Item(r).size
    BY <1>1, <1>2, CopyIs DEF Copying
  <2>2. Store(session, Copy(r))  BY <1>2, <1>5, CopiedIs
  <2>3. Copy(r) \in dir'[session']
    BY <1>2, <2>2 DEF Store, Kept, Types, DriveOK
  <2> QED  BY <1>1, <1>3, <1>5, <2>1, <2>3, CopiedIs, FindsStay
<1>6. CASE Queued(r)  BY <1>1, <1>6, QueuedIs, StaysStay DEF Asking
<1>7. CASE Claimed(r)  BY <1>3, <1>7, ClaimedIs
<1>8. CASE NoRoot(r)  BY <1>1, <1>4, <1>8, NoRootIs, CookiesAre, StaysStay
<1>9. CASE Refused(r)  BY <1>1, <1>4, <1>9, RefusedIs, StaysStay DEF Asking
<1>10. CASE Disrupted(r)  BY <1>4, <1>10, DisruptedIs
<1> QED  BY <1>5, <1>6, <1>7, <1>8, <1>9, <1>10

\* The newest file is what a search for it finds.
LEMMA FreshFound ==
  ASSUME Types, NEW r \in Resolves, res[r].via.acct = session, Fresh(r)
  PROVE  /\ Like(r) # {}
         /\ \A f \in Like(r) : (\A g \in Like(r) : g.id <= f.id) =>
              f.name = Item(r).name /\ f.size = Item(r).size
<1>1. /\ Apart(dir[session]) /\ \A f \in dir[session] : f.id \in 1..(next - 1)
      /\ next \in Nat
  BY AtIs DEF Types, DriveOK
<1>2. PICK g \in dir[session] : /\ g.id = next - 1 /\ g.copy = 0
                                /\ g.name = Item(r).name /\ g.size = Item(r).size
  BY DEF Fresh
<1>3. {h \in dir[session] : h.id > g.id} = {}  BY <1>1, <1>2
<1>4. g \in Newest(dir[session], SearchPage)
  <2>1. Cardinality({}) < SearchPage  BY FS_EmptySet, TransferAssumption
  <2> QED  BY <1>3, <2>1 DEF Newest
<1>5. g \in Like(r)  BY <1>2, <1>4 DEF Like, Alike
<1>6. ASSUME NEW f \in Like(r), \A h \in Like(r) : h.id <= f.id
      PROVE  f.name = Item(r).name /\ f.size = Item(r).size
  <2>1. f \in dir[session]  BY DEF Like, Newest
  <2>2. f.id = g.id  BY <1>1, <1>2, <1>5, <1>6, <2>1
  <2> QED  BY <1>1, <1>2, <2>1, <2>2 DEF Apart
<1> QED  BY <1>5, <1>6

LEMMA LaterStay ==
  ASSUME Shape, Types, NEW r \in Resolves, StayOK(r), Kept(r),
         res[r].at = "search" => Excuse(r) \/ Fresh(r),
         \/ Resume(r) \/ Again(r) \/ RootMade(r) \/ Poll(r) \/ Searched(r)
         \/ Scan(r) \/ Rescan(r)
  PROVE  StayOK(r)'
<1>1. IsSeq(res[r].out)  BY AtIs
<1>2. \A error : Moves(r, Result(Item(r), NoOwn, error)) /\ error # "none" /\ res[r].at # "over"
        => StayOK(r)'
  BY <1>1, FailsStay
<1>3. CASE Resume(r)  BY <1>3, ResumeIs, CookiesAre, StaysStay
<1>4. CASE Again(r)  BY <1>2, <1>4, AgainIs, StaysStay DEF Kept
<1>5. CASE RootMade(r)
  <2>1. Via.acct = session  BY DEF Via
  <2> QED  BY <1>2, <1>5, <2>1, RootMadeIs, StaysStay
<1>6. CASE Poll(r)  BY <1>2, <1>6, PollIs, CookiesAre, StaysStay DEF Seeks, Asking
<1>7. CASE Searched(r)
  <2>1. res[r].at = "search" /\ res[r].via.acct = session
    BY <1>7, SearchedIs DEF StayOK, Asking
  <2>2. CASE \E f \in Like(r) : (\A g \in Like(r) : g.id <= f.id) /\ Finds(r, f, "search")
    <3>1. PICK f \in Like(r) : (\A g \in Like(r) : g.id <= f.id) /\ Finds(r, f, "search")
      BY <2>2
    <3>2. f \in dir'[session']  BY <2>1 DEF Like, Newest, Kept
    <3>3. (f.name = Item(r).name /\ f.size = Item(r).size) \/ Excuse(r)'
      <4>1. Excuse(r) => Excuse(r)'  BY DEF Kept, Excuse
      <4> QED  BY <2>1, <3>1, <4>1, FreshFound
    <3> QED  BY <1>1, <2>1, <3>1, <3>2, <3>3, FindsStay
  <2> QED  BY <1>2, <1>7, <2>1, <2>2, SearchedIs
<1>8. CASE Scan(r) \/ Rescan(r)
  <2>1. res[r].at \in {"stream", "recode"}  BY <1>8, ScanIs
  <2>2. FileIn(dir'[session'], Excuse(r)', res[r].own, Item(r))
    BY <2>1, FileStays DEF StayOK
  <2>3. CASE Stays(r, "recode") /\ res'[r].own = res[r].own
    BY <2>1, <2>2, <2>3, StaysStay DEF Asking
  <2>4. ASSUME NEW x, Moves(r, x), x.item = Item(r), x.own = res[r].own, x.link = None
        PROVE  StayOK(r)'
    <3>1. Served(dir'[session'], Excuse(r)', x, TRUE)  BY <2>2, <2>4 DEF Served
    <3> QED  BY <1>1, <2>1, <2>4, <3>1, MovesStay
  <2> QED  BY <1>8, <2>3, <2>4, ScanIs
<1> QED  BY <1>3, <1>4, <1>5, <1>6, <1>7, <1>8

\* The links of the files lead where they did, or to what was found.
LEMMA LinkStay ==
  ASSUME Shape, Types, NEW r \in Resolves, StayOK(r), Kept(r), Finish(r) \/ Metas(r) \/ Locate(r)
  PROVE  StayOK(r)'
<1> DEFINE out == res[r].out
<1>1. /\ \A j \in DOMAIN out : DOMAIN out[j] = Marks
      /\ session \in Accounts /\ Apart(dir[session])
  BY AtIs
<1>2. res[r].at \in {"item", "metas", "locate"}  BY FinishIs, MetasIs, LocateIs
<1>3. \A j \in DOMAIN out : Served(dir[session], Excuse(r), out[j], TRUE)
  BY <1>2 DEF StayOK
<1>4. \A x, open : Served(dir[session], Excuse(r), x, TRUE)
                     => Served(dir'[session'], Excuse(r)', x, open)
  BY ServedStays
<1>5. CASE Finish(r)
  <2>1. Ends(r, "over", out) => StayOK(r)'  BY <1>3, <1>4, EndsStay
  <2>2. CASE /\ res'[r].at = "metas" /\ res'[r].out = out
             /\ res'[r].known = {} /\ res'[r].via = Cookies
    BY <1>3, <1>4, <2>2, CookiesAre DEF StayOK, Kept
  <2> QED  BY <1>5, <2>1, <2>2, FinishIs
<1>6. CASE Metas(r)
  <2>1. res[r].at = "metas" /\ res[r].via.acct = session
    BY <1>6, MetasIs DEF StayOK, Asking
  <2>2. PICK got, linked :
          /\ got \in SUBSET {i \in Good(out) : ById(r, out[i]) # {}}
          /\ linked = [i \in DOMAIN out |->
                         IF i \in got THEN Linked(out[i], ById(r, out[i]))
                         ELSE IF i \in Good(out) /\ Action[r] = "d"
                         THEN [out[i] EXCEPT !.error = "nolink"] ELSE out[i]]
          /\ \/ Ends(r, "over", linked)
             \/ /\ res'[r].at = "locate" /\ res'[r].out = linked
                /\ res'[r].known = res[r].known /\ res'[r].via = Cookies
    BY <1>6, MetasIs
  <2>3. ASSUME NEW i \in DOMAIN out
        PROVE  Served(dir[session], Excuse(r), linked[i], TRUE)
    <3>1. CASE i \in got
      <4>1. out[i].error = "none" /\ ById(r, out[i]) = {f \in dir[session] : f.id = out[i].own.id}
        BY <2>1, <2>2, <3>1 DEF Good, ById
      <4>2. Served(dir[session], Excuse(r), Linked(out[i], ById(r, out[i])), TRUE)
        BY <1>1, <1>3, <4>1, LinkServed
      <4> QED  BY <2>2, <3>1, <4>2
    <3>2. CASE i \notin got
      BY <1>1, <1>3, <2>2, <3>2, DropServed
    <3> QED  BY <3>1, <3>2
  <2>4. DOMAIN linked = DOMAIN out  BY <2>2
  <2>5. \A i \in DOMAIN linked : \A open : Served(dir'[session'], Excuse(r)', linked[i], open)
    BY <1>4, <2>3, <2>4
  <2>6. Ends(r, "over", linked) => StayOK(r)'  BY <2>5, EndsStay
  <2>7. CASE /\ res'[r].at = "locate" /\ res'[r].out = linked
             /\ res'[r].known = res[r].known /\ res'[r].via = Cookies
    <3>1. res'[r].known \subseteq dir'[session']  BY <2>7 DEF StayOK, Kept
    <3> QED  BY <2>5, <2>7, <3>1, CookiesAre DEF StayOK, Kept
  <2> QED  BY <2>2, <2>6, <2>7
<1>7. CASE Locate(r)
  <2>1. res[r].at = "locate" /\ res[r].via.acct = session
    BY <1>7, LocateIs DEF StayOK, Asking
  <2>2. PICK got, linked :
          /\ got \in SUBSET {i \in Good(out) : ByPath(r, out[i]) # {}}
          /\ linked = [i \in DOMAIN out |->
                         IF i \in got THEN Linked(out[i], ByPath(r, out[i])) ELSE out[i]]
          /\ Ends(r, "over", linked)
    BY <1>7, LocateIs
  <2>3. ASSUME NEW i \in DOMAIN out
        PROVE  Served(dir[session], Excuse(r), linked[i], TRUE)
    <3>1. CASE i \in got
      <4>1. /\ out[i].error = "none"
            /\ ByPath(r, out[i]) = {f \in dir[session] : f.name = out[i].own.name
                                                         /\ f.copy = out[i].own.copy}
        BY <2>1, <2>2, <3>1 DEF Good, ByPath
      <4>2. Served(dir[session], Excuse(r), Linked(out[i], ByPath(r, out[i])), TRUE)
        BY <1>1, <1>3, <4>1, LinkServed
      <4> QED  BY <2>2, <3>1, <4>2
    <3>2. CASE i \notin got  BY <1>3, <2>2, <3>2
    <3> QED  BY <3>1, <3>2
  <2>4. DOMAIN linked = DOMAIN out  BY <2>2
  <2>5. \A i \in DOMAIN linked : \A open : Served(dir'[session'], Excuse(r)', linked[i], open)
    BY <1>4, <2>3, <2>4
  <2> QED  BY <2>2, <2>5, EndsStay
<1> QED  BY <1>5, <1>6, <1>7

-----------------------------------------------------------------------------
(* Steps of a call that is alone *)

LEMMA FailsNot ==
  ASSUME NEW r \in Resolves, Alone(r)'
  PROVE  /\ \A free : Fails(r, free) => free
         /\ ~Note(r, {"fault"}, {})
<1>1. ~Note(r, {"fault"}, {})  BY DEF Note, Alone
<1>2. ASSUME NEW free, Fails(r, free), ~free
      PROVE  FALSE
  BY <1>1, <1>2 DEF Fails
<1> QED  BY <1>1, <1>2

\* Nothing of the call's is under way.
Landed(r) == \A t \in tasks' : t.by # r

LEMMA LandedIs ==
  ASSUME NEW r, CopyOK(r), res[r].at # "task", tasks' \subseteq tasks
  PROVE  Landed(r)
BY DEF CopyOK, Landed

\* Where a call that is alone is in the loop.
Within(r) == /\ AloneOK(r) /\ res[r].at \in Looping \ {"session"}
             /\ IsSeq(res[r].out) /\ tsid' = tsid /\ trouble[r] \subseteq trouble'[r]

\* Its history keeps what it holds, so that a result stays answered.
LEMMA AnsweredStays ==
  ASSUME NEW r, trouble[r] \subseteq trouble'[r], NEW x, Answered(trouble[r], x)
  PROVE  Answered(trouble'[r], x)
BY DEF Answered

LEMMA AloneMoves ==
  ASSUME NEW r, Within(r), Landed(r), NEW x, Moves(r, x),
         Answered(trouble'[r], x)
  PROVE  AloneOK(r)'
<1>1. SessionOK(r)'  BY DEF Within, AloneOK, SessionOK, Moves, Afresh
<1>2. CopyOK(r)'  BY DEF CopyOK, Landed, Moves
<1>3. LinksOK(r)'
  <2> DEFINE s == res[r].out
  <2>1. \A j \in DOMAIN Append(s, x) :
          Append(s, x)[j] = x \/ (j \in DOMAIN s /\ Append(s, x)[j] = s[j])
    BY AppendIs DEF Within
  <2>2. res'[r].out = Append(s, x) /\ res'[r].at = "item"  BY DEF Moves
  <2>3. Action[r] = "d" => \A j \in DOMAIN s : Answered(trouble'[r], s[j])
    BY AnsweredStays DEF Within, AloneOK, LinksOK
  <2> QED  BY <2>1, <2>2, <2>3 DEF LinksOK
<1>4. AskedOK(r)'  BY DEF AskedOK, Moves
<1> QED  BY <1>1, <1>2, <1>3, <1>4 DEF AloneOK

\* Phases in which nothing is looked for.
LEMMA AloneStays ==
  ASSUME NEW r, Within(r), Landed(r), NEW phase, Stays(r, phase),
         phase \in Held \ {"task", "search"}, res'[r].sess = res[r].sess,
         res'[r].made => session' \in root',
         phase = "transfer" => res'[r].via.tsid = ShareOf[r],
         Action[r] = "d" => phase \notin {"stream", "recode"}, AskedOK(r)'
  PROVE  AloneOK(r)'
<1>1. SessionOK(r)'  BY DEF Within, AloneOK, SessionOK, Stays
<1>2. CopyOK(r)'  BY DEF CopyOK, Landed, Stays, Held
<1>3. LinksOK(r)'  BY AnsweredStays DEF Within, AloneOK, LinksOK, Stays, Held
<1> QED  BY <1>1, <1>2, <1>3 DEF AloneOK

LEMMA AloneSeeks ==
  ASSUME NEW r, Within(r), Landed(r), Seeks(r), Fresh(r)'
  PROVE  AloneOK(r)'
<1>1. SessionOK(r)'  BY DEF Within, AloneOK, SessionOK, Seeks, Stays, Afresh
<1>2. CopyOK(r)'  BY DEF CopyOK, Landed, Seeks, Stays
<1>3. LinksOK(r)'  BY AnsweredStays DEF Within, AloneOK, LinksOK, Seeks, Stays
<1>4. AskedOK(r)'  BY DEF AskedOK, Seeks, Stays
<1> QED  BY <1>1, <1>2, <1>3, <1>4 DEF AloneOK

LEMMA AloneFinds ==
  ASSUME NEW r, Within(r), Landed(r), NEW f, NEW how, Finds(r, f, how)
  PROVE  AloneOK(r)'
<1>1. CASE Moves(r, Result(Item(r), Own(f, how), "none"))
  BY <1>1, AloneMoves, MarksIs DEF Answered
<1>2. CASE Stays(r, "stream") /\ Afresh(r) /\ res'[r].sess = res[r].sess /\ Action[r] = "s"
  BY <1>2, AloneStays DEF Held, Afresh, Stays, AskedOK
<1> QED  BY <1>1, <1>2 DEF Finds

\* A copy that keeps its name is the newest file.
LEMMA StoredFresh ==
  ASSUME Types, NEW r, NEW f, session \in Accounts, session' = session, Store(session, f),
         f.id = next, f.copy = 0, f.name = Item(r)'.name, f.size = Item(r)'.size
  PROVE  Fresh(r)'
<1>1. f \in dir'[session'] /\ next' - 1 = next  BY DEF Types, DriveOK, Store
<1> QED  BY <1>1 DEF Fresh

LEMMA ClashIs ==
  ASSUME NEW r \in Resolves, NEW f, NEW theirs, Note(r, Clash(f), theirs), Alone(r)'
  PROVE  f.copy = 0
<1>1. Clash(f) \subseteq trouble'[r]  BY DEF Note
<1> QED  BY <1>1 DEF Alone, Clash

\* The requests before the loop.
LEMMA AloneOpening ==
  ASSUME Shape, Types, NEW r \in Resolves, AloneOK(r), Alone(r)', ~Spoilt(r), Kept(r),
         Refreshed(r) \/ SessionOpened(r) \/ PreListed(r)
  PROVE  AloneOK(r)'
<1>1. ~Surrenders(r)  BY FailsNot DEF Surrenders
<1>2. CASE Refreshed(r)
  <2>1. Stays(r, "session") /\ Keeps(r) /\ UNCHANGED drive /\ res[r].at = "refresh"
    BY <1>1, <1>2, RefreshedIs
  <2> QED
    BY <2>1, AnsweredStays DEF AloneOK, SessionOK, CopyOK, LinksOK, AskedOK, Stays, Keeps, drive, Kept
<1>3. CASE SessionOpened(r)
  <2>1. /\ tsid' = ShareOf[r] /\ UNCHANGED drive /\ res[r].at = "session"
        /\ \/ Action[r] = "l" /\ Ends(r, "over", Listing(r))
           \/ /\ Stays(r, "prelist") /\ res'[r].sess = ShareOf[r]
              /\ res'[r].made = res[r].made
    BY <1>1, <1>3, SessionOpenedIs, FailsNot
  <2>2. CASE Action[r] = "l" /\ Ends(r, "over", Listing(r))
    BY <2>1, <2>2
       DEF AloneOK, SessionOK, CopyOK, LinksOK, AskedOK, Ends, Afresh, drive, Looping
  <2>3. CASE Stays(r, "prelist") /\ res'[r].sess = ShareOf[r] /\ res'[r].made = res[r].made
    BY <2>1, <2>3, AnsweredStays
       DEF AloneOK, SessionOK, CopyOK, LinksOK, AskedOK, Stays, drive, Kept
  <2> QED  BY <2>1, <2>2, <2>3
<1>4. CASE PreListed(r)
  <2>1. /\ res[r].at = "prelist" /\ UNCHANGED <<globals, drive>>
        /\ res'[r].at = "item" /\ res'[r].out = res[r].out /\ Keeps(r)
    BY <1>4, PreListedIs
  <2> QED
    BY <2>1, AnsweredStays
       DEF AloneOK, SessionOK, CopyOK, LinksOK, AskedOK, Keeps, drive, globals, Looping, Kept
<1> QED  BY <1>2, <1>3, <1>4

LEMMA AloneTake ==
  ASSUME Shape, Types, NEW r \in Resolves, AloneOK(r),
         TakeFolder(r) \/ TakeKnown(r) \/ TakeNew(r)
  PROVE  AloneOK(r)'
<1>1. res[r].at = "item" /\ Calm  BY TakeFolderIs, TakeKnownIs, TakeNewIs
<1>2. Within(r)  BY <1>1, AtIs DEF Within, Looping, Calm, Answers, globals
<1>3. Landed(r)  BY <1>1, LandedIs DEF AloneOK, Calm, drive
<1>4. CASE TakeFolder(r)  BY <1>2, <1>3, <1>4, TakeFolderIs, MarksIs, AloneMoves DEF Answered
<1>5. CASE TakeKnown(r)  BY <1>2, <1>3, <1>5, TakeKnownIs, AloneFinds
<1>6. CASE TakeNew(r)
  <2>1. Stays(r, "transfer") /\ Keeps(r) /\ res'[r].via.tsid = tsid
    BY <1>6, TakeNewIs DEF Via
  <2>2. tsid = ShareOf[r] /\ (res[r].made => session' \in root')
    BY <1>1 DEF AloneOK, SessionOK, Looping, Calm, globals, drive
  <2>3. AskedOK(r)'  BY <2>1 DEF AskedOK, Stays
  <2> QED  BY <1>2, <1>3, <2>1, <2>2, <2>3, AloneStays DEF Held, Keeps
<1> QED  BY <1>4, <1>5, <1>6

\* The answers to a transfer, which is accepted.
LEMMA AloneTransfer ==
  ASSUME Shape, Types, NEW r \in Resolves, AloneOK(r), Alone(r)', StayOK(r), Holds(res[r]),
         Kept(r),
         \/ Copied(r) \/ Queued(r) \/ Claimed(r) \/ NoRoot(r) \/ Refused(r) \/ Disrupted(r)
  PROVE  AloneOK(r)'
<1>1. res[r].at = "transfer" /\ tsid' = tsid /\ session' = session /\ session \in Accounts
  BY AtIs, CopiedIs, QueuedIs, ClaimedIs, NoRootIs, RefusedIs, DisruptedIs DEF Calm, globals
<1>2. Within(r)  BY <1>1, AtIs DEF Within, Looping, Kept
<1>3. res[r].via.acct = session  BY <1>1 DEF StayOK, Asking
<1>4. Accepted(r)
  <2>1. Tokened(r)  BY <1>1 DEF Holds, Tokened
  <2>2. res[r].sess = ShareOf[r] /\ res[r].via.tsid = ShareOf[r]
    BY <1>1 DEF AloneOK, SessionOK, Looping
  <2>3. ShareOf[r] # None  BY SizeIs, TransferAssumption
  <2> QED  BY <2>1, <2>2, <2>3 DEF Accepted
<1>5. ~Fails(r, ~Accepted(r)) /\ ~Fails(r, FALSE)  BY <1>4, FailsNot
<1>6. tasks' \subseteq tasks => Landed(r)  BY <1>1, LandedIs DEF AloneOK
<1>7. CASE Copied(r)
  <2>1. /\ UNCHANGED tasks /\ Store(session, Copy(r))
        /\ \/ Finds(r, Copy(r), "named")
           \/ Seeks(r) /\ Note(r, Clash(Copy(r)), {})
    BY <1>3, <1>7, CopiedIs
  <2>2. CASE Finds(r, Copy(r), "named")  BY <1>2, <1>6, <2>1, <2>2, AloneFinds
  <2>3. CASE Seeks(r) /\ Note(r, Clash(Copy(r)), {})
    <3>1. Copy(r).copy = 0  BY <2>3, ClashIs
    <3>2. Item(r)' = Item(r)  BY <2>3 DEF Seeks, Stays, Item
    <3>3. /\ Copy(r).id = next
          /\ Copy(r).name = Item(r).name /\ Copy(r).size = Item(r).size
      BY <1>1, <1>3, CopyIs DEF Copying
    <3>4. Fresh(r)'  BY <1>1, <2>1, <3>1, <3>2, <3>3, StoredFresh
    <3> QED  BY <1>2, <1>6, <2>1, <2>3, <3>4, AloneSeeks
  <2> QED  BY <2>1, <2>2, <2>3
<1>8. CASE Queued(r)
  <2> DEFINE t == [acct |-> res[r].via.acct, item |-> Item(r), by |-> r]
  <2>1. /\ tasks' = tasks \union {t} /\ Stays(r, "task") /\ Afresh(r)
        /\ res'[r].sess = res[r].sess
    BY <1>8, QueuedIs
  <2>2. t.acct = session /\ t.item = Item(r) /\ t.by = r  BY <1>3
  <2> HIDE DEF t
  <2>3. Item(r)' = Item(r)  BY <2>1 DEF Stays, Item
  <2>4. \A u \in tasks : u.by # r  BY <1>1 DEF AloneOK, CopyOK
  <2>5. Running(r)'  BY <2>1, <2>2, <2>3 DEF Running
  <2>6. CopyOK(r)'  BY <1>1, <2>1, <2>2, <2>3, <2>4, <2>5 DEF CopyOK, Stays
  <2>7. SessionOK(r)'  BY <1>1, <2>1 DEF AloneOK, SessionOK, Stays, Afresh, Looping
  <2>8. LinksOK(r)'  BY <2>1, AnsweredStays DEF AloneOK, LinksOK, Stays, Kept
  <2>9. AskedOK(r)'  BY <2>1 DEF AskedOK, Stays
  <2> QED  BY <2>6, <2>7, <2>8, <2>9 DEF AloneOK
<1>9. CASE Claimed(r)  BY <1>5, <1>9, ClaimedIs
<1>10. CASE NoRoot(r)
  <2>1. ~res[r].made  BY <1>3, <1>10, NoRootIs DEF AloneOK, SessionOK, Rooted
  <2>2. Calm /\ Stays(r, "mkdir") /\ Keeps(r)  BY <1>10, <2>1, NoRootIs
  <2>3. Landed(r)  BY <1>6, <2>2 DEF Calm, drive
  <2>4. AskedOK(r)'  BY <2>2 DEF AskedOK, Stays
  <2> QED  BY <1>2, <2>1, <2>2, <2>3, <2>4, AloneStays DEF Held, Keeps
<1>11. CASE Refused(r)
  <2>1. /\ UNCHANGED drive /\ Stays(r, "pause") /\ Keeps(r)
        /\ Note(r, IF res[r].k = Profiles /\ Accepted(r) THEN {"refused"} ELSE {}, {})
    BY <1>11, RefusedIs
  <2>2. Landed(r) /\ (res[r].made => session' \in root')
    BY <1>1, <1>6, <2>1 DEF drive, AloneOK, SessionOK
  <2>3. AskedOK(r)'
    <3>1. res[r].k = Profiles => "refused" \in trouble'[r]  BY <1>4, <2>1 DEF Note
    <3> QED  BY <2>1, <3>1 DEF AskedOK, Keeps
  <2> QED  BY <1>2, <2>1, <2>2, <2>3, AloneStays DEF Held, Keeps
<1>12. CASE Disrupted(r)  BY <1>5, <1>12, DisruptedIs
<1> QED  BY <1>7, <1>8, <1>9, <1>10, <1>11, <1>12

LEMMA AloneLater ==
  ASSUME Shape, Types, NEW r \in Resolves, AloneOK(r), Alone(r)', StayOK(r), ~Spoilt(r), Kept(r),
         \/ Resume(r) \/ Again(r) \/ RootMade(r) \/ Poll(r) \/ Searched(r)
         \/ Scan(r) \/ Rescan(r)
  PROVE  AloneOK(r)'
<1>1. /\ res[r].at \in {"pause", "again", "mkdir", "task", "search", "stream", "recode"}
      /\ tsid' = tsid /\ tasks' \subseteq tasks
  BY ResumeIs, AgainIs, RootMadeIs, PollIs, SearchedIs, ScanIs, TellsIs
     DEF Calm, globals, drive
<1>2. Within(r)  BY <1>1, AtIs DEF Within, Looping, Kept
<1>3. res[r].at # "task" => Landed(r)  BY <1>1, LandedIs DEF AloneOK
<1>4. tsid = ShareOf[r] /\ (res[r].made => session \in root) /\ session' = session
  BY <1>1 DEF AloneOK, SessionOK, Looping, Kept
<1>5. ~Fails(r, FALSE) /\ ~Fails(r, Spoilt(r)) /\ ~Note(r, {"fault"}, {})
  <2>1. ~Note(r, {"fault"}, {})  BY FailsNot
  <2>2. ~Fails(r, FALSE)  BY FailsNot
  <2>3. ~Fails(r, Spoilt(r))  BY FailsNot
  <2> QED  BY <2>1, <2>2, <2>3
<1>6. CASE Resume(r)
  <2>1. res[r].at = "pause" /\ Calm /\ Stays(r, "again") /\ Keeps(r)  BY <1>6, ResumeIs
  <2>2. root' = root  BY <2>1 DEF Calm, drive
  <2>3. AskedOK(r)'  BY <2>1 DEF AloneOK, AskedOK, Keeps, Kept
  <2> QED  BY <1>2, <1>3, <1>4, <2>1, <2>2, <2>3, AloneStays DEF Held, Keeps
<1>7. CASE Again(r)
  <2>1. /\ res[r].at = "again" /\ UNCHANGED drive
        /\ \/ /\ Stays(r, "transfer")
              /\ res'[r].made = res[r].made /\ res'[r].sess = res[r].sess
              /\ res'[r].via.tsid = tsid'
           \/ /\ ~(res[r].k < Profiles)
              /\ Moves(r, Result(Item(r), NoOwn, "refused"))
    BY <1>5, <1>7, AgainIs
  <2>2. root' = root  BY <2>1 DEF drive
  <2>3. CASE /\ Stays(r, "transfer")
             /\ res'[r].made = res[r].made /\ res'[r].sess = res[r].sess
             /\ res'[r].via.tsid = tsid'
    <3>1. AskedOK(r)'  BY <2>3 DEF AskedOK, Stays
    <3> QED  BY <1>1, <1>2, <1>3, <1>4, <2>1, <2>2, <2>3, <3>1, AloneStays DEF Held
  <2>4. CASE /\ ~(res[r].k < Profiles)
             /\ Moves(r, Result(Item(r), NoOwn, "refused"))
    <3>1. res[r].k = Profiles
      <4>1. res[r].k \in 1..Profiles /\ Profiles \in Nat
        BY TransferAssumption DEF Types, CallsOK, CallOK
      <4> QED  BY <2>4, <4>1
    <3>2. "refused" \in trouble'[r]  BY <2>1, <3>1 DEF AloneOK, AskedOK, Kept
    <3>3. Answered(trouble'[r], Result(Item(r), NoOwn, "refused"))
      BY <3>2, MarksIs DEF Answered, Result
    <3> QED  BY <1>2, <1>3, <2>1, <2>4, <3>3, AloneMoves
  <2> QED  BY <2>1, <2>3, <2>4
<1>8. CASE RootMade(r)
  <2>1. /\ res[r].at = "mkdir" /\ Stays(r, "transfer") /\ root' = root \union {res[r].via.acct}
        /\ res'[r].sess = res[r].sess /\ res'[r].via = Via
    BY <1>5, <1>8, RootMadeIs
  <2>2. session' \in root'  BY <1>4, <2>1 DEF StayOK, Asking
  <2>3. res'[r].via.tsid = tsid  BY <2>1 DEF Via
  <2>4. AskedOK(r)'  BY <2>1 DEF AskedOK, Stays
  <2> QED  BY <1>2, <1>3, <1>4, <2>1, <2>2, <2>3, <2>4, AloneStays DEF Held
<1>9. CASE Poll(r)
  <2>1. /\ res[r].at = "task" /\ UNCHANGED <<globals, dir, root, next, tasks>>
        /\ \/ ~Running(r) /\ Seeks(r)
           \/ Stays(r, "task") /\ Keeps(r)
    BY <1>5, <1>9, PollIs
  <2>2. Item(r)' = Item(r)  BY <2>1 DEF Seeks, Stays, Item
  <2>3. CASE ~Running(r) /\ Seeks(r)
    <3>1. Fresh(r)  BY <2>1, <2>3 DEF AloneOK, CopyOK
    <3>2. Fresh(r)'  BY <1>4, <2>1, <2>2, <3>1 DEF Fresh
    <3>3. ASSUME NEW t \in tasks, t.by = r
          PROVE  FALSE
      <4>1. t.item = Item(r)  BY <3>3 DEF AloneOK, CopyOK
      <4> QED  BY <2>3, <3>3, <4>1 DEF Running
    <3>4. Landed(r)  BY <2>1, <3>3 DEF Landed
    <3> QED  BY <1>2, <2>3, <3>2, <3>4, AloneSeeks
  <2>4. CASE Stays(r, "task") /\ Keeps(r)
    <3>1. SessionOK(r)'
      BY <1>1, <1>4, <2>1, <2>4 DEF AloneOK, SessionOK, Stays, Keeps, Looping
    <3>2. Fresh(r)' = Fresh(r)  BY <1>4, <2>1, <2>2 DEF Fresh
    <3>3. Running(r)' = Running(r)  BY <2>1, <2>2 DEF Running
    <3>4. CopyOK(r)'
      BY <1>4, <2>1, <2>2, <2>4, <3>2, <3>3 DEF AloneOK, CopyOK, Stays
    <3>5. LinksOK(r)'  BY <2>4, AnsweredStays DEF AloneOK, LinksOK, Stays, Kept
    <3>6. AskedOK(r)'  BY <2>4 DEF AskedOK, Stays
    <3> QED  BY <3>1, <3>4, <3>5, <3>6 DEF AloneOK
  <2> QED  BY <2>1, <2>3, <2>4
<1>10. CASE Searched(r)
  <2>1. res[r].at = "search" /\ res[r].via.acct = session
    BY <1>10, SearchedIs DEF StayOK, Asking
  <2>2. Like(r) # {}  BY <2>1, FreshFound DEF AloneOK, CopyOK
  <2>3. \E f : Finds(r, f, "search")  BY <1>5, <1>10, <2>2, SearchedIs
  <2> QED  BY <1>2, <1>3, <2>1, <2>3, AloneFinds
<1>11. CASE Scan(r) \/ Rescan(r)
  <2>1. /\ res[r].at \in {"stream", "recode"} /\ Calm
        /\ (Stays(r, "recode") /\ Keeps(r)) \/ \E x : Moves(r, x)
    BY <1>11, ScanIs
  <2>2. Action[r] # "d"  BY <2>1 DEF AloneOK, LinksOK
  <2>3. root' = root /\ Landed(r)  BY <1>3, <2>1 DEF Calm, drive
  <2>4. CASE Stays(r, "recode") /\ Keeps(r)
    <3>1. AskedOK(r)'  BY <2>4 DEF AskedOK, Stays
    <3> QED  BY <1>2, <1>4, <2>2, <2>3, <2>4, <3>1, AloneStays DEF Held, Keeps
  <2>5. ASSUME NEW x, Moves(r, x)
        PROVE  AloneOK(r)'
    <3>1. SessionOK(r)'  BY <1>2, <2>5 DEF Within, AloneOK, SessionOK, Moves, Afresh
    <3>2. CopyOK(r)'  BY <2>3, <2>5 DEF CopyOK, Landed, Moves
    <3>3. LinksOK(r)'  BY <2>2, <2>5 DEF LinksOK, Moves
    <3>4. AskedOK(r)'  BY <2>5 DEF AskedOK, Moves
    <3> QED  BY <3>1, <3>2, <3>3, <3>4 DEF AloneOK
  <2> QED  BY <2>1, <2>4, <2>5
<1> QED  BY <1>6, <1>7, <1>8, <1>9, <1>10, <1>11

\* A call that is alone ends with every link.
LEMMA AloneEnds ==
  ASSUME NEW r, NEW out, Ends(r, "over", out), Landed(r),
         Action[r] = "d" => \A j \in DOMAIN out : Answered(trouble'[r], out[j]) /\ Led(out[j])
  PROVE  AloneOK(r)'
<1>1. SessionOK(r)'  BY DEF SessionOK, Ends, Afresh, Looping
<1>2. CopyOK(r)'  BY DEF CopyOK, Landed, Ends
<1>3. LinksOK(r)'  BY DEF LinksOK, Ends
<1>4. AskedOK(r)'  BY DEF AskedOK, Ends
<1> QED  BY <1>1, <1>2, <1>3, <1>4 DEF AloneOK

LEMMA AloneLink ==
  ASSUME Shape, Types, NEW r \in Resolves, AloneOK(r), Alone(r)', StayOK(r), ~Spoilt(r),
         ~Excuse(r), Kept(r), Finish(r) \/ Metas(r) \/ Locate(r)
  PROVE  AloneOK(r)'
<1> DEFINE out == res[r].out
<1>1. /\ \A j \in DOMAIN out : DOMAIN out[j] = Marks
      /\ Apart(dir[session])
  BY AtIs
<1>2. /\ res[r].at \in {"item", "metas", "locate"} /\ UNCHANGED <<globals, drive>>
  BY FinishIs, MetasIs, LocateIs DEF Calm
<1>3. Landed(r)  BY <1>2, LandedIs DEF AloneOK, drive
<1>4. \A j \in DOMAIN out : Served(dir[session], FALSE, out[j], TRUE)
  <2>1. Excuse(r) = FALSE  BY DEF Excuse
  <2>2. \A j \in DOMAIN out : Served(dir[session], Excuse(r), out[j], TRUE)
    BY <1>2 DEF StayOK
  <2> QED  BY <2>1, <2>2
<1>5. Action[r] = "d" =>
        \A j \in DOMAIN out : Answered(trouble'[r], out[j]) /\ (res[r].at = "locate" => Led(out[j]))
  BY AnsweredStays DEF AloneOK, LinksOK, Kept
<1>6. res[r].made => session' \in root'  BY <1>2 DEF AloneOK, SessionOK, globals, drive
<1>7. CASE Finish(r)
  <2>1. CASE Good(out) = {} /\ Ends(r, "over", out)
    <3>1. \A j \in DOMAIN out : Led(out[j])  BY <2>1 DEF Good, Led
    <3> QED  BY <1>3, <1>5, <2>1, <3>1, AloneEnds
  <2>2. CASE res'[r].at = "metas" /\ res'[r].out = out /\ res'[r].made = res[r].made
    <3>1. SessionOK(r)'  BY <1>6, <2>2 DEF SessionOK, Looping
    <3>2. CopyOK(r)'  BY <1>3, <2>2 DEF CopyOK, Landed
    <3>3. LinksOK(r)'  BY <1>5, <2>2 DEF LinksOK
    <3>4. AskedOK(r)'  BY <2>2 DEF AskedOK
    <3> QED  BY <3>1, <3>2, <3>3, <3>4 DEF AloneOK
  <2> QED  BY <1>7, <2>1, <2>2, FinishIs
<1>8. CASE Metas(r)
  <2> DEFINE there == {i \in Good(out) : ById(r, out[i]) # {}}
  <2>1. res[r].at = "metas" /\ res[r].via.acct = session
    BY <1>8, MetasIs DEF StayOK, Asking
  <2>2. PICK got, linked :
          /\ got \in SUBSET there
          /\ linked = [i \in DOMAIN out |->
                         IF i \in got THEN Linked(out[i], ById(r, out[i]))
                         ELSE IF i \in Good(out) /\ Action[r] = "d"
                         THEN [out[i] EXCEPT !.error = "nolink"] ELSE out[i]]
          /\ Fails(r, got = there \/ Spoilt(r))
          /\ \/ Ends(r, "over", linked)
             \/ res'[r].at = "locate" /\ res'[r].out = linked /\ Keeps(r)
    BY <1>8, MetasIs
  <2>3. got = there
    <3> DEFINE free == got = there \/ Spoilt(r)
    <3>1. Fails(r, free)  BY <2>2
    <3> HIDE DEF free
    <3>2. free  BY <3>1, FailsNot
    <3> QED  BY <3>2 DEF free
  <2>4. ASSUME Action[r] = "d", NEW i \in DOMAIN out
        PROVE  Answered(trouble'[r], linked[i]) /\ Led(linked[i])
    <3> DEFINE x == out[i]
               S == ById(r, x)
    <3>1. DOMAIN x = Marks /\ Served(dir[session], FALSE, x, TRUE) /\ Answered(trouble'[r], x)
      BY <1>1, <1>4, <1>5, <2>4
    <3>2. S = {f \in dir[session] : f.id = x.own.id}  BY <2>1 DEF ById
    <3>3. x.error # "none" => linked[i] = x  BY <2>2, <2>3 DEF Good
    <3>4. x.error = "none" /\ S # {} => linked[i] = Linked(x, S)  BY <2>2, <2>3 DEF Good
    <3> HIDE DEF x, S
    <3>5. CASE x.error # "none"  BY <3>1, <3>3, <3>5 DEF Led
    <3>6. CASE x.error = "none"
      <4>1. S # {} /\ Linked(x, S).link = Content(x.item)
        <5>1. Apart(dir[session])  BY <1>1
        <5> DEFINE files == dir[session]
        <5>2. Apart(files) /\ Served(files, FALSE, x, TRUE) /\ S = {f \in files : f.id = x.own.id}
          BY <3>1, <3>2, <5>1
        <5> HIDE DEF files
        <5> QED  BY <3>1, <3>6, <5>2, LinkRight
      <4>2. linked[i] = Linked(x, S)  BY <3>4, <3>6, <4>1
      <4>3. Linked(x, S).item = x.item /\ Linked(x, S).error = x.error  BY <3>1, LinkedIs
      <4> QED  BY <3>6, <4>1, <4>2, <4>3 DEF Answered, Led
    <3> QED  BY <3>5, <3>6
  <2>5. DOMAIN linked = DOMAIN out  BY <2>2
  <2> HIDE DEF there
  <2>6. CASE Ends(r, "over", linked)  BY <1>3, <2>4, <2>5, <2>6, AloneEnds
  <2>7. CASE res'[r].at = "locate" /\ res'[r].out = linked /\ Keeps(r)
    <3>1. SessionOK(r)'  BY <1>6, <2>7 DEF SessionOK, Looping, Keeps
    <3>2. CopyOK(r)'  BY <1>3, <2>7 DEF CopyOK, Landed
    <3>3. LinksOK(r)'  BY <2>4, <2>5, <2>7 DEF LinksOK
    <3>4. AskedOK(r)'  BY <2>7 DEF AskedOK
    <3> QED  BY <3>1, <3>2, <3>3, <3>4 DEF AloneOK
  <2> QED  BY <2>2, <2>6, <2>7
<1>9. CASE Locate(r)
  <2>1. res[r].at = "locate" /\ res[r].via.acct = session
    BY <1>9, LocateIs DEF StayOK, Asking
  <2>2. PICK got, linked :
          /\ got \in SUBSET {i \in Good(out) : ByPath(r, out[i]) # {}}
          /\ linked = [i \in DOMAIN out |->
                         IF i \in got THEN Linked(out[i], ByPath(r, out[i])) ELSE out[i]]
          /\ Ends(r, "over", linked)
    BY <1>9, LocateIs
  <2>3. ASSUME Action[r] = "d", NEW i \in DOMAIN out
        PROVE  Answered(trouble'[r], linked[i]) /\ Led(linked[i])
    <3>1. CASE i \in got
      <4> DEFINE x == out[i]
                 S == ByPath(r, x)
      <4>1. DOMAIN x = Marks /\ Served(dir[session], FALSE, x, TRUE)  BY <1>1, <1>4
      <4>2. x.error = "none" /\ linked[i] = Linked(x, S)  BY <2>2, <3>1 DEF Good
      <4>3. S = {f \in dir[session] : f.name = x.own.name /\ f.copy = x.own.copy}
        BY <2>1 DEF ByPath
      <4> HIDE DEF x, S
      <4>4. Linked(x, S).link = Content(x.item)  BY <1>1, <4>1, <4>2, <4>3, LinkRight
      <4>5. Linked(x, S).item = x.item /\ Linked(x, S).error = x.error  BY <4>1, LinkedIs
      <4> QED  BY <4>2, <4>4, <4>5 DEF Answered, Led
    <3>2. CASE i \notin got  BY <1>5, <2>1, <2>2, <2>3, <3>2
    <3> QED  BY <3>1, <3>2
  <2>4. DOMAIN linked = DOMAIN out  BY <2>2
  <2> QED  BY <1>3, <2>2, <2>3, <2>4, AloneEnds
<1> QED  BY <1>7, <1>8, <1>9

-----------------------------------------------------------------------------

LEMMA StartLinks ==
  ASSUME Shape, Types, CopiesLive, NEW r \in Resolves, Start(r)
  PROVE  StayOK(r)' /\ AloneOK(r)'
<1>1. /\ res'[r].at = "refresh" /\ res'[r].out = <<>> /\ res'[r].known = {}
      /\ res'[r].via.acct = session /\ res'[r].made = FALSE
      /\ res[r].at = "new" /\ UNCHANGED <<session, tasks>>
  BY StartIs DEF Start, At, Afresh, globals, drive
<1>2. DOMAIN res'[r].out = {}  BY <1>1, EmptyIs
<1>3. \A t \in tasks' : t.by # r
  <2>1. \A name : ~Met(r, res[r], name)  BY <1>1 DEF Met, Reached, Opening
  <2> QED  BY <1>1, <2>1 DEF CopiesLive, MetLive
<1>4. StayOK(r)'  BY <1>1, <1>2 DEF StayOK
<1>5. SessionOK(r)'  BY <1>1 DEF SessionOK, Looping
<1>6. CopyOK(r)'  BY <1>1, <1>3 DEF CopyOK
<1>7. LinksOK(r)'  BY <1>1, <1>2 DEF LinksOK
<1>8. AskedOK(r)'  BY <1>1 DEF AskedOK
<1> QED  BY <1>4, <1>5, <1>6, <1>7, <1>8 DEF AloneOK

\* The service finishes the copy of a call that is alone.
LEMMA TaskAlone ==
  ASSUME Shape, Types, NEW t \in tasks, TaskDone(t), t.by \in Active, AloneOK(t.by),
         Alone(t.by)'
  PROVE  AloneOK(t.by)'
<1> DEFINE r == t.by
           f == CopyOf(t.acct, t.item, r)
<1>1. /\ res' = res /\ tasks' = tasks \ {t} /\ UNCHANGED <<globals, root>>
      /\ Store(t.acct, f) /\ Note(r, Clash(f), {"overlap"})
  BY DEF TaskDone
<1>2. r \in Resolves  BY DEF Types, TasksOK
<1>3. res[r].at = "task" /\ t.item = Item(r) /\ t.acct = session
  BY DEF AloneOK, CopyOK
<1>4. session \in Accounts /\ f.id = next /\ f.name = Item(r).name /\ f.size = Item(r).size
  BY <1>3, AtIs, CopyOfIs, <1>2 DEF Types, DriveOK
<1> HIDE DEF f
<1>5. f.copy = 0  BY <1>1, <1>2, ClashIs
<1>6. Item(r)' = Item(r)  BY <1>1 DEF Item
<1>7. session' = session /\ tsid' = tsid  BY <1>1 DEF globals
<1>8. Fresh(r)'
  <2>1. Store(session, f)  BY <1>1, <1>3
  <2> HIDE DEF r
  <2> QED  BY <1>4, <1>5, <1>6, <1>7, <2>1, StoredFresh
<1> HIDE DEF r
<1>9. CopyOK(r)'
  <2>1. \A u \in tasks' : u.by = r =>
          res'[r].at = "task" /\ u.item = Item(r)' /\ u.acct = session'
    BY <1>1, <1>6, <1>7 DEF AloneOK, CopyOK, r
  <2>2. res'[r].at = "task"  BY <1>1, <1>3
  <2> QED  BY <1>8, <2>1, <2>2 DEF CopyOK
<1>10. SessionOK(r)'  BY <1>1, <1>7 DEF AloneOK, SessionOK, r
<1>11. LinksOK(r)' /\ AskedOK(r)'
  <2>1. trouble[r] \subseteq trouble'[r]  BY <1>1, <1>2 DEF Note
  <2> QED  BY <1>1, <2>1, AnsweredStays DEF AloneOK, LinksOK, AskedOK, r
<1> QED  BY <1>9, <1>10, <1>11 DEF AloneOK, r

\* The call's own step.
LEMMA OwnLinks ==
  ASSUME Base, Types, LinksLive, NEW r \in Resolves, Step(r), ~Return(r), Gentle(r)
  PROVE  /\ "switch" \notin trouble'[r] => StayOK(r)'
         /\ Alone(r)' => AloneOK(r)'
<1>1. Shape /\ r \in Active /\ Kept(r)  BY KeptIs DEF Base, Gentle, Active
<1>2. trouble[r] \subseteq trouble'[r]  BY <1>1 DEF Kept
<1>3. CASE "switch" \in trouble'[r]
  BY <1>3 DEF Alone
<1>4. CASE "switch" \notin trouble'[r]
  <2>1. StayOK(r)  BY <1>1, <1>2, <1>4 DEF LinksLive, StayLive
  <2>2. Alone(r)' => Alone(r)  BY <1>2 DEF Alone
  <2>3. Alone(r) => AloneOK(r) /\ ~Spoilt(r) /\ ~Excuse(r) /\ Holds(res[r])
    <3>1. Alone(r) => ~Spoilt(r) /\ ~Excuse(r) /\ Clean(r)
      BY DEF Alone, Spoilt, Excuse, Clean, LinksLive, OverlapLive
    <3> QED  BY <1>1, <3>1 DEF LinksLive, AloneLive, Base, TokensLive
  <2>4. res[r].at = "search" => Excuse(r) \/ Fresh(r)
    <3>1. Excuse(r) \/ Alone(r)  BY <1>2, <1>4 DEF Excuse, Alone
    <3> QED  BY <2>3, <3>1 DEF AloneOK, CopyOK
  <2>5. CASE Refreshed(r) \/ SessionOpened(r) \/ PreListed(r)
    BY <1>1, <2>1, <2>2, <2>3, <2>5, OpeningStay, AloneOpening
  <2>6. CASE TakeFolder(r) \/ TakeKnown(r) \/ TakeNew(r)
    BY <1>1, <2>1, <2>2, <2>3, <2>6, TakeStay, AloneTake
  <2>7. CASE \/ Copied(r) \/ Queued(r) \/ Claimed(r) \/ NoRoot(r) \/ Refused(r)
             \/ Disrupted(r)
    BY <1>1, <2>1, <2>2, <2>3, <2>7, TransferStay, AloneTransfer
  <2>8. CASE \/ Resume(r) \/ Again(r) \/ RootMade(r) \/ Poll(r) \/ Searched(r)
             \/ Scan(r) \/ Rescan(r)
    BY <1>1, <2>1, <2>2, <2>3, <2>4, <2>8, LaterStay, AloneLater
  <2>9. CASE Finish(r) \/ Metas(r) \/ Locate(r)
    BY <1>1, <2>1, <2>2, <2>3, <2>9, LinkStay, AloneLink
  <2> QED  BY <2>5, <2>6, <2>7, <2>8, <2>9 DEF Step
<1> QED  BY <1>3, <1>4

\* A step that another call, or the service, takes.
LEMMA AsideLinks ==
  ASSUME LinksLive, NEW q \in Resolves, res'[q] = res[q], Kept(q),
         res'[q].at \notin {"new", "gone"}, "switch" \notin trouble'[q]
  PROVE  StayOK(q)'
<1>1. q \in Active /\ "switch" \notin trouble[q]  BY DEF Active, Kept
<1> QED  BY <1>1, StaysAside DEF LinksLive, StayLive

LEMMA LinksInit ==
  ASSUME Init
  PROVE  LinksLive
<1>1. Active = {} /\ \A r \in Resolves : trouble[r] = {}  BY DEF Init, New, Active
<1> QED  BY <1>1 DEF LinksLive, OverlapLive, StayLive, AloneLive

LEMMA LinksNext ==
  ASSUME Base, Types, CopiesLive, LinksLive, [Next]_vars
  PROVE  LinksLive'
<1>0. Shape  BY DEF Base
<1>1. OverlapLive'  BY <1>0, OverlapStep DEF LinksLive
<1> SUFFICES ASSUME NEW q \in Resolves, res'[q].at \notin {"new", "gone"}
             PROVE  /\ "switch" \notin trouble'[q] => StayOK(q)'
                    /\ Alone(q)' => AloneOK(q)'
  BY <1>1 DEF LinksLive, StayLive, AloneLive, Active
<1>2. ASSUME NEW r \in Resolves, Step(r)
      PROVE  /\ "switch" \notin trouble'[q] => StayOK(q)'
             /\ Alone(q)' => AloneOK(q)'
  <2>1. /\ r \in Active
        /\ \A p \in Resolves \ {r} : res'[p] = res[p] /\ Kept(p)
    <3>1. CASE Gentle(r)  BY <1>0, <3>1, KeptIs DEF Gentle, Active, Others
    <3>2. CASE Return(r)
      <4>1. /\ res[r].at \in {"over", "failed"} /\ Others(r)
            /\ UNCHANGED <<globals, drive>> /\ trouble' = [trouble EXCEPT ![r] = {}]
        BY <1>0, <3>2, ReturnIs
      <4> QED  BY <1>0, <4>1 DEF Active, Others, Kept, globals, drive, Shape
    <3> QED  BY <1>0, <1>2, <3>1, <3>2, GentleStep
  <2>2. CASE q # r
    <3>1. res'[q] = res[q] /\ Kept(q)  BY <2>1, <2>2
    <3>2. "overlap" \in trouble[q]
      BY <2>1, <2>2, <3>1 DEF LinksLive, OverlapLive, Active
    <3>3. ~Alone(q)'  BY <3>1, <3>2 DEF Alone, Kept
    <3> QED  BY <3>1, <3>3, AsideLinks
  <2>3. CASE q = r
    <3>1. ~Return(r)  BY <1>0, <2>3, ReturnIs DEF Ends
    <3>2. Gentle(r)  BY <1>0, <1>2, <3>1, GentleStep
    <3> QED  BY <1>2, <2>3, <3>1, <3>2, OwnLinks
  <2> QED  BY <2>2, <2>3
<1>3. ASSUME NEW r \in Resolves, Start(r)
      PROVE  /\ "switch" \notin trouble'[q] => StayOK(q)'
             /\ Alone(q)' => AloneOK(q)'
  <2>1. CASE q = r  BY <1>0, <1>3, <2>1, StartLinks
  <2>2. CASE q # r
    <3>1. res'[q] = res[q] /\ q \in Active
      BY <1>0, <1>3, <2>2, StartIs DEF Others, Active
    <3>2. Note(r, {"overlap"}, {"overlap"}) /\ UNCHANGED <<globals, drive>>
      BY <1>3, <3>1 DEF Start
    <3>3. Kept(q)  BY <1>0, <3>2 DEF Kept, Note, Shape, globals, drive
    <3>4. ~Alone(q)'  BY <2>2, <3>1, <3>2 DEF Alone, Note
    <3> QED  BY <3>1, <3>3, <3>4, AsideLinks
  <2> QED  BY <2>1, <2>2
<1>4. ASSUME NEW t \in tasks, TaskDone(t)
      PROVE  /\ "switch" \notin trouble'[q] => StayOK(q)'
             /\ Alone(q)' => AloneOK(q)'
  <2>1. /\ res' = res /\ session' = session
        /\ \E f : Store(t.acct, f)
        /\ \E mine : Note(t.by, mine, {"overlap"})
    BY <1>4 DEF TaskDone, globals
  <2>2. q \in Active  BY <2>1 DEF Active
  <2>3. Kept(q)
    <3>1. DirGrows  BY <2>1, StoreGrows DEF Types
    <3> QED  BY <2>1, <3>1 DEF Kept, DirGrows, Note, Types, WorldOK
  <2>4. CASE q # t.by
    <3>1. ~Alone(q)'  BY <2>1, <2>2, <2>4 DEF Alone, Note
    <3> QED  BY <2>1, <2>3, <3>1, AsideLinks
  <2>5. CASE q = t.by
    <3>1. Alone(q)' => AloneOK(q)
      <4>1. Alone(q)' => Alone(q)  BY <2>3 DEF Alone, Kept
      <4> QED  BY <2>2, <4>1 DEF LinksLive, AloneLive
    <3>2. Alone(q)' => AloneOK(q)'  BY <1>0, <1>4, <2>2, <2>5, <3>1, TaskAlone
    <3> QED  BY <2>1, <2>3, <3>2, AsideLinks
  <2> QED  BY <2>4, <2>5
<1>5. ASSUME NEW a \in Accounts, Load(a)
      PROVE  /\ "switch" \notin trouble'[q] => StayOK(q)'
             /\ Alone(q)' => AloneOK(q)'
  BY <1>5 DEF Load, Active, Alone
<1>6. ASSUME UNCHANGED vars
      PROVE  /\ "switch" \notin trouble'[q] => StayOK(q)'
             /\ Alone(q)' => AloneOK(q)'
  <2>1. UNCHANGED <<session, tsid, dir, root, tasks, next, res, trouble>>
    BY <1>6 DEF vars, globals, drive
  <2>2. Kept(q) /\ q \in Active  BY <2>1 DEF Kept, Active
  <2>3. Alone(q)' => AloneOK(q)  BY <2>1, <2>2 DEF LinksLive, AloneLive, Alone
  <2>4. AloneOK(q) => AloneOK(q)'
    BY <2>1 DEF AloneOK, SessionOK, CopyOK, LinksOK, AskedOK, Answered, Fresh, Running, Item
  <2> QED  BY <2>1, <2>2, <2>3, <2>4, AsideLinks
<1> QED  BY <1>2, <1>3, <1>4, <1>5, <1>6 DEF Next

-----------------------------------------------------------------------------
(* Theorems *)

\* What holds of every state.
IInv == Base /\ Types /\ CopiesLive /\ LinksLive

\* The inductive invariant: the tokens a call that nothing happened to holds;
\* that files are told apart and calls are at one of their files; which files a
\* call has had copied and what its listing showed; and what the calls found.
THEOREM Invariance == Spec => []IInv
<1>1. Init => IInv  BY BaseInit, TypesInit, CopiesInit, LinksInit DEF IInv
<1>2. IInv /\ [Next]_vars => IInv'
  <2> SUFFICES ASSUME IInv, [Next]_vars
               PROVE  IInv'
    OBVIOUS
  <2>1. Base /\ Shape /\ Types /\ CopiesLive /\ LinksLive  BY DEF IInv, Base
  <2>2. Base' /\ Types'  BY <2>1, BaseNext, TypesNext
  <2>3. CopiesLive' /\ LinksLive'  BY <2>1, <2>2, CopiesNext, LinksNext
  <2> QED  BY <2>2, <2>3 DEF IInv
<1> QED  BY <1>1, <1>2, PTL DEF Spec

\* Every call is in a phase of the code, has tried at most the profiles there
\* are, and has a result for each file it is done with; no two files share an id.
THEOREM TypeCorrect == Spec => []TypeOK
<1>1. IInv => TypeOK
  <2> SUFFICES ASSUME Types
               PROVE  TypeOK
    BY DEF IInv
  <2>1. \A r \in Resolves :
          /\ res[r].at \in Phases /\ res[r].k \in 1..Profiles
          /\ res[r].at \notin {"over", "failed", "gone"} => Len(res[r].out) = res[r].i - 1
          /\ res[r].at = "over" => Len(res[r].out) = Len(FilesOf[ShareOf[r]])
    BY DEF Types, CallsOK, CallOK, PlaceOK, OutOK, Size, Files
  <2>2. \A a \in Accounts : \A f \in dir[a] : f.id \in 1..(next - 1)  BY DEF Types, DriveOK
  <2> QED  BY <2>1, <2>2 DEF TypeOK, Types, WorldOK
<1> QED  BY <1>1, Invariance, PTL

\* For any number of calls, accounts and shares, in any order of their answers:
\* a transfer carries the tokens of the session it is sent in, unless the
\* credentials were loaded, another call's refresh answered for another
\* account, or an answer failed during the call.
THEOREM TokensFollow == Spec => []TokensOfTheSession
<1>1. IInv => TokensOfTheSession
  <2> SUFFICES ASSUME Base, NEW r \in Resolves, res[r].at = "transfer", ~Tokened(r)
               PROVE  trouble[r] \intersect {"switch", "stomped", "fault"} # {}
    BY DEF TokensOfTheSession, IInv
  <2>1. ~Holds(res[r])  BY DEF Holds, Tokened
  <2>2. r \in Active  BY DEF Active
  <2> QED  BY <2>1, <2>2 DEF Base, TokensLive, Clean
<1> QED  BY <1>1, Invariance, PTL

\* A call that puts a second copy of a file into an account did not see the first
\* one: its listing was cut, failed or was another account's, or the first one is
\* somebody else's and came later, or it is not under its own name.
THEOREM CopiedOnce == Spec => []DuplicateExplained
<1>1. IInv => DuplicateExplained
  <2> SUFFICES ASSUME Types, CopiesLive, NEW a \in Accounts, NEW f \in dir[a], NEW g \in dir[a],
                      Copies(f, g), g.by \in Resolves,
                      res[g.by].seen.acct = a, res[g.by].seen.how = "whole",
                      ~(f.id >= res[g.by].seen.upto /\ f.by # g.by), f.copy = 0
               PROVE  FALSE
    BY DEF DuplicateExplained, IInv
  <2>1. Saw(g.by, res[g.by])  BY DEF CopiesLive, SeenLive
  <2>2. f.id \in Nat /\ res[g.by].seen.upto \in Nat  BY <2>1 DEF Saw, Types, DriveOK
  <2>3. ~(f.id < res[g.by].seen.upto)  BY <2>1 DEF Saw, Missing, Copies
  <2>4. f.by = g.by  BY <2>2, <2>3
  <2>5. f = g  BY <2>4 DEF CopiesLive, OnceLive, Copies
  <2> QED  BY <2>2, <2>5 DEF Copies
<1> QED  BY <1>1, Invariance, PTL

\* A link that leads to another file than the share's is one of a call during
\* which the credentials were loaded, or of a file found by its name after its
\* name was taken, others copied too or an answer failed, that of a copy which
\* did not succeed and passed for one included.
THEOREM LinksRight == Spec => []ServedIsAsked
<1>1. IInv => ServedIsAsked
  <2> SUFFICES ASSUME Types, StayLive, NEW r \in Resolves, NEW i \in DOMAIN res[r].out,
                      res[r].out[i].link \notin {None, Content(res[r].out[i].item)},
                      "switch" \notin trouble[r]
               PROVE  /\ res[r].out[i].own.how = "search"
                      /\ trouble[r] \intersect {"clash", "overlap", "fault"} # {}
    BY DEF ServedIsAsked, IInv, LinksLive
  <2>1. r \in Active
    <3> SUFFICES ASSUME res[r].at \in {"new", "gone"}
                 PROVE  FALSE
      BY DEF Active
    <3>1. IsSeq(res[r].out) /\ Len(res[r].out) = 0
      BY DEF Types, CallsOK, CallOK, PlaceOK, OutOK, Opening
    <3> QED  BY <3>1, SeqIs
  <2>2. Served(dir[session], Excuse(r), res[r].out[i], res[r].at # "over")
    BY <2>1 DEF StayLive, StayOK
  <2> QED  BY <2>2 DEF Served, Excuse
<1> QED  BY <1>1, Invariance, PTL

\* A call that is alone, whose credentials stay and to which every answer comes
\* ends, whatever the share and the account hold, with the right link for every
\* file but those whose transfer was refused with every profile, the last time
\* to ask for verification; no copy of it lost its name or outlasted the wait.
THEOREM AloneIsServed == Spec => []AloneSucceeds
<1>1. IInv => AloneSucceeds
  <2> SUFFICES ASSUME AloneLive, NEW r \in Resolves, res[r].at \in {"over", "failed"},
                      trouble[r] \subseteq {"refused"}, Action[r] = "d"
               PROVE  /\ res[r].at = "over"
                      /\ \A i \in DOMAIN res[r].out :
                           LET x == res[r].out[i]
                           IN x.item.kind # "folder" =>
                                \/ x.error = "none" /\ x.link = Content(x.item)
                                \/ x.error = "refused" /\ "refused" \in trouble[r]
    BY DEF AloneSucceeds, IInv, LinksLive
  <2>1. r \in Active /\ Alone(r)  BY DEF Active, Alone
  <2> QED  BY <2>1 DEF AloneLive, AloneOK, LinksOK, Answered, Led
<1> QED  BY <1>1, Invariance, PTL
=============================================================================
