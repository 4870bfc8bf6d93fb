----------------------------- MODULE ChunkStream -----------------------------
(***************************************************************************)
(* The download of a large file: the route makes a byte range of the Range *)
(* header and announces its length, multi_connection_stream_generator cuts *)
(* it into chunks.  One task per chunk downloads it, the generator yields  *)
(* the chunks in order.  A window semaphore bounds how far the tasks run   *)
(* ahead of the reader, a second one how many download at once.            *)
(*                                                                         *)
(* Tasks start in the order they are created and asyncio semaphores serve  *)
(* their waiters first in, first out, so the tasks pass either semaphore   *)
(* in chunk order: `admitted' and `entered' count how many have.           *)
(***************************************************************************)
EXTENDS Integers, FiniteSets

CONSTANTS Sizes,        \* sizes of files over the route's threshold
          Positions,    \* bytes that Range headers name
          ChunkSize,    \* bytes of a chunk
          MaxChunks,    \* bound: chunks of a file
          Concurrency,  \* permits of sem
          MaxAhead,     \* permits of window_sem
          Attempts      \* tries per chunk

ASSUME StreamAssumption ==
  /\ Sizes \subseteq Nat \ {0}
  /\ Positions \subseteq Nat
  /\ ChunkSize \in Nat \ {0}
  /\ MaxChunks \in Nat
  /\ \A size \in Sizes : size <= MaxChunks * ChunkSize
  /\ Concurrency \in Nat \ {0}
  /\ MaxAhead \in Nat \ {0}
  /\ Attempts \in Nat \ {0}

VARIABLES
  range,       \* the file's size and the range's first and last byte
  admitted,    \* tasks that acquired window_sem: chunks 1..admitted
  entered,     \* tasks that acquired sem: chunks 1..entered
  windowFree,  \* permits left in window_sem
  semFree,     \* permits left in sem
  task,        \* what became of each chunk's task
  tries,       \* completed tries of each chunk
  next,        \* the chunk the generator waits for or is yielding
  reader,      \* where the generator stands
  sent         \* bytes yielded

vars == <<range, admitted, entered, windowFree, semFree, task, tries, next, reader, sent>>

-----------------------------------------------------------------------------
(* The range and its slices *)

\* Of a Range header only "first-last" and "first-" are read: any other, and
\* none, asks for the whole file.  A last byte behind the file is brought
\* back to its end, a first one is not.
Ranges ==
  UNION {[size : {size}, first : {0}, last : {size - 1}] \cup
         [size : {size}, first : Positions,
          last : {size - 1} \cup {q \in Positions : q < size}] : size \in Sizes}

\* The Content-Length, which is negative for a range that starts behind its end.
Length == range.last - range.first + 1

\* The chunks of the range.
N == IF Length > 0 THEN (Length - 1) \div ChunkSize + 1 ELSE 0
Chunks == 1..N

\* Mutant: the end of a slice is taken for the byte behind it.
SliceLengthLong(i) ==
  IF i * ChunkSize < Length THEN ChunkSize + 1 ELSE Length - (i - 1) * ChunkSize

\* The bytes of a slice, the last one the rest.
SliceLength(i) ==
  IF i * ChunkSize <= Length THEN ChunkSize ELSE Length - (i - 1) * ChunkSize

\* A body fetched in full: the requested slice (206), or the whole file from a
\* server that ignores the Range header (200).
Bodies == {"slice", "whole"}

\* ready_events[i] is set.
Ready(i) == task[i] \in Bodies \cup {"failed"}

\* The task holds a permit of sem.
Busy(i) == task[i] \in {"fetching", "sleeping"}

Ended == reader \in {"finished", "failed", "closed"}

Init ==
  /\ range \in Ranges
  /\ sent = 0
  /\ admitted = 0
  /\ entered = 0
  /\ windowFree = MaxAhead
  /\ semFree = Concurrency
  /\ task = [i \in Chunks |-> "idle"]
  /\ tries = [i \in Chunks |-> 0]
  /\ next = 1
  /\ reader = IF N = 0 THEN "finished" ELSE "waiting"

-----------------------------------------------------------------------------
(* The task of a chunk *)

\* Variant of Admit that does not acquire the window.
AdmitFreely ==
  /\ ~Ended
  /\ admitted < N
  /\ admitted' = admitted + 1
  /\ UNCHANGED <<range, sent, entered, windowFree, semFree, task, tries, next, reader>>

Admit ==
  /\ ~Ended
  /\ admitted < N
  /\ windowFree > 0
  /\ admitted' = admitted + 1
  /\ windowFree' = windowFree - 1
  /\ UNCHANGED <<range, sent, entered, semFree, task, tries, next, reader>>

Enter ==
  /\ ~Ended
  /\ entered < admitted
  /\ semFree > 0
  /\ entered' = entered + 1
  /\ semFree' = semFree - 1
  /\ task' = [task EXCEPT ![entered + 1] = "fetching"]
  /\ UNCHANGED <<range, sent, admitted, windowFree, tries, next, reader>>

\* Variant of Leave that returns without giving the permit back.
LeaveHolding(i, how) ==
  /\ task' = [task EXCEPT ![i] = how]
  /\ UNCHANGED semFree

\* The task returns and `async with sem' gives the permit back.
Leave(i, how) ==
  /\ task' = [task EXCEPT ![i] = how]
  /\ semFree' = semFree + 1

LastTry(i) == tries[i] + 1 = Attempts

\* client.get returned 200 or 206: the body is kept and the event is set.
FetchBody(i) ==
  /\ ~Ended
  /\ task[i] = "fetching"
  /\ \E b \in Bodies : Leave(i, b)
  /\ UNCHANGED <<range, sent, admitted, entered, windowFree, tries, next, reader>>

\* Any other status: the loop goes on at once, and after the last try it falls
\* through without setting the event.
FetchStatus(i) ==
  /\ ~Ended
  /\ task[i] = "fetching"
  /\ tries' = [tries EXCEPT ![i] = @ + 1]
  /\ IF LastTry(i) THEN Leave(i, "silent") ELSE UNCHANGED <<task, semFree>>
  /\ UNCHANGED <<range, sent, admitted, entered, windowFree, next, reader>>

\* Variant of FetchRaise that never reports the last failure.
FetchRaiseLost(i) ==
  /\ ~Ended
  /\ task[i] = "fetching"
  /\ tries' = [tries EXCEPT ![i] = IF LastTry(i) THEN @ ELSE @ + 1]
  /\ task' = [task EXCEPT ![i] = "sleeping"]
  /\ UNCHANGED <<range, sent, admitted, entered, windowFree, semFree, next, reader>>

\* An exception: pause and try again, or report the failure.
FetchRaise(i) ==
  /\ ~Ended
  /\ task[i] = "fetching"
  /\ tries' = [tries EXCEPT ![i] = @ + 1]
  /\ IF LastTry(i) THEN Leave(i, "failed")
                   ELSE /\ task' = [task EXCEPT ![i] = "sleeping"]
                        /\ UNCHANGED semFree
  /\ UNCHANGED <<range, sent, admitted, entered, windowFree, next, reader>>

Fetch(i) == FetchBody(i) \/ FetchStatus(i) \/ FetchRaise(i)

\* asyncio.sleep(1) is over; the permit was kept meanwhile.
Retry(i) ==
  /\ ~Ended
  /\ task[i] = "sleeping"
  /\ task' = [task EXCEPT ![i] = "fetching"]
  /\ UNCHANGED <<range, sent, admitted, entered, windowFree, semFree, tries, next, reader>>

-----------------------------------------------------------------------------
(* The generator *)

\* The bytes of a chunk: those asked for, or the whole file.
Given(i) == IF task[i] = "whole" THEN range.size ELSE SliceLength(i)

\* The generator ends and its finally clause cancels every task not done.
CancelTasks ==
  task' = [i \in Chunks |-> IF Busy(i) \/ task[i] = "idle" THEN "cancelled" ELSE task[i]]

\* Variant of Yield that leaks the chunk's window permit.
YieldLeaking ==
  /\ reader = "waiting"
  /\ task[next] \in Bodies
  /\ reader' = "yielding"
  /\ sent' = sent + Given(next)
  /\ UNCHANGED <<range, admitted, entered, windowFree, semFree, task, tries, next>>

\* Variant of Yield that takes a chunk that failed for an empty one.
YieldFailed ==
  /\ reader = "waiting"
  /\ Ready(next)
  /\ reader' = "yielding"
  /\ sent' = sent + Given(next)
  /\ windowFree' = windowFree + 1
  /\ UNCHANGED <<range, admitted, entered, semFree, task, tries, next>>

\* The awaited chunk is ready: its window permit is released, it is yielded.
Yield ==
  /\ reader = "waiting"
  /\ task[next] \in Bodies
  /\ reader' = "yielding"
  /\ sent' = sent + Given(next)
  /\ windowFree' = windowFree + 1
  /\ UNCHANGED <<range, admitted, entered, semFree, task, tries, next>>

\* The awaited chunk failed: IOError.
Abort ==
  /\ reader = "waiting"
  /\ task[next] = "failed"
  /\ reader' = "failed"
  /\ windowFree' = windowFree + 1
  /\ CancelTasks
  /\ UNCHANGED <<range, sent, admitted, entered, semFree, tries, next>>

\* Variant of Resume that runs past the last chunk.
ResumePast ==
  /\ reader = "yielding"
  /\ next' = next + 1
  /\ reader' = IF next > N THEN "finished" ELSE "waiting"
  /\ UNCHANGED <<range, sent, admitted, entered, windowFree, semFree, task, tries>>

\* The client took the chunk; the loop goes on to the following one.
Resume ==
  /\ reader = "yielding"
  /\ IF next = N
     THEN reader' = "finished" /\ UNCHANGED next
     ELSE reader' = "waiting" /\ next' = next + 1
  /\ UNCHANGED <<range, sent, admitted, entered, windowFree, semFree, task, tries>>

\* The client goes away: CancelledError at the wait, GeneratorExit at the yield.
Disconnect ==
  /\ reader \in {"waiting", "yielding"}
  /\ reader' = "closed"
  /\ CancelTasks
  /\ UNCHANGED <<range, sent, admitted, entered, windowFree, semFree, tries, next>>

-----------------------------------------------------------------------------

Next ==
  \/ Admit \/ Enter
  \/ \E i \in Chunks : FetchBody(i) \/ FetchStatus(i) \/ FetchRaise(i) \/ Retry(i)
  \/ Yield \/ Abort \/ Resume \/ Disconnect

Spec == Init /\ [][Next]_vars

\* The event loop runs what is ready and every try times out after 60 seconds;
\* the client need not read on.
Fairness ==
  /\ WF_vars(Admit) /\ WF_vars(Enter) /\ WF_vars(Yield) /\ WF_vars(Abort)
  /\ \A i \in 1..MaxChunks :
       WF_vars(i \in Chunks /\ Fetch(i)) /\ WF_vars(i \in Chunks /\ Retry(i))

FairSpec == Spec /\ Fairness

-----------------------------------------------------------------------------

\* The range ends within the file.
RangeOK ==
  /\ range \in [size : Nat \ {0}, first : Nat, last : Nat]
  /\ range.last < range.size /\ range.size \in Sizes

\* The values each variable ranges over.
TypeOK ==
  /\ RangeOK
  /\ sent \in Nat
  /\ admitted \in 0..N
  /\ entered \in 0..N
  /\ windowFree \in 0..MaxAhead
  /\ semFree \in 0..Concurrency
  /\ task \in [Chunks -> Bodies \cup
                {"idle", "fetching", "sleeping", "failed", "silent", "cancelled"}]
  /\ tries \in [Chunks -> 0..Attempts]
  /\ next \in 1..(IF N = 0 THEN 1 ELSE N)
  /\ reader \in {"waiting", "yielding", "finished", "failed", "closed"}

\* Chunks the generator is done with, its memory freed.
Consumed == IF reader = "waiting" THEN next - 1 ELSE next

\* Bounded look-ahead: the chunks that are downloading or buffered and not yet
\* yielded never exceed max_ahead, whatever order the downloads finish in.
LookAheadBounded ==
  ~Ended => Cardinality({i \in Chunks : i > Consumed /\ (Busy(i) \/ Ready(i))}) <= MaxAhead

\* The window never shuts out the chunk the generator waits for: chunks that
\* are buffered ahead cannot starve the one in front of them.
HeadAdmitted ==
  reader = "waiting" => next <= admitted \/ windowFree > 0

\* At most `concurrency' downloads are open at a time, retries and pauses
\* included, and no permit is lost.
ConnectionsBounded ==
  ~Ended => Cardinality({i \in Chunks : Busy(i)}) = Concurrency - semFree

\* A finished stream delivered every chunk: it ends early only by an error the
\* client sees or by the client's own doing.
FinishedWhole ==
  reader = "finished" => \A i \in Chunks : task[i] \in Bodies

\* The bytes a client receives are as many as the Content-Length announced when
\* the stream finishes and never more, with two exceptions: the service answered
\* for a chunk with the whole file, or the range starts behind its end by more
\* than a byte.  Such a range is announced with a negative length (and status
\* 206), which no stream can keep: nothing at all is sent for it.
LengthKept ==
  (\A i \in Chunks : task[i] # "whole") =>
    IF Length < 0 THEN sent = 0
                  ELSE sent <= Length /\ (reader = "finished" => sent = Length)

-----------------------------------------------------------------------------
(* The inductive invariant behind the safety properties *)

\* The permits of the window account for the chunks admitted and consumed.
WindowLive ==
  ~Ended =>
    /\ next \in Chunks
    /\ entered <= admitted
    /\ Consumed <= entered
    /\ windowFree + admitted = MaxAhead + Consumed
    /\ \A i \in Chunks : task[i] = "idle" <=> i > entered
    /\ \A i \in Chunks : task[i] # "cancelled"

\* A task that is not done has a try left.
TriesLive == \A i \in Chunks : Busy(i) \/ task[i] = "idle" => tries[i] < Attempts

\* The bytes of all slices, and of the first n of them.
Total == IF Length > 0 THEN Length ELSE 0
Upto(n) == IF n * ChunkSize <= Length THEN n * ChunkSize ELSE Total

\* The bytes sent are those of the chunks consumed.
SentLive ==
  (\A i \in Chunks : task[i] # "whole") =>
    /\ sent <= Total
    /\ reader \in {"waiting", "yielding", "finished"} => sent = Upto(Consumed)

\* Every chunk consumed by a stream that did not fail was a body.
ConsumedLive ==
  reader \in {"waiting", "yielding", "finished"} =>
    /\ \A i \in Chunks : i <= Consumed => task[i] \in Bodies
    /\ reader = "finished" => Consumed >= N

IInv == TypeOK /\ WindowLive /\ TriesLive /\ ConsumedLive /\ ConnectionsBounded /\ SentLive

-----------------------------------------------------------------------------
(* Liveness, and what the docstring says *)

\* The generator does not wait for ever: for a chunk it awaits the body
\* arrives, the stream fails, the client leaves, or the chunk's last try ended
\* in an error status.
WaitEnds ==
  \A i \in 1..MaxChunks :
    reader = "waiting" /\ next = i
      ~> next > i \/ reader # "waiting" \/ (i \in Chunks /\ task[i] = "silent")

\* What the docstring promises, that the range is streamed: a generator that
\* waits for a chunk goes on.
StreamGoesOn == (reader = "waiting") ~> (reader # "waiting")

=============================================================================
