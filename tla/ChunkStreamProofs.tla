--------------------------- MODULE ChunkStreamProofs ---------------------------
(***************************************************************************)
(* Safety of the chunked download for every number of chunks and every     *)
(* size of its two semaphores: the inductive invariant IInv of ChunkStream *)
(* and what follows from it.                                               *)
(***************************************************************************)
EXTENDS ChunkStream, FiniteSetTheorems, TLAPS

-----------------------------------------------------------------------------
(* The chunks of the range *)

\* A range is cut into as many chunks as it takes, and none of them is empty.
LEMMA RangeCut ==
  ASSUME RangeOK
  PROVE  /\ N \in Nat /\ Length \in Int /\ Total \in Nat
         /\ Length <= N * ChunkSize
         /\ \A i \in Chunks : (i - 1) * ChunkSize < Length
  <1>1. Length \in Int
    BY DEF RangeOK, Length
  <1> DEFINE q == (Length - 1) \div ChunkSize
  <1>2. CASE Length > 0
    <2>1. q \in Nat /\ q * ChunkSize <= Length - 1 /\ Length - 1 < (q + 1) * ChunkSize
      BY <1>1, <1>2, StreamAssumption
    <2>2. N = q + 1
      BY <1>2 DEF N
    <2>3. ASSUME NEW i \in Chunks PROVE (i - 1) * ChunkSize < Length
      <3> HIDE DEF q
      <3>1. i - 1 \in Nat /\ i - 1 <= q
        BY <2>1, <2>2 DEF Chunks
      <3>2. (i - 1) * ChunkSize <= q * ChunkSize
        BY <2>1, <3>1, StreamAssumption
      <3>3. (i - 1) * ChunkSize \in Int /\ q * ChunkSize \in Int
        BY <2>1, <3>1, StreamAssumption
      <3>4. QED
        BY <1>1, <2>1, <3>2, <3>3
    <2> HIDE DEF q
    <2>4. N \in Nat /\ Total \in Nat
      BY <1>1, <1>2, <2>1, <2>2 DEF Total
    <2>5. Length <= N * ChunkSize
      BY <1>1, <2>1, <2>2, StreamAssumption
    <2>6. QED
      BY <1>1, <2>3, <2>4, <2>5
  <1>3. CASE ~(Length > 0)
    <2>1. N = 0 /\ Total = 0
      BY <1>3 DEF N, Total
    <2>2. Chunks = {} /\ Length <= 0 /\ N * ChunkSize = 0
      BY <1>1, <1>3, <2>1, StreamAssumption DEF Chunks
    <2>3. QED
      BY <1>1, <2>1, <2>2
  <1>4. QED
    BY <1>2, <1>3

\* The range and its chunks stay what they are.
LEMMA RangeFixed ==
  ASSUME [Next]_vars
  PROVE  /\ UNCHANGED range /\ Length' = Length /\ Total' = Total
         /\ N' = N /\ Chunks' = Chunks /\ RangeOK' = RangeOK
  <1>1. UNCHANGED range
    BY DEF Next, vars, Admit, Enter, FetchBody, FetchStatus, FetchRaise, Retry,
           Yield, Abort, Resume, Disconnect
  <1>2. QED
    BY <1>1 DEF Length, Total, N, Chunks, RangeOK

\* What is yielded for a chunk is a number of bytes.
LEMMA GivenNat ==
  ASSUME RangeOK, NEW i \in Chunks
  PROVE  Given(i) \in Nat
  <1>1. Length \in Int /\ (i - 1) * ChunkSize < Length /\ i \in Int
    BY RangeCut DEF Chunks
  <1>2. (i - 1) * ChunkSize \in Int /\ i * ChunkSize \in Int
    BY <1>1, StreamAssumption
  <1>3. SliceLength(i) \in Nat
    BY <1>1, <1>2, StreamAssumption DEF SliceLength
  <1>4. range.size \in Nat
    BY DEF RangeOK
  <1>5. QED
    BY <1>3, <1>4 DEF Given

\* The bytes of the first chunks add up, to the whole range in the end.
LEMMA UptoStart ==
  ASSUME RangeOK
  PROVE  Upto(0) = 0 /\ 0 <= Total
  <1>1. Length \in Int /\ 0 * ChunkSize = 0
    BY RangeCut, StreamAssumption
  <1>2. QED
    BY <1>1 DEF Upto, Total

LEMMA UptoNext ==
  ASSUME RangeOK, NEW i \in Chunks
  PROVE  /\ Upto(i) = Upto(i - 1) + SliceLength(i)
         /\ Upto(i) <= Total
  <1>1. /\ Length \in Int /\ Total \in Nat /\ i \in Nat /\ 1 <= i
        /\ (i - 1) * ChunkSize < Length
    BY RangeCut DEF Chunks
  <1>2. /\ (i - 1) * ChunkSize \in Nat /\ i * ChunkSize \in Nat
        /\ i * ChunkSize = (i - 1) * ChunkSize + ChunkSize
    BY <1>1, StreamAssumption
  <1>3. Total = Length
    BY <1>1, <1>2 DEF Total
  <1>4. Upto(i - 1) = (i - 1) * ChunkSize
    BY <1>1, <1>2 DEF Upto
  <1>5. ChunkSize \in Nat
    BY StreamAssumption
  <1>6. QED
    BY <1>1, <1>2, <1>3, <1>4, <1>5 DEF Upto, SliceLength

LEMMA UptoEnd ==
  ASSUME RangeOK, NEW i \in Nat, i >= N, i > 0
  PROVE  Upto(i) = Total
  <1>1. Length \in Int /\ N \in Nat /\ Length <= N * ChunkSize
    BY RangeCut
  <1>2. N * ChunkSize \in Nat /\ i * ChunkSize \in Nat /\ N * ChunkSize <= i * ChunkSize
        /\ i * ChunkSize > 0
    BY <1>1, StreamAssumption
  <1>3. QED
    BY <1>1, <1>2 DEF Upto, Total

\* The tasks that hold a connection.
BusyTasks == {i \in Chunks : Busy(i)}

LEMMA BusyFinite ==
  ASSUME TypeOK
  PROVE  IsFiniteSet(BusyTasks)
  <1>1. IsFiniteSet(Chunks)
    BY RangeCut, FS_Interval DEF Chunks, TypeOK
  <1>2. BusyTasks \in SUBSET Chunks
    BY DEF BusyTasks
  <1>3. QED
    BY <1>1, <1>2, FS_Subset

LEMMA BusyCount == IInv /\ ~Ended => Cardinality(BusyTasks) = Concurrency - semFree
  BY DEF IInv, ConnectionsBounded, BusyTasks

\* A task that downloads holds a permit, so one is missing from the semaphore.
LEMMA PermitTaken ==
  ASSUME IInv, ~Ended, NEW i \in Chunks, Busy(i)
  PROVE  semFree < Concurrency
  <1>1. i \in BusyTasks
    BY DEF BusyTasks
  <1>2. Cardinality(BusyTasks) # 0
    BY <1>1, BusyFinite, FS_EmptySet DEF IInv
  <1>3. semFree \in 0..Concurrency
    BY DEF IInv, TypeOK
  <1>4. QED
    BY <1>2, <1>3, BusyCount, StreamAssumption

LEMMA InitIInv == Init => IInv
  <1> SUFFICES ASSUME Init PROVE IInv
    OBVIOUS
  <1>1. RangeOK
    <2>1. PICK size \in Sizes :
            range \in [size : {size}, first : {0}, last : {size - 1}] \cup
                     [size : {size}, first : Positions,
                      last : {size - 1} \cup {q \in Positions : q < size}]
      BY DEF Init, Ranges
    <2>2. size \in Nat \ {0} /\ Positions \subseteq Nat
      BY StreamAssumption
    <2>3. range.size = size /\ range.first \in Nat /\ range.last \in Nat /\ range.last < size
      <3>1. CASE range \in [size : {size}, first : {0}, last : {size - 1}]
        BY <2>2, <3>1
      <3>2. CASE range \in [size : {size}, first : Positions,
                             last : {size - 1} \cup {q \in Positions : q < size}]
        <4>1. /\ range.size = size /\ range.first \in Positions
              /\ range.last = size - 1 \/ (range.last \in Positions /\ range.last < size)
          BY <3>2
        <4>2. range.first \in Nat
          BY <2>2, <4>1
        <4>3. range.last \in Nat /\ range.last < size
          <5>1. size \in Nat /\ size # 0 /\ (range.last \in Positions => range.last \in Nat)
            BY <2>2
          <5>2. QED
            BY <4>1, <5>1
        <4>4. QED
          BY <4>1, <4>2, <4>3
      <3>3. QED
        BY <2>1, <3>1, <3>2
    <2>4. range = [size |-> range.size, first |-> range.first, last |-> range.last]
      BY <2>1
    <2>5. range \in [size : Nat \ {0}, first : Nat, last : Nat]
      BY <2>2, <2>3, <2>4
    <2>6. QED
      BY <2>3, <2>5 DEF RangeOK
  <1>2. N \in Nat
    BY <1>1, RangeCut
  <1>3. TypeOK
    BY <1>1, <1>2, StreamAssumption DEF Init, TypeOK, Bodies, Chunks
  <1>4. WindowLive
    BY <1>2, StreamAssumption DEF Init, Chunks, WindowLive, Consumed, Ended
  <1>5. TriesLive /\ ConsumedLive
    BY <1>2, StreamAssumption DEF Init, Chunks, TriesLive, ConsumedLive, Consumed, Busy, Bodies
  <1>6. ConnectionsBounded
    <2>1. BusyTasks = {}
      BY DEF Init, BusyTasks, Busy
    <2>2. Concurrency - semFree = 0
      BY StreamAssumption DEF Init
    <2>3. QED
      BY <2>1, <2>2, FS_EmptySet DEF ConnectionsBounded, BusyTasks
  <1>7. SentLive
    <2>1. CASE N = 0
      <3>1. Consumed = 1 /\ Upto(1) = Total
        BY <1>1, <2>1, UptoEnd DEF Init, Consumed
      <3>2. Length \in Int /\ Length <= 0 * ChunkSize
        BY <1>1, <2>1, RangeCut
      <3>3. Total = 0
        BY <3>2, StreamAssumption DEF Total
      <3>4. QED
        BY <3>1, <3>3 DEF Init, SentLive
    <2>2. CASE N # 0
      <3>1. Consumed = 0
        BY <2>2 DEF Init, Consumed
      <3>2. QED
        BY <1>1, <3>1, UptoStart DEF Init, SentLive
    <2>3. QED
      BY <2>1, <2>2
  <1>8. QED
    BY <1>3, <1>4, <1>5, <1>6, <1>7 DEF IInv

-----------------------------------------------------------------------------
(* Every step preserves each part *)

LEMMA TypeStep == IInv /\ [Next]_vars => TypeOK'
  <1> SUFFICES ASSUME IInv, [Next]_vars PROVE TypeOK'
    OBVIOUS
  <1>0. N \in Nat /\ RangeOK /\ RangeOK' /\ N' = N /\ Chunks' = Chunks
    BY RangeFixed, RangeCut DEF IInv, TypeOK
  <1> USE <1>0
  <1> USE StreamAssumption DEF IInv, TypeOK, WindowLive, TriesLive, Chunks, Bodies, Busy, Ended, Consumed
  <1>1. CASE Admit
    BY <1>1 DEF Admit
  <1>2. CASE Enter
    BY <1>2 DEF Enter
  <1>3. ASSUME NEW i \in Chunks, FetchBody(i) \/ FetchStatus(i) \/ FetchRaise(i)
        PROVE  TypeOK'
    <2>1. semFree < Concurrency
      BY <1>3, PermitTaken DEF FetchBody, FetchStatus, FetchRaise
    <2>2. tries[i] < Attempts
      BY <1>3 DEF FetchBody, FetchStatus, FetchRaise
    <2>3. CASE FetchBody(i)
      BY <2>1, <2>3 DEF FetchBody, Leave
    <2>4. CASE FetchStatus(i)
      BY <2>1, <2>2, <2>4 DEF FetchStatus, Leave
    <2>5. CASE FetchRaise(i)
      BY <2>1, <2>2, <2>5 DEF FetchRaise, Leave
    <2>6. QED
      BY <1>3, <2>3, <2>4, <2>5
  <1>4. ASSUME NEW i \in Chunks, Retry(i)
        PROVE  TypeOK'
    BY <1>4 DEF Retry
  <1>5. CASE Yield
    <2>1. next \in Chunks /\ Given(next) \in Nat
      BY <1>5, GivenNat DEF Yield
    <2>2. QED
      BY <1>5, <2>1 DEF Yield, ConsumedLive
  <1>6. CASE Abort
    BY <1>6 DEF Abort, CancelTasks, ConsumedLive
  <1>7. CASE Resume
    BY <1>7 DEF Resume
  <1>8. CASE Disconnect
    BY <1>8 DEF Disconnect, CancelTasks
  <1>9. CASE UNCHANGED vars
    BY <1>9 DEF vars
  <1>10. QED
    BY <1>1, <1>2, <1>3, <1>4, <1>5, <1>6, <1>7, <1>8, <1>9 DEF Next

LEMMA WindowStep == IInv /\ [Next]_vars => WindowLive'
  <1> SUFFICES ASSUME IInv, [Next]_vars PROVE WindowLive'
    OBVIOUS
  <1>0. N \in Nat /\ RangeOK /\ RangeOK' /\ N' = N /\ Chunks' = Chunks
    BY RangeFixed, RangeCut DEF IInv, TypeOK
  <1> USE <1>0
  <1> USE StreamAssumption DEF IInv, TypeOK, WindowLive, Chunks, Bodies, Busy, Ended, Consumed
  <1>1. CASE Admit
    BY <1>1 DEF Admit
  <1>2. CASE Enter
    BY <1>2 DEF Enter
  <1>3. ASSUME NEW i \in Chunks, FetchBody(i) \/ FetchStatus(i) \/ FetchRaise(i)
        PROVE  WindowLive'
    BY <1>3 DEF FetchBody, FetchStatus, FetchRaise, Leave
  <1>4. ASSUME NEW i \in Chunks, Retry(i)
        PROVE  WindowLive'
    BY <1>4 DEF Retry
  <1>5. CASE Yield
    BY <1>5 DEF Yield
  <1>6. CASE Abort
    BY <1>6 DEF Abort
  <1>7. CASE Resume
    BY <1>7 DEF Resume
  <1>8. CASE Disconnect
    BY <1>8 DEF Disconnect
  <1>9. CASE UNCHANGED vars
    BY <1>9 DEF vars
  <1>10. QED
    BY <1>1, <1>2, <1>3, <1>4, <1>5, <1>6, <1>7, <1>8, <1>9 DEF Next

LEMMA TriesStep == IInv /\ [Next]_vars => TriesLive'
  <1> SUFFICES ASSUME IInv, [Next]_vars PROVE TriesLive'
    OBVIOUS
  <1>0. N \in Nat /\ RangeOK /\ RangeOK' /\ N' = N /\ Chunks' = Chunks
    BY RangeFixed, RangeCut DEF IInv, TypeOK
  <1> USE <1>0
  <1> USE StreamAssumption DEF IInv, TypeOK, TriesLive, Chunks, Bodies, Busy
  <1>1. CASE Admit
    BY <1>1 DEF Admit
  <1>2. CASE Enter
    BY <1>2 DEF Enter, WindowLive
  <1>3. ASSUME NEW i \in Chunks, FetchBody(i) \/ FetchStatus(i) \/ FetchRaise(i)
        PROVE  TriesLive'
    <2>1. CASE FetchBody(i)
      BY <2>1 DEF FetchBody, Leave
    <2>2. CASE FetchStatus(i)
      BY <2>2 DEF FetchStatus, Leave, LastTry
    <2>3. CASE FetchRaise(i)
      BY <2>3 DEF FetchRaise, Leave, LastTry
    <2>4. QED
      BY <1>3, <2>1, <2>2, <2>3
  <1>4. ASSUME NEW i \in Chunks, Retry(i)
        PROVE  TriesLive'
    BY <1>4 DEF Retry
  <1>5. CASE Yield \/ Abort \/ Resume \/ Disconnect
    BY <1>5 DEF Yield, Abort, Resume, Disconnect, CancelTasks
  <1>6. CASE UNCHANGED vars
    BY <1>6 DEF vars
  <1>7. QED
    BY <1>1, <1>2, <1>3, <1>4, <1>5, <1>6 DEF Next

LEMMA ConsumedStep == IInv /\ [Next]_vars => ConsumedLive'
  <1> SUFFICES ASSUME IInv, [Next]_vars PROVE ConsumedLive'
    OBVIOUS
  <1>0. N \in Nat /\ RangeOK /\ RangeOK' /\ N' = N /\ Chunks' = Chunks
    BY RangeFixed, RangeCut DEF IInv, TypeOK
  <1> USE <1>0
  <1> USE StreamAssumption DEF IInv, TypeOK, ConsumedLive, Consumed, Chunks, Bodies, Busy, Ended
  <1>1. CASE Admit
    BY <1>1 DEF Admit
  <1>2. CASE Enter
    BY <1>2 DEF Enter, WindowLive
  <1>3. ASSUME NEW i \in Chunks, FetchBody(i) \/ FetchStatus(i) \/ FetchRaise(i)
        PROVE  ConsumedLive'
    BY <1>3 DEF FetchBody, FetchStatus, FetchRaise, Leave
  <1>4. ASSUME NEW i \in Chunks, Retry(i)
        PROVE  ConsumedLive'
    BY <1>4 DEF Retry
  <1>5. CASE Yield
    BY <1>5 DEF Yield
  <1>6. CASE Abort
    BY <1>6 DEF Abort
  <1>7. CASE Resume
    BY <1>7 DEF Resume
  <1>8. CASE Disconnect
    BY <1>8 DEF Disconnect
  <1>9. CASE UNCHANGED vars
    BY <1>9 DEF vars
  <1>10. QED
    BY <1>1, <1>2, <1>3, <1>4, <1>5, <1>6, <1>7, <1>8, <1>9 DEF Next

LEMMA ConnectionsStep == IInv /\ [Next]_vars => ConnectionsBounded'
  <1> SUFFICES ASSUME IInv, [Next]_vars, ~Ended'
               PROVE  Cardinality(BusyTasks') = Concurrency - semFree'
    BY DEF ConnectionsBounded, BusyTasks
  <1>0. N \in Nat /\ RangeOK /\ RangeOK' /\ N' = N /\ Chunks' = Chunks
    BY RangeFixed, RangeCut DEF IInv, TypeOK
  <1> USE <1>0
  <1> USE StreamAssumption DEF IInv, TypeOK, Chunks, Bodies, Busy, Ended
  <1>1. ~Ended /\ Cardinality(BusyTasks) = Concurrency - semFree
    <2>1. ~Ended
      BY DEF Next, vars, Admit, Enter, FetchBody, FetchStatus, FetchRaise, Retry,
             Yield, Abort, Resume, Disconnect
    <2>2. QED
      BY <2>1, BusyCount
  <1>2. IsFiniteSet(BusyTasks)
    BY BusyFinite
  <1>3. CASE Enter
    <2>1. entered + 1 \notin BusyTasks
      BY <1>3 DEF Enter, WindowLive, BusyTasks
    <2>2. BusyTasks' = BusyTasks \cup {entered + 1}
      BY <1>3 DEF Enter, BusyTasks
    <2>3. Cardinality(BusyTasks') = Cardinality(BusyTasks) + 1
      BY <1>2, <2>1, <2>2, FS_AddElement
    <2>4. semFree' = semFree - 1
      BY <1>3 DEF Enter
    <2>5. QED
      BY <1>1, <2>3, <2>4
  <1>4. ASSUME NEW i \in Chunks, FetchBody(i) \/ FetchStatus(i) \/ FetchRaise(i)
        PROVE  Cardinality(BusyTasks') = Concurrency - semFree'
    <2>1. i \in BusyTasks
      BY <1>4 DEF FetchBody, FetchStatus, FetchRaise, BusyTasks
    <2>2. CASE ~UNCHANGED semFree
      <3>1. BusyTasks' = BusyTasks \ {i}
        BY <1>4, <2>2 DEF FetchBody, FetchStatus, FetchRaise, Leave, BusyTasks
      <3>2. semFree' = semFree + 1
        BY <1>4, <2>2 DEF FetchBody, FetchStatus, FetchRaise, Leave
      <3>3. Cardinality(BusyTasks') = Cardinality(BusyTasks) - 1
        BY <1>2, <2>1, <3>1, FS_RemoveElement
      <3>4. QED
        BY <1>1, <3>2, <3>3
    <2>3. CASE UNCHANGED semFree
      <3>1. BusyTasks' = BusyTasks
        BY <1>4, <2>3 DEF FetchBody, FetchStatus, FetchRaise, Leave, BusyTasks
      <3>2. QED
        BY <1>1, <2>3, <3>1
    <2>4. QED
      BY <2>2, <2>3
  <1>5. ASSUME NEW i \in Chunks, Retry(i)
        PROVE  Cardinality(BusyTasks') = Concurrency - semFree'
    <2>1. BusyTasks' = BusyTasks
      BY <1>5 DEF Retry, BusyTasks
    <2>2. QED
      BY <1>1, <1>5, <2>1 DEF Retry
  <1>6. CASE Admit \/ Yield \/ Abort \/ Resume \/ Disconnect \/ UNCHANGED vars
    <2>1. UNCHANGED <<task, semFree>>
      <3>1. CASE Admit
        BY <3>1 DEF Admit
      <3>2. CASE Yield \/ Resume
        BY <3>2 DEF Yield, Resume
      <3>3. CASE Abort \/ Disconnect
        BY <3>3 DEF Abort, Disconnect
      <3>4. CASE UNCHANGED vars
        BY <3>4 DEF vars
      <3>5. QED
        BY <1>6, <3>1, <3>2, <3>3, <3>4
    <2>2. BusyTasks' = BusyTasks
      BY <2>1 DEF BusyTasks
    <2>3. QED
      BY <1>1, <2>1, <2>2
  <1>7. QED
    BY <1>3, <1>4, <1>5, <1>6 DEF Next

LEMMA SentStep == IInv /\ [Next]_vars => SentLive'
  <1> SUFFICES ASSUME IInv, [Next]_vars, \A i \in Chunks' : task'[i] # "whole"
               PROVE  /\ sent' <= Total'
                      /\ reader' \in {"waiting", "yielding", "finished"} => sent' = Upto(Consumed)'
    BY DEF SentLive
  <1>0. /\ N \in Nat /\ RangeOK /\ Chunks' = Chunks
        /\ Total' = Total /\ Length' = Length /\ Total \in Nat
    BY RangeFixed, RangeCut DEF IInv, TypeOK
  <1>1. ASSUME reader' = reader \/ reader' \in {"failed", "closed"}, UNCHANGED <<sent, next>>,
               \A i \in Chunks : task[i] = "whole" => task'[i] = "whole"
        PROVE  /\ sent' <= Total'
               /\ reader' \in {"waiting", "yielding", "finished"} => sent' = Upto(Consumed)'
    <2>1. \A i \in Chunks : task[i] # "whole"
      BY <1>0, <1>1
    <2>2. sent <= Total
          /\ (reader \in {"waiting", "yielding", "finished"} => sent = Upto(Consumed))
      BY <2>1 DEF IInv, SentLive
    <2>3. QED
      BY <1>0, <1>1, <2>2 DEF Upto, Consumed
  <1>2. CASE Admit \/ UNCHANGED vars
    BY <1>1, <1>2 DEF Admit, vars
  <1>3. CASE Enter
    <2>1. task \in [Chunks -> Bodies \cup
                {"idle", "fetching", "sleeping", "failed", "silent", "cancelled"}]
      BY DEF IInv, TypeOK
    <2>2. task[entered + 1] # "whole" \/ entered + 1 \notin Chunks
      BY <1>3, <1>0 DEF Enter, IInv, WindowLive, TypeOK, Chunks
    <2>3. \A i \in Chunks : task[i] = "whole" => task'[i] = "whole"
      BY <1>3, <2>1, <2>2 DEF Enter
    <2>4. QED
      BY <1>1, <1>3, <2>3 DEF Enter
  <1>4. ASSUME NEW i \in Chunks, FetchBody(i) \/ FetchStatus(i) \/ FetchRaise(i) \/ Retry(i)
        PROVE  /\ sent' <= Total'
               /\ reader' \in {"waiting", "yielding", "finished"} => sent' = Upto(Consumed)'
    <2>1. task \in [Chunks -> Bodies \cup
                {"idle", "fetching", "sleeping", "failed", "silent", "cancelled"}]
      BY DEF IInv, TypeOK
    <2>2. \A j \in Chunks : task[j] = "whole" => task'[j] = "whole"
      BY <1>4, <2>1 DEF FetchBody, FetchStatus, FetchRaise, Retry, Leave
    <2>3. UNCHANGED <<sent, next, reader>>
      BY <1>4 DEF FetchBody, FetchStatus, FetchRaise, Retry
    <2>4. QED
      BY <1>1, <2>2, <2>3
  <1>5. CASE Abort \/ Disconnect
    <2>1. \A i \in Chunks : task[i] = "whole" => task'[i] = "whole"
      BY <1>5 DEF Abort, Disconnect, CancelTasks, Busy
    <2>2. QED
      BY <1>1, <1>5, <2>1 DEF Abort, Disconnect
  <1>6. CASE Yield
    <2>1. next \in Chunks /\ next \in Nat
      BY <1>0, <1>6 DEF IInv, WindowLive, Ended, Yield, Chunks
    <2>2. UNCHANGED task /\ \A i \in Chunks : task[i] # "whole"
      BY <1>0, <1>6 DEF Yield
    <2>3. sent = Upto(next - 1)
      BY <1>6, <2>2 DEF IInv, SentLive, Yield, Consumed
    <2>4. sent' = Upto(next)
      BY <1>0, <1>6, <2>1, <2>2, <2>3, UptoNext DEF Yield, Given
    <2>5. Upto(Consumed)' = Upto(next)
      BY <1>0, <1>6 DEF Yield, Upto, Consumed
    <2>6. QED
      BY <1>0, <2>1, <2>4, <2>5, UptoNext
  <1>7. CASE Resume
    <2>1. next \in Nat
      BY <1>0 DEF IInv, TypeOK
    <2>2. \A i \in Chunks : task[i] # "whole"
      BY <1>0, <1>7 DEF Resume
    <2>3. sent = Upto(next) /\ sent <= Total
      BY <1>7, <2>2 DEF IInv, SentLive, Resume, Consumed
    <2>4. Consumed' = next /\ UNCHANGED sent
      BY <1>7, <2>1 DEF Resume, Consumed
    <2>5. Upto(Consumed)' = Upto(next)
      BY <1>0, <2>4 DEF Upto
    <2>6. QED
      BY <1>0, <2>3, <2>4, <2>5
  <1>8. QED
    BY <1>2, <1>3, <1>4, <1>5, <1>6, <1>7 DEF Next

LEMMA Inductive == IInv /\ [Next]_vars => IInv'
  BY TypeStep, WindowStep, TriesStep, ConsumedStep, ConnectionsStep, SentStep DEF IInv

THEOREM Invariance == Spec => []IInv
  BY InitIInv, Inductive, PTL DEF Spec

-----------------------------------------------------------------------------
(* The properties the runs check, for every size of the stream *)

\* Type correctness of the stream.
THEOREM TypeCorrect == Spec => []TypeOK
  BY Invariance, PTL DEF IInv

\* The connections in use are exactly the permits taken, so never more than
\* `concurrency', and none leaks on a retry, a failure or a bad status.
THEOREM Connections == Spec => []ConnectionsBounded
  BY Invariance, PTL DEF IInv

\* Memory stays within max_ahead chunks for a file of any size.
THEOREM BoundedLookAhead == Spec => []LookAheadBounded
  <1>1. IInv => LookAheadBounded
    <2> SUFFICES ASSUME IInv, ~Ended
                 PROVE  Cardinality({i \in Chunks : i > Consumed /\ (Busy(i) \/ Ready(i))})
                          <= MaxAhead
      BY DEF LookAheadBounded
    <2> DEFINE ahead == {i \in Chunks : i > Consumed /\ (Busy(i) \/ Ready(i))}
    <2> USE StreamAssumption DEF IInv, TypeOK, WindowLive, Consumed
    <2>1. Consumed \in Nat /\ admitted \in Nat /\ Consumed <= admitted
          /\ admitted - Consumed <= MaxAhead
      OBVIOUS
    <2>2. ahead \subseteq (Consumed + 1)..admitted
      BY DEF Chunks, Busy, Ready, Bodies
    <2>3. IsFiniteSet((Consumed + 1)..admitted)
          /\ Cardinality((Consumed + 1)..admitted) <= MaxAhead
      <3>1. Consumed + 1 \in Int /\ admitted \in Int
        BY <2>1
      <3>2. Cardinality((Consumed + 1)..admitted)
              = IF Consumed + 1 > admitted THEN 0 ELSE admitted - (Consumed + 1) + 1
        BY <3>1, FS_Interval
      <3>3. IsFiniteSet((Consumed + 1)..admitted)
        BY <3>1, FS_Interval
      <3>4. QED
        BY <2>1, <3>2, <3>3, StreamAssumption
    <2>4. IsFiniteSet(ahead) /\ Cardinality(ahead) <= Cardinality((Consumed + 1)..admitted)
      BY <2>2, <2>3, FS_Subset
    <2>5. Cardinality(ahead) \in Nat /\ Cardinality((Consumed + 1)..admitted) \in Nat
      BY <2>3, <2>4, FS_CardinalityType
    <2>6. QED
      BY <2>3, <2>4, <2>5
  <1>2. QED
    BY <1>1, Invariance, PTL

\* The window cannot deadlock the generator against its own tasks.
THEOREM NoWindowDeadlock == Spec => []HeadAdmitted
  <1>1. IInv => HeadAdmitted
    BY StreamAssumption DEF IInv, TypeOK, WindowLive, HeadAdmitted, Consumed, Ended
  <1>2. QED
    BY <1>1, Invariance, PTL

\* A stream that finishes delivered every chunk of the range.
THEOREM WholeRange == Spec => []FinishedWhole
  <1>1. IInv => FinishedWhole
    BY RangeCut DEF IInv, TypeOK, ConsumedLive, FinishedWhole, Chunks, Consumed
  <1>2. QED
    BY <1>1, Invariance, PTL

\* A download that finishes has the length its header announced, whatever the
\* file, the range and the size of the chunks, unless the service gave a whole
\* file for a chunk.  For a negative length nothing is sent.
THEOREM LengthAnnounced == Spec => []LengthKept
  <1>1. IInv => LengthKept
    <2> SUFFICES ASSUME IInv, \A i \in Chunks : task[i] # "whole"
                 PROVE  IF Length < 0 THEN sent = 0
                        ELSE sent <= Length /\ (reader = "finished" => sent = Length)
      BY DEF LengthKept
    <2>1. sent <= Total /\ (reader = "finished" => sent = Upto(Consumed))
      BY DEF IInv, SentLive
    <2>2. ASSUME reader = "finished" PROVE Upto(Consumed) = Total
      <3>1. Consumed = next /\ next \in Nat /\ next > 0 /\ next >= N /\ RangeOK
        BY <2>2, RangeCut DEF IInv, TypeOK, ConsumedLive, Consumed
      <3>2. QED
        BY <3>1, UptoEnd
    <2>3. Length \in Int /\ sent \in Nat
      BY DEF IInv, TypeOK, RangeOK, Length
    <2>4. CASE Length < 0
      BY <2>1, <2>3, <2>4 DEF Total
    <2>5. CASE ~(Length < 0)
      <3>1. Total = Length
        BY <2>3, <2>5 DEF Total
      <3>2. QED
        BY <2>1, <2>2, <2>5, <3>1
    <2>6. QED
      BY <2>4, <2>5
  <1>2. QED
    BY <1>1, Invariance, PTL

=============================================================================
