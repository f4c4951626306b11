-------------------------- MODULE WorkerPoolProofs --------------------------
(***************************************************************************)
(* Proofs about WorkerPool, for every number of workers, every size of the *)
(* queue and every number of connections: the indices of the ring buffer   *)
(* stay in range, the master sleeps on a full queue only, mg_stop sees the *)
(* end of the last thread before the context is freed, and the ring buffer *)
(* implements the queue of SocketQueue.                                    *)
(***************************************************************************)
EXTENDS WorkerPool, FiniteSetTheorems, SequenceTheorems, TLAPS

Alive == {w \in Workers : wpc[w] # "gone"}

IInv == TypeOK /\ QueueIndices /\ MasterSleepsOnFull /\ ContextOutlivesThreads

\* A step in which nobody enters or leaves the state "gone".
SameAlive == \A w \in Workers : wpc'[w] = "gone" <=> wpc[w] = "gone"
-----------------------------------------------------------------------------
(* Facts about the ring buffer and the counter.                            *)

(* The slot queue[i % ARRAY_SIZE] exists.                                  *)
LEMMA SlotExists == \A i \in Nat : i % Size \in 0..Size-1
  BY PoolAssumption

(* A step that leaves num_threads alone and nobody gone keeps the count.   *)
LEMMA SameAliveKeeps ==
  ASSUME ContextOutlivesThreads, SameAlive,
         num_threads' = num_threads, stop_flag' # 2 \/ stop_flag' = stop_flag
  PROVE  ContextOutlivesThreads'
  <1>1. {w \in Workers : wpc'[w] # "gone"} = {w \in Workers : wpc[w] # "gone"}
    BY DEF SameAlive
  <1>2. num_threads' = Cardinality({w \in Workers : wpc'[w] # "gone"})
    BY <1>1 DEF ContextOutlivesThreads
  <1>3. stop_flag' = 2 => \A w \in Workers : wpc'[w] = "gone"
    BY DEF ContextOutlivesThreads, SameAlive
  <1> QED
    BY <1>2, <1>3 DEF ContextOutlivesThreads

(* The decrement at the end of worker_thread() follows the thread's end.   *)
LEMMA ExitCounts ==
  ASSUME TypeOK, ContextOutlivesThreads, NEW w \in Workers, Exit(w)
  PROVE  num_threads' \in Nat /\ ContextOutlivesThreads'
  <1>1. Alive' = Alive \ {w} /\ w \in Alive
    BY DEF Exit, Alive, TypeOK
  <1>2. IsFiniteSet(Alive)
    BY FS_Subset, PoolAssumption DEF Alive
  <1>3. Cardinality(Alive') = Cardinality(Alive) - 1 /\ Cardinality(Alive) \in Nat
    BY <1>1, <1>2, FS_RemoveElement, FS_CardinalityType
  <1>4. Cardinality(Alive) # 0
    BY <1>1, <1>2, FS_EmptySet
  <1>5. num_threads = Cardinality(Alive) /\ num_threads' = num_threads - 1
    BY DEF Alive, ContextOutlivesThreads, Exit
  <1>6. stop_flag' # 2
    BY DEF Exit, ContextOutlivesThreads
  <1> QED
    BY <1>3, <1>4, <1>5, <1>6 DEF ContextOutlivesThreads, Alive

(* master_thread() reaches stop_flag = 2 only when no thread is left.      *)
LEMMA JoinLast ==
  ASSUME TypeOK, ContextOutlivesThreads, Join
  PROVE  ContextOutlivesThreads'
  <1>1. IsFiniteSet(Alive)
    BY FS_Subset, PoolAssumption DEF Alive
  <1>2. Cardinality(Alive) = 0
    BY DEF Join, Alive, ContextOutlivesThreads, TypeOK
  <1>3. Alive = {}
    BY <1>1, <1>2, FS_EmptySet
  <1>4. UNCHANGED <<wpc, num_threads>>
    BY DEF Join
  <1> QED
    BY <1>3, <1>4 DEF ContextOutlivesThreads, Alive
-----------------------------------------------------------------------------
(* One lemma per action.                                                   *)

(* consume_socket() takes a socket and wraps the indices.                  *)
LEMMA ConsumeTakeKeeps ==
  ASSUME IInv, NEW w \in Workers, ConsumeTake(w)
  PROVE  IInv'
  <1> USE DEF IInv
  <1>1. /\ sq_head \in Nat /\ sq_tail \in Nat /\ Size \in Nat \ {0}
        /\ sq_head # sq_tail /\ sq_tail <= sq_head
        /\ sq_head - sq_tail <= Size /\ sq_tail <= Size
    BY PoolAssumption DEF TypeOK, QueueIndices, ConsumeTake
  <1>2. /\ sq_tail' = Wrap(sq_tail + 1, sq_tail + 1)
        /\ sq_head' = Wrap(sq_head, sq_tail + 1)
    BY DEF ConsumeTake
  <1>3. QueueIndices' /\ sq_head' \in Nat /\ sq_tail' \in Nat
    BY <1>1, <1>2 DEF Wrap, QueueIndices
  <1>4. queue[sq_tail % Size] \in Sockets \cup {NoSocket}
    BY <1>1, SlotExists DEF TypeOK
  <1>5. TypeOK'
    BY <1>3, <1>4 DEF ConsumeTake, TypeOK, WorkerStates, MasterStates
  <1>6. MasterSleepsOnFull'
    BY DEF ConsumeTake, MasterSleepsOnFull
  <1>7. ContextOutlivesThreads'
    <2>1. SameAlive
      BY DEF ConsumeTake, AtTest, SameAlive, TypeOK
    <2> QED BY <2>1, SameAliveKeeps DEF ConsumeTake
  <1> QED
    BY <1>3, <1>5, <1>6, <1>7

(* produce_socket() puts one in, on a queue that is not full.              *)
LEMMA ProducePutKeeps ==
  ASSUME IInv, ProducePut
  PROVE  IInv'
  <1> USE DEF IInv
  <1>1. /\ sq_head \in Nat /\ sq_tail \in Nat /\ Size \in Nat
    BY PoolAssumption DEF TypeOK
  <1>2. QueueIndices' /\ sq_head' \in Nat /\ sq_tail' \in Nat
    BY <1>1 DEF ProducePut, Full, QueueIndices
  <1>3. signalled' \in SUBSET Workers
    BY DEF ProducePut, SignalFull, Parked, TypeOK
  <1>4. queue' \in [0..Size-1 -> Sockets \cup {NoSocket}]
    BY DEF ProducePut, TypeOK
  <1>5. TypeOK'
    BY <1>2, <1>3, <1>4 DEF ProducePut, TypeOK, MasterStates
  <1>6. MasterSleepsOnFull'
    BY DEF ProducePut, MasterSleepsOnFull
  <1>7. ContextOutlivesThreads'
    BY SameAliveKeeps DEF ProducePut, SameAlive
  <1> QED
    BY <1>2, <1>5, <1>6, <1>7

(* The other steps of a worker.                                            *)
LEMMA WorkerKeeps ==
  ASSUME IInv, NEW w \in Workers,
         \/ Loop(w) \/ ConsumeEmpty(w) \/ ConsumeStop(w) \/ Park(w)
         \/ Serve(w) \/ SpuriousWakeup(w)
  PROVE  IInv'
  <1> USE DEF IInv
  <1>1. TypeOK'
    BY DEF Loop, ConsumeEmpty, ConsumeStop, Park, Serve, SpuriousWakeup, TypeOK,
           WorkerStates
  <1>2. QueueIndices' /\ MasterSleepsOnFull'
    BY DEF Loop, ConsumeEmpty, ConsumeStop, Park, Serve, SpuriousWakeup,
           QueueIndices, MasterSleepsOnFull, Full
  <1>3. SameAlive
    BY DEF Loop, ConsumeEmpty, ConsumeStop, Park, Serve, SpuriousWakeup, TypeOK,
           AtTest, SameAlive
  <1>4. UNCHANGED <<num_threads, stop_flag>>
    BY DEF Loop, ConsumeEmpty, ConsumeStop, Park, Serve, SpuriousWakeup
  <1> QED
    BY <1>1, <1>2, <1>3, <1>4, SameAliveKeeps

(* The other steps of the master, and mg_stop().                           *)
LEMMA MasterKeeps ==
  ASSUME IInv,
         \/ ProduceWait \/ ProduceSpurious \/ LeaveLoop \/ WakeWorkers \/ mg_stop
         \/ \E allowed \in BOOLEAN : Accept(allowed)
  PROVE  IInv'
  <1> USE DEF IInv
  <1>1. TypeOK'
    <2>1. CASE ProduceWait \/ ProduceSpurious \/ LeaveLoop \/ mg_stop
      BY <2>1 DEF ProduceWait, ProduceSpurious, LeaveLoop, mg_stop, TypeOK,
                  MasterStates
    <2>2. CASE WakeWorkers
      BY <2>2 DEF WakeWorkers, Parked, TypeOK, MasterStates
    <2>3. CASE \E allowed \in BOOLEAN : Accept(allowed)
      <3>1. opened' \in 0..MaxSockets /\ opened + 1 \in Sockets
        BY <2>3, PoolAssumption DEF Accept, TypeOK, Sockets
      <3>2. incoming' \in Sockets \cup {NoSocket} /\ mpc' \in MasterStates
        BY <2>3, <3>1 DEF Accept, TypeOK, MasterStates
      <3> QED BY <2>3, <3>1, <3>2 DEF Accept, TypeOK
    <2> QED BY <2>1, <2>2, <2>3
  <1>2. QueueIndices' /\ MasterSleepsOnFull'
    BY DEF ProduceWait, ProduceSpurious, LeaveLoop, WakeWorkers, mg_stop, Accept,
           QueueIndices, MasterSleepsOnFull, Full
  <1>3. UNCHANGED <<num_threads, wpc>> /\ (stop_flag' # 2 \/ stop_flag' = stop_flag)
    BY DEF ProduceWait, ProduceSpurious, LeaveLoop, WakeWorkers, mg_stop, Accept
  <1> QED
    BY <1>1, <1>2, <1>3, SameAliveKeeps DEF SameAlive

(* The end of a worker and the end of the master.                          *)
LEMMA EndKeeps ==
  ASSUME IInv, Join \/ \E w \in Workers : Exit(w)
  PROVE  IInv'
  <1> USE DEF IInv
  <1>1. CASE Join
    <2>1. TypeOK' /\ QueueIndices' /\ MasterSleepsOnFull'
      BY <1>1 DEF Join, TypeOK, QueueIndices, MasterSleepsOnFull, Full, MasterStates
    <2> QED BY <1>1, <2>1, JoinLast
  <1>2. CASE \E w \in Workers : Exit(w)
    <2>1. PICK w \in Workers : Exit(w)
      BY <1>2
    <2>2. num_threads' \in Nat /\ ContextOutlivesThreads'
      BY <2>1, ExitCounts
    <2>3. TypeOK' /\ QueueIndices' /\ MasterSleepsOnFull'
      BY <2>1, <2>2 DEF Exit, TypeOK, QueueIndices, MasterSleepsOnFull, Full,
                        WorkerStates
    <2> QED BY <2>2, <2>3
  <1> QED
    BY <1>1, <1>2
-----------------------------------------------------------------------------
(* No socket is stranded.                                                  *)

\* A worker between the test and cond_wait holds the mutex, so the queue it
\* has found empty still is.
ParkingEmpty ==
  \A w \in Workers : wpc[w] = "parking" => mutex = w /\ sq_head = sq_tail

StrandInv == NoStrandedSocket /\ ParkingEmpty

(* produce_socket() wakes a sleeping worker with the socket it queues.     *)
LEMMA ProducePutStrands ==
  ASSUME TypeOK, StrandInv, ProducePut
  PROVE  StrandInv'
  <1>1. ParkingEmpty'
    BY PoolAssumption DEF ProducePut, Free, StrandInv, ParkingEmpty
  <1>2. CASE Parked = {}
    <2>1. Parked' = {}
      BY <1>2 DEF ProducePut, SignalFull, Parked
    <2> QED BY <1>1, <2>1 DEF StrandInv, NoStrandedSocket
  <1>3. CASE Parked # {}
    <2>1. PICK w \in Parked : signalled' = signalled \cup {w}
      BY <1>3 DEF ProducePut, SignalFull
    <2>2. w \in Workers /\ w \notin Parked'
      BY <2>1 DEF Parked
    <2> QED BY <1>1, <2>2 DEF StrandInv, NoStrandedSocket
  <1> QED
    BY <1>2, <1>3

(* A worker falls asleep on an empty queue only, and stays out of the way  *)
(* of the count otherwise.                                                 *)
LEMMA WorkerStrands ==
  ASSUME TypeOK, StrandInv, NEW w \in Workers,
         \/ Loop(w) \/ Consume(w) \/ Park(w) \/ Serve(w) \/ Exit(w)
  PROVE  StrandInv'
  <1>1. CASE Park(w)
    BY <1>1 DEF Park, StrandInv, ParkingEmpty, NoStrandedSocket, TypeOK
  <1>2. CASE ConsumeEmpty(w)
    <2>1. ParkingEmpty'
      BY <1>2, PoolAssumption DEF ConsumeEmpty, AtTest, Free, StrandInv,
                                  ParkingEmpty, TypeOK
    <2>2. sq_head' = sq_tail'
      BY <1>2 DEF ConsumeEmpty
    <2> QED BY <2>1, <2>2 DEF StrandInv, NoStrandedSocket
  <1>3. CASE ConsumeTake(w) \/ ConsumeStop(w)
    <2>1. w \notin Parked'
      BY <1>3 DEF ConsumeTake, ConsumeStop, Parked, TypeOK
    <2>2. ParkingEmpty'
      BY <1>3, PoolAssumption DEF ConsumeTake, ConsumeStop, AtTest, Free,
                                  StrandInv, ParkingEmpty, TypeOK
    <2> QED BY <2>1, <2>2 DEF StrandInv, NoStrandedSocket
  <1>4. CASE Loop(w) \/ Serve(w) \/ Exit(w)
    <2>1. w \notin Parked'
      BY <1>4 DEF Loop, Serve, Exit, Parked, TypeOK
    <2>2. ParkingEmpty'
      BY <1>4 DEF Loop, Serve, Exit, StrandInv, ParkingEmpty, TypeOK
    <2> QED BY <2>1, <2>2 DEF StrandInv, NoStrandedSocket
  <1> QED
    BY <1>1, <1>2, <1>3, <1>4 DEF Consume

(* Spurious and deliberate wake-ups only take workers out of cond_wait;    *)
(* the rest does not touch them.                                           *)
LEMMA OtherStrands ==
  ASSUME TypeOK, StrandInv,
         \/ \E w \in Workers : SpuriousWakeup(w)
         \/ ProduceWait \/ ProduceSpurious \/ LeaveLoop \/ WakeWorkers \/ Join
         \/ mg_stop \/ \E allowed \in BOOLEAN : Accept(allowed)
  PROVE  StrandInv'
  <1>1. /\ Parked' \subseteq Parked
        /\ UNCHANGED <<wpc, mutex, sq_head, sq_tail>>
        /\ stop_flag' = 0 => stop_flag = 0
    BY DEF SpuriousWakeup, ProduceWait, ProduceSpurious, LeaveLoop, WakeWorkers,
           Join, mg_stop, Accept, Parked
  <1>2. Parked \subseteq Workers
    BY DEF Parked
  <1> QED
    BY <1>1, <1>2 DEF StrandInv, ParkingEmpty, NoStrandedSocket
-----------------------------------------------------------------------------
(* The theorems.                                                           *)

(* mg_start() leaves the pool in a state that satisfies the invariant.     *)
LEMMA InitIInv == Init => IInv
  <1> SUFFICES ASSUME Init PROVE IInv
    OBVIOUS
  <1>1. Cardinality(Workers) \in Nat
    BY FS_CardinalityType, PoolAssumption
  <1>2. Alive = Workers
    BY DEF Init, Alive
  <1>3. TypeOK
    BY <1>1, PoolAssumption DEF Init, TypeOK, WorkerStates, MasterStates
  <1>4. QueueIndices /\ MasterSleepsOnFull
    BY PoolAssumption DEF Init, QueueIndices, MasterSleepsOnFull
  <1>5. ContextOutlivesThreads
    BY <1>2 DEF Init, Alive, ContextOutlivesThreads
  <1> QED
    BY <1>3, <1>4, <1>5 DEF IInv

(* Every step of a worker, of the master and of mg_stop() keeps it.        *)
LEMMA NextIInv == IInv /\ [Next]_vars => IInv'
  <1> SUFFICES ASSUME IInv, [Next]_vars PROVE IInv'
    OBVIOUS
  <1>1. CASE \E w \in Workers : ConsumeTake(w)
    BY <1>1, ConsumeTakeKeeps
  <1>2. CASE \E w \in Workers : \/ Loop(w) \/ ConsumeEmpty(w) \/ ConsumeStop(w)
                                \/ Park(w) \/ Serve(w) \/ SpuriousWakeup(w)
    BY <1>2, WorkerKeeps
  <1>3. CASE ProducePut
    BY <1>3, ProducePutKeeps
  <1>4. CASE \/ ProduceWait \/ ProduceSpurious \/ LeaveLoop \/ WakeWorkers \/ mg_stop
             \/ \E allowed \in BOOLEAN : Accept(allowed)
    BY <1>4, MasterKeeps
  <1>5. CASE Join \/ \E w \in Workers : Exit(w)
    BY <1>5, EndKeeps
  <1>6. CASE UNCHANGED vars
    BY <1>6 DEF vars, IInv, TypeOK, QueueIndices, MasterSleepsOnFull, Full,
                ContextOutlivesThreads
  <1> QED
    BY <1>1, <1>2, <1>3, <1>4, <1>5, <1>6 DEF Next, Consume, Master, Produce

(* The pool's state keeps its shape; in particular the assertion of        *)
(* worker_thread(), num_threads >= 0, holds.                               *)
THEOREM PoolTypeOK == Spec => []TypeOK
  <1>1. IInv => TypeOK
    BY DEF IInv
  <1> QED
    BY <1>1, InitIInv, NextIInv, PTL DEF Spec

(* The assertions of consume_socket() and produce_socket() on the indices  *)
(* of the ring buffer hold, and the indices stay small for ever.           *)
THEOREM PoolQueueIndices == Spec => []QueueIndices
  <1>1. IInv => QueueIndices
    BY DEF IInv
  <1> QED
    BY <1>1, InitIInv, NextIInv, PTL DEF Spec

(* The signal of sq_empty is never lost.                                   *)
THEOREM PoolMasterSleepsOnFull == Spec => []MasterSleepsOnFull
  <1>1. IInv => MasterSleepsOnFull
    BY DEF IInv
  <1> QED
    BY <1>1, InitIInv, NextIInv, PTL DEF Spec

(* stop_flag reaches 2, after which mg_stop() frees the context, only when *)
(* every worker thread is gone.                                            *)
THEOREM PoolContextOutlivesThreads == Spec => []ContextOutlivesThreads
  <1>1. IInv => ContextOutlivesThreads
    BY DEF IInv
  <1> QED
    BY <1>1, InitIInv, NextIInv, PTL DEF Spec

(* As long as the server is not stopping, a socket in the queue always has *)
(* a worker that is awake or has been signalled: pthread_cond_signal in    *)
(* produce_socket() is enough, for any number of workers.                  *)
THEOREM PoolNoStrandedSocket == Spec => []NoStrandedSocket
  <1>1. Init => StrandInv
    BY DEF Init, StrandInv, NoStrandedSocket, ParkingEmpty
  <1>2. TypeOK /\ StrandInv /\ [Next]_vars => StrandInv'
    <2> SUFFICES ASSUME TypeOK, StrandInv, [Next]_vars PROVE StrandInv'
      OBVIOUS
    <2>1. CASE ProducePut
      BY <2>1, ProducePutStrands
    <2>2. CASE \E w \in Workers : \/ Loop(w) \/ Consume(w) \/ Park(w)
                                  \/ Serve(w) \/ Exit(w)
      BY <2>2, WorkerStrands
    <2>3. CASE \/ \E w \in Workers : SpuriousWakeup(w)
               \/ ProduceWait \/ ProduceSpurious \/ LeaveLoop \/ WakeWorkers \/ Join
               \/ mg_stop \/ \E allowed \in BOOLEAN : Accept(allowed)
      BY <2>3, OtherStrands
    <2>4. CASE UNCHANGED vars
      BY <2>4 DEF vars, StrandInv, NoStrandedSocket, ParkingEmpty, Parked
    <2> QED
      BY <2>1, <2>2, <2>3, <2>4 DEF Next, Master, Produce
  <1>3. StrandInv => NoStrandedSocket
    BY DEF StrandInv
  <1> QED
    BY <1>1, <1>2, <1>3, PoolTypeOK, PTL DEF Spec
-----------------------------------------------------------------------------
(* The ring buffer implements the queue of SocketQueue.                    *)

\* A worker has a socket exactly while it serves it.
BusyHasSocket == \A w \in Workers : wpc[w] = "busy" <=> sock[w] # NoSocket

\* What waits to be queued, and every slot between the indices, is a socket.
SlotsFilled ==
  /\ mpc \in {"produce", "full"} => incoming \in Sockets
  /\ \A i \in 1..(sq_head - sq_tail) : queue[(sq_tail + i - 1) % Size] \in Sockets

RingInv == BusyHasSocket /\ SlotsFilled

(* An index in range is its own slot, one beyond it starts again.          *)
LEMMA SlotOf ==
  /\ \A i \in Nat : i < Size => i % Size = i
  /\ \A i \in Nat : Size <= i /\ i < 2 * Size => i % Size = i - Size
  BY PoolAssumption

(* Indices less than ARRAY_SIZE apart have different slots, which is why   *)
(* produce_socket() overwrites none that is waiting.                       *)
LEMMA SlotsDiffer ==
  ASSUME NEW a \in Nat, NEW b \in Nat, a < b, b < a + Size, b < 2 * Size
  PROVE  a % Size # b % Size
  BY PoolAssumption, SlotOf

(* Both indices may be reduced by ARRAY_SIZE.                              *)
LEMMA SlotWraps ==
  ASSUME NEW i \in Nat, i < Size
  PROVE  (Size + i) % Size = i % Size
  BY PoolAssumption, SlotOf

\* The waiting sockets are a sequence, one entry per index.
WaitingShape ==
  /\ Waiting \in Seq(Sockets \cup {NoSocket})
  /\ Len(Waiting) = sq_head - sq_tail
  /\ \A i \in 1..(sq_head - sq_tail) :
       Waiting[i] = queue[(sq_tail + i - 1) % Size]

(* Whatever the two indices are, the slots between them form a sequence.   *)
LEMMA WaitingSeq == TypeOK /\ QueueIndices => WaitingShape
  <1> SUFFICES ASSUME TypeOK, QueueIndices PROVE WaitingShape
    OBVIOUS
  <1>1. sq_head - sq_tail \in Nat
    BY DEF TypeOK, QueueIndices
  <1>2. \A i \in 1..(sq_head - sq_tail) :
          queue[(sq_tail + i - 1) % Size] \in Sockets \cup {NoSocket}
    <2> TAKE i \in 1..(sq_head - sq_tail)
    <2>1. sq_tail + i - 1 \in Nat
      BY DEF TypeOK
    <2> QED BY <2>1, SlotExists DEF TypeOK
  <1> QED
    BY <1>1, <1>2 DEF Waiting, WaitingShape

(* produce_socket() appends the socket it was given.                       *)
LEMMA PutAppends ==
  ASSUME TypeOK, QueueIndices, TypeOK', QueueIndices', SlotsFilled, ProducePut
  PROVE  Waiting' = Append(Waiting, incoming) /\ SlotsFilled'
  <1>1. /\ sq_head \in Nat /\ sq_tail \in Nat /\ Size \in Nat \ {0}
        /\ sq_tail <= Size /\ sq_tail <= sq_head /\ sq_head - sq_tail < Size
        /\ sq_head' = sq_head + 1 /\ sq_tail' = sq_tail
    BY PoolAssumption DEF TypeOK, QueueIndices, ProducePut, Full
  <1>2. incoming \in Sockets /\ mpc' = "select"
    BY DEF SlotsFilled, ProducePut
  <1>3. queue' = [queue EXCEPT ![sq_head % Size] = incoming] /\ sq_head % Size \in 0..Size-1
    BY <1>1, SlotExists DEF ProducePut
  <1>4. \A i \in 1..(sq_head - sq_tail) :
          queue'[(sq_tail + i - 1) % Size] = queue[(sq_tail + i - 1) % Size]
    <2> TAKE i \in 1..(sq_head - sq_tail)
    <2>1. /\ sq_tail + i - 1 \in Nat /\ sq_tail + i - 1 < sq_head
          /\ sq_head < sq_tail + i - 1 + Size /\ sq_head < 2 * Size
      BY <1>1
    <2>2. (sq_tail + i - 1) % Size # sq_head % Size
      BY <1>1, <2>1, SlotsDiffer
    <2>3. (sq_tail + i - 1) % Size \in 0..Size-1
      BY <2>1, SlotExists
    <2> QED BY <1>3, <2>2, <2>3 DEF TypeOK
  <1>5. queue'[sq_head % Size] = incoming
    BY <1>3 DEF TypeOK
  <1> DEFINE App == Append(Waiting, incoming)
  <1>6. /\ App \in Seq(Sockets \cup {NoSocket})
        /\ Len(App) = sq_head - sq_tail + 1
        /\ \A i \in 1..(sq_head - sq_tail) : App[i] = Waiting[i]
        /\ App[sq_head - sq_tail + 1] = incoming
    BY <1>2, WaitingSeq, AppendProperties DEF WaitingShape
  <1> HIDE DEF App
  <1>7. /\ Waiting' \in Seq(Sockets \cup {NoSocket})
        /\ Len(Waiting') = sq_head - sq_tail + 1
        /\ \A i \in 1..(sq_head - sq_tail + 1) :
             Waiting'[i] = queue'[(sq_tail + i - 1) % Size]
    <2>1. sq_head' - sq_tail' = sq_head - sq_tail + 1 /\ sq_tail' = sq_tail
      BY <1>1
    <2>2. WaitingShape'
      BY WaitingSeq, PTL
    <2> QED BY <2>1, <2>2 DEF WaitingShape
  <1>8. \A i \in 1..(sq_head - sq_tail + 1) : Waiting'[i] = App[i]
    <2> TAKE i \in 1..(sq_head - sq_tail + 1)
    <2>1. CASE i \in 1..(sq_head - sq_tail)
      BY <1>4, <1>6, <1>7, <2>1, WaitingSeq DEF WaitingShape
    <2>2. CASE i = sq_head - sq_tail + 1
      <3>1. sq_tail + i - 1 = sq_head
        BY <1>1, <2>2
      <3>2. Waiting'[i] = incoming
        BY <1>5, <1>7, <3>1
      <3> QED BY <1>6, <2>2, <3>2
    <2> QED BY <1>1, <2>1, <2>2
  <1>9. Waiting' = App
    BY <1>6, <1>7, <1>8, SeqEqual
  <1>10. SlotsFilled'
    <2> SUFFICES ASSUME NEW i \in 1..(sq_head - sq_tail + 1)
                 PROVE  queue'[(sq_tail + i - 1) % Size] \in Sockets
      BY <1>1, <1>2 DEF SlotsFilled
    <2>1. CASE i \in 1..(sq_head - sq_tail)
      BY <1>4, <2>1 DEF SlotsFilled
    <2>2. CASE i = sq_head - sq_tail + 1
      <3>1. sq_tail + i - 1 = sq_head
        BY <1>1, <2>2
      <3> QED BY <1>2, <1>5, <3>1
    <2> QED BY <1>1, <2>1, <2>2
  <1> QED
    BY <1>9, <1>10 DEF App

(* consume_socket() takes the oldest socket, and the indices it wraps      *)
(* denote the same slots.                                                  *)
LEMMA TakeRemoves ==
  ASSUME TypeOK, QueueIndices, TypeOK', QueueIndices', SlotsFilled,
         NEW w \in Workers, ConsumeTake(w)
  PROVE  /\ Waiting # <<>>
         /\ Waiting' = Tail(Waiting)
         /\ sock'[w] = Head(Waiting) /\ Head(Waiting) \in Sockets
         /\ SlotsFilled'
  <1>1. /\ sq_head \in Nat /\ sq_tail \in Nat /\ Size \in Nat \ {0}
        /\ sq_tail <= Size /\ sq_tail < sq_head /\ sq_head - sq_tail <= Size
        /\ sq_tail' = Wrap(sq_tail + 1, sq_tail + 1)
        /\ sq_head' = Wrap(sq_head, sq_tail + 1)
        /\ queue' = queue
    BY PoolAssumption DEF TypeOK, QueueIndices, ConsumeTake
  <1>2. sq_head' - sq_tail' = sq_head - sq_tail - 1
    BY <1>1 DEF Wrap
  <1>3. \A i \in 1..(sq_head - sq_tail - 1) :
          (sq_tail' + i - 1) % Size = (sq_tail + (i + 1) - 1) % Size
    <2> TAKE i \in 1..(sq_head - sq_tail - 1)
    <2>1. CASE sq_tail + 1 <= Size
      <3>1. sq_tail' + i - 1 = sq_tail + (i + 1) - 1
        BY <1>1, <2>1 DEF Wrap
      <3> QED BY <3>1
    <2>2. CASE sq_tail = Size
      <3>1. sq_tail' + i - 1 = i /\ sq_tail + (i + 1) - 1 = Size + i /\ i \in Nat /\ i < Size
        BY <1>1, <2>2 DEF Wrap
      <3> QED BY <3>1, SlotWraps
    <2> QED BY <1>1, <2>1, <2>2
  <1>4. Waiting # <<>> /\ Len(Waiting) = sq_head - sq_tail
    BY <1>1, WaitingSeq DEF WaitingShape
  <1>5. /\ Tail(Waiting) \in Seq(Sockets \cup {NoSocket})
        /\ Len(Tail(Waiting)) = sq_head - sq_tail - 1
        /\ \A i \in 1..(sq_head - sq_tail - 1) : Tail(Waiting)[i] = Waiting[i + 1]
    BY <1>4, WaitingSeq, HeadTailProperties DEF WaitingShape
  <1>6. /\ Waiting' \in Seq(Sockets \cup {NoSocket})
        /\ Len(Waiting') = sq_head - sq_tail - 1
        /\ \A i \in 1..(sq_head - sq_tail - 1) :
             Waiting'[i] = queue[(sq_tail' + i - 1) % Size]
    <2>1. WaitingShape'
      BY WaitingSeq, PTL
    <2> QED BY <1>1, <1>2, <2>1 DEF WaitingShape
  <1>7. \A i \in 1..(sq_head - sq_tail - 1) :
          /\ i + 1 \in 1..(sq_head - sq_tail)
          /\ Waiting'[i] = Waiting[i + 1]
    <2> TAKE i \in 1..(sq_head - sq_tail - 1)
    <2>1. i + 1 \in 1..(sq_head - sq_tail)
      BY <1>1
    <2> QED BY <1>3, <1>6, <2>1, WaitingSeq DEF WaitingShape
  <1>8. Waiting' = Tail(Waiting)
    BY <1>5, <1>6, <1>7, SeqEqual
  <1>9. sock'[w] = Head(Waiting) /\ Head(Waiting) \in Sockets
    <2>1. 1 \in 1..(sq_head - sq_tail) /\ sq_tail + 1 - 1 = sq_tail
      BY <1>1
    <2>2. Head(Waiting) = queue[sq_tail % Size]
      BY <1>4, <2>1, WaitingSeq DEF WaitingShape
    <2>3. queue[sq_tail % Size] \in Sockets
      BY <2>1 DEF SlotsFilled
    <2> QED BY <2>2, <2>3 DEF ConsumeTake, TypeOK
  <1>10. SlotsFilled'
    <2>1. \A i \in 1..(sq_head - sq_tail - 1) : queue[(sq_tail' + i - 1) % Size] \in Sockets
      BY <1>3, <1>7 DEF SlotsFilled
    <2>2. mpc' \in {"produce", "full"} => incoming' \in Sockets
      BY DEF SlotsFilled, ConsumeTake
    <2> QED BY <1>1, <1>2, <2>1, <2>2 DEF SlotsFilled
  <1> QED
    BY <1>4, <1>8, <1>9, <1>10

(* The rest of the server leaves the ring, and the sockets in hand, as     *)
(* they are, except a worker that has served its own.                      *)
LEMMA OtherKeepsRing ==
  ASSUME TypeOK, RingInv, [Next]_vars, ~ProducePut,
         ~\E w \in Workers : ConsumeTake(w) \/ Serve(w)
  PROVE  RingInv' /\ UNCHANGED <<Waiting, sock>>
  <1>1. UNCHANGED <<queue, sq_head, sq_tail, sock>>
    BY DEF Next, Loop, Consume, ConsumeEmpty, ConsumeStop, Park, Exit,
           SpuriousWakeup, Master, Produce, ProduceWait, LeaveLoop, WakeWorkers,
           Join, ProduceSpurious, Accept, mg_stop, vars
  <1>2. \A w \in Workers : wpc'[w] = "busy" <=> wpc[w] = "busy"
    BY DEF Next, Loop, Consume, ConsumeEmpty, ConsumeStop, Park, Exit,
           SpuriousWakeup, Master, Produce, ProduceWait, LeaveLoop, WakeWorkers,
           Join, ProduceSpurious, Accept, mg_stop, vars, AtTest, TypeOK
  <1>3. mpc' \in {"produce", "full"} => incoming' \in Sockets
    <2>1. CASE \E allowed \in BOOLEAN : Accept(allowed)
      <3>1. opened + 1 \in Sockets
        BY <2>1, PoolAssumption DEF Accept, TypeOK, Sockets
      <3> QED BY <2>1, <3>1 DEF Accept, RingInv, SlotsFilled
    <2>2. CASE ~\E allowed \in BOOLEAN : Accept(allowed)
      BY <2>2 DEF Next, Loop, Consume, ConsumeEmpty, ConsumeStop, Park, Exit,
           SpuriousWakeup, Master, Produce, ProduceWait, LeaveLoop, WakeWorkers,
           Join, ProduceSpurious, mg_stop, vars, RingInv, SlotsFilled
    <2> QED BY <2>1, <2>2
  <1>4. RingInv'
    BY <1>1, <1>2, <1>3 DEF RingInv, BusyHasSocket, SlotsFilled
  <1>5. UNCHANGED Waiting
    BY <1>1 DEF Waiting
  <1> QED
    BY <1>1, <1>4, <1>5

(* Every step of the thread pool puts a socket at the end of the queue,    *)
(* hands the first one to a worker without one, ends the service of one,   *)
(* or is nothing to the queue.                                             *)
LEMMA StepMaps ==
  ASSUME IInv, IInv', RingInv, [Next]_vars
  PROVE  RingInv' /\ [Abstract!Next]_<<Waiting, sock>>
  <1> USE DEF IInv
  <1>1. CASE ProducePut
    <2>1. Waiting' = Append(Waiting, incoming) /\ SlotsFilled' /\ incoming \in Sockets
      BY <1>1, PutAppends DEF RingInv, SlotsFilled, ProducePut
    <2>2. UNCHANGED <<sock, wpc>> /\ sq_head - sq_tail < Size
      BY <1>1, PoolAssumption DEF ProducePut, Full, TypeOK
    <2>3. Len(Waiting) < Size
      BY <2>2, WaitingSeq DEF WaitingShape
    <2>4. Abstract!Put(incoming)
      BY <2>1, <2>2, <2>3 DEF Abstract!Put
    <2>5. BusyHasSocket'
      BY <2>2 DEF RingInv, BusyHasSocket
    <2> QED BY <2>1, <2>4, <2>5 DEF Abstract!Next, RingInv
  <1>2. CASE \E w \in Workers : ConsumeTake(w)
    <2>1. PICK w \in Workers : ConsumeTake(w)
      BY <1>2
    <2>2. /\ Waiting # <<>> /\ Waiting' = Tail(Waiting) /\ SlotsFilled'
          /\ sock'[w] = Head(Waiting) /\ Head(Waiting) \in Sockets
      BY <2>1, TakeRemoves DEF RingInv
    <2>3. /\ sock' = [sock EXCEPT ![w] = sock'[w]]
          /\ wpc' = [wpc EXCEPT ![w] = "busy"] /\ wpc[w] # "busy"
      BY <2>1 DEF ConsumeTake, AtTest, TypeOK
    <2>4. sock[w] = NoSocket
      BY <2>3 DEF RingInv, BusyHasSocket
    <2>5. Abstract!Take(w)
      BY <2>2, <2>3, <2>4 DEF Abstract!Take
    <2>6. BusyHasSocket'
      BY <2>2, <2>3, PoolAssumption DEF RingInv, BusyHasSocket, TypeOK
    <2> QED BY <2>2, <2>5, <2>6 DEF Abstract!Next, RingInv
  <1>3. CASE \E w \in Workers : Serve(w)
    <2>1. PICK w \in Workers : Serve(w)
      BY <1>3
    <2>2. UNCHANGED <<queue, sq_head, sq_tail, mpc, incoming>>
      BY <2>1 DEF Serve
    <2>3. UNCHANGED Waiting /\ SlotsFilled'
      BY <2>2 DEF Waiting, RingInv, SlotsFilled
    <2>4. Abstract!Finish(w)
      BY <2>1, <2>3 DEF Abstract!Finish, Serve, RingInv, BusyHasSocket
    <2>5. BusyHasSocket'
      BY <2>1 DEF Serve, RingInv, BusyHasSocket, TypeOK
    <2> QED BY <2>3, <2>4, <2>5 DEF Abstract!Next, RingInv
  <1>4. CASE ~ProducePut /\ ~\E w \in Workers : ConsumeTake(w) \/ Serve(w)
    BY <1>4, OtherKeepsRing
  <1> QED
    BY <1>1, <1>2, <1>3, <1>4

(* The ring buffer with its wrapped indices, its two condition variables   *)
(* and its mutex is a first-in-first-out queue of at most ARRAY_SIZE       *)
(* sockets, and hands each of them to one worker.                          *)
THEOREM PoolImplementsQueue == Spec => ImplementsQueue
  <1>1. Init => RingInv /\ Abstract!Init
    <2> SUFFICES ASSUME Init PROVE RingInv /\ Abstract!Init
      OBVIOUS
    <2>1. RingInv
      BY DEF Init, RingInv, BusyHasSocket, SlotsFilled
    <2>2. Waiting = <<>>
      <3>1. Waiting \in Seq(Sockets \cup {NoSocket}) /\ Len(Waiting) = 0
        BY InitIInv, WaitingSeq DEF IInv, WaitingShape, Init
      <3> QED BY <3>1
    <2> QED BY <2>1, <2>2 DEF Init, Abstract!Init
  <1>2. IInv /\ IInv' /\ RingInv /\ [Next]_vars
          => RingInv' /\ [Abstract!Next]_<<Waiting, sock>>
    BY StepMaps
  <1> QED
    BY <1>1, <1>2, InitIInv, NextIInv, PTL DEF Spec, ImplementsQueue, Abstract!Spec
=============================================================================
