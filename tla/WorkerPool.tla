----------------------------- MODULE WorkerPool -----------------------------
(***************************************************************************)
(* The thread pool of service/mongoose.cpp: the master thread accepts      *)
(* connections and queues them (produce_socket), the workers take them     *)
(* from the queue and serve them (consume_socket, worker_thread), mg_stop  *)
(* ends them all.                                                          *)
(*                                                                         *)
(* A critical section of ctx->mutex is one action, except consume_socket's *)
(* step from its test to pthread_cond_wait: mg_stop stores stop_flag, and  *)
(* master_thread broadcasts sq_full, without the mutex, so both can fall   *)
(* between the test and the wait.                                          *)
(*                                                                         *)
(* Operators named Bug... are faulty variants of the definition that       *)
(* follows them, used to see that the properties notice them.              *)
(***************************************************************************)
EXTENDS Integers, Sequences, FiniteSets

CONSTANTS
  Workers,     \* the worker threads, NUM_THREADS of them
  Size,        \* ARRAY_SIZE(ctx->queue), 20 in the code
  MaxSockets,  \* bound: connections that clients open
  NoSocket, NoOne

Sockets == 1..MaxSockets

ASSUME PoolAssumption ==
  /\ Size \in Nat \ {0}
  /\ MaxSockets \in Nat
  /\ IsFiniteSet(Workers)
  /\ NoOne \notin Workers
  /\ NoSocket \notin Sockets

VARIABLES
  stop_flag, num_threads,
  queue, sq_head, sq_tail,
  mutex,      \* the worker that holds ctx->mutex between two actions
  signalled,  \* workers woken from sq_full
  wpc,        \* where each worker is
  sock,       \* the socket each worker serves
  mpc,        \* where the master is
  incoming,   \* the socket the master has accepted and not yet queued
  opened      \* connections opened so far

vars == <<stop_flag, num_threads, queue, sq_head, sq_tail, mutex, signalled,
          wpc, sock, mpc, incoming, opened>>

WorkerStates == {"loop", "lock", "parking", "parked", "busy", "exiting", "gone"}
MasterStates == {"select", "produce", "full", "closing", "joining", "done"}

Free == mutex = NoOne
Parked == {w \in Workers : wpc[w] = "parked" /\ w \notin signalled}

Init ==
  /\ stop_flag = 0
  /\ num_threads = Cardinality(Workers)
  /\ queue = [i \in 0..Size-1 |-> NoSocket]
  /\ sq_head = 0 /\ sq_tail = 0
  /\ mutex = NoOne
  /\ signalled = {}
  /\ wpc = [w \in Workers |-> "loop"]
  /\ sock = [w \in Workers |-> NoSocket]
  /\ mpc = "select"
  /\ incoming = NoSocket
  /\ opened = 0
-----------------------------------------------------------------------------
(* The workers.                                                            *)

\* The while of worker_thread.
Loop(w) ==
  /\ wpc[w] = "loop"
  /\ wpc' = [wpc EXCEPT ![w] = IF stop_flag = 0 THEN "lock" ELSE "exiting"]
  /\ UNCHANGED <<stop_flag, num_threads, queue, sq_head, sq_tail, mutex,
                 signalled, sock, mpc, incoming, opened>>

\* The worker has the mutex: it has just locked it, or cond_wait returned.
AtTest(w) == /\ Free
             /\ \/ wpc[w] = "lock"
                \/ wpc[w] = "parked" /\ w \in signalled

\* consume_socket, the queue is empty: about to wait, mutex held.
ConsumeEmpty(w) ==
  /\ AtTest(w)
  /\ sq_head = sq_tail /\ stop_flag = 0
  /\ wpc' = [wpc EXCEPT ![w] = "parking"]
  /\ mutex' = w
  /\ signalled' = signalled \ {w}
  /\ UNCHANGED <<stop_flag, num_threads, queue, sq_head, sq_tail, sock, mpc,
                 incoming, opened>>

\* pthread_cond_wait(&sq_full): wait and release the mutex, at once.
Park(w) ==
  /\ wpc[w] = "parking"
  /\ wpc' = [wpc EXCEPT ![w] = "parked"]
  /\ mutex' = NoOne
  /\ UNCHANGED <<stop_flag, num_threads, queue, sq_head, sq_tail, signalled,
                 sock, mpc, incoming, opened>>

BugConsumeStopCounts(w) ==
  /\ AtTest(w)
  /\ stop_flag # 0
  /\ wpc' = [wpc EXCEPT ![w] = "exiting"]
  /\ num_threads' = num_threads - 1
  /\ signalled' = signalled \ {w}
  /\ UNCHANGED <<stop_flag, queue, sq_head, sq_tail, mutex, sock, mpc,
                 incoming, opened>>

\* consume_socket, stop_flag is up.
ConsumeStop(w) ==
  /\ AtTest(w)
  /\ stop_flag # 0
  /\ wpc' = [wpc EXCEPT ![w] = "exiting"]
  /\ signalled' = signalled \ {w}
  /\ UNCHANGED <<stop_flag, num_threads, queue, sq_head, sq_tail, mutex, sock,
                 mpc, incoming, opened>>

BugWrapLate(i, tail) == IF tail > 2 * Size THEN i - Size ELSE i

\* The indices are kept small.  One turn of the code's loop is enough.
Wrap(i, tail) == IF tail > Size THEN i - Size ELSE i

BugConsumeTakeFirst(w) ==
  /\ AtTest(w)
  /\ sq_head # sq_tail /\ stop_flag = 0
  /\ sock' = [sock EXCEPT ![w] = queue[(sq_head - 1) % Size]]
  /\ sq_tail' = Wrap(sq_tail + 1, sq_tail + 1)
  /\ sq_head' = Wrap(sq_head, sq_tail + 1)
  /\ mpc' = IF mpc = "full" THEN "produce" ELSE mpc
  /\ wpc' = [wpc EXCEPT ![w] = "busy"]
  /\ signalled' = signalled \ {w}
  /\ UNCHANGED <<stop_flag, num_threads, queue, mutex, incoming, opened>>

BugConsumeTakeQuietly(w) ==
  /\ AtTest(w)
  /\ sq_head # sq_tail /\ stop_flag = 0
  /\ sock' = [sock EXCEPT ![w] = queue[sq_tail % Size]]
  /\ sq_tail' = Wrap(sq_tail + 1, sq_tail + 1)
  /\ sq_head' = Wrap(sq_head, sq_tail + 1)
  /\ wpc' = [wpc EXCEPT ![w] = "busy"]
  /\ signalled' = signalled \ {w}
  /\ UNCHANGED <<stop_flag, num_threads, queue, mutex, mpc, incoming, opened>>

\* consume_socket takes the oldest socket and signals sq_empty.
ConsumeTake(w) ==
  /\ AtTest(w)
  /\ sq_head # sq_tail /\ stop_flag = 0
  /\ sock' = [sock EXCEPT ![w] = queue[sq_tail % Size]]
  /\ sq_tail' = Wrap(sq_tail + 1, sq_tail + 1)
  /\ sq_head' = Wrap(sq_head, sq_tail + 1)
  /\ mpc' = IF mpc = "full" THEN "produce" ELSE mpc
  /\ wpc' = [wpc EXCEPT ![w] = "busy"]
  /\ signalled' = signalled \ {w}
  /\ UNCHANGED <<stop_flag, num_threads, queue, mutex, incoming, opened>>

\* process_new_connection and close_connection.
Serve(w) ==
  /\ wpc[w] = "busy"
  /\ wpc' = [wpc EXCEPT ![w] = "loop"]
  /\ sock' = [sock EXCEPT ![w] = NoSocket]
  /\ UNCHANGED <<stop_flag, num_threads, queue, sq_head, sq_tail, mutex,
                 signalled, mpc, incoming, opened>>

\* The end of worker_thread.
Exit(w) ==
  /\ wpc[w] = "exiting"
  /\ Free
  /\ num_threads' = num_threads - 1
  /\ wpc' = [wpc EXCEPT ![w] = "gone"]
  /\ UNCHANGED <<stop_flag, queue, sq_head, sq_tail, mutex, signalled, sock,
                 mpc, incoming, opened>>

\* pthread_cond_wait may return by itself.
SpuriousWakeup(w) ==
  /\ w \in Parked
  /\ signalled' = signalled \cup {w}
  /\ UNCHANGED <<stop_flag, num_threads, queue, sq_head, sq_tail, mutex, wpc,
                 sock, mpc, incoming, opened>>
-----------------------------------------------------------------------------
(* The master thread.                                                      *)

\* accept_new_connection: check_acl refuses the peer, or lets it in.
Accept(allowed) ==
  /\ mpc = "select"
  /\ opened < MaxSockets
  /\ opened' = opened + 1
  /\ IF allowed THEN incoming' = opened + 1 /\ mpc' = "produce"
                ELSE UNCHANGED <<incoming, mpc>>
  /\ UNCHANGED <<stop_flag, num_threads, queue, sq_head, sq_tail, mutex,
                 signalled, wpc, sock>>

Full == sq_head - sq_tail >= Size

\* produce_socket, the queue is full: wait for sq_empty.
ProduceWait ==
  /\ mpc = "produce"
  /\ Free
  /\ Full
  /\ mpc' = "full"
  /\ UNCHANGED <<stop_flag, num_threads, queue, sq_head, sq_tail, mutex,
                 signalled, wpc, sock, incoming, opened>>

\* The master's cond_wait returns by itself.
ProduceSpurious ==
  /\ mpc = "full"
  /\ mpc' = "produce"
  /\ UNCHANGED <<stop_flag, num_threads, queue, sq_head, sq_tail, mutex,
                 signalled, wpc, sock, incoming, opened>>

BugSignalNobody == UNCHANGED signalled

\* pthread_cond_signal(&sq_full): one of the waiting workers, if there is one.
SignalFull ==
  IF Parked = {} THEN UNCHANGED signalled
  ELSE \E w \in Parked : signalled' = signalled \cup {w}

\* produce_socket puts the socket in the queue.
ProducePut ==
  /\ mpc = "produce"
  /\ Free
  /\ ~Full
  /\ queue' = [queue EXCEPT ![sq_head % Size] = incoming]
  /\ sq_head' = sq_head + 1
  /\ SignalFull
  /\ incoming' = NoSocket
  /\ mpc' = "select"
  /\ UNCHANGED <<stop_flag, num_threads, sq_tail, mutex, wpc, sock, opened>>

\* The while of master_thread; the listening sockets are closed.
LeaveLoop ==
  /\ mpc = "select"
  /\ stop_flag # 0
  /\ mpc' = "closing"
  /\ UNCHANGED <<stop_flag, num_threads, queue, sq_head, sq_tail, mutex,
                 signalled, wpc, sock, incoming, opened>>

\* pthread_cond_broadcast(&sq_full), without the mutex.
WakeWorkers ==
  /\ mpc = "closing"
  /\ mpc' = "joining"
  /\ signalled' = signalled \cup Parked
  /\ UNCHANGED <<stop_flag, num_threads, queue, sq_head, sq_tail, mutex, wpc,
                 sock, incoming, opened>>

BugJoinEarly ==
  /\ mpc = "joining"
  /\ Free
  /\ num_threads <= 1
  /\ mpc' = "done"
  /\ stop_flag' = 2
  /\ UNCHANGED <<num_threads, queue, sq_head, sq_tail, mutex, signalled, wpc,
                 sock, incoming, opened>>

\* Wait until all threads finish, and tell mg_stop.
Join ==
  /\ mpc = "joining"
  /\ Free
  /\ num_threads <= 0
  /\ mpc' = "done"
  /\ stop_flag' = 2
  /\ UNCHANGED <<num_threads, queue, sq_head, sq_tail, mutex, signalled, wpc,
                 sock, incoming, opened>>

\* mg_stop, called by main(): it then spins until stop_flag is 2.
mg_stop ==
  /\ stop_flag = 0
  /\ stop_flag' = 1
  /\ UNCHANGED <<num_threads, queue, sq_head, sq_tail, mutex, signalled, wpc,
                 sock, mpc, incoming, opened>>
-----------------------------------------------------------------------------
Consume(w) == ConsumeEmpty(w) \/ ConsumeStop(w) \/ ConsumeTake(w)
Produce == ProduceWait \/ ProducePut
Master == Produce \/ LeaveLoop \/ WakeWorkers \/ Join

Next ==
  \/ \E w \in Workers : \/ Loop(w) \/ Consume(w) \/ Park(w) \/ Serve(w)
                        \/ Exit(w) \/ SpuriousWakeup(w)
  \/ Master \/ ProduceSpurious
  \/ \E allowed \in BOOLEAN : Accept(allowed)
  \/ mg_stop

Spec == Init /\ [][Next]_vars

(***************************************************************************)
(* Threads keep running, a thread that keeps asking for the mutex gets it, *)
(* and every request is answered in the end.  Nobody has to connect or to  *)
(* stop the server.                                                        *)
(***************************************************************************)
Fairness ==
  /\ \A w \in Workers : /\ WF_vars(Loop(w)) /\ WF_vars(Park(w))
                        /\ WF_vars(Serve(w)) /\ SF_vars(Consume(w))
                        /\ SF_vars(Exit(w))
  /\ SF_vars(Produce) /\ WF_vars(LeaveLoop) /\ WF_vars(WakeWorkers)
  /\ SF_vars(Join)

FairSpec == Spec /\ Fairness
-----------------------------------------------------------------------------
(* Properties.                                                             *)

(* The state has its shape.                                                *)
TypeOK ==
  /\ stop_flag \in {0, 1, 2}
  /\ num_threads \in Nat
  /\ queue \in [0..Size-1 -> Sockets \cup {NoSocket}]
  /\ sq_head \in Nat /\ sq_tail \in Nat
  /\ mutex \in Workers \cup {NoOne}
  /\ signalled \in SUBSET Workers
  /\ wpc \in [Workers -> WorkerStates]
  /\ sock \in [Workers -> Sockets \cup {NoSocket}]
  /\ mpc \in MasterStates
  /\ incoming \in Sockets \cup {NoSocket}
  /\ opened \in 0..MaxSockets

(* The two indices of the queue never cross, never drift apart by more     *)
(* than the array and never grow: the asserts of consume_socket and        *)
(* produce_socket hold, and no index overflows however long it runs.       *)
QueueIndices ==
  /\ 0 <= sq_tail /\ sq_tail <= Size
  /\ sq_tail <= sq_head
  /\ sq_head - sq_tail <= Size

(* A socket in the queue is somebody's business: as long as the server is  *)
(* not stopping, not every worker sleeps in cond_wait unsignalled.         *)
NoStrandedSocket ==
  sq_head # sq_tail /\ stop_flag = 0 /\ Workers # {} => Parked # Workers

(* The master sleeps in produce_socket only on a full queue: the signal of *)
(* sq_empty is not lost.                                                   *)
MasterSleepsOnFull == mpc = "full" => Full

(* mg_stop frees the context only when every worker thread is gone:        *)
(* num_threads counts them exactly and the assert of worker_thread holds.  *)
ContextOutlivesThreads ==
  /\ num_threads = Cardinality({w \in Workers : wpc[w] # "gone"})
  /\ stop_flag = 2 => \A w \in Workers : wpc[w] = "gone"

\* The sockets between the two indices, oldest first.
Waiting == [i \in 1..(sq_head - sq_tail) |-> queue[(sq_tail + i - 1) % Size]]

Abstract == INSTANCE SocketQueue
              WITH queue <- Waiting, hand <- sock, Capacity <- Size

(* The ring buffer with its wrapped indices implements the queue of        *)
(* SocketQueue: first in, first out, every socket to one worker, once.     *)
ImplementsQueue == Abstract!Spec

InQueue(s) == \E i \in 1..(sq_head - sq_tail) : Waiting[i] = s

(* Every socket accepted is taken up by a worker, unless the server stops. *)
EverySocketServed ==
  \A s \in Sockets : (incoming = s \/ InQueue(s))
                       ~> ((\E w \in Workers : sock[w] = s) \/ stop_flag # 0)

(* mg_stop returns.                                                        *)
StopReturns == (stop_flag = 1) ~> (stop_flag = 2)
=============================================================================
