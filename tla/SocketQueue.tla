----------------------------- MODULE SocketQueue -----------------------------
(***************************************************************************)
(* What mongoose's queue of accepted sockets promises: sockets are handed  *)
(* to the worker threads one by one, in the order they were accepted, each *)
(* to one worker, and never more than Capacity of them wait.               *)
(***************************************************************************)
EXTENDS Naturals, Sequences

CONSTANTS Sockets, Workers, Capacity, NoSocket

VARIABLES
  queue,   \* the sockets accepted and not yet handed out, oldest first
  hand     \* the socket each worker is serving

Init == /\ queue = <<>>
        /\ hand = [w \in Workers |-> NoSocket]

Put(s) == /\ Len(queue) < Capacity
          /\ queue' = Append(queue, s)
          /\ UNCHANGED hand

Take(w) == /\ queue # <<>>
           /\ hand[w] = NoSocket
           /\ hand' = [hand EXCEPT ![w] = Head(queue)]
           /\ queue' = Tail(queue)

Finish(w) == /\ hand[w] # NoSocket
             /\ hand' = [hand EXCEPT ![w] = NoSocket]
             /\ UNCHANGED queue

Next == \/ \E s \in Sockets : Put(s)
        \/ \E w \in Workers : Take(w) \/ Finish(w)

Spec == Init /\ [][Next]_<<queue, hand>>
=============================================================================
