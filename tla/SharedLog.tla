----------------------------- MODULE SharedLog -----------------------------
(***************************************************************************)
(* What the chat promises its users, across stops, kills and restarts: one *)
(* log that only grows while nobody clears it, credits ("above lines are   *)
(* read by") that only grow with it, and tabs that never see anything but  *)
(* its beginning.  A kill may cut the log or the message that was being    *)
(* written, but what it cuts it credits to nobody.                         *)
(***************************************************************************)
EXTENDS Integers, SequencesExt

CONSTANTS Tabs, Users, Texts

VARIABLES
  log,      \* the messages
  read,     \* how many of them each user is said to have read
  running,  \* the service is there for its users
  seen      \* how much of this log each tab shows

Unread == [u \in Users |-> 0]
Unseen == [c \in Tabs |-> <<>>]

Init == log = <<>> /\ read = Unread /\ running = FALSE /\ seen = Unseen

\* A service that starts offers what the last one left.
Start == ~running /\ running' = TRUE /\ UNCHANGED <<log, read, seen>>

Post(m) == /\ running
           /\ log' = Append(log, m)
           /\ UNCHANGED <<read, running, seen>>

Clear == /\ running
         /\ log' = <<>> /\ read' = Unread /\ seen' = Unseen
         /\ UNCHANGED running

\* A user is credited with more messages, never with more than there are.
Credit(u) == /\ running
             /\ \E n \in (read[u] + 1)..Len(log) : read' = [read EXCEPT ![u] = n]
             /\ UNCHANGED <<log, running, seen>>

\* A tab shows more of the log.
Show(c) == /\ running
           /\ \E n \in Len(seen[c])..Len(log) : seen' = [seen EXCEPT ![c] = SubSeq(log, 1, n)]
           /\ UNCHANGED <<log, read, running>>

\* A tab whose poll failed starts again.
Forget(c) == /\ seen' = [seen EXCEPT ![c] = <<>>]
             /\ UNCHANGED <<log, read, running>>

Stop == /\ running /\ running' = FALSE
        /\ seen' = Unseen
        /\ UNCHANGED <<log, read>>

\* All but the last message left by a kill are the log's, and a credit
\* survives only if the whole log does.
Kill == /\ running /\ running' = FALSE
        /\ seen' = Unseen
        /\ IsPrefix(Front(log'), log)
        /\ \A u \in Users : \/ read'[u] = 0
                            \/ IsPrefix(log, log') /\ read'[u] \in read[u]..Len(log)

Next == \/ Start \/ Clear \/ Stop \/ Kill
        \/ \E m \in Texts : Post(m)
        \/ \E u \in Users : Credit(u)
        \/ \E c \in Tabs : Show(c) \/ Forget(c)

Spec == Init /\ [][Next]_<<log, read, running, seen>>
=============================================================================
