------------------------------ MODULE Terminal ------------------------------
(***************************************************************************)
(* The terminals of service/webkey.cpp: shellinabox(), which opens a       *)
(* session, takes keys for it and waits up to 30 seconds for its output,   *)
(* the part of main() that closes sessions nobody has used for an hour,    *)
(* and clear().                                                            *)
(*                                                                         *)
(* Requests run on the worker threads and may name any session.  Only the  *)
(* wait for output is made under the session's mutex; the tests of alive,  *)
(* the keys and main() take no lock.  Descriptors are numbers that the     *)
(* process uses again once they are closed, for terminals or for something *)
(* else, so that a late close can hit a stranger.                          *)
(*                                                                         *)
(* The unit of time is the 30 seconds of select(); a worker that does not  *)
(* wait takes no time, and writing keys does not block.  Sending an answer *)
(* does, for as long as the client likes.  Two requests do not call        *)
(* push_back on sessions at the same instant, and the clock is not set     *)
(* back or forth, nor the phone suspended during a wait.                   *)
(*                                                                         *)
(* Operators named Bug... are faulty variants of the definition that       *)
(* follows them, used to see that the properties notice them.              *)
(***************************************************************************)
EXTENDS Integers, FiniteSets

CONSTANTS
  Threads,      \* worker threads
  MaxSessions,  \* bound: sessions
  Fds,          \* bound: descriptor numbers
  IdleLimit,    \* 3600 seconds, in units
  NoOne, Free, Other,
  Leaked        \* owner of a descriptor that nothing in the program closes

Sessions == 1..MaxSessions

\* Every worker may wait once for the session before the hour is over.
ASSUME TerminalAssumption ==
  /\ IsFiniteSet(Threads)
  /\ NoOne \notin Threads
  /\ MaxSessions \in Nat
  /\ Fds \subseteq Nat
  /\ IdleLimit \in Nat /\ Cardinality(Threads) <= IdleLimit
  /\ Free # Other /\ Leaked \notin {Free, Other}
  /\ {Free, Other, Leaked} \cap Sessions = {}

VARIABLES
  size,         \* sessions.size()
  alive, ptm, mutex,   \* of each session
  age,          \* time since lastused, up to IdleLimit + 1
  shell,        \* its shell runs
  owner,        \* what a descriptor number stands for
  tpc, sess,    \* where each worker is, and for which session
  waited,       \* time it has spent in select()
  mpc, reaping, \* what main() does next, and for which session; 0: none
  overtaken,    \* history: somebody found a session ended under his hands
  since,        \* history: the requests that set lastused after main() tested it
  stalled,      \* history: the sessions for which an answer took its time since
                \* lastused was set, main() not being at work
  cleared

workers == <<tpc, sess, waited>>
main == <<mpc, reaping>>
vars == <<size, alive, ptm, mutex, age, shell, owner, workers, main, overtaken, since,
          stalled, cleared>>

Init ==
  /\ size = 0
  /\ alive = [s \in Sessions |-> FALSE]
  /\ ptm = [s \in Sessions |-> NoOne]
  /\ mutex = [s \in Sessions |-> NoOne]
  /\ age = [s \in Sessions |-> 0]
  /\ shell = [s \in Sessions |-> FALSE]
  /\ owner = [f \in Fds |-> Free]
  /\ tpc = [t \in Threads |-> "idle"]
  /\ sess = [t \in Threads |-> 0]
  /\ waited = [t \in Threads |-> 0]
  /\ mpc = "look" /\ reaping = 0
  /\ overtaken = FALSE
  /\ since = {}
  /\ stalled = {}
  /\ cleared = FALSE

Lowest(f) == owner[f] = Free /\ \A g \in Fds : owner[g] = Free => f <= g

Leave(t) == /\ tpc' = [tpc EXCEPT ![t] = "idle"]
            /\ sess' = [sess EXCEPT ![t] = 0]
            /\ waited' = [waited EXCEPT ![t] = 0]

\* Somebody uses or ends session s, alive or not.
Meets(s) == overtaken' = (overtaken \/ ~alive[s])

-----------------------------------------------------------------------------
(* shellinabox                                                             *)

\* A new terminal: the shell answers in time and the session is added.
Create(t) ==
  /\ tpc[t] = "idle" /\ ~cleared
  /\ size < MaxSessions
  /\ size' = size + 1
  /\ \E f \in Fds : /\ Lowest(f)
                    /\ owner' = [owner EXCEPT ![f] = size']
                    /\ ptm' = [ptm EXCEPT ![size'] = f]
  /\ alive' = [alive EXCEPT ![size'] = TRUE]
  /\ shell' = [shell EXCEPT ![size'] = TRUE]
  /\ age' = [age EXCEPT ![size'] = 0]
  /\ UNCHANGED <<mutex, workers, main, overtaken, since, stalled, cleared>>

\* The shell does not answer: it is killed and another is started, but the
\* descriptor stays open for ever.
CreateRetry(t) ==
  /\ tpc[t] = "idle" /\ ~cleared
  /\ size < MaxSessions
  /\ \E f \in Fds : Lowest(f) /\ owner' = [owner EXCEPT ![f] = Leaked]
  /\ UNCHANGED <<size, alive, ptm, mutex, age, shell, workers, main, overtaken, since,
                 stalled, cleared>>

\* A request names a session; it is answered with nothing if that is not alive.
Test(t, s) ==
  /\ tpc[t] = "idle" /\ ~cleared
  /\ s <= size /\ alive[s]
  /\ tpc' = [tpc EXCEPT ![t] = "stamp"]
  /\ sess' = [sess EXCEPT ![t] = s]
  /\ UNCHANGED <<size, alive, ptm, mutex, age, shell, owner, waited, main, overtaken,
                 since, stalled, cleared>>

BugStamp(t) ==
  /\ tpc[t] = "stamp"
  /\ \/ tpc' = [tpc EXCEPT ![t] = "write"] /\ age' = [age EXCEPT ![sess[t]] = 0]
     \/ tpc' = [tpc EXCEPT ![t] = "lock"] /\ UNCHANGED age
  /\ since' = IF mpc = "look" THEN since ELSE since \cup {t}
  /\ stalled' = IF mpc = "look" THEN stalled \ {sess[t]} ELSE stalled
  /\ UNCHANGED <<size, alive, ptm, mutex, shell, owner, sess, waited, main, overtaken,
                 cleared>>

\* lastused is set; then keys are written, or output is waited for.
Stamp(t) ==
  /\ tpc[t] = "stamp"
  /\ tpc' \in {[tpc EXCEPT ![t] = p] : p \in {"write", "lock"}}
  /\ age' = [age EXCEPT ![sess[t]] = 0]
  /\ since' = IF mpc = "look" THEN since ELSE since \cup {t}
  /\ stalled' = IF mpc = "look" THEN stalled \ {sess[t]} ELSE stalled
  /\ UNCHANGED <<size, alive, ptm, mutex, shell, owner, sess, waited, main, overtaken,
                 cleared>>

\* Keys go to the descriptor, whatever that is by now.
WriteKeys(t) ==
  /\ tpc[t] = "write"
  /\ Leave(t)
  /\ Meets(sess[t])
  /\ UNCHANGED <<size, alive, ptm, mutex, age, shell, owner, main, since, stalled,
                 cleared>>

Lock(t) ==
  /\ tpc[t] = "lock" /\ mutex[sess[t]] = NoOne
  /\ mutex' = [mutex EXCEPT ![sess[t]] = t]
  /\ tpc' = [tpc EXCEPT ![t] = "select"]
  /\ Meets(sess[t])
  /\ UNCHANGED <<size, alive, ptm, age, shell, owner, sess, waited, main, since,
                 stalled, cleared>>

\* There is output, or the 30 seconds are over: an answer is sent.
PollAnswer(t) ==
  /\ tpc[t] = "select"
  /\ owner[ptm[sess[t]]] # Free \/ waited[t] > 0
  /\ tpc' = [tpc EXCEPT ![t] = "send"]
  /\ waited' = [waited EXCEPT ![t] = 0]
  /\ UNCHANGED <<size, alive, ptm, mutex, age, shell, owner, sess, main, overtaken,
                 since, stalled, cleared>>

Unlock(t) == mutex' = [mutex EXCEPT ![sess[t]] = NoOne]

\* The client has taken it.
Sent(t) ==
  /\ tpc[t] = "send"
  /\ Unlock(t) /\ Leave(t)
  /\ UNCHANGED <<size, alive, ptm, age, shell, owner, main, overtaken, since, stalled,
                 cleared>>

\* What is behind a descriptor has come to its end, or nothing is behind it.
Ended(f) == \/ owner[f] \in {Free, Other}
            \/ owner[f] \in Sessions /\ ~shell[owner[f]]

\* select or read fails: the session is over,
PollEnd(t) ==
  /\ tpc[t] = "select"
  /\ Ended(ptm[sess[t]])
  /\ alive' = [alive EXCEPT ![sess[t]] = FALSE]
  /\ tpc' = [tpc EXCEPT ![t] = "close"]
  /\ waited' = [waited EXCEPT ![t] = 0]
  /\ Meets(sess[t])
  /\ UNCHANGED <<size, ptm, mutex, age, shell, owner, sess, main, since, stalled,
                 cleared>>

BugPollClose(t) ==
  /\ tpc[t] = "close"
  /\ Unlock(t) /\ Leave(t)
  /\ UNCHANGED <<size, alive, ptm, age, shell, owner, main, overtaken, since, stalled,
                 cleared>>

\* and its descriptor is closed.
PollClose(t) ==
  /\ tpc[t] = "close"
  /\ owner' = [owner EXCEPT ![ptm[sess[t]]] = Free]
  /\ Unlock(t) /\ Leave(t)
  /\ UNCHANGED <<size, alive, ptm, age, shell, main, overtaken, since, stalled, cleared>>

-----------------------------------------------------------------------------
(* main() and clear()                                                      *)

\* The loop of main() finds a session alive and lastused an hour ago.  It holds
\* no lock: requests may come in between its steps.
ReapTest(s) ==
  /\ mpc = "look" /\ ~cleared
  /\ s <= size /\ alive[s] /\ age[s] > IdleLimit
  /\ mpc' = "mark"
  /\ reaping' = s
  /\ UNCHANGED <<size, alive, ptm, mutex, age, shell, owner, workers, overtaken, since,
                 stalled, cleared>>

ReapMark ==
  /\ mpc = "mark"
  /\ alive' = [alive EXCEPT ![reaping] = FALSE]
  /\ mpc' = "close"
  /\ Meets(reaping)
  /\ UNCHANGED <<size, ptm, mutex, age, shell, owner, workers, reaping, since, stalled,
                 cleared>>

\* It kills the shell and closes the descriptor.
ReapClose ==
  /\ mpc = "close"
  /\ shell' = [shell EXCEPT ![reaping] = FALSE]
  /\ owner' = [owner EXCEPT ![ptm[reaping]] = Free]
  /\ mpc' = "look" /\ reaping' = 0
  /\ since' = {}
  /\ UNCHANGED <<size, alive, ptm, mutex, age, workers, overtaken, stalled, cleared>>

\* At the end of main(), with the workers gone.
Clear ==
  /\ ~cleared /\ mpc = "look"
  /\ \A t \in Threads : tpc[t] = "idle"
  /\ cleared' = TRUE
  /\ shell' = [s \in Sessions |-> shell[s] /\ ~alive[s]]
  /\ owner' = [f \in Fds |->
       IF \E s \in Sessions : alive[s] /\ ptm[s] = f THEN Free ELSE owner[f]]
  /\ alive' = [s \in Sessions |-> FALSE]
  /\ size' = 0
  /\ UNCHANGED <<ptm, mutex, age, workers, main, overtaken, since, stalled>>

-----------------------------------------------------------------------------
(* Shells, the rest of the process, and time                               *)

ShellExits(s) ==
  /\ shell[s]
  /\ shell' = [shell EXCEPT ![s] = FALSE]
  /\ UNCHANGED <<size, alive, ptm, mutex, age, owner, workers, main, overtaken, since,
                 stalled, cleared>>

\* Files and sockets of other requests.
OtherOpens ==
  /\ \E f \in Fds : Lowest(f) /\ owner' = [owner EXCEPT ![f] = Other]
  /\ UNCHANGED <<size, alive, ptm, mutex, age, shell, workers, main, overtaken, since,
                 stalled, cleared>>

OtherCloses ==
  /\ \E f \in Fds : owner[f] = Other /\ owner' = [owner EXCEPT ![f] = Free]
  /\ UNCHANGED <<size, alive, ptm, mutex, age, shell, workers, main, overtaken, since,
                 stalled, cleared>>

\* A worker that need not wait does not let time pass; a client may.
Waits(t) ==
  \/ tpc[t] \in {"idle", "send"}
  \/ tpc[t] = "lock" /\ mutex[sess[t]] # NoOne
  \/ tpc[t] = "select" /\ waited[t] = 0

Tick ==
  /\ \A t \in Threads : Waits(t)
  /\ age' = [s \in Sessions |->
       IF s <= size /\ age[s] <= IdleLimit THEN age[s] + 1 ELSE age[s]]
  /\ waited' = [t \in Threads |-> IF tpc[t] = "select" THEN 1 ELSE 0]
  /\ stalled' = stalled \cup {sess[t] : t \in {u \in Threads : tpc[u] = "send"}}
  /\ UNCHANGED <<size, alive, ptm, mutex, shell, owner, tpc, sess, main, overtaken,
                 since, cleared>>

Work(t) ==
  \/ Create(t) \/ CreateRetry(t) \/ Stamp(t) \/ WriteKeys(t) \/ Lock(t)
  \/ \E s \in Sessions : Test(t, s)
  \/ PollAnswer(t) \/ Sent(t) \/ PollEnd(t) \/ PollClose(t)

Reap == ReapMark \/ ReapClose \/ \E s \in Sessions : ReapTest(s)

Next ==
  \/ \E t \in Threads : Work(t)
  \/ \E s \in Sessions : ShellExits(s)
  \/ Reap \/ Clear \/ OtherOpens \/ OtherCloses \/ Tick

Spec == Init /\ [][Next]_vars

-----------------------------------------------------------------------------
(* Properties                                                              *)

\* A request that has set lastused and is not done with the session.
Using(t, s) == tpc[t] \in {"write", "lock", "select"} /\ sess[t] = s

\* main() never closes a session under a request that was there when it looked:
\* whoever uses the session at the close has set lastused since the test.  main()
\* takes no lock; what keeps it away is that every request sets lastused first, and
\* that the requests before it at the mutex wait 30 seconds each at most, which all
\* workers together cannot stretch to an hour.  A client that is slow to take its
\* answer can: the mutex is held while it is sent.
ReaperSpares ==
  [][ mpc = "close" /\ mpc' = "look" =>
        \A t \in Threads : Using(t, reaping) => t \in since \/ reaping \in stalled ]_vars

\* No descriptor outlives its session: whatever is overtaken by whatever, each
\* is closed by the poll that finds the end of the shell, by main() or by
\* clear().  And as long as nobody found a session ended under his hands, a live
\* session has its own descriptor: no close was made twice.
DescriptorsAccounted ==
  /\ \A f \in Fds : owner[f] \in Sessions =>
       \/ alive[owner[f]]
       \/ mpc = "close" /\ reaping = owner[f]
       \/ \E t \in Threads : tpc[t] = "close" /\ sess[t] = owner[f]
  /\ ~overtaken => \A s \in Sessions : alive[s] => owner[ptm[s]] = s
=============================================================================
