--------------------------- MODULE TerminalProofs ---------------------------
(***************************************************************************)
(* Proofs about Terminal, for every number of workers, sessions and        *)
(* descriptors: main() never closes a session under a request that was     *)
(* there when it looked, and the descriptors are accounted for.            *)
(***************************************************************************)
EXTENDS Terminal, FiniteSetTheorems, TLAPS

\* The states of a worker that holds the mutex of its session.
Held == {"select", "send", "close"}

WorkStates == {"idle", "stamp", "write", "lock"} \cup Held

TypeOK ==
  /\ size \in 0..MaxSessions
  /\ alive \in [Sessions -> BOOLEAN]
  /\ ptm \in [Sessions -> Fds \cup {NoOne}]
  /\ mutex \in [Sessions -> Threads \cup {NoOne}]
  /\ age \in [Sessions -> Nat]
  /\ shell \in [Sessions -> BOOLEAN]
  /\ owner \in [Fds -> Sessions \cup {Free, Other, Leaked}]
  /\ tpc \in [Threads -> WorkStates]
  /\ sess \in [Threads -> 0..MaxSessions]
  /\ waited \in [Threads -> {0, 1}]
  /\ mpc \in {"look", "mark", "close"}
  /\ reaping \in 0..MaxSessions
  /\ since \subseteq Threads
  /\ stalled \subseteq Sessions
  /\ overtaken \in BOOLEAN /\ cleared \in BOOLEAN

\* A worker that is busy has a session with a descriptor number, and the one from
\* select() on is the holder of the session's mutex.
Serving ==
  \A t \in Threads :
    /\ tpc[t] # "idle" => /\ sess[t] \in Sessions /\ sess[t] <= size
                          /\ ptm[sess[t]] \in Fds
    /\ tpc[t] \in Held => mutex[sess[t]] = t
    /\ waited[t] = 1 => tpc[t] = "select"

Holding ==
  \A s \in Sessions : mutex[s] # NoOne => /\ tpc[mutex[s]] \in Held
                                          /\ sess[mutex[s]] = s

\* A session that is alive has a number and a descriptor number.
Opened == \A s \in Sessions : alive[s] => s <= size /\ ptm[s] \in Fds

\* The workers that may still wait 30 seconds for a session.
Patient(s) == {t \in Threads : Using(t, s) /\ waited[t] = 0}

\* The time since lastused, and the time its users may still take.
InTime ==
  \A s \in Sessions : (\E t \in Threads : Using(t, s)) =>
     \/ s \in stalled
     \/ age[s] + Cardinality(Patient(s)) <= Cardinality(Threads)

\* What main() has found idle nobody uses but those that came since.
Looking ==
  mpc # "look" =>
     /\ reaping \in Sessions
     /\ \A t \in Threads : Using(t, reaping) => t \in since \/ reaping \in stalled

TimeInv == TypeOK /\ Serving /\ Holding /\ Opened /\ InTime /\ Looking
-----------------------------------------------------------------------------
(* The patience of the workers                                             *)

(* There are never more patient workers than workers.                      *)
LEMMA PatientBound ==
  ASSUME NEW s
  PROVE  /\ IsFiniteSet(Patient(s)) /\ Cardinality(Patient(s)) \in Nat
         /\ Cardinality(Patient(s)) <= Cardinality(Threads)
         /\ Cardinality(Threads) \in Nat
  <1>1. Patient(s) \in SUBSET Threads
    BY DEF Patient
  <1>2. IsFiniteSet(Threads)
    BY TerminalAssumption
  <1>3. IsFiniteSet(Patient(s)) /\ Cardinality(Patient(s)) <= Cardinality(Threads)
    BY <1>1, <1>2, FS_Subset
  <1> QED
    BY <1>2, <1>3, FS_CardinalityType

(* The same for the next state.                                            *)
LEMMA PatientBoundNext ==
  ASSUME NEW s
  PROVE  /\ IsFiniteSet(Patient(s)') /\ Cardinality(Patient(s)') \in Nat
         /\ Cardinality(Patient(s)') <= Cardinality(Threads)
  <1>1. Patient(s)' \in SUBSET Threads
    BY DEF Patient
  <1>2. IsFiniteSet(Threads)
    BY TerminalAssumption
  <1>3. IsFiniteSet(Patient(s)') /\ Cardinality(Patient(s)') <= Cardinality(Threads)
    BY <1>1, <1>2, FS_Subset
  <1> QED
    BY <1>3, FS_CardinalityType

(* A step after which fewer workers use a session keeps it in time.        *)
LEMMA FewerUsers ==
  ASSUME TypeOK, NEW s \in Sessions, age'[s] = age[s],
         Patient(s)' \subseteq Patient(s),
         age[s] + Cardinality(Patient(s)) <= Cardinality(Threads)
  PROVE  age'[s] + Cardinality(Patient(s)') <= Cardinality(Threads)
  <1>1. /\ Cardinality(Patient(s)') <= Cardinality(Patient(s))
    BY PatientBound, FS_Subset
  <1> QED
    BY <1>1, PatientBound, PatientBoundNext DEF TypeOK

(* A tick takes the patience of the one in select().                       *)
LEMMA TickInTime ==
  ASSUME TimeInv, Tick
  PROVE  InTime'
  <1> SUFFICES ASSUME NEW s \in Sessions, NEW t \in Threads, Using(t, s)',
                      s \notin stalled'
               PROVE  age'[s] + Cardinality(Patient(s)') <= Cardinality(Threads)
    BY DEF InTime
  <1>1. Using(t, s)
    BY DEF Using, Tick
  <1>2. PICK u \in Threads : Using(u, s) /\ tpc[u] = "select" /\ waited[u] = 0
    <2>1. CASE tpc[t] = "select"
      BY <2>1, <1>1 DEF Tick, Waits
    <2>2. CASE tpc[t] = "lock"
      <3>1. mutex[s] # NoOne
        BY <2>2, <1>1 DEF Tick, Waits, Using
      <3>2. mutex[s] \in Threads
        BY <3>1 DEF TimeInv, TypeOK
      <3>3. tpc[mutex[s]] = "select" /\ sess[mutex[s]] = s
        <4>1. tpc[mutex[s]] \in Held /\ sess[mutex[s]] = s
          BY <3>1 DEF TimeInv, Holding
        <4>2. tpc[mutex[s]] # "send"
          BY <3>2, <4>1 DEF Tick
        <4>3. tpc[mutex[s]] # "close"
          BY <3>2 DEF Tick, Waits
        <4> QED
          BY <4>1, <4>2, <4>3 DEF Held
      <3>4. waited[mutex[s]] = 0
        BY <3>2, <3>3 DEF Tick, Waits
      <3> QED
        BY <3>2, <3>3, <3>4 DEF Using
    <2>3. tpc[t] # "write"
      BY DEF Tick, Waits
    <2> QED
      BY <2>1, <2>2, <2>3, <1>1 DEF Using
  <1>3. Patient(s)' \subseteq Patient(s) \ {u}
    <2> SUFFICES ASSUME NEW v \in Threads, Using(v, s)', waited'[v] = 0
                 PROVE  Using(v, s) /\ waited[v] = 0 /\ v # u
      BY DEF Patient
    <2>1. tpc[v] # "select"
      BY DEF Tick
    <2>2. waited[v] = 0
      BY <2>1 DEF TimeInv, Serving, TypeOK
    <2> QED
      BY <2>1, <2>2, <1>2 DEF Using, Tick
  <1>4. u \in Patient(s)
    BY <1>2 DEF Patient
  <1>5. Cardinality(Patient(s) \ {u}) = Cardinality(Patient(s)) - 1
        /\ IsFiniteSet(Patient(s) \ {u})
    BY <1>4, PatientBound, FS_RemoveElement
  <1>6. Cardinality(Patient(s)') <= Cardinality(Patient(s)) - 1
    BY <1>3, <1>5, FS_Subset
  <1>7. age[s] + Cardinality(Patient(s)) <= Cardinality(Threads)
    BY <1>1 DEF TimeInv, InTime, Tick
  <1>8. age[s] \in Nat /\ age'[s] \in Nat /\ age'[s] <= age[s] + 1
    BY TerminalAssumption DEF Tick, TimeInv, TypeOK, Sessions
  <1> QED
    BY <1>6, <1>7, <1>8, PatientBound, PatientBoundNext

(* A worker that begins with a session, or with nothing, is in time.        *)
LEMMA OthersInTime ==
  ASSUME TimeInv, NEW t \in Threads,
         \A s \in Sessions : \/ age'[s] = age[s] /\ (s \in stalled => s \in stalled')
                             \/ age'[s] = 0,
         \A u \in Threads \ {t} : /\ tpc'[u] = tpc[u] /\ sess'[u] = sess[u]
                                  /\ waited'[u] = waited[u],
         \/ tpc'[t] \notin {"write", "lock", "select"}
         \/ age'[sess'[t]] = 0
         \/ /\ Using(t, sess[t]) /\ sess'[t] = sess[t] /\ waited'[t] = waited[t]
  PROVE  InTime'
  <1> SUFFICES ASSUME NEW s \in Sessions, NEW u \in Threads, Using(u, s)',
                      s \notin stalled'
               PROVE  age'[s] + Cardinality(Patient(s)') <= Cardinality(Threads)
    BY DEF InTime
  <1>1. CASE age'[s] = 0
    BY <1>1, PatientBoundNext, PatientBound
  <1>2. CASE age'[s] # 0
    <2>1. age'[s] = age[s] /\ s \notin stalled
      BY <1>2
    <2>2. Using(t, s)' => Using(t, s) /\ waited'[t] = waited[t]
      BY <1>2 DEF Using
    <2>3. \A v \in Threads : Using(v, s)' => Using(v, s) /\ waited'[v] = waited[v]
      BY <2>2 DEF Using
    <2>4. Patient(s)' \subseteq Patient(s)
      BY <2>3 DEF Patient
    <2>5. age[s] + Cardinality(Patient(s)) <= Cardinality(Threads)
      BY <2>1, <2>3 DEF TimeInv, InTime
    <2> QED
      BY <2>1, <2>4, <2>5, FewerUsers DEF TimeInv
  <1> QED
    BY <1>1, <1>2

(* A step that leaves the workers and the times alone keeps them in time.  *)
LEMMA SameInTime ==
  ASSUME InTime, UNCHANGED <<tpc, sess, waited, age, stalled>>
  PROVE  InTime'
  <1> SUFFICES ASSUME NEW s \in Sessions, \E t \in Threads : Using(t, s)',
                      s \notin stalled'
               PROVE  age'[s] + Cardinality(Patient(s)') <= Cardinality(Threads)
    BY DEF InTime
  <1>1. Patient(s)' = Patient(s)
    BY DEF Patient, Using
  <1> QED
    BY <1>1 DEF InTime, Using

-----------------------------------------------------------------------------
(* The invariant of time                                                   *)

(* Nothing has happened yet.                                               *)
LEMMA TimeInit == Init => TimeInv
  <1> SUFFICES ASSUME Init PROVE TimeInv
    OBVIOUS
  <1>1. TypeOK
    <2>1. 0 \in 0..MaxSessions
      BY TerminalAssumption
    <2> QED
      BY <2>1 DEF Init, TypeOK, WorkStates
  <1>2. Serving /\ Holding /\ Opened /\ Looking
    BY DEF Init, Serving, Holding, Opened, Looking, Held
  <1>3. InTime
    BY DEF Init, InTime, Using
  <1> QED
    BY <1>1, <1>2, <1>3 DEF TimeInv

(* Every step of a worker keeps the types.                                 *)
LEMMA WorkType ==
  ASSUME TypeOK, Serving, NEW t \in Threads, Work(t)
  PROVE  TypeOK'
  <1> USE DEF TypeOK, WorkStates, Held, Meets, workers, main
  <1>0. Sessions \subseteq 0..MaxSessions /\ 0 \in 0..MaxSessions
    BY TerminalAssumption DEF Sessions
  <1>1. CASE Create(t)
    <2>1. size' \in 0..MaxSessions /\ size' \in Sessions
      BY <1>1, TerminalAssumption DEF Create, Sessions
    <2> QED
      BY <1>1, <2>1 DEF Create
  <1>2. CASE CreateRetry(t)
    BY <1>2 DEF CreateRetry
  <1>3. CASE Stamp(t)
    BY <1>3 DEF Stamp
  <1>4. CASE WriteKeys(t)
    BY <1>4, <1>0 DEF WriteKeys, Leave
  <1>5. CASE Lock(t)
    BY <1>5 DEF Lock
  <1>6. CASE \E s \in Sessions : Test(t, s)
    BY <1>6, <1>0 DEF Test
  <1>7. CASE PollAnswer(t)
    BY <1>7, <1>0 DEF PollAnswer
  <1>8. CASE Sent(t)
    BY <1>8, <1>0 DEF Sent, Unlock, Leave
  <1>9. CASE PollEnd(t)
    BY <1>9, <1>0 DEF PollEnd
  <1>10. CASE PollClose(t)
    BY <1>10, <1>0 DEF PollClose, Unlock, Leave
  <1> QED
    BY <1>1, <1>2, <1>3, <1>4, <1>5, <1>6, <1>7, <1>8, <1>9, <1>10 DEF Work

(* The steps of main(), of the shells and of time keep the types.          *)
LEMMA RestType ==
  ASSUME TypeOK, Serving,
         \/ \E s \in Sessions : ShellExits(s)
         \/ Reap \/ Clear \/ OtherOpens \/ OtherCloses \/ Tick
  PROVE  TypeOK'
  <1> USE DEF TypeOK, WorkStates, Held, Meets, workers, main
  <1>0. Sessions \subseteq 0..MaxSessions /\ 0 \in 0..MaxSessions
    BY TerminalAssumption DEF Sessions
  <1>1. CASE Reap
    BY <1>1, <1>0 DEF Reap, ReapTest, ReapMark, ReapClose
  <1>2. CASE \E s \in Sessions : ShellExits(s)
    BY <1>2 DEF ShellExits
  <1>4. CASE Clear
    BY <1>4, <1>0 DEF Clear
  <1>5. CASE OtherOpens
    BY <1>5 DEF OtherOpens
  <1>6. CASE OtherCloses
    BY <1>6 DEF OtherCloses
  <1>7. CASE Tick
    <2>1. stalled' \subseteq Sessions
      BY <1>7 DEF Tick, Serving
    <2> QED
      BY <1>7, <2>1 DEF Tick
  <1> QED
    BY <1>1, <1>2, <1>4, <1>5, <1>6, <1>7

(* A worker enters select() with the mutex and gives it back as it leaves.  *)
LEMMA WorkServes ==
  ASSUME TypeOK, Serving, Holding, Opened, NEW t \in Threads, Work(t)
  PROVE  Serving' /\ Holding' /\ Opened'
  <1> USE TerminalAssumption DEF TypeOK, Serving, Holding, Opened, Held, workers
  <1>1. CASE Create(t)
    <2>1. \A s \in Sessions : ptm[s] \in Fds => ptm'[s] \in Fds
      BY <1>1 DEF Create
    <2>2. Serving' /\ Holding'
      BY <1>1, <2>1 DEF Create, Sessions
    <2>3. size' = size + 1 /\ size' \in Sessions /\ ptm'[size'] \in Fds
      BY <1>1 DEF Create, Sessions
    <2>4. \A s \in Sessions : alive'[s] => s = size' \/ (alive[s] /\ s <= size)
      BY <1>1, <2>3 DEF Create
    <2>5. ASSUME NEW s \in Sessions, alive'[s] PROVE s <= size' /\ ptm'[s] \in Fds
      <3>1. s \in Int /\ size \in Int
        BY DEF Sessions
      <3>2. CASE s = size'
        BY <3>1, <3>2, <2>3
      <3>3. CASE alive[s] /\ s <= size
        BY <3>1, <3>3, <2>1, <2>3
      <3> QED
        BY <3>2, <3>3, <2>4, <2>5
    <2> QED
      BY <2>2, <2>5
  <1>2. CASE CreateRetry(t)
    BY <1>2 DEF CreateRetry
  <1>3. CASE Stamp(t)
    BY <1>3 DEF Stamp
  <1>4. CASE WriteKeys(t)
    BY <1>4 DEF WriteKeys, Leave
  <1>5. CASE Lock(t)
    BY <1>5 DEF Lock
  <1>6. CASE \E s \in Sessions : Test(t, s)
    BY <1>6 DEF Test
  <1>7. CASE PollAnswer(t)
    BY <1>7 DEF PollAnswer
  <1>8. CASE Sent(t)
    BY <1>8 DEF Sent, Unlock, Leave
  <1>9. CASE PollEnd(t)
    BY <1>9 DEF PollEnd
  <1>10. CASE PollClose(t)
    BY <1>10 DEF PollClose, Unlock, Leave
  <1> QED
    BY <1>1, <1>2, <1>3, <1>4, <1>5, <1>6, <1>7, <1>8, <1>9, <1>10 DEF Work

(* So do the other steps, which leave the mutexes and the workers alone.   *)
LEMMA RestServes ==
  ASSUME TypeOK, Serving, Holding, Opened,
         \/ \E s \in Sessions : ShellExits(s)
         \/ Reap \/ Clear \/ OtherOpens \/ OtherCloses \/ Tick
  PROVE  Serving' /\ Holding' /\ Opened'
  <1> USE DEF TypeOK, Serving, Holding, Opened, Held, workers
  <1>1. CASE Reap
    BY <1>1 DEF Reap, ReapTest, ReapMark, ReapClose
  <1>2. CASE \E s \in Sessions : ShellExits(s)
    BY <1>2 DEF ShellExits
  <1>4. CASE Clear
    BY <1>4 DEF Clear
  <1>5. CASE OtherOpens
    BY <1>5 DEF OtherOpens
  <1>6. CASE OtherCloses
    BY <1>6 DEF OtherCloses
  <1>7. CASE Tick
    BY <1>7 DEF Tick
  <1> QED
    BY <1>1, <1>2, <1>4, <1>5, <1>6, <1>7

(* A worker keeps everybody in time.                                       *)
LEMMA WorkInTime ==
  ASSUME TimeInv, NEW t \in Threads, Work(t)
  PROVE  InTime'
  <1> USE DEF TimeInv, TypeOK, workers
  <1>1. CASE Create(t)
    <2>1. size' \in Sessions
      BY <1>1, TerminalAssumption DEF Create, Sessions
    <2>2. \A s \in Sessions : age'[s] = age[s] \/ age'[s] = 0
      BY <1>1, <2>1 DEF Create
    <2>3. tpc'[t] = "idle"
      BY <1>1 DEF Create
    <2> QED
      BY <1>1, <2>2, <2>3, OthersInTime DEF Create
  <1>2. CASE CreateRetry(t)
    BY <1>2, SameInTime DEF CreateRetry
  <1>3. CASE Stamp(t)
    <2>1. sess[t] \in Sessions
      BY <1>3 DEF Stamp, Serving
    <2>2. /\ age'[sess'[t]] = 0
          /\ \A s \in Sessions : \/ age'[s] = age[s] /\ (s \in stalled => s \in stalled')
                                 \/ age'[s] = 0
      BY <1>3, <2>1 DEF Stamp
    <2> QED
      BY <1>3, <2>2, OthersInTime DEF Stamp
  <1>4. CASE WriteKeys(t)
    BY <1>4, OthersInTime DEF WriteKeys, Leave
  <1>5. CASE Lock(t)
    BY <1>5, OthersInTime DEF Lock, Using
  <1>6. CASE \E s \in Sessions : Test(t, s)
    BY <1>6, OthersInTime DEF Test
  <1>7. CASE PollAnswer(t)
    BY <1>7, OthersInTime DEF PollAnswer
  <1>8. CASE Sent(t)
    BY <1>8, OthersInTime DEF Sent, Leave
  <1>9. CASE PollEnd(t)
    BY <1>9, OthersInTime DEF PollEnd
  <1>10. CASE PollClose(t)
    BY <1>10, OthersInTime DEF PollClose, Leave
  <1> QED
    BY <1>1, <1>2, <1>3, <1>4, <1>5, <1>6, <1>7, <1>8, <1>9, <1>10 DEF Work

(* A request that begins to use what main() looks at has set lastused, and *)
(* main() forgets nobody before it is done.                                *)
LEMMA WorkLooking ==
  ASSUME TimeInv, NEW t \in Threads, Work(t)
  PROVE  Looking'
  <1> USE DEF TimeInv, TypeOK, Looking, workers, main, Using
  <1>1. CASE Stamp(t)
    BY <1>1 DEF Stamp
  <1>2. CASE ~Stamp(t)
    <2>1. UNCHANGED <<main, since, stalled>>
      BY <1>2 DEF Work, Create, CreateRetry, WriteKeys, Lock, Test, PollAnswer, Sent,
                  PollEnd, PollClose
    <2>2. \A u \in Threads, s \in Sessions : Using(u, s)' => Using(u, s)
      BY <1>2 DEF Work, Create, CreateRetry, WriteKeys, Lock, Test, PollAnswer, Sent,
                  PollEnd, PollClose, Leave
    <2> QED
      BY <2>1, <2>2
  <1> QED
    BY <1>1, <1>2

(* main() finds an hour gone only when nobody uses the session.            *)
LEMMA RestLooking ==
  ASSUME TimeInv,
         \/ \E s \in Sessions : ShellExits(s)
         \/ Reap \/ Clear \/ OtherOpens \/ OtherCloses \/ Tick
  PROVE  Looking'
  <1> USE DEF TimeInv, TypeOK, Looking, workers, main, Using
  <1>1. ASSUME NEW s \in Sessions, ReapTest(s) PROVE Looking'
    <2>1. age[s] > IdleLimit /\ age[s] \in Nat
      BY <1>1 DEF ReapTest
    <2>2. (\E t \in Threads : Using(t, s)) => s \in stalled
      BY <2>1, PatientBound, TerminalAssumption DEF InTime
    <2> QED
      BY <1>1, <2>2 DEF ReapTest
  <1>2. CASE ReapMark
    BY <1>2 DEF ReapMark
  <1>3. CASE ReapClose
    BY <1>3 DEF ReapClose
  <1>4. CASE Tick
    BY <1>4 DEF Tick
  <1>5. CASE (\E s \in Sessions : ShellExits(s)) \/ Clear \/ OtherOpens \/ OtherCloses
    BY <1>5 DEF ShellExits, Clear, OtherOpens, OtherCloses
  <1> QED
    BY <1>1, <1>2, <1>3, <1>4, <1>5 DEF Reap

(* And so does everybody else.                                             *)
LEMMA TimeStep == TimeInv /\ [Next]_vars => TimeInv'
  <1> SUFFICES ASSUME TimeInv, [Next]_vars PROVE TimeInv'
    OBVIOUS
  <1>1. ASSUME NEW t \in Threads, Work(t) PROVE TimeInv'
    BY <1>1, WorkType, WorkServes, WorkInTime, WorkLooking DEF TimeInv
  <1>2. CASE Tick
    BY <1>2, RestType, RestServes, RestLooking, TickInTime DEF TimeInv
  <1>3. CASE \/ \E s \in Sessions : ShellExits(s)
             \/ Reap \/ Clear \/ OtherOpens \/ OtherCloses
    <2>1. UNCHANGED <<tpc, sess, waited, age, stalled>>
      BY <1>3 DEF Reap, ReapTest, ReapMark, ReapClose, ShellExits, Clear, OtherOpens,
                  OtherCloses, workers
    <2> QED
      BY <1>3, <2>1, RestType, RestServes, RestLooking, SameInTime DEF TimeInv
  <1>4. CASE UNCHANGED vars
    <2>1. InTime'
      BY <1>4, SameInTime DEF vars, workers, TimeInv
    <2>2. TypeOK' /\ Serving' /\ Holding' /\ Opened' /\ Looking'
      BY <1>4 DEF vars, workers, main, TimeInv, TypeOK, Serving, Holding, Opened,
                  Looking, Using
    <2> QED
      BY <2>1, <2>2 DEF TimeInv
  <1> QED
    BY <1>1, <1>2, <1>3, <1>4 DEF Next

(* main() closes what it found idle.                                       *)
LEMMA ReapSpares ==
  TimeInv /\ [Next]_vars =>
    [mpc = "close" /\ mpc' = "look" =>
        \A t \in Threads : Using(t, reaping) => t \in since \/ reaping \in stalled]_vars
  BY DEF TimeInv, Looking

(* The types of the terminals, and the time their requests take, hold in   *)
(* every state.                                                            *)
THEOREM TerminalTime == Spec => []TimeInv
  BY TimeInit, TimeStep, PTL DEF Spec

(* However many workers there are, as long as an hour is more than 30      *)
(* seconds for each of them: whoever uses a session that main() closes     *)
(* came after main() had looked, or a client held up its mutex.            *)
THEOREM TerminalReaperSpares == Spec => ReaperSpares
  <1>1. Spec => []TimeInv
    BY TerminalTime
  <1> QED
    BY <1>1, ReapSpares, PTL DEF Spec, ReaperSpares

-----------------------------------------------------------------------------
(* The descriptors                                                         *)

\* A poll is about to close the descriptor of session s.
Closes(t, s) == tpc[t] = "close" /\ sess[t] = s

\* A descriptor of a session is the one the session has noted, and the session
\* is alive or about to be closed.
Owned ==
  \A f \in Fds : owner[f] \in Sessions =>
     /\ ptm[owner[f]] = f
     /\ \/ alive[owner[f]]
        \/ mpc = "close" /\ reaping = owner[f]
        \/ \E t \in Threads : Closes(t, owner[f])

\* What main() is closing is still what it was.
Closing ==
  mpc # "look" =>
     /\ reaping \in Sessions /\ reaping <= size /\ ptm[reaping] \in Fds
     /\ mpc = "close" => /\ ~alive[reaping]
                         /\ ~overtaken => owner[ptm[reaping]] = reaping

\* And so is what a poll is closing, which is not what main() is closing.
PollCloses ==
  \A t \in Threads : tpc[t] = "close" =>
     /\ ~alive[sess[t]]
     /\ ~overtaken => /\ owner[ptm[sess[t]]] = sess[t]
                      /\ ~(mpc = "close" /\ reaping = sess[t])

\* A live session has its descriptor.
Kept == ~overtaken => \A s \in Sessions : alive[s] => owner[ptm[s]] = s

Ledger == Owned /\ Closing /\ PollCloses /\ Kept

(* A step that changes no descriptor of a session keeps the ledger.        *)
LEMMA SameLedger ==
  ASSUME TimeInv, Ledger,
         UNCHANGED <<size, alive, ptm, mpc, reaping>>,
         overtaken => overtaken',
         \A t \in Threads : \/ tpc[t] # "close" /\ tpc'[t] # "close"
                            \/ tpc'[t] = tpc[t] /\ sess'[t] = sess[t],
         \A g \in Fds : owner[g] \in Sessions \/ owner'[g] \in Sessions =>
                         owner'[g] = owner[g]
  PROVE  Ledger'
  <1>1. Owned'
    BY DEF Ledger, Owned, Closes
  <1>2. Closing'
    BY DEF Ledger, Closing
  <1>3. Kept'
    BY DEF Ledger, Kept, TimeInv, Opened
  <1>4. PollCloses'
    BY DEF Ledger, PollCloses, TimeInv, Serving
  <1> QED
    BY <1>1, <1>2, <1>3, <1>4 DEF Ledger

(* A new session gets a number and a descriptor nobody had.                *)
LEMMA CreateLedger ==
  ASSUME TimeInv, Ledger, NEW t \in Threads, Create(t)
  PROVE  Ledger'
  <1>1. PICK f \in Fds : owner[f] = Free /\ owner' = [owner EXCEPT ![f] = size']
                         /\ ptm' = [ptm EXCEPT ![size'] = f]
    BY DEF Create, Lowest
  <1>2. size \in Int /\ size' = size + 1 /\ size' \in Sessions
    BY TerminalAssumption DEF Create, Sessions, TimeInv, TypeOK
  <1>3. /\ ~alive[size'] /\ (mpc # "look" => reaping # size')
        /\ \A u \in Threads : tpc[u] # "idle" => sess[u] # size'
    <2>1. \A n : n = size' => ~(n <= size)
      BY <1>2
    <2>2. ~alive[size']
      BY <2>1, <1>2 DEF TimeInv, Opened
    <2> QED
      BY <2>1, <2>2 DEF Ledger, Closing, TimeInv, Serving
  <1>4. \A g \in Fds : owner[g] # size'
    BY <1>2, <1>3 DEF Ledger, Owned, Closes
  <1>5. /\ alive' = [alive EXCEPT ![size'] = TRUE]
        /\ UNCHANGED <<tpc, sess, mpc, reaping, overtaken>>
    BY DEF Create, workers, main
  <1>6. \A s \in Sessions : s # size' => ptm'[s] = ptm[s] /\ alive'[s] = alive[s]
    BY <1>1, <1>5 DEF TimeInv, TypeOK
  <1>7. \A s \in Sessions : s # size' /\ ptm[s] \in Fds /\ owner[ptm[s]] = s =>
            owner'[ptm'[s]] = s
    BY <1>1, <1>6, TerminalAssumption DEF TimeInv, TypeOK
  <1>8. ptm'[size'] = f /\ alive'[size'] /\ owner'[f] = size'
    BY <1>1, <1>2, <1>5 DEF TimeInv, TypeOK
  <1>9. Owned'
    BY <1>1, <1>3, <1>4, <1>5, <1>6, <1>8 DEF Ledger, Owned, Closes, TimeInv, TypeOK
  <1>10. Closing'
    BY <1>2, <1>3, <1>5, <1>6, <1>7 DEF Ledger, Closing, Sessions
  <1>11. Kept'
    BY <1>5, <1>6, <1>7, <1>8 DEF Ledger, Kept, TimeInv, Opened
  <1>12. PollCloses'
    BY <1>3, <1>5, <1>6, <1>7 DEF Ledger, PollCloses, TimeInv, Serving
  <1> QED
    BY <1>9, <1>10, <1>11, <1>12 DEF Ledger

(* The poll that ends a live session is the only one to close it.          *)
LEMMA PollEndLedger ==
  ASSUME TimeInv, Ledger, NEW t \in Threads, PollEnd(t)
  PROVE  Ledger'
  <1> DEFINE s == sess[t]
  <1>1. s \in Sessions /\ ptm[s] \in Fds
    BY DEF PollEnd, TimeInv, Serving
  <1>2. /\ alive' = [alive EXCEPT ![s] = FALSE] /\ tpc' = [tpc EXCEPT ![t] = "close"]
        /\ tpc[t] = "select" /\ overtaken' = (overtaken \/ ~alive[s])
        /\ UNCHANGED <<size, ptm, owner, sess, mpc, reaping>>
    BY DEF PollEnd, main, Meets
  <1> HIDE DEF s
  <1>3. \A r \in Sessions : r # s => alive'[r] = alive[r]
    BY <1>2 DEF TimeInv, TypeOK
  <1>4. ~alive'[s] /\ Closes(t, s)'
    BY <1>1, <1>2 DEF TimeInv, TypeOK, Closes, s
  <1>5. \A u \in Threads : u # t => tpc'[u] = tpc[u]
    BY <1>2 DEF TimeInv, TypeOK
  <1>6. Owned'
    <2> SUFFICES ASSUME NEW g \in Fds, owner[g] \in Sessions
                 PROVE  /\ ptm[owner[g]] = g
                        /\ \/ alive'[owner[g]]
                           \/ mpc = "close" /\ reaping = owner[g]
                           \/ \E u \in Threads : Closes(u, owner[g])'
      BY <1>2 DEF Owned
    <2>1. \A u \in Threads : Closes(u, owner[g]) => Closes(u, owner[g])'
      BY <1>2, <1>5 DEF Closes
    <2>2. /\ ptm[owner[g]] = g
          /\ \/ alive[owner[g]]
             \/ mpc = "close" /\ reaping = owner[g]
             \/ \E u \in Threads : Closes(u, owner[g])
      BY DEF Ledger, Owned
    <2>3. CASE owner[g] = s
      <3>1. Closes(t, owner[g])'
        BY <2>3, <1>2 DEF Closes, s, TimeInv, TypeOK
      <3> QED
        BY <2>2, <3>1
    <2>4. CASE owner[g] # s
      BY <2>1, <2>2, <2>4, <1>3
    <2> QED
      BY <2>3, <2>4
  <1>7. Closing'
    BY <1>2, <1>3, <1>4 DEF Ledger, Closing
  <1>8. Kept'
    BY <1>2, <1>3, <1>4 DEF Ledger, Kept
  <1>9. PollCloses'
    <2> SUFFICES ASSUME NEW u \in Threads, tpc'[u] = "close"
                 PROVE  /\ ~alive'[sess[u]]
                        /\ ~overtaken' => /\ owner[ptm[sess[u]]] = sess[u]
                                          /\ ~(mpc = "close" /\ reaping = sess[u])
      BY <1>2 DEF PollCloses
    <2>1. CASE u = t
      BY <2>1, <1>1, <1>2, <1>4 DEF Ledger, Kept, Closing, s
    <2>2. CASE u # t
      <3>1. tpc[u] = "close" /\ sess[u] \in Sessions
        BY <2>2, <1>5 DEF TimeInv, Serving
      <3> QED
        BY <3>1, <1>2, <1>3, <1>4 DEF Ledger, PollCloses
    <2> QED
      BY <2>1, <2>2
  <1> QED
    BY <1>6, <1>7, <1>8, <1>9 DEF Ledger

(* A close gives the descriptor of s back, and that of no other session    *)
(* that has its own.                                                       *)
LEMMA CloseOne ==
  ASSUME TimeInv, Ledger, NEW s \in Sessions, ptm[s] \in Fds, ~alive[s],
         owner' = [owner EXCEPT ![ptm[s]] = Free]
  PROVE  /\ \A g \in Fds : owner'[g] \in Sessions =>
               owner'[g] = owner[g] /\ owner[g] # s /\ g # ptm[s]
         /\ owner[ptm[s]] = s => \A r \in Sessions :
               r # s /\ ptm[r] \in Fds /\ owner[ptm[r]] = r => owner'[ptm[r]] = r
  <1>1. Free \notin Sessions
    BY TerminalAssumption
  <1>2. \A g \in Fds : owner'[g] \in Sessions => owner'[g] = owner[g] /\ g # ptm[s]
    BY <1>1 DEF TimeInv, TypeOK
  <1>3. \A g \in Fds : owner[g] = s => g = ptm[s]
    BY DEF Ledger, Owned
  <1>4. \A g \in Fds : g # ptm[s] => owner'[g] = owner[g]
    BY DEF TimeInv, TypeOK
  <1> QED
    BY <1>2, <1>3, <1>4

LEMMA PollCloseLedger ==
  ASSUME TimeInv, Ledger, NEW t \in Threads, PollClose(t)
  PROVE  Ledger'
  <1> DEFINE s == sess[t]
  <1>1. s \in Sessions /\ ptm[s] \in Fds /\ mutex[s] = t /\ ~alive[s]
    BY DEF PollClose, TimeInv, Serving, Held, Ledger, PollCloses
  <1>2. /\ owner' = [owner EXCEPT ![ptm[s]] = Free]
        /\ tpc[t] = "close"
        /\ tpc' = [tpc EXCEPT ![t] = "idle"] /\ sess' = [sess EXCEPT ![t] = 0]
        /\ UNCHANGED <<size, alive, ptm, mpc, reaping, overtaken>>
    BY DEF PollClose, Leave, main
  <1>3. ~overtaken => owner[ptm[s]] = s /\ ~(mpc = "close" /\ reaping = s)
    BY <1>2 DEF Ledger, PollCloses
  <1>4. \A u \in Threads : tpc'[u] = "close" =>
           u # t /\ tpc[u] = "close" /\ sess'[u] = sess[u] /\ sess[u] # s
    BY <1>1, <1>2 DEF TimeInv, TypeOK, Serving, Held
  <1>5. \A u \in Threads, r \in Sessions : r # s /\ Closes(u, r) => Closes(u, r)'
    BY <1>2 DEF TimeInv, TypeOK, Closes
  <1>6. /\ \A g \in Fds : owner'[g] \in Sessions => owner'[g] = owner[g] /\ owner[g] # s
        /\ owner[ptm[s]] = s => \A r \in Sessions :
              r # s /\ ptm[r] \in Fds /\ owner[ptm[r]] = r => owner'[ptm[r]] = r
    BY <1>1, <1>2, CloseOne
  <1> HIDE DEF s
  <1>7. Owned'
    BY <1>2, <1>5, <1>6 DEF Ledger, Owned
  <1>8. Closing'
    BY <1>2, <1>3, <1>6 DEF Ledger, Closing
  <1>9. Kept'
    BY <1>1, <1>2, <1>3, <1>6 DEF Ledger, Kept, TimeInv, Opened
  <1>10. PollCloses'
    <2> SUFFICES ASSUME NEW u \in Threads, tpc'[u] = "close"
                 PROVE  /\ ~alive[sess[u]]
                        /\ ~overtaken => /\ owner'[ptm[sess[u]]] = sess[u]
                                         /\ ~(mpc = "close" /\ reaping = sess[u])
      BY <1>2, <1>4 DEF PollCloses
    <2>1. tpc[u] = "close" /\ sess[u] # s /\ sess[u] \in Sessions /\ ptm[sess[u]] \in Fds
      BY <1>4 DEF TimeInv, Serving
    <2> QED
      BY <2>1, <1>3, <1>6 DEF Ledger, PollCloses
  <1> QED
    BY <1>7, <1>8, <1>9, <1>10 DEF Ledger

(* The other steps of a worker close nothing.                              *)
LEMMA WorkLedger ==
  ASSUME TimeInv, Ledger, NEW t \in Threads, Work(t)
  PROVE  Ledger'
  <1>1. CASE Create(t)
    BY <1>1, CreateLedger
  <1>2. CASE CreateRetry(t)
    <2>1. PICK f \in Fds : owner[f] = Free /\ owner' = [owner EXCEPT ![f] = Leaked]
      BY <1>2 DEF CreateRetry, Lowest
    <2>2. UNCHANGED <<size, alive, ptm, tpc, sess, mpc, reaping, overtaken>>
      BY <1>2 DEF CreateRetry, workers, main
    <2>3. \A g \in Fds : owner[g] \in Sessions \/ owner'[g] \in Sessions =>
                            owner'[g] = owner[g]
      BY <2>1, TerminalAssumption DEF TimeInv, TypeOK
    <2> QED
      BY <2>2, <2>3, SameLedger
  <1>3. CASE PollEnd(t)
    BY <1>3, PollEndLedger
  <1>4. CASE PollClose(t)
    BY <1>4, PollCloseLedger
  <1>5. CASE \/ Stamp(t) \/ WriteKeys(t) \/ Lock(t) \/ PollAnswer(t) \/ Sent(t)
             \/ \E s \in Sessions : Test(t, s)
    <2>1. UNCHANGED <<size, alive, ptm, owner, mpc, reaping>>
      BY <1>5 DEF Stamp, WriteKeys, Lock, PollAnswer, Sent, Test, main, workers
    <2>3. ASSUME overtaken PROVE overtaken'
      BY <1>5, <2>3 DEF Stamp, WriteKeys, Lock, PollAnswer, Sent, Test, Meets
    <2>2. \A u \in Threads : \/ tpc[u] # "close" /\ tpc'[u] # "close"
                             \/ tpc'[u] = tpc[u] /\ sess'[u] = sess[u]
      BY <1>5 DEF Stamp, WriteKeys, Lock, PollAnswer, Sent, Test, Leave, TimeInv, TypeOK
    <2> QED
      BY <2>1, <2>2, <2>3, SameLedger
  <1> QED
    BY <1>1, <1>2, <1>3, <1>4, <1>5 DEF Work

(* main() marks a session, and closes what it marked.                      *)
LEMMA MainLedger ==
  ASSUME TimeInv, Ledger, Reap \/ Clear
  PROVE  Ledger'
  <1> USE DEF TimeInv, TypeOK, Ledger
  <1>1. ASSUME NEW s \in Sessions, ReapTest(s) PROVE Ledger'
    <2>1. /\ mpc' = "mark" /\ reaping' = s /\ mpc = "look" /\ alive[s]
          /\ UNCHANGED <<size, alive, ptm, owner, tpc, sess, overtaken>>
      BY <1>1 DEF ReapTest, workers
    <2> QED
      BY <2>1 DEF Owned, Closing, PollCloses, Kept, Opened, Closes
  <1>2. CASE ReapMark
    <2>1. /\ alive' = [alive EXCEPT ![reaping] = FALSE] /\ mpc = "mark" /\ mpc' = "close"
          /\ overtaken' = (overtaken \/ ~alive[reaping])
          /\ UNCHANGED <<size, ptm, owner, tpc, sess, reaping>>
      BY <1>2 DEF ReapMark, workers, Meets
    <2>2. reaping \in Sessions
      BY <2>1 DEF Closing
    <2>3. /\ ~alive'[reaping]
          /\ \A r \in Sessions : r # reaping => alive'[r] = alive[r]
      BY <2>1, <2>2
    <2>4. Owned'
      BY <2>1, <2>3 DEF Owned, Closes
    <2>5. Closing'
      <3>1. ~overtaken' => owner[ptm[reaping]] = reaping
        BY <2>1, <2>2 DEF Kept
      <3> QED
        BY <3>1, <2>1, <2>3 DEF Closing
    <2>6. PollCloses'
      <3> SUFFICES ASSUME NEW u \in Threads, tpc[u] = "close"
                   PROVE  /\ ~alive'[sess[u]]
                          /\ ~overtaken' => /\ owner[ptm[sess[u]]] = sess[u]
                                            /\ reaping # sess[u]
        BY <2>1 DEF PollCloses
      <3>1. sess[u] \in Sessions /\ ~alive[sess[u]]
        BY DEF PollCloses, Serving
      <3>2. ~alive'[sess[u]]
        BY <3>1, <2>3
      <3>3. ASSUME ~overtaken' PROVE owner[ptm[sess[u]]] = sess[u] /\ reaping # sess[u]
        <4>1. ~overtaken /\ alive[reaping]
          BY <2>1, <3>3
        <4> QED
          BY <4>1, <3>1 DEF PollCloses
      <3> QED
        BY <3>2, <3>3
    <2>7. Kept'
      BY <2>1, <2>3 DEF Kept
    <2> QED
      BY <2>4, <2>5, <2>6, <2>7
  <1>3. CASE ReapClose
    <2> DEFINE s == reaping
    <2>1. s \in Sessions /\ ptm[s] \in Fds /\ ~alive[s] /\ mpc = "close"
      BY <1>3 DEF ReapClose, Closing
    <2>2. /\ owner' = [owner EXCEPT ![ptm[s]] = Free] /\ mpc' = "look"
          /\ UNCHANGED <<size, alive, ptm, tpc, sess, overtaken>>
      BY <1>3 DEF ReapClose, workers
    <2>3. /\ \A g \in Fds : owner'[g] \in Sessions => owner'[g] = owner[g] /\ owner[g] # s
          /\ owner[ptm[s]] = s => \A r \in Sessions :
                r # s /\ ptm[r] \in Fds /\ owner[ptm[r]] = r => owner'[ptm[r]] = r
      BY <2>1, <2>2, CloseOne
    <2>4. ~overtaken => owner[ptm[s]] = s /\ \A t \in Threads : ~Closes(t, s)
      BY <2>1 DEF Closing, PollCloses, Closes
    <2> HIDE DEF s
    <2>5. Owned'
      BY <2>2, <2>3 DEF Owned, Closes, s
    <2>6. Closing'
      BY <2>2 DEF Closing
    <2>7. PollCloses'
      BY <2>2, <2>3, <2>4 DEF PollCloses, Serving, Closes
    <2>8. Kept'
      BY <2>1, <2>2, <2>3, <2>4 DEF Kept, Opened
    <2> QED
      BY <2>5, <2>6, <2>7, <2>8
  <1>4. CASE Clear
    <2>1. /\ alive' = [s \in Sessions |-> FALSE] /\ mpc = "look"
          /\ UNCHANGED <<ptm, tpc, sess, mpc, reaping, overtaken>>
          /\ \A t \in Threads : tpc[t] = "idle"
      BY <1>4 DEF Clear, workers, main
    <2>2. \A f \in Fds : owner'[f] \notin Sessions
      <3> SUFFICES ASSUME NEW f \in Fds, owner'[f] \in Sessions PROVE FALSE
        OBVIOUS
      <3>1. owner'[f] = owner[f] /\ ~\E s \in Sessions : alive[s] /\ ptm[s] = f
        BY <1>4, TerminalAssumption DEF Clear
      <3> QED
        BY <3>1, <2>1 DEF Owned, Closes
    <2> QED
      BY <2>1, <2>2 DEF Owned, Closing, PollCloses, Kept
  <1> QED
    BY <1>1, <1>2, <1>3, <1>4 DEF Reap

(* The ledger holds from the start and every step keeps it.                *)
LEMMA LedgerStep == TimeInv /\ Ledger /\ [Next]_vars => Ledger'
  <1> SUFFICES ASSUME TimeInv, Ledger, [Next]_vars PROVE Ledger'
    OBVIOUS
  <1>1. ASSUME NEW t \in Threads, Work(t) PROVE Ledger'
    BY <1>1, WorkLedger
  <1>2. CASE Reap \/ Clear
    BY <1>2, MainLedger
  <1>3. CASE OtherOpens \/ OtherCloses
    <2>1. UNCHANGED <<size, alive, ptm, tpc, sess, mpc, reaping, overtaken>>
      BY <1>3 DEF OtherOpens, OtherCloses, workers, main
    <2>2. \A g \in Fds : owner[g] \in Sessions \/ owner'[g] \in Sessions =>
                            owner'[g] = owner[g]
      BY <1>3, TerminalAssumption DEF OtherOpens, OtherCloses, Lowest, TimeInv, TypeOK
    <2> QED
      BY <2>1, <2>2, SameLedger
  <1>4. CASE Tick \/ (\E s \in Sessions : ShellExits(s)) \/ UNCHANGED vars
    <2>1. UNCHANGED <<size, alive, ptm, tpc, sess, mpc, reaping, overtaken, owner>>
      BY <1>4 DEF Tick, ShellExits, vars, workers, main
    <2> QED
      BY <2>1, SameLedger
  <1> QED
    BY <1>1, <1>2, <1>3, <1>4 DEF Next

(* However requests, shells and main() cross: no descriptor outlives its   *)
(* session, and as long as nobody found a session ended under his hands,   *)
(* every live session has its own.                                         *)
THEOREM TerminalDescriptors == Spec => []DescriptorsAccounted
  <1>1. Init => Ledger
    BY TerminalAssumption DEF Init, Ledger, Owned, Closing, PollCloses, Kept
  <1>2. Ledger => DescriptorsAccounted
    BY DEF Ledger, Owned, Closes, Kept, DescriptorsAccounted
  <1> QED
    BY <1>1, <1>2, LedgerStep, TerminalTime, PTL DEF Spec
=============================================================================
