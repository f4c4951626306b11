-------------------------- MODULE BackServerProofs --------------------------
(* Proofs about the tunnel of service/mongoose.cpp, for any number of      *)
(* connection threads and any value of backmaxconn.                        *)
EXTENDS BackServer, FiniteSetTheorems, TLAPS

(* Where backserver() is when it may still open a connection there is room *)
(* for one: it comes from a Connect that left room, or from a signal that  *)
(* was sent with a slot given back - or mg_stop woke it, and it will end.  *)
Room ==
  ~Spurious => /\ backnumconn <= backmaxconn
               /\ \/ backnumconn < backmaxconn
                  \/ bpc \in {"waiting", "gone"}
                  \/ stop_flag /\ bpc \in {"woken", "top"}

ToldFlag == told => stop_flag

IInv == TypeOK /\ Balanced /\ WindowBound /\ ToldFlag /\ Room

(* A thread leaves the idle connections, or joins them.                    *)
LEMMA IdleStep ==
  ASSUME Balanced, NEW c \in Conns,
         \A d \in Conns \ {c} : pc'[d] = pc[d]
  PROVE  /\ c \in Idle /\ c \notin Idle'
              => Cardinality(Idle') = backnumconn - 1 /\ backnumconn > 0
         /\ c \notin Idle /\ c \in Idle' => Cardinality(Idle') = backnumconn + 1
         /\ (c \in Idle <=> c \in Idle') => Cardinality(Idle') = backnumconn
  <1>1. IsFiniteSet(Idle)
    BY BackAssumption, FS_Subset DEF Idle
  <1>2. Cardinality(Idle) \in Nat
    BY <1>1, FS_CardinalityType
  <1>3. ASSUME c \in Idle, c \notin Idle'
        PROVE  Cardinality(Idle') = backnumconn - 1 /\ backnumconn > 0
    <2>1. Idle' = Idle \ {c}
      BY <1>3 DEF Idle
    <2>2. Cardinality(Idle') = Cardinality(Idle) - 1
      BY <1>1, <1>3, <2>1, FS_RemoveElement
    <2>3. Cardinality(Idle) > 0
      BY <1>1, <1>2, <1>3, FS_EmptySet
    <2> QED BY <2>2, <2>3 DEF Balanced
  <1>4. ASSUME c \notin Idle, c \in Idle'
        PROVE  Cardinality(Idle') = backnumconn + 1
    <2>1. Idle' = Idle \cup {c}
      BY <1>4 DEF Idle
    <2> QED BY <1>1, <1>4, <2>1, FS_AddElement DEF Balanced
  <1>5. ASSUME c \in Idle <=> c \in Idle'
        PROVE  Cardinality(Idle') = backnumconn
    <2>1. Idle' = Idle
      BY <1>5 DEF Idle
    <2> QED BY <2>1 DEF Balanced
  <1> QED
    BY <1>1, <1>2, <1>3, <1>4, <1>5

(* The initial state.                                                      *)
LEMMA InitIInv == Init => IInv
  <1> SUFFICES ASSUME Init PROVE IInv
    OBVIOUS
  <1> USE BackAssumption
  <1>a. /\ switches \in 0..MaxSwitches /\ backporterror \in 0..(MaxErrors + 1)
        /\ backnumconn \in Nat /\ backactmaxconn \in Nat /\ mdec \in Int
    BY DEF Init
  <1>b. /\ pc \in [Conns -> {None, "fresh", "late", "judge", "more", "handle"}]
        /\ got \in [Conns -> Reads \cup {None}]
    BY DEF Init
  <1>1. TypeOK
    BY <1>a, <1>b, Zenon DEF Init, TypeOK
  <1>2. Idle = {}
    BY DEF Init, Idle, None
  <1>3. Balanced
    BY <1>2, FS_EmptySet DEF Init, Balanced
  <1> QED
    BY <1>1, <1>3, BackAssumption DEF Init, IInv, WindowBound, ToldFlag, Room

(* The steps of backserver() keep the types.                               *)
LEMMA ServerTypes ==
  ASSUME TypeOK,
         Round \/ SocketFails \/ ChoosePort \/ ConnectFails \/ Wakeup \/ SpuriousWakeup
  PROVE  TypeOK'
  <1> USE BackAssumption DEF wish, counts, stopping
  <1>1. TypeOK /\ Round => TypeOK'
    <2> SUFFICES ASSUME TypeOK, Round PROVE TypeOK'
      OBVIOUS
    <2>1. backstop' \in BOOLEAN /\ changed' \in BOOLEAN /\ gone' \in BOOLEAN
      BY Zenon DEF TypeOK, Round
    <2>2. bpc' \in {"top", "port", "connect", "waiting", "woken", "gone"}
      BY Zenon DEF TypeOK, Round
    <2>3. UNCHANGED <<server, switches, backnumconn, backactmaxconn,
                      backporterror, port, pc, got, mdec, stop_flag, told, freed>>
      BY DEF Round
    <2> QED BY <2>1, <2>2, <2>3 DEF TypeOK
  <1>2. TypeOK /\ SocketFails => TypeOK'
    BY DEF TypeOK, SocketFails
  <1>3. TypeOK /\ ChoosePort => TypeOK'
    BY DEF TypeOK, ChoosePort, NextPort
  <1>4. TypeOK /\ ConnectFails => TypeOK'
    BY DEF TypeOK, ConnectFails, OneError
  <1>5. TypeOK /\ Wakeup => TypeOK'
    BY DEF TypeOK, Wakeup
  <1>6. TypeOK /\ SpuriousWakeup => TypeOK'
    BY DEF TypeOK, SpuriousWakeup
  <1> QED
    BY <1>1, <1>2, <1>3, <1>4, <1>5, <1>6

(* The steps of main(), of the user and of mg_stop keep the types.         *)
LEMMA OtherTypes ==
  ASSUME TypeOK,
         \/ MainTest \/ MainLoad \/ MainStore
         \/ \E on \in BOOLEAN : Switch(on)
         \/ mg_stop \/ StopSignal \/ FreeContext
         \/ UNCHANGED vars
  PROVE  TypeOK'
  <1> USE BackAssumption DEF wish, counts, stopping
  <1>1. TypeOK /\ MainTest => TypeOK'
    BY DEF TypeOK, MainTest
  <1>2. TypeOK /\ MainLoad => TypeOK'
    BY DEF TypeOK, MainLoad
  <1>3. TypeOK /\ MainStore => TypeOK'
    BY DEF TypeOK, MainStore
  <1>4. ASSUME NEW on \in BOOLEAN
        PROVE  TypeOK /\ Switch(on) => TypeOK'
    BY DEF TypeOK, Switch
  <1>5. TypeOK /\ mg_stop => TypeOK'
    BY DEF TypeOK, mg_stop
  <1>6. TypeOK /\ StopSignal => TypeOK'
    BY DEF TypeOK, StopSignal, Signalled
  <1>7. TypeOK /\ FreeContext => TypeOK'
    BY DEF TypeOK, FreeContext
  <1>8. TypeOK /\ UNCHANGED vars => TypeOK'
    BY DEF TypeOK, vars
  <1> QED
    BY <1>1, <1>2, <1>3, <1>4, <1>5, <1>6, <1>7, <1>8

(* Steps of backserver() that leave the connections alone.                 *)
LEMMA ServerSteps ==
  IInv /\ (Round \/ SocketFails \/ ChoosePort \/ ConnectFails \/ Wakeup \/ SpuriousWakeup)
    => IInv'
  <1> SUFFICES ASSUME IInv, Round \/ SocketFails \/ ChoosePort \/ ConnectFails
                              \/ Wakeup \/ SpuriousWakeup
               PROVE  IInv'
    OBVIOUS
  <1> USE BackAssumption DEF IInv, wish, counts, stopping
  <1>1. TypeOK'
    BY ServerTypes
  <1>2. UNCHANGED <<pc, backnumconn, backactmaxconn, mdec, told, stop_flag>>
    BY DEF Round, SocketFails, ChoosePort, ConnectFails, Wakeup, SpuriousWakeup
  <1>3. Balanced' /\ WindowBound' /\ ToldFlag'
    BY <1>2 DEF Balanced, Idle, WindowBound, ToldFlag
  <1>4. Room'
    BY <1>2 DEF TypeOK, Room, Round, SocketFails, ChoosePort, ConnectFails,
                Wakeup, SpuriousWakeup
  <1> QED
    BY <1>1, <1>3, <1>4

(* A connection is opened.                                                 *)
LEMMA ConnectStep ==
  ASSUME IInv, NEW c \in Conns, Connect(c)
  PROVE  IInv'
  <1> USE BackAssumption DEF IInv, wish, counts, stopping
  <1>1. TypeOK'
    BY DEF TypeOK, Connect
  <1>2. Cardinality(Idle') = backnumconn + 1
    BY IdleStep DEF TypeOK, Idle, Connect, None
  <1>3. Balanced'
    BY <1>2 DEF Balanced, Connect
  <1>4. WindowBound' /\ ToldFlag' /\ Room'
    BY DEF TypeOK, WindowBound, ToldFlag, Room, Connect
  <1> QED
    BY <1>1, <1>3, <1>4

(* Steps of a connection thread that leave backnumconn alone.              *)
LEMMA ThreadKeeps ==
  ASSUME IInv, NEW c \in Conns,
         \/ Timeout(c) \/ Judge(c) \/ Handle(c)
         \/ \E what \in Reads : ReadMore(c, what)
  PROVE  IInv'
  <1> USE BackAssumption DEF IInv, wish, counts, stopping
  <1>1. CASE Timeout(c)
    <2>1. TypeOK'
      BY <1>1 DEF TypeOK, Timeout, Decreased
    <2>2. Cardinality(Idle') = backnumconn
      BY <1>1, IdleStep DEF TypeOK, Idle, Timeout, None
    <2> QED BY <1>1, <2>1, <2>2 DEF TypeOK, Timeout, Decreased, Balanced,
                                    WindowBound, ToldFlag, Room
  <1>2. CASE Judge(c)
    <2>1. TypeOK'
      BY <1>2 DEF TypeOK, Judge, OneError
    <2>2. Cardinality(Idle') = backnumconn
      BY <1>2, IdleStep DEF TypeOK, Idle, Judge, None
    <2> QED BY <1>2, <2>1, <2>2 DEF TypeOK, Judge, Balanced, WindowBound,
                                    ToldFlag, Room
  <1>3. CASE Handle(c)
    <2>1. TypeOK'
      BY <1>3 DEF TypeOK, Handle
    <2>2. Cardinality(Idle') = backnumconn
      BY <1>3, IdleStep DEF TypeOK, Idle, Handle, None
    <2> QED BY <1>3, <2>1, <2>2 DEF TypeOK, Handle, Balanced, WindowBound,
                                    ToldFlag, Room
  <1>4. ASSUME NEW what \in Reads, ReadMore(c, what)
        PROVE  IInv'
    <2>1. TypeOK'
      BY <1>4 DEF TypeOK, ReadMore
    <2>2. Cardinality(Idle') = backnumconn
      BY <1>4, IdleStep DEF TypeOK, Idle, ReadMore
    <2> QED BY <1>4, <2>1, <2>2 DEF TypeOK, ReadMore, Balanced, WindowBound,
                                    ToldFlag, Room
  <1> QED
    BY <1>1, <1>2, <1>3, <1>4

(* The ways out of the first read: each gives its slot back.               *)
LEMMA ThreadReleases ==
  ASSUME IInv, NEW c \in Conns,
         \/ LateRelease(c) \/ FirstStop(c)
         \/ \E what \in Reads : FirstRead(c, what)
  PROVE  IInv'
  <1> USE BackAssumption DEF IInv, wish, counts, stopping
  <1>1. CASE LateRelease(c)
    <2>1. Cardinality(Idle') = backnumconn - 1 /\ backnumconn > 0
      BY <1>1, IdleStep DEF TypeOK, Idle, LateRelease, None
    <2>2. TypeOK'
      BY <1>1, <2>1 DEF TypeOK, LateRelease, Signalled
    <2> QED BY <1>1, <2>1, <2>2 DEF TypeOK, LateRelease, Signalled, Balanced,
                                    WindowBound, ToldFlag, Room
  <1>2. CASE FirstStop(c)
    <2>1. Cardinality(Idle') = backnumconn - 1 /\ backnumconn > 0
      BY <1>2, IdleStep DEF TypeOK, Idle, FirstStop, None
    <2>2. TypeOK'
      BY <1>2, <2>1 DEF TypeOK, FirstStop, Signalled
    <2> QED BY <1>2, <2>1, <2>2 DEF TypeOK, FirstStop, Signalled, Balanced,
                                    WindowBound, ToldFlag, Room
  <1>3. ASSUME NEW what \in Reads, FirstRead(c, what)
        PROVE  IInv'
    <2>1. Cardinality(Idle') = backnumconn - 1 /\ backnumconn > 0
      BY <1>3, IdleStep DEF TypeOK, Idle, FirstRead, None
    <2>2. TypeOK'
      BY <1>3, <2>1 DEF TypeOK, FirstRead, Signalled
    <2> QED BY <1>3, <2>1, <2>2 DEF TypeOK, FirstRead, Signalled, Balanced,
                                    WindowBound, ToldFlag, Room
  <1> QED
    BY <1>1, <1>2, <1>3

(* Steps of main(), of the user and of mg_stop.                            *)
LEMMA OtherSteps ==
  IInv /\ (\/ MainTest \/ MainLoad \/ MainStore
           \/ \E on \in BOOLEAN : Switch(on)
           \/ mg_stop \/ StopSignal \/ FreeContext
           \/ UNCHANGED vars)
    => IInv'
  <1> SUFFICES ASSUME IInv,
                      \/ MainTest \/ MainLoad \/ MainStore
                      \/ \E on \in BOOLEAN : Switch(on)
                      \/ mg_stop \/ StopSignal \/ FreeContext
                      \/ UNCHANGED vars
               PROVE  IInv'
    OBVIOUS
  <1> USE BackAssumption DEF IInv, wish, counts, stopping
  <1>1. TypeOK'
    BY OtherTypes
  <1>2. UNCHANGED <<pc, backnumconn>>
    BY DEF MainTest, MainLoad, MainStore, Switch, mg_stop, StopSignal,
           FreeContext, vars
  <1>3. Balanced'
    BY <1>2 DEF Balanced, Idle
  <1>4. WindowBound'
    BY DEF TypeOK, WindowBound, MainTest, MainLoad, MainStore, Switch, mg_stop,
           StopSignal, FreeContext, vars
  <1>5. ToldFlag' /\ Room'
    BY DEF TypeOK, ToldFlag, Room, MainTest, MainLoad, MainStore, Switch,
           mg_stop, StopSignal, FreeContext, Signalled, vars
  <1> QED
    BY <1>1, <1>3, <1>4, <1>5

(* IInv is an invariant of the tunnel.                                     *)
THEOREM TunnelInvariant == Spec => []IInv
  <1>1. Init => IInv
    BY InitIInv
  <1>2. IInv /\ [Next]_vars => IInv'
    BY ServerSteps, ConnectStep, ThreadKeeps, ThreadReleases, OtherSteps
       DEF Next, Tunnel, Thread
  <1> QED
    BY <1>1, <1>2, PTL DEF Spec

(* The tunnel's state keeps its shape; in particular backnumconn, a plain  *)
(* int in the code, never becomes negative.                                *)
THEOREM TunnelTypeOK == Spec => []TypeOK
  BY TunnelInvariant, PTL DEF IInv

(* backnumconn counts the connections in their first read, exactly.        *)
THEOREM TunnelBalanced == Spec => []Balanced
  BY TunnelInvariant, PTL DEF IInv

(* The window backactmaxconn never leaves 0..backmaxconn, although main()  *)
(* updates it without the mutex.                                           *)
THEOREM TunnelWindowBound == Spec => []WindowBound
  BY TunnelInvariant, PTL DEF IInv

(* Without spurious wake-ups the tunnel never holds more than backmaxconn  *)
(* idle connections, although backserver() waits without a loop.           *)
THEOREM TunnelIdleBound == Spec => []IdleBound
  <1>1. IInv => IdleBound
    BY DEF IInv, Room, IdleBound
  <1> QED
    BY <1>1, TunnelInvariant, PTL

(* backserver() never sleeps without a connection left to wake it: there   *)
(* is no lost wake-up although it waits without a loop.                    *)
THEOREM TunnelSleeperHasWaker == Spec => []SleeperHasWaker
  <1>1. Init => SleeperHasWaker
    BY DEF Init, SleeperHasWaker
  <1>2. TypeOK /\ SleeperHasWaker /\ [Next]_vars => SleeperHasWaker'
    <2> SUFFICES ASSUME TypeOK, SleeperHasWaker, [Next]_vars
                 PROVE  SleeperHasWaker'
      OBVIOUS
    <2>1. ASSUME NEW c \in Conns, Connect(c) PROVE SleeperHasWaker'
      <3>1. c \in Idle'
        BY <2>1 DEF Connect, TypeOK, Idle
      <3> QED BY <3>1 DEF SleeperHasWaker
    <2>2. ASSUME NEW c \in Conns, Timeout(c) \/ Judge(c) \/ Handle(c)
                                    \/ \E what \in Reads : ReadMore(c, what)
          PROVE  SleeperHasWaker'
      <3>1. bpc' = bpc
        BY <2>2 DEF Timeout, Judge, Handle, ReadMore
      <3>2. Idle' = Idle
        BY <2>2 DEF Timeout, Judge, Handle, ReadMore, TypeOK, Idle, None
      <3> QED BY <3>1, <3>2 DEF SleeperHasWaker
    <2>3. ASSUME NEW c \in Conns, LateRelease(c) \/ FirstStop(c)
                                    \/ \E what \in Reads : FirstRead(c, what)
          PROVE  SleeperHasWaker'
      BY <2>3 DEF LateRelease, FirstStop, FirstRead, Signalled, SleeperHasWaker
    <2>4. ASSUME \/ Round \/ SocketFails \/ ChoosePort \/ ConnectFails \/ Wakeup
                 \/ SpuriousWakeup
          PROVE  SleeperHasWaker'
      BY <2>4 DEF Round, SocketFails, ChoosePort, ConnectFails, Wakeup,
                  SpuriousWakeup, SleeperHasWaker
    <2>5. ASSUME \/ MainTest \/ MainLoad \/ MainStore
                 \/ \E on \in BOOLEAN : Switch(on)
                 \/ mg_stop \/ StopSignal \/ FreeContext \/ UNCHANGED vars
          PROVE  SleeperHasWaker'
      <3>1. pc' = pc /\ (bpc' = bpc \/ bpc' = Signalled)
        BY <2>5 DEF MainTest, MainLoad, MainStore, Switch, mg_stop, StopSignal,
                    FreeContext, vars
      <3> QED BY <3>1 DEF SleeperHasWaker, Signalled, Idle
    <2> QED
      BY <2>1, <2>2, <2>3, <2>4, <2>5 DEF Next, Tunnel, Thread
  <1> QED
    BY <1>1, <1>2, TunnelTypeOK, PTL DEF Spec
=============================================================================
