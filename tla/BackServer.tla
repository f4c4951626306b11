----------------------------- MODULE BackServer -----------------------------
(***************************************************************************)
(* The tunnel of service/mongoose.cpp: with the service switched on the    *)
(* phone keeps some connections open to a public server, and answers the   *)
(* requests that arrive over them.  backserver() opens the connections and *)
(* waits on backcond while enough of them are idle; each has a thread of   *)
(* its own, backnewconnection(), and backdecrease() is also called by      *)
(* main() once a minute, without backmutex.                                *)
(*                                                                         *)
(* A critical section of backmutex is one action.  What a thread does      *)
(* after its unlock is another.  Addresses and the bytes of the requests   *)
(* are left out.                                                           *)
(*                                                                         *)
(* Operators named Bug... are faulty variants of the definition that       *)
(* follows them, used to see that the properties notice them.              *)
(***************************************************************************)
EXTENDS Integers, FiniteSets

CONSTANTS
  Conns,        \* the connection threads that can exist at a time
  backmaxconn,  \* 3
  MaxErrors,    \* errors after which the port is changed: 5
  Ports,        \* PORT1, PORT2, or the port of server.txt
  PORT1, PORT2,
  GoodPorts,    \* the ports on which a connect() can succeed
  Spurious,     \* whether pthread_cond_wait may return by itself
  MaxSwitches   \* bound: how often the user switches the service

ASSUME BackAssumption ==
  /\ IsFiniteSet(Conns)
  /\ backmaxconn \in Nat \ {0}
  /\ MaxErrors \in Nat
  /\ PORT1 # PORT2
  /\ GoodPorts \subseteq Ports
  /\ Spurious \in BOOLEAN
  /\ MaxSwitches \in Nat

VARIABLES
  server,          \* *server: the user wants the tunnel
  changed,         \* *server_changes # last_changes
  switches,        \* how often the user has switched it
  backstop, backnumconn, backactmaxconn, backporterror, port,
  bpc,             \* where backserver() is
  pc,              \* where each connection thread is
  got,             \* what its last read returned
  mdec,            \* where main() is in backdecrease(), and what it has read
  stop_flag,       \* ctx->stop_flag is set
  told,            \* mg_stop has signalled backcond
  freed,           \* mg_stop has returned: ctx is freed
  gone             \* backmutex and backcond are destroyed

counts == <<backnumconn, backactmaxconn>>
wish == <<server, changed, switches>>
stopping == <<stop_flag, told, freed, gone>>
vars == <<wish, backstop, counts, backporterror, port, bpc, pc, got, mdec,
          stopping>>

None == "none"
Reads == {"closed", "http", "part", "whole"}

Init ==
  /\ server \in BOOLEAN /\ changed = TRUE /\ switches = 0
  /\ backstop = FALSE
  /\ backnumconn = 0 /\ backactmaxconn = 1
  /\ backporterror = 0
  /\ port \in Ports
  /\ bpc = "top"
  /\ pc = [c \in Conns |-> None]
  /\ got = [c \in Conns |-> None]
  /\ mdec = -1
  /\ stop_flag = FALSE /\ told = FALSE /\ freed = FALSE /\ gone = FALSE
-----------------------------------------------------------------------------
(* backserver().                                                           *)

\* pthread_cond_signal(&backcond).
Signalled == IF bpc = "waiting" THEN "woken" ELSE bpc

\* The top of the loop: stop, forget backstop after a change, or go to sleep
\* and come back, or open a connection.
Round ==
  /\ bpc = "top"
  /\ IF stop_flag
     THEN bpc' = "gone" /\ gone' = TRUE /\ UNCHANGED <<backstop, changed>>
     ELSE /\ backstop' = (backstop /\ ~changed)
          /\ changed' = FALSE
          /\ bpc' = IF server /\ ~backstop' THEN "port" ELSE "top"
          /\ UNCHANGED gone
  /\ UNCHANGED <<server, switches, counts, backporterror, port, pc, got, mdec,
                 stop_flag, told, freed>>

\* socket() fails: try again in ten seconds.
SocketFails ==
  /\ bpc = "port"
  /\ bpc' = "top"
  /\ UNCHANGED <<wish, backstop, counts, backporterror, port, pc, got, mdec,
                 stopping>>

BugNextPort == IF port = PORT1 THEN PORT2 ELSE port

\* Too many errors: try the other of the two usual ports.
NextPort == IF port = PORT1 THEN PORT2 ELSE IF port = PORT2 THEN PORT1 ELSE port

ChoosePort ==
  /\ bpc = "port"
  /\ bpc' = "connect"
  /\ IF backporterror > MaxErrors
     THEN port' = NextPort /\ backporterror' = 0
     ELSE UNCHANGED <<port, backporterror>>
  /\ UNCHANGED <<wish, backstop, counts, pc, got, mdec, stopping>>

\* backporterror++.  Beyond MaxErrors its value makes no difference.
OneError == IF backporterror > MaxErrors THEN backporterror ELSE backporterror + 1

\* connect() fails, which it may on any port; the second connect() is made
\* on the closed socket and fails too.
ConnectFails ==
  /\ bpc = "connect"
  /\ bpc' = "top"
  /\ backporterror' = OneError
  /\ UNCHANGED <<wish, backstop, counts, port, pc, got, mdec, stopping>>

BugConnect(c) ==
  /\ bpc = "connect"
  /\ port \in GoodPorts
  /\ pc[c] = None
  /\ pc' = [pc EXCEPT ![c] = "fresh"]
  /\ backnumconn' = backnumconn + 1
  /\ bpc' = IF backnumconn' > backactmaxconn THEN "waiting" ELSE "top"
  /\ UNCHANGED <<wish, backstop, backactmaxconn, backporterror, port, got,
                 mdec, stopping>>

\* connect() succeeds: a thread is created, and backserver() waits if that
\* is enough.  There is no loop around this wait.
Connect(c) ==
  /\ bpc = "connect"
  /\ port \in GoodPorts
  /\ pc[c] = None
  /\ pc' = [pc EXCEPT ![c] = "fresh"]
  /\ backnumconn' = backnumconn + 1
  /\ bpc' = IF backnumconn' >= backactmaxconn THEN "waiting" ELSE "top"
  /\ UNCHANGED <<wish, backstop, backactmaxconn, backporterror, port, got,
                 mdec, stopping>>

Wakeup ==
  /\ bpc = "woken"
  /\ bpc' = "top"
  /\ UNCHANGED <<wish, backstop, counts, backporterror, port, pc, got, mdec,
                 stopping>>

SpuriousWakeup ==
  /\ Spurious
  /\ bpc = "waiting"
  /\ bpc' = "woken"
  /\ UNCHANGED <<wish, backstop, counts, backporterror, port, pc, got, mdec,
                 stopping>>
-----------------------------------------------------------------------------
(* backward_connection(), in the thread of connection c.                   *)

\* backdecrease().
Decreased == IF backactmaxconn > 1 THEN backactmaxconn - 1 ELSE backactmaxconn

BugTimeout(c) ==
  /\ pc[c] \in {"fresh", "more"}
  /\ backactmaxconn' = Decreased
  /\ pc' = [pc EXCEPT ![c] = "late"]
  /\ UNCHANGED <<wish, backstop, backnumconn, backporterror, port, bpc, got,
                 mdec, stopping>>

\* No request for 898 seconds, or stop_flag is up.
Timeout(c) ==
  /\ pc[c] \in {"fresh", "more"}
  /\ backactmaxconn' = Decreased
  /\ pc' = [pc EXCEPT ![c] = IF @ = "fresh" THEN "late" ELSE None]
  /\ UNCHANGED <<wish, backstop, backnumconn, backporterror, port, bpc, got,
                 mdec, stopping>>

\* The first read is over without data: the connection counts no longer.
LateRelease(c) ==
  /\ pc[c] = "late"
  /\ backnumconn' = backnumconn - 1
  /\ bpc' = Signalled
  /\ pc' = [pc EXCEPT ![c] = None]
  /\ UNCHANGED <<wish, backstop, backactmaxconn, backporterror, port, got,
                 mdec, stopping>>

BugFirstStop(c) ==
  /\ pc[c] = "fresh"
  /\ backstop' = TRUE
  /\ bpc' = Signalled
  /\ pc' = [pc EXCEPT ![c] = None]
  /\ UNCHANGED <<wish, counts, backporterror, port, got, mdec, stopping>>

\* "stop": the server has found that it can reach the phone directly.
FirstStop(c) ==
  /\ pc[c] = "fresh"
  /\ backstop' = TRUE
  /\ backnumconn' = backnumconn - 1
  /\ bpc' = Signalled
  /\ pc' = [pc EXCEPT ![c] = None]
  /\ UNCHANGED <<wish, backactmaxconn, backporterror, port, got, mdec, stopping>>

BugFirstRead(c, what) ==
  /\ pc[c] = "fresh"
  /\ backactmaxconn' = IF what # "closed" THEN backactmaxconn + 1 ELSE backactmaxconn
  /\ backnumconn' = backnumconn - 1
  /\ bpc' = Signalled
  /\ pc' = [pc EXCEPT ![c] = "judge"]
  /\ got' = [got EXCEPT ![c] = what]
  /\ UNCHANGED <<wish, backstop, backporterror, port, mdec, stopping>>

BugFirstReadQuiet(c, what) ==
  /\ pc[c] = "fresh"
  /\ backactmaxconn' = IF what # "closed" /\ backactmaxconn < backmaxconn
                       THEN backactmaxconn + 1 ELSE backactmaxconn
  /\ backnumconn' = backnumconn - 1
  /\ pc' = [pc EXCEPT ![c] = "judge"]
  /\ got' = [got EXCEPT ![c] = what]
  /\ UNCHANGED <<wish, backstop, backporterror, port, bpc, mdec, stopping>>

\* The first read: a busy server is given one connection more, and
\* backserver() may open another.
FirstRead(c, what) ==
  /\ pc[c] = "fresh"
  /\ backactmaxconn' = IF what # "closed" /\ backactmaxconn < backmaxconn
                       THEN backactmaxconn + 1 ELSE backactmaxconn
  /\ backnumconn' = backnumconn - 1
  /\ bpc' = Signalled
  /\ pc' = [pc EXCEPT ![c] = "judge"]
  /\ got' = [got EXCEPT ![c] = what]
  /\ UNCHANGED <<wish, backstop, backporterror, port, mdec, stopping>>

\* A later read of a request that came in parts.
ReadMore(c, what) ==
  /\ pc[c] = "more"
  /\ pc' = [pc EXCEPT ![c] = "judge"]
  /\ got' = [got EXCEPT ![c] = what]
  /\ UNCHANGED <<wish, backstop, counts, backporterror, port, bpc, mdec, stopping>>

\* After the unlock: leave if the tunnel is switched off or the read was bad,
\* go on reading, or handle the request.  backporterror is not protected: an
\* increment can be lost.
Judge(c) ==
  /\ pc[c] = "judge"
  /\ got' = [got EXCEPT ![c] = None]
  /\ \/ ~server /\ pc' = [pc EXCEPT ![c] = None] /\ UNCHANGED backporterror
     \/ /\ server /\ got[c] \in {"closed", "http"}
        /\ pc' = [pc EXCEPT ![c] = None]
        /\ backporterror' \in {backporterror, OneError}
     \/ /\ server /\ got[c] \in {"part", "whole"}
        /\ pc' = [pc EXCEPT ![c] = IF got[c] = "part" THEN "more" ELSE "handle"]
        /\ backporterror' = 0
  /\ UNCHANGED <<wish, backstop, counts, port, bpc, mdec, stopping>>

\* handle_request() or an error reply, and the end of the thread.
Handle(c) ==
  /\ pc[c] = "handle"
  /\ pc' = [pc EXCEPT ![c] = None]
  /\ UNCHANGED <<wish, backstop, counts, backporterror, port, bpc, got, mdec,
                 stopping>>
-----------------------------------------------------------------------------
(* main(), the user, and mg_stop.                                          *)

\* backdecrease() of main(), without the mutex: test, load, store.
MainTest ==
  /\ mdec = -1
  /\ ~stop_flag
  /\ backactmaxconn > 1
  /\ mdec' = 0
  /\ UNCHANGED <<wish, backstop, counts, backporterror, port, bpc, pc, got,
                 stopping>>

MainLoad ==
  /\ mdec = 0
  /\ mdec' = IF backactmaxconn = 0 THEN -1 ELSE backactmaxconn
  /\ UNCHANGED <<wish, backstop, counts, backporterror, port, bpc, pc, got,
                 stopping>>

\* The store may also fall between the load and the store of a thread.
MainStore ==
  /\ mdec > 0
  /\ backactmaxconn' \in {mdec - 1, backactmaxconn}
  /\ mdec' = -1
  /\ UNCHANGED <<wish, backstop, backnumconn, backporterror, port, bpc, pc,
                 got, stopping>>

\* The user switches the tunnel, or the address of the phone changes.
Switch(on) ==
  /\ switches < MaxSwitches
  /\ ~stop_flag
  /\ switches' = switches + 1
  /\ server' = on
  /\ changed' = TRUE
  /\ UNCHANGED <<backstop, counts, backporterror, port, bpc, pc, got, mdec,
                 stopping>>

\* mg_stop: stop_flag = 1, then a signal under backmutex.
mg_stop ==
  /\ ~stop_flag
  /\ mdec = -1
  /\ stop_flag' = TRUE
  /\ UNCHANGED <<wish, backstop, counts, backporterror, port, bpc, pc, got,
                 mdec, told, freed, gone>>

StopSignal ==
  /\ stop_flag /\ ~told
  /\ told' = TRUE
  /\ bpc' = Signalled
  /\ UNCHANGED <<wish, backstop, counts, backporterror, port, pc, got, mdec,
                 stop_flag, freed, gone>>

\* ... and free_context when the master thread has ended.
FreeContext ==
  /\ told /\ ~freed
  /\ freed' = TRUE
  /\ UNCHANGED <<wish, backstop, counts, backporterror, port, bpc, pc, got,
                 mdec, stop_flag, told, gone>>

Tunnel == \/ Round \/ SocketFails \/ ChoosePort \/ ConnectFails \/ Wakeup
          \/ \E c \in Conns : Connect(c)

Thread(c) == \/ Timeout(c) \/ LateRelease(c) \/ FirstStop(c) \/ Judge(c) \/ Handle(c)
             \/ \E what \in Reads : FirstRead(c, what) \/ ReadMore(c, what)

Next ==
  \/ Tunnel \/ SpuriousWakeup
  \/ \E c \in Conns : Thread(c)
  \/ MainTest \/ MainLoad \/ MainStore
  \/ \E on \in BOOLEAN : Switch(on)
  \/ mg_stop \/ StopSignal \/ FreeContext

Spec == Init /\ [][Next]_vars

(***************************************************************************)
(* Threads keep running; a read ends at the latest with its time-out, and  *)
(* a request that comes in parts fills its buffer in the end (SF on the    *)
(* last part).  Neither socket() nor connect() to a port of GoodPorts fails *)
(* every time.  The server need not answer, the user need not do anything. *)
(***************************************************************************)
FairSpec == /\ Spec
            /\ WF_vars(Tunnel)
            /\ SF_vars(ChoosePort) /\ SF_vars(\E c \in Conns : Connect(c))
            /\ \A c \in Conns :
                 /\ WF_vars(Thread(c))
                 /\ SF_vars(\E what \in Reads \ {"part"} : ReadMore(c, what))
            /\ WF_vars(MainLoad \/ MainStore)
            /\ WF_vars(StopSignal \/ FreeContext)
-----------------------------------------------------------------------------
(* Properties.                                                             *)

(* The state has its shape.                                                *)
TypeOK ==
  /\ server \in BOOLEAN /\ changed \in BOOLEAN /\ switches \in 0..MaxSwitches
  /\ backstop \in BOOLEAN
  /\ backnumconn \in Nat
  /\ backactmaxconn \in Nat
  /\ backporterror \in 0..(MaxErrors + 1)
  /\ port \in Ports \cup {PORT1, PORT2}
  /\ bpc \in {"top", "port", "connect", "waiting", "woken", "gone"}
  /\ pc \in [Conns -> {None, "fresh", "late", "judge", "more", "handle"}]
  /\ got \in [Conns -> Reads \cup {None}]
  /\ mdec \in Int
  /\ stop_flag \in BOOLEAN /\ told \in BOOLEAN /\ freed \in BOOLEAN /\ gone \in BOOLEAN

Idle == {c \in Conns : pc[c] \in {"fresh", "late"}}

(* backnumconn counts the connections that have not had a first answer,    *)
(* exactly: every way out of the first read - data, an end of file, a      *)
(* time-out, "stop" - gives the slot back once.                            *)
Balanced == backnumconn = Cardinality(Idle)

(* The number of connections the tunnel wants stays between 0 and          *)
(* backmaxconn.  It is 0, and not 1, at the least, because main() decreases *)
(* it without the mutex.                                                   *)
WindowBound == /\ backactmaxconn <= backmaxconn
               /\ mdec <= backmaxconn

(* The tunnel never holds more than backmaxconn idle connections, although *)
(* backserver() does not repeat its test after cond_wait - as long as the  *)
(* wait does not return by itself.                                         *)
IdleBound == ~Spurious => backnumconn <= backmaxconn

(* While backserver() sleeps there is a connection left whose first read   *)
(* will wake it: the signal is never spent before the wait, and the last   *)
(* slot is never given back silently.                                      *)
SleeperHasWaker == bpc = "waiting" => Idle # {}

(* backserver() does not sleep for ever: whatever main() does to the       *)
(* window, some connection's first read ends, and tells it.                *)
Resumes == (bpc = "waiting") ~> (bpc # "waiting")

(* With the tunnel on and wanted, and the server within reach on one of    *)
(* the two usual ports, a connection is opened in the end.                 *)
Reconnects == (bpc = "top" /\ port \in {PORT1, PORT2})
                 ~> (Idle # {} \/ ~server \/ backstop \/ stop_flag)
=============================================================================
