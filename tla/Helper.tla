------------------------------- MODULE Helper -------------------------------
(***************************************************************************)
(* The helper process of service/webkey.cpp and those who talk to it.      *)
(* main() forks it at the start; it reads command lines from one pipe,     *)
(* runs them (sqlite3 on the phone's databases) and writes their output    *)
(* and an end marker to another.  The requests for messages, calls,        *)
(* contacts and exports ask it, and so does check_notify, which main()     *)
(* calls every 20 seconds; popenmutex covers question and answer.          *)
(*                                                                         *)
(* A row of output is modelled by the query it answers.  Rows end with a   *)
(* newline and never read like the marker.  A database is modelled by      *)
(* whether something in it is unread, and its modification time by what    *)
(* check_notify makes of it: whether it differs from the time noted last,  *)
(* and whether it is the current second, in which a further change would   *)
(* leave it as it is.  The light and the vibration are left out.           *)
(*                                                                         *)
(* What a request writes to its client goes out while it holds popenmutex, *)
(* and waits for the client: "print" and "close" are the places where it   *)
(* does.  A row of which nothing is printed at once passes "print" too.    *)
(*                                                                         *)
(* Operators named Bug... are faulty variants of the definition that       *)
(* follows them, used to see that the properties notice them.              *)
(***************************************************************************)
EXTENDS Integers, Sequences

CONSTANTS
  Threads,    \* threads that serve requests
  Main,       \* the main thread
  Plain,      \* queries of one step: smsxml, callsxml, exports of these
  Sources,    \* what check_notify looks at, in order: messages, calls
  Mime, Contacts,  \* the queries of load_mimetypes and contactsxml
  End,        \* the marker
  NoOne, NoQuery,
  MimeRows,   \* rows that the table of mimetypes has
  MaxRows,    \* bound: rows of any other answer
  PipeSize    \* bound: lines a pipe holds

Asking == Threads \cup {Main}
Watched == {Sources[i] : i \in 1..Len(Sources)}
\* The query of check_notify for a source is named after the source.
Queries == Plain \cup Watched \cup {Mime, Contacts}

ASSUME HelperAssumption ==
  /\ Main \notin Threads /\ NoOne \notin Asking
  /\ Sources \in Seq(Watched)
  /\ End \notin Queries /\ NoQuery \notin Queries
  /\ {Mime, Contacts} \cap (Plain \cup Watched) = {}
  /\ Plain \cap Watched = {}
  /\ Mime # Contacts
  /\ MimeRows \in Nat \ {0} /\ MaxRows \in Nat \ {0} /\ PipeSize \in Nat \ {0}

VARIABLES
  popenmutex,      \* the thread that holds it
  forward, back,   \* the pipes to and from the helper
  helper,          \* "wait" for a command, "run" it, "dead"
  running, left,   \* the command it runs, and the rows still to come
  tpc,             \* where each asking thread is
  query, todo,     \* its question, and the one to ask after the mimetypes
  rows,            \* mimetypes it has read
  got,             \* history: the queries whose rows it took for its answer
  mimetypes,       \* entries of the table that are filled
  src,             \* the source check_notify is at; 0: not in it
  on, alarmed,     \* notify.smson and callon, smsalarmed and callalarmed
  quiet,           \* notify.lastalarm is less than notify.interval ago
  unread,          \* the database holds something unread
  stale,           \* its modification time is not the one noted last
  hot,             \* its modification time is the current second
  hotstat,         \* history: it was when check_notify noted it
  failed           \* history: the last query for it failed with something unread

pipes == <<popenmutex, forward, back, helper, running, left>>
askers == <<tpc, query, todo, rows, got, mimetypes>>
notify == <<src, on, alarmed, quiet, stale, hotstat>>
world == <<unread, hot, failed>>
vars == <<pipes, askers, notify, world>>

AskStates == {"idle", "lock", "send", "read", "print", "close", "unlock"}
Printing == {"print", "close"}
\* The requests print as they read; check_notify and load_mimetypes do not.
Prints(t) == t # Main /\ query[t] # Mime

Init ==
  /\ popenmutex = NoOne
  /\ forward = <<>> /\ back = <<>>
  /\ helper = "wait" /\ running = NoQuery /\ left = 0
  /\ tpc = [t \in Asking |-> "idle"]
  /\ query = [t \in Asking |-> NoQuery]
  /\ todo = [t \in Asking |-> NoQuery]
  /\ rows = [t \in Asking |-> 0]
  /\ got = [t \in Asking |-> {}]
  /\ mimetypes = 0
  /\ src = 0
  /\ on \in [Watched -> BOOLEAN]
  /\ alarmed = [s \in Watched |-> FALSE]
  /\ quiet = FALSE
  /\ unread \in [Watched -> BOOLEAN]
  /\ stale = [s \in Watched |-> TRUE]
  /\ hot = [s \in Watched |-> FALSE]
  /\ hotstat = [s \in Watched |-> FALSE]
  /\ failed = [s \in Watched |-> FALSE]

-----------------------------------------------------------------------------
(* The helper process                                                      *)

\* fgets on the command pipe, and mypopen: how many rows the command has to
\* give.  The table of mimetypes is read whole.  Every command may fail, when it
\* cannot be started or the database is locked: it gives no row.
RowCounts(q) ==
  CASE q = Mime -> {0, MimeRows}
    [] q \in Watched -> IF unread[q] THEN 0..MaxRows ELSE {0}
    [] OTHER -> 0..MaxRows

HelperRead ==
  /\ helper = "wait" /\ forward # <<>>
  /\ helper' = "run"
  /\ running' = Head(forward)
  /\ forward' = Tail(forward)
  /\ left' \in RowCounts(Head(forward))
  /\ failed' = [s \in Watched |-> IF s = Head(forward) THEN unread[s] /\ left' = 0
                                  ELSE failed[s]]
  /\ UNCHANGED <<popenmutex, back, askers, notify, unread, hot>>

HelperRow ==
  /\ helper = "run" /\ left > 0
  /\ Len(back) < PipeSize
  /\ back' = Append(back, running)
  /\ left' = left - 1
  /\ UNCHANGED <<popenmutex, forward, helper, running, askers, notify, world>>

HelperEnd ==
  /\ helper = "run" /\ left = 0
  /\ Len(back) < PipeSize
  /\ back' = Append(back, End)
  /\ helper' = "wait"
  /\ running' = NoQuery
  /\ UNCHANGED <<popenmutex, forward, left, askers, notify, world>>

\* The process is lost: what it had not written never comes, the readers of
\* its pipe find the end of the file.
HelperDies ==
  /\ helper # "dead"
  /\ helper' = "dead"
  /\ running' = NoQuery
  /\ left' = 0
  /\ UNCHANGED <<popenmutex, forward, back, askers, notify, world>>

-----------------------------------------------------------------------------
(* Requests                                                                *)

Ask(t, q, next) ==
  /\ tpc[t] = "idle"
  /\ tpc' = [tpc EXCEPT ![t] = "lock"]
  /\ query' = [query EXCEPT ![t] = q]
  /\ todo' = [todo EXCEPT ![t] = next]

\* smsxml, callsxml, exports of messages and calls
RequestPlain(t) ==
  /\ \E q \in Plain : Ask(t, q, NoQuery)
  /\ UNCHANGED <<pipes, rows, got, mimetypes, notify, world>>

\* contactsxml, and an export of contacts, load the mimetypes when the table is
\* empty, which they see without a lock.
RequestContacts(t) ==
  /\ \/ mimetypes = 0 /\ Ask(t, Mime, Contacts)
     \/ mimetypes > 0 /\ Ask(t, Contacts, NoQuery)
  /\ UNCHANGED <<pipes, rows, got, mimetypes, notify, world>>

BugLock(t) ==
  /\ tpc[t] = "lock"
  /\ popenmutex' = t
  /\ tpc' = [tpc EXCEPT ![t] = "send"]
  /\ UNCHANGED <<forward, back, helper, running, left, query, todo, rows, got,
                 mimetypes, notify, world>>

Lock(t) ==
  /\ tpc[t] = "lock" /\ popenmutex = NoOne
  /\ popenmutex' = t
  /\ tpc' = [tpc EXCEPT ![t] = "send"]
  /\ UNCHANGED <<forward, back, helper, running, left, query, todo, rows, got,
                 mimetypes, notify, world>>

\* fprintf and fflush; check_notify then forgets its alarm, a request begins to
\* print.
Send(t) ==
  /\ tpc[t] = "send"
  /\ forward' = IF helper = "dead" THEN forward ELSE Append(forward, query[t])
  /\ alarmed' = IF t = Main THEN [alarmed EXCEPT ![query[t]] = FALSE] ELSE alarmed
  /\ tpc' = [tpc EXCEPT ![t] = IF Prints(t) THEN "print" ELSE "read"]
  /\ UNCHANGED <<popenmutex, back, helper, running, left, query, todo, rows, got,
                 mimetypes, src, on, quiet, stale, hotstat, world>>

Larger(a, b) == IF a > b THEN a ELSE b

BugReadRow(t) ==
  /\ tpc[t] = "read" /\ back # <<>> /\ Head(back) # End
  /\ back' = Tail(back)
  /\ got' = [got EXCEPT ![t] = @ \cup {Head(back)}]
  /\ rows' = [rows EXCEPT ![t] = IF query[t] = Mime THEN @ + 1 ELSE 0]
  /\ mimetypes' = Larger(mimetypes, rows'[t])
  /\ alarmed' = IF t = Main THEN [alarmed EXCEPT ![query[t]] = TRUE] ELSE alarmed
  /\ tpc' = [tpc EXCEPT ![t] = IF t = Main THEN "unlock" ELSE IF Prints(t) THEN "print" ELSE @]
  /\ UNCHANGED <<popenmutex, forward, helper, running, left, query, todo,
                 src, on, quiet, stale, hotstat, world>>

\* fgets returns a row: load_mimetypes fills an entry, check_notify is alarmed,
\* a request goes on to print it.
ReadRow(t) ==
  /\ tpc[t] = "read" /\ back # <<>> /\ Head(back) # End
  /\ back' = Tail(back)
  /\ got' = [got EXCEPT ![t] = @ \cup {Head(back)}]
  /\ rows' = [rows EXCEPT ![t] = IF query[t] = Mime THEN @ + 1 ELSE 0]
  /\ mimetypes' = Larger(mimetypes, rows'[t])
  /\ alarmed' = IF t = Main THEN [alarmed EXCEPT ![query[t]] = TRUE] ELSE alarmed
  /\ tpc' = IF Prints(t) THEN [tpc EXCEPT ![t] = "print"] ELSE tpc
  /\ UNCHANGED <<popenmutex, forward, helper, running, left, query, todo,
                 src, on, quiet, stale, hotstat, world>>

BugReadEnd(t) ==
  /\ tpc[t] = "read"
  /\ \/ /\ back # <<>> /\ Head(back) = End
        /\ back' = Tail(back)
     \/ /\ back = <<>> /\ helper = "dead"
        /\ UNCHANGED back
     \/ /\ query[t] = Mime /\ rows[t] = 1
        /\ UNCHANGED back
  /\ tpc' = [tpc EXCEPT ![t] = "unlock"]
  /\ UNCHANGED <<popenmutex, forward, helper, running, left, query, todo, rows,
                 got, mimetypes, notify, world>>

\* fgets returns the marker, or NULL when the helper is gone; a
\* request has the end of its page to print.
ReadEnd(t) ==
  /\ tpc[t] = "read"
  /\ \/ /\ back # <<>> /\ Head(back) = End
        /\ back' = Tail(back)
     \/ /\ back = <<>> /\ helper = "dead"
        /\ UNCHANGED back
  /\ tpc' = [tpc EXCEPT ![t] = IF Prints(t) THEN "close" ELSE "unlock"]
  /\ UNCHANGED <<popenmutex, forward, helper, running, left, query, todo, rows,
                 got, mimetypes, notify, world>>

\* mg_printf of what there is, with popenmutex held: the send blocks as long as
\* the client does not read.
ClientReads(t) ==
  /\ tpc[t] \in Printing
  /\ tpc' = [tpc EXCEPT ![t] = IF @ = "print" THEN "read" ELSE "unlock"]
  /\ UNCHANGED <<pipes, query, todo, rows, got, mimetypes, notify, world>>

BugUnlock(t) ==
  /\ tpc[t] = "unlock"
  /\ popenmutex' = NoOne
  /\ tpc' = [tpc EXCEPT ![t] = IF todo[t] = NoQuery THEN "idle" ELSE "lock"]
  /\ query' = [query EXCEPT ![t] = todo[t]]
  /\ todo' = [todo EXCEPT ![t] = NoQuery]
  /\ rows' = [rows EXCEPT ![t] = 0]
  /\ got' = [got EXCEPT ![t] = {}]
  /\ stale' = [s \in Watched |-> stale[s] /\ (t # Main \/ s # query[t])]
  /\ UNCHANGED <<forward, back, helper, running, left, mimetypes, src, on, alarmed,
                 quiet, hotstat, world>>

BugUnlockEmpty(t) ==
  /\ tpc[t] = "unlock"
  /\ popenmutex' = IF got[t] = {} THEN popenmutex ELSE NoOne
  /\ tpc' = [tpc EXCEPT ![t] = IF todo[t] = NoQuery THEN "idle" ELSE "lock"]
  /\ query' = [query EXCEPT ![t] = todo[t]]
  /\ todo' = [todo EXCEPT ![t] = NoQuery]
  /\ rows' = [rows EXCEPT ![t] = 0]
  /\ got' = [got EXCEPT ![t] = {}]
  /\ UNCHANGED <<forward, back, helper, running, left, mimetypes, notify, world>>

\* The request is over, or goes on with the query the mimetypes were for.
Unlock(t) ==
  /\ tpc[t] = "unlock"
  /\ popenmutex' = NoOne
  /\ tpc' = [tpc EXCEPT ![t] = IF todo[t] = NoQuery THEN "idle" ELSE "lock"]
  /\ query' = [query EXCEPT ![t] = todo[t]]
  /\ todo' = [todo EXCEPT ![t] = NoQuery]
  /\ rows' = [rows EXCEPT ![t] = 0]
  /\ got' = [got EXCEPT ![t] = {}]
  /\ UNCHANGED <<forward, back, helper, running, left, mimetypes, notify, world>>

-----------------------------------------------------------------------------
(* check_notify, and what changes under it                                 *)

\* main() calls it; within notify.interval of an alarm it returns at once.
CheckNotify ==
  /\ src = 0 /\ ~quiet
  /\ src' = 1
  /\ UNCHANGED <<pipes, askers, on, alarmed, quiet, stale, hotstat, world>>

\* stat(): when the time differs it is noted and the database is asked.
Stat ==
  /\ src \in 1..Len(Sources) /\ tpc[Main] = "idle"
  /\ LET s == Sources[src]
     IN \/ /\ on[s] /\ stale[s]
           /\ stale' = [stale EXCEPT ![s] = FALSE]
           /\ hotstat' = [hotstat EXCEPT ![s] = hot[s]]
           /\ Ask(Main, s, NoQuery)
        \/ /\ ~(on[s] /\ stale[s])
           /\ UNCHANGED <<stale, hotstat, tpc, query, todo>>
  /\ src' = src + 1
  /\ UNCHANGED <<pipes, rows, got, mimetypes, on, alarmed, quiet, world>>

\* The end: an alarm is given, and remembered in lastalarm.
Alarm ==
  /\ src = Len(Sources) + 1 /\ tpc[Main] = "idle"
  /\ quiet' = (quiet \/ \E s \in Watched : on[s] /\ alarmed[s])
  /\ src' = 0
  /\ UNCHANGED <<pipes, askers, on, alarmed, stale, hotstat, world>>

IntervalOver ==
  /\ quiet
  /\ quiet' = FALSE
  /\ UNCHANGED <<pipes, askers, src, on, alarmed, stale, hotstat, world>>

\* setupnotify, by a request, without a lock.  It writes field by field; as any
\* settings may be chosen, what lies between is a choice of its own.
SetupNotify ==
  /\ on' \in [Watched -> BOOLEAN]
  /\ quiet' = FALSE
  /\ UNCHANGED <<pipes, askers, src, alarmed, stale, hotstat, world>>

\* A message or a call comes in, or is looked at.
DbChange(s) ==
  /\ unread' \in {[unread EXCEPT ![s] = b] : b \in BOOLEAN}
  /\ hot' = [hot EXCEPT ![s] = TRUE]
  /\ stale' = [stale EXCEPT ![s] = @ \/ ~hot[s]]
  /\ UNCHANGED <<pipes, askers, src, on, alarmed, quiet, hotstat, failed>>

\* The next second.
Second ==
  /\ \E s \in Watched : hot[s]
  /\ hot' = [s \in Watched |-> FALSE]
  /\ UNCHANGED <<pipes, askers, notify, unread, failed>>

-----------------------------------------------------------------------------
GoOn(t) == Send(t) \/ ReadRow(t) \/ ReadEnd(t) \/ Unlock(t)

Next ==
  \/ HelperRead \/ HelperRow \/ HelperEnd \/ HelperDies
  \/ \E t \in Threads : RequestPlain(t) \/ RequestContacts(t)
  \/ \E t \in Asking : Lock(t) \/ GoOn(t) \/ ClientReads(t)
  \/ CheckNotify \/ Stat \/ Alarm \/ IntervalOver \/ SetupNotify
  \/ \E s \in Watched : DbChange(s)
  \/ Second

Spec == Init /\ [][Next]_vars

\* Threads and the helper go on while they can, and a thread that waits for
\* popenmutex gets it when it is free often enough.  Nothing makes a client
\* read, a request come, a database change or the helper die.
FairSpec ==
  /\ Spec
  /\ WF_vars(HelperRead \/ HelperRow \/ HelperEnd)
  /\ \A t \in Asking : WF_vars(GoOn(t)) /\ SF_vars(Lock(t))

-----------------------------------------------------------------------------
(* Properties                                                              *)

TypeOK ==
  /\ popenmutex \in Asking \cup {NoOne}
  /\ forward \in Seq(Queries) /\ Len(forward) <= 1
  /\ back \in Seq(Queries \cup {End}) /\ Len(back) <= PipeSize
  /\ helper \in {"wait", "run", "dead"}
  /\ running \in Queries \cup {NoQuery} /\ left \in Nat
  /\ tpc \in [Asking -> AskStates]
  /\ query \in [Asking -> Queries \cup {NoQuery}]
  /\ todo \in [Asking -> {Contacts, NoQuery}]
  /\ rows \in [Asking -> Nat] /\ got \in [Asking -> SUBSET Queries]
  /\ mimetypes \in 0..MimeRows
  /\ src \in 0..(Len(Sources) + 1)
  /\ on \in [Watched -> BOOLEAN] /\ alarmed \in [Watched -> BOOLEAN]
  /\ quiet \in BOOLEAN /\ unread \in [Watched -> BOOLEAN]
  /\ stale \in [Watched -> BOOLEAN]
  /\ hot \in [Watched -> BOOLEAN] /\ hotstat \in [Watched -> BOOLEAN]
  /\ failed \in [Watched -> BOOLEAN]

\* The rows a request prints, or an alarm is based on, are rows of its own
\* query: whoever asked before has read its answer to the marker, whether the
\* request was long or short and whatever else was waiting for the pipe.
OwnAnswer == \A t \in Asking : got[t] \subseteq {query[t]}

\* contactsxml never prints a contact with a table of mimetypes that another
\* request has half loaded: it tests the table without a lock, but waits for
\* the loader at popenmutex.
NamesReady ==
  \A t \in Threads : Contacts \in got[t] => mimetypes \in {0, MimeRows}

\* What check_notify takes for unread is what the database holds: a change
\* that comes between its stat and its query, or while it waits for the pipe,
\* is not lost.  Excepted are a database that was noted within the second of
\* its change, a query that failed, after which what is unread stays unknown
\* until the next change, as the time was noted before, and a helper that is
\* gone.
AlarmIsCurrent ==
  \A s \in Watched :
     /\ ~stale[s] /\ ~hotstat[s] /\ ~failed[s]
     /\ ~(tpc[Main] # "idle" /\ query[Main] = s)
     /\ helper # "dead"
     => alarmed[s] = unread[s]

\* The main thread, which broadcasts to the chat, reaps terminals and sees the
\* stop, comes back from check_notify unless a client stops reading the answer
\* of a request: only that can keep popenmutex, as the questions before its
\* own are answered, or given up when the helper is gone.
MainComesBack ==
  (\A t \in Threads : []<>(tpc[t] \notin Printing))
    => ((tpc[Main] # "idle") ~> (tpc[Main] = "idle"))
=============================================================================
