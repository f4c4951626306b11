------------------------------- MODULE Screen -------------------------------
(***************************************************************************)
(* Watching the screen of the phone (service/webkey.cpp): the watchscreen  *)
(* thread compares the frame buffer with the last picture taken, the       *)
(* workers in screenshot() and waitdiff() wait for it to see a change, and *)
(* update_image() takes the picture.  main() stops them all.               *)
(*                                                                         *)
(* Three mutexes (pngmutex, fbmutex, diffmutex) and two condition          *)
(* variables (diffstartcond: somebody waits for a change; diffcond: a      *)
(* change was seen) tie them together.  A mutex is the thread that holds   *)
(* it.  update_image() unlocks fbmutex whether or not it has locked it.    *)
(* Pictures are copied and drawn in stripes, so that one can be torn; they *)
(* are sampled and compared in one step, and the file is written and read  *)
(* in one, half of a file counting as none.  A phone whose frame buffer    *)
(* cannot be read runs the program screencap, which takes the picture and  *)
(* then pipes it.  The recording of screenshots (startrecord,              *)
(* finishrecord) is not part of this module.                               *)
(*                                                                         *)
(* Operators named Bug... are faulty variants of the definition that       *)
(* follows them, used to see that the properties notice them.              *)
(***************************************************************************)
EXTENDS Naturals, FiniteSets

CONSTANTS
  Workers,   \* the workers that serve screenshot and waitdiff requests
  Pics,      \* what the screen can show
  Blank,     \* no picture: copyfb before the first copy, an unfinished file
  Rows,      \* bound: the stripes of a picture
  Screencap, \* whether the phone needs screencap
  MaxScans,  \* bound: comparisons before the watcher gives up (600)
  Requests,  \* the requests that come: "shot", "wait" (a screenshot whose URL
             \* has the flag 'w'), "diff" (waitdiff) and "stop"
  NoOne, Watcher

ASSUME ScreenAssumption ==
  /\ MaxScans \in Nat
  /\ Requests \subseteq {"shot", "wait", "diff", "stop"}
  /\ Watcher \notin Workers
  /\ NoOne \notin Workers \cup {Watcher}
  /\ Blank \notin Pics
  /\ Rows \in Nat \ {0}
  /\ Screencap \in BOOLEAN

Stripes == 1..Rows
Picture == [Stripes -> Pics \cup {Blank}]
All(p) == [i \in Stripes |-> p]

VARIABLES
  exit_flag,
  main,                  \* where main() is
  screen,                \* the frame buffer
  copyfb, lastpic,       \* its last copy, and the samples of the last picture
  pict,                  \* the picture that is drawn, until it is written
  grab,                  \* per thread: what screencap took for it
  picchanged,
  pngmutex, fbmutex, diffmutex,
  waitCounter,           \* diffcondWaitCounter modulo 3
  diffCounter,           \* diffcondDiffCounter modulo 3
  wpc, l,                \* the watcher, and its scan counter
  wrow,                  \* the stripes it has copied
  pc,                    \* the workers
  row,                   \* per worker: the stripes it has copied or drawn
  wait,                  \* per worker: the 'w' of its URL
  mine,                  \* per worker that waits: myCounter modulo 3
  tmp,                   \* the picture in tmp.png or tmp.jpg
  seen                   \* history, per worker: what the screen has shown since
                         \* its request began, for a screenshot that does not
                         \* wait and has not failed

shots == <<tmp, seen>>
mutexes == <<pngmutex, fbmutex, diffmutex>>
counters == <<waitCounter, diffCounter>>
drawing == <<pict, row>>
copying == <<copyfb, grab, wrow>>
pixels == <<screen, lastpic, drawing, copying>>
vars == <<exit_flag, main, pixels, picchanged, mutexes, counters, wpc, l, pc,
          wait, mine, shots>>

Threads == Workers \cup {Watcher}

Init ==
  /\ exit_flag = FALSE
  /\ main = "run"
  /\ screen \in Pics
  /\ copyfb = All(Blank) /\ lastpic = All(Blank) /\ pict = All(Blank)
  /\ grab = [t \in Threads |-> Blank]
  /\ picchanged = TRUE
  /\ pngmutex = NoOne /\ fbmutex = NoOne /\ diffmutex = NoOne
  /\ waitCounter = 0 /\ diffCounter = 0
  /\ wpc = "top" /\ l = 0 /\ wrow = 0
  /\ pc = [w \in Workers |-> "idle"]
  /\ row = [w \in Workers |-> 0]
  /\ wait = [w \in Workers |-> FALSE]
  /\ mine = [w \in Workers |-> 0]
  /\ \E p \in Pics \cup {Blank} : tmp = All(p)  \* left by an earlier run
  /\ seen = [w \in Workers |-> {}]

\* pthread_cond_broadcast(&diffstartcond) and (&diffcond).
WatcherWoken == IF wpc = "parked" THEN "woken" ELSE wpc
WorkersWoken ==
  [w \in Workers |-> CASE pc[w] = "parked" -> "woken"
                       [] pc[w] = "dparked" -> "dwoken"
                       [] OTHER -> pc[w]]

\* Thread t reads the screen: from the frame buffer as it goes, or screencap's
\* picture of the moment it was run.
Grabbed(t) == IF Screencap THEN [grab EXCEPT ![t] = screen] ELSE grab
Source(t) == IF Screencap THEN grab[t] ELSE screen
-----------------------------------------------------------------------------
(* watchscreen().                                                          *)

\* The outer loop: wait on diffstartcond, without a predicate.
WatchPark ==
  /\ wpc = "top"
  /\ IF exit_flag THEN wpc' = "gone"
                  ELSE diffmutex = NoOne /\ wpc' = "parked"
  /\ UNCHANGED <<exit_flag, main, pixels, picchanged, mutexes, counters, l,
                 pc, wait, mine, shots>>

WatchStart ==
  /\ wpc = "woken"
  /\ diffmutex = NoOne
  /\ wpc' = "scan"
  /\ l' = 0
  /\ UNCHANGED <<exit_flag, main, pixels, picchanged, mutexes, counters, pc,
                 wait, mine, shots>>

\* The inner loop: lock fbmutex, or leave.  screencap is run.
WatchLock ==
  /\ wpc = "scan"
  /\ IF exit_flag
     THEN wpc' = "gone" /\ UNCHANGED <<fbmutex, grab>>
     ELSE /\ fbmutex = NoOne
          /\ fbmutex' = Watcher
          /\ grab' = Grabbed(Watcher)
          /\ wpc' = "copy"
  /\ UNCHANGED <<exit_flag, main, screen, copyfb, lastpic, drawing, wrow, picchanged,
                 pngmutex, diffmutex, counters, l, pc, wait, mine, shots>>

\* ioctl or screencap fails: fbmutex is unlocked and the thread tries again.
WatchFail ==
  /\ wpc = "copy" /\ wrow = 0
  /\ fbmutex' = NoOne
  /\ grab' = [grab EXCEPT ![Watcher] = Blank]
  /\ wpc' = "scan"
  /\ UNCHANGED <<exit_flag, main, screen, copyfb, lastpic, drawing, wrow, picchanged,
                 pngmutex, diffmutex, counters, l, pc, wait, mine, shots>>

\* memcpy from the frame buffer, or fread from screencap.
WatchCopy ==
  /\ wpc = "copy"
  /\ copyfb' = [copyfb EXCEPT ![wrow + 1] = Source(Watcher)]
  /\ IF wrow + 1 < Rows
     THEN /\ wrow' = wrow + 1
          /\ UNCHANGED <<grab, wpc>>
     ELSE /\ wrow' = 0
          /\ grab' = [grab EXCEPT ![Watcher] = Blank]
          /\ wpc' = "compare"
  /\ UNCHANGED <<exit_flag, main, screen, lastpic, drawing, picchanged, mutexes,
                 counters, l, pc, wait, mine, shots>>

\* The comparison with lastpic.
WatchCompare ==
  /\ wpc = "compare"
  /\ IF copyfb # lastpic THEN picchanged' = TRUE /\ wpc' = "tell"
                         ELSE UNCHANGED picchanged /\ wpc' = "release"
  /\ UNCHANGED <<exit_flag, main, pixels, mutexes, counters, l, pc, wait,
                 mine, shots>>

\* A change: diffcondDiffCounter++ and broadcast, fbmutex still held.
WatchTell ==
  /\ wpc = "tell"
  /\ diffmutex = NoOne
  /\ diffCounter' = (diffCounter + 1) % 3
  /\ pc' = WorkersWoken
  /\ wpc' = "release"
  /\ UNCHANGED <<exit_flag, main, pixels, picchanged, mutexes, waitCounter, l,
                 wait, mine, shots>>

WatchRelease ==
  /\ wpc = "release"
  /\ fbmutex' = NoOne
  /\ wpc' = "check"
  /\ UNCHANGED <<exit_flag, main, pixels, picchanged, pngmutex, diffmutex,
                 counters, l, pc, wait, mine, shots>>

BugWatchCheckUnbounded ==
  /\ wpc = "check"
  /\ IF picchanged
     THEN wpc' = "after" /\ UNCHANGED l
     ELSE wpc' = "scan" /\ l' = l + 1
  /\ UNCHANGED <<exit_flag, main, pixels, picchanged, mutexes, counters, pc,
                 wait, mine, shots>>

\* if (picchanged) break; if (l > 600) break;
WatchCheck ==
  /\ wpc = "check"
  /\ IF picchanged \/ l >= MaxScans
     THEN wpc' = "after" /\ UNCHANGED l
     ELSE wpc' = "scan" /\ l' = l + 1
  /\ UNCHANGED <<exit_flag, main, pixels, picchanged, mutexes, counters, pc,
                 wait, mine, shots>>

\* The last test: without a change, everybody is sent home all the same.
WatchAfter ==
  /\ wpc = "after"
  /\ wpc' = IF picchanged THEN "top" ELSE "giveup"
  /\ UNCHANGED <<exit_flag, main, pixels, picchanged, mutexes, counters, l,
                 pc, wait, mine, shots>>

WatchGiveUp ==
  /\ wpc = "giveup"
  /\ diffmutex = NoOne
  /\ diffCounter' = (diffCounter + 1) % 3
  /\ pc' = WorkersWoken
  /\ wpc' = "top"
  /\ UNCHANGED <<exit_flag, main, pixels, picchanged, mutexes, waitCounter, l,
                 wait, mine, shots>>
-----------------------------------------------------------------------------
(* screenshot() and update_image().                                        *)

\* The handler of worker w returns.
Return(w) ==
  /\ pc' = [pc EXCEPT ![w] = "idle"]
  /\ wait' = [wait EXCEPT ![w] = FALSE]
  /\ mine' = [mine EXCEPT ![w] = 0]
  /\ seen' = [seen EXCEPT ![w] = {}]

\* With exit_flag set screenshot() returns and keeps diffmutex.
ReturnLocked(w) == Return(w) /\ diffmutex' = w

\* A request arrives; picchanged is read without a mutex.
ShotBegin(w, patient) ==
  /\ pc[w] = "idle"
  /\ main # "done" /\ main # "stopping"
  /\ wait' = [wait EXCEPT ![w] = patient]
  /\ pc' = [pc EXCEPT ![w] = IF patient /\ ~picchanged THEN "lock" ELSE "png"]
  /\ seen' = [seen EXCEPT ![w] = IF patient THEN {} ELSE {screen}]
  /\ UNCHANGED <<exit_flag, main, pixels, picchanged, mutexes, counters, wpc,
                 l, mine, tmp>>

\* Under diffmutex: take a number, start the watcher, wait on diffcond.
ShotWait(w) ==
  /\ pc[w] = "lock"
  /\ diffmutex = NoOne
  /\ waitCounter' = (waitCounter + 1) % 3
  /\ wpc' = WatcherWoken
  /\ \/ /\ ~exit_flag
        /\ mine' = [mine EXCEPT ![w] = waitCounter']
        /\ pc' = [pc EXCEPT ![w] = "parked"]
        /\ UNCHANGED <<diffmutex, wait, seen>>
     \/ exit_flag /\ ReturnLocked(w)
  /\ UNCHANGED <<exit_flag, main, pixels, picchanged, pngmutex, fbmutex,
                 diffCounter, l, tmp>>

\* cond_wait returned: it is this request's turn, it waits again, or the
\* service stops.
ShotWoken(w) ==
  /\ pc[w] = "woken"
  /\ diffmutex = NoOne
  /\ \/ /\ ~exit_flag
        /\ IF mine[w] = diffCounter
           THEN pc' = [pc EXCEPT ![w] = "png"] /\ mine' = [mine EXCEPT ![w] = 0]
           ELSE pc' = [pc EXCEPT ![w] = "parked"] /\ UNCHANGED mine
        /\ UNCHANGED <<diffmutex, wait, seen>>
     \/ exit_flag /\ ReturnLocked(w)
  /\ UNCHANGED <<exit_flag, main, pixels, picchanged, pngmutex, fbmutex,
                 counters, wpc, l, tmp>>

BugShotOpenInverted(w) ==
  /\ pc[w] = "png"
  /\ pngmutex = NoOne
  /\ pngmutex' = w
  /\ tmp' = All(Blank)
  /\ IF wait[w] THEN pc' = [pc EXCEPT ![w] = "reread"]
                ELSE pc' = [pc EXCEPT ![w] = "sample"]
  /\ UNCHANGED <<exit_flag, main, pixels, picchanged, fbmutex, diffmutex,
                 counters, wpc, l, wait, mine, seen>>

\* update_image() returns at once.  When the frame buffer cannot be queried it
\* has emptied the file; when there is none, or the file cannot be opened, the
\* file is left with the picture of an earlier request.
ShotNoScreen(w) ==
  /\ pc[w] = "png"
  /\ pngmutex = NoOne
  /\ UNCHANGED tmp \/ (~Screencap /\ tmp' = All(Blank))
  /\ seen' = [seen EXCEPT ![w] = {}]
  /\ pc' = [pc EXCEPT ![w] = "send"]
  /\ UNCHANGED <<exit_flag, main, pixels, picchanged, mutexes, counters, wpc,
                 l, wait, mine>>

\* update_image() begins: pngmutex, the file is opened and so truncated, and
\* the screen is read unless the request waited, when the watcher's copy is
\* used.
ShotOpen(w) ==
  /\ pc[w] = "png"
  /\ pngmutex = NoOne
  /\ pngmutex' = w
  /\ tmp' = All(Blank)
  /\ IF wait[w] THEN pc' = [pc EXCEPT ![w] = "sample"]
                ELSE pc' = [pc EXCEPT ![w] = "reread"]
  /\ UNCHANGED <<exit_flag, main, pixels, picchanged, fbmutex, diffmutex,
                 counters, wpc, l, wait, mine, seen>>

ShotReread(w) ==
  /\ pc[w] = "reread"
  /\ fbmutex = NoOne
  /\ fbmutex' = w
  /\ grab' = Grabbed(w)
  /\ pc' = [pc EXCEPT ![w] = "copy"]
  /\ UNCHANGED <<exit_flag, main, screen, copyfb, wrow, lastpic, drawing, picchanged,
                 pngmutex, diffmutex, counters, wpc, l, wait, mine, shots>>

ShotCopy(w) ==
  /\ pc[w] = "copy"
  /\ copyfb' = [copyfb EXCEPT ![row[w] + 1] = Source(w)]
  /\ IF row[w] + 1 < Rows
     THEN /\ row' = [row EXCEPT ![w] = @ + 1]
          /\ UNCHANGED <<grab, pc>>
     ELSE /\ row' = [row EXCEPT ![w] = 0]
          /\ grab' = [grab EXCEPT ![w] = Blank]
          /\ pc' = [pc EXCEPT ![w] = "sample"]
  /\ UNCHANGED <<exit_flag, main, screen, pict, wrow, lastpic, picchanged, mutexes,
                 counters, wpc, l, wait, mine, shots>>

BugShotFailLocked(w) ==
  /\ pc[w] = "copy" /\ row[w] = 0 /\ Screencap
  /\ pngmutex' = NoOne
  /\ grab' = [grab EXCEPT ![w] = Blank]
  /\ seen' = [seen EXCEPT ![w] = {}]
  /\ pc' = [pc EXCEPT ![w] = "send"]
  /\ UNCHANGED <<exit_flag, main, screen, copyfb, wrow, lastpic, drawing, picchanged,
                 fbmutex, diffmutex, counters, wpc, l, wait, mine, tmp>>

\* screencap cannot be run: update_image() returns and leaves the file empty.
ShotFail(w) ==
  /\ pc[w] = "copy" /\ row[w] = 0 /\ Screencap
  /\ fbmutex' = NoOne
  /\ pngmutex' = NoOne
  /\ grab' = [grab EXCEPT ![w] = Blank]
  /\ seen' = [seen EXCEPT ![w] = {}]
  /\ pc' = [pc EXCEPT ![w] = "send"]
  /\ UNCHANGED <<exit_flag, main, screen, copyfb, wrow, lastpic, drawing, picchanged,
                 diffmutex, counters, wpc, l, wait, mine, tmp>>

\* lastpic is filled from copyfb ...
ShotSample(w) ==
  /\ pc[w] = "sample"
  /\ lastpic' = copyfb
  /\ pc' = [pc EXCEPT ![w] = "unflag"]
  /\ UNCHANGED <<exit_flag, main, screen, drawing, copying, picchanged, mutexes,
                 counters, wpc, l, wait, mine, shots>>

\* ... then picchanged = false ...
ShotUnflag(w) ==
  /\ pc[w] = "unflag"
  /\ picchanged' = FALSE
  /\ pc' = [pc EXCEPT ![w] = "draw"]
  /\ UNCHANGED <<exit_flag, main, pixels, mutexes, counters, wpc, l, wait,
                 mine, shots>>

\* ... then the picture is drawn from copyfb ...
ShotDraw(w) ==
  /\ pc[w] = "draw"
  /\ pict' = [pict EXCEPT ![row[w] + 1] = copyfb[row[w] + 1]]
  /\ IF row[w] + 1 < Rows
     THEN /\ row' = [row EXCEPT ![w] = @ + 1]
          /\ UNCHANGED pc
     ELSE /\ row' = [row EXCEPT ![w] = 0]
          /\ pc' = [pc EXCEPT ![w] = "unlock"]
  /\ UNCHANGED <<exit_flag, main, screen, lastpic, copying, picchanged, mutexes,
                 counters, wpc, l, wait, mine, shots>>

\* ... then fbmutex is unlocked, whoever holds it ...
ShotUnlock(w) ==
  /\ pc[w] = "unlock"
  /\ fbmutex' = NoOne
  /\ pc' = [pc EXCEPT ![w] = "write"]
  /\ UNCHANGED <<exit_flag, main, pixels, picchanged, pngmutex, diffmutex,
                 counters, wpc, l, wait, mine, shots>>

\* ... and the file is written, and pngmutex is unlocked.
ShotWrite(w) ==
  /\ pc[w] = "write"
  /\ tmp' = pict
  /\ pict' = All(Blank)
  /\ pngmutex' = NoOne
  /\ pc' = [pc EXCEPT ![w] = "send"]
  /\ UNCHANGED <<exit_flag, main, screen, lastpic, row, copying, picchanged, fbmutex, diffmutex,
                 counters, wpc, l, wait, mine, seen>>

\* The file is read and sent, without pngmutex; the handler's locals go.
ShotSend(w) ==
  /\ pc[w] = "send"
  /\ Return(w)
  /\ UNCHANGED <<exit_flag, main, pixels, picchanged, mutexes, counters, wpc,
                 l, tmp>>
-----------------------------------------------------------------------------
(* waitdiff(): one wait on diffcond; it does not start the watcher.        *)
DiffBegin(w) ==
  /\ pc[w] = "idle"
  /\ main # "done" /\ main # "stopping"
  /\ "diff" \in Requests /\ ~exit_flag /\ ~picchanged
  /\ pc' = [pc EXCEPT ![w] = "dlock"]
  /\ UNCHANGED <<exit_flag, main, pixels, picchanged, mutexes, counters, wpc,
                 l, wait, mine, shots>>

DiffWait(w) ==
  /\ pc[w] = "dlock"
  /\ diffmutex = NoOne
  /\ pc' = [pc EXCEPT ![w] = IF exit_flag THEN "idle" ELSE "dparked"]
  /\ UNCHANGED <<exit_flag, main, pixels, picchanged, mutexes, counters, wpc,
                 l, wait, mine, shots>>

DiffWoken(w) ==
  /\ pc[w] = "dwoken"
  /\ diffmutex = NoOne
  /\ pc' = [pc EXCEPT ![w] = "idle"]
  /\ UNCHANGED <<exit_flag, main, pixels, picchanged, mutexes, counters, wpc,
                 l, wait, mine, shots>>
-----------------------------------------------------------------------------
(* The environment and main().                                             *)

ScreenChange ==
  /\ \E p \in Pics \ {screen} : screen' = p
  /\ seen' = [w \in Workers |-> IF seen[w] = {} THEN {} ELSE seen[w] \cup {screen'}]
  /\ UNCHANGED <<exit_flag, main, lastpic, drawing, copying, picchanged, mutexes,
                 counters, wpc, l, pc, wait, mine, tmp>>

\* pthread_cond_wait may return by itself.
WatcherSpurious ==
  /\ wpc = "parked"
  /\ wpc' = "woken"
  /\ UNCHANGED <<exit_flag, main, pixels, picchanged, mutexes, counters, l,
                 pc, wait, mine, shots>>

WorkerSpurious(w) ==
  /\ pc[w] \in {"parked", "dparked"}
  /\ pc' = [pc EXCEPT ![w] = WorkersWoken[w]]
  /\ UNCHANGED <<exit_flag, main, pixels, picchanged, mutexes, counters, wpc,
                 l, wait, mine, shots>>

\* A signal, or the stop request.
Stop ==
  /\ "stop" \in Requests /\ ~exit_flag
  /\ exit_flag' = TRUE
  /\ main' = "exit"
  /\ UNCHANGED <<pixels, picchanged, mutexes, counters, wpc, l, pc, wait,
                 mine, shots>>

\* main() after its loop: diffstartcond, not diffcond, is broadcast.
ExitBroadcast ==
  /\ main = "exit"
  /\ diffmutex = NoOne
  /\ main' = "stopping"
  /\ wpc' = WatcherWoken
  /\ UNCHANGED <<exit_flag, pixels, picchanged, mutexes, counters, l, pc,
                 wait, mine, shots>>

\* mg_stop returns when no worker is in a handler.
Stopped ==
  /\ main = "stopping"
  /\ \A w \in Workers : pc[w] = "idle"
  /\ main' = "done"
  /\ UNCHANGED <<exit_flag, pixels, picchanged, mutexes, counters, wpc, l, pc,
                 wait, mine, shots>>

Watch == \/ WatchPark \/ WatchStart \/ WatchLock \/ WatchFail \/ WatchCopy
         \/ WatchCompare \/ WatchTell \/ WatchRelease \/ WatchCheck \/ WatchAfter \/ WatchGiveUp

Work(w) == \/ ShotWait(w) \/ ShotWoken(w) \/ ShotOpen(w) \/ ShotReread(w)
           \/ ShotCopy(w) \/ ShotSample(w) \/ ShotUnflag(w) \/ ShotDraw(w)
           \/ ShotUnlock(w) \/ ShotWrite(w) \/ ShotSend(w)
           \/ ShotNoScreen(w) \/ ShotFail(w)
           \/ DiffWait(w) \/ DiffWoken(w)

Next ==
  \/ Watch \/ WatcherSpurious
  \/ \E w \in Workers : \/ Work(w) \/ DiffBegin(w) \/ WorkerSpurious(w)
                        \/ \E kind \in Requests \cap {"shot", "wait"} : ShotBegin(w, kind = "wait")
  \/ ScreenChange
  \/ Stop \/ ExitBroadcast \/ Stopped

Spec == Init /\ [][Next]_vars
-----------------------------------------------------------------------------
(* Properties.                                                             *)

(* The state has its shape.                                                *)
TypeOK ==
  /\ exit_flag \in BOOLEAN
  /\ main \in {"run", "exit", "stopping", "done"}
  /\ screen \in Pics
  /\ copyfb \in Picture /\ lastpic \in Picture /\ pict \in Picture /\ tmp \in Picture
  /\ grab \in [Threads -> Pics \cup {Blank}]
  /\ picchanged \in BOOLEAN
  /\ pngmutex \in Workers \cup {NoOne}
  /\ fbmutex \in Workers \cup {NoOne, Watcher}
  /\ diffmutex \in Workers \cup {NoOne}
  /\ waitCounter \in 0..2 /\ diffCounter \in 0..2
  /\ wpc \in {"top", "parked", "woken", "scan", "copy", "compare", "tell",
              "release", "check", "after", "giveup", "gone"}
  /\ l \in 0..MaxScans /\ wrow \in 0..(Rows - 1)
  /\ pc \in [Workers -> {"idle", "lock", "parked", "woken", "png", "reread",
                         "copy", "sample", "unflag", "draw", "unlock", "write",
                         "send", "dlock", "dparked", "dwoken"}]
  /\ row \in [Workers -> 0..(Rows - 1)]
  /\ wait \in [Workers -> BOOLEAN]
  /\ mine \in [Workers -> 0..2]
  /\ seen \in [Workers -> SUBSET Pics]

(* No lock is orphaned: fbmutex and pngmutex are only ever held by a       *)
(* thread that is still on its way to the unlock - although update_image() *)
(* also unlocks an fbmutex that is not its own - and diffmutex, which      *)
(* screenshot() keeps when it finds exit_flag set, only once the service   *)
(* is stopping.                                                            *)
NoOrphanLock ==
  /\ pngmutex # NoOne => pc[pngmutex] \in {"reread", "copy", "sample", "unflag",
                                           "draw", "unlock", "write"}
  /\ fbmutex \in Workers => pc[fbmutex] \in {"copy", "sample", "unflag", "draw",
                                             "unlock"}
  /\ fbmutex = Watcher => wpc \in {"copy", "compare", "tell", "release"}
  /\ diffmutex # NoOne => exit_flag

(* A screenshot taken without waiting is fresh, where the frame buffer can *)
(* be read.  copyfb, pict and the file are shared by all requests and the  *)
(* watcher, which can copy into copyfb while it is drawn once a request    *)
(* that waited has unlocked an fbmutex it did not hold; and the file is    *)
(* read after pngmutex is released.  The client may find it emptied by     *)
(* another request that has begun to rewrite it, and a picture may be      *)
(* torn, but no stripe of one shows what the screen showed before the      *)
(* request.  A request for which update_image() gave up is promised        *)
(* nothing: it may get the picture of an earlier one.                      *)
FreshPicture ==
  \A w \in Workers : pc[w] = "send" /\ seen[w] # {}
                     => \A i \in Stripes : tmp[i] \in seen[w] \cup {Blank}
=============================================================================
