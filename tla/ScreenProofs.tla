---------------------------- MODULE ScreenProofs ----------------------------
(***************************************************************************)
(* Proofs about Screen, for any number of workers, any set of pictures,    *)
(* any number of stripes and any bound on the watcher's scans: no mutex is *)
(* orphaned, although update_image() unlocks an fbmutex that may be        *)
(* another thread's, and, where the frame buffer can be read, no stripe of *)
(* a screenshot taken without waiting is older than its request.           *)
(***************************************************************************)
EXTENDS Screen, TLAPS

Places == {"idle", "lock", "parked", "woken", "png", "reread", "copy", "sample",
           "unflag", "draw", "unlock", "write", "send", "dlock", "dparked",
           "dwoken"}

\* Inside update_image(), between the lock and the unlock of pngmutex, and
\* where fbmutex may be this thread's.
Inner == {"reread", "copy", "sample", "unflag", "draw", "unlock", "write"}
Reading == {"copy", "sample", "unflag", "draw", "unlock"}

\* From the end of the read of the frame buffer to the end of the handler the
\* picture of a request is in copyfb, which is only ever overwritten with what
\* the screen shows.
Drawn == {"sample", "unflag", "draw", "unlock", "write", "send"}

(* Whoever is inside update_image() holds pngmutex, so that one request    *)
(* draws at a time; row counts only while stripes are copied or drawn.     *)
Holding ==
  /\ \A v \in Workers : pc[v] \in Inner => pngmutex = v
  /\ \A v \in Workers : pc[v] \notin {"copy", "draw"} => row[v] = 0

\* Stripe i of the picture that will be written is drawn.
Ready(i) == \E v \in Workers : \/ pc[v] \in {"unlock", "write"}
                               \/ pc[v] = "draw" /\ i <= row[v]

(* What FreshPicture needs: a request that does not wait goes through      *)
(* ShotReread; its history includes what the screen shows now, the stripes *)
(* it has copied, and, once it has read the screen, whatever copyfb and    *)
(* the drawn part of pict hold, so that another request that writes the    *)
(* file meanwhile writes a picture that is recent enough for this one too. *)
FreshCopy ==
  \A w \in Workers :
    seen[w] # {} =>
      /\ screen \in seen[w]
      /\ ~wait[w]
      /\ pc[w] \in {"png", "reread", "copy"} \cup Drawn
      /\ pc[w] = "copy" => \A i \in Stripes : i <= row[w] => copyfb[i] \in seen[w]
      /\ pc[w] \in Drawn => \A i \in Stripes : /\ copyfb[i] \in seen[w]
                                               /\ Ready(i) => pict[i] \in seen[w]

Fresh == FreshCopy /\ FreshPicture

IInv == TypeOK /\ NoOrphanLock /\ Holding /\ (~Screencap => Fresh)
-----------------------------------------------------------------------------
(* The broadcasts and the stripes.                                         *)

(* pthread_cond_broadcast(&diffcond) keeps the type of the places, and     *)
(* only moves workers that wait on diffcond.                               *)
LEMMA BroadcastWakes ==
  ASSUME TypeOK
  PROVE  /\ WorkersWoken \in [Workers -> Places]
         /\ \A v \in Workers : pc[v] \notin {"parked", "dparked"}
                                => WorkersWoken[v] = pc[v]
         /\ \A v \in Workers : pc[v] \in {"parked", "dparked"}
                                => WorkersWoken[v] \in {"woken", "dwoken"}
  <1>1. \A v \in Workers : /\ pc[v] = "parked" => WorkersWoken[v] = "woken"
                           /\ pc[v] = "dparked" => WorkersWoken[v] = "dwoken"
                           /\ pc[v] \notin {"parked", "dparked"}
                                => WorkersWoken[v] = pc[v]
    BY DEF WorkersWoken
  <1>2. \A v \in Workers : pc[v] \in Places
    BY DEF TypeOK, Places
  <1>3. \A v \in Workers : WorkersWoken[v] \in Places
    BY <1>1, <1>2 DEF Places
  <1>4. DOMAIN WorkersWoken = Workers /\ WorkersWoken = [v \in Workers |-> WorkersWoken[v]]
    BY DEF WorkersWoken
  <1> QED
    BY <1>1, <1>3, <1>4

(* One more stripe, while stripes are left, is a stripe.                   *)
LEMMA NextStripe ==
  ASSUME NEW k \in 0..(Rows - 1)
  PROVE  /\ k + 1 \in Stripes
         /\ k + 1 < Rows => k + 1 \in 0..(Rows - 1)
         /\ ~(k + 1 < Rows) => \A i \in Stripes : i <= k \/ i = k + 1
         /\ \A i \in Stripes : i <= k + 1 <=> i <= k \/ i = k + 1
         /\ 0 \in 0..(Rows - 1)
         /\ \A i \in Stripes : ~(i <= 0)
  BY ScreenAssumption DEF Stripes

(* A picture with one stripe replaced is a picture.                        *)
LEMMA StripeReplaced ==
  ASSUME NEW a \in Picture, NEW k \in Stripes, NEW p \in Pics \cup {Blank}
  PROVE  /\ [a EXCEPT ![k] = p] \in Picture
         /\ [a EXCEPT ![k] = p][k] = p
         /\ \A i \in Stripes \ {k} : [a EXCEPT ![k] = p][i] = a[i]
  BY DEF Picture

(* What a thread copies is a picture, and shows what the screen shows      *)
(* where the frame buffer can be read.                                     *)
LEMMA SourceType ==
  ASSUME TypeOK, NEW t \in Threads
  PROVE  /\ Source(t) \in Pics \cup {Blank}
         /\ ~Screencap => Source(t) = screen
         /\ Grabbed(t) \in [Threads -> Pics \cup {Blank}]
  BY DEF Source, Grabbed, TypeOK
-----------------------------------------------------------------------------
(* watchscreen().                                                          *)

(* The watcher keeps the type of the state.                                *)
LEMMA WatchType ==
  ASSUME TypeOK, Watch \/ WatcherSpurious
  PROVE  TypeOK'
  <1> USE DEF TypeOK
  <1>1. CASE WatchPark \/ WatchStart \/ WatcherSpurious
    BY <1>1, ScreenAssumption
       DEF WatchPark, WatchStart, WatcherSpurious, pixels, drawing, copying,
           mutexes, counters, shots
  <1>2. CASE WatchCompare \/ WatchRelease \/ WatchAfter
    BY <1>2 DEF WatchCompare, WatchRelease, WatchAfter, pixels, drawing, copying,
                mutexes, counters, shots
  <1>3. CASE WatchLock \/ WatchFail
    <2>1. grab' \in [Threads -> Pics \cup {Blank}]
      BY <1>3, SourceType DEF WatchLock, WatchFail, Threads
    <2> QED BY <1>3, <2>1 DEF WatchLock, WatchFail, drawing, counters, shots
  <1>4. CASE WatchCopy
    <2>1. /\ wrow + 1 \in Stripes /\ wrow' \in 0..(Rows - 1)
      BY <1>4, NextStripe DEF WatchCopy
    <2>2. copyfb' \in Picture
      BY <1>4, <2>1, SourceType, StripeReplaced DEF WatchCopy, Threads
    <2>3. grab' \in [Threads -> Pics \cup {Blank}]
      BY <1>4 DEF WatchCopy
    <2> QED BY <1>4, <2>1, <2>2, <2>3 DEF WatchCopy, drawing, mutexes, counters, shots
  <1>5. CASE WatchCheck
    <2>1. l' \in 0..MaxScans
      BY <1>5, ScreenAssumption DEF WatchCheck
    <2> QED BY <1>5, <2>1 DEF WatchCheck, pixels, drawing, copying, mutexes,
                              counters, shots
  <1>6. CASE WatchTell \/ WatchGiveUp
    <2>1. diffCounter' \in 0..2
      BY <1>6 DEF WatchTell, WatchGiveUp
    <2> QED BY <1>6, <2>1, BroadcastWakes DEF WatchTell, WatchGiveUp, Places,
                                pixels, drawing, copying, mutexes, shots
  <1> QED
    BY <1>1, <1>2, <1>3, <1>4, <1>5, <1>6 DEF Watch

(* The watcher holds fbmutex from its lock to its unlock, and whoever it   *)
(* wakes holds no lock.                                                    *)
LEMMA WatchLocks ==
  ASSUME TypeOK, NoOrphanLock, Holding, Watch \/ WatcherSpurious
  PROVE  NoOrphanLock' /\ Holding'
  <1>1. \A v \in Workers : \/ pc'[v] = pc[v]
                           \/ /\ pc[v] \in {"parked", "dparked"}
                              /\ pc'[v] \in {"woken", "dwoken"}
    BY BroadcastWakes DEF Watch, WatchPark, WatchStart, WatchLock, WatchFail,
           WatchCopy, WatchCompare, WatchTell, WatchRelease, WatchCheck,
           WatchAfter, WatchGiveUp, WatcherSpurious
  <1>2. UNCHANGED <<pngmutex, diffmutex, exit_flag, row>>
    BY DEF Watch, WatchPark, WatchStart, WatchLock, WatchFail, WatchCopy,
           WatchCompare, WatchTell, WatchRelease, WatchCheck, WatchAfter,
           WatchGiveUp, WatcherSpurious, mutexes, pixels, drawing
  <1>3. \/ /\ UNCHANGED fbmutex
           /\ fbmutex = Watcher => wpc' \in {"copy", "compare", "tell", "release"}
        \/ fbmutex' = Watcher /\ wpc' = "copy"
        \/ fbmutex' = NoOne
    BY DEF Watch, WatchPark, WatchStart, WatchLock, WatchFail, WatchCopy,
           WatchCompare, WatchTell, WatchRelease, WatchCheck, WatchAfter,
           WatchGiveUp, WatcherSpurious, NoOrphanLock, mutexes
  <1>4. /\ pngmutex' # NoOne => pngmutex' \in Workers
        /\ Watcher \notin Workers /\ NoOne \notin Workers \cup {Watcher}
    BY <1>2, ScreenAssumption DEF TypeOK
  <1>5. NoOrphanLock'
    BY <1>1, <1>2, <1>3, <1>4 DEF NoOrphanLock
  <1>6. Holding'
    BY <1>1, <1>2 DEF Holding, Inner
  <1> QED
    BY <1>5, <1>6

(* The watcher overwrites copyfb with what the screen shows, which every   *)
(* request that is under way may get.                                      *)
LEMMA WatchFresh ==
  ASSUME TypeOK, ~Screencap, Fresh, Watch \/ WatcherSpurious
  PROVE  Fresh'
  <1>1. \A v \in Workers : \/ pc'[v] = pc[v]
                           \/ /\ pc[v] \in {"parked", "dparked"}
                              /\ pc'[v] \in {"woken", "dwoken"}
    BY BroadcastWakes DEF Watch, WatchPark, WatchStart, WatchLock, WatchFail,
           WatchCopy, WatchCompare, WatchTell, WatchRelease, WatchCheck,
           WatchAfter, WatchGiveUp, WatcherSpurious
  <1>2. UNCHANGED <<screen, wait, tmp, seen, pict, row>>
    BY DEF Watch, WatchPark, WatchStart, WatchLock, WatchFail, WatchCopy,
           WatchCompare, WatchTell, WatchRelease, WatchCheck, WatchAfter,
           WatchGiveUp, WatcherSpurious, pixels, drawing, shots
  <1>3. \A i \in Stripes : copyfb'[i] \in {copyfb[i], screen}
    <2>1. CASE WatchCopy
      <3>1. wrow + 1 \in Stripes /\ copyfb \in Picture
        BY NextStripe DEF TypeOK
      <3>2. copyfb' = [copyfb EXCEPT ![wrow + 1] = screen]
        BY <2>1, SourceType DEF WatchCopy, Threads
      <3> QED BY <3>1, <3>2 DEF Picture
    <2>2. CASE ~WatchCopy
      BY <2>2 DEF Watch, WatchPark, WatchStart, WatchLock, WatchFail,
           WatchCompare, WatchTell, WatchRelease, WatchCheck,
           WatchAfter, WatchGiveUp, WatcherSpurious, pixels, copying
    <2> QED BY <2>1, <2>2
  <1>4. \A v \in Workers : seen[v] # {} => pc'[v] = pc[v]
    BY <1>1 DEF Fresh, FreshCopy, Drawn
  <1>5. \A i \in Stripes : Ready(i)' => Ready(i)
    BY <1>1, <1>2 DEF Ready
  <1>6. FreshCopy'
    BY <1>2, <1>3, <1>4, <1>5 DEF Fresh, FreshCopy
  <1>7. FreshPicture'
    BY <1>2, <1>4 DEF Fresh, FreshPicture
  <1> QED
    BY <1>6, <1>7 DEF Fresh
-----------------------------------------------------------------------------
(* screenshot(), update_image() and waitdiff().                            *)

\* The steps of worker w in screenshot(), before and after update_image(),
\* and in waitdiff().
Outside(w) ==
  \/ ShotWait(w) \/ ShotWoken(w) \/ ShotNoScreen(w) \/ ShotSend(w)
  \/ DiffBegin(w) \/ DiffWait(w) \/ DiffWoken(w) \/ WorkerSpurious(w)
  \/ \E patient \in BOOLEAN : ShotBegin(w, patient)

\* The steps of update_image().
Inside(w) ==
  \/ ShotOpen(w) \/ ShotReread(w) \/ ShotCopy(w) \/ ShotFail(w)
  \/ ShotSample(w) \/ ShotUnflag(w) \/ ShotDraw(w) \/ ShotUnlock(w)
  \/ ShotWrite(w)

(* The steps of update_image() keep the type of the state.                 *)
LEMMA InsideType ==
  ASSUME TypeOK, NEW w \in Workers, Inside(w)
  PROVE  TypeOK'
  <1> USE DEF TypeOK
  <1>1. CASE ShotFail(w)
    <2>1. seen' \in [Workers -> SUBSET Pics]
      BY <1>1 DEF ShotFail
    <2>2. /\ pc' = [pc EXCEPT ![w] = "send"]
          /\ grab' = [grab EXCEPT ![w] = Blank] /\ w \in Threads
      BY <1>1 DEF ShotFail, Threads
    <2> QED BY <1>1, <2>1, <2>2 DEF ShotFail, drawing, counters
  <1>2. CASE ShotOpen(w)
    BY <1>2 DEF ShotOpen, All, Picture, pixels, drawing, copying, counters
  <1>3. CASE ShotReread(w)
    <2>1. grab' \in [Threads -> Pics \cup {Blank}]
      BY <1>3, SourceType DEF ShotReread, Threads
    <2> QED BY <1>3, <2>1 DEF ShotReread, drawing, counters, shots
  <1>4. CASE ShotCopy(w)
    <2>1. row[w] \in 0..(Rows - 1) /\ w \in Threads
      BY DEF Threads
    <2>2. row[w] + 1 \in Stripes
      BY <2>1, NextStripe
    <2>3. copyfb' \in Picture
      BY <1>4, <2>1, <2>2, SourceType, StripeReplaced DEF ShotCopy
    <2>4. row' \in [Workers -> 0..(Rows - 1)]
      BY <1>4, <2>1, NextStripe DEF ShotCopy
    <2>5. grab' \in [Threads -> Pics \cup {Blank}]
      BY <1>4 DEF ShotCopy
    <2> QED BY <1>4, <2>3, <2>4, <2>5 DEF ShotCopy, mutexes, counters, shots
  <1>5. CASE ShotSample(w) \/ ShotUnflag(w) \/ ShotUnlock(w)
    <2>1. CASE ShotSample(w)
      BY <2>1 DEF ShotSample, pixels, drawing, copying, mutexes, counters, shots
    <2>2. CASE ShotUnflag(w)
      BY <2>2 DEF ShotUnflag, pixels, drawing, copying, mutexes, counters, shots
    <2>3. CASE ShotUnlock(w)
      BY <2>3 DEF ShotUnlock, pixels, drawing, copying, mutexes, counters, shots
    <2> QED BY <1>5, <2>1, <2>2, <2>3
  <1>6. CASE ShotDraw(w)
    <2>1. row[w] \in 0..(Rows - 1)
      OBVIOUS
    <2>2. row[w] + 1 \in Stripes /\ copyfb[row[w] + 1] \in Pics \cup {Blank}
      BY <2>1, NextStripe DEF Picture
    <2>3. pict' \in Picture
      BY <1>6, <2>2, StripeReplaced DEF ShotDraw
    <2>4. row' \in [Workers -> 0..(Rows - 1)]
      BY <1>6, <2>1, NextStripe DEF ShotDraw
    <2> QED BY <1>6, <2>3, <2>4 DEF ShotDraw, copying, mutexes, counters, shots
  <1>7. CASE ShotWrite(w)
    BY <1>7 DEF ShotWrite, All, Picture, copying, counters
  <1> QED BY <1>1, <1>2, <1>3, <1>4, <1>5, <1>6, <1>7 DEF Inside

(* A worker outside update_image() keeps the type of the state.            *)
LEMMA OutsideType ==
  ASSUME TypeOK, NEW w \in Workers, Outside(w)
  PROVE  TypeOK'
  <1> USE DEF TypeOK
  <1>0. Return(w) => /\ pc' \in [Workers -> Places]
                     /\ wait' \in [Workers -> BOOLEAN]
                     /\ mine' \in [Workers -> 0..2]
                     /\ seen' \in [Workers -> SUBSET Pics]
    BY DEF Return, Places
  <1>2. CASE ShotWait(w)
    <2>1. waitCounter' \in 0..2
      BY <1>2 DEF ShotWait
    <2>2. wpc' \in {"top", "parked", "woken", "scan", "copy", "compare", "tell",
                    "release", "check", "after", "giveup", "gone"}
      BY <1>2 DEF ShotWait, WatcherWoken
    <2>3. CASE ReturnLocked(w)
      BY <1>0, <1>2, <2>1, <2>2, <2>3 DEF ShotWait, ReturnLocked, Places,
                                          pixels, drawing, copying
    <2>4. CASE ~ReturnLocked(w)
      BY <1>2, <2>1, <2>2, <2>4 DEF ShotWait, pixels, drawing, copying
    <2> QED BY <2>3, <2>4
  <1>3. CASE ShotWoken(w)
    <2>1. CASE ReturnLocked(w)
      BY <1>0, <1>3, <2>1 DEF ShotWoken, ReturnLocked, Places, pixels, drawing,
                              copying, counters
    <2>2. CASE ~ReturnLocked(w)
      BY <1>3, <2>2 DEF ShotWoken, pixels, drawing, copying, counters
    <2> QED BY <2>1, <2>2
  <1>4. CASE ShotNoScreen(w) \/ ShotSend(w) \/ DiffBegin(w) \/ DiffWait(w) \/ DiffWoken(w)
    <2>1. CASE ShotNoScreen(w)
      <3>1. seen' \in [Workers -> SUBSET Pics] /\ tmp' \in Picture
        BY <2>1 DEF ShotNoScreen, All, Picture
      <3> QED BY <2>1, <3>1 DEF ShotNoScreen, pixels, drawing, copying, mutexes, counters
    <2>2. CASE ShotSend(w)
      BY <1>0, <2>2 DEF ShotSend, Places, pixels, drawing, copying, mutexes, counters
    <2>3. CASE DiffBegin(w) \/ DiffWait(w) \/ DiffWoken(w)
      BY <2>3 DEF DiffBegin, DiffWait, DiffWoken, pixels, drawing, copying,
                  mutexes, counters, shots
    <2> QED BY <1>4, <2>1, <2>2, <2>3
  <1>5. CASE WorkerSpurious(w)
    <2>1. pc' = [pc EXCEPT ![w] = WorkersWoken[w]]
      BY <1>5 DEF WorkerSpurious
    <2> QED BY <1>5, <2>1, BroadcastWakes DEF WorkerSpurious, Places, pixels,
                                  drawing, copying, mutexes, counters, shots
  <1>6. CASE \E patient \in BOOLEAN : ShotBegin(w, patient)
    BY <1>6, ScreenAssumption DEF ShotBegin, pixels, drawing, copying, mutexes, counters
  <1> QED
    BY <1>2, <1>3, <1>4, <1>5, <1>6 DEF Outside

(* Outside update_image() a worker holds neither pngmutex nor fbmutex, and *)
(* keeps diffmutex only when it has found exit_flag set.                   *)
LEMMA OutsideLocks ==
  ASSUME TypeOK, NoOrphanLock, Holding, NEW w \in Workers, Outside(w)
  PROVE  NoOrphanLock' /\ Holding'
  <1>1. pc[w] \notin Inner /\ pc'[w] \notin Inner
    BY DEF Outside, ShotWait, ShotWoken, ShotNoScreen, ShotSend, DiffBegin,
           DiffWait, DiffWoken, WorkerSpurious, WorkersWoken, ShotBegin,
           ReturnLocked, Return, TypeOK, Inner
  <1>2. \A v \in Workers \ {w} : pc'[v] = pc[v]
    BY DEF Outside, ShotWait, ShotWoken, ShotNoScreen, ShotSend, DiffBegin,
           DiffWait, DiffWoken, WorkerSpurious, ShotBegin, ReturnLocked, Return,
           TypeOK
  <1>3. /\ UNCHANGED <<pngmutex, fbmutex, exit_flag, row>>
        /\ diffmutex' # diffmutex => exit_flag
    BY DEF Outside, ShotWait, ShotWoken, ShotNoScreen, ShotSend, DiffBegin,
           DiffWait, DiffWoken, WorkerSpurious, ShotBegin, ReturnLocked, Return,
           mutexes, pixels, drawing
  <1>4. wpc' = wpc \/ (wpc = "parked" /\ wpc' = "woken")
    BY DEF Outside, ShotWait, ShotWoken, ShotNoScreen, ShotSend, DiffBegin,
           DiffWait, DiffWoken, WorkerSpurious, ShotBegin, WatcherWoken
  <1>5. pngmutex # w /\ fbmutex # w
    BY <1>1, ScreenAssumption DEF NoOrphanLock, Inner
  <1>6. pngmutex' # NoOne => pngmutex' \in Workers \ {w}
    BY <1>3, <1>5 DEF TypeOK
  <1>7. NoOrphanLock'
    BY <1>2, <1>3, <1>4, <1>5, <1>6 DEF NoOrphanLock
  <1>8. Holding'
    BY <1>1, <1>2, <1>3 DEF Holding, Inner
  <1> QED
    BY <1>7, <1>8

(* In update_image() a worker takes pngmutex and perhaps fbmutex, and      *)
(* leaves with both of them free; an fbmutex it takes from another thread  *)
(* is free, not orphaned.                                                  *)
LEMMA InsideLocks ==
  ASSUME TypeOK, NoOrphanLock, Holding, NEW w \in Workers, Inside(w)
  PROVE  NoOrphanLock' /\ Holding'
  <1>1. NoOne \notin Workers /\ Watcher \notin Workers /\ Watcher # NoOne
    BY ScreenAssumption
  <1>2. /\ \A v \in Workers \ {w} : pc'[v] = pc[v] /\ row'[v] = row[v]
        /\ UNCHANGED <<wpc, diffmutex, exit_flag>>
    BY DEF Inside, ShotOpen, ShotReread, ShotCopy, ShotFail, ShotSample,
           ShotUnflag, ShotDraw, ShotUnlock, ShotWrite, TypeOK, mutexes, pixels,
           drawing
  <1>3. pngmutex = w \/ (pngmutex = NoOne /\ pngmutex' = w)
    BY DEF Inside, ShotOpen, ShotReread, ShotCopy, ShotFail, ShotSample,
           ShotUnflag, ShotDraw, ShotUnlock, ShotWrite, Holding, Inner
  <1>4. \/ pngmutex' = NoOne /\ pc'[w] \notin Inner
        \/ pngmutex' = w /\ pc'[w] \in Inner
    BY <1>3 DEF Inside, ShotOpen, ShotReread, ShotCopy, ShotFail, ShotSample,
           ShotUnflag, ShotDraw, ShotUnlock, ShotWrite, TypeOK, mutexes, Inner
  <1>5. \/ fbmutex' = NoOne
        \/ fbmutex' = w /\ pc'[w] \in Reading
        \/ fbmutex' = fbmutex /\ (fbmutex = w => pc'[w] \in Reading)
    BY <1>1 DEF Inside, ShotOpen, ShotReread, ShotCopy, ShotFail, ShotSample,
           ShotUnflag, ShotDraw, ShotUnlock, ShotWrite, TypeOK, NoOrphanLock,
           mutexes, Reading
  <1>6. pc'[w] \notin {"copy", "draw"} => row'[w] = 0
    BY DEF Inside, ShotOpen, ShotReread, ShotCopy, ShotFail, ShotSample,
           ShotUnflag, ShotDraw, ShotUnlock, ShotWrite, TypeOK, Holding, pixels,
           drawing
  <1>7. NoOrphanLock'
    BY <1>1, <1>2, <1>4, <1>5 DEF NoOrphanLock, Inner, Reading
  <1>8. Holding'
    BY <1>1, <1>2, <1>3, <1>4, <1>6 DEF Holding, Inner
  <1> QED
    BY <1>7, <1>8

(* Outside update_image() no picture changes but the file, which a request *)
(* that has no screen may empty.                                           *)
LEMMA OutsideFresh ==
  ASSUME TypeOK, Fresh, NEW w \in Workers, Outside(w)
  PROVE  Fresh'
  <1>1. /\ \A v \in Workers \ {w} : pc'[v] = pc[v] /\ wait'[v] = wait[v] /\ seen'[v] = seen[v]
        /\ UNCHANGED <<screen, copyfb, pict, row>> /\ tmp' \in {tmp, All(Blank)}
    BY DEF Outside, ShotWait, ShotWoken, ShotNoScreen, ShotSend, DiffBegin,
           DiffWait, DiffWoken, WorkerSpurious, ShotBegin, ReturnLocked, Return,
           TypeOK, pixels, drawing, copying, shots
  <1>2. \/ seen'[w] = {}
        \/ seen'[w] = {screen} /\ ~wait'[w] /\ pc'[w] = "png"
    <2>1. CASE \E patient \in BOOLEAN : ShotBegin(w, patient)
      BY <2>1, ScreenAssumption DEF ShotBegin, TypeOK
    <2>2. CASE ShotNoScreen(w) \/ ShotSend(w)
      BY <2>2 DEF ShotNoScreen, ShotSend, Return, TypeOK
    <2>3. CASE ShotWait(w) \/ ShotWoken(w)
      BY <2>3 DEF ShotWait, ShotWoken, ReturnLocked, Return, TypeOK, Fresh,
                  FreshCopy, Drawn
    <2>4. CASE DiffBegin(w) \/ DiffWait(w) \/ DiffWoken(w) \/ WorkerSpurious(w)
      BY <2>4 DEF DiffBegin, DiffWait, DiffWoken, WorkerSpurious, TypeOK, Fresh,
                  FreshCopy, Drawn, shots
    <2> QED BY <2>1, <2>2, <2>3, <2>4 DEF Outside
  <1>3. pc'[w] \notin {"unlock", "write", "draw"}
    BY DEF Outside, ShotWait, ShotWoken, ShotNoScreen, ShotSend, DiffBegin,
           DiffWait, DiffWoken, WorkerSpurious, WorkersWoken, ShotBegin,
           ReturnLocked, Return, TypeOK
  <1>4. \A i \in Stripes : Ready(i)' => Ready(i)
    BY <1>1, <1>3 DEF Ready
  <1>5. FreshCopy'
    BY <1>1, <1>2, <1>4 DEF Fresh, FreshCopy, Drawn
  <1>6. FreshPicture'
    BY <1>1, <1>2 DEF Fresh, FreshPicture, All
  <1> QED
    BY <1>5, <1>6 DEF Fresh

(* A request that does not wait reads the screen itself; one that waited   *)
(* draws a copy that is recent enough for those that share the file.       *)
LEMMA InsideFresh ==
  ASSUME TypeOK, NoOrphanLock, Holding, ~Screencap, Fresh,
         NEW w \in Workers, Inside(w)
  PROVE  Fresh'
  <1>1. /\ \A v \in Workers \ {w} : pc'[v] = pc[v] /\ row'[v] = row[v]
        /\ UNCHANGED <<screen, wait, seen>>
    BY DEF Inside, ShotOpen, ShotReread, ShotCopy, ShotFail, ShotSample,
           ShotUnflag, ShotDraw, ShotUnlock, ShotWrite, TypeOK, pixels, drawing,
           shots
  <1>2. \A v \in Workers \ {w} : pc[v] \notin Inner
    BY ScreenAssumption DEF Inside, ShotOpen, ShotReread, ShotCopy, ShotFail,
           ShotSample, ShotUnflag, ShotDraw, ShotUnlock, ShotWrite, Holding, Inner
  <1>3. \A i \in Stripes :
          /\ Ready(i) <=> \/ pc[w] \in {"unlock", "write"}
                          \/ pc[w] = "draw" /\ i <= row[w]
          /\ Ready(i)' <=> \/ pc'[w] \in {"unlock", "write"}
                           \/ pc'[w] = "draw" /\ i <= row'[w]
    BY <1>1, <1>2 DEF Ready, Inner
  <1>4. row[w] \in 0..(Rows - 1)
    BY DEF TypeOK
  <1>5. CASE ShotOpen(w) \/ ShotReread(w) \/ ShotSample(w) \/ ShotUnflag(w)
    <2>1. UNCHANGED <<copyfb, pict, row>> /\ tmp' \in {tmp, All(Blank)}
      BY <1>5 DEF ShotOpen, ShotReread, ShotSample, ShotUnflag, pixels, drawing,
                  copying, shots
    <2>2. /\ pc'[w] \notin {"unlock", "write", "send"}
          /\ row[w] = 0
          /\ seen[w] # {} => \/ pc'[w] \in {"reread", "copy"}
                             \/ pc[w] \in Drawn /\ pc'[w] \in Drawn \ {"send"}
      BY <1>5 DEF ShotOpen, ShotReread, ShotSample, ShotUnflag, TypeOK, Holding,
                  Drawn, Fresh, FreshCopy
    <2>3. \A i \in Stripes : ~Ready(i)' /\ ~(i <= row'[w])
      BY <1>3, <2>1, <2>2, NextStripe, <1>4
    <2>4. FreshCopy'
      BY <1>1, <2>1, <2>2, <2>3 DEF Fresh, FreshCopy, Drawn
    <2>5. FreshPicture'
      BY <1>1, <2>1, <2>2 DEF Fresh, FreshPicture, All
    <2> QED BY <2>4, <2>5 DEF Fresh
  <1>6. CASE ShotCopy(w)
    <2> DEFINE k == row[w] + 1
    <2>1. k \in Stripes /\ w \in Threads /\ pc[w] = "copy"
      BY <1>4, <1>6, NextStripe DEF ShotCopy, Threads
    <2>2. /\ copyfb' = [copyfb EXCEPT ![k] = screen]
          /\ UNCHANGED <<pict, tmp>>
      BY <1>6, <2>1, SourceType DEF ShotCopy, shots
    <2>3. /\ copyfb'[k] = screen
          /\ \A i \in Stripes \ {k} : copyfb'[i] = copyfb[i]
      BY <2>1, <2>2 DEF TypeOK, Picture
    <2>4. \/ pc'[w] = "copy" /\ row'[w] = k
          \/ pc'[w] = "sample" /\ \A i \in Stripes : i <= row[w] \/ i = k
      BY <1>4, <1>6, NextStripe DEF ShotCopy, TypeOK
    <2>5. \A i \in Stripes : i <= k <=> i <= row[w] \/ i = k
      BY <1>4, NextStripe
    <2>6. \A i \in Stripes : ~Ready(i)'
      BY <1>3, <2>4
    <2> HIDE DEF k
    <2>7. FreshCopy'
      BY <1>1, <2>1, <2>3, <2>4, <2>5, <2>6 DEF Fresh, FreshCopy, Drawn
    <2>8. FreshPicture'
      BY <1>1, <2>2, <2>4 DEF Fresh, FreshPicture
    <2> QED BY <2>7, <2>8 DEF Fresh
  <1>7. CASE ShotDraw(w)
    <2> DEFINE k == row[w] + 1
    <2>1. k \in Stripes /\ pc[w] = "draw"
      BY <1>4, <1>7, NextStripe DEF ShotDraw
    <2>2. /\ pict' = [pict EXCEPT ![k] = copyfb[k]]
          /\ UNCHANGED <<copyfb, tmp>>
      BY <1>7 DEF ShotDraw, copying, shots
    <2>3. /\ pict'[k] = copyfb[k]
          /\ \A i \in Stripes \ {k} : pict'[i] = pict[i]
      BY <2>1, <2>2 DEF TypeOK, Picture
    <2>4. \/ pc'[w] = "draw" /\ row'[w] = k
          \/ pc'[w] = "unlock" /\ \A i \in Stripes : i <= row[w] \/ i = k
      BY <1>4, <1>7, NextStripe DEF ShotDraw, TypeOK
    <2>5. \A i \in Stripes : i <= k <=> i <= row[w] \/ i = k
      BY <1>4, NextStripe
    <2>6. \A i \in Stripes : Ready(i)' => Ready(i) \/ i = k
      BY <1>3, <2>1, <2>4, <2>5
    <2> HIDE DEF k
    <2>7. FreshCopy'
      BY <1>1, <2>1, <2>2, <2>3, <2>4, <2>6 DEF Fresh, FreshCopy, Drawn
    <2>8. FreshPicture'
      BY <1>1, <2>2, <2>4 DEF Fresh, FreshPicture
    <2> QED BY <2>7, <2>8 DEF Fresh
  <1>8. CASE ShotUnlock(w)
    <2>1. UNCHANGED <<copyfb, pict, row, tmp>> /\ pc[w] = "unlock" /\ pc'[w] = "write"
      BY <1>8 DEF ShotUnlock, pixels, drawing, copying, shots, TypeOK
    <2>2. \A i \in Stripes : Ready(i)
      BY <1>3, <2>1
    <2>3. FreshCopy'
      BY <1>1, <2>1, <2>2 DEF Fresh, FreshCopy, Drawn
    <2>4. FreshPicture'
      BY <1>1, <2>1 DEF Fresh, FreshPicture
    <2> QED BY <2>3, <2>4 DEF Fresh
  <1>9. CASE ShotWrite(w)
    <2>1. /\ UNCHANGED <<copyfb, row>> /\ tmp' = pict
          /\ pc[w] = "write" /\ pc'[w] = "send"
      BY <1>9 DEF ShotWrite, copying, TypeOK
    <2>2. \A i \in Stripes : Ready(i) /\ ~Ready(i)'
      BY <1>3, <2>1
    <2>3. FreshCopy'
      BY <1>1, <2>1, <2>2 DEF Fresh, FreshCopy, Drawn
    <2>4. ASSUME NEW v \in Workers, pc'[v] = "send", seen'[v] # {}, NEW i \in Stripes
          PROVE  tmp'[i] \in seen'[v] \cup {Blank}
      <3>1. pc[v] \in Drawn /\ seen[v] # {}
        BY <1>1, <2>1, <2>4 DEF Drawn
      <3>2. pict[i] \in seen[v]
        BY <2>2, <3>1 DEF Fresh, FreshCopy
      <3> QED BY <1>1, <2>1, <3>2
    <2>5. FreshPicture'
      BY <2>4 DEF FreshPicture
    <2> QED BY <2>3, <2>5 DEF Fresh
  <1> QED
    BY <1>5, <1>6, <1>7, <1>8, <1>9 DEF Inside, ShotFail
-----------------------------------------------------------------------------
(* The screen and main().                                                  *)

(* A change of the screen is added to the history of every request that    *)
(* has one; a stop only makes exit_flag true.                              *)
LEMMA EnvironmentKeeps ==
  ASSUME IInv, ScreenChange \/ Stop \/ ExitBroadcast \/ Stopped
  PROVE  IInv'
  <1> USE DEF IInv
  <1>1. CASE ScreenChange
    <2>1. screen' \in Pics
      BY <1>1 DEF ScreenChange
    <2>2. /\ seen' \in [Workers -> SUBSET Pics]
          /\ \A v \in Workers : seen'[v] # {} => /\ seen[v] # {}
                                               /\ seen'[v] = seen[v] \cup {screen'}
      BY <1>1, <2>1 DEF ScreenChange, TypeOK
    <2>3. TypeOK'
      BY <1>1, <2>1, <2>2 DEF ScreenChange, TypeOK, drawing, copying, mutexes, counters
    <2>4. NoOrphanLock' /\ Holding'
      BY <1>1 DEF ScreenChange, NoOrphanLock, Holding, drawing, mutexes
    <2>5. \A i \in Stripes : Ready(i)' <=> Ready(i)
      BY <1>1 DEF ScreenChange, Ready, drawing
    <2>6. Fresh => Fresh'
      BY <1>1, <2>2, <2>5 DEF ScreenChange, Fresh, FreshCopy, FreshPicture, drawing, copying
    <2> QED BY <2>3, <2>4, <2>6
  <1>2. CASE Stop \/ ExitBroadcast \/ Stopped
    <2>1. TypeOK'
      BY <1>2 DEF Stop, ExitBroadcast, Stopped, WatcherWoken, TypeOK, pixels,
                  drawing, copying, mutexes, counters, shots
    <2>2. NoOrphanLock' /\ Holding'
      BY <1>2 DEF Stop, ExitBroadcast, Stopped, WatcherWoken, NoOrphanLock,
                  Holding, mutexes, pixels, drawing
    <2>3. Fresh => Fresh'
      BY <1>2 DEF Stop, ExitBroadcast, Stopped, Fresh, FreshCopy, FreshPicture,
                  Ready, pixels, drawing, copying, shots
    <2> QED BY <2>1, <2>2, <2>3
  <1> QED
    BY <1>1, <1>2
-----------------------------------------------------------------------------
(* The theorems.                                                           *)

(* Nothing is locked, waited for or shown when main() has started.         *)
LEMMA InitIInv == Init => IInv
  <1> SUFFICES ASSUME Init PROVE IInv
    OBVIOUS
  <1>1. TypeOK
    <2>1. seen \in [Workers -> SUBSET Pics]
      BY DEF Init
    <2>2. /\ wait \in [Workers -> BOOLEAN] /\ mine \in [Workers -> 0..2]
          /\ grab \in [Threads -> Pics \cup {Blank}]
      BY DEF Init
    <2>3. /\ l \in 0..MaxScans /\ wrow \in 0..(Rows - 1)
          /\ row \in [Workers -> 0..(Rows - 1)]
      BY ScreenAssumption DEF Init
    <2>4. pc \in [Workers -> Places]
      BY DEF Init, Places
    <2>5. /\ waitCounter \in 0..2 /\ diffCounter \in 0..2
          /\ pngmutex \in Workers \cup {NoOne}
          /\ fbmutex \in Workers \cup {NoOne, Watcher}
          /\ diffmutex \in Workers \cup {NoOne}
      BY DEF Init
    <2>6. /\ exit_flag \in BOOLEAN /\ picchanged \in BOOLEAN /\ screen \in Pics
          /\ \A p \in Pics \cup {Blank} : All(p) \in Picture
      BY DEF Init, All, Picture
    <2>7. /\ main \in {"run", "exit", "stopping", "done"}
          /\ wpc \in {"top", "parked", "woken", "scan", "copy", "compare", "tell",
                      "release", "check", "after", "giveup", "gone"}
          /\ copyfb \in Picture /\ lastpic \in Picture /\ pict \in Picture
          /\ tmp \in Picture
      BY <2>6 DEF Init
    <2> QED BY <2>1, <2>2, <2>3, <2>4, <2>5, <2>6, <2>7 DEF TypeOK, Places
  <1>2. NoOrphanLock /\ Holding
    BY ScreenAssumption DEF Init, NoOrphanLock, Holding, Inner
  <1>3. Fresh
    BY DEF Init, Fresh, FreshCopy, FreshPicture
  <1> QED
    BY <1>1, <1>2, <1>3 DEF IInv

(* Every step of the watcher, of a worker, of the screen and of main()     *)
(* keeps the invariant.                                                    *)
LEMMA NextIInv == IInv /\ [Next]_vars => IInv'
  <1> SUFFICES ASSUME IInv, [Next]_vars PROVE IInv'
    OBVIOUS
  <1>0. UNCHANGED Screencap
    OBVIOUS
  <1>1. CASE Watch \/ WatcherSpurious
    BY <1>1, WatchType, WatchLocks, WatchFresh DEF IInv
  <1>2. CASE \E w \in Workers : Outside(w)
    BY <1>2, OutsideType, OutsideLocks, OutsideFresh DEF IInv
  <1>3. CASE \E w \in Workers : Inside(w)
    BY <1>3, InsideType, InsideLocks, InsideFresh DEF IInv
  <1>4. CASE ScreenChange \/ Stop \/ ExitBroadcast \/ Stopped
    BY <1>4, EnvironmentKeeps
  <1>5. CASE UNCHANGED vars
    BY <1>5 DEF vars, pixels, drawing, copying, mutexes, counters, shots, IInv,
                TypeOK, NoOrphanLock, Holding, Fresh, FreshCopy, FreshPicture, Ready
  <1>6. ASSUME NEW w \in Workers, NEW kind \in Requests \cap {"shot", "wait"},
               ShotBegin(w, kind = "wait")
        PROVE  Outside(w)
    BY <1>6 DEF Outside
  <1> QED
    BY <1>1, <1>2, <1>3, <1>4, <1>5, <1>6 DEF Next, Work, Outside, Inside

(* The state of the watcher and of the requests keeps its shape; the two   *)
(* counters of waitdiff() stay below 3 and the scan counter within its     *)
(* bound.                                                                  *)
THEOREM ScreenTypeOK == Spec => []TypeOK
  <1>1. IInv => TypeOK
    BY DEF IInv
  <1> QED
    BY <1>1, InitIInv, NextIInv, PTL DEF Spec

(* pngmutex and fbmutex are only held by threads that are on their way to  *)
(* the unlock, although update_image() unlocks fbmutex whoever holds it;   *)
(* diffmutex is kept by a handler that returned only when the service      *)
(* stops.                                                                  *)
THEOREM ScreenNoOrphanLock == Spec => []NoOrphanLock
  <1>1. IInv => NoOrphanLock
    BY DEF IInv
  <1> QED
    BY <1>1, InitIInv, NextIInv, PTL DEF Spec

(* Where the frame buffer can be read, every stripe of a screenshot taken  *)
(* without waiting shows what the screen showed since the request, or      *)
(* nothing, whatever other requests and the watcher do with copyfb while   *)
(* it is drawn, and with the file after it is written.  With screencap it  *)
(* does not hold: the watcher may write the picture it took before.        *)
THEOREM ScreenFreshPicture ==
  ASSUME ~Screencap
  PROVE  Spec => []FreshPicture
  <1>1. IInv => FreshPicture
    BY DEF IInv, Fresh
  <1> QED
    BY <1>1, InitIInv, NextIInv, PTL DEF Spec
=============================================================================
