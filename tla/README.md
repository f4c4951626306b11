# Webkey: TLA+ models, checks and proofs

Webkey lets its user control an Android phone from a browser. The service
(`src/service`) is a C++ program: an embedded web server derived from Mongoose
(`mongoose.cpp`) and the handlers and background threads of `webkey.cpp`. An
Android application (`src/java`) starts and stops it, talks to it over HTTP, and
carries the pages (`src/java/assets/webkey`) it serves.

This directory models the parts of it in which threads, processes and clients
interact, checks them with TLC on small instances, and proves the main
invariants with TLAPS for every instance.

## 1. Inventory

Line numbers are those of `service/webkey.cpp` (W) and `service/mongoose.cpp` (M).

| Component | State | Operations | What is hard |
|---|---|---|---|
| Thread pool (M 4194-4494) | `stop_flag`, `num_threads`, the ring `queue`/`sq_head`/`sq_tail`, one mutex, three condition variables | accept, `produce_socket`, `consume_socket`, `worker_thread`, `master_thread`, `mg_stop` | signals sent once per socket; a full queue; stop without the mutex |
| Tunnel to the public server (M 4447-5247) | `backstop`, `backnumconn`, `backactmaxconn`, `backporterror`, the port | `backserver`, `backward_connection`, `backdecrease`, `mg_stop` | a slot given back on every way out; a window changed without its mutex; retry on another port; a context freed under it |
| Chat (W 419-433, 1966-2225, 10425-10662; `webkey.js`, `ChatUI.java`, `Ipc.java`) | the log, its id, per-user read-by numbers, `chat.txt`; what each client shows | `getchatmessage` (long poll), `writechatmessage`, `clearchatmessage`, `savechat`, `loadchat`; polls, retries | waits without a loop; lost responses; kill inside a file write; requests before `loadchat` |
| Screen (W 585-618, 2248-2988, 5876-6013) | `copyfb`, `lastpic`, `picchanged`, `tmp.png`, three mutexes, two condition variables, two counters | `watchscreen`, `screenshot`, `update_image`, `waitdiff` | an unlock of a mutex that is not held; a file shared by requests; a stop that wakes the wrong waiters |
| Recording of screenshots (W 9104-9240) | recorded files, their number | `startrecord`, `finishrecord`, the call in `update_image` | shares `pngmutex` and the counters with the screen |
| Terminal sessions (W 259-268, 1094-1103, 8841-9103, 10588-10600) | `sessions`, their pty, process, `alive`, `lastused`, mutex | `create_subprocess`, `shellinabox`, the reaper of `main`, `clear` | tests and closes without the session's mutex; descriptor numbers that are used again |
| Users and permissions (M 2181-2515; W 5593-5860, 10323-10335; `ManageUsers.java`) | `passwords.txt` and its temporary file, permission bits | `authorize`, `mg_modify_passwords_file` (from `setpassword`, `setpermission`, `config`), `getUsers` | a file rewritten through a temporary one without a lock; a kill between remove and rename |
| Request buffering (M) | the buffer of a connection | `read_request`, `pull`, `discard_current_request_from_buffer` | requests in parts, pipelined requests |
| Input injection (W 1749-1964, 3051-3278, 3987-4322; `suinput.c`) | the uinput device, pressed keys | `touch`, `key`, `clear` | press without release; device closed under a request |
| Wakelock (W 440-477) | lock and its expiry | `lock_wakelock`, `unlock_wakelock_if_needed` | several holders, one timer |
| SL4A bridge (W 9336-9600) | cached answers, a socket | `set_sl4a`, `request_sl4a`, `sl4as` | one connection shared by requests |
| Network accounting (W 9241-9335) | counters by day, `netmutex` | `save_net_usage`, `getnet` | an early return with the mutex held |
| Notifications, dynamic DNS (W 5361-5439, 6988-7051, 8685-8773) | settings, noted modification times, alarms | `setupnotify`, `check_notify`, `update_dyndns` | a database that changes between `stat` and query; the main thread waiting for a request's answer |
| Helper process and GPS (W 6195-6246, 6271-6511, 6543-6909, 9985-10066) | two pipes, `popenmutex`, the table of mimetypes, `gps_active` | the helper's loop; `load_mimetypes`, `smsxml`, `contactsxml`, `callsxml`, `exports`; `gps` | question and answer must not mix; a table tested without a lock; a helper that is gone |
| Registration and preferences (W 5507-5653, 8523-8670) | user name, random, server switch | `reg`, `getreg`, `reread` | pointers replaced under other threads |
| Files, SMS, contacts, pages (W 4500-4779, 5076-5302, 6151-8282) | none between requests | page handlers, `upload`, `run` | - |
| Start-up probing (W 1174-1964, 9829-10424) | device descriptors | `init_fb`, `init_touch`, `load_keys` | - |
| Android activities (`src/java`) | user interface | start and stop of the service | - |
| Vendored libraries | - | - | third-party code |

How they interact. `main()` starts the web server (`mg_start`), then loads the
chat, starts the watcher of the screen and the tunnel, and loops every second:
every 30 seconds it broadcasts `chatcond`, every minute it calls
`backdecrease()`, reaps terminal sessions, saves the network usage. Requests run
on the workers of the pool or on the threads of the tunnel; both call the same
handlers. `exit_flag`, set by a signal or by the `stop` page, ends the loop;
`main()` then broadcasts some of the condition variables and calls `mg_stop`,
which must not return before the threads that use the context are gone. The Java
side ends the service with `stop` and, if that does not help, with `kill -9`.

The properties that make each part correct are in section 4; the lines at which
they are at risk are the hazards of `PROJECT.json`.

## 2. Modules

| Module | Role |
|---|---|
| `Chat` | the chat, with its clients, its file and the life of the service |
| `SharedLog` | abstract specification: what the chat promises its users |
| `WorkerPool` | the thread pool |
| `SocketQueue` | abstract specification: what the ring of sockets promises |
| `Screen` | the watcher of the screen and the two kinds of requests |
| `BackServer` | the tunnel |
| `Users` | the password file, its changes, its readers, kill and restart |
| `UserList` | abstract specification: what the list of users promises |
| `Helper` | the helper process, the requests that ask it, and `check_notify` |
| `Terminal` | the terminal sessions |
| `ChatProofs`, `ChatTabProofs` (what the clients are told), `ScreenProofs`, `WorkerPoolProofs`, `BackServerProofs`, `UsersProofs`, `HelperProofs`, `TerminalProofs` | theorems |
| `MCChat`, `MCWorkerPool`, `MCScreen`, `MCBackServer`, `MCUsers`, `MCHelper`, `MCTerminal` | symmetry sets and constants for TLC |

Operators named `Bug...` are faulty variants of the definition that follows
them. They are part of no specification; replacing the definition by its variant
makes the property that watches over it fail, which is how we know that the
property is not vacuous.

`map` in `PROJECT.json` gives the source lines of every definition.

## 3. How state and actions correspond to the code

**General.** A stretch of code between the lock of a mutex and its unlock (or its
`cond_wait`) is one action; what runs without the mutex is cut wherever another
thread can see the difference. Waiting on a condition variable is a control
state (`parked`, `waiting`) which a signal turns into `woken`; spurious wake-ups
are separate actions. Early returns are separate actions or disjuncts.

**Chat.** `chat_messages` is a sequence of texts; `chat_readby` is what a user
has acknowledged, `chat_readby_real` what he has been sent, `chat_readby_count`
the version of the list he was last sent. A poll of client `c` goes through
`sent` (on its way), `entered` (past the first test of `exit_flag`), `waiting`,
`woken`, `reply` (response on the wire), `failed`, `idle`. `GetPark`, `GetReply`
and `GetResume` are the ways through `getchatmessage`. A tab sends id, number of
messages and counter and forgets its id on failure (`webkey.js`); the phone sends
its id only, and keeps it on failure (`ChatUI.java`). `Crash(TRUE)` is a kill
inside `savechat()`: `Torn` is the set of files it can leave, messages first and
the read-by numbers after them, the last message possibly cut. `Start` ends where
`mg_start` has started the workers. What `main()` does after it without
`chatmutex` is a step for each assignment, `clear()`, `push_back` and access to the
file: `SetId`, `SetCount`, `LoadClear`, `LoadClearReadby`, `LoadClearReal`,
`LoadMeasure` (`ftell`), `LoadRead` (`fread`), `LoadMessage`, `LoadCredit`,
`LoadReal`, `LoadDone`. `buff` is what has been measured or read and not yet loaded;
a file that was saved between the two accesses may be read in part, or give fewer
bytes than the buffer has, and then the rest is whatever the memory held
(`Garbage`). `EarlyRequests` says whether requests arrive meanwhile. Ids are drawn
from a counter: the real ones are seconds plus microseconds, and two that coincide
are outside the model. Numbers in a torn file are whole (a number cut after some of
its digits needs ten messages), and so are user names. That two threads in one
`std::vector` or `std::map` may do worse than run their operations in some order is
outside the model.

`SharedLog` is the chat without its polls: a log, credits, whether the service is
there, and how much of the log each tab shows. Its log and credits are those of
`chat.txt`, because that is what a kill leaves, and the service is there from the
end of `loadchat` to the end of `mg_stop` (`Up`). A tab that still shows another
id shows nothing of this log (`Seen`). Its `Kill` says what may be lost: the
message that was being written or the end of the log, and every credit with it.

**WorkerPool.** One action per critical section of `ctx->mutex`, except that a
worker that finds the queue empty tests (`ConsumeEmpty`) and goes to sleep
(`Park`) in two steps with the mutex held: `stop_flag` and the last broadcast do
not respect the mutex and can come in between. `signalled` is the set of parked
workers that have been woken. `Accept` stands for the accept and the access list.

**Screen.** A mutex is the thread that holds it, so that an unlock by somebody
else can be expressed. A picture has `Rows` stripes: reading the frame buffer
(`copy`), the watcher's copy and the drawing of `copyfb` into `pict` take a step per
stripe, so that a picture can be torn once `fbmutex` has been unlocked by a request
that did not hold it. The unlock, the writing of the file and the reading of it are
steps of their own; sampling and comparing are one step each. Opening the file
truncates it, so `tmp` may be `Blank`. `update_image()` that finds no frame buffer,
or cannot open the file, leaves the OLD file, which is then sent. `Screencap` is a
phone whose frame buffer cannot be read: the program `screencap` takes a picture
when it is run (`grab`) and pipes it later, or fails. The counters of waiting
requests and of changes are kept modulo 3, as the test uses them. `Requests` is the
set of requests that come. `seen[w]` is a history of what the screen has shown since
request `w` began, kept for the requests that neither wait nor fail.

**BackServer.** A critical section of `backmutex` is one action. `backdecrease()`
is atomic in a connection thread and takes three steps (`MainTest`, `MainLoad`,
`MainStore`) in `main()`, which does not lock; `MainStore` may also be undone by
a thread that is inside its own update. A read returns nothing, an HTTP answer
(an error), a part of a request, or a whole one. `backporterror` is counted up to
the value at which the port changes; a buffer that fills up and a malformed
request are handled like a whole one, by an error reply.

**Users.** The disk is a function from inodes to lists of lines; `passwords.txt`
and `passwords.txt.tmp` each name an inode, an open stream keeps its inode when
the name is removed or taken by another file, and an inode without name or stream
is free. Every system call of `mg_modify_passwords_file` is an action; what
`fprintf` writes stays in the buffer of the stream (`out`) until `fclose`, as a
list of a phone's users fits into one buffer. `Overwrite` is what a stream does
to an inode that another call is writing too. The results of `mg_remove` and
`mg_rename` are ignored, as in the code. `Kill` is the `kill -9` of the Java side
between any two system calls; `Restart` creates an empty file when there is none.
A reader (`ReadOpen`, `ReadMiss`) opens the file at any moment: between `mg_remove`
and `mg_rename` it finds none, and what it does then is what it does with an empty
list, except that `check_authorization` lets the request in (`missed`).
`alone`, `before`, `was`, `calm` and `orderly` are histories that the properties
speak about: `alone[e]` is that no other change has run at the same time as `e`'s,
`orderly` that none has overlapped another. What the digest check does with the
entry it finds, and which handler asks for which permission bit, is left out.
Opening the files does not fail for other reasons than a missing name.

`UserList` has a change asked for, made and placed. `Kill` takes with it the change
under way, and the whole list only while a changed one is being put in place; there
is no other step that empties the list of a user who did not ask for it, unless
changes overlap (`Disturbed`).

**Helper.** A row on the pipe is the query it answers, so that a row read by the
wrong thread shows. `Ask`, `Lock`, `Send`, `ReadRow`, `ReadEnd`, `Unlock` are the
steps that every handler takes in this order; `contactsxml` and the export of
contacts go through them twice when the table of mimetypes is empty. A request
writes to its client with `popenmutex` held: `print` (after the lock and after each
row) and `close` are the places where it waits for the client, and `ClientReads` is
its going on. `HelperDies` ends the helper at any moment; its readers then find the end
of the file. Any query may fail, which answers with the marker alone. A database is
whether it holds something unread; its modification time is `stale` (other than the
one noted) and `hot` (the current second, in which one more change would not alter
it). `failed` is a history: the last query for a source came back empty although
there was something unread. `SetupNotify` comes at any moment and without a lock, as
in the code. A row never reads like the marker (a line of a message that says
`END_OF_POPEN` would end the answer early).

**Terminal.** Time is counted in units of 30 seconds, the timeout of `select()`.
`age` is the time since `lastused`, `waited` the time a worker has spent in
`select()`. `owner` says what each descriptor number stands for: a session,
something else (`Other`), nothing (`Free`), or the terminal of a shell that did not
answer at once, which was killed and whose descriptor nothing in the program closes
(`CreateRetry`, `Leaked`); the kernel gives out the lowest free number. `Test`,
`Stamp`, `WriteKeys` and `Lock` are separate because nothing locks between them, and
so are `main()`'s test of `lastused` (`ReapTest`), its `alive = false` (`ReapMark`) and
its kill and close (`ReapClose`), and a poll's `alive = false` (`PollEnd`) and its
close (`PollClose`). A poll sends its answer with the session's mutex held and for as
long as its client takes (`send`). Histories: `overtaken`, that a session ended
between a request's test and its use; `since`, the requests that set `lastused` after
`main()` had tested it; `stalled`, the sessions for which a client was slow to take an
answer since `lastused` was last set. `PollEnd` also covers a descriptor that has been
closed or given to another file meanwhile. Assumed: two requests do not call
`push_back` at the same instant, the clock is not set, the phone is not suspended
during a wait, and writing keys does not block.

## 4. Runs

| Run | Shows |
|---|---|
| `Chat` | what a tab shows is a prefix of the log (`TabShowsPrefix`); a user is credited only with messages his tab has shown (`TabReadMeansShown`); `chat.txt` is the log between critical sections (`FileIsCurrent`); credits stay within the log (`ReadBound`) and within the file, wherever a kill tears it (`FileBound`); stored messages are lost only to a clear or a kill (`OnlyClearForgets`); all of it together is one shared log (`ImplementsSharedLog`, refinement of `SharedLog`). Under fairness an open tab catches up with the log, through clears, restarts and lost responses (`Delivered`), and a stop releases every poll (`StopFinishes`) |
| `ChatPhone` | with a tab, the phone and two writers asleep: no worker sleeps with something to tell (`NoStaleWait`), which is why `getchatmessage` can do without a loop; the read-by counter is a version number (`CountIsVersion`); a message the phone has not read is announced to it, whatever it fetches, loses or acknowledges meanwhile (`UnreadIsAnnounced`) |
| `ChatPhoneLost` | **violated**: the phone is said to have read what it never showed (`PhoneReadMeansShown`) |
| `WorkerPool` | indices (`QueueIndices`), signals (`NoStrandedSocket`, `MasterSleepsOnFull`), thread count (`ContextOutlivesThreads`); the ring implements `SocketQueue` (`ImplementsQueue`); every socket is served (`EverySocketServed`) |
| `WorkerPoolStop` | **violated**: `mg_stop` returns (`StopReturns`) |
| `Screen` | no stripe of a picture taken without waiting is older than its request (`FreshPicture`), where the frame buffer can be read, although the picture may be torn |
| `ScreenCap` | with `screencap`, `waitdiff` and a stop: no mutex is left locked by a thread that will not unlock it (`NoOrphanLock`) |
| `BackServer` | slots are given back exactly once (`Balanced`), the window stays in range (`WindowBound`), idle connections are bounded (`IdleBound`), and `backserver()` never sleeps without a connection left to wake it (`SleeperHasWaker`) |
| `BackServerLive` | `backserver()` never sleeps for ever (`Resumes`), and opens a connection if it can (`Reconnects`) |
| `Users` | changes that do not overlap change their own user as asked and no other, whatever kills and overlapping changes left before, and only a kill between `mg_remove` and `mg_rename` empties the list (`ImplementsUserList`, refinement of `UserList`); a reader that finds the file gets the list from before or from after a change, and one finds none only while a change is being placed (`ListIsStable`); at every moment of a change a whole list is on the disk (`ListOnDisk`) |
| `Helper` | everybody reads the answer to its own question (`OwnAnswer`); contacts are printed with a whole table of mimetypes or none (`NamesReady`); the alarm agrees with the database unless a change fell into the very second that was noted, or the query failed (`AlarmIsCurrent`); the main thread comes back unless a client stops reading its answer (`MainComesBack`) |
| `Terminal` | no descriptor is left over by a session that has ended, and while no request was overtaken a live session has its own (`DescriptorsAccounted`); when `main()` closes a session, whoever uses it came after the test of `lastused`, unless a client was slow to take an answer (`ReaperSpares`) |

`TypeOK`, the type invariant of each module, is checked in `Chat`, `WorkerPool`,
`ScreenCap`, `BackServer` and `Helper`; those of `Users` and `Terminal` are proved
only.

**The two violated runs** state what a comment or a page of the repository says
and show an execution of the code that contradicts it. The findings in
`PROJECT.json` quote the lines. In short: the phone acknowledges a response it
has lost; the last broadcast of the master thread can fall between a worker's
test and its wait (and a full queue can keep the master itself waiting).

Where a passing property has an exception, the exception is something the code
does, and the models do it too:

- `EarlyRequests` (the chat's properties): a request served before `loadchat` has
  returned is mixed with the loaded log. A clear between its two loops empties the log
  and has the credits of the old one loaded over it, which breaks `ReadBound`; the next
  `savechat` stores them (`FileBound`); a tab that was sent a message under the new id
  before the `clear()` of `loadchat` has it twice, or another in its place, for good
  (`Delivered`, `TabShowsPrefix`). `TabReadMeansShown`, `FileIsCurrent`, `NoStaleWait`
  and `CountIsVersion` can fail too. The window is of milliseconds at each start.
- A reader of `passwords.txt` that comes between `mg_remove` and `mg_rename` finds no
  file (`ReadMiss`), although `rename` alone would replace it; `ListIsStable` says that
  there is no other moment for it.
- A request that sets `lastused` between `main()`'s test and its close has its terminal
  closed although it was just used (`since` in `ReaperSpares`); the page says that a
  terminal is closed after 60 minutes of inactivity.
- A client that does not read its answer keeps `main()` waiting at `popenmutex`
  (`MainComesBack`), and keeps the polls behind it at a terminal until the hour is over
  (`stalled` in `ReaperSpares`).
- `check_notify` notes the modification time before it asks, and a query that fails
  leaves the alarm off until the next change (`failed` in `AlarmIsCurrent`).
- With `screencap` a picture can be older than its request: it is taken when the
  program is run, and under a stolen `fbmutex` the watcher's may be put over the
  request's (`FreshPicture` is about a readable frame buffer).

Two more behaviours at a stop are in the models without a property that denies
them: a screenshot request that waits for a change is not woken by the broadcasts
of `main()` before `mg_stop` (`ExitBroadcast` of `Screen`), and `mg_stop` frees
the context without waiting for the threads of the tunnel (`FreeContext` of
`BackServer`).

**Bounds.** Chat: two messages, two texts and four ids (starts and clears
together) for a tab; one message, three ids and two sleeping writers (with a clear
between them) for a tab and the phone. Two messages tell a skipped from a repeated
one, two texts another message in its place, and three ids are needed for a stale id
to meet a cleared and a restarted log (with two, a service that ignores the id of a
poll goes unnoticed). `EarlyRequests` is `FALSE` in the runs, for the reason above;
`ChatTypeOK` and `ChatOnlyClearForgets` are proved for both values.

Pool: two slots, two workers, six sockets, so that the ring wraps more than once,
fills up and empties. Screen: two pictures and two workers; two stripes, a readable
frame buffer and the two kinds of screenshots in `Screen`, where tearing is the
question; one stripe, `screencap`, every kind of request, the stop and a watcher that
gives up after one comparison (600 in the code) in `ScreenCap`, where the locks are.
Tunnel: four threads against the real window of three, the port changed after two
errors instead of six, one switch; the liveness run has two threads and a window of
two. Users: two names, two hashes, two permission words, any list of at most one line
at the start (`MaxLines`), two changes (`MaxEdits`) by two threads, one reader, one
kill (`MaxKills`): the second change meets what the first, overlapped or killed,
has left, and the list has up to two lines by then. Seven inodes are more than can
be in use at once. Helper: two requests and the main thread, one source of
notifications, a table of two mimetypes (so that it can be half loaded), other
answers of at most one row (`MaxRows`) and a pipe of one line (`PipeSize`), so that
the helper has to wait for its reader.

Terminal: two workers, two sessions and two descriptor numbers, so that a number
is used again while an old request still knows it, and an `IdleLimit` of two
units, which is the least that two workers leave possible. It is 120 in the code.
What `ReaperSpares` rests on is that there are no more workers than units (each
waits its 30 seconds in turn); the theorem has the same assumption
(`TerminalAssumption`). The service starts 10 pool workers (W 10384); the threads
of the tunnel serve requests too and have no fixed number, so that the assumption
there is that no more than about 110 of them wait for one terminal.

`CHECK_DEADLOCK FALSE` is set where the system may really stop: the pool, the
screen and the tunnel end with `mg_stop`, and `Users` ends when its changes and kills
are used up. The chat, the helper and the terminals are checked for deadlock.

**Fairness.** Threads keep running (weak fairness per thread); a thread that
keeps asking for a mutex gets it (strong fairness where the lock can be taken
and released by others). An open tab keeps polling, and not every response to it
is lost (`SF` on `Receive`): without that nothing can be delivered. The fairness of
`Get`, a response of the chat sent under `chatmutex`, assumes in addition clients that
read what they are sent: the send blocks and has no time limit, and one client that
stalls holds up the whole chat. Users need not write, clear, stop or restart. In the
tunnel neither `socket()` nor `connect()` to a reachable port fails every time, and a
request that comes in parts ends with the buffer full at the latest. The helper and
the threads that talk to it go on while they can, and a thread that waits for
`popenmutex` gets it in the end (`SF` on `Lock`: the mutex is free again and again
while others take it). There is no fairness for `ClientReads`, as a client may stop
reading: `MainComesBack` has it as its hypothesis that each request is outside its
sends again and again. Nothing makes a request come or a database change.

## 5. Proofs

For every value of the constants, from the `ASSUME` of each module only:

- `ChatProofs`: `Spec => []TypeOK`, with or without early requests. `ParkedPos` says
  that a worker woken in `cond_wait` has a position to go on from.
- `ChatTabProofs`: everything else about the chat. `OnlyClearForgets` is proved as it
  stands, early requests included: a poll or a writer puts into the file what it has
  in memory, and that continues the stored log once `loadchat` has returned
  (`StoredPrefix`). The others (`ReadBound`, `FileBound`, `FileIsCurrent`,
  `NoStaleWait`, `TabShowsPrefix`, `CountIsVersion`, `TabReadMeansShown` and the
  refinement `ImplementsSharedLog`) have the hypothesis `~EarlyRequests`, because a
  request served before `loadchat` can break each of them (see the bounds in section
  4); the runs that check them have it too. `ReadBound` is not inductive: `loadchat`
  fills the log from what it read from the file, and a kill writes log and numbers
  into the file, so that it goes with `FileBound` and with `Loaded`: what `loadchat`
  has loaded and what it has yet to load together are the file (`Refilled`), and once
  it is through, memory and file agree. `BoundInv` is the whole of it.
  `Held` says that a poll is in the server only while there are workers; with it
  `NoStaleWait` is inductive. The tab's properties need `Ids` (no id in a view, a poll or
  a response is later than the last one drawn, so that a fresh one is nobody's),
  `Asked` (a tab's poll asks with the id it shows and from the end of what it shows)
  and `Shows` (also what a tab will show when the response arrives is a prefix of
  the log): together `TabInv`. For `CountIsVersion`, `Versions` says that a read-by
  list under the current id, shown or on its way, is no newer than the service's and
  is the same if the counter is (`Dated`). For `TabReadMeansShown`, `Credit` is about
  the one tab of an account: what its next poll will acknowledge it has shown by
  then, or will when the response on the wire arrives, and a response that is lost
  makes it forget its id, so that the next poll acknowledges nothing. The phone
  keeps its id, which is why `PhoneReadMeansShown` fails.
  The refinement maps each step to one of `SharedLog`: a poll that arrives to
  `Credit`, an answer that a tab takes to `Show`, the end of `loadchat` to `Start`, a
  kill inside `savechat` to `Kill` (`TornFront` says what the torn file can be).
- `ScreenProofs`: `TypeOK`, `NoOrphanLock` and, where the frame buffer can be read
  (`~Screencap`), `FreshPicture`, for any number of requests, stripes and pictures.
  `NoOrphanLock` is inductive given the types and `Holding` (whoever is inside
  `update_image` holds `pngmutex`). `FreshPicture` needs `FreshCopy`: the history of a
  request holds what the screen shows now, each stripe it has read into `copyfb`,
  whoever has overwritten it since, and each stripe that has been drawn; so a torn
  picture, or one that another request has written, is recent enough for this one too.
- `WorkerPoolProofs`: `QueueIndices`, `MasterSleepsOnFull`,
  `ContextOutlivesThreads`, `NoStrandedSocket`, for any ring size and any finite
  set of workers. The first three and the types are inductive together. The thread
  count is a cardinality and uses the theorems on finite sets. `NoStrandedSocket`
  needs that a worker between its test and its wait, which holds the mutex, still
  finds the queue empty (`ParkingEmpty`). `PoolImplementsQueue` is the refinement of
  `SocketQueue`: the queue is read off the ring between the indices, and the proof
  needs that every slot between them holds a socket (`SlotsFilled`) and that a busy
  worker does (`BusyHasSocket`).
- `BackServerProofs`: `Balanced`, `WindowBound`, `IdleBound`, for any number of
  threads and any window. `IdleBound` needs that `backserver()` has room whenever
  it is about to connect (`Room`), which holds because it sleeps until a slot is
  given back; and that `mg_stop`, which also signals, does so with `stop_flag`
  set (`ToldFlag`). `SleeperHasWaker` is inductive by itself, given the types.
- `WorkerPoolProofs` and `BackServerProofs` also prove the type invariants
  (`PoolTypeOK`, `TunnelTypeOK`).
- `UsersProofs`: `TypeOK`, `ListIsStable`, `ListOnDisk` and the whole refinement
  `Spec => UserList!Spec`, for any users, lists, threads, readers and kills. The
  invariant says which streams are open where (`Shape`), that two changes at a time
  are not alone (`Exclusive`), that inodes out of use are empty (`Blank`) and that
  nobody's copy is the list itself or another reader's list (`Distinct`, `Calm`).
  `Lone` follows a change that is alone through its steps: while it copies, what it
  has written has for every user the entry that the lines read so far give
  (`Copied`), and at the end the entry the change is to make (`Made`). `EntryAppend`
  is the lemma behind both: a line added to a list decides a user's entry only if
  he had none. `Gap` says that, as long as no changes have overlapped, the file is
  missing only between the remove and the rename of one. The refinement maps the list
  to the entries of its users, takes `mg_remove` as the moment a change takes effect
  and `mg_rename` as the one it is placed, and maps a kill in between to the `Kill`
  that empties the list.
- `HelperProofs`: `TypeOK`, `OwnAnswer`, `NamesReady`, `AlarmIsCurrent`, for any
  number of requests, rows and pipe lengths. `Conversation` is the state of the two
  pipes between question and marker: asked, in work, or answered, with rows of the
  asker's query only; `Silence` that nothing is in them, and the helper waits, when
  nobody reads. `Table` adds up the mimetypes read, on the pipe and still
  to come; `Tidings` says that the alarm and the rows in the pipe together tell
  what the database holds, unless it has changed since or the query has failed.
- `TerminalProofs`: `ReaperSpares` and `DescriptorsAccounted`, for any number of
  workers that `IdleLimit` covers, any sessions and descriptors. `InTime` is the
  argument of time: the age of a session plus the number of requests that use it
  and have not had their turn in `select()` is at most the number of workers, because
  a unit of time passes only when a request at the mutex has used up its turn or a
  client is slow to take an answer (`stalled`); so the age cannot pass the limit while
  a request is left. `Looking` carries it from `main()`'s test to its close: whoever
  uses the session meanwhile has come since. `Ledger` says whose descriptor is open and
  why: the session is alive (`Owned`), or `main()` (`Closing`) or one poll
  (`PollCloses`) is about to close it.

Every safety property of the passing runs is a theorem. Only model-checked: the
liveness properties (`Delivered`, `UnreadIsAnnounced`, `StopFinishes`,
`EverySocketServed`, `Resumes`, `Reconnects`, `MainComesBack`), which are out of the
prover's reach, and the two that are violated.

## 6. Not modelled, and the plan

Not modelled: the components of section 1 without a module, memory errors, the
bytes of HTTP, the address and DNS handling of the tunnel, start-up probing, and
the vendored libraries.

Of the GPS, dynamic DNS, wakelock, input, network accounting, the SL4A bridge and
the preferences no part is modelled yet. Most of the lines under `src/` are
third-party code (sqlite, libpng, libjpeg and copies of Mongoose), which is left
out, and handlers that format pages and keep no state between requests.

Plan, in this order:

1. `Screen` with the recording of screenshots; the counters of waiting requests.
2. `Requests`: the buffer of a connection with parts and pipelining, as an
   algorithm against a reference definition over short inputs.
3. `Wakelock`, `Input`, `NetUsage`, `SL4A`, GPS: small modules, one per mutex.
4. `Service`: start and stop from Java, composed with the pool and the chat.
5. Proofs: an abstract specification of the screen's sharing of one picture and of
   the terminals' descriptors, with their refinements; which properties of
   the chat come back, and when, after a request before `loadchat`.
