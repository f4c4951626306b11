-------------------------------- MODULE Chat --------------------------------
(***************************************************************************)
(* The chat of the Webkey service: the shared log kept by webkey.cpp       *)
(* (savechat, loadchat, getchatmessage, writechatmessage,                  *)
(* clearchatmessage), the long-poll protocol its clients speak with it     *)
(* (webkey.js and chat.html in a browser tab, ChatUI.java on the phone),   *)
(* the periodic and final broadcasts of main(), and the death and restart  *)
(* of the service, which keeps the log in chat.txt.                        *)
(*                                                                         *)
(* A step between pthread_mutex_lock(&chatmutex) and the next unlock or    *)
(* cond_wait is one action.  loadchat() and the two assignments before it  *)
(* run without the mutex, after mg_start has already started the worker    *)
(* threads: every assignment, clear(), push_back and read of the file      *)
(* there is a step of its own.                                             *)
(*                                                                         *)
(* Operators named Bug... are faulty variants of the definition that       *)
(* follows them, used to see that the properties notice them.              *)
(***************************************************************************)
EXTENDS Integers, SequencesExt

CONSTANTS
  Tabs,          \* browser tabs
  Phones,        \* DownloadMessages threads of ChatUI on the phone
  Accounts,      \* user names with PERM_CHAT
  Owner,         \* the account each tab is logged in with
  PhoneUser,     \* the name "phone", under which JAVA_CLIENT chats
  Texts,         \* what a message can say
  MaxMsgs,       \* bound: messages in the log
  MaxIds,        \* bound: starts and clears happen while lastId is below it
  MaxWriters,    \* bound: workers asleep in writechatmessage at a time
  EarlyRequests, \* whether a worker serves chat before loadchat() returns
  Garbage        \* what memory that is not initialized may hold for the parse

Clients == Tabs \cup Phones
Users == Accounts \cup {PhoneUser}

ASSUME ChatAssumption ==
  /\ Tabs \cap Phones = {}
  /\ Owner \in [Tabs -> Accounts]
  /\ PhoneUser \notin Accounts
  /\ MaxMsgs \in Nat
  /\ MaxIds \in Nat
  /\ MaxWriters \in Nat
  /\ EarlyRequests \in BOOLEAN
  /\ Garbage \subseteq [msgs : Seq(Texts), readby : [Users -> Nat]]

VARIABLES
  phase,              \* where main() is
  lastId,             \* the clock chat_random is drawn from: no value comes twice
  chat_random, chat_count, chat_messages,
  chat_readby, chat_readby_real, chat_readby_count,
  file,               \* chat.txt
  buff,               \* what loadchat() has measured or read of chat.txt and not
                      \* yet loaded: messages, read-by entries, the users
                      \* whose entry is left, and the one it is at
  stage,              \* per client: where its poll is
  req,                \* per client: the numbers in the URL of its poll
  reply,              \* per client: the response on the wire
  view,               \* per client: what it shows
  sleeping,           \* writers between push_back and the "intent" test
  alert,              \* history: a ChatReceiver broadcast since the last write
  shown               \* history: messages of this log ever shown to a user

server == <<chat_random, chat_count, chat_messages, chat_readby,
            chat_readby_real, chat_readby_count>>
clients == <<stage, req, reply, view>>
vars == <<phase, lastId, server, file, buff, clients, sleeping, alert, shown>>

UserOf(c) == IF c \in Phones THEN PhoneUser ELSE Owner[c]

Zero == [u \in Users |-> 0]
NoFile == [msgs |-> <<>>, readby |-> Zero]
NoBuff == [msgs |-> <<>>, readby |-> Zero, left |-> {}, half |-> {}]
NoReply == [count |-> 0, id |-> 0, msgs |-> <<>>, readby |-> Zero]
NoReq == [random |-> 0, pos |-> -1, countpos |-> -1]

Booting == {"boot", "idset", "counted", "emptied", "unread", "cleared",
            "measured", "read"}
Phases == {"down", "up", "exiting", "drained"} \cup Booting
Stages == {"idle", "sent", "entered", "waiting", "woken", "reply", "failed"}
InServer == {"sent", "entered", "waiting", "woken"}

\* exit_flag of webkey.cpp.
exit_flag == phase \in {"exiting", "drained"}

\* loadchat() has returned and mg_stop has not.
Up == {"up", "exiting", "drained"}

\* The worker threads run from mg_start until mg_stop has joined them.
Serving == \/ phase \in Up
           \/ EarlyRequests /\ phase \in Booting
-----------------------------------------------------------------------------
(* savechat() rewrites chat.txt from the log and chat_readby.              *)
savechat(msgs, readby) == file' = [msgs |-> msgs, readby |-> readby]

\* pthread_cond_broadcast(&chatcond).
Broadcast == [c \in Clients |-> IF stage[c] = "waiting" THEN "woken" ELSE stage[c]]

(***************************************************************************)
(* The first half of getchatmessage(): what the worker of client c         *)
(* computes after it locks chatmutex.  A poll with the current id          *)
(* acknowledges the messages the previous response carried.                *)
(***************************************************************************)
Known(c) == req[c].random = chat_random

BugAcksAnyId(c) == chat_readby[UserOf(c)] # chat_readby_real[UserOf(c)]

Acks(c) == /\ Known(c)
           /\ chat_readby[UserOf(c)] # chat_readby_real[UserOf(c)]

ReadbyAfter(c) ==
  IF Acks(c) THEN [chat_readby EXCEPT ![UserOf(c)] = chat_readby_real[UserOf(c)]]
             ELSE chat_readby

BugCountAfterSame(c) == chat_count

CountAfter(c) == IF Acks(c) THEN chat_count + 1 ELSE chat_count

Pos(c) == IF req[c].pos # -1 THEN req[c].pos
          ELSE IF Known(c) THEN chat_readby_real[UserOf(c)] ELSE 0

CountPos(c) == IF req[c].countpos # -1 THEN req[c].countpos
               ELSE chat_readby_count[UserOf(c)]

\* Nothing new for this client: the worker waits on chatcond, once.
NothingNew(c) == /\ Len(chat_messages) = Pos(c)
                 /\ Known(c)
                 /\ CountAfter(c) = CountPos(c)

\* A client that knows another log is sent this one from its beginning.
BugFromAnyId(c, pos) == pos

From(c, pos) == IF Known(c) THEN pos ELSE 0

(***************************************************************************)
(* The second half: the response, and the bookkeeping that follows it.     *)
(* The phone is not told about itself.                                     *)
(***************************************************************************)
Respond(c, pos, count, readby) ==
  LET u == UserOf(c)
      from == From(c, pos)
      size == Len(chat_messages)
  IN /\ reply' = [reply EXCEPT ![c] =
            [count  |-> count,
             id     |-> chat_random,
             msgs   |-> SubSeq(chat_messages, from + 1, size),
             readby |-> [v \in Users |->
                           IF u = PhoneUser /\ v = u THEN 0 ELSE readby[v]]]]
     /\ req' = [req EXCEPT ![c] = NoReq]
     /\ chat_readby_real' = IF from < size
                            THEN [chat_readby_real EXCEPT ![u] = size]
                            ELSE chat_readby_real
     /\ chat_readby_count' = [chat_readby_count EXCEPT ![u] = count]

BugAcknowledgeUnsaved(c) ==
  /\ chat_count' = CountAfter(c)
  /\ chat_readby' = ReadbyAfter(c)
  /\ UNCHANGED file

\* The acknowledgement part of a poll: chat_readby, chat_count, the
\* broadcast to everybody else, and savechat().
Acknowledge(c) ==
  /\ chat_count' = CountAfter(c)
  /\ chat_readby' = ReadbyAfter(c)
  /\ IF Acks(c) THEN savechat(chat_messages, ReadbyAfter(c)) ELSE UNCHANGED file

AfterAck(c) == IF Acks(c) THEN Broadcast ELSE stage

\* getchatmessage() with nothing to say: the worker parks in cond_wait.  The
\* positions it computed stay on its stack.
GetPark(c) ==
  /\ stage[c] = "sent"
  /\ Serving /\ ~exit_flag
  /\ NothingNew(c)
  /\ Acknowledge(c)
  /\ stage' = [AfterAck(c) EXCEPT ![c] = "waiting"]
  /\ req' = [req EXCEPT ![c] = [@ EXCEPT !.pos = Pos(c), !.countpos = CountPos(c)]]
  /\ UNCHANGED <<phase, lastId, chat_random, chat_messages, chat_readby_real,
                 chat_readby_count, buff, reply, view, sleeping, alert, shown>>

\* getchatmessage() that answers at once: there is something new, or
\* exit_flag was set after the handler had tested it.
GetReply(c) ==
  /\ \/ stage[c] = "sent" /\ Serving /\ ~exit_flag /\ ~NothingNew(c)
     \/ stage[c] = "entered"
  /\ Acknowledge(c)
  /\ Respond(c, Pos(c), CountAfter(c), ReadbyAfter(c))
  /\ stage' = [AfterAck(c) EXCEPT ![c] = "reply"]
  /\ UNCHANGED <<phase, lastId, chat_random, chat_messages, buff, view,
                 sleeping, alert, shown>>

\* getchatmessage() after cond_wait returned: no test is repeated.
GetResume(c) ==
  /\ stage[c] = "woken"
  /\ Respond(c, req[c].pos, chat_count, chat_readby)
  /\ stage' = [stage EXCEPT ![c] = "reply"]
  /\ UNCHANGED <<phase, lastId, chat_random, chat_count, chat_messages,
                 chat_readby, file, buff, view, sleeping, alert, shown>>

\* getchatmessage() once exit_flag is set: the connection closes unanswered.
GetExit(c) ==
  /\ stage[c] = "sent"
  /\ exit_flag
  /\ stage' = [stage EXCEPT ![c] = "failed"]
  /\ req' = [req EXCEPT ![c] = NoReq]
  /\ UNCHANGED <<phase, lastId, server, file, buff, reply, view,
                 sleeping, alert, shown>>

\* pthread_cond_wait may return without a broadcast.
SpuriousWakeup(c) ==
  /\ stage[c] = "waiting"
  /\ stage' = [stage EXCEPT ![c] = "woken"]
  /\ UNCHANGED <<phase, lastId, server, file, buff, req, reply, view,
                 sleeping, alert, shown>>

BugWriteQuietly(m) ==
  /\ Serving
  /\ Len(chat_messages) < MaxMsgs
  /\ sleeping < MaxWriters
  /\ chat_messages' = Append(chat_messages, m)
  /\ savechat(chat_messages', chat_readby)
  /\ sleeping' = sleeping + 1
  /\ alert' = FALSE
  /\ UNCHANGED <<phase, lastId, chat_random, chat_count, chat_readby,
                 chat_readby_real, chat_readby_count, buff, clients, shown>>

\* writechatmessage(), up to the unlock before it sleeps for 1.5 seconds.
Write(m) ==
  /\ Serving
  /\ Len(chat_messages) < MaxMsgs
  /\ sleeping < MaxWriters
  /\ chat_messages' = Append(chat_messages, m)
  /\ savechat(chat_messages', chat_readby)
  /\ stage' = Broadcast
  /\ sleeping' = sleeping + 1
  /\ alert' = FALSE
  /\ UNCHANGED <<phase, lastId, chat_random, chat_count, chat_readby,
                 chat_readby_real, chat_readby_count, buff, req, reply, view,
                 shown>>

BugWriteIntentTwice ==
  /\ sleeping' = sleeping - 1
  /\ alert' = (alert \/ Len(chat_messages) # chat_readby[PhoneUser])
  /\ UNCHANGED <<phase, lastId, server, file, buff, clients, shown>>

BugWriteIntentLess ==
  /\ sleeping > 0
  /\ sleeping' = sleeping - 1
  /\ alert' = (alert \/ Len(chat_messages) < chat_readby[PhoneUser])
  /\ UNCHANGED <<phase, lastId, server, file, buff, clients, shown>>

\* writechatmessage(), after the sleep: tell the phone what it has not read.
WriteIntent ==
  /\ sleeping > 0
  /\ sleeping' = sleeping - 1
  /\ alert' = (alert \/ Len(chat_messages) # chat_readby[PhoneUser])
  /\ UNCHANGED <<phase, lastId, server, file, buff, clients, shown>>

BugClearKeepsReal ==
  /\ Serving
  /\ lastId < MaxIds
  /\ lastId' = lastId + 1
  /\ chat_random' = lastId + 1
  /\ chat_count' = 1
  /\ chat_messages' = <<>>
  /\ chat_readby' = Zero
  /\ chat_readby_count' = Zero
  /\ savechat(<<>>, Zero)
  /\ stage' = Broadcast
  /\ shown' = Zero
  /\ UNCHANGED <<phase, chat_readby_real, buff, req, reply, view, sleeping, alert>>

\* clearchatmessage(): the log starts over under a new id.
Clear ==
  /\ Serving
  /\ lastId < MaxIds
  /\ lastId' = lastId + 1
  /\ chat_random' = lastId + 1
  /\ chat_count' = 1
  /\ chat_messages' = <<>>
  /\ chat_readby' = Zero
  /\ chat_readby_real' = Zero
  /\ chat_readby_count' = Zero
  /\ savechat(<<>>, Zero)
  /\ stage' = Broadcast
  /\ shown' = Zero
  /\ UNCHANGED <<phase, buff, req, reply, view, sleeping, alert>>
-----------------------------------------------------------------------------
(* main(): the start, the periodic wake-up, the stop.                      *)

\* The process is gone: the next one starts with its statics zero.
Wiped ==
  /\ phase' = "down"
  /\ chat_random' = 0
  /\ chat_count' = 0
  /\ chat_messages' = <<>>
  /\ chat_readby' = Zero
  /\ chat_readby_real' = Zero
  /\ chat_readby_count' = Zero
  /\ buff' = NoBuff
  /\ sleeping' = 0

\* A new process, up to the return of mg_start: the workers are running.
Start ==
  /\ phase = "down"
  /\ lastId < MaxIds
  /\ lastId' = lastId + 1
  /\ phase' = "boot"
  /\ UNCHANGED <<server, file, buff, clients, sleeping, alert, shown>>

\* chat_random = time + usec ...
SetId ==
  /\ phase = "boot"
  /\ phase' = "idset"
  /\ lastId' = lastId + 1
  /\ chat_random' = lastId + 1
  /\ UNCHANGED <<chat_count, chat_messages, chat_readby, chat_readby_real,
                 chat_readby_count, file, buff, clients, sleeping, alert, shown>>

\* ... and chat_count = 1.
SetCount ==
  /\ phase = "idset"
  /\ phase' = "counted"
  /\ chat_count' = 1
  /\ UNCHANGED <<lastId, chat_random, chat_messages, chat_readby, chat_readby_real,
                 chat_readby_count, file, buff, clients, sleeping, alert, shown>>

\* loadchat(), without chatmutex: chat_messages.clear() ...
LoadClear ==
  /\ phase = "counted"
  /\ phase' = "emptied"
  /\ chat_messages' = <<>>
  /\ UNCHANGED <<chat_readby, chat_readby_real, buff>>

\* ... chat_readby.clear() ...
LoadClearReadby ==
  /\ phase = "emptied"
  /\ phase' = "unread"
  /\ chat_readby' = Zero
  /\ UNCHANGED <<chat_messages, chat_readby_real, buff>>

\* ... chat_readby_real.clear(); chat_readby_count is not cleared ...
LoadClearReal ==
  /\ phase = "unread"
  /\ phase' = "cleared"
  /\ chat_readby_real' = Zero
  /\ UNCHANGED <<chat_messages, chat_readby, buff>>

\* ... ftell at the end of chat.txt ...
LoadMeasure ==
  /\ phase = "cleared"
  /\ phase' = "measured"
  /\ buff' = [msgs |-> file.msgs, readby |-> file.readby, left |-> {}, half |-> {}]
  /\ UNCHANGED <<chat_messages, chat_readby, chat_readby_real>>

BugLoadReadAtEnd ==
  /\ phase = "measured"
  /\ phase' = "read"
  /\ buff' = NoBuff
  /\ UNCHANGED <<chat_messages, chat_readby, chat_readby_real>>

BugTornReadbyFirst(msgs, readby) ==
  {[msgs |-> SubSeq(msgs, 1, n), readby |-> readby] : n \in 0..Len(msgs)}

\* What savechat() has written of chat.txt before it is through: the file is
\* truncated by fopen and filled front to back.  A message that was cut is
\* loaded as one with another text.
Torn(msgs, readby) ==
  {[msgs |-> SubSeq(msgs, 1, n), readby |-> Zero] : n \in 0..Len(msgs)}
  \cup {[msgs |-> Append(SubSeq(msgs, 1, n), m), readby |-> Zero]
         : n \in 0..(Len(msgs) - 1), m \in Texts}
  \cup {[msgs |-> msgs, readby |-> [u \in Users |-> IF u \in done THEN readby[u] ELSE 0]]
         : done \in SUBSET Users}

\* ... fread of as many bytes.  Of a file that an early request has saved since
\* only the beginning may be read, or less than was measured, and the rest of
\* the buffer is not initialized.  A user may have an entry of zero.
LoadRead ==
  /\ phase = "measured"
  /\ phase' = "read"
  /\ \E content \in IF file = [msgs |-> buff.msgs, readby |-> buff.readby] THEN {file}
                    ELSE Torn(file.msgs, file.readby) \cup Garbage :
     \E left \in SUBSET Users :
       /\ \A u \in Users \ left : content.readby[u] = 0
       /\ buff' = [msgs |-> content.msgs, readby |-> content.readby, left |-> left, half |-> {}]
  /\ UNCHANGED <<chat_messages, chat_readby, chat_readby_real>>

\* The parse appends a message at a time to what is there ...
LoadMessage ==
  /\ phase = "read" /\ buff.msgs # <<>>
  /\ chat_messages' = Append(chat_messages, Head(buff.msgs))
  /\ buff' = [buff EXCEPT !.msgs = Tail(@)]
  /\ UNCHANGED <<phase, chat_readby, chat_readby_real>>

\* ... then chat_readby[q] = w ...
LoadCredit(u) ==
  /\ phase = "read" /\ buff.msgs = <<>>
  /\ u \in buff.left /\ buff.half = {}
  /\ chat_readby' = [chat_readby EXCEPT ![u] = buff.readby[u]]
  /\ buff' = [buff EXCEPT !.left = @ \ {u}, !.half = {u}]
  /\ UNCHANGED <<phase, chat_messages, chat_readby_real>>

\* ... and chat_readby_real[q] = w, a user at a time.
LoadReal(u) ==
  /\ phase = "read"
  /\ u \in buff.half
  /\ chat_readby_real' = [chat_readby_real EXCEPT ![u] = buff.readby[u]]
  /\ buff' = [buff EXCEPT !.half = {}]
  /\ UNCHANGED <<phase, chat_messages, chat_readby>>

\* loadchat() up to its return.
Load ==
  /\ \/ LoadClear \/ LoadClearReadby \/ LoadClearReal \/ LoadMeasure \/ LoadRead
     \/ LoadMessage \/ \E u \in Users : LoadCredit(u) \/ LoadReal(u)
  /\ UNCHANGED <<lastId, chat_random, chat_count, chat_readby_count, file,
                 clients, sleeping, alert, shown>>

\* loadchat() returns.
LoadDone ==
  /\ phase = "read"
  /\ buff.msgs = <<>> /\ buff.left = {} /\ buff.half = {}
  /\ phase' = "up"
  /\ buff' = NoBuff
  /\ UNCHANGED <<lastId, server, file, clients, sleeping, alert, shown>>

\* The main loop broadcasts chatcond every 30 seconds.
Tick ==
  /\ phase = "up"
  /\ stage' = Broadcast
  /\ UNCHANGED <<phase, lastId, server, file, buff, req, reply, view,
                 sleeping, alert, shown>>

\* exit_flag is set by a signal or by the "stop" request.  Some polls may be
\* past the first test of exit_flag and not yet have the mutex.
Stop ==
  /\ phase = "up"
  /\ phase' = "exiting"
  /\ \E past \in SUBSET {c \in Clients : stage[c] = "sent"} :
       stage' = [c \in Clients |-> IF c \in past THEN "entered" ELSE stage[c]]
  /\ UNCHANGED <<lastId, server, file, buff, req, reply, view, sleeping, alert,
                 shown>>

BugExitQuietly ==
  /\ phase = "exiting"
  /\ phase' = "drained"
  /\ UNCHANGED <<lastId, server, file, buff, clients, sleeping, alert, shown>>

\* main() after its loop: one broadcast before mg_stop.
ExitBroadcast ==
  /\ phase = "exiting"
  /\ phase' = "drained"
  /\ stage' = Broadcast
  /\ UNCHANGED <<lastId, server, file, buff, req, reply, view, sleeping,
                 alert, shown>>

\* The sockets of a dead process: every poll it still held fails.
Hangup ==
  /\ stage' = [c \in Clients |-> IF stage[c] \in InServer THEN "failed" ELSE stage[c]]
  /\ req' = [c \in Clients |-> NoReq]

\* mg_stop returns when every worker has finished its request.
Stopped ==
  /\ phase = "drained"
  /\ \A c \in Clients : stage[c] \notin {"entered", "waiting", "woken"}
  /\ sleeping = 0
  /\ Wiped
  /\ Hangup
  /\ UNCHANGED <<lastId, file, reply, view, alert, shown>>

\* kill -9 or a crash of the service, outside savechat() or (torn) within
\* the savechat() of an acknowledging poll or of the next write, which leaves
\* chat.txt as far as it was written.
Crash(torn) ==
  /\ phase # "down"
  /\ Wiped
  /\ \/ ~torn /\ UNCHANGED <<file, shown>>
     \/ /\ torn
        /\ Serving
        /\ \E msgs \in {chat_messages}
                       \cup {Append(chat_messages, m) :
                              m \in IF Len(chat_messages) < MaxMsgs THEN Texts ELSE {}} :
           \E readby \in {chat_readby}
                        \cup {ReadbyAfter(c) : c \in {d \in Clients : stage[d] \in {"sent", "entered"}}} :
              file' \in Torn(msgs, readby)
        /\ shown' = IF Len(file'.msgs) < Len(chat_messages) THEN Zero ELSE shown
  /\ Hangup
  /\ UNCHANGED <<lastId, reply, view, alert>>
-----------------------------------------------------------------------------
(* The clients.                                                            *)

\* chatloadxml() in a tab: id, number of messages shown and read-by counter.
TabRequest(c) ==
  /\ c \in Tabs
  /\ stage[c] = "idle"
  /\ stage' = [stage EXCEPT ![c] = "sent"]
  /\ req' = [req EXCEPT ![c] = [random |-> view[c].id,
                                pos |-> Len(view[c].msgs),
                                countpos |-> view[c].count]]
  /\ UNCHANGED <<phase, lastId, server, file, buff, reply, view, sleeping,
                 alert, shown>>

\* Ipc.getMessages(ID): the phone sends its id only.
PhoneRequest(c) ==
  /\ c \in Phones
  /\ stage[c] = "idle"
  /\ stage' = [stage EXCEPT ![c] = "sent"]
  /\ req' = [req EXCEPT ![c] = [NoReq EXCEPT !.random = view[c].id]]
  /\ UNCHANGED <<phase, lastId, server, file, buff, reply, view, sleeping,
                 alert, shown>>

\* No process listens.
Refused(c) ==
  /\ stage[c] = "sent"
  /\ phase = "down"
  /\ stage' = [stage EXCEPT ![c] = "failed"]
  /\ req' = [req EXCEPT ![c] = NoReq]
  /\ UNCHANGED <<phase, lastId, server, file, buff, reply, view,
                 sleeping, alert, shown>>

\* The response never arrives whole, or does not parse.
LoseReply(c) ==
  /\ stage[c] = "reply"
  /\ stage' = [stage EXCEPT ![c] = "failed"]
  /\ reply' = [reply EXCEPT ![c] = NoReply]
  /\ UNCHANGED <<phase, lastId, server, file, buff, req, view, sleeping,
                 alert, shown>>

\* show() of the tab, handleMessage() of the phone: another id empties the
\* display; then the messages of the response are appended.
Displayed(c) ==
  IF reply[c].id = view[c].id THEN view[c].msgs \o reply[c].msgs ELSE reply[c].msgs

Receive(c) ==
  /\ stage[c] = "reply"
  /\ stage' = [stage EXCEPT ![c] = "idle"]
  /\ view' = [view EXCEPT ![c] =
        [id |-> reply[c].id, msgs |-> Displayed(c),
         count |-> IF c \in Tabs THEN reply[c].count ELSE -1,
         readby |-> IF c \in Tabs THEN reply[c].readby ELSE Zero]]
  /\ reply' = [reply EXCEPT ![c] = NoReply]
  /\ shown' = IF reply[c].id = chat_random /\ Len(Displayed(c)) > shown[UserOf(c)]
              THEN [shown EXCEPT ![UserOf(c)] = Len(Displayed(c))] ELSE shown
  /\ UNCHANGED <<phase, lastId, server, file, buff, req, sleeping, alert>>

\* chatalertContents() on failure: forget the id and ask for everything.
TabRetry(c) ==
  /\ c \in Tabs
  /\ stage[c] = "failed"
  /\ stage' = [stage EXCEPT ![c] = "sent"]
  /\ req' = [req EXCEPT ![c] = NoReq]
  /\ view' = [view EXCEPT ![c] = [@ EXCEPT !.id = 0, !.count = -1]]
  /\ UNCHANGED <<phase, lastId, server, file, buff, reply, sleeping, alert, shown>>

\* DownloadMessages.run() on failure: sleep and ask again with the same id.
PhoneRetry(c) ==
  /\ c \in Phones
  /\ stage[c] = "failed"
  /\ stage' = [stage EXCEPT ![c] = "idle"]
  /\ UNCHANGED <<phase, lastId, server, file, buff, req, reply, view,
                 sleeping, alert, shown>>

\* The activity is created anew: another DownloadMessages object, with ID "0"
\* and an empty layout, replaces one that has no poll under way.
PhoneReopen(c) ==
  /\ c \in Phones
  /\ stage[c] = "idle"
  /\ view[c].id # 0
  /\ view' = [view EXCEPT ![c] = [id |-> 0, msgs |-> <<>>, count |-> -1, readby |-> Zero]]
  /\ UNCHANGED <<phase, lastId, server, file, buff, stage, req, reply,
                 sleeping, alert, shown>>
-----------------------------------------------------------------------------
Init ==
  /\ phase = "down"
  /\ lastId = 0
  /\ chat_random = 0
  /\ chat_count = 0
  /\ chat_messages = <<>>
  /\ chat_readby = Zero
  /\ chat_readby_real = Zero
  /\ chat_readby_count = Zero
  /\ file = NoFile
  /\ buff = NoBuff
  /\ stage = [c \in Clients |-> "idle"]
  /\ req = [c \in Clients |-> NoReq]
  /\ reply = [c \in Clients |-> NoReply]
  /\ view = [c \in Clients |->
               [id |-> 0, msgs |-> <<>>, count |-> -1, readby |-> Zero]]
  /\ sleeping = 0
  /\ alert = FALSE
  /\ shown = Zero

Main == \/ Start \/ SetId \/ SetCount \/ Load \/ LoadDone
        \/ Tick \/ Stop \/ ExitBroadcast \/ Stopped

Get(c) == GetPark(c) \/ GetReply(c) \/ GetResume(c) \/ GetExit(c)

Poll(c) == \/ TabRequest(c) \/ PhoneRequest(c) \/ Refused(c)
           \/ TabRetry(c) \/ PhoneRetry(c)

Next ==
  \/ Main
  \/ \E torn \in BOOLEAN : Crash(torn)
  \/ \E m \in Texts : Write(m)
  \/ WriteIntent
  \/ Clear
  \/ \E c \in Clients : \/ Get(c) \/ SpuriousWakeup(c) \/ Poll(c)
                        \/ LoseReply(c) \/ Receive(c) \/ PhoneReopen(c)

Spec == Init /\ [][Next]_vars

(***************************************************************************)
(* Fairness.  main() and the workers are threads the kernel keeps          *)
(* scheduling.  An open tab polls for ever, and not every response to it   *)
(* is lost.  The phone's poll pauses with its activity, users need not     *)
(* write, clear, stop or restart anything: none of that is fair.           *)
(***************************************************************************)
Fairness ==
  /\ WF_vars(SetId) /\ WF_vars(SetCount) /\ WF_vars(Load)
  /\ WF_vars(LoadDone) /\ WF_vars(Tick) /\ WF_vars(ExitBroadcast)
  /\ WF_vars(Stopped) /\ WF_vars(WriteIntent)
  /\ \A c \in Clients : WF_vars(Get(c))
  /\ \A c \in Tabs : WF_vars(Poll(c)) /\ SF_vars(Receive(c))

FairSpec == Spec /\ Fairness
-----------------------------------------------------------------------------
(* Properties.                                                             *)

Msgs == Seq(Texts)
Counts == [Users -> Nat]

(* The state has its shape.                                                *)
TypeOK ==
  /\ phase \in Phases
  /\ lastId \in Nat /\ chat_random \in Nat /\ chat_count \in Nat
  /\ chat_messages \in Msgs
  /\ chat_readby \in Counts
  /\ chat_readby_real \in Counts
  /\ chat_readby_count \in Counts
  /\ file \in [msgs : Msgs, readby : Counts]
  /\ buff \in [msgs : Msgs, readby : Counts, left : SUBSET Users, half : SUBSET Users]
  /\ stage \in [Clients -> Stages]
  /\ req \in [Clients -> [random : Nat, pos : Nat \cup {-1}, countpos : Int]]
  /\ reply \in [Clients -> [count : Nat, id : Nat, msgs : Msgs, readby : Counts]]
  /\ view \in [Clients -> [id : Nat, msgs : Msgs, count : Int, readby : Counts]]
  /\ sleeping \in Nat
  /\ alert \in BOOLEAN
  /\ shown \in Counts

(* chat_readby, chat_readby_real and the size of the log stay in order for *)
(* every user of a service that has loaded chat.txt, whatever mix of       *)
(* polls, clears, restarts and crashes inside savechat() led here: nobody  *)
(* is ever said to have read more messages than there are.  A request that *)
(* is served while loadchat() runs can break it.                           *)
ReadBound ==
  phase \in Up => \A u \in Users : /\ chat_readby[u] <= chat_readby_real[u]
                                  /\ chat_readby_real[u] <= Len(chat_messages)

(* The same of chat.txt: a file torn by a crash never credits a user with  *)
(* messages it does not hold.                                              *)
FileBound == \A u \in Users : file.readby[u] <= Len(file.msgs)

(* No wake-up is lost: a worker parked in cond_wait still has nothing to   *)
(* tell its client.  Every change of the log, of the id or of the read-by  *)
(* counter broadcasts under chatmutex, so getchatmessage() can do without  *)
(* the usual loop around cond_wait.                                        *)
NoStaleWait ==
  \A c \in Clients :
    stage[c] = "waiting" => /\ req[c].random = chat_random
                            /\ req[c].pos = Len(chat_messages)
                            /\ req[c].countpos = chat_count

(* What a tab shows under the current id is a prefix of the log: polls     *)
(* that cross writes, clears, lost responses and restarts never make it    *)
(* skip, repeat or reorder a message.                                      *)
TabShowsPrefix ==
  \A c \in Tabs : view[c].id = chat_random /\ phase \notin {"down", "boot"}
                    => IsPrefix(view[c].msgs, chat_messages)

(* The read-by counter works as a version number of the read-by list: a    *)
(* tab that holds the current id and counter shows the current list, so it *)
(* may be kept waiting.                                                    *)
CountIsVersion ==
  \A c \in Tabs : /\ view[c].id = chat_random
                  /\ view[c].count = chat_count
                  /\ phase \notin {"down", "boot"}
                  => view[c].readby = chat_readby

(* "Above lines are read by" u: a user who chats from one tab is credited  *)
(* only with messages that tab has shown, also when responses are lost.    *)
TabReadMeansShown ==
  \A c \in Tabs :
    (\A d \in Clients \ {c} : UserOf(d) # UserOf(c)) /\ phase = "up"
      => chat_readby[UserOf(c)] <= shown[UserOf(c)]

(* The same for the phone.  ChatUI keeps its id when a response is lost,   *)
(* and the next poll acknowledges what the lost response carried.          *)
PhoneReadMeansShown == phase = "up" => chat_readby[PhoneUser] <= shown[PhoneUser]

(* chat.txt is the log, at every moment at which the service may be killed *)
(* between two critical sections.                                          *)
FileIsCurrent == phase = "up" => file = [msgs |-> chat_messages, readby |-> chat_readby]

(* The stored log only grows, unless somebody clears it or the process     *)
(* dies inside savechat(); a request served before loadchat() has finished *)
(* is the one other step that can drop stored messages.                    *)
OnlyClearForgets ==
  [][\/ IsPrefix(file.msgs, file'.msgs)
     \/ Clear
     \/ phase' = "down"
     \/ EarlyRequests /\ phase \in Booting]_vars

\* What tab c shows of the log that is current.
Seen(c) == IF phase \in Up /\ view[c].id = chat_random THEN view[c].msgs ELSE <<>>

Log == INSTANCE SharedLog WITH log <- file.msgs, read <- file.readby,
                               running <- phase \in Up,
                               seen <- [c \in Tabs |-> Seen(c)]

(* Through all its polls, broadcasts, saves and loads the service keeps    *)
(* one shared log in chat.txt, which tabs see from its beginning and in    *)
(* which credits only grow, until somebody clears it or a kill tears it.   *)
ImplementsSharedLog == Log!Spec

Current(c) == view[c].id = chat_random /\ view[c].msgs = chat_messages

(* An open tab catches up with the log while the service stays up.         *)
Delivered == \A c \in Tabs : (phase = "up") ~> (Current(c) \/ phase # "up")

(* A message the phone has not fetched is announced by a broadcast to      *)
(* ChatReceiver, unless it is fetched or cleared or the service goes down. *)
UnreadIsAnnounced ==
  (phase = "up" /\ Len(chat_messages) > chat_readby[PhoneUser] /\ sleeping > 0)
    ~> (alert \/ Len(chat_messages) = chat_readby[PhoneUser] \/ phase # "up")

(* Stopping the service releases every parked worker: mg_stop returns.     *)
StopFinishes == (phase = "exiting") ~> (phase = "down")
=============================================================================
