---------------------------- MODULE ChatTabProofs ----------------------------
(***************************************************************************)
(* Proofs about what the clients of the chat are told, for every set of    *)
(* tabs, phones, accounts and texts and every bound: the stored log loses  *)
(* nothing but by a clear or a torn file, chat.txt is the log, no wake-up  *)
(* of a parked poll is lost, nobody is credited with messages that are not *)
(* there, and a tab shows a prefix of the log, holds the read-by list its  *)
(* counter stands for, and is credited only with what it has shown; and    *)
(* the whole implements SharedLog.  All but the first of them need the     *)
(* service to answer no chat request before loadchat() has returned        *)
(* (~EarlyRequests); each says so.                                         *)
(***************************************************************************)
EXTENDS ChatProofs

\* A poll is held by a worker only while there are workers.
Held ==
  \A c \in Clients : /\ stage[c] \in {"waiting", "woken"} => Serving
                     /\ stage[c] = "entered" => exit_flag

-----------------------------------------------------------------------------
(* Prefixes of the log.                                                    *)

(* A prefix is one message by message.                                     *)
LEMMA PrefixByMessage ==
  ASSUME NEW s \in Msgs, NEW t \in Msgs
  PROVE  IsPrefix(s, t) <=> /\ Len(s) <= Len(t)
                            /\ \A i \in 1..Len(s) : s[i] = t[i]
  <1>1. Len(s) \in Nat /\ Len(t) \in Nat
    BY LenProperties DEF Msgs
  <1>2. SubSeq(s, 1, Len(s)) = s
    BY SubSeqFull DEF Msgs
  <1>3. CASE Len(s) <= Len(t)
    <2>1. \A i \in 1..Len(s) : t[i] \in Texts
      BY <1>1, <1>3, ElementOfSeq DEF Msgs
    <2>2. /\ SubSeq(t, 1, Len(s)) \in Msgs
          /\ Len(SubSeq(t, 1, Len(s))) = Len(s)
          /\ \A i \in 1..Len(s) : SubSeq(t, 1, Len(s))[i] = t[i]
      BY <1>1, <1>3, <2>1, SubSeqProperties DEF Msgs
    <2>3. s = SubSeq(t, 1, Len(s)) <=> \A i \in 1..Len(s) : s[i] = t[i]
      BY <2>2, SeqEqual DEF Msgs
    <2> QED BY <1>2, <1>3, <2>3 DEF IsPrefix
  <1>4. CASE ~(Len(s) <= Len(t))
    BY <1>4 DEF IsPrefix
  <1> QED
    BY <1>3, <1>4

(* The log is a prefix of itself, and the empty log of every log.          *)
LEMMA PrefixSelf ==
  ASSUME NEW s \in Msgs
  PROVE  IsPrefix(s, s) /\ IsPrefix(<<>>, s)
  <1>1. <<>> \in Msgs /\ Len(<<>>) = 0 /\ Len(s) \in Nat
    BY EmptySeq, LenProperties DEF Msgs
  <1> QED
    BY <1>1, PrefixByMessage

(* writechatmessage() adds at the end.                                     *)
LEMMA PrefixAppend ==
  ASSUME NEW s \in Msgs, NEW t \in Msgs, NEW m \in Texts, IsPrefix(s, t)
  PROVE  IsPrefix(s, Append(t, m))
  <1>1. /\ Append(t, m) \in Msgs /\ Len(Append(t, m)) = Len(t) + 1
        /\ \A i \in 1..Len(t) : Append(t, m)[i] = t[i]
    BY AppendProperties DEF Msgs
  <1>2. Len(s) \in Nat /\ Len(t) \in Nat
    BY LenProperties DEF Msgs
  <1>3. Len(s) <= Len(t) /\ \A i \in 1..Len(s) : s[i] = t[i]
    BY PrefixByMessage
  <1>4. Len(s) <= Len(t) + 1 /\ \A i \in 1..Len(s) : s[i] = Append(t, m)[i]
    BY <1>1, <1>2, <1>3
  <1> QED
    BY <1>1, <1>4, PrefixByMessage

(* loadchat() appends what it has read to what is there.                   *)
LEMMA PrefixConcat ==
  ASSUME NEW s \in Msgs, NEW t \in Msgs
  PROVE  s \o t \in Msgs /\ IsPrefix(s, s \o t)
  <1>1. Len(s) \in Nat /\ Len(t) \in Nat
    BY LenProperties DEF Msgs
  <1>2. /\ s \o t \in Msgs /\ Len(s \o t) = Len(s) + Len(t)
        /\ \A i \in 1..Len(s) : (s \o t)[i] = s[i]
    BY <1>1, ConcatProperties DEF Msgs
  <1> DEFINE both == s \o t
  <1>3. both \in Msgs /\ Len(s) <= Len(both) /\ \A i \in 1..Len(s) : s[i] = both[i]
    BY <1>1, <1>2
  <1> HIDE DEF both
  <1>4. IsPrefix(s, both)
    BY <1>3, PrefixByMessage
  <1> QED
    BY <1>2, <1>4 DEF both

(* What a tab shows and the rest of the log make the log.                  *)
LEMMA PrefixAndRest ==
  ASSUME NEW s \in Msgs, NEW t \in Msgs, IsPrefix(s, t)
  PROVE  s \o SubSeq(t, Len(s) + 1, Len(t)) = t
  <1> DEFINE rest == SubSeq(t, Len(s) + 1, Len(t))
  <1>1. Len(s) \in Nat /\ Len(t) \in Nat /\ Len(s) <= Len(t)
    BY LenProperties, PrefixByMessage DEF Msgs
  <1>2. \A i \in 1..Len(s) : s[i] = t[i]
    BY PrefixByMessage
  <1>3. \A i \in (Len(s) + 1)..Len(t) : t[i] \in Texts
    BY <1>1, ElementOfSeq DEF Msgs
  <1>4. /\ rest \in Msgs /\ Len(rest) = Len(t) - Len(s)
        /\ \A i \in 1..(Len(t) - Len(s)) : rest[i] = t[Len(s) + i]
    <2>1. Len(s) + 1 \in Int /\ Len(t) \in Int
      BY <1>1
    <2>2. /\ rest \in Msgs
          /\ Len(rest) = IF Len(s) + 1 <= Len(t) THEN Len(t) - (Len(s) + 1) + 1 ELSE 0
          /\ \A i \in 1..(Len(t) - (Len(s) + 1) + 1) : rest[i] = t[(Len(s) + 1) + i - 1]
      BY <1>3, <2>1, SubSeqProperties DEF Msgs
    <2> HIDE DEF rest
    <2>3. Len(rest) = Len(t) - Len(s)
      BY <1>1, <2>2
    <2>4. ASSUME NEW i \in 1..(Len(t) - Len(s)) PROVE rest[i] = t[Len(s) + i]
      <3>1. i \in 1..(Len(t) - (Len(s) + 1) + 1) /\ (Len(s) + 1) + i - 1 = Len(s) + i
        BY <1>1
      <3> QED BY <2>2, <3>1
    <2> QED BY <2>2, <2>3, <2>4
  <1> HIDE DEF rest
  <1>5. s \o rest \in Msgs /\ Len(s \o rest) = Len(t)
    BY <1>1, <1>4, ConcatProperties DEF Msgs
  <1>6. \A i \in 1..Len(t) : (s \o rest)[i] = t[i]
    <2> TAKE i \in 1..Len(t)
    <2>1. CASE i \in 1..Len(s)
      BY <1>1, <1>2, <1>4, <2>1, ConcatProperties DEF Msgs
    <2>2. CASE i \notin 1..Len(s)
      <3>1. (s \o rest)[i] = rest[i - Len(s)]
        BY <1>1, <1>4, <2>2, ConcatProperties DEF Msgs
      <3>2. i - Len(s) \in 1..(Len(t) - Len(s)) /\ Len(s) + (i - Len(s)) = i
        BY <1>1, <2>2
      <3> QED BY <1>4, <3>1, <3>2
    <2> QED BY <2>1, <2>2
  <1>7. s \o rest = t
    BY <1>5, <1>6, SeqEqual DEF Msgs
  <1> QED
    BY <1>7 DEF rest
-----------------------------------------------------------------------------
(* Where a poll can be, and the stored log.                                *)

(* What the parts of getchatmessage() do to the polls.                     *)
LEMMA GetStages ==
  ASSUME TypeOK, NEW c \in Clients, Get(c)
  PROVE  /\ UNCHANGED <<phase, lastId, chat_random, chat_messages, buff, view,
                        sleeping, alert, shown>>
         /\ \A d \in Clients \ {c} :
              /\ stage'[d] = stage[d] \/ (stage[d] = "waiting" /\ stage'[d] = "woken")
              /\ req'[d] = req[d] /\ reply'[d] = reply[d]
         /\ \/ GetPark(c) /\ stage'[c] = "waiting"
            \/ (GetReply(c) \/ GetResume(c)) /\ stage'[c] = "reply"
            \/ GetExit(c) /\ stage'[c] = "failed"
  <1>1. UNCHANGED <<phase, lastId, chat_random, chat_messages, buff, view,
                    sleeping, alert, shown>>
    BY DEF Get, GetPark, GetReply, GetResume, GetExit, server
  <1>2. \A d \in Clients : AfterAck(c)[d] = stage[d]
                            \/ (stage[d] = "waiting" /\ AfterAck(c)[d] = "woken")
    BY DEF AfterAck, Broadcast
  <1>3. AfterAck(c) \in [Clients -> Stages]
    BY BroadcastType DEF AfterAck, TypeOK
  <1>4. \A d \in Clients \ {c} :
          /\ stage'[d] = stage[d] \/ (stage[d] = "waiting" /\ stage'[d] = "woken")
          /\ req'[d] = req[d] /\ reply'[d] = reply[d]
    BY <1>2, <1>3 DEF Get, GetPark, GetReply, GetResume, GetExit, Respond, TypeOK
  <1>5. \/ GetPark(c) /\ stage'[c] = "waiting"
        \/ (GetReply(c) \/ GetResume(c)) /\ stage'[c] = "reply"
        \/ GetExit(c) /\ stage'[c] = "failed"
    BY <1>3 DEF Get, GetPark, GetReply, GetResume, GetExit, TypeOK
  <1> QED
    BY <1>1, <1>4, <1>5

(* A step of a client or its connection touches its own poll and nothing   *)
(* of the service, except that a request may be refused.                   *)
LEMMA ClientStages ==
  ASSUME TypeOK, NEW c \in Clients,
         Poll(c) \/ SpuriousWakeup(c) \/ LoseReply(c) \/ Receive(c) \/ PhoneReopen(c)
  PROVE  /\ UNCHANGED <<phase, lastId, server, file, buff, sleeping, alert>>
         /\ \A d \in Clients \ {c} :
              /\ stage'[d] = stage[d] /\ req'[d] = req[d]
              /\ reply'[d] = reply[d] /\ view'[d] = view[d]
         /\ stage'[c] \in {"idle", "sent", "failed", stage[c]}
            \/ (stage[c] = "waiting" /\ stage'[c] = "woken")
  BY DEF Poll, TabRequest, PhoneRequest, Refused, TabRetry, PhoneRetry,
         SpuriousWakeup, LoseReply, Receive, PhoneReopen, TypeOK

\* The steps of main() before the service is up.
Boots == Start \/ SetId \/ SetCount \/ Load \/ LoadDone

(* They happen before exit_flag can be set, and leave chat.txt and the     *)
(* clients alone.                                                          *)
LEMMA BootFrame ==
  ASSUME Boots
  PROVE  /\ UNCHANGED <<file, stage, req, reply, view, sleeping, alert, shown>>
         /\ phase \notin Up /\ ~exit_flag /\ (Serving => Serving')
         /\ phase' \notin Up \/ LoadDone
         /\ phase = "down" \/ phase \in Booting
  <1>1. CASE Start \/ SetId \/ SetCount \/ LoadDone
    BY <1>1, ChatAssumption DEF Start, SetId, SetCount, LoadDone, clients, Serving,
                                Up, exit_flag, Booting
  <1>2. CASE Load
    BY <1>2, LoadFrame, ChatAssumption DEF clients, Serving, Up, exit_flag, Booting
  <1> QED
    BY <1>1, <1>2 DEF Boots

(* Workers hold polls only while they run, and a poll is past the test of  *)
(* exit_flag only once it is set.                                          *)
LEMMA HeldKeeps ==
  ASSUME TypeOK, Held, [Next]_vars
  PROVE  Held'
  <1>1. CASE \E c \in Clients : Get(c)
    <2>1. PICK c \in Clients : Get(c)
      BY <1>1
    <2>2. GetPark(c) => Serving
      BY DEF GetPark
    <2> QED BY <2>1, <2>2, GetStages DEF Held, Serving, Up, exit_flag
  <1>2. CASE \E c \in Clients : \/ Poll(c) \/ SpuriousWakeup(c) \/ LoseReply(c)
                                \/ Receive(c) \/ PhoneReopen(c)
    <2>1. PICK c \in Clients : \/ Poll(c) \/ SpuriousWakeup(c) \/ LoseReply(c)
                               \/ Receive(c) \/ PhoneReopen(c)
      BY <1>2
    <2> QED BY <2>1, ClientStages DEF Held, Serving, Up, exit_flag
  <1>3. CASE \/ Clear \/ Tick \/ ExitBroadcast \/ \E m \in Texts : Write(m)
    <2>1. \A d \in Clients : /\ stage'[d] \in {"waiting", "woken"}
                                 => stage[d] \in {"waiting", "woken"}
                             /\ stage'[d] = "entered" => stage[d] = "entered"
      BY <1>3 DEF Clear, Tick, ExitBroadcast, Write, Broadcast
    <2>2. phase' = phase \/ (phase = "exiting" /\ phase' = "drained")
      BY <1>3 DEF Clear, Tick, ExitBroadcast, Write
    <2> QED BY <2>1, <2>2 DEF Held, Serving, Up, exit_flag
  <1>4. CASE Boots
    BY <1>4, BootFrame DEF Held
  <1>5. CASE Stop
    BY <1>5 DEF Stop, Held, Serving, Up, exit_flag
  <1>6. CASE Stopped \/ \E torn \in BOOLEAN : Crash(torn)
    <2>1. Hangup
      BY <1>6 DEF Stopped, Crash
    <2> QED BY <2>1 DEF Hangup, InServer, Held
  <1>7. CASE WriteIntent \/ UNCHANGED vars
    BY <1>7 DEF WriteIntent, clients, vars, Held, Serving, exit_flag
  <1> QED
    BY <1>1, <1>2, <1>3, <1>4, <1>5, <1>6, <1>7 DEF Next, Main, Boots

\* chat.txt holds the beginning of the log, or, while loadchat() runs, what
\* will be its beginning.
StoredPrefix ==
  \/ phase \in {"down", "boot", "idset", "counted"}
  \/ IsPrefix(file.msgs, chat_messages)
  \/ phase \in {"emptied", "unread", "cleared"} /\ chat_messages = <<>>
  \/ /\ phase = "measured" /\ chat_messages = <<>>
     /\ buff.msgs = file.msgs /\ buff.readby = file.readby
  \/ phase = "read" /\ chat_messages \o buff.msgs = file.msgs

(* A poll saves the log of a service that has loaded it, or of one that    *)
(* answers too early.                                                      *)
LEMMA GetSaves ==
  ASSUME TypeOK, Held, NEW c \in Clients, Get(c)
  PROVE  /\ UNCHANGED file \/ file'.msgs = chat_messages
         /\ \/ UNCHANGED file
            \/ phase \in Up
            \/ EarlyRequests /\ phase \in Booting
  <1>1. UNCHANGED file \/ file'.msgs = chat_messages
    BY DEF Get, GetPark, GetReply, GetResume, GetExit, Acknowledge, savechat
  <1>2. \/ UNCHANGED file
        \/ stage[c] = "entered" \/ Serving
    BY DEF Get, GetPark, GetReply, GetResume, GetExit
  <1> QED
    BY <1>1, <1>2 DEF Held, Serving, exit_flag, Up

(* The message loop of loadchat() moves messages from its buffer to the    *)
(* end of the log.                                                         *)
LEMMA MoveMessage ==
  ASSUME NEW s \in Msgs, NEW t \in Msgs, t # <<>>
  PROVE  /\ Head(t) \in Texts /\ Tail(t) \in Msgs
         /\ Append(s, Head(t)) \o Tail(t) = s \o t
  <1>1. /\ Head(t) \in Texts /\ Tail(t) \in Msgs /\ Len(Tail(t)) = Len(t) - 1
        /\ \A i \in 1..Len(Tail(t)) : Tail(t)[i] = t[i + 1]
    BY HeadTailProperties DEF Msgs
  <1>2. Head(t) = t[1] /\ Len(t) \in Nat /\ Len(t) # 0 /\ Len(s) \in Nat
    BY HeadTailProperties, LenProperties, EmptySeq DEF Msgs
  <1> DEFINE more == Append(s, Head(t))
             rest == Tail(t)
  <1>3. /\ more \in Msgs /\ Len(more) = Len(s) + 1
        /\ \A i \in 1..Len(s) : more[i] = s[i]
        /\ more[Len(s) + 1] = t[1]
    BY <1>1, <1>2, AppendProperties DEF Msgs
  <1>4. /\ rest \in Msgs /\ Len(rest) = Len(t) - 1
        /\ \A i \in 1..Len(rest) : rest[i] = t[i + 1]
    BY <1>1
  <1> HIDE DEF more, rest
  <1>5. /\ more \o rest \in Msgs /\ Len(more \o rest) = Len(s) + Len(t)
        /\ s \o t \in Msgs /\ Len(s \o t) = Len(s) + Len(t)
    <2>1. /\ more \o rest \in Msgs /\ Len(more \o rest) = Len(more) + Len(rest)
          /\ s \o t \in Msgs /\ Len(s \o t) = Len(s) + Len(t)
      BY <1>3, <1>4, ConcatProperties DEF Msgs
    <2> QED BY <1>2, <1>3, <1>4, <2>1
  <1>6. ASSUME NEW i \in 1..(Len(s) + Len(t))
        PROVE  (more \o rest)[i] = (s \o t)[i]
    <2>1. CASE i <= Len(s)
      BY <1>2, <1>3, <1>4, <2>1, ConcatProperties DEF Msgs
    <2>2. CASE i = Len(s) + 1
      BY <1>2, <1>3, <1>4, <2>2, ConcatProperties DEF Msgs
    <2>3. CASE i > Len(s) + 1
      <3>1. (s \o t)[i] = t[i - Len(s)]
        BY <1>2, <2>3, ConcatProperties DEF Msgs
      <3>2. (more \o rest)[i] = rest[i - (Len(s) + 1)]
        BY <1>2, <1>3, <1>4, <2>3, ConcatProperties DEF Msgs
      <3>3. /\ i - (Len(s) + 1) \in 1..Len(rest)
            /\ (i - (Len(s) + 1)) + 1 = i - Len(s)
        BY <1>2, <1>4, <2>3
      <3>4. rest[i - (Len(s) + 1)] = t[(i - (Len(s) + 1)) + 1]
        BY <1>4, <3>3
      <3> QED BY <3>1, <3>2, <3>3, <3>4
    <2>4. i <= Len(s) \/ i = Len(s) + 1 \/ i > Len(s) + 1
      BY <1>2
    <2> QED BY <2>1, <2>2, <2>3, <2>4
  <1>7. more \o rest = s \o t
    BY <1>5, <1>6, SeqEqual DEF Msgs
  <1> QED
    BY <1>1, <1>7 DEF more, rest

(* Every save keeps what is stored, and loadchat() reads it back.          *)
LEMMA LoadStores ==
  ASSUME TypeOK, StoredPrefix, Load
  PROVE  StoredPrefix'
  <1>0. /\ chat_messages \in Msgs /\ file.msgs \in Msgs /\ buff.msgs \in Msgs
        /\ file' = file
    BY LoadFrame DEF TypeOK
  <1>1. CASE LoadClear
    BY <1>1 DEF LoadClear, StoredPrefix
  <1>2. CASE LoadClearReadby \/ LoadClearReal
    BY <1>0, <1>2 DEF LoadClearReadby, LoadClearReal, StoredPrefix
  <1>3. CASE LoadMeasure
    BY <1>0, <1>3 DEF LoadMeasure, StoredPrefix
  <1>4. CASE LoadRead
    <2>1. phase = "measured" /\ phase' = "read" /\ chat_messages' = chat_messages
      BY <1>4 DEF LoadRead
    <2>2. CASE IsPrefix(file.msgs, chat_messages)
      BY <1>0, <2>1, <2>2 DEF StoredPrefix
    <2>3. CASE chat_messages = <<>> /\ buff.msgs = file.msgs /\ buff.readby = file.readby
      <3>1. file = [msgs |-> buff.msgs, readby |-> buff.readby]
        BY <2>3 DEF TypeOK
      <3>2. buff'.msgs = file.msgs
        BY <1>4, <3>1 DEF LoadRead
      <3>3. <<>> \o file.msgs = file.msgs
        BY <1>0, ConcatEmptySeq DEF Msgs
      <3> QED BY <1>0, <2>1, <2>3, <3>2, <3>3 DEF StoredPrefix
    <2> QED BY <2>1, <2>2, <2>3 DEF StoredPrefix
  <1>5. CASE LoadMessage
    <2>1. /\ phase = "read" /\ phase' = "read" /\ buff.msgs # <<>>
          /\ chat_messages' = Append(chat_messages, Head(buff.msgs))
      BY <1>5 DEF LoadMessage
    <2>2. buff'.msgs = Tail(buff.msgs)
      BY <1>5 DEF LoadMessage, TypeOK
    <2>3. /\ Head(buff.msgs) \in Texts
          /\ Append(chat_messages, Head(buff.msgs)) \o Tail(buff.msgs)
               = chat_messages \o buff.msgs
      BY <1>0, <2>1, MoveMessage
    <2> QED BY <1>0, <2>1, <2>2, <2>3, PrefixAppend DEF StoredPrefix
  <1>6. CASE \E u \in Users : LoadCredit(u) \/ LoadReal(u)
    <2>1. PICK u \in Users : LoadCredit(u) \/ LoadReal(u)
      BY <1>6
    <2>2. phase = "read" /\ phase' = "read" /\ chat_messages' = chat_messages
      BY <2>1 DEF LoadCredit, LoadReal
    <2>3. buff'.msgs = buff.msgs
      BY <2>1 DEF LoadCredit, LoadReal, TypeOK
    <2> QED BY <1>0, <2>2, <2>3 DEF StoredPrefix
  <1> QED
    BY <1>1, <1>2, <1>3, <1>4, <1>5, <1>6 DEF Load

LEMMA StoredKeeps ==
  ASSUME TypeOK, TypeOK', Held, StoredPrefix, [Next]_vars
  PROVE  StoredPrefix'
  <1>0. /\ chat_messages \in Msgs /\ file.msgs \in Msgs /\ buff.msgs \in Msgs
        /\ chat_messages' \in Msgs /\ file'.msgs \in Msgs
    BY DEF TypeOK
  <1>1. CASE \E c \in Clients : Get(c)
    <2>1. /\ UNCHANGED <<phase, chat_messages, buff>>
          /\ UNCHANGED file \/ file'.msgs = chat_messages
      BY <1>1, GetStages, GetSaves
    <2> QED BY <1>0, <2>1, PrefixSelf DEF StoredPrefix
  <1>2. CASE \E c \in Clients : \/ Poll(c) \/ SpuriousWakeup(c) \/ LoseReply(c)
                                \/ Receive(c) \/ PhoneReopen(c)
    <2>1. UNCHANGED <<phase, server, file, buff>>
      BY <1>2, ClientStages
    <2> QED BY <2>1 DEF server, StoredPrefix
  <1>3. CASE Clear \/ \E m \in Texts : Write(m)
    <2>1. file'.msgs = chat_messages'
      BY <1>3 DEF Clear, Write, savechat
    <2> QED BY <1>0, <2>1, PrefixSelf DEF StoredPrefix
  <1>4. CASE Start \/ SetId \/ SetCount \/ Stopped \/ \E torn \in BOOLEAN : Crash(torn)
    BY <1>4 DEF Start, SetId, SetCount, Stopped, Crash, Wiped, StoredPrefix
  <1>5. CASE Load
    BY <1>5, LoadStores
  <1>6. CASE LoadDone
    <2>1. /\ phase = "read" /\ buff.msgs = <<>> /\ UNCHANGED <<chat_messages, file>>
      BY <1>6 DEF LoadDone, server
    <2>2. chat_messages \o <<>> = chat_messages
      BY <1>0, ConcatEmptySeq DEF Msgs
    <2> QED BY <1>0, <2>1, <2>2, PrefixSelf DEF StoredPrefix
  <1>7. CASE Tick \/ Stop \/ ExitBroadcast \/ WriteIntent \/ UNCHANGED vars
    BY <1>7 DEF Tick, Stop, ExitBroadcast, WriteIntent, vars, server, StoredPrefix
  <1> QED
    BY <1>1, <1>2, <1>3, <1>4, <1>5, <1>6, <1>7 DEF Next, Main

(* The stored log only grows, unless somebody clears it or the process     *)
(* dies in savechat(): whatever polls acknowledge or writers add, at       *)
(* whatever moment, chat.txt keeps the messages it has.                    *)
THEOREM ChatOnlyClearForgets == Spec => OnlyClearForgets
  <1>1. Init => Held /\ StoredPrefix
    BY DEF Init, Held, StoredPrefix
  <1>2. IInv /\ IInv' /\ Held /\ StoredPrefix /\ [Next]_vars => Held' /\ StoredPrefix'
    BY HeldKeeps, StoredKeeps DEF IInv
  <1>3. ASSUME IInv, IInv', Held, StoredPrefix, [Next]_vars
        PROVE  [\/ IsPrefix(file.msgs, file'.msgs)
                \/ Clear
                \/ phase' = "down"
                \/ EarlyRequests /\ phase \in Booting]_vars
    <2> SUFFICES ASSUME Next, ~Clear, phase' # "down",
                        ~(EarlyRequests /\ phase \in Booting)
                 PROVE  IsPrefix(file.msgs, file'.msgs)
      BY <1>3
    <2>0. chat_messages \in Msgs /\ file.msgs \in Msgs
      BY <1>3 DEF IInv, TypeOK
    <2>1. CASE \E c \in Clients : Get(c)
      <3>1. \/ UNCHANGED file
            \/ file'.msgs = chat_messages /\ phase \in Up
        BY <1>3, <2>1, GetSaves DEF IInv
      <3> QED BY <1>3, <2>0, <3>1, PrefixSelf DEF StoredPrefix, Up
    <2>2. CASE \E m \in Texts : Write(m)
      <3>1. PICK m \in Texts : Write(m)
        BY <2>2
      <3>2. phase \in Up /\ file'.msgs = Append(chat_messages, m)
        BY <3>1 DEF Write, savechat, Serving, Up
      <3> QED BY <1>3, <2>0, <3>1, <3>2, PrefixAppend DEF StoredPrefix, Up
    <2>3. CASE \E c \in Clients : \/ Poll(c) \/ SpuriousWakeup(c) \/ LoseReply(c)
                                  \/ Receive(c) \/ PhoneReopen(c)
      BY <1>3, <2>0, <2>3, ClientStages, PrefixSelf DEF IInv
    <2>4. CASE Boots \/ Tick \/ Stop \/ ExitBroadcast \/ WriteIntent
      <3>1. UNCHANGED file
        BY <2>4, BootFrame DEF Tick, Stop, ExitBroadcast, WriteIntent
      <3> QED BY <2>0, <3>1, PrefixSelf
    <2>5. CASE Stopped \/ \E torn \in BOOLEAN : Crash(torn)
      BY <2>5 DEF Stopped, Crash, Wiped
    <2> QED BY <2>1, <2>2, <2>3, <2>4, <2>5 DEF Next, Main, Boots
  <1> QED
    BY <1>1, <1>2, <1>3, InitIInv, NextIInv, PTL DEF Spec, OnlyClearForgets
-----------------------------------------------------------------------------
(* When no request is answered before loadchat() returns: chat.txt and the *)
(* log.                                                                    *)

(* Then only a service that has loaded its log answers.                    *)
LEMMA ServingUp ==
  ASSUME ~EarlyRequests
  PROVE  /\ Serving <=> phase \in Up
         /\ Held /\ (\E c \in Clients : Get(c)) => phase \in Up
         /\ Clear \/ (\E m \in Texts : Write(m)) => phase \in Up
  <1>1. Serving <=> phase \in Up
    BY DEF Serving, Up
  <1>2. Held /\ (\E c \in Clients : Get(c)) => phase \in Up
    BY <1>1 DEF Held, Get, GetPark, GetReply, GetResume, GetExit, exit_flag, Up
  <1>3. Clear \/ (\E m \in Texts : Write(m)) => phase \in Up
    BY <1>1 DEF Clear, Write
  <1> QED
    BY <1>1, <1>2, <1>3

\* What loadchat() has loaded of chat.txt and what it has still to load.
Refilled ==
  /\ chat_messages \o buff.msgs = file.msgs
  /\ buff.readby = file.readby
  /\ buff.half \cap buff.left = {} /\ \A u, v \in buff.half : u = v
  /\ \A u \in Users :
       /\ chat_readby[u] = IF u \in buff.left THEN 0 ELSE file.readby[u]
       /\ chat_readby_real[u] = IF u \in buff.left \cup buff.half
                               THEN 0 ELSE file.readby[u]

\* loadchat() starts from an empty log and reads chat.txt as it stays.
Loaded ==
  /\ phase \in {"emptied", "unread", "cleared", "measured"} => chat_messages = <<>>
  /\ phase \in {"unread", "cleared", "measured"} => chat_readby = Zero
  /\ phase \in {"cleared", "measured"} => chat_readby_real = Zero
  /\ phase = "measured" => buff.msgs = file.msgs /\ buff.readby = file.readby
  /\ phase = "read" => Refilled
  /\ phase \in Up => file = [msgs |-> chat_messages, readby |-> chat_readby]

(* loadchat() step by step.                                                *)
LEMMA LoadRefills ==
  ASSUME TypeOK, Loaded, Load
  PROVE  Loaded'
  <1>0. /\ chat_messages \in Msgs /\ file.msgs \in Msgs /\ buff.msgs \in Msgs
        /\ chat_readby \in Counts /\ chat_readby_real \in Counts
        /\ file.readby \in Counts /\ file' = file
    BY LoadFrame DEF TypeOK
  <1>1. CASE LoadClear \/ LoadClearReadby \/ LoadClearReal
    BY <1>1 DEF LoadClear, LoadClearReadby, LoadClearReal, Loaded, Up
  <1>2. CASE LoadMeasure
    BY <1>0, <1>2 DEF LoadMeasure, Loaded, Up
  <1>3. CASE LoadRead
    <2>1. /\ phase = "measured" /\ phase' = "read"
          /\ UNCHANGED <<chat_messages, chat_readby, chat_readby_real>>
      BY <1>3 DEF LoadRead
    <2>2. /\ chat_messages = <<>> /\ chat_readby = Zero /\ chat_readby_real = Zero
          /\ buff.msgs = file.msgs /\ buff.readby = file.readby
      BY <2>1 DEF Loaded
    <2>3. file = [msgs |-> buff.msgs, readby |-> buff.readby]
      BY <2>2 DEF TypeOK
    <2>4. /\ buff'.msgs = file.msgs /\ buff'.readby = file.readby
          /\ buff'.half = {}
          /\ \A u \in Users \ buff'.left : file.readby[u] = 0
      BY <1>3, <2>3 DEF LoadRead
    <2>5. <<>> \o file.msgs = file.msgs
      BY <1>0, ConcatEmptySeq DEF Msgs
    <2>6. Refilled'
      BY <1>0, <2>1, <2>2, <2>4, <2>5 DEF Refilled, Zero
    <2> QED BY <2>1, <2>6 DEF Loaded, Up
  <1>4. CASE LoadMessage
    <2>1. /\ phase = "read" /\ phase' = "read" /\ buff.msgs # <<>> /\ Refilled
          /\ chat_messages' = Append(chat_messages, Head(buff.msgs))
          /\ UNCHANGED <<chat_readby, chat_readby_real>>
      BY <1>4 DEF LoadMessage, Loaded
    <2>2. /\ buff'.msgs = Tail(buff.msgs) /\ buff'.readby = buff.readby
          /\ buff'.left = buff.left /\ buff'.half = buff.half
      BY <1>4 DEF LoadMessage, TypeOK
    <2>3. Append(chat_messages, Head(buff.msgs)) \o Tail(buff.msgs) = chat_messages \o buff.msgs
      BY <1>0, <2>1, MoveMessage
    <2>4. Refilled'
      BY <1>0, <2>1, <2>2, <2>3 DEF Refilled
    <2> QED BY <2>1, <2>4 DEF Loaded, Up
  <1>5. CASE \E u \in Users : LoadCredit(u)
    <2>1. PICK u \in Users : LoadCredit(u)
      BY <1>5
    <2>2. /\ phase = "read" /\ phase' = "read" /\ Refilled
          /\ u \in buff.left /\ buff.half = {}
          /\ chat_readby' = [chat_readby EXCEPT ![u] = buff.readby[u]]
          /\ UNCHANGED <<chat_messages, chat_readby_real>>
      BY <2>1 DEF LoadCredit, Loaded
    <2>3. /\ buff'.msgs = buff.msgs /\ buff'.readby = buff.readby
          /\ buff'.left = buff.left \ {u} /\ buff'.half = {u}
      BY <2>1 DEF LoadCredit, TypeOK
    <2>4. Refilled'
      BY <1>0, <2>2, <2>3 DEF Refilled, Counts
    <2> QED BY <2>2, <2>4 DEF Loaded, Up
  <1>6. CASE \E u \in Users : LoadReal(u)
    <2>1. PICK u \in Users : LoadReal(u)
      BY <1>6
    <2>2. /\ phase = "read" /\ phase' = "read" /\ Refilled /\ u \in buff.half
          /\ chat_readby_real' = [chat_readby_real EXCEPT ![u] = buff.readby[u]]
          /\ UNCHANGED <<chat_messages, chat_readby>>
      BY <2>1 DEF LoadReal, Loaded
    <2>3. /\ buff'.msgs = buff.msgs /\ buff'.readby = buff.readby
          /\ buff'.left = buff.left /\ buff'.half = {}
      BY <2>1 DEF LoadReal, TypeOK
    <2>4. buff.half = {u} /\ u \notin buff.left
      BY <2>2 DEF Refilled
    <2>5. Refilled'
      BY <1>0, <2>2, <2>3, <2>4 DEF Refilled, Counts
    <2> QED BY <2>2, <2>5 DEF Loaded, Up
  <1> QED
    BY <1>1, <1>2, <1>3, <1>4, <1>5, <1>6 DEF Load

(* What loadchat() has made of chat.txt when nobody has written meanwhile. *)
LEMMA LoadedAll ==
  ASSUME TypeOK, Loaded, LoadDone
  PROVE  /\ chat_messages = file.msgs
         /\ chat_readby = file.readby /\ chat_readby_real = file.readby
  <1>1. /\ Refilled /\ buff.msgs = <<>> /\ buff.left = {} /\ buff.half = {}
    BY DEF LoadDone, Loaded
  <1>2. /\ chat_messages \in Msgs /\ file.readby \in Counts
        /\ chat_readby \in Counts /\ chat_readby_real \in Counts
    BY DEF TypeOK
  <1>3. chat_messages = file.msgs
    BY <1>1, <1>2, ConcatEmptySeq DEF Refilled, Msgs
  <1>4. /\ chat_readby = file.readby /\ chat_readby_real = file.readby
    BY <1>1, <1>2 DEF Refilled, Counts
  <1> QED
    BY <1>3, <1>4

(* chat.txt is saved with every change of the log or of the read-by list.  *)
LEMMA LoadedKeeps ==
  ASSUME ~EarlyRequests, TypeOK, Held, Loaded, [Next]_vars
  PROVE  Loaded'
  <1>1. CASE \E c \in Clients : Get(c)
    <2>1. PICK c \in Clients : Get(c)
      BY <1>1
    <2>2. phase \in Up /\ UNCHANGED <<phase, chat_messages>>
      BY <2>1, ServingUp, GetStages
    <2>3. file' = [msgs |-> chat_messages, readby |-> chat_readby']
      BY <2>1, <2>2 DEF Loaded, Get, GetPark, GetReply, GetResume, GetExit, server,
                        Acknowledge, ReadbyAfter, savechat
    <2> QED BY <2>2, <2>3 DEF Loaded, Up
  <1>2. CASE \E c \in Clients : \/ Poll(c) \/ SpuriousWakeup(c) \/ LoseReply(c)
                                \/ Receive(c) \/ PhoneReopen(c)
    <2>1. UNCHANGED <<phase, server, file, buff>>
      BY <1>2, ClientStages
    <2> QED BY <2>1 DEF server, Loaded, Refilled
  <1>3. CASE Clear \/ \E m \in Texts : Write(m)
    <2>1. phase' \in Up
      BY <1>3, ServingUp DEF Clear, Write
    <2>2. file' = [msgs |-> chat_messages', readby |-> chat_readby']
      BY <1>3 DEF Clear, Write, savechat
    <2> QED BY <2>1, <2>2 DEF Loaded, Up
  <1>4. CASE Start \/ SetId \/ SetCount \/ Stopped \/ \E torn \in BOOLEAN : Crash(torn)
    BY <1>4 DEF Start, SetId, SetCount, Stopped, Crash, Wiped, Loaded, Up
  <1>5. CASE Load
    BY <1>5, LoadRefills
  <1>6. CASE LoadDone
    <2>1. phase' = "up" /\ UNCHANGED <<file, chat_messages, chat_readby>>
      BY <1>6 DEF LoadDone, server
    <2>2. file = [msgs |-> file.msgs, readby |-> file.readby]
      BY DEF TypeOK
    <2> QED BY <1>6, <2>1, <2>2, LoadedAll DEF Loaded
  <1>7. CASE Tick \/ Stop \/ ExitBroadcast \/ WriteIntent \/ UNCHANGED vars
    BY <1>7 DEF Tick, Stop, ExitBroadcast, WriteIntent, vars, server, Loaded, Refilled, Up
  <1> QED
    BY <1>1, <1>2, <1>3, <1>4, <1>5, <1>6, <1>7 DEF Next, Main

(* The tables of an empty log fit it.                                      *)
LEMMA ZeroBound == Len(<<>>) = 0 /\ \A u \in Users : Zero[u] = 0
  BY DEF Zero

(* The acknowledgement in getchatmessage() keeps the two read-by tables in *)
(* order.                                                                  *)
LEMMA ReadbyAfterBound ==
  ASSUME TypeOK, ReadBound, phase \in Up, NEW c \in Clients, NEW u \in Users
  PROVE  /\ ReadbyAfter(c)[u] <= chat_readby_real[u]
         /\ ReadbyAfter(c)[u] <= Len(chat_messages)
  <1>1. /\ UserOf(c) \in Users /\ Len(chat_messages) \in Nat
        /\ chat_readby \in Counts /\ chat_readby_real \in Counts
        /\ chat_readby[u] <= chat_readby_real[u]
        /\ chat_readby_real[u] <= Len(chat_messages)
    BY UserOfType, LenProperties DEF TypeOK, ReadBound, Msgs
  <1>2. ReadbyAfter(c)[u] \in {chat_readby[u], chat_readby_real[u]}
    BY <1>1 DEF ReadbyAfter, Counts
  <1> QED
    BY <1>1, <1>2 DEF Counts

(* The bookkeeping after a response: chat_readby_real grows, up to the     *)
(* size of the log.                                                        *)
LEMMA RespondBound ==
  ASSUME TypeOK, ReadBound, phase \in Up, NEW c \in Clients, NEW pos, NEW count,
         NEW readby, Respond(c, pos, count, readby), NEW u \in Users
  PROVE  /\ chat_readby_real[u] <= chat_readby_real'[u]
         /\ chat_readby_real'[u] <= Len(chat_messages)
  <1>1. /\ Len(chat_messages) \in Nat /\ chat_readby_real \in Counts
        /\ chat_readby_real[u] \in Nat
        /\ chat_readby_real[u] <= Len(chat_messages)
    BY LenProperties DEF TypeOK, ReadBound, Msgs, Counts
  <1>2. chat_readby_real'[u] \in {chat_readby_real[u], Len(chat_messages)}
    BY <1>1 DEF Respond, Counts
  <1> QED
    BY <1>1, <1>2

(* A poll keeps the read-by tables within the log.                         *)
LEMMA GetBound ==
  ASSUME TypeOK, TypeOK', ReadBound, phase \in Up, NEW c \in Clients, Get(c)
  PROVE  ReadBound'
  <1>0. UNCHANGED <<phase, chat_messages>> /\ Len(chat_messages) \in Nat
    BY GetStages, LenProperties DEF TypeOK, Msgs
  <1> SUFFICES ASSUME NEW u \in Users
               PROVE  /\ chat_readby'[u] <= chat_readby_real'[u]
                      /\ chat_readby_real'[u] <= Len(chat_messages)
    BY <1>0 DEF ReadBound
  <1>1. /\ chat_readby[u] \in Nat /\ chat_readby_real[u] \in Nat
        /\ chat_readby'[u] \in Nat /\ chat_readby_real'[u] \in Nat
        /\ chat_readby[u] <= chat_readby_real[u]
        /\ chat_readby_real[u] <= Len(chat_messages)
    BY DEF TypeOK, Counts, ReadBound
  <1>2. CASE GetPark(c)
    BY <1>1, <1>2, ReadbyAfterBound DEF GetPark, Acknowledge
  <1>3. CASE GetReply(c)
    <2>1. chat_readby'[u] <= chat_readby_real[u]
      BY <1>3, ReadbyAfterBound DEF GetReply, Acknowledge
    <2>2. /\ chat_readby_real[u] <= chat_readby_real'[u]
          /\ chat_readby_real'[u] <= Len(chat_messages)
      BY <1>3, RespondBound DEF GetReply
    <2> QED BY <1>1, <2>1, <2>2
  <1>4. CASE GetResume(c)
    <2>1. chat_readby' = chat_readby
      BY <1>4 DEF GetResume
    <2>2. /\ chat_readby_real[u] <= chat_readby_real'[u]
          /\ chat_readby_real'[u] <= Len(chat_messages)
      BY <1>4, RespondBound DEF GetResume
    <2> QED BY <1>1, <2>1, <2>2
  <1>5. CASE GetExit(c)
    BY <1>1, <1>5 DEF GetExit, server
  <1> QED
    BY <1>2, <1>3, <1>4, <1>5 DEF Get

(* A message more, no message at all, a log just loaded: the tables fit.   *)
LEMMA ReadBoundKeeps ==
  ASSUME ~EarlyRequests, TypeOK, TypeOK', Held, Loaded, ReadBound, FileBound, [Next]_vars
  PROVE  ReadBound'
  <1>1. CASE \E c \in Clients : Get(c)
    BY <1>1, ServingUp, GetBound
  <1>2. CASE \E c \in Clients : \/ Poll(c) \/ SpuriousWakeup(c) \/ LoseReply(c)
                                \/ Receive(c) \/ PhoneReopen(c)
    <2>1. UNCHANGED <<phase, server>>
      BY <1>2, ClientStages
    <2> QED BY <2>1 DEF server, ReadBound
  <1>3. CASE \E m \in Texts : Write(m)
    <2>1. PICK m \in Texts : Write(m)
      BY <1>3
    <2>2. /\ chat_messages' = Append(chat_messages, m) /\ phase \in Up
          /\ UNCHANGED <<phase, chat_readby, chat_readby_real>>
      BY <2>1, ServingUp DEF Write
    <2>3. /\ Len(chat_messages') = Len(chat_messages) + 1
          /\ Len(chat_messages) \in Nat /\ chat_readby_real \in Counts
      BY <2>2, AppendProperties, LenProperties DEF TypeOK, Msgs
    <2> QED BY <2>2, <2>3 DEF ReadBound, Counts
  <1>4. CASE Clear
    BY <1>4, ZeroBound DEF Clear, ReadBound
  <1>5. CASE LoadDone
    <2>1. /\ UNCHANGED <<chat_messages, chat_readby, chat_readby_real>>
          /\ file.readby \in Counts
      BY <1>5 DEF LoadDone, server, TypeOK
    <2> QED BY <1>5, <2>1, LoadedAll DEF FileBound, ReadBound, Counts
  <1>6. CASE \/ Start \/ SetId \/ SetCount \/ Load \/ Stopped
             \/ \E torn \in BOOLEAN : Crash(torn)
    BY <1>6, LoadFrame DEF Start, SetId, SetCount, Stopped, Crash, Wiped, ReadBound, Up, Booting
  <1>7. CASE Tick \/ Stop \/ ExitBroadcast \/ WriteIntent \/ UNCHANGED vars
    BY <1>7 DEF Tick, Stop, ExitBroadcast, WriteIntent, vars, server, ReadBound, Up
  <1> QED
    BY <1>1, <1>2, <1>3, <1>4, <1>5, <1>6, <1>7 DEF Next, Main

(* A file that savechat() has not finished credits nobody with more than   *)
(* it holds: the messages come before the credits.                         *)
LEMMA TornBound ==
  ASSUME NEW msgs \in Msgs, NEW readby \in Counts,
         \A u \in Users : readby[u] <= Len(msgs),
         NEW f \in Torn(msgs, readby), NEW u \in Users
  PROVE  f.readby[u] <= Len(f.msgs)
  <1>1. /\ f \in [msgs : Msgs, readby : Counts]
        /\ Len(f.msgs) \in Nat /\ Len(msgs) \in Nat
    BY TornType, LenProperties DEF Msgs
  <1>2. f.readby = Zero \/ (f.msgs = msgs /\ f.readby[u] \in {0, readby[u]})
    <2> DEFINE cut(n) == [msgs |-> SubSeq(msgs, 1, n), readby |-> Zero]
               garbled(n, m) == [msgs |-> Append(SubSeq(msgs, 1, n), m), readby |-> Zero]
               whole(done) == [msgs |-> msgs,
                               readby |-> [v \in Users |-> IF v \in done THEN readby[v] ELSE 0]]
               Good(g) == g.readby = Zero \/ (g.msgs = msgs /\ g.readby[u] \in {0, readby[u]})
    <2>1. Torn(msgs, readby) = {cut(n) : n \in 0..Len(msgs)}
             \cup {garbled(n, m) : n \in 0..(Len(msgs) - 1), m \in Texts}
             \cup {whole(done) : done \in SUBSET Users}
      BY DEF Torn
    <2>2. /\ \A n \in 0..Len(msgs) : Good(cut(n))
          /\ \A n \in 0..(Len(msgs) - 1), m \in Texts : Good(garbled(n, m))
          /\ \A done \in SUBSET Users : Good(whole(done))
      OBVIOUS
    <2> HIDE DEF cut, garbled, whole, Good
    <2>3. Good(f)
      BY <2>1, <2>2
    <2> QED BY <2>3 DEF Good
  <1> QED
    BY <1>1, <1>2, ZeroBound DEF Counts

(* What a kill leaves in chat.txt.                                         *)
LEMMA CrashBound ==
  ASSUME ~EarlyRequests, TypeOK, ReadBound, FileBound, NEW torn \in BOOLEAN, Crash(torn)
  PROVE  FileBound'
  <1>1. CASE ~torn
    BY <1>1 DEF Crash, FileBound
  <1>2. CASE torn
    <2>1. phase \in Up
      BY <1>2, ServingUp DEF Crash
    <2>2. PICK msgs \in {chat_messages}
                        \cup {Append(chat_messages, m) :
                               m \in IF Len(chat_messages) < MaxMsgs THEN Texts ELSE {}},
               readby \in {chat_readby}
                      \cup {ReadbyAfter(c) : c \in {d \in Clients : stage[d] \in {"sent", "entered"}}} :
                 file' \in Torn(msgs, readby)
      BY <1>2 DEF Crash
    <2>3. /\ Len(chat_messages) \in Nat /\ chat_messages \in Msgs
          /\ chat_readby \in Counts /\ chat_readby_real \in Counts
      BY LenProperties DEF TypeOK, Msgs
    <2>4. msgs \in Msgs /\ Len(msgs) \in Nat /\ Len(chat_messages) <= Len(msgs)
      <3>1. CASE msgs = chat_messages
        BY <2>3, <3>1
      <3>2. CASE \E m \in Texts : msgs = Append(chat_messages, m)
        BY <2>3, <3>2, AppendProperties DEF Msgs
      <3> QED BY <2>2, <3>1, <3>2
    <2>5. readby \in Counts /\ \A u \in Users : readby[u] <= Len(chat_messages)
      <3>1. CASE readby = chat_readby
        BY <2>1, <2>3, <3>1 DEF ReadBound, Counts
      <3>2. CASE \E c \in Clients : readby = ReadbyAfter(c)
        BY <2>1, <3>2, ReadbyAfterType, ReadbyAfterBound
      <3> QED BY <2>2, <3>1, <3>2
    <2>6. \A u \in Users : readby[u] <= Len(msgs)
      BY <2>3, <2>4, <2>5 DEF Counts
    <2> QED BY <2>2, <2>4, <2>5, <2>6, TornBound DEF FileBound
  <1> QED
    BY <1>1, <1>2

(* chat.txt is what fits in memory, and stays while the service is down.   *)
LEMMA FileBoundKeeps ==
  ASSUME ~EarlyRequests, TypeOK, TypeOK', Held, Loaded', ReadBound, ReadBound',
         FileBound, [Next]_vars
  PROVE  FileBound'
  <1>1. CASE phase' \in Up
    <2>1. file'.msgs = chat_messages' /\ file'.readby = chat_readby'
      BY <1>1 DEF Loaded
    <2>2. \A u \in Users : /\ chat_readby'[u] <= chat_readby_real'[u]
                           /\ chat_readby_real'[u] <= Len(chat_messages')
      BY <1>1 DEF ReadBound
    <2>3. /\ chat_readby' \in Counts /\ chat_readby_real' \in Counts
          /\ Len(chat_messages') \in Nat
      BY LenProperties DEF TypeOK, Msgs
    <2> QED BY <2>1, <2>2, <2>3 DEF FileBound, Counts
  <1>2. CASE \E torn \in BOOLEAN : Crash(torn)
    BY <1>2, CrashBound
  <1>3. CASE phase' \notin Up /\ ~\E torn \in BOOLEAN : Crash(torn)
    <2>1. CASE \E c \in Clients : Get(c)
      BY <1>3, <2>1, ServingUp, GetStages
    <2>2. CASE Clear \/ \E m \in Texts : Write(m)
      BY <1>3, <2>2, ServingUp DEF Clear, Write
    <2>3. CASE \E c \in Clients : \/ Poll(c) \/ SpuriousWakeup(c) \/ LoseReply(c)
                                  \/ Receive(c) \/ PhoneReopen(c)
      BY <2>3, ClientStages DEF FileBound
    <2>4. CASE Boots \/ Stopped \/ Tick \/ Stop \/ ExitBroadcast \/ WriteIntent \/ UNCHANGED vars
      <3>1. UNCHANGED file
        BY <2>4, BootFrame DEF Stopped, Tick, Stop, ExitBroadcast, WriteIntent, vars
      <3> QED BY <3>1 DEF FileBound
    <2> QED BY <1>3, <2>1, <2>2, <2>3, <2>4 DEF Next, Main, Boots
  <1> QED
    BY <1>1, <1>2, <1>3

\* What the bounds rest on.
BoundInv == IInv /\ Held /\ Loaded /\ ReadBound /\ FileBound

LEMMA InitBoundInv == Init => BoundInv
  <1>1. Init => Held /\ Loaded /\ ReadBound /\ FileBound
    BY ZeroBound DEF Init, Held, Loaded, Up, ReadBound, FileBound, NoFile
  <1> QED
    BY <1>1, InitIInv DEF BoundInv

LEMMA NextBoundInv ==
  ASSUME ~EarlyRequests
  PROVE  BoundInv /\ [Next]_vars => BoundInv'
  BY NextIInv, HeldKeeps, LoadedKeeps, ReadBoundKeeps, FileBoundKeeps DEF BoundInv, IInv

(* Nobody is ever said to have read more than the log holds: chat_readby,  *)
(* chat_readby_real and the size of chat_messages stay in order for every  *)
(* user of a service that has loaded chat.txt, provided that no request is *)
(* answered before loadchat() returns.                                     *)
THEOREM ChatReadBound ==
  ASSUME ~EarlyRequests
  PROVE  Spec => []ReadBound
  <1>1. BoundInv => ReadBound
    BY DEF BoundInv
  <1> QED
    BY <1>1, InitBoundInv, NextBoundInv, PTL DEF Spec

(* chat.txt, torn by a crash inside savechat() or not, never credits a     *)
(* user with messages it does not hold, provided that no request is        *)
(* answered before loadchat() returns.                                     *)
THEOREM ChatFileBound ==
  ASSUME ~EarlyRequests
  PROVE  Spec => []FileBound
  <1>1. BoundInv => FileBound
    BY DEF BoundInv
  <1> QED
    BY <1>1, InitBoundInv, NextBoundInv, PTL DEF Spec

(* When getchatmessage() parks, it parks on what is current.               *)
LEMMA ParkIsCurrent ==
  ASSUME TypeOK, NEW c \in Clients, GetPark(c)
  PROVE  /\ req'[c].random = chat_random'
         /\ req'[c].pos = Len(chat_messages')
         /\ req'[c].countpos = chat_count'
         /\ req'[c].random = req[c].random
  <1>1. /\ req[c].random = chat_random /\ Len(chat_messages) = Pos(c)
        /\ CountAfter(c) = CountPos(c)
    BY DEF GetPark, NothingNew, Known
  <1>2. /\ req'[c].random = req[c].random
        /\ req'[c].pos = Pos(c) /\ req'[c].countpos = CountPos(c)
    BY DEF GetPark, TypeOK
  <1>3. /\ UNCHANGED <<chat_random, chat_messages>>
        /\ chat_count' = CountAfter(c)
    BY DEF GetPark, Acknowledge
  <1> QED
    BY <1>1, <1>2, <1>3

(* What a parked poll has compared with stays what it was until the next   *)
(* broadcast.                                                              *)
LEMMA WaitKeeps ==
  ASSUME ~EarlyRequests, TypeOK, Held, NoStaleWait, [Next]_vars
  PROVE  NoStaleWait'
  <1>1. CASE \E c \in Clients : Get(c)
    <2>1. PICK c \in Clients : Get(c)
      BY <1>1
    <2>2. UNCHANGED <<chat_random, chat_messages>>
      BY <2>1, GetStages
    <2>3. \/ \A d \in Clients \ {c} : stage'[d] # "waiting"
          \/ UNCHANGED chat_count
      <3>1. CASE GetPark(c) \/ GetReply(c)
        <4>1. CASE Acks(c)
          BY <3>1, <4>1, BroadcastType DEF GetPark, GetReply, AfterAck, TypeOK
        <4>2. CASE ~Acks(c)
          BY <3>1, <4>2 DEF GetPark, GetReply, Acknowledge, CountAfter
        <4> QED BY <4>1, <4>2
      <3>2. CASE GetResume(c) \/ GetExit(c)
        BY <3>2 DEF GetResume, GetExit, server
      <3> QED BY <2>1, <3>1, <3>2 DEF Get
    <2>4. ASSUME NEW d \in Clients \ {c}, stage'[d] = "waiting"
          PROVE  /\ req'[d].random = chat_random'
                 /\ req'[d].pos = Len(chat_messages')
                 /\ req'[d].countpos = chat_count'
      BY <2>1, <2>2, <2>3, <2>4, GetStages DEF NoStaleWait
    <2>5. ASSUME stage'[c] = "waiting"
          PROVE  /\ req'[c].random = chat_random'
                 /\ req'[c].pos = Len(chat_messages')
                 /\ req'[c].countpos = chat_count'
      BY <2>1, <2>5, GetStages, ParkIsCurrent
    <2> QED BY <2>4, <2>5 DEF NoStaleWait
  <1>2. CASE \E c \in Clients : \/ Poll(c) \/ SpuriousWakeup(c) \/ LoseReply(c)
                                \/ Receive(c) \/ PhoneReopen(c)
    <2>1. PICK c \in Clients : \/ Poll(c) \/ SpuriousWakeup(c) \/ LoseReply(c)
                               \/ Receive(c) \/ PhoneReopen(c)
      BY <1>2
    <2>2. UNCHANGED server /\ \A d \in Clients \ {c} : stage'[d] = stage[d] /\ req'[d] = req[d]
      BY <2>1, ClientStages
    <2>3. stage'[c] = "waiting" => stage[c] = "waiting" /\ req'[c] = req[c]
      BY <2>1 DEF Poll, TabRequest, PhoneRequest, Refused, TabRetry, PhoneRetry,
                  SpuriousWakeup, LoseReply, Receive, PhoneReopen, TypeOK
    <2> QED BY <2>2, <2>3 DEF server, NoStaleWait
  <1>3. CASE \/ Clear \/ Tick \/ ExitBroadcast \/ \E m \in Texts : Write(m)
    <2>1. stage' = Broadcast
      BY <1>3 DEF Clear, Tick, ExitBroadcast, Write
    <2> QED BY <2>1, BroadcastType DEF NoStaleWait
  <1>4. CASE Boots
    <2>1. UNCHANGED stage /\ phase \notin Up
      BY <1>4, BootFrame
    <2> QED BY <2>1, ServingUp DEF Held, NoStaleWait
  <1>5. CASE Stopped \/ \E torn \in BOOLEAN : Crash(torn)
    <2>1. Hangup
      BY <1>5 DEF Stopped, Crash
    <2> QED BY <2>1 DEF Hangup, InServer, NoStaleWait
  <1>6. CASE Stop \/ WriteIntent \/ UNCHANGED vars
    <2>1. /\ UNCHANGED <<server, req>>
          /\ \A d \in Clients : stage'[d] = "waiting" => stage[d] = "waiting"
      BY <1>6 DEF Stop, WriteIntent, vars, clients
    <2> QED BY <2>1 DEF server, NoStaleWait
  <1> QED
    BY <1>1, <1>2, <1>3, <1>4, <1>5, <1>6 DEF Next, Main, Boots

(* chat.txt is the log whenever the service is up and between two critical *)
(* sections, provided that no request is answered before loadchat()        *)
(* returns.                                                                *)
THEOREM ChatFileIsCurrent ==
  ASSUME ~EarlyRequests
  PROVE  Spec => []FileIsCurrent
  <1>1. Init => Held /\ Loaded
    BY DEF Init, Held, Loaded, Up
  <1>2. IInv /\ Held /\ Loaded /\ [Next]_vars => Held' /\ Loaded'
    BY HeldKeeps, LoadedKeeps DEF IInv
  <1>3. Loaded => FileIsCurrent
    BY DEF Loaded, FileIsCurrent, Up
  <1> QED
    BY <1>1, <1>2, <1>3, InitIInv, NextIInv, PTL DEF Spec

(* No wake-up is lost: a worker parked in cond_wait has nothing to tell    *)
(* its client, although getchatmessage() waits without a loop, provided    *)
(* that no request is answered before loadchat() returns.                  *)
THEOREM ChatNoStaleWait ==
  ASSUME ~EarlyRequests
  PROVE  Spec => []NoStaleWait
  <1>1. Init => Held /\ NoStaleWait
    BY DEF Init, Held, NoStaleWait
  <1>2. IInv /\ Held /\ NoStaleWait /\ [Next]_vars => Held' /\ NoStaleWait'
    BY HeldKeeps, WaitKeeps DEF IInv
  <1> QED
    BY <1>1, <1>2, InitIInv, NextIInv, PTL DEF Spec
-----------------------------------------------------------------------------
(* The numbers chat_random is given.                                       *)

\* The ids of logs that client c, its poll and its response carry.
Numbers(c) == {view[c].id, reply[c].id, req[c].random}

\* Every id in use has been drawn, and a service that starts draws one that
\* nobody carries.
Ids ==
  /\ chat_random <= lastId
  /\ phase \notin {"down", "boot"} => chat_random # 0
  /\ \A c \in Clients : \A n \in Numbers(c) : n <= lastId
  /\ phase \in Booting \ {"boot"} =>
       \A c \in Clients : chat_random \notin Numbers(c)

(* The numbers of a client are natural.                                    *)
LEMMA NumbersType ==
  ASSUME TypeOK, NEW c \in Clients
  PROVE  Numbers(c) \subseteq Nat
  BY DEF TypeOK, Numbers

(* A response carries the current id; apart from that getchatmessage()     *)
(* only forgets the id a poll asked with.                                  *)
LEMMA GetNumbers ==
  ASSUME TypeOK, NEW c \in Clients, Get(c), NEW d \in Clients
  PROVE  Numbers(d)' \subseteq Numbers(d) \cup {0, chat_random}
  <1>1. view' = view
    BY GetStages
  <1>2. CASE d # c
    BY <1>1, <1>2, GetStages DEF Numbers
  <1>3. CASE GetPark(c) /\ d = c
    <2>1. req'[c].random = req[c].random /\ reply' = reply
      BY <1>3, ParkIsCurrent DEF GetPark
    <2> QED BY <1>1, <1>3, <2>1 DEF Numbers
  <1>4. CASE GetExit(c) /\ d = c
    <2>1. req'[c].random = 0 /\ reply' = reply
      BY <1>4 DEF GetExit, NoReq, TypeOK
    <2> QED BY <1>1, <1>4, <2>1 DEF Numbers
  <1>5. CASE (GetReply(c) \/ GetResume(c)) /\ d = c
    <2>1. PICK pos, count, readby : Respond(c, pos, count, readby)
      BY <1>5 DEF GetReply, GetResume
    <2>2. req'[c].random = 0 /\ reply'[c].id = chat_random
      BY <2>1 DEF Respond, NoReq, TypeOK
    <2> QED BY <1>1, <1>5, <2>2 DEF Numbers
  <1> QED
    BY <1>2, <1>3, <1>4, <1>5 DEF Get

(* A client makes no id up.                                                *)
LEMMA ClientNumbers ==
  ASSUME TypeOK, NEW c \in Clients, NEW d \in Clients,
         Poll(c) \/ SpuriousWakeup(c) \/ LoseReply(c) \/ Receive(c) \/ PhoneReopen(c)
  PROVE  Numbers(d)' \subseteq Numbers(d) \cup {0}
  <1>1. CASE d # c
    BY <1>1, ClientStages DEF Numbers
  <1>2. CASE d = c
    <2>1. CASE TabRequest(c) \/ PhoneRequest(c) \/ Refused(c) \/ PhoneRetry(c)
      BY <1>2, <2>1 DEF TabRequest, PhoneRequest, Refused, PhoneRetry, NoReq,
                        TypeOK, Numbers
    <2>2. CASE TabRetry(c)
      <3>1. view'[c].id = 0 /\ req'[c].random = 0 /\ reply' = reply
        BY <2>2 DEF TabRetry, NoReq, TypeOK
      <3> QED BY <1>2, <3>1 DEF Numbers
    <2>3. CASE SpuriousWakeup(c) \/ LoseReply(c) \/ Receive(c) \/ PhoneReopen(c)
      BY <1>2, <2>3 DEF SpuriousWakeup, LoseReply, Receive, PhoneReopen, NoReply,
                        TypeOK, Numbers
    <2> QED BY <2>1, <2>2, <2>3 DEF Poll
  <1> QED
    BY <1>1, <1>2

(* Ids are drawn, never guessed.                                           *)
LEMMA IdsKeep ==
  ASSUME ~EarlyRequests, TypeOK, Held, Ids, [Next]_vars
  PROVE  Ids'
  <1>0. lastId \in Nat /\ \A c \in Clients : Numbers(c) \subseteq Nat
    BY NumbersType DEF TypeOK
  <1>1. CASE \E c \in Clients : Get(c)
    <2>1. phase \in Up /\ UNCHANGED <<phase, lastId, chat_random>>
      BY <1>1, ServingUp, GetStages
    <2>2. \A d \in Clients : Numbers(d)' \subseteq Numbers(d) \cup {0, chat_random}
      BY <1>1, GetNumbers
    <2> QED BY <1>0, <2>1, <2>2 DEF Ids, Up, Booting
  <1>2. CASE \E c \in Clients : \/ Poll(c) \/ SpuriousWakeup(c) \/ LoseReply(c)
                                \/ Receive(c) \/ PhoneReopen(c)
    <2>1. UNCHANGED <<phase, lastId, chat_random>>
      BY <1>2, ClientStages DEF server
    <2>2. \A d \in Clients : Numbers(d)' \subseteq Numbers(d) \cup {0}
      BY <1>2, ClientNumbers
    <2> QED BY <1>0, <2>1, <2>2 DEF Ids, Booting
  <1>3. CASE \/ SetCount \/ Load \/ LoadDone \/ Tick \/ Stop \/ ExitBroadcast
             \/ WriteIntent \/ (\E m \in Texts : Write(m)) \/ UNCHANGED vars
    <2>1. /\ UNCHANGED <<lastId, chat_random>>
          /\ \A c \in Clients : Numbers(c)' = Numbers(c)
      BY <1>3, LoadFrame DEF SetCount, LoadDone, Tick, Stop, ExitBroadcast, Write,
                             WriteIntent, vars, server, clients, Numbers
    <2>2. /\ phase' \in Booting \ {"boot"} => phase \in Booting \ {"boot"}
          /\ phase' \notin {"down", "boot"} => phase \notin {"down", "boot"}
      <3>1. CASE Load
        BY <3>1 DEF Load, LoadClear, LoadClearReadby, LoadClearReal, LoadMeasure,
                    LoadRead, LoadMessage, LoadCredit, LoadReal, Booting
      <3>2. CASE ~Load
        BY <1>3, <3>2 DEF SetCount, LoadDone, Tick, Stop, ExitBroadcast, Write,
                          WriteIntent, vars, Booting
      <3> QED BY <3>1, <3>2
    <2> QED BY <2>1, <2>2 DEF Ids, Booting
  <1>4. CASE Start
    <2>1. /\ phase' = "boot" /\ lastId' = lastId + 1 /\ UNCHANGED chat_random
          /\ \A c \in Clients : Numbers(c)' = Numbers(c)
      BY <1>4 DEF Start, server, clients, Numbers
    <2>2. chat_random \in Nat
      BY DEF TypeOK
    <2> QED BY <1>0, <2>1, <2>2 DEF Ids, Booting
  <1>5. CASE SetId \/ Clear
    <2>1. /\ lastId' = lastId + 1 /\ chat_random' = lastId + 1
          /\ \A c \in Clients : Numbers(c)' = Numbers(c)
      BY <1>5 DEF SetId, Clear, clients, Numbers
    <2> QED BY <1>0, <2>1 DEF Ids, Booting
  <1>6. CASE Stopped \/ \E torn \in BOOLEAN : Crash(torn)
    <2>1. phase' = "down" /\ UNCHANGED lastId /\ chat_random' = 0
      BY <1>6 DEF Stopped, Crash, Wiped
    <2>2. \A c \in Clients : Numbers(c)' \subseteq Numbers(c) \cup {0}
      BY <1>6 DEF Stopped, Crash, Hangup, NoReq, Numbers
    <2> QED BY <1>0, <2>1, <2>2 DEF Ids, Booting
  <1> QED
    BY <1>1, <1>2, <1>3, <1>4, <1>5, <1>6 DEF Next, Main
-----------------------------------------------------------------------------
(* What a tab asks for and what it shows.                                  *)

\* A poll of a tab asks with the id the tab shows and, unless the tab has
\* forgotten it, from the end of what the tab shows.
Asked ==
  \A c \in Tabs : stage[c] \in InServer =>
                    /\ req[c].random = view[c].id
                    /\ view[c].id # 0 => req[c].pos = Len(view[c].msgs)

\* What a tab shows, and will show when the response reaches it.
Shows ==
  phase \in Up => \A c \in Tabs :
    /\ view[c].id = chat_random => IsPrefix(view[c].msgs, chat_messages)
    /\ stage[c] = "reply" /\ reply[c].id = chat_random
         => IsPrefix(Displayed(c), chat_messages)

(* A tab is not a phone, and its account is not the phone's.               *)
LEMMA TabFacts ==
  ASSUME NEW c \in Tabs
  PROVE  /\ c \in Clients /\ c \notin Phones
         /\ UserOf(c) \in Users /\ UserOf(c) # PhoneUser
  BY ChatAssumption, UserOfType DEF Clients, UserOf

(* A broadcast leaves a poll where it is, but for the parked ones.         *)
LEMMA BroadcastStages ==
  ASSUME NEW c \in Clients
  PROVE  /\ Broadcast[c] \in InServer <=> stage[c] \in InServer
         /\ \A s \in {"idle", "reply", "failed"} : Broadcast[c] = s <=> stage[c] = s
  BY DEF Broadcast, InServer

(* The steps that touch no client's view, response or request: stages move *)
(* within the server at most.                                              *)
LEMMA QuietStages ==
  ASSUME \/ Boots \/ Tick \/ Stop \/ ExitBroadcast \/ WriteIntent \/ Clear
         \/ (\E m \in Texts : Write(m)) \/ UNCHANGED vars
  PROVE  /\ UNCHANGED <<req, reply, view>>
         /\ \A c \in Clients :
              /\ stage'[c] \in InServer <=> stage[c] \in InServer
              /\ \A s \in {"idle", "reply", "failed"} : stage'[c] = s <=> stage[c] = s
  <1>1. CASE Boots \/ WriteIntent \/ UNCHANGED vars
    BY <1>1, BootFrame DEF WriteIntent, vars, clients
  <1>2. CASE Tick \/ ExitBroadcast \/ Clear \/ \E m \in Texts : Write(m)
    BY <1>2, BroadcastStages DEF Tick, ExitBroadcast, Clear, Write
  <1>3. CASE Stop
    BY <1>3 DEF Stop, InServer
  <1> QED
    BY <1>1, <1>2, <1>3

(* Another client's poll is not touched by getchatmessage(), but for being *)
(* woken.                                                                  *)
LEMMA OthersStages ==
  ASSUME TypeOK, NEW c \in Clients, Get(c), NEW d \in Clients \ {c}
  PROVE  /\ view'[d] = view[d] /\ req'[d] = req[d] /\ reply'[d] = reply[d]
         /\ Displayed(d)' = Displayed(d)
         /\ stage'[d] \in InServer <=> stage[d] \in InServer
         /\ \A s \in {"idle", "reply", "failed"} : stage'[d] = s <=> stage[d] = s
  <1>1. /\ view'[d] = view[d] /\ req'[d] = req[d] /\ reply'[d] = reply[d]
        /\ stage'[d] = stage[d] \/ (stage[d] = "waiting" /\ stage'[d] = "woken")
    BY GetStages
  <1> QED
    BY <1>1 DEF Displayed, InServer

(* A tab asks for what it does not show.                                   *)
LEMMA AskedKeeps ==
  ASSUME TypeOK, Asked, [Next]_vars
  PROVE  Asked'
  <1> SUFFICES ASSUME NEW c \in Tabs, stage'[c] \in InServer
               PROVE  /\ req'[c].random = view'[c].id
                      /\ view'[c].id # 0 => req'[c].pos = Len(view'[c].msgs)
    BY DEF Asked
  <1>0. c \in Clients /\ c \notin Phones
    BY TabFacts
  <1>1. CASE \E d \in Clients : Get(d)
    <2>1. PICK d \in Clients : Get(d)
      BY <1>1
    <2>2. CASE d # c
      BY <1>0, <2>1, <2>2, OthersStages DEF Asked
    <2>3. CASE d = c
      <3>1. GetPark(c)
        BY <1>0, <2>1, <2>3, GetStages DEF InServer
      <3>2. /\ req[c].random = view[c].id
            /\ view[c].id # 0 => req[c].pos = Len(view[c].msgs)
        BY <3>1 DEF GetPark, Asked, InServer
      <3>3. view' = view /\ req'[c].random = req[c].random /\ req'[c].pos = Pos(c)
        BY <1>0, <3>1 DEF GetPark, TypeOK
      <3>4. Len(view[c].msgs) \in Nat
        BY <1>0, LenProperties DEF TypeOK, Msgs
      <3> QED BY <3>2, <3>3, <3>4 DEF Pos
    <2> QED BY <2>2, <2>3
  <1>2. CASE \E d \in Clients : \/ Poll(d) \/ SpuriousWakeup(d) \/ LoseReply(d)
                                \/ Receive(d) \/ PhoneReopen(d)
    <2>1. PICK d \in Clients : \/ Poll(d) \/ SpuriousWakeup(d) \/ LoseReply(d)
                               \/ Receive(d) \/ PhoneReopen(d)
      BY <1>2
    <2>2. CASE d # c
      BY <1>0, <2>1, <2>2, ClientStages DEF Asked
    <2>3. CASE d = c /\ TabRequest(c)
      BY <1>0, <2>3 DEF TabRequest, TypeOK
    <2>4. CASE d = c /\ TabRetry(c)
      <3>1. view'[c].id = 0 /\ req'[c].random = 0
        BY <1>0, <2>4 DEF TabRetry, NoReq, TypeOK
      <3> QED BY <3>1
    <2>5. CASE d = c /\ (Refused(c) \/ SpuriousWakeup(c) \/ LoseReply(c) \/ Receive(c))
      BY <1>0, <2>5 DEF Refused, SpuriousWakeup, LoseReply, Receive, InServer, TypeOK, Asked
    <2>6. ~PhoneRequest(c) /\ ~PhoneRetry(c) /\ ~PhoneReopen(c)
      BY <1>0 DEF PhoneRequest, PhoneRetry, PhoneReopen
    <2> QED BY <2>1, <2>2, <2>3, <2>4, <2>5, <2>6 DEF Poll
  <1>3. CASE Stopped \/ \E torn \in BOOLEAN : Crash(torn)
    BY <1>0, <1>3 DEF Stopped, Crash, Hangup, InServer
  <1>4. CASE \/ Boots \/ Tick \/ Stop \/ ExitBroadcast \/ WriteIntent \/ Clear
             \/ (\E m \in Texts : Write(m)) \/ UNCHANGED vars
    <2>1. UNCHANGED <<req, view>> /\ stage[c] \in InServer
      BY <1>0, <1>4, QuietStages
    <2> QED BY <2>1 DEF Asked
  <1> QED
    BY <1>1, <1>2, <1>3, <1>4 DEF Next, Main, Boots

(* A response brings a tab up to date: with it, the tab shows the log.     *)
LEMMA ReplyCompletes ==
  ASSUME TypeOK, Ids, Asked, Shows, phase \in Up, NEW c \in Tabs,
         GetReply(c) \/ GetResume(c)
  PROVE  /\ reply'[c].id = chat_random
         /\ Displayed(c)' = chat_messages
  <1>0. c \in Clients /\ chat_random # 0
    BY TabFacts DEF Ids, Up
  <1>1. PICK pos, count, readby :
          /\ Respond(c, pos, count, readby)
          /\ req[c].pos # -1 => pos = req[c].pos
    BY DEF GetReply, GetResume, Pos
  <1>2. stage[c] \in InServer /\ view' = view
    BY DEF GetReply, GetResume, InServer
  <1>3. /\ req[c].random = view[c].id
        /\ view[c].id # 0 => req[c].pos = Len(view[c].msgs)
    BY <1>2 DEF Asked
  <1>4. /\ reply'[c].id = chat_random
        /\ reply'[c].msgs = SubSeq(chat_messages, From(c, pos) + 1, Len(chat_messages))
    BY <1>0, <1>1 DEF Respond, TypeOK
  <1>5. /\ chat_messages \in Msgs /\ view[c].msgs \in Msgs
        /\ Len(chat_messages) \in Nat /\ Len(view[c].msgs) \in Nat
    BY <1>0, LenProperties DEF TypeOK, Msgs
  <1>6. CASE Known(c)
    <2>1. view[c].id = chat_random /\ From(c, pos) = Len(view[c].msgs)
      BY <1>0, <1>1, <1>3, <1>5, <1>6 DEF Known, From
    <2>2. IsPrefix(view[c].msgs, chat_messages)
      BY <2>1 DEF Shows
    <2>3. Displayed(c)' = view[c].msgs \o reply'[c].msgs
      BY <1>2, <1>4, <2>1 DEF Displayed
    <2> QED BY <1>4, <1>5, <2>1, <2>2, <2>3, PrefixAndRest
  <1>7. CASE ~Known(c)
    <2>1. view[c].id # chat_random /\ From(c, pos) = 0
      BY <1>3, <1>7 DEF Known, From
    <2>2. Displayed(c)' = reply'[c].msgs
      BY <1>2, <1>4, <2>1 DEF Displayed
    <2>3. reply'[c].msgs = SubSeq(chat_messages, 1, Len(chat_messages))
      BY <1>4, <2>1
    <2>4. SubSeq(chat_messages, 1, Len(chat_messages)) = chat_messages
      BY <1>5, SubSeqFull DEF Msgs
    <2> QED BY <1>4, <2>2, <2>3, <2>4
  <1> QED
    BY <1>6, <1>7

(* Polls that cross writes, clears and lost responses never make a tab     *)
(* show something else than a prefix of the log.                           *)
LEMMA ShowsKeep ==
  ASSUME ~EarlyRequests, TypeOK, Held, Ids, Asked, Shows, [Next]_vars
  PROVE  Shows'
  <1> SUFFICES ASSUME NEW c \in Tabs, phase' \in Up
               PROVE  /\ view'[c].id = chat_random' => IsPrefix(view'[c].msgs, chat_messages')
                      /\ stage'[c] = "reply" /\ reply'[c].id = chat_random'
                           => IsPrefix(Displayed(c)', chat_messages')
    BY DEF Shows
  <1>0. c \in Clients /\ c \notin Phones
    BY TabFacts
  <1>a. chat_messages \in Msgs /\ view[c].msgs \in Msgs /\ Displayed(c) \in Msgs
    <2>1. view[c].msgs \in Msgs /\ reply[c].msgs \in Msgs
      BY <1>0 DEF TypeOK
    <2> QED BY <2>1, ConcatProperties DEF Displayed, Msgs, TypeOK
  <1>1. CASE \E d \in Clients : Get(d)
    <2>1. PICK d \in Clients : Get(d)
      BY <1>1
    <2>2. phase \in Up /\ UNCHANGED <<chat_random, chat_messages, view>>
      BY <2>1, ServingUp, GetStages
    <2>3. CASE d # c
      BY <1>0, <2>1, <2>2, <2>3, OthersStages DEF Shows
    <2>4. CASE d = c
      <3>1. stage'[c] = "reply" => GetReply(c) \/ GetResume(c)
        BY <1>0, <2>1, <2>4, GetStages
      <3> QED BY <1>a, <2>2, <3>1, ReplyCompletes, PrefixSelf DEF Shows
    <2> QED BY <2>3, <2>4
  <1>2. CASE \E d \in Clients : \/ Poll(d) \/ SpuriousWakeup(d) \/ LoseReply(d)
                                \/ Receive(d) \/ PhoneReopen(d)
    <2>1. PICK d \in Clients : \/ Poll(d) \/ SpuriousWakeup(d) \/ LoseReply(d)
                               \/ Receive(d) \/ PhoneReopen(d)
      BY <1>2
    <2>2. UNCHANGED <<phase, chat_random, chat_messages>>
      BY <2>1, ClientStages DEF server
    <2>3. chat_random # 0
      BY <2>2 DEF Ids, Up
    <2>4. CASE d # c
      <3>1. /\ stage'[c] = stage[c] /\ reply'[c] = reply[c] /\ view'[c] = view[c]
        BY <1>0, <2>1, <2>4, ClientStages
      <3>2. Displayed(c)' = Displayed(c)
        BY <3>1 DEF Displayed
      <3> QED BY <2>2, <3>1, <3>2 DEF Shows
    <2>5. CASE d = c /\ TabRetry(c)
      <3>1. view'[c].id = 0 /\ stage'[c] = "sent"
        BY <1>0, <2>5 DEF TabRetry, TypeOK
      <3> QED BY <2>2, <2>3, <3>1
    <2>6. CASE d = c /\ Receive(c)
      <3>1. /\ stage[c] = "reply" /\ stage'[c] = "idle"
            /\ view'[c].id = reply[c].id /\ view'[c].msgs = Displayed(c)
        BY <1>0, <2>6 DEF Receive, TypeOK
      <3> QED BY <2>2, <3>1 DEF Shows
    <2>7. CASE d = c /\ (TabRequest(c) \/ Refused(c) \/ SpuriousWakeup(c) \/ LoseReply(c))
      <3>1. view' = view /\ stage'[c] # "reply"
        BY <1>0, <2>7 DEF TabRequest, Refused, SpuriousWakeup, LoseReply, TypeOK
      <3> QED BY <2>2, <3>1 DEF Shows
    <2>8. ~PhoneRequest(c) /\ ~PhoneRetry(c) /\ ~PhoneReopen(c)
      BY <1>0 DEF PhoneRequest, PhoneRetry, PhoneReopen
    <2> QED BY <2>1, <2>4, <2>5, <2>6, <2>7, <2>8 DEF Poll
  <1>3. CASE \E m \in Texts : Write(m)
    <2>1. PICK m \in Texts : Write(m)
      BY <1>3
    <2>2. /\ phase \in Up /\ UNCHANGED chat_random
          /\ chat_messages' = Append(chat_messages, m)
      BY <1>3, <2>1, ServingUp DEF Write
    <2>3. UNCHANGED <<reply, view>> /\ Displayed(c)' = Displayed(c)
      BY <1>3, QuietStages DEF Displayed
    <2>4. stage'[c] = "reply" => stage[c] = "reply"
      BY <1>0, <1>3, QuietStages
    <2> QED BY <1>a, <2>2, <2>3, <2>4, PrefixAppend DEF Shows
  <1>4. CASE Clear \/ LoadDone
    <2>1. /\ UNCHANGED <<reply, view>>
          /\ chat_random' \notin {view[c].id, reply[c].id}
      <3>1. CASE Clear
        BY <1>0, <3>1, NumbersType DEF Clear, Ids, Numbers, TypeOK
      <3>2. CASE LoadDone
        BY <1>0, <3>2 DEF LoadDone, server, clients, Ids, Numbers, Booting
      <3> QED BY <1>4, <3>1, <3>2
    <2> QED BY <2>1
  <1>5. CASE Tick \/ Stop \/ ExitBroadcast \/ WriteIntent \/ UNCHANGED vars
    <2>1. UNCHANGED <<reply, view>> /\ Displayed(c)' = Displayed(c)
      BY <1>5, QuietStages DEF Displayed
    <2>2. stage'[c] = "reply" => stage[c] = "reply"
      BY <1>0, <1>5, QuietStages
    <2>3. phase \in Up /\ UNCHANGED <<chat_random, chat_messages>>
      BY <1>5 DEF Tick, Stop, ExitBroadcast, WriteIntent, vars, server, Up
    <2> QED BY <2>1, <2>2, <2>3 DEF Shows
  <1>6. CASE \/ Start \/ SetId \/ SetCount \/ Load \/ Stopped
             \/ \E torn \in BOOLEAN : Crash(torn)
    BY <1>6, LoadFrame DEF Start, SetId, SetCount, Stopped, Crash, Wiped, Up, Booting
  <1> QED
    BY <1>1, <1>2, <1>3, <1>4, <1>5, <1>6 DEF Next, Main

\* What the proofs about tabs rest on.
TabInv == BoundInv /\ Ids /\ Asked /\ Shows

LEMMA InitTabInv == Init => TabInv
  <1>1. Init => Held /\ Loaded /\ Asked /\ Shows
    BY TabFacts DEF Init, Held, Loaded, Asked, Shows, InServer, Up
  <1>2. Init => Ids
    BY DEF Init, Ids, Booting, Numbers, NoReply, NoReq
  <1> QED
    BY <1>1, <1>2, InitBoundInv DEF TabInv

LEMMA NextTabInv ==
  ASSUME ~EarlyRequests
  PROVE  TabInv /\ [Next]_vars => TabInv'
  BY NextBoundInv, IdsKeep, AskedKeeps, ShowsKeep DEF TabInv, BoundInv, IInv

(* What a tab shows under the current id is a prefix of the log, whatever  *)
(* writes, clears, lost responses, crashes and restarts its polls crossed, *)
(* provided that no request is answered before loadchat() returns.         *)
THEOREM ChatTabShowsPrefix ==
  ASSUME ~EarlyRequests
  PROVE  Spec => []TabShowsPrefix
  <1>1. ASSUME TabInv PROVE TabShowsPrefix
    <2> SUFFICES ASSUME NEW c \in Tabs, view[c].id = chat_random,
                        phase \notin {"down", "boot"}
                 PROVE  IsPrefix(view[c].msgs, chat_messages)
      BY DEF TabShowsPrefix
    <2>1. phase \notin Booting \ {"boot"}
      BY <1>1, TabFacts DEF TabInv, Ids, Booting, Numbers
    <2>2. phase \in Up
      BY <1>1, <2>1 DEF TabInv, BoundInv, IInv, TypeOK, Phases, Booting, Up
    <2> QED BY <1>1, <2>2 DEF TabInv, Shows
  <1> QED
    BY <1>1, InitTabInv, NextTabInv, PTL DEF Spec
-----------------------------------------------------------------------------
(* The read-by list a tab shows.                                           *)

\* A list under the current id is no newer than the service's, and under the
\* current counter it is the service's.
Dated(list) ==
  list.id = chat_random => /\ list.count <= chat_count
                           /\ list.count = chat_count => list.readby = chat_readby

Versions ==
  phase \in Up => \A c \in Tabs : /\ Dated(view[c])
                                  /\ stage[c] = "reply" => Dated(reply[c])

(* The counter moves whenever the list does.                               *)
LEMMA AckDates ==
  ASSUME TypeOK, NEW c \in Clients, Get(c), NEW list, list.count \in Int, Dated(list)
  PROVE  Dated(list)'
  <1>1. UNCHANGED chat_random /\ chat_count \in Nat
    BY GetStages DEF TypeOK
  <1>2. \/ chat_count' = chat_count + 1
        \/ UNCHANGED <<chat_count, chat_readby>>
    BY DEF Get, GetPark, GetReply, GetResume, GetExit, Acknowledge, CountAfter,
           ReadbyAfter, server
  <1> QED
    BY <1>1, <1>2 DEF Dated

(* A response to a tab carries the list and the counter as they are.       *)
LEMMA ReplyIsDated ==
  ASSUME TypeOK, NEW c \in Tabs, GetReply(c) \/ GetResume(c)
  PROVE  Dated(reply[c])'
  <1>0. c \in Clients /\ UserOf(c) # PhoneUser
    BY TabFacts
  <1>1. /\ Respond(c, IF GetReply(c) THEN Pos(c) ELSE req[c].pos, chat_count', chat_readby')
        /\ chat_count' \in Nat /\ chat_readby' \in Counts
    <2>1. CASE GetReply(c)
      BY <1>0, <2>1, PosType, ReadbyAfterType DEF GetReply, Acknowledge
    <2>2. CASE ~GetReply(c)
      BY <2>2 DEF GetResume, TypeOK
    <2> QED BY <2>1, <2>2
  <1>2. /\ reply'[c].count = chat_count'
        /\ reply'[c].readby = [v \in Users |-> chat_readby'[v]]
    BY <1>0, <1>1 DEF Respond, TypeOK
  <1>3. reply'[c].readby = chat_readby'
    BY <1>1, <1>2 DEF Counts
  <1> QED
    BY <1>1, <1>2, <1>3 DEF Dated

(* Lists grow old on the wire and in the tabs, and their counters with     *)
(* them.                                                                   *)
LEMMA VersionsKeep ==
  ASSUME ~EarlyRequests, TypeOK, ReadBound, Held, Ids, Versions, [Next]_vars
  PROVE  Versions'
  <1> SUFFICES ASSUME NEW c \in Tabs, phase' \in Up
               PROVE  Dated(view[c])' /\ (stage'[c] = "reply" => Dated(reply[c])')
    BY DEF Versions
  <1>0. c \in Clients /\ c \notin Phones
    BY TabFacts
  <1>a. view[c].count \in Int /\ reply[c].count \in Int
    BY <1>0 DEF TypeOK
  <1>1. CASE \E d \in Clients : Get(d)
    <2>1. PICK d \in Clients : Get(d)
      BY <1>1
    <2>2. phase \in Up /\ view' = view
      BY <2>1, ServingUp, GetStages
    <2>3. Dated(view[c])'
      BY <1>a, <2>1, <2>2, AckDates DEF Versions, Dated
    <2>4. ASSUME stage'[c] = "reply", d # c PROVE Dated(reply[c])'
      <3>1. stage[c] = "reply" /\ reply'[c] = reply[c]
        BY <1>0, <2>1, <2>4, OthersStages
      <3> QED BY <1>a, <2>1, <2>2, <3>1, AckDates DEF Versions, Dated
    <2>5. ASSUME stage'[c] = "reply", d = c PROVE Dated(reply[c])'
      <3>1. GetReply(c) \/ GetResume(c)
        BY <1>0, <2>1, <2>5, GetStages
      <3> QED BY <3>1, ReplyIsDated
    <2> QED BY <2>3, <2>4, <2>5
  <1>2. CASE \E d \in Clients : \/ Poll(d) \/ SpuriousWakeup(d) \/ LoseReply(d)
                                \/ Receive(d) \/ PhoneReopen(d)
    <2>1. PICK d \in Clients : \/ Poll(d) \/ SpuriousWakeup(d) \/ LoseReply(d)
                               \/ Receive(d) \/ PhoneReopen(d)
      BY <1>2
    <2>2. UNCHANGED <<phase, chat_random, chat_count, chat_readby>>
      BY <2>1, ClientStages DEF server
    <2>3. chat_random # 0
      BY <2>2 DEF Ids, Up
    <2>4. CASE d # c
      <3>1. /\ stage'[c] = stage[c] /\ reply'[c] = reply[c] /\ view'[c] = view[c]
        BY <1>0, <2>1, <2>4, ClientStages
      <3> QED BY <2>2, <3>1 DEF Versions, Dated
    <2>5. CASE d = c /\ TabRetry(c)
      <3>1. view'[c].id = 0 /\ stage'[c] = "sent"
        BY <1>0, <2>5 DEF TabRetry, TypeOK
      <3> QED BY <2>2, <2>3, <3>1 DEF Dated
    <2>6. CASE d = c /\ Receive(c)
      <3>1. /\ stage[c] = "reply" /\ stage'[c] = "idle"
            /\ view'[c].id = reply[c].id /\ view'[c].count = reply[c].count
            /\ view'[c].readby = reply[c].readby
        BY <1>0, <2>6 DEF Receive, TypeOK
      <3> QED BY <2>2, <3>1 DEF Versions, Dated
    <2>7. CASE d = c /\ (TabRequest(c) \/ Refused(c) \/ SpuriousWakeup(c) \/ LoseReply(c))
      <3>1. view' = view /\ stage'[c] # "reply"
        BY <1>0, <2>7 DEF TabRequest, Refused, SpuriousWakeup, LoseReply, TypeOK
      <3> QED BY <2>2, <3>1 DEF Versions, Dated
    <2>8. ~PhoneRequest(c) /\ ~PhoneRetry(c) /\ ~PhoneReopen(c)
      BY <1>0 DEF PhoneRequest, PhoneRetry, PhoneReopen
    <2> QED BY <2>1, <2>4, <2>5, <2>6, <2>7, <2>8 DEF Poll
  <1>3. CASE Clear \/ LoadDone
    <2>1. /\ UNCHANGED <<reply, view>>
          /\ chat_random' \notin {view[c].id, reply[c].id}
      <3>1. CASE Clear
        BY <1>0, <3>1, NumbersType DEF Clear, Ids, Numbers, TypeOK
      <3>2. CASE LoadDone
        BY <1>0, <3>2 DEF LoadDone, server, clients, Ids, Numbers, Booting
      <3> QED BY <1>3, <3>1, <3>2
    <2> QED BY <2>1 DEF Dated
  <1>4. CASE \/ Tick \/ Stop \/ ExitBroadcast \/ WriteIntent
             \/ (\E m \in Texts : Write(m)) \/ UNCHANGED vars
    <2>1. /\ UNCHANGED <<reply, view>>
          /\ stage'[c] = "reply" => stage[c] = "reply"
      BY <1>0, <1>4, QuietStages
    <2>2. UNCHANGED <<chat_random, chat_count, chat_readby>>
      BY <1>4 DEF Tick, Stop, ExitBroadcast, WriteIntent, Write, vars, server
    <2>3. phase \in Up
      BY <1>4 DEF Tick, Stop, ExitBroadcast, WriteIntent, Write, vars, Up
    <2> QED BY <2>1, <2>2, <2>3 DEF Versions, Dated
  <1>5. CASE \/ Start \/ SetId \/ SetCount \/ Load \/ Stopped
             \/ \E torn \in BOOLEAN : Crash(torn)
    BY <1>5, LoadFrame DEF Start, SetId, SetCount, Stopped, Crash, Wiped, Up, Booting
  <1> QED
    BY <1>1, <1>2, <1>3, <1>4, <1>5 DEF Next, Main

(* A tab that holds the current id and the current counter shows the       *)
(* current read-by list, so its poll may be parked on the counter alone,   *)
(* provided that no request is answered before loadchat() returns.         *)
THEOREM ChatCountIsVersion ==
  ASSUME ~EarlyRequests
  PROVE  Spec => []CountIsVersion
  <1>1. Init => Versions
    BY DEF Init, Versions, Up
  <1>2. TabInv /\ Versions /\ [Next]_vars => Versions'
    BY VersionsKeep DEF TabInv, BoundInv, IInv
  <1>3. ASSUME TabInv, Versions PROVE CountIsVersion
    <2> SUFFICES ASSUME NEW c \in Tabs, view[c].id = chat_random,
                        view[c].count = chat_count, phase \notin {"down", "boot"}
                 PROVE  view[c].readby = chat_readby
      BY DEF CountIsVersion
    <2>1. phase \notin Booting \ {"boot"}
      BY <1>3, TabFacts DEF TabInv, Ids, Booting, Numbers
    <2>2. phase \in Up
      BY <1>3, <2>1 DEF TabInv, BoundInv, IInv, TypeOK, Phases, Booting, Up
    <2> QED BY <1>3, <2>2 DEF Versions, Dated
  <1> QED
    BY <1>1, <1>2, <1>3, InitTabInv, NextTabInv, PTL DEF Spec
-----------------------------------------------------------------------------
(* Who has read what.                                                      *)

\* No other client chats under the name of c.
Alone(c) == \A d \in Clients \ {c} : UserOf(d) # UserOf(c)

\* The user of a single tab is credited in chat.txt with what the tab has
\* shown; what the next poll will acknowledge the tab has shown too, or has
\* it in the response on the wire.
CreditOf(c) ==
  LET u == UserOf(c) IN
  /\ file.readby[u] <= shown[u]
  /\ phase \in Up /\ view[c].id = chat_random /\ stage[c] \in {"idle"} \cup InServer
       => chat_readby_real[u] <= shown[u]
  /\ phase \in Up /\ stage[c] = "reply" /\ reply[c].id = chat_random
       => \/ chat_readby_real[u] <= shown[u]
          \/ chat_readby_real[u] <= Len(Displayed(c))

Credit == \A c \in Tabs : Alone(c) => CreditOf(c)

(* The numbers these comparisons are about.                                *)
LEMMA CreditTypes ==
  ASSUME TypeOK, NEW u \in Users
  PROVE  /\ chat_readby[u] \in Nat /\ chat_readby_real[u] \in Nat
         /\ shown[u] \in Nat /\ file.readby[u] \in Nat
  BY DEF TypeOK, Counts

(* What a poll acknowledges, its tab has shown.                            *)
LEMMA AckedShown ==
  ASSUME TypeOK, Loaded, Asked, phase \in Up, NEW c \in Tabs, Alone(c), CreditOf(c),
         NEW d \in Clients, stage[d] \in InServer
  PROVE  ReadbyAfter(d)[UserOf(c)] <= shown[UserOf(c)]
  <1>0. UserOf(c) \in Users
    BY TabFacts
  <1>1. chat_readby = file.readby /\ chat_readby \in Counts
    BY DEF Loaded, TypeOK
  <1>2. CASE d # c \/ ~Acks(d)
    <2>1. ReadbyAfter(d)[UserOf(c)] = chat_readby[UserOf(c)]
      BY <1>1, <1>2 DEF ReadbyAfter, Alone, Counts
    <2> QED BY <1>1, <2>1 DEF CreditOf
  <1>3. CASE d = c /\ Acks(c)
    <2>1. view[c].id = chat_random
      BY <1>3 DEF Acks, Known, Asked
    <2>2. chat_readby_real[UserOf(c)] <= shown[UserOf(c)]
      BY <1>3, <2>1 DEF CreditOf
    <2>3. ReadbyAfter(d)[UserOf(c)] = chat_readby_real[UserOf(c)]
      BY <1>0, <1>1, <1>3 DEF ReadbyAfter, Counts
    <2> QED BY <2>2, <2>3
  <1> QED
    BY <1>2, <1>3

(* A poll acknowledges what its tab has shown, and its response carries    *)
(* what the next poll will acknowledge.                                    *)
LEMMA GetCredits ==
  ASSUME ~EarlyRequests, TabInv, TabInv', NEW c \in Tabs, Alone(c), CreditOf(c),
         NEW d \in Clients, Get(d)
  PROVE  CreditOf(c)'
  <1> DEFINE u == UserOf(c)
  <1>0. /\ c \in Clients /\ u \in Users
        /\ TypeOK /\ TypeOK' /\ ReadBound' /\ Held /\ Loaded /\ Ids /\ Asked /\ Shows
    BY TabFacts DEF TabInv, BoundInv, IInv
  <1>1. phase \in Up /\ UNCHANGED <<phase, chat_random, chat_messages, view, shown>>
    BY <1>0, ServingUp, GetStages
  <1>2. file'.readby[u] <= shown[u]
    <2>1. CASE UNCHANGED file
      BY <2>1 DEF CreditOf
    <2>2. CASE ~UNCHANGED file
      <3>1. /\ file'.readby = ReadbyAfter(d)
            /\ stage[d] \in InServer
        BY <2>2 DEF Get, GetPark, GetReply, GetResume, GetExit, Acknowledge,
                    savechat, InServer
      <3> QED BY <1>0, <1>1, <3>1, AckedShown
    <2> QED BY <2>1, <2>2
  <1>3. CASE d # c
    <2>1. chat_readby_real'[u] = chat_readby_real[u]
      <3>1. UserOf(d) # u /\ chat_readby_real \in Counts
        BY <1>0, <1>3 DEF Alone, TypeOK
      <3> QED BY <1>0, <3>1 DEF Get, GetPark, GetReply, GetResume, GetExit, Respond,
                                server, Counts
    <2>2. /\ reply'[c] = reply[c] /\ Displayed(c)' = Displayed(c)
          /\ stage'[c] \in {"idle"} \cup InServer <=> stage[c] \in {"idle"} \cup InServer
          /\ stage'[c] = "reply" <=> stage[c] = "reply"
      BY <1>0, <1>3, OthersStages
    <2> QED BY <1>1, <1>2, <2>1, <2>2 DEF CreditOf, UserOf
  <1>4. CASE d = c /\ GetPark(c)
    <2>1. stage[c] \in InServer /\ stage'[c] = "waiting" /\ UNCHANGED chat_readby_real
      BY <1>0, <1>4, BroadcastType DEF GetPark, AfterAck, InServer, TypeOK
    <2> QED BY <1>1, <1>2, <2>1 DEF CreditOf, UserOf
  <1>5. CASE d = c /\ GetExit(c)
    <2>1. stage'[c] = "failed"
      BY <1>0, <1>5 DEF GetExit, TypeOK
    <2> QED BY <1>1, <1>2, <2>1 DEF CreditOf, UserOf, InServer
  <1>6. CASE d = c /\ (GetReply(c) \/ GetResume(c))
    <2>1. stage'[c] = "reply"
      BY <1>0, <1>6, BroadcastType DEF GetReply, GetResume, AfterAck, TypeOK
    <2>2. Displayed(c)' = chat_messages
      BY <1>0, <1>1, <1>6, ReplyCompletes
    <2>3. chat_readby_real'[u] <= Len(Displayed(c)')
      BY <1>0, <1>1, <2>2 DEF ReadBound
    <2> QED BY <1>1, <1>2, <2>1, <2>3 DEF CreditOf, UserOf, InServer
  <1> QED
    BY <1>3, <1>4, <1>5, <1>6 DEF Get

(* What arrives in a tab it shows; what is lost it asks for anew, without  *)
(* acknowledging anything.                                                 *)
LEMMA ClientCredits ==
  ASSUME TypeOK, Ids, NEW c \in Tabs, CreditOf(c), NEW d \in Clients,
         Poll(d) \/ SpuriousWakeup(d) \/ LoseReply(d) \/ Receive(d) \/ PhoneReopen(d)
  PROVE  CreditOf(c)'
  <1> DEFINE u == UserOf(c)
  <1>0. c \in Clients /\ c \notin Phones /\ u \in Users
    BY TabFacts
  <1>1. UNCHANGED <<phase, chat_random, chat_readby_real, file>>
    BY ClientStages DEF server
  <1>2. /\ chat_readby_real[u] \in Nat /\ file.readby[u] \in Nat
        /\ shown[u] \in Nat /\ shown'[u] \in Nat /\ shown[u] <= shown'[u]
    <2>1. chat_readby_real[u] \in Nat /\ file.readby[u] \in Nat /\ shown[u] \in Nat
      BY <1>0, CreditTypes
    <2>2. CASE Receive(d)
      <3>1. Displayed(d) \in Msgs
        <4>1. view[d].msgs \in Msgs /\ reply[d].msgs \in Msgs
          BY DEF TypeOK
        <4> QED BY <4>1, ConcatProperties DEF Displayed, Msgs
      <3>2. Len(Displayed(d)) \in Nat
        BY <3>1, LenProperties DEF Msgs
      <3>3. shown \in [Users -> Nat] /\ UserOf(d) \in Users
        BY UserOfType DEF TypeOK, Counts
      <3>4. \/ shown' = shown
            \/ /\ shown' = [shown EXCEPT ![UserOf(d)] = Len(Displayed(d))]
               /\ Len(Displayed(d)) > shown[UserOf(d)]
        BY <2>2 DEF Receive
      <3> QED BY <1>0, <2>1, <3>2, <3>3, <3>4
    <2>3. CASE ~Receive(d)
      BY <2>1, <2>3 DEF Poll, TabRequest, PhoneRequest, Refused, TabRetry, PhoneRetry,
                        SpuriousWakeup, LoseReply, PhoneReopen
    <2> QED BY <2>1, <2>2, <2>3
  <1>3. file'.readby[u] <= shown'[u]
    BY <1>1, <1>2 DEF CreditOf
  <1>4. CASE d # c
    <2>1. /\ stage'[c] = stage[c] /\ reply'[c] = reply[c] /\ view'[c] = view[c]
      BY <1>0, <1>4, ClientStages
    <2>2. Displayed(c)' = Displayed(c)
      BY <2>1 DEF Displayed
    <2> QED BY <1>1, <1>2, <1>3, <2>1, <2>2 DEF CreditOf, UserOf
  <1>5. CASE d = c /\ TabRetry(c)
    <2>1. view'[c].id = 0 /\ stage'[c] = "sent"
      BY <1>0, <1>5 DEF TabRetry, TypeOK
    <2> QED BY <1>1, <1>3, <2>1 DEF CreditOf, UserOf, Ids, Up
  <1>6. CASE d = c /\ Receive(c)
    <2>1. /\ stage[c] = "reply" /\ stage'[c] = "idle" /\ view'[c].id = reply[c].id
      BY <1>0, <1>6 DEF Receive, TypeOK
    <2>2. ASSUME reply[c].id = chat_random PROVE Len(Displayed(c)) <= shown'[u]
      <3>1. Displayed(c) \in Msgs
        <4>1. view[c].msgs \in Msgs /\ reply[c].msgs \in Msgs
          BY <1>0 DEF TypeOK
        <4> QED BY <4>1, ConcatProperties DEF Displayed, Msgs
      <3>2. Len(Displayed(c)) \in Nat /\ shown \in [Users -> Nat]
        BY <3>1, LenProperties DEF Msgs, TypeOK, Counts
      <3>3. shown' = IF Len(Displayed(c)) > shown[u]
                     THEN [shown EXCEPT ![u] = Len(Displayed(c))] ELSE shown
        BY <1>6, <2>2 DEF Receive
      <3> QED BY <1>0, <3>2, <3>3
    <2>3. ASSUME phase \in Up, reply[c].id = chat_random
          PROVE  chat_readby_real[u] <= shown'[u]
      <3>1. Len(Displayed(c)) \in Int
        <4>1. view[c].msgs \in Msgs /\ reply[c].msgs \in Msgs
          BY <1>0 DEF TypeOK
        <4>2. Displayed(c) \in Msgs
          BY <4>1, ConcatProperties DEF Displayed, Msgs
        <4> QED BY <4>2, LenProperties DEF Msgs
      <3> QED BY <1>2, <2>1, <2>2, <2>3, <3>1 DEF CreditOf
    <2> QED BY <1>1, <1>3, <2>1, <2>3 DEF CreditOf, UserOf
  <1>7. CASE d = c /\ (TabRequest(c) \/ SpuriousWakeup(c))
    <2>1. /\ view' = view /\ stage'[c] \in InServer
          /\ stage[c] \in {"idle"} \cup InServer
      BY <1>0, <1>7 DEF TabRequest, SpuriousWakeup, InServer, TypeOK
    <2>2. stage'[c] # "reply"
      BY <2>1 DEF InServer
    <2> QED BY <1>1, <1>2, <1>3, <2>1, <2>2 DEF CreditOf, UserOf
  <1>8. CASE d = c /\ (Refused(c) \/ LoseReply(c))
    <2>1. stage'[c] = "failed"
      BY <1>0, <1>8 DEF Refused, LoseReply, TypeOK
    <2> QED BY <1>3, <2>1 DEF CreditOf, UserOf, InServer
  <1>9. ~PhoneRequest(c) /\ ~PhoneRetry(c) /\ ~PhoneReopen(c)
    BY <1>0 DEF PhoneRequest, PhoneRetry, PhoneReopen
  <1> QED
    BY <1>4, <1>5, <1>6, <1>7, <1>8, <1>9 DEF Poll

(* A file torn by a crash credits nobody, or is complete in its messages   *)
(* and credits with what savechat() was writing.                           *)
LEMMA TornCredits ==
  ASSUME ~EarlyRequests, TabInv, NEW c \in Tabs, Alone(c), CreditOf(c),
         NEW torn \in BOOLEAN, Crash(torn)
  PROVE  file'.readby[UserOf(c)] <= shown'[UserOf(c)]
  <1> DEFINE u == UserOf(c)
  <1>0. u \in Users /\ TypeOK /\ Loaded /\ Asked
    BY TabFacts DEF TabInv, BoundInv, IInv
  <1>1. shown[u] \in Nat /\ file.readby[u] \in Nat /\ Zero[u] = 0
    BY <1>0, CreditTypes, ZeroBound
  <1>2. CASE ~torn
    BY <1>2 DEF Crash, CreditOf
  <1>3. CASE torn
    <2>1. /\ phase \in Up
          /\ shown' = IF Len(file'.msgs) < Len(chat_messages) THEN Zero ELSE shown
      BY <1>3, ServingUp DEF Crash
    <2>2. PICK msgs \in {chat_messages}
                        \cup {Append(chat_messages, m) :
                               m \in IF Len(chat_messages) < MaxMsgs THEN Texts ELSE {}},
               readby \in {chat_readby}
                          \cup {ReadbyAfter(d) : d \in {e \in Clients : stage[e] \in {"sent", "entered"}}} :
                 file' \in Torn(msgs, readby)
      BY <1>3 DEF Crash
    <2>3. readby[u] <= shown[u]
      <3>1. CASE readby = chat_readby
        BY <1>0, <2>1, <3>1 DEF Loaded, CreditOf
      <3>2. CASE \E d \in Clients : stage[d] \in {"sent", "entered"} /\ readby = ReadbyAfter(d)
        BY <1>0, <2>1, <3>2, AckedShown DEF InServer
      <3> QED BY <2>2, <3>1, <3>2
    <2>4. CASE file'.readby = Zero
      BY <1>1, <2>1, <2>4
    <2>5. CASE \E done \in SUBSET Users :
                 file' = [msgs |-> msgs,
                          readby |-> [v \in Users |-> IF v \in done THEN readby[v] ELSE 0]]
      <3>1. chat_messages \in Msgs /\ Len(chat_messages) \in Nat
        BY <1>0, LenProperties DEF TypeOK, Msgs
      <3>2. Len(chat_messages) <= Len(msgs) /\ Len(msgs) \in Nat
        <4>1. CASE msgs = chat_messages
          BY <3>1, <4>1
        <4>2. CASE \E m \in Texts : msgs = Append(chat_messages, m)
          BY <3>1, <4>2, AppendProperties DEF Msgs
        <4> QED BY <2>2, <4>1, <4>2
      <3>3. file'.msgs = msgs /\ file'.readby[u] \in {readby[u], 0}
        BY <1>0, <2>5
      <3>4. shown' = shown
        BY <2>1, <3>1, <3>2, <3>3
      <3> QED BY <1>1, <2>3, <3>3, <3>4
    <2>6. \/ file'.readby = Zero
          \/ \E done \in SUBSET Users :
               file' = [msgs |-> msgs,
                        readby |-> [v \in Users |-> IF v \in done THEN readby[v] ELSE 0]]
      BY <2>2 DEF Torn
    <2> QED BY <2>4, <2>5, <2>6
  <1> QED
    BY <1>2, <1>3

(* Every step leaves a user credited with no more than was shown.          *)
LEMMA CreditKeeps ==
  ASSUME ~EarlyRequests, TabInv, TabInv', Credit, [Next]_vars
  PROVE  Credit'
  <1> SUFFICES ASSUME NEW c \in Tabs, Alone(c) PROVE CreditOf(c)'
    BY DEF Credit, Alone, UserOf
  <1> DEFINE u == UserOf(c)
  <1>0. /\ c \in Clients /\ u \in Users /\ CreditOf(c)
        /\ TypeOK /\ Held /\ Loaded /\ Ids
    BY TabFacts DEF TabInv, BoundInv, IInv, Credit
  <1>1. CASE \E d \in Clients : Get(d)
    BY <1>0, <1>1, GetCredits
  <1>2. CASE \E d \in Clients : \/ Poll(d) \/ SpuriousWakeup(d) \/ LoseReply(d)
                                \/ Receive(d) \/ PhoneReopen(d)
    BY <1>0, <1>2, ClientCredits
  <1>3. CASE Clear
    <2>1. file'.readby[u] = 0 /\ shown'[u] = 0 /\ chat_readby_real'[u] = 0
      BY <1>0, <1>3, ZeroBound DEF Clear, savechat
    <2> QED BY <2>1 DEF CreditOf, UserOf
  <1>4. CASE Stopped \/ \E torn \in BOOLEAN : Crash(torn)
    <2>1. phase' = "down"
      BY <1>4 DEF Stopped, Crash, Wiped
    <2>2. file'.readby[u] <= shown'[u]
      BY <1>0, <1>4, TornCredits DEF Stopped, CreditOf
    <2> QED BY <2>1, <2>2 DEF CreditOf, UserOf, Up
  <1>5. CASE Start \/ SetId \/ SetCount \/ Load
    <2>1. phase' \notin Up /\ UNCHANGED <<file, shown>>
      BY <1>5, LoadFrame DEF Start, SetId, SetCount, Up, Booting
    <2> QED BY <1>0, <2>1 DEF CreditOf, UserOf
  <1>6. CASE LoadDone
    <2>1. /\ UNCHANGED <<file, shown, reply, view>>
          /\ chat_random' \notin {view[c].id, reply[c].id}
      BY <1>0, <1>6 DEF LoadDone, server, clients, Ids, Numbers, Booting
    <2> QED BY <1>0, <2>1 DEF CreditOf, UserOf
  <1>7. CASE \/ Tick \/ Stop \/ ExitBroadcast \/ WriteIntent
             \/ (\E m \in Texts : Write(m)) \/ UNCHANGED vars
    <2>1. /\ UNCHANGED <<reply, view>> /\ Displayed(c)' = Displayed(c)
          /\ stage'[c] \in {"idle"} \cup InServer <=> stage[c] \in {"idle"} \cup InServer
          /\ stage'[c] = "reply" <=> stage[c] = "reply"
      BY <1>0, <1>7, QuietStages DEF Displayed
    <2>2. UNCHANGED <<chat_random, chat_readby_real, shown>>
      BY <1>7 DEF Tick, Stop, ExitBroadcast, WriteIntent, Write, vars, server
    <2>3. phase' \in Up <=> phase \in Up
      BY <1>7 DEF Tick, Stop, ExitBroadcast, WriteIntent, Write, vars, Up
    <2>4. file'.readby = file.readby
      <3>1. CASE \E m \in Texts : Write(m)
        BY <1>0, <3>1, ServingUp DEF Write, savechat, Loaded
      <3>2. CASE Tick \/ Stop \/ ExitBroadcast \/ WriteIntent \/ UNCHANGED vars
        BY <3>2 DEF Tick, Stop, ExitBroadcast, WriteIntent, vars
      <3> QED BY <1>7, <3>1, <3>2
    <2> QED BY <1>0, <2>1, <2>2, <2>3, <2>4 DEF CreditOf, UserOf
  <1> QED
    BY <1>1, <1>2, <1>3, <1>4, <1>5, <1>6, <1>7 DEF Next, Main

(* "Above lines are read by" u: a user who chats from one tab is credited  *)
(* only with messages that tab has shown, whatever responses are lost and  *)
(* whenever the service dies, provided that no request is answered before  *)
(* loadchat() returns.                                                     *)
THEOREM ChatTabReadMeansShown ==
  ASSUME ~EarlyRequests
  PROVE  Spec => []TabReadMeansShown
  <1>1. Init => Credit
    <2> SUFFICES ASSUME Init, NEW c \in Tabs PROVE CreditOf(c)
      BY DEF Credit
    <2>1. UserOf(c) \in Users /\ Zero[UserOf(c)] = 0
      BY TabFacts, ZeroBound
    <2> QED BY <2>1 DEF Init, CreditOf, NoFile, Up
  <1>2. TabInv /\ TabInv' /\ Credit /\ [Next]_vars => Credit'
    BY CreditKeeps
  <1>3. TabInv /\ Credit => TabReadMeansShown
    BY DEF TabInv, BoundInv, Loaded, Credit, CreditOf, Alone, TabReadMeansShown, Up
  <1> QED
    BY <1>1, <1>2, <1>3, InitTabInv, NextTabInv, PTL DEF Spec
-----------------------------------------------------------------------------
(* The chat implements one shared log.                                     *)

\* What the tabs show of the current log, as SharedLog sees it.
AllSeen == [c \in Tabs |-> Seen(c)]

(* A prefix of the log is the log up to its length.                        *)
LEMMA PrefixIsPart ==
  ASSUME NEW s \in Msgs, NEW t \in Msgs, IsPrefix(s, t)
  PROVE  s = SubSeq(t, 1, Len(s)) /\ Len(s) \in Nat /\ Len(t) \in Nat /\ Len(s) <= Len(t)
  <1>1. SubSeq(s, 1, Len(s)) = s
    BY SubSeqFull DEF Msgs
  <1>2. Len(s) \in Nat /\ Len(t) \in Nat
    BY LenProperties DEF Msgs
  <1> QED
    BY <1>1, <1>2 DEF IsPrefix

(* What is left of a log without its last message, when a message has been *)
(* added or the log has been cut.                                          *)
LEMMA FrontOfAppend ==
  ASSUME NEW s \in Msgs, NEW m \in Texts
  PROVE  Front(Append(s, m)) = s
  <1> DEFINE t == Append(s, m)
  <1>1. /\ t \in Msgs /\ Len(t) = Len(s) + 1 /\ Len(s) \in Nat
        /\ \A i \in 1..Len(s) : t[i] = s[i]
    BY AppendProperties, LenProperties DEF Msgs
  <1> HIDE DEF t
  <1>2. Len(s) \in 0..Len(t) /\ Len(t) - 1 = Len(s)
    BY <1>1
  <1>3. SubSeq(t, 1, Len(s)) \in Msgs /\ Len(SubSeq(t, 1, Len(s))) = Len(s)
    BY <1>1, <1>2, PrefixType
  <1>4. \A i \in 1..Len(s) : SubSeq(t, 1, Len(s))[i] = t[i]
    BY <1>1, <1>2, SubSeqProperties, ElementOfSeq DEF Msgs
  <1>5. SubSeq(t, 1, Len(s)) = s
    BY <1>1, <1>3, <1>4, SeqEqual DEF Msgs
  <1> QED
    BY <1>2, <1>5 DEF Front, t

LEMMA CutIsPrefix ==
  ASSUME NEW s \in Msgs, NEW n \in 0..Len(s)
  PROVE  SubSeq(s, 1, n) \in Msgs /\ IsPrefix(SubSeq(s, 1, n), s)
  <1> DEFINE t == SubSeq(s, 1, n)
  <1>1. t \in Msgs /\ Len(t) = n /\ Len(s) \in Nat
    BY PrefixType, LenProperties DEF Msgs
  <1>2. \A i \in 1..n : s[i] \in Texts
    BY <1>1, ElementOfSeq DEF Msgs
  <1>3. \A i \in 1..n : t[i] = s[i]
    BY <1>1, <1>2, SubSeqProperties DEF Msgs
  <1> HIDE DEF t
  <1>4. IsPrefix(t, s)
    BY <1>1, <1>3, PrefixByMessage
  <1> QED
    BY <1>1, <1>4 DEF t

LEMMA PrefixTransitive ==
  ASSUME NEW s \in Msgs, NEW t \in Msgs, NEW v \in Msgs, IsPrefix(s, t), IsPrefix(t, v)
  PROVE  IsPrefix(s, v)
  <1>1. /\ Len(s) \in Nat /\ Len(t) \in Nat /\ Len(v) \in Nat
        /\ Len(s) <= Len(t) /\ Len(t) <= Len(v)
        /\ \A i \in 1..Len(s) : s[i] = t[i]
        /\ \A i \in 1..Len(t) : t[i] = v[i]
    BY PrefixByMessage, LenProperties DEF Msgs
  <1>2. Len(s) <= Len(v) /\ \A i \in 1..Len(s) : s[i] = v[i]
    BY <1>1
  <1> QED
    BY <1>2, PrefixByMessage

(* Without its last message, a log, however short, begins like itself.     *)
LEMMA FrontIsPrefix ==
  ASSUME NEW s \in Msgs
  PROVE  Front(s) \in Msgs /\ IsPrefix(Front(s), s)
  <1>1. Len(s) \in Nat
    BY LenProperties DEF Msgs
  <1>2. CASE s = <<>>
    <2>1. Len(s) - 1 < 1
      BY <1>2, EmptySeq
    <2>2. SubSeq(s, 1, Len(s) - 1) = <<>>
      BY <1>1, <2>1, SubSeqEmpty
    <2> QED BY <2>2, EmptySeq, PrefixSelf DEF Front, Msgs
  <1>3. CASE s # <<>>
    <2>1. Len(s) - 1 \in 0..Len(s)
      BY <1>1, <1>3, EmptySeq DEF Msgs
    <2> QED BY <2>1, CutIsPrefix DEF Front
  <1> QED
    BY <1>2, <1>3

(* What is left by a kill inside savechat() begins like the log.           *)
LEMMA TornFront ==
  ASSUME NEW log \in Msgs, NEW msgs \in Msgs,
         msgs = log \/ \E m \in Texts : msgs = Append(log, m),
         NEW readby, NEW f \in Torn(msgs, readby)
  PROVE  /\ IsPrefix(Front(f.msgs), log)
         /\ \/ f.readby = Zero
            \/ /\ f.msgs = msgs /\ IsPrefix(log, msgs)
               /\ \A u \in Users : f.readby[u] \in {0, readby[u]}
  <1> DEFINE cut(n) == [msgs |-> SubSeq(msgs, 1, n), readby |-> Zero]
             garbled(n, m) == [msgs |-> Append(SubSeq(msgs, 1, n), m), readby |-> Zero]
             whole(done) == [msgs |-> msgs,
                             readby |-> [u \in Users |-> IF u \in done THEN readby[u] ELSE 0]]
             good == /\ IsPrefix(Front(f.msgs), log)
                     /\ \/ f.readby = Zero
                        \/ /\ f.msgs = msgs /\ IsPrefix(log, msgs)
                           /\ \A u \in Users : f.readby[u] \in {0, readby[u]}
  <1>0. Torn(msgs, readby) = {cut(n) : n \in 0..Len(msgs)}
           \cup {garbled(n, m) : n \in 0..(Len(msgs) - 1), m \in Texts}
           \cup {whole(done) : done \in SUBSET Users}
    BY DEF Torn
  <1>1. Len(msgs) \in Nat
    BY LenProperties DEF Msgs
  <1>2. ASSUME NEW s \in Msgs, IsPrefix(s, msgs)
        PROVE  IsPrefix(Front(s), log)
    <2>1. CASE msgs = log
      BY <1>2, <2>1, FrontIsPrefix, PrefixTransitive
    <2>2. CASE \E m \in Texts : msgs = Append(log, m)
      <3>1. PICK m \in Texts : msgs = Append(log, m)
        BY <2>2
      <3>2. /\ Len(s) \in Nat /\ Len(log) \in Nat /\ Len(msgs) = Len(log) + 1
            /\ Len(s) <= Len(msgs)
            /\ \A i \in 1..Len(s) : s[i] = msgs[i]
            /\ \A i \in 1..Len(log) : msgs[i] = log[i]
        <4>1. /\ Len(s) \in Nat /\ Len(log) \in Nat /\ Len(msgs) = Len(log) + 1
              /\ \A i \in 1..Len(log) : msgs[i] = log[i]
          BY <3>1, AppendProperties, LenProperties DEF Msgs
        <4>2. Len(s) <= Len(msgs) /\ \A i \in 1..Len(s) : s[i] = msgs[i]
          BY <1>2, PrefixByMessage
        <4> QED BY <4>1, <4>2
      <3>3. CASE Len(s) = Len(msgs)
        <4>1. s = msgs
          BY <3>2, <3>3, SeqEqual DEF Msgs
        <4> QED BY <3>1, <4>1, FrontOfAppend, PrefixSelf
      <3>4. CASE Len(s) # Len(msgs)
        <4>1. Len(s) <= Len(log) /\ \A i \in 1..Len(s) : s[i] = log[i]
          BY <3>2, <3>4
        <4>2. IsPrefix(s, log)
          BY <4>1, PrefixByMessage
        <4> QED BY <4>2, FrontIsPrefix, PrefixTransitive
      <3> QED BY <3>3, <3>4
    <2> QED BY <2>1, <2>2
  <1>3. ASSUME NEW n \in 0..Len(msgs), f = cut(n) PROVE good
    BY <1>2, <1>3, CutIsPrefix
  <1>4. ASSUME NEW n \in 0..(Len(msgs) - 1), NEW m \in Texts, f = garbled(n, m) PROVE good
    <2>1. f.msgs = Append(SubSeq(msgs, 1, n), m) /\ f.readby = Zero
      BY <1>4
    <2>2. SubSeq(msgs, 1, n) \in Msgs
      BY <1>1, CutIsPrefix
    <2>3. Front(f.msgs) = SubSeq(msgs, 1, n)
      BY <2>1, <2>2, FrontOfAppend
    <2>4. IsPrefix(SubSeq(msgs, 1, n), log)
      <3>1. CASE msgs = log
        BY <1>1, <3>1, CutIsPrefix
      <3>2. CASE \E m2 \in Texts : msgs = Append(log, m2)
        <4>1. PICK m2 \in Texts : msgs = Append(log, m2)
          BY <3>2
        <4> DEFINE t == SubSeq(msgs, 1, n)
        <4>2. n \in 0..Len(msgs) /\ t \in Msgs /\ Len(t) = n /\ IsPrefix(t, msgs)
          BY <1>1, CutIsPrefix, PrefixType
        <4>3. /\ Len(log) \in Nat /\ Len(msgs) = Len(log) + 1
              /\ \A i \in 1..Len(log) : msgs[i] = log[i]
          BY <4>1, AppendProperties, LenProperties DEF Msgs
        <4> HIDE DEF t
        <4>4. \A i \in 1..Len(t) : t[i] = msgs[i]
          BY <4>2, PrefixByMessage
        <4>5. Len(t) <= Len(log) /\ \A i \in 1..Len(t) : t[i] = log[i]
          BY <1>1, <4>2, <4>3, <4>4
        <4>6. IsPrefix(t, log)
          BY <4>2, <4>5, PrefixByMessage
        <4> QED BY <4>6 DEF t
      <3> QED BY <3>1, <3>2
    <2> QED BY <2>1, <2>3, <2>4
  <1>5. ASSUME NEW done \in SUBSET Users, f = whole(done) PROVE good
    <2>1. f.msgs = msgs /\ \A u \in Users : f.readby[u] \in {0, readby[u]}
      BY <1>5
    <2>2. IsPrefix(log, msgs)
      BY PrefixSelf, PrefixAppend
    <2> QED BY <1>2, <2>1, <2>2, PrefixSelf
  <1> HIDE DEF cut, garbled, whole, good
  <1>6. good
    BY <1>0, <1>3, <1>4, <1>5
  <1> QED
    BY <1>6 DEF good

(* Tabs show something of the log only while the service is up.            *)
LEMMA SeenFacts ==
  /\ phase \notin Up => AllSeen = Log!Unseen
  /\ phase' \notin Up => AllSeen' = Log!Unseen
  /\ UNCHANGED <<view, chat_random>> /\ (phase' \in Up <=> phase \in Up)
       => AllSeen' = AllSeen
  /\ (\A c \in Tabs : view'[c].id # chat_random') => AllSeen' = Log!Unseen
  BY DEF AllSeen, Seen, Log!Unseen

(* What two parts of a whole have in length, each has at most.             *)
LEMMA LenOfBoth ==
  ASSUME NEW a \in Nat, NEW b \in Nat, NEW w, w = a + b
  PROVE  a \in Nat /\ a <= w
  OBVIOUS

(* A step of a client: its tab shows more of the log, or starts again.     *)
LEMMA ClientSeen ==
  ASSUME TabInv, NEW d \in Clients,
         Poll(d) \/ SpuriousWakeup(d) \/ LoseReply(d) \/ Receive(d) \/ PhoneReopen(d)
  PROVE  \/ AllSeen' = AllSeen
         \/ d \in Tabs /\ AllSeen' = [AllSeen EXCEPT ![d] = <<>>]
         \/ /\ d \in Tabs /\ phase \in Up
            /\ \E n \in Len(AllSeen[d])..Len(chat_messages) :
                 AllSeen' = [AllSeen EXCEPT ![d] = SubSeq(chat_messages, 1, n)]
  <1>0. TypeOK /\ Ids /\ Shows
    BY DEF TabInv, BoundInv, IInv
  <1>1. UNCHANGED <<phase, chat_random, chat_messages>>
    BY <1>0, ClientStages DEF server
  <1>2. \A c \in Tabs : c # d => Seen(c)' = Seen(c)
    BY <1>0, <1>1, TabFacts, ClientStages DEF Seen
  <1>3. CASE d \notin Tabs
    BY <1>2, <1>3 DEF AllSeen
  <1>4. CASE d \in Tabs
    <2>1. ASSUME NEW s, Seen(d)' = s
          PROVE  AllSeen' = [AllSeen EXCEPT ![d] = s]
      BY <1>2, <1>4, <2>1 DEF AllSeen
    <2>2. CASE phase \notin Up
      BY <1>1, <2>2, SeenFacts
    <2>3. CASE phase \in Up /\ TabRetry(d)
      <3>1. view'[d].id = 0 /\ chat_random # 0
        BY <1>0, <2>3 DEF TabRetry, TypeOK, Ids, Up
      <3>2. Seen(d)' = <<>>
        BY <1>1, <3>1 DEF Seen
      <3> QED BY <1>4, <2>1, <3>2
    <2>4. CASE phase \in Up /\ Receive(d)
      <3>1. /\ stage[d] = "reply"
            /\ view'[d].id = reply[d].id /\ view'[d].msgs = Displayed(d)
        BY <1>0, <2>4 DEF Receive, TypeOK
      <3>2. CASE reply[d].id # chat_random
        <4>1. Seen(d)' = <<>>
          BY <1>1, <3>1, <3>2 DEF Seen
        <4> QED BY <1>4, <2>1, <4>1
      <3>3. CASE reply[d].id = chat_random
        <4>1. /\ view[d].msgs \in Msgs /\ reply[d].msgs \in Msgs /\ chat_messages \in Msgs
              /\ Len(view[d].msgs) \in Nat /\ Len(reply[d].msgs) \in Nat
          BY <1>0, LenProperties DEF TypeOK, Msgs
        <4>2. Displayed(d) \in Msgs /\ Seen(d)' = Displayed(d)
          BY <1>1, <2>4, <3>1, <3>3, <4>1, ConcatProperties DEF Displayed, Msgs, Seen
        <4>3. IsPrefix(Displayed(d), chat_messages)
          BY <1>0, <1>4, <2>4, <3>1, <3>3 DEF Shows
        <4>4. /\ Displayed(d) = SubSeq(chat_messages, 1, Len(Displayed(d)))
              /\ Len(Displayed(d)) \in Nat /\ Len(chat_messages) \in Nat
              /\ Len(Displayed(d)) <= Len(chat_messages)
          BY <4>1, <4>2, <4>3, PrefixIsPart
        <4>5. Len(AllSeen[d]) \in Nat /\ Len(AllSeen[d]) <= Len(Displayed(d))
          <5>1. CASE view[d].id = chat_random
            <6>1. AllSeen[d] = view[d].msgs
              BY <1>4, <2>4, <5>1 DEF AllSeen, Seen
            <6>2. Len(Displayed(d)) = Len(view[d].msgs) + Len(reply[d].msgs)
              BY <3>3, <4>1, <5>1, ConcatProperties DEF Displayed, Msgs
            <6>3. Len(AllSeen[d]) = Len(view[d].msgs)
              BY <6>1
            <6> HIDE DEF Displayed, AllSeen
            <6> QED BY <4>1, <6>2, <6>3, LenOfBoth
          <5>2. CASE view[d].id # chat_random
            <6>1. AllSeen[d] = <<>>
              BY <1>4, <5>2 DEF AllSeen, Seen
            <6> QED BY <4>4, <6>1, EmptySeq
          <5> QED BY <5>1, <5>2
        <4>6. Len(Displayed(d)) \in Len(AllSeen[d])..Len(chat_messages)
          BY <4>4, <4>5
        <4>7. AllSeen' = [AllSeen EXCEPT ![d] = SubSeq(chat_messages, 1, Len(Displayed(d)))]
          BY <2>1, <4>2, <4>4
        <4> QED BY <1>4, <2>4, <4>6, <4>7
      <3> QED BY <3>2, <3>3
    <2>5. CASE TabRequest(d) \/ Refused(d) \/ SpuriousWakeup(d) \/ LoseReply(d)
      <3>1. view' = view
        BY <2>5 DEF TabRequest, Refused, SpuriousWakeup, LoseReply
      <3> QED BY <1>1, <3>1, SeenFacts
    <2>6. ~PhoneRequest(d) /\ ~PhoneRetry(d) /\ ~PhoneReopen(d)
      BY <1>4, TabFacts DEF PhoneRequest, PhoneRetry, PhoneReopen
    <2> QED BY <2>2, <2>3, <2>4, <2>5, <2>6 DEF Poll
  <1> QED
    BY <1>3, <1>4

(* What a kill leaves of the log and of the credits.                       *)
LEMMA CrashLeaves ==
  ASSUME ~EarlyRequests, TabInv, NEW torn \in BOOLEAN, Crash(torn)
  PROVE  \/ UNCHANGED file
         \/ /\ phase \in Up
            /\ IsPrefix(Front(file'.msgs), file.msgs)
            /\ \A u \in Users : \/ file'.readby[u] = 0
                                \/ /\ IsPrefix(file.msgs, file'.msgs)
                                   /\ file'.readby[u] \in file.readby[u]..Len(file.msgs)
  <1>0. TypeOK /\ ReadBound /\ Loaded
    BY DEF TabInv, BoundInv, IInv
  <1>1. CASE ~torn
    BY <1>1 DEF Crash
  <1>2. CASE torn
    <2>1. phase \in Up /\ file.msgs = chat_messages /\ file.readby = chat_readby
      BY <1>0, <1>2, ServingUp DEF Crash, Loaded
    <2>2. PICK msgs \in {chat_messages}
                        \cup {Append(chat_messages, m) :
                               m \in IF Len(chat_messages) < MaxMsgs THEN Texts ELSE {}},
               readby \in {chat_readby}
                          \cup {ReadbyAfter(d) : d \in {e \in Clients : stage[e] \in {"sent", "entered"}}} :
                 file' \in Torn(msgs, readby)
      BY <1>2 DEF Crash
    <2>3. /\ chat_messages \in Msgs /\ msgs \in Msgs
          /\ msgs = chat_messages \/ \E m \in Texts : msgs = Append(chat_messages, m)
      <3>1. chat_messages \in Msgs
        BY <1>0 DEF TypeOK
      <3> QED BY <2>2, <3>1, AppendProperties DEF Msgs
    <2>4. \A u \in Users : /\ chat_readby[u] \in Nat /\ readby[u] \in Nat
                           /\ chat_readby[u] <= readby[u]
                           /\ readby[u] <= Len(chat_messages)
      <3>1. /\ Len(chat_messages) \in Nat
            /\ chat_readby \in Counts /\ chat_readby_real \in Counts
            /\ \A u \in Users : /\ chat_readby[u] <= chat_readby_real[u]
                                /\ chat_readby_real[u] <= Len(chat_messages)
        BY <1>0, <2>1, <2>3, LenProperties DEF TypeOK, ReadBound, Msgs
      <3>2. CASE readby = chat_readby
        BY <3>1, <3>2 DEF Counts
      <3>3. CASE \E d \in Clients : readby = ReadbyAfter(d)
        <4>1. PICK d \in Clients : readby = ReadbyAfter(d)
          BY <3>3
        <4>2. CASE Acks(d)
          <5>1. readby = [chat_readby EXCEPT ![UserOf(d)] = chat_readby_real[UserOf(d)]]
            BY <4>1, <4>2 DEF ReadbyAfter
          <5> QED BY <3>1, <5>1, UserOfType DEF Counts
        <4>3. CASE ~Acks(d)
          BY <3>1, <4>1, <4>3 DEF ReadbyAfter, Counts
        <4> QED BY <4>2, <4>3
      <3> QED BY <2>2, <3>2, <3>3
    <2>5. /\ IsPrefix(Front(file'.msgs), chat_messages)
          /\ \/ file'.readby = Zero
             \/ /\ file'.msgs = msgs /\ IsPrefix(chat_messages, msgs)
                /\ \A u \in Users : file'.readby[u] \in {0, readby[u]}
      BY <2>2, <2>3, TornFront
    <2>6. ASSUME NEW u \in Users
          PROVE  \/ file'.readby[u] = 0
                 \/ /\ IsPrefix(file.msgs, file'.msgs)
                    /\ file'.readby[u] \in file.readby[u]..Len(file.msgs)
      <3>1. Len(chat_messages) \in Nat
        BY <2>3, LenProperties DEF Msgs
      <3>2. readby[u] \in chat_readby[u]..Len(chat_messages)
        BY <2>4, <3>1
      <3>3. CASE file'.readby = Zero
        BY <3>3, ZeroBound
      <3>4. CASE file'.msgs = msgs /\ IsPrefix(chat_messages, msgs)
                 /\ file'.readby[u] \in {0, readby[u]}
        BY <2>1, <3>2, <3>4
      <3> QED BY <2>5, <3>3, <3>4
    <2> QED BY <2>1, <2>5, <2>6
  <1> QED
    BY <1>1, <1>2

(* Every step of the code is a step of SharedLog, or none.                 *)
LEMMA LogStepMaps ==
  ASSUME ~EarlyRequests, TabInv, TabInv', [Next]_vars
  PROVE  [Log!Next]_<<file.msgs, file.readby, phase \in Up, AllSeen>>
  <1> DEFINE Same == /\ file'.msgs = file.msgs /\ file'.readby = file.readby
                     /\ (phase' \in Up) = (phase \in Up) /\ AllSeen' = AllSeen
  <1>0. /\ TypeOK /\ ReadBound /\ FileBound /\ Held /\ Loaded /\ Ids
        /\ chat_messages \in Msgs /\ Len(chat_messages) \in Nat
        /\ chat_readby \in Counts /\ chat_readby_real \in Counts
        /\ file.msgs \in Msgs
    BY LenProperties DEF TabInv, BoundInv, IInv, TypeOK, Msgs
  <1>a. phase \in Up => file.msgs = chat_messages /\ file.readby = chat_readby
    BY <1>0 DEF Loaded
  <1> SUFFICES ASSUME ~Same PROVE Log!Next
    OBVIOUS
  <1>1. ASSUME NEW d \in Clients, Get(d) PROVE Log!Next
    <2>1. phase \in Up /\ UNCHANGED <<phase, chat_random, view>> /\ AllSeen' = AllSeen
      BY <1>0, <1>1, ServingUp, GetStages, SeenFacts
    <2>2. /\ Acks(d)
          /\ file' = [msgs |-> chat_messages, readby |-> ReadbyAfter(d)]
      BY <1>1, <2>1 DEF Get, GetPark, GetReply, GetResume, GetExit, Acknowledge, savechat
    <2> DEFINE u == UserOf(d)
    <2>3. /\ u \in Users
          /\ file'.readby = [file.readby EXCEPT ![u] = chat_readby_real[u]]
          /\ file'.msgs = file.msgs
      BY <1>a, <2>1, <2>2, UserOfType DEF ReadbyAfter
    <2>4. chat_readby_real[u] \in (file.readby[u] + 1)..Len(file.msgs)
      <3>1. /\ chat_readby[u] # chat_readby_real[u]
            /\ chat_readby[u] <= chat_readby_real[u]
            /\ chat_readby_real[u] <= Len(chat_messages)
            /\ chat_readby[u] \in Nat /\ chat_readby_real[u] \in Nat
        BY <1>0, <2>1, <2>2, <2>3 DEF Acks, ReadBound, Counts
      <3> QED BY <1>0, <1>a, <2>1, <3>1
    <2>5. Log!Credit(u)
      BY <2>1, <2>3, <2>4 DEF Log!Credit, AllSeen
    <2> QED BY <2>3, <2>5 DEF Log!Next
  <1>2. ASSUME NEW d \in Clients,
               \/ Poll(d) \/ SpuriousWakeup(d) \/ LoseReply(d)
               \/ Receive(d) \/ PhoneReopen(d)
        PROVE  Log!Next
    <2>1. UNCHANGED <<phase, file>>
      BY <1>0, <1>2, ClientStages
    <2>2. CASE d \in Tabs /\ AllSeen' = [AllSeen EXCEPT ![d] = <<>>]
      <3>1. Log!Forget(d)
        BY <2>1, <2>2 DEF Log!Forget, AllSeen
      <3> QED BY <2>2, <3>1 DEF Log!Next
    <2>3. CASE /\ d \in Tabs /\ phase \in Up
               /\ \E n \in Len(AllSeen[d])..Len(chat_messages) :
                    AllSeen' = [AllSeen EXCEPT ![d] = SubSeq(chat_messages, 1, n)]
      <3>1. Log!Show(d)
        BY <1>a, <2>1, <2>3 DEF Log!Show, AllSeen
      <3> QED BY <2>3, <3>1 DEF Log!Next
    <2> QED BY <1>2, <2>1, <2>2, <2>3, ClientSeen
  <1>3. ASSUME NEW m \in Texts, Write(m) PROVE Log!Next
    <2>1. /\ phase \in Up /\ UNCHANGED <<phase, chat_random, view>> /\ AllSeen' = AllSeen
          /\ file'.msgs = Append(chat_messages, m) /\ file'.readby = chat_readby
      BY <1>0, <1>3, ServingUp, SeenFacts DEF Write, savechat
    <2>2. Log!Post(m)
      BY <1>a, <2>1 DEF Log!Post, AllSeen
    <2> QED BY <2>2 DEF Log!Next
  <1>4. ASSUME Clear PROVE Log!Next
    <2>1. /\ phase \in Up /\ UNCHANGED phase
          /\ file'.msgs = <<>> /\ file'.readby = Zero
      BY <1>4, ServingUp DEF Clear, savechat
    <2>2. AllSeen' = Log!Unseen
      <3>1. chat_random' = lastId + 1 /\ view' = view /\ lastId \in Nat
        BY <1>0, <1>4 DEF Clear, TypeOK
      <3>2. \A c \in Tabs : view[c].id \in Nat /\ view[c].id <= lastId
        BY <1>0, TabFacts, NumbersType DEF Ids, Numbers
      <3> QED BY <3>1, <3>2, SeenFacts
    <2>3. Log!Clear
      BY <2>1, <2>2 DEF Log!Clear, Log!Unread, Zero, AllSeen
    <2> QED BY <2>3 DEF Log!Next
  <1>5. ASSUME LoadDone PROVE Log!Next
    <2>1. phase \notin Up /\ phase' \in Up /\ UNCHANGED <<file, view, chat_random>>
      BY <1>5 DEF LoadDone, server, clients, Up
    <2>2. \A c \in Tabs : view[c].id # chat_random
      BY <1>0, <1>5, TabFacts DEF LoadDone, Ids, Numbers, Booting
    <2>3. AllSeen' = AllSeen
      BY <2>1, <2>2, SeenFacts
    <2>4. Log!Start
      BY <2>1, <2>3 DEF Log!Start, AllSeen
    <2> QED BY <2>4 DEF Log!Next
  <1>6. ASSUME Stopped PROVE Log!Next
    <2>1. phase \in Up /\ phase' \notin Up /\ UNCHANGED file /\ AllSeen' = Log!Unseen
      BY <1>6, SeenFacts DEF Stopped, Wiped, Up
    <2>2. Log!Stop
      BY <2>1 DEF Log!Stop, AllSeen
    <2> QED BY <2>2 DEF Log!Next
  <1>7. ASSUME NEW torn \in BOOLEAN, Crash(torn) PROVE Log!Next
    <2>1. phase' \notin Up /\ AllSeen' = Log!Unseen
      BY <1>7, SeenFacts DEF Crash, Wiped, Up
    <2>2. phase \in Up
      BY <1>7, <2>1, SeenFacts, CrashLeaves
    <2>3. /\ IsPrefix(Front(file'.msgs), file.msgs)
          /\ \A u \in Users : \/ file'.readby[u] = 0
                              \/ /\ IsPrefix(file.msgs, file'.msgs)
                                 /\ file'.readby[u] \in file.readby[u]..Len(file.msgs)
      <3>1. CASE UNCHANGED file
        <4>1. \A u \in Users : file.readby[u] \in file.readby[u]..Len(file.msgs)
          BY <1>0, CreditTypes, LenProperties DEF FileBound, Msgs
        <4> QED BY <1>0, <3>1, <4>1, FrontIsPrefix, PrefixSelf
      <3>2. CASE ~UNCHANGED file
        BY <1>7, <3>2, CrashLeaves
      <3> QED BY <3>1, <3>2
    <2>4. [c \in Tabs |-> Seen(c)]' = Log!Unseen
      BY <2>1 DEF AllSeen
    <2>5. phase \in Up /\ (phase \in Up)' = FALSE
      BY <2>1, <2>2
    <2>6. /\ Log!IsPrefix(Log!Front(file'.msgs), file.msgs)
          /\ \A u \in Users : \/ file'.readby[u] = 0
                              \/ /\ Log!IsPrefix(file.msgs, file'.msgs)
                                 /\ file'.readby[u] \in file.readby[u]..Len(file.msgs)
      BY <2>3 DEF Log!IsPrefix, IsPrefix, Log!Front, Front
    <2>7. Log!Kill
      BY <2>4, <2>5, <2>6 DEF Log!Kill
    <2> QED BY <2>7 DEF Log!Next
  <1>8. ASSUME Start \/ SetId \/ SetCount \/ Load PROVE FALSE
    <2>1. phase \notin Up /\ phase' \notin Up /\ UNCHANGED file
      BY <1>8, LoadFrame DEF Start, SetId, SetCount, Up, Booting
    <2> QED BY <2>1, SeenFacts
  <1>9. ASSUME Tick \/ Stop \/ ExitBroadcast \/ WriteIntent \/ UNCHANGED vars PROVE FALSE
    <2>1. UNCHANGED <<file, view, chat_random>> /\ (phase' \in Up <=> phase \in Up)
      BY <1>9 DEF Tick, Stop, ExitBroadcast, WriteIntent, vars, server, clients, Up
    <2> QED BY <2>1, SeenFacts
  <1> QED
    BY <1>1, <1>2, <1>3, <1>4, <1>5, <1>6, <1>7, <1>8, <1>9 DEF Next, Main

(* The chat implements SharedLog: through every poll, save, load, kill and *)
(* restart there is one log, which tabs see from its beginning and in      *)
(* which credits grow with what they are about, provided that no request   *)
(* is answered before loadchat() returns.                                  *)
THEOREM ChatImplementsSharedLog ==
  ASSUME ~EarlyRequests
  PROVE  Spec => ImplementsSharedLog
  <1>1. Init => Log!Init
    <2> SUFFICES ASSUME Init PROVE Log!Init
      OBVIOUS
    <2>1. phase \notin Up /\ file.msgs = <<>> /\ file.readby = Zero
      BY DEF Init, Up, NoFile
    <2>2. AllSeen = Log!Unseen
      BY <2>1, SeenFacts
    <2> QED BY <2>1, <2>2 DEF Log!Init, Log!Unread, Zero, AllSeen
  <1>2. TabInv /\ TabInv' /\ [Next]_vars
          => [Log!Next]_<<file.msgs, file.readby, phase \in Up, [c \in Tabs |-> Seen(c)]>>
    BY LogStepMaps DEF AllSeen
  <1> QED
    BY <1>1, <1>2, InitTabInv, NextTabInv, PTL DEF Spec, ImplementsSharedLog, Log!Spec
=============================================================================
