----------------------------- MODULE ChatProofs -----------------------------
(***************************************************************************)
(* Proofs about Chat, for every set of tabs, phones, accounts and texts    *)
(* and every bound: the state keeps its shape, also when requests are      *)
(* served while loadchat() runs, and when it reads a file that a request   *)
(* saves under it or the process dies inside savechat().                   *)
(***************************************************************************)
EXTENDS Chat, SequenceTheorems, TLAPS

\* A worker parked in cond_wait has its position on its stack.
ParkedPos ==
  \A c \in Clients : stage[c] \in {"waiting", "woken"} => req[c].pos \in Nat

IInv == TypeOK /\ ParkedPos

-----------------------------------------------------------------------------
(* Facts about the operators of the model.                                 *)

(* UserOf gives every poll of getchatmessage() one of the names chat_readby *)
(* is indexed with.                                                        *)
LEMMA UserOfType == \A c \in Clients : UserOf(c) \in Users
  BY ChatAssumption DEF UserOf, Users, Clients

(* The empty tables of a fresh process and of an absent chat.txt are well  *)
(* formed.                                                                 *)
LEMMA Empties ==
  /\ Zero \in Counts
  /\ NoFile \in [msgs : Msgs, readby : Counts]
  /\ NoBuff \in [msgs : Msgs, readby : Counts, left : SUBSET Users, half : SUBSET Users]
  /\ NoReply \in [count : Nat, id : Nat, msgs : Msgs, readby : Counts]
  /\ NoReq \in [random : Nat, pos : Nat \cup {-1}, countpos : Int]
  BY EmptySeq DEF Zero, NoFile, NoBuff, NoReply, NoReq, Counts, Msgs

(* pthread_cond_broadcast(&chatcond) keeps every poll in a known stage and *)
(* makes nobody wait.                                                      *)
LEMMA BroadcastType ==
  ASSUME TypeOK
  PROVE  /\ Broadcast \in [Clients -> Stages]
         /\ \A c \in Clients : /\ Broadcast[c] # "waiting"
                               /\ Broadcast[c] = "woken" => stage[c] \in {"waiting", "woken"}
  BY DEF TypeOK, Broadcast, Stages

(* The tail of the log that a response carries is a sequence of messages,  *)
(* whatever position the client asks for.                                  *)
LEMMA TailType ==
  ASSUME NEW s \in Msgs, NEW from \in Nat
  PROVE  SubSeq(s, from + 1, Len(s)) \in Msgs
  <1>1. \A i \in (from + 1)..Len(s) : s[i] \in Texts
    BY ElementOfSeq DEF Msgs
  <1> QED
    BY <1>1, SubSeqProperties DEF Msgs

(* A prefix of the log, which a crash leaves in chat.txt.                  *)
LEMMA PrefixType ==
  ASSUME NEW s \in Msgs, NEW n \in 0..Len(s)
  PROVE  SubSeq(s, 1, n) \in Msgs /\ Len(SubSeq(s, 1, n)) = n
  <1>1. \A i \in 1..n : s[i] \in Texts
    BY ElementOfSeq DEF Msgs
  <1> QED
    BY <1>1, SubSeqProperties DEF Msgs

(* The acknowledgement in getchatmessage() copies one entry.               *)
LEMMA ReadbyAfterType ==
  ASSUME TypeOK, NEW c \in Clients
  PROVE  ReadbyAfter(c) \in Counts
  BY UserOfType DEF TypeOK, ReadbyAfter, Counts

(* The position getchatmessage() starts from is never negative.            *)
LEMMA PosType ==
  ASSUME TypeOK, NEW c \in Clients
  PROVE  Pos(c) \in Nat /\ CountPos(c) \in Int /\ CountAfter(c) \in Nat
  BY UserOfType DEF TypeOK, Pos, CountPos, CountAfter, Counts

(* The response and the bookkeeping after it, for any position.            *)
LEMMA RespondType ==
  ASSUME TypeOK, NEW c \in Clients, NEW pos \in Nat,
         NEW count \in Nat, NEW readby \in Counts, Respond(c, pos, count, readby)
  PROVE  /\ reply' \in [Clients -> [count : Nat, id : Nat, msgs : Msgs, readby : Counts]]
         /\ req' \in [Clients -> [random : Nat, pos : Nat \cup {-1}, countpos : Int]]
         /\ \A d \in Clients \ {c} : req'[d] = req[d]
         /\ chat_readby_real' \in Counts
         /\ chat_readby_count' \in Counts
  <1> DEFINE u == UserOf(c)
             from == From(c, pos)
             size == Len(chat_messages)
             answer == [count  |-> count,
                        id     |-> chat_random,
                        msgs   |-> SubSeq(chat_messages, from + 1, size),
                        readby |-> [v \in Users |->
                           IF u = PhoneUser /\ v = u THEN 0 ELSE readby[v]]]
  <1>1. u \in Users /\ from \in Nat
    BY UserOfType DEF From
  <1>2. size \in Nat
    BY LenProperties DEF TypeOK, Msgs
  <1>3. SubSeq(chat_messages, from + 1, size) \in Msgs
    BY <1>1, TailType DEF TypeOK
  <1>4. answer \in [count : Nat, id : Nat, msgs : Msgs, readby : Counts]
    BY <1>3 DEF TypeOK, Counts
  <1>5. reply' = [reply EXCEPT ![c] = answer]
    BY DEF Respond
  <1>6. reply' \in [Clients -> [count : Nat, id : Nat, msgs : Msgs, readby : Counts]]
    <2> HIDE DEF answer
    <2> QED BY <1>4, <1>5 DEF TypeOK
  <1>7. req' = [req EXCEPT ![c] = NoReq]
    BY DEF Respond
  <1>8. /\ req' \in [Clients -> [random : Nat, pos : Nat \cup {-1}, countpos : Int]]
        /\ \A d \in Clients \ {c} : req'[d] = req[d]
    BY <1>7, Empties DEF TypeOK
  <1>9. /\ chat_readby_real' = IF from < size
                               THEN [chat_readby_real EXCEPT ![u] = size]
                               ELSE chat_readby_real
        /\ chat_readby_count' = [chat_readby_count EXCEPT ![u] = count]
    BY DEF Respond
  <1>10. /\ chat_readby_real' \in Counts
         /\ chat_readby_count' \in Counts
    <2> HIDE DEF u, from, size
    <2>1. chat_readby_real \in Counts /\ chat_readby_count \in Counts
      BY DEF TypeOK
    <2> QED BY <1>1, <1>2, <1>9, <2>1 DEF Counts
  <1> QED
    BY <1>6, <1>8, <1>10
-----------------------------------------------------------------------------
(* The service's actions keep the invariant.                               *)

(* The acknowledgement and its savechat().                                 *)
LEMMA AcknowledgeKeeps ==
  ASSUME TypeOK, NEW c \in Clients, Acknowledge(c)
  PROVE  /\ chat_count' \in Nat
         /\ chat_readby' \in Counts
         /\ file' \in [msgs : Msgs, readby : Counts]
         /\ AfterAck(c) \in [Clients -> Stages]
         /\ \A d \in Clients : AfterAck(c)[d] \in {"waiting", "woken"}
                                => stage[d] \in {"waiting", "woken"}
  <1>1. chat_count' \in Nat /\ chat_readby' \in Counts
    BY PosType, ReadbyAfterType DEF Acknowledge
  <1>2. file' \in [msgs : Msgs, readby : Counts]
    BY ReadbyAfterType DEF Acknowledge, savechat, TypeOK
  <1>3. /\ AfterAck(c) \in [Clients -> Stages]
        /\ \A d \in Clients : AfterAck(c)[d] \in {"waiting", "woken"}
                               => stage[d] \in {"waiting", "woken"}
    BY BroadcastType DEF AfterAck, TypeOK
  <1> QED
    BY <1>1, <1>2, <1>3

(* getchatmessage(), in all its outcomes.                                  *)
LEMMA GetKeeps ==
  ASSUME IInv, NEW c \in Clients, Get(c)
  PROVE  IInv'
  <1>1. CASE GetPark(c)
    <2>1. /\ Pos(c) \in Nat /\ CountPos(c) \in Int
      BY PosType DEF IInv
    <2>2. /\ req' \in [Clients -> [random : Nat, pos : Nat \cup {-1}, countpos : Int]]
          /\ req'[c].pos \in Nat
          /\ \A d \in Clients \ {c} : req'[d] = req[d]
      BY <1>1, <2>1 DEF GetPark, IInv, TypeOK
    <2>3. /\ stage' = [AfterAck(c) EXCEPT ![c] = "waiting"]
          /\ Acknowledge(c)
          /\ UNCHANGED <<phase, lastId, chat_random, chat_messages, chat_readby_real,
                 chat_readby_count, buff, reply, view, sleeping, alert, shown>>
      BY <1>1 DEF GetPark
    <2>4. TypeOK'
      BY <2>2, <2>3, AcknowledgeKeeps DEF IInv, TypeOK, Stages, Msgs, Counts
    <2>5. ParkedPos'
      BY <2>2, <2>3, AcknowledgeKeeps DEF IInv, ParkedPos
    <2> QED BY <2>4, <2>5 DEF IInv
  <1>2. CASE GetReply(c)
    <2>1. /\ stage' = [AfterAck(c) EXCEPT ![c] = "reply"]
          /\ Acknowledge(c)
          /\ Respond(c, Pos(c), CountAfter(c), ReadbyAfter(c))
          /\ UNCHANGED <<phase, lastId, chat_random, chat_messages, buff, view,
                         sleeping, alert, shown>>
      BY <1>2 DEF GetReply
    <2>2. /\ Pos(c) \in Nat /\ CountAfter(c) \in Nat /\ ReadbyAfter(c) \in Counts
      BY PosType, ReadbyAfterType DEF IInv
    <2>3. /\ reply' \in [Clients -> [count : Nat, id : Nat, msgs : Msgs, readby : Counts]]
          /\ req' \in [Clients -> [random : Nat, pos : Nat \cup {-1}, countpos : Int]]
          /\ \A d \in Clients \ {c} : req'[d] = req[d]
          /\ chat_readby_real' \in Counts
          /\ chat_readby_count' \in Counts
      BY <2>1, <2>2, RespondType DEF IInv
    <2>4. TypeOK'
      BY <2>1, <2>3, AcknowledgeKeeps DEF IInv, TypeOK, Stages, Msgs, Counts
    <2>5. ParkedPos'
      BY <2>1, <2>3, AcknowledgeKeeps DEF IInv, ParkedPos
    <2> QED BY <2>4, <2>5 DEF IInv
  <1>3. CASE GetResume(c)
    <2>1. /\ stage' = [stage EXCEPT ![c] = "reply"]
          /\ stage[c] = "woken"
          /\ Respond(c, req[c].pos, chat_count, chat_readby)
          /\ UNCHANGED <<phase, lastId, chat_random, chat_count, chat_messages,
                 chat_readby, file, buff, view, sleeping, alert, shown>>
      BY <1>3 DEF GetResume
    <2>2. req[c].pos \in Nat /\ chat_count \in Nat /\ chat_readby \in Counts
      BY <2>1 DEF IInv, TypeOK, ParkedPos
    <2>3. /\ reply' \in [Clients -> [count : Nat, id : Nat, msgs : Msgs, readby : Counts]]
          /\ req' \in [Clients -> [random : Nat, pos : Nat \cup {-1}, countpos : Int]]
          /\ \A d \in Clients \ {c} : req'[d] = req[d]
          /\ chat_readby_real' \in Counts
          /\ chat_readby_count' \in Counts
      BY <2>1, <2>2, RespondType DEF IInv
    <2>4. TypeOK'
      BY <2>1, <2>3 DEF IInv, TypeOK, Stages, Msgs, Counts
    <2>5. ParkedPos'
      BY <2>1, <2>3 DEF IInv, TypeOK, ParkedPos
    <2> QED BY <2>4, <2>5 DEF IInv
  <1>4. CASE GetExit(c)
    BY <1>4, Empties DEF GetExit, server, IInv, TypeOK, Stages, ParkedPos
  <1> QED
    BY <1>1, <1>2, <1>3, <1>4 DEF Get

(* writechatmessage() and clearchatmessage().                              *)
LEMMA WriteKeeps ==
  ASSUME IInv, NEW m \in Texts, Write(m)
  PROVE  IInv'
  <1>1. /\ chat_messages' = Append(chat_messages, m)
        /\ file' = [msgs |-> chat_messages', readby |-> chat_readby]
        /\ stage' = Broadcast
        /\ sleeping' = sleeping + 1
        /\ alert' = FALSE
        /\ UNCHANGED <<phase, lastId, chat_random, chat_count, chat_readby,
                 chat_readby_real, chat_readby_count, buff, req, reply, view,
                 shown>>
    BY DEF Write, savechat
  <1>2. /\ chat_messages' \in Msgs
        /\ Len(chat_messages') = Len(chat_messages) + 1
        /\ Len(chat_messages) \in Nat
    BY <1>1, AppendProperties, LenProperties DEF IInv, TypeOK, Msgs
  <1>3. TypeOK'
    <2>1. stage' \in [Clients -> Stages]
      BY <1>1, BroadcastType DEF IInv
    <2>2. file' \in [msgs : Msgs, readby : Counts]
      BY <1>1, <1>2 DEF IInv, TypeOK
    <2>3. alert' \in BOOLEAN
      BY <1>1
    <2>4. sleeping' \in Nat
      BY <1>1 DEF IInv, TypeOK
    <2> HIDE DEF Msgs, Counts
    <2> QED BY <1>1, <1>2, <2>1, <2>2, <2>3, <2>4 DEF IInv, TypeOK
  <1>4. ParkedPos'
    BY <1>1, BroadcastType DEF IInv, ParkedPos
  <1> QED
    BY <1>3, <1>4 DEF IInv

LEMMA ClearKeeps ==
  ASSUME IInv, Clear
  PROVE  IInv'
  <1>1. TypeOK'
    <2>1. stage' \in [Clients -> Stages]
      BY BroadcastType DEF IInv, Clear
    <2>2. <<>> \in Msgs
      BY EmptySeq DEF Msgs
    <2>3. file' \in [msgs : Msgs, readby : Counts]
      BY <2>2, Empties DEF Clear, savechat
    <2>4. Zero \in Counts
      BY Empties
    <2>5. lastId' \in Nat /\ chat_random' \in Nat /\ chat_count' \in Nat
      BY DEF Clear, IInv, TypeOK
    <2> QED BY <2>1, <2>2, <2>3, <2>4, <2>5 DEF Clear, IInv, TypeOK
  <1>2. ParkedPos'
    BY BroadcastType DEF Clear, IInv, ParkedPos
  <1> QED
    BY <1>1, <1>2 DEF IInv

(* What savechat() leaves behind when the process dies in it.              *)
LEMMA TornType ==
  ASSUME NEW msgs \in Msgs, NEW readby \in Counts, NEW f \in Torn(msgs, readby)
  PROVE  f \in [msgs : Msgs, readby : Counts]
  <1> DEFINE cut(n) == [msgs |-> SubSeq(msgs, 1, n), readby |-> Zero]
             garbled(n, m) == [msgs |-> Append(SubSeq(msgs, 1, n), m), readby |-> Zero]
             whole(done) == [msgs |-> msgs,
                             readby |-> [u \in Users |-> IF u \in done THEN readby[u] ELSE 0]]
             Files == [msgs : Msgs, readby : Counts]
  <1>0. Torn(msgs, readby) = {cut(n) : n \in 0..Len(msgs)}
           \cup {garbled(n, m) : n \in 0..(Len(msgs) - 1), m \in Texts}
           \cup {whole(done) : done \in SUBSET Users}
    BY DEF Torn
  <1>1. Len(msgs) \in Nat
    BY LenProperties DEF Msgs
  <1>2. ASSUME NEW n \in 0..Len(msgs) PROVE cut(n) \in Files
    BY <1>1, PrefixType, Empties
  <1>3. ASSUME NEW done \in SUBSET Users PROVE whole(done) \in Files
    BY DEF Counts
  <1>4. ASSUME NEW n \in 0..(Len(msgs) - 1), NEW m \in Texts
        PROVE  garbled(n, m) \in Files
    <2>1. SubSeq(msgs, 1, n) \in Msgs
      BY <1>1, PrefixType
    <2>2. Append(SubSeq(msgs, 1, n), m) \in Msgs
      BY <2>1, AppendProperties DEF Msgs
    <2> QED BY <2>2, Empties
  <1> HIDE DEF cut, garbled, whole, Files
  <1>5. f \in Files
    BY <1>0, <1>2, <1>3, <1>4
  <1> QED
    BY <1>5 DEF Files

(* The end of a process, orderly or not.                                   *)
LEMMA WipedKeeps ==
  ASSUME IInv, Wiped, Hangup, UNCHANGED <<lastId, reply, view, alert>>,
         shown' \in Counts,
         file' \in [msgs : Msgs, readby : Counts]
  PROVE  IInv'
  <1>1. /\ stage' \in [Clients -> Stages]
        /\ \A c \in Clients : stage'[c] \notin {"waiting", "woken"}
        /\ req' \in [Clients -> [random : Nat, pos : Nat \cup {-1}, countpos : Int]]
    BY Empties DEF Hangup, IInv, TypeOK, Stages, InServer
  <1>2. TypeOK'
    BY <1>1, Empties, EmptySeq DEF Wiped, IInv, TypeOK, Phases, Msgs
  <1>3. ParkedPos'
    BY <1>1 DEF ParkedPos
  <1> QED
    BY <1>2, <1>3 DEF IInv

LEMMA CrashKeeps ==
  ASSUME IInv, NEW torn \in BOOLEAN, Crash(torn)
  PROVE  IInv'
  <1>1. Wiped /\ Hangup /\ UNCHANGED <<lastId, reply, view, alert>>
    BY DEF Crash
  <1>2. shown' \in Counts
    BY Empties DEF Crash, IInv, TypeOK
  <1>3. file' \in [msgs : Msgs, readby : Counts]
    <2>1. CASE ~torn
      BY <2>1 DEF Crash, IInv, TypeOK
    <2>2. CASE torn
      <3>1. PICK msgs \in {chat_messages}
                          \cup {Append(chat_messages, m) :
                                 m \in IF Len(chat_messages) < MaxMsgs THEN Texts ELSE {}},
                 readby \in {chat_readby}
                        \cup {ReadbyAfter(c) : c \in {d \in Clients : stage[d] \in {"sent", "entered"}}} :
                   file' \in Torn(msgs, readby)
        BY <2>2 DEF Crash
      <3>2. chat_messages \in Msgs /\ chat_readby \in Counts
        BY DEF IInv, TypeOK
      <3>3. msgs \in Msgs
        BY <3>1, <3>2, AppendProperties DEF Msgs
      <3>4. readby \in Counts
        BY <3>1, <3>2, ReadbyAfterType DEF IInv
      <3> QED BY <3>1, <3>3, <3>4, TornType
    <2> QED BY <2>1, <2>2
  <1> QED
    BY <1>1, <1>2, <1>3, WipedKeeps

(* loadchat() touches the log, the two read-by lists and its buffer.       *)
LEMMA LoadFrame ==
  ASSUME Load
  PROVE  /\ phase \in Booting /\ phase' \in Booting
         /\ UNCHANGED <<lastId, chat_random, chat_count, chat_readby_count, file,
                        clients, sleeping, alert, shown>>
  BY DEF Load, LoadClear, LoadClearReadby, LoadClearReal, LoadMeasure, LoadRead,
         LoadMessage, LoadCredit, LoadReal, Booting

(* loadchat() at any of its steps, with whatever fread gave it.            *)
LEMMA LoadType ==
  ASSUME TypeOK, Load
  PROVE  /\ chat_messages' \in Msgs
         /\ chat_readby' \in Counts /\ chat_readby_real' \in Counts
         /\ buff' \in [msgs : Msgs, readby : Counts, left : SUBSET Users, half : SUBSET Users]
  <1> DEFINE Buffs == [msgs : Msgs, readby : Counts, left : SUBSET Users, half : SUBSET Users]
  <1>0. /\ chat_messages \in Msgs /\ <<>> \in Msgs
        /\ chat_readby \in Counts /\ chat_readby_real \in Counts
        /\ file \in [msgs : Msgs, readby : Counts] /\ buff \in Buffs
    BY EmptySeq DEF TypeOK, Msgs
  <1>1. CASE LoadClear \/ LoadClearReadby \/ LoadClearReal
    BY <1>0, <1>1, Empties DEF LoadClear, LoadClearReadby, LoadClearReal
  <1>2. CASE LoadMeasure
    BY <1>0, <1>2 DEF LoadMeasure
  <1>3. CASE LoadRead
    <2>1. PICK content \in IF file = [msgs |-> buff.msgs, readby |-> buff.readby] THEN {file}
                           ELSE Torn(file.msgs, file.readby) \cup Garbage,
               left \in SUBSET Users :
            buff' = [msgs |-> content.msgs, readby |-> content.readby,
                     left |-> left, half |-> {}]
      BY <1>3 DEF LoadRead
    <2>2. \A f \in Torn(file.msgs, file.readby) : f \in [msgs : Msgs, readby : Counts]
      BY <1>0, TornType
    <2>3. \A f \in Garbage : f \in [msgs : Msgs, readby : Counts]
      BY ChatAssumption DEF Msgs, Counts
    <2>4. content \in [msgs : Msgs, readby : Counts]
      BY <1>0, <2>1, <2>2, <2>3
    <2>5. UNCHANGED <<chat_messages, chat_readby, chat_readby_real>>
      BY <1>3 DEF LoadRead
    <2> QED BY <1>0, <2>1, <2>4, <2>5
  <1>4. CASE LoadMessage
    <2>1. buff.msgs \in Msgs /\ buff.msgs # <<>>
      BY <1>0, <1>4 DEF LoadMessage
    <2>2. Head(buff.msgs) \in Texts /\ Tail(buff.msgs) \in Msgs
      BY <2>1, HeadTailProperties DEF Msgs
    <2>3. chat_messages' = Append(chat_messages, Head(buff.msgs)) /\ chat_messages' \in Msgs
      BY <1>0, <1>4, <2>2, AppendProperties DEF LoadMessage, Msgs
    <2>4. /\ buff' = [buff EXCEPT !.msgs = Tail(@)]
          /\ UNCHANGED <<chat_readby, chat_readby_real>>
      BY <1>4 DEF LoadMessage
    <2> QED BY <1>0, <2>2, <2>3, <2>4
  <1>5. CASE \E u \in Users : LoadCredit(u) \/ LoadReal(u)
    <2>1. PICK u \in Users : LoadCredit(u) \/ LoadReal(u)
      BY <1>5
    <2>2. buff.readby[u] \in Nat
      BY <1>0 DEF Counts
    <2>3. CASE LoadCredit(u)
      <3>1. /\ chat_readby' = [chat_readby EXCEPT ![u] = buff.readby[u]]
            /\ buff' = [buff EXCEPT !.left = @ \ {u}, !.half = {u}]
            /\ UNCHANGED <<chat_messages, chat_readby_real>>
        BY <2>3 DEF LoadCredit
      <3>2. chat_readby' \in Counts
        BY <1>0, <2>2, <3>1 DEF Counts
      <3>3. buff' \in Buffs
        BY <1>0, <3>1
      <3> QED BY <1>0, <3>1, <3>2, <3>3
    <2>4. CASE LoadReal(u)
      <3>1. /\ chat_readby_real' = [chat_readby_real EXCEPT ![u] = buff.readby[u]]
            /\ buff' = [buff EXCEPT !.half = {}]
            /\ UNCHANGED <<chat_messages, chat_readby>>
        BY <2>4 DEF LoadReal
      <3>2. chat_readby_real' \in Counts
        BY <1>0, <2>2, <3>1 DEF Counts
      <3>3. buff' \in Buffs
        BY <1>0, <3>1
      <3> QED BY <1>0, <3>1, <3>2, <3>3
    <2> QED BY <2>1, <2>3, <2>4
  <1> QED
    BY <1>1, <1>2, <1>3, <1>4, <1>5 DEF Load

(* main(): the start with its unlocked loadchat(), the periodic wake-up    *)
(* and the stop.                                                           *)
LEMMA MainKeeps ==
  ASSUME IInv, Main
  PROVE  IInv'
  <1>1. CASE Start
    BY <1>1 DEF Start, server, clients, IInv, TypeOK, ParkedPos, Phases, Booting
  <1>2. CASE SetId
    BY <1>2 DEF SetId, clients, IInv, TypeOK, ParkedPos, Phases, Booting
  <1>3. CASE SetCount
    BY <1>3 DEF SetCount, clients, IInv, TypeOK, ParkedPos, Phases, Booting
  <1>4. CASE Load
    <2>1. /\ phase' \in Phases
          /\ UNCHANGED <<lastId, chat_random, chat_count, chat_readby_count, file,
                         clients, sleeping, alert, shown>>
      BY <1>4, LoadFrame DEF Booting, Phases
    <2> QED BY <1>4, <2>1, LoadType DEF clients, IInv, TypeOK, ParkedPos
  <1>5. CASE LoadDone
    BY <1>5, Empties DEF LoadDone, server, clients, IInv, TypeOK, ParkedPos, Phases
  <1>6. CASE Tick \/ ExitBroadcast
    <2>1. /\ stage' = Broadcast
          /\ phase' \in Phases
          /\ UNCHANGED <<lastId, server, file, buff, req, reply, view, sleeping,
                         alert, shown>>
      BY <1>6 DEF Tick, ExitBroadcast, Phases, IInv, TypeOK
    <2>2. TypeOK'
      BY <2>1, BroadcastType DEF server, IInv, TypeOK, Msgs, Counts
    <2>3. ParkedPos'
      BY <2>1, BroadcastType DEF server, IInv, ParkedPos
    <2> QED BY <2>2, <2>3 DEF IInv
  <1>7. CASE Stop
    <2>1. /\ stage' \in [Clients -> Stages]
          /\ \A c \in Clients : stage'[c] \in {"waiting", "woken"} => stage[c] = stage'[c]
          /\ phase' \in Phases
          /\ UNCHANGED <<lastId, server, file, buff, req, reply, view, sleeping,
                         alert, shown>>
      BY <1>7 DEF Stop, IInv, TypeOK, Stages, Phases
    <2> QED BY <2>1 DEF server, IInv, TypeOK, ParkedPos
  <1>8. CASE Stopped
    <2>1. /\ Wiped /\ Hangup
          /\ UNCHANGED <<lastId, file, reply, view, alert, shown>>
      BY <1>8 DEF Stopped
    <2> QED BY <2>1, WipedKeeps DEF IInv, TypeOK
  <1> QED
    BY <1>1, <1>2, <1>3, <1>4, <1>5, <1>6, <1>7, <1>8 DEF Main

(* The clients and their connections.                                      *)
LEMMA ClientKeeps ==
  ASSUME IInv, NEW c \in Clients,
         Poll(c) \/ SpuriousWakeup(c) \/ LoseReply(c) \/ Receive(c) \/ PhoneReopen(c)
  PROVE  IInv'
  <1>1. CASE TabRequest(c)
    <2>1. Len(view[c].msgs) \in Nat
      BY LenProperties DEF IInv, TypeOK, Msgs
    <2> QED BY <1>1, <2>1 DEF TabRequest, server, IInv, TypeOK, ParkedPos, Stages
  <1>2. CASE PhoneRequest(c)
    BY <1>2, Empties DEF PhoneRequest, server, IInv, TypeOK, ParkedPos, Stages
  <1>3. CASE Refused(c)
    BY <1>3, Empties DEF Refused, server, IInv, TypeOK, ParkedPos, Stages
  <1>4. CASE TabRetry(c)
    <2> DEFINE forgot == [view[c] EXCEPT !.id = 0, !.count = -1]
    <2>a. view[c] \in [id : Nat, msgs : Msgs, count : Int, readby : Counts]
      BY DEF IInv, TypeOK
    <2>b. forgot \in [id : Nat, msgs : Msgs, count : Int, readby : Counts]
      <3>1. [view[c] EXCEPT !.id = 0] \in [id : Nat, msgs : Msgs, count : Int, readby : Counts]
        BY <2>a
      <3>2. \A v \in [id : Nat, msgs : Msgs, count : Int, readby : Counts] :
              [v EXCEPT !.count = -1] \in [id : Nat, msgs : Msgs, count : Int, readby : Counts]
        OBVIOUS
      <3>3. forgot = [[view[c] EXCEPT !.id = 0] EXCEPT !.count = -1]
        OBVIOUS
      <3> QED BY <3>1, <3>2, <3>3
    <2>c. view' = [view EXCEPT ![c] = forgot]
      BY <1>4 DEF TabRetry
    <2>1. view' \in [Clients -> [id : Nat, msgs : Msgs, count : Int, readby : Counts]]
      <3> HIDE DEF forgot
      <3> QED BY <2>b, <2>c DEF IInv, TypeOK
    <2>2. /\ stage' = [stage EXCEPT ![c] = "sent"]
          /\ req' = [req EXCEPT ![c] = NoReq]
          /\ UNCHANGED <<phase, lastId, server, file, buff, reply, sleeping,
                         alert, shown>>
      BY <1>4 DEF TabRetry
    <2> QED BY <2>1, <2>2, Empties DEF server, IInv, TypeOK, ParkedPos, Stages
  <1>5. CASE PhoneRetry(c)
    BY <1>5 DEF PhoneRetry, server, IInv, TypeOK, ParkedPos, Stages
  <1>6. CASE SpuriousWakeup(c)
    BY <1>6 DEF SpuriousWakeup, server, IInv, TypeOK, ParkedPos, Stages
  <1>7. CASE LoseReply(c)
    BY <1>7, Empties DEF LoseReply, server, IInv, TypeOK, ParkedPos, Stages
  <1>8. CASE Receive(c)
    <2>1. /\ reply[c] \in [count : Nat, id : Nat, msgs : Msgs, readby : Counts]
          /\ view[c] \in [id : Nat, msgs : Msgs, count : Int, readby : Counts]
      BY DEF IInv, TypeOK
    <2>2. Displayed(c) \in Msgs
      BY <2>1, ConcatProperties DEF Displayed, Msgs
    <2>3. Len(Displayed(c)) \in Nat
      BY <2>2, LenProperties DEF Msgs
    <2>4. shown' \in Counts
      BY <1>8, <2>3, UserOfType DEF Receive, IInv, TypeOK, Counts
    <2>5. view' \in [Clients -> [id : Nat, msgs : Msgs, count : Int, readby : Counts]]
      BY <1>8, <2>1, <2>2, Empties DEF Receive, IInv, TypeOK
    <2>6. /\ stage' = [stage EXCEPT ![c] = "idle"]
          /\ reply' = [reply EXCEPT ![c] = NoReply]
          /\ UNCHANGED <<phase, lastId, server, file, buff, req, sleeping, alert>>
      BY <1>8 DEF Receive
    <2>7. TypeOK'
      BY <2>4, <2>5, <2>6, Empties DEF server, IInv, TypeOK, Stages
    <2>8. ParkedPos'
      BY <2>6 DEF server, IInv, TypeOK, ParkedPos
    <2> QED BY <2>7, <2>8 DEF IInv
  <1>9. CASE PhoneReopen(c)
    <2>1. <<>> \in Msgs
      BY EmptySeq DEF Msgs
    <2>2. view' \in [Clients -> [id : Nat, msgs : Msgs, count : Int, readby : Counts]]
      BY <1>9, <2>1, Empties DEF PhoneReopen, IInv, TypeOK
    <2>3. UNCHANGED <<phase, lastId, server, file, buff, stage, req, reply,
                      sleeping, alert, shown>>
      BY <1>9 DEF PhoneReopen
    <2> QED BY <2>2, <2>3 DEF server, IInv, TypeOK, ParkedPos
  <1> QED
    BY <1>1, <1>2, <1>3, <1>4, <1>5, <1>6, <1>7, <1>8, <1>9 DEF Poll
-----------------------------------------------------------------------------
(* The theorems.                                                           *)

(* The invariant holds from the first start of the service on.             *)
LEMMA InitIInv == Init => IInv
  <1> SUFFICES ASSUME Init PROVE IInv
    OBVIOUS
  <1>1. TypeOK
    <2>1. <<>> \in Msgs
      BY EmptySeq DEF Msgs
    <2>2. view \in [Clients -> [id : Nat, msgs : Msgs, count : Int, readby : Counts]]
      BY <2>1, Empties DEF Init
    <2>3. alert \in BOOLEAN
      BY DEF Init
    <2> QED BY <2>1, <2>2, <2>3, Empties DEF Init, TypeOK, Phases, Stages
  <1>2. ParkedPos
    BY DEF Init, ParkedPos
  <1> QED
    BY <1>1, <1>2 DEF IInv

(* Every step of the service, of main() and of the clients keeps it.       *)
LEMMA NextIInv == IInv /\ [Next]_vars => IInv'
  <1> SUFFICES ASSUME IInv, [Next]_vars PROVE IInv'
    OBVIOUS
  <1>1. CASE Main
    BY <1>1, MainKeeps
  <1>2. CASE \E torn \in BOOLEAN : Crash(torn)
    BY <1>2, CrashKeeps
  <1>3. CASE \E m \in Texts : Write(m)
    BY <1>3, WriteKeeps
  <1>4. CASE WriteIntent
    BY <1>4 DEF WriteIntent, server, clients, IInv, TypeOK, ParkedPos
  <1>5. CASE Clear
    BY <1>5, ClearKeeps
  <1>6. CASE \E c \in Clients : Get(c)
    BY <1>6, GetKeeps
  <1>7. CASE \E c \in Clients : \/ Poll(c) \/ SpuriousWakeup(c) \/ LoseReply(c)
                                \/ Receive(c) \/ PhoneReopen(c)
    BY <1>7, ClientKeeps
  <1>8. CASE UNCHANGED vars
    BY <1>8 DEF vars, server, clients, IInv, TypeOK, ParkedPos
  <1> QED
    BY <1>1, <1>2, <1>3, <1>4, <1>5, <1>6, <1>7, <1>8 DEF Next

(* The state of the chat keeps its shape in every execution.               *)
THEOREM ChatTypeOK == Spec => []TypeOK
  <1>1. IInv => TypeOK
    BY DEF IInv
  <1> QED
    BY <1>1, InitIInv, NextIInv, PTL DEF Spec
=============================================================================
