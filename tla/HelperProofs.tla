---------------------------- MODULE HelperProofs ----------------------------
(***************************************************************************)
(* Proofs about Helper, for any number of requests, any queries, any       *)
(* length of the pipes and of the answers: every answer goes to the one    *)
(* who asked, the table of mimetypes is never used half loaded, and        *)
(* check_notify takes a database for what it is.                           *)
(***************************************************************************)
EXTENDS Helper, SequenceTheorems, TLAPS

\* The holder of popenmutex is the one between question and end of answer.
Exclusive ==
  \A t \in Asking :
    tpc[t] \in {"send", "read", "print", "close", "unlock"} <=> popenmutex = t

\* It is between its question and the end of the answer.
Hears(t) == tpc[t] \in {"read", "print"}

\* What a thread has in hand fits where it is.
Asks ==
  \A t \in Asking :
    /\ tpc[t] = "idle" <=> query[t] = NoQuery
    /\ tpc[t] \in {"idle", "lock", "send"} => got[t] = {} /\ rows[t] = 0
    /\ todo[t] # NoQuery => query[t] = Mime
    /\ query[t] # Mime => rows[t] = 0
    /\ got[t] \subseteq {query[t]}
    /\ query[t] \in Watched => t = Main
    /\ t = Main => query[t] \in Watched \cup {NoQuery}
    /\ tpc[t] \in Printing => Prints(t)

\* The marker has been written and not yet read.
Ended == back # <<>> /\ back[Len(back)] = End

\* The pipe to a reader holds rows of its query, and the marker behind them.
OwnRows(t) ==
  \A i \in 1..Len(back) : back[i] = query[t] \/ (back[i] = End /\ i = Len(back))

\* The question is on its way, in work, or answered.
Asked(t) == helper = "wait" /\ forward = <<query[t]>> /\ back = <<>>
InWork(t) == helper = "run" /\ running = query[t] /\ forward = <<>> /\ ~Ended
Answered == helper = "wait" /\ forward = <<>> /\ Ended

Conversation ==
  \A t \in Asking : Hears(t) =>
    /\ OwnRows(t)
    /\ helper # "dead" => Asked(t) \/ InWork(t) \/ Answered

\* Between two conversations the pipes are empty.
Silence ==
  (\A t \in Asking : ~Hears(t)) =>
    back = <<>> /\ (helper # "dead" => forward = <<>> /\ helper = "wait")

Talk == Exclusive /\ Asks /\ Conversation /\ Silence

\* The types without the length of the table, which needs an argument of its own.
Types ==
  /\ popenmutex \in Asking \cup {NoOne}
  /\ forward \in Seq(Queries) /\ Len(forward) <= 1
  /\ back \in Seq(Queries \cup {End}) /\ Len(back) <= PipeSize
  /\ helper \in {"wait", "run", "dead"}
  /\ running \in Queries \cup {NoQuery} /\ left \in Nat
  /\ helper = "run" => running \in Queries
  /\ tpc \in [Asking -> AskStates]
  /\ query \in [Asking -> Queries \cup {NoQuery}]
  /\ todo \in [Asking -> {Contacts, NoQuery}]
  /\ rows \in [Asking -> Nat] /\ got \in [Asking -> SUBSET Queries]
  /\ mimetypes \in Nat
  /\ src \in 0..(Len(Sources) + 1)
  /\ on \in [Watched -> BOOLEAN] /\ alarmed \in [Watched -> BOOLEAN]
  /\ quiet \in BOOLEAN /\ unread \in [Watched -> BOOLEAN]
  /\ stale \in [Watched -> BOOLEAN]
  /\ hot \in [Watched -> BOOLEAN] /\ hotstat \in [Watched -> BOOLEAN]
  /\ failed \in [Watched -> BOOLEAN]

\* The steps of check_notify and of the databases that ask nobody anything.
Aside ==
  CheckNotify \/ Alarm \/ IntervalOver \/ SetupNotify \/ Second
  \/ \E s \in Watched : DbChange(s)
-----------------------------------------------------------------------------
(* Types                                                                   *)

(* The queries that threads ask are queries.                               *)
LEMMA QueriesHave ==
  /\ Mime \in Queries /\ Contacts \in Queries /\ Watched \subseteq Queries
  /\ Plain \subseteq Queries /\ NoQuery \notin Queries /\ Main \in Asking
  /\ End \notin Queries /\ Mime # Contacts /\ Mime \notin Watched
  /\ Contacts \notin Watched /\ NoQuery \notin Watched /\ NoOne \notin Asking
  BY HelperAssumption DEF Queries, Asking

(* The rows of an answer are counted by a natural number.                  *)
LEMMA RowCountsType ==
  ASSUME NEW q \in Queries PROVE RowCounts(q) \subseteq Nat
  BY HelperAssumption DEF RowCounts

(* The table is read whole or not at all; the rows of a source are what is  *)
(* unread in it.                                                           *)
LEMMA RowCountsOf ==
  /\ RowCounts(Mime) = {0, MimeRows}
  /\ \A s \in Watched : RowCounts(s) = IF unread[s] THEN 0..MaxRows ELSE {0}
  <1>1. RowCounts(Mime) = {0, MimeRows}
    <2>1. Mime \notin Watched
      BY QueriesHave
    <2> QED
      BY <2>1 DEF RowCounts
  <1>2. ASSUME NEW s \in Watched PROVE RowCounts(s) = IF unread[s] THEN 0..MaxRows ELSE {0}
    <2>1. s # Mime
      BY QueriesHave
    <2> QED
      BY <2>1 DEF RowCounts
  <1> QED
    BY <1>1, <1>2

(* A line fits into a pipe that is not full.                               *)
LEMMA AppendInPipe ==
  ASSUME NEW b \in Seq(Queries \cup {End}), Len(b) < PipeSize,
         NEW x \in Queries \cup {End}
  PROVE  Append(b, x) \in Seq(Queries \cup {End}) /\ Len(Append(b, x)) <= PipeSize
  BY HelperAssumption

(* What the helper does keeps the types.                                   *)
LEMMA HelperTypes ==
  ASSUME Types, HelperRead \/ HelperRow \/ HelperEnd \/ HelperDies
  PROVE  Types'
  <1> USE DEF Types, askers, notify, world
  <1>1. CASE HelperRead
    <2>1. Head(forward) \in Queries /\ Tail(forward) \in Seq(Queries) /\ Len(Tail(forward)) <= 1
      BY <1>1 DEF HelperRead
    <2>2. left' \in Nat
      BY <1>1, <2>1, RowCountsType DEF HelperRead
    <2>3. failed' \in [Watched -> BOOLEAN]
      BY <1>1, <2>2 DEF HelperRead
    <2> QED
      BY <1>1, <2>1, <2>2, <2>3 DEF HelperRead
  <1>2. CASE HelperRow
    <2>1. back' \in Seq(Queries \cup {End}) /\ Len(back') <= PipeSize
      BY <1>2, AppendInPipe DEF HelperRow
    <2> QED
      BY <1>2, <2>1 DEF HelperRow
  <1>3. CASE HelperEnd
    <2>1. back' \in Seq(Queries \cup {End}) /\ Len(back') <= PipeSize
      BY <1>3, AppendInPipe DEF HelperEnd
    <2> QED
      BY <1>3, <2>1 DEF HelperEnd
  <1>4. CASE HelperDies
    BY <1>4 DEF HelperDies
  <1> QED
    BY <1>1, <1>2, <1>3, <1>4

(* What the threads do keeps the types.                                    *)
LEMMA AskTypes ==
  ASSUME Types, Talk, NEW t \in Asking,
         \/ t \in Threads /\ (RequestPlain(t) \/ RequestContacts(t))
         \/ Lock(t) \/ Send(t) \/ ReadRow(t) \/ ReadEnd(t) \/ Unlock(t) \/ ClientReads(t)
  PROVE  Types'
  <1> USE QueriesHave DEF Types, pipes, notify, world, AskStates
  <1>1. CASE RequestPlain(t)
    BY <1>1 DEF RequestPlain, Ask
  <1>2. CASE RequestContacts(t)
    <2>1. CASE Ask(t, Mime, Contacts)
      BY <1>2, <2>1 DEF RequestContacts, Ask
    <2>2. CASE Ask(t, Contacts, NoQuery)
      BY <1>2, <2>2 DEF RequestContacts, Ask
    <2> QED
      BY <1>2, <2>1, <2>2 DEF RequestContacts
  <1>3. CASE Lock(t)
    BY <1>3 DEF Lock
  <1>4. CASE Send(t)
    <2>1. query[t] \in Queries /\ (t = Main => query[t] \in Watched)
      BY <1>4 DEF Send, Talk, Asks
    <2>2. \A u \in Asking : ~Hears(u)
      BY <1>4 DEF Send, Talk, Exclusive, Hears
    <2>3. helper # "dead" => forward = <<>>
      BY <2>2 DEF Talk, Silence
    <2>4. forward' \in Seq(Queries) /\ Len(forward') <= 1
      BY <1>4, <2>1, <2>3 DEF Send
    <2>5. alarmed' \in [Watched -> BOOLEAN]
      BY <1>4, <2>1 DEF Send
    <2> QED
      BY <1>4, <2>4, <2>5 DEF Send
  <1>5. CASE ReadRow(t)
    <2>1. Head(back) \in Queries /\ Tail(back) \in Seq(Queries \cup {End})
          /\ Len(Tail(back)) <= PipeSize
      BY <1>5, HelperAssumption DEF ReadRow
    <2>2. rows' \in [Asking -> Nat] /\ mimetypes' \in Nat
      BY <1>5 DEF ReadRow, Larger
    <2>3. alarmed' \in [Watched -> BOOLEAN]
      BY <1>5 DEF ReadRow, Talk, Asks
    <2>4. got' \in [Asking -> SUBSET Queries]
      BY <1>5, <2>1 DEF ReadRow
    <2> QED
      BY <1>5, <2>1, <2>2, <2>3, <2>4 DEF ReadRow
  <1>6. CASE ReadEnd(t)
    <2>1. back' \in Seq(Queries \cup {End}) /\ Len(back') <= PipeSize
      <3>1. CASE back # <<>> /\ back' = Tail(back)
        BY <3>1, HelperAssumption
      <3>2. CASE UNCHANGED back
        BY <3>2
      <3> QED
        BY <1>6, <3>1, <3>2 DEF ReadEnd
    <2> QED
      BY <1>6, <2>1 DEF ReadEnd
  <1>7. CASE Unlock(t)
    BY <1>7 DEF Unlock
  <1>8. CASE ClientReads(t)
    BY <1>8 DEF ClientReads
  <1> QED
    BY <1>1, <1>2, <1>3, <1>4, <1>5, <1>6, <1>7, <1>8

(* check_notify and the databases keep the types.                          *)
LEMMA NotifyTypes ==
  ASSUME Types, Talk, Stat \/ Aside
  PROVE  Types'
  <1> USE QueriesHave DEF Types, pipes, askers, notify, world, AskStates
  <1>0. Len(Sources) \in Nat
    BY HelperAssumption
  <1>1. CASE Stat
    <2>1. Sources[src] \in Watched
      BY <1>1 DEF Stat, Watched
    <2>2. src' \in 0..(Len(Sources) + 1)
      BY <1>1, <1>0 DEF Stat
    <2> QED
      BY <1>1, <2>1, <2>2 DEF Stat, Ask
  <1>2. CASE CheckNotify
    BY <1>2, <1>0 DEF CheckNotify
  <1>3. CASE Alarm
    BY <1>3, <1>0 DEF Alarm
  <1>4. CASE IntervalOver
    BY <1>4 DEF IntervalOver
  <1>5. CASE SetupNotify
    BY <1>5 DEF SetupNotify
  <1>6. CASE Second
    BY <1>6 DEF Second
  <1>7. CASE \E s \in Watched : DbChange(s)
    <2>1. PICK s \in Watched : DbChange(s)
      BY <1>7
    <2>2. PICK b \in BOOLEAN : unread' = [unread EXCEPT ![s] = b]
      BY <2>1 DEF DbChange
    <2>3. unread' \in [Watched -> BOOLEAN] /\ hot' \in [Watched -> BOOLEAN]
      BY <2>1, <2>2 DEF DbChange
    <2>4. stale' \in [Watched -> BOOLEAN]
      BY <2>1 DEF DbChange
    <2> QED
      BY <2>1, <2>3, <2>4 DEF DbChange
  <1> QED
    BY <1>1, <1>2, <1>3, <1>4, <1>5, <1>6, <1>7 DEF Aside
-----------------------------------------------------------------------------
(* Question and answer                                                     *)

(* A line that is read or appended keeps an answer an answer.              *)
LEMMA TailOfAnswer ==
  ASSUME Types, back # <<>>
  PROVE  /\ Head(back) = back[1] /\ Len(Tail(back)) = Len(back) - 1 /\ Len(back) > 0
         /\ Len(back) \in Nat
         /\ \A i \in 1..Len(Tail(back)) : i + 1 \in 1..Len(back) /\ Tail(back)[i] = back[i + 1]
         /\ Tail(back) = <<>> <=> Len(back) = 1
  <1>1. Len(back) \in Nat /\ Len(back) > 0 /\ Head(back) = back[1]
    BY DEF Types
  <1>2. Len(Tail(back)) = Len(back) - 1
    BY DEF Types
  <1>3. \A i \in 1..Len(Tail(back)) : i + 1 \in 1..Len(back)
    BY <1>1, <1>2
  <1>4. \A i \in 1..Len(Tail(back)) : Tail(back)[i] = back[i + 1]
    BY DEF Types
  <1>5. Tail(back) = <<>> <=> Len(back) = 1
    <2>1. Tail(back) \in Seq(Queries \cup {End})
      BY DEF Types
    <2> QED
      BY <2>1, <1>1, <1>2, EmptySeq
  <1> QED
    BY <1>1, <1>2, <1>3, <1>4, <1>5

(* The helper reads the question of the one who reads, and answers it.     *)
LEMMA HelperTalk ==
  ASSUME Types, Talk, HelperRead \/ HelperRow \/ HelperEnd \/ HelperDies
  PROVE  Talk'
  <1>0. UNCHANGED <<popenmutex, tpc, query, todo, rows, got>>
    BY DEF HelperRead, HelperRow, HelperEnd, HelperDies, askers
  <1>1. Exclusive' /\ Asks' /\ \A u \in Asking : Hears(u)' <=> Hears(u)
    BY <1>0 DEF Talk, Exclusive, Asks, Prints, Hears
  <1>2. CASE HelperDies
    BY <1>0, <1>1, <1>2 DEF HelperDies, Talk, Conversation, Silence, OwnRows
  <1>3. CASE HelperRead \/ HelperRow \/ HelperEnd
    <2>0. PICK t \in Asking : Hears(t)
      BY <1>3 DEF HelperRead, HelperRow, HelperEnd, Talk, Silence
    <2>1. \A u \in Asking : Hears(u) => u = t
      BY <2>0 DEF Talk, Exclusive, Hears
    <2>2. /\ OwnRows(t) /\ helper # "dead" /\ Len(back) \in Nat
          /\ Asked(t) \/ InWork(t) \/ Answered
      BY <1>3, <2>0 DEF HelperRead, HelperRow, HelperEnd, Talk, Conversation, Types
    <2>3. Silence'
      BY <2>0, <1>1 DEF Silence
    <2>4. CASE HelperRead
      <3>1. Asked(t)
        BY <2>2, <2>4 DEF HelperRead, Asked, InWork, Answered
      <3>2. InWork(t)' /\ OwnRows(t)'
        BY <3>1, <2>4, <1>0 DEF HelperRead, Asked, InWork, Ended, OwnRows, askers
      <3> QED
        BY <3>2, <2>1, <2>3, <1>0, <1>1 DEF Talk, Conversation
    <2>5. CASE HelperRow
      <3>1. InWork(t)
        BY <2>2, <2>5 DEF HelperRow, Asked, InWork, Answered
      <3>2. back' = Append(back, query[t]) /\ query[t] # End /\ back \in Seq(Queries \cup {End})
        BY <3>1, <2>5, QueriesHave DEF HelperRow, InWork, Types
      <3>3. OwnRows(t)' /\ ~Ended'
        BY <3>1, <3>2, <2>2, <1>0 DEF OwnRows, Ended, InWork
      <3>4. InWork(t)'
        BY <3>1, <3>3, <2>5, <1>0 DEF InWork, HelperRow
      <3> QED
        BY <3>3, <3>4, <2>1, <2>3, <1>0, <1>1 DEF Talk, Conversation
    <2>6. CASE HelperEnd
      <3>1. InWork(t)
        BY <2>2, <2>6 DEF HelperEnd, Asked, InWork, Answered
      <3>2. back' = Append(back, End) /\ back \in Seq(Queries \cup {End})
        BY <2>6 DEF HelperEnd, Types
      <3>3. OwnRows(t)' /\ Ended'
        BY <3>1, <3>2, <2>2, <1>0 DEF OwnRows, Ended, InWork
      <3>4. Answered'
        BY <3>1, <3>3, <2>6, <1>0 DEF InWork, Answered, HelperEnd
      <3> QED
        BY <3>3, <3>4, <2>1, <2>3, <1>0, <1>1 DEF Talk, Conversation
    <2> QED
      BY <1>3, <2>4, <2>5, <2>6
  <1> QED
    BY <1>2, <1>3

(* A thread that waits for nothing yet changes nobody's conversation.      *)
LEMMA AskTalk ==
  ASSUME Types, Talk, NEW t \in Asking, NEW q \in Queries, NEW next \in {Contacts, NoQuery},
         Ask(t, q, next), next # NoQuery => q = Mime, t = Main <=> q \in Watched,
         UNCHANGED <<pipes, rows, got>>
  PROVE  Talk'
  <1>1. UNCHANGED <<popenmutex, forward, back, helper, running>>
    BY DEF pipes
  <1>2. \A u \in Asking \ {t} : tpc'[u] = tpc[u] /\ query'[u] = query[u] /\ todo'[u] = todo[u]
    BY DEF Ask, Types
  <1>3. tpc[t] = "idle" /\ tpc'[t] = "lock" /\ query'[t] = q /\ todo'[t] = next
    BY DEF Ask, Types
  <1>4. Exclusive'
    BY <1>1, <1>2, <1>3 DEF Talk, Exclusive
  <1>5. Asks'
    BY <1>2, <1>3, QueriesHave DEF Talk, Asks, Prints, Printing
  <1>6. Conversation' /\ Silence'
    <2>1. \A u \in Asking : Hears(u)' <=> Hears(u)
      BY <1>2, <1>3 DEF Hears
    <2>2. \A u \in Asking : Hears(u) => query'[u] = query[u]
      BY <1>2, <1>3 DEF Hears
    <2> QED
      BY <2>1, <2>2, <1>1 DEF Talk, Conversation, Silence, OwnRows, Asked, InWork, Answered, Ended
  <1> QED
    BY <1>4, <1>5, <1>6 DEF Talk

(* A step that leaves pipes and threads alone.                             *)
LEMMA SameTalk ==
  ASSUME Talk, UNCHANGED <<popenmutex, forward, back, helper, running, tpc, query, todo,
                           rows, got>>
  PROVE  Talk'
  BY DEF Talk, Exclusive, Asks, Conversation, Silence, OwnRows, Asked, InWork, Answered, Ended,
         Hears, Prints

(* The mutex is taken when nobody talks.                                   *)
LEMMA LockTalk ==
  ASSUME Types, Talk, NEW t \in Asking, Lock(t)
  PROVE  Talk'
  <1>1. /\ UNCHANGED <<forward, back, helper, running, query, todo, rows, got>>
        /\ popenmutex = NoOne /\ popenmutex' = t /\ tpc[t] = "lock"
        /\ tpc' = [tpc EXCEPT ![t] = "send"]
    BY DEF Lock
  <1>2. Exclusive'
    BY <1>1, QueriesHave DEF Talk, Exclusive, Types
  <1>3. Asks'
    BY <1>1 DEF Talk, Asks, Types, Prints, Printing
  <1>4. Conversation' /\ Silence'
    <2>1. \A u \in Asking : Hears(u)' <=> Hears(u)
      BY <1>1 DEF Types, Hears
    <2> QED
      BY <2>1, <1>1 DEF Talk, Conversation, Silence, OwnRows, Asked, InWork, Answered, Ended
  <1> QED
    BY <1>2, <1>3, <1>4 DEF Talk

(* A question goes into empty pipes.                                       *)
LEMMA SendTalk ==
  ASSUME Types, Talk, NEW t \in Asking, Send(t)
  PROVE  Talk'
  <1>1. /\ UNCHANGED <<popenmutex, back, helper, running, query, todo, rows, got>>
        /\ tpc[t] = "send" /\ tpc' = [tpc EXCEPT ![t] = IF Prints(t) THEN "print" ELSE "read"]
        /\ forward' = IF helper = "dead" THEN forward ELSE Append(forward, query[t])
    BY DEF Send
  <1>2. Exclusive' /\ Asks'
    BY <1>1 DEF Talk, Exclusive, Asks, Types, Prints, Printing
  <1>3. \A u \in Asking : ~Hears(u)
    BY <1>1 DEF Talk, Exclusive, Hears
  <1>4. back = <<>> /\ (helper # "dead" => forward = <<>> /\ helper = "wait")
    BY <1>3 DEF Talk, Silence
  <1>5. \A u \in Asking : Hears(u)' <=> u = t
    BY <1>1, <1>3 DEF Types, Hears
  <1>6. OwnRows(t)' /\ (helper' # "dead" => Asked(t)')
    <2>1. OwnRows(t)'
      BY <1>1, <1>4 DEF OwnRows
    <2>2. helper # "dead" => forward' = <<query[t]>>
      BY <1>1, <1>4
    <2> QED
      BY <2>1, <2>2, <1>1, <1>4 DEF Asked
  <1> QED
    BY <1>2, <1>5, <1>6 DEF Talk, Conversation, Silence

(* A row that is read is a row of the reader's query.                      *)
LEMMA ReadRowTalk ==
  ASSUME Types, Talk, NEW t \in Asking, ReadRow(t)
  PROVE  Talk' /\ Head(back) = query[t]
  <1>1. /\ UNCHANGED <<popenmutex, forward, helper, running, query, todo>>
        /\ tpc' = IF Prints(t) THEN [tpc EXCEPT ![t] = "print"] ELSE tpc
        /\ tpc[t] = "read" /\ back # <<>> /\ Head(back) # End /\ back' = Tail(back)
        /\ got' = [got EXCEPT ![t] = @ \cup {Head(back)}]
        /\ rows' = [rows EXCEPT ![t] = IF query[t] = Mime THEN @ + 1 ELSE 0]
    BY DEF ReadRow
  <1>2. OwnRows(t) /\ (helper # "dead" => Asked(t) \/ InWork(t) \/ Answered)
    BY <1>1 DEF Talk, Conversation, Hears
  <1>0. Len(back) \in Nat /\ 1 \in 1..Len(back) /\ Head(back) = back[1]
    BY <1>1, TailOfAnswer
  <1>3. Head(back) = query[t]
    BY <1>0, <1>1, <1>2 DEF OwnRows
  <1>4. Exclusive' /\ Asks'
    BY <1>1, <1>3 DEF Talk, Exclusive, Asks, Types, Prints, Printing
  <1>5. \A u \in Asking : (Hears(u) <=> u = t) /\ (Hears(u)' <=> u = t)
    BY <1>1 DEF Talk, Exclusive, Hears, Types
  <1>6. OwnRows(t)'
    <2> SUFFICES ASSUME NEW i \in 1..Len(back')
                 PROVE  back'[i] = query[t] \/ (back'[i] = End /\ i = Len(back'))
      BY <1>1 DEF OwnRows
    <2>1. /\ i + 1 \in 1..Len(back) /\ back'[i] = back[i + 1] /\ Len(back') = Len(back) - 1
      BY <1>1, TailOfAnswer
    <2> QED
      BY <2>1, <1>2, <1>0 DEF OwnRows
  <1>7. Ended' <=> Ended
    <2>1. CASE Len(back) = 1
      BY <2>1, <1>1, TailOfAnswer DEF Ended
    <2>2. CASE Len(back) # 1
      BY <2>2, <1>1, TailOfAnswer DEF Ended
    <2> QED
      BY <2>1, <2>2
  <1>8. helper' # "dead" => Asked(t)' \/ InWork(t)' \/ Answered'
    BY <1>1, <1>2, <1>7 DEF Asked, InWork, Answered
  <1>9. Conversation' /\ Silence'
    BY <1>1, <1>5, <1>6, <1>8 DEF Conversation, Silence
  <1> QED
    BY <1>3, <1>4, <1>9 DEF Talk

(* The marker is the last line there is.                                   *)
LEMMA ReadEndTalk ==
  ASSUME Types, Talk, NEW t \in Asking, ReadEnd(t)
  PROVE  Talk' /\ (helper # "dead" => Answered) /\ (back # <<>> => Ended /\ Len(back) = 1)
  <1>1. /\ UNCHANGED <<popenmutex, forward, helper, running, query, todo, rows, got>>
        /\ tpc[t] = "read" /\ tpc' = [tpc EXCEPT ![t] = IF Prints(t) THEN "close" ELSE "unlock"]
    BY DEF ReadEnd
  <1>2. OwnRows(t) /\ (helper # "dead" => Asked(t) \/ InWork(t) \/ Answered)
    BY <1>1 DEF Talk, Conversation, Hears
  <1>3. Exclusive' /\ Asks'
    BY <1>1 DEF Talk, Exclusive, Asks, Types, Prints, Printing
  <1>4. \A u \in Asking : ~Hears(u)'
    BY <1>1 DEF Talk, Exclusive, Types, Hears
  <1>5. CASE back # <<>> /\ Head(back) = End /\ back' = Tail(back)
    <2>1. query[t] \in Queries
      BY <1>1 DEF Talk, Asks, Types
    <2>2. Len(back) = 1 /\ back[1] = End
      <3>1. Len(back) \in Nat /\ 1 \in 1..Len(back) /\ Head(back) = back[1]
        BY <1>5, TailOfAnswer
      <3> QED
        BY <3>1, <1>2, <1>5, <2>1, QueriesHave DEF OwnRows
    <2>3. Ended /\ back' = <<>>
      BY <2>2, <1>5, TailOfAnswer DEF Ended
    <2>4. helper # "dead" => Answered
      BY <1>2, <1>5, <2>3 DEF Asked, InWork
    <2> QED
      BY <2>2, <2>3, <2>4, <1>1, <1>3, <1>4 DEF Talk, Conversation, Silence, Answered
  <1>6. CASE back = <<>> /\ helper = "dead" /\ UNCHANGED back
    BY <1>1, <1>3, <1>4, <1>6 DEF Talk, Conversation, Silence, Ended
  <1> QED
    BY <1>5, <1>6 DEF ReadEnd

(* Whoever unlocks leaves the pipes as they are.                           *)
LEMMA UnlockTalk ==
  ASSUME Types, Talk, NEW t \in Asking, Unlock(t)
  PROVE  Talk'
  <1>1. /\ UNCHANGED <<forward, back, helper, running>>
        /\ tpc[t] = "unlock" /\ popenmutex' = NoOne
        /\ tpc' = [tpc EXCEPT ![t] = IF todo[t] = NoQuery THEN "idle" ELSE "lock"]
        /\ query' = [query EXCEPT ![t] = todo[t]] /\ todo' = [todo EXCEPT ![t] = NoQuery]
        /\ rows' = [rows EXCEPT ![t] = 0] /\ got' = [got EXCEPT ![t] = {}]
    BY DEF Unlock
  <1>2. Exclusive'
    BY <1>1, QueriesHave DEF Talk, Exclusive, Types
  <1>3. Asks'
    BY <1>1, QueriesHave DEF Talk, Asks, Types, Prints, Printing
  <1>4. \A u \in Asking : ~Hears(u) /\ ~Hears(u)'
    BY <1>1 DEF Talk, Exclusive, Types, Hears
  <1> QED
    BY <1>1, <1>2, <1>3, <1>4 DEF Talk, Conversation, Silence

(* Printing leaves question and answer as they are.                        *)
LEMMA PrintTalk ==
  ASSUME Types, Talk, NEW t \in Asking, ClientReads(t)
  PROVE  Talk'
  <1>1. /\ UNCHANGED <<popenmutex, forward, back, helper, running, query, todo, rows, got>>
        /\ tpc[t] \in Printing
        /\ tpc' = [tpc EXCEPT ![t] = IF @ = "print" THEN "read" ELSE "unlock"]
    BY DEF ClientReads, pipes
  <1>2. Exclusive' /\ Asks'
    BY <1>1 DEF Talk, Exclusive, Asks, Types, Prints, Printing
  <1>3. \A u \in Asking : Hears(u)' <=> Hears(u)
    BY <1>1 DEF Types, Hears, Printing
  <1> QED
    BY <1>1, <1>2, <1>3 DEF Talk, Conversation, Silence, OwnRows, Asked, InWork, Answered, Ended

(* Every step keeps question and answer together.                          *)
LEMMA TalkStep ==
  ASSUME Types, Talk, [Next]_vars
  PROVE  Types' /\ Talk'
  <1>1. CASE HelperRead \/ HelperRow \/ HelperEnd \/ HelperDies
    BY <1>1, HelperTypes, HelperTalk
  <1>2. ASSUME NEW t \in Threads, RequestPlain(t) \/ RequestContacts(t)
        PROVE  Types' /\ Talk'
    <2>1. t \in Asking /\ t # Main
      BY HelperAssumption DEF Asking
    <2>2. UNCHANGED <<pipes, rows, got>>
      BY <1>2 DEF RequestPlain, RequestContacts
    <2>3. PICK q \in Queries, next \in {Contacts, NoQuery} :
            Ask(t, q, next) /\ (next # NoQuery => q = Mime) /\ q \notin Watched
      BY <1>2, QueriesHave, HelperAssumption DEF RequestPlain, RequestContacts
    <2> QED
      BY <1>2, <2>1, <2>2, <2>3, AskTypes, AskTalk
  <1>3. ASSUME NEW t \in Asking, Lock(t) \/ GoOn(t) \/ ClientReads(t)
        PROVE  Types' /\ Talk'
    BY <1>3, AskTypes, LockTalk, SendTalk, ReadRowTalk, ReadEndTalk, UnlockTalk, PrintTalk
       DEF GoOn
  <1>4. CASE Stat
    <2>1. Sources[src] \in Watched /\ Main \in Asking /\ Sources[src] \in Queries
      BY <1>4, QueriesHave DEF Stat, Watched
    <2>2. UNCHANGED <<pipes, rows, got>>
      BY <1>4 DEF Stat
    <2>3. CASE Ask(Main, Sources[src], NoQuery)
      BY <2>1, <2>2, <2>3, <1>4, NotifyTypes, AskTalk
    <2>4. CASE UNCHANGED <<tpc, query, todo>>
      BY <2>2, <2>4, <1>4, NotifyTypes, SameTalk DEF pipes
    <2> QED
      BY <1>4, <2>3, <2>4 DEF Stat
  <1>5. CASE Aside
    <2>1. UNCHANGED <<pipes, askers>>
      BY <1>5 DEF Aside, CheckNotify, Alarm, IntervalOver, SetupNotify, Second, DbChange
    <2> QED
      BY <2>1, <1>5, NotifyTypes, SameTalk DEF pipes, askers
  <1>6. CASE UNCHANGED vars
    <2>1. UNCHANGED <<pipes, askers, notify, world>>
      BY <1>6 DEF vars
    <2>2. Talk'
      BY <2>1, SameTalk DEF pipes, askers
    <2>3. Types'
      BY <2>1 DEF Types, pipes, askers, notify, world
    <2> QED
      BY <2>2, <2>3
  <1> QED
    BY <1>1, <1>2, <1>3, <1>4, <1>5, <1>6 DEF Next, Aside

-----------------------------------------------------------------------------
(* The table of mimetypes                                                  *)

\* Rows in the pipe, and rows a reader has or will have.
Data == Len(back) - (IF Ended THEN 1 ELSE 0)
Sum(t) == rows[t] + Data + left

Loading ==
  /\ helper # "run" => left = 0
  /\ \A t \in Asking : tpc[t] = "read" /\ query[t] = Mime =>
       /\ Sum(t) <= MimeRows
       /\ helper = "run" \/ Ended => Sum(t) \in {0, MimeRows}
       /\ helper = "wait" /\ ~Ended => Sum(t) = 0

\* Someone is loading the table, or was when the helper died.
Halfway == \E t \in Asking : tpc[t] = "read" /\ query[t] = Mime /\ rows[t] > 0
Ruined == helper = "dead" /\ back = <<>> /\ \A t \in Asking : Contacts \notin got[t]

Table ==
  /\ \A t \in Asking : rows[t] <= mimetypes
  /\ mimetypes <= MimeRows
  /\ mimetypes \in {0, MimeRows} \/ Halfway \/ Ruined

(* How many rows are in the pipe.                                          *)
LEMMA DataType ==
  ASSUME Types PROVE Data \in Nat /\ (back = <<>> => Data = 0 /\ ~Ended)
  <1>1. CASE back = <<>>
    BY <1>1 DEF Data, Ended
  <1>2. CASE back # <<>>
    BY <1>2, TailOfAnswer DEF Data
  <1> QED
    BY <1>1, <1>2

(* A row that is read leaves the pipe.                                     *)
LEMMA DataRead ==
  ASSUME Types, back # <<>>, Head(back) # End, back' = Tail(back)
  PROVE  Data' = Data - 1 /\ (Ended' <=> Ended) /\ Data > 0
  <1>1. Len(back) \in Nat /\ Len(back) > 0 /\ Len(back') = Len(back) - 1
    BY TailOfAnswer
  <1>2. CASE Len(back) = 1
    <2>1. ~Ended /\ ~Ended'
      BY <1>2, TailOfAnswer DEF Ended
    <2> QED
      BY <2>1, <1>1, <1>2 DEF Data
  <1>3. CASE Len(back) # 1
    <2>1. Ended' <=> Ended
      <3>1. back' # <<>> /\ back'[Len(back')] = back[Len(back)]
        BY <1>1, <1>3, TailOfAnswer
      <3> QED
        BY <3>1 DEF Ended
    <2> QED
      BY <2>1, <1>1, <1>3 DEF Data
  <1> QED
    BY <1>2, <1>3

(* A line that is written is a row or the marker.                          *)
LEMMA DataWritten ==
  ASSUME Types, ~Ended, NEW x \in Queries \cup {End}, back' = Append(back, x)
  PROVE  /\ x # End => Data' = Data + 1 /\ ~Ended'
         /\ x = End => Data' = Data /\ Ended'
  <1>1. back \in Seq(Queries \cup {End}) /\ Len(back) \in Nat
    BY DEF Types
  <1>2. Len(back') = Len(back) + 1 /\ back'[Len(back')] = x /\ back' # <<>>
    BY <1>1
  <1> QED
    BY <1>1, <1>2 DEF Data, Ended

(* The helper has as many rows for the table as it said, or dies.          *)
LEMMA HelperTable ==
  ASSUME Types, Talk, Loading, Table, HelperRead \/ HelperRow \/ HelperEnd \/ HelperDies
  PROVE  Loading' /\ Table'
  <1>0. UNCHANGED <<tpc, query, rows, got, mimetypes>>
    BY DEF HelperRead, HelperRow, HelperEnd, HelperDies, askers
  <1>1. Table'
    <2>1. helper = "dead" => UNCHANGED <<helper, back>>
      BY DEF HelperRead, HelperRow, HelperEnd, HelperDies
    <2> QED
      BY <2>1, <1>0 DEF Table, Halfway, Ruined
  <1>2. CASE HelperDies
    <2>1. left' = 0 /\ helper' = "dead" /\ Data' = Data /\ (Ended' <=> Ended)
      BY <1>2 DEF HelperDies, Data, Ended
    <2>2. \A t \in Asking : tpc[t] = "read" /\ Ended => left = 0
      BY DEF Hears, Talk, Conversation, Asked, InWork, Answered, Loading, Types
    <2>3. ASSUME NEW t \in Asking, tpc[t] = "read", query[t] = Mime
          PROVE  Sum(t)' <= MimeRows /\ (Ended' => Sum(t)' \in {0, MimeRows})
      <3>1. Sum(t)' = rows[t] + Data /\ Sum(t) = rows[t] + Data + left
        BY <2>1, <1>0, DataType DEF Sum, Types
      <3>2. Sum(t) <= MimeRows /\ (Ended => Sum(t) \in {0, MimeRows} /\ left = 0)
        BY <2>2, <2>3 DEF Loading
      <3> QED
        BY <3>1, <3>2, <2>1, DataType, HelperAssumption DEF Types
    <2> QED
      BY <2>1, <2>3, <1>0, <1>1 DEF Loading
  <1>3. CASE HelperRead \/ HelperRow \/ HelperEnd
    <2>0. PICK t \in Asking : Hears(t)
      BY <1>3 DEF HelperRead, HelperRow, HelperEnd, Talk, Silence
    <2>1. /\ \A u \in Asking : tpc[u] = "read" => u = t
          /\ query[t] = Mime => tpc[t] = "read"
      BY <2>0 DEF Talk, Exclusive, Hears, Asks, Prints, Printing
    <2>2. (Asked(t) \/ InWork(t) \/ Answered) /\ helper # "dead" /\ Data \in Nat
      BY <1>3, <2>0, DataType DEF HelperRead, HelperRow, HelperEnd, Talk, Conversation
    <2>4. CASE HelperRead
      <3>1. Asked(t) /\ ~Ended /\ Data = 0 /\ left = 0 /\ running' = query[t]
        BY <2>2, <2>4, DataType DEF HelperRead, Asked, InWork, Answered, Loading
      <3>2. Data' = 0 /\ ~Ended' /\ helper' = "run"
        BY <2>4, <3>1 DEF HelperRead, Data, Ended
      <3>3. query[t] = Mime => rows[t] = 0
        BY <2>1, <3>1 DEF Loading, Sum, Asked, Types
      <3>4. query[t] = Mime => left' \in {0, MimeRows}
        <4>1. left' \in RowCounts(query[t])
          BY <2>4, <3>1 DEF HelperRead, Asked
        <4> QED
          BY <4>1, RowCountsOf
      <3> QED
        BY <3>2, <3>3, <3>4, <2>1, <1>0, <1>1, HelperAssumption DEF Loading, Sum
    <2>5. CASE HelperRow
      <3>1. InWork(t) /\ running \in Queries /\ running # End
        BY <2>2, <2>5, QueriesHave DEF HelperRow, Asked, InWork, Answered, Types
      <3>2. Data' = Data + 1 /\ ~Ended' /\ ~Ended /\ left' = left - 1 /\ helper' = helper
        <4>1. ~Ended /\ back' = Append(back, running)
          BY <2>5, <3>1 DEF HelperRow, InWork
        <4> QED
          BY <4>1, <2>5, <3>1, DataWritten DEF HelperRow
      <3>3. Sum(t)' = Sum(t)
        <4>1. rows[t] \in Nat /\ left \in Nat
          BY DEF Types
        <4> QED
          BY <4>1, <3>2, <2>2, <1>0 DEF Sum
      <3> QED
        BY <3>2, <3>3, <2>1, <2>5, <1>0, <1>1 DEF Loading, HelperRow
    <2>6. CASE HelperEnd
      <3>1. InWork(t) /\ left = 0 /\ left' = 0 /\ helper' = "wait" /\ helper = "run"
        BY <2>2, <2>6 DEF HelperEnd, Asked, InWork, Answered
      <3>2. Data' = Data /\ Ended' /\ ~Ended
        BY <2>6, <3>1, DataWritten DEF HelperEnd, InWork
      <3>3. Sum(t)' = Sum(t)
        BY <3>1, <3>2, <1>0 DEF Sum
      <3> QED
        BY <3>1, <3>2, <3>3, <2>1, <1>0, <1>1 DEF Loading
    <2> QED
      BY <1>3, <2>4, <2>5, <2>6
  <1> QED
    BY <1>2, <1>3

(* A step that leaves what the table depends on.                           *)
LEMMA SameTable ==
  ASSUME Loading, Table, UNCHANGED <<back, helper, left, tpc, query, rows, got, mimetypes>>
  PROVE  Loading' /\ Table'
  BY DEF Loading, Table, Halfway, Ruined, Sum, Data, Ended

(* A thread that asks, waits or sends has loaded nothing.                  *)
LEMMA AskTable ==
  ASSUME Types, Talk, Loading, Table, NEW t \in Asking, tpc[t] \in {"idle", "lock", "send"},
         \A u \in Asking \ {t} : tpc'[u] = tpc[u] /\ query'[u] = query[u],
         tpc'[t] = "read" => tpc[t] = "send",
         UNCHANGED <<back, helper, left, rows, got, mimetypes>>
  PROVE  Loading' /\ Table'
  <1>1. rows[t] = 0
    BY DEF Types, AskStates, Talk, Asks
  <1>2. Table'
    BY <1>1 DEF Table, Halfway, Ruined
  <1>3. Data' = Data /\ (Ended' <=> Ended)
    BY DEF Data, Ended
  <1>4. CASE tpc'[t] # "read"
    BY <1>2, <1>3, <1>4 DEF Loading, Sum
  <1>5. CASE tpc'[t] = "read"
    <2>1. \A u \in Asking : ~Hears(u) /\ tpc[u] # "read"
      BY <1>5 DEF Talk, Exclusive, Hears
    <2>2. back = <<>> /\ helper # "run"
      BY <2>1 DEF Talk, Silence
    <2>3. Data = 0 /\ ~Ended /\ left = 0
      BY <2>2, DataType DEF Loading
    <2>4. Sum(t)' = 0
      BY <2>3, <1>1, <1>3 DEF Sum
    <2> QED
      BY <2>1, <2>2, <2>3, <2>4, <1>2, <1>3, HelperAssumption DEF Loading
  <1> QED
    BY <1>4, <1>5

(* A row that is read fills an entry that the table has room for.          *)
LEMMA ReadRowTable ==
  ASSUME Types, Talk, Loading, Table, NEW t \in Asking, ReadRow(t)
  PROVE  Loading' /\ Table'
  <1>1. /\ UNCHANGED <<forward, helper, left, query>>
        /\ tpc' = IF Prints(t) THEN [tpc EXCEPT ![t] = "print"] ELSE tpc
        /\ tpc[t] = "read" /\ back # <<>> /\ Head(back) # End /\ back' = Tail(back)
        /\ rows' = [rows EXCEPT ![t] = IF query[t] = Mime THEN @ + 1 ELSE 0]
        /\ mimetypes' = Larger(mimetypes, rows'[t])
    BY DEF ReadRow
  <1>2. Data' = Data - 1 /\ (Ended' <=> Ended) /\ Data > 0 /\ Data \in Nat
    BY <1>1, DataRead, DataType
  <1>3. /\ \A u \in Asking : (tpc[u] = "read" => u = t) /\ (tpc'[u] = "read" => u = t)
        /\ query[t] = Mime => tpc' = tpc
    BY <1>1 DEF Talk, Exclusive, Types, Prints
  <1>4. rows[t] \in Nat /\ left \in Nat /\ mimetypes \in Nat /\ MimeRows \in Nat
    BY HelperAssumption DEF Types
  <1>5. CASE query[t] = Mime
    <2>1. rows'[t] = rows[t] + 1 /\ Sum(t)' = Sum(t)
      BY <1>1, <1>2, <1>4, <1>5 DEF Sum, Types
    <2>2. Loading'
      BY <2>1, <1>1, <1>2, <1>3 DEF Loading
    <2>3. Sum(t) <= MimeRows /\ Sum(t) = rows[t] + Data + left
      BY <1>1, <1>5 DEF Loading, Sum
    <2>4. rows'[t] <= MimeRows
      BY <2>1, <2>3, <1>2, <1>4
    <2>5. mimetypes' <= MimeRows /\ mimetypes' >= mimetypes /\ mimetypes' >= rows'[t]
          /\ mimetypes' \in Nat
      BY <2>1, <2>4, <1>1, <1>4 DEF Larger, Table
    <2>6. \A u \in Asking : rows'[u] <= mimetypes'
      <3> SUFFICES ASSUME NEW u \in Asking, u # t PROVE rows'[u] <= mimetypes'
        BY <2>5
      <3>1. rows'[u] = rows[u] /\ rows[u] \in Nat /\ rows[u] <= mimetypes
        BY <1>1 DEF Types, Table
      <3> QED
        BY <3>1, <2>5, <1>4
    <2>7. Halfway'
      BY <2>1, <1>1, <1>3, <1>4, <1>5 DEF Halfway
    <2> QED
      BY <2>2, <2>5, <2>6, <2>7 DEF Table
  <1>6. CASE query[t] # Mime
    <2>1. rows' = rows /\ rows[t] = 0 /\ mimetypes' = mimetypes
      BY <1>1, <1>4, <1>6 DEF Talk, Asks, Types, Larger
    <2>2. mimetypes \in {0, MimeRows}
      BY <1>1, <1>3, <1>6 DEF Table, Halfway, Ruined
    <2>3. Loading'
      BY <1>1, <1>3, <1>6 DEF Loading
    <2> QED
      BY <2>1, <2>2, <2>3 DEF Table
  <1> QED
    BY <1>5, <1>6

(* With the marker the table is whole; without it the helper is gone.      *)
LEMMA ReadEndTable ==
  ASSUME Types, Talk, Loading, Table, NEW t \in Asking, ReadEnd(t)
  PROVE  Loading' /\ Table'
  <1>1. /\ UNCHANGED <<forward, helper, left, query, rows, got, mimetypes>>
        /\ tpc[t] = "read" /\ tpc' = [tpc EXCEPT ![t] = IF Prints(t) THEN "close" ELSE "unlock"]
    BY DEF ReadEnd
  <1>2. \A u \in Asking : tpc[u] = "read" => u = t
    BY <1>1 DEF Talk, Exclusive
  <1>3. \A u \in Asking : tpc'[u] # "read"
    BY <1>1, <1>2 DEF Types
  <1>4. Loading'
    BY <1>1, <1>3 DEF Loading
  <1>5. CASE Halfway
    <2>1. query[t] = Mime /\ rows[t] > 0
      BY <1>2, <1>5 DEF Halfway
    <2>2. CASE back # <<>> /\ Head(back) = End /\ back' = Tail(back)
      <3>1. Ended /\ Len(back) = 1
        BY <2>2, ReadEndTalk
      <3>2. left = 0 /\ Data = 0
        BY <3>1, <2>2, ReadEndTalk DEF Loading, Answered, Data
      <3>3. rows[t] \in {0, MimeRows}
        BY <3>1, <3>2, <2>1, <1>1 DEF Loading, Sum, Types
      <3>4. mimetypes = MimeRows
        BY <3>3, <2>1, HelperAssumption DEF Table, Types
      <3> QED
        BY <3>4, <1>1, <1>4 DEF Table
    <2>3. CASE back = <<>> /\ helper = "dead" /\ UNCHANGED back
      <3>1. \A u \in Asking : Contacts \notin got[u]
        <4>1. Contacts \notin got[t]
          BY <2>1, QueriesHave DEF Talk, Asks
        <4>2. \A u \in Asking : u # t => got[u] = {}
          <5>1. \A u \in Asking : u # t => tpc[u] \notin {"send", "read", "print", "close", "unlock"}
            BY <1>1 DEF Talk, Exclusive
          <5>2. \A u \in Asking : u # t => tpc[u] \in {"idle", "lock", "send"}
            BY <5>1 DEF Types, AskStates
          <5> QED
            BY <5>2 DEF Talk, Asks
        <4> QED
          BY <4>1, <4>2
      <3> QED
        BY <3>1, <2>3, <1>1, <1>4 DEF Table, Ruined
    <2> QED
      BY <2>2, <2>3 DEF ReadEnd
  <1>6. CASE ~Halfway
    <2>1. Ruined => Ruined'
      BY <1>1 DEF Ruined, ReadEnd
    <2> QED
      BY <2>1, <1>1, <1>4, <1>6 DEF Table
  <1> QED
    BY <1>5, <1>6

(* Whoever unlocks has loaded what there was.                              *)
LEMMA UnlockTable ==
  ASSUME Types, Talk, Loading, Table, NEW t \in Asking, Unlock(t)
  PROVE  Loading' /\ Table'
  <1>1. /\ UNCHANGED <<back, helper, left, mimetypes>>
        /\ tpc[t] = "unlock"
        /\ tpc' = [tpc EXCEPT ![t] = IF todo[t] = NoQuery THEN "idle" ELSE "lock"]
        /\ rows' = [rows EXCEPT ![t] = 0] /\ got' = [got EXCEPT ![t] = {}]
    BY DEF Unlock
  <1>2. \A u \in Asking : tpc[u] # "read" /\ tpc'[u] # "read"
    BY <1>1 DEF Talk, Exclusive, Types
  <1>3. Loading'
    BY <1>1, <1>2 DEF Loading
  <1>4. \A u \in Asking : rows'[u] <= mimetypes'
    BY <1>1 DEF Table, Types
  <1>5. Ruined => Ruined'
    BY <1>1 DEF Ruined, Types
  <1> QED
    BY <1>1, <1>2, <1>3, <1>4, <1>5 DEF Table, Halfway

(* Who prints does not load the table.                                     *)
LEMMA PrintTable ==
  ASSUME Types, Talk, Loading, Table, NEW t \in Asking, ClientReads(t)
  PROVE  Loading' /\ Table'
  <1>1. /\ UNCHANGED <<back, helper, left, query, rows, got, mimetypes>>
        /\ query[t] # Mime
        /\ \A u \in Asking : u # t => tpc'[u] = tpc[u]
    BY DEF ClientReads, pipes, Types, Talk, Asks, Prints
  <1>2. Data' = Data /\ (Ended' <=> Ended)
    BY <1>1 DEF Data, Ended
  <1> QED
    BY <1>1, <1>2 DEF Loading, Table, Halfway, Ruined, Sum

(* Every step keeps the table whole, or someone at it.                     *)
LEMMA TableStep ==
  ASSUME Types, Talk, Loading, Table, [Next]_vars
  PROVE  Loading' /\ Table'
  <1>1. CASE HelperRead \/ HelperRow \/ HelperEnd \/ HelperDies
    BY <1>1, HelperTable
  <1>2. ASSUME NEW t \in Threads, RequestPlain(t) \/ RequestContacts(t)
        PROVE  Loading' /\ Table'
    <2>1. t \in Asking /\ UNCHANGED <<back, helper, left, rows, got, mimetypes>>
      BY <1>2 DEF RequestPlain, RequestContacts, pipes, Asking
    <2>2. PICK q, next : Ask(t, q, next)
      BY <1>2 DEF RequestPlain, RequestContacts
    <2>3. /\ tpc[t] = "idle" /\ tpc'[t] = "lock"
          /\ \A u \in Asking \ {t} : tpc'[u] = tpc[u] /\ query'[u] = query[u]
      BY <2>1, <2>2 DEF Ask, Types
    <2> QED
      BY <2>1, <2>3, AskTable
  <1>3. ASSUME NEW t \in Asking, Lock(t) PROVE Loading' /\ Table'
    BY <1>3, AskTable DEF Lock, Types
  <1>4. ASSUME NEW t \in Asking, Send(t) PROVE Loading' /\ Table'
    BY <1>4, AskTable DEF Send, Types
  <1>5. ASSUME NEW t \in Asking, ReadRow(t) \/ ReadEnd(t) \/ Unlock(t) \/ ClientReads(t)
        PROVE  Loading' /\ Table'
    BY <1>5, ReadRowTable, ReadEndTable, UnlockTable, PrintTable
  <1>6. CASE Stat
    <2>1. UNCHANGED <<back, helper, left, rows, got, mimetypes>> /\ Main \in Asking
      BY <1>6, QueriesHave DEF Stat, pipes
    <2>2. CASE Ask(Main, Sources[src], NoQuery)
      <3>1. /\ tpc[Main] = "idle" /\ tpc'[Main] = "lock"
            /\ \A u \in Asking \ {Main} : tpc'[u] = tpc[u] /\ query'[u] = query[u]
        BY <2>1, <2>2 DEF Ask, Types
      <3> QED
        BY <2>1, <3>1, AskTable
    <2>3. CASE UNCHANGED <<tpc, query>>
      BY <2>1, <2>3, SameTable
    <2> QED
      BY <1>6, <2>2, <2>3 DEF Stat
  <1>7. CASE Aside \/ UNCHANGED vars
    <2>1. UNCHANGED <<pipes, askers>>
      BY <1>7 DEF Aside, CheckNotify, Alarm, IntervalOver, SetupNotify, Second, DbChange, vars
    <2> QED
      BY <2>1, SameTable DEF pipes, askers
  <1> QED
    BY <1>1, <1>2, <1>3, <1>4, <1>5, <1>6, <1>7 DEF Next, GoOn, Aside

-----------------------------------------------------------------------------
(* The alarm                                                               *)

\* What is known of a source whose time was noted and has not changed since:
\* the rows that are read or still to be read say what is unread in it, unless
\* the query failed.
Known(s) ==
  /\ tpc[Main] = "idle" \/ query[Main] # s => failed[s] \/ (alarmed[s] <=> unread[s])
  /\ tpc[Main] = "unlock" /\ query[Main] = s => failed[s] \/ (alarmed[s] <=> unread[s])
  /\ tpc[Main] = "read" /\ query[Main] = s =>
       /\ helper = "wait" /\ ~Ended => ~alarmed[s]
       /\ helper = "run" \/ Ended =>
            failed[s] \/ (alarmed[s] \/ Data + left > 0 <=> unread[s])

Tidings ==
  \A s \in Watched : ~stale[s] /\ ~hotstat[s] =>
    /\ ~hot[s]
    /\ helper # "dead" => Known(s)

(* Adding to nothing.                                                      *)
LEMMA ZeroPlus ==
  \A d, n \in Nat : d = 0 => d + n = n
  OBVIOUS

(* The helper gives rows for what is unread.                               *)
LEMMA HelperTidings ==
  ASSUME Types, Talk, Loading, Tidings, HelperRead \/ HelperRow \/ HelperEnd \/ HelperDies
  PROVE  Tidings'
  <1>0. UNCHANGED <<tpc, query, alarmed, unread, stale, hot, hotstat>>
    BY DEF HelperRead, HelperRow, HelperEnd, HelperDies, askers, notify, world
  <1>1. CASE HelperDies
    BY <1>0, <1>1 DEF HelperDies, Tidings
  <1>2. CASE HelperRead \/ HelperRow \/ HelperEnd
    <2> SUFFICES ASSUME NEW s \in Watched, ~stale[s], ~hotstat[s] PROVE Known(s)'
      BY <1>0 DEF Tidings
    <2>0. Known(s) /\ Main \in Asking
      BY <1>2, QueriesHave DEF Tidings, HelperRead, HelperRow, HelperEnd
    <2>1. CASE ~(tpc[Main] = "read" /\ query[Main] = s)
      <3>1. failed'[s] = failed[s]
        <4>1. CASE HelperRead
          <5>1. PICK t \in Asking : Hears(t)
            BY <4>1 DEF HelperRead, Talk, Silence
          <5>2. Head(forward) = query[t] /\ s # query[t]
            BY <4>1, <5>1, <2>1
               DEF HelperRead, Talk, Conversation, Asked, InWork, Answered, Hears, Asks, Printing,
                   Prints
          <5> QED
            BY <4>1, <5>2 DEF HelperRead
        <4>2. CASE HelperRow \/ HelperEnd
          BY <4>2 DEF HelperRow, HelperEnd, world
        <4> QED
          BY <1>2, <4>1, <4>2
      <3> QED
        BY <2>0, <2>1, <3>1, <1>0 DEF Known
    <2>2. CASE tpc[Main] = "read" /\ query[Main] = s
      <3>0. /\ Asked(Main) \/ InWork(Main) \/ Answered
            /\ helper # "dead" /\ Data \in Nat /\ left \in Nat
        BY <1>2, <2>0, <2>2, DataType
           DEF HelperRead, HelperRow, HelperEnd, Talk, Conversation, Types, Hears
      <3>1. CASE HelperRead
        <4>1. Asked(Main) /\ ~Ended /\ Data = 0
          BY <3>0, <3>1, DataType DEF HelperRead, Asked, InWork, Answered
        <4>2. Data' = 0 /\ ~Ended' /\ helper' = "run"
          BY <3>1, <4>1 DEF HelperRead, Data, Ended
        <4>3. left' \in RowCounts(s)
          BY <3>1, <4>1, <2>2 DEF HelperRead, Asked
        <4>4. left' \in Nat /\ (~unread[s] => left' = 0)
          BY <4>3, RowCountsOf, HelperAssumption
        <4>5. failed'[s] \/ (unread[s] <=> left' > 0)
          <5>1. failed'[s] = (unread[s] /\ left' = 0)
            BY <3>1, <4>1, <2>2 DEF HelperRead, Asked
          <5>2. left' > 0 <=> left' # 0
            BY <4>4
          <5>3. unread[s] \in BOOLEAN
            BY DEF Types
          <5> QED
            BY <5>1, <5>2, <5>3, <4>4
        <4>6. ~alarmed[s]
          BY <4>1, <2>0, <2>2 DEF Known, Asked
        <4>7. Data' + left' = left'
          BY <4>2, <4>4, ZeroPlus
        <4> QED
          BY <4>2, <4>5, <4>6, <4>7, <1>0, <2>2 DEF Known
      <3>2. CASE HelperRow
        <4>1. InWork(Main) /\ running \in Queries /\ running # End
          BY <3>0, <3>2, QueriesHave DEF HelperRow, Asked, InWork, Answered, Types
        <4>2. ~Ended /\ back' = Append(back, running)
          BY <3>2, <4>1 DEF HelperRow, InWork
        <4>3. Data' = Data + 1 /\ ~Ended' /\ left' = left - 1 /\ helper' = "run" /\ helper = "run"
          BY <4>1, <4>2, <3>2, DataWritten DEF HelperRow
        <4>4. Data' + left' > 0 <=> Data + left > 0
          BY <4>3, <3>0, <3>2 DEF HelperRow
        <4> QED
          BY <4>3, <4>4, <3>2, <1>0, <2>0, <2>2 DEF Known, HelperRow, world
      <3>3. CASE HelperEnd
        <4>1. InWork(Main) /\ left' = left /\ helper = "run" /\ helper' = "wait"
          BY <3>0, <3>3 DEF HelperEnd, Asked, InWork, Answered
        <4>2. Data' = Data /\ Ended'
          BY <3>3, <4>1, DataWritten DEF HelperEnd, InWork
        <4> QED
          BY <4>1, <4>2, <3>3, <1>0, <2>0, <2>2 DEF Known, HelperEnd, world
      <3> QED
        BY <1>2, <3>1, <3>2, <3>3
    <2> QED
      BY <2>1, <2>2
  <1> QED
    BY <1>1, <1>2

(* Only the main thread touches what check_notify knows.                   *)
LEMMA OtherTidings ==
  ASSUME Types, Talk, Tidings, NEW t \in Asking, t # Main,
         \/ t \in Threads /\ (RequestPlain(t) \/ RequestContacts(t))
         \/ Lock(t) \/ Send(t) \/ ReadRow(t) \/ ReadEnd(t) \/ Unlock(t) \/ ClientReads(t)
  PROVE  Tidings'
  <1>1. /\ tpc'[Main] = tpc[Main] /\ query'[Main] = query[Main] /\ Main \in Asking
        /\ UNCHANGED <<helper, left, alarmed, unread, stale, hot, hotstat, failed>>
    BY QueriesHave DEF Types, RequestPlain, RequestContacts, Ask, Lock, Send, ReadRow, ReadEnd,
       Unlock, ClientReads, pipes, notify, world
  <1>2. tpc[Main] = "read" => UNCHANGED back
    BY <1>1 DEF Talk, Exclusive, RequestPlain, RequestContacts, Lock, Send, ReadRow, ReadEnd,
       Unlock, ClientReads, pipes
  <1>3. tpc[Main] = "read" => Data' = Data /\ (Ended' <=> Ended)
    BY <1>2 DEF Data, Ended
  <1> QED
    BY <1>1, <1>3 DEF Tidings, Known

(* The main thread forgets its alarm, and takes what it reads for unread.  *)
LEMMA MainTidings ==
  ASSUME Types, Talk, Loading, Tidings, Lock(Main) \/ GoOn(Main)
  PROVE  Tidings'
  <1>0. /\ UNCHANGED <<helper, left, unread, stale, hot, hotstat, failed>> /\ Main \in Asking
    BY QueriesHave DEF GoOn, Lock, Send, ReadRow, ReadEnd, Unlock, notify, world
  <1> SUFFICES ASSUME NEW s \in Watched, ~stale[s], ~hotstat[s], helper # "dead" PROVE Known(s)'
    BY <1>0 DEF Tidings
  <1>1. Known(s) /\ Data \in Nat /\ left \in Nat /\ alarmed \in [Watched -> BOOLEAN]
    BY <1>0, DataType DEF Tidings, Types
  <1>2. ~Prints(Main) /\ tpc \in [Asking -> AskStates] /\ query \in [Asking -> Queries \cup {NoQuery}]
    BY DEF Types, Prints
  <1>3. CASE Lock(Main)
    BY <1>0, <1>1, <1>2, <1>3 DEF Lock, Known, notify
  <1>4. CASE Send(Main)
    <2>1. /\ tpc[Main] = "send" /\ tpc'[Main] = "read" /\ query'[Main] = query[Main]
          /\ query[Main] \in Watched /\ UNCHANGED <<back, helper>>
          /\ alarmed' = [alarmed EXCEPT ![query[Main]] = FALSE]
      BY <1>0, <1>2, <1>4 DEF Send, Talk, Asks
    <2>2. \A u \in Asking : ~Hears(u)
      BY <2>1, <1>0 DEF Talk, Exclusive, Hears
    <2>3. back = <<>> /\ helper = "wait"
      BY <2>2 DEF Talk, Silence
    <2>4. helper' = "wait" /\ ~Ended'
      BY <2>1, <2>3 DEF Ended
    <2>5. query[Main] = s => ~alarmed'[s]
      BY <2>1, <1>1
    <2>6. query[Main] # s => alarmed'[s] = alarmed[s]
      BY <2>1, <1>1
    <2> QED
      BY <2>1, <2>4, <2>5, <2>6, <1>0, <1>1 DEF Known
  <1>5. CASE ReadRow(Main)
    <2>1. /\ tpc[Main] = "read" /\ UNCHANGED <<tpc, query, helper>>
          /\ back # <<>> /\ Head(back) # End /\ back' = Tail(back)
          /\ alarmed' = [alarmed EXCEPT ![query[Main]] = TRUE] /\ query[Main] \in Watched
      BY <1>0, <1>2, <1>5 DEF ReadRow, Talk, Asks
    <2>2. Data > 0 /\ (Ended' <=> Ended)
      BY <2>1, DataRead
    <2>3. helper = "run" \/ Ended
      BY <2>1, <1>0 DEF Talk, Conversation, Asked, InWork, Answered, Hears
    <2>4. query[Main] = s => (failed[s] \/ unread[s]) /\ alarmed'[s]
      BY <2>1, <2>2, <2>3, <1>1 DEF Known
    <2>5. query[Main] # s => alarmed'[s] = alarmed[s]
      BY <2>1, <1>1
    <2> QED
      BY <2>1, <2>2, <2>3, <2>4, <2>5, <1>0, <1>1 DEF Known
  <1>6. CASE ReadEnd(Main)
    <2>1. /\ tpc[Main] = "read" /\ tpc'[Main] = "unlock" /\ UNCHANGED <<query, helper, alarmed>>
          /\ back # <<>>
      BY <1>0, <1>2, <1>6 DEF ReadEnd, notify
    <2>2. Answered /\ Ended /\ Len(back) = 1
      BY <1>0, <1>6, <2>1, ReadEndTalk
    <2>3. Data = 0 /\ left = 0
      BY <2>2 DEF Data, Answered, Loading
    <2> QED
      BY <2>1, <2>2, <2>3, <1>0, <1>1 DEF Known
  <1>7. CASE Unlock(Main)
    <2>1. todo[Main] = NoQuery
      BY <1>0, QueriesHave DEF Talk, Asks
    <2>2. tpc[Main] = "unlock" /\ tpc'[Main] = "idle" /\ UNCHANGED alarmed
      BY <1>0, <1>2, <1>7, <2>1 DEF Unlock, notify
    <2> QED
      BY <2>2, <1>0, <1>1 DEF Known
  <1> QED
    BY <1>3, <1>4, <1>5, <1>6, <1>7 DEF GoOn

(* A change after the stat is noticed as one; a stat begins anew.          *)
LEMMA NotifyTidings ==
  ASSUME Types, Talk, Tidings, Stat \/ Aside \/ UNCHANGED vars
  PROVE  Tidings'
  <1>0. UNCHANGED <<back, helper, left>> /\ Data' = Data /\ (Ended' <=> Ended)
    BY DEF Stat, Aside, CheckNotify, Alarm, IntervalOver, SetupNotify, Second, DbChange, vars,
       pipes, Data, Ended
  <1>1. CASE Stat
    <2> DEFINE c == Sources[src]
    <2>1. UNCHANGED <<alarmed, unread, hot, failed>> /\ tpc[Main] = "idle" /\ Main \in Asking
      BY <1>1, QueriesHave DEF Stat, world
    <2>2. CASE /\ stale' = [stale EXCEPT ![c] = FALSE] /\ hotstat' = [hotstat EXCEPT ![c] = hot[c]]
               /\ Ask(Main, c, NoQuery)
      <3>1. tpc'[Main] = "lock" /\ query'[Main] = c
        BY <2>1, <2>2 DEF Ask, Types
      <3> SUFFICES ASSUME NEW s \in Watched, ~stale'[s], ~hotstat'[s]
                   PROVE  ~hot[s] /\ (helper # "dead" => Known(s)')
        BY <2>1, <1>0 DEF Tidings
      <3>2. CASE s = c
        BY <3>1, <3>2, <2>1, <2>2 DEF Known, Types
      <3>3. CASE s # c
        <4>1. ~stale[s] /\ ~hotstat[s]
          BY <3>3, <2>2 DEF Types
        <4> QED
          BY <4>1, <3>1, <3>3, <2>1, <1>0 DEF Known, Tidings
      <3> QED
        BY <3>2, <3>3
    <2>3. CASE UNCHANGED <<stale, hotstat, tpc, query, todo>>
      BY <2>1, <2>3, <1>0 DEF Tidings, Known
    <2> QED
      BY <1>1, <2>2, <2>3 DEF Stat
  <1>2. CASE \E s \in Watched : DbChange(s)
    <2>1. PICK c \in Watched : DbChange(c)
      BY <1>2
    <2>2. /\ UNCHANGED <<tpc, query, alarmed, hotstat, failed>>
          /\ stale' = [stale EXCEPT ![c] = @ \/ ~hot[c]] /\ hot' = [hot EXCEPT ![c] = TRUE]
          /\ \E b \in BOOLEAN : unread' = [unread EXCEPT ![c] = b]
      BY <2>1 DEF DbChange, askers
    <2> SUFFICES ASSUME NEW s \in Watched, ~stale'[s], ~hotstat[s]
                 PROVE  ~hot'[s] /\ (helper # "dead" => Known(s)')
      BY <2>2, <1>0 DEF Tidings
    <2>3. s # c
      BY <2>2 DEF Types, Tidings
    <2>4. ~stale[s] /\ hot'[s] = hot[s] /\ unread'[s] = unread[s]
      BY <2>2, <2>3 DEF Types
    <2> QED
      BY <2>2, <2>4, <1>0 DEF Tidings, Known
  <1>3. CASE Second
    <2>1. UNCHANGED <<tpc, query, alarmed, stale, hotstat, unread, failed>>
          /\ hot' = [s \in Watched |-> FALSE]
      BY <1>3 DEF Second, askers, notify
    <2> QED
      BY <2>1, <1>0 DEF Tidings, Known
  <1>4. CASE CheckNotify \/ Alarm \/ IntervalOver \/ SetupNotify \/ UNCHANGED vars
    <2>1. UNCHANGED <<tpc, query, alarmed, stale, hotstat, unread, hot, failed>>
      BY <1>4 DEF CheckNotify, Alarm, IntervalOver, SetupNotify, vars, askers, notify, world
    <2> QED
      BY <2>1, <1>0 DEF Tidings, Known
  <1> QED
    BY <1>1, <1>2, <1>3, <1>4 DEF Aside

(* Every step keeps what check_notify knows.                               *)
LEMMA TidingsStep ==
  ASSUME Types, Talk, Loading, Tidings, [Next]_vars
  PROVE  Tidings'
  <1>1. CASE HelperRead \/ HelperRow \/ HelperEnd \/ HelperDies
    BY <1>1, HelperTidings
  <1>2. ASSUME NEW t \in Threads, RequestPlain(t) \/ RequestContacts(t) PROVE Tidings'
    BY <1>2, OtherTidings, HelperAssumption DEF Asking
  <1>3. ASSUME NEW t \in Asking, Lock(t) \/ GoOn(t) \/ ClientReads(t) PROVE Tidings'
    <2>1. ClientReads(t) => t # Main
      BY DEF ClientReads, Talk, Asks, Prints
    <2> QED
      BY <1>3, <2>1, OtherTidings, MainTidings DEF GoOn
  <1>4. CASE Stat \/ Aside \/ UNCHANGED vars
    BY <1>4, NotifyTidings
  <1> QED
    BY <1>1, <1>2, <1>3, <1>4 DEF Next, Aside

-----------------------------------------------------------------------------
(* Theorems                                                                *)

IInv == Types /\ Talk /\ Loading /\ Table /\ Tidings

(* The pipes are empty and nobody asks.                                    *)
LEMMA InitInv == Init => IInv
  <1> SUFFICES ASSUME Init PROVE IInv
    OBVIOUS
  <1>1. Types
    <2>1. 0 \in 0..(Len(Sources) + 1)
      BY HelperAssumption
    <2>2. forward \in Seq(Queries) /\ back \in Seq(Queries \cup {End})
          /\ Len(forward) <= 1 /\ Len(back) <= PipeSize
      BY HelperAssumption DEF Init
    <2> QED
      BY <2>1, <2>2 DEF Init, Types, AskStates
  <1>2. Talk
    BY QueriesHave DEF Init, Talk, Exclusive, Asks, Conversation, Silence, Hears, Printing
  <1>3. Loading /\ Table
    BY HelperAssumption DEF Init, Loading, Table
  <1>4. Tidings
    BY DEF Init, Tidings
  <1> QED
    BY <1>1, <1>2, <1>3, <1>4 DEF IInv

(* Every step keeps the invariant.                                         *)
LEMMA StepInv == IInv /\ [Next]_vars => IInv'
  BY TalkStep, TableStep, TidingsStep DEF IInv

(* The invariant holds in every state.                                     *)
LEMMA AlwaysInv == Spec => []IInv
  BY InitInv, StepInv, PTL DEF Spec

(* The state of helper, pipes, requests and check_notify keeps its shape;  *)
(* there is never more than one question in the pipe, and never more names *)
(* in the table of mimetypes than the phone has.                           *)
THEOREM HelperTypeOK == Spec => []TypeOK
  <1>1. IInv => TypeOK
    BY HelperAssumption DEF IInv, Types, Table, TypeOK
  <1> QED
    BY <1>1, AlwaysInv, PTL

(* Whatever requests and check_notify ask at once, however long the        *)
(* answers and the pipes are and whenever the helper dies: everyone gets   *)
(* rows of its own query only.                                             *)
THEOREM HelperOwnAnswer == Spec => []OwnAnswer
  <1>1. IInv => OwnAnswer
    BY DEF IInv, Talk, Asks, OwnAnswer
  <1> QED
    BY <1>1, AlwaysInv, PTL

(* No contact is printed with a half loaded table of mimetypes, although   *)
(* the table is tested and filled by requests at the same time.            *)
THEOREM HelperNamesReady == Spec => []NamesReady
  <1>1. IInv => NamesReady
    <2> SUFFICES ASSUME IInv, NEW t \in Threads, Contacts \in got[t]
                 PROVE  mimetypes \in {0, MimeRows}
      BY DEF NamesReady
    <2>1. t \in Asking /\ query[t] = Contacts
      BY DEF IInv, Talk, Asks, Asking
    <2>2. popenmutex = t
      <3>1. tpc[t] \notin {"idle", "lock", "send"}
        BY <2>1 DEF IInv, Talk, Asks
      <3> QED
        BY <3>1, <2>1 DEF IInv, Types, AskStates, Talk, Exclusive
    <2>3. ~Halfway
      BY <2>1, <2>2, QueriesHave DEF Halfway, IInv, Talk, Exclusive
    <2>4. ~Ruined
      BY <2>1 DEF Ruined
    <2> QED
      BY <2>3, <2>4 DEF IInv, Table
  <1> QED
    BY <1>1, AlwaysInv, PTL

(* As long as the helper lives, check_notify is alarmed exactly when       *)
(* something is unread in a database whose time has not changed since and  *)
(* whose query has not failed.                                             *)
THEOREM HelperAlarmIsCurrent == Spec => []AlarmIsCurrent
  <1>1. IInv => AlarmIsCurrent
    <2> SUFFICES ASSUME IInv, NEW s \in Watched, ~stale[s], ~hotstat[s], ~failed[s],
                        ~(tpc[Main] # "idle" /\ query[Main] = s), helper # "dead"
                 PROVE  alarmed[s] = unread[s]
      BY DEF AlarmIsCurrent
    <2>1. alarmed[s] <=> unread[s]
      BY DEF IInv, Tidings, Known
    <2>2. alarmed[s] \in BOOLEAN /\ unread[s] \in BOOLEAN
      BY DEF IInv, Types
    <2> QED
      BY <2>1, <2>2
  <1> QED
    BY <1>1, AlwaysInv, PTL
=============================================================================
