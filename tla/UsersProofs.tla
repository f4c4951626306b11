---------------------------- MODULE UsersProofs -----------------------------
(***************************************************************************)
(* What is proved of Users for every number of users, threads, changes and *)
(* kills: the types, what a reader sees, what the disk holds when a kill   *)
(* comes, and that the list implements UserList.                           *)
(*                                                                         *)
(* First what Entry says of a list to which a line is added, then what a   *)
(* turn of the copying loop does to the copy, then the invariants of the   *)
(* specification, one lemma per group of actions.                          *)
(***************************************************************************)
EXTENDS Users, SequenceTheorems, WellFoundedInduction, TLAPS

-----------------------------------------------------------------------------
(* Lists and their entries                                                 *)

Pair(l) == [ha1 |-> l.ha1, perm |-> l.perm]

(* A set of numbers that is not empty has a least element.                 *)
LEMMA LeastNumber ==
  ASSUME NEW T \in SUBSET Nat, T # {}
  PROVE  \E x \in T : \A y \in T : x <= y
  <1> DEFINE R == OpToRel(<, Nat)
  <1>1. IsWellFoundedOn(R, Nat)
    BY NatLessThanWellFounded
  <1>2. \E x \in T : \A y \in T : ~(<<y, x>> \in R)
    <2> HIDE DEF R
    <2> QED
      BY <1>1, WFMin
  <1>3. \A x, y \in Nat : <<y, x>> \in R <=> y < x
    BY DEF OpToRel
  <1> HIDE DEF R
  <1>4. PICK x \in T : \A y \in T : ~(<<y, x>> \in R)
    BY <1>2
  <1>5. \A y \in T : ~(y < x)
    BY <1>3, <1>4
  <1> QED
    BY <1>4, <1>5

(* A list that has a user has a first line of that user.                   *)
LEMMA FirstExists ==
  ASSUME NEW s \in Seq(Lines), NEW u, Has(s, u)
  PROVE  \E i \in 1..Len(s) : /\ s[i].user = u
                              /\ \A j \in 1..(i-1) : s[j].user # u
  <1> DEFINE T == {i \in 1..Len(s) : s[i].user = u}
  <1>0. Len(s) \in Nat
    BY LenProperties
  <1>1. T \in SUBSET Nat /\ T # {}
    BY <1>0 DEF Has
  <1>2. PICK x \in T : \A y \in T : x <= y
    BY <1>1, LeastNumber
  <1>3. \A j \in 1..(x-1) : s[j].user # u
    BY <1>0, <1>2
  <1> QED
    BY <1>2, <1>3

(* First is the first line of the user, and there is only one.             *)
LEMMA FirstLine ==
  ASSUME NEW s \in Seq(Lines), NEW u, Has(s, u)
  PROVE  /\ First(s, u) \in 1..Len(s) /\ s[First(s, u)].user = u
         /\ \A j \in 1..(First(s, u)-1) : s[j].user # u
  BY FirstExists DEF First

(* A line of the user with none before it is the first.                   *)
LEMMA FirstUnique ==
  ASSUME NEW s \in Seq(Lines), NEW u, NEW i \in 1..Len(s), s[i].user = u,
         \A j \in 1..(i-1) : s[j].user # u
  PROVE  Has(s, u) /\ First(s, u) = i
  <1>1. Has(s, u)
    BY DEF Has
  <1>2. /\ First(s, u) \in 1..Len(s) /\ s[First(s, u)].user = u
        /\ \A j \in 1..(First(s, u)-1) : s[j].user # u
    BY <1>1, FirstLine
  <1>3. Len(s) \in Nat
    BY LenProperties
  <1> HIDE DEF First
  <1> QED
    BY <1>1, <1>2, <1>3

(* Every entry is a pair, or NoEntry when the user is not in the list.     *)
LEMMA EntryType ==
  ASSUME NEW s \in Seq(Lines), NEW u
  PROVE  /\ Entry(s, u) \in [ha1 : Hashes, perm : Perms] \cup {NoEntry}
         /\ Has(s, u) <=> Entry(s, u) # NoEntry
  <1>1. CASE Has(s, u)
    <2>1. s[First(s, u)] \in Lines
      BY <1>1, FirstLine, ElementOfSeq
    <2> QED
      BY <1>1, <2>1, UsersAssumption DEF Entry, Lines
  <1>2. CASE ~Has(s, u)
    BY <1>2 DEF Entry
  <1> QED
    BY <1>1, <1>2

(* The empty list has nobody.                                              *)
LEMMA EntryEmpty ==
  ASSUME NEW u
  PROVE  Entry(<<>>, u) = NoEntry
  BY EmptySeq DEF Entry, Has

(* A line added at the end counts when the user had none.                  *)
LEMMA EntryAppend ==
  ASSUME NEW s \in Seq(Lines), NEW l \in Lines, NEW u
  PROVE  Entry(s \o <<l>>, u) = IF Entry(s, u) = NoEntry /\ l.user = u THEN Pair(l)
                                ELSE Entry(s, u)
  <1> DEFINE t == Append(s, l)
  <1>0. t = s \o <<l>>
    BY AppendIsConcat
  <1>1. /\ t \in Seq(Lines) /\ Len(t) = Len(s) + 1 /\ Len(s) \in Nat
        /\ \A i \in 1..Len(s) : t[i] = s[i]
        /\ t[Len(s) + 1] = l
    BY AppendProperties, LenProperties
  <1> HIDE DEF t
  <1>2. CASE Has(s, u)
    <2> DEFINE f == First(s, u)
    <2>1. /\ f \in 1..Len(s) /\ s[f].user = u
          /\ \A j \in 1..(f-1) : s[j].user # u
      BY <1>2, FirstLine
    <2> HIDE DEF f
    <2>2. f \in 1..Len(t) /\ t[f] = s[f] /\ \A j \in 1..(f-1) : t[j].user # u
      BY <1>1, <2>1
    <2>3. Has(t, u) /\ First(t, u) = f
      BY <1>1, <2>1, <2>2, FirstUnique
    <2> QED
      BY <1>0, <1>2, <2>2, <2>3, EntryType DEF Entry, f
  <1>3. CASE ~Has(s, u) /\ l.user = u
    <2>1. /\ Len(s) + 1 \in 1..Len(t) /\ t[Len(s) + 1].user = u
          /\ \A j \in 1..((Len(s) + 1)-1) : t[j].user # u
      BY <1>1, <1>3 DEF Has
    <2>2. Has(t, u) /\ First(t, u) = Len(s) + 1
      BY <1>1, <2>1, FirstUnique
    <2> QED
      BY <1>0, <1>1, <1>3, <2>2, EntryType DEF Entry, Pair
  <1>4. CASE ~Has(s, u) /\ l.user # u
    <2>1. ~Has(t, u)
      BY <1>1, <1>4 DEF Has
    <2> QED
      BY <1>0, <1>4, <2>1 DEF Entry
  <1> QED
    BY <1>2, <1>3, <1>4

-----------------------------------------------------------------------------
(* The copy that a change makes                                            *)

Pairs == [ha1 : Hashes, perm : Perms]

(* What a change makes of an entry, case by case.                          *)
LEMMA ChangedNone ==
  ASSUME NEW o \in Op
  PROVE  UL!Changed(NoEntry, o.pass, o.permissions) =
           IF o.pass = NoPass THEN NoEntry ELSE [ha1 |-> o.pass, perm |-> All]
  BY DEF UL!Changed

LEMMA ChangedSome ==
  ASSUME NEW o \in Op, NEW x \in Pairs
  PROVE  /\ o.permissions # Keep =>
              /\ UL!Changed(x, o.pass, o.permissions) = [ha1 |-> x.ha1, perm |-> o.permissions]
              /\ o.permissions \in Perms
         /\ o.permissions = Keep /\ o.pass # NoPass =>
              /\ UL!Changed(x, o.pass, o.permissions) = [ha1 |-> o.pass, perm |-> x.perm]
              /\ o.pass \in Hashes
         /\ o.permissions = Keep /\ o.pass = NoPass =>
              UL!Changed(x, o.pass, o.permissions) = NoEntry
  <1>1. x # NoEntry
    BY UsersAssumption DEF Pairs
  <1> QED
    BY <1>1 DEF UL!Changed, Pairs, Op

Goal(b, o, u) == IF u = o.user THEN UL!Changed(Entry(b, u), o.pass, o.permissions)
                 ELSE Entry(b, u)

\* The list s is the list b after the change o.
Made(s, b, o) == \A u \in Names : Entry(s, u) = Goal(b, o, u)

\* The lines s have been written for the lines p of the list.
Copied(s, p, o, f) ==
  /\ f <=> Entry(p, o.user) # NoEntry
  /\ \A u \in Names :
       Entry(s, u) = IF u = o.user /\ ~f THEN NoEntry ELSE Goal(p, o, u)

(* What is written for a line is a list of lines.                          *)
LEMMA WrittenType ==
  ASSUME NEW o \in Op, NEW l \in Lines
  PROVE  Rewritten(l, o) \in Seq(Lines)
  <1>1. /\ o.permissions # Keep => [l EXCEPT !.perm = o.permissions] \in Lines
        /\ o.pass # NoPass => [l EXCEPT !.ha1 = o.pass] \in Lines
    BY DEF Op, Lines
  <1> QED
    BY <1>1 DEF Rewritten

(* So is what is written for a new user.                                   *)
LEMMA AddedType ==
  ASSUME NEW o \in Op, NEW f \in BOOLEAN
  PROVE  Added(o, f) \in Seq(Lines)
  <1>1. o.pass # NoPass => [user |-> o.user, ha1 |-> o.pass, perm |-> All] \in Lines
    BY UsersAssumption DEF Op, Lines
  <1> QED
    BY <1>1 DEF Added

(* Nothing is copied of nothing.                                           *)
LEMMA CopiedNothing ==
  ASSUME NEW o \in Op
  PROVE  Copied(<<>>, <<>>, o, FALSE)
  BY EntryEmpty DEF Copied, Goal

(* A line of another user is copied.                                       *)
LEMMA CopiedOther ==
  ASSUME NEW o \in Op, NEW l \in Lines, NEW s \in Seq(Lines), NEW p \in Seq(Lines),
         NEW f \in BOOLEAN, Copied(s, p, o, f), l.user # o.user
  PROVE  Copied(s \o <<l>>, p \o <<l>>, o, f)
  <1>1. \A u \in Names :
          /\ Entry(s \o <<l>>, u) = IF Entry(s, u) = NoEntry /\ l.user = u THEN Pair(l)
                                    ELSE Entry(s, u)
          /\ Entry(p \o <<l>>, u) = IF Entry(p, u) = NoEntry /\ l.user = u THEN Pair(l)
                                    ELSE Entry(p, u)
    BY EntryAppend
  <1>2. o.user \in Names
    BY DEF Op
  <1> QED
    BY <1>1, <1>2 DEF Copied, Goal

(* What is written for a line of the user that is changed: the changed     *)
(* line, or nothing when the user is removed.                              *)
LEMMA RewrittenIs ==
  ASSUME NEW o \in Op, NEW l \in Lines
  PROVE  \/ /\ Rewritten(l, o) = <<>>
            /\ \A x \in Pairs : UL!Changed(x, o.pass, o.permissions) = NoEntry
         \/ /\ \E m \in Lines : /\ Rewritten(l, o) = <<m>> /\ m.user = l.user
                                /\ Pair(m) = UL!Changed(Pair(l), o.pass, o.permissions)
            /\ \A x \in Pairs : UL!Changed(x, o.pass, o.permissions) # NoEntry
  <1>0. Pair(l) \in Pairs /\ Pair(l).ha1 = l.ha1 /\ Pair(l).perm = l.perm
        /\ NoEntry \notin Pairs
    BY UsersAssumption DEF Lines, Pair, Pairs
  <1>1. CASE o.permissions # Keep
    <2> DEFINE m == [l EXCEPT !.perm = o.permissions]
    <2>1. m \in Lines /\ m.user = l.user /\ Rewritten(l, o) = <<m>>
      BY <1>1 DEF Op, Lines, Rewritten
    <2>2. Pair(m) = [ha1 |-> l.ha1, perm |-> o.permissions]
      BY DEF Pair, Lines
    <2> HIDE DEF m
    <2>3. Pair(m) = UL!Changed(Pair(l), o.pass, o.permissions)
      BY <1>0, <1>1, <2>2, ChangedSome
    <2>4. ASSUME NEW x \in Pairs
          PROVE  UL!Changed(x, o.pass, o.permissions) \in Pairs
      <3>1. [ha1 |-> x.ha1, perm |-> o.permissions] \in Pairs
        BY <1>1, ChangedSome DEF Pairs
      <3> QED
        BY <1>1, <3>1, ChangedSome
    <2> QED
      BY <1>0, <2>1, <2>3, <2>4
  <1>2. CASE o.permissions = Keep /\ o.pass # NoPass
    <2> DEFINE m == [l EXCEPT !.ha1 = o.pass]
    <2>1. m \in Lines /\ m.user = l.user /\ Rewritten(l, o) = <<m>>
      BY <1>2 DEF Op, Lines, Rewritten
    <2>2. Pair(m) = [ha1 |-> o.pass, perm |-> l.perm]
      BY DEF Pair, Lines
    <2> HIDE DEF m
    <2>3. Pair(m) = UL!Changed(Pair(l), o.pass, o.permissions)
      BY <1>0, <1>2, <2>2, ChangedSome
    <2>4. ASSUME NEW x \in Pairs
          PROVE  UL!Changed(x, o.pass, o.permissions) \in Pairs
      <3>1. [ha1 |-> o.pass, perm |-> x.perm] \in Pairs
        BY <1>2, ChangedSome DEF Pairs
      <3> QED
        BY <1>2, <3>1, ChangedSome
    <2> QED
      BY <1>0, <2>1, <2>3, <2>4
  <1>3. CASE o.permissions = Keep /\ o.pass = NoPass
    BY <1>3, ChangedSome DEF Rewritten
  <1> QED
    BY <1>1, <1>2, <1>3

(* A line of the user that is changed is written changed, or left out; the *)
(* lines behind the first of that user change nothing.                     *)
LEMMA CopiedMine ==
  ASSUME NEW o \in Op, NEW l \in Lines, NEW s \in Seq(Lines), NEW p \in Seq(Lines),
         NEW f \in BOOLEAN, Copied(s, p, o, f), l.user = o.user
  PROVE  Copied(s \o Rewritten(l, o), p \o <<l>>, o, TRUE)
  <1> DEFINE q == p \o <<l>>
             t == s \o Rewritten(l, o)
             Ch(x) == UL!Changed(x, o.pass, o.permissions)
  <1>0. o.user \in Names /\ Pair(l) \in Pairs /\ NoEntry \notin Pairs
    BY UsersAssumption DEF Op, Lines, Pair, Pairs
  <1>1. \A u \in Names : Entry(q, u) = IF Entry(p, u) = NoEntry /\ l.user = u THEN Pair(l)
                                       ELSE Entry(p, u)
    BY EntryAppend
  <1>2. Entry(q, o.user) \in Pairs
    BY <1>0, <1>1, EntryType DEF Pairs
  <1>3. Entry(s, o.user) = IF ~f THEN NoEntry ELSE Ch(Entry(p, o.user))
    BY <1>0 DEF Copied, Goal
  <1>4. Entry(q, o.user) = IF ~f THEN Pair(l) ELSE Entry(p, o.user)
    BY <1>0, <1>1 DEF Copied
  <1>5. /\ \A u \in Names : u # o.user => Entry(t, u) = Entry(s, u)
        /\ Entry(t, o.user) = Ch(Entry(q, o.user))
    <2>1. CASE Rewritten(l, o) = <<>> /\ \A x \in Pairs : Ch(x) = NoEntry
      <3>1. t = s
        BY <2>1, ConcatEmptySeq
      <3> QED
        BY <1>2, <1>3, <1>4, <2>1, <3>1
    <2>2. ASSUME NEW m \in Lines, Rewritten(l, o) = <<m>>, m.user = o.user,
                 Pair(m) = Ch(Pair(l)), \A x \in Pairs : Ch(x) # NoEntry
          PROVE  /\ \A u \in Names : u # o.user => Entry(t, u) = Entry(s, u)
                 /\ Entry(t, o.user) = Ch(Entry(q, o.user))
      <3>1. \A u \in Names : Entry(t, u) = IF Entry(s, u) = NoEntry /\ m.user = u
                                           THEN Pair(m) ELSE Entry(s, u)
        BY <2>2, EntryAppend
      <3> HIDE DEF q, t, Ch
      <3> QED
        BY <1>0, <1>2, <1>3, <1>4, <2>2, <3>1
    <2> QED
      BY <2>1, <2>2, RewrittenIs
  <1>6. \A u \in Names : u # o.user => Entry(t, u) = Entry(q, u)
    <2> HIDE DEF q, t
    <2> QED
      BY <1>1, <1>5 DEF Copied, Goal
  <1>7. \A u \in Names : Entry(t, u) = Goal(q, o, u)
    <2> HIDE DEF q, t
    <2> QED
      BY <1>5, <1>6 DEF Goal
  <1>8. Entry(q, o.user) # NoEntry
    BY <1>0, <1>2
  <1> HIDE DEF q, t
  <1>9. Copied(t, q, o, TRUE)
    BY <1>7, <1>8 DEF Copied
  <1> QED
    BY <1>9 DEF q, t

(* When all lines are copied, and a new user is added, the change is made. *)
LEMMA CopiedAll ==
  ASSUME NEW o \in Op, NEW s \in Seq(Lines), NEW b \in Seq(Lines),
         NEW f \in BOOLEAN, Copied(s, b, o, f)
  PROVE  Made(s \o Added(o, f), b, o)
  <1>0. o.user \in Names
    BY DEF Op
  <1>1. CASE f \/ o.pass = NoPass
    <2>1. s \o Added(o, f) = s
      BY <1>1, ConcatEmptySeq DEF Added
    <2> QED
      BY <1>1, <2>1, ChangedNone DEF Copied, Made, Goal
  <1>2. CASE ~f /\ o.pass # NoPass
    <2> DEFINE l == [user |-> o.user, ha1 |-> o.pass, perm |-> All]
    <2>1. l \in Lines /\ Added(o, f) = <<l>> /\ l.user = o.user
      BY <1>2, UsersAssumption DEF Op, Lines, Added
    <2>2. Pair(l) = [ha1 |-> o.pass, perm |-> All]
      BY DEF Pair
    <2> HIDE DEF l
    <2>3. \A u \in Names :
            Entry(s \o <<l>>, u) = IF Entry(s, u) = NoEntry /\ l.user = u THEN Pair(l)
                                   ELSE Entry(s, u)
      BY <2>1, EntryAppend
    <2>4. Entry(b, o.user) = NoEntry /\ Entry(s, o.user) = NoEntry
      BY <1>0, <1>2 DEF Copied
    <2>5. Goal(b, o, o.user) = Pair(l)
      BY <1>2, <2>2, <2>4, ChangedNone DEF Goal
    <2> QED
      BY <1>0, <2>1, <2>3, <2>4, <2>5 DEF Copied, Made, Goal
  <1> QED
    BY <1>1, <1>2

-----------------------------------------------------------------------------
(* The invariant                                                           *)

\* What the place of an editor says of its variables.
Shape ==
  \A e \in Editors :
    /\ IF Busy(e) THEN up /\ op[e] \in Op ELSE alone[e]
    /\ IF pc[e] \in {"tmp", "copy", "flush"} THEN fp[e] \in Inodes ELSE fp[e] = NoFile
    /\ IF pc[e] \in {"copy", "flush"} THEN fp2[e] \in Inodes ELSE fp2[e] = NoFile
    /\ pc[e] \notin {"copy", "flush"} => out[e] = <<>> /\ ~found[e]

\* A change that is alone is the only one.
Exclusive == \A e, f \in Editors : e # f /\ Busy(e) /\ Busy(f) => ~alone[e]

\* Inodes that are not in use are empty.
Blank == \A i \in Inodes : i \notin Live => content[i] = <<>>

\* The temporary file is neither the list nor read by anybody.
Distinct == /\ tmp # NoFile => tmp # file
            /\ \A r \in Readers : Reading(r) => rfp[r] # tmp

\* What a reader has while changes do not overlap.
Calm == \A r \in Readers :
          Reading(r) /\ calm[r] => Undisturbed /\ content[rfp[r]] = was[r]

\* How far a change that is alone has come.
OldList(e) == file # NoFile /\ content[file] = before[e]
Progress(e) ==
  /\ pc[e] = "create" => OldList(e) \/ (file = NoFile /\ before[e] = <<>>)
  /\ pc[e] \in {"open", "tmp", "copy", "flush", "remove"} => OldList(e)
  /\ pc[e] \in {"tmp", "copy", "flush"} => fp[e] = file
  /\ pc[e] \in {"copy", "flush"} => fp2[e] = tmp /\ content[tmp] = <<>>
  /\ pc[e] = "copy" => /\ lines[e] \in 0..Len(before[e])
                       /\ Copied(out[e], SubSeq(before[e], 1, lines[e]), op[e], found[e])
  /\ pc[e] = "flush" => Made(out[e], before[e], op[e])
  /\ pc[e] \in {"remove", "rename"} => tmp # NoFile /\ Made(content[tmp], before[e], op[e])
  /\ pc[e] = "rename" => file = NoFile

Lone == \A e \in Editors : Busy(e) /\ alone[e] => Progress(e)

\* Without an overlap since the start every change is alone, and there is no
\* list only while one of them has it in hand.
Gap == /\ orderly => Undisturbed
       /\ up /\ orderly /\ file = NoFile => \E e \in Editors : pc[e] = "rename"

IInv == TypeOK /\ Shape /\ Exclusive /\ Blank /\ Distinct /\ Calm /\ Lone /\ Gap

-----------------------------------------------------------------------------
(* The disk                                                                *)

(* A step that ends with Disk(c) leaves the lines c in the inodes in use.  *)
LEMMA DiskIs ==
  ASSUME NEW c \in [Inodes -> Seq(Lines)], Disk(c)
  PROVE  /\ content' \in [Inodes -> Seq(Lines)] /\ Blank'
         /\ \A i \in Inodes : i \in Live' => content'[i] = c[i]
  <1>1. \A i \in Inodes : content'[i] = IF i \in Live' THEN c[i] ELSE <<>>
    BY DEF Disk
  <1>2. DOMAIN content' = Inodes /\ content' = [i \in Inodes |-> content'[i]]
    BY DEF Disk
  <1>3. <<>> \in Seq(Lines)
    BY EmptySeq
  <1> QED
    BY <1>1, <1>2, <1>3 DEF Blank

(* What is named or open is in use.                                        *)
LEMMA InUse ==
  /\ file \in Live /\ tmp \in Live
  /\ \A e \in Editors : fp[e] \in Live /\ fp2[e] \in Live
  /\ \A r \in Readers : rfp[r] \in Live
  BY DEF Live

(* A fresh inode is free and, by Blank, empty.                             *)
LEMMA FreshIs ==
  ASSUME Free # {}, Blank
  PROVE  Fresh \in Inodes /\ Fresh \notin Live /\ content[Fresh] = <<>>
  <1>1. Fresh \in Free
    BY DEF Fresh
  <1> QED
    BY <1>1 DEF Free, Blank

(* Writing a list over an empty inode gives the list.                      *)
LEMMA OverwriteIs ==
  ASSUME NEW s \in Seq(Lines), NEW new \in Seq(Lines)
  PROVE  /\ Overwrite(s, new) \in Seq(Lines)
         /\ s = <<>> => Overwrite(s, new) = new
  <1>1. Len(new) \in Nat /\ Len(s) \in Nat
    BY LenProperties
  <1>2. \A i \in (Len(new) + 1)..Len(s) : s[i] \in Lines
    BY <1>1, ElementOfSeq
  <1>3. SubSeq(s, Len(new) + 1, Len(s)) \in Seq(Lines)
    BY <1>1, <1>2, SubSeqProperties
  <1>4. Overwrite(s, new) \in Seq(Lines)
    BY <1>3, ConcatProperties DEF Overwrite
  <1>5. CASE s = <<>>
    <2>1. Len(s) < Len(new) + 1 /\ Len(s) \in Int /\ Len(new) + 1 \in Int
      BY <1>1, <1>5, EmptySeq
    <2>2. SubSeq(s, Len(new) + 1, Len(s)) = <<>>
      BY <2>1, SubSeqEmpty
    <2> QED
      BY <1>4, <2>2, ConcatEmptySeq DEF Overwrite
  <1> QED
    BY <1>4, <1>5

-----------------------------------------------------------------------------
(* Types and places                                                        *)

(* Every step keeps the types.                                             *)
LEMMA TypesStep ==
  ASSUME TypeOK, IInv, [Next]_vars
  PROVE  TypeOK'
  <1>1. ASSUME NEW e \in Editors, NEW o \in Op, Start(e, o)
        PROVE  TypeOK'
    <2>1. before' \in [Editors -> Seq(Lines)]
      <3>1. <<>> \in Seq(Lines) /\ (file # NoFile => content[file] \in Seq(Lines))
        BY EmptySeq DEF TypeOK
      <3> QED
        BY <1>1, <3>1 DEF Start
    <2>2. edits' \in 0..MaxEdits
      BY <1>1, UsersAssumption DEF Start, TypeOK
    <2>3. alone' \in [Editors -> BOOLEAN] /\ calm' \in [Readers -> BOOLEAN]
      BY <1>1 DEF Start, TypeOK, Busy
    <2> QED
      BY <1>1, <2>1, <2>2, <2>3 DEF Start, TypeOK, Goto, EditorStates
  <1>2. ASSUME NEW e \in Editors, Create(e)
        PROVE  TypeOK'
    BY <1>2, FreshIs DEF IInv, Create, TypeOK, Goto, EditorStates
  <1>3. ASSUME NEW e \in Editors, Open(e)
        PROVE  TypeOK'
    BY <1>3, EmptySeq DEF Open, TypeOK, Goto, EditorStates, Reading, Undisturbed
  <1>4. ASSUME NEW e \in Editors, OpenTmp(e)
        PROVE  TypeOK'
    <2>1. tmp' \in Inodes
      BY <1>4, FreshIs DEF IInv, OpenTmp, TypeOK
    <2> QED
      BY <1>4, <2>1, EmptySeq DEF OpenTmp, TypeOK, Goto, EditorStates
  <1>5. ASSUME NEW e \in Editors, CopyLine(e)
        PROVE  TypeOK'
    <2>1. fp[e] \in Inodes /\ op[e] \in Op /\ content[fp[e]] \in Seq(Lines)
      BY <1>5 DEF CopyLine, IInv, Shape, Busy, TypeOK
    <2> DEFINE l == content[fp[e]][lines[e] + 1]
               w == IF l.user = op[e].user THEN Rewritten(l, op[e]) ELSE <<l>>
    <2>2. l \in Lines
      <3>1. lines[e] + 1 \in 1..Len(content[fp[e]])
        BY <1>5, <2>1, LenProperties DEF CopyLine, TypeOK
      <3> QED
        BY <2>1, <3>1, ElementOfSeq
    <2>3. w \in Seq(Lines)
      BY <2>1, <2>2, WrittenType
    <2>4. out' = [out EXCEPT ![e] = @ \o w]
          /\ found' = [found EXCEPT ![e] = @ \/ l.user = op[e].user]
      BY <1>5 DEF CopyLine
    <2> HIDE DEF w, l
    <2>5. out' \in [Editors -> Seq(Lines)]
      BY <2>3, <2>4, ConcatProperties DEF TypeOK
    <2>6. found' \in [Editors -> BOOLEAN]
      BY <2>4 DEF TypeOK
    <2> QED
      BY <1>5, <2>5, <2>6 DEF CopyLine, TypeOK
  <1>6. ASSUME NEW e \in Editors, CopyEnd(e)
        PROVE  TypeOK'
    <2>1. op[e] \in Op /\ found[e] \in BOOLEAN
      BY <1>6 DEF CopyEnd, IInv, Shape, Busy, Goto, TypeOK
    <2>2. Added(op[e], found[e]) \in Seq(Lines)
      BY <2>1, AddedType
    <2>3. out' \in [Editors -> Seq(Lines)]
      BY <1>6, <2>2, ConcatProperties DEF CopyEnd, TypeOK
    <2> QED
      BY <1>6, <2>3 DEF CopyEnd, TypeOK, Goto, EditorStates
  <1>7. ASSUME NEW e \in Editors, Flush(e)
        PROVE  TypeOK'
    <2>1. fp2[e] \in Inodes
      BY <1>7 DEF Flush, IInv, Shape, Goto
    <2>2. [content EXCEPT ![fp2[e]] = Overwrite(@, out[e])] \in [Inodes -> Seq(Lines)]
      BY <2>1, OverwriteIs DEF TypeOK
    <2>3. content' \in [Inodes -> Seq(Lines)]
      BY <1>7, <2>2, DiskIs DEF Flush
    <2> QED
      BY <1>7, <2>3, EmptySeq DEF Flush, TypeOK, Goto, EditorStates
  <1>8. ASSUME NEW e \in Editors, Remove(e)
        PROVE  TypeOK'
    <2>1. content' \in [Inodes -> Seq(Lines)]
      BY <1>8, DiskIs DEF Remove, TypeOK
    <2> QED
      BY <1>8, <2>1, EmptySeq DEF Remove, TypeOK, Goto, EditorStates
  <1>9. ASSUME NEW e \in Editors, Rename(e)
        PROVE  TypeOK'
    <2>1. content' \in [Inodes -> Seq(Lines)]
      BY <1>9, DiskIs DEF Rename, TypeOK
    <2> QED
      BY <1>9, <2>1, EmptySeq DEF Rename, TypeOK, Goto, EditorStates
  <1>10. ASSUME NEW r \in Readers, ReadOpen(r)
         PROVE  TypeOK'
    BY <1>10, EmptySeq DEF ReadOpen, TypeOK, Goto, EditorStates, Reading, Undisturbed
  <1>11. ASSUME NEW r \in Readers, ReadClose(r)
         PROVE  TypeOK'
    <2>1. content' \in [Inodes -> Seq(Lines)]
      BY <1>11, DiskIs DEF ReadClose, TypeOK
    <2> QED
      BY <1>11, <2>1, EmptySeq DEF ReadClose, TypeOK, Goto, EditorStates
  <1>12. ASSUME Kill
         PROVE  TypeOK'
    <2>1. content' \in [Inodes -> Seq(Lines)]
      BY <1>12, DiskIs DEF Kill, TypeOK
    <2>2. kills' \in 0..MaxKills
      BY <1>12, UsersAssumption DEF Kill, TypeOK
    <2>3. out' \in [Editors -> Seq(Lines)] /\ before' \in [Editors -> Seq(Lines)]
      BY <1>12, EmptySeq DEF Kill
    <2> QED
      BY <1>12, <2>1, <2>2, <2>3 DEF Kill, TypeOK, EditorStates
  <1>13. ASSUME Restart
         PROVE  TypeOK'
    BY <1>13, FreshIs DEF IInv, Restart, TypeOK
  <1>15. ASSUME NEW r \in Readers, ReadMiss(r)
         PROVE  TypeOK'
    BY <1>15 DEF ReadMiss, TypeOK
  <1>16. ASSUME NEW r \in Readers, ReadLeave(r)
         PROVE  TypeOK'
    BY <1>16 DEF ReadLeave, TypeOK
  <1>14. CASE UNCHANGED vars
    BY <1>14 DEF vars, TypeOK
  <1> QED
    BY <1>1, <1>2, <1>3, <1>4, <1>5, <1>6, <1>7, <1>8, <1>9, <1>10, <1>11, <1>12, <1>13, <1>14, <1>15,
       <1>16 DEF Next, Edit

(* Every step keeps what the places say.                                   *)
LEMMA ShapeStep ==
  ASSUME IInv, [Next]_vars
  PROVE  Shape'
  <1>1. ASSUME NEW e \in Editors, NEW o \in Op, Start(e, o)
        PROVE  Shape'
    BY <1>1 DEF Start, IInv, TypeOK, Shape, Goto, Busy
  <1>2. ASSUME NEW e \in Editors, Create(e)
        PROVE  Shape'
    BY <1>2 DEF Create, IInv, TypeOK, Shape, Goto, Busy
  <1>3. ASSUME NEW e \in Editors, Open(e)
        PROVE  Shape'
    BY <1>3 DEF Open, IInv, TypeOK, Shape, Goto, Busy
  <1>4. ASSUME NEW e \in Editors, OpenTmp(e)
        PROVE  Shape'
    <2>1. tmp' \in Inodes
      BY <1>4, FreshIs DEF IInv, OpenTmp, TypeOK
    <2> QED
      BY <1>4, <2>1 DEF OpenTmp, IInv, TypeOK, Shape, Goto, Busy
  <1>5. ASSUME NEW e \in Editors, CopyLine(e)
        PROVE  Shape'
    BY <1>5 DEF CopyLine, IInv, TypeOK, Shape, Goto, Busy
  <1>6. ASSUME NEW e \in Editors, CopyEnd(e)
        PROVE  Shape'
    BY <1>6 DEF CopyEnd, IInv, TypeOK, Shape, Goto, Busy
  <1>7. ASSUME NEW e \in Editors, Flush(e)
        PROVE  Shape'
    BY <1>7 DEF Flush, IInv, TypeOK, Shape, Goto, Busy
  <1>8. ASSUME NEW e \in Editors, Remove(e)
        PROVE  Shape'
    BY <1>8 DEF Remove, IInv, TypeOK, Shape, Goto, Busy
  <1>9. ASSUME NEW e \in Editors, Rename(e)
        PROVE  Shape'
    BY <1>9 DEF Rename, IInv, TypeOK, Shape, Goto, Busy
  <1>10. ASSUME NEW r \in Readers, ReadOpen(r)
         PROVE  Shape'
    BY <1>10 DEF ReadOpen, IInv, TypeOK, Shape, Goto, Busy
  <1>11. ASSUME NEW r \in Readers, ReadClose(r)
         PROVE  Shape'
    BY <1>11 DEF ReadClose, IInv, TypeOK, Shape, Goto, Busy
  <1>12. ASSUME Kill
         PROVE  Shape'
    BY <1>12 DEF Kill, IInv, TypeOK, Shape, Busy
  <1>13. ASSUME Restart
         PROVE  Shape'
    BY <1>13 DEF Restart, IInv, TypeOK, Shape, Goto, Busy
  <1>15. ASSUME NEW r \in Readers, ReadMiss(r)
         PROVE  Shape'
    BY <1>15 DEF ReadMiss, IInv, Shape, Busy
  <1>16. ASSUME NEW r \in Readers, ReadLeave(r)
         PROVE  Shape'
    BY <1>16 DEF ReadLeave, IInv, Shape, Busy
  <1>14. CASE UNCHANGED vars
    BY <1>14 DEF vars, IInv, Shape, Busy
  <1> QED
    BY <1>1, <1>2, <1>3, <1>4, <1>5, <1>6, <1>7, <1>8, <1>9, <1>10, <1>11, <1>12, <1>13, <1>14, <1>15,
       <1>16 DEF Next, Edit

(* A change that another joins is not alone any more.                      *)
LEMMA ExclusiveStep ==
  ASSUME IInv, [Next]_vars
  PROVE  Exclusive'
  <1>1. ASSUME NEW e \in Editors, NEW o \in Op, Start(e, o)
        PROVE  Exclusive'
    BY <1>1 DEF Start, IInv, TypeOK, Shape, Exclusive, Goto, Busy
  <1>2. ASSUME NEW e \in Editors, Create(e)
        PROVE  Exclusive'
    BY <1>2 DEF Create, IInv, TypeOK, Shape, Exclusive, Goto, Busy
  <1>3. ASSUME NEW e \in Editors, Open(e)
        PROVE  Exclusive'
    BY <1>3 DEF Open, IInv, TypeOK, Shape, Exclusive, Goto, Busy
  <1>4. ASSUME NEW e \in Editors, OpenTmp(e)
        PROVE  Exclusive'
    BY <1>4 DEF OpenTmp, IInv, TypeOK, Shape, Exclusive, Goto, Busy
  <1>5. ASSUME NEW e \in Editors, CopyLine(e)
        PROVE  Exclusive'
    BY <1>5 DEF CopyLine, IInv, TypeOK, Shape, Exclusive, Goto, Busy
  <1>6. ASSUME NEW e \in Editors, CopyEnd(e)
        PROVE  Exclusive'
    BY <1>6 DEF CopyEnd, IInv, TypeOK, Shape, Exclusive, Goto, Busy
  <1>7. ASSUME NEW e \in Editors, Flush(e)
        PROVE  Exclusive'
    BY <1>7 DEF Flush, IInv, TypeOK, Shape, Exclusive, Goto, Busy
  <1>8. ASSUME NEW e \in Editors, Remove(e)
        PROVE  Exclusive'
    BY <1>8 DEF Remove, IInv, TypeOK, Shape, Exclusive, Goto, Busy
  <1>9. ASSUME NEW e \in Editors, Rename(e)
        PROVE  Exclusive'
    BY <1>9 DEF Rename, IInv, TypeOK, Shape, Exclusive, Goto, Busy
  <1>10. ASSUME NEW r \in Readers, ReadOpen(r)
         PROVE  Exclusive'
    BY <1>10 DEF ReadOpen, IInv, TypeOK, Shape, Exclusive, Goto, Busy
  <1>11. ASSUME NEW r \in Readers, ReadClose(r)
         PROVE  Exclusive'
    BY <1>11 DEF ReadClose, IInv, TypeOK, Shape, Exclusive, Goto, Busy
  <1>12. ASSUME Kill
         PROVE  Exclusive'
    BY <1>12 DEF Kill, IInv, TypeOK, Shape, Exclusive, Goto, Busy
  <1>13. ASSUME Restart
         PROVE  Exclusive'
    BY <1>13 DEF Restart, IInv, TypeOK, Shape, Exclusive, Goto, Busy
  <1>15. ASSUME NEW r \in Readers, ReadMiss(r)
         PROVE  Exclusive'
    BY <1>15 DEF ReadMiss, IInv, Exclusive, Busy
  <1>16. ASSUME NEW r \in Readers, ReadLeave(r)
         PROVE  Exclusive'
    BY <1>16 DEF ReadLeave, IInv, Exclusive, Busy
  <1>14. CASE UNCHANGED vars
    BY <1>14 DEF vars, IInv, Exclusive, Busy
  <1> QED
    BY <1>1, <1>2, <1>3, <1>4, <1>5, <1>6, <1>7, <1>8, <1>9, <1>10, <1>11, <1>12, <1>13, <1>14, <1>15,
       <1>16 DEF Next, Edit

-----------------------------------------------------------------------------
(* The disk and its readers                                                *)

(* What goes out of use is emptied, what comes into use was empty.         *)
LEMMA BlankStep ==
  ASSUME IInv, [Next]_vars
  PROVE  Blank'
  <1>1. ASSUME NEW e \in Editors, NEW o \in Op, Start(e, o)
        PROVE  Blank'
    <2>1. \A i \in Inodes : i \in Live => i \in Live'
      BY <1>1, UsersAssumption DEF Start, Goto, Live, IInv, Shape, TypeOK, Reading
    <2> QED
      BY <1>1, <2>1 DEF Start, IInv, Blank
  <1>2. ASSUME NEW e \in Editors, Create(e)
        PROVE  Blank'
    <2>1. \A i \in Inodes : i \in Live => i \in Live'
      BY <1>2, UsersAssumption DEF Create, Goto, Live, IInv, Shape, TypeOK, Reading
    <2> QED
      BY <1>2, <2>1 DEF Create, IInv, Blank
  <1>3. ASSUME NEW e \in Editors, Open(e)
        PROVE  Blank'
    <2>1. \A i \in Inodes : i \in Live => i \in Live'
      <3>1. /\ fp[e] \notin Inodes /\ \A f \in Editors : f # e => fp'[f] = fp[f]
            /\ UNCHANGED <<file, tmp, fp2, rfp>>
        BY <1>3, UsersAssumption DEF Open, IInv, Shape, TypeOK
      <3> QED
        BY <3>1 DEF Live
    <2> QED
      BY <1>3, <2>1 DEF Open, IInv, Blank
  <1>4. ASSUME NEW e \in Editors, OpenTmp(e)
        PROVE  Blank'
    <2>1. \A i \in Inodes : i \in Live => i \in Live'
      <3>1. /\ fp2[e] \notin Inodes /\ \A f \in Editors : f # e => fp2'[f] = fp2[f]
            /\ tmp \in Inodes => tmp' = tmp
            /\ UNCHANGED <<file, fp, rfp>>
        BY <1>4, UsersAssumption DEF OpenTmp, Goto, IInv, Shape, TypeOK
      <3> QED
        BY <3>1 DEF Live
    <2>2. tmp' \in Inodes
      BY <1>4, FreshIs DEF IInv, OpenTmp, TypeOK
    <2> QED
      BY <1>4, <2>1, <2>2 DEF OpenTmp, IInv, Blank, TypeOK
  <1>5. ASSUME NEW e \in Editors, CopyLine(e)
        PROVE  Blank'
    <2>1. \A i \in Inodes : i \in Live => i \in Live'
      BY <1>5, UsersAssumption DEF CopyLine, Goto, Live, IInv, Shape, TypeOK, Reading
    <2> QED
      BY <1>5, <2>1 DEF CopyLine, IInv, Blank
  <1>6. ASSUME NEW e \in Editors, CopyEnd(e)
        PROVE  Blank'
    <2>1. \A i \in Inodes : i \in Live => i \in Live'
      BY <1>6, UsersAssumption DEF CopyEnd, Goto, Live, IInv, Shape, TypeOK, Reading
    <2> QED
      BY <1>6, <2>1 DEF CopyEnd, IInv, Blank
  <1>7. ASSUME NEW e \in Editors, Flush(e)
        PROVE  Blank'
    <2>1. fp2[e] \in Inodes
      BY <1>7 DEF Flush, IInv, Shape, Goto
    <2>2. [content EXCEPT ![fp2[e]] = Overwrite(@, out[e])] \in [Inodes -> Seq(Lines)]
      BY <2>1, OverwriteIs DEF IInv, TypeOK
    <2> QED
      BY <1>7, <2>2, DiskIs DEF Flush
  <1>8. ASSUME NEW e \in Editors, Remove(e)
        PROVE  Blank'
    BY <1>8, DiskIs DEF Remove, IInv, TypeOK
  <1>9. ASSUME NEW e \in Editors, Rename(e)
        PROVE  Blank'
    BY <1>9, DiskIs DEF Rename, IInv, TypeOK
  <1>10. ASSUME NEW r \in Readers, ReadOpen(r)
         PROVE  Blank'
    <2>1. \A i \in Inodes : i \in Live => i \in Live'
      BY <1>10, UsersAssumption DEF ReadOpen, Goto, Live, IInv, Shape, TypeOK, Reading
    <2> QED
      BY <1>10, <2>1 DEF ReadOpen, IInv, Blank
  <1>11. ASSUME NEW r \in Readers, ReadClose(r)
         PROVE  Blank'
    BY <1>11, DiskIs DEF ReadClose, IInv, TypeOK
  <1>12. ASSUME Kill
         PROVE  Blank'
    BY <1>12, DiskIs DEF Kill, IInv, TypeOK
  <1>13. ASSUME Restart
         PROVE  Blank'
    <2>1. \A i \in Inodes : i \in Live => i \in Live'
      BY <1>13, UsersAssumption DEF Restart, Goto, Live, IInv, Shape, TypeOK, Reading
    <2> QED
      BY <1>13, <2>1 DEF Restart, IInv, Blank
  <1>15. ASSUME NEW r \in Readers, ReadMiss(r)
         PROVE  Blank'
    BY <1>15 DEF ReadMiss, IInv, Blank, Live
  <1>16. ASSUME NEW r \in Readers, ReadLeave(r)
         PROVE  Blank'
    BY <1>16 DEF ReadLeave, IInv, Blank, Live
  <1>14. CASE UNCHANGED vars
    BY <1>14 DEF vars, IInv, Blank, Live
  <1> QED
    BY <1>1, <1>2, <1>3, <1>4, <1>5, <1>6, <1>7, <1>8, <1>9, <1>10, <1>11, <1>12, <1>13, <1>14, <1>15,
       <1>16 DEF Next, Edit

(* The temporary file stays apart.                                         *)
LEMMA DistinctStep ==
  ASSUME IInv, [Next]_vars
  PROVE  Distinct'
  <1>1. ASSUME NEW e \in Editors, NEW o \in Op, Start(e, o)
        PROVE  Distinct'
    BY <1>1, UsersAssumption DEF Start, IInv, Distinct, Reading, TypeOK
  <1>2. ASSUME NEW e \in Editors, Create(e)
        PROVE  Distinct'
    BY <1>2, FreshIs, InUse, UsersAssumption DEF Create, IInv, Distinct, Reading, TypeOK
  <1>3. ASSUME NEW e \in Editors, Open(e)
        PROVE  Distinct'
    BY <1>3, UsersAssumption DEF Open, IInv, Distinct, Reading, TypeOK
  <1>4. ASSUME NEW e \in Editors, OpenTmp(e)
        PROVE  Distinct'
    BY <1>4, FreshIs, InUse, UsersAssumption DEF OpenTmp, IInv, Distinct, Reading, TypeOK
  <1>5. ASSUME NEW e \in Editors, CopyLine(e)
        PROVE  Distinct'
    BY <1>5, UsersAssumption DEF CopyLine, IInv, Distinct, Reading, TypeOK
  <1>6. ASSUME NEW e \in Editors, CopyEnd(e)
        PROVE  Distinct'
    BY <1>6, UsersAssumption DEF CopyEnd, IInv, Distinct, Reading, TypeOK
  <1>7. ASSUME NEW e \in Editors, Flush(e)
        PROVE  Distinct'
    BY <1>7, UsersAssumption DEF Flush, IInv, Distinct, Reading, TypeOK
  <1>8. ASSUME NEW e \in Editors, Remove(e)
        PROVE  Distinct'
    BY <1>8, UsersAssumption DEF Remove, IInv, Distinct, Reading, TypeOK
  <1>9. ASSUME NEW e \in Editors, Rename(e)
        PROVE  Distinct'
    BY <1>9, UsersAssumption DEF Rename, IInv, Distinct, Reading, TypeOK
  <1>10. ASSUME NEW r \in Readers, ReadOpen(r)
         PROVE  Distinct'
    BY <1>10, UsersAssumption DEF ReadOpen, IInv, Distinct, Reading, TypeOK
  <1>11. ASSUME NEW r \in Readers, ReadClose(r)
         PROVE  Distinct'
    BY <1>11, UsersAssumption DEF ReadClose, IInv, Distinct, Reading, TypeOK
  <1>12. ASSUME Kill
         PROVE  Distinct'
    BY <1>12, UsersAssumption DEF Kill, IInv, Distinct, Reading, TypeOK
  <1>13. ASSUME Restart
         PROVE  Distinct'
    BY <1>13, FreshIs, InUse, UsersAssumption DEF Restart, IInv, Distinct, Reading, TypeOK
  <1>15. ASSUME NEW r \in Readers, ReadMiss(r)
         PROVE  Distinct'
    BY <1>15 DEF ReadMiss, IInv, Distinct, Reading
  <1>16. ASSUME NEW r \in Readers, ReadLeave(r)
         PROVE  Distinct'
    BY <1>16 DEF ReadLeave, IInv, Distinct, Reading
  <1>14. CASE UNCHANGED vars
    BY <1>14 DEF vars, IInv, Distinct, Reading
  <1> QED
    BY <1>1, <1>2, <1>3, <1>4, <1>5, <1>6, <1>7, <1>8, <1>9, <1>10, <1>11, <1>12, <1>13, <1>14, <1>15,
       <1>16 DEF Next, Edit

(* A list that is being read is not written to, unless changes overlap.    *)
LEMMA CalmStep ==
  ASSUME IInv, [Next]_vars
  PROVE  Calm'
  <1>1. ASSUME NEW e \in Editors, NEW o \in Op, Start(e, o)
        PROVE  Calm'
    <2>1. (\E f \in Editors : Busy(f)) => \A r \in Readers : ~calm'[r]
      BY <1>1 DEF Start
    <2>2. (\A f \in Editors : ~Busy(f)) => Undisturbed' /\ calm' = calm
      BY <1>1 DEF Start, IInv, Shape, Undisturbed
    <2> QED
      BY <1>1, <2>1, <2>2 DEF Start, IInv, Calm, Reading
  <1>2. ASSUME NEW e \in Editors, Create(e)
        PROVE  Calm'
    BY <1>2 DEF Create, IInv, TypeOK, Calm, Reading, Undisturbed
  <1>3. ASSUME NEW e \in Editors, Open(e)
        PROVE  Calm'
    BY <1>3 DEF Open, IInv, TypeOK, Calm, Reading, Undisturbed
  <1>4. ASSUME NEW e \in Editors, OpenTmp(e)
        PROVE  Calm'
    <2>1. \A r \in Readers : Reading(r) => rfp[r] \in Inodes /\ rfp[r] # tmp'
      BY <1>4, FreshIs, InUse DEF OpenTmp, IInv, Distinct, Reading, TypeOK
    <2>2. tmp' \in Inodes
      BY <1>4, FreshIs DEF IInv, OpenTmp, TypeOK
    <2> QED
      BY <1>4, <2>1, <2>2 DEF OpenTmp, IInv, Calm, Reading, TypeOK, Undisturbed
  <1>5. ASSUME NEW e \in Editors, CopyLine(e)
        PROVE  Calm'
    BY <1>5 DEF CopyLine, IInv, TypeOK, Calm, Reading, Undisturbed
  <1>6. ASSUME NEW e \in Editors, CopyEnd(e)
        PROVE  Calm'
    BY <1>6 DEF CopyEnd, IInv, TypeOK, Calm, Reading, Undisturbed
  <1>7. ASSUME NEW e \in Editors, Flush(e)
        PROVE  Calm'
    <2>1. fp2[e] \in Inodes
      BY <1>7 DEF Flush, IInv, Shape, Goto
    <2> DEFINE c == [content EXCEPT ![fp2[e]] = Overwrite(@, out[e])]
    <2>2. c \in [Inodes -> Seq(Lines)]
      BY <2>1, OverwriteIs DEF IInv, TypeOK
    <2>3. ASSUME NEW r \in Readers, Reading(r), calm[r]
          PROVE  content'[rfp[r]] = content[rfp[r]]
      <3>1. fp2[e] = tmp
        BY <1>7, <2>3 DEF Flush, IInv, Calm, Undisturbed, Lone, Progress, Busy, Goto
      <3>2. rfp[r] \in Inodes /\ rfp[r] # fp2[e]
        BY <2>3, <3>1 DEF IInv, Distinct, Reading, TypeOK
      <3>3. rfp[r] \in Live'
        BY <1>7, InUse' DEF Flush, Live
      <3> QED
        BY <1>7, <2>2, <3>2, <3>3, DiskIs DEF Flush, IInv, TypeOK
    <2> QED
      BY <1>7, <2>3 DEF Flush, IInv, Calm, Reading, Undisturbed
  <1>8. ASSUME NEW e \in Editors, Remove(e)
        PROVE  Calm'
    <2>1. \A r \in Readers : rfp'[r] \in Live'
      BY DEF Live
    <2>2. \A r \in Readers : Reading(r)' => rfp'[r] = rfp[r] /\ content'[rfp[r]] = content[rfp[r]]
      BY <1>8, <2>1, DiskIs DEF Remove, IInv, Reading, TypeOK
    <2> QED
      BY <1>8, <2>2 DEF Remove, IInv, Calm, Reading, Undisturbed, TypeOK
  <1>9. ASSUME NEW e \in Editors, Rename(e)
        PROVE  Calm'
    <2>1. \A r \in Readers : rfp'[r] \in Live'
      BY DEF Live
    <2>2. \A r \in Readers : Reading(r)' => rfp'[r] = rfp[r] /\ content'[rfp[r]] = content[rfp[r]]
      BY <1>9, <2>1, DiskIs DEF Rename, IInv, Reading, TypeOK
    <2> QED
      BY <1>9, <2>2 DEF Rename, IInv, Calm, Reading, Undisturbed, TypeOK
  <1>10. ASSUME NEW r \in Readers, ReadOpen(r)
         PROVE  Calm'
    BY <1>10 DEF ReadOpen, IInv, TypeOK, Calm, Reading, Undisturbed
  <1>11. ASSUME NEW r \in Readers, ReadClose(r)
         PROVE  Calm'
    <2>1. \A q \in Readers : rfp'[q] \in Live'
      BY DEF Live
    <2>2. \A q \in Readers : Reading(q)' => rfp'[q] = rfp[q] /\ content'[rfp[q]] = content[rfp[q]]
      BY <1>11, <2>1, DiskIs DEF ReadClose, IInv, Reading, TypeOK
    <2> QED
      BY <1>11, <2>2 DEF ReadClose, IInv, Calm, Reading, Undisturbed, TypeOK
  <1>12. ASSUME Kill
         PROVE  Calm'
    <2>1. \A r \in Readers : rfp'[r] \in Live'
      BY DEF Live
    <2>2. \A r \in Readers : Reading(r)' => rfp'[r] = rfp[r] /\ content'[rfp[r]] = content[rfp[r]]
      BY <1>12, <2>1, DiskIs DEF Kill, IInv, Reading, TypeOK
    <2> QED
      BY <1>12, <2>2 DEF Kill, IInv, Calm, Reading, Undisturbed, TypeOK
  <1>13. ASSUME Restart
         PROVE  Calm'
    BY <1>13 DEF Restart, IInv, TypeOK, Calm, Reading, Undisturbed
  <1>15. ASSUME NEW r \in Readers, ReadMiss(r)
         PROVE  Calm'
    BY <1>15 DEF ReadMiss, IInv, Calm, Reading, Undisturbed
  <1>16. ASSUME NEW r \in Readers, ReadLeave(r)
         PROVE  Calm'
    BY <1>16 DEF ReadLeave, IInv, Calm, Reading, Undisturbed
  <1>14. CASE UNCHANGED vars
    BY <1>14 DEF vars, IInv, Calm, Reading, Undisturbed
  <1> QED
    BY <1>1, <1>2, <1>3, <1>4, <1>5, <1>6, <1>7, <1>8, <1>9, <1>10, <1>11, <1>12, <1>13, <1>14, <1>15,
       <1>16 DEF Next, Edit

-----------------------------------------------------------------------------
(* A change that is alone                                                  *)

(* Of a change that is alone only its own editor takes steps.              *)
LEMMA LoneActor ==
  ASSUME IInv, NEW e \in Editors, Busy(e),
         \A f \in Editors : f # e => pc'[f] = pc[f] /\ alone'[f] = alone[f],
         (Busy(e) /\ alone[e] => Progress(e))'
  PROVE  Lone'
  <1>1. \A f \in Editors : f # e => ~(Busy(f) /\ alone[f])'
    BY DEF IInv, Exclusive, Busy
  <1> QED
    BY <1>1 DEF Lone

(* A step that leaves the editors, the two names and what they name alone. *)
LEMMA LoneKept ==
  ASSUME IInv, UNCHANGED <<file, tmp, pc, op, fp, fp2, lines, out, found, alone, before>>,
         file # NoFile => content'[file] = content[file],
         tmp # NoFile => content'[tmp] = content[tmp]
  PROVE  Lone'
  <1> SUFFICES ASSUME NEW e \in Editors, (Busy(e) /\ alone[e])'
               PROVE  Progress(e)'
    BY DEF Lone
  <1>1. Busy(e) /\ alone[e] /\ Progress(e)
    BY DEF IInv, Lone, Busy
  <1>2. pc[e] \in {"copy", "flush"} => tmp # NoFile
    BY <1>1, UsersAssumption DEF IInv, Shape, Progress
  <1> QED
    BY <1>1, <1>2 DEF Progress, OldList

(* A change that is alone goes its way.                                    *)
LEMMA LoneStep ==
  ASSUME IInv, [Next]_vars
  PROVE  Lone'
  <1>1. ASSUME NEW e \in Editors, NEW o \in Op, Start(e, o)
        PROVE  Lone'
    <2>1. ASSUME NEW f \in Editors, f # e
          PROVE  ~(Busy(f) /\ alone[f])'
      BY <1>1, <2>1 DEF Start, Goto, Busy, IInv, TypeOK
    <2>2. ASSUME alone'[e]
          PROVE  Progress(e)'
      <3>1. /\ before'[e] = IF file # NoFile THEN content[file] ELSE <<>>
            /\ pc'[e] = "create" /\ file' = file /\ content' = content
        BY <1>1, <2>2 DEF Start, Goto, IInv, TypeOK
      <3> QED
        BY <3>1 DEF Progress, OldList
    <2> QED
      BY <2>1, <2>2 DEF Lone
  <1>2. ASSUME NEW e \in Editors, Create(e)
        PROVE  Lone'
    <2>0. /\ e \in Editors /\ Busy(e)
          /\ \A f \in Editors : f # e => pc'[f] = pc[f] /\ alone'[f] = alone[f]
      BY <1>2 DEF Create, Goto, Busy, IInv, TypeOK
    <2>1. ASSUME Busy(e)', alone'[e]
          PROVE  Progress(e)'
      <3>0. alone[e] /\ Progress(e)
        BY <1>2, <2>0, <2>1 DEF Create, Goto, IInv, TypeOK, Lone
      <3>1. pc'[e] = "open" /\ pc[e] = "create" /\ before' = before /\ content' = content
        BY <1>2 DEF Create, Goto, IInv, TypeOK
      <3>2. file' # NoFile /\ content[file'] = before[e]
        BY <1>2, <3>0, <3>1, FreshIs, UsersAssumption DEF Create, IInv, Progress, OldList
      <3> QED
        BY <3>1, <3>2 DEF Progress, OldList
    <2> QED
      BY <2>0, <2>1, LoneActor
  <1>3. ASSUME NEW e \in Editors, Open(e)
        PROVE  Lone'
    <2>0. /\ e \in Editors /\ Busy(e)
          /\ \A f \in Editors : f # e => pc'[f] = pc[f] /\ alone'[f] = alone[f]
      BY <1>3 DEF Open, Goto, Busy, IInv, TypeOK
    <2>1. ASSUME Busy(e)', alone'[e]
          PROVE  Progress(e)'
      <3>0. alone[e] /\ Progress(e) /\ pc[e] = "open" /\ file # NoFile
        BY <1>3, <2>0, <2>1 DEF Open, Busy, IInv, TypeOK, Lone, Progress, OldList
      <3>1. /\ pc'[e] = "tmp" /\ fp'[e] = file /\ before'[e] = before[e]
            /\ UNCHANGED <<file, content>>
        BY <1>3, <3>0 DEF Open, IInv, TypeOK
      <3> QED
        BY <3>0, <3>1 DEF Progress, OldList
    <2> QED
      BY <2>0, <2>1, LoneActor
  <1>4. ASSUME NEW e \in Editors, OpenTmp(e)
        PROVE  Lone'
    <2>0. /\ e \in Editors /\ Busy(e)
          /\ \A f \in Editors : f # e => pc'[f] = pc[f] /\ alone'[f] = alone[f]
      BY <1>4 DEF OpenTmp, Goto, Busy, IInv, TypeOK
    <2>1. ASSUME Busy(e)', alone'[e]
          PROVE  Progress(e)'
      <3>0. alone[e] /\ Progress(e)
        BY <1>4, <2>0, <2>1 DEF OpenTmp, Goto, IInv, TypeOK, Lone
      <3>1. /\ pc[e] = "tmp" /\ pc'[e] = "copy" /\ fp2'[e] = tmp' /\ lines'[e] = 0
            /\ out'[e] = <<>> /\ found'[e] = FALSE /\ op'[e] \in Op
            /\ UNCHANGED <<file, fp, before, op>>
        BY <1>4 DEF OpenTmp, Goto, IInv, TypeOK, Shape, Busy
      <3>2. tmp' \in Inodes /\ tmp' # file
        BY <1>4, FreshIs, InUse, UsersAssumption DEF OpenTmp, IInv, TypeOK, Distinct
      <3>3. content'[tmp'] = <<>> /\ content'[file] = content[file]
        BY <1>4, <3>0, <3>1, <3>2 DEF OpenTmp, IInv, TypeOK, Progress, OldList
      <3>4. lines'[e] \in 0..Len(before[e]) /\ SubSeq(before[e], 1, lines'[e]) = <<>>
        BY <3>1, SubSeqEmpty, LenProperties DEF IInv, TypeOK
      <3>5. Copied(out'[e], SubSeq(before[e], 1, lines'[e]), op'[e], found'[e])
        BY <3>1, <3>4, CopiedNothing
      <3> QED
        BY <3>0, <3>1, <3>3, <3>4, <3>5 DEF Progress, OldList
    <2> QED
      BY <2>0, <2>1, LoneActor
  <1>5. ASSUME NEW e \in Editors, CopyLine(e)
        PROVE  Lone'
    <2>0. /\ e \in Editors /\ Busy(e)
          /\ \A f \in Editors : f # e => pc'[f] = pc[f] /\ alone'[f] = alone[f]
      BY <1>5 DEF CopyLine, Goto, Busy, IInv, TypeOK
    <2>1. ASSUME Busy(e)', alone'[e]
          PROVE  Progress(e)'
      <3>0. alone[e] /\ Progress(e)
        BY <1>5, <2>0, <2>1 DEF CopyLine, Goto, IInv, TypeOK, Lone
      <3> DEFINE b == before[e]
                 n == lines[e]
                 l == b[n + 1]
      <3>1. /\ pc[e] = "copy" /\ pc'[e] = "copy"
            /\ UNCHANGED <<file, tmp, content, fp, fp2, before, op>>
            /\ op[e] \in Op /\ out[e] \in Seq(Lines) /\ found[e] \in BOOLEAN
            /\ b \in Seq(Lines) /\ n \in Nat /\ Len(b) \in Nat
        BY <1>5, LenProperties DEF CopyLine, IInv, TypeOK, Shape, Busy
      <3>2. /\ content[fp[e]] = b /\ n \in 0..Len(b)
            /\ Copied(out[e], SubSeq(b, 1, n), op[e], found[e])
        BY <3>0, <3>1 DEF Progress, OldList
      <3>3. /\ n < Len(b) /\ lines'[e] = n + 1
            /\ found'[e] = (found[e] \/ l.user = op[e].user)
            /\ out'[e] = out[e] \o (IF l.user = op[e].user THEN Rewritten(l, op[e]) ELSE <<l>>)
        BY <1>5, <3>2 DEF CopyLine, IInv, TypeOK
      <3>4. /\ n + 1 \in 1..Len(b) /\ 1 \in 1..Len(b) /\ (n + 1) - 1 = n
            /\ l \in Lines
        BY <3>1, <3>3, ElementOfSeq
      <3>5. SubSeq(b, 1, n + 1) = SubSeq(b, 1, n) \o <<l>>
        BY <3>1, <3>4, SubSeqRecursiveSecond
      <3>6. SubSeq(b, 1, n) \in Seq(Lines)
        <4>1. \A i \in 1..n : b[i] \in Lines
          BY <3>1, <3>2, ElementOfSeq
        <4> QED
          BY <3>1, <4>1, SubSeqProperties
      <3> HIDE DEF b, n, l
      <3>7. Copied(out'[e], SubSeq(b, 1, n + 1), op[e], found'[e])
        <4>1. CASE l.user = op[e].user
          BY <3>1, <3>2, <3>3, <3>4, <3>5, <3>6, <4>1, CopiedMine
        <4>2. CASE l.user # op[e].user
          BY <3>1, <3>2, <3>3, <3>4, <3>5, <3>6, <4>2, CopiedOther
        <4> QED
          BY <4>1, <4>2
      <3>8. n + 1 \in 0..Len(b)
        BY <3>1, <3>3
      <3> QED
        BY <3>0, <3>1, <3>3, <3>7, <3>8 DEF Progress, OldList, b, n
    <2> QED
      BY <2>0, <2>1, LoneActor
  <1>6. ASSUME NEW e \in Editors, CopyEnd(e)
        PROVE  Lone'
    <2>0. /\ e \in Editors /\ Busy(e)
          /\ \A f \in Editors : f # e => pc'[f] = pc[f] /\ alone'[f] = alone[f]
      BY <1>6 DEF CopyEnd, Goto, Busy, IInv, TypeOK
    <2>1. ASSUME Busy(e)', alone'[e]
          PROVE  Progress(e)'
      <3>0. alone[e] /\ Progress(e)
        BY <1>6, <2>0, <2>1 DEF CopyEnd, Goto, IInv, TypeOK, Lone
      <3> DEFINE b == before[e]
      <3>1. /\ pc[e] = "copy" /\ pc'[e] = "flush"
            /\ UNCHANGED <<file, tmp, content, fp, fp2, before, op>>
            /\ op[e] \in Op /\ out[e] \in Seq(Lines) /\ found[e] \in BOOLEAN
            /\ b \in Seq(Lines) /\ lines[e] \in Nat /\ Len(b) \in Nat
        BY <1>6, LenProperties DEF CopyEnd, Goto, IInv, TypeOK, Shape, Busy
      <3>2. /\ content[fp[e]] = b /\ lines[e] \in 0..Len(b)
            /\ Copied(out[e], SubSeq(b, 1, lines[e]), op[e], found[e])
        BY <3>0, <3>1 DEF Progress, OldList
      <3>3. lines[e] = Len(b) /\ out'[e] = out[e] \o Added(op[e], found[e])
        BY <1>6, <3>1, <3>2 DEF CopyEnd, IInv, TypeOK
      <3>4. Copied(out[e], b, op[e], found[e])
        BY <3>1, <3>2, <3>3, SubSeqFull
      <3>5. Made(out'[e], b, op[e])
        BY <3>1, <3>3, <3>4, CopiedAll
      <3> QED
        BY <3>0, <3>1, <3>5 DEF Progress, OldList
    <2> QED
      BY <2>0, <2>1, LoneActor
  <1>7. ASSUME NEW e \in Editors, Flush(e)
        PROVE  Lone'
    <2>0. /\ e \in Editors /\ Busy(e)
          /\ \A f \in Editors : f # e => pc'[f] = pc[f] /\ alone'[f] = alone[f]
      BY <1>7 DEF Flush, Goto, Busy, IInv, TypeOK
    <2>1. ASSUME Busy(e)', alone'[e]
          PROVE  Progress(e)'
      <3>0. alone[e] /\ Progress(e)
        BY <1>7, <2>0, <2>1 DEF Flush, Goto, IInv, TypeOK, Lone
      <3> DEFINE c == [content EXCEPT ![fp2[e]] = Overwrite(@, out[e])]
      <3>1. /\ pc[e] = "flush" /\ pc'[e] = "remove"
            /\ UNCHANGED <<file, tmp, before, op>> /\ Disk(c)
            /\ fp2[e] \in Inodes /\ out[e] \in Seq(Lines) /\ content[fp2[e]] \in Seq(Lines)
        BY <1>7 DEF Flush, Goto, IInv, TypeOK, Shape
      <3>2. /\ fp2[e] = tmp /\ content[tmp] = <<>> /\ Made(out[e], before[e], op[e])
            /\ file # NoFile /\ content[file] = before[e]
        BY <3>0, <3>1 DEF Progress, OldList
      <3>3. tmp # NoFile /\ tmp # file /\ tmp \in Inodes /\ file \in Inodes
        BY <3>1, <3>2, UsersAssumption DEF IInv, Distinct, TypeOK
      <3>4. c[tmp] = out[e] /\ c[file] = content[file]
        BY <3>1, <3>2, <3>3, OverwriteIs DEF IInv, TypeOK
      <3>5. c \in [Inodes -> Seq(Lines)]
        BY <3>1, OverwriteIs DEF IInv, TypeOK
      <3>6. tmp \in Live' /\ file \in Live'
        BY <3>1 DEF Live
      <3> HIDE DEF c
      <3>7. content'[tmp] = out[e] /\ content'[file] = content[file]
        BY <3>1, <3>3, <3>4, <3>5, <3>6, DiskIs
      <3> QED
        BY <3>1, <3>2, <3>3, <3>7 DEF Progress, OldList
    <2> QED
      BY <2>0, <2>1, LoneActor
  <1>8. ASSUME NEW e \in Editors, Remove(e)
        PROVE  Lone'
    <2>0. /\ e \in Editors /\ Busy(e)
          /\ \A f \in Editors : f # e => pc'[f] = pc[f] /\ alone'[f] = alone[f]
      BY <1>8 DEF Remove, Goto, Busy, IInv, TypeOK
    <2>1. ASSUME Busy(e)', alone'[e]
          PROVE  Progress(e)'
      <3>0. alone[e] /\ Progress(e)
        BY <1>8, <2>0, <2>1 DEF Remove, Goto, IInv, TypeOK, Lone
      <3>1. /\ pc[e] = "remove" /\ pc'[e] = "rename" /\ UNCHANGED <<tmp, before, op>>
            /\ file' = NoFile
            /\ Disk(content) /\ content \in [Inodes -> Seq(Lines)]
        BY <1>8 DEF Remove, Goto, IInv, TypeOK
      <3>2. tmp # NoFile /\ Made(content[tmp], before[e], op[e])
        BY <3>0, <3>1 DEF Progress
      <3>3. tmp \in Live' /\ tmp \in Inodes
        BY <3>1, <3>2 DEF Live, IInv, TypeOK
      <3>4. content'[tmp] = content[tmp]
        BY <3>1, <3>3, DiskIs
      <3> QED
        BY <3>1, <3>2, <3>4 DEF Progress, OldList
    <2> QED
      BY <2>0, <2>1, LoneActor
  <1>9. ASSUME NEW e \in Editors, Rename(e)
        PROVE  Lone'
    <2>0. /\ e \in Editors /\ Busy(e)
          /\ \A f \in Editors : f # e => pc'[f] = pc[f] /\ alone'[f] = alone[f]
      BY <1>9 DEF Rename, Goto, Busy, IInv, TypeOK
    <2>1. ASSUME Busy(e)', alone'[e]
          PROVE  Progress(e)'
      BY <1>9, <2>1 DEF Rename, Goto, Busy, IInv, TypeOK
    <2> QED
      BY <2>0, <2>1, LoneActor
  <1>10. ASSUME NEW r \in Readers, ReadOpen(r)
         PROVE  Lone'
    BY <1>10, LoneKept DEF ReadOpen
  <1>11. ASSUME NEW r \in Readers, ReadClose(r)
         PROVE  Lone'
    <2>1. file \in Live' /\ tmp \in Live' /\ file' = file /\ tmp' = tmp
      BY <1>11 DEF ReadClose, Live
    <2>2. \A i \in Inodes : i \in Live' => content'[i] = content[i]
      BY <1>11, DiskIs DEF ReadClose, IInv, TypeOK
    <2> QED
      BY <1>11, <2>1, <2>2, LoneKept DEF ReadClose, IInv, TypeOK
  <1>12. ASSUME Kill
         PROVE  Lone'
    BY <1>12 DEF Kill, Lone, Busy
  <1>13. ASSUME Restart
         PROVE  Lone'
    BY <1>13 DEF Restart, IInv, Shape, Lone, Busy
  <1>15. ASSUME NEW r \in Readers, ReadMiss(r)
         PROVE  Lone'
    BY <1>15, LoneKept DEF ReadMiss
  <1>16. ASSUME NEW r \in Readers, ReadLeave(r)
         PROVE  Lone'
    BY <1>16, LoneKept DEF ReadLeave
  <1>14. CASE UNCHANGED vars
    BY <1>14, LoneKept DEF vars
  <1> QED
    BY <1>1, <1>2, <1>3, <1>4, <1>5, <1>6, <1>7, <1>8, <1>9, <1>10, <1>11, <1>12, <1>13, <1>14, <1>15,
       <1>16 DEF Next, Edit

(* Without overlaps every mg_remove is followed by a mg_rename that finds   *)
(* the copy.                                                               *)
LEMMA GapStep ==
  ASSUME IInv, [Next]_vars
  PROVE  Gap'
  <1>1. ASSUME NEW e \in Editors, NEW o \in Op, Start(e, o)
        PROVE  Gap'
    <2>1. orderly' => \A f \in Editors : ~Busy(f)
      BY <1>1 DEF Start
    <2>2. orderly' => Undisturbed'
      BY <1>1, <2>1 DEF Start, IInv, Shape, Undisturbed
    <2>3. ASSUME orderly', up', file' = NoFile
          PROVE  FALSE
      BY <1>1, <2>1, <2>3, UsersAssumption DEF Start, Goto, IInv, Gap, Busy
    <2> QED
      BY <2>2, <2>3 DEF Gap
  <1>2. ASSUME NEW e \in Editors, Create(e)
        PROVE  Gap'
    BY <1>2, FreshIs, UsersAssumption DEF Create, Goto, IInv, TypeOK, Gap, Undisturbed
  <1>3. ASSUME NEW e \in Editors, Open(e)
        PROVE  Gap'
    BY <1>3, FreshIs, UsersAssumption DEF Open, Goto, IInv, TypeOK, Gap, Undisturbed
  <1>4. ASSUME NEW e \in Editors, OpenTmp(e)
        PROVE  Gap'
    BY <1>4, FreshIs, UsersAssumption DEF OpenTmp, Goto, IInv, TypeOK, Gap, Undisturbed
  <1>5. ASSUME NEW e \in Editors, CopyLine(e)
        PROVE  Gap'
    BY <1>5, FreshIs, UsersAssumption DEF CopyLine, Goto, IInv, TypeOK, Gap, Undisturbed
  <1>6. ASSUME NEW e \in Editors, CopyEnd(e)
        PROVE  Gap'
    BY <1>6, FreshIs, UsersAssumption DEF CopyEnd, Goto, IInv, TypeOK, Gap, Undisturbed
  <1>7. ASSUME NEW e \in Editors, Flush(e)
        PROVE  Gap'
    BY <1>7, FreshIs, UsersAssumption DEF Flush, Goto, IInv, TypeOK, Gap, Undisturbed
  <1>8. ASSUME NEW e \in Editors, Remove(e)
        PROVE  Gap'
    BY <1>8 DEF Remove, Goto, IInv, TypeOK, Gap, Undisturbed
  <1>9. ASSUME NEW e \in Editors, Rename(e)
        PROVE  Gap'
    <2>1. orderly => tmp # NoFile
      BY <1>9 DEF Rename, Goto, Busy, IInv, Gap, Undisturbed, Lone, Progress
    <2> QED
      BY <1>9, <2>1 DEF Rename, Goto, IInv, TypeOK, Gap, Undisturbed
  <1>10. ASSUME NEW r \in Readers, ReadOpen(r)
         PROVE  Gap'
    BY <1>10 DEF ReadOpen, IInv, Gap, Undisturbed
  <1>11. ASSUME NEW r \in Readers, ReadClose(r)
         PROVE  Gap'
    BY <1>11 DEF ReadClose, IInv, Gap, Undisturbed
  <1>12. ASSUME Kill
         PROVE  Gap'
    BY <1>12 DEF Kill, Gap, Undisturbed
  <1>13. ASSUME Restart
         PROVE  Gap'
    BY <1>13, FreshIs, UsersAssumption DEF Restart, IInv, TypeOK, Shape, Busy, Gap, Undisturbed
  <1>15. ASSUME NEW r \in Readers, ReadMiss(r)
         PROVE  Gap'
    BY <1>15 DEF ReadMiss, IInv, Gap, Undisturbed
  <1>16. ASSUME NEW r \in Readers, ReadLeave(r)
         PROVE  Gap'
    BY <1>16 DEF ReadLeave, IInv, Gap, Undisturbed
  <1>14. CASE UNCHANGED vars
    BY <1>14 DEF vars, IInv, Gap, Undisturbed
  <1> QED
    BY <1>1, <1>2, <1>3, <1>4, <1>5, <1>6, <1>7, <1>8, <1>9, <1>10, <1>11, <1>12, <1>13, <1>14, <1>15,
       <1>16 DEF Next, Edit

-----------------------------------------------------------------------------
(* The theorems                                                            *)

(* The invariant holds at the start ...                                    *)
LEMMA UsersInit ==
  ASSUME Init
  PROVE  IInv
  <1>1. file \in Inodes
    BY UsersAssumption DEF Init
  <1>2. \A s \in Lists : s \in Seq(Lines)
    <2> SUFFICES ASSUME NEW n \in 0..MaxLines, NEW s \in [1..n -> Lines]
                 PROVE  s \in Seq(Lines)
      BY DEF Lists
    <2> QED
      BY UsersAssumption
  <1>3. <<>> \in Seq(Lines)
    BY EmptySeq
  <1>4. PICK s \in Lists : content = [i \in Inodes |-> IF i = file THEN s ELSE <<>>]
    BY DEF Init
  <1>5. content \in [Inodes -> Seq(Lines)]
    BY <1>2, <1>3, <1>4
  <1>6. TypeOK
    BY <1>1, <1>3, <1>5, UsersAssumption DEF Init, TypeOK, EditorStates
  <1>7. Blank
    BY <1>4 DEF Blank, Live
  <1>8. Shape /\ Exclusive /\ Distinct /\ Calm /\ Lone
    BY <1>1, UsersAssumption DEF Init, Shape, Exclusive, Distinct, Calm, Lone, Busy, Reading
  <1>9. Gap
    BY <1>1, UsersAssumption DEF Init, Gap, Undisturbed
  <1> QED
    BY <1>6, <1>7, <1>8, <1>9 DEF IInv

(* ... and every step keeps it.                                            *)
LEMMA UsersStep ==
  ASSUME IInv, [Next]_vars
  PROVE  IInv'
  <1>1. TypeOK
    BY DEF IInv
  <1> QED
    BY <1>1, TypesStep, ShapeStep, ExclusiveStep, BlankStep, DistinctStep, CalmStep, LoneStep,
       GapStep DEF IInv

(* The variables of the editors, the readers and the disk keep their types *)
(* for any number of changes and kills (mg_modify_passwords_file).         *)
THEOREM UsersTypeOK == Spec => []TypeOK
  <1>1. Init => IInv
    BY UsersInit
  <1>2. IInv /\ [Next]_vars => IInv'
    BY UsersStep
  <1>3. IInv => TypeOK
    BY DEF IInv
  <1> QED
    BY <1>1, <1>2, <1>3, PTL DEF Spec

(* A reader of passwords.txt sees one list, unless changes overlap, and    *)
(* finds none only between the mg_remove and the mg_rename of a change     *)
(* (mg_modify_passwords_file, authorize).                                  *)
THEOREM UsersListIsStable == Spec => []ListIsStable
  <1>1. Init => IInv
    BY UsersInit
  <1>2. IInv /\ [Next]_vars => IInv'
    BY UsersStep
  <1>3. IInv => ListIsStable
    BY DEF IInv, Calm, Gap, ListIsStable
  <1> QED
    BY <1>1, <1>2, <1>3, PTL DEF Spec

(* A kill during a change that is alone finds a whole list on the disk.    *)
THEOREM UsersListOnDisk == Spec => []ListOnDisk
  <1>1. Init => IInv
    BY UsersInit
  <1>2. IInv /\ [Next]_vars => IInv'
    BY UsersStep
  <1>3. IInv => ListOnDisk
    <2> SUFFICES ASSUME IInv, NEW e \in Editors, Busy(e), alone[e]
                 PROVE  \/ /\ file # NoFile /\ content[file] = before[e]
                        \/ /\ before[e] = <<>> /\ pc[e] = "create"
                        \/ /\ pc[e] = "rename" /\ tmp # NoFile
                           /\ Made(content[tmp], before[e], op[e])
      BY DEF ListOnDisk, Made, Goal
    <2>1. Progress(e) /\ pc[e] \in EditorStates \ {"idle"}
      BY DEF IInv, Lone, Busy, TypeOK
    <2> QED
      BY <2>1 DEF Progress, OldList, EditorStates
  <1> QED
    BY <1>1, <1>2, <1>3, PTL DEF Spec

-----------------------------------------------------------------------------
(* The list implements UserList                                            *)

UsersOf(s) == [u \in Names |-> Entry(s, u)]

(* The entries of a list are entries of UserList.                          *)
LEMMA UsersOfType ==
  ASSUME NEW s \in Seq(Lines)
  PROVE  UsersOf(s) \in [Names -> UL!Entries]
  BY EntryType DEF UsersOf, UL!Entries

\* Facts about one state, which the proofs below use of both states of a step.
ViewType == IInv => Current \in Seq(Lines) /\ Wanted \in Op \cup {NoOp}

LoneView == IInv /\ Undisturbed =>
  \A e \in Editors :
    /\ Busy(e) /\ pc[e] # "rename" =>
         Current = before[e] /\ Wanted = op[e] /\ Committing = FALSE
    /\ Busy(e) /\ pc[e] = "rename" =>
         Current = content[tmp] /\ Wanted = NoOp /\ Committing = TRUE

IdleView == (\A e \in Editors : ~Busy(e)) =>
  /\ Current = (IF file # NoFile THEN content[file] ELSE <<>>)
  /\ Wanted = NoOp /\ Committing = FALSE

(* What UserList is shown has the types it expects.                        *)
LEMMA CurrentType == ViewType
  <1> SUFFICES ASSUME IInv
               PROVE  Current \in Seq(Lines) /\ Wanted \in Op \cup {NoOp}
    BY DEF ViewType
  <1>1. Current \in Seq(Lines)
    BY EmptySeq DEF IInv, TypeOK, Current
  <1>2. CASE Undisturbed /\ \E e \in Editors : Pending(e)
    <2>1. (CHOOSE e \in Editors : Pending(e)) \in Editors
      BY <1>2
    <2> QED
      BY <1>1, <1>2, <2>1 DEF Wanted, IInv, TypeOK
  <1>3. CASE ~(Undisturbed /\ \E e \in Editors : Pending(e))
    BY <1>1, <1>3 DEF Wanted
  <1> QED
    BY <1>2, <1>3

(* While a change is alone the list in effect is the one it began with,    *)
(* until mg_remove; from then on it is the copy.                           *)
LEMMA LoneCurrent == LoneView
  <1> SUFFICES ASSUME IInv, NEW e \in Editors, Busy(e), Undisturbed
               PROVE  /\ pc[e] # "rename" =>
                           Current = before[e] /\ Wanted = op[e] /\ Committing = FALSE
                      /\ pc[e] = "rename" =>
                           Current = content[tmp] /\ Wanted = NoOp /\ Committing = TRUE
    BY DEF LoneView
  <1>0. alone[e] /\ Progress(e) /\ pc[e] \in EditorStates \ {"idle"}
    BY DEF IInv, Lone, Undisturbed, TypeOK, Busy
  <1>1. \A f \in Editors : f # e => ~Busy(f)
    BY DEF IInv, Exclusive, Undisturbed
  <1>2. CASE pc[e] # "rename"
    <2>1. Committing = FALSE
      BY <1>1, <1>2 DEF Committing, Busy
    <2>2. Current = before[e]
      BY <1>0, <1>2, <2>1 DEF Current, Progress, OldList, EditorStates
    <2>3. Pending(e) /\ \A f \in Editors : Pending(f) => f = e
      BY <1>1, <1>2 DEF Pending
    <2>4. (CHOOSE f \in Editors : Pending(f)) = e
      BY <2>3
    <2> QED
      BY <1>2, <2>1, <2>2, <2>3, <2>4 DEF Wanted
  <1>3. CASE pc[e] = "rename"
    <2>1. Committing = TRUE
      BY <1>0, <1>3 DEF Committing
    <2>2. Current = content[tmp]
      BY <1>0, <1>3, <2>1 DEF Current, Progress
    <2>3. \A f \in Editors : ~Pending(f)
      BY <1>1, <1>3 DEF Pending
    <2> QED
      BY <1>3, <2>1, <2>2, <2>3 DEF Wanted
  <1> QED
    BY <1>2, <1>3

(* Without a change under way the list in effect is the file.              *)
LEMMA IdleCurrent == IdleView
  BY DEF IdleView, Current, Committing, Wanted, Pending, Busy

(* They hold after a step as well.                                         *)
LEMMA ViewsNext == ViewType' /\ LoneView' /\ IdleView'
  BY CurrentType, LoneCurrent, IdleCurrent, PTL

(* Nothing is wanted, or being put in place, while changes overlap.        *)
LEMMA DisturbedShows ==
  ASSUME IInv, IInv', [Next]_vars, ~Kill, ~Restart, ~Undisturbed \/ ~Undisturbed'
  PROVE  Wanted' = NoOp /\ Committing' = FALSE /\ up = TRUE /\ up' = up
  <1>1. up' = up
    BY DEF Next, Edit, Start, Create, Open, OpenTmp, CopyLine, CopyEnd, Flush, Remove, Rename,
           Goto, ReadOpen, ReadClose, ReadMiss, ReadLeave, vars
  <1>2. CASE ~Undisturbed'
    <2>1. PICK f \in Editors : ~alone'[f] /\ Busy(f)'
      BY <1>2 DEF Undisturbed, IInv, Shape
    <2>2. Committing' = FALSE
      BY <2>1 DEF Committing, IInv, Exclusive, Busy
    <2>3. Wanted' = NoOp
      BY <1>2 DEF Wanted
    <2> QED
      BY <1>1, <2>1, <2>2, <2>3 DEF IInv, Shape, TypeOK
  <1>3. CASE ~Undisturbed /\ Undisturbed'
    <2>1. PICK f \in Editors : ~alone[f] /\ Busy(f)
      BY <1>3 DEF Undisturbed, IInv, Shape
    <2>2. PICK e \in Editors : Open(e) \/ Rename(e)
      <3>1. ASSUME NEW e \in Editors, NEW o \in Op, Start(e, o)
            PROVE  FALSE
        BY <1>3, <2>1, <3>1 DEF Start, Undisturbed
      <3>2. alone' # alone
        BY <1>3, <2>1 DEF Undisturbed
      <3> QED
        BY <3>1, <3>2 DEF Next, Edit, Create, OpenTmp, CopyLine, CopyEnd, Flush, Remove,
           ReadOpen, ReadClose, ReadMiss, ReadLeave, vars
    <2>3. /\ \A g \in Editors : g # e => alone'[g] = alone[g] /\ pc'[g] = pc[g]
          /\ Busy(e)
      BY <2>2 DEF Open, Rename, Goto, Busy, IInv, TypeOK
    <2>4. f = e
      BY <1>3, <2>1, <2>3 DEF Undisturbed
    <2>5. pc'[e] = "idle"
      BY <1>3, <2>1, <2>2, <2>4 DEF Open, Rename, Goto, Undisturbed, IInv, TypeOK
    <2>6. \A g \in Editors : ~Busy(g)'
      BY <1>3, <2>1, <2>3, <2>4, <2>5 DEF Busy, IInv, Exclusive, Undisturbed
    <2> QED
      BY <1>1, <2>1, <2>6, ViewsNext DEF IdleView, IInv, Shape, TypeOK
  <1> QED
    BY <1>2, <1>3

(* A kill keeps the list in effect, or, between mg_remove and mg_rename of *)
(* a change that is alone, leaves none.                                    *)
LEMMA KillShows ==
  ASSUME IInv, Kill
  PROVE  /\ Wanted' = NoOp /\ Committing' = FALSE /\ Undisturbed' = TRUE
         /\ Current' = Current \/ (Committing = TRUE /\ Current' = <<>>)
  <1>1. \A f \in Editors : ~Busy(f)'
    BY DEF Kill, Busy
  <1>2. /\ Current' = (IF file' # NoFile THEN content'[file'] ELSE <<>>)
        /\ Wanted' = NoOp /\ Committing' = FALSE
    BY <1>1, ViewsNext DEF IdleView
  <1>3. CASE file # NoFile
    <2>1. file' = file /\ file \in Live' /\ file \in Inodes
      BY <1>3 DEF Kill, Live, IInv, TypeOK
    <2>2. content'[file] = content[file]
      BY <2>1, DiskIs DEF Kill, IInv, TypeOK
    <2> QED
      BY <1>2, <1>3, <2>1, <2>2 DEF Kill, Current, Undisturbed
  <1>4. CASE file = NoFile
    BY <1>2, <1>4 DEF Kill, Current, Committing, Undisturbed
  <1> QED
    BY <1>3, <1>4

(* main() starts with the list that was there, or with an empty one.       *)
LEMMA RestartShows ==
  ASSUME IInv, Restart
  PROVE  /\ Wanted = NoOp /\ Committing = FALSE /\ Undisturbed = TRUE
         /\ Wanted' = NoOp /\ Committing' = FALSE /\ Undisturbed' = TRUE
         /\ Current' = Current
  <1>1. (\A f \in Editors : ~Busy(f) /\ alone[f]) /\ \A f \in Editors : ~Busy(f)'
    BY DEF Restart, Busy, IInv, Shape
  <1>2. /\ Current = (IF file # NoFile THEN content[file] ELSE <<>>)
        /\ Current' = (IF file' # NoFile THEN content'[file'] ELSE <<>>)
        /\ Wanted = NoOp /\ Committing = FALSE /\ Wanted' = NoOp /\ Committing' = FALSE
    BY <1>1, IdleCurrent, ViewsNext DEF IdleView
  <1>3. Current' = Current
    BY <1>2, FreshIs, UsersAssumption DEF Restart, IInv
  <1> QED
    BY <1>1, <1>2, <1>3 DEF Restart, Undisturbed

\* What UserList may be shown of a step that nothing disturbs.
Shown ==
  \/ UNCHANGED <<Current, Wanted, Committing, up>>
  \/ /\ up /\ UNCHANGED <<Current, up>>
     /\ Wanted = NoOp /\ Wanted' \in Op /\ Committing = FALSE /\ Committing' = FALSE
  \/ /\ up /\ UNCHANGED up
     /\ Wanted \in Op /\ Wanted' = NoOp /\ Committing' = TRUE
     /\ Made(Current', Current, Wanted)
  \/ /\ up /\ UNCHANGED <<Current, Wanted, up>>
     /\ Committing = TRUE /\ Committing' = FALSE

(* What the list shows before and after a step that nothing disturbs.      *)
LEMMA CalmStepMaps ==
  ASSUME IInv, IInv', [Next]_vars, Undisturbed, Undisturbed', ~Kill, ~Restart
  PROVE  Shown
  <1>1. ASSUME NEW e \in Editors, NEW o \in Op, Start(e, o)
        PROVE  Shown
    <2>1. \A f \in Editors : ~Busy(f)
      BY <1>1 DEF Start, Undisturbed
    <2>2. Current = (IF file # NoFile THEN content[file] ELSE <<>>) /\ Wanted = NoOp
          /\ Committing = FALSE
      BY <2>1, IdleCurrent DEF IdleView
    <2>3. /\ pc'[e] = "create" /\ op'[e] = o /\ up /\ up' = up
          /\ before'[e] = (IF file # NoFile THEN content[file] ELSE <<>>)
      BY <1>1, <2>1 DEF Start, Goto, IInv, TypeOK
    <2>4. Current' = before'[e] /\ Wanted' = op'[e] /\ Committing' = FALSE
      BY <2>3, ViewsNext DEF Busy, LoneView
    <2> QED
      BY <2>2, <2>3, <2>4 DEF Shown
  <1>2. ASSUME NEW e \in Editors, Create(e)
        PROVE  Shown
    <2>1. /\ pc[e] \notin {"idle", "rename"} /\ pc'[e] \notin {"idle", "rename"}
          /\ before'[e] = before[e] /\ op'[e] = op[e]
      BY <1>2 DEF Create, Goto, IInv, TypeOK
    <2>2. up' = up
      BY <1>2 DEF Create
    <2> QED
      BY <2>1, <2>2, LoneCurrent, ViewsNext DEF Busy, LoneView, Shown
  <1>3. ASSUME NEW e \in Editors, Open(e)
        PROVE  Shown
    <2>1. Progress(e) /\ pc[e] = "open"
      BY <1>3 DEF Open, IInv, Lone, Undisturbed, Busy
    <2>2. pc'[e] = "tmp" /\ before'[e] = before[e] /\ op'[e] = op[e] /\ up' = up
      BY <1>3, <2>1 DEF Open, IInv, TypeOK, Progress, OldList
    <2>3. Current = before[e] /\ Wanted = op[e] /\ Committing = FALSE
      BY <2>1, LoneCurrent DEF Busy, LoneView
    <2>4. Current' = before'[e] /\ Wanted' = op'[e] /\ Committing' = FALSE
      BY <2>2, ViewsNext DEF Busy, LoneView
    <2> QED
      BY <2>2, <2>3, <2>4 DEF Shown
  <1>4. ASSUME NEW e \in Editors, OpenTmp(e)
        PROVE  Shown
    <2>1. /\ pc[e] \notin {"idle", "rename"} /\ pc'[e] \notin {"idle", "rename"}
          /\ before'[e] = before[e] /\ op'[e] = op[e]
      BY <1>4 DEF OpenTmp, Goto, IInv, TypeOK
    <2>2. up' = up
      BY <1>4 DEF OpenTmp
    <2> QED
      BY <2>1, <2>2, LoneCurrent, ViewsNext DEF Busy, LoneView, Shown
  <1>5. ASSUME NEW e \in Editors, CopyLine(e)
        PROVE  Shown
    <2>1. /\ pc[e] \notin {"idle", "rename"} /\ pc'[e] \notin {"idle", "rename"}
          /\ before'[e] = before[e] /\ op'[e] = op[e]
      BY <1>5 DEF CopyLine, Goto, IInv, TypeOK
    <2>2. up' = up
      BY <1>5 DEF CopyLine
    <2> QED
      BY <2>1, <2>2, LoneCurrent, ViewsNext DEF Busy, LoneView, Shown
  <1>6. ASSUME NEW e \in Editors, CopyEnd(e)
        PROVE  Shown
    <2>1. /\ pc[e] \notin {"idle", "rename"} /\ pc'[e] \notin {"idle", "rename"}
          /\ before'[e] = before[e] /\ op'[e] = op[e]
      BY <1>6 DEF CopyEnd, Goto, IInv, TypeOK
    <2>2. up' = up
      BY <1>6 DEF CopyEnd
    <2> QED
      BY <2>1, <2>2, LoneCurrent, ViewsNext DEF Busy, LoneView, Shown
  <1>7. ASSUME NEW e \in Editors, Flush(e)
        PROVE  Shown
    <2>1. /\ pc[e] \notin {"idle", "rename"} /\ pc'[e] \notin {"idle", "rename"}
          /\ before'[e] = before[e] /\ op'[e] = op[e]
      BY <1>7 DEF Flush, Goto, IInv, TypeOK
    <2>2. up' = up
      BY <1>7 DEF Flush
    <2> QED
      BY <2>1, <2>2, LoneCurrent, ViewsNext DEF Busy, LoneView, Shown
  <1>8. ASSUME NEW e \in Editors, Remove(e)
        PROVE  Shown
    <2>1. /\ pc[e] = "remove" /\ pc'[e] = "rename"
          /\ before'[e] = before[e] /\ op'[e] = op[e] /\ op[e] \in Op
          /\ up /\ up' = up
      BY <1>8 DEF Remove, Goto, IInv, TypeOK, Shape, Busy
    <2>2. Current = before[e] /\ Wanted = op[e]
      BY <2>1, LoneCurrent DEF Busy, LoneView
    <2>3. Current' = content'[tmp'] /\ Wanted' = NoOp /\ Committing' = TRUE
      BY <2>1, ViewsNext DEF Busy, LoneView
    <2>4. Progress(e)'
      BY <2>1 DEF IInv, Lone, Busy, Undisturbed
    <2>5. Made(content'[tmp'], before'[e], op'[e])
      BY <2>1, <2>4 DEF Progress
    <2> QED
      BY <2>1, <2>2, <2>3, <2>5 DEF Shown
  <1>9. ASSUME NEW e \in Editors, Rename(e)
        PROVE  Shown
    <2>1. pc[e] = "rename" /\ pc'[e] = "idle" /\ \A f \in Editors : f # e => pc'[f] = pc[f]
      BY <1>9 DEF Rename, Goto, IInv, TypeOK
    <2>2. Current = content[tmp] /\ Wanted = NoOp /\ Committing = TRUE
      BY <2>1, LoneCurrent DEF Busy, LoneView
    <2>3. \A f \in Editors : ~Busy(f)'
      BY <2>1 DEF Busy, IInv, Exclusive, Undisturbed
    <2>4. Current' = (IF file' # NoFile THEN content'[file'] ELSE <<>>) /\ Wanted' = NoOp
          /\ Committing' = FALSE
      BY <2>3, ViewsNext DEF IdleView
    <2>5. tmp # NoFile /\ tmp \in Inodes
      BY <2>1 DEF IInv, Lone, Undisturbed, Progress, Busy, TypeOK
    <2>6. file' = tmp /\ file' \in Live'
      BY <1>9, <2>5 DEF Rename, Live
    <2>7. content'[tmp] = content[tmp]
      <3>1. content \in [Inodes -> Seq(Lines)] /\ Disk(content)
        BY <1>9 DEF Rename, IInv, TypeOK
      <3> QED
        BY <2>5, <2>6, <3>1, DiskIs
    <2> QED
      BY <1>9, <2>2, <2>4, <2>5, <2>6, <2>7, UsersAssumption DEF Rename, Goto, Shown
  <1>10. ASSUME NEW r \in Readers, ReadOpen(r)
         PROVE  Shown
    BY <1>10 DEF ReadOpen, Shown, Current, Committing, Wanted, Pending, Busy, Undisturbed
  <1>11. ASSUME NEW r \in Readers, ReadClose(r)
         PROVE  Shown
    <2>1. file \in Live' /\ tmp \in Live' /\ file' = file /\ tmp' = tmp
      BY <1>11 DEF ReadClose, Live
    <2>2. \A i \in Inodes : i \in Live' => content'[i] = content[i]
      BY <1>11, DiskIs DEF ReadClose, IInv, TypeOK
    <2>3. Current' = Current
      BY <1>11, <2>1, <2>2 DEF ReadClose, IInv, TypeOK, Current, Committing
    <2>4. Wanted' = Wanted /\ Committing' = Committing /\ up' = up
      BY <1>11 DEF ReadClose, Wanted, Committing, Pending, Busy, Undisturbed
    <2> QED
      BY <2>3, <2>4 DEF Shown
  <1>15. ASSUME NEW r \in Readers, ReadMiss(r)
         PROVE  Shown
    BY <1>15 DEF ReadMiss, Shown, Current, Committing, Wanted, Pending, Busy, Undisturbed
  <1>16. ASSUME NEW r \in Readers, ReadLeave(r)
         PROVE  Shown
    BY <1>16 DEF ReadLeave, Shown, Current, Committing, Wanted, Pending, Busy, Undisturbed
  <1>14. CASE UNCHANGED vars
    BY <1>14 DEF vars, Shown, Current, Committing, Wanted, Pending, Busy, Undisturbed
  <1> QED
    BY <1>1, <1>2, <1>3, <1>4, <1>5, <1>6, <1>7, <1>8, <1>9, <1>10, <1>11, <1>14, <1>15, <1>16
       DEF Next, Edit

(* Every step of the specification is a step of UserList, or none.         *)
LEMMA StepMaps ==
  ASSUME IInv, IInv', [Next]_vars
  PROVE  [UL!Next]_<<UsersOf(Current), Wanted, Undisturbed, Committing, up>>
  <1>0. /\ UsersOf(Current) \in [Names -> UL!Entries]
        /\ UsersOf(Current') \in [Names -> UL!Entries]
        /\ Wanted \in Op \cup {NoOp} /\ Wanted' \in Op \cup {NoOp}
        /\ UL!Ops = Op
        /\ Undisturbed \in BOOLEAN /\ Undisturbed' \in BOOLEAN
    BY CurrentType, ViewsNext, UsersOfType DEF UL!Ops, Op, ViewType, Undisturbed
  <1>1. CASE Kill
    <2>1. up = TRUE /\ up' = FALSE
      BY <1>1 DEF Kill, IInv, TypeOK
    <2>2. UL!Kill
      BY <1>1, <2>1, KillShows, EntryEmpty DEF UL!Kill, UsersOf
    <2> QED
      BY <2>2 DEF UL!Next
  <1>2. CASE Restart
    <2>1. up = FALSE /\ up' = TRUE
      BY <1>2 DEF Restart, IInv, TypeOK
    <2>2. UL!Restart
      BY <1>2, <2>1, RestartShows DEF UL!Restart, UsersOf
    <2> QED
      BY <2>2 DEF UL!Next
  <1>3. CASE ~Kill /\ ~Restart /\ (~Undisturbed \/ ~Undisturbed')
    <2>1. UL!Disturbed
      BY <1>0, <1>3, DisturbedShows DEF UL!Disturbed, UsersOf
    <2> QED
      BY <2>1 DEF UL!Next
  <1>4. CASE ~Kill /\ ~Restart /\ Undisturbed /\ Undisturbed'
    <2>0. Undisturbed = TRUE /\ Undisturbed' = TRUE
      BY <1>0, <1>4
    <2>1. CASE UNCHANGED <<Current, Wanted, Committing, up>>
      BY <2>0, <2>1 DEF UsersOf
    <2>2. CASE /\ up /\ UNCHANGED <<Current, up>>
               /\ Wanted = NoOp /\ Wanted' \in Op /\ Committing = FALSE /\ Committing' = FALSE
      <3>1. UL!Ask(Wanted')
        BY <2>0, <2>2 DEF UL!Ask, UsersOf
      <3> QED
        BY <1>0, <2>2, <3>1 DEF UL!Next
    <2>3. CASE /\ up /\ UNCHANGED up
               /\ Wanted \in Op /\ Wanted' = NoOp /\ Committing' = TRUE
               /\ Made(Current', Current, Wanted)
      <3>1. \A u \in Names : Entry(Current', u) = Goal(Current, Wanted, u)
        BY <2>3 DEF Made
      <3>2. UL!Change
        BY <2>0, <2>3, <3>1, UsersAssumption DEF UL!Change, Goal
      <3> QED
        BY <3>2 DEF UL!Next
    <2>4. CASE /\ up /\ UNCHANGED <<Current, Wanted, up>>
               /\ Committing = TRUE /\ Committing' = FALSE
      <3>1. UL!Placed
        BY <2>0, <2>4 DEF UL!Placed, UsersOf
      <3> QED
        BY <3>1 DEF UL!Next
    <2> QED
      BY <1>4, <2>1, <2>2, <2>3, <2>4, CalmStepMaps DEF Shown
  <1> QED
    BY <1>1, <1>2, <1>3, <1>4

(* A change that no other overlaps changes its own user as asked and no    *)
(* other; nothing else changes the list, except a kill between mg_remove   *)
(* and mg_rename, which empties it (mg_modify_passwords_file).             *)
THEOREM UsersImplementsUserList == Spec => ImplementsUserList
  <1>1. Init => IInv /\ UL!Init
    <2> SUFFICES ASSUME Init
                 PROVE  IInv /\ UL!Init
      OBVIOUS
    <2>1. IInv
      BY UsersInit
    <2>2. Undisturbed /\ \A e \in Editors : ~Busy(e)
      BY DEF Init, Undisturbed, Busy
    <2>3. Wanted = NoOp /\ Committing = FALSE /\ Undisturbed = TRUE /\ up = TRUE
      BY <2>2, IdleCurrent DEF IdleView, Init, Undisturbed
    <2>4. UsersOf(Current) \in [Names -> UL!Entries]
      BY <2>1, CurrentType, UsersOfType DEF ViewType
    <2> QED
      BY <2>1, <2>2, <2>3, <2>4 DEF UL!Init, UsersOf
  <1>2. IInv /\ [Next]_vars => IInv'
    BY UsersStep
  <1>3. IInv /\ IInv' /\ [Next]_vars =>
          [UL!Next]_<<[u \in Names |-> Entry(Current, u)], Wanted, Undisturbed,
                        Committing, up>>
    BY StepMaps DEF UsersOf
  <1> QED
    BY <1>1, <1>2, <1>3, PTL DEF Spec, ImplementsUserList, UL!Spec
=============================================================================
