------------------------------- MODULE Users --------------------------------
(***************************************************************************)
(* The users and permissions of the service: passwords.txt, the requests   *)
(* that change it (mg_modify_passwords_file of service/mongoose.cpp,       *)
(* called by setpassword, setpermission and config of service/webkey.cpp)  *)
(* and those that read it (authorize, the users page of config, the        *)
(* ManageUsers activity of the phone).                                     *)
(*                                                                         *)
(* A change copies the file line by line into passwords.txt.tmp, removes   *)
(* the file and renames the copy.  Every call runs on a thread of its own  *)
(* and no lock is taken, so calls may overlap.  The disk is modelled with  *)
(* inodes: a name refers to an inode, an open stream keeps its inode       *)
(* though the name is removed or taken by another file, and an inode that  *)
(* is neither named nor open is free.                                      *)
(*                                                                         *)
(* A line is a user, the hash of the password and the permissions; the     *)
(* realm is the same for all.  Which requests may change which user is     *)
(* decided before and not modelled: every change is possible.              *)
(*                                                                         *)
(* Operators named Bug... are faulty variants of the definition that       *)
(* follows them, used to see that the properties notice them.              *)
(***************************************************************************)
EXTENDS Integers, Sequences, FiniteSets

CONSTANTS
  Names,      \* user names
  Hashes,     \* what mg_md5 makes of a password
  Perms,      \* permission words
  All,        \* the permission word -1
  Keep,       \* -2: change the password, keep the permissions
  NoPass,     \* the empty password
  Editors,    \* threads that change users
  Readers,    \* threads, and activities of the phone, that read the list
  Inodes,     \* bound: inode numbers, more than are ever in use at once
  NoFile, NoEntry, NoOp,
  MaxLines,   \* bound: lines of the file at the start
  MaxEdits,   \* bound: changes of users
  MaxKills    \* bound: kills of the service

Lines == [user : Names, ha1 : Hashes, perm : Perms]
Op == [user : Names, pass : Hashes \cup {NoPass}, permissions : Perms \cup {Keep}]

ASSUME UsersAssumption ==
  /\ All \in Perms
  /\ Keep \notin Perms
  /\ NoPass \notin Hashes
  /\ NoFile \notin Inodes /\ Inodes # {}
  /\ NoOp \notin Op
  /\ NoEntry \notin [ha1 : Hashes, perm : Perms]
  /\ MaxLines \in Nat /\ MaxEdits \in Nat /\ MaxKills \in Nat

VARIABLES
  file, tmp,   \* the inodes that passwords.txt and passwords.txt.tmp name
  content,     \* the lines of each inode
  up,          \* the service runs
  edits, kills, \* changes and kills so far
  pc, op,      \* where each editor is, and the change it makes
  fp, fp2,     \* its streams: the list and the temporary file
  lines,       \* lines it has read
  out,         \* lines it has written to fp2 and not yet flushed
  found,
  rfp,         \* the stream of each reader
  alone,       \* history: no other change has overlapped this one
  before,      \* history: the list that a change that is alone began with
  missed,      \* the readers that found no list
  was, calm,   \* history: the list a reader opened, and whether only
               \* changes that are alone have run since
  orderly      \* history: no changes have overlapped since the service started

vars == <<file, tmp, content, up, edits, kills, pc, op, fp, fp2, lines, out, found,
          rfp, missed, alone, before, was, calm, orderly>>

EditorStates == {"idle", "create", "open", "tmp", "copy", "flush", "remove", "rename"}

Busy(e) == pc[e] # "idle"
\* No two changes are under way at once.
Undisturbed == \A e \in Editors : alone[e]
Reading(r) == rfp[r] # NoFile

\* The inodes in use, and the free ones.
Live == {file, tmp} \cup {fp[e] : e \in Editors} \cup {fp2[e] : e \in Editors}
                    \cup {rfp[r] : r \in Readers}
Free == Inodes \ Live
Fresh == CHOOSE i \in Free : TRUE
\* The disk after a step that leaves the lines c: what nothing refers to is gone.
Disk(c) == content' = [i \in Inodes |-> IF i \in Live' THEN c[i] ELSE <<>>]

\* What an earlier life of the service may have left: overlapping changes can
\* leave several lines for a user.
Lists == UNION {[1..n -> Lines] : n \in 0..MaxLines}

Init ==
  /\ file = CHOOSE i \in Inodes : TRUE
  /\ tmp = NoFile
  /\ \E s \in Lists : content = [i \in Inodes |-> IF i = file THEN s ELSE <<>>]
  /\ up = TRUE /\ edits = 0 /\ kills = 0
  /\ pc = [e \in Editors |-> "idle"]
  /\ op = [e \in Editors |-> NoOp]
  /\ fp = [e \in Editors |-> NoFile]
  /\ fp2 = [e \in Editors |-> NoFile]
  /\ lines = [e \in Editors |-> 0]
  /\ out = [e \in Editors |-> <<>>]
  /\ found = [e \in Editors |-> FALSE]
  /\ rfp = [r \in Readers |-> NoFile] /\ missed = {}
  /\ alone = [e \in Editors |-> TRUE]
  /\ before = [e \in Editors |-> <<>>]
  /\ was = [r \in Readers |-> <<>>]
  /\ calm = [r \in Readers |-> TRUE]
  /\ orderly = TRUE

-----------------------------------------------------------------------------
(* mg_modify_passwords_file                                                *)

Goto(e, from, to) == /\ up
                     /\ pc[e] = from
                     /\ pc' = [pc EXCEPT ![e] = to]

\* setpassword, setpermission and config call it for one user.
Start(e, o) ==
  LET clash == \E f \in Editors : Busy(f)
  IN /\ Goto(e, "idle", "create")
     /\ edits < MaxEdits /\ edits' = edits + 1
     /\ op' = [op EXCEPT ![e] = o]
     /\ alone' = [f \in Editors |-> IF f = e THEN ~clash
                                    ELSE IF Busy(f) THEN FALSE ELSE alone[f]]
     /\ before' = [f \in Editors |-> IF f = e /\ ~clash /\ file # NoFile
                                     THEN content[file] ELSE <<>>]
     /\ calm' = IF clash THEN [r \in Readers |-> FALSE] ELSE calm
     /\ orderly' = (orderly /\ ~clash)
     /\ UNCHANGED <<file, tmp, content, up, kills, fp, fp2, lines, out, found, rfp, missed, was>>

\* fopen(fname, "a+") creates the file if it is not there.
Create(e) ==
  /\ Goto(e, "create", "open")
  /\ Free # {}
  /\ file' = IF file = NoFile THEN Fresh ELSE file
  /\ UNCHANGED <<tmp, content, up, edits, kills, op, fp, fp2, lines, out, found,
                 rfp, alone, before, was, calm, missed, orderly>>

\* fopen(fname, "r"): another call may have removed it in between, then 0 is
\* returned.
Open(e) ==
  /\ up
  /\ pc[e] = "open"
  /\ pc' = [pc EXCEPT ![e] = IF file = NoFile THEN "idle" ELSE "tmp"]
  /\ fp' = [fp EXCEPT ![e] = file]
  /\ op' = [op EXCEPT ![e] = IF file = NoFile THEN NoOp ELSE @]
  /\ alone' = [alone EXCEPT ![e] = IF file = NoFile THEN TRUE ELSE @]
  /\ before' = [before EXCEPT ![e] = IF file = NoFile THEN <<>> ELSE @]
  /\ UNCHANGED <<file, tmp, content, up, edits, kills, fp2, lines, out, found, rfp, was, calm, missed, orderly>>

\* fopen(tmp, "w+") creates or empties the temporary file.
OpenTmp(e) ==
  /\ Goto(e, "tmp", "copy")
  /\ Free # {}
  /\ tmp' = IF tmp = NoFile THEN Fresh ELSE tmp
  /\ fp2' = [fp2 EXCEPT ![e] = tmp']
  /\ content' = [content EXCEPT ![tmp'] = <<>>]
  /\ lines' = [lines EXCEPT ![e] = 0]
  /\ UNCHANGED <<file, up, edits, kills, op, fp, out, found, rfp, alone, before, was, calm, missed, orderly>>

BugRewritten(l, o) ==
  IF o.pass = NoPass THEN <<>>
  ELSE IF o.permissions # Keep THEN <<[l EXCEPT !.perm = o.permissions]>>
  ELSE <<[l EXCEPT !.ha1 = o.pass]>>

\* What is written for a line of the user the change is about.
Rewritten(l, o) ==
  IF o.permissions # Keep THEN <<[l EXCEPT !.perm = o.permissions]>>
  ELSE IF o.pass # NoPass THEN <<[l EXCEPT !.ha1 = o.pass]>>
  ELSE <<>>

\* One turn of the loop that copies the lines.
CopyLine(e) ==
  /\ up
  /\ pc[e] = "copy"
  /\ lines[e] < Len(content[fp[e]])
  /\ LET l == content[fp[e]][lines[e] + 1]
         mine == l.user = op[e].user
     IN /\ out' = [out EXCEPT ![e] = @ \o (IF mine THEN Rewritten(l, op[e]) ELSE <<l>>)]
        /\ found' = [found EXCEPT ![e] = @ \/ mine]
  /\ lines' = [lines EXCEPT ![e] = @ + 1]
  /\ UNCHANGED <<file, tmp, content, up, edits, kills, pc, op, fp, fp2, rfp, alone, before, was, calm, missed, orderly>>

\* What is written for a user the list did not have.
Added(o, isFound) ==
  IF ~isFound /\ o.pass # NoPass
  THEN <<[user |-> o.user, ha1 |-> o.pass, perm |-> All]>> ELSE <<>>

BugCopyEnd(e) ==
  /\ Goto(e, "copy", "remove")
  /\ lines[e] >= Len(content[fp[e]])
  /\ out' = [out EXCEPT ![e] = @ \o Added(op[e], found[e])]
  /\ UNCHANGED <<file, tmp, content, up, edits, kills, op, fp, fp2, lines, found,
                 rfp, alone, before, was, calm, missed, orderly>>

\* The end of the list: a new user is added.
CopyEnd(e) ==
  /\ Goto(e, "copy", "flush")
  /\ lines[e] >= Len(content[fp[e]])
  /\ out' = [out EXCEPT ![e] = @ \o Added(op[e], found[e])]
  /\ UNCHANGED <<file, tmp, content, up, edits, kills, op, fp, fp2, lines, found,
                 rfp, alone, before, was, calm, missed, orderly>>

\* A stream writes from the start of its inode; what lies behind stays.
Overwrite(old, new) == new \o SubSeq(old, Len(new) + 1, Len(old))

BugFlush(e) ==
  /\ Goto(e, "flush", "remove")
  /\ fp' = [fp EXCEPT ![e] = NoFile]
  /\ fp2' = [fp2 EXCEPT ![e] = NoFile]
  /\ out' = [out EXCEPT ![e] = <<>>]
  /\ found' = [found EXCEPT ![e] = FALSE]
  /\ lines' = [lines EXCEPT ![e] = 0]
  /\ UNCHANGED <<file, tmp, up, edits, kills, op, rfp, alone, before, was, calm, missed, orderly>>
  /\ Disk([content EXCEPT ![fp[e]] = Overwrite(@, out[e])])

\* fclose of both streams: the copy reaches the disk.
Flush(e) ==
  /\ Goto(e, "flush", "remove")
  /\ fp' = [fp EXCEPT ![e] = NoFile]
  /\ fp2' = [fp2 EXCEPT ![e] = NoFile]
  /\ out' = [out EXCEPT ![e] = <<>>]
  /\ found' = [found EXCEPT ![e] = FALSE]
  /\ lines' = [lines EXCEPT ![e] = 0]
  /\ UNCHANGED <<file, tmp, up, edits, kills, op, rfp, alone, before, was, calm, missed, orderly>>
  /\ Disk([content EXCEPT ![fp2[e]] = Overwrite(@, out[e])])

\* mg_remove(fname), whose result is ignored.
Remove(e) ==
  /\ Goto(e, "remove", "rename")
  /\ file' = NoFile
  /\ UNCHANGED <<tmp, up, edits, kills, op, fp, fp2, lines, out, found, rfp, alone, before, was, calm, missed, orderly>>
  /\ Disk(content)

\* mg_rename(tmp, fname), whose result is ignored too, and the return of 1.
Rename(e) ==
  /\ Goto(e, "rename", "idle")
  /\ file' = IF tmp = NoFile THEN file ELSE tmp
  /\ tmp' = NoFile
  /\ op' = [op EXCEPT ![e] = NoOp]
  /\ alone' = [alone EXCEPT ![e] = TRUE]
  /\ before' = [before EXCEPT ![e] = <<>>]
  /\ UNCHANGED <<up, edits, kills, fp, fp2, lines, out, found, rfp, was, calm, missed, orderly>>
  /\ Disk(content)

-----------------------------------------------------------------------------
(* Readers: authorize, config, ManageUsers.getUsers                        *)

\* The stream is opened.
ReadOpen(r) ==
  /\ ~Reading(r) /\ r \notin missed
  /\ file # NoFile
  /\ rfp' = [rfp EXCEPT ![r] = file]
  /\ was' = [was EXCEPT ![r] = content[file]]
  /\ calm' = [calm EXCEPT ![r] = Undisturbed]
  /\ UNCHANGED <<file, tmp, content, up, edits, kills, pc, op, fp, fp2, lines, out, found,
                 alone, before, missed, orderly>>

\* fopen fails: the reader goes on without a list.  check_authorization then
\* has nobody to look up and lets the request pass, config leaves its page
\* unfinished, and getUsers shows no users.
ReadMiss(r) ==
  /\ ~Reading(r) /\ r \notin missed
  /\ file = NoFile
  /\ missed' = missed \cup {r}
  /\ UNCHANGED <<file, tmp, content, up, edits, kills, pc, op, fp, fp2, lines, out, found,
                 rfp, alone, before, was, calm, orderly>>

\* It is done.
ReadLeave(r) ==
  /\ r \in missed
  /\ missed' = missed \ {r}
  /\ UNCHANGED <<file, tmp, content, up, edits, kills, pc, op, fp, fp2, lines, out, found,
                 rfp, alone, before, was, calm, orderly>>

\* The lines are read and the stream is closed.
ReadClose(r) ==
  /\ Reading(r)
  /\ rfp' = [rfp EXCEPT ![r] = NoFile]
  /\ was' = [was EXCEPT ![r] = <<>>]
  /\ calm' = [calm EXCEPT ![r] = TRUE]
  /\ UNCHANGED <<file, tmp, up, edits, kills, pc, op, fp, fp2, lines, out, found, alone,
                 before, missed, orderly>>
  /\ Disk(content)

-----------------------------------------------------------------------------
(* The service is killed and started again                                 *)

\* kill -9 ends every thread between two of its system calls; what was not
\* flushed is lost.  The phone's activities go on reading.
Kill ==
  /\ up /\ kills < MaxKills
  /\ up' = FALSE
  /\ kills' = kills + 1
  /\ pc' = [e \in Editors |-> "idle"]
  /\ op' = [e \in Editors |-> NoOp]
  /\ fp' = [e \in Editors |-> NoFile]
  /\ fp2' = [e \in Editors |-> NoFile]
  /\ lines' = [e \in Editors |-> 0]
  /\ out' = [e \in Editors |-> <<>>]
  /\ found' = [e \in Editors |-> FALSE]
  /\ alone' = [e \in Editors |-> TRUE]
  /\ before' = [e \in Editors |-> <<>>]
  /\ UNCHANGED <<file, tmp, edits, rfp, was, calm, missed, orderly>>
  /\ Disk(content)

\* main() creates an empty file when there is none.
Restart ==
  /\ ~up
  /\ up' = TRUE
  /\ Free # {}
  /\ file' = IF file = NoFile THEN Fresh ELSE file
  /\ orderly' = TRUE
  /\ UNCHANGED <<tmp, content, edits, kills, pc, op, fp, fp2, lines, out, found,
                 rfp, alone, before, was, calm, missed>>

Edit(e) ==
  \/ \E o \in Op : Start(e, o)
  \/ Create(e) \/ Open(e) \/ OpenTmp(e) \/ CopyLine(e) \/ CopyEnd(e)
  \/ Flush(e) \/ Remove(e) \/ Rename(e)

Next ==
  \/ \E e \in Editors : Edit(e)
  \/ \E r \in Readers : \/ ReadOpen(r) \/ ReadClose(r)
                       \/ ReadMiss(r) \/ ReadLeave(r)
  \/ Kill \/ Restart

Spec == Init /\ [][Next]_vars

-----------------------------------------------------------------------------
(* Properties                                                              *)

TypeOK ==
  /\ file \in Inodes \cup {NoFile} /\ tmp \in Inodes \cup {NoFile}
  /\ content \in [Inodes -> Seq(Lines)]
  /\ up \in BOOLEAN /\ edits \in 0..MaxEdits /\ kills \in 0..MaxKills
  /\ pc \in [Editors -> EditorStates] /\ op \in [Editors -> Op \cup {NoOp}]
  /\ fp \in [Editors -> Inodes \cup {NoFile}]
  /\ fp2 \in [Editors -> Inodes \cup {NoFile}]
  /\ lines \in [Editors -> Nat] /\ out \in [Editors -> Seq(Lines)]
  /\ found \in [Editors -> BOOLEAN]
  /\ rfp \in [Readers -> Inodes \cup {NoFile}]
  /\ alone \in [Editors -> BOOLEAN] /\ before \in [Editors -> Seq(Lines)]
  /\ was \in [Readers -> Seq(Lines)] /\ calm \in [Readers -> BOOLEAN]
  /\ missed \subseteq Readers /\ orderly \in BOOLEAN

\* The entry authorize() finds for a user: that of its first line.
Has(s, u) == \E i \in 1..Len(s) : s[i].user = u
First(s, u) == CHOOSE i \in 1..Len(s) : /\ s[i].user = u
                                        /\ \A j \in 1..(i-1) : s[j].user # u
Entry(s, u) == IF Has(s, u)
               THEN [ha1 |-> s[First(s, u)].ha1, perm |-> s[First(s, u)].perm]
               ELSE NoEntry

\* The list in effect.  Between mg_remove and mg_rename it is the copy.
Committing == \E e \in Editors : pc[e] = "rename" /\ alone[e]
Current == IF file # NoFile THEN content[file]
           ELSE IF Committing /\ tmp # NoFile THEN content[tmp]
           ELSE <<>>

\* The change under way, until mg_remove makes it take effect.
Pending(e) == Busy(e) /\ pc[e] # "rename"
Wanted == IF Undisturbed /\ \E e \in Editors : Pending(e)
          THEN op[CHOOSE e \in Editors : Pending(e)] ELSE NoOp

UL == INSTANCE UserList WITH users <- [u \in Names |-> Entry(Current, u)],
                             wanted <- Wanted, calm <- Undisturbed,
                             placing <- Committing

\* A change that no other change overlaps changes its own user as asked and
\* keeps every other line, whatever kills and overlapping changes have left
\* on the disk before it; nothing else changes the list, except a kill
\* between mg_remove and mg_rename, which empties it.
ImplementsUserList == UL!Spec

\* As long as changes do not overlap, a reader gets the list from before a
\* change or from after it, never a part of one: the list it has opened does
\* not change while it reads, and it finds none only between the mg_remove
\* and the mg_rename of a change.
ListIsStable ==
  /\ \A r \in Readers : Reading(r) /\ calm[r] => content[rfp[r]] = was[r]
  /\ up /\ orderly /\ file = NoFile => \E e \in Editors : pc[e] = "rename"

\* Whenever a kill may come during a change that is alone, the disk holds a
\* whole list: under its own name the one from before, or, between mg_remove
\* and mg_rename, in passwords.txt.tmp the changed one.
ListOnDisk ==
  \A e \in Editors : Busy(e) /\ alone[e] =>
    \/ /\ file # NoFile /\ content[file] = before[e]
    \/ /\ before[e] = <<>> /\ pc[e] = "create"
    \/ /\ pc[e] = "rename" /\ tmp # NoFile
       /\ \A u \in Names :
            Entry(content[tmp], u) =
              IF u = op[e].user
              THEN UL!Changed(Entry(before[e], u), op[e].pass, op[e].permissions)
              ELSE Entry(before[e], u)
=============================================================================
