------------------------------ MODULE UserList ------------------------------
(***************************************************************************)
(* What the list of users promises: a change of a user that nobody         *)
(* disturbs changes that user as asked and no other, and nothing else      *)
(* changes the list, except a kill of the service in the moment in which a *)
(* changed list is put in place: it empties the list.  Changes that        *)
(* overlap (calm is FALSE while they run) promise nothing.                 *)
(***************************************************************************)
CONSTANTS Names, Hashes, Perms, All, Keep, NoPass, NoEntry, NoOp

VARIABLES
  users,   \* the entry of each name, NoEntry when it has none
  wanted,  \* the change that is under way and not yet made
  calm,    \* no two changes of users overlap
  placing, \* a changed list is being put in place
  up       \* the service runs

Entries == [ha1 : Hashes, perm : Perms] \cup {NoEntry}
Ops == [user : Names, pass : Hashes \cup {NoPass}, permissions : Perms \cup {Keep}]

\* What a change makes of the entry of the user it is about.
Changed(old, pass, permissions) ==
  CASE old = NoEntry /\ pass = NoPass -> NoEntry
    [] old = NoEntry /\ pass # NoPass -> [ha1 |-> pass, perm |-> All]
    [] old # NoEntry /\ permissions # Keep -> [old EXCEPT !.perm = permissions]
    [] old # NoEntry /\ permissions = Keep /\ pass # NoPass -> [old EXCEPT !.ha1 = pass]
    [] old # NoEntry /\ permissions = Keep /\ pass = NoPass -> NoEntry

Init == /\ users \in [Names -> Entries]
        /\ wanted = NoOp
        /\ calm = TRUE /\ placing = FALSE /\ up = TRUE

Ask(o) == /\ up /\ calm /\ ~placing /\ wanted = NoOp
          /\ wanted' = o
          /\ UNCHANGED <<users, calm, placing, up>>

Change == /\ up /\ calm /\ wanted # NoOp
          /\ users' = [users EXCEPT ![wanted.user] =
                         Changed(@, wanted.pass, wanted.permissions)]
          /\ wanted' = NoOp
          /\ placing' = TRUE
          /\ UNCHANGED <<calm, up>>

Placed == /\ up /\ placing
          /\ placing' = FALSE
          /\ UNCHANGED <<users, wanted, calm, up>>

Disturbed == /\ up
             /\ ~calm \/ ~calm'
             /\ calm' \in BOOLEAN
             /\ users' \in [Names -> Entries]
             /\ wanted' = NoOp /\ placing' = FALSE
             /\ UNCHANGED up

\* The change under way is lost, and the whole list with a change that was
\* being put in place.
Kill == /\ up /\ up' = FALSE
        /\ \/ users' = users
           \/ placing /\ users' = [u \in Names |-> NoEntry]
        /\ wanted' = NoOp /\ placing' = FALSE /\ calm' = TRUE

Restart == /\ ~up /\ up' = TRUE
           /\ UNCHANGED <<users, wanted, calm, placing>>

Next == \/ \E o \in Ops : Ask(o)
        \/ Change \/ Placed
        \/ Disturbed
        \/ Kill \/ Restart

Spec == Init /\ [][Next]_<<users, wanted, calm, placing, up>>
=============================================================================
