------------------------------ MODULE MCUsers -------------------------------
(* Small instances of Users for TLC.                                       *)
EXTENDS Users, TLC

\* Threads are interchangeable, and so are the user names and the hashes.
UsersSymmetry == Permutations(Editors) \cup Permutations(Names)
                 \cup Permutations(Hashes)
=============================================================================
