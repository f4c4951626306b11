---------------------------- MODULE MCBackServer ----------------------------
(* Small instances of BackServer for TLC.                                  *)
EXTENDS BackServer, TLC

\* Connection threads are interchangeable.
ConnSymmetry == Permutations(Conns)
=============================================================================
