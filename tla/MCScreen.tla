------------------------------ MODULE MCScreen ------------------------------
(* Small instances of Screen for TLC.                                      *)
EXTENDS Screen, TLC

\* Workers are interchangeable, and so are pictures.
ScreenSymmetry == Permutations(Workers) \cup Permutations(Pics)
=============================================================================
