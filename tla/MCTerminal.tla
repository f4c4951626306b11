----------------------------- MODULE MCTerminal -----------------------------
(* Small instances of Terminal for TLC.                                    *)
EXTENDS Terminal, TLC

\* Workers are interchangeable.
TerminalSymmetry == Permutations(Threads)
=============================================================================
