------------------------------- MODULE MCChat -------------------------------
(* Small instances of Chat for TLC.                                        *)
EXTENDS Chat

CONSTANTS t1, t2, ann, bob

\* One tab per account.
MCOwner == [t \in Tabs |-> IF t = t1 THEN ann ELSE bob]
=============================================================================
