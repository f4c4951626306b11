------------------------------ MODULE MCHelper ------------------------------
(* Small instances of Helper for TLC.                                      *)
EXTENDS Helper

MCSources == <<"sms">>
=============================================================================
