----------------------------- MODULE MCJournal -----------------------------
(* Small instances of Journal for TLC.                                     *)
EXTENDS Journal
CONSTANTS p1, p2, c1, k1
TwoProcs == {p1, p2}
OneCaller == {c1}
OneKey == {k1}
=============================================================================
